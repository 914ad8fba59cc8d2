-------------------------- MODULE OrderedDatagrams --------------------------
(***************************************************************************)
(* What a netchan (qcommon/net_chan.c) promises the code above it, with no *)
(* packet, no fragment and no queue in sight: of the messages handed over  *)
(* on one connection, some are delivered, whole, each at most once and in  *)
(* the order they were handed over.  Nothing is promised about the others, *)
(* and the last ones may be discarded before any of them is delivered.     *)
(* Setting a connection up again starts a new, empty stream.               *)
(***************************************************************************)
EXTENDS Naturals, Sequences

CONSTANTS
    Lengths,            \* the lengths a message may have
    MaxEpoch            \* how many connections are made

VARIABLES
    sent,               \* sent[e]: lengths of the messages handed over on connection e
    senderEpoch,        \* the connection the sender is on
    receiverEpoch,      \* the connection the receiver is on
    delivered           \* the messages the receiver was given on its connection

vars == <<sent, senderEpoch, receiverEpoch, delivered>>

(* The k-th message of connection e, n bytes long: byte i is <<e, k, i>>.   *)
Message(e, k, n) ==
    [sequence |-> k, length |-> n, bytes |-> [i \in 0..(n - 1) |-> <<e, k, i>>]]

Init ==
    /\ sent = [e \in 1..MaxEpoch |-> <<>>]
    /\ senderEpoch = 1
    /\ receiverEpoch = 1
    /\ delivered = <<>>

HandOver(n) ==
    /\ sent' = [sent EXCEPT ![senderEpoch] = Append(@, n)]
    /\ UNCHANGED <<senderEpoch, receiverEpoch, delivered>>

(* All but the first k messages are discarded, the client being dropped.   *)
Discard(k) ==
    /\ receiverEpoch = senderEpoch => \A i \in DOMAIN delivered : delivered[i].sequence <= k
    /\ sent' = [sent EXCEPT ![senderEpoch] = SubSeq(@, 1, k)]
    /\ UNCHANGED <<senderEpoch, receiverEpoch, delivered>>

SenderReconnects ==
    /\ senderEpoch < MaxEpoch
    /\ senderEpoch' = senderEpoch + 1
    /\ UNCHANGED <<sent, receiverEpoch, delivered>>

ReceiverReconnects ==
    /\ receiverEpoch' = senderEpoch
    /\ delivered' = <<>>
    /\ UNCHANGED <<sent, senderEpoch>>

(* Message k, later than all those delivered so far, arrives whole.        *)
Deliver(k) ==
    /\ \A i \in DOMAIN delivered : delivered[i].sequence < k
    /\ delivered' = Append(delivered,
                           Message(receiverEpoch, k, sent[receiverEpoch][k]))
    /\ UNCHANGED <<sent, senderEpoch, receiverEpoch>>

Next ==
    \/ \E n \in Lengths : HandOver(n)
    \/ \E k \in 0..Len(sent[senderEpoch]) : Discard(k)
    \/ SenderReconnects
    \/ ReceiverReconnects
    \/ \E k \in 1..Len(sent[receiverEpoch]) : Deliver(k)

Spec == Init /\ [][Next]_vars
=============================================================================
