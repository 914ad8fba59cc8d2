------------------------------- MODULE Netchan -------------------------------
(***************************************************************************)
(* One direction of a netchan (qcommon/net_chan.c), from the server to one *)
(* client, with the queue the server keeps in front of it                  *)
(* (server/sv_net_chan.c).                                                 *)
(*                                                                         *)
(* A message shorter than FRAGMENT_SIZE is one packet.  A longer one is    *)
(* sent a fragment at a time, and messages handed over meanwhile wait in a *)
(* queue.  The receiver puts fragments together in order and drops         *)
(* whatever is late, duplicated or has a gap before it.                    *)
(*                                                                         *)
(* The network is the set of all packets ever sent: any of them may be     *)
(* received at any time, any number of times, or never, so packets are     *)
(* lost, duplicated, delayed and reordered without restriction.            *)
(*                                                                         *)
(* A message is its ordinal among those handed over on its connection; its *)
(* i-th byte is <<challenge, ordinal, i>>, so that bytes of two messages,  *)
(* or of two connections, never look alike.                                *)
(***************************************************************************)
EXTENDS Integers, Sequences

CONSTANTS
    FRAGMENT_SIZE,      \* bytes of message in a full fragment
    MAX_MSGLEN,         \* size of the receiver's fragment buffer
    Lengths,            \* the lengths the code above hands over
    MaxMessages,        \* bound: messages handed over on one connection
    MaxEpoch            \* bound: times the connection is set up

ASSUME SizesAssumption ==
    /\ FRAGMENT_SIZE \in Nat \ {0}
    /\ MAX_MSGLEN \in Nat
    /\ Lengths \subseteq 1..MAX_MSGLEN
    /\ MaxMessages \in Nat
    /\ MaxEpoch \in Nat \ {0}

VARIABLES
    (* the sender: client_t.netchan and client_t.netchan_start_queue *)
    state,                  \* client_t.state; connected is any from CS_CONNECTED on
    challenge,              \* of the connection; each set-up uses a new one
    sent,                   \* history: sent[c] is what was handed over under challenge
                            \* c, and not discarded while it waited
    queue,                  \* messages waiting behind a fragmented one
    outgoingSequence,
    unsentFragments,
    unsentFragmentStart,
    unsentMessage,          \* whose bytes unsentBuffer holds
    unsentLength,
    (* the receiver: clc.netchan *)
    receiverChallenge,
    incomingSequence,
    fragmentSequence,
    fragmentLength,
    fragmentBuffer,
    delivered,              \* history: messages Netchan_Process returned
    (* the network *)
    net

senderVars == <<state, challenge, sent, queue, outgoingSequence, unsentFragments,
                unsentFragmentStart, unsentMessage, unsentLength>>
receiverVars == <<receiverChallenge, incomingSequence, fragmentSequence,
                  fragmentLength, fragmentBuffer, delivered>>
vars == <<senderVars, receiverVars, net>>

Epochs == 1..MaxEpoch
Offsets == 0..(MAX_MSGLEN - 1)
Bytes == Nat \X Nat \X Nat
Byte(c, m, i) == <<c, m, i>>
NoByte == Byte(0, 0, 0)

Packets == [challenge : Epochs, sequence : Nat, fragmented : BOOLEAN,
            start : Nat, length : Nat, message : Nat]

-----------------------------------------------------------------------------
(* Initially both ends have just been set up under the first challenge.    *)

Init ==
    /\ state = "connected"
    /\ challenge = 1
    /\ sent = [c \in Epochs |-> <<>>]
    /\ queue = <<>>
    /\ outgoingSequence = 1
    /\ unsentFragments = FALSE
    /\ unsentFragmentStart = 0
    /\ unsentMessage = 0
    /\ unsentLength = 0
    /\ receiverChallenge = 1
    /\ incomingSequence = 0
    /\ fragmentSequence = 0
    /\ fragmentLength = 0
    /\ fragmentBuffer = [i \in Offsets |-> NoByte]
    /\ delivered = <<>>
    /\ net = {}

(* Netchan_Setup at the server, when the client connects again             *)
(* (SV_DirectConnect): the old queue goes with the old client_t.           *)
SenderSetup ==
    /\ challenge < MaxEpoch
    /\ state' = "connected"
    /\ challenge' = challenge + 1
    /\ queue' = <<>>
    /\ outgoingSequence' = 1
    /\ unsentFragments' = FALSE
    /\ unsentFragmentStart' = 0
    /\ unsentMessage' = 0
    /\ unsentLength' = 0
    /\ UNCHANGED <<sent, receiverVars, net>>

(* Netchan_Setup at the client, when it is told it is connected.           *)
ReceiverSetup ==
    /\ receiverChallenge # challenge
    /\ receiverChallenge' = challenge
    /\ incomingSequence' = 0
    /\ fragmentSequence' = 0
    /\ fragmentLength' = 0
    /\ fragmentBuffer' = [i \in Offsets |-> NoByte]
    /\ delivered' = <<>>
    /\ UNCHANGED <<senderVars, net>>

(* SV_DropClient: SV_Netchan_FreeQueue discards what waits, so that the    *)
(* numbers of the discarded are those of messages to come; a message that  *)
(* is being sent in fragments goes on.  The client is a zombie for some    *)
(* seconds, to which the server sends as before, or is free at once when   *)
(* it timed out (SV_CheckTimeouts).                                        *)
SentButQueue == SubSeq(sent[challenge], 1, Len(sent[challenge]) - Len(queue))
SV_DropClient ==
    /\ state = "connected"
    /\ queue' = <<>>
    /\ sent' = [sent EXCEPT ![challenge] = SentButQueue]
    /\ state' \in {"zombie", "free"}
    /\ UNCHANGED <<challenge, outgoingSequence, unsentFragments, unsentFragmentStart,
                   unsentMessage, unsentLength, receiverVars, net>>

(* SV_CheckTimeouts: sv_zombietime has passed. *)
ZombieToFree ==
    /\ state = "zombie"
    /\ state' = "free"
    /\ UNCHANGED <<challenge, sent, queue, outgoingSequence, unsentFragments,
                   unsentFragmentStart, unsentMessage, unsentLength, receiverVars, net>>

-----------------------------------------------------------------------------
(* Sending.                                                                *)

PieceLength(start, length) ==
    IF start + FRAGMENT_SIZE > length THEN length - start ELSE FRAGMENT_SIZE

(* Mutants: the end of the message ends it, full fragment or not; the end  *)
(* is never noticed.                                                       *)
IsLastPiece_FullFragmentEnds(start, n, length) == start + n = length
IsLastPiece_Strict(start, n, length) == start + n > length

(* A message ends with a fragment that is not full, even if it is empty.   *)
IsLastPiece(start, n, length) == start + n = length /\ n # FRAGMENT_SIZE

(* Netchan_TransmitNextFragment for length bytes of message m, from start. *)
SendPiece(m, length, start) ==
    LET n == PieceLength(start, length)
        last == IsLastPiece(start, n, length)
    IN  /\ net' = net \cup
              {[challenge |-> challenge, sequence |-> outgoingSequence,
                fragmented |-> TRUE, start |-> start, length |-> n, message |-> m]}
        /\ unsentMessage' = m
        /\ unsentLength' = length
        /\ unsentFragmentStart' = start + n
        /\ unsentFragments' = ~last
        /\ outgoingSequence' = IF last THEN outgoingSequence + 1 ELSE outgoingSequence

SendWhole(m, length) ==
    /\ net' = net \cup
          {[challenge |-> challenge, sequence |-> outgoingSequence,
            fragmented |-> FALSE, start |-> 0, length |-> length, message |-> m]}
    /\ unsentFragmentStart' = 0
    /\ outgoingSequence' = outgoingSequence + 1
    /\ UNCHANGED <<unsentMessage, unsentLength, unsentFragments>>

Netchan_Transmit(m, length) ==
    IF length >= FRAGMENT_SIZE THEN SendPiece(m, length, 0) ELSE SendWhole(m, length)

MustQueue == unsentFragments \/ queue # <<>>

(* The server has a message for the client, dropped or not.                *)
SV_Netchan_Transmit(length) ==
    LET m == Len(sent[challenge]) + 1
    IN  /\ state # "free"
        /\ Len(sent[challenge]) < MaxMessages
        /\ sent' = [sent EXCEPT ![challenge] = Append(@, length)]
        /\ \/ /\ MustQueue
              /\ queue' = Append(queue, m)
              /\ UNCHANGED <<outgoingSequence, unsentFragments, unsentFragmentStart,
                             unsentMessage, unsentLength, net>>
           \/ /\ ~MustQueue
              /\ Netchan_Transmit(m, length)
              /\ UNCHANGED queue
        /\ UNCHANGED <<state, challenge, receiverVars>>

(* The rest of a fragmented message goes before anything that waits.       *)
SV_Netchan_TransmitNextFragment ==
    /\ state # "free"
    /\ \/ /\ unsentFragments
          /\ SendPiece(unsentMessage, unsentLength, unsentFragmentStart)
          /\ UNCHANGED queue
       \/ /\ ~unsentFragments
          /\ queue # <<>>
          /\ Netchan_Transmit(Head(queue), sent[challenge][Head(queue)])
          /\ queue' = Tail(queue)
    /\ UNCHANGED <<state, challenge, sent, receiverVars>>

-----------------------------------------------------------------------------
(* Receiving: Netchan_Process(p).                                          *)

(* Mutant: no checksum, as for protocols before the challenge was added.   *)
ChecksumMatches_Ignored(p) == TRUE

ChecksumMatches(p) == p.challenge = receiverChallenge
IsNew(p) == p.sequence > incomingSequence

HandUp(seq, n, bytes) ==
    /\ delivered' = Append(delivered, [sequence |-> seq, length |-> n, bytes |-> bytes])
    /\ incomingSequence' = seq

ProcessWhole(p) ==
    /\ HandUp(p.sequence, p.length,
              [i \in 0..(p.length - 1) |-> Byte(p.challenge, p.message, i)])
    /\ UNCHANGED <<fragmentSequence, fragmentLength, fragmentBuffer>>

(* What has been put together of the message p belongs to.                 *)
Assembled(p) == IF p.sequence # fragmentSequence THEN 0 ELSE fragmentLength

(* Mutant: fragments are appended as they come.                            *)
Follows_AnyOrder(p, have) == have + p.length <= MAX_MSGLEN

(* A gap before the fragment, or no room for it: what is there is kept.    *)
Follows(p, have) == p.start = have /\ have + p.length <= MAX_MSGLEN

Copied(p, have) ==
    [i \in Offsets |-> IF have <= i /\ i < have + p.length
                       THEN Byte(p.challenge, p.message, p.start + (i - have))
                       ELSE fragmentBuffer[i]]

ProcessFragment(p) ==
    LET have == Assembled(p)
        now == have + p.length
        bytes == Copied(p, have)
    IN  /\ fragmentSequence' = p.sequence
        /\ \/ /\ ~Follows(p, have)
              /\ fragmentLength' = have
              /\ UNCHANGED <<fragmentBuffer, incomingSequence, delivered>>
           \/ /\ Follows(p, have)
              /\ p.length = FRAGMENT_SIZE
              /\ fragmentBuffer' = bytes
              /\ fragmentLength' = now
              /\ UNCHANGED <<incomingSequence, delivered>>
           \/ /\ Follows(p, have)
              /\ p.length # FRAGMENT_SIZE
              /\ fragmentBuffer' = bytes
              /\ fragmentLength' = 0
              /\ HandUp(p.sequence, now, [i \in 0..(now - 1) |-> bytes[i]])

(* A packet that fails a check changes nothing, so it needs no action.     *)
Netchan_Process(p) ==
    /\ ChecksumMatches(p)
    /\ IsNew(p)
    /\ \/ p.fragmented /\ ProcessFragment(p)
       \/ ~p.fragmented /\ ProcessWhole(p)
    /\ UNCHANGED <<receiverChallenge, senderVars, net>>

-----------------------------------------------------------------------------

Next ==
    \/ SenderSetup
    \/ ReceiverSetup
    \/ SV_DropClient
    \/ ZombieToFree
    \/ \E length \in Lengths : SV_Netchan_Transmit(length)
    \/ SV_Netchan_TransmitNextFragment
    \/ \E p \in net : Netchan_Process(p)

Spec == Init /\ [][Next]_vars

(* The server calls SV_SendQueuedPackets for ever, for every client that   *)
(* is not free, and SV_RateMsec holds a packet back for a bounded time     *)
(* only: what can be sent is sent.                                         *)
FairSpec == Spec /\ WF_vars(SV_Netchan_TransmitNextFragment)

-----------------------------------------------------------------------------
(* Properties.                                                             *)

(* Every variable holds a value of its type.                               *)
TypeOK ==
    /\ state \in {"connected", "zombie", "free"}
    /\ challenge \in Epochs
    /\ sent \in [Epochs -> Seq(Lengths)]
    /\ queue \in Seq(Nat)
    /\ outgoingSequence \in Nat \ {0}
    /\ unsentFragments \in BOOLEAN
    /\ unsentFragmentStart \in Nat
    /\ unsentMessage \in Nat
    /\ unsentLength \in Nat
    /\ receiverChallenge \in Epochs
    /\ incomingSequence \in Nat
    /\ fragmentSequence \in Nat
    /\ fragmentLength \in 0..MAX_MSGLEN
    /\ fragmentBuffer \in [Offsets -> Bytes]
    /\ net \subseteq Packets

(* The messages that have not gone out completely are the last ones handed *)
(* over: first the one being fragmented, then the queue, in order.         *)
Unfinished == IF unsentFragments THEN 1 ELSE 0
SenderInOrder ==
    /\ outgoingSequence + Unfinished + Len(queue) = Len(sent[challenge]) + 1
    /\ \A i \in 1..Len(queue) : queue[i] = outgoingSequence + Unfinished + i - 1
    /\ unsentFragments =>
          /\ unsentMessage = outgoingSequence
          /\ unsentLength = sent[challenge][outgoingSequence]
          /\ unsentFragmentStart <= unsentLength
    /\ \A c \in Epochs : c > challenge => sent[c] = <<>>

(* The messages of connection c that have begun to go out, and can not be  *)
(* discarded any more.                                                     *)
Started(c) == IF c = challenge THEN outgoingSequence + Unfinished - 1 ELSE Len(sent[c])

(* A packet carries the message its sequence number counts, and a piece of *)
(* it that is not full is its end.                                         *)
Honest(p) ==
    /\ p.challenge <= challenge
    /\ p.message = p.sequence
    /\ p.sequence \in 1..Started(p.challenge)
    /\ p.start + p.length <= sent[p.challenge][p.sequence]
    /\ p.fragmented /\ p.length # FRAGMENT_SIZE =>
          p.start + p.length = sent[p.challenge][p.sequence]
    /\ ~p.fragmented => p.start = 0 /\ p.length = sent[p.challenge][p.sequence]
PacketsHonest == \A p \in net : Honest(p)

(* What the receiver has put together is a prefix of the message whose     *)
(* sequence number it remembers.                                           *)
BufferIsPrefix ==
    /\ receiverChallenge <= challenge
    /\ fragmentLength > 0 =>
          fragmentSequence \in 1..Started(receiverChallenge)
    /\ \A i \in Offsets : i < fragmentLength =>
          fragmentBuffer[i] = Byte(receiverChallenge, fragmentSequence, i)

(* Every message the receiver returns (Netchan_Process) is, byte for byte, *)
(* one the sender handed over on this connection, and they come in the     *)
(* order they were handed over, none twice, whatever the network does.     *)
Message(c, k) ==
    [sequence |-> k, length |-> sent[c][k],
     bytes |-> [i \in 0..(sent[c][k] - 1) |-> Byte(c, k, i)]]
DeliveredWhole ==
    /\ delivered \in Seq({Message(receiverChallenge, k) :
                             k \in 1..Started(receiverChallenge)})
    /\ \A i \in DOMAIN delivered : delivered[i].sequence <= incomingSequence
    /\ \A i, j \in DOMAIN delivered :
          i < j => delivered[i].sequence < delivered[j].sequence

(* The inductive invariant.                                                *)
IInv ==
    /\ TypeOK
    /\ SenderInOrder
    /\ PacketsHonest
    /\ BufferIsPrefix
    /\ DeliveredWhole

(* Once the sender has moved on from a message, packets enough to put it   *)
(* together have been sent, the empty one included that ends a message of  *)
(* exactly so many full fragments: nothing is cut off.                     *)
WasSent(k, fragmented, start, n) ==
    [challenge |-> challenge, sequence |-> k, fragmented |-> fragmented,
     start |-> start, length |-> n, message |-> k] \in net
SentCompletely ==
    \A k \in 1..(outgoingSequence - 1) :
       LET n == sent[challenge][k]
       IN  \/ WasSent(k, FALSE, 0, n)
           \/ \A j \in 0..(n \div FRAGMENT_SIZE) :
                 LET start == j * FRAGMENT_SIZE
                 IN  WasSent(k, TRUE, start, IF n - start < FRAGMENT_SIZE
                                             THEN n - start ELSE FRAGMENT_SIZE)

(* A netchan is an ordered, lossy stream of whole messages.                *)
Stream == INSTANCE OrderedDatagrams WITH
              senderEpoch <- challenge, receiverEpoch <- receiverChallenge
ImplementsStream == Stream!Spec

(* A message handed over is eventually sent to its end, queued or not, to  *)
(* a zombie too, unless it is discarded while it waits, when the client is *)
(* dropped, or the connection is set up again or freed before its turn.    *)
QueueDrains ==
    \A c \in Epochs : \A k \in 1..MaxMessages :
       (challenge = c /\ state # "free" /\ Len(sent[c]) >= k)
          ~> (challenge > c \/ state = "free" \/ outgoingSequence > k \/ Len(sent[c]) < k)
=============================================================================
