----------------------------- MODULE Connection ------------------------------
(***************************************************************************)
(* How a client gets a connection: it asks for a challenge until it has    *)
(* one (SV_GetChallenge), repeats it in "connect" until it is answered     *)
(* (SV_DirectConnect), and may leave, or be dropped, at any time; while    *)
(* connectionless packets are lost, delayed, duplicated and reordered, and *)
(* others ask for challenges, of which the server keeps a limited number.  *)
(*                                                                         *)
(* One client and its slot; what the slots are to each other and to the    *)
(* game is in ClientSlots.  Time is in seconds.                            *)
(***************************************************************************)
EXTENDS Integers, FiniteSets, FiniteSetsExt

CONSTANTS Challenges,       \* numbers the server draws; used again when nobody knows them
          ClientNumbers,    \* those the client draws for "getchallenge"
          Nothing,
          MaxChallenges,    \* MAX_CHALLENGES
          MultiChallenges,  \* MAX_CHALLENGES_MULTI
          Retransmit,       \* RETRANSMIT_TIMEOUT
          ReconnectLimit,   \* sv_reconnectlimit
          ZombieTime,       \* sv_zombietime
          Timeout,          \* sv_timeout
          Lifetime,         \* how long a packet can be on its way
          MaxPackets        \* bound: on their way at once

ASSUME ConnectionAssumption ==
    /\ Nothing \notin Challenges \cup ClientNumbers
    /\ MaxChallenges \in Nat \ {0} /\ MultiChallenges \in 1..MaxChallenges
    /\ {Retransmit, ReconnectLimit, ZombieTime, Timeout, Lifetime, MaxPackets} \subseteq Nat

VARIABLES client,       \* clc.state, clc.challenge, time since connectTime
          table,        \* svs.challenges
          slot,         \* the client's client_t: state, challenge, times since lastConnectTime
                        \* and lastPacketTime, whether netchan has received a packet
          net           \* connectionless packets, and the last ones of a connection

connVars == <<client, table, slot, net>>

TableEntries == 1..MaxChallenges
ChallengeEntry ==
    [owner : {"us", "other", "none"}, challenge : Challenges \cup {Nothing}, connected : BOOLEAN]
PacketKinds == {"getchallenge", "challengeResponse", "connect", "connectResponse", "print", "disconnect"}

ConnTypeOK ==
    /\ client.state \in {"disconnected", "connecting", "challenging", "connected"}
    /\ client.challenge \in Challenges \cup ClientNumbers \cup {Nothing}
    /\ client.sinceSent \in 0..Retransmit
    /\ table \in [TableEntries -> ChallengeEntry]
    /\ slot.state \in {"free", "connected", "zombie"} /\ slot.challenge \in Challenges \cup {Nothing}
    /\ slot.sinceConnect \in 0..ReconnectLimit /\ slot.silent \in 0..Timeout
    /\ slot.heard \in BOOLEAN
    /\ \A p \in net : p.kind \in PacketKinds /\ p.left \in 0..Lifetime
-----------------------------------------------------------------------------
(* Packets: a challenge and, in "challengeResponse", the client's number.  *)
ConnPacket(kind, challenge, number) ==
    [kind |-> kind, challenge |-> challenge, number |-> number, left |-> Lifetime]
PrintPacket == ConnPacket("print", Nothing, Nothing)

(* Packet p is received; it may come again later. *)
Received(p, replies) ==
    LET once == (net \ {p}) \cup replies
    IN  \/ net' = once
        \/ net' = once \cup {p} /\ Cardinality(net') <= MaxPackets

FreshChallenges ==
    Challenges \ ({table[i].challenge : i \in TableEntries} \cup {p.challenge : p \in net}
                      \cup {client.challenge, slot.challenge})
FreshNumbers == ClientNumbers \ ({p.number : p \in net} \cup {client.challenge})

CL_Connect_f ==
    /\ client.state = "disconnected"
    /\ \E number \in FreshNumbers :
          client' = [state |-> "connecting", challenge |-> number, sinceSent |-> Retransmit]
    /\ UNCHANGED <<table, slot, net>>

CL_CheckForResend ==
    /\ client.state \in {"connecting", "challenging"} /\ client.sinceSent = Retransmit
    /\ Cardinality(net) < MaxPackets
    /\ client' = [client EXCEPT !.sinceSent = 0]
    /\ net' = net \cup {IF client.state = "connecting"
                        THEN ConnPacket("getchallenge", Nothing, client.challenge)
                        ELSE ConnPacket("connect", client.challenge, Nothing)}
    /\ UNCHANGED <<table, slot>>

(* CL_Disconnect, at the user's wish or the server's. *)
CL_Disconnect ==
    /\ client.state # "disconnected"
    /\ client' = [state |-> "disconnected", challenge |-> Nothing, sinceSent |-> 0]
    /\ net' = IF client.state = "connected" THEN net \cup {ConnPacket("disconnect", client.challenge, Nothing)}
              ELSE net
    /\ UNCHANGED <<table, slot>>

(* SV_GetChallenge: the entry for one who asks is the oldest of all, or, if *)
(* there is one already, of those before it and of the first of the table; *)
(* which of them that is is left open.                                     *)
FoundFor(owner) == {i \in TableEntries : ~table[i].connected /\ table[i].owner = owner}
Scanned(owner) ==
    IF FoundFor(owner) = {} THEN TableEntries
    ELSE LET first == Min(FoundFor(owner))
         IN  {i \in TableEntries : i <= MultiChallenges \/ i < first}

Enters(owner, challenge) ==
    \E i \in Scanned(owner) :
        table' = [table EXCEPT ![i] = [owner |-> owner, challenge |-> challenge, connected |-> FALSE]]

SV_GetChallenge(p) ==
    /\ p.kind = "getchallenge"
    /\ \E challenge \in FreshChallenges :
          Enters("us", challenge) /\ Received(p, {ConnPacket("challengeResponse", challenge, p.number)})
    /\ UNCHANGED <<client, slot>>

OtherAsks == Enters("other", Nothing) /\ UNCHANGED <<client, slot, net>>

(* CL_ConnectionlessPacket *)
ChallengeResponse(p) ==
    /\ p.kind = "challengeResponse"
    /\ client' = IF client.state = "connecting" /\ p.number = client.challenge
                 THEN [client EXCEPT !.state = "challenging", !.challenge = p.challenge, !.sinceSent = Retransmit]
                 ELSE client
    /\ Received(p, {})
    /\ UNCHANGED <<table, slot>>

IsOurs_Any(p) == client.state = "challenging"
IsOurs(p) == client.state = "challenging" /\ p.challenge = client.challenge
ConnectResponse(p) ==
    /\ p.kind = "connectResponse"
    /\ client' = IF IsOurs(p)
                 THEN [client EXCEPT !.state = "connected", !.sinceSent = 0]
                 ELSE client
    /\ Received(p, {})
    /\ UNCHANGED <<table, slot>>

Printed(p) ==
    /\ p.kind = "print"
    /\ UNCHANGED client
    /\ Received(p, {})
    /\ UNCHANGED <<table, slot>>

(* SV_DirectConnect, with no limits on pings (sv_minPing and sv_maxPing are *)
(* 0 by default).  A slot that is free keeps the memory of its last client. *)
FreedSlot(s) == [s EXCEPT !.state = "free", !.sinceConnect = ReconnectLimit, !.silent = Timeout]
TooSoon_Never == FALSE
TooSoon == slot.state # "free" /\ slot.sinceConnect < ReconnectLimit
Valid(challenge) == {i \in TableEntries : table[i].owner = "us" /\ table[i].challenge = challenge}

RejectsSoon(p) == TooSoon /\ Received(p, {}) /\ UNCHANGED <<table, slot>>
RejectsChallenge(p) == ~TooSoon /\ Valid(p.challenge) = {} /\ Received(p, {PrintPacket}) /\ UNCHANGED <<table, slot>>
Takes(challenge) ==
    ~TooSoon /\ \E i \in Valid(challenge) : table' = [table EXCEPT ![i].connected = TRUE]
NewClient(challenge) ==
    [state |-> "connected", challenge |-> challenge, sinceConnect |-> 0, silent |-> 0, heard |-> FALSE]
Full(p) == slot.state = "free" /\ Takes(p.challenge) /\ Received(p, {PrintPacket}) /\ UNCHANGED slot
Denied(p) == Takes(p.challenge) /\ slot' = FreedSlot(NewClient(p.challenge)) /\ Received(p, {PrintPacket})
Accepts(p) ==
    /\ Takes(p.challenge)
    /\ slot' = NewClient(p.challenge)
    /\ Received(p, {ConnPacket("connectResponse", p.challenge, Nothing)})

SV_DirectConnect(p) ==
    /\ p.kind = "connect"
    /\ \/ RejectsSoon(p)
       \/ RejectsChallenge(p)
       \/ Full(p) \/ Denied(p)
       \/ Accepts(p)
    /\ UNCHANGED client

(* SV_DropClient clears the first challenge of the address. *)
Ours == {i \in TableEntries : table[i].owner = "us"}
EmptyEntry == [owner |-> "none", challenge |-> Nothing, connected |-> FALSE]
Drops(after) ==
    /\ slot.state = "connected"
    /\ slot' = after
    /\ table' = IF Ours = {} THEN table ELSE [table EXCEPT ![Min(Ours)] = EmptyEntry]

Zombie == [slot EXCEPT !.state = "zombie"]

(* The client's "disconnect", of this connection or an earlier one. *)
Goodbye(p) ==
    /\ p.kind = "disconnect"
    /\ IF slot.state = "connected" /\ p.challenge = slot.challenge
       THEN Drops([Zombie EXCEPT !.silent = 0, !.heard = TRUE]) ELSE UNCHANGED <<slot, table>>
    /\ Received(p, {})
    /\ UNCHANGED client
Kicked == Drops(Zombie) /\ UNCHANGED <<client, net>>
TimesOut == slot.silent = Timeout /\ Drops(FreedSlot(slot)) /\ UNCHANGED <<client, net>>

(* Any other packet of the connection, which the challenge marks. *)
SequencedPacket ==
    /\ client.state = "connected" /\ slot.state = "connected" /\ client.challenge = slot.challenge
    /\ slot' = [slot EXCEPT !.silent = 0, !.heard = TRUE]
    /\ UNCHANGED <<client, table, net>>

(* A second passes; packets are lost by never being received. *)
Capped(n, cap) == IF n < cap THEN n + 1 ELSE cap
ZombieOver == slot.state = "zombie" /\ slot.silent > ZombieTime
SecondPasses ==
    /\ client' = [client EXCEPT !.sinceSent =
                      IF client.state \in {"connecting", "challenging"} THEN Capped(@, Retransmit) ELSE @]
    /\ slot' = IF ZombieOver THEN FreedSlot(slot)
               ELSE [slot EXCEPT !.sinceConnect = Capped(@, ReconnectLimit), !.silent = Capped(@, Timeout)]
    /\ net' = {[p EXCEPT !.left = @ - 1] : p \in {p \in net : p.left > 0}}
    /\ UNCHANGED table
-----------------------------------------------------------------------------
ConnInit ==
    /\ client = [state |-> "disconnected", challenge |-> Nothing, sinceSent |-> 0]
    /\ table = [i \in TableEntries |-> EmptyEntry]
    /\ slot = [state |-> "free", challenge |-> Nothing, sinceConnect |-> ReconnectLimit,
               silent |-> Timeout, heard |-> FALSE]
    /\ net = {}

Receives(p) ==
    \/ SV_GetChallenge(p) \/ SV_DirectConnect(p) \/ Goodbye(p)
    \/ ChallengeResponse(p) \/ ConnectResponse(p) \/ Printed(p)

ConnNext ==
    \/ CL_Connect_f \/ CL_CheckForResend \/ CL_Disconnect
    \/ \E p \in net : Receives(p)
    \/ OtherAsks
    \/ Kicked \/ TimesOut \/ SequencedPacket
    \/ SecondPasses

ConnSpec == ConnInit /\ [][ConnNext]_connVars
-----------------------------------------------------------------------------
(* Client and server mean the same connection, whatever else was asked     *)
(* for, answered late or given up before.                                  *)
ConnInv ==
    /\ ConnTypeOK
    /\ (client.state = "connected" /\ slot.state = "connected") => slot.challenge = client.challenge

NewSession == slot'.state = "connected" /\ slot'.sinceConnect = 0 /\ (slot.sinceConnect # 0 \/ slot.state # "connected")

(* A connection in use is not begun again by a "connect" that was repeated *)
(* (sv_client.c:331), nor is one that has been used and was dropped: a late *)
(* packet finds the limit for reconnections or no challenge, so long as    *)
(* twice the time a packet is on its way is less than sv_reconnectlimit.   *)
BegunOnce ==
    [][NewSession =>
          /\ client.state # "connected"
          /\ slot.heard => slot'.challenge # slot.challenge]_connVars
==============================================================================
