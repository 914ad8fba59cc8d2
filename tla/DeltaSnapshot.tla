--------------------------- MODULE DeltaSnapshot ---------------------------
(***************************************************************************)
(* Snapshots sent as differences: SV_BuildClientSnapshot and               *)
(* SV_WriteSnapshotToClient in server/sv_snapshot.c, CL_ParseSnapshot in   *)
(* client/cl_parse.c, and the message that asks for a base (SV_UserMove,   *)
(* CL_WritePacket).                                                        *)
(*                                                                         *)
(* The server keeps the frames it sent and one ring of entities for all    *)
(* clients; the client keeps snapshots and a ring of entities of its own.  *)
(* An entity is the number of the message it was first sent in.  What the  *)
(* client decodes is right if it decodes from what the server encoded      *)
(* from; otherwise it is Wrong.  Messages are lost, or arrive in order and *)
(* once (Netchan, ImplementsStream).                                       *)
(***************************************************************************)
EXTENDS Integers, Sequences

CONSTANTS
    PACKET_BACKUP,          \* frames kept on each side
    MAX_SNAPSHOT_ENTITIES,  \* entities in one frame
    numSnapshotEntities,    \* entities in the server's ring
    VisibleCounts,          \* how many entities a client may see at a time
    MaxMessages,            \* bound: messages sent to the client
    MaxEntities,            \* bound: entities put in the server's ring
    MaxLevels,              \* bound: maps
    MaxInFlight             \* bound: messages on the way, each direction

MAX_PARSE_ENTITIES == PACKET_BACKUP * MAX_SNAPSHOT_ENTITIES

(* The ring is as large as a dedicated server of one client makes it, or   *)
(* smaller.                                                                *)
ASSUME SnapshotAssumption ==
    /\ PACKET_BACKUP \in Nat /\ PACKET_BACKUP > 3
    /\ MAX_SNAPSHOT_ENTITIES \in Nat \ {0}
    /\ numSnapshotEntities \in Nat \ {0}
    /\ VisibleCounts \subseteq 0..MAX_SNAPSHOT_ENTITIES
    /\ {MaxMessages, MaxEntities, MaxLevels, MaxInFlight} \subseteq Nat

VARIABLES
    (* server: sv, svs, client_t *)
    state,                  \* CS_CONNECTED, CS_PRIMED or CS_ACTIVE
    serverId,               \* sv.serverId: which map
    outgoingSequence,       \* the number of the next message
    gamestateMessageNum,    \* the message with the last gamestate
    deltaMessage,           \* the message to encode from, or -1
    frames,                 \* client_t.frames
    nextSnapshotEntities,   \* entities put in the ring on this map
    snapshotEntities,       \* the ring
    (* client: clc and cl *)
    clServerId,             \* cl.serverId
    serverMessageSequence,  \* clc.serverMessageSequence: the last message
    snap,                   \* the last snapshot: its messageNum, or 0 if there is none
    snapshots,              \* cl.snapshots
    parseEntitiesNum,       \* entities put in the client's ring
    parseEntities,          \* the ring
    (* between them *)
    toClient,               \* messages, oldest first
    toServer                \* packets, oldest first

serverVars == <<state, serverId, outgoingSequence, gamestateMessageNum, deltaMessage, frames,
                nextSnapshotEntities, snapshotEntities>>
snapVars == <<snap, snapshots, parseEntitiesNum, parseEntities>>
clientVars == <<clServerId, serverMessageSequence, snapVars>>
vars == <<serverVars, clientVars, toClient, toServer>>

Slot(m) == m % PACKET_BACKUP
FrameSlots == 0..(PACKET_BACKUP - 1)
MaxOf(a, b) == IF a > b THEN a ELSE b

(* An entity that is not one of this client's, and one decoded wrongly.    *)
Other == 0
Wrong == -1

NoFrame == [first |-> 0, num |-> 0, ps |-> Other]
NoSnapshot == [valid |-> FALSE, messageNum |-> 0, first |-> 0, num |-> 0, ps |-> Other]

(* The client has connected: it has no gamestate.                          *)
Init ==
    /\ state = "CS_CONNECTED"
    /\ serverId = 1
    /\ outgoingSequence = 1
    /\ gamestateMessageNum = -1
    /\ deltaMessage = -1
    /\ frames = [s \in FrameSlots |-> NoFrame]
    /\ nextSnapshotEntities = 0
    /\ snapshotEntities = [s \in 0..(numSnapshotEntities - 1) |-> Other]
    /\ clServerId = 0
    /\ serverMessageSequence = 0
    /\ snap = 0
    /\ snapshots = [s \in FrameSlots |-> NoSnapshot]
    /\ parseEntitiesNum = 0
    /\ parseEntities = [s \in 0..(MAX_PARSE_ENTITIES - 1) |-> Other]
    /\ toClient = <<>>
    /\ toServer = <<>>

-----------------------------------------------------------------------------
(* Rings.                                                                  *)

(* n entities x put in a ring of the given size after the first next.      *)
Put(ring, size, next, n, x) ==
    [s \in DOMAIN ring |-> IF \E i \in 0..(n - 1) : (next + i) % size = s THEN x ELSE ring[s]]

(* What a frame holds: its playerState and the entities at its place.      *)
Contents(ring, size, frame) ==
    [ps |-> frame.ps, entities |-> [i \in 1..frame.num |-> ring[(frame.first + i - 1) % size]]]

-----------------------------------------------------------------------------
(* The server.                                                             *)

(* The client has not acknowledged a message for a long time.              *)
FrameTooOld(m) == outgoingSequence - m >= PACKET_BACKUP - 3

(* Mutant: the entities are not looked for.                                *)
RolledOff_Never(frame, next) == FALSE

(* The entities of the frame may have been overwritten.                    *)
RolledOff(frame, next) == frame.first <= next - numSnapshotEntities

(* SV_SendClientSnapshot with n entities visible.  Where there is a base,  *)
(* delta is how many messages ago it was sent.                             *)
SV_SendClientSnapshot ==
    /\ outgoingSequence <= MaxMessages
    /\ Len(toClient) < MaxInFlight
    /\ \E n \in VisibleCounts :
          /\ nextSnapshotEntities + n <= MaxEntities
          /\ LET m == outgoingSequence
                 next == nextSnapshotEntities + n
                 ring == Put(snapshotEntities, numSnapshotEntities, nextSnapshotEntities, n, m)
                 base == frames'[Slot(deltaMessage)]
                 full == \/ deltaMessage <= 0 \/ state # "CS_ACTIVE"
                         \/ FrameTooOld(deltaMessage)
                         \/ RolledOff(base, next)
                 delta == IF full THEN 0 ELSE m - deltaMessage
             IN  /\ frames' = [frames EXCEPT ![Slot(m)] =
                                  [first |-> nextSnapshotEntities, num |-> n, ps |-> m]]
                 /\ nextSnapshotEntities' = next
                 /\ snapshotEntities' = ring
                 /\ toClient' = Append(toClient,
                       [num |-> m, id |-> 0, delta |-> delta, entities |-> n,
                        base |-> Contents(ring, numSnapshotEntities,
                                          IF full THEN NoFrame ELSE base)])
                 /\ outgoingSequence' = m + 1
    /\ UNCHANGED <<state, serverId, gamestateMessageNum, deltaMessage, clientVars, toServer>>

(* The other clients' snapshots take room in the ring.                     *)
SnapshotsOfOthers ==
    /\ nextSnapshotEntities + MAX_SNAPSHOT_ENTITIES <= MaxEntities
    /\ snapshotEntities' = Put(snapshotEntities, numSnapshotEntities, nextSnapshotEntities,
                               MAX_SNAPSHOT_ENTITIES, Other)
    /\ nextSnapshotEntities' = nextSnapshotEntities + MAX_SNAPSHOT_ENTITIES
    /\ UNCHANGED <<state, serverId, outgoingSequence, gamestateMessageNum, deltaMessage, frames,
                   clientVars, toClient, toServer>>

(* SV_SpawnServer: another map, and a ring of entities that is all zero.   *)
SV_SpawnServer ==
    /\ serverId < MaxLevels
    /\ serverId' = serverId + 1
    /\ state' = "CS_CONNECTED"
    /\ nextSnapshotEntities' = 0
    /\ snapshotEntities' = [s \in DOMAIN snapshotEntities |-> Other]
    /\ UNCHANGED <<outgoingSequence, gamestateMessageNum, deltaMessage, frames, clientVars,
                   toClient, toServer>>

SV_SendClientGameState ==
    /\ outgoingSequence <= MaxMessages
    /\ Len(toClient) < MaxInFlight
    /\ state' = "CS_PRIMED"
    /\ gamestateMessageNum' = outgoingSequence
    /\ toClient' = Append(toClient, [num |-> outgoingSequence, id |-> serverId, delta |-> 0,
                                     entities |-> 0, base |-> Contents(<<>>, 1, NoFrame)])
    /\ outgoingSequence' = outgoingSequence + 1
    /\ UNCHANGED <<serverId, deltaMessage, frames, nextSnapshotEntities, snapshotEntities>>

(* SV_UserMove, and SV_ClientEnterWorld for the first usercmd.             *)
SV_UserMove(p) ==
    /\ state # "CS_CONNECTED"
    /\ state' = "CS_ACTIVE"
    /\ deltaMessage' = IF state = "CS_ACTIVE" /\ p.delta THEN p.ack ELSE -1
    /\ UNCHANGED <<serverId, outgoingSequence, gamestateMessageNum, frames,
                   nextSnapshotEntities, snapshotEntities, toClient>>

(* Mutant: packets of an earlier map are taken once the gamestate is sent.  *)
IsCurrent_OncePrimed(p) == p.id = serverId \/ state # "CS_CONNECTED"

IsCurrent(p) == p.id = serverId

(* SV_ExecuteClientMessage: a packet of an earlier gamestate is answered   *)
(* with the gamestate, if it shows that the last one was lost.             *)
SV_ExecuteClientMessage ==
    /\ toServer # <<>>
    /\ LET p == Head(toServer)
       IN  \/ ~IsCurrent(p) /\ p.ack > gamestateMessageNum /\ SV_SendClientGameState
           \/ ~IsCurrent(p) /\ p.ack <= gamestateMessageNum /\ UNCHANGED <<serverVars, toClient>>
           \/ IsCurrent(p) /\ SV_UserMove(p)
    /\ toServer' = Tail(toServer)
    /\ UNCHANGED clientVars

-----------------------------------------------------------------------------
(* The client.                                                             *)

(* The last message was a snapshot, and was decoded.                       *)
MayAskForDelta == snap # 0 /\ serverMessageSequence = snap

(* CL_WritePacket; with cl_nodelta no base is asked for.                   *)
CL_WritePacket ==
    /\ Len(toServer) < MaxInFlight
    /\ \E delta \in {FALSE, MayAskForDelta} :
          toServer' = Append(toServer,
                             [id |-> clServerId, ack |-> serverMessageSequence, delta |-> delta])
    /\ UNCHANGED <<serverVars, clientVars, toClient>>

(* CL_ParseGamestate: CL_ClearState wipes cl.                              *)
CL_ParseGamestate(m) ==
    /\ clServerId' = m.id
    /\ snap' = 0
    /\ snapshots' = [s \in FrameSlots |-> NoSnapshot]
    /\ parseEntitiesNum' = 0
    /\ parseEntities' = [s \in DOMAIN parseEntities |-> Other]

(* CL_ParseSnapshot: the base of a snapshot, and whether it is there.      *)
Old(m) == IF m.delta = 0 THEN NoSnapshot ELSE snapshots[Slot(m.num - m.delta)]
IsValid(m) ==
    \/ m.num - m.delta <= 0 \/ m.delta = 0
    \/ /\ Old(m).valid
       /\ Old(m).messageNum = m.num - m.delta
       /\ parseEntitiesNum - Old(m).first <= MAX_PARSE_ENTITIES - MAX_SNAPSHOT_ENTITIES
Decoded(m) ==
    IF Contents(parseEntities, MAX_PARSE_ENTITIES, Old(m)) = m.base THEN m.num ELSE Wrong

(* Mutant: snapshots that were not received stay valid.                    *)
Skipped_None(m) == {}

(* The messages lost since the last snapshot, whose slots are cleared.     *)
Skipped(m) == MaxOf(snap + 1, m.num - (PACKET_BACKUP - 1))..(m.num - 1)

CL_ParseSnapshot(m) ==
    /\ parseEntities' = Put(parseEntities, MAX_PARSE_ENTITIES, parseEntitiesNum, m.entities,
                            Decoded(m))
    /\ parseEntitiesNum' = parseEntitiesNum + m.entities
    /\ IF IsValid(m)
       THEN /\ snapshots' =
                  [s \in FrameSlots |->
                      IF s = Slot(m.num)
                      THEN [valid |-> TRUE, messageNum |-> m.num, first |-> parseEntitiesNum,
                            num |-> m.entities, ps |-> Decoded(m)]
                      ELSE [snapshots[s] EXCEPT !.valid =
                               @ /\ s \notin {Slot(i) : i \in Skipped(m)}]]
            /\ snap' = m.num
       ELSE UNCHANGED <<snap, snapshots>>
    /\ UNCHANGED clServerId

CL_ParseServerMessage ==
    /\ toClient # <<>>
    /\ LET m == Head(toClient)
       IN  /\ serverMessageSequence' = m.num
           /\ \/ m.id # 0 /\ CL_ParseGamestate(m)
              \/ m.id = 0 /\ CL_ParseSnapshot(m)
    /\ toClient' = Tail(toClient)
    /\ UNCHANGED <<serverVars, toServer>>

-----------------------------------------------------------------------------
Lose ==
    \/ /\ toClient # <<>>
       /\ toClient' = Tail(toClient)
       /\ UNCHANGED <<serverVars, clientVars, toServer>>
    \/ /\ toServer # <<>>
       /\ toServer' = Tail(toServer)
       /\ UNCHANGED <<serverVars, clientVars, toClient>>

Next ==
    \/ SV_SendClientSnapshot
    \/ SnapshotsOfOthers
    \/ SV_SpawnServer
    \/ SV_ExecuteClientMessage
    \/ CL_WritePacket
    \/ CL_ParseServerMessage
    \/ Lose

Spec == Init /\ [][Next]_vars

-----------------------------------------------------------------------------
(* Properties.                                                             *)

(* Every variable holds a value of its type.                               *)
Entities == {Other, Wrong} \cup Nat
Frames == [first : Nat, num : Nat, ps : Entities]
Bases == [ps : Entities, entities : Seq(Entities)]
TypeOK ==
    /\ state \in {"CS_CONNECTED", "CS_PRIMED", "CS_ACTIVE"}
    /\ serverId \in Nat
    /\ outgoingSequence \in Nat
    /\ gamestateMessageNum \in Nat \cup {-1}
    /\ deltaMessage \in Nat \cup {-1}
    /\ frames \in [FrameSlots -> Frames]
    /\ nextSnapshotEntities \in Nat
    /\ snapshotEntities \in [0..(numSnapshotEntities - 1) -> Entities]
    /\ clServerId \in Nat
    /\ serverMessageSequence \in Nat
    /\ snap \in Nat
    /\ snapshots \in [FrameSlots -> [valid : BOOLEAN, messageNum : Nat, first : Nat, num : Nat,
                                     ps : Entities]]
    /\ parseEntitiesNum \in Nat
    /\ parseEntities \in [0..(MAX_PARSE_ENTITIES - 1) -> Entities]
    /\ toClient \in Seq([num : Nat, id : Nat, delta : Nat, entities : Nat, base : Bases])
    /\ toServer \in Seq([id : Nat, ack : Nat, delta : BOOLEAN])

(* The snapshots CL_GetSnapshot gives the cgame.                           *)
Available(i) ==
    LET s == snapshots[Slot(i)]
    IN  /\ snap - i < PACKET_BACKUP
        /\ s.valid
        /\ parseEntitiesNum - s.first < MAX_PARSE_ENTITIES

(* A snapshot the cgame can get is the one the server built for the        *)
(* message of that number, with the entities and the playerState of that   *)
(* message: neither loss nor a ring that wraps on either side mixes two.   *)
SnapshotsFaithful ==
    \A i \in 1..snap :
       Available(i) =>
          LET s == snapshots[Slot(i)]
          IN  /\ s.messageNum = i
              /\ s.ps = i
              /\ \A k \in 0..(s.num - 1) : parseEntities[(s.first + k) % MAX_PARSE_ENTITIES] = i

(* "Delta from invalid frame (not supposed to happen!)" (cl_parse.c:252),  *)
(* "Delta frame too old", "Delta parseEntitiesNum too old": the client     *)
(* holds the base of every snapshot that reaches it, whatever was lost or  *)
(* loaded since it asked for it.                                           *)
BaseHeld == toClient # <<>> /\ Head(toClient).id = 0 => IsValid(Head(toClient))

(* The frame the server would encode the next snapshot from is the one it  *)
(* sent in deltaMessage.                                                   *)
BaseIsSent ==
    deltaMessage > 0 /\ state = "CS_ACTIVE" /\ ~FrameTooOld(deltaMessage) =>
       LET base == frames[Slot(deltaMessage)]
       IN  /\ base.ps = deltaMessage
           /\ \/ RolledOff(base, nextSnapshotEntities)
              \/ \A k \in 0..(base.num - 1) :
                    snapshotEntities[(base.first + k) % numSnapshotEntities] = deltaMessage

IInv == TypeOK /\ BaseIsSent
=============================================================================
