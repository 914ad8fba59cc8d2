---------------------------- MODULE ServerCommands ----------------------------
(***************************************************************************)
(* The reliable commands a server sends one client: SV_AddServerCommand    *)
(* (server/sv_main.c) puts them in a ring, every message to the client     *)
(* repeats those it has not acknowledged (server/sv_snapshot.c), the       *)
(* client stores them in a ring of its own (client/cl_parse.c), and the    *)
(* cgame executes them when it comes to a snapshot sent after them         *)
(* (cgame/cg_snapshot.c, client/cl_cgame.c).                               *)
(*                                                                         *)
(* The commands travel over netchans: messages are lost, or arrive in      *)
(* order and at most once (Netchan, ImplementsStream).  The text of a      *)
(* command is the number it was given, so a ring slot that holds i holds   *)
(* what the game meant the client to execute as its i-th command.          *)
(***************************************************************************)
EXTENDS Integers, Sequences, SequencesExt

CONSTANTS
    MAX_RELIABLE_COMMANDS,  \* slots in each ring
    MaxCommands,            \* bound: commands given before the client is dropped
    MaxInFlight,            \* bound: messages on the way, each direction
    MaxPending              \* snapshots the client keeps for the cgame

ASSUME BoundsAssumption ==
    /\ MAX_RELIABLE_COMMANDS \in Nat \ {0}
    /\ MaxCommands \in Nat
    /\ MaxInFlight \in Nat \ {0}
    /\ MaxPending \in Nat \ {0}

VARIABLES
    (* server: client_t *)
    state,                  \* of the connection, one of States
    reliableSequence,       \* the last command added
    reliableAcknowledge,    \* the last one the client says it has
    reliableCommands,       \* the ring
    notices,                \* history: which commands are "disconnect"
    disconnectCalls,        \* history: GAME_CLIENT_DISCONNECT calls for this client
    (* client: clc, and cgs.serverCommandSequence *)
    connected,              \* FALSE once Com_Error has ended the connection
    serverCommandSequence,  \* the last command received
    serverCommands,         \* the ring
    pending,                \* serverCommandNum of snapshots parsed, not yet executed
    executed,               \* history: commands executed, in order
    (* netchans *)
    toClient,               \* messages to the client, oldest first
    toServer                \* acknowledgements to the server, oldest first

serverVars == <<state, reliableSequence, reliableAcknowledge, reliableCommands,
                notices, disconnectCalls>>
clientVars == <<connected, serverCommandSequence, serverCommands, pending, executed>>
vars == <<serverVars, clientVars, toClient, toServer>>

States == {"CS_FREE", "CS_ZOMBIE", "CS_ACTIVE"}
N == MAX_RELIABLE_COMMANDS
Slots == 0..(N - 1)
Slot(i) == i % N
lastExecuted == Len(executed)

(* The client has its gamestate and is in the game.                        *)
Init ==
    /\ state = "CS_ACTIVE"
    /\ reliableSequence = 0
    /\ reliableAcknowledge = 0
    /\ reliableCommands = [i \in Slots |-> 0]
    /\ notices = {}
    /\ disconnectCalls = 0
    /\ connected = TRUE
    /\ serverCommandSequence = 0
    /\ serverCommands = [i \in Slots |-> 0]
    /\ pending = <<>>
    /\ executed = <<>>
    /\ toClient = <<>>
    /\ toServer = <<>>

-----------------------------------------------------------------------------
(* Adding commands.  cl stands for the client_t while a call is under way. *)

cl == [state |-> state, seq |-> reliableSequence, ack |-> reliableAcknowledge,
       ring |-> reliableCommands, notices |-> notices, calls |-> disconnectCalls]

Becomes(c) ==
    /\ state' = c.state
    /\ reliableSequence' = c.seq
    /\ reliableAcknowledge' = c.ack
    /\ reliableCommands' = c.ring
    /\ notices' = c.notices
    /\ disconnectCalls' = c.calls

(* The command numbered one past the last goes in its slot of the ring.    *)
Store(c) ==
    [c EXCEPT !.seq = @ + 1, !.ring = [@ EXCEPT ![Slot(c.seq + 1)] = c.seq + 1]]
StoreNotice(c) == [Store(c) EXCEPT !.notices = @ \cup {c.seq + 1}]

(* Mutant: the check comes one command late.                               *)
Overflows_Late(c) == c.seq + 1 - c.ack = N + 2

Overflows(c) == c.seq + 1 - c.ack = N + 1

(* SV_DropClient called by SV_AddServerCommand: the command that did not   *)
(* fit has its number and no slot.  What SV_DropClient adds is over the    *)
(* limit already, so SV_AddServerCommand stores it without a check: the    *)
(* broadcast print, the configstring the game clears, the notice.          *)
DropOverflowed(c) ==
    LET lost == [c EXCEPT !.seq = @ + 1]
        told == [Store(lost) EXCEPT !.calls = @ + 1]
    IN  [StoreNotice(Store(told)) EXCEPT !.state = "CS_ZOMBIE"]

(* SV_AddServerCommand, for an ordinary command and for "disconnect".      *)
AddServerCommand(c) ==
    IF c.state # "CS_ACTIVE" THEN c
    ELSE IF Overflows(c) THEN DropOverflowed(c) ELSE Store(c)
AddNotice(c) ==
    IF c.state # "CS_ACTIVE" THEN c
    ELSE IF Overflows(c) THEN DropOverflowed(c) ELSE StoreNotice(c)

(* SV_DropClient otherwise.  Each thing it adds may overflow and drop the  *)
(* client within; the game clears the configstring on its first call only. *)
(* Nothing else that the game may send is counted.                         *)
DropClient(c) ==
    LET printed == AddServerCommand(c)
        called == [printed EXCEPT !.calls = @ + 1]
        cleared == AddServerCommand(called)
    IN  [AddNotice(cleared) EXCEPT !.state = "CS_ZOMBIE"]

(* The game or the server sends the client a command.                      *)
SV_SendServerCommand ==
    /\ state = "CS_ACTIVE"
    /\ reliableSequence < MaxCommands
    /\ Becomes(AddServerCommand(cl))
    /\ UNCHANGED <<clientVars, toClient, toServer>>

(* An admin kicks the client, its pure check fails, it disconnects, ...    *)
SV_DropClient ==
    /\ state = "CS_ACTIVE"
    /\ Becomes(DropClient(cl))
    /\ UNCHANGED <<clientVars, toClient, toServer>>

(* SV_CheckTimeouts.  A client long silent is dropped and its slot free at *)
(* once; after an ordinary drop the slot is free sv_zombietime later.      *)
SV_CheckTimeouts ==
    /\ \/ /\ state = "CS_ACTIVE"
          /\ Becomes([DropClient(cl) EXCEPT !.state = "CS_FREE"])
       \/ /\ state = "CS_ZOMBIE"
          /\ Becomes([cl EXCEPT !.state = "CS_FREE"])
    /\ UNCHANGED <<clientVars, toClient, toServer>>

-----------------------------------------------------------------------------
(* Messages.  One repeats the commands from first to last, each with the   *)
(* text its slot of the ring holds.                                        *)

Messages == [first : Nat, last : Nat, commands : [Slots -> Nat]]

(* Mutant: only what is new since the last acknowledgement but one.        *)
FirstUnacknowledged_SkipsOne == reliableAcknowledge + 2

FirstUnacknowledged == reliableAcknowledge + 1

(* Mutant: a client that has been dropped is sent nothing more.            *)
IsSent_Active == state = "CS_ACTIVE"

(* SV_SendClientMessages skips free slots: a zombie is still sent to.      *)
IsSent == state # "CS_FREE"

SV_SendClientSnapshot ==
    /\ IsSent
    /\ Len(toClient) < MaxInFlight
    /\ toClient' = Append(toClient,
           [first |-> FirstUnacknowledged, last |-> reliableSequence,
            commands |-> reliableCommands])
    /\ UNCHANGED <<serverVars, clientVars, toServer>>

Numbers(m) == m.first..m.last

(* CL_ParseCommandString skips what has been stored already.               *)
Newer(m) == {i \in Numbers(m) : i > serverCommandSequence}

(* Of the new commands, the last that goes in a slot stays there.          *)
Stored(m) ==
    LET into(s) == {i \in Newer(m) : Slot(i) = s}
    IN  [s \in Slots |-> IF into(s) = {} THEN serverCommands[s] ELSE m.commands[s]]

Newest(m) == IF Newer(m) = {} THEN serverCommandSequence ELSE m.last

(* The oldest snapshot falls out of a full ring: the first the cgame has   *)
(* not come to, or the second if the cgame holds the first (cg.nextSnap).  *)
Room ==
    IF Len(pending) < MaxPending THEN {pending}
    ELSE {RemoveAt(pending, i) : i \in 1..2 \cap DOMAIN pending}

(* CL_ParseServerMessage: the commands, then the snapshot after them.      *)
CL_ParseServerMessage ==
    /\ connected
    /\ toClient # <<>>
    /\ serverCommands' = Stored(Head(toClient))
    /\ serverCommandSequence' = Newest(Head(toClient))
    /\ \E room \in Room : pending' = Append(room, serverCommandSequence')
    /\ toClient' = Tail(toClient)
    /\ UNCHANGED <<serverVars, connected, executed, toServer>>

(* CL_WritePacket acknowledges what has been received.                     *)
CL_WritePacket ==
    /\ connected
    /\ Len(toServer) < MaxInFlight
    /\ toServer' = Append(toServer, serverCommandSequence)
    /\ UNCHANGED <<serverVars, clientVars, toClient>>

(* SV_ExecuteClientMessage; a zombie's messages are not read.  An          *)
(* acknowledgement too far back to be true is not believed.                *)
SV_ExecuteClientMessage ==
    /\ state # "CS_FREE"
    /\ toServer # <<>>
    /\ \/ /\ state = "CS_ACTIVE"
          /\ reliableAcknowledge' = IF Head(toServer) < reliableSequence - N
                                    THEN reliableSequence ELSE Head(toServer)
       \/ /\ state = "CS_ZOMBIE"
          /\ UNCHANGED reliableAcknowledge
    /\ toServer' = Tail(toServer)
    /\ UNCHANGED <<state, reliableSequence, reliableCommands, notices, disconnectCalls,
                   clientVars, toClient>>

(* A message is lost, whichever it is.                                     *)
Lose ==
    /\ \/ \E i \in 1..Len(toClient) : toClient' = RemoveAt(toClient, i) /\ UNCHANGED toServer
       \/ \E i \in 1..Len(toServer) : toServer' = RemoveAt(toServer, i) /\ UNCHANGED toClient
    /\ UNCHANGED <<serverVars, clientVars>>

-----------------------------------------------------------------------------
(* Executing: CG_ExecuteNewServerCommands and CL_GetServerCommand.         *)

Text(i) == serverCommands[Slot(i)]

(* Mutant: the check forgets that the slot of the last command is reused.  *)
CycledOut_Never(i) == FALSE

CycledOut(i) == i <= serverCommandSequence - N

(* Com_Error ends the connection before the command has any effect.        *)
Fatal(i) == CycledOut(i) \/ Text(i) \in notices

(* CG_ExecuteNewServerCommands: up to the latest, or to the first that is  *)
(* fatal.  Nothing is received while it runs.                              *)
CG_ExecuteNewServerCommands(latest) ==
    \E last \in lastExecuted..serverCommandSequence :
       /\ \A i \in (lastExecuted + 1)..last : i <= latest /\ ~Fatal(i)
       /\ executed' = executed \o [k \in 1..(last - lastExecuted) |-> Text(lastExecuted + k)]
       /\ \/ last >= latest /\ UNCHANGED connected
          \/ last < latest /\ Fatal(last + 1) /\ connected' = FALSE

(* The cgame comes to the next snapshot, and first catches up with the     *)
(* commands sent before it.                                                *)
CG_TransitionSnapshot ==
    /\ connected
    /\ pending # <<>>
    /\ pending' = Tail(pending)
    /\ CG_ExecuteNewServerCommands(Head(pending))
    /\ UNCHANGED <<serverVars, serverCommandSequence, serverCommands, toClient, toServer>>

-----------------------------------------------------------------------------

Next ==
    \/ SV_SendServerCommand
    \/ SV_DropClient
    \/ SV_CheckTimeouts
    \/ SV_SendClientSnapshot
    \/ CL_ParseServerMessage
    \/ CL_WritePacket
    \/ SV_ExecuteClientMessage
    \/ Lose
    \/ CG_TransitionSnapshot

Spec == Init /\ [][Next]_vars

(* Server and client frames come round for ever and send something each    *)
(* time (SV_SendClientMessages, CL_SendCmd, CG_ProcessSnapshots); the      *)
(* network does not lose every message of an endless series.               *)
Fairness ==
    /\ WF_vars(SV_SendClientSnapshot)
    /\ WF_vars(CL_WritePacket)
    /\ WF_vars(CG_TransitionSnapshot)
    /\ SF_vars(CL_ParseServerMessage)
    /\ SF_vars(SV_ExecuteClientMessage)

FairSpec == Spec /\ Fairness

-----------------------------------------------------------------------------
(* Properties.                                                             *)

(* Every variable holds a value of its type.                               *)
TypeOK ==
    /\ state \in States
    /\ reliableSequence \in Nat
    /\ reliableAcknowledge \in Nat
    /\ reliableCommands \in [Slots -> Nat]
    /\ notices \subseteq Nat
    /\ disconnectCalls \in Nat
    /\ connected \in BOOLEAN
    /\ serverCommandSequence \in Nat
    /\ serverCommands \in [Slots -> Nat]
    /\ pending \in Seq(Nat)
    /\ executed \in Seq(Nat)
    /\ toClient \in Seq(Messages)
    /\ toServer \in Seq(Nat)

(* As long as the client is active, the ring holds every command that it   *)
(* has not acknowledged: none is overwritten before the client has it.     *)
InWindow == reliableSequence - reliableAcknowledge <= N
RingKeeps ==
    \A i \in (reliableAcknowledge + 1)..reliableSequence : reliableCommands[Slot(i)] = i
WindowHeld ==
    /\ state = "CS_ACTIVE" => InWindow
    /\ InWindow => RingKeeps

(* Acknowledgements never run backwards nor ahead of what they confirm, so *)
(* SV_ExecuteClientMessage has none it should not believe.                 *)
AcksInOrder ==
    /\ reliableAcknowledge <= serverCommandSequence
    /\ serverCommandSequence <= reliableSequence
    /\ \A k \in 1..Len(toServer) :
          /\ reliableAcknowledge <= toServer[k]
          /\ toServer[k] <= serverCommandSequence
    /\ \A j, k \in 1..Len(toServer) : j <= k => toServer[j] <= toServer[k]

(* A message leaves no gap after what the client has, does not wrap past   *)
(* it, and its texts are those of its numbers.                             *)
Faithful(m) ==
    /\ m.first <= serverCommandSequence + 1
    /\ m.last <= reliableSequence
    /\ InWindow =>
          /\ m.last - serverCommandSequence <= N
          /\ \A i \in Numbers(m) : m.commands[Slot(i)] = i
MessagesFaithful == \A k \in 1..Len(toClient) : Faithful(toClient[k])

(* The client holds the last commands it received, and asks for no other   *)
(* (CL_GetServerCommand: "requested a command not received").              *)
ClientKeeps ==
    /\ InWindow =>
          \A i \in 1..serverCommandSequence :
             i > serverCommandSequence - N => serverCommands[Slot(i)] = i
    /\ \A k \in 1..Len(pending) : pending[k] <= serverCommandSequence
    /\ Len(executed) <= serverCommandSequence

(* Unless the ring has overflowed, the client has executed the commands it *)
(* was given, every one, once, in order, however many messages were lost   *)
(* and however far behind its cgame is.                                    *)
ExecutedInOrder ==
    InWindow => \A i \in 1..Len(executed) : executed[i] = i

(* The inductive invariant.                                                *)
IInv ==
    /\ TypeOK
    /\ WindowHeld
    /\ AcksInOrder
    /\ MessagesFaithful
    /\ ClientKeeps
    /\ ExecutedInOrder

(* The commands are a reliable stream, until the server drops the client   *)
(* because the ring is full.                                               *)
Stream == INSTANCE ReliableStream WITH
              given <- reliableSequence, broken <- ~InWindow
ImplementsStream == Stream!Spec

(* A client the server has dropped finds out, if it hears from the server  *)
(* at all before the slot is free: the notice outlives the overflow.       *)
DropNoticed == state = "CS_ZOMBIE" ~> (~connected \/ state = "CS_FREE")

(* A command given is executed, unless the connection ends.                *)
EventuallyExecuted ==
    \A i \in 1..MaxCommands :
       reliableSequence >= i ~> (lastExecuted >= i \/ ~connected \/ state # "CS_ACTIVE")

(* "a broadcast print added by SV_DropClient() doesn't cause a recursive   *)
(* drop client" (sv_main.c:147): the game hears once that a client leaves. *)
NoRecursiveDrop == disconnectCalls <= 1
=============================================================================
