---------------------------- MODULE ClientCommands ----------------------------
(***************************************************************************)
(* What a client sends the server: its reliable commands                   *)
(* (CL_AddReliableCommand in client/cl_main.c) and its usercmds            *)
(* (CL_WritePacket in client/cl_input.c), as the server executes them      *)
(* (SV_ExecuteClientMessage in server/sv_client.c).                        *)
(*                                                                         *)
(* Every packet repeats the commands the server has not acknowledged, and  *)
(* the usercmds of the last cl_packetdup packets.  Packets are lost, or    *)
(* arrive in order and at most once (Netchan, ImplementsStream).  The text *)
(* of a command is the number it was given.  A usercmd is its number, and  *)
(* its serverTime grows with it.                                           *)
(***************************************************************************)
EXTENDS Integers, Sequences

CONSTANTS
    MAX_RELIABLE_COMMANDS,  \* slots in the ring
    MAX_PACKET_USERCMDS,    \* usercmds in one packet
    cl_packetdup,           \* earlier packets whose usercmds are repeated
    MaxCommands,            \* bound: commands given before the client leaves
    MaxUsercmds,            \* bound: usercmds created
    MaxInFlight             \* bound: packets on the way, each direction

ASSUME BoundsAssumption ==
    /\ MAX_RELIABLE_COMMANDS \in Nat \ {0}
    /\ MAX_PACKET_USERCMDS \in Nat \ {0}
    /\ cl_packetdup \in 0..5
    /\ MaxCommands \in Nat
    /\ MaxUsercmds \in Nat
    /\ MaxInFlight \in Nat \ {0}

VARIABLES
    (* client: clc and cl *)
    connected,              \* FALSE once CL_Disconnect has wiped clc
    reliableSequence,       \* the last command added
    reliableAcknowledge,    \* the last one the server says it has executed
    reliableCommands,       \* the ring
    farewell,               \* history: the number of the command "disconnect", if any
    cmdNumber,              \* the last usercmd created
    outPackets,             \* p_cmdNumber of the last cl_packetdup + 1 packets, oldest first
    stamps,                 \* history: reliableSequence when each usercmd was created
    (* server: client_t *)
    state,                  \* of the connection, one of States
    lostCommands,           \* TRUE if it was dropped for "Lost reliable commands"
    lastClientCommand,
    executed,               \* history: commands executed, in order
    lastUsercmd,            \* the last usercmd taken
    begun,                  \* history: the usercmd the client entered the world with
    thought,                \* history: usercmds SV_ClientThink executed, in order
    (* the netchans *)
    toServer,               \* packets to the server, oldest first
    toClient,               \* acknowledgements to the client, oldest first
    lostInRow,              \* history: packets to the server lost since the last that arrived
    missing                 \* history: usercmds have gone missing on the way

clientVars == <<connected, reliableSequence, reliableAcknowledge, reliableCommands,
                farewell, cmdNumber, outPackets, stamps>>
serverVars == <<state, lostCommands, lastClientCommand, executed, lastUsercmd, begun, thought>>
netVars == <<toServer, toClient, lostInRow, missing>>
vars == <<clientVars, serverVars, netVars>>

States == {"CS_FREE", "CS_ZOMBIE", "CS_PRIMED", "CS_ACTIVE"}
N == MAX_RELIABLE_COMMANDS
Slots == 0..(N - 1)
Slot(i) == i % N
MinOf(a, b) == IF a < b THEN a ELSE b

(* The client has its gamestate; the server waits for its first usercmd.   *)
Init ==
    /\ connected = TRUE
    /\ reliableSequence = 0
    /\ reliableAcknowledge = 0
    /\ reliableCommands = [i \in Slots |-> 0]
    /\ farewell = 0
    /\ cmdNumber = 0
    /\ outPackets = [k \in 1..(cl_packetdup + 1) |-> 0]
    /\ stamps = <<>>
    /\ state = "CS_PRIMED"
    /\ lostCommands = FALSE
    /\ lastClientCommand = 0
    /\ executed = <<>>
    /\ lastUsercmd = 0
    /\ begun = 0
    /\ thought = <<>>
    /\ toServer = <<>>
    /\ toClient = <<>>
    /\ lostInRow = 0
    /\ missing = FALSE

-----------------------------------------------------------------------------
(* The client.                                                             *)

(* Mutant: one packet too few is repeated.                                 *)
FirstUsercmd_OneLess(sent) == Head(Tail(Append(sent, cmdNumber))) + 1

(* The first usercmd of a packet: those of the last cl_packetdup packets   *)
(* are repeated.  sent is outPackets.                                      *)
FirstUsercmd(sent) == Head(sent) + 1

(* Mutant: only the newest command is sent.                                *)
FirstCommand_Newest == reliableSequence

(* A packet repeats every command that is not acknowledged ...             *)
FirstCommand == reliableAcknowledge + 1

(* Mutant: the loop over them stops one early.                             *)
LastCommand_Strict(last) == last - 1

(* ... up to the last one given.                                           *)
LastCommand(last) == last

(* CL_WritePacket, with text in the ring up to command last.  Usercmds     *)
(* that do not fit are left out, oldest first.                             *)
Packet(sent, last, text) ==
    LET count == MinOf(cmdNumber - FirstUsercmd(sent) + 1, MAX_PACKET_USERCMDS)
    IN  [first |-> FirstCommand, last |-> LastCommand(last), commands |-> text,
         from |-> cmdNumber - count + 1, to |-> cmdNumber,
         whole |-> cmdNumber - FirstUsercmd(sent) + 1 <= MAX_PACKET_USERCMDS]

SentAfter(sent) == Append(Tail(sent), cmdNumber)

CL_WritePacket ==
    /\ connected
    /\ Len(toServer) < MaxInFlight
    /\ toServer' = Append(toServer, Packet(outPackets, reliableSequence, reliableCommands))
    /\ outPackets' = SentAfter(outPackets)
    /\ UNCHANGED <<connected, reliableSequence, reliableAcknowledge, reliableCommands,
                   farewell, cmdNumber, stamps, serverVars, toClient, lostInRow, missing>>

CL_CreateNewCommands ==
    /\ connected
    /\ cmdNumber < MaxUsercmds
    /\ cmdNumber' = cmdNumber + 1
    /\ stamps' = Append(stamps, reliableSequence)
    /\ UNCHANGED <<connected, reliableSequence, reliableAcknowledge, reliableCommands,
                   farewell, outPackets, serverVars, netVars>>

Unacknowledged == reliableSequence - reliableAcknowledge

(* CL_Disconnect: the command "disconnect", even in a full ring, and three *)
(* packets in a row.  Then the connection is wiped.                        *)
CL_Disconnect ==
    LET last == reliableSequence + 1
        text == [reliableCommands EXCEPT ![Slot(last)] = last]
        first == outPackets
        second == SentAfter(first)
    IN  /\ connected
        /\ connected' = FALSE
        /\ reliableSequence' = last
        /\ reliableCommands' = text
        /\ farewell' = last
        /\ toServer' = toServer \o <<Packet(first, last, text), Packet(second, last, text),
                                     Packet(SentAfter(second), last, text)>>
        /\ outPackets' = SentAfter(SentAfter(second))
        /\ UNCHANGED <<reliableAcknowledge, cmdNumber, stamps, serverVars, toClient,
                       lostInRow, missing>>

RingFull == Unacknowledged >= N

(* Mutant: the index is taken before the sequence is incremented.          *)
StoredAt_PostIncrement(i) == Slot(i - 1)

(* The slot command i is put in.                                           *)
StoredAt(i) == Slot(i)

(* CL_AddReliableCommand: a full ring is an error that ends the connection.*)
CL_AddReliableCommand ==
    \/ /\ connected
       /\ reliableSequence < MaxCommands
       /\ ~RingFull
       /\ reliableSequence' = reliableSequence + 1
       /\ reliableCommands' =
             [reliableCommands EXCEPT ![StoredAt(reliableSequence + 1)] = reliableSequence + 1]
       /\ UNCHANGED <<connected, reliableAcknowledge, farewell, cmdNumber, outPackets, stamps,
                      serverVars, netVars>>
    \/ /\ RingFull
       /\ CL_Disconnect

(* CL_ParseServerMessage: the acknowledgement every message starts with.   *)
CL_ParseServerMessage ==
    /\ connected
    /\ toClient # <<>>
    /\ reliableAcknowledge' = IF Head(toClient) < reliableSequence - N
                              THEN reliableSequence ELSE Head(toClient)
    /\ toClient' = Tail(toClient)
    /\ UNCHANGED <<connected, reliableSequence, reliableCommands, farewell, cmdNumber,
                   outPackets, stamps, serverVars, toServer, lostInRow, missing>>

-----------------------------------------------------------------------------
(* The server.                                                             *)

(* The acknowledgement in every message, a zombie's included.              *)
SV_SendClientSnapshot ==
    /\ state # "CS_FREE"
    /\ Len(toClient) < MaxInFlight
    /\ toClient' = Append(toClient, lastClientCommand)
    /\ UNCHANGED <<clientVars, serverVars, toServer, lostInRow, missing>>

(* Mutant: no more than one command of each packet is executed.            *)
Due_FloodProtected(p) == {lastClientCommand + 1} \cap p.first..p.last

(* The commands of a packet that have not been executed.                   *)
Due(p) == {i \in p.first..p.last : i > lastClientCommand}

Text(p, i) == p.commands[Slot(i)]
IsFarewell(p, i) == farewell # 0 /\ Text(p, i) = farewell

(* SV_ClientCommand for each command in turn, to the last or to one that   *)
(* disconnects.                                                            *)
ExecuteCommands(p, last) ==
    /\ last = lastClientCommand \/ last \in Due(p)
    /\ \A i \in Due(p) : i < last => ~IsFarewell(p, i)
    /\ \/ \A i \in Due(p) : i <= last
       \/ last \in Due(p) /\ IsFarewell(p, last)
    /\ executed' = executed \o
          [k \in 1..(last - lastClientCommand) |-> Text(p, lastClientCommand + k)]
    /\ lastClientCommand' = last

(* SV_UserMove: the first usercmd puts the client into the world, and then *)
(* those newer than the last are executed.                                 *)
SV_UserMove(p) ==
    IF p.from > p.to THEN UNCHANGED <<state, lastUsercmd, begun, thought>>
    ELSE LET entered == IF state = "CS_PRIMED" THEN p.from ELSE lastUsercmd
             new == IF p.from > entered THEN p.from ELSE entered + 1
         IN  /\ state' = "CS_ACTIVE"
             /\ begun' = IF state = "CS_PRIMED" THEN p.from ELSE begun
             /\ thought' = thought \o [k \in 1..(p.to - new + 1) |-> new + k - 1]
             /\ lastUsercmd' = IF p.to >= new THEN p.to ELSE entered

(* A command is missing before the first: the client is dropped.           *)
LosesCommands(p) == Due(p) # {} /\ p.first > lastClientCommand + 1

(* SV_ExecuteClientMessage: the commands, and if the client is still there *)
(* the usercmds.                                                           *)
SV_ExecuteClientMessage ==
    /\ toServer # <<>>
    /\ state # "CS_FREE"
    /\ LET p == Head(toServer)
       IN  /\ \/ /\ state = "CS_ZOMBIE"
                 /\ UNCHANGED serverVars
              \/ /\ state # "CS_ZOMBIE"
                 /\ LosesCommands(p)
                 /\ state' = "CS_ZOMBIE"
                 /\ lostCommands' = TRUE
                 /\ UNCHANGED <<lastClientCommand, executed, lastUsercmd, begun, thought>>
              \/ /\ state # "CS_ZOMBIE"
                 /\ ~LosesCommands(p)
                 /\ UNCHANGED lostCommands
                 /\ \E last \in lastClientCommand..p.last :
                       /\ ExecuteCommands(p, last)
                       /\ \/ /\ last \in Due(p) /\ IsFarewell(p, last)
                             /\ state' = "CS_ZOMBIE"
                             /\ UNCHANGED <<lastUsercmd, begun, thought>>
                          \/ /\ ~(last \in Due(p) /\ IsFarewell(p, last))
                             /\ SV_UserMove(p)
           /\ missing' = (missing \/ lostInRow > cl_packetdup \/ ~p.whole)
    /\ toServer' = Tail(toServer)
    /\ lostInRow' = 0
    /\ UNCHANGED <<clientVars, toClient>>

(* SV_CheckTimeouts: the slot of a zombie, or of a client that has been    *)
(* silent too long, is free.  Silence is long once more packets are lost   *)
(* than repeating makes up for.                                            *)
Silent == ~connected /\ toServer = <<>>

(* Mutant: only zombies time out.                                          *)
TimedOut_ZombiesOnly == FALSE

TimedOut == Silent \/ lostInRow > cl_packetdup

SV_CheckTimeouts ==
    /\ state = "CS_ZOMBIE" \/ TimedOut
    /\ state # "CS_FREE"
    /\ state' = "CS_FREE"
    /\ UNCHANGED <<clientVars, lostCommands, lastClientCommand, executed, lastUsercmd, begun,
                   thought, netVars>>

-----------------------------------------------------------------------------
(* The next packet to arrive is lost; or the server ignores it, as one of  *)
(* a client that has not caught up with a map_restart or a new gamestate.  *)
Lose ==
    /\ \/ /\ toServer # <<>>
          /\ toServer' = Tail(toServer)
          /\ lostInRow' = MinOf(lostInRow + 1, cl_packetdup + 1)
          /\ UNCHANGED toClient
       \/ /\ toClient # <<>>
          /\ toClient' = Tail(toClient)
          /\ UNCHANGED <<toServer, lostInRow>>
    /\ UNCHANGED <<clientVars, serverVars, missing>>

Next ==
    \/ CL_AddReliableCommand
    \/ CL_CreateNewCommands
    \/ CL_WritePacket
    \/ CL_ParseServerMessage
    \/ CL_Disconnect
    \/ SV_ExecuteClientMessage
    \/ SV_SendClientSnapshot
    \/ SV_CheckTimeouts
    \/ Lose

Spec == Init /\ [][Next]_vars

(* Both sides send something in every few frames, the network does not     *)
(* lose every packet of an endless series, and SV_Frame looks for silent   *)
(* clients each time.                                                      *)
Fairness ==
    /\ WF_vars(CL_WritePacket)
    /\ WF_vars(SV_SendClientSnapshot)
    /\ SF_vars(SV_ExecuteClientMessage)
    /\ SF_vars(CL_ParseServerMessage)
    /\ WF_vars(SV_CheckTimeouts /\ Silent)

FairSpec == Spec /\ Fairness

-----------------------------------------------------------------------------
(* Properties.                                                             *)

(* Every variable holds a value of its type.                               *)
Packets == [first : Nat, last : Nat, commands : [Slots -> Nat], from : Nat, to : Nat,
            whole : BOOLEAN]
TypeOK ==
    /\ connected \in BOOLEAN
    /\ reliableSequence \in Nat
    /\ reliableAcknowledge \in Nat
    /\ reliableCommands \in [Slots -> Nat]
    /\ farewell \in Nat
    /\ cmdNumber \in Nat
    /\ outPackets \in Seq(Nat) /\ Len(outPackets) = cl_packetdup + 1
    /\ stamps \in Seq(Nat) /\ Len(stamps) = cmdNumber
    /\ state \in States
    /\ lostCommands \in BOOLEAN
    /\ lastClientCommand \in Nat
    /\ executed \in Seq(Nat)
    /\ lastUsercmd \in Nat
    /\ begun \in Nat
    /\ thought \in Seq(Nat)
    /\ toServer \in Seq(Packets)
    /\ toClient \in Seq(Nat)
    /\ lostInRow \in 0..(cl_packetdup + 1)
    /\ missing \in BOOLEAN

(* The server drops no client of this code for having lost its commands,   *)
(* however many packets are lost: what it says it has executed is neither  *)
(* ahead of nor behind the truth, so a packet begins early enough.         *)
NoneLost ==
    /\ ~lostCommands
    /\ reliableAcknowledge <= lastClientCommand
    /\ lastClientCommand <= reliableSequence

(* Until it says goodbye, the client holds every command that the server   *)
(* has not acknowledged.                                                   *)
RingKeeps ==
    farewell = 0 =>
       \A i \in (reliableAcknowledge + 1)..reliableSequence : reliableCommands[Slot(i)] = i

(* "guaranteed to not have future usercmd_t executed before it is          *)
(* executed": no usercmd is executed before a command given earlier.       *)
CommandsBeforeUsercmds ==
    \A k \in 1..Len(thought) : stamps[thought[k]] <= lastClientCommand

(* No usercmd is executed twice or out of order; and none after the first  *)
(* is left out, as long as no more packets are lost in a row than          *)
(* cl_packetdup and all fit in a packet.                                   *)
UsercmdsSurvive ==
    /\ \A j, k \in 1..Len(thought) : j < k => thought[j] < thought[k]
    /\ ~missing => \A k \in 1..Len(thought) : thought[k] = begun + k

(* What makes the commands reliable, with the types.                       *)
IInv == TypeOK /\ NoneLost /\ RingKeeps

(* The commands are a reliable stream, unless the last one, "disconnect",  *)
(* was put in a full ring.                                                 *)
Stream == INSTANCE ReliableStream WITH
              given <- reliableSequence, broken <- reliableSequence - reliableAcknowledge > N
ImplementsStream == Stream!Spec

(* A command given is executed, unless the connection ends.                *)
EventuallyExecuted ==
    \A i \in 1..MaxCommands :
       reliableSequence >= i ~>
          (lastClientCommand >= i \/ ~connected \/ state \in {"CS_ZOMBIE", "CS_FREE"})

(* A client that has left is gone from the server in the end, whether or   *)
(* not any of its three goodbyes arrives.                                  *)
EventuallyGone == ~connected ~> state = "CS_FREE"

(* "also leave one slot open for the disconnect command" (cl_main.c:586):  *)
(* "disconnect" overwrites no command the server may not have.             *)
SlotLeftForDisconnect == Unacknowledged <= N
=============================================================================
