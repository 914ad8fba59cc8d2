----------------------------- MODULE SpawnQueue ------------------------------
(***************************************************************************)
(* The queues in which the dead of a team wait for a spawn                 *)
(* (src/src/game/g_main.c): rings of client numbers, MAX_CLIENTS slots     *)
(* each, with players who join a team, die, queue, follow one another,     *)
(* leave the queue, the team and the server.                               *)
(*                                                                         *)
(* Who follows another has a copy of the other's playerState_t, client     *)
(* number included (SpectatorClientEndFrame, G_FollowLockView), and that   *)
(* number is what G_LeaveTeam removes from the queue.                      *)
(***************************************************************************)
EXTENDS Integers, Sequences, FiniteSets

CONSTANTS sv_maxclients,    \* the slots the server has; level.maxclients
          MaxClients        \* MAX_CLIENTS, the size of a ring

ASSUME SpawnAssumption ==
    /\ sv_maxclients \in Nat /\ sv_maxclients > 0
    /\ MaxClients \in Nat /\ MaxClients > 1 /\ sv_maxclients <= MaxClients

Clients == 0..sv_maxclients - 1
NoClient == -1
Teams == {"aliens", "humans"}
Slots == 0..MaxClients - 1

VARIABLES queue,        \* of a team: [front, back, clients]
          team,         \* pers.teamSelection, or "gone"
          alive,        \* sess.spectatorState is SPECTATOR_NOT
          class,        \* pers.classSelection is not PCL_NONE
          sticky,       \* pers.stickySpec
          following,    \* sess.spectatorClient, if SPECTATOR_FOLLOW
          psClient      \* ps.clientNum

spawnVars == <<queue, team, alive, class, sticky, following, psClient>>

SpawnTypeOK ==
    /\ queue \in [Teams -> [front : Slots, back : Slots, clients : [Slots -> Clients \cup {NoClient}]]]
    /\ team \in [Clients -> Teams \cup {"none", "gone"}]
    /\ alive \in [Clients -> BOOLEAN] /\ class \in [Clients -> BOOLEAN] /\ sticky \in [Clients -> BOOLEAN]
    /\ following \in [Clients -> Clients \cup {NoClient}]
    /\ psClient \in [Clients -> Clients]
-----------------------------------------------------------------------------
(* QUEUE_PLUS1, QUEUE_MINUS1 *)
Plus1(i) == (i + 1) % MaxClients
Minus1(i) == (i - 1) % MaxClients

(* G_GetSpawnQueueLength: from 0 to MaxClients - 1, so a full queue is empty. *)
QueueLength(q) == (q.back - q.front + 1) % MaxClients

(* The slots from the front to the back, and who is there. *)
SlotAt(q, k) == (q.front + k - 1) % MaxClients
Entries(q) == [k \in 1..QueueLength(q) |-> q.clients[SlotAt(q, k)]]

(* All slots are taken: everybody on a server of MAX_CLIENTS waits. *)
Full(q) == \A i \in Slots : q.clients[i] # NoClient

(* G_SearchSpawnQueue *)
InQueue_Front(q, c) == QueueLength(q) > 0 /\ q.clients[q.front] = c
InQueue(q, c) == \E i \in Slots : q.clients[i] = c

(* G_PushSpawnQueue, for one who is not in the queue *)
Pushed(q, c) == [q EXCEPT !.back = Plus1(@), !.clients[Plus1(q.back)] = c]

(* G_PopSpawnQueue *)
Popped(q) == [q EXCEPT !.clients[q.front] = NoClient, !.front = Plus1(@)]

(* G_RemoveFromSpawnQueue: those behind c move up, and from the slot       *)
(* behind the back comes what is there.                                    *)
Place_Last(q, c) == QueueLength(q)
Place(q, c) == CHOOSE k \in DOMAIN Entries(q) :
                  Entries(q)[k] = c /\ \A j \in 1..k - 1 : Entries(q)[j] # c
MovedUp_BackStays(q, c) ==
    [q EXCEPT !.clients = [i \in Slots |->
        IF \E k \in Place(q, c)..QueueLength(q) - 1 : i = SlotAt(q, k) THEN q.clients[Plus1(i)] ELSE q.clients[i]],
              !.back = Minus1(@)]
MovedUp(q, c) ==
    [q EXCEPT !.clients = [i \in Slots |->
        IF \E k \in Place(q, c)..QueueLength(q) : i = SlotAt(q, k) THEN q.clients[Plus1(i)] ELSE q.clients[i]],
              !.back = Minus1(@)]
Removed(q, c) == IF \E k \in DOMAIN Entries(q) : Entries(q)[k] = c THEN MovedUp(q, c) ELSE q
-----------------------------------------------------------------------------
(* Those whom c may come to follow instead of the one it follows: players  *)
(* of its team, or of any if it has none; who live or, with stickySpec,    *)
(* wait or watch. *)
Candidates(c) ==
    {d \in Clients \ {c, following[c]} :
        /\ team[d] \in Teams /\ team[c] \in {"none", team[d]}
        /\ sticky[c] \/ alive[d]}

(* G_FollowNewClient takes the first of them, upwards (dir = 1) or         *)
(* downwards (-1), from the one followed, or else from client 0. *)
Distance(c, d, dir) ==
    LET original == IF following[c] = NoClient THEN 0 ELSE following[c]
    IN  (dir * (d - original) - 1) % sv_maxclients
NewTarget(c, dir) ==
    CHOOSE d \in Candidates(c) : \A e \in Candidates(c) : Distance(c, d, dir) <= Distance(c, e, dir)

(* G_FollowLockView: of one that is not alive the number is copied at once. *)
NumberOfTarget(c, d) == IF alive[d] THEN psClient[c] ELSE d

(* Whom one follows, and its number, after G_FollowNewClient, upwards, or  *)
(* G_StopFollowing if that finds nobody. *)
Onward(c) == IF Candidates(c) = {} THEN NoClient ELSE NewTarget(c, 1)
OnwardNumber(c) == IF Candidates(c) = {} THEN c ELSE NumberOfTarget(c, NewTarget(c, 1))

(* G_StopFromFollowing(c) sends on those who follow the client of c's      *)
(* playerState_t, in the order of their numbers.  c may be one of them:    *)
(* those after it are then compared with the number it has got. *)
SentOn(c) ==
    LET later == IF following[c] = psClient[c] THEN OnwardNumber(c) ELSE psClient[c]
    IN  {d \in Clients : following[d] = IF d <= c THEN psClient[c] ELSE later}

(* G_LeaveTeam takes c, by the number of its playerState_t, from the queue *)
(* of a team; c itself follows no one then (G_StopFollowing, ClientSpawn). *)
LeaveTeam(c) ==
    LET left == IF team[c] \in Teams THEN SentOn(c) ELSE {}
    IN  /\ queue' = IF team[c] \in Teams
                    THEN [queue EXCEPT ![team[c]] = Removed(@, psClient[c])] ELSE queue
        /\ following' = [d \in Clients |-> IF d = c THEN NoClient
                                           ELSE IF d \in left THEN Onward(d) ELSE following[d]]
        /\ psClient' = [d \in Clients |-> IF d = c THEN c
                                          ELSE IF d \in left THEN OnwardNumber(d) ELSE psClient[d]]

(* G_ChangeTeam: c has no class. *)
ChangeTeam(c, t) ==
    /\ team[c] # "gone" /\ t # team[c]
    /\ LeaveTeam(c)
    /\ team' = [team EXCEPT ![c] = t]
    /\ alive' = [alive EXCEPT ![c] = FALSE]
    /\ class' = [class EXCEPT ![c] = FALSE]
    /\ UNCHANGED sticky

(* ClientDisconnect; the class stays, and the state becomes SPECTATOR_NOT. *)
LeaveServer(c) ==
    /\ team[c] # "gone"
    /\ LeaveTeam(c)
    /\ team' = [team EXCEPT ![c] = "gone"]
    /\ alive' = [alive EXCEPT ![c] = TRUE]
    /\ UNCHANGED <<class, sticky>>

(* ClientConnect, ClientBegin *)
JoinServer(c) ==
    /\ team[c] = "gone"
    /\ team' = [team EXCEPT ![c] = "none"]
    /\ alive' = [alive EXCEPT ![c] = FALSE]
    /\ class' = [class EXCEPT ![c] = FALSE]
    /\ \E s \in BOOLEAN : sticky' = [sticky EXCEPT ![c] = s]
    /\ following' = [following EXCEPT ![c] = NoClient]
    /\ psClient' = [psClient EXCEPT ![c] = c]
    /\ UNCHANGED queue

(* ClientUserinfoChanged *)
ChangeSticky(c) ==
    /\ team[c] # "gone"
    /\ sticky' = [sticky EXCEPT ![c] = ~@]
    /\ UNCHANGED <<queue, team, alive, class, following, psClient>>

(* G_StopFollowing *)
StopFollowing(c) ==
    /\ following' = [following EXCEPT ![c] = NoClient]
    /\ psClient' = [psClient EXCEPT ![c] = c]

(* Cmd_Class_f of one who does not live: a class, and a place in the queue. *)
ChooseClass(c) ==
    /\ team[c] \in Teams /\ ~alive[c]
    /\ IF InQueue(queue[team[c]], c)
       THEN UNCHANGED <<queue, class>>
       ELSE /\ queue' = [queue EXCEPT ![team[c]] = Pushed(@, c)]
            /\ class' = [class EXCEPT ![c] = TRUE]
    /\ StopFollowing(c)
    /\ UNCHANGED <<team, alive, sticky>>

(* SpectatorThink: an attack takes one who waits out of the queue. *)
GiveUpPlace(c) ==
    /\ team[c] \in Teams /\ ~alive[c] /\ InQueue(queue[team[c]], c)
    /\ queue' = [queue EXCEPT ![team[c]] = Removed(@, c)]
    /\ class' = [class EXCEPT ![c] = FALSE]
    /\ StopFollowing(c)
    /\ UNCHANGED <<team, alive, sticky>>

(* Cmd_FollowCycle_f, and G_ToggleFollow of one who follows no one *)
FollowNext(c, dir) ==
    /\ ~alive[c] /\ Candidates(c) # {}
    /\ LET d == NewTarget(c, dir)
       IN  /\ following' = [following EXCEPT ![c] = d]
           /\ psClient' = [psClient EXCEPT ![c] = NumberOfTarget(c, d)]
    /\ UNCHANGED <<queue, team, alive, class, sticky>>

(* Cmd_Follow_f with a name: anybody on the server, of the team if c has   *)
(* one. *)
FollowNamed(c, d) ==
    /\ ~alive[c] /\ d # c /\ team[d] # "gone" /\ team[c] \in {"none", team[d]}
    /\ sticky[c] \/ alive[d]
    /\ following' = [following EXCEPT ![c] = d]
    /\ UNCHANGED <<queue, team, alive, class, sticky, psClient>>

(* G_ToggleFollow of one who follows, or its attack *)
FollowNoMore(c) ==
    /\ following[c] # NoClient
    /\ StopFollowing(c)
    /\ UNCHANGED <<queue, team, alive, class, sticky>>

(* SpectatorClientEndFrame: a follower copies the playerState_t. *)
EndFrame(c) ==
    /\ following[c] # NoClient /\ team[following[c]] # "gone"
    /\ psClient' = [psClient EXCEPT ![c] = psClient[following[c]]]
    /\ UNCHANGED <<queue, team, alive, class, sticky, following>>

(* The player dies and goes back to the team's spectators (respawn): the   *)
(* followers with stickySpec stay, with the number of the dead. *)
Die(c) ==
    LET left == {d \in Clients : following[d] = c /\ ~sticky[d]}
        kept == {d \in Clients : following[d] = c /\ sticky[d]}
    IN  /\ alive[c] /\ team[c] \in Teams
        /\ alive' = [alive EXCEPT ![c] = FALSE]
        /\ class' = [class EXCEPT ![c] = FALSE]
        /\ following' = [d \in Clients |-> IF d \in left THEN Onward(d) ELSE following[d]]
        /\ psClient' = [d \in Clients |-> IF d \in left THEN OnwardNumber(d)
                                          ELSE IF d \in kept THEN c ELSE psClient[d]]
        /\ UNCHANGED <<queue, team, sticky>>

(* G_SpawnClients: the first in the queue has a turn.  ClientSpawn lets    *)
(* one live who has chosen a class.                                        *)
SpawnFirst(t) ==
    /\ QueueLength(queue[t]) > 0
    /\ LET c == queue[t].clients[queue[t].front]
       IN  /\ queue' = [queue EXCEPT ![t] = Popped(@)]
           /\ alive' = [alive EXCEPT ![c] = class[c]]
           /\ StopFollowing(c)
    /\ UNCHANGED <<team, class, sticky>>
-----------------------------------------------------------------------------
(* G_InitSpawnQueue *)
EmptyQueue == [front |-> 0, back |-> MaxClients - 1, clients |-> [i \in Slots |-> NoClient]]

SpawnInit ==
    /\ queue = [t \in Teams |-> EmptyQueue]
    /\ team = [c \in Clients |-> "none"]
    /\ alive = [c \in Clients |-> FALSE] /\ class = [c \in Clients |-> FALSE]
    /\ sticky \in [Clients -> BOOLEAN]
    /\ following = [c \in Clients |-> NoClient]
    /\ psClient = [c \in Clients |-> c]

SpawnNext ==
    \/ \E c \in Clients, t \in Teams \cup {"none"} : ChangeTeam(c, t)
    \/ \E c \in Clients : LeaveServer(c) \/ JoinServer(c) \/ ChangeSticky(c)
    \/ \E c \in Clients : ChooseClass(c) \/ GiveUpPlace(c) \/ Die(c)
    \/ \E c \in Clients, dir \in {1, -1} : FollowNext(c, dir)
    \/ \E c, d \in Clients : FollowNamed(c, d)
    \/ \E c \in Clients : FollowNoMore(c) \/ EndFrame(c)
    \/ \E t \in Teams : SpawnFirst(t)

(* A team with spawns has one that is free again and again. *)
SpawnFairness == \A t \in Teams : WF_spawnVars(SpawnFirst(t))

SpawnSpec == SpawnInit /\ [][SpawnNext]_spawnVars /\ SpawnFairness
-----------------------------------------------------------------------------
(* A ring holds those who wait between its front and its back, each once,  *)
(* and nothing elsewhere: the whole-ring search of G_SearchSpawnQueue and  *)
(* the walks from front to back see the same clients (g_main.c:886, 926).  *)
(* A ring whose slots are all taken has length 0 for the walks.            *)
QueueInv ==
    /\ SpawnTypeOK
    /\ \A t \in Teams :
          LET q == queue[t]
          IN  /\ \A i, j \in Slots : (i # j /\ q.clients[i] = q.clients[j]) => q.clients[i] = NoClient
              /\ IF Full(q) THEN QueueLength(q) = 0
                 ELSE \A k \in 1..MaxClients :
                        (k <= QueueLength(q)) = (q.clients[SlotAt(q, k)] # NoClient)

(* Every queue is a line without pushing in: one joins at its end, once,   *)
(* and is served when those ahead are served or gone, whatever slots of    *)
(* the ring it has come to; nobody is lost from a full one.                *)
LineLength(q) == IF Full(q) THEN MaxClients ELSE QueueLength(q)
Line(q) == [k \in 1..LineLength(q) |-> q.clients[SlotAt(q, k)]]
AliensWait == INSTANCE FairQueue WITH Waiters <- Clients, line <- Line(queue["aliens"])
HumansWait == INSTANCE FairQueue WITH Waiters <- Clients, line <- Line(queue["humans"])
QueuesAreFair == AliensWait!FQSpec /\ HumansWait!FQSpec

(* Who waits loses its place by its turn, or by giving it up, or to one of *)
(* the team that leaves it with its number: itself, or one that watches it *)
(* (g_team.c:151; with stickySpec the dead and the waiting are watched,    *)
(* g_client.c:604).  Nothing else takes a place.                           *)
HasTurn(t, c) == c = queue[t].clients[queue[t].front] /\ alive'[c] = class[c]
GivesUp(t, c) == team[c] = t /\ ~class'[c]
LosesPlace(t, c) == InQueue(queue[t], c) /\ ~InQueue(queue'[t], c)
PlacesKept ==
    [][\A t \in Teams : \A c \in Clients : LosesPlace(t, c) =>
          \/ UNCHANGED team /\ (HasTurn(t, c) \/ GivesUp(t, c))
          \/ \E d \in Clients : team[d] = t /\ team'[d] # t /\ psClient[d] = c]_spawnVars

(* The one that leaves is the player itself.  (It does not hold: who       *)
(* follows a teammate that waits takes the other's place away.)            *)
PlacesAreOnesOwn ==
    [][\A t \in Teams : \A c \in Clients : LosesPlace(t, c) =>
          UNCHANGED team \/ (team[c] = t /\ team'[c] # t)]_spawnVars

(* Who leaves a team or the server is removed from its queue               *)
(* (g_team.c:150), so that whoever waits in it is of the team.  (It does   *)
(* not hold: one who follows another leaves with the other's number.)      *)
QueuedAreOfTheTeam ==
    \A t \in Teams : \A c \in Clients : InQueue(queue[t], c) => team[c] = t

(* Who waits comes to live, unless it gives up, leaves the team, or is     *)
(* watched.  (It does not hold of a full ring, whose length is 0: nobody   *)
(* is served any more, or can leave.)                                      *)
EventuallyServed ==
    \A t \in Teams : \A c \in Clients :
        InQueue(queue[t], c) ~>
            \/ alive[c] \/ ~class[c] \/ team[c] # t
            \/ \E d \in Clients \ {c} : team[d] = t /\ psClient[d] = c
==============================================================================
