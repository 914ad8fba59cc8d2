------------------------------- MODULE MCGame --------------------------------
(***************************************************************************)
(* The parts of the game module that share no state, checked in one run:   *)
(* the first state chooses which of them goes, and the others stay as they *)
(* began.  The waypoint graph is there twice, alone and, smaller, with a   *)
(* bot that uses it.                                                       *)
(***************************************************************************)
EXTENDS NavGraph, NavPath, Votes, SpawnQueue, GameMemory, TLC

VARIABLES focus,    \* the part that goes
          path, at, goal, age, trail    \* those of BotPath

Bot == INSTANCE BotPath WITH MaxWaypoints <- 2, MaxNeighbors <- 1, FileRoom <- 2,
                             Places <- {"p", "q"}, Nowhere <- "nowhere", MaxPath <- 2, Interval <- 1

(* Five waypoints along a line, not in order; walls and flanks are what    *)
(* the search weighs.                                                      *)
Along(a, b) ==
    LET place == <<0, 10, 4, 7, 12>>
    IN  IF place[a] < place[b] THEN place[b] - place[a] ELSE place[a] - place[b]
SearchGraphs ==
    [count : {5}, dist : {[a \in 1..5 |-> [b \in 1..5 |-> Along(a, b)]]},
     links : SUBSET ({l \in (1..5) \X (1..5) : l[1] # l[2] /\ l[2] # 1 /\ l[1] # 5} \ {<<1, 5>>}),
     wall : {{2}, {3, 4}}, flank : {{4}}, team : {"aliens", "humans"}, start : {1}, goal : {5}]

VotePercent == "kick" :> 50 @@ "map" :> 40
VoteDelay == "kick" :> 0 @@ "map" :> 1

pathOfBot == <<path, at, goal, age, trail>>
gameVars == <<focus, navVars, pathOfBot, pathVars, voteVars, spawnVars, memVars>>

(* The queues go twice too: with three players of one team, of whom the    *)
(* second has stickySpec and the third comes and goes; and with two of     *)
(* whom one changes sides, comes and goes, and changes its mind about      *)
(* stickySpec. *)
OneTeam ==
    /\ \A c \in Clients : sticky[c] = (c = 1) /\ team[c] # "humans"
    /\ team[0] # "gone" /\ team[1] # "gone"
TwoTeams ==
    /\ sticky[1] /\ ~sticky[2]
    /\ team[1] \in {"aliens", "none"} /\ team[2] = "none" /\ following[2] = NoClient
QueueBound == IF focus = "sides" THEN TwoTeams ELSE OneTeam

Init ==
    /\ focus \in {"graph", "bot", "search", "votes", "queues", "sides", "memory"}
    /\ GraphInit /\ Bot!BotInit /\ PathInit /\ VoteInit /\ SpawnInit /\ MemInit
    /\ QueueBound

OthersStay(part) ==
    /\ focus = part /\ UNCHANGED focus
    /\ IF part \in {"graph", "bot"} THEN TRUE ELSE UNCHANGED navVars
    /\ IF part = "bot" THEN TRUE ELSE UNCHANGED pathOfBot
    /\ IF part = "search" THEN TRUE ELSE UNCHANGED pathVars
    /\ IF part = "votes" THEN TRUE ELSE UNCHANGED voteVars
    /\ IF part \in {"queues", "sides"} THEN TRUE ELSE UNCHANGED spawnVars
    /\ IF part = "memory" THEN TRUE ELSE UNCHANGED memVars

(* Once a file that does not fit has been loaded, nothing is promised of   *)
(* the graph, and it goes no further. *)
GraphGoes == ~cut /\ GraphNext

Next ==
    \/ OthersStay("graph") /\ GraphGoes
    \/ OthersStay("bot") /\ Bot!BPNext
    \/ OthersStay("search") /\ PathNext
    \/ OthersStay("votes") /\ VoteNext
    \/ \E part \in {"queues", "sides"} : OthersStay(part) /\ SpawnNext /\ QueueBound'
    \/ OthersStay("memory") /\ MemNext

Fairness ==
    /\ WF_gameVars(OthersStay("bot") /\ Bot!TimePasses)
    /\ WF_gameVars(OthersStay("bot") /\ Bot!FindsAnew)

Spec == Init /\ [][Next]_gameVars /\ Fairness
-----------------------------------------------------------------------------
(* BotPath's StaleEnds, of the smaller graph: a bot does not follow for    *)
(* ever a path of waypoints that are gone (g_bot.c:292). *)
StalePathEnds == Bot!StaleEnds
==============================================================================
