------------------------------- MODULE BotPath -------------------------------
(***************************************************************************)
(* A bot on its way through the waypoints (Bot_Think, src/src/game/        *)
(* g_bot.c), while an admin edits them (NavGraph).  The bot keeps the path *)
(* it found as indices into the array of waypoints, and nobody tells it    *)
(* when a waypoint is deleted, moves to another index, or when another     *)
(* graph is loaded: only finding a path anew, at least every so often,     *)
(* keeps it from following what is no longer there.                        *)
(*                                                                         *)
(* How the search chooses between paths is NavPath's; here it finds some   *)
(* path or none.  Where the bot stands shows in what it is near, has       *)
(* reached and sees: each is a choice.                                     *)
(***************************************************************************)
EXTENDS NavGraph

CONSTANTS MaxPath,      \* NAV_PATH_MAX_NODES
          Interval      \* the 2000 ms after which a path is found anew

VARIABLES path,         \* currentPath, pathLength
          at,           \* pathIndex + 1
          goal,         \* currentGoalNode + 1
          age,          \* level.time - lastPathRecalcTime, no more than Interval + 1
          trail         \* history: the places of the path when it was found

botVars == <<path, at, goal, age, trail>>
bpVars == <<navVars, botVars>>

BotTypeOK ==
    /\ path \in Seq(1..MaxWaypoints) /\ Len(path) <= MaxPath
    /\ at \in 1..MaxPath + 1 /\ (path = <<>> \/ at <= Len(path) + 1)
    /\ goal \in 1..MaxWaypoints
    /\ age \in 0..Interval + 1
    /\ Len(trail) = Len(path)
-----------------------------------------------------------------------------
(* Ways along the links that visit no waypoint twice. *)
Ways(s, g) ==
    {w \in UNION {[1..n -> Indices] : n \in 1..NumWaypoints} :
        /\ w[1] = s /\ w[Len(w)] = g
        /\ \A i, j \in DOMAIN w : i # j => w[i] # w[j]
        /\ \A i \in 1..Len(w) - 1 : w[i + 1] \in waypoints[w[i]].neighbors}

(* The end of a way that is too long. *)
LastNodes(w) == SubSeq(w, IF Len(w) > MaxPath THEN Len(w) - MaxPath + 1 ELSE 1, Len(w))

(* When a path is found anew. *)
RecalcDue_NewGoalOnly(wanted) ==
    goal # wanted \/ path = <<>> \/ at > Len(path)
RecalcDue(wanted) ==
    goal # wanted \/ path = <<>> \/ at > Len(path) \/ age > Interval

(* A path from a waypoint near the bot, if the search finds one. *)
Recalculate(s, wanted) ==
    /\ path' \in {LastNodes(w) : w \in Ways(s, wanted)} \cup {<<>>}
    /\ trail' = [k \in DOMAIN path' |-> waypoints[path'[k]].place]
    /\ goal' = wanted
    /\ age' = 0

(* Where the bot is in path p, having been at k: it has reached the        *)
(* waypoint it went for or not, and sees the one after or not.             *)
Followed(p, k) ==
    IF p = <<>> \/ k > Len(p) THEN {k}
    ELSE UNION {{j, IF j < Len(p) THEN j + 1 ELSE j} : j \in {k, k + 1}}

(* Bot_Think, away from fights, near waypoint s. *)
Navigate(s, wanted) ==
    /\ s \in Indices /\ wanted \in Indices
    /\ IF RecalcDue(wanted)
       THEN Recalculate(s, wanted) /\ at' \in Followed(path', 1)
       ELSE at' \in Followed(path, at) /\ UNCHANGED <<path, goal, age, trail>>
    /\ UNCHANGED navVars

(* The same with no waypoint near, or none at all: the bot goes on as it did. *)
NavigateFar ==
    /\ at' \in Followed(path, at)
    /\ UNCHANGED <<path, goal, age, trail, navVars>>

(* It has not moved for a while, and shall find another path. *)
Stuck ==
    /\ path' = <<>> /\ trail' = <<>> /\ age' = Interval + 1
    /\ UNCHANGED <<at, goal, navVars>>

TimePasses ==
    /\ age <= Interval
    /\ age' = age + 1
    /\ UNCHANGED <<path, at, goal, trail, navVars>>
-----------------------------------------------------------------------------
BotInit == path = <<>> /\ at = 1 /\ goal = 1 /\ age = Interval + 1 /\ trail = <<>>

BotNext ==
    \/ \E s, wanted \in Indices : Navigate(s, wanted)
    \/ NavigateFar
    \/ Stuck
    \/ TimePasses

BPInit == GraphInit /\ BotInit
BPNext == (GraphNext /\ UNCHANGED botVars) \/ BotNext

(* Time passes, and a bot is not for ever in a fight or away from every    *)
(* waypoint, so that it finds a path when it is to, whatever it goes for;  *)
(* whether it gets on along a path is not assumed.                         *)
FindsAnew ==
    /\ \A wanted \in Indices : RecalcDue(wanted)
    /\ \E s, wanted \in Indices : Navigate(s, wanted)
BotFairness == WF_bpVars(TimePasses) /\ WF_bpVars(FindsAnew)

BPSpec == BPInit /\ [][BPNext]_bpVars /\ BotFairness
-----------------------------------------------------------------------------
(* The bot goes for an index that is none, or names another waypoint than  *)
(* when the path was found.                                                *)
Stale ==
    \E k \in at..Len(path) :
        \/ path[k] \notin Indices
        \/ waypoints[path[k]].place # trail[k]

(* A bot does not follow for ever a path of waypoints that are gone or     *)
(* have other indices, though no edit of the graph tells it               *)
(* (g_bot.c:292): once the edits pause, it finds the path anew.            *)
StaleEnds == Stale ~> (~Stale \/ waypoints = <<>>)
==============================================================================
