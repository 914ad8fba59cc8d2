------------------------------- MODULE NavPath -------------------------------
(***************************************************************************)
(* The search for a path through the waypoints (NAV_FindPath,              *)
(* src/src/game/g_nav.c): A* with a closed set, over edges whose cost      *)
(* depends on the team.  An alien pays less than the distance for a wall   *)
(* or a flanking route, so the distance that is left, by which the search  *)
(* is guided, may be more than the cost that is left, and a closed         *)
(* waypoint is not opened again: a path may be missed for a dearer one.    *)
(*                                                                         *)
(* Waypoint i of the code is i + 1.  Costs are ten times those of the      *)
(* code, and exact; no sum reaches its 999999.                             *)
(***************************************************************************)
EXTENDS Integers, Sequences, FiniteSets

CONSTANTS Queries,      \* what NAV_FindPath is asked, see IsQuery
          MaxNodes      \* NAV_PATH_MAX_NODES

(* The waypoints lie in a space. *)
IsMetric(q) ==
    LET places == 1..q.count
    IN  /\ q.dist \in [places -> [places -> Nat]]
        /\ \A a, b, c \in places :
            /\ q.dist[a][a] = 0 /\ q.dist[a][b] = q.dist[b][a]
            /\ q.dist[a][c] <= q.dist[a][b] + q.dist[b][c]

(* A graph, the distances between its waypoints, walls and flanks among    *)
(* them, who asks, and the ends of the path.                               *)
IsQuery(q) ==
    LET n == q.count
    IN  /\ n \in Nat /\ IsMetric(q)
        /\ q.wall \subseteq 1..n /\ q.flank \subseteq 1..n
        /\ q.links \subseteq (1..n) \X (1..n)
        /\ q.team \in {"none", "aliens", "humans"}
        /\ q.start \in 1..n /\ q.goal \in 1..n

ASSUME PathAssumption == MaxNodes \in Nat \ {0} /\ \A q \in Queries : IsQuery(q)

VARIABLES query,        \* the arguments, and g_navGraph
          open,         \* openSet
          closed,       \* closedSet
          gScore,       \* of the waypoints that were reached
          cameFrom,     \* of those but the first
          phase,        \* of the call: one of Phases
          outPath

pathVars == <<query, open, closed, gScore, cameFrom, phase, outPath>>

Phases == {"called", "search", "back", "done"}

NoQuery == [count |-> 0, dist |-> <<>>, wall |-> {}, flank |-> {}, links |-> {}, team |-> "none",
            start |-> 0, goal |-> 0]

Nodes == 1..query.count
PathTypeOK ==
    /\ query = NoQuery \/ IsQuery(query)
    /\ open \subseteq Nodes /\ closed \subseteq Nodes
    /\ DOMAIN gScore \subseteq Nodes /\ \A n \in DOMAIN gScore : gScore[n] \in Nat
    /\ DOMAIN cameFrom \subseteq Nodes /\ \A n \in DOMAIN cameFrom : cameFrom[n] \in Nodes
    /\ phase \in Phases
    /\ outPath \in Seq(Nodes) /\ Len(outPath) <= MaxNodes
-----------------------------------------------------------------------------
Dist(a, b) == query.dist[a][b]

(* Humans cannot climb walls. *)
Passable(to) == query.team = "humans" => to \notin query.wall

(* teamMultiplier, in tenths. *)
Multiplier(to) ==
    IF query.team = "aliens" /\ to \in query.wall THEN 7
    ELSE IF query.team = "aliens" /\ to \in query.flank THEN 8
    ELSE IF query.team = "humans" /\ to \in query.flank THEN 11
    ELSE 10
EdgeCost(a, b) == Multiplier(b) * Dist(a, b)

(* gScore plus the distance to the goal. *)
FScore(n) == gScore[n] + 10 * Dist(n, query.goal)

(* The open waypoint of lowest fScore, the first of them. *)
Current ==
    CHOOSE n \in open : \A m \in open :
        FScore(n) < FScore(m) \/ (FScore(n) = FScore(m) /\ n <= m)

(* The neighbours that are reached better from n than before. *)
Improved_Walls(n) ==
    {m \in Nodes \ (closed \cup {n}) :
        /\ <<n, m>> \in query.links
        /\ m \in DOMAIN gScore => gScore[n] + EdgeCost(n, m) < gScore[m]}
Improved(n) ==
    {m \in Nodes \ (closed \cup {n}) :
        /\ <<n, m>> \in query.links
        /\ Passable(m)
        /\ m \in DOMAIN gScore => gScore[n] + EdgeCost(n, m) < gScore[m]}

Updated(f, S, v(_)) == [n \in DOMAIN f \cup S |-> IF n \in S THEN v(n) ELSE f[n]]

(* The call, on cleared arrays; the way to where one is is found at once.  *)
(* (The model follows one call: the next begins where this one did.)       *)
NAV_FindPath(q) ==
    /\ query' = q
    /\ IF q.start = q.goal
       THEN /\ outPath' = <<q.goal>> /\ phase' = "done"
            /\ UNCHANGED <<open, closed, gScore, cameFrom>>
       ELSE /\ open' = {q.start} /\ gScore' = [n \in {q.start} |-> 0]
            /\ phase' = "search"
            /\ UNCHANGED <<closed, cameFrom, outPath>>

(* One round of the loop, unless the goal is next or nothing is open. *)
Expand ==
    /\ phase = "search" /\ open # {} /\ Current # query.goal
    /\ LET n == Current
           better == Improved(n)
       IN  /\ open' = (open \ {n}) \cup better
           /\ closed' = closed \cup {n}
           /\ gScore' = Updated(gScore, better, LAMBDA m : gScore[n] + EdgeCost(n, m))
           /\ cameFrom' = Updated(cameFrom, better, LAMBDA m : n)
    /\ UNCHANGED <<query, phase, outPath>>

(* The end of the loop: there is a way if the goal was reached. *)
StopSearch ==
    /\ phase = "search" /\ (open # {} => Current = query.goal)
    /\ IF query.goal \in DOMAIN cameFrom
       THEN outPath' = <<query.goal>> /\ phase' = "back"
       ELSE phase' = "done" /\ UNCHANGED outPath
    /\ UNCHANGED <<query, open, closed, gScore, cameFrom>>

(* The path is put together from its end, as long as there is room. *)
Room_Less == Len(outPath) < MaxNodes - 1
Room == Len(outPath) < MaxNodes
GoesBack == Head(outPath) # query.start /\ Head(outPath) \in DOMAIN cameFrom /\ Room
StepBack ==
    /\ phase = "back"
    /\ IF GoesBack
       THEN outPath' = <<cameFrom[Head(outPath)]>> \o outPath /\ UNCHANGED phase
       ELSE phase' = "done" /\ UNCHANGED outPath
    /\ UNCHANGED <<query, open, closed, gScore, cameFrom>>
-----------------------------------------------------------------------------
PathInit ==
    /\ query = NoQuery
    /\ open = {} /\ closed = {} /\ gScore = <<>> /\ cameFrom = <<>>
    /\ phase = "called" /\ outPath = <<>>

PathNext ==
    \/ phase = "called" /\ \E q \in Queries : NAV_FindPath(q)
    \/ Expand
    \/ StopSearch
    \/ StepBack

PathSpec == PathInit /\ [][PathNext]_pathVars
-----------------------------------------------------------------------------
(* The links this team can use, and what the best ways cost: pairs of a    *)
(* waypoint and a cost, after looking at every link once for every node.   *)
CanGo(a, b) == <<a, b>> \in query.links /\ a # b /\ Passable(b)
Usable == {l \in query.links : CanGo(l[1], l[2])}
Cheapest(costs) == {c \in costs : \A d \in costs : d[1] = c[1] => c[2] <= d[2]}
Relaxed(costs) ==
    Cheapest(costs \cup {<<lc[1][2], lc[2][2] + EdgeCost(lc[1][1], lc[1][2])>> :
                            lc \in {lc \in Usable \X costs : lc[1][1] = lc[2][1]}})
BestCosts ==
    LET round[k \in Nat] == IF k = 0 THEN {<<query.start, 0>>} ELSE Relaxed(round[k - 1])
    IN  round[Cardinality(Nodes)]
Reachable == {c[1] : c \in BestCosts}
BestCost == CHOOSE n \in {c[2] : c \in BestCosts} : <<query.goal, n>> \in BestCosts
PathCost(p) ==
    LET last[k \in 0..Len(p) - 1] ==     \* of its last k links
          IF k = 0 THEN 0 ELSE EdgeCost(p[Len(p) - k], p[Len(p) - k + 1]) + last[k - 1]
    IN  last[Len(p) - 1]

(* Every waypoint that is reached hangs on a chain of usable links from    *)
(* the start, each one's cost the sum of the chain; what a closed one      *)
(* leads to is reached, so that at the end of a search in vain those are   *)
(* all that can be.  The path is a chain to the goal, and if it fits it    *)
(* begins at the start.                                                    *)
Tree ==
    /\ open \cap closed = {}
    /\ query.start \notin DOMAIN cameFrom
    /\ DOMAIN gScore = open \cup closed /\ DOMAIN cameFrom = DOMAIN gScore \ {query.start}
    /\ \A m \in DOMAIN cameFrom :
          /\ cameFrom[m] \in closed
          /\ CanGo(cameFrom[m], m)
          /\ gScore[m] = gScore[cameFrom[m]] + EdgeCost(cameFrom[m], m)
    /\ phase = "called" => open \cup closed = {}
    /\ phase # "called" /\ query.start # query.goal =>
          query.start \in DOMAIN gScore /\ gScore[query.start] = 0
    /\ \A a \in closed, b \in Nodes : CanGo(a, b) => b \in open \cup closed

Chain ==
    /\ phase \in {"called", "search"} => outPath = <<>>
    /\ phase = "search" => query.start # query.goal
    /\ phase = "back" => outPath # <<>> /\ Head(outPath) \in open \cup closed
    /\ outPath # <<>> =>
          /\ outPath[Len(outPath)] = query.goal
          /\ \A k \in 1..Len(outPath) - 1 : CanGo(outPath[k], outPath[k + 1])
          /\ phase = "done" /\ Len(outPath) < MaxNodes => outPath[1] = query.start
    /\ phase = "done" /\ outPath = <<>> => open = {} /\ query.goal \notin closed

SearchInv == PathTypeOK /\ Tree /\ Chain

Done == phase = "done" /\ query.start # query.goal

(* "calculate shortest paths" (BACKLOG.md:101): so it does for humans and  *)
(* spectators.  An alien's path may cost up to 10/7 of the least, as a     *)
(* wall is taken for 0.7 of the distance that guides the search.           *)
ShortEnough ==
    outPath[1] = query.start =>
        IF query.team = "aliens" THEN 7 * PathCost(outPath) <= 10 * BestCost
        ELSE PathCost(outPath) = BestCost

(* A path is found if and only if the team can reach the goal, it starts   *)
(* where it should unless it is longer than there is room for              *)
(* (g_nav.c:615), and it is short.                                         *)
FindsPath ==
    Done => /\ (outPath # <<>>) = (query.goal \in Reachable)
            /\ outPath # <<>> =>
                  /\ Len(outPath) < MaxNodes => outPath[1] = query.start
                  /\ ShortEnough
==============================================================================
