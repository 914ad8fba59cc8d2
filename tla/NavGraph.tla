------------------------------- MODULE NavGraph -------------------------------
(***************************************************************************)
(* The waypoints that bots find their way by (src/src/game/g_nav.c): an    *)
(* array, in which a waypoint knows its neighbours by their index.  When a *)
(* waypoint is deleted the last one takes its index, so every index of     *)
(* either must be found and changed.                                       *)
(*                                                                         *)
(* The array is a sequence: waypoint i of the code is waypoints[i + 1].    *)
(* The neighbours of a waypoint are a set: nothing depends on their order. *)
(***************************************************************************)
EXTENDS Integers, Sequences, FiniteSets

CONSTANTS MaxWaypoints,     \* MAX_WAYPOINTS
          MaxNeighbors,     \* MAX_WAYPOINT_NEIGHBORS
          FileRoom,         \* waypoints of a file that fit in s_navFileBuffer
          Places,           \* origins, with their flags; they tell waypoints apart
          Nowhere           \* the origin of a waypoint that was read only in part

ASSUME NavAssumption ==
    /\ MaxWaypoints \in Nat /\ MaxNeighbors \in Nat /\ FileRoom \in Nat
    /\ Nowhere \notin Places

VARIABLES waypoints,    \* g_navGraph
          wptFile,        \* maps/<mapname>.wpt: [there, nodes]
          cut           \* history: the graph comes from a file that did not fit

navVars == <<waypoints, wptFile, cut>>

NumWaypoints == Len(waypoints)
Indices == 1..NumWaypoints

Waypoint == [place : Places \cup {Nowhere}, neighbors : SUBSET (1..MaxWaypoints)]

GraphTypeOK ==
    /\ waypoints \in Seq(Waypoint) /\ NumWaypoints <= MaxWaypoints
    /\ wptFile.nodes \in Seq(Waypoint) /\ Len(wptFile.nodes) <= MaxWaypoints
    /\ wptFile = [there |-> wptFile.there, nodes |-> wptFile.nodes, cut |-> wptFile.cut]
    /\ wptFile.there \in BOOLEAN /\ wptFile.cut \in BOOLEAN
    /\ cut \in BOOLEAN
-----------------------------------------------------------------------------
Alone(p) == [place |-> p, neighbors |-> {}]

PlacesOf(wps) == {wps[i].place : i \in DOMAIN wps}

(* nav_add: a waypoint where the player stands, unless there are too many. *)
NAV_AddWaypoint(p) ==
    /\ NumWaypoints < MaxWaypoints
    /\ p \notin PlacesOf(waypoints)
    /\ waypoints' = Append(waypoints, Alone(p))
    /\ UNCHANGED <<wptFile, cut>>

(* The links of n after waypoint i went and the last one took its index. *)
Renumbered_Forgotten(n, i, last) == n \ {i}
Renumbered(n, i, last) ==
    {IF j = last THEN i ELSE j : j \in n \ {i}}

(* nav_del: links to the waypoint go, the last waypoint moves to its place *)
(* in the array, and links to the last now say so.                         *)
NAV_DeleteWaypoint(i) ==
    /\ i \in Indices
    /\ LET last == NumWaypoints
           moved(k) == IF k = i THEN waypoints[last] ELSE waypoints[k]
       IN  waypoints' = [k \in 1..last - 1 |->
                            [moved(k) EXCEPT !.neighbors = Renumbered(@, i, last)]]
    /\ UNCHANGED <<wptFile, cut>>

(* One direction: not to itself, not twice, not more than there is room for. *)
LinkedTo_Full(wps, from, to) ==
    [wps EXCEPT ![from].neighbors = @ \cup {to}]
LinkedTo(wps, from, to) ==
    IF from = to \/ Cardinality(wps[from].neighbors) >= MaxNeighbors
    THEN wps
    ELSE [wps EXCEPT ![from].neighbors = @ \cup {to}]

(* nav_link: both directions, each if its end has room. *)
NAV_LinkWaypoints(a, b) ==
    /\ a \in Indices /\ b \in Indices
    /\ waypoints' = LinkedTo(LinkedTo(waypoints, a, b), b, a)
    /\ UNCHANGED <<wptFile, cut>>

(* NAV_AutoLink links every pair that sees each other.  A waypoint comes   *)
(* upon the others in the order of their indices, and takes them while     *)
(* there is room.                                                          *)
Sees(n, sight, i) == {j \in 1..n : j # i /\ {i, j} \in sight}
NewNeighbors(n, seen) ==
    LET more == seen \ n
    IN  n \cup {j \in more :
                  Cardinality(n) + Cardinality({k \in more : k < j}) < MaxNeighbors}
Pairs(n) == {{i, j} : i, j \in 1..n} \ {{i} : i \in 1..n}

NAV_AutoLink ==
    /\ \E sight \in SUBSET Pairs(NumWaypoints) :
          waypoints' = [i \in Indices |->
                          [waypoints[i] EXCEPT !.neighbors = NewNeighbors(@, Sees(NumWaypoints, sight, i))]]
    /\ UNCHANGED <<wptFile, cut>>

NAV_SaveToFile ==
    /\ wptFile' = [there |-> TRUE, nodes |-> waypoints, cut |-> cut]
    /\ UNCHANGED <<waypoints, cut>>

(* The waypoint at which the buffer ends: without neighbours if their      *)
(* number is cut off; else those cut off are waypoint 0, and one may be a  *)
(* lower one, as its number lacks digits.                                  *)
Misread(w) == {k \in 1..MaxWaypoints : k = 1 \/ \E j \in w.neighbors : 10 * k <= j}
CutShort(w) ==
    {Alone(Nowhere)} \cup
    {[place |-> w.place, neighbors |-> n \cup {k}] :
        n \in (SUBSET w.neighbors) \ {w.neighbors}, k \in Misread(w)}

(* NAV_LoadFromFile: what is in the file, as far as it fits in the buffer. *)
FromFile ==
    IF Len(wptFile.nodes) <= FileRoom
    THEN waypoints' = wptFile.nodes /\ cut' = wptFile.cut
    ELSE /\ cut' = TRUE
         /\ \/ waypoints' = SubSeq(wptFile.nodes, 1, FileRoom)
            \/ \E w \in CutShort(wptFile.nodes[FileRoom + 1]) :
                  waypoints' = Append(SubSeq(wptFile.nodes, 1, FileRoom), w)

NAV_LoadFromFile == wptFile.there /\ FromFile /\ UNCHANGED wptFile

(* NAV_AutoGenerate seeds waypoints, each at a distance from the others,   *)
(* and links them.                                                         *)
NAV_AutoGenerate ==
    /\ \E k \in 0..MaxWaypoints : \E seeds \in [1..k -> Places], sight \in SUBSET Pairs(k) :
          /\ \A i, j \in 1..k : i # j => seeds[i] # seeds[j]
          /\ waypoints' = [i \in 1..k |->
                              [place |-> seeds[i],
                               neighbors |-> NewNeighbors({}, Sees(k, sight, i))]]
    /\ cut' = FALSE
    /\ UNCHANGED wptFile

(* NAV_InitForMap, when the map begins. *)
NAV_InitForMap == IF wptFile.there THEN FromFile /\ UNCHANGED wptFile ELSE NAV_AutoGenerate
-----------------------------------------------------------------------------
(* A map without seeds and without a file. *)
GraphInit == waypoints = <<>> /\ wptFile = [there |-> FALSE, nodes |-> <<>>, cut |-> FALSE] /\ cut = FALSE

GraphNext ==
    \/ \E p \in Places : NAV_AddWaypoint(p)
    \/ \E i \in Indices : NAV_DeleteWaypoint(i)
    \/ \E a, b \in Indices : NAV_LinkWaypoints(a, b)
    \/ NAV_AutoLink
    \/ NAV_SaveToFile
    \/ NAV_LoadFromFile
    \/ NAV_InitForMap

GraphSpec == GraphInit /\ [][GraphNext]_navVars
-----------------------------------------------------------------------------
(* A graph as it should be: its waypoints are different ones, each links   *)
(* to others that are there, and to no more than there is room for.        *)
Whole(wps) ==
    /\ \A i, j \in DOMAIN wps : i # j => wps[i].place # wps[j].place
    /\ \A i \in DOMAIN wps :
          /\ wps[i].place \in Places
          /\ wps[i].neighbors \subseteq DOMAIN wps \ {i}
          /\ Cardinality(wps[i].neighbors) <= MaxNeighbors

(* Whatever is added, deleted (and moved to another index), linked, saved  *)
(* and loaded, a neighbour's index is that of a waypoint, and the same in  *)
(* the file.  A file longer than the buffer, which NAV_LoadFromFile reads  *)
(* in part (g_nav.c:299), ends this.                                       *)
GraphInv ==
    /\ GraphTypeOK
    /\ cut \/ Whole(waypoints)
    /\ wptFile.cut \/ Whole(wptFile.nodes)

(* The array with its indices is a graph of places: an edit, a deletion    *)
(* that moves the last waypoint to another index included, changes what it *)
(* names and nothing else, and what is loaded is what was saved.           *)
GraphOf(wps) ==
    [nodes |-> PlacesOf(wps),
     links |-> UNION {{<<wps[i].place, wps[j].place>> : j \in wps[i].neighbors \cap DOMAIN wps}
                         : i \in DOMAIN wps}]
Abstract == INSTANCE WaypointGraph
                WITH graph <- GraphOf(waypoints), saved <- GraphOf(wptFile.nodes),
                     there <- wptFile.there, broken <- cut \/ wptFile.cut
ImplementsGraph == Abstract!AGSpec
===============================================================================
