---------------------------- MODULE WaypointGraph ----------------------------
(***************************************************************************)
(* What a graph of waypoints promises to those who edit it: a set of       *)
(* places and links between them.  An edit changes what it names and       *)
(* nothing else; a graph that is loaded is the one that was saved.         *)
(* NavGraph, which keeps the waypoints in an array and links them by       *)
(* index, implements it until it reads a file it has no room for.          *)
(***************************************************************************)
CONSTANT Places     \* what tells one waypoint from another

VARIABLES graph,    \* [nodes, links]
          saved,    \* the graph in the file
          there,    \* there is a file
          broken    \* a file was read only in part: no more is promised

NoGraph == [nodes |-> {}, links |-> {}]

IsGraph(g) ==
    /\ g = [nodes |-> g.nodes, links |-> g.links]
    /\ g.nodes \subseteq Places
    /\ \A l \in g.links : /\ l \in g.nodes \X g.nodes
                          /\ l[1] # l[2]

AGInit == graph = NoGraph /\ saved = NoGraph /\ there = FALSE /\ broken = FALSE

(* A new place, without links. *)
Add == /\ \E p \in Places \ graph.nodes : graph' = [graph EXCEPT !.nodes = @ \cup {p}]
       /\ UNCHANGED <<saved, there, broken>>

(* A place goes, with its links; those of the others stay. *)
Delete ==
    /\ \E p \in graph.nodes :
          graph' = [nodes |-> graph.nodes \ {p},
                    links |-> {l \in graph.links : l[1] # p /\ l[2] # p}]
    /\ UNCHANGED <<saved, there, broken>>

(* Links are added between places that are there. *)
Link == /\ IsGraph(graph')
        /\ graph'.nodes = graph.nodes
        /\ graph.links \subseteq graph'.links
        /\ UNCHANGED <<saved, there, broken>>

Save == saved' = graph /\ there' = TRUE /\ UNCHANGED <<graph, broken>>

Load == there /\ graph' = saved /\ UNCHANGED <<saved, there, broken>>

(* Without a file a graph is made anew. *)
Generate == ~there /\ IsGraph(graph') /\ UNCHANGED <<saved, there, broken>>

Break == broken' = TRUE

AGNext == broken \/ Add \/ Delete \/ Link \/ Save \/ Load \/ Generate \/ Break

AGSpec == AGInit /\ [][AGNext]_<<graph, saved, there, broken>>
==============================================================================
