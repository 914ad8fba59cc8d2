---------------------------- MODULE MCConnection -----------------------------
(***************************************************************************)
(* Numbers drawn at random are alike.                                      *)
(***************************************************************************)
EXTENDS Connection, TLC

Symmetry == Permutations(Challenges) \cup Permutations(ClientNumbers)
==============================================================================
