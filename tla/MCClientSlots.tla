---------------------------- MODULE MCClientSlots ----------------------------
(* Three slots, one reserved; a player with two addresses, and another.    *)
EXTENDS ClientSlots

CONSTANTS p1, p2

Guid == [r \in {<<p1, 1>>, <<p1, 2>>, <<p2, 1>>} |-> r[1]]
Addresses == DOMAIN Guid
=============================================================================
