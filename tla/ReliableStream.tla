---------------------------- MODULE ReliableStream ----------------------------
(***************************************************************************)
(* What the reliable commands of either direction promise, with no ring,   *)
(* no acknowledgement and no message in sight: the commands given are      *)
(* numbered from 1, and they are executed in the order they were given,    *)
(* none left out and none twice - for as long as the giver has not had to  *)
(* give up because the other side is too far behind.                       *)
(***************************************************************************)
EXTENDS Naturals, Sequences

VARIABLES
    given,              \* how many commands have been given
    executed,           \* the commands executed, in order
    broken              \* the giver has given up

vars == <<given, executed, broken>>

Init ==
    /\ given = 0
    /\ executed = <<>>
    /\ broken = FALSE

Give ==
    /\ given' \in Nat
    /\ given' > given
    /\ broken' \in {broken, TRUE}
    /\ UNCHANGED executed

(* The next few commands are executed.                                     *)
Execute(n) ==
    /\ ~broken
    /\ executed' = executed \o [k \in 1..n |-> Len(executed) + k]
    /\ UNCHANGED <<given, broken>>

(* Once it is broken, nothing is promised.                                 *)
Broken ==
    /\ broken
    /\ broken' = TRUE

Next ==
    \/ Give
    \/ \E n \in 1..(given - Len(executed)) : Execute(n)
    \/ Broken

Spec == Init /\ [][Next]_vars
=============================================================================
