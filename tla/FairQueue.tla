------------------------------ MODULE FairQueue ------------------------------
(***************************************************************************)
(* What a spawn queue promises to those who wait in it: a place at its     *)
(* end, no second one, and their turn when those before them have had      *)
(* theirs or have gone.                                                    *)
(***************************************************************************)
EXTENDS Sequences, SequencesExt

CONSTANT Waiters

VARIABLE line

FQInit == line = <<>>

Join(c) == /\ \A i \in DOMAIN line : line[i] # c
           /\ line' = Append(line, c)
Serve == line # <<>> /\ line' = Tail(line)
Leave == \E i \in DOMAIN line : line' = RemoveAt(line, i)

FQNext == (\E c \in Waiters : Join(c)) \/ Serve \/ Leave

FQSpec == FQInit /\ [][FQNext]_line
==============================================================================
