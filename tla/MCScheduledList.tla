--------------------------- MODULE MCScheduledList ---------------------------
(* Two tabs, one of them with two composers holding the same request.         *)
EXTENDS ScheduledList, TLC

CONSTANTS c1, c2, c3, t1, t2

MCTabOf == [c \in Callers |-> IF c = c3 THEN t2 ELSE t1]
Symmetry == Permutations(Attempts) \cup Permutations({c1, c2})
=============================================================================
