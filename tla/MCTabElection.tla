--------------------------- MODULE MCTabElection ---------------------------
(* Two ordinary tabs, which are interchangeable, or an ordinary and a         *)
(* sandboxed one.                                                             *)
EXTENDS TabElection, TLC

Symmetry == Permutations(Tabs \ Sandboxed)
=============================================================================
