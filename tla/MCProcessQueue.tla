--------------------------- MODULE MCProcessQueue ---------------------------
(* Two background tasks that come and go, in a browser's worth of relays. *)
EXTENDS ProcessQueue, TLC

TaskSymmetry == Permutations(Tasks)
=============================================================================
