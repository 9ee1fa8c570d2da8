---------------------------- MODULE MCSyncPacing ----------------------------
(* An ordinary and a sandboxed tab, or one tab on its own: a lock that is a   *)
(* long time coming stands for any number of other tabs.                      *)
EXTENDS SyncPacing, TLC
=============================================================================
