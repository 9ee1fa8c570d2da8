-------------------------- MODULE MCComposeDrafts ---------------------------
(* Two composers, one after the other, and the saves they ask for. *)
EXTENDS ComposeDrafts
=============================================================================
