---------------------------- MODULE MCApiClient ----------------------------
(* A read and a write of one page. *)
EXTENDS ApiClient
=============================================================================
