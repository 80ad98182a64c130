------------------------------ MODULE MCRequests ------------------------------
(***************************************************************************)
(* One request that exists and drafts of further ones.                      *)
(***************************************************************************)
EXTENDS Requests
=============================================================================
