----------------------------- MODULE MCScriptRuns -----------------------------
(***************************************************************************)
(* A script on a connection and a local one, run by the user and by the     *)
(* assistant, with and without variables.                                   *)
(***************************************************************************)
EXTENDS ScriptRuns
=============================================================================
