--------------------------- MODULE MCFleetRuntime ---------------------------
(***************************************************************************)
(* Jobs filed for one machine, which is switched on and off.                *)
(***************************************************************************)
EXTENDS FleetRuntime
=============================================================================
