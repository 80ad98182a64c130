------------------------------ MODULE AtomicFile ------------------------------
(***************************************************************************)
(* What "atomically write" promises a reader of the file: at every moment   *)
(* it holds one whole document, and a write replaces the document at once.  *)
(***************************************************************************)

CONSTANTS Docs

VARIABLE value   \* the document the file holds

Init == value \in Docs

Replace == value' \in Docs

Next == Replace

Spec == Init /\ [][Next]_value
=============================================================================
