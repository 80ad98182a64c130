---------------------------- MODULE MCAtomicWrite ----------------------------
(***************************************************************************)
(* Three documents of one, two and three chunks: a shorter one over a       *)
(* longer one, and the other way round.                                     *)
(***************************************************************************)
EXTENDS AtomicWrite

MCDocs == 1..3
MCSize == [d \in MCDocs |-> d]
=============================================================================
