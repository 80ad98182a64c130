-------------------------- MODULE MCSingleInstance --------------------------
(* Small instances of SingleInstance: processes are interchangeable.        *)
EXTENDS SingleInstance, TLC

Symmetry == Permutations(Procs)
=============================================================================
