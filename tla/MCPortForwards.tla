---------------------------- MODULE MCPortForwards ----------------------------
(***************************************************************************)
(* Small instances of PortForwards: a local and a remote forward, or two    *)
(* local forwards that share a port.                                        *)
(***************************************************************************)
EXTENDS PortForwards, TLC

\* Both forwards ask for the same local port.
SharedPort == [f \in Forwards |-> 8080]

Symmetric == Permutations(Attempts)
=============================================================================
