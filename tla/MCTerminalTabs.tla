---------------------------- MODULE MCTerminalTabs ----------------------------
(* Small instances of TerminalTabs: sessions are interchangeable.          *)
EXTENDS TerminalTabs

Symmetry == Permutations(Session)
=============================================================================
