--------------------------- MODULE MCUpdateInstall ---------------------------
(* Small instances of UpdateInstall: installs are interchangeable.          *)
EXTENDS UpdateInstall, TLC

Symmetry == Permutations(Installs)
=============================================================================
