--------------------------- MODULE MCSshSessions ---------------------------
(* Small instances of SshSessions: sessions are interchangeable, and so    *)
(* are connections.                                                        *)
EXTENDS SshSessions, TLC

Symmetry == Permutations(Session) \cup Permutations(Connection)
=============================================================================
