--------------------------- MODULE MCAccountSession ---------------------------
(***************************************************************************)
(* Logins of two accounts: t1 (and t3) are alice's, t2 is bob's.             *)
(***************************************************************************)
EXTENDS AccountSession

CONSTANTS t1, t2, t3, alice, bob

TwoOwners == [t \in Tokens |-> IF t = t2 THEN bob ELSE alice]
=============================================================================
