-------------------------- MODULE MCFederationSync --------------------------
(* FederationSync with three entries, of which e1 and e3 have the same     *)
(* username; nothing else tells these two apart.                           *)
EXTENDS FederationSync, TLC

CONSTANTS e1, e2, e3, n1, n2

Usernames == (e1 :> n1) @@ (e2 :> n2) @@ (e3 :> n1)
SymmetryAll == Permutations(Users) \union Permutations(Runs) \union Permutations({e1, e3})
=============================================================================
