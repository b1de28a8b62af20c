--------------------------- MODULE MCRefreshTokens ---------------------------
(* Small instances of RefreshTokens for TLC.                               *)
EXTENDS RefreshTokens, TLC

CONSTANTS t1, t2, t3, f1, f2, u1, r1, r2

OneOwner == [f \in Families |-> u1]
Symmetry == Permutations(Tokens) \union Permutations(Families) \union Permutations(Requests)
=============================================================================
