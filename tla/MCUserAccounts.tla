--------------------------- MODULE MCUserAccounts ---------------------------
(* UserAccounts with model values: the provider reports one name and one   *)
(* address.                                                                *)
EXTENDS UserAccounts, TLC

CONSTANTS n1, m1

MCNameOf == [s \in Subjects |-> n1]
MCMailOf == [s \in Subjects |-> m1]

SymmetryAll == Permutations(Requests) \union Permutations(Tokens)
=============================================================================
