------------------------------- MODULE MCGrants -------------------------------
(* Grants with model values.  Codes and devices are permuted by one and    *)
(* the same swap, to keep the number of permutations small: a behaviour is *)
(* about codes or about devices.                                           *)
EXTENDS Grants, TLC

Swaps == {f \in Permutations(Codes \union Devices) :
             /\ \A c \in Codes : f[c] \in Codes
             /\ \A x, y \in Codes \union Devices : f[x] = x <=> f[y] = y}

SymmetryAll == Swaps \union Permutations(Requests) \union Permutations(Users)
=============================================================================
