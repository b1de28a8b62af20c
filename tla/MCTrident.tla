----------------------------- MODULE MCTrident -----------------------------
(* Trident for TLC; requests are interchangeable.                          *)
EXTENDS Trident, TLC

SymmetryRequests == Permutations(Requests)
=============================================================================
