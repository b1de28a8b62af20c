------------------------ MODULE MCSeedDefaultScopes ------------------------
(* SeedDefaultScopes for TLC; no symmetry, because liveness is checked.    *)
EXTENDS SeedDefaultScopes
=============================================================================
