--------------------------- MODULE RunnerParameters ---------------------------
(***************************************************************************)
(* What the start of the API processes is parameterised by.                *)
(***************************************************************************)
EXTENDS InstanceParameters, Naturals

CONSTANTS
    Versions    \* versions of the registered migrations

ASSUME VersionsAssumption == Versions \subseteq Nat
=============================================================================
