------------------------- MODULE InstanceParameters -------------------------
(***************************************************************************)
(* The API processes that start, migrate and serve side by side.           *)
(***************************************************************************)
EXTENDS FiniteSets

CONSTANTS
    Instances,  \* API processes
    None        \* NULL, and nothing held

ASSUME InstancesAssumption == IsFiniteSet(Instances)
=============================================================================
