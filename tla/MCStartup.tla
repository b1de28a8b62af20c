------------------------------ MODULE MCStartup ------------------------------
(* Startup with two processes, two requests at a time and two names beside *)
(* the master's, interchangeable among themselves.                         *)
EXTENDS Startup, TLC

SymmetryAll ==
    Permutations(Instances) \union Permutations(Requests) \union Permutations(Names \ {Master})
=============================================================================
