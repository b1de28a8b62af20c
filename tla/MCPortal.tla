------------------------------ MODULE MCPortal ------------------------------
(* Portal with interchangeable themes, pages, layouts and requests.        *)
EXTENDS Portal, TLC

SymmetryAll ==
    Permutations(Themes) \union Permutations(Pages) \union Permutations(Layouts)
        \union Permutations(Requests)
=============================================================================
