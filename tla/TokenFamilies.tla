---------------------------- MODULE TokenFamilies ----------------------------
(***************************************************************************)
(* What refresh-token rotation promises, without rows, statements or       *)
(* requests: "Token is valid and may be exchanged exactly once"            *)
(* (libs/ferriskey-security/src/jwt/entities.rs:217).  A family has at     *)
(* most one live token; exchanging it spends it and makes its one          *)
(* successor live; a closed family stays closed.                           *)
(***************************************************************************)
CONSTANTS Tokens, Families

VARIABLES
    opened,  \* families a login has started
    live,    \* live[f]: the tokens of f that can be exchanged
    spent    \* tokens that were live once and are no longer

tvars == <<opened, live, spent>>

Used == spent \union UNION {live[f] : f \in Families}

TypeInvariant ==
    /\ opened \in SUBSET Families
    /\ live \in [Families -> SUBSET Tokens]
    /\ spent \in SUBSET Tokens

Init ==
    /\ opened = {}
    /\ live = [f \in Families |-> {}]
    /\ spent = {}

\* A login issues the first token of a family.
Open(f, t) ==
    /\ f \notin opened
    /\ t \notin Used
    /\ opened' = opened \union {f}
    /\ live' = [live EXCEPT ![f] = {t}]
    /\ UNCHANGED spent

\* The live token of f is exchanged for a token never issued before.
Exchange(f, old, new) ==
    /\ live[f] = {old}
    /\ new \notin Used
    /\ live' = [live EXCEPT ![f] = {new}]
    /\ spent' = spent \union {old}
    /\ UNCHANGED opened

\* Logout, reuse detection or the deletion of the owner close families.
Close(F) ==
    /\ live' = [f \in Families |-> IF f \in F THEN {} ELSE live[f]]
    /\ spent' = spent \union UNION {live[f] : f \in F}
    /\ UNCHANGED opened

Next ==
    \/ \E f \in Families, t \in Tokens : Open(f, t)
    \/ \E f \in Families, old, new \in Tokens : Exchange(f, old, new)
    \/ \E F \in SUBSET Families : Close(F)

Spec == Init /\ [][Next]_tvars
=============================================================================
