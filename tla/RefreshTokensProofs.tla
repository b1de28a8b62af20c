------------------------- MODULE RefreshTokensProofs -------------------------
(* Proofs about RefreshTokens, for all sets of rows, families, users and   *)
(* concurrent requests.                                                    *)
EXTENDS RefreshTokens, TLAPS

USE OwnerAssumption, NoneAssumption DEF Statuses, Persisted, Steps

(* The initial state satisfies the inductive invariant.                    *)
LEMMA InitInductive == Init => Inductive
  BY DEF Init, Inductive, TypeOK, RowsAgree, LinearChain, RequestsAgree, Members,
         NoRowsOfDeletedUser, DeletedWithOwner, RevokedOnlyForCause, CauseKnown

(* Every step of the system keeps the types of the variables.              *)
LEMMA StepTypeOK == Inductive /\ [Next]_vars => TypeOK'
  <1> SUFFICES ASSUME Inductive, [Next]_vars PROVE TypeOK'
    OBVIOUS
  <1> USE DEF Inductive, TypeOK, rows, history
  <1>1. ASSUME NEW t \in Tokens, NEW f \in Families, Login(t, f) PROVE TypeOK'
    BY <1>1 DEF Login
  <1>2. ASSUME NEW r \in Requests, NEW t \in Tokens, Present(r, t) PROVE TypeOK'
    BY <1>2 DEF Present
  <1>3. ASSUME NEW r \in Requests, CheckUser(r) PROVE TypeOK'
    BY <1>3 DEF CheckUser, Goto, Finish
  <1>4. ASSUME NEW r \in Requests, LockForRotation(r) PROVE TypeOK'
    BY <1>4 DEF LockForRotation, Goto
  <1>5. ASSUME NEW r \in Requests, NEW new \in Tokens, CommitRotation(r, new) PROVE TypeOK'
    BY <1>5 DEF CommitRotation, Goto, RequestsAgree
  <1>6. ASSUME NEW r \in Requests, Respond(r) PROVE TypeOK'
    BY <1>6 DEF Respond, Finish, RequestsAgree
  <1>7. ASSUME NEW r \in Requests, StartRevokeFamily(r) PROVE TypeOK'
    BY <1>7 DEF StartRevokeFamily, Members
  <1>8. ASSUME NEW r \in Requests, RevokeFamily(r) PROVE TypeOK'
    BY <1>8 DEF RevokeFamily, RevokeRows, Finish
  <1>9. ASSUME NEW r \in Requests, Abort(r) PROVE TypeOK'
    BY <1>9 DEF Abort, Finish
  <1>10. ASSUME NEW t \in Tokens, RevokeToken(t) PROVE TypeOK'
    BY <1>10 DEF RevokeToken, RevokeRows
  <1>11. ASSUME NEW t \in Tokens, Expire(t) PROVE TypeOK'
    BY <1>11 DEF Expire
  <1>12. ASSUME NEW u \in Users, NEW state \in {"enabled", "disabled"}, SetEnabled(u, state)
         PROVE TypeOK'
    BY <1>12 DEF SetEnabled
  <1>13. ASSUME NEW u \in Users, DeleteUser(u) PROVE TypeOK'
    BY <1>13 DEF DeleteUser
  <1>14. CASE UNCHANGED vars
    BY <1>14 DEF vars
  <1> QED
    BY <1>1, <1>2, <1>3, <1>4, <1>5, <1>6, <1>7, <1>8, <1>9, <1>10, <1>11, <1>12, <1>13,
       <1>14 DEF Next, ServerStep

(* Every step of the system preserves the inductive invariant.             *)
LEMMA StepInductive == Inductive /\ [Next]_vars => Inductive'
  <1> SUFFICES ASSUME Inductive, [Next]_vars, TypeOK' PROVE Inductive'
    BY StepTypeOK
  <1> USE DEF Inductive, TypeOK, rows, history, Members, Cause,
              RowsAgree, LinearChain, RequestsAgree, NoRowsOfDeletedUser,
              DeletedWithOwner, RevokedOnlyForCause, CauseKnown
  <1>1. ASSUME NEW t \in Tokens, NEW f \in Families, Login(t, f) PROVE Inductive'
    <2>1. RowsAgree'
      BY <1>1 DEF Login
    <2>2. LinearChain'
      BY <1>1 DEF Login
    <2>3. RequestsAgree'
      BY <1>1 DEF Login
    <2>4. NoRowsOfDeletedUser'
      BY <1>1 DEF Login
    <2>5. DeletedWithOwner'
      BY <1>1 DEF Login
    <2>6. RevokedOnlyForCause'
      BY <1>1 DEF Login
    <2>7. CauseKnown'
      BY <1>1 DEF Login
    <2> QED BY <2>1, <2>2, <2>3, <2>4, <2>5, <2>6, <2>7
  <1>2. ASSUME NEW r \in Requests, NEW t \in Tokens, Present(r, t) PROVE Inductive'
    <2>1. RowsAgree'
      BY <1>2 DEF Present
    <2>2. LinearChain'
      BY <1>2 DEF Present
    <2>3. RequestsAgree'
      BY <1>2 DEF Present
    <2>4. NoRowsOfDeletedUser'
      BY <1>2 DEF Present
    <2>5. DeletedWithOwner'
      BY <1>2 DEF Present
    <2>6. RevokedOnlyForCause'
      BY <1>2 DEF Present
    <2>7. CauseKnown'
      BY <1>2 DEF Present
    <2> QED BY <2>1, <2>2, <2>3, <2>4, <2>5, <2>6, <2>7
  <1>3. ASSUME NEW r \in Requests, CheckUser(r) PROVE Inductive'
    <2>1. RowsAgree'
      BY <1>3 DEF CheckUser, Goto, Finish
    <2>2. LinearChain'
      BY <1>3 DEF CheckUser, Goto, Finish
    <2>3. RequestsAgree'
      BY <1>3 DEF CheckUser, Goto, Finish
    <2>4. NoRowsOfDeletedUser'
      BY <1>3 DEF CheckUser, Goto, Finish
    <2>5. DeletedWithOwner'
      BY <1>3 DEF CheckUser, Goto, Finish
    <2>6. RevokedOnlyForCause'
      BY <1>3 DEF CheckUser, Goto, Finish
    <2>7. CauseKnown'
      BY <1>3 DEF CheckUser, Goto, Finish
    <2> QED BY <2>1, <2>2, <2>3, <2>4, <2>5, <2>6, <2>7
  <1>4. ASSUME NEW r \in Requests, LockForRotation(r) PROVE Inductive'
    <2>1. RowsAgree'
      BY <1>4 DEF LockForRotation, Locked, Goto
    <2>2. LinearChain'
      BY <1>4 DEF LockForRotation, Locked, Goto
    <2>3. RequestsAgree'
      BY <1>4 DEF LockForRotation, Locked, Goto
    <2>4. NoRowsOfDeletedUser'
      BY <1>4 DEF LockForRotation, Locked, Goto
    <2>5. DeletedWithOwner'
      BY <1>4 DEF LockForRotation, Locked, Goto
    <2>6. RevokedOnlyForCause'
      BY <1>4 DEF LockForRotation, Locked, Goto
    <2>7. CauseKnown'
      BY <1>4 DEF LockForRotation, Locked, Goto
    <2> QED BY <2>1, <2>2, <2>3, <2>4, <2>5, <2>6, <2>7
  <1>5. ASSUME NEW r \in Requests, NEW new \in Tokens, CommitRotation(r, new) PROVE Inductive'
    <2>1. RowsAgree'
      BY <1>5 DEF CommitRotation, Goto
    <2>2. LinearChain'
      BY <1>5 DEF CommitRotation, Goto
    <2>3. RequestsAgree'
      BY <1>5 DEF CommitRotation, Goto
    <2>4. NoRowsOfDeletedUser'
      BY <1>5 DEF CommitRotation, Goto
    <2>5. DeletedWithOwner'
      BY <1>5 DEF CommitRotation, Goto
    <2>6. RevokedOnlyForCause'
      BY <1>5 DEF CommitRotation, Goto
    <2>7. CauseKnown'
      BY <1>5 DEF CommitRotation, Goto
    <2> QED BY <2>1, <2>2, <2>3, <2>4, <2>5, <2>6, <2>7
  <1>6. ASSUME NEW r \in Requests, Respond(r) PROVE Inductive'
    <2>1. RowsAgree'
      BY <1>6 DEF Respond, Finish
    <2>2. LinearChain'
      BY <1>6 DEF Respond, Finish
    <2>3. RequestsAgree'
      BY <1>6 DEF Respond, Finish
    <2>4. NoRowsOfDeletedUser'
      BY <1>6 DEF Respond, Finish
    <2>5. DeletedWithOwner'
      BY <1>6 DEF Respond, Finish
    <2>6. RevokedOnlyForCause'
      BY <1>6 DEF Respond, Finish
    <2>7. CauseKnown'
      BY <1>6 DEF Respond, Finish
    <2> QED BY <2>1, <2>2, <2>3, <2>4, <2>5, <2>6, <2>7
  <1>7. ASSUME NEW r \in Requests, StartRevokeFamily(r) PROVE Inductive'
    <2>1. RowsAgree'
      BY <1>7 DEF StartRevokeFamily
    <2>2. LinearChain'
      BY <1>7 DEF StartRevokeFamily
    <2>3. RequestsAgree'
      BY <1>7 DEF StartRevokeFamily
    <2>4. NoRowsOfDeletedUser'
      BY <1>7 DEF StartRevokeFamily
    <2>5. DeletedWithOwner'
      BY <1>7 DEF StartRevokeFamily
    <2>6. RevokedOnlyForCause'
      BY <1>7 DEF StartRevokeFamily
    <2>7. CauseKnown'
      BY <1>7 DEF StartRevokeFamily
    <2> QED BY <2>1, <2>2, <2>3, <2>4, <2>5, <2>6, <2>7
  <1>8. ASSUME NEW r \in Requests, RevokeFamily(r) PROVE Inductive'
    <2>1. RowsAgree'
      BY <1>8 DEF RevokeFamily, RevokeRows, Locked, Finish
    <2>2. LinearChain'
      BY <1>8 DEF RevokeFamily, RevokeRows, Locked, Finish
    <2>3. RequestsAgree'
      BY <1>8 DEF RevokeFamily, RevokeRows, Locked, Finish
    <2>4. NoRowsOfDeletedUser'
      BY <1>8 DEF RevokeFamily, RevokeRows, Locked, Finish
    <2>5. DeletedWithOwner'
      BY <1>8 DEF RevokeFamily, RevokeRows, Locked, Finish
    <2>6. RevokedOnlyForCause'
      BY <1>8 DEF RevokeFamily, RevokeRows, Locked, Finish
    <2>7. CauseKnown'
      BY <1>8 DEF RevokeFamily, RevokeRows, Locked, Finish
    <2> QED BY <2>1, <2>2, <2>3, <2>4, <2>5, <2>6, <2>7
  <1>9. ASSUME NEW r \in Requests, Abort(r) PROVE Inductive'
    <2>1. RowsAgree'
      BY <1>9 DEF Abort, Finish
    <2>2. LinearChain'
      BY <1>9 DEF Abort, Finish
    <2>3. RequestsAgree'
      BY <1>9 DEF Abort, Finish
    <2>4. NoRowsOfDeletedUser'
      BY <1>9 DEF Abort, Finish
    <2>5. DeletedWithOwner'
      BY <1>9 DEF Abort, Finish
    <2>6. RevokedOnlyForCause'
      BY <1>9 DEF Abort, Finish
    <2>7. CauseKnown'
      BY <1>9 DEF Abort, Finish
    <2> QED BY <2>1, <2>2, <2>3, <2>4, <2>5, <2>6, <2>7
  <1>10. ASSUME NEW t \in Tokens, RevokeToken(t) PROVE Inductive'
    <2>1. RowsAgree'
      BY <1>10 DEF RevokeToken, RevokeRows, Locked
    <2>2. LinearChain'
      BY <1>10 DEF RevokeToken, RevokeRows, Locked
    <2>3. RequestsAgree'
      BY <1>10 DEF RevokeToken, RevokeRows, Locked
    <2>4. NoRowsOfDeletedUser'
      BY <1>10 DEF RevokeToken, RevokeRows, Locked
    <2>5. DeletedWithOwner'
      BY <1>10 DEF RevokeToken, RevokeRows, Locked
    <2>6. RevokedOnlyForCause'
      BY <1>10 DEF RevokeToken, RevokeRows, Locked
    <2>7. CauseKnown'
      BY <1>10 DEF RevokeToken, RevokeRows, Locked
    <2> QED BY <2>1, <2>2, <2>3, <2>4, <2>5, <2>6, <2>7
  <1>11. ASSUME NEW t \in Tokens, Expire(t) PROVE Inductive'
    <2>1. RowsAgree'
      BY <1>11 DEF Expire
    <2>2. LinearChain'
      BY <1>11 DEF Expire
    <2>3. RequestsAgree'
      BY <1>11 DEF Expire
    <2>4. NoRowsOfDeletedUser'
      BY <1>11 DEF Expire
    <2>5. DeletedWithOwner'
      BY <1>11 DEF Expire
    <2>6. RevokedOnlyForCause'
      BY <1>11 DEF Expire
    <2>7. CauseKnown'
      BY <1>11 DEF Expire
    <2> QED BY <2>1, <2>2, <2>3, <2>4, <2>5, <2>6, <2>7
  <1>12. ASSUME NEW u \in Users, NEW state \in {"enabled", "disabled"}, SetEnabled(u, state)
         PROVE Inductive'
    <2>1. RowsAgree'
      BY <1>12 DEF SetEnabled
    <2>2. LinearChain'
      BY <1>12 DEF SetEnabled
    <2>3. RequestsAgree'
      BY <1>12 DEF SetEnabled
    <2>4. NoRowsOfDeletedUser'
      BY <1>12 DEF SetEnabled
    <2>5. DeletedWithOwner'
      BY <1>12 DEF SetEnabled
    <2>6. RevokedOnlyForCause'
      BY <1>12 DEF SetEnabled
    <2>7. CauseKnown'
      BY <1>12 DEF SetEnabled
    <2> QED BY <2>1, <2>2, <2>3, <2>4, <2>5, <2>6, <2>7
  <1>13. ASSUME NEW u \in Users, DeleteUser(u) PROVE Inductive'
    <2>1. RowsAgree'
      BY <1>13 DEF DeleteUser, Locked
    <2>2. LinearChain'
      BY <1>13 DEF DeleteUser, Locked
    <2>3. RequestsAgree'
      BY <1>13 DEF DeleteUser, Locked
    <2>4. NoRowsOfDeletedUser'
      BY <1>13 DEF DeleteUser, Locked
    <2>5. DeletedWithOwner'
      BY <1>13 DEF DeleteUser, Locked
    <2>6. RevokedOnlyForCause'
      BY <1>13 DEF DeleteUser, Locked
    <2>7. CauseKnown'
      BY <1>13 DEF DeleteUser, Locked
    <2> QED BY <2>1, <2>2, <2>3, <2>4, <2>5, <2>6, <2>7
  <1>14. CASE UNCHANGED vars
    BY <1>14 DEF vars
  <1> QED
    BY <1>1, <1>2, <1>3, <1>4, <1>5, <1>6, <1>7, <1>8, <1>9, <1>10, <1>11, <1>12, <1>13,
       <1>14 DEF Next, ServerStep

(* The inductive invariant holds in every reachable state.                 *)
THEOREM Invariance == Spec => []Inductive
  BY InitInductive, StepInductive, PTL DEF Spec

(* In a chain of rows only the last one has no successor, and an active    *)
(* row has none: so two active rows of one family are the same row.        *)
LEMMA ActiveIsNewest == Inductive => AtMostOneActive
  <1> SUFFICES ASSUME Inductive, NEW f \in Families,
                      NEW s \in Redeemable(f), NEW t \in Redeemable(f)
               PROVE  s = t
    BY DEF AtMostOneActive
  <1>1. s \in Members(f) /\ t \in Members(f) /\ status[s] = "active" /\ status[t] = "active"
    BY DEF Redeemable
  <1>2. replacedBy[s] = None /\ replacedBy[t] = None
    BY <1>1 DEF Inductive, RowsAgree, Members
  <1> QED
    BY <1>1, <1>2 DEF Inductive, LinearChain

(* Every variable keeps its type.                                          *)
THEOREM TypeCorrect == Spec => []TypeOK
  BY Invariance, PTL DEF Inductive

(* A family never has two refresh tokens that could be exchanged           *)
(* (PostgresRefreshTokenRepository::rotate).                               *)
THEOREM OneActivePerFamily == Spec => []AtMostOneActive
  BY Invariance, ActiveIsNewest, PTL

(* The rows of a family form a chain linked by replaced_by.                *)
THEOREM FamiliesAreChains == Spec => []LinearChain
  BY Invariance, PTL DEF Inductive

(* No family is revoked unless one of its tokens was presented twice or    *)
(* named in a revocation request (AuthServiceImpl::refresh_token).         *)
THEOREM HonestClientsKeepTheirFamily == Spec => []RevokedOnlyForCause
  BY Invariance, PTL DEF Inductive

(* No refresh token outlives its user.                                     *)
THEOREM NoTokenOutlivesItsUser == Spec => []NoRowsOfDeletedUser
  BY Invariance, PTL DEF Inductive

(* A family without an active token stays so: in a single step ...         *)
LEMMA StepClosedForGood ==
    Inductive /\ [Next]_vars =>
      [\A f \in Families :
          Members(f) # {} /\ Redeemable(f) = {} => Redeemable(f)' = {}]_vars
  <1> SUFFICES ASSUME Inductive, Next, NEW f \in Families,
                      Members(f) # {}, Redeemable(f) = {}
               PROVE  Redeemable(f)' = {}
    BY DEF vars
  <1> USE DEF Inductive, TypeOK, rows, Members, Redeemable
  <1>1. ASSUME NEW t \in Tokens, NEW g \in Families, Login(t, g) PROVE Redeemable(f)' = {}
    BY <1>1 DEF Login
  <1>2. ASSUME NEW r \in Requests, NEW new \in Tokens, CommitRotation(r, new)
        PROVE Redeemable(f)' = {}
    BY <1>2 DEF CommitRotation, RequestsAgree
  <1>3. ASSUME NEW r \in Requests, RevokeFamily(r) PROVE Redeemable(f)' = {}
    BY <1>3 DEF RevokeFamily, RevokeRows
  <1>4. ASSUME NEW t \in Tokens, RevokeToken(t) PROVE Redeemable(f)' = {}
    BY <1>4 DEF RevokeToken, RevokeRows
  <1>5. ASSUME NEW u \in Users, DeleteUser(u) PROVE Redeemable(f)' = {}
    BY <1>5 DEF DeleteUser
  <1>6. CASE UNCHANGED rows
    BY <1>6
  <1> QED
    BY <1>1, <1>2, <1>3, <1>4, <1>5, <1>6 DEF Next, ServerStep, Present, CheckUser,
       LockForRotation, Respond, StartRevokeFamily, Abort, Expire, SetEnabled

(* ... and therefore for ever.                                             *)
THEOREM ClosedFamiliesStayClosed == Spec => ClosedForGood
  BY Invariance, StepClosedForGood, PTL DEF Spec, ClosedForGood

(* The state of TokenFamilies, read off the rows.                          *)
absOpened == {f \in Families : Members(f) # {}}
absLive == [f \in Families |-> Redeemable(f)]
absSpent == {t \in Tokens : status[t] \in {"rotated", "revoked", "deleted"}}

\* The tokens used so far are exactly the inserted rows.
LEMMA UsedAreInserted ==
    Inductive => Promise!Used = {t \in Tokens : status[t] # "unborn"}
  BY DEF Inductive, TypeOK, RowsAgree, Promise!Used, Redeemable, Members

(* A step that only takes inserted rows to "revoked" or "deleted" closes   *)
(* the families it leaves without an active row.                           *)
LEMMA ClosingRefines ==
    ASSUME Inductive, Inductive', UNCHANGED family,
           \A t \in Tokens : \/ status'[t] = status[t]
                             \/ status[t] # "unborn" /\ status'[t] \in {"revoked", "deleted"}
    PROVE  Promise!Next
  <1> PICK F \in SUBSET Families : \A f \in Families : f \in F <=> Redeemable(f)' = {}
    <2> SUFFICES {f \in Families : Redeemable(f)' = {}} \in SUBSET Families
      OBVIOUS
    <2> QED
      OBVIOUS
  <1> USE DEF Members, Redeemable
  <1>1. absOpened' = absOpened
    BY DEF absOpened
  <1>2. ASSUME NEW f \in Families \ F PROVE Redeemable(f)' = Redeemable(f)
    <2>1. PICK t \in Redeemable(f)' : TRUE
      OBVIOUS
    <2>2. t \in Redeemable(f)
      BY <2>1
    <2> QED
      BY <2>1, <2>2, ActiveIsNewest DEF AtMostOneActive
  <1>3. absLive' = [f \in Families |-> IF f \in F THEN {} ELSE Redeemable(f)]
    BY <1>2 DEF absLive
  <1>4. ASSUME NEW t \in Tokens
        PROVE  t \in absSpent' <=> t \in absSpent \/ \E f \in F : t \in Redeemable(f)
    <2> USE DEF Inductive, TypeOK, RowsAgree, absSpent
    <2>1. CASE status[t] = "active" /\ status'[t] = "active"
      BY <2>1
    <2>2. CASE status[t] = "active" /\ status'[t] # "active"
      <3>1. family[t] \in Families /\ t \in Redeemable(family[t])
        BY <2>2
      <3>2. family[t] \in F
        BY <2>2, <3>1, <1>2
      <3> QED
        BY <2>2, <3>1, <3>2
    <2>3. CASE status[t] # "active"
      BY <2>3
    <2> QED
      BY <2>1, <2>2, <2>3
  <1>5. absSpent' = absSpent \union UNION {Redeemable(f) : f \in F}
    BY <1>4 DEF absSpent
  <1> HIDE DEF Members, Redeemable
  <1>6. /\ [f \in Families |-> Redeemable(f)]' =
              [f \in Families |-> IF f \in F THEN {} ELSE [g \in Families |-> Redeemable(g)][f]]
        /\ absSpent' = absSpent \union UNION {[g \in Families |-> Redeemable(g)][f] : f \in F}
    BY <1>3, <1>5 DEF absLive
  <1>7. Promise!Close(F)
    BY <1>1, <1>6 DEF Promise!Close, absOpened, absSpent
  <1> QED
    BY <1>7 DEF Promise!Next

(* Every step of the server is a step of TokenFamilies or leaves its state *)
(* unchanged.                                                              *)
LEMMA StepRefines == Inductive /\ Inductive' /\ [Next]_vars => [Promise!Next]_(Promise!tvars)
  <1> SUFFICES ASSUME Inductive, Inductive', [Next]_vars
               PROVE  Promise!Next \/ UNCHANGED <<absOpened, absLive, absSpent>>
    BY DEF Promise!tvars, absOpened, absLive, absSpent
  <1> USE DEF rows, history
  <1>1. ASSUME NEW t \in Tokens, NEW f \in Families, Login(t, f) PROVE Promise!Open(f, t)
    <2> USE DEF Inductive, TypeOK, RowsAgree, Members, Redeemable
    <2>1. t \notin Promise!Used
      BY <1>1, UsedAreInserted DEF Login
    <2>2. absOpened' = absOpened \union {f}
      BY <1>1 DEF Login, absOpened
    <2>3. absLive' = [absLive EXCEPT ![f] = {t}]
      <3>1. \A g \in Families \ {f} : Redeemable(g)' = Redeemable(g)
        BY <1>1 DEF Login
      <3>2. Redeemable(f)' = {t}
        BY <1>1 DEF Login
      <3>3. absLive' = [g \in Families |-> IF g = f THEN {t} ELSE Redeemable(g)]
        BY <3>1, <3>2 DEF absLive
      <3> HIDE DEF Redeemable
      <3> QED
        BY <3>3 DEF absLive
    <2>4. UNCHANGED absSpent
      BY <1>1 DEF Login, absSpent
    <2> QED
      BY <1>1, <2>1, <2>2, <2>3, <2>4 DEF Login, Promise!Open, absOpened, absLive, absSpent
  <1>2. ASSUME NEW r \in Requests, NEW new \in Tokens, CommitRotation(r, new),
               NEW f \in Families, f = family[tok[r]]
        PROVE  Promise!Exchange(f, tok[r], new)
    <2>1. tok[r] \in Tokens /\ status[tok[r]] = "active"
      BY <1>2 DEF CommitRotation, Inductive, TypeOK, RowsAgree, RequestsAgree
    <2>2. Redeemable(f) = {tok[r]}
      <3>1. tok[r] \in Redeemable(f)
        BY <1>2, <2>1 DEF Redeemable, Members
      <3> QED
        BY <3>1, ActiveIsNewest DEF AtMostOneActive
    <2>3. new \notin Promise!Used
      BY <1>2, UsedAreInserted DEF CommitRotation
    <2> USE DEF Inductive, TypeOK, RowsAgree, Members, Redeemable
    <2>4. UNCHANGED absOpened
      BY <1>2, <2>1 DEF CommitRotation, absOpened
    <2>5. absLive' = [absLive EXCEPT ![f] = {new}]
      <3>1. \A g \in Families \ {f} : Redeemable(g)' = Redeemable(g)
        BY <1>2, <2>1 DEF CommitRotation
      <3>2. Redeemable(f)' = {new}
        <4>1. \A t \in Tokens : family'[t] = f <=> t = new \/ family[t] = f
          BY <1>2, <2>1 DEF CommitRotation
        <4>2. \A t \in Tokens \ {new} : family[t] = f /\ status[t] = "active" => t = tok[r]
          BY <2>2
        <4> QED
          BY <1>2, <2>1, <4>1, <4>2 DEF CommitRotation
      <3>3. absLive' = [g \in Families |-> IF g = f THEN {new} ELSE Redeemable(g)]
        BY <3>1, <3>2 DEF absLive
      <3> HIDE DEF Redeemable
      <3> QED
        BY <3>3 DEF absLive
    <2>6. absSpent' = absSpent \union {tok[r]}
      BY <1>2, <2>1 DEF CommitRotation, absSpent
    <2> QED
      BY <2>1, <2>2, <2>3, <2>4, <2>5, <2>6 DEF Promise!Exchange, absOpened, absLive, absSpent
  <1>3. ASSUME NEW r \in Requests, RevokeFamily(r) PROVE Promise!Next
    BY <1>3, ClosingRefines DEF RevokeFamily, RevokeRows, Inductive, TypeOK
  <1>4. ASSUME NEW t \in Tokens, RevokeToken(t) PROVE Promise!Next
    BY <1>4, ClosingRefines DEF RevokeToken, RevokeRows, Inductive, TypeOK
  <1>5. ASSUME NEW u \in Users, DeleteUser(u) PROVE Promise!Next
    <2>1. \A t \in Tokens : family[t] # None => status[t] # "unborn"
      BY DEF Inductive, RowsAgree
    <2> QED
      BY <1>5, <2>1, ClosingRefines DEF DeleteUser, Inductive, TypeOK
  <1>6. CASE UNCHANGED rows
    BY <1>6 DEF absOpened, absLive, absSpent, Redeemable, Members
  <1>7. ASSUME NEW t \in Tokens, NEW f \in Families, Login(t, f) PROVE Promise!Next
    BY <1>1, <1>7 DEF Promise!Next
  <1>8. ASSUME NEW r \in Requests, NEW new \in Tokens, CommitRotation(r, new)
        PROVE  Promise!Next
    <2>1. tok[r] \in Tokens /\ family[tok[r]] \in Families
      BY <1>8 DEF CommitRotation, Inductive, TypeOK, RowsAgree, RequestsAgree
    <2> QED
      BY <1>2, <1>8, <2>1 DEF Promise!Next
  <1> QED
    BY <1>3, <1>4, <1>5, <1>6, <1>7, <1>8 DEF Next, ServerStep, Present, CheckUser,
       LockForRotation, Respond, StartRevokeFamily, Abort, Expire, SetEnabled, vars

(* The server implements TokenFamilies.                                    *)
THEOREM Refinement == Spec => ImplementsTokenFamilies
  <1>1. Init => Promise!Init
    BY DEF Init, Promise!Init, Members, Redeemable
  <1> QED
    BY <1>1, Invariance, StepRefines, PTL DEF Spec, Promise!Spec, ImplementsTokenFamilies
=============================================================================
