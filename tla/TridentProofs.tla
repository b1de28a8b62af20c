---------------------------- MODULE TridentProofs ----------------------------
(* Proofs about Trident and its components, for any accounts, rows, codes, *)
(* batch sizes and limits, and any finite number of overlapping requests.  *)
EXTENDS Trident, FiniteSetTheorems, TLAPS

USE NoneAssumption DEF Recovery!Steps, Reset!Steps, Magic!Steps, Otp!Steps, Keys!Steps,
                       Keys!Kinds

-----------------------------------------------------------------------------
(* Recovery codes.                                                         *)

(* A generation that is invalidating codes does not have the batch stored  *)
(* last among those it read first: it was stored later, or is its own.     *)
OlderOnly == \A r \in Requests : pc[r] = "invalidate" => previous[r] \intersect newest = {}

(* A request that is about to stamp a login has deleted its code.          *)
DeletedBeforeLogin ==
    \A r \in Requests : pc[r] = "login" => code[r] \notin stored

RecoveryInductive ==
    /\ Recovery!TypeOK
    /\ Recovery!NewestBatchIntact
    /\ Recovery!UsedCodesAreGone
    /\ OlderOnly
    /\ DeletedBeforeLogin

-----------------------------------------------------------------------------
LEMMA RecoveryInit == Recovery!Init => RecoveryInductive
  BY DEF Recovery!Init, RecoveryInductive, Recovery!TypeOK, Recovery!NewestBatchIntact, Recovery!UsedCodesAreGone, OlderOnly,
         DeletedBeforeLogin

(* Every step keeps the types of the variables.                            *)
LEMMA RecoveryTypes == Recovery!TypeOK /\ [Recovery!Next]_(Recovery!vars) => Recovery!TypeOK'
  <1> SUFFICES ASSUME Recovery!TypeOK, [Recovery!Next]_(Recovery!vars) PROVE Recovery!TypeOK'
    OBVIOUS
  <1> USE DEF Recovery!TypeOK, Recovery!history
  <1>1. ASSUME NEW r \in Requests, Recovery!ReadStored(r) PROVE Recovery!TypeOK'
    BY <1>1 DEF Recovery!ReadStored, Recovery!Enter
  <1>2. ASSUME NEW r \in Requests, NEW batch \in SUBSET Codes, Recovery!Store(r, batch) PROVE Recovery!TypeOK'
    BY <1>2 DEF Recovery!Store, Recovery!Enter, Recovery!Fresh
  <1>3. ASSUME NEW r \in Requests, NEW c \in Codes, Recovery!FindPrevious(r, c) PROVE Recovery!TypeOK'
    BY <1>3 DEF Recovery!FindPrevious, Recovery!Finish, Recovery!Enter
  <1>4. ASSUME NEW r \in Requests, NEW c \in Codes, Recovery!DeletePrevious(r, c) PROVE Recovery!TypeOK'
    BY <1>4 DEF Recovery!DeletePrevious
  <1>5. ASSUME NEW r \in Requests, Recovery!Answer(r) PROVE Recovery!TypeOK'
    BY <1>5 DEF Recovery!Answer, Recovery!Finish, Recovery!Enter
  <1>6. ASSUME NEW r \in Requests, NEW c \in Codes, Recovery!Match(r, c) PROVE Recovery!TypeOK'
    BY <1>6 DEF Recovery!Match, Recovery!Enter
  <1>7. ASSUME NEW r \in Requests, Recovery!FindMatched(r) PROVE Recovery!TypeOK'
    BY <1>7 DEF Recovery!FindMatched, Recovery!Finish, Recovery!Enter
  <1>8. ASSUME NEW r \in Requests, Recovery!Burn(r) PROVE Recovery!TypeOK'
    BY <1>8 DEF Recovery!Burn, Recovery!Enter
  <1>9. ASSUME NEW r \in Requests, Recovery!Login(r) PROVE Recovery!TypeOK'
    BY <1>9 DEF Recovery!Login, Recovery!Finish, Recovery!Enter
  <1>10. ASSUME NEW c \in Codes, Recovery!DeleteCredential(c) PROVE Recovery!TypeOK'
    BY <1>10 DEF Recovery!DeleteCredential
  <1>11. ASSUME NEW r \in Requests, Recovery!Abort(r) PROVE Recovery!TypeOK'
    BY <1>11 DEF Recovery!Abort, Recovery!Finish, Recovery!Enter
  <1>12. CASE UNCHANGED Recovery!vars
    BY <1>12 DEF Recovery!vars
  <1> QED
    BY <1>1, <1>2, <1>3, <1>4, <1>5, <1>6, <1>7, <1>8, <1>9, <1>10, <1>11, <1>12
       DEF Recovery!Next, Recovery!Generate, Recovery!Challenge

(* Every step preserves what the requests know about the newest batch and  *)
(* about the codes they have deleted.                                      *)
LEMMA RecoveryKept == RecoveryInductive /\ [Recovery!Next]_(Recovery!vars) => RecoveryInductive'
  <1> SUFFICES ASSUME RecoveryInductive, [Recovery!Next]_(Recovery!vars), Recovery!TypeOK' PROVE RecoveryInductive'
    BY RecoveryTypes DEF RecoveryInductive
  <1> USE DEF RecoveryInductive, Recovery!TypeOK, Recovery!history, Recovery!NewestBatchIntact, Recovery!UsedCodesAreGone, OlderOnly,
              DeletedBeforeLogin
  <1>1. ASSUME NEW r \in Requests, Recovery!ReadStored(r) PROVE RecoveryInductive'
    BY <1>1 DEF Recovery!ReadStored, Recovery!Enter
  <1>2. ASSUME NEW r \in Requests, NEW batch \in SUBSET Codes, Recovery!Store(r, batch)
        PROVE RecoveryInductive'
    <2>1. Recovery!NewestBatchIntact'
      BY <1>2 DEF Recovery!Store, Recovery!Enter, Recovery!Fresh
    <2>2. Recovery!UsedCodesAreGone'
      BY <1>2 DEF Recovery!Store, Recovery!Enter, Recovery!Fresh
    <2>3. OlderOnly'
      BY <1>2 DEF Recovery!Store, Recovery!Enter, Recovery!Fresh
    <2>4. DeletedBeforeLogin'
      BY <1>2 DEF Recovery!Store, Recovery!Enter, Recovery!Fresh
    <2> QED BY <2>1, <2>2, <2>3, <2>4
  <1>3. ASSUME NEW r \in Requests, NEW c \in Codes, Recovery!FindPrevious(r, c) PROVE RecoveryInductive'
    BY <1>3 DEF Recovery!FindPrevious, Recovery!Finish, Recovery!Enter
  <1>4. ASSUME NEW r \in Requests, NEW c \in Codes, Recovery!DeletePrevious(r, c) PROVE RecoveryInductive'
    <2>1. c \in previous[r] /\ pc[r] = "invalidate"
      BY <1>4 DEF Recovery!DeletePrevious
    <2>2. c \notin newest
      BY <2>1
    <2>3. Recovery!NewestBatchIntact'
      BY <1>4, <2>2 DEF Recovery!DeletePrevious
    <2>4. Recovery!UsedCodesAreGone' /\ OlderOnly' /\ DeletedBeforeLogin'
      BY <1>4 DEF Recovery!DeletePrevious
    <2> QED BY <2>3, <2>4
  <1>5. ASSUME NEW r \in Requests, Recovery!Answer(r) PROVE RecoveryInductive'
    BY <1>5 DEF Recovery!Answer, Recovery!Finish, Recovery!Enter
  <1>6. ASSUME NEW r \in Requests, NEW c \in Codes, Recovery!Match(r, c) PROVE RecoveryInductive'
    BY <1>6 DEF Recovery!Match, Recovery!Enter
  <1>7. ASSUME NEW r \in Requests, Recovery!FindMatched(r) PROVE RecoveryInductive'
    BY <1>7 DEF Recovery!FindMatched, Recovery!Finish, Recovery!Enter
  <1>8. ASSUME NEW r \in Requests, Recovery!Burn(r) PROVE RecoveryInductive'
    BY <1>8 DEF Recovery!Burn, Recovery!Enter
  <1>9. ASSUME NEW r \in Requests, Recovery!Login(r) PROVE RecoveryInductive'
    BY <1>9 DEF Recovery!Login, Recovery!Finish, Recovery!Enter
  <1>10. ASSUME NEW c \in Codes, Recovery!DeleteCredential(c) PROVE RecoveryInductive'
    BY <1>10 DEF Recovery!DeleteCredential
  <1>11. ASSUME NEW r \in Requests, Recovery!Abort(r) PROVE RecoveryInductive'
    BY <1>11 DEF Recovery!Abort, Recovery!Finish, Recovery!Enter
  <1>12. CASE UNCHANGED Recovery!vars
    BY <1>12 DEF Recovery!vars
  <1> QED
    BY <1>1, <1>2, <1>3, <1>4, <1>5, <1>6, <1>7, <1>8, <1>9, <1>10, <1>11, <1>12
       DEF Recovery!Next, Recovery!Generate, Recovery!Challenge

-----------------------------------------------------------------------------
(* Password reset.                                                         *)

(* A request deletes a row it has found.                                   *)
RowFound == \A r \in Requests : pc[r] = "delete" => row[r] \in Rows

ResetInductive == Reset!TypeOK /\ RowFound /\ Reset!LostOnlyByCrash

-----------------------------------------------------------------------------
LEMMA ResetInit == Reset!Init => ResetInductive
  BY DEF Reset!Init, ResetInductive, Reset!TypeOK, RowFound, Reset!LostOnlyByCrash, Reset!HadPassword

(* Every step keeps the types; the rows a request deletes are those of its *)
(* user, whoever has replaced them since.                                  *)
LEMMA ResetTypes == ResetInductive /\ [Reset!Next]_(Reset!vars) => Reset!TypeOK'
  <1> SUFFICES ASSUME ResetInductive, [Reset!Next]_(Reset!vars) PROVE Reset!TypeOK'
    OBVIOUS
  <1> USE DEF ResetInductive, Reset!TypeOK, RowFound, Reset!tokens, Reset!accounts, Reset!locals, Reset!history
  <1>1. ASSUME NEW r \in Requests, NEW u \in Users, Reset!Request(r, u) PROVE Reset!TypeOK'
    BY <1>1 DEF Reset!Request, Reset!Enter
  <1>2. ASSUME NEW r \in Requests, Reset!Cleanup(r) PROVE Reset!TypeOK'
    BY <1>2 DEF Reset!Cleanup, Reset!Drop, Reset!Goto, Reset!Enter, Reset!Stored
  <1>3. ASSUME NEW r \in Requests, NEW t \in Tokens, Reset!IssueToken(r, t) PROVE Reset!TypeOK'
    BY <1>3 DEF Reset!IssueToken, Reset!Finish, Reset!Enter
  <1>4. ASSUME NEW r \in Requests, NEW t \in Tokens, Reset!Present(r, t) PROVE Reset!TypeOK'
    BY <1>4 DEF Reset!Present, Reset!Enter, Reset!Stored
  <1>5. ASSUME NEW r \in Requests, Reset!DropToken(r) PROVE Reset!TypeOK'
    BY <1>5 DEF Reset!DropToken, Reset!Drop, Reset!Finish, Reset!Enter, Reset!Stored
  <1>6. ASSUME NEW r \in Requests, Reset!Retire(r) PROVE Reset!TypeOK'
    BY <1>6 DEF Reset!Retire, Reset!Drop, Reset!Goto, Reset!Enter, Reset!TokensOf,
                Reset!Stored
  <1>7. ASSUME NEW r \in Requests, NEW u \in Users, Reset!Replace(r, u) PROVE Reset!TypeOK'
    BY <1>7 DEF Reset!Replace, Reset!Enter
  <1>8. ASSUME NEW r \in Requests, Reset!Find(r) PROVE Reset!TypeOK'
    BY <1>8 DEF Reset!Find, Reset!Goto, Reset!Finish, Reset!Enter
  <1>9. ASSUME NEW r \in Requests, Reset!Delete(r) PROVE Reset!TypeOK'
    BY <1>9 DEF Reset!Delete, Reset!Goto, Reset!Enter
  <1>10. ASSUME NEW r \in Requests, NEW p \in Rows, Reset!Create(r, p) PROVE Reset!TypeOK'
    BY <1>10 DEF Reset!Create, Reset!Goto, Reset!Finish, Reset!Enter, Reset!Fresh
  <1>11. ASSUME NEW r \in Requests, Reset!Unrequire(r) PROVE Reset!TypeOK'
    BY <1>11 DEF Reset!Unrequire, Reset!Finish, Reset!Enter
  <1>12. ASSUME NEW r \in Requests, Reset!Abort(r) PROVE Reset!TypeOK'
    BY <1>12 DEF Reset!Abort, Reset!Finish, Reset!Enter
  <1>13. ASSUME NEW t \in Tokens, Reset!LifetimeElapses(t) PROVE Reset!TypeOK'
    BY <1>13 DEF Reset!LifetimeElapses
  <1>14. ASSUME NEW u \in Users, Reset!DeleteCredential(u) PROVE Reset!TypeOK'
    BY <1>14 DEF Reset!DeleteCredential
  <1>15. ASSUME NEW u \in Users, Reset!RequireActions(u) PROVE Reset!TypeOK'
    BY <1>15 DEF Reset!RequireActions
  <1>16. ASSUME NEW u \in Users, Reset!DeleteUser(u) PROVE Reset!TypeOK'
    BY <1>16 DEF Reset!DeleteUser, Reset!Drop, Reset!TokensOf, Reset!Stored
  <1>17. CASE UNCHANGED Reset!vars
    BY <1>17 DEF Reset!vars
  <1> QED
    BY <1>1, <1>2, <1>3, <1>4, <1>5, <1>6, <1>7, <1>8, <1>9, <1>10, <1>11,
       <1>12, <1>13, <1>14, <1>15, <1>16, <1>17 DEF Reset!Next, Reset!Link, Reset!Change

(* No step takes the last password of a user away, unless a request is     *)
(* about to insert the next one or is cut off.                             *)
LEMMA ResetKept == ResetInductive /\ [Reset!Next]_(Reset!vars) => ResetInductive'
  <1> SUFFICES ASSUME ResetInductive, [Reset!Next]_(Reset!vars), Reset!TypeOK' PROVE ResetInductive'
    BY ResetTypes
  <1> USE DEF ResetInductive, Reset!TypeOK, RowFound, Reset!LostOnlyByCrash, Reset!HadPassword, Reset!Replacing, Reset!tokens,
              Reset!accounts, Reset!locals, Reset!history
  <1>1. ASSUME NEW r \in Requests, NEW u \in Users, Reset!Request(r, u) PROVE ResetInductive'
    BY <1>1 DEF Reset!Request, Reset!Enter
  <1>2. ASSUME NEW r \in Requests, Reset!Cleanup(r) PROVE ResetInductive'
    BY <1>2 DEF Reset!Cleanup, Reset!Drop, Reset!Goto, Reset!Enter, Reset!Stored
  <1>3. ASSUME NEW r \in Requests, NEW t \in Tokens, Reset!IssueToken(r, t) PROVE ResetInductive'
    BY <1>3 DEF Reset!IssueToken, Reset!Finish, Reset!Enter
  <1>4. ASSUME NEW r \in Requests, NEW t \in Tokens, Reset!Present(r, t) PROVE ResetInductive'
    BY <1>4 DEF Reset!Present, Reset!Enter, Reset!Stored
  <1>5. ASSUME NEW r \in Requests, Reset!DropToken(r) PROVE ResetInductive'
    BY <1>5 DEF Reset!DropToken, Reset!Drop, Reset!Finish, Reset!Enter, Reset!Stored
  <1>6. ASSUME NEW r \in Requests, Reset!Retire(r) PROVE ResetInductive'
    BY <1>6 DEF Reset!Retire, Reset!Drop, Reset!Goto, Reset!Enter, Reset!TokensOf,
                Reset!Stored
  <1>7. ASSUME NEW r \in Requests, NEW u \in Users, Reset!Replace(r, u) PROVE ResetInductive'
    BY <1>7 DEF Reset!Replace, Reset!Enter
  <1>8. ASSUME NEW r \in Requests, Reset!Find(r) PROVE ResetInductive'
    BY <1>8 DEF Reset!Find, Reset!Goto, Reset!Finish, Reset!Enter
  <1>9. ASSUME NEW r \in Requests, Reset!Delete(r) PROVE ResetInductive'
    BY <1>9 DEF Reset!Delete, Reset!Goto, Reset!Enter
  <1>10. ASSUME NEW r \in Requests, NEW p \in Rows, Reset!Create(r, p) PROVE ResetInductive'
    BY <1>10 DEF Reset!Create, Reset!Goto, Reset!Finish, Reset!Enter, Reset!Fresh
  <1>11. ASSUME NEW r \in Requests, Reset!Unrequire(r) PROVE ResetInductive'
    BY <1>11 DEF Reset!Unrequire, Reset!Finish, Reset!Enter
  <1>12. ASSUME NEW r \in Requests, Reset!Abort(r) PROVE ResetInductive'
    BY <1>12 DEF Reset!Abort, Reset!Finish, Reset!Enter
  <1>13. ASSUME NEW t \in Tokens, Reset!LifetimeElapses(t) PROVE ResetInductive'
    BY <1>13 DEF Reset!LifetimeElapses
  <1>14. ASSUME NEW u \in Users, Reset!DeleteCredential(u) PROVE ResetInductive'
    BY <1>14 DEF Reset!DeleteCredential
  <1>15. ASSUME NEW u \in Users, Reset!RequireActions(u) PROVE ResetInductive'
    BY <1>15 DEF Reset!RequireActions
  <1>16. ASSUME NEW u \in Users, Reset!DeleteUser(u) PROVE ResetInductive'
    BY <1>16 DEF Reset!DeleteUser, Reset!Drop, Reset!TokensOf, Reset!Stored
  <1>17. CASE UNCHANGED Reset!vars
    BY <1>17 DEF Reset!vars
  <1> QED
    BY <1>1, <1>2, <1>3, <1>4, <1>5, <1>6, <1>7, <1>8, <1>9, <1>10, <1>11,
       <1>12, <1>13, <1>14, <1>15, <1>16, <1>17 DEF Reset!Next, Reset!Link, Reset!Change

(* The token limit.                                                        *)

\* Requests that have counted the tokens of u and not inserted theirs yet.
Counted(u) == {r \in Requests : pc[r] \in {"cleanup", "issue"} /\ target[r] = u}

(* Each request counted fewer than MaxActive tokens, so the tokens there   *)
(* are and those to come exceed the limit by the overlapping requests.     *)
Bound ==
    \A u \in Users :
        /\ IsFiniteSet(Reset!Active(u))
        /\ Cardinality(Reset!Active(u)) + Cardinality(Counted(u)) < MaxActive + Cardinality(Requests)

(* The component counts with the same operator.                            *)
LEMMA SameCardinality == \A S : Reset!Cardinality(S) = Cardinality(S)
  BY DEF Reset!Cardinality, Cardinality

LEMMA CountedIsFinite ==
  \A u \in Users : /\ IsFiniteSet(Counted(u))
                   /\ Cardinality(Counted(u)) \in Nat
                   /\ Cardinality(Counted(u)) <= Cardinality(Requests)
                   /\ Cardinality(Requests) \in Nat
  <1> TAKE u \in Users
  <1>1. Counted(u) \subseteq Requests
    BY DEF Counted
  <1>2. IsFiniteSet(Counted(u)) /\ Cardinality(Counted(u)) <= Cardinality(Requests)
    BY <1>1, RequestsAssumption, FS_Subset
  <1>3. Cardinality(Counted(u)) \in Nat /\ Cardinality(Requests) \in Nat
    BY <1>2, RequestsAssumption, FS_CardinalityType
  <1> QED BY <1>2, <1>3

(* Fewer tokens and fewer requests that have counted keep the bound.       *)
LEMMA FewerKeepBound ==
  ASSUME Bound, NEW u \in Users,
         Reset!Active(u)' \subseteq Reset!Active(u), Counted(u)' \subseteq Counted(u)
  PROVE  /\ IsFiniteSet(Reset!Active(u)')
         /\ Cardinality(Reset!Active(u)') + Cardinality(Counted(u)')
              < MaxActive + Cardinality(Requests)
  <1>1. /\ IsFiniteSet(Reset!Active(u)') /\ Cardinality(Reset!Active(u)') <= Cardinality(Reset!Active(u))
        /\ Cardinality(Reset!Active(u)') \in Nat /\ Cardinality(Reset!Active(u)) \in Nat
    BY FS_Subset, FS_CardinalityType DEF Bound
  <1>2. /\ IsFiniteSet(Counted(u)') /\ Cardinality(Counted(u)') <= Cardinality(Counted(u))
        /\ Cardinality(Counted(u)') \in Nat
    BY CountedIsFinite, FS_Subset, FS_CardinalityType
  <1>3. Cardinality(Counted(u)) \in Nat /\ Cardinality(Requests) \in Nat
    BY CountedIsFinite
  <1>4. Cardinality(Reset!Active(u)) + Cardinality(Counted(u)) < MaxActive + Cardinality(Requests)
    BY DEF Bound
  <1> QED BY <1>1, <1>2, <1>3, <1>4, MaxActiveAssumption

(* A request that counts may do so only below the limit.                   *)
LEMMA RequestKeepsBound ==
  ASSUME Reset!TypeOK, Reset!TypeOK', Bound, NEW r \in Requests, NEW u \in Users, Reset!Request(r, u)
  PROVE  Bound'
  <1> USE DEF Reset!tokens, Reset!locals, Reset!accounts, Reset!history
  <1>1. ASSUME NEW w \in Users, w # u
        PROVE  Reset!Active(w)' \subseteq Reset!Active(w) /\ Counted(w)' \subseteq Counted(w)
    BY <1>1 DEF Reset!Request, Reset!Enter, Reset!Active, Reset!TokensOf, Reset!Stored,
                Counted, Reset!TypeOK
  <1>2. Reset!Active(u)' = Reset!Active(u)
    BY DEF Reset!Request, Reset!Active, Reset!TokensOf, Reset!Stored
  <1>3. Cardinality(Reset!Active(u)) < MaxActive /\ IsFiniteSet(Reset!Active(u))
    BY SameCardinality DEF Reset!Request, Bound
  <1>4. Cardinality(Reset!Active(u)) \in Nat
    BY <1>3, FS_CardinalityType
  <1>5. Counted(u)' \subseteq Requests
    BY DEF Counted
  <1>6. /\ Cardinality(Counted(u)') <= Cardinality(Requests)
        /\ Cardinality(Counted(u)') \in Nat /\ Cardinality(Requests) \in Nat
    BY <1>5, RequestsAssumption, FS_Subset, FS_CardinalityType
  <1>7. Cardinality(Reset!Active(u)') + Cardinality(Counted(u)') < MaxActive + Cardinality(Requests)
    BY <1>2, <1>3, <1>4, <1>6, MaxActiveAssumption
  <1> QED BY <1>1, <1>2, <1>3, <1>7, FewerKeepBound DEF Bound

(* A request that inserts its token is no longer one that has counted.     *)
LEMMA IssueKeepsBound ==
  ASSUME Reset!TypeOK, Reset!TypeOK', Bound, NEW r \in Requests, NEW t \in Tokens, Reset!IssueToken(r, t)
  PROVE  Bound'
  <1> USE DEF Reset!tokens, Reset!locals, Reset!accounts, Reset!history
  <1>1. PICK u \in Users : u = target[r]
    BY DEF Reset!IssueToken, Reset!TypeOK
  <1>2. ASSUME NEW w \in Users, w # u
        PROVE  Reset!Active(w)' \subseteq Reset!Active(w) /\ Counted(w)' \subseteq Counted(w)
    <2>1. Reset!Active(w)' \subseteq Reset!Active(w)
      BY <1>1, <1>2 DEF Reset!IssueToken, Reset!Active, Reset!TokensOf, Reset!Stored,
                        Reset!TypeOK
    <2>2. Counted(w)' \subseteq Counted(w)
      BY <1>1, <1>2 DEF Reset!IssueToken, Reset!Finish, Reset!Enter, Counted, Reset!TypeOK
    <2> QED BY <2>1, <2>2
  <1>3. Reset!Active(u)' \subseteq Reset!Active(u) \union {t}
    BY <1>1 DEF Reset!IssueToken, Reset!Active, Reset!TokensOf, Reset!Stored, Reset!TypeOK
  <1>4. Counted(u)' \subseteq Counted(u) \ {r} /\ r \in Counted(u)
    BY <1>1 DEF Reset!IssueToken, Reset!Finish, Reset!Enter, Counted, Reset!TypeOK
  <1>5. IsFiniteSet(Reset!Active(u)) /\ Cardinality(Reset!Active(u)) \in Nat
    BY <1>1, FS_CardinalityType DEF Bound
  <1>6. /\ IsFiniteSet(Reset!Active(u) \union {t})
        /\ Cardinality(Reset!Active(u) \union {t}) \in
              {Cardinality(Reset!Active(u)), Cardinality(Reset!Active(u)) + 1}
    BY <1>5, FS_AddElement
  <1>7. /\ IsFiniteSet(Reset!Active(u)') /\ Cardinality(Reset!Active(u)') \in Nat
        /\ Cardinality(Reset!Active(u)') <= Cardinality(Reset!Active(u) \union {t})
        /\ Cardinality(Reset!Active(u) \union {t}) \in Nat
    BY <1>3, <1>6, FS_Subset, FS_CardinalityType
  <1>8. /\ IsFiniteSet(Counted(u)) /\ Cardinality(Counted(u)) \in Nat
        /\ Cardinality(Requests) \in Nat
    BY <1>1, CountedIsFinite
  <1>9. /\ IsFiniteSet(Counted(u) \ {r})
        /\ Cardinality(Counted(u) \ {r}) = Cardinality(Counted(u)) - 1
    BY <1>4, <1>8, FS_RemoveElement
  <1>10. /\ Cardinality(Counted(u)') <= Cardinality(Counted(u) \ {r})
         /\ Cardinality(Counted(u)') \in Nat
    BY <1>4, <1>9, FS_Subset, FS_CardinalityType
  <1>11. Cardinality(Reset!Active(u)) + Cardinality(Counted(u)) < MaxActive + Cardinality(Requests)
    BY <1>1 DEF Bound
  <1>12. Cardinality(Reset!Active(u)') + Cardinality(Counted(u)') < MaxActive + Cardinality(Requests)
    BY <1>5, <1>6, <1>7, <1>8, <1>9, <1>10, <1>11, MaxActiveAssumption
  <1> QED BY <1>1, <1>2, <1>7, <1>12, FewerKeepBound DEF Bound

(* Every other step only takes tokens or requests away.                    *)
LEMMA StepKeepsBound == Reset!TypeOK /\ Reset!TypeOK' /\ Bound /\ [Reset!Next]_(Reset!vars) => Bound'
  <1> SUFFICES ASSUME Reset!TypeOK, Reset!TypeOK', Bound, [Reset!Next]_(Reset!vars) PROVE Bound'
    OBVIOUS
  <1> DEFINE Fewer == \A u \in Users :
                 Reset!Active(u)' \subseteq Reset!Active(u) /\ Counted(u)' \subseteq Counted(u)
  <1>0. Fewer => Bound'
    BY FewerKeepBound DEF Bound
  <1> HIDE DEF Fewer
  <1> USE DEF Reset!TypeOK, Reset!Active, Reset!TokensOf, Reset!Stored, Counted, Reset!tokens, Reset!accounts, Reset!locals, Reset!history
  <1>1. ASSUME NEW r \in Requests, NEW u \in Users, Reset!Request(r, u) PROVE Bound'
    BY <1>1, RequestKeepsBound
  <1>2. ASSUME NEW r \in Requests, Reset!Cleanup(r) PROVE Bound'
    <2>1. Fewer
      BY <1>2 DEF Reset!Cleanup, Reset!Drop, Reset!Goto, Reset!Enter, Fewer
    <2> QED BY <1>0, <2>1
  <1>3. ASSUME NEW r \in Requests, NEW t \in Tokens, Reset!IssueToken(r, t) PROVE Bound'
    BY <1>3, IssueKeepsBound
  <1>4. ASSUME NEW r \in Requests, NEW t \in Tokens, Reset!Present(r, t) PROVE Bound'
    <2>1. Fewer
      BY <1>4 DEF Reset!Present, Reset!Enter, Fewer
    <2> QED BY <1>0, <2>1
  <1>5. ASSUME NEW r \in Requests, Reset!DropToken(r) PROVE Bound'
    <2>1. Fewer
      BY <1>5 DEF Reset!DropToken, Reset!Drop, Reset!Finish, Reset!Enter, Fewer
    <2> QED BY <1>0, <2>1
  <1>6. ASSUME NEW r \in Requests, Reset!Retire(r) PROVE Bound'
    <2>1. Fewer
      BY <1>6 DEF Reset!Retire, Reset!Drop, Reset!Goto, Reset!Enter, Fewer
    <2> QED BY <1>0, <2>1
  <1>7. ASSUME NEW r \in Requests, NEW u \in Users, Reset!Replace(r, u) PROVE Bound'
    <2>1. Fewer
      BY <1>7 DEF Reset!Replace, Reset!Enter, Fewer
    <2> QED BY <1>0, <2>1
  <1>8. ASSUME NEW r \in Requests, Reset!Find(r) PROVE Bound'
    <2>1. Fewer
      BY <1>8 DEF Reset!Find, Reset!Goto, Reset!Finish, Reset!Enter, Fewer
    <2> QED BY <1>0, <2>1
  <1>9. ASSUME NEW r \in Requests, Reset!Delete(r) PROVE Bound'
    <2>1. Fewer
      BY <1>9 DEF Reset!Delete, Reset!Goto, Reset!Enter, Fewer
    <2> QED BY <1>0, <2>1
  <1>10. ASSUME NEW r \in Requests, NEW p \in Rows, Reset!Create(r, p) PROVE Bound'
    <2>1. Fewer
      BY <1>10 DEF Reset!Create, Reset!Goto, Reset!Finish, Reset!Enter, Fewer
    <2> QED BY <1>0, <2>1
  <1>11. ASSUME NEW r \in Requests, Reset!Unrequire(r) PROVE Bound'
    <2>1. Fewer
      BY <1>11 DEF Reset!Unrequire, Reset!Finish, Reset!Enter, Fewer
    <2> QED BY <1>0, <2>1
  <1>12. ASSUME NEW r \in Requests, Reset!Abort(r) PROVE Bound'
    <2>1. Fewer
      BY <1>12 DEF Reset!Abort, Reset!Finish, Reset!Enter, Fewer
    <2> QED BY <1>0, <2>1
  <1>13. ASSUME NEW t \in Tokens, Reset!LifetimeElapses(t) PROVE Bound'
    <2>1. Fewer
      BY <1>13 DEF Reset!LifetimeElapses, Fewer
    <2> QED BY <1>0, <2>1
  <1>14. ASSUME NEW u \in Users, Reset!DeleteCredential(u) PROVE Bound'
    <2>1. Fewer
      BY <1>14 DEF Reset!DeleteCredential, Fewer
    <2> QED BY <1>0, <2>1
  <1>15. ASSUME NEW u \in Users, Reset!RequireActions(u) PROVE Bound'
    <2>1. Fewer
      BY <1>15 DEF Reset!RequireActions, Fewer
    <2> QED BY <1>0, <2>1
  <1>16. ASSUME NEW u \in Users, Reset!DeleteUser(u) PROVE Bound'
    <2>1. Fewer
      BY <1>16 DEF Reset!DeleteUser, Reset!Drop, Fewer
    <2> QED BY <1>0, <2>1
  <1>17. CASE UNCHANGED Reset!vars
    BY <1>0, <1>17 DEF Fewer, Reset!vars
  <1> QED
    BY <1>1, <1>2, <1>3, <1>4, <1>5, <1>6, <1>7, <1>8, <1>9, <1>10, <1>11,
       <1>12, <1>13, <1>14, <1>15, <1>16, <1>17 DEF Reset!Next, Reset!Link, Reset!Change

LEMMA InitBound == Reset!Init => Bound
  <1> SUFFICES ASSUME Reset!Init, NEW u \in Users
               PROVE  /\ IsFiniteSet(Reset!Active(u))
                      /\ Cardinality(Reset!Active(u)) + Cardinality(Counted(u))
                           < MaxActive + Cardinality(Requests)
    BY DEF Bound
  <1>1. Reset!Active(u) = {} /\ Counted(u) = {}
    BY DEF Reset!Init, Reset!Active, Reset!TokensOf, Reset!Stored, Counted
  <1>2. Cardinality(Requests) \in Nat
    BY RequestsAssumption, FS_CardinalityType
  <1> QED BY <1>1, <1>2, FS_EmptySet, MaxActiveAssumption

LEMMA BoundSuffices == Bound => Reset!OvershootIsBounded
  <1> SUFFICES ASSUME Bound, NEW u \in Users
               PROVE  Cardinality(Reset!Active(u)) < MaxActive + Cardinality(Requests)
    BY SameCardinality DEF Reset!OvershootIsBounded
  <1>1. Cardinality(Reset!Active(u)) \in Nat
    BY FS_CardinalityType DEF Bound
  <1>2. Cardinality(Counted(u)) \in Nat /\ Cardinality(Requests) \in Nat
    BY CountedIsFinite
  <1>3. Cardinality(Reset!Active(u)) + Cardinality(Counted(u)) < MaxActive + Cardinality(Requests)
    BY DEF Bound
  <1> QED BY <1>1, <1>2, <1>3, MaxActiveAssumption

-----------------------------------------------------------------------------
(* Magic links.  Unless a link is excused, one request at a time has       *)
(* accepted it; once it has logged in it is gone, or the request that did  *)
(* so is about to delete it, and nobody else is about to stamp for it.     *)
AcceptedByOne ==
    \A l \in Links \ excused : \A q, r \in Requests :
        Magic!Using(q, l) /\ Magic!Using(r, l) => q = r

DeletionFollows ==
    \A l \in opened \ excused :
        linkStatus[l] # "stored" \/ \E r \in Requests : pc[r] = "delete" /\ link[r] = l

SecondIsExcused ==
    \A r \in Requests : pc[r] = "stamp" /\ link[r] \in opened => link[r] \in excused

OpenedWasStored == \A l \in opened : linkStatus[l] # "unborn"

MagicInductive ==
    /\ Magic!TypeOK
    /\ Magic!LinksLogInOnce
    /\ AcceptedByOne
    /\ DeletionFollows
    /\ SecondIsExcused
    /\ OpenedWasStored

-----------------------------------------------------------------------------
LEMMA MagicInit == Magic!Init => MagicInductive
  <1> SUFFICES ASSUME Magic!Init PROVE MagicInductive
    OBVIOUS
  <1>1. Magic!TypeOK
    BY DEF Magic!Init, Magic!TypeOK
  <1>2. Magic!LinksLogInOnce /\ DeletionFollows /\ SecondIsExcused /\ OpenedWasStored
    BY DEF Magic!Init, Magic!LinksLogInOnce, DeletionFollows, SecondIsExcused, OpenedWasStored
  <1>3. AcceptedByOne
    BY DEF Magic!Init, AcceptedByOne, Magic!Using
  <1> QED BY <1>1, <1>2, <1>3 DEF MagicInductive

(* Every step keeps the types; stored links belong to accounts that exist. *)
LEMMA MagicTypes == Magic!TypeOK /\ [Magic!Next]_(Magic!vars) => Magic!TypeOK'
  <1> SUFFICES ASSUME Magic!TypeOK, [Magic!Next]_(Magic!vars) PROVE Magic!TypeOK'
    OBVIOUS
  <1> USE DEF Magic!TypeOK, Magic!links, Magic!locals, Magic!history
  <1>1. ASSUME NEW r \in Requests, NEW u \in Users, Magic!Ask(r, u) PROVE Magic!TypeOK'
    BY <1>1 DEF Magic!Ask, Magic!Enter
  <1>2. ASSUME NEW r \in Requests, Magic!Cleanup(r) PROVE Magic!TypeOK'
    BY <1>2 DEF Magic!Cleanup, Magic!Drop, Magic!Stored, Magic!Enter
  <1>3. ASSUME NEW r \in Requests, NEW l \in Links, Magic!CreateLink(r, l) PROVE Magic!TypeOK'
    BY <1>3 DEF Magic!CreateLink, Magic!Finish, Magic!Enter
  <1>4. ASSUME NEW r \in Requests, NEW l \in Links, Magic!Present(r, l) PROVE Magic!TypeOK'
    BY <1>4 DEF Magic!Present, Magic!Stored, Magic!Enter
  <1>5. ASSUME NEW r \in Requests, Magic!DropLink(r) PROVE Magic!TypeOK'
    BY <1>5 DEF Magic!DropLink, Magic!Drop, Magic!Stored, Magic!Finish, Magic!Enter
  <1>6. ASSUME NEW r \in Requests, Magic!Stamp(r) PROVE Magic!TypeOK'
    BY <1>6 DEF Magic!Stamp, Magic!Finish, Magic!Enter
  <1>7. ASSUME NEW r \in Requests, Magic!DeleteUsed(r) PROVE Magic!TypeOK'
    BY <1>7 DEF Magic!DeleteUsed, Magic!Drop, Magic!Stored, Magic!Finish, Magic!Enter
  <1>8. ASSUME NEW r \in Requests, Magic!Abort(r) PROVE Magic!TypeOK'
    BY <1>8 DEF Magic!Abort, Magic!Finish, Magic!Enter
  <1>9. ASSUME NEW l \in Links, Magic!LifetimeElapses(l) PROVE Magic!TypeOK'
    BY <1>9 DEF Magic!LifetimeElapses
  <1>10. ASSUME NEW u \in Users, Magic!DeleteUser(u) PROVE Magic!TypeOK'
    BY <1>10 DEF Magic!DeleteUser, Magic!Drop, Magic!Stored
  <1>11. CASE UNCHANGED Magic!vars
    BY <1>11 DEF Magic!vars
  <1> QED
    BY <1>1, <1>2, <1>3, <1>4, <1>5, <1>6, <1>7, <1>8, <1>9, <1>10, <1>11 DEF Magic!Next

(* Every step preserves what keeps a link from logging in twice.           *)
LEMMA MagicKept == MagicInductive /\ [Magic!Next]_(Magic!vars) => MagicInductive'
  <1> SUFFICES ASSUME MagicInductive, [Magic!Next]_(Magic!vars), Magic!TypeOK'
               PROVE  MagicInductive'
    BY MagicTypes DEF MagicInductive
  <1> USE DEF MagicInductive, Magic!TypeOK, Magic!LinksLogInOnce, AcceptedByOne, DeletionFollows,
              SecondIsExcused, OpenedWasStored, Magic!Using, Magic!links, Magic!locals,
              Magic!history
  <1>1. ASSUME NEW r \in Requests, NEW u \in Users, Magic!Ask(r, u) PROVE MagicInductive'
    BY <1>1 DEF Magic!Ask, Magic!Enter
  <1>2. ASSUME NEW r \in Requests, Magic!Cleanup(r) PROVE MagicInductive'
    BY <1>2 DEF Magic!Cleanup, Magic!Drop, Magic!Stored, Magic!Enter
  <1>3. ASSUME NEW r \in Requests, NEW l \in Links, Magic!CreateLink(r, l) PROVE MagicInductive'
    BY <1>3 DEF Magic!CreateLink, Magic!Finish, Magic!Enter, Magic!Fresh
  <1>4. ASSUME NEW r \in Requests, NEW l \in Links, Magic!Present(r, l) PROVE MagicInductive'
    BY <1>4 DEF Magic!Present, Magic!Stored, Magic!Enter
  <1>5. ASSUME NEW r \in Requests, Magic!DropLink(r) PROVE MagicInductive'
    BY <1>5 DEF Magic!DropLink, Magic!Drop, Magic!Stored, Magic!Finish, Magic!Enter
  <1>6. ASSUME NEW r \in Requests, Magic!Stamp(r) PROVE MagicInductive'
    BY <1>6 DEF Magic!Stamp, Magic!Finish, Magic!Enter
  <1>7. ASSUME NEW r \in Requests, Magic!DeleteUsed(r) PROVE MagicInductive'
    BY <1>7 DEF Magic!DeleteUsed, Magic!Drop, Magic!Stored, Magic!Finish, Magic!Enter
  <1>8. ASSUME NEW r \in Requests, Magic!Abort(r) PROVE MagicInductive'
    BY <1>8 DEF Magic!Abort, Magic!Finish, Magic!Enter
  <1>9. ASSUME NEW l \in Links, Magic!LifetimeElapses(l) PROVE MagicInductive'
    BY <1>9 DEF Magic!LifetimeElapses
  <1>10. ASSUME NEW u \in Users, Magic!DeleteUser(u) PROVE MagicInductive'
    BY <1>10 DEF Magic!DeleteUser, Magic!Drop, Magic!Stored
  <1>11. CASE UNCHANGED Magic!vars
    BY <1>11 DEF Magic!vars
  <1> QED
    BY <1>1, <1>2, <1>3, <1>4, <1>5, <1>6, <1>7, <1>8, <1>9, <1>10, <1>11 DEF Magic!Next

-----------------------------------------------------------------------------
(* OTP enrolment.  As long as no two rows have been stored at once, there  *)
(* is at most one, and a request has at most one to delete.                *)
OneRow ==
    ~doubled => /\ \A s, t \in otps : s = t
                /\ \A r \in Requests : \A s, t \in replaced[r] : s = t

OtpInductive == Otp!TypeOK /\ Otp!OtpIsKept /\ OneRow

-----------------------------------------------------------------------------
LEMMA OtpInit == Otp!Init => OtpInductive
  BY DEF Otp!Init, OtpInductive, Otp!TypeOK, Otp!OtpIsKept, OneRow

(* Every step keeps the types; a request deletes rows it has read.         *)
LEMMA OtpTypes == Otp!TypeOK /\ [Otp!Next]_(Otp!vars) => Otp!TypeOK'
  <1> SUFFICES ASSUME Otp!TypeOK, [Otp!Next]_(Otp!vars) PROVE Otp!TypeOK'
    OBVIOUS
  <1> USE DEF Otp!TypeOK, Otp!history
  <1>1. ASSUME NEW r \in Requests, Otp!ReadCredentials(r) PROVE Otp!TypeOK'
    BY <1>1 DEF Otp!ReadCredentials, Otp!Enter
  <1>2. ASSUME NEW r \in Requests, NEW s \in Secrets, Otp!FindPrevious(r, s) PROVE Otp!TypeOK'
    BY <1>2 DEF Otp!FindPrevious, Otp!Finish, Otp!Enter
  <1>3. ASSUME NEW r \in Requests, NEW s \in Secrets, Otp!CreateOtp(r, s) PROVE Otp!TypeOK'
    BY <1>3 DEF Otp!CreateOtp, Otp!Enter
  <1>4. ASSUME NEW r \in Requests, Otp!DeletePrevious(r) PROVE Otp!TypeOK'
    BY <1>4 DEF Otp!DeletePrevious, Otp!Enter
  <1>5. ASSUME NEW r \in Requests, Otp!Unrequire(r) PROVE Otp!TypeOK'
    BY <1>5 DEF Otp!Unrequire, Otp!Finish, Otp!Enter
  <1>6. ASSUME NEW r \in Requests, Otp!Abort(r) PROVE Otp!TypeOK'
    BY <1>6 DEF Otp!Abort, Otp!Finish, Otp!Enter
  <1>7. ASSUME NEW s \in Secrets, Otp!DeleteCredential(s) PROVE Otp!TypeOK'
    BY <1>7 DEF Otp!DeleteCredential
  <1>8. ASSUME Otp!RequireActions PROVE Otp!TypeOK'
    BY <1>8 DEF Otp!RequireActions
  <1>9. CASE UNCHANGED Otp!vars
    BY <1>9 DEF Otp!vars
  <1> QED
    BY <1>1, <1>2, <1>3, <1>4, <1>5, <1>6, <1>7, <1>8, <1>9 DEF Otp!Next

(* No step takes the last row away unless its request goes on to insert.   *)
LEMMA OtpKept == OtpInductive /\ [Otp!Next]_(Otp!vars) => OtpInductive'
  <1> SUFFICES ASSUME OtpInductive, [Otp!Next]_(Otp!vars), Otp!TypeOK' PROVE OtpInductive'
    BY OtpTypes DEF OtpInductive
  <1> USE DEF OtpInductive, Otp!TypeOK, Otp!OtpIsKept, Otp!Replacing, OneRow, Otp!history
  <1>1. ASSUME NEW r \in Requests, Otp!ReadCredentials(r) PROVE OtpInductive'
    BY <1>1 DEF Otp!ReadCredentials, Otp!Enter
  <1>2. ASSUME NEW r \in Requests, NEW s \in Secrets, Otp!FindPrevious(r, s) PROVE OtpInductive'
    BY <1>2 DEF Otp!FindPrevious, Otp!Finish, Otp!Enter
  <1>3. ASSUME NEW r \in Requests, NEW s \in Secrets, Otp!CreateOtp(r, s) PROVE OtpInductive'
    <2>1. Otp!OtpIsKept'
      BY <1>3 DEF Otp!CreateOtp, Otp!Enter
    <2>2. ~doubled' => ~doubled /\ otps' = {s}
      BY <1>3 DEF Otp!CreateOtp
    <2>3. \A q \in Requests : replaced'[q] = IF q = r THEN {} ELSE replaced[q]
      BY <1>3 DEF Otp!CreateOtp, Otp!Enter
    <2>4. OneRow'
      BY <2>2, <2>3
    <2> QED BY <2>1, <2>4
  <1>4. ASSUME NEW r \in Requests, Otp!DeletePrevious(r) PROVE OtpInductive'
    <2>1. ~doubled => replaced'[r] = {} /\ pc'[r] = "replace"
      BY <1>4 DEF Otp!DeletePrevious, Otp!Enter
    <2>2. Otp!OtpIsKept'
      BY <1>4, <2>1 DEF Otp!DeletePrevious, Otp!Enter
    <2>3. OneRow'
      BY <1>4 DEF Otp!DeletePrevious, Otp!Enter
    <2> QED BY <2>2, <2>3
  <1>5. ASSUME NEW r \in Requests, Otp!Unrequire(r) PROVE OtpInductive'
    BY <1>5 DEF Otp!Unrequire, Otp!Finish, Otp!Enter
  <1>6. ASSUME NEW r \in Requests, Otp!Abort(r) PROVE OtpInductive'
    BY <1>6 DEF Otp!Abort, Otp!Finish, Otp!Enter
  <1>7. ASSUME NEW s \in Secrets, Otp!DeleteCredential(s) PROVE OtpInductive'
    BY <1>7 DEF Otp!DeleteCredential
  <1>8. ASSUME Otp!RequireActions PROVE OtpInductive'
    BY <1>8 DEF Otp!RequireActions
  <1>9. CASE UNCHANGED Otp!vars
    BY <1>9 DEF Otp!vars
  <1> QED
    BY <1>1, <1>2, <1>3, <1>4, <1>5, <1>6, <1>7, <1>8, <1>9 DEF Otp!Next

-----------------------------------------------------------------------------
(* Passkeys.                                                               *)

(* Only challenges that were handed out are signed.                        *)
SignedWereBegun == \A c \in Challenges : signer[c] # None => kind[c] # "unborn"

(* A key that is not in crossed has one row, and one request updates it,   *)
(* on the counter it has.                                                  *)
OneRowPerKey ==
    \A p, o \in Passkeys :
        keyOf[p] = keyOf[o] /\ keyOf[p] # None /\ keyOf[p] \notin crossed => p = o

OneUpdate ==
    /\ \A r \in Requests : pc[r] = "update" => keyOf[picked[r]] = signer[answer[r]]
    /\ \A r \in Requests : pc[r] = "update" /\ signer[answer[r]] \notin crossed =>
          /\ picked[r] \in rows => counter[picked[r]] = read[r]
          /\ \A q \in Requests :
                pc[q] = "update" /\ signer[answer[q]] = signer[answer[r]] => q = r

\* Challenges whose counted answer has been through the update of its row.
Recorded(c) ==
    /\ Keys!Counted(c)
    /\ c \in accepted \/ \E r \in Requests : pc[r] = "stamp" /\ answer[r] = c

(* Its key has had a row, and unless it is in crossed that row shows the   *)
(* counter of the answer, or a later one.                                  *)
CounterStands ==
    \A c \in Challenges : Recorded(c) =>
        /\ signer[c] # None
        /\ \E p \in Passkeys : keyOf[p] = signer[c]
        /\ signer[c] \notin crossed =>
              \A p \in rows : keyOf[p] = signer[c] => counter[p] >= signature[c]

(* An answer that is not excused is in one request at a time, and not past *)
(* its verification if it has logged in before.                            *)
VerifiedByOne ==
    \A c \in Challenges : Keys!Counted(c) /\ c \notin retried =>
        \A r, q \in Requests : Keys!Using(r, c) /\ Keys!Using(q, c) => r = q

VerifiedOnce ==
    \A r \in Requests :
        /\ pc[r] \in {"find", "update", "stamp"}
        /\ Keys!Counted(answer[r])
        /\ answer[r] \notin retried
        /\ signer[answer[r]] \notin crossed
        => answer[r] \notin accepted

OnlyCounted == \A c \in accepted : Keys!Counted(c)

KeysInductive ==
    /\ Keys!TypeOK
    /\ Keys!AnswersLogInOnce
    /\ SignedWereBegun
    /\ OneRowPerKey
    /\ OneUpdate
    /\ CounterStands
    /\ VerifiedByOne
    /\ VerifiedOnce
    /\ OnlyCounted

-----------------------------------------------------------------------------
LEMMA KeysInit == Keys!Init => KeysInductive
  <1> SUFFICES ASSUME Keys!Init PROVE KeysInductive
    OBVIOUS
  <1> USE CountersAssumption DEF Keys!Init
  <1>1. Keys!TypeOK
    BY DEF Keys!TypeOK
  <1>2. Keys!AnswersLogInOnce /\ SignedWereBegun /\ OneRowPerKey /\ OneUpdate
    BY DEF Keys!AnswersLogInOnce, SignedWereBegun, OneRowPerKey, OneUpdate
  <1>3. CounterStands /\ VerifiedByOne /\ VerifiedOnce /\ OnlyCounted
    BY DEF CounterStands, Recorded, VerifiedByOne, VerifiedOnce, OnlyCounted, Keys!Using,
           Keys!Counted
  <1> QED BY <1>1, <1>2, <1>3 DEF KeysInductive

(* Every step keeps the types; a request verifies what has been signed.    *)
LEMMA KeysTypes == Keys!TypeOK /\ [Keys!Next]_(Keys!vars) => Keys!TypeOK'
  <1> SUFFICES ASSUME Keys!TypeOK, [Keys!Next]_(Keys!vars) PROVE Keys!TypeOK'
    OBVIOUS
  <1> USE CountersAssumption DEF Keys!TypeOK, Keys!credentials, Keys!challenges,
          Keys!authenticators, Keys!locals, Keys!history
  <1>1. ASSUME NEW c \in Challenges, Keys!BeginRegistration(c) \/ Keys!BeginPasskey(c)
        PROVE  Keys!TypeOK'
    BY <1>1 DEF Keys!BeginRegistration, Keys!BeginPasskey, Keys!BeginKnown, Keys!HandOut,
                Keys!Fresh
  <1>2. ASSUME NEW c \in Challenges, NEW k \in Challenges, NEW n \in Counters, Keys!Sign(c, k, n)
        PROVE  Keys!TypeOK'
    BY <1>2 DEF Keys!Sign
  <1>3. ASSUME NEW r \in Requests, NEW c \in Challenges, Keys!Present(r, c) PROVE Keys!TypeOK'
    BY <1>3 DEF Keys!Present, Keys!Accept, Keys!Enter
  <1>4. ASSUME NEW r \in Requests, NEW p \in Passkeys, Keys!CreateRow(r, p) PROVE Keys!TypeOK'
    BY <1>4 DEF Keys!CreateRow, Keys!Finish, Keys!Enter, Keys!Fresh
  <1>5. ASSUME NEW r \in Requests, Keys!Verify(r) PROVE Keys!TypeOK'
    BY <1>5 DEF Keys!Verify, Keys!Accept, Keys!Enter
  <1>6. ASSUME NEW r \in Requests, NEW p \in Passkeys, Keys!FindRow(r, p) PROVE Keys!TypeOK'
    BY <1>6 DEF Keys!FindRow, Keys!RowsOf
  <1>7. ASSUME NEW r \in Requests, Keys!UpdateRow(r) PROVE Keys!TypeOK'
    BY <1>7 DEF Keys!UpdateRow, Keys!Enter
  <1>8. ASSUME NEW r \in Requests, Keys!Stamp(r) PROVE Keys!TypeOK'
    BY <1>8 DEF Keys!Stamp, Keys!Finish, Keys!Enter
  <1>9. ASSUME NEW r \in Requests, Keys!Abort(r) PROVE Keys!TypeOK'
    BY <1>9 DEF Keys!Abort, Keys!Finish, Keys!Enter
  <1>10. ASSUME NEW p \in Passkeys, Keys!DeleteCredential(p) PROVE Keys!TypeOK'
    BY <1>10 DEF Keys!DeleteCredential
  <1>11. CASE UNCHANGED Keys!vars
    BY <1>11 DEF Keys!vars
  <1> HIDE DEF Keys!TypeOK
  <1> QED
    BY <1>1, <1>2, <1>3, <1>4, <1>5, <1>6, <1>7, <1>8, <1>9, <1>10, <1>11
       DEF Keys!Next, Keys!Authenticate

(* No step forgets a counter that an answer has left behind, unless it     *)
(* puts the key among those that have crossed.                             *)
LEMMA KeysKept == KeysInductive /\ [Keys!Next]_(Keys!vars) => KeysInductive'
  <1> SUFFICES ASSUME KeysInductive, [Keys!Next]_(Keys!vars), Keys!TypeOK' PROVE KeysInductive'
    BY KeysTypes DEF KeysInductive
  <1> USE CountersAssumption DEF KeysInductive, Keys!TypeOK, Keys!credentials, Keys!challenges,
          Keys!authenticators, Keys!locals, Keys!history, Keys!Counted
  <1>1. ASSUME NEW c \in Challenges, Keys!BeginRegistration(c) \/ Keys!BeginPasskey(c)
        PROVE  KeysInductive'
    <2>1. Keys!AnswersLogInOnce' /\ OnlyCounted'
      BY <1>1 DEF Keys!BeginRegistration, Keys!BeginPasskey, Keys!BeginKnown, Keys!HandOut,
                  Keys!Fresh, Keys!AnswersLogInOnce, OnlyCounted, VerifiedOnce,
                  SignedWereBegun, CounterStands, Recorded
    <2>2. SignedWereBegun' /\ OneRowPerKey'
      BY <1>1 DEF Keys!BeginRegistration, Keys!BeginPasskey, Keys!BeginKnown, Keys!HandOut,
                  Keys!Fresh, SignedWereBegun, OneRowPerKey
    <2>3. OneUpdate'
      BY <1>1 DEF Keys!BeginRegistration, Keys!BeginPasskey, Keys!BeginKnown, Keys!HandOut,
                  Keys!Fresh, OneUpdate, OneRowPerKey, SignedWereBegun
    <2>4. CounterStands'
      BY <1>1 DEF Keys!BeginRegistration, Keys!BeginPasskey, Keys!BeginKnown, Keys!HandOut,
                  Keys!Fresh, CounterStands, Recorded, OneUpdate, OneRowPerKey,
                  SignedWereBegun, OnlyCounted
    <2>5. VerifiedByOne'
      BY <1>1 DEF Keys!BeginRegistration, Keys!BeginPasskey, Keys!BeginKnown, Keys!HandOut,
                  Keys!Fresh, VerifiedByOne, Keys!Using, SignedWereBegun
    <2>6. VerifiedOnce'
      BY <1>1 DEF Keys!BeginRegistration, Keys!BeginPasskey, Keys!BeginKnown, Keys!HandOut,
                  Keys!Fresh, VerifiedOnce, VerifiedByOne, Keys!Using, CounterStands,
                  Recorded, SignedWereBegun
    <2> QED BY <2>1, <2>2, <2>3, <2>4, <2>5, <2>6
  <1>2. ASSUME NEW c \in Challenges, NEW k \in Challenges, NEW n \in Counters,
               Keys!Sign(c, k, n)
        PROVE  KeysInductive'
    <2>1. Keys!AnswersLogInOnce' /\ OnlyCounted'
      BY <1>2 DEF Keys!Sign, Keys!AnswersLogInOnce, OnlyCounted, VerifiedOnce,
                  SignedWereBegun, CounterStands, Recorded
    <2>2. SignedWereBegun' /\ OneRowPerKey'
      BY <1>2 DEF Keys!Sign, SignedWereBegun, OneRowPerKey
    <2>3. OneUpdate'
      BY <1>2 DEF Keys!Sign, OneUpdate, OneRowPerKey, SignedWereBegun
    <2>4. CounterStands'
      BY <1>2 DEF Keys!Sign, CounterStands, Recorded, OneUpdate, OneRowPerKey,
                  SignedWereBegun, OnlyCounted
    <2>5. VerifiedByOne'
      BY <1>2 DEF Keys!Sign, VerifiedByOne, Keys!Using, SignedWereBegun
    <2>6. VerifiedOnce'
      BY <1>2 DEF Keys!Sign, VerifiedOnce, VerifiedByOne, Keys!Using, CounterStands,
                  Recorded, SignedWereBegun
    <2> QED BY <2>1, <2>2, <2>3, <2>4, <2>5, <2>6
  <1>3. ASSUME NEW r \in Requests, NEW c \in Challenges, Keys!Present(r, c)
        PROVE  KeysInductive'
    <2>1. Keys!AnswersLogInOnce' /\ OnlyCounted'
      BY <1>3 DEF Keys!Present, Keys!Accept, Keys!Enter, Keys!AnswersLogInOnce, OnlyCounted,
                  VerifiedOnce, SignedWereBegun, CounterStands, Recorded
    <2>2. SignedWereBegun' /\ OneRowPerKey'
      BY <1>3 DEF Keys!Present, Keys!Accept, Keys!Enter, SignedWereBegun, OneRowPerKey
    <2>3. OneUpdate'
      BY <1>3 DEF Keys!Present, Keys!Accept, Keys!Enter, OneUpdate, OneRowPerKey,
                  SignedWereBegun
    <2>4. CounterStands'
      BY <1>3 DEF Keys!Present, Keys!Accept, Keys!Enter, CounterStands, Recorded, OneUpdate,
                  OneRowPerKey, SignedWereBegun, OnlyCounted
    <2>5. VerifiedByOne'
      BY <1>3 DEF Keys!Present, Keys!Accept, Keys!Enter, VerifiedByOne, Keys!Using,
                  SignedWereBegun
    <2>6. VerifiedOnce'
      BY <1>3 DEF Keys!Present, Keys!Accept, Keys!Enter, VerifiedOnce, VerifiedByOne,
                  Keys!Using, CounterStands, Recorded, SignedWereBegun
    <2> QED BY <2>1, <2>2, <2>3, <2>4, <2>5, <2>6
  <1>4. ASSUME NEW r \in Requests, NEW p \in Passkeys, Keys!CreateRow(r, p)
        PROVE  KeysInductive'
    <2>1. Keys!AnswersLogInOnce' /\ OnlyCounted'
      BY <1>4 DEF Keys!CreateRow, Keys!Finish, Keys!Enter, Keys!Fresh,
                  Keys!AnswersLogInOnce, OnlyCounted, VerifiedOnce, SignedWereBegun,
                  CounterStands, Recorded
    <2>2. SignedWereBegun' /\ OneRowPerKey'
      BY <1>4 DEF Keys!CreateRow, Keys!Finish, Keys!Enter, Keys!Fresh, SignedWereBegun,
                  OneRowPerKey
    <2>3. OneUpdate'
      BY <1>4 DEF Keys!CreateRow, Keys!Finish, Keys!Enter, Keys!Fresh, OneUpdate,
                  OneRowPerKey, SignedWereBegun
    <2>4. CounterStands'
      BY <1>4 DEF Keys!CreateRow, Keys!Finish, Keys!Enter, Keys!Fresh, CounterStands,
                  Recorded, OneUpdate, OneRowPerKey, SignedWereBegun, OnlyCounted
    <2>5. VerifiedByOne'
      BY <1>4 DEF Keys!CreateRow, Keys!Finish, Keys!Enter, Keys!Fresh, VerifiedByOne,
                  Keys!Using, SignedWereBegun
    <2>6. VerifiedOnce'
      BY <1>4 DEF Keys!CreateRow, Keys!Finish, Keys!Enter, Keys!Fresh, VerifiedOnce,
                  VerifiedByOne, Keys!Using, CounterStands, Recorded, SignedWereBegun
    <2> QED BY <2>1, <2>2, <2>3, <2>4, <2>5, <2>6
  <1>5. ASSUME NEW r \in Requests, Keys!Verify(r)
        PROVE  KeysInductive'
    <2>1. Keys!AnswersLogInOnce' /\ OnlyCounted'
      BY <1>5 DEF Keys!Verify, Keys!Accept, Keys!Enter, Keys!AnswersLogInOnce, OnlyCounted,
                  VerifiedOnce, SignedWereBegun, CounterStands, Recorded
    <2>2. SignedWereBegun' /\ OneRowPerKey'
      BY <1>5 DEF Keys!Verify, Keys!Accept, Keys!Enter, SignedWereBegun, OneRowPerKey
    <2>3. OneUpdate'
      BY <1>5 DEF Keys!Verify, Keys!Accept, Keys!Enter, OneUpdate, OneRowPerKey,
                  SignedWereBegun
    <2>4. CounterStands'
      BY <1>5 DEF Keys!Verify, Keys!Accept, Keys!Enter, CounterStands, Recorded, OneUpdate,
                  OneRowPerKey, SignedWereBegun, OnlyCounted
    <2>5. VerifiedByOne'
      BY <1>5 DEF Keys!Verify, Keys!Accept, Keys!Enter, VerifiedByOne, Keys!Using,
                  SignedWereBegun
    <2>6. VerifiedOnce'
      <3>1. /\ UNCHANGED <<rows, keyOf, counter, kind, signer, signature, accepted, retried, crossed>>
            /\ pc[r] = "verify" /\ answer' = [answer EXCEPT ![r] = answer[r]]
            /\ \A q \in Requests : q # r => pc'[q] = pc[q]
        BY <1>5 DEF Keys!Verify, Keys!Accept, Keys!Enter
      <3>2. ASSUME Keys!Counted(answer[r]), signer[answer[r]] \notin crossed
            PROVE  answer[r] \notin accepted
        <4>1. PICK p \in rows : /\ keyOf[p] = signer[answer[r]]
                                /\ signature[answer[r]] > counter[p]
          BY <1>5, <3>2 DEF Keys!Verify, Keys!Accepted, Keys!RowsOf
        <4>2. answer[r] \in Challenges
          BY <3>1
        <4>3. counter[p] \in Nat /\ signature[answer[r]] \in Nat
          BY <4>2
        <4> QED BY <3>2, <4>1, <4>2, <4>3 DEF CounterStands, Recorded
      <3> QED BY <3>1, <3>2 DEF VerifiedOnce
    <2> QED BY <2>1, <2>2, <2>3, <2>4, <2>5, <2>6
  <1>6. ASSUME NEW r \in Requests, NEW p \in Passkeys, Keys!FindRow(r, p)
        PROVE  KeysInductive'
    <2>1. Keys!AnswersLogInOnce' /\ OnlyCounted'
      BY <1>6 DEF Keys!FindRow, Keys!RowsOf, Keys!AnswersLogInOnce, OnlyCounted,
                  VerifiedOnce, SignedWereBegun, CounterStands, Recorded
    <2>2. SignedWereBegun' /\ OneRowPerKey'
      BY <1>6 DEF Keys!FindRow, Keys!RowsOf, SignedWereBegun, OneRowPerKey
    <2>3. OneUpdate'
      BY <1>6 DEF Keys!FindRow, Keys!RowsOf, OneUpdate, OneRowPerKey, SignedWereBegun
    <2>4. CounterStands'
      BY <1>6 DEF Keys!FindRow, Keys!RowsOf, CounterStands, Recorded, OneUpdate,
                  OneRowPerKey, SignedWereBegun, OnlyCounted
    <2>5. VerifiedByOne'
      BY <1>6 DEF Keys!FindRow, Keys!RowsOf, VerifiedByOne, Keys!Using, SignedWereBegun
    <2>6. VerifiedOnce'
      BY <1>6 DEF Keys!FindRow, Keys!RowsOf, VerifiedOnce, VerifiedByOne, Keys!Using,
                  CounterStands, Recorded, SignedWereBegun
    <2> QED BY <2>1, <2>2, <2>3, <2>4, <2>5, <2>6
  <1>7. ASSUME NEW r \in Requests, Keys!UpdateRow(r)
        PROVE  KeysInductive'
    <2>1. Keys!AnswersLogInOnce' /\ OnlyCounted'
      BY <1>7 DEF Keys!UpdateRow, Keys!Enter, Keys!AnswersLogInOnce, OnlyCounted,
                  VerifiedOnce, SignedWereBegun, CounterStands, Recorded
    <2>2. SignedWereBegun' /\ OneRowPerKey'
      BY <1>7 DEF Keys!UpdateRow, Keys!Enter, SignedWereBegun, OneRowPerKey
    <2>3. OneUpdate'
      BY <1>7 DEF Keys!UpdateRow, Keys!Enter, OneUpdate, OneRowPerKey, SignedWereBegun
    <2>4. CounterStands'
      <3>1. /\ pc[r] = "update" /\ picked[r] \in rows
            /\ answer[r] \in Challenges /\ signer[answer[r]] \in Challenges
            /\ picked[r] \in Passkeys /\ keyOf[picked[r]] = signer[answer[r]]
        BY <1>7 DEF Keys!UpdateRow, OneUpdate
      <3>2. /\ UNCHANGED <<rows, keyOf, kind, signer, signature, accepted, crossed>>
            /\ pc' = [pc EXCEPT ![r] = "stamp"]
            /\ answer' = [answer EXCEPT ![r] = answer[r]]
        BY <1>7 DEF Keys!UpdateRow, Keys!Enter
      <3>3. /\ \A p \in Passkeys : p # picked[r] => counter'[p] = counter[p]
            /\ counter'[picked[r]] >= signature[answer[r]]
            /\ counter'[picked[r]] >= read[r]
        <4>1. signature[answer[r]] \in Nat /\ read[r] \in Nat
          BY <3>1
        <4>2. counter' = [counter EXCEPT ![picked[r]] =
                  IF signature[answer[r]] > read[r] THEN signature[answer[r]] ELSE read[r]]
          BY <1>7 DEF Keys!UpdateRow
        <4>3. counter'[picked[r]] =
                  IF signature[answer[r]] > read[r] THEN signature[answer[r]] ELSE read[r]
          BY <3>1, <4>2
        <4> QED BY <4>1, <4>2, <4>3
      <3>4. SUFFICES ASSUME NEW c \in Challenges, Recorded(c)'
                     PROVE  /\ signer[c] # None
                            /\ \E p \in Passkeys : keyOf[p] = signer[c]
                            /\ signer[c] \notin crossed =>
                                  \A p \in rows : keyOf[p] = signer[c] => counter'[p] >= signature[c]
        BY <3>2 DEF CounterStands
      <3>5. Recorded(c) \/ c = answer[r]
        BY <3>2, <3>4 DEF Recorded
      <3>6. signer[c] # None /\ \E p \in Passkeys : keyOf[p] = signer[c]
        BY <3>1, <3>5 DEF CounterStands
      <3>7. ASSUME signer[c] \notin crossed, NEW p \in rows, keyOf[p] = signer[c]
            PROVE  counter'[p] >= signature[c]
        <4>1. CASE p # picked[r]
          <5>1. c # answer[r]
            BY <3>1, <3>6, <3>7, <4>1 DEF OneRowPerKey
          <5> QED BY <3>3, <3>5, <3>7, <4>1, <5>1 DEF CounterStands
        <4>2. CASE p = picked[r] /\ c = answer[r]
          BY <3>3, <4>2
        <4>3. CASE p = picked[r] /\ c # answer[r]
          <5>1. counter[p] = read[r]
            BY <3>1, <3>7, <4>3 DEF OneUpdate
          <5>2. counter[p] >= signature[c]
            BY <3>5, <3>7, <4>3 DEF CounterStands
          <5>3. counter[p] \in Nat /\ counter'[p] \in Nat /\ signature[c] \in Nat
            BY <3>1, <4>3
          <5> QED BY <3>3, <4>3, <5>1, <5>2, <5>3
        <4> QED BY <4>1, <4>2, <4>3
      <3> QED BY <3>6, <3>7
    <2>5. VerifiedByOne'
      BY <1>7 DEF Keys!UpdateRow, Keys!Enter, VerifiedByOne, Keys!Using, SignedWereBegun
    <2>6. VerifiedOnce'
      BY <1>7 DEF Keys!UpdateRow, Keys!Enter, VerifiedOnce, VerifiedByOne, Keys!Using,
                  CounterStands, Recorded, SignedWereBegun
    <2> QED BY <2>1, <2>2, <2>3, <2>4, <2>5, <2>6
  <1>8. ASSUME NEW r \in Requests, Keys!Stamp(r)
        PROVE  KeysInductive'
    <2>1. Keys!AnswersLogInOnce' /\ OnlyCounted'
      BY <1>8 DEF Keys!Stamp, Keys!Finish, Keys!Enter, Keys!AnswersLogInOnce, OnlyCounted,
                  VerifiedOnce, SignedWereBegun, CounterStands, Recorded
    <2>2. SignedWereBegun' /\ OneRowPerKey'
      BY <1>8 DEF Keys!Stamp, Keys!Finish, Keys!Enter, SignedWereBegun, OneRowPerKey
    <2>3. OneUpdate'
      BY <1>8 DEF Keys!Stamp, Keys!Finish, Keys!Enter, OneUpdate, OneRowPerKey,
                  SignedWereBegun
    <2>4. CounterStands'
      BY <1>8 DEF Keys!Stamp, Keys!Finish, Keys!Enter, CounterStands, Recorded, OneUpdate,
                  OneRowPerKey, SignedWereBegun, OnlyCounted
    <2>5. VerifiedByOne'
      BY <1>8 DEF Keys!Stamp, Keys!Finish, Keys!Enter, VerifiedByOne, Keys!Using,
                  SignedWereBegun
    <2>6. VerifiedOnce'
      BY <1>8 DEF Keys!Stamp, Keys!Finish, Keys!Enter, VerifiedOnce, VerifiedByOne,
                  Keys!Using, CounterStands, Recorded, SignedWereBegun
    <2> QED BY <2>1, <2>2, <2>3, <2>4, <2>5, <2>6
  <1>9. ASSUME NEW r \in Requests, Keys!Abort(r)
        PROVE  KeysInductive'
    <2>1. Keys!AnswersLogInOnce' /\ OnlyCounted'
      BY <1>9 DEF Keys!Abort, Keys!Finish, Keys!Enter, Keys!AnswersLogInOnce, OnlyCounted,
                  VerifiedOnce, SignedWereBegun, CounterStands, Recorded
    <2>2. SignedWereBegun' /\ OneRowPerKey'
      BY <1>9 DEF Keys!Abort, Keys!Finish, Keys!Enter, SignedWereBegun, OneRowPerKey
    <2>3. OneUpdate'
      BY <1>9 DEF Keys!Abort, Keys!Finish, Keys!Enter, OneUpdate, OneRowPerKey,
                  SignedWereBegun
    <2>4. CounterStands'
      BY <1>9 DEF Keys!Abort, Keys!Finish, Keys!Enter, CounterStands, Recorded, OneUpdate,
                  OneRowPerKey, SignedWereBegun, OnlyCounted
    <2>5. VerifiedByOne'
      BY <1>9 DEF Keys!Abort, Keys!Finish, Keys!Enter, VerifiedByOne, Keys!Using,
                  SignedWereBegun
    <2>6. VerifiedOnce'
      BY <1>9 DEF Keys!Abort, Keys!Finish, Keys!Enter, VerifiedOnce, VerifiedByOne,
                  Keys!Using, CounterStands, Recorded, SignedWereBegun
    <2> QED BY <2>1, <2>2, <2>3, <2>4, <2>5, <2>6
  <1>10. ASSUME NEW p \in Passkeys, Keys!DeleteCredential(p)
        PROVE  KeysInductive'
    <2>1. Keys!AnswersLogInOnce' /\ OnlyCounted'
      BY <1>10 DEF Keys!DeleteCredential, Keys!AnswersLogInOnce, OnlyCounted, VerifiedOnce,
                   SignedWereBegun, CounterStands, Recorded
    <2>2. SignedWereBegun' /\ OneRowPerKey'
      BY <1>10 DEF Keys!DeleteCredential, SignedWereBegun, OneRowPerKey
    <2>3. OneUpdate'
      BY <1>10 DEF Keys!DeleteCredential, OneUpdate, OneRowPerKey, SignedWereBegun
    <2>4. CounterStands'
      BY <1>10 DEF Keys!DeleteCredential, CounterStands, Recorded, OneUpdate, OneRowPerKey,
                   SignedWereBegun, OnlyCounted
    <2>5. VerifiedByOne'
      BY <1>10 DEF Keys!DeleteCredential, VerifiedByOne, Keys!Using, SignedWereBegun
    <2>6. VerifiedOnce'
      BY <1>10 DEF Keys!DeleteCredential, VerifiedOnce, VerifiedByOne, Keys!Using,
                   CounterStands, Recorded, SignedWereBegun
    <2> QED BY <2>1, <2>2, <2>3, <2>4, <2>5, <2>6
  <1>11. CASE UNCHANGED Keys!vars
    BY <1>11 DEF Keys!vars, Keys!AnswersLogInOnce, SignedWereBegun, OneRowPerKey, OneUpdate,
                 CounterStands, Recorded, VerifiedByOne, VerifiedOnce, OnlyCounted, Keys!Using
  <1> QED
    BY <1>1, <1>2, <1>3, <1>4, <1>5, <1>6, <1>7, <1>8, <1>9, <1>10, <1>11
       DEF Keys!Next, Keys!Authenticate

-----------------------------------------------------------------------------
(* The protocols together.  The token limit needs the types of the state   *)
(* after a step as well, so it is carried beside what Reset needs anyway.  *)
Inductive ==
    /\ protocol = "recovery" => RecoveryInductive
    /\ protocol = "reset" => ResetInductive /\ Bound
    /\ protocol = "magic" => MagicInductive
    /\ protocol = "otp" => OtpInductive
    /\ protocol = "keys" => KeysInductive

LEMMA InitInductive == Init => Inductive
  BY RecoveryInit, ResetInit, InitBound, MagicInit, OtpInit, KeysInit DEF Init, Inductive

(* A step of one protocol is a step of its component, and leaves the       *)
(* others, none of which the behaviour is about, alone.                    *)
LEMMA StepInductive == Inductive /\ [Next]_vars => Inductive'
  <1> SUFFICES ASSUME Inductive, [Next]_vars PROVE Inductive'
    OBVIOUS
  <1>1. CASE RecoveryStep
    <2>1. protocol = "recovery" /\ protocol' = "recovery" /\ Recovery!Next
      BY <1>1 DEF RecoveryStep
    <2>2. RecoveryInductive'
      BY <2>1, RecoveryKept DEF Inductive
    <2> QED BY <2>1, <2>2 DEF Inductive
  <1>2. CASE ResetStep
    <2>1. protocol = "reset" /\ protocol' = "reset" /\ Reset!Next
      BY <1>2 DEF ResetStep
    <2>2. ResetInductive'
      BY <2>1, ResetKept DEF Inductive
    <2>3. Bound'
      BY <2>1, <2>2, StepKeepsBound DEF Inductive, ResetInductive
    <2> QED BY <2>1, <2>2, <2>3 DEF Inductive
  <1>3. CASE MagicStep
    <2>1. protocol = "magic" /\ protocol' = "magic" /\ Magic!Next
      BY <1>3 DEF MagicStep
    <2>2. MagicInductive'
      BY <2>1, MagicKept DEF Inductive
    <2> QED BY <2>1, <2>2 DEF Inductive
  <1>4. CASE OtpStep
    <2>1. protocol = "otp" /\ protocol' = "otp" /\ Otp!Next
      BY <1>4 DEF OtpStep
    <2>2. OtpInductive'
      BY <2>1, OtpKept DEF Inductive
    <2> QED BY <2>1, <2>2 DEF Inductive
  <1>5. CASE KeysStep
    <2>1. protocol = "keys" /\ protocol' = "keys" /\ Keys!Next
      BY <1>5 DEF KeysStep
    <2>2. KeysInductive'
      BY <2>1, KeysKept DEF Inductive
    <2> QED BY <2>1, <2>2 DEF Inductive
  <1>6. CASE UNCHANGED vars
    <2>1. /\ protocol' = protocol
          /\ UNCHANGED Recovery!vars /\ UNCHANGED Reset!vars
          /\ UNCHANGED Magic!vars /\ UNCHANGED Otp!vars /\ UNCHANGED Keys!vars
      BY <1>6 DEF vars, recoveryRows, resetRows, linkRows, otpRows, keyRows,
                  Recovery!vars, Recovery!history, Reset!vars, Reset!tokens, Reset!accounts,
                  Reset!locals, Reset!history, Magic!vars, Magic!links, Magic!locals,
                  Magic!history, Otp!vars, Otp!history, Keys!vars, Keys!credentials,
                  Keys!challenges, Keys!authenticators, Keys!locals, Keys!history
    <2>2. protocol = "recovery" => RecoveryInductive'
      BY <2>1, RecoveryKept DEF Inductive
    <2>3. protocol = "reset" => ResetInductive'
      BY <2>1, ResetKept DEF Inductive
    <2>4. protocol = "reset" => Bound'
      BY <2>1, <2>3, StepKeepsBound DEF Inductive, ResetInductive
    <2>5. protocol = "magic" => MagicInductive'
      BY <2>1, MagicKept DEF Inductive
    <2>6. protocol = "otp" => OtpInductive'
      BY <2>1, OtpKept DEF Inductive
    <2>7. protocol = "keys" => KeysInductive'
      BY <2>1, KeysKept DEF Inductive
    <2> QED BY <2>1, <2>2, <2>3, <2>4, <2>5, <2>6, <2>7 DEF Inductive
  <1> QED
    BY <1>1, <1>2, <1>3, <1>4, <1>5, <1>6 DEF Next

LEMMA AlwaysInductive == Spec => []Inductive
  BY InitInductive, StepInductive, PTL DEF Spec

-----------------------------------------------------------------------------
(* Every variable of the protocol keeps its type; in particular a request  *)
(* deletes only rows it has found among those it read, and stored tokens,  *)
(* links and passwords belong to accounts that exist.                      *)
THEOREM TypeCorrect == Spec => []TypeOK
  <1>1. Inductive => TypeOK
    BY DEF Inductive, TypeOK, RecoveryInductive, ResetInductive, MagicInductive, OtpInductive,
           KeysInductive
  <1> QED BY <1>1, AlwaysInductive, PTL

(* However many generations overlap, fail or crash half way, the batch     *)
(* stored last by generate_recovery_code is there, but for codes burnt or  *)
(* deleted one by one.                                                     *)
THEOREM NewestBatchSurvives == Spec => []NewestBatchIntact
  <1>1. Inductive => NewestBatchIntact
    BY DEF Inductive, NewestBatchIntact, RecoveryInductive
  <1> QED BY <1>1, AlwaysInductive, PTL

(* A code that has opened a login is not among the stored codes, which are *)
(* all that burn_recovery_code compares a presented code with.             *)
THEOREM UsedCodesStayGone == Spec => []UsedCodesAreGone
  <1>1. Inductive => UsedCodesAreGone
    BY DEF Inductive, UsedCodesAreGone, RecoveryInductive
  <1> QED BY <1>1, AlwaysInductive, PTL

(* However resets and changes of one account cross, no crossing alone      *)
(* leaves it without a password: only a request that is cut off between    *)
(* its DELETE and its INSERT, or an administrator, does.                   *)
THEOREM PasswordsAreKept == Spec => []LostOnlyByCrash
  <1>1. Inductive => LostOnlyByCrash
    BY DEF Inductive, LostOnlyByCrash, ResetInductive
  <1> QED BY <1>1, AlwaysInductive, PTL

(* request_password_reset counts and inserts in two statements: a user has *)
(* fewer unexpired tokens than the limit and the overlapping requests      *)
(* together, for any limit and any number of requests.                     *)
THEOREM LimitIsNearlyKept == Spec => []OvershootIsBounded
  <1>1. Bound => Reset!OvershootIsBounded
    BY BoundSuffices
  <1>2. Inductive => OvershootIsBounded
    BY <1>1 DEF Inductive, OvershootIsBounded
  <1> QED BY <1>2, AlwaysInductive, PTL

(* verify_magic_link deletes the link after it has stamped the login, and  *)
(* ignores a failure: a link opens a second login only if it was accepted  *)
(* twice at a time, or its deletion failed or was cut off.                 *)
THEOREM LinksAreNearlySingleUse == Spec => []LinksLogInOnce
  <1>1. Inductive => LinksLogInOnce
    BY DEF Inductive, LinksLogInOnce, MagicInductive
  <1> QED BY <1>1, AlwaysInductive, PTL

(* verify_otp deletes before it inserts: an enrolled user has no OTP only  *)
(* while a request is about to insert one, after a crash or a deletion by  *)
(* an administrator, or once overlapping enrolments have left two.         *)
THEOREM SecondFactorsAreKept == Spec => []OtpIsKept
  <1>1. Inductive => OtpIsKept
    BY DEF Inductive, OtpIsKept, OtpInductive
  <1> QED BY <1>1, AlwaysInductive, PTL

(* The challenge of a discoverable authentication is not consumed; the     *)
(* signature counter alone keeps an answer from logging in twice, as long  *)
(* as its presentations do not overlap, and the key is stored once and     *)
(* updated by one request at a time.                                       *)
THEOREM CountersTellRepetitions == Spec => []AnswersLogInOnce
  <1>1. Inductive => AnswersLogInOnce
    BY DEF Inductive, AnswersLogInOnce, KeysInductive
  <1> QED BY <1>1, AlwaysInductive, PTL
=============================================================================
