-------------------------- MODULE UserAccountsProofs --------------------------
(***************************************************************************)
(* Proofs about UserAccounts, for any accounts, addresses, links, subjects *)
(* and requests.                                                           *)
(***************************************************************************)
EXTENDS UserAccounts, TLAPS

(* The steps of a registration, and who is still at one.                   *)
MakingSteps == {"password", "require", "address", "token", "deliver", "rollback"}

(* What a request relies on: the account it holds was once inserted; a     *)
(* registration has done for it what the steps it has passed do; a         *)
(* verification that takes the requirement away has set the flag, and an   *)
(* edit that does so is an administrator's ...                             *)
ProgressOK(r) ==
    /\ pc[r] \notin {"idle", "find", "create"} => account[who[r]] # "unborn"
    /\ task[r] \in Registering =>
          /\ pc[r] \in MakingSteps
          /\ who[r] \in Live => origin[who[r]] \in {"registered", "refused"}
          /\ who[r] \in Live \ excused =>
                /\ task[r] = "open" => pc[r] = "password" /\ who[r] \in verified
                /\ pc[r] # "password" => who[r] \in password
                /\ pc[r] \notin {"password", "require"} => who[r] \in verified \union mustVerify
    /\ pc[r] = "unrequire" /\ who[r] \in Live => who[r] \in verified \union excused
    /\ pc[r] \in {"clear", "add"} /\ who[r] \in Live => who[r] \in excused

(* ... and while no address is changed, the one that it has read, the one  *)
(* its link was sent to and the one of the account are the same; so is the *)
(* rest of a row that will be written back, while nothing is decided.      *)
CopyOK(r) ==
    /\ who[r] \in Live \ moved =>
          /\ pc[r] = "token" => copy[r] = mail[who[r]]
          /\ pc[r] = "read" => sentTo[tok[r]] = mail[who[r]]
          /\ pc[r] = "write" => copy[r].mail = mail[who[r]] /\ sentTo[tok[r]] = mail[who[r]]
    /\ pc[r] = "write" /\ who[r] \in Live =>
          settled[who[r]] = None \/ copy[r] = settled[who[r]]

RequestOK(r) == HeldTypeOK(r) /\ ProgressOK(r) /\ CopyOK(r)

TokensOK ==
    \A t \in Tokens :
       addressee[t] \in Live \ moved /\ t \notin spent => sentTo[t] = mail[addressee[t]]

(* An account is being made, or is as its making leaves it.                *)
Registered(u) == origin[u] = "registered" => u \in password /\ u \in verified \union mustVerify
Linked(u) == origin[u] \in Subjects => link[origin[u]] # None \/ \E s \in Subjects : link[s] = u
Done(u) == origin[u] # "refused" /\ Registered(u) /\ Linked(u)

MadeOK(u) ==
    u \in Live \ excused =>
       origin[u] # "refused" /\ ((\E r \in Requests : Making(r, u)) \/ Done(u))

AccountsInv ==
    /\ ColumnsTypeOK
    /\ LocalsTypeOK
    /\ HistoryTypeOK
    /\ \A r \in Requests : RequestOK(r)
    /\ TokensOK
    /\ EditsStand
    /\ VerifiedForCause
    /\ \A u \in Users : MadeOK(u)

-----------------------------------------------------------------------------
(* Where a step leaves the request that takes it ...                       *)
Unmoved(q) ==
    /\ pc'[q] = pc[q] /\ task'[q] = task[q] /\ who'[q] = who[q]
    /\ tok'[q] = tok[q] /\ copy'[q] = copy[q] /\ subj'[q] = subj[q]

Moves(r) == LocalsTypeOK' /\ \A q \in Requests \ {r} : Unmoved(q)

Places(r, step, t, u, k, c, s) ==
    /\ pc'[r] = step /\ task'[r] = t /\ who'[r] = u
    /\ tok'[r] = k /\ copy'[r] = c /\ subj'[r] = s

Held(u, k, c, s) ==
    /\ u \in Users \union {None} /\ k \in Tokens \union {None}
    /\ c \in Profile \union Mails \union {None} /\ s \in Subjects \union {None}

LEMMA Entered ==
    ASSUME LocalsTypeOK, NEW r \in Requests, NEW step \in Steps, NEW t \in Tasks \union {None},
           NEW u, NEW k, NEW c, NEW s, Held(u, k, c, s), Enter(r, step, t), Keep(r, u, k, c, s)
    PROVE  Moves(r) /\ Places(r, step, t, u, k, c, s)
  BY DEF LocalsTypeOK, Held, Enter, Keep, Moves, Unmoved, Places

LEMMA Went ==
    ASSUME LocalsTypeOK, NEW r \in Requests, NEW step \in Steps,
           NEW u, NEW k, NEW c, NEW s, Held(u, k, c, s), Goto(r, step), Keep(r, u, k, c, s)
    PROVE  Moves(r) /\ Places(r, step, task[r], u, k, c, s)
  BY DEF LocalsTypeOK, Held, Goto, Keep, Moves, Unmoved, Places

LEMMA Stepped ==
    ASSUME LocalsTypeOK, NEW r \in Requests, NEW step \in Steps, Goto(r, step),
           UNCHANGED <<who, tok, copy, subj>>
    PROVE  Moves(r) /\ Places(r, step, task[r], who[r], tok[r], copy[r], subj[r])
  BY DEF LocalsTypeOK, Goto, Moves, Unmoved, Places

LEMMA Finished ==
    ASSUME LocalsTypeOK, NEW r \in Requests, Finish(r)
    PROVE  Moves(r) /\ Places(r, "idle", None, None, None, None, None)
  BY Entered, "idle" \in Steps DEF Finish, Held, Steps

LEMMA Rested ==
    ASSUME LocalsTypeOK, NEW r \in Requests, UNCHANGED locals
    PROVE  Moves(r) /\ Unmoved(r)
  BY DEF LocalsTypeOK, locals, Moves, Unmoved

(* ... and what it leaves of the tables, which is all that other requests  *)
(* and the accounts they are making rely on.                               *)
Keeps ==
    /\ \A u \in Users :
          account[u] # "unborn" => account'[u] # "unborn" /\ (u \in Live' => u \in Live)
    /\ \A u \in Live \intersect Live' :
          /\ u \in excused => u \in excused'
          /\ u \in moved => u \in moved'
          /\ origin[u] \in {"registered", "refused"} => origin'[u] \in {"registered", "refused"}
          /\ u \notin excused' =>
                /\ origin'[u] = origin[u]
                /\ u \in password => u \in password'
                /\ u \in verified => u \in verified'
                /\ u \in verified \union mustVerify => u \in verified' \union mustVerify'
                /\ Linked(u) => Linked(u)'
    /\ \A t \in Tokens : sentTo[t] # None => sentTo'[t] = sentTo[t]

KeepsCopies ==
    \A q \in Requests :
       who[q] \in Live \intersect Live' =>
          /\ who[q] \notin moved' /\ pc[q] \in {"token", "read", "write"} =>
                mail'[who[q]] = mail[who[q]]
          /\ pc[q] = "write" => settled'[who[q]] \in {settled[who[q]], None}

LEMMA OthersStay ==
    ASSUME AccountsInv, Keeps, KeepsCopies, NEW q \in Requests, Unmoved(q)
    PROVE  RequestOK(q)'
  <1> USE NoneAssumption
  <1>1. HeldTypeOK(q) /\ ProgressOK(q) /\ CopyOK(q) /\ LocalsTypeOK /\ ColumnsTypeOK
    BY DEF AccountsInv, RequestOK
  <1>2. HeldTypeOK(q)'
    BY <1>1 DEF HeldTypeOK, Unmoved
  <1>3. who[q] \in Live' => who[q] \in Users
    BY DEF Live
  <1>4. ASSUME who[q] \in Live', pc[q] \notin {"idle", "find", "create"} PROVE who[q] \in Live
    BY <1>1, <1>3, <1>4 DEF ProgressOK, Keeps
  <1>5. task[q] \in Registering => pc[q] \notin {"idle", "find", "create"}
    BY <1>1 DEF ProgressOK, MakingSteps
  <1>6. ProgressOK(q)'
    <2>1. pc[q] \notin {"idle", "find", "create"} => account'[who[q]] # "unborn"
      BY <1>1 DEF ProgressOK, HeldTypeOK, Keeps
    <2>2. ASSUME task[q] \in Registering, who[q] \in Live'
          PROVE  /\ origin'[who[q]] \in {"registered", "refused"}
                 /\ who[q] \notin excused' =>
                       /\ task[q] = "open" => pc[q] = "password" /\ who[q] \in verified'
                       /\ pc[q] # "password" => who[q] \in password'
                       /\ pc[q] \notin {"password", "require"} => who[q] \in verified' \union mustVerify'
      <3>1. who[q] \in Live \intersect Live'
        BY <1>4, <1>5, <2>2
      <3>2. origin'[who[q]] \in {"registered", "refused"}
        BY <1>1, <2>2, <3>1 DEF ProgressOK, Keeps
      <3>3. ASSUME who[q] \notin excused'
            PROVE  /\ task[q] = "open" => pc[q] = "password" /\ who[q] \in verified'
                   /\ pc[q] # "password" => who[q] \in password'
                   /\ pc[q] \notin {"password", "require"} => who[q] \in verified' \union mustVerify'
        <4>1. who[q] \in Live \ excused
          BY <3>1, <3>3 DEF Keeps
        <4>2. /\ task[q] = "open" => pc[q] = "password" /\ who[q] \in verified
              /\ pc[q] # "password" => who[q] \in password
              /\ pc[q] \notin {"password", "require"} => who[q] \in verified \union mustVerify
          BY <1>1, <2>2, <4>1 DEF ProgressOK
        <4> QED
          BY <3>1, <3>3, <4>2 DEF Keeps
      <3> QED
        BY <3>2, <3>3
    <2>3. pc[q] = "unrequire" /\ who[q] \in Live' => who[q] \in verified' \union excused'
      BY <1>1, <1>4 DEF ProgressOK, Keeps
    <2>4. pc[q] \in {"clear", "add"} /\ who[q] \in Live' => who[q] \in excused'
      BY <1>1, <1>4 DEF ProgressOK, Keeps
    <2>5. task[q] \in Registering => pc[q] \in MakingSteps
      BY <1>1 DEF ProgressOK
    <2> QED
      BY <2>1, <2>2, <2>3, <2>4, <2>5 DEF ProgressOK, Unmoved
  <1>7. CopyOK(q)'
    <2>1. ASSUME who[q] \in Live' \ moved', pc[q] \in {"token", "read", "write"}
          PROVE  /\ who[q] \in Live \ moved /\ mail'[who[q]] = mail[who[q]]
                 /\ mail[who[q]] # None
      BY <1>1, <1>4, <2>1 DEF Keeps, KeepsCopies, ColumnsTypeOK
    <2>2. ASSUME who[q] \in Live' \ moved', pc[q] \in {"read", "write"}
          PROVE  sentTo'[tok[q]] = mail'[who[q]]
      <3>1. sentTo[tok[q]] = mail[who[q]] /\ tok[q] \in Tokens
        BY <1>1, <2>1, <2>2 DEF CopyOK, HeldTypeOK
      <3> QED
        BY <2>1, <2>2, <3>1 DEF Keeps
    <2>3. ASSUME who[q] \in Live' \ moved'
          PROVE  /\ pc[q] = "token" => copy[q] = mail'[who[q]]
                 /\ pc[q] = "write" => copy[q].mail = mail'[who[q]]
      BY <1>1, <2>1, <2>3 DEF CopyOK
    <2>4. ASSUME pc[q] = "write", who[q] \in Live'
          PROVE  settled'[who[q]] = None \/ copy[q] = settled'[who[q]]
      BY <1>1, <1>4, <2>4 DEF CopyOK, KeepsCopies
    <2> QED
      BY <2>2, <2>3, <2>4 DEF CopyOK, Unmoved
  <1> QED
    BY <1>2, <1>6, <1>7 DEF RequestOK

(* So a step need only be looked at for the tables, for the request that   *)
(* takes it, and for the accounts that request is making.                  *)
Passes(r) ==
    \A u \in Live \intersect Live' :
       u \notin excused' /\ Making(r, u) => Making(r, u)' \/ Done(u)'

NewAreMade(r) ==
    \A u \in Live' \ Live : origin'[u] # "refused" /\ (Making(r, u)' \/ Done(u)')

TablesOK ==
    /\ ColumnsTypeOK
    /\ HistoryTypeOK
    /\ TokensOK
    /\ EditsStand
    /\ VerifiedForCause

LEMMA Combine ==
    ASSUME AccountsInv, NEW r \in Requests, Moves(r), Keeps, KeepsCopies, TablesOK',
           RequestOK(r)', Passes(r), NewAreMade(r)
    PROVE  AccountsInv'
  <1>1. \A q \in Requests : RequestOK(q)'
    BY OthersStay DEF Moves
  <1>2. ASSUME NEW u \in Users PROVE MadeOK(u)'
    <2> SUFFICES ASSUME u \in Live', u \notin excused'
                 PROVE  origin'[u] # "refused" /\ ((\E q \in Requests : Making(q, u)') \/ Done(u)')
      BY DEF MadeOK
    <2>1. CASE u \notin Live
      BY <2>1 DEF NewAreMade
    <2>2. CASE u \in Live
      <3>1. u \notin excused /\ origin'[u] = origin[u]
        BY <2>2 DEF Keeps
      <3>2. origin[u] # "refused" /\ ((\E q \in Requests : Making(q, u)) \/ Done(u))
        BY <2>2, <3>1 DEF AccountsInv, MadeOK
      <3>3. CASE Done(u)
        <4>1. Registered(u)'
          BY <2>2, <3>1, <3>3 DEF Done, Registered, Keeps
        <4>2. Linked(u)'
          BY <2>2, <3>3 DEF Done, Keeps
        <4> QED
          BY <3>1, <3>2, <4>1, <4>2 DEF Done
      <3>4. CASE Making(r, u)
        BY <2>2, <3>1, <3>2, <3>4 DEF Passes
      <3>5. ASSUME NEW q \in Requests \ {r}, Making(q, u) PROVE Making(q, u)'
        BY <3>1, <3>5 DEF Moves, Unmoved, Making
      <3> QED
        BY <3>1, <3>2, <3>3, <3>4, <3>5
    <2> QED
      BY <2>1, <2>2
  <1> QED
    BY <1>1, <1>2 DEF AccountsInv, TablesOK, Moves

LEMMA CombineStill ==
    ASSUME AccountsInv, UNCHANGED locals, Keeps, KeepsCopies, TablesOK',
           \A u \in Live' \ Live : Done(u)'
    PROVE  AccountsInv'
  <1>1. LocalsTypeOK' /\ \A q \in Requests : Unmoved(q)
    BY DEF AccountsInv, LocalsTypeOK, locals, Unmoved
  <1>2. \A q \in Requests : RequestOK(q)'
    BY <1>1, OthersStay
  <1>3. ASSUME NEW u \in Users PROVE MadeOK(u)'
    <2> SUFFICES ASSUME u \in Live', u \notin excused'
                 PROVE  origin'[u] # "refused" /\ ((\E q \in Requests : Making(q, u)') \/ Done(u)')
      BY DEF MadeOK
    <2>1. CASE u \notin Live
      BY <2>1 DEF Done
    <2>2. CASE u \in Live
      <3>1. u \notin excused /\ origin'[u] = origin[u]
        BY <2>2 DEF Keeps
      <3>2. origin[u] # "refused" /\ ((\E q \in Requests : Making(q, u)) \/ Done(u))
        BY <2>2, <3>1 DEF AccountsInv, MadeOK
      <3>3. CASE Done(u)
        <4>1. Registered(u)'
          BY <2>2, <3>1, <3>3 DEF Done, Registered, Keeps
        <4>2. Linked(u)'
          BY <2>2, <3>3 DEF Done, Keeps
        <4> QED
          BY <3>1, <3>2, <4>1, <4>2 DEF Done
      <3>4. ASSUME NEW q \in Requests, Making(q, u) PROVE Making(q, u)'
        BY <1>1, <3>1, <3>4 DEF Unmoved, Making
      <3> QED
        BY <3>1, <3>2, <3>3, <3>4
    <2> QED
      BY <2>1, <2>2
  <1> QED
    BY <1>1, <1>2, <1>3 DEF AccountsInv, TablesOK

-----------------------------------------------------------------------------
(* What the steps do to the tables: nothing ...                            *)
LEMMA Untouched ==
    ASSUME AccountsInv, UNCHANGED <<users, rows, tokens, history>>
    PROVE  /\ Keeps /\ KeepsCopies /\ TablesOK' /\ Live' = Live
           /\ \A r \in Requests : NewAreMade(r)
  <1> USE DEF users, rows, tokens, history
  <1>1. Live' = Live
    BY DEF Live
  <1>2. ColumnsTypeOK'
    BY <1>1 DEF AccountsInv, ColumnsTypeOK
  <1>3. HistoryTypeOK'
    BY <1>1 DEF AccountsInv, HistoryTypeOK
  <1>4. TokensOK' /\ EditsStand' /\ VerifiedForCause'
    BY <1>1 DEF AccountsInv, TokensOK, EditsStand, VerifiedForCause
  <1>5. Keeps /\ KeepsCopies
    BY <1>1 DEF Keeps, KeepsCopies, Linked
  <1> QED
    BY <1>1, <1>2, <1>3, <1>4, <1>5 DEF TablesOK, NewAreMade

(* ... the insertion of an account ...                                     *)
LEMMA Inserted ==
    ASSUME AccountsInv, NEW u \in Users, NEW n \in Names, NEW m \in Mails, NEW v \in BOOLEAN,
           NEW o \in Subjects \union {"registered", None},
           Insert(u, n, m, v, o), UNCHANGED <<rows, tokens>>
    PROVE  /\ Keeps /\ KeepsCopies /\ TablesOK'
           /\ u \notin Live /\ Live' = Live \union {u}
           /\ account' = [account EXCEPT ![u] = "live"] /\ origin'[u] = o
           /\ u \notin excused' /\ (v => u \in verified')
  <1> USE NoneAssumption DEF rows, tokens
  <1>1. ColumnsTypeOK /\ HistoryTypeOK /\ TokensOK /\ EditsStand /\ VerifiedForCause
    BY DEF AccountsInv
  <1>2. /\ account[u] = "unborn" /\ account' = [account EXCEPT ![u] = "live"]
        /\ name' = [name EXCEPT ![u] = n] /\ mail' = [mail EXCEPT ![u] = m]
        /\ enabled' = enabled \union {u} /\ verified' = With(verified, u, v)
        /\ confirmed' = With(confirmed, u, v)
        /\ origin' = [origin EXCEPT ![u] = o]
        /\ settled' = [settled EXCEPT ![u] = [mail |-> m, on |-> TRUE]]
        /\ moved' = moved /\ excused' = excused
        /\ \A w \in Live : name[w] # n /\ mail[w] # m
    BY DEF Insert, Free
  <1>3. u \notin Live /\ Live' = Live \union {u} /\ \A w \in Live : w \in Users /\ w # u
    BY <1>1, <1>2 DEF Live, ColumnsTypeOK
  <1>4. /\ name'[u] = n /\ mail'[u] = m /\ origin'[u] = o
        /\ settled'[u] = [mail |-> m, on |-> TRUE]
        /\ \A w \in Live : name'[w] = name[w] /\ mail'[w] = mail[w]
                           /\ origin'[w] = origin[w] /\ settled'[w] = settled[w]
    BY <1>1, <1>2, <1>3 DEF ColumnsTypeOK, HistoryTypeOK
  <1>5. ColumnsTypeOK'
    <2>1. account' \in [Users -> {"unborn", "live", "deleted"}]
      BY <1>1, <1>2 DEF ColumnsTypeOK
    <2>2. name' \in [Users -> Names \union {None}] /\ mail' \in [Users -> Mails \union {None}]
      BY <1>1, <1>2 DEF ColumnsTypeOK
    <2>3. \A w \in Live' : name'[w] \in Names /\ mail'[w] \in Mails
      BY <1>1, <1>3, <1>4 DEF ColumnsTypeOK
    <2>4. \A w, x \in Live' : w # x => name'[w] # name'[x] /\ mail'[w] # mail'[x]
      BY <1>1, <1>2, <1>3, <1>4 DEF ColumnsTypeOK
    <2>5. enabled' \in SUBSET Live' /\ verified' \in SUBSET Live'
      BY <1>1, <1>2, <1>3 DEF ColumnsTypeOK, With
    <2>6. /\ password' \in SUBSET Live' /\ mustVerify' \in SUBSET Live'
          /\ addressee' \in [Tokens -> Live' \union {None}] /\ spent' \in SUBSET Tokens
          /\ link' \in [Subjects -> Live' \union {None}]
      BY <1>1, <1>3 DEF ColumnsTypeOK
    <2> QED
      BY <2>1, <2>2, <2>3, <2>4, <2>5, <2>6 DEF ColumnsTypeOK
  <1>6. HistoryTypeOK'
    <2>1. [mail |-> m, on |-> TRUE] \in Profile
      BY DEF Profile
    <2>2. settled' \in [Users -> Profile \union {None}]
      BY <1>1, <1>2, <2>1 DEF HistoryTypeOK
    <2>3. origin' \in [Users -> Subjects \union {"registered", "refused", None}]
      BY <1>1, <1>2 DEF HistoryTypeOK
    <2> QED
      BY <1>1, <1>2, <1>3, <2>2, <2>3 DEF HistoryTypeOK, With
  <1>7. TokensOK'
    <2>1. ASSUME NEW t \in Tokens, addressee[t] \in Live' \ moved', t \notin spent
          PROVE  addressee[t] \in Live \ moved
      BY <1>1, <1>2, <1>3, <2>1 DEF ColumnsTypeOK
    <2> QED
      BY <1>1, <1>4, <2>1 DEF TokensOK
  <1>8. EditsStand'
    <2>1. settled'[u] = [mail |-> mail'[u], on |-> u \in enabled']
      BY <1>2, <1>4
    <2>2. ASSUME NEW w \in Live, settled'[w] # None
          PROVE  settled'[w] = [mail |-> mail'[w], on |-> w \in enabled']
      <3>1. w \in enabled' <=> w \in enabled
        BY <1>2, <1>3
      <3>2. settled[w] = [mail |-> mail[w], on |-> w \in enabled]
        BY <1>1, <1>4, <2>2 DEF EditsStand
      <3> QED
        BY <1>4, <3>1, <3>2
    <2> QED
      BY <1>3, <2>1, <2>2 DEF EditsStand
  <1>9. VerifiedForCause'
    BY <1>1, <1>2 DEF VerifiedForCause, With
  <1>10. Keeps
    <2>1. \A w \in Users : account[w] # "unborn" => account'[w] # "unborn" /\ (w \in Live' => w \in Live)
      BY <1>1, <1>2, <1>3 DEF ColumnsTypeOK
    <2>2. ASSUME NEW w \in Live PROVE Linked(w) => Linked(w)'
      BY <1>4 DEF Linked
    <2>3. \A w \in Live : w \in verified => w \in verified'
      BY <1>2, <1>3 DEF With
    <2> QED
      BY <1>2, <1>4, <2>1, <2>2, <2>3 DEF Keeps
  <1>11. KeepsCopies
    BY <1>4 DEF KeepsCopies
  <1>12. u \notin excused'
    BY <1>1, <1>2, <1>3 DEF HistoryTypeOK
  <1>13. v => u \in verified'
    BY <1>2 DEF With
  <1> QED
    BY <1>2, <1>3, <1>4, <1>5, <1>6, <1>7, <1>8, <1>9, <1>10, <1>11, <1>12, <1>13 DEF TablesOK

(* ... or the deletion of one, with all that refers to it.                 *)
LEMMA Removed ==
    ASSUME AccountsInv, NEW u \in Live, Remove(u)
    PROVE  /\ Keeps /\ KeepsCopies /\ TablesOK' /\ Live' = Live \ {u}
  <1> USE NoneAssumption
  <1>1. ColumnsTypeOK /\ HistoryTypeOK /\ TokensOK /\ EditsStand /\ VerifiedForCause /\ u \in Users
    BY DEF AccountsInv, Live
  <1>2. /\ account' = [account EXCEPT ![u] = "deleted"]
        /\ name' = [name EXCEPT ![u] = None] /\ mail' = [mail EXCEPT ![u] = None]
        /\ enabled' = enabled \ {u} /\ verified' = verified \ {u}
        /\ password' = password \ {u} /\ mustVerify' = mustVerify \ {u}
        /\ addressee' = [t \in Tokens |-> IF addressee[t] = u THEN None ELSE addressee[t]]
        /\ spent' = {t \in spent : addressee[t] # u} /\ sentTo' = sentTo
        /\ link' = [s \in Subjects |-> IF link[s] = u THEN None ELSE link[s]]
        /\ settled' = [settled EXCEPT ![u] = None]
        /\ confirmed' = confirmed \ {u} /\ moved' = moved \ {u}
        /\ excused' = (excused \union {v \in Live : origin[v] \in Subjects /\ link[origin[v]] = u}) \ {u}
        /\ origin' = [origin EXCEPT ![u] = None]
    BY DEF Remove, DropTokens
  <1>3. Live' = Live \ {u} /\ \A w \in Live : w \in Users
    BY <1>1, <1>2 DEF Live, ColumnsTypeOK
  <1>4. \A w \in Live' : name'[w] = name[w] /\ mail'[w] = mail[w]
                         /\ origin'[w] = origin[w] /\ settled'[w] = settled[w]
    BY <1>1, <1>2, <1>3 DEF ColumnsTypeOK, HistoryTypeOK
  <1>5. ColumnsTypeOK'
    <2>1. account' \in [Users -> {"unborn", "live", "deleted"}]
      BY <1>1, <1>2 DEF ColumnsTypeOK
    <2>2. name' \in [Users -> Names \union {None}] /\ mail' \in [Users -> Mails \union {None}]
      BY <1>1, <1>2 DEF ColumnsTypeOK
    <2>3. \A w \in Live' : name'[w] \in Names /\ mail'[w] \in Mails
      BY <1>1, <1>3, <1>4 DEF ColumnsTypeOK
    <2>4. \A w, x \in Live' : w # x => name'[w] # name'[x] /\ mail'[w] # mail'[x]
      BY <1>1, <1>3, <1>4 DEF ColumnsTypeOK
    <2>5. /\ enabled' \in SUBSET Live' /\ verified' \in SUBSET Live'
          /\ password' \in SUBSET Live' /\ mustVerify' \in SUBSET Live'
      BY <1>1, <1>2, <1>3 DEF ColumnsTypeOK
    <2>6. addressee' \in [Tokens -> Live' \union {None}] /\ spent' \in SUBSET Tokens
      BY <1>1, <1>2, <1>3 DEF ColumnsTypeOK
    <2>7. link' \in [Subjects -> Live' \union {None}]
      BY <1>1, <1>2, <1>3 DEF ColumnsTypeOK
    <2> QED
      BY <2>1, <2>2, <2>3, <2>4, <2>5, <2>6, <2>7 DEF ColumnsTypeOK
  <1>6. HistoryTypeOK'
    <2>1. settled' \in [Users -> Profile \union {None}]
      BY <1>1, <1>2 DEF HistoryTypeOK
    <2>2. origin' \in [Users -> Subjects \union {"registered", "refused", None}]
      BY <1>1, <1>2 DEF HistoryTypeOK
    <2> QED
      BY <1>1, <1>2, <1>3, <2>1, <2>2 DEF HistoryTypeOK
  <1>7. TokensOK'
    <2>1. ASSUME NEW t \in Tokens, addressee'[t] \in Live' \ moved', t \notin spent'
          PROVE  sentTo'[t] = mail'[addressee'[t]]
      <3>1. addressee'[t] = addressee[t] /\ addressee[t] \in Live \ moved /\ addressee[t] # u /\ t \notin spent
        BY <1>1, <1>2, <1>3, <2>1 DEF ColumnsTypeOK, Live
      <3> QED
        BY <1>1, <1>2, <1>4, <2>1, <3>1 DEF TokensOK
    <2> QED
      BY <2>1 DEF TokensOK
  <1>8. EditsStand'
    <2>1. ASSUME NEW w \in Live', settled'[w] # None
          PROVE  settled'[w] = [mail |-> mail'[w], on |-> w \in enabled']
      <3>1. w \in enabled' <=> w \in enabled
        BY <1>2, <1>3
      <3>2. settled[w] = [mail |-> mail[w], on |-> w \in enabled]
        BY <1>1, <1>3, <1>4, <2>1 DEF EditsStand
      <3> QED
        BY <1>4, <3>1, <3>2
    <2> QED
      BY <2>1 DEF EditsStand
  <1>9. VerifiedForCause'
    BY <1>1, <1>2 DEF VerifiedForCause
  <1>10. Keeps
    <2>1. \A w \in Users : account[w] # "unborn" => account'[w] # "unborn" /\ (w \in Live' => w \in Live)
      BY <1>1, <1>2, <1>3 DEF ColumnsTypeOK
    <2>2. ASSUME NEW w \in Live', w \notin excused', Linked(w) PROVE Linked(w)'
      <3> SUFFICES ASSUME origin[w] \in Subjects
                   PROVE  link'[origin[w]] # None \/ \E s \in Subjects : link'[s] = w
        BY <1>4 DEF Linked
      <3>1. link[origin[w]] # u
        BY <1>2, <1>3, <2>2
      <3>2. link'[origin[w]] = link[origin[w]]
        BY <1>2, <3>1
      <3>3. \A s \in Subjects : link[s] = w => link'[s] = w
        BY <1>2, <1>3
      <3> QED
        BY <2>2, <3>2, <3>3 DEF Linked
    <2>3. \A w \in Live' :
            /\ w \in excused => w \in excused' /\ w # u
            /\ w \in moved => w \in moved'
            /\ w \in password => w \in password'
            /\ w \in verified => w \in verified'
            /\ w \in verified \union mustVerify => w \in verified' \union mustVerify'
      BY <1>2, <1>3
    <2> QED
      BY <1>2, <1>4, <2>1, <2>2, <2>3 DEF Keeps
  <1>11. KeepsCopies
    BY <1>4 DEF KeepsCopies
  <1> QED
    BY <1>3, <1>5, <1>6, <1>7, <1>8, <1>9, <1>10, <1>11 DEF TablesOK

(* Required actions and passwords: none is taken from an account that needs *)
(* it.                                                                     *)
LEMMA RowsOnly ==
    ASSUME AccountsInv, UNCHANGED <<users, link, tokens, history>>,
           password \subseteq password', password' \subseteq Live, mustVerify' \subseteq Live,
           \A u \in Live \ excused : u \in verified \union mustVerify => u \in verified \union mustVerify'
    PROVE  /\ Keeps /\ KeepsCopies /\ TablesOK' /\ Live' = Live
           /\ \A r \in Requests : NewAreMade(r)
  <1> USE DEF users, tokens, history
  <1>1. Live' = Live
    BY DEF Live
  <1>2. ColumnsTypeOK'
    BY <1>1 DEF AccountsInv, ColumnsTypeOK
  <1>3. HistoryTypeOK'
    BY <1>1 DEF AccountsInv, HistoryTypeOK
  <1>4. TokensOK' /\ EditsStand' /\ VerifiedForCause'
    BY <1>1 DEF AccountsInv, TokensOK, EditsStand, VerifiedForCause
  <1>5. Keeps /\ KeepsCopies
    BY <1>1 DEF Keeps, KeepsCopies, Linked
  <1> QED
    BY <1>1, <1>2, <1>3, <1>4, <1>5 DEF TablesOK, NewAreMade

(* Tokens that are used or expire.                                         *)
LEMMA Spent ==
    ASSUME AccountsInv, UNCHANGED <<users, rows, addressee, sentTo, history>>,
           spent \subseteq spent', spent' \subseteq Tokens
    PROVE  /\ Keeps /\ KeepsCopies /\ TablesOK' /\ Live' = Live
           /\ \A r \in Requests : NewAreMade(r)
  <1> USE DEF users, rows, history
  <1>1. Live' = Live
    BY DEF Live
  <1>2. ColumnsTypeOK'
    BY <1>1 DEF AccountsInv, ColumnsTypeOK
  <1>3. HistoryTypeOK'
    BY <1>1 DEF AccountsInv, HistoryTypeOK
  <1>4. TokensOK' /\ EditsStand' /\ VerifiedForCause'
    BY <1>1 DEF AccountsInv, TokensOK, EditsStand, VerifiedForCause
  <1>5. Keeps /\ KeepsCopies
    BY <1>1 DEF Keeps, KeepsCopies, Linked
  <1> QED
    BY <1>1, <1>2, <1>3, <1>4, <1>5 DEF TablesOK, NewAreMade

-----------------------------------------------------------------------------
(* A request that ends may leave no account behind that is not done.       *)
LEMMA Ends ==
    ASSUME AccountsInv, NEW r \in Requests, Finish(r), Keeps, KeepsCopies, TablesOK', NewAreMade(r),
           \A u \in Live \intersect Live' : u \notin excused' /\ Making(r, u) => Done(u)'
    PROVE  AccountsInv'
  <1> USE NoneAssumption
  <1>1. Moves(r) /\ Places(r, "idle", None, None, None, None, None)
    BY Finished DEF AccountsInv
  <1>2. RequestOK(r)'
    BY <1>1 DEF Places, RequestOK, HeldTypeOK, ProgressOK, CopyOK, Registering
  <1>3. Passes(r)
    BY DEF Passes
  <1> QED
    BY <1>1, <1>2, <1>3, Combine

(* What a registration that has come past its statements has made.         *)
LEMMA MadeByNow ==
    ASSUME AccountsInv, NEW r \in Requests, NEW u \in Live \ excused, Making(r, u), pc[r] # "link"
    PROVE  /\ pc[r] \in MakingSteps /\ task[r] \in Registering /\ who[r] = u
           /\ origin[u] = "registered"
           /\ Linked(u)
           /\ task[r] = "open" => pc[r] = "password" /\ u \in verified
           /\ pc[r] # "password" => u \in password
           /\ pc[r] \notin {"password", "require"} => u \in verified \union mustVerify /\ Done(u)
  <1>1. task[r] \in Registering /\ who[r] = u /\ u \in Users
    BY DEF Making, Live
  <1>2. RequestOK(r) /\ MadeOK(u)
    BY <1>1 DEF AccountsInv
  <1>3. origin[u] = "registered"
    BY <1>1, <1>2 DEF RequestOK, ProgressOK, MadeOK
  <1>4. Linked(u)
    BY <1>3, OriginAssumption DEF Linked
  <1> QED
    BY <1>1, <1>2, <1>3, <1>4 DEF RequestOK, ProgressOK, Done, Registered

LEMMA NotMaking ==
    ASSUME AccountsInv, NEW r \in Requests, NEW u, Making(r, u)
    PROVE  pc[r] \in MakingSteps \union {"link"}
  BY DEF AccountsInv, RequestOK, ProgressOK, Making

LEMMA StepFail ==
    ASSUME AccountsInv, NEW r \in Requests, Fail(r), pc[r] \in {"address", "token", "deliver"},
           UNCHANGED <<users, rows, tokens, history>>
    PROVE  AccountsInv'
  <1>1. RequestOK(r) /\ LocalsTypeOK /\ Live' = Live
    BY Untouched DEF AccountsInv
  <1>2. CASE task[r] = "strict" /\ Goto(r, "rollback") /\ Keep(r, who[r], None, None, None)
    <2>1. Held(who[r], None, None, None)
      BY <1>1 DEF Held, LocalsTypeOK
    <2>2. Moves(r) /\ Places(r, "rollback", task[r], who[r], None, None, None)
      BY <1>1, <1>2, <2>1, Went, "rollback" \in Steps DEF Steps
    <2>3. RequestOK(r)'
      BY <1>1, <1>2, <2>2 DEF Places, RequestOK, HeldTypeOK, ProgressOK, CopyOK, Registering,
                              MakingSteps, users, rows, history
    <2>4. Passes(r)
      BY <2>2 DEF Passes, Making, Places
    <2> QED
      BY <2>2, <2>3, <2>4, Untouched, Combine
  <1>3. CASE task[r] # "strict" /\ Finish(r)
    <2>1. \A u \in Live \ excused : ~ Making(r, u)
      BY <1>3, MadeByNow DEF Registering
    <2> QED
      BY <1>1, <1>3, <2>1, Untouched, Ends DEF history
  <1> QED
    BY <1>2, <1>3 DEF Fail

LEMMA StepResend ==
    ASSUME AccountsInv, NEW r \in Requests, NEW u \in Users, Resend(r, u) PROVE AccountsInv'
  <1>1. /\ pc[r] = "idle" /\ u \in Live /\ LocalsTypeOK /\ Held(u, None, None, None)
        /\ "resend" \in Tasks \ Registering /\ "address" \in Steps
        /\ UNCHANGED <<users, rows, tokens, history>>
    BY DEF Resend, AccountsInv, Held, Tasks, Steps, Registering
  <1>2. Moves(r) /\ Places(r, "address", "resend", u, None, None, None)
    BY <1>1, Entered DEF Resend
  <1>3. RequestOK(r)'
    BY <1>1, <1>2 DEF Places, RequestOK, HeldTypeOK, ProgressOK, CopyOK, users, Live
  <1>4. Passes(r)
    BY <1>1, NotMaking DEF Passes, MakingSteps
  <1> QED
    BY <1>1, <1>2, <1>3, <1>4, Untouched, Combine

LEMMA StepReadAddress ==
    ASSUME AccountsInv, NEW r \in Requests, ReadAddress(r) PROVE AccountsInv'
  <1>1. /\ pc[r] = "address" /\ UNCHANGED <<users, rows, tokens, history>>
        /\ RequestOK(r) /\ LocalsTypeOK /\ Live' = Live
    BY Untouched DEF ReadAddress, AccountsInv
  <1>2. CASE /\ who[r] \in Live
             /\ Goto(r, "token")
             /\ Keep(r, who[r], None, mail[who[r]], None)
    <2>1. mail[who[r]] \in Mails /\ Held(who[r], None, mail[who[r]], None) /\ "token" \in Steps
      BY <1>2 DEF Held, AccountsInv, ColumnsTypeOK, Live, Steps
    <2>2. Moves(r) /\ Places(r, "token", task[r], who[r], None, mail[who[r]], None)
      BY <1>1, <1>2, <2>1, Went
    <2>3. HeldTypeOK(r)' /\ CopyOK(r)'
      BY <1>1, <1>2, <2>1, <2>2 DEF Places, HeldTypeOK, CopyOK, users, Live
    <2>4. ProgressOK(r)'
      BY <1>1, <2>2 DEF Places, RequestOK, ProgressOK, MakingSteps, users, rows, history
    <2>5. Passes(r)
      BY <1>1, <2>2 DEF Passes, Making, Places
    <2> QED
      BY <1>1, <2>2, <2>3, <2>4, <2>5, Untouched, Combine DEF RequestOK
  <1>3. CASE Fail(r)
    BY <1>1, <1>3, StepFail
  <1> QED
    BY <1>2, <1>3 DEF ReadAddress

LEMMA StepDeliver ==
    ASSUME AccountsInv, NEW r \in Requests, Deliver(r) PROVE AccountsInv'
  <1>1. pc[r] = "deliver" /\ UNCHANGED <<users, rows, tokens, history>>
    BY DEF Deliver
  <1>2. CASE Finish(r)
    <2>1. ASSUME NEW u \in Live \ excused, Making(r, u) PROVE Done(u)'
      <3>1. Done(u)
        BY <1>1, <2>1, MadeByNow
      <3> QED
        BY <1>1, <3>1 DEF Done, Registered, Linked, users, rows, history
    <2> QED
      BY <1>1, <1>2, <2>1, Untouched, Ends DEF history
  <1>3. CASE Fail(r)
    BY <1>1, <1>3, StepFail
  <1> QED
    BY <1>2, <1>3 DEF Deliver

LEMMA StepVerify ==
    ASSUME AccountsInv, NEW r \in Requests, NEW t \in Tokens, Verify(r, t) PROVE AccountsInv'
  <1> USE NoneAssumption
  <1>1. PICK u \in Live : u = addressee[t]
    BY DEF Verify, AccountsInv, ColumnsTypeOK
  <1>2. /\ pc[r] = "idle" /\ t \notin spent /\ LocalsTypeOK /\ Held(u, t, None, None)
        /\ "verify" \in Tasks \ Registering /\ "read" \in Steps /\ u \in Users
        /\ UNCHANGED <<users, rows, tokens, history>>
    BY DEF Verify, AccountsInv, Held, Tasks, Steps, Registering, Live
  <1>3. Moves(r) /\ Places(r, "read", "verify", u, t, None, None)
    BY <1>1, <1>2, Entered DEF Verify
  <1>4. u \notin moved => sentTo[t] = mail[u]
    BY <1>1, <1>2 DEF AccountsInv, TokensOK
  <1>5. RequestOK(r)'
    BY <1>2, <1>3, <1>4 DEF Places, RequestOK, HeldTypeOK, ProgressOK, CopyOK, users, tokens, history, Live
  <1>6. Passes(r)
    BY <1>2, NotMaking DEF Passes, MakingSteps
  <1> QED
    BY <1>2, <1>3, <1>5, <1>6, Untouched, Combine

LEMMA StepReadAccount ==
    ASSUME AccountsInv, NEW r \in Requests, ReadAccount(r) PROVE AccountsInv'
  <1>1. /\ pc[r] = "read" /\ UNCHANGED <<users, rows, tokens, history>>
        /\ RequestOK(r) /\ LocalsTypeOK /\ Live' = Live
    BY Untouched DEF ReadAccount, AccountsInv
  <1>2. \A u : ~ Making(r, u)
    BY <1>1, NotMaking DEF MakingSteps
  <1>3. CASE who[r] \in Live
    <2>1. PICK c : c = [mail |-> mail[who[r]], on |-> who[r] \in enabled]
      OBVIOUS
    <2>2. /\ c \in Profile /\ Held(who[r], tok[r], c, None) /\ "write" \in Steps
          /\ who[r] \in Users /\ tok[r] \in Tokens
      BY <1>1, <1>3, <2>1
      DEF Held, AccountsInv, ColumnsTypeOK, Live, Steps, Profile, RequestOK, HeldTypeOK
    <2>3. Moves(r) /\ Places(r, "write", task[r], who[r], tok[r], c, None)
      BY <1>1, <1>3, <2>1, <2>2, Went DEF ReadAccount
    <2>4. HeldTypeOK(r)'
      BY <2>2, <2>3 DEF Places, HeldTypeOK
    <2>5. settled[who[r]] = None \/ c = settled[who[r]]
      BY <1>3, <2>1 DEF AccountsInv, EditsStand
    <2>6. CopyOK(r)'
      BY <1>1, <1>3, <2>1, <2>3, <2>5 DEF Places, RequestOK, CopyOK, users, tokens, history
    <2>7. ProgressOK(r)'
      BY <1>1, <2>3 DEF Places, RequestOK, ProgressOK, MakingSteps, users
    <2>8. Passes(r)
      BY <1>2 DEF Passes
    <2> QED
      BY <1>1, <2>3, <2>4, <2>6, <2>7, <2>8, Untouched, Combine DEF RequestOK
  <1>4. CASE who[r] \notin Live
    BY <1>1, <1>2, <1>4, Untouched, Ends DEF ReadAccount
  <1> QED
    BY <1>3, <1>4

LEMMA StepFindLink ==
    ASSUME AccountsInv, NEW r \in Requests, NEW s \in Subjects, NEW mode \in Modes, FindLink(r, s, mode)
    PROVE  AccountsInv'
  <1>1. PICK step \in {"find", "create"} : Enter(r, step, mode)
    BY DEF FindLink
  <1>2. /\ pc[r] = "idle" /\ LocalsTypeOK /\ Held(None, None, None, s)
        /\ mode \in Tasks \ Registering /\ step \in Steps
        /\ UNCHANGED <<users, rows, tokens, history>>
    BY DEF FindLink, AccountsInv, Held, Tasks, Steps, Registering, Modes
  <1>3. Moves(r) /\ Places(r, step, mode, None, None, None, s)
    BY <1>1, <1>2, Entered DEF FindLink
  <1>4. RequestOK(r)'
    BY <1>2, <1>3, NoneAssumption DEF Places, RequestOK, HeldTypeOK, ProgressOK, CopyOK, Live
  <1>5. Passes(r)
    BY <1>2, NotMaking DEF Passes, MakingSteps
  <1> QED
    BY <1>2, <1>3, <1>4, <1>5, Untouched, Combine

LEMMA StepFindByMail ==
    ASSUME AccountsInv, NEW r \in Requests, FindByMail(r) PROVE AccountsInv'
  <1> USE NoneAssumption
  <1>1. /\ pc[r] = "find" /\ UNCHANGED <<users, rows, tokens, history>>
        /\ RequestOK(r) /\ LocalsTypeOK /\ Live' = Live
        /\ subj[r] \in Subjects
    BY Untouched DEF FindByMail, AccountsInv, RequestOK, HeldTypeOK
  <1>2. \A u : ~ Making(r, u)
    BY <1>1, NotMaking DEF MakingSteps
  <1>3. Passes(r)
    BY <1>2 DEF Passes
  <1>4. ASSUME NEW u \in Live, Enter(r, "link", None), Keep(r, u, None, None, subj[r]) PROVE AccountsInv'
    <2>1. Held(u, None, None, subj[r]) /\ "link" \in Steps /\ u \in Users
      BY <1>1 DEF Held, Steps, Live
    <2>2. Moves(r) /\ Places(r, "link", None, u, None, None, subj[r])
      BY <1>1, <1>4, <2>1, Entered
    <2>3. RequestOK(r)'
      BY <1>1, <2>1, <2>2 DEF Places, RequestOK, HeldTypeOK, ProgressOK, CopyOK, users, Live, Registering
    <2> QED
      BY <1>1, <1>3, <2>2, <2>3, Untouched, Combine
  <1>5. CASE Goto(r, "create") /\ UNCHANGED <<who, tok, copy, subj>>
    <2>1. Moves(r) /\ Places(r, "create", task[r], who[r], tok[r], copy[r], subj[r])
      BY <1>1, <1>5, Stepped, "create" \in Steps DEF Steps
    <2>2. RequestOK(r)'
      BY <1>1, <2>1 DEF Places, RequestOK, HeldTypeOK, ProgressOK, CopyOK, MakingSteps
    <2> QED
      BY <1>1, <1>3, <2>1, <2>2, Untouched, Combine
  <1>6. CASE Finish(r)
    BY <1>1, <1>2, <1>6, Untouched, Ends
  <1> QED
    BY <1>4, <1>5, <1>6 DEF FindByMail

-----------------------------------------------------------------------------
(* Registration.                                                           *)
LEMMA StepRegister ==
    ASSUME AccountsInv, NEW r \in Requests, NEW u \in Users, NEW n \in Names, NEW m \in Mails,
           NEW t \in Registering, Register(r, u, n, m, t)
    PROVE  AccountsInv'
  <1>1. /\ pc[r] = "idle" /\ Insert(u, n, m, t = "open", "registered") /\ UNCHANGED <<rows, tokens>>
        /\ Enter(r, "password", t) /\ Keep(r, u, None, None, None)
        /\ LocalsTypeOK /\ Held(u, None, None, None) /\ t \in Tasks /\ "password" \in Steps
    BY DEF Register, AccountsInv, Held, Tasks, Steps
  <1>2. Moves(r) /\ Places(r, "password", t, u, None, None, None)
    BY <1>1, Entered
  <1>3. PICK v \in BOOLEAN : (v <=> t = "open") /\ Insert(u, n, m, v, "registered")
    <2>1. CASE t = "open"
      <3>1. Insert(u, n, m, TRUE, "registered")
        BY <1>1, <2>1 DEF Insert, With
      <3> QED
        BY <2>1, <3>1
    <2>2. CASE t # "open"
      <3>1. Insert(u, n, m, FALSE, "registered")
        BY <1>1, <2>2 DEF Insert, With
      <3> QED
        BY <2>2, <3>1
    <2> QED
      BY <2>1, <2>2
  <1>4. /\ Keeps /\ KeepsCopies /\ TablesOK'
        /\ u \notin Live /\ Live' = Live \union {u}
        /\ account' = [account EXCEPT ![u] = "live"] /\ origin'[u] = "registered"
        /\ u \notin excused' /\ (t = "open" => u \in verified')
    BY <1>1, <1>3, Inserted
  <1>5. account'[u] = "live"
    BY <1>4 DEF AccountsInv, ColumnsTypeOK
  <1>6. RequestOK(r)'
    BY <1>2, <1>4, <1>5 DEF Places, RequestOK, HeldTypeOK, ProgressOK, CopyOK, MakingSteps
  <1>7. Passes(r)
    BY <1>1, NotMaking DEF Passes, MakingSteps
  <1>8. NewAreMade(r)
    BY <1>2, <1>4 DEF NewAreMade, Making, Places
  <1> QED
    BY <1>2, <1>4, <1>6, <1>7, <1>8, Combine

LEMMA StepSetPassword ==
    ASSUME AccountsInv, NEW r \in Requests, SetPassword(r) PROVE AccountsInv'
  <1>1. /\ pc[r] = "password" /\ UNCHANGED <<users, mustVerify, link, tokens, history>>
        /\ RequestOK(r) /\ LocalsTypeOK /\ ColumnsTypeOK
    BY DEF SetPassword, AccountsInv
  <1>2. /\ who[r] \in Live => password' = password \union {who[r]}
        /\ who[r] \notin Live => password' = password
    BY DEF SetPassword
  <1>3. /\ Keeps /\ KeepsCopies /\ TablesOK' /\ Live' = Live /\ NewAreMade(r)
    <2>1. password \subseteq password' /\ password' \subseteq Live /\ mustVerify' \subseteq Live
      BY <1>1, <1>2 DEF ColumnsTypeOK
    <2> QED
      BY <1>1, <2>1, RowsOnly
  <1>4. CASE /\ who[r] \in Live /\ task[r] = "strict"
             /\ Goto(r, "require") /\ UNCHANGED <<who, tok, copy, subj>>
    <2>1. Moves(r) /\ Places(r, "require", task[r], who[r], tok[r], copy[r], subj[r])
      BY <1>1, <1>4, Stepped, "require" \in Steps DEF Steps
    <2>2. HeldTypeOK(r)' /\ CopyOK(r)'
      BY <1>1, <2>1 DEF Places, RequestOK, HeldTypeOK, CopyOK
    <2>3. ProgressOK(r)'
      BY <1>1, <1>2, <1>3, <1>4, <2>1 DEF Places, RequestOK, ProgressOK, MakingSteps, users, history, Registering
    <2>4. Passes(r)
      BY <1>1, <2>1 DEF Passes, Making, Places
    <2> QED
      BY <1>3, <2>1, <2>2, <2>3, <2>4, Combine DEF RequestOK
  <1>5. CASE Finish(r) /\ (who[r] \in Live => task[r] # "strict")
    <2>1. ASSUME NEW u \in Live \ excused, Making(r, u) PROVE Done(u)'
      <3>1. task[r] = "open" /\ u \in verified /\ origin[u] = "registered" /\ Linked(u) /\ who[r] = u
        BY <1>1, <1>5, <2>1, MadeByNow DEF Registering
      <3>2. u \in password'
        BY <1>2, <3>1
      <3> QED
        BY <1>1, <3>1, <3>2 DEF Done, Registered, Linked, users, history
    <2> QED
      BY <1>1, <1>3, <1>5, <2>1, Ends DEF history
  <1> QED
    BY <1>4, <1>5 DEF SetPassword

LEMMA StepRequireVerification ==
    ASSUME AccountsInv, NEW r \in Requests, RequireVerification(r) PROVE AccountsInv'
  <1>1. /\ pc[r] = "require" /\ UNCHANGED <<users, password, link, tokens, history>>
        /\ RequestOK(r) /\ LocalsTypeOK /\ ColumnsTypeOK
    BY DEF RequireVerification, AccountsInv
  <1>2. /\ who[r] \in Live \ mustVerify => mustVerify' = mustVerify \union {who[r]}
        /\ who[r] \notin Live \ mustVerify => mustVerify' = mustVerify
    BY DEF RequireVerification
  <1>3. /\ Keeps /\ KeepsCopies /\ TablesOK' /\ Live' = Live /\ NewAreMade(r)
    <2>1. mustVerify \subseteq mustVerify' /\ mustVerify' \subseteq Live /\ password \subseteq Live
      BY <1>1, <1>2 DEF ColumnsTypeOK
    <2> QED
      BY <1>1, <2>1, RowsOnly
  <1>4. CASE /\ who[r] \in Live \ mustVerify
             /\ Goto(r, "address") /\ UNCHANGED <<who, tok, copy, subj>>
    <2>1. Moves(r) /\ Places(r, "address", task[r], who[r], tok[r], copy[r], subj[r])
      BY <1>1, <1>4, Stepped, "address" \in Steps DEF Steps
    <2>2. HeldTypeOK(r)' /\ CopyOK(r)'
      BY <1>1, <2>1 DEF Places, RequestOK, HeldTypeOK, CopyOK
    <2>3. ProgressOK(r)'
      BY <1>1, <1>2, <1>3, <1>4, <2>1 DEF Places, RequestOK, ProgressOK, MakingSteps, users, history
    <2>4. Passes(r)
      BY <1>1, <2>1 DEF Passes, Making, Places
    <2> QED
      BY <1>3, <2>1, <2>2, <2>3, <2>4, Combine DEF RequestOK
  <1>5. CASE Finish(r) /\ who[r] \notin Live \ mustVerify
    <2>1. ASSUME NEW u \in Live \ excused, Making(r, u) PROVE Done(u)'
      <3>1. u \in password /\ origin[u] = "registered" /\ Linked(u) /\ u \in mustVerify
        BY <1>1, <1>5, <2>1, MadeByNow
      <3> QED
        BY <1>1, <1>2, <1>5, <3>1 DEF Done, Registered, Linked, users, history
    <2> QED
      BY <1>1, <1>3, <1>5, <2>1, Ends DEF history
  <1> QED
    BY <1>4, <1>5 DEF RequireVerification

LEMMA StepRollBack ==
    ASSUME AccountsInv, NEW r \in Requests, RollBack(r) PROVE AccountsInv'
  <1>1. pc[r] = "rollback" /\ Finish(r) /\ RequestOK(r) /\ who[r] \in Users
    BY DEF RollBack, AccountsInv, RequestOK, HeldTypeOK
  <1>2. \A u : Making(r, u) => u = who[r]
    BY DEF Making
  <1>3. CASE who[r] \in Live /\ Remove(who[r])
    <2>1. Keeps /\ KeepsCopies /\ TablesOK' /\ Live' = Live \ {who[r]}
      BY <1>3, Removed
    <2> QED
      BY <1>1, <1>2, <2>1, Ends DEF NewAreMade
  <1>4. CASE /\ origin' = [origin EXCEPT ![who[r]] = IF who[r] \in Live THEN "refused" ELSE @]
             /\ excused' = IF who[r] \in Live THEN excused \union {who[r]} ELSE excused
             /\ UNCHANGED <<users, rows, tokens, settled, confirmed, moved>>
    <2> USE DEF users, rows, tokens
    <2>1. Live' = Live
      BY <1>4 DEF Live
    <2>2. ColumnsTypeOK'
      BY <1>4, <2>1 DEF AccountsInv, ColumnsTypeOK
    <2>3. /\ \A u \in Users : u # who[r] => origin'[u] = origin[u]
          /\ who[r] \notin Live => origin' = origin
          /\ who[r] \in Live => origin'[who[r]] = "refused"
          /\ origin' \in [Users -> Subjects \union {"registered", "refused", None}]
      BY <1>1, <1>4 DEF AccountsInv, HistoryTypeOK
    <2>4. HistoryTypeOK'
      BY <1>4, <2>1, <2>3 DEF AccountsInv, HistoryTypeOK
    <2>5. TokensOK' /\ EditsStand' /\ VerifiedForCause'
      BY <1>4, <2>1 DEF AccountsInv, TokensOK, EditsStand, VerifiedForCause
    <2>6. Keeps
      BY <1>4, <2>1, <2>3 DEF Keeps, Linked, Live
    <2>7. KeepsCopies
      BY <1>4, <2>1 DEF KeepsCopies
    <2> QED
      BY <1>1, <1>2, <1>4, <2>1, <2>2, <2>4, <2>5, <2>6, <2>7, Ends DEF TablesOK, NewAreMade
  <1> QED
    BY <1>3, <1>4 DEF RollBack

-----------------------------------------------------------------------------
(* Mails and links.                                                        *)
LEMMA StepInsertToken ==
    ASSUME AccountsInv, NEW r \in Requests, NEW t \in Tokens, InsertToken(r, t) PROVE AccountsInv'
  <1> USE NoneAssumption
  <1>1. /\ pc[r] = "token" /\ UNCHANGED <<users, rows, spent, history>> /\ sentTo[t] = None
        /\ RequestOK(r) /\ LocalsTypeOK /\ ColumnsTypeOK /\ HistoryTypeOK /\ TokensOK
    BY DEF InsertToken, AccountsInv
  <1>2. CASE who[r] \notin Live
    BY <1>1, <1>2, StepFail DEF InsertToken, tokens
  <1>3. CASE who[r] \in Live
    <2>1. PICK u \in Live, m \in Mails : u = who[r] /\ m = copy[r] /\ u \in Users
      BY <1>1, <1>3 DEF RequestOK, HeldTypeOK, Live
    <2>2. /\ addressee' = [addressee EXCEPT ![t] = u]
          /\ sentTo' = [sentTo EXCEPT ![t] = m]
      BY <1>3, <2>1 DEF InsertToken
    <2>3. Live' = Live
      BY <1>1 DEF Live, users
    <2>4. ColumnsTypeOK'
      <3>1. addressee' \in [Tokens -> Live' \union {None}]
        BY <1>1, <2>2, <2>3 DEF ColumnsTypeOK
      <3> QED
        BY <1>1, <2>3, <3>1 DEF ColumnsTypeOK, users, rows
    <2>5. HistoryTypeOK'
      <3>1. sentTo' \in [Tokens -> Mails \union {None}]
        BY <1>1, <2>2 DEF HistoryTypeOK
      <3> QED
        BY <1>1, <2>3, <3>1 DEF HistoryTypeOK, history
    <2>6. TokensOK'
      <3>1. u \notin moved => m = mail[u]
        BY <1>1, <2>1 DEF RequestOK, CopyOK
      <3>2. /\ addressee'[t] = u /\ sentTo'[t] = m
            /\ \A k \in Tokens : k # t => addressee'[k] = addressee[k] /\ sentTo'[k] = sentTo[k]
        BY <1>1, <2>2 DEF ColumnsTypeOK, HistoryTypeOK
      <3> QED
        BY <1>1, <2>3, <3>1, <3>2 DEF TokensOK, users, history
    <2>7. EditsStand' /\ VerifiedForCause'
      BY <1>1, <2>3 DEF AccountsInv, EditsStand, VerifiedForCause, users, history
    <2>8. Keeps
      <3>1. \A k \in Tokens : sentTo[k] # None => sentTo'[k] = sentTo[k]
        BY <1>1, <2>2 DEF HistoryTypeOK
      <3> QED
        BY <1>1, <2>3, <3>1 DEF Keeps, Linked, users, rows, history
    <2>9. KeepsCopies /\ NewAreMade(r)
      BY <1>1, <2>3 DEF KeepsCopies, NewAreMade, users, history
    <2>10. CASE task[r] = "strict" /\ Goto(r, "deliver") /\ Keep(r, u, None, None, None)
      <3>1. Held(u, None, None, None) /\ "deliver" \in Steps
        BY <2>1 DEF Held, Steps
      <3>2. Moves(r) /\ Places(r, "deliver", task[r], u, None, None, None)
        BY <1>1, <2>10, <3>1, Went
      <3>3. HeldTypeOK(r)' /\ CopyOK(r)'
        BY <2>1, <3>2 DEF Places, HeldTypeOK, CopyOK
      <3>4. ProgressOK(r)'
        BY <1>1, <2>1, <2>3, <3>2 DEF Places, RequestOK, ProgressOK, MakingSteps, users, rows, history
      <3>5. Passes(r)
        BY <1>1, <2>1, <3>2 DEF Passes, Making, Places
      <3> QED
        BY <2>4, <2>5, <2>6, <2>7, <2>8, <2>9, <3>2, <3>3, <3>4, <3>5, Combine DEF TablesOK, RequestOK
    <2>11. CASE task[r] # "strict" /\ Finish(r)
      <3>1. \A w \in Live \ excused : ~ Making(r, w)
        BY <1>1, <2>11, MadeByNow DEF Registering
      <3> QED
        BY <1>1, <2>3, <2>4, <2>5, <2>6, <2>7, <2>8, <2>9, <2>11, <3>1, Ends DEF TablesOK, history
    <2> QED
      BY <1>3, <2>1, <2>10, <2>11 DEF InsertToken
  <1> QED
    BY <1>2, <1>3

LEMMA StepUnrequire ==
    ASSUME AccountsInv, NEW r \in Requests, Unrequire(r) PROVE AccountsInv'
  <1>1. /\ pc[r] = "unrequire" /\ UNCHANGED <<users, password, link, tokens, history>>
        /\ RequestOK(r) /\ LocalsTypeOK /\ ColumnsTypeOK
        /\ mustVerify' \in {mustVerify, mustVerify \ {who[r]}}
    BY DEF Unrequire, AccountsInv
  <1>2. /\ Keeps /\ KeepsCopies /\ TablesOK' /\ Live' = Live /\ NewAreMade(r)
    <2>1. who[r] \in Live => who[r] \in verified \union excused
      BY <1>1 DEF RequestOK, ProgressOK
    <2>2. mustVerify' \subseteq Live /\ password \subseteq Live
      BY <1>1 DEF ColumnsTypeOK
    <2> QED
      BY <1>1, <2>1, <2>2, RowsOnly
  <1>3. Moves(r) /\ Places(r, "mark", task[r], who[r], tok[r], copy[r], subj[r])
    BY <1>1, Stepped, "mark" \in Steps DEF Unrequire, Steps
  <1>4. RequestOK(r)'
    BY <1>1, <1>2, <1>3 DEF Places, RequestOK, HeldTypeOK, ProgressOK, CopyOK, MakingSteps, users
  <1>5. Passes(r)
    BY <1>1, NotMaking DEF Passes, MakingSteps
  <1> QED
    BY <1>2, <1>3, <1>4, <1>5, Combine

LEMMA StepMarkUsed ==
    ASSUME AccountsInv, NEW r \in Requests, MarkUsed(r) PROVE AccountsInv'
  <1>1. /\ pc[r] = "mark" /\ UNCHANGED <<users, rows, addressee, sentTo, history>> /\ Finish(r)
        /\ spent \subseteq spent' /\ spent' \subseteq Tokens
    BY DEF MarkUsed, AccountsInv, ColumnsTypeOK, RequestOK, HeldTypeOK
  <1>2. \A u : ~ Making(r, u)
    BY <1>1, NotMaking DEF MakingSteps
  <1> QED
    BY <1>1, <1>2, Spent, Ends

LEMMA StepLifetimeElapses ==
    ASSUME AccountsInv, NEW t \in Tokens, LifetimeElapses(t) PROVE AccountsInv'
  <1>1. /\ UNCHANGED <<users, rows, addressee, sentTo, locals, history>>
        /\ spent \subseteq spent' /\ spent' \subseteq Tokens
    BY DEF LifetimeElapses, AccountsInv, ColumnsTypeOK
  <1> QED
    BY <1>1, Spent, CombineStill

LEMMA StepClearActions ==
    ASSUME AccountsInv, NEW r \in Requests, ClearActions(r) PROVE AccountsInv'
  <1>1. /\ pc[r] = "clear" /\ UNCHANGED <<users, password, link, tokens, history>>
        /\ RequestOK(r) /\ LocalsTypeOK /\ ColumnsTypeOK
        /\ mustVerify' = mustVerify \ {who[r]}
    BY DEF ClearActions, AccountsInv
  <1>2. /\ Keeps /\ KeepsCopies /\ TablesOK' /\ Live' = Live /\ NewAreMade(r)
    <2>1. who[r] \in Live => who[r] \in excused
      BY <1>1 DEF RequestOK, ProgressOK
    <2>2. mustVerify' \subseteq Live /\ password \subseteq Live
      BY <1>1 DEF ColumnsTypeOK
    <2> QED
      BY <1>1, <2>1, <2>2, RowsOnly
  <1>3. \A u : ~ Making(r, u)
    BY <1>1, NotMaking DEF MakingSteps
  <1>4. CASE Goto(r, "add") /\ UNCHANGED <<who, tok, copy, subj>>
    <2>1. Moves(r) /\ Places(r, "add", task[r], who[r], tok[r], copy[r], subj[r])
      BY <1>1, <1>4, Stepped, "add" \in Steps DEF Steps
    <2>2. RequestOK(r)'
      BY <1>1, <1>2, <2>1 DEF Places, RequestOK, HeldTypeOK, ProgressOK, CopyOK, MakingSteps, users, history
    <2> QED
      BY <1>2, <1>3, <2>1, <2>2, Combine DEF Passes
  <1>5. CASE Finish(r)
    BY <1>2, <1>3, <1>5, Ends
  <1> QED
    BY <1>4, <1>5 DEF ClearActions

LEMMA StepAddAction ==
    ASSUME AccountsInv, NEW r \in Requests, AddAction(r) PROVE AccountsInv'
  <1>1. /\ pc[r] = "add" /\ UNCHANGED <<users, password, link, tokens, history>> /\ Finish(r)
        /\ mustVerify \subseteq mustVerify' /\ mustVerify' \subseteq Live /\ password \subseteq Live
    BY DEF AddAction, AccountsInv, ColumnsTypeOK
  <1>2. \A u : ~ Making(r, u)
    BY <1>1, NotMaking DEF MakingSteps
  <1> QED
    BY <1>1, <1>2, RowsOnly, Ends

(* The row is written back as it was read.                                 *)
LEMMA StepWriteAccount ==
    ASSUME AccountsInv, NEW r \in Requests, WriteAccount(r) PROVE AccountsInv'
  <1> USE NoneAssumption
  <1>1. /\ pc[r] = "write" /\ UNCHANGED <<account, name, rows, tokens, origin, settled, moved, excused>>
        /\ RequestOK(r) /\ LocalsTypeOK /\ ColumnsTypeOK /\ HistoryTypeOK
    BY DEF WriteAccount, AccountsInv
  <1>2. \A u : ~ Making(r, u)
    BY <1>1, NotMaking DEF MakingSteps
  <1>3. CASE Finish(r) /\ UNCHANGED <<mail, enabled, verified, confirmed>>
    <2>1. UNCHANGED <<users, rows, tokens, history>>
      BY <1>1, <1>3 DEF users, history
    <2> QED
      BY <1>2, <1>3, <2>1, Untouched, Ends
  <1>4. CASE /\ who[r] \in Live /\ MailFree(who[r], copy[r].mail)
             /\ mail' = [mail EXCEPT ![who[r]] = copy[r].mail]
             /\ enabled' = With(enabled, who[r], copy[r].on)
             /\ verified' = verified \union {who[r]}
             /\ confirmed' = With(confirmed, who[r], copy[r].mail = sentTo[tok[r]])
             /\ Goto(r, "unrequire")
             /\ Keep(r, who[r], tok[r], None, None)
    <2>1. PICK u \in Live, m \in Mails, b \in BOOLEAN, k \in Tokens :
             /\ u = who[r] /\ u \in Users /\ k = tok[r]
             /\ copy[r] = [mail |-> m, on |-> b] /\ copy[r].mail = m /\ copy[r].on = b
      BY <1>1, <1>4 DEF RequestOK, HeldTypeOK, Profile, Live
    <2>2. /\ mail' = [mail EXCEPT ![u] = m]
          /\ enabled' = With(enabled, u, b)
          /\ verified' = verified \union {u}
          /\ confirmed' = With(confirmed, u, m = sentTo[k])
          /\ \A v \in Live \ {u} : mail[v] # m
      BY <1>4, <2>1 DEF MailFree
    <2>3. /\ u \notin moved => m = mail[u] /\ m = sentTo[k]
          /\ settled[u] = None \/ settled[u] = [mail |-> m, on |-> b]
      BY <1>1, <2>1 DEF RequestOK, CopyOK
    <2>4. Live' = Live /\ \A v \in Live : v \in Users
      BY <1>1 DEF Live
    <2>5. /\ mail' \in [Users -> Mails \union {None}] /\ mail'[u] = m
          /\ \A v \in Users : v # u => mail'[v] = mail[v]
      BY <1>1, <2>1, <2>2 DEF ColumnsTypeOK
    <2>6. ColumnsTypeOK'
      <3>1. \A v \in Live : name[v] \in Names /\ mail'[v] \in Mails
        BY <1>1, <2>4, <2>5 DEF ColumnsTypeOK
      <3>2. \A v, w \in Live : v # w => name[v] # name[w] /\ mail'[v] # mail'[w]
        BY <1>1, <2>2, <2>4, <2>5 DEF ColumnsTypeOK
      <3>3. enabled' \in SUBSET Live /\ verified' \in SUBSET Live
        BY <1>1, <2>2 DEF ColumnsTypeOK, With
      <3> QED
        BY <1>1, <2>4, <2>5, <3>1, <3>2, <3>3 DEF ColumnsTypeOK, rows, tokens
    <2>7. HistoryTypeOK'
      BY <1>1, <2>2, <2>4 DEF HistoryTypeOK, With, tokens
    <2>8. TokensOK'
      <3>1. \A v \in Live \ moved : mail'[v] = mail[v]
        BY <2>3, <2>4, <2>5
      <3> QED
        BY <1>1, <2>4, <3>1 DEF AccountsInv, TokensOK, tokens
    <2>9. EditsStand'
      <3>1. ASSUME settled'[u] # None PROVE settled'[u] = [mail |-> mail'[u], on |-> u \in enabled']
        <4>1. settled'[u] = [mail |-> m, on |-> b]
          BY <1>1, <2>3, <3>1
        <4>2. (u \in enabled') = b
          BY <2>2 DEF With
        <4> QED
          BY <2>5, <4>1, <4>2
      <3>2. ASSUME NEW v \in Live, v # u, settled'[v] # None
            PROVE  settled'[v] = [mail |-> mail'[v], on |-> v \in enabled']
        <4>1. v \in enabled' <=> v \in enabled
          BY <2>2, <3>2 DEF With
        <4>2. settled[v] = [mail |-> mail[v], on |-> v \in enabled]
          BY <1>1, <3>2 DEF AccountsInv, EditsStand
        <4> QED
          BY <1>1, <2>4, <2>5, <3>2, <4>1, <4>2
      <3> QED
        BY <2>4, <3>1, <3>2 DEF EditsStand
    <2>10. VerifiedForCause'
      BY <1>1, <2>2, <2>3 DEF AccountsInv, VerifiedForCause, With
    <2>11. Keeps
      BY <1>1, <2>2, <2>4 DEF Keeps, Linked, rows, tokens
    <2>12. KeepsCopies
      BY <1>1, <2>3, <2>4, <2>5 DEF KeepsCopies
    <2>13. Moves(r) /\ Places(r, "unrequire", task[r], u, k, None, None)
      <3>1. Held(u, k, None, None) /\ "unrequire" \in Steps
        BY <2>1 DEF Held, Steps
      <3>2. Goto(r, "unrequire") /\ Keep(r, u, k, None, None)
        BY <1>4, <2>1
      <3> QED
        BY <1>1, <3>1, <3>2, Went
    <2>14. RequestOK(r)'
      BY <1>1, <2>1, <2>2, <2>13
      DEF Places, RequestOK, HeldTypeOK, ProgressOK, CopyOK, MakingSteps
    <2> QED
      BY <1>2, <2>4, <2>6, <2>7, <2>8, <2>9, <2>10, <2>11, <2>12, <2>13, <2>14, Combine
      DEF TablesOK, Passes, NewAreMade
  <1> QED
    BY <1>3, <1>4 DEF WriteAccount

-----------------------------------------------------------------------------
(* Administrators.                                                         *)
LEMMA StepCreateUser ==
    ASSUME AccountsInv, NEW u \in Users, NEW n \in Names, NEW m \in Mails, NEW v \in BOOLEAN,
           CreateUser(u, n, m, v)
    PROVE  AccountsInv'
  <1>1. Insert(u, n, m, v, None) /\ UNCHANGED <<rows, tokens, locals>>
    BY DEF CreateUser
  <1>2. /\ Keeps /\ KeepsCopies /\ TablesOK'
        /\ Live' = Live \union {u} /\ origin'[u] = None
    BY <1>1, Inserted
  <1>3. Done(u)'
    BY <1>2, NoneAssumption DEF Done, Registered, Linked
  <1> QED
    BY <1>1, <1>2, <1>3, CombineStill

LEMMA StepDeleteUser ==
    ASSUME AccountsInv, NEW u \in Users, DeleteUser(u) PROVE AccountsInv'
  BY Removed, CombineStill DEF DeleteUser

LEMMA StepUpdateUser ==
    ASSUME AccountsInv, NEW r \in Requests, NEW u \in Users, NEW m \in Mails,
           NEW v \in BOOLEAN, NEW on \in BOOLEAN, NEW t \in {"demand", "release", None},
           UpdateUser(r, u, m, v, on, t)
    PROVE  AccountsInv'
  <1> USE NoneAssumption
  <1>1. /\ pc[r] = "idle" /\ u \in Live
        /\ mail' = [mail EXCEPT ![u] = m]
        /\ enabled' = With(enabled, u, on)
        /\ verified' = With(verified, u, v)
        /\ confirmed' = With(confirmed, u, v \/ (m = mail[u] /\ u \in confirmed))
        /\ moved' = With(moved, u, u \in moved \/ (m # mail[u] /\ Outstanding(u)))
        /\ settled' = [settled EXCEPT ![u] = IF Verifying(u) THEN None ELSE [mail |-> m, on |-> on]]
        /\ excused' = excused \union {u}
        /\ UNCHANGED <<account, name, rows, tokens, origin>>
        /\ \A w \in Live \ {u} : mail[w] # m
    BY DEF UpdateUser, MailFree
  <1>2. ColumnsTypeOK /\ HistoryTypeOK /\ TokensOK /\ EditsStand /\ VerifiedForCause /\ LocalsTypeOK
    BY DEF AccountsInv
  <1>3. Live' = Live /\ \A w \in Live : w \in Users
    BY <1>1 DEF Live
  <1>4. /\ mail' \in [Users -> Mails \union {None}] /\ mail'[u] = m
        /\ \A w \in Users : w # u => mail'[w] = mail[w]
    BY <1>1, <1>2 DEF ColumnsTypeOK
  <1>5. ColumnsTypeOK'
    <2>1. \A w \in Live : name[w] \in Names /\ mail'[w] \in Mails
      BY <1>2, <1>3, <1>4 DEF ColumnsTypeOK
    <2>2. \A w, x \in Live : w # x => name[w] # name[x] /\ mail'[w] # mail'[x]
      BY <1>1, <1>2, <1>3, <1>4 DEF ColumnsTypeOK
    <2>3. enabled' \in SUBSET Live /\ verified' \in SUBSET Live
      BY <1>1, <1>2 DEF ColumnsTypeOK, With
    <2> QED
      BY <1>1, <1>2, <1>3, <1>4, <2>1, <2>2, <2>3 DEF ColumnsTypeOK, rows, tokens
  <1>6. /\ settled' \in [Users -> Profile \union {None}]
        /\ settled'[u] \in {None, [mail |-> m, on |-> on]}
        /\ Verifying(u) => settled'[u] = None
        /\ \A w \in Users : w # u => settled'[w] = settled[w]
    <2>1. PICK c : c = IF Verifying(u) THEN None ELSE [mail |-> m, on |-> on]
      OBVIOUS
    <2>2. c \in Profile \union {None} /\ settled' = [settled EXCEPT ![u] = c]
      BY <1>1, <2>1 DEF Profile
    <2> QED
      BY <1>2, <2>1, <2>2 DEF HistoryTypeOK
  <1>7. HistoryTypeOK'
    BY <1>1, <1>2, <1>3, <1>6 DEF HistoryTypeOK, With, tokens
  <1>8. u \notin moved' => u \notin moved /\ (Outstanding(u) => m = mail[u])
    BY <1>1 DEF With
  <1>9. moved \subseteq moved' /\ moved' \subseteq moved \union {u}
    BY <1>1 DEF With
  <1>10. TokensOK'
    <2>1. ASSUME NEW k \in Tokens, addressee[k] \in Live \ moved', k \notin spent
          PROVE  sentTo[k] = mail'[addressee[k]]
      <3>1. sentTo[k] = mail[addressee[k]]
        BY <1>2, <1>9, <2>1 DEF TokensOK
      <3>2. addressee[k] = u => m = mail[u]
        BY <1>8, <2>1 DEF Outstanding
      <3> QED
        BY <1>3, <1>4, <2>1, <3>1, <3>2
    <2> QED
      BY <1>1, <1>3, <2>1 DEF TokensOK, tokens
  <1>11. EditsStand'
    <2>1. ASSUME settled'[u] # None PROVE settled'[u] = [mail |-> mail'[u], on |-> u \in enabled']
      <3>1. settled'[u] = [mail |-> m, on |-> on]
        BY <1>6, <2>1
      <3>2. (u \in enabled') = on
        BY <1>1 DEF With
      <3> QED
        BY <1>4, <3>1, <3>2
    <2>2. ASSUME NEW w \in Live, w # u, settled'[w] # None
          PROVE  settled'[w] = [mail |-> mail'[w], on |-> w \in enabled']
      <3>1. w \in enabled' <=> w \in enabled
        BY <1>1, <2>2 DEF With
      <3>2. settled[w] = [mail |-> mail[w], on |-> w \in enabled]
        BY <1>2, <1>3, <1>6, <2>2 DEF EditsStand
      <3> QED
        BY <1>3, <1>4, <1>6, <2>2, <3>1, <3>2
    <2> QED
      BY <1>3, <2>1, <2>2 DEF EditsStand
  <1>12. VerifiedForCause'
    <2>1. \A w \in verified' : w # u => w \in confirmed' \union moved'
      BY <1>1, <1>2 DEF VerifiedForCause, With
    <2>2. u \in verified' => u \in confirmed'
      BY <1>1 DEF With
    <2> QED
      BY <2>1, <2>2 DEF VerifiedForCause
  <1>13. Keeps
    <2>1. \A w \in Live : w # u => (w \in verified => w \in verified')
      BY <1>1 DEF With
    <2> QED
      BY <1>1, <1>3, <1>9, <2>1 DEF Keeps, Linked, rows, tokens
  <1>14. KeepsCopies
    <2> SUFFICES ASSUME NEW q \in Requests, who[q] \in Live
                 PROVE  /\ who[q] \notin moved' /\ pc[q] \in {"token", "read", "write"} =>
                              mail'[who[q]] = mail[who[q]]
                        /\ pc[q] = "write" => settled'[who[q]] \in {settled[who[q]], None}
      BY DEF KeepsCopies
    <2>1. CASE who[q] = u
      <3>1. pc[q] \in {"token", "read", "write"} => Outstanding(u)
        BY <2>1 DEF Outstanding
      <3>2. pc[q] = "write" => Verifying(u)
        BY <2>1 DEF Verifying
      <3> QED
        BY <1>4, <1>6, <1>8, <2>1, <3>1, <3>2
    <2>2. CASE who[q] # u
      BY <1>3, <1>4, <1>6, <2>2
    <2> QED
      BY <2>1, <2>2
  <1>15. TablesOK'
    BY <1>5, <1>7, <1>10, <1>11, <1>12 DEF TablesOK
  <1>16. CASE UNCHANGED locals
    BY <1>3, <1>13, <1>14, <1>15, <1>16, CombineStill
  <1>17. CASE t # None /\ Enter(r, "clear", t) /\ Keep(r, u, None, None, None)
    <2>1. Held(u, None, None, None) /\ "clear" \in Steps /\ t \in Tasks \ Registering
      BY <1>17 DEF Held, Steps, Tasks, Registering
    <2>2. Moves(r) /\ Places(r, "clear", t, u, None, None, None)
      BY <1>2, <1>17, <2>1, Entered
    <2>3. RequestOK(r)'
      BY <1>1, <2>1, <2>2 DEF Places, RequestOK, HeldTypeOK, ProgressOK, CopyOK, Live
    <2>4. Passes(r) /\ NewAreMade(r)
      BY <1>1, <1>3, NotMaking DEF Passes, NewAreMade, MakingSteps
    <2> QED
      BY <1>13, <1>14, <1>15, <2>2, <2>3, <2>4, Combine
  <1> QED
    BY <1>16, <1>17 DEF UpdateUser

-----------------------------------------------------------------------------
(* The first login of a subject.                                           *)
LEMMA StepCreateBrokered ==
    ASSUME AccountsInv, NEW r \in Requests, NEW u \in Users, CreateBrokered(r, u) PROVE AccountsInv'
  <1> USE NoneAssumption
  <1>1. PICK s \in Subjects : s = subj[r]
    BY DEF CreateBrokered, AccountsInv, RequestOK, HeldTypeOK
  <1>2. pc[r] = "create" /\ UNCHANGED <<rows, tokens>> /\ LocalsTypeOK /\ RequestOK(r)
    BY DEF CreateBrokered, AccountsInv
  <1>3. \A w : ~ Making(r, w)
    BY <1>2, NotMaking DEF MakingSteps
  <1>4. CASE /\ Insert(u, NameOf[s], MailOf[s], task[r] = "trust", s)
             /\ Enter(r, "link", None)
             /\ Keep(r, u, None, None, s)
    <2>1. PICK v \in BOOLEAN : Insert(u, NameOf[s], MailOf[s], v, s)
      <3>1. CASE task[r] = "trust"
        <4>1. Insert(u, NameOf[s], MailOf[s], TRUE, s)
          BY <1>4, <3>1 DEF Insert, With
        <4> QED
          BY <4>1
      <3>2. CASE task[r] # "trust"
        <4>1. Insert(u, NameOf[s], MailOf[s], FALSE, s)
          BY <1>4, <3>2 DEF Insert, With
        <4> QED
          BY <4>1
      <3> QED
        BY <3>1, <3>2
    <2>2. NameOf[s] \in Names /\ MailOf[s] \in Mails
      BY ProfileAssumption
    <2>3. /\ Keeps /\ KeepsCopies /\ TablesOK'
          /\ u \notin Live /\ Live' = Live \union {u}
          /\ account' = [account EXCEPT ![u] = "live"] /\ origin'[u] = s
          /\ u \notin excused'
      BY <1>2, <2>1, <2>2, Inserted
    <2>4. account'[u] = "live"
      BY <2>3 DEF AccountsInv, ColumnsTypeOK
    <2>5. Moves(r) /\ Places(r, "link", None, u, None, None, s)
      BY <1>2, <1>4, Entered, "link" \in Steps DEF Held, Steps
    <2>6. RequestOK(r)'
      BY <2>3, <2>4, <2>5 DEF Places, RequestOK, HeldTypeOK, ProgressOK, CopyOK, Registering
    <2>7. NewAreMade(r)
      <3>1. origin'[u] # "refused"
        BY <2>3, OriginAssumption
      <3> QED
        BY <2>3, <2>5, <3>1 DEF NewAreMade, Making, Places
    <2> QED
      BY <1>3, <2>3, <2>5, <2>6, <2>7, Combine DEF Passes
  <1>5. CASE Finish(r) /\ UNCHANGED <<users, history>>
    BY <1>2, <1>3, <1>5, Untouched, Ends
  <1> QED
    BY <1>1, <1>4, <1>5 DEF CreateBrokered

LEMMA StepCreateLink ==
    ASSUME AccountsInv, NEW r \in Requests, CreateLink(r) PROVE AccountsInv'
  <1> USE NoneAssumption
  <1>1. /\ pc[r] = "link" /\ Finish(r)
        /\ UNCHANGED <<users, password, mustVerify, tokens, history>>
        /\ ColumnsTypeOK /\ RequestOK(r)
    BY DEF CreateLink, AccountsInv
  <1>2. PICK s \in Subjects : s = subj[r]
    BY <1>1 DEF RequestOK, HeldTypeOK
  <1>3. link' = IF link[s] = None /\ who[r] \in Live /\ \A x \in Subjects : link[x] # who[r]
                  THEN [link EXCEPT ![s] = who[r]]
                  ELSE link
    BY <1>2 DEF CreateLink
  <1>4. Live' = Live
    BY <1>1 DEF Live, users
  <1>5. /\ link' \in [Subjects -> Live \union {None}]
        /\ \A x \in Subjects : link[x] # None => link'[x] = link[x]
    BY <1>1, <1>3 DEF ColumnsTypeOK
  <1>6. TablesOK'
    <2>1. ColumnsTypeOK'
      BY <1>1, <1>4, <1>5 DEF ColumnsTypeOK, users, tokens
    <2>2. HistoryTypeOK' /\ TokensOK' /\ EditsStand' /\ VerifiedForCause'
      BY <1>1, <1>4 DEF AccountsInv, HistoryTypeOK, TokensOK, EditsStand, VerifiedForCause, users, tokens, history
    <2> QED
      BY <2>1, <2>2 DEF TablesOK
  <1>7. Keeps
    <2>1. ASSUME NEW u \in Live, Linked(u) PROVE Linked(u)'
      <3>1. u \in Users
        BY DEF Live
      <3> QED
        BY <1>1, <1>5, <2>1, <3>1 DEF Linked, history
    <2> QED
      BY <1>1, <1>4, <2>1 DEF Keeps, users, tokens, history
  <1>8. KeepsCopies /\ NewAreMade(r)
    BY <1>1, <1>4 DEF KeepsCopies, NewAreMade, users, history
  <1>9. ASSUME NEW u \in Live, u \notin excused, Making(r, u) PROVE Done(u)'
    <2>1. task[r] \notin Registering
      BY <1>1 DEF RequestOK, ProgressOK, MakingSteps
    <2>2. who[r] = u /\ origin[u] = s /\ origin'[u] = s
      BY <1>1, <1>2, <1>9, <2>1 DEF Making, history
    <2>3. Linked(u)'
      BY <1>1, <1>3, <1>5, <2>2 DEF Linked, ColumnsTypeOK
    <2>4. s # "registered" /\ s # "refused"
      BY OriginAssumption
    <2> QED
      BY <2>2, <2>3, <2>4 DEF Done, Registered
  <1> QED
    BY <1>1, <1>4, <1>6, <1>7, <1>8, <1>9, Ends DEF history

LEMMA StepAbort ==
    ASSUME AccountsInv, NEW r \in Requests, Abort(r) PROVE AccountsInv'
  <1>1. /\ Finish(r) /\ UNCHANGED <<users, rows, tokens, origin, settled, confirmed, moved>>
        /\ excused' = excused \union {u \in Live : Making(r, u)}
    BY DEF Abort
  <1> USE DEF users, rows, tokens
  <1>2. Live' = Live
    BY <1>1 DEF Live
  <1>3. ColumnsTypeOK' /\ HistoryTypeOK'
    BY <1>1, <1>2 DEF AccountsInv, ColumnsTypeOK, HistoryTypeOK
  <1>4. TokensOK' /\ EditsStand' /\ VerifiedForCause'
    BY <1>1, <1>2 DEF AccountsInv, TokensOK, EditsStand, VerifiedForCause
  <1>5. Keeps /\ KeepsCopies
    BY <1>1, <1>2 DEF Keeps, KeepsCopies, Linked
  <1> QED
    BY <1>1, <1>2, <1>3, <1>4, <1>5, Ends DEF TablesOK, NewAreMade

-----------------------------------------------------------------------------
LEMMA Initially == Init => AccountsInv
  <1> SUFFICES ASSUME Init PROVE AccountsInv
    OBVIOUS
  <1> USE NoneAssumption DEF Init
  <1>1. Live = {}
    BY DEF Live
  <1>2. ColumnsTypeOK /\ HistoryTypeOK /\ TokensOK /\ EditsStand /\ VerifiedForCause
    BY <1>1 DEF ColumnsTypeOK, HistoryTypeOK, TokensOK, EditsStand, VerifiedForCause
  <1>3. LocalsTypeOK
    BY DEF LocalsTypeOK, Steps
  <1>4. \A r \in Requests : RequestOK(r)
    BY <1>1 DEF RequestOK, HeldTypeOK, ProgressOK, CopyOK, Registering
  <1>5. \A u \in Users : MadeOK(u)
    BY <1>1 DEF MadeOK
  <1> QED
    BY <1>2, <1>3, <1>4, <1>5 DEF AccountsInv

LEMMA EveryStep == AccountsInv /\ [Next]_vars => AccountsInv'
  <1> SUFFICES ASSUME AccountsInv, [Next]_vars PROVE AccountsInv'
    OBVIOUS
  <1>1. CASE Administration
    BY <1>1, StepCreateUser, StepUpdateUser, StepDeleteUser DEF Administration
  <1>2. ASSUME NEW r \in Requests, Registration(r) PROVE AccountsInv'
    BY <1>2, StepRegister, StepSetPassword, StepRequireVerification, StepRollBack DEF Registration
  <1>3. ASSUME NEW r \in Requests, Mailing(r) PROVE AccountsInv'
    BY <1>3, StepResend, StepReadAddress, StepInsertToken, StepDeliver DEF Mailing
  <1>4. ASSUME NEW r \in Requests, Verification(r) PROVE AccountsInv'
    BY <1>4, StepVerify, StepReadAccount, StepWriteAccount, StepUnrequire, StepMarkUsed DEF Verification
  <1>5. ASSUME NEW r \in Requests, BrokeredLogin(r) PROVE AccountsInv'
    BY <1>5, StepFindLink, StepFindByMail, StepCreateBrokered, StepCreateLink DEF BrokeredLogin
  <1>6. ASSUME NEW r \in Requests, ClearActions(r) \/ AddAction(r) \/ Abort(r) PROVE AccountsInv'
    BY <1>6, StepClearActions, StepAddAction, StepAbort
  <1>7. ASSUME NEW t \in Tokens, LifetimeElapses(t) PROVE AccountsInv'
    BY <1>7, StepLifetimeElapses
  <1>8. CASE UNCHANGED vars
    <2>1. UNCHANGED <<users, rows, tokens, history>> /\ UNCHANGED locals
      BY <1>8 DEF vars
    <2>2. \A u \in Live' \ Live : Done(u)'
      BY <2>1, Untouched
    <2> QED
      BY <2>1, <2>2, Untouched, CombineStill
  <1> QED
    BY <1>1, <1>2, <1>3, <1>4, <1>5, <1>6, <1>7, <1>8 DEF Next

LEMMA Inductive == Spec => []AccountsInv
  BY Initially, EveryStep, PTL DEF Spec

(* The tables satisfy their constraints and every request is at a step     *)
(* with what it needs.                                                     *)
THEOREM TypeCorrect == Spec => []TypeOK
  <1>1. Init => edits \in 0 .. MaxEdits
    BY MaxEditsAssumption DEF Init
  <1>2. edits \in 0 .. MaxEdits /\ [Next]_vars => (edits \in 0 .. MaxEdits)'
    BY MaxEditsAssumption DEF Next, vars
  <1>3. Spec => [](edits \in 0 .. MaxEdits)
    BY <1>1, <1>2, PTL DEF Spec
  <1>4. AccountsInv /\ edits \in 0 .. MaxEdits => TypeOK
    BY DEF AccountsInv, RequestOK, TypeOK
  <1> QED
    BY <1>3, <1>4, Inductive, PTL

(* What was last decided about an account stands.                          *)
THEOREM DecisionsStand == Spec => []EditsStand
  BY Inductive, PTL DEF AccountsInv

(* An address counts as verified for a cause.                              *)
THEOREM ConfirmedOrMoved == Spec => []VerifiedForCause
  BY Inductive, PTL DEF AccountsInv

(* Registration is all or nothing.                                         *)
THEOREM AllOrNothing == Spec => []RegistrationIsAllOrNothing
  <1>1. AccountsInv => RegistrationIsAllOrNothing
    BY DEF AccountsInv, MadeOK, Done, Registered, RegistrationIsAllOrNothing, Live
  <1> QED
    BY <1>1, Inductive, PTL

(* An account created for a subject is linked.                             *)
THEOREM BrokeredLinked == Spec => []BrokeredAccountsAreLinked
  <1>1. AccountsInv => BrokeredAccountsAreLinked
    BY DEF AccountsInv, MadeOK, Done, Linked, BrokeredAccountsAreLinked, Live
  <1> QED
    BY <1>1, Inductive, PTL
=============================================================================
