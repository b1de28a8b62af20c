---------------------------- MODULE RefreshTokens ----------------------------
(***************************************************************************)
(* Refresh-token rotation (RFC 6749 section 6, RFC 9700 section 4.14) as   *)
(* implemented by AuthServiceImpl::refresh_token / revoke_token and by     *)
(* PostgresRefreshTokenRepository.                                         *)
(*                                                                         *)
(* One row of table refresh_tokens per element of Tokens; id and jti are   *)
(* both fresh uuids given to the row at the same moment, so one model      *)
(* value stands for the two.  The rows that one login starts and rotation  *)
(* continues form a family (family_id).                                    *)
(*                                                                         *)
(* HTTP requests interleave at their database statements, under            *)
(* PostgreSQL's default READ COMMITTED isolation.  The only multi-         *)
(* statement transaction is rotate(): its first UPDATE takes the row lock  *)
(* of the old token (LockForRotation); the INSERT of the successor and the *)
(* commit make both effects visible at once (CommitRotation).  An UPDATE   *)
(* over several rows (revoke_family) works on the rows its statement       *)
(* snapshot sees and waits for the locks held on them.                     *)
(***************************************************************************)
CONSTANTS
    Tokens,     \* rows of refresh_tokens that may ever be inserted
    Families,   \* family_id values that may ever be generated
    Users,      \* owners of the families
    Requests,   \* concurrent POST /token (grant_type=refresh_token) requests
    Owner,      \* Owner[f] is the user a family is opened for
    None        \* NULL

ASSUME OwnerAssumption == Owner \in [Families -> Users]
ASSUME NoneAssumption == None \notin Tokens \union Families

VARIABLES
    status,     \* column status; "unborn": not inserted, "deleted": cascaded
    family,     \* column family_id
    replacedBy, \* column replaced_by
    expired,    \* rows whose expires_at has passed
    account,    \* users.enabled, or "deleted" once the row is gone
    held,       \* tokens whose JWT reached a client in a response
    pc,         \* where each refresh request stands
    tok,        \* the row a request read (stored)
    snapshot,   \* rows a running revoke_family UPDATE is working on
    presented,  \* history: tokens sent to the token endpoint at least once
    replayed,   \* history: ... at least twice
    loggedOut   \* history: tokens named in an accepted revocation request

rows == <<status, family, replacedBy>>
history == <<presented, replayed, loggedOut>>
vars == <<rows, expired, account, held, pc, tok, snapshot, history>>

Statuses == {"unborn", "active", "rotated", "revoked", "deleted"}
Persisted == {"active", "rotated", "revoked"}
Steps == {"idle", "checkUser", "rotate", "inTxn", "respond", "revoke", "revoking"}

TypeOK ==
    /\ status \in [Tokens -> Statuses]
    /\ family \in [Tokens -> Families \union {None}]
    /\ replacedBy \in [Tokens -> Tokens \union {None}]
    /\ expired \in SUBSET Tokens
    /\ account \in [Users -> {"enabled", "disabled", "deleted"}]
    /\ held \in SUBSET Tokens
    /\ pc \in [Requests -> Steps]
    /\ tok \in [Requests -> Tokens \union {None}]
    /\ snapshot \in [Requests -> SUBSET Tokens]
    /\ presented \in SUBSET Tokens
    /\ replayed \in SUBSET Tokens
    /\ loggedOut \in SUBSET Tokens

Init ==
    /\ status = [t \in Tokens |-> "unborn"]
    /\ family = [t \in Tokens |-> None]
    /\ replacedBy = [t \in Tokens |-> None]
    /\ expired = {}
    /\ account = [u \in Users |-> "enabled"]
    /\ held = {}
    /\ pc = [r \in Requests |-> "idle"]
    /\ tok = [r \in Requests |-> None]
    /\ snapshot = [r \in Requests |-> {}]
    /\ presented = {}
    /\ replayed = {}
    /\ loggedOut = {}

-----------------------------------------------------------------------------
Members(f) == {t \in Tokens : family[t] = f}

\* Row t is locked by an open rotate() transaction.
Locked(t) == \E r \in Requests : pc[r] = "inTxn" /\ tok[r] = t

\* Revoking UPDATE over the rows ts: both `revoked` and `status` are set,
\* whatever the status was; a row deleted meanwhile is skipped.
RevokeRows(ts) ==
    status' = [t \in Tokens |->
                 IF t \in ts /\ status[t] \in Persisted THEN "revoked" ELSE status[t]]

\* The request ends; its handler's locals are gone.
Finish(r) ==
    /\ pc' = [pc EXCEPT ![r] = "idle"]
    /\ tok' = [tok EXCEPT ![r] = None]
    /\ snapshot' = [snapshot EXCEPT ![r] = {}]

Goto(r, step) ==
    /\ pc' = [pc EXCEPT ![r] = step]
    /\ UNCHANGED <<tok, snapshot>>

-----------------------------------------------------------------------------
(* A login.  create_jwt inserts the access-token row and the first row of  *)
(* a new family concurrently (try_join!); when the other insert fails or   *)
(* the response is lost, the row stays but no client holds its JWT.        *)
Login(t, f) ==
    /\ status[t] = "unborn"
    /\ Members(f) = {}
    /\ account[Owner[f]] # "deleted"
    /\ status' = [status EXCEPT ![t] = "active"]
    /\ family' = [family EXCEPT ![t] = f]
    /\ held' \in {held, held \union {t}}
    /\ UNCHANGED <<replacedBy, expired, account, pc, tok, snapshot, history>>

\* A slip: an expired token is answered like a reused one.
PresentExpiredAsReuse(r, t) ==
    /\ pc[r] = "idle"
    /\ t \in held
    /\ presented' = presented \union {t}
    /\ replayed' = IF t \in presented THEN replayed \union {t} ELSE replayed
    /\ IF status[t] \notin Persisted
         THEN UNCHANGED <<pc, tok>>
         ELSE /\ tok' = [tok EXCEPT ![r] = t]
              /\ pc' = [pc EXCEPT ![r] = IF status[t] = "active" /\ t \notin expired
                                         THEN "checkUser" ELSE "revoke"]
    /\ UNCHANGED <<rows, expired, account, held, snapshot, loggedOut>>

(* refresh_token up to its first branch: verify_refresh_token reads the    *)
(* row by jti (missing: InvalidRefreshToken; past expires_at:              *)
(* ExpiredToken), then a status other than active is taken for reuse.      *)
Present(r, t) ==
    /\ pc[r] = "idle"
    /\ t \in held
    /\ presented' = presented \union {t}
    /\ replayed' = IF t \in presented THEN replayed \union {t} ELSE replayed
    /\ IF status[t] \notin Persisted \/ t \in expired
         THEN UNCHANGED <<pc, tok>>
         ELSE /\ tok' = [tok EXCEPT ![r] = t]
              /\ pc' = [pc EXCEPT ![r] = IF status[t] = "active" THEN "checkUser"
                                                                 ELSE "revoke"]
    /\ UNCHANGED <<rows, expired, account, held, snapshot, loggedOut>>

\* user_repository.get_by_id and the user.enabled check.
CheckUser(r) ==
    /\ pc[r] = "checkUser"
    /\ IF account[Owner[family[tok[r]]]] = "enabled" THEN Goto(r, "rotate") ELSE Finish(r)
    /\ UNCHANGED <<rows, expired, account, held, history>>

(* First statement of rotate(): UPDATE ... WHERE id = old AND status =     *)
(* 'active', after any other transaction on the row has ended.  No row     *)
(* updated: rollback and RotateOutcome::Conflict, which the caller answers *)
(* with revoke_family.                                                     *)
LockForRotation(r) ==
    /\ pc[r] = "rotate"
    /\ ~Locked(tok[r])
    /\ Goto(r, IF status[tok[r]] = "active" THEN "inTxn" ELSE "revoke")
    /\ UNCHANGED <<rows, expired, account, held, history>>

\* A slip: the UPDATE leaves replaced_by NULL.
CommitUnlinked(r, new) ==
    /\ pc[r] = "inTxn"
    /\ status[new] = "unborn"
    /\ status' = [status EXCEPT ![tok[r]] = "rotated", ![new] = "active"]
    /\ family' = [family EXCEPT ![new] = family[tok[r]]]
    /\ Goto(r, "respond")
    /\ UNCHANGED <<replacedBy, expired, account, held, history>>

\* A slip: the successor is inserted, the old row keeps its status.
CommitKeepsOld(r, new) ==
    /\ pc[r] = "inTxn"
    /\ status[new] = "unborn"
    /\ status' = [status EXCEPT ![new] = "active"]
    /\ family' = [family EXCEPT ![new] = family[tok[r]]]
    /\ replacedBy' = [replacedBy EXCEPT ![tok[r]] = new]
    /\ Goto(r, "respond")
    /\ UNCHANGED <<expired, account, held, history>>

\* Second statement of rotate() (INSERT of the successor) and COMMIT.
CommitRotation(r, new) ==
    /\ pc[r] = "inTxn"
    /\ status[new] = "unborn"
    /\ status' = [status EXCEPT ![tok[r]] = "rotated", ![new] = "active"]
    /\ family' = [family EXCEPT ![new] = family[tok[r]]]
    /\ replacedBy' = [replacedBy EXCEPT ![tok[r]] = new]
    /\ Goto(r, "respond")
    /\ UNCHANGED <<expired, account, held, history>>

\* create_jwt signs a JWT for the successor's jti and the response goes out.
Respond(r) ==
    /\ pc[r] = "respond"
    /\ held' = held \union {replacedBy[tok[r]]}
    /\ Finish(r)
    /\ UNCHANGED <<rows, expired, account, history>>

\* revoke_family: the UPDATE statement takes its snapshot of the table ...
StartRevokeFamily(r) ==
    /\ pc[r] = "revoke"
    /\ pc' = [pc EXCEPT ![r] = "revoking"]
    /\ snapshot' = [snapshot EXCEPT ![r] =
                      {t \in Members(family[tok[r]]) : status[t] \in Persisted}]
    /\ UNCHANGED <<rows, expired, account, held, tok, history>>

\* ... waits for the locks on the rows found, and writes those rows.
RevokeFamily(r) ==
    /\ pc[r] = "revoking"
    /\ \A t \in snapshot[r] : ~Locked(t)
    /\ RevokeRows(snapshot[r])
    /\ Finish(r)
    /\ UNCHANGED <<family, replacedBy, expired, account, held, history>>

(* A request dies between two steps: a database error (the handler returns *)
(* InternalServerError), a dropped connection or a server crash.  An open  *)
(* transaction rolls back; a committed successor stays, undelivered.       *)
Abort(r) ==
    /\ pc[r] # "idle"
    /\ Finish(r)
    /\ UNCHANGED <<rows, expired, account, held, history>>

(* POST /revoke with a refresh token: revoke_token checks the JWT only,    *)
(* then revoke_by_jti updates that one row, whatever its status.           *)
RevokeToken(t) ==
    /\ t \in held \ expired
    /\ ~Locked(t)
    /\ RevokeRows({t})
    /\ loggedOut' = loggedOut \union {t}
    /\ UNCHANGED <<family, replacedBy, expired, account, held, pc, tok, snapshot,
                   presented, replayed>>

\* expires_at passes.
Expire(t) ==
    /\ status[t] \in Persisted
    /\ expired' = expired \union {t}
    /\ UNCHANGED <<rows, account, held, pc, tok, snapshot, history>>

\* An administrator disables or re-enables the account (update_user).
SetEnabled(u, state) ==
    /\ account[u] # "deleted"
    /\ account' = [account EXCEPT ![u] = state]
    /\ UNCHANGED <<rows, expired, held, pc, tok, snapshot, history>>

\* A slip: rows of the user are removed without waiting for open rotations.
DeleteUserNoWait(u) ==
    LET owned == {t \in Tokens : family[t] # None /\ Owner[family[t]] = u} IN
    /\ account[u] # "deleted"
    /\ account' = [account EXCEPT ![u] = "deleted"]
    /\ status' = [t \in Tokens |-> IF t \in owned THEN "deleted" ELSE status[t]]
    /\ UNCHANGED <<family, replacedBy, expired, held, pc, tok, snapshot, history>>

(* DELETE FROM users: ON DELETE CASCADE removes the rows of the user's     *)
(* families, so the statement waits for every row lock held on them.       *)
DeleteUser(u) ==
    LET owned == {t \in Tokens : family[t] # None /\ Owner[family[t]] = u} IN
    /\ account[u] # "deleted"
    /\ \A t \in owned : ~Locked(t)
    /\ account' = [account EXCEPT ![u] = "deleted"]
    /\ status' = [t \in Tokens |-> IF t \in owned THEN "deleted" ELSE status[t]]
    /\ UNCHANGED <<family, replacedBy, expired, held, pc, tok, snapshot, history>>

-----------------------------------------------------------------------------
ServerStep(r) ==
    \/ CheckUser(r)
    \/ LockForRotation(r)
    \/ \E new \in Tokens : CommitRotation(r, new)
    \/ Respond(r)
    \/ StartRevokeFamily(r)
    \/ RevokeFamily(r)

Next ==
    \/ \E t \in Tokens, f \in Families : Login(t, f)
    \/ \E r \in Requests, t \in Tokens : Present(r, t)
    \/ \E r \in Requests : ServerStep(r)
    \/ \E r \in Requests : Abort(r)
    \/ \E t \in Tokens : RevokeToken(t)
    \/ \E t \in Tokens : Expire(t)
    \/ \E u \in Users, state \in {"enabled", "disabled"} : SetEnabled(u, state)
    \/ \E u \in Users : DeleteUser(u)

Spec == Init /\ [][Next]_vars

-----------------------------------------------------------------------------
(* What a refresh-token store promises.                                    *)

\* The tokens of family f that the token endpoint would still exchange.
Redeemable(f) == {t \in Members(f) : status[t] = "active"}

(* Whatever the interleaving of logins, rotations, revocations and         *)
(* deletions, a family never holds two tokens that can be exchanged:       *)
(* rotate() consumes the old row and mints the new one atomically.         *)
AtMostOneActive == \A f \in Families : \A s, t \in Redeemable(f) : s = t

(* The rows of a family form one chain: no row has two predecessors, a     *)
(* successor is in its predecessor's family and exists, and only the last  *)
(* row of the chain has no successor, so an active token is always the     *)
(* newest of its family.                                                   *)
LinearChain ==
    /\ \A s, t \in Tokens : replacedBy[s] = replacedBy[t] /\ replacedBy[s] # None => s = t
    /\ \A t \in Tokens : replacedBy[t] # None =>
           /\ family[replacedBy[t]] = family[t]
           /\ status[replacedBy[t]] # "unborn"
    /\ \A f \in Families : \A s, t \in Members(f) :
           replacedBy[s] = None /\ replacedBy[t] = None => s = t

(* A client that presents each of its tokens once and does not log out     *)
(* never loses a family: a row is revoked only when some token of its      *)
(* family was presented twice or named in a revocation request.  Conflicts *)
(* in rotate() and stale reads of the status must not fake a reuse.        *)
RevokedOnlyForCause ==
    \A t \in Tokens : status[t] = "revoked" =>
        \E s \in Members(family[t]) : s \in replayed \union loggedOut

(* Deleting a user leaves no row of its families behind, not even one      *)
(* minted by a rotation that was already past its checks.                  *)
NoRowsOfDeletedUser ==
    \A t \in Tokens : status[t] \in Persisted => account[Owner[family[t]]] # "deleted"

(* A family without an active token never gets one again, whichever        *)
(* requests had read one of its rows as active before: closing a family    *)
(* is final.                                                               *)
ClosedForGood ==
    [][\A f \in Families :
          Members(f) # {} /\ Redeemable(f) = {} => Redeemable(f)' = {}]_vars

(* "Revoke every token that shares the given family_id" (ports.rs:80):     *)
(* when revoke_family returns, the family has no active token.             *)
RevokeFamilyRevokesAll ==
    [][\A r \in Requests, f \in Families :
          RevokeFamily(r) /\ family[tok[r]] = f => Redeemable(f)' = {}]_vars

-----------------------------------------------------------------------------
(* TokenFamilies seen through the rows.                                    *)
Promise == INSTANCE TokenFamilies WITH
    opened <- {f \in Families : Members(f) # {}},
    live   <- [f \in Families |-> Redeemable(f)],
    spent  <- {t \in Tokens : status[t] \in {"rotated", "revoked", "deleted"}}

(* Rows, transactions and requests implement TokenFamilies: every step of  *)
(* the server opens, exchanges or closes families, or cannot be seen.      *)
ImplementsTokenFamilies == Promise!Spec

-----------------------------------------------------------------------------
(* The inductive invariant behind the properties above.                    *)

\* Columns of one row agree: only inserted rows have a family, and an active
\* row has no successor.
RowsAgree ==
    \A t \in Tokens :
        /\ (status[t] = "unborn") = (family[t] = None)
        /\ status[t] \in {"unborn", "active"} => replacedBy[t] = None

\* A request works on an inserted row, a rotation in its transaction on an
\* active one that no other transaction holds; revoke_family's rows are rows
\* of the family.
RequestsAgree ==
    \A r \in Requests :
        /\ pc[r] # "idle" => tok[r] \in Tokens /\ status[tok[r]] # "unborn"
        /\ pc[r] = "inTxn" => status[tok[r]] = "active"
        /\ pc[r] = "respond" => replacedBy[tok[r]] # None
        /\ pc[r] = "revoking" => \A t \in snapshot[r] : family[t] = family[tok[r]]
        /\ pc[r] = "idle" => snapshot[r] = {}
        /\ \A q \in Requests :
              pc[r] = "inTxn" /\ pc[q] = "inTxn" /\ tok[r] = tok[q] => r = q

\* Rows disappear with their owner only.
DeletedWithOwner ==
    \A t \in Tokens : status[t] = "deleted" => account[Owner[family[t]]] = "deleted"

Cause(f) == \E s \in Members(f) : s \in replayed \union loggedOut

\* A request that is about to revoke its family, or would find its row
\* rotated, has a cause: somebody presented the row a second time.
CauseKnown ==
    /\ \A t \in Tokens : status[t] = "rotated" => t \in presented
    /\ \A r \in Requests :
          /\ pc[r] # "idle" => tok[r] \in presented
          /\ pc[r] \in {"checkUser", "rotate"} /\ status[tok[r]] = "rotated"
               => tok[r] \in replayed
          /\ pc[r] \in {"revoke", "revoking"} /\ status[tok[r]] # "deleted"
               => Cause(family[tok[r]])
          /\ \A q \in Requests :
                pc[r] # "idle" /\ pc[q] # "idle" /\ tok[r] = tok[q] /\ r # q
                  => tok[r] \in replayed

Inductive ==
    /\ TypeOK
    /\ RowsAgree
    /\ LinearChain
    /\ RequestsAgree
    /\ NoRowsOfDeletedUser
    /\ DeletedWithOwner
    /\ RevokedOnlyForCause
    /\ CauseKnown
=============================================================================
