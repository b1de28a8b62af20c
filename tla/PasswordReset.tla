---------------------------- MODULE PasswordReset ----------------------------
(***************************************************************************)
(* Passwords and the links that reset them: table password_reset_tokens,   *)
(* the password rows of table credentials, and the handlers that replace a *)
(* password (complete_password_reset with a token, update_password by the  *)
(* user, reset_password by an administrator).  A replacement is a SELECT,  *)
(* a DELETE by id and an INSERT, each on its own; a unique index allows    *)
(* one password row per user.                                              *)
(***************************************************************************)
EXTENDS TridentParameters

VARIABLES
    status,     \* of a token: "unborn", "stored" or "deleted"
    owner,      \* column user_id of a token
    late,       \* tokens whose expires_at has passed
    password,   \* the password row of each user
    mustUpdate, \* users with the required action UpdatePassword
    live,       \* accounts that exist
    pc, target, token, row,
    setFor,     \* history: the user a password row was inserted for
    cut         \* history: users whose replacement was cut off, or whose
                \* password an administrator has deleted

tokens == <<status, owner, late>>
accounts == <<password, mustUpdate, live>>
locals == <<pc, target, token, row>>
history == <<setFor, cut>>
vars == <<tokens, accounts, locals, history>>

Steps == {"idle", "cleanup", "issue", "drop", "find", "delete", "create", "retire", "unrequire"}

TypeOK ==
    /\ status \in [Tokens -> {"unborn", "stored", "deleted"}]
    /\ owner \in [Tokens -> Users \union {None}]
    /\ late \in SUBSET Tokens
    /\ password \in [Users -> Rows \union {None}]
    /\ mustUpdate \in SUBSET live
    /\ live \in SUBSET Users
    /\ pc \in [Requests -> Steps]
    /\ target \in [Requests -> Users \union {None}]
    /\ token \in [Requests -> Tokens \union {None}]
    /\ row \in [Requests -> Rows \union {None}]
    /\ \A r \in Requests :
          /\ pc[r] # "idle" => target[r] \in Users
          /\ pc[r] \in {"drop", "retire"} => token[r] \in Tokens
          /\ pc[r] = "delete" => setFor[row[r]] = target[r]
    /\ \A t \in Tokens : status[t] = "stored" => owner[t] \in live
    /\ \A u \in Users : password[u] # None => u \in live /\ setFor[password[u]] = u
    /\ setFor \in [Rows -> Users \union {None}]
    /\ cut \in SUBSET Users

Init ==
    /\ status = [t \in Tokens |-> "unborn"]
    /\ owner = [t \in Tokens |-> None]
    /\ late = {}
    /\ password = [u \in Users |-> None]
    /\ mustUpdate = {}
    /\ live = Users
    /\ pc = [r \in Requests |-> "idle"]
    /\ target = [r \in Requests |-> None]
    /\ token = [r \in Requests |-> None]
    /\ row = [r \in Requests |-> None]
    /\ setFor = [p \in Rows |-> None]
    /\ cut = {}

-----------------------------------------------------------------------------
Stored == {t \in Tokens : status[t] = "stored"}
TokensOf(u) == {t \in Stored : owner[t] = u}
Active(u) == TokensOf(u) \ late
Drop(ts) == status' = [t \in Tokens |-> IF t \in ts THEN "deleted" ELSE status[t]]

Enter(r, step, u, t, p) ==
    /\ pc' = [pc EXCEPT ![r] = step]
    /\ target' = [target EXCEPT ![r] = u]
    /\ token' = [token EXCEPT ![r] = t]
    /\ row' = [row EXCEPT ![r] = p]

Goto(r, step) == Enter(r, step, target[r], token[r], None)
Finish(r) == Enter(r, "idle", None, None, None)

-----------------------------------------------------------------------------
(* request_password_reset.                                                 *)

\* A slip: the limit is not looked at.
RequestUnlimited(r, u) ==
    /\ pc[r] = "idle"
    /\ u \in live
    /\ Enter(r, "cleanup", u, None, None)
    /\ UNCHANGED <<tokens, accounts, history>>

\* The user is found by email and its unexpired tokens are counted.
Request(r, u) ==
    /\ pc[r] = "idle"
    /\ u \in live
    /\ Cardinality(Active(u)) < MaxActive
    /\ Enter(r, "cleanup", u, None, None)
    /\ UNCHANGED <<tokens, accounts, history>>

\* cleanup_expired: of all users.
Cleanup(r) ==
    /\ pc[r] = "cleanup"
    /\ Drop(Stored \intersect late)
    /\ Goto(r, "issue")
    /\ UNCHANGED <<owner, late, accounts, history>>

\* create: user_id references users.
IssueToken(r, t) ==
    /\ pc[r] = "issue"
    /\ Fresh({t}, Tokens, {s \in Tokens : status[s] # "unborn"})
    /\ IF target[r] \in live
         THEN /\ status' = [status EXCEPT ![t] = "stored"]
              /\ owner' = [owner EXCEPT ![t] = target[r]]
         ELSE UNCHANGED <<status, owner>>
    /\ Finish(r)
    /\ UNCHANGED <<late, accounts, history>>

-----------------------------------------------------------------------------
(* verify_reset_token, complete_password_reset.                            *)

\* The token is read once; an expired one, or one presented with the wrong
\* secret, is to be deleted.  A password the policy refuses ends the request.
Present(r, t) ==
    /\ pc[r] = "idle"
    /\ t \in Stored
    /\ \/ Enter(r, "drop", owner[t], t, None)
       \/ t \notin late /\ Enter(r, "find", owner[t], t, None)
    /\ UNCHANGED <<tokens, accounts, history>>

DropToken(r) ==
    /\ pc[r] = "drop"
    /\ Drop(Stored \intersect {token[r]})
    /\ Finish(r)
    /\ UNCHANGED <<owner, late, accounts, history>>

\* update_password and reset_password: get_password_credential decides
\* whether there is a row to delete.
Replace(r, u) ==
    /\ pc[r] = "idle"
    /\ u \in live
    /\ Enter(r, IF password[u] = None THEN "create" ELSE "find", u, None, None)
    /\ UNCHANGED <<tokens, accounts, history>>

-----------------------------------------------------------------------------
(* delete_password_credential, create_credential and what follows.         *)

\* The row is looked up again.  Without one, update_password and
\* reset_password fail; complete_password_reset ignores any failure.
Find(r) ==
    /\ pc[r] = "find"
    /\ LET p == password[target[r]] IN
       \/ p # None /\ Enter(r, "delete", target[r], token[r], p)
       \/ token[r] # None /\ Goto(r, "create")
       \/ p = None /\ token[r] = None /\ Finish(r)
    /\ UNCHANGED <<tokens, accounts, history>>

\* A slip: the policy is checked when the old password is already gone.
DeleteThenValidate(r) ==
    /\ pc[r] = "delete"
    /\ password' = [u \in Users |-> IF password[u] = row[r] THEN None ELSE password[u]]
    /\ Goto(r, "create") \/ Finish(r)
    /\ UNCHANGED <<tokens, mustUpdate, live, history>>

\* DELETE ... WHERE id: no error when the row is already gone.
Delete(r) ==
    /\ pc[r] = "delete"
    /\ password' = [u \in Users |-> IF password[u] = row[r] THEN None ELSE password[u]]
    /\ Goto(r, "create")
    /\ UNCHANGED <<tokens, mustUpdate, live, history>>

\* INSERT: fails on the unique index when there is a row, and without user.
Create(r, p) ==
    /\ pc[r] = "create"
    /\ Fresh({p}, Rows, {q \in Rows : setFor[q] # None})
    /\ LET u == target[r] IN
       IF u \in live /\ password[u] = None
         THEN /\ password' = [password EXCEPT ![u] = p]
              /\ setFor' = [setFor EXCEPT ![p] = u]
              /\ Goto(r, IF token[r] = None THEN "unrequire" ELSE "retire")
         ELSE /\ Finish(r)
              /\ UNCHANGED <<password, setFor>>
    /\ UNCHANGED <<tokens, mustUpdate, live, cut>>

\* delete_all_by_user_id.
Retire(r) ==
    /\ pc[r] = "retire"
    /\ Drop(TokensOf(target[r]))
    /\ Goto(r, "unrequire")
    /\ UNCHANGED <<owner, late, accounts, history>>

\* remove_required_action: not called by reset_password, and best effort in
\* complete_password_reset.
Unrequire(r) ==
    /\ pc[r] = "unrequire"
    /\ mustUpdate' \in {mustUpdate, mustUpdate \ {target[r]}}
    /\ Finish(r)
    /\ UNCHANGED <<tokens, password, live, history>>

-----------------------------------------------------------------------------
(* Time, accounts, failures.                                               *)

\* delete_credential, by an administrator.
DeleteCredential(u) ==
    /\ password[u] # None
    /\ password' = [password EXCEPT ![u] = None]
    /\ cut' = cut \union {u}
    /\ UNCHANGED <<tokens, mustUpdate, live, locals, setFor>>

LifetimeElapses(t) ==
    /\ t \in Stored
    /\ late' = late \union {t}
    /\ UNCHANGED <<status, owner, accounts, locals, history>>

\* An administrator's update_user clears the required actions of the user and
\* adds those it is given one by one; it may fail on the way.
RequireActions(u) ==
    /\ u \in live
    /\ mustUpdate' \in {mustUpdate \union {u}, mustUpdate \ {u}}
    /\ UNCHANGED <<tokens, password, live, locals, history>>

\* DELETE FROM users: ON DELETE CASCADE on tokens, credentials and actions.
DeleteUser(u) ==
    /\ u \in live
    /\ live' = live \ {u}
    /\ Drop(TokensOf(u))
    /\ password' = [password EXCEPT ![u] = None]
    /\ mustUpdate' = mustUpdate \ {u}
    /\ UNCHANGED <<owner, late, locals, history>>

\* A database error, a lost connection or a crash between two statements.
Abort(r) ==
    /\ pc[r] # "idle"
    /\ cut' = IF pc[r] = "create" THEN cut \union {target[r]} ELSE cut
    /\ Finish(r)
    /\ UNCHANGED <<tokens, accounts, setFor>>

-----------------------------------------------------------------------------
Link(r) ==
    \/ \E u \in Users : Request(r, u)
    \/ Cleanup(r)
    \/ \E t \in Tokens : IssueToken(r, t) \/ Present(r, t)
    \/ DropToken(r)
    \/ Retire(r)

Change(r) ==
    \/ \E u \in Users : Replace(r, u)
    \/ Find(r)
    \/ Delete(r)
    \/ \E p \in Rows : Create(r, p)
    \/ Unrequire(r)

Next ==
    \/ \E r \in Requests : Link(r) \/ Change(r) \/ Abort(r)
    \/ \E t \in Tokens : LifetimeElapses(t)
    \/ \E u \in Users : DeleteCredential(u) \/ RequireActions(u) \/ DeleteUser(u)

Spec == Init /\ [][Next]_vars

-----------------------------------------------------------------------------
HadPassword(u) == \E p \in Rows : setFor[p] = u
Replacing(u) == \E r \in Requests : target[r] = u /\ pc[r] = "create"

(* A user who has had a password is without one only while a request is    *)
(* about to insert the new one, after such a request was cut off, or after *)
(* an administrator deleted the credential: no crossing of resets,         *)
(* changes, failed insertions and ignored errors alone leaves an account   *)
(* without a password.                                                     *)
LostOnlyByCrash ==
    \A u \in live : password[u] = None /\ HadPassword(u) => Replacing(u) \/ u \in cut

(* The count and the insertion are two statements, so the limit can be     *)
(* exceeded, but by no more than the requests that overlap.                *)
OvershootIsBounded ==
    \A u \in Users : Cardinality(Active(u)) < MaxActive + Cardinality(Requests)
=============================================================================
