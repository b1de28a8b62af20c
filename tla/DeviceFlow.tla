------------------------------ MODULE DeviceFlow ------------------------------
(***************************************************************************)
(* The device authorization grant (RFC 8628): DeviceFlowServiceImpl over   *)
(* table device_auth_sessions.  Two kinds of actors work on one row: the   *)
(* device, which polls with the device code, and users, who approve or     *)
(* deny with the user code.  Every handler reads the row, decides, and     *)
(* later writes it by device code without looking at the status again.     *)
(***************************************************************************)
EXTENDS GrantParameters

VARIABLES
    status,     \* column status; "unborn": not inserted, "deleted": cascaded
    userCode,   \* column user_code
    user,       \* column user_id
    late,       \* rows whose expires_at has passed
    recent,     \* rows whose last poll is less than `interval` ago
    live,       \* accounts that exist
    pc, dev, by, draw,
    approvals,  \* history: who approved which row
    granted     \* history: tokens issued for a row, and for whom

columns == <<status, userCode, user>>
clock == <<late, recent>>
locals == <<pc, dev, by, draw>>
history == <<approvals, granted>>
vars == <<columns, clock, live, locals, history>>

Stored == {"pending", "approved", "denied", "expired"}
Steps == {"idle", "insert", "approve", "deny", "issue", "expire", "mark"}

TypeOK ==
    /\ status \in [Devices -> Stored \union {"unborn", "deleted"}]
    /\ userCode \in [Devices -> UserCodes \union {None}]
    /\ user \in [Devices -> Users \union {None}]
    /\ late \in SUBSET Devices
    /\ recent \in SUBSET Devices
    /\ live \in SUBSET Users
    /\ pc \in [Requests -> Steps]
    /\ dev \in [Requests -> Devices \union {None}]
    /\ by \in [Requests -> Users \union {None}]
    /\ draw \in [Requests -> UserCodes \union {None}]
    /\ \A r \in Requests :
          /\ pc[r] # "idle" => dev[r] \in Devices
          /\ pc[r] = "insert" => draw[r] \in UserCodes
          /\ pc[r] \in {"approve", "deny", "issue"} => by[r] \in Users
    /\ approvals \in SUBSET (Devices \X Users)
    /\ granted \in SUBSET (Devices \X Users)

Init ==
    /\ status = [d \in Devices |-> "unborn"]
    /\ userCode = [d \in Devices |-> None]
    /\ user = [d \in Devices |-> None]
    /\ late = {}
    /\ recent = {}
    /\ live = Users
    /\ pc = [r \in Requests |-> "idle"]
    /\ dev = [r \in Requests |-> None]
    /\ by = [r \in Requests |-> None]
    /\ draw = [r \in Requests |-> None]
    /\ approvals = {}
    /\ granted = {}

-----------------------------------------------------------------------------
Exists(d) == status[d] \in Stored
Holding(c) == {d \in Devices : Exists(d) /\ userCode[d] = c}

Enter(r, step, d, u, c) ==
    /\ pc' = [pc EXCEPT ![r] = step]
    /\ dev' = [dev EXCEPT ![r] = d]
    /\ by' = [by EXCEPT ![r] = u]
    /\ draw' = [draw EXCEPT ![r] = c]

Finish(r) == Enter(r, "idle", None, None, None)

-----------------------------------------------------------------------------
(* The device authorization endpoint.                                      *)

\* generate_unique_user_code found a code that no row holds (when none of
\* its MAX_USER_CODE_ATTEMPTS draws is free, the request just fails).
Initiate(r, d, c) ==
    /\ pc[r] = "idle"
    /\ status[d] = "unborn"
    /\ \A q \in Requests : dev[q] # d
    /\ Holding(c) = {}
    /\ Enter(r, "insert", d, None, c)
    /\ UNCHANGED <<columns, clock, live, history>>

\* create: a row with the same user code inserted meanwhile makes it fail.
Insert(r) ==
    LET d == dev[r] IN
    /\ pc[r] = "insert"
    /\ IF Holding(draw[r]) = {}
         THEN /\ status' = [status EXCEPT ![d] = "pending"]
              /\ userCode' = [userCode EXCEPT ![d] = draw[r]]
         ELSE UNCHANGED <<status, userCode>>
    /\ Finish(r)
    /\ UNCHANGED <<user, clock, live, history>>

-----------------------------------------------------------------------------
(* The verification page.                                                  *)

\* verify_user_code: only a pending, unexpired row is approved.
VerifyUserCode(r, c, u) ==
    /\ pc[r] = "idle"
    /\ u \in live
    /\ \E d \in Holding(c) :
          /\ status[d] = "pending"
          /\ d \notin late
          /\ Enter(r, "approve", d, u, None)
    /\ UNCHANGED <<columns, clock, live, history>>

\* update_status(Approved, Some(user)): fails when the row or the user is gone.
Approve(r) ==
    LET d == dev[r] IN
    /\ pc[r] = "approve"
    /\ IF Exists(d) /\ by[r] \in live
         THEN /\ status' = [status EXCEPT ![d] = "approved"]
              /\ user' = [user EXCEPT ![d] = by[r]]
              /\ approvals' = approvals \union {<<d, by[r]>>}
         ELSE UNCHANGED <<status, user, approvals>>
    /\ Finish(r)
    /\ UNCHANGED <<userCode, clock, live, granted>>

\* deny: whatever the status of the row.
RequestDenial(r, c, u) ==
    /\ pc[r] = "idle"
    /\ u \in live
    /\ \E d \in Holding(c) : Enter(r, "deny", d, u, None)
    /\ UNCHANGED <<columns, clock, live, history>>

Deny(r) ==
    LET d == dev[r] IN
    /\ pc[r] = "deny"
    /\ IF Exists(d) /\ by[r] \in live
         THEN /\ status' = [status EXCEPT ![d] = "denied"]
              /\ user' = [user EXCEPT ![d] = by[r]]
         ELSE UNCHANGED <<status, user>>
    /\ Finish(r)
    /\ UNCHANGED <<userCode, clock, live, history>>

-----------------------------------------------------------------------------
(* The token endpoint.                                                     *)

\* poll: one read of the row decides; a denied or expired row, and a pending
\* one polled too early (slow_down), are answered without a write.
Poll(r, d) ==
    /\ pc[r] = "idle"
    /\ \/ status[d] = "approved" /\ Enter(r, "issue", d, user[d], None)
       \/ status[d] = "pending" /\ d \in late /\ Enter(r, "expire", d, None, None)
       \/ status[d] = "pending" /\ d \notin late \union recent
              /\ Enter(r, "mark", d, None, None)
    /\ UNCHANGED <<columns, clock, live, history>>

\* A slip: the user is taken from the row when the tokens are made.
IssueForRow(r) ==
    /\ pc[r] = "issue"
    /\ granted' = IF user[dev[r]] \in live
                    THEN granted \union {<<dev[r], user[dev[r]]>>} ELSE granted
    /\ Finish(r)
    /\ UNCHANGED <<columns, clock, live, approvals>>

\* issue_tokens_for_user: reads the user again, by the id the poll had read.
IssueTokens(r) ==
    /\ pc[r] = "issue"
    /\ granted' = IF by[r] \in live THEN granted \union {<<dev[r], by[r]>>} ELSE granted
    /\ Finish(r)
    /\ UNCHANGED <<columns, clock, live, approvals>>

\* update_status(Expired, None): the row keeps its user_id.
ExpireRow(r) ==
    /\ pc[r] = "expire"
    /\ status' = [status EXCEPT ![dev[r]] = IF Exists(dev[r]) THEN "expired" ELSE @]
    /\ Finish(r)
    /\ UNCHANGED <<userCode, user, clock, live, history>>

\* mark_polled, and the answer authorization_pending.
MarkPolled(r) ==
    /\ pc[r] = "mark"
    /\ recent' = IF Exists(dev[r]) THEN recent \union {dev[r]} ELSE recent
    /\ Finish(r)
    /\ UNCHANGED <<columns, late, live, history>>

-----------------------------------------------------------------------------
(* Time, accounts, failures.                                               *)

LifetimeElapses(d) ==
    /\ Exists(d)
    /\ late' = late \union {d}
    /\ UNCHANGED <<columns, recent, live, locals, history>>

IntervalElapses(d) ==
    /\ recent' = recent \ {d}
    /\ UNCHANGED <<columns, late, live, locals, history>>

\* DELETE FROM users; user_id is ON DELETE CASCADE.
DeleteUser(u) ==
    /\ u \in live
    /\ live' = live \ {u}
    /\ status' = [d \in Devices |-> IF Exists(d) /\ user[d] = u THEN "deleted" ELSE status[d]]
    /\ UNCHANGED <<userCode, user, clock, locals, history>>

\* A database error, a lost connection or a crash between two statements.
Abort(r) ==
    /\ pc[r] # "idle"
    /\ Finish(r)
    /\ UNCHANGED <<columns, clock, live, history>>

-----------------------------------------------------------------------------
DeviceRequest(r) ==
    \/ \E d \in Devices, c \in UserCodes : Initiate(r, d, c)
    \/ Insert(r)
    \/ \E d \in Devices : Poll(r, d)
    \/ IssueTokens(r)
    \/ ExpireRow(r)
    \/ MarkPolled(r)

VerificationPage(r) ==
    \/ \E c \in UserCodes, u \in Users : VerifyUserCode(r, c, u) \/ RequestDenial(r, c, u)
    \/ Approve(r)
    \/ Deny(r)

Next ==
    \/ \E r \in Requests : DeviceRequest(r) \/ VerificationPage(r) \/ Abort(r)
    \/ \E d \in Devices : LifetimeElapses(d) \/ IntervalElapses(d)
    \/ \E u \in Users : DeleteUser(u)

Spec == Init /\ [][Next]_vars

-----------------------------------------------------------------------------
(* A device gets tokens only for a user who approved this very row, also   *)
(* when another user denies it, or the account is deleted, between the     *)
(* read of the row and the issuance.                                       *)
GrantsFollowApproval == granted \subseteq approvals

(* A user code names one row, although the check in                        *)
(* generate_unique_user_code and the insertion are two statements.         *)
UserCodesAreUnique ==
    \A c \in UserCodes : \A d, e \in Holding(c) : d = e

(* poll's branch "approved session has no associated user" is dead: an     *)
(* approved row has a user, and the user exists, whatever stale updates    *)
(* and deletions cross.                                                    *)
ApprovedRowsHaveTheirUser ==
    \A d \in Devices : status[d] = "approved" => user[d] \in live
=============================================================================
