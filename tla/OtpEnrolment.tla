---------------------------- MODULE OtpEnrolment ----------------------------
(***************************************************************************)
(* The OTP credential of one user: verify_otp replaces the rows it has     *)
(* read by a new one.  Each deletion is a SELECT, which fails when the row *)
(* is gone, and a DELETE by id, which does not; no unique index holds the  *)
(* rows of a user together, and they are read in no particular order.      *)
(***************************************************************************)
EXTENDS TridentParameters

VARIABLES
    otps,       \* rows of type otp
    mustConfigure, \* whether the user has the required action ConfigureOtp
    pc,
    previous,   \* the rows read first and not yet deleted
    found,      \* that of them which the SELECT has found
    enrolled,   \* history: rows ever inserted
    doubled,    \* history: two rows have been stored at once
    cut         \* history: a replacement was cut off, or an administrator
                \* has deleted a row

history == <<enrolled, doubled, cut>>
vars == <<otps, mustConfigure, pc, previous, found, history>>

Steps == {"idle", "replace", "unrequire"}

TypeOK ==
    /\ otps \in SUBSET enrolled
    /\ mustConfigure \in BOOLEAN
    /\ pc \in [Requests -> Steps]
    /\ previous \in [Requests -> SUBSET enrolled]
    /\ found \in [Requests -> enrolled \union {None}]
    /\ \A r \in Requests :
          /\ pc[r] # "replace" => previous[r] = {}
          /\ found[r] \in previous[r] \union {None}
    /\ enrolled \in SUBSET Secrets
    /\ doubled \in BOOLEAN
    /\ cut \in BOOLEAN

Init ==
    /\ otps = {}
    /\ mustConfigure = FALSE
    /\ pc = [r \in Requests |-> "idle"]
    /\ previous = [r \in Requests |-> {}]
    /\ found = [r \in Requests |-> None]
    /\ enrolled = {}
    /\ doubled = FALSE
    /\ cut = FALSE

-----------------------------------------------------------------------------
Enter(r, step, old) ==
    /\ pc' = [pc EXCEPT ![r] = step]
    /\ previous' = [previous EXCEPT ![r] = old]
    /\ found' = [found EXCEPT ![r] = None]

Finish(r) == Enter(r, "idle", {})

\* The code has been verified against the secret that setup_otp handed out.
ReadCredentials(r) ==
    /\ pc[r] = "idle"
    /\ Enter(r, "replace", otps)
    /\ UNCHANGED <<otps, mustConfigure, history>>

\* delete_by_id, the SELECT.
FindPrevious(r, s) ==
    /\ pc[r] = "replace"
    /\ found[r] = None
    /\ s \in previous[r]
    /\ IF s \in otps
         THEN found' = [found EXCEPT ![r] = s] /\ UNCHANGED <<pc, previous>>
         ELSE Finish(r)
    /\ UNCHANGED <<otps, mustConfigure, history>>

\* A slip: the code is verified when the old rows are gone.
DeleteThenVerify(r) ==
    /\ pc[r] = "replace"
    /\ found[r] # None
    /\ otps' = otps \ {found[r]}
    /\ Enter(r, "replace", previous[r] \ {found[r]}) \/ Finish(r)
    /\ UNCHANGED <<mustConfigure, history>>

\* delete_by_id, the DELETE.
DeletePrevious(r) ==
    /\ pc[r] = "replace"
    /\ found[r] # None
    /\ otps' = otps \ {found[r]}
    /\ Enter(r, "replace", previous[r] \ {found[r]})
    /\ UNCHANGED <<mustConfigure, history>>

\* create_custom_credential.
CreateOtp(r, s) ==
    /\ pc[r] = "replace"
    /\ previous[r] = {}
    /\ Fresh({s}, Secrets, enrolled)
    /\ otps' = otps \union {s}
    /\ enrolled' = enrolled \union {s}
    /\ doubled' = (doubled \/ otps # {})
    /\ Enter(r, "unrequire", {})
    /\ UNCHANGED <<mustConfigure, cut>>

\* remove_required_action, best effort.
Unrequire(r) ==
    /\ pc[r] = "unrequire"
    /\ mustConfigure' \in {mustConfigure, FALSE}
    /\ Finish(r)
    /\ UNCHANGED <<otps, history>>

-----------------------------------------------------------------------------
\* delete_credential, by an administrator.
DeleteCredential(s) ==
    /\ s \in otps
    /\ otps' = otps \ {s}
    /\ cut' = TRUE
    /\ UNCHANGED <<mustConfigure, pc, previous, found, enrolled, doubled>>

\* An administrator's update_user clears and adds required actions.
RequireActions ==
    /\ mustConfigure' \in BOOLEAN
    /\ UNCHANGED <<otps, pc, previous, found, history>>

\* A database error, a lost connection or a crash between two statements.
Abort(r) ==
    /\ pc[r] # "idle"
    /\ cut' = (cut \/ (pc[r] = "replace" /\ previous[r] = {} /\ otps = {}))
    /\ Finish(r)
    /\ UNCHANGED <<otps, mustConfigure, enrolled, doubled>>

-----------------------------------------------------------------------------
Next ==
    \/ \E r \in Requests :
          \/ ReadCredentials(r)
          \/ \E s \in Secrets : FindPrevious(r, s) \/ CreateOtp(r, s)
          \/ DeletePrevious(r)
          \/ Unrequire(r)
          \/ Abort(r)
    \/ \E s \in Secrets : DeleteCredential(s)
    \/ RequireActions

Spec == Init /\ [][Next]_vars

-----------------------------------------------------------------------------
Replacing == \E r \in Requests : pc[r] = "replace" /\ previous[r] = {}

(* A user who has enrolled is without a second factor only while a request *)
(* is about to insert the next one, after such a request was cut off, or   *)
(* after an administrator deleted the row: enrolments that cross take it   *)
(* away only if earlier ones had left two rows, which each of two requests *)
(* may then delete half of.                                                *)
OtpIsKept == otps = {} /\ enrolled # {} => Replacing \/ cut \/ doubled
=============================================================================
