------------------------------- MODULE Trident -------------------------------
(***************************************************************************)
(* The protocols of the trident service beside each other.  They run in    *)
(* one process and refer to the same accounts, but share no other row: no  *)
(* request of one decides on what a request of another writes.  So a       *)
(* behaviour is about one protocol, which its initial state says, and      *)
(* about every interleaving of that protocol's requests.                   *)
(***************************************************************************)
EXTENDS TridentParameters

VARIABLES
    protocol,
    pc, live,                                   \* of the protocol
    stored, previous, found, code,              \* recovery codes
    generated, newest, consumed, used,
    status, owner, late, password, mustUpdate,  \* password reset
    target, token, row, setFor, cut,
    linkStatus, linkOwner, linkLate, bound,     \* magic links
    addressee, link, opened, again, excused,
    otps, mustConfigure, replaced, selected,    \* OTP enrolment
    enrolled, doubled, interrupted,
    rows, keyOf, counter,                       \* passkeys
    kind, seen, signer, signature,
    answer, picked, read,
    accepted, repeated, retried, crossed

recoveryRows == <<stored, previous, found, code, generated, newest, consumed, used>>
resetRows == <<status, owner, late, password, mustUpdate, target, token, row, setFor, cut>>
linkRows == <<linkStatus, linkOwner, linkLate, bound, addressee, link, opened, again, excused>>
otpRows == <<otps, mustConfigure, replaced, selected, enrolled, doubled, interrupted>>
keyRows == <<rows, keyOf, counter, kind, seen, signer, signature,
             answer, picked, read, accepted, repeated, retried, crossed>>
vars == <<protocol, pc, live, recoveryRows, resetRows, linkRows, otpRows, keyRows>>

Recovery == INSTANCE RecoveryCodes

Reset == INSTANCE PasswordReset

Magic == INSTANCE MagicLinks WITH
    status <- linkStatus, owner <- linkOwner, late <- linkLate,
    target <- addressee, used <- opened

Otp == INSTANCE OtpEnrolment WITH
    previous <- replaced, found <- selected, cut <- interrupted

Keys == INSTANCE Passkeys WITH
    used <- accepted, again <- repeated, excused <- retried

TypeOK ==
    /\ protocol = "recovery" => Recovery!TypeOK
    /\ protocol = "reset" => Reset!TypeOK
    /\ protocol = "magic" => Magic!TypeOK
    /\ protocol = "otp" => Otp!TypeOK
    /\ protocol = "keys" => Keys!TypeOK

Init ==
    /\ protocol \in {"recovery", "reset", "magic", "otp", "keys"}
    /\ live = Users
    /\ Recovery!Init
    /\ Reset!Init
    /\ Magic!Init
    /\ Otp!Init
    /\ Keys!Init

-----------------------------------------------------------------------------
RecoveryStep ==
    /\ protocol = "recovery"
    /\ Recovery!Next
    /\ UNCHANGED <<protocol, live, resetRows, linkRows, otpRows, keyRows>>

ResetStep ==
    /\ protocol = "reset"
    /\ Reset!Next
    /\ UNCHANGED <<protocol, recoveryRows, linkRows, otpRows, keyRows>>

MagicStep ==
    /\ protocol = "magic"
    /\ Magic!Next
    /\ UNCHANGED <<protocol, recoveryRows, resetRows, otpRows, keyRows>>

OtpStep ==
    /\ protocol = "otp"
    /\ Otp!Next
    /\ UNCHANGED <<protocol, live, recoveryRows, resetRows, linkRows, keyRows>>

KeysStep ==
    /\ protocol = "keys"
    /\ Keys!Next
    /\ UNCHANGED <<protocol, live, recoveryRows, resetRows, linkRows, otpRows>>

Next == RecoveryStep \/ ResetStep \/ MagicStep \/ OtpStep \/ KeysStep

Spec == Init /\ [][Next]_vars

-----------------------------------------------------------------------------
(* Recovery codes: whatever generations overlap, fail or crash half way,   *)
(* the batch stored last is there, but for codes burnt or deleted one by   *)
(* one.                                                                    *)
NewestBatchIntact == protocol = "recovery" => Recovery!NewestBatchIntact

(* Recovery codes: a code that has opened a login is never accepted by a   *)
(* later request.                                                          *)
UsedCodesAreGone == protocol = "recovery" => Recovery!UsedCodesAreGone

(* Password reset: no crossing of resets and changes alone leaves an       *)
(* account without the password it had.                                    *)
LostOnlyByCrash == protocol = "reset" => Reset!LostOnlyByCrash

(* Password reset: the limit on reset links is exceeded by no more than    *)
(* the requests that overlap.                                              *)
OvershootIsBounded == protocol = "reset" => Reset!OvershootIsBounded

(* Magic links: no link logs in twice unless its presentations overlapped  *)
(* or its deletion failed.                                                 *)
LinksLogInOnce == protocol = "magic" => Magic!LinksLogInOnce

(* OTP enrolment: no crossing of enrolments alone leaves a user who has    *)
(* enrolled without an OTP, unless an earlier one had left two.            *)
OtpIsKept == protocol = "otp" => Otp!OtpIsKept

(* Passkeys: no answer of a counting authenticator to a discoverable       *)
(* authentication logs in twice unless its presentations overlapped, or    *)
(* updates of the key crossed or it was stored twice.                      *)
AnswersLogInOnce == protocol = "keys" => Keys!AnswersLogInOnce
=============================================================================
