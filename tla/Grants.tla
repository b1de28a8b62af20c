-------------------------------- MODULE Grants --------------------------------
(***************************************************************************)
(* The authorization-code grant and the device grant beside each other.    *)
(* Both make tokens for a user who has logged in, but their rows have      *)
(* nothing in common: no request of one decides on what a request of the   *)
(* other writes.  So a behaviour is about one grant, which its initial     *)
(* state says, and about every interleaving of that grant's requests.      *)
(***************************************************************************)
EXTENDS GrantParameters

VARIABLES
    grant,
    pc,                                                 \* of the grant
    opened, code, owner, authenticated, expired,        \* sessions and codes
    account, held, sess, who, cd, issued, minted, answered,
    status, userCode, user, late, recent,               \* device codes
    live, dev, by, draw, approvals, granted

codeVars == <<opened, code, owner, authenticated, expired,
              account, held, sess, who, cd, issued, minted, answered>>
deviceVars == <<status, userCode, user, late, recent,
                live, dev, by, draw, approvals, granted>>
vars == <<grant, pc, codeVars, deviceVars>>

Code == INSTANCE AuthSessions

Device == INSTANCE DeviceFlow

TypeOK ==
    /\ grant = "code" => Code!TypeOK
    /\ grant = "device" => Device!TypeOK

Init ==
    /\ grant \in {"code", "device"}
    /\ Code!Init
    /\ Device!Init

CodeStep ==
    /\ grant = "code"
    /\ Code!Next
    /\ UNCHANGED <<grant, deviceVars>>

DeviceStep ==
    /\ grant = "device"
    /\ Device!Next
    /\ UNCHANGED <<grant, codeVars>>

Next == CodeStep \/ DeviceStep

Spec == Init /\ [][Next]_vars

-----------------------------------------------------------------------------
(* A code whose exchange was answered is never accepted again, whatever    *)
(* logins reuse or reopen its session afterwards.                          *)
AnsweredCodeStaysSpent == grant = "code" => Code!AnsweredCodeStaysSpent

(* Tokens are minted for the user whose login made the code, also when     *)
(* another login takes the session over while the exchange is under way,   *)
(* unless the session has a brokered login.                                *)
TokensForTheirLogin == grant = "code" => Code!TokensForTheirLogin

(* A device gets tokens only for a user who approved this very row, however *)
(* denials, expiry and deletions cross the poll.                           *)
GrantsFollowApproval == grant = "device" => Device!GrantsFollowApproval

(* A user code names one row, although the look-up for a free one and the  *)
(* insertion are two statements.                                           *)
UserCodesAreUnique == grant = "device" => Device!UserCodesAreUnique

(* An approved row has a user who exists, whatever stale updates and       *)
(* deletions cross: poll never meets one without.                          *)
ApprovedRowsHaveTheirUser == grant = "device" => Device!ApprovedRowsHaveTheirUser

(* "codes cannot be used more than once" (auth_session_repository.rs:287): *)
(* no code mints a second set of tokens.                                   *)
CodesAreSingleUse == [][grant = "code" =>
    \A r \in Requests : Code!Mint(r) /\ Code!Live(who[r]) => <<cd[r], who[r]>> \notin minted]_vars
=============================================================================
