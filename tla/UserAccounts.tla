----------------------------- MODULE UserAccounts -----------------------------
(***************************************************************************)
(* The users table of a realm and the handlers that write a row of it in   *)
(* several statements: registration with its rollback by hand, the         *)
(* verification of an e-mail address by a link, administrators' edits, and *)
(* the first login of a subject of an identity provider.                   *)
(*                                                                         *)
(* A request is its pc, its task and what it has read: the account (who),  *)
(* the verification token (tok), the row or the address it will write back *)
(* (copy), and the subject it logs in (subj).                              *)
(***************************************************************************)
EXTENDS Naturals

CONSTANTS
    Users,      \* rows of users that may ever be inserted
    Applicants, \* those of them that a registration may insert
    Names,      \* usernames
    Mails,      \* e-mail addresses
    Tokens,     \* rows of email_verification_tokens that may ever be inserted
    Subjects,   \* accounts at the identity provider
    NameOf,     \* the username the provider reports for a subject
    MailOf,     \* the address it reports
    Requests,   \* concurrent HTTP requests
    MaxEdits,   \* bound on what administrators do to accounts in a behaviour
    None        \* NULL

ASSUME ApplicantsAssumption == Applicants \subseteq Users
ASSUME NoneAssumption ==
    /\ None \notin Users \union Names \union Mails \union Tokens \union Subjects
    /\ None \notin {"open", "strict", "registered", "refused"}
ASSUME ProfileAssumption == NameOf \in [Subjects -> Names] /\ MailOf \in [Subjects -> Mails]
ASSUME MaxEditsAssumption == MaxEdits \in Nat
ASSUME OriginAssumption == {"registered", "refused"} \intersect Subjects = {}

VARIABLES
    edits,      \* creations, updates and deletions by administrators so far
    account,    \* a row is "unborn", "live" or "deleted"
    name, mail, \* columns username and email
    enabled,    \* column enabled
    verified,   \* column email_verified
    password,   \* users with a password credential
    mustVerify, \* users with the required action VerifyEmail
    addressee,  \* column user_id of a stored token
    spent,      \* tokens with used_at set, or whose expires_at has passed
    link,       \* identity_provider_links: the user a subject is linked to
    pc, task, who, tok, copy, subj,
    sentTo,     \* history: the address a token was made for
    origin,     \* history: how an account came into being
    settled,    \* history: address and flag as last decided by their owner or
                \* an administrator; None if a verification was under way then
    confirmed,  \* history: users whose present address was confirmed
    moved,      \* history: users whose address changed with a link outstanding
    excused     \* history: users whose creation was cut off, or whom an
                \* administrator has edited

users == <<account, name, mail, enabled, verified>>
rows == <<password, mustVerify, link>>
tokens == <<addressee, spent, sentTo>>
locals == <<pc, task, who, tok, copy, subj>>
history == <<origin, settled, confirmed, moved, excused>>
vars == <<edits, users, rows, tokens, locals, history>>

Profile == [mail : Mails, on : BOOLEAN]

Steps == {"idle", "password", "require", "address", "token", "deliver", "rollback",
          "read", "write", "unrequire", "mark", "clear", "add", "find", "create", "link"}

\* "open" and "strict" are registrations without and with e-mail verification,
\* "demand" and "release" edits that set and drop the required action, and
\* "plain", "trust" and "link_only" the configurations of a provider.
Registering == {"open", "strict"}
Modes == {"plain", "trust", "link_only"}
Tasks == Registering \union Modes \union {"resend", "verify", "demand", "release"}

Live == {u \in Users : account[u] = "live"}

ColumnsTypeOK ==
    /\ account \in [Users -> {"unborn", "live", "deleted"}]
    /\ name \in [Users -> Names \union {None}]
    /\ mail \in [Users -> Mails \union {None}]
    /\ \A u \in Live : name[u] \in Names /\ mail[u] \in Mails
    /\ \A u, v \in Live : u # v => name[u] # name[v] /\ mail[u] # mail[v]
    /\ enabled \in SUBSET Live
    /\ verified \in SUBSET Live
    /\ password \in SUBSET Live
    /\ mustVerify \in SUBSET Live
    /\ addressee \in [Tokens -> Live \union {None}]
    /\ spent \in SUBSET Tokens
    /\ link \in [Subjects -> Live \union {None}]

LocalsTypeOK ==
    /\ pc \in [Requests -> Steps]
    /\ task \in [Requests -> Tasks \union {None}]
    /\ who \in [Requests -> Users \union {None}]
    /\ tok \in [Requests -> Tokens \union {None}]
    /\ copy \in [Requests -> Profile \union Mails \union {None}]
    /\ subj \in [Requests -> Subjects \union {None}]

\* What a request holds at its step.
HeldTypeOK(r) ==
    /\ pc[r] \notin {"idle", "find", "create"} => who[r] \in Users
    /\ pc[r] \in {"read", "write", "unrequire", "mark"} => tok[r] \in Tokens
    /\ pc[r] \in {"find", "create", "link"} => subj[r] \in Subjects
    /\ pc[r] = "write" => copy[r] \in Profile
    /\ pc[r] = "token" => copy[r] \in Mails

HistoryTypeOK ==
    /\ sentTo \in [Tokens -> Mails \union {None}]
    /\ origin \in [Users -> Subjects \union {"registered", "refused", None}]
    /\ settled \in [Users -> Profile \union {None}]
    /\ confirmed \in SUBSET Live
    /\ moved \in SUBSET Live
    /\ excused \in SUBSET Live

TypeOK ==
    /\ edits \in 0 .. MaxEdits
    /\ ColumnsTypeOK /\ LocalsTypeOK /\ HistoryTypeOK
    /\ \A r \in Requests : HeldTypeOK(r)

Init ==
    /\ edits = 0
    /\ account = [u \in Users |-> "unborn"]
    /\ name = [u \in Users |-> None]
    /\ mail = [u \in Users |-> None]
    /\ enabled = {}
    /\ verified = {}
    /\ password = {}
    /\ mustVerify = {}
    /\ addressee = [t \in Tokens |-> None]
    /\ spent = {}
    /\ link = [s \in Subjects |-> None]
    /\ pc = [r \in Requests |-> "idle"]
    /\ task = [r \in Requests |-> None]
    /\ who = [r \in Requests |-> None]
    /\ tok = [r \in Requests |-> None]
    /\ copy = [r \in Requests |-> None]
    /\ subj = [r \in Requests |-> None]
    /\ sentTo = [t \in Tokens |-> None]
    /\ origin = [u \in Users |-> None]
    /\ settled = [u \in Users |-> None]
    /\ confirmed = {}
    /\ moved = {}
    /\ excused = {}

-----------------------------------------------------------------------------
Enter(r, step, t) ==
    /\ pc' = [pc EXCEPT ![r] = step]
    /\ task' = [task EXCEPT ![r] = t]

Goto(r, step) ==
    /\ pc' = [pc EXCEPT ![r] = step]
    /\ UNCHANGED task

Keep(r, u, t, c, s) ==
    /\ who' = [who EXCEPT ![r] = u]
    /\ tok' = [tok EXCEPT ![r] = t]
    /\ copy' = [copy EXCEPT ![r] = c]
    /\ subj' = [subj EXCEPT ![r] = s]

Finish(r) == Enter(r, "idle", None) /\ Keep(r, None, None, None, None)

\* The unique constraints on (username, realm) and (email, realm).
Free(n, m) == \A v \in Live : name[v] # n /\ mail[v] # m
MailFree(u, m) == \A v \in Live \ {u} : mail[v] # m

With(set, u, b) == IF b THEN set \union {u} ELSE set \ {u}

\* A verification that holds the row, and a link that is out: sent or about to
\* be, still accepted, or just followed.
Verifying(u) == \E r \in Requests : pc[r] = "write" /\ who[r] = u
Outstanding(u) ==
    \/ \E t \in Tokens \ spent : addressee[t] = u
    \/ \E r \in Requests : pc[r] \in {"token", "read", "write"} /\ who[r] = u

\* INSERT INTO users.
Insert(u, n, m, v, o) ==
    /\ account[u] = "unborn"
    /\ Free(n, m)
    /\ account' = [account EXCEPT ![u] = "live"]
    /\ name' = [name EXCEPT ![u] = n]
    /\ mail' = [mail EXCEPT ![u] = m]
    /\ enabled' = enabled \union {u}
    /\ verified' = With(verified, u, v)
    /\ confirmed' = With(confirmed, u, v)
    /\ origin' = [origin EXCEPT ![u] = o]
    /\ settled' = [settled EXCEPT ![u] = [mail |-> m, on |-> TRUE]]
    /\ UNCHANGED <<moved, excused>>

\* A slip: tokens do not reference users.
LeaveTokens(u) == UNCHANGED tokens

\* ON DELETE CASCADE of email_verification_tokens.
DropTokens(u) ==
    /\ addressee' = [t \in Tokens |-> IF addressee[t] = u THEN None ELSE addressee[t]]
    /\ spent' = {t \in spent : addressee[t] # u}
    /\ UNCHANGED sentTo

\* DELETE FROM users, with everything that is ON DELETE CASCADE.  An account
\* that had to give way to the deleted one stays behind without a link.
Remove(u) ==
    /\ account' = [account EXCEPT ![u] = "deleted"]
    /\ name' = [name EXCEPT ![u] = None]
    /\ mail' = [mail EXCEPT ![u] = None]
    /\ enabled' = enabled \ {u}
    /\ verified' = verified \ {u}
    /\ password' = password \ {u}
    /\ mustVerify' = mustVerify \ {u}
    /\ DropTokens(u)
    /\ link' = [s \in Subjects |-> IF link[s] = u THEN None ELSE link[s]]
    /\ settled' = [settled EXCEPT ![u] = None]
    /\ confirmed' = confirmed \ {u}
    /\ moved' = moved \ {u}
    /\ excused' = (excused \union {v \in Live : origin[v] \in Subjects /\ link[origin[v]] = u}) \ {u}
    /\ origin' = [origin EXCEPT ![u] = None]

-----------------------------------------------------------------------------
(* register_user.                                                          *)

\* The account comes first; a taken name or address ends the request.
Register(r, u, n, m, t) ==
    /\ pc[r] = "idle"
    /\ u \in Applicants
    /\ Insert(u, n, m, t = "open", "registered")
    /\ Enter(r, "password", t)
    /\ Keep(r, u, None, None, None)
    /\ UNCHANGED <<rows, tokens>>

\* create_credential.
SetPassword(r) ==
    /\ pc[r] = "password"
    /\ IF who[r] \in Live
         THEN /\ password' = password \union {who[r]}
              /\ IF task[r] = "strict"
                   THEN Goto(r, "require") /\ UNCHANGED <<who, tok, copy, subj>>
                   ELSE Finish(r)
         ELSE Finish(r) /\ UNCHANGED password
    /\ UNCHANGED <<users, mustVerify, link, tokens, history>>

\* add_required_action: an INSERT, refused when the row is there already.
RequireVerification(r) ==
    /\ pc[r] = "require"
    /\ IF who[r] \in Live \ mustVerify
         THEN /\ mustVerify' = mustVerify \union {who[r]}
              /\ Goto(r, "address")
              /\ UNCHANGED <<who, tok, copy, subj>>
         ELSE Finish(r) /\ UNCHANGED mustVerify
    /\ UNCHANGED <<users, password, link, tokens, history>>

\* A slip: the error of the mail is returned and the account stays.
RollBackNothing(r) ==
    /\ pc[r] = "rollback"
    /\ origin' = [origin EXCEPT ![who[r]] = IF who[r] \in Live THEN "refused" ELSE @]
    /\ Finish(r)
    /\ UNCHANGED <<users, rows, tokens, settled, confirmed, moved, excused>>

\* The mail could not be sent: delete_user, whose own failure is only logged.
RollBack(r) ==
    /\ pc[r] = "rollback"
    /\ \/ who[r] \in Live /\ Remove(who[r])
       \/ /\ origin' = [origin EXCEPT ![who[r]] = IF who[r] \in Live THEN "refused" ELSE @]
          /\ excused' = IF who[r] \in Live THEN excused \union {who[r]} ELSE excused
          /\ UNCHANGED <<users, rows, tokens, settled, confirmed, moved>>
    /\ Finish(r)

-----------------------------------------------------------------------------
(* send_verification_email: at registration, at a login with the required  *)
(* action VerifyEmail, and on request.                                     *)

Resend(r, u) ==
    /\ pc[r] = "idle"
    /\ u \in Live
    /\ Enter(r, "address", "resend")
    /\ Keep(r, u, None, None, None)
    /\ UNCHANGED <<users, rows, tokens, history>>

Fail(r) ==
    IF task[r] = "strict"
      THEN Goto(r, "rollback") /\ Keep(r, who[r], None, None, None)
      ELSE Finish(r)

\* get_by_id, the template and the SMTP settings.
ReadAddress(r) ==
    /\ pc[r] = "address"
    /\ \/ /\ who[r] \in Live
          /\ Goto(r, "token")
          /\ Keep(r, who[r], None, mail[who[r]], None)
       \/ Fail(r)
    /\ UNCHANGED <<users, rows, tokens, history>>

\* The row names the user, not the address.  The mail goes out; nothing that
\* comes after it is left to be decided unless an account is being registered.
InsertToken(r, t) ==
    /\ pc[r] = "token"
    /\ sentTo[t] = None
    /\ IF who[r] \in Live
         THEN /\ addressee' = [addressee EXCEPT ![t] = who[r]]
              /\ sentTo' = [sentTo EXCEPT ![t] = copy[r]]
              /\ IF task[r] = "strict"
                   THEN Goto(r, "deliver") /\ Keep(r, who[r], None, None, None)
                   ELSE Finish(r)
         ELSE Fail(r) /\ UNCHANGED <<addressee, sentTo>>
    /\ UNCHANGED <<users, rows, spent, history>>

\* The mail server answers, refuses, or is too late (EMAIL_DELIVERY_TIMEOUT).
\* What it was given may reach the user in each case, and before: see Verify.
Deliver(r) ==
    /\ pc[r] = "deliver"
    /\ Finish(r) \/ Fail(r)
    /\ UNCHANGED <<users, rows, tokens, history>>

-----------------------------------------------------------------------------
(* verify_email.                                                           *)

\* A slip: used tokens are found as well.
VerifyAgain(r, t) ==
    /\ pc[r] = "idle"
    /\ addressee[t] # None
    /\ Enter(r, "read", "verify")
    /\ Keep(r, addressee[t], t, None, None)
    /\ UNCHANGED <<users, rows, tokens, history>>

\* find_valid_by_hash.  (A used or expired token only makes the handler look
\* whether the address is verified already.)
Verify(r, t) ==
    /\ pc[r] = "idle"
    /\ addressee[t] # None
    /\ t \notin spent
    /\ Enter(r, "read", "verify")
    /\ Keep(r, addressee[t], t, None, None)
    /\ UNCHANGED <<users, rows, tokens, history>>

\* get_by_id.
ReadAccount(r) ==
    /\ pc[r] = "read"
    /\ LET u == who[r] IN
       IF u \in Live
         THEN Goto(r, "write") /\ Keep(r, u, tok[r], [mail |-> mail[u], on |-> u \in enabled], None)
         ELSE Finish(r)
    /\ UNCHANGED <<users, rows, tokens, history>>

\* A slip: the account is enabled as well.
WriteEnabled(r) ==
    /\ pc[r] = "write"
    /\ LET u == who[r] IN
       IF u \in Live /\ MailFree(u, copy[r].mail)
         THEN /\ mail' = [mail EXCEPT ![u] = copy[r].mail]
              /\ enabled' = enabled \union {u}
              /\ verified' = verified \union {u}
              /\ confirmed' = With(confirmed, u, copy[r].mail = sentTo[tok[r]])
              /\ Goto(r, "unrequire")
              /\ Keep(r, u, tok[r], None, None)
         ELSE Finish(r) /\ UNCHANGED <<mail, enabled, verified, confirmed>>
    /\ UNCHANGED <<account, name, rows, tokens, origin, settled, moved, excused>>

\* update_user with the row as it was read, email_verified set.
WriteAccount(r) ==
    /\ pc[r] = "write"
    /\ LET u == who[r] IN
       IF u \in Live /\ MailFree(u, copy[r].mail)
         THEN /\ mail' = [mail EXCEPT ![u] = copy[r].mail]
              /\ enabled' = With(enabled, u, copy[r].on)
              /\ verified' = verified \union {u}
              /\ confirmed' = With(confirmed, u, copy[r].mail = sentTo[tok[r]])
              /\ Goto(r, "unrequire")
              /\ Keep(r, u, tok[r], None, None)
         ELSE Finish(r) /\ UNCHANGED <<mail, enabled, verified, confirmed>>
    /\ UNCHANGED <<account, name, rows, tokens, origin, settled, moved, excused>>

\* remove_required_action, best effort.
Unrequire(r) ==
    /\ pc[r] = "unrequire"
    /\ mustVerify' \in {mustVerify, mustVerify \ {who[r]}}
    /\ Goto(r, "mark")
    /\ UNCHANGED <<users, password, link, tokens, who, tok, copy, subj, history>>

\* mark_used, best effort.
MarkUsed(r) ==
    /\ pc[r] = "mark"
    /\ spent' \in {spent, spent \union {tok[r]}}
    /\ Finish(r)
    /\ UNCHANGED <<users, rows, addressee, sentTo, history>>

LifetimeElapses(t) ==
    /\ addressee[t] # None
    /\ spent' = spent \union {t}
    /\ UNCHANGED <<users, rows, addressee, sentTo, locals, history>>

-----------------------------------------------------------------------------
(* Administrators.                                                         *)

\* create_user.
CreateUser(u, n, m, v) ==
    /\ Insert(u, n, m, v, None)
    /\ UNCHANGED <<rows, tokens, locals>>

\* update_user: one UPDATE; then, if required actions are given, they are
\* cleared and added one by one.
UpdateUser(r, u, m, v, on, t) ==
    /\ pc[r] = "idle"
    /\ u \in Live
    /\ MailFree(u, m)
    /\ mail' = [mail EXCEPT ![u] = m]
    /\ enabled' = With(enabled, u, on)
    /\ verified' = With(verified, u, v)
    /\ confirmed' = With(confirmed, u, v \/ (m = mail[u] /\ u \in confirmed))
    /\ moved' = With(moved, u, u \in moved \/ (m # mail[u] /\ Outstanding(u)))
    /\ settled' = [settled EXCEPT ![u] = IF Verifying(u) THEN None ELSE [mail |-> m, on |-> on]]
    /\ excused' = excused \union {u}
    /\ IF t = None
         THEN UNCHANGED locals
         ELSE Enter(r, "clear", t) /\ Keep(r, u, None, None, None)
    /\ UNCHANGED <<account, name, rows, tokens, origin>>

ClearActions(r) ==
    /\ pc[r] = "clear"
    /\ mustVerify' = mustVerify \ {who[r]}
    /\ IF task[r] = "demand"
         THEN Goto(r, "add") /\ UNCHANGED <<who, tok, copy, subj>>
         ELSE Finish(r)
    /\ UNCHANGED <<users, password, link, tokens, history>>

AddAction(r) ==
    /\ pc[r] = "add"
    /\ mustVerify' = IF who[r] \in Live THEN mustVerify \union {who[r]} ELSE mustVerify
    /\ Finish(r)
    /\ UNCHANGED <<users, password, link, tokens, history>>

DeleteUser(u) ==
    /\ u \in Live
    /\ Remove(u)
    /\ UNCHANGED locals

-----------------------------------------------------------------------------
(* find_or_create_user, for subjects of one provider.                      *)

\* get_by_provider_and_external_id; a linked subject has its user.
FindLink(r, s, mode) ==
    /\ pc[r] = "idle"
    /\ link[s] = None
    /\ Enter(r, IF mode = "plain" THEN "create" ELSE "find", mode)
    /\ Keep(r, None, None, None, s)
    /\ UNCHANGED <<users, rows, tokens, history>>

\* get_by_email.
FindByMail(r) ==
    /\ pc[r] = "find"
    /\ LET us == {u \in Live : mail[u] = MailOf[subj[r]]} IN
       \/ \E u \in us : Enter(r, "link", None) /\ Keep(r, u, None, None, subj[r])
       \/ us = {} /\ task[r] = "trust" /\ Goto(r, "create") /\ UNCHANGED <<who, tok, copy, subj>>
       \/ us = {} /\ task[r] = "link_only" /\ Finish(r)
    /\ UNCHANGED <<users, rows, tokens, history>>

\* A slip: create_idp_link is left to the branch of existing users.
CreateUnlinked(r, u) ==
    /\ pc[r] = "create"
    /\ LET s == subj[r] IN
       \/ Insert(u, NameOf[s], MailOf[s], task[r] = "trust", s) /\ Finish(r)
       \/ ~Free(NameOf[s], MailOf[s]) /\ Finish(r) /\ UNCHANGED <<users, history>>
    /\ UNCHANGED <<rows, tokens>>

\* create_user, whose unique constraints may refuse it.
CreateBrokered(r, u) ==
    /\ pc[r] = "create"
    /\ LET s == subj[r] IN
       \/ /\ Insert(u, NameOf[s], MailOf[s], task[r] = "trust", s)
          /\ Enter(r, "link", None)
          /\ Keep(r, u, None, None, s)
       \/ /\ ~Free(NameOf[s], MailOf[s])
          /\ Finish(r)
          /\ UNCHANGED <<users, history>>
    /\ UNCHANGED <<rows, tokens>>

\* create_idp_link: one link per user, one per subject.
CreateLink(r) ==
    /\ pc[r] = "link"
    /\ LET s == subj[r] IN
       link' = IF link[s] = None /\ who[r] \in Live /\ \A x \in Subjects : link[x] # who[r]
                 THEN [link EXCEPT ![s] = who[r]]
                 ELSE link
    /\ Finish(r)
    /\ UNCHANGED <<users, password, mustVerify, tokens, history>>

-----------------------------------------------------------------------------
\* A request that is creating the account u.
Making(r, u) ==
    /\ who[r] = u
    /\ \/ task[r] \in Registering
       \/ pc[r] = "link" /\ origin[u] = subj[r]

\* A database error, a lost connection or a crash between two statements.
Abort(r) ==
    /\ pc[r] # "idle"
    /\ excused' = excused \union {u \in Live : Making(r, u)}
    /\ Finish(r)
    /\ UNCHANGED <<users, rows, tokens, origin, settled, confirmed, moved>>

-----------------------------------------------------------------------------
Registration(r) ==
    \/ \E u \in Users, n \in Names, m \in Mails, t \in Registering : Register(r, u, n, m, t)
    \/ SetPassword(r)
    \/ RequireVerification(r)
    \/ RollBack(r)

Mailing(r) ==
    \/ \E u \in Users : Resend(r, u)
    \/ ReadAddress(r)
    \/ \E t \in Tokens : InsertToken(r, t)
    \/ Deliver(r)

Verification(r) ==
    \/ \E t \in Tokens : Verify(r, t)
    \/ ReadAccount(r)
    \/ WriteAccount(r)
    \/ Unrequire(r)
    \/ MarkUsed(r)

Administration ==
    \/ \E u \in Users, n \in Names, m \in Mails, v \in BOOLEAN : CreateUser(u, n, m, v)
    \/ \E r \in Requests, u \in Users, m \in Mails, v, on \in BOOLEAN,
          t \in {"demand", "release", None} : UpdateUser(r, u, m, v, on, t)
    \/ \E u \in Users : DeleteUser(u)

BrokeredLogin(r) ==
    \/ \E s \in Subjects, mode \in Modes : FindLink(r, s, mode)
    \/ FindByMail(r)
    \/ \E u \in Users : CreateBrokered(r, u)
    \/ CreateLink(r)

Next ==
    \/ edits < MaxEdits /\ edits' = edits + 1 /\ Administration
    \/ /\ \/ \E r \in Requests :
                \/ Registration(r) \/ Mailing(r) \/ Verification(r) \/ BrokeredLogin(r)
                \/ ClearActions(r) \/ AddAction(r) \/ Abort(r)
          \/ \E t \in Tokens : LifetimeElapses(t)
       /\ UNCHANGED edits

Spec == Init /\ [][Next]_vars

-----------------------------------------------------------------------------
(* What was last decided about an account, its address and whether it is   *)
(* enabled, stands.  verify_email writes both back as it read them; only a *)
(* decision taken between its read and its write is undone by that.        *)
EditsStand ==
    \A u \in Live : settled[u] # None => settled[u] = [mail |-> mail[u], on |-> u \in enabled]

(* An address counts as verified because a link sent to it was followed or *)
(* because somebody asserted it; links name the user and not the address,  *)
(* so accounts whose address was changed with a link outstanding are       *)
(* excepted.  Used and expired links confirm nothing any more.             *)
VerifiedForCause == verified \subseteq confirmed \union moved

(* Registration is all or nothing, unless it is cut off, its rollback      *)
(* fails or an administrator steps in: an account it leaves has a          *)
(* password and cannot log in without its address being verified, and one  *)
(* it has answered with an error is gone, however mails, links, resends    *)
(* and brokered logins overlap with it.                                    *)
RegistrationIsAllOrNothing ==
    \A u \in Live \ excused :
        /\ origin[u] # "refused"
        /\ origin[u] = "registered" /\ ~(\E r \in Requests : Making(r, u)) =>
              /\ u \in password
              /\ u \in verified \union mustVerify

(* An account created for a subject gets its link: overlapping first       *)
(* logins leave one without only if its subject has another user, or if    *)
(* the request was cut off in between.                                     *)
BrokeredAccountsAreLinked ==
    \A u \in Live \ excused :
        origin[u] \in Subjects /\ ~(\E r \in Requests : Making(r, u)) =>
            link[origin[u]] # None \/ \E s \in Subjects : link[s] = u
=============================================================================
