----------------------------- MODULE AuthSessions -----------------------------
(***************************************************************************)
(* The authorization-code flow: table auth_sessions, the requests that     *)
(* stamp an authorization code on a session (password and cookie login,    *)
(* registration, second factors, passkeys, magic links, password resets,   *)
(* brokered logins) and the exchange of the code at the token endpoint.    *)
(*                                                                         *)
(* Every statement runs on its own: no handler of this flow opens a        *)
(* transaction.  A request is its pc and what it has read: the session row *)
(* (sess), the user it authenticated or found in the row (who), and the    *)
(* code it exchanges (cd).  Codes are fresh random strings.                *)
(***************************************************************************)
EXTENDS GrantParameters

VARIABLES
    opened,         \* inserted sessions
    code,           \* column code
    owner,          \* column user_id
    authenticated,  \* column authenticated
    expired,        \* sessions whose expires_at has passed
    account,        \* the users table
    held,           \* codes that reached a client in a redirect
    pc, sess, who, cd,
    issued,         \* history: the session and the login a code was made for
    minted,         \* history: the token sets inserted by create_jwt
    answered        \* history: codes whose exchange was answered with tokens

sessions == <<opened, code, owner, authenticated, expired>>
locals == <<pc, sess, who, cd>>
history == <<issued, minted, answered>>
vars == <<sessions, account, held, locals, history>>

Steps == {"idle", "credentials", "resume", "stamp", "link", "linked", "mint", "mark"}

TypeOK ==
    /\ opened \in SUBSET Sessions
    /\ code \in [Sessions -> Codes \union {None}]
    /\ owner \in [Sessions -> Users \union {None}]
    /\ authenticated \in [Sessions -> BOOLEAN]
    /\ expired \in SUBSET Sessions
    /\ account \in [Users -> {"unborn", "live", "deleted"}]
    /\ held \in SUBSET Codes
    /\ pc \in [Requests -> Steps]
    /\ sess \in [Requests -> Sessions \union {None}]
    /\ who \in [Requests -> Users \union {None}]
    /\ cd \in [Requests -> Codes \union {None}]
    /\ \A r \in Requests :
          /\ pc[r] # "idle" => sess[r] \in Sessions
          /\ pc[r] \in {"resume", "stamp", "link", "linked", "mint", "mark"} => who[r] \in Users
          /\ pc[r] \in {"mint", "mark"} => cd[r] \in Codes
    /\ issued \in [Codes -> Origin \union {None}]
    /\ minted \in SUBSET (Codes \X Users)
    /\ answered \in SUBSET Codes

Init ==
    /\ opened = {}
    /\ code = [s \in Sessions |-> None]
    /\ owner = [s \in Sessions |-> None]
    /\ authenticated = [s \in Sessions |-> FALSE]
    /\ expired = {}
    /\ account = [u \in Users |-> "unborn"]
    /\ held = {}
    /\ pc = [r \in Requests |-> "idle"]
    /\ sess = [r \in Requests |-> None]
    /\ who = [r \in Requests |-> None]
    /\ cd = [r \in Requests |-> None]
    /\ issued = [c \in Codes |-> None]
    /\ minted = {}
    /\ answered = {}

-----------------------------------------------------------------------------
Live(u) == u \in Users /\ account[u] = "live"
Fresh(c) == issued[c] = None

\* A session that a code exchange has consumed.
Spent(s) == owner[s] # None /\ authenticated[s]

\* authenticate's two early returns and auth_session_can_resume.
CanResume(s) == s \notin expired /\ ~Spent(s)

Finish(r) ==
    /\ pc' = [pc EXCEPT ![r] = "idle"]
    /\ sess' = [sess EXCEPT ![r] = None]
    /\ who' = [who EXCEPT ![r] = None]
    /\ cd' = [cd EXCEPT ![r] = None]

Enter(r, step, s, u, c) ==
    /\ pc' = [pc EXCEPT ![r] = step]
    /\ sess' = [sess EXCEPT ![r] = s]
    /\ who' = [who EXCEPT ![r] = u]
    /\ cd' = [cd EXCEPT ![r] = c]

\* The new code is remembered with the login it stands for; the redirect that
\* carries it may fail or get lost after the row was written.
Issue(c, s, u) ==
    /\ Fresh(c)
    /\ issued' = [issued EXCEPT ![c] = [session |-> s, user |-> u]]
    /\ held' \in {held, held \union {c}}

-----------------------------------------------------------------------------
(* Sessions and accounts.                                                  *)

\* GET /auth: AuthServiceImpl::auth inserts the session.
OpenSession(s) ==
    /\ s \notin opened
    /\ opened' = opened \union {s}
    /\ UNCHANGED <<code, owner, authenticated, expired, account, held, locals, history>>

\* expires_at passes.
Expire(s) ==
    /\ s \in opened
    /\ expired' = expired \union {s}
    /\ UNCHANGED <<opened, code, owner, authenticated, account, held, locals, history>>

\* DELETE FROM users; auth_sessions.user_id is ON DELETE SET NULL.
DeleteUser(u) ==
    /\ Live(u)
    /\ account' = [account EXCEPT ![u] = "deleted"]
    /\ owner' = [s \in Sessions |-> IF owner[s] = u THEN None ELSE owner[s]]
    /\ UNCHANGED <<opened, code, authenticated, expired, held, locals, history>>

-----------------------------------------------------------------------------
(* Logins.                                                                 *)

\* authenticate: the session is read once, before any credential is looked at.
Authenticate(r, s) ==
    /\ pc[r] = "idle"
    /\ s \in opened
    /\ CanResume(s)
    /\ Enter(r, "credentials", s, None, None)
    /\ UNCHANGED <<sessions, account, held, history>>

\* Password, LDAP or identity cookie are verified for user u; a failure, a
\* required action or a second factor to ask for ends the request.
CheckCredentials(r, u) ==
    /\ pc[r] = "credentials"
    /\ \/ Live(u) /\ Enter(r, "stamp", sess[r], u, None)
       \/ Finish(r)
    /\ UNCHANGED <<sessions, account, held, history>>

\* register_user: the account is created first ...
Register(r, s, u) ==
    /\ pc[r] = "idle"
    /\ s \in opened
    /\ account[u] = "unborn"
    /\ account' = [account EXCEPT ![u] = "live"]
    /\ Enter(r, "resume", s, u, None)
    /\ UNCHANGED <<sessions, held, history>>

\* ... then the session named by the cookie is resumed if it still can be;
\* otherwise tokens are generated without a session.
ResumeAfterRegister(r) ==
    /\ pc[r] = "resume"
    /\ IF CanResume(sess[r]) THEN Enter(r, "stamp", sess[r], who[r], None) ELSE Finish(r)
    /\ UNCHANGED <<sessions, account, held, history>>

\* OTP, recovery code, passkey, magic link, completed password reset: these
\* read the session and look neither at its expiry nor at `authenticated`.
Challenge(r, s, u) ==
    /\ pc[r] = "idle"
    /\ s \in opened
    /\ Live(u)
    /\ Enter(r, "stamp", s, u, None)
    /\ UNCHANGED <<sessions, account, held, history>>

\* update_code_and_user_id: one UPDATE by id, whatever the row holds by now.
\* A user deleted meanwhile violates the foreign key.
Stamp(r, c) ==
    /\ pc[r] = "stamp"
    /\ IF Live(who[r])
         THEN /\ Issue(c, sess[r], who[r])
              /\ code' = [code EXCEPT ![sess[r]] = c]
              /\ owner' = [owner EXCEPT ![sess[r]] = who[r]]
              /\ authenticated' = [authenticated EXCEPT ![sess[r]] = FALSE]
         ELSE UNCHANGED <<code, owner, authenticated, held, issued>>
    /\ Finish(r)
    /\ UNCHANGED <<opened, expired, account, minted, answered>>

-----------------------------------------------------------------------------
(* Brokered logins: handle_callback after the identity provider answered.  *)

BrokerCallback(r, s, u) ==
    /\ pc[r] = "idle"
    /\ s \in Brokered \intersect opened
    /\ Live(u)
    /\ Enter(r, "link", s, u, None)
    /\ UNCHANGED <<sessions, account, held, history>>

\* A broker session without an auth session creates one that has its code.
BrokerOpens(s, u, c) ==
    /\ s \in Brokered \ opened
    /\ Live(u)
    /\ Issue(c, s, u)
    /\ opened' = opened \union {s}
    /\ code' = [code EXCEPT ![s] = c]
    /\ owner' = [owner EXCEPT ![s] = u]
    /\ UNCHANGED <<authenticated, expired, account, locals, minted, answered>>

\* A slip: `authenticated` is reset when the user is linked.
LinkReopens(r) ==
    /\ pc[r] = "link"
    /\ IF Live(who[r])
         THEN /\ owner' = [owner EXCEPT ![sess[r]] = who[r]]
              /\ authenticated' = [authenticated EXCEPT ![sess[r]] = FALSE]
              /\ Enter(r, "linked", sess[r], who[r], None)
         ELSE Finish(r) /\ UNCHANGED <<owner, authenticated>>
    /\ UNCHANGED <<opened, code, expired, account, held, history>>

\* First UPDATE: update_user_id ...
BrokerLink(r) ==
    /\ pc[r] = "link"
    /\ IF Live(who[r])
         THEN /\ owner' = [owner EXCEPT ![sess[r]] = who[r]]
              /\ Enter(r, "linked", sess[r], who[r], None)
         ELSE Finish(r) /\ UNCHANGED owner
    /\ UNCHANGED <<opened, code, authenticated, expired, account, held, history>>

\* ... second UPDATE: update_code.
BrokerStamp(r, c) ==
    /\ pc[r] = "linked"
    /\ Issue(c, sess[r], who[r])
    /\ code' = [code EXCEPT ![sess[r]] = c]
    /\ authenticated' = [authenticated EXCEPT ![sess[r]] = FALSE]
    /\ Finish(r)
    /\ UNCHANGED <<opened, owner, expired, account, minted, answered>>

-----------------------------------------------------------------------------
(* The token endpoint, grant_type=authorization_code.                      *)

\* get_by_code; unknown and used codes and sessions without a user are refused.
ReadCode(r, c) ==
    /\ pc[r] = "idle"
    /\ c \in held
    /\ \E s \in opened :
          /\ code[s] = c
          /\ ~authenticated[s]
          /\ owner[s] # None
          /\ Enter(r, "mint", s, owner[s], c)
    /\ UNCHANGED <<sessions, account, held, history>>

\* A slip: the user is taken from the row as it is now.
MintForCurrentOwner(r) ==
    /\ pc[r] = "mint"
    /\ IF Live(owner[sess[r]])
         THEN /\ minted' = minted \union {<<cd[r], owner[sess[r]]>>}
              /\ Enter(r, "mark", sess[r], who[r], cd[r])
         ELSE Finish(r) /\ UNCHANGED minted
    /\ UNCHANGED <<sessions, account, held, issued, answered>>

\* get_by_id and create_jwt, whose rows reference the user.
Mint(r) ==
    /\ pc[r] = "mint"
    /\ IF Live(who[r])
         THEN /\ minted' = minted \union {<<cd[r], who[r]>>}
              /\ Enter(r, "mark", sess[r], who[r], cd[r])
         ELSE Finish(r) /\ UNCHANGED minted
    /\ UNCHANGED <<sessions, account, held, issued, answered>>

\* update_authenticated(id, true), then the tokens go out.
MarkUsed(r) ==
    /\ pc[r] = "mark"
    /\ authenticated' = [authenticated EXCEPT ![sess[r]] = TRUE]
    /\ answered' = answered \union {cd[r]}
    /\ Finish(r)
    /\ UNCHANGED <<opened, code, owner, expired, account, held, issued, minted>>

\* A database error, a lost connection or a crash between two statements.
Abort(r) ==
    /\ pc[r] # "idle"
    /\ Finish(r)
    /\ UNCHANGED <<sessions, account, held, history>>

-----------------------------------------------------------------------------
Login ==
    \E r \in Requests :
        \/ \E s \in Sessions : Authenticate(r, s)
        \/ \E u \in Users : CheckCredentials(r, u)
        \/ \E s \in Sessions, u \in Users : Register(r, s, u)
        \/ ResumeAfterRegister(r)
        \/ \E s \in Sessions, u \in Users : Challenge(r, s, u)
        \/ \E c \in Codes : Stamp(r, c)

BrokerLogin ==
    \/ \E r \in Requests :
          \/ \E s \in Sessions, u \in Users : BrokerCallback(r, s, u)
          \/ BrokerLink(r)
          \/ \E c \in Codes : BrokerStamp(r, c)
    \/ \E s \in Sessions, u \in Users, c \in Codes : BrokerOpens(s, u, c)

Exchange ==
    \E r \in Requests :
        \/ \E c \in Codes : ReadCode(r, c)
        \/ Mint(r)
        \/ MarkUsed(r)

Next ==
    \/ \E s \in Sessions : OpenSession(s) \/ Expire(s)
    \/ \E u \in Users : DeleteUser(u)
    \/ Login
    \/ BrokerLogin
    \/ Exchange
    \/ \E r \in Requests : Abort(r)

Spec == Init /\ [][Next]_vars

-----------------------------------------------------------------------------
(* A code whose exchange was answered with tokens is never accepted again, *)
(* whatever logins reuse its session afterwards: no row holds it as        *)
(* unused.  (Exchanges that had read the row before may still finish.)     *)
AnsweredCodeStaysSpent ==
    \A c \in answered, s \in opened : code[s] = c => authenticated[s]

(* Tokens are minted for the user whose login made the code, also when     *)
(* another login takes the session over while the exchange is under way.   *)
(* Sessions with a brokered login are excluded: handle_callback changes    *)
(* the user and the code in two statements.                                *)
TokensForTheirLogin ==
    \A m \in minted : issued[m[1]].session \notin Brokered => m[2] = issued[m[1]].user

(* "codes cannot be used more than once" (auth_session_repository.rs:287): *)
(* no code mints a second set of tokens.                                   *)
CodesAreSingleUse ==
    [][\A r \in Requests : Mint(r) /\ Live(who[r]) => <<cd[r], who[r]>> \notin minted]_vars
=============================================================================
