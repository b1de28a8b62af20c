------------------------------ MODULE Passkeys ------------------------------
(***************************************************************************)
(* The passkeys of one user: WebAuthn rows of credentials, the challenges  *)
(* in auth_sessions.webauthn_challenge, and the handlers that hand out and *)
(* verify them.  Verifying leaves the challenge where it is, so that of a  *)
(* repeated answer only the signature counter tells that it is not new;    *)
(* and the counter is read and written back in two statements.  That both  *)
(* begin and finish of a registration drop the required action             *)
(* ConfigurePasskey, best effort, is left out: nothing here reads it.      *)
(***************************************************************************)
EXTENDS TridentParameters

VARIABLES
    rows,       \* WebAuthn rows of credentials
    keyOf,      \* column webauthn_credential_id: the registration challenge
                \* that the key was made for
    counter,    \* the signature counter in credential_data
    kind,       \* of a challenge: "unborn" or the variant of WebAuthnChallenge
    seen,       \* rows and counters in the state of an authentication
    signer,     \* the key that has answered a challenge
    signature,  \* the signature counter in that answer
    pc,
    answer,     \* the challenge whose answer is being verified
    picked,     \* the row read to be updated
    read,       \* the counter in it
    used,       \* history: challenges whose counted answer has logged in
    again,      \* history: those whose answer has done so more than once
    excused,    \* history: those whose answer was presented again before an
                \* earlier presentation of it had finished
    crossed     \* history: keys stored twice, or two of whose updates crossed

credentials == <<rows, keyOf, counter>>
challenges == <<kind, seen>>
authenticators == <<signer, signature>>
locals == <<pc, answer, picked, read>>
history == <<used, again, excused, crossed>>
vars == <<credentials, challenges, authenticators, locals, history>>

Kinds == {"registration", "known", "discoverable"}
Steps == {"idle", "create", "verify", "find", "update", "stamp"}

TypeOK ==
    /\ keyOf \in [Passkeys -> Challenges \union {None}]
    /\ rows \in SUBSET {p \in Passkeys : keyOf[p] # None}
    /\ counter \in [Passkeys -> Counters]
    /\ kind \in [Challenges -> Kinds \union {"unborn"}]
    /\ seen \in [Challenges -> SUBSET (Passkeys \X Counters)]
    /\ signer \in [Challenges -> Challenges \union {None}]
    /\ signature \in [Challenges -> Counters]
    /\ pc \in [Requests -> Steps]
    /\ answer \in [Requests -> Challenges \union {None}]
    /\ picked \in [Requests -> Passkeys \union {None}]
    /\ read \in [Requests -> Counters]
    /\ \A r \in Requests :
          /\ pc[r] # "idle" => answer[r] \in Challenges /\ signer[answer[r]] # None
          /\ pc[r] = "update" => picked[r] \in Passkeys
    /\ used \in SUBSET Challenges
    /\ again \in SUBSET used
    /\ excused \in SUBSET Challenges
    /\ crossed \in SUBSET Challenges

Init ==
    /\ rows = {}
    /\ keyOf = [p \in Passkeys |-> None]
    /\ counter = [p \in Passkeys |-> 0]
    /\ kind = [c \in Challenges |-> "unborn"]
    /\ seen = [c \in Challenges |-> {}]
    /\ signer = [c \in Challenges |-> None]
    /\ signature = [c \in Challenges |-> 0]
    /\ pc = [r \in Requests |-> "idle"]
    /\ answer = [r \in Requests |-> None]
    /\ picked = [r \in Requests |-> None]
    /\ read = [r \in Requests |-> 0]
    /\ used = {}
    /\ again = {}
    /\ excused = {}
    /\ crossed = {}

-----------------------------------------------------------------------------
Enter(r, step, c) ==
    /\ pc' = [pc EXCEPT ![r] = step]
    /\ answer' = [answer EXCEPT ![r] = c]
    /\ picked' = [picked EXCEPT ![r] = None]
    /\ read' = [read EXCEPT ![r] = 0]

Finish(r) == Enter(r, "idle", None)

\* A request that has taken up the answer to c and not finished with it.
Using(r, c) == pc[r] \in {"verify", "find", "update", "stamp"} /\ answer[r] = c

\* Answers that nothing but the counter tells from new ones.
Counted(c) == kind[c] = "discoverable" /\ signature[c] > 0

RowsOf(k) == {p \in rows : keyOf[p] = k}

-----------------------------------------------------------------------------
(* The options of a registration or an authentication.                     *)

\* save_webauthn_challenge.  A challenge that its session replaces is one whose
\* answer is not presented any more.  Cut off before the save, the request has
\* done nothing.
HandOut(c, variant, state) ==
    /\ Fresh({c}, Challenges, {d \in Challenges : kind[d] # "unborn"})
    /\ kind' = [kind EXCEPT ![c] = variant]
    /\ seen' = [seen EXCEPT ![c] = state]
    /\ UNCHANGED <<credentials, authenticators, locals, history>>

\* webauthn_public_key_create_options: keys the user has are excluded, and the
\* authenticator makes a new one.
BeginRegistration(c) == HandOut(c, "registration", {})

\* webauthn_public_key_request_options: the state of the ceremony holds the
\* keys it is to be verified against.
BeginKnown(c) ==
    /\ rows # {}
    /\ HandOut(c, "known", {<<p, counter[p]>> : p \in rows})

\* passkey_request_options, with a username and without.
BeginPasskey(c) == BeginKnown(c) \/ HandOut(c, "discoverable", {})

-----------------------------------------------------------------------------
\* The authenticator signs: a registration with a new key, another challenge
\* with one of those it is offered.  A key that counts, counts up, by how much
\* makes no difference; one that does not says 0.
Sign(c, k, n) ==
    /\ kind[c] # "unborn"
    /\ signer[c] = None
    /\ CASE kind[c] = "registration" -> k = c
         [] kind[c] = "known" -> \E s \in seen[c] : keyOf[s[1]] = k
         [] kind[c] = "discoverable" -> signer[k] = k
    /\ \A d \in Challenges : signer[d] = k =>
          IF signature[d] = 0 THEN n = 0 ELSE signature[d] < n
    /\ \A m \in Counters : 0 < m /\ m < n =>
          \E d \in Challenges : signer[d] = k /\ m <= signature[d]
    /\ signer' = [signer EXCEPT ![c] = k]
    /\ signature' = [signature EXCEPT ![c] = n]
    /\ UNCHANGED <<credentials, challenges, locals, history>>

\* finish_passkey_authentication and finish_discoverable_authentication
\* compare counters; needs_update says whether the row is to be written.
Accepted(n, m) == n > m \/ (n = 0 /\ m = 0)

Accept(r, c) == Enter(r, IF signature[c] = 0 THEN "stamp" ELSE "find", c)

\* The answer arrives, or arrives again: get_by_session_code.  That of a known
\* user is verified against what the challenge carries.
Present(r, c) ==
    /\ pc[r] = "idle"
    /\ signer[c] # None
    /\ \/ kind[c] = "registration" /\ Enter(r, "create", c)
       \/ kind[c] = "discoverable" /\ Enter(r, "verify", c)
       \/ /\ kind[c] = "known"
          /\ \E s \in seen[c] : keyOf[s[1]] = signer[c] /\ Accepted(signature[c], s[2])
          /\ Accept(r, c)
    /\ excused' = IF Counted(c) /\ \E q \in Requests : Using(q, c)
                     THEN excused \union {c} ELSE excused
    /\ UNCHANGED <<credentials, challenges, authenticators, used, again, crossed>>

-----------------------------------------------------------------------------
(* webauthn_public_key_create.                                             *)

\* create_webauthn_credential: nothing makes webauthn_credential_id unique.
CreateRow(r, p) ==
    /\ pc[r] = "create"
    /\ Fresh({p}, Passkeys, {o \in Passkeys : keyOf[o] # None})
    /\ rows' = rows \union {p}
    /\ keyOf' = [keyOf EXCEPT ![p] = answer[r]]
    /\ counter' = [counter EXCEPT ![p] = signature[answer[r]]]
    /\ crossed' = IF \E o \in Passkeys : keyOf[o] = answer[r]
                    THEN crossed \union {answer[r]} ELSE crossed
    /\ Finish(r)
    /\ UNCHANGED <<challenges, authenticators, used, again, excused>>

-----------------------------------------------------------------------------
(* webauthn_public_key_authenticate and passkey_authenticate.              *)

\* get_webauthn_credential_by_credential_id_and_user: any row with the key.
Verify(r) ==
    /\ pc[r] = "verify"
    /\ \E p \in RowsOf(signer[answer[r]]) : Accepted(signature[answer[r]], counter[p])
    /\ Accept(r, answer[r])
    /\ UNCHANGED <<credentials, challenges, authenticators, history>>

\* update_webauthn_credential, the SELECT: any row with the key.
FindRow(r, p) ==
    /\ pc[r] = "find"
    /\ p \in RowsOf(signer[answer[r]])
    /\ pc' = [pc EXCEPT ![r] = "update"]
    /\ picked' = [picked EXCEPT ![r] = p]
    /\ read' = [read EXCEPT ![r] = counter[p]]
    /\ crossed' = IF \E q \in Requests : pc[q] = "update" /\ signer[answer[q]] = keyOf[p]
                    THEN crossed \union {keyOf[p]} ELSE crossed
    /\ UNCHANGED <<credentials, challenges, authenticators, answer,
                   used, again, excused>>

\* A slip: the counter of the answer is stored, whatever the row had.
StoreAnswered(r) ==
    /\ pc[r] = "update"
    /\ picked[r] \in rows
    /\ counter' = [counter EXCEPT ![picked[r]] = signature[answer[r]]]
    /\ Enter(r, "stamp", answer[r])
    /\ UNCHANGED <<rows, keyOf, challenges, authenticators, history>>

\* update_webauthn_credential, update_credential and the UPDATE by id: it ends
\* the request if the row is gone.
UpdateRow(r) ==
    /\ pc[r] = "update"
    /\ picked[r] \in rows
    /\ LET n == signature[answer[r]] IN
          counter' = [counter EXCEPT ![picked[r]] = IF n > read[r] THEN n ELSE read[r]]
    /\ Enter(r, "stamp", answer[r])
    /\ UNCHANGED <<rows, keyOf, challenges, authenticators, history>>

\* user_verified and store_auth_code_and_generate_login_url, which stamps the
\* session (AuthSessions, Challenge).
Stamp(r) ==
    /\ pc[r] = "stamp"
    /\ IF Counted(answer[r])
         THEN /\ used' = used \union {answer[r]}
              /\ again' = again \union ({answer[r]} \intersect used)
         ELSE UNCHANGED <<used, again>>
    /\ Finish(r)
    /\ UNCHANGED <<credentials, challenges, authenticators, excused, crossed>>

-----------------------------------------------------------------------------
\* delete_credential, by the user or an administrator.
DeleteCredential(p) ==
    /\ p \in rows
    /\ rows' = rows \ {p}
    /\ counter' = [counter EXCEPT ![p] = 0]
    /\ UNCHANGED <<keyOf, challenges, authenticators, locals, history>>

\* A refusal, a database error, a lost connection or a crash.
Abort(r) ==
    /\ pc[r] # "idle"
    /\ Finish(r)
    /\ UNCHANGED <<credentials, challenges, authenticators, history>>

-----------------------------------------------------------------------------
Authenticate(r) ==
    \/ Verify(r)
    \/ \E p \in Passkeys : FindRow(r, p)
    \/ UpdateRow(r)
    \/ Stamp(r)

Next ==
    \/ \E r \in Requests :
          \/ \E c \in Challenges : Present(r, c)
          \/ \E p \in Passkeys : CreateRow(r, p)
          \/ Authenticate(r)
          \/ Abort(r)
    \/ \E c \in Challenges :
          \/ BeginRegistration(c)
          \/ BeginPasskey(c)
          \/ \E k \in Challenges, n \in Counters : Sign(c, k, n)
    \/ \E p \in Passkeys : DeleteCredential(p)

Spec == Init /\ [][Next]_vars

-----------------------------------------------------------------------------
(* The challenge of a discoverable authentication is not consumed.  Still  *)
(* no answer of a key that counts logs in twice, unless it was presented   *)
(* again before the first presentation was done with, or the counter was   *)
(* lost where two updates of the key crossed or it was stored twice: late  *)
(* answers to other challenges, of any kind, open no other way.            *)
AnswersLogInOnce ==
    \A c \in again : c \in excused \/ signer[c] \in crossed
=============================================================================
