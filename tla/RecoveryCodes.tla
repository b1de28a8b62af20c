---------------------------- MODULE RecoveryCodes ----------------------------
(***************************************************************************)
(* The recovery codes of one user: rows of table credentials that          *)
(* generate_recovery_code replaces as a batch and burn_recovery_code       *)
(* consumes one by one.  delete_by_id is a SELECT, which fails when the    *)
(* row is gone, and a DELETE by id, which does not.                        *)
(***************************************************************************)
EXTENDS TridentParameters

VARIABLES
    stored,     \* rows of type recovery-code
    pc,
    previous,   \* generation: the rows read first and not yet deleted
    found,      \* generation: those of them that the SELECT has found
    code,       \* burning: the row that matched the presented code
    generated,  \* history: codes ever stored
    newest,     \* history: the batch stored last
    consumed,   \* history: codes of that batch burnt, or deleted by an administrator
    used        \* history: codes that have opened a login

vars == <<stored, pc, previous, found, code, generated, newest, consumed, used>>
history == <<generated, newest, consumed, used>>

Steps == {"idle", "store", "invalidate", "matched", "found", "login"}

TypeOK ==
    /\ stored \in SUBSET generated
    /\ pc \in [Requests -> Steps]
    /\ previous \in [Requests -> SUBSET Codes]
    /\ found \in [Requests -> SUBSET Codes]
    /\ code \in [Requests -> Codes \union {None}]
    /\ \A r \in Requests :
          /\ previous[r] \subseteq generated
          /\ found[r] \subseteq previous[r]
          /\ found[r] # {} => pc[r] = "invalidate"
          /\ pc[r] \in {"matched", "found", "login"} => code[r] \in generated
    /\ generated \in SUBSET Codes
    /\ newest \in SUBSET generated
    /\ consumed \in SUBSET newest
    /\ used \in SUBSET generated

Init ==
    /\ stored = {}
    /\ pc = [r \in Requests |-> "idle"]
    /\ previous = [r \in Requests |-> {}]
    /\ found = [r \in Requests |-> {}]
    /\ code = [r \in Requests |-> None]
    /\ generated = {}
    /\ newest = {}
    /\ consumed = {}
    /\ used = {}

-----------------------------------------------------------------------------
Enter(r, step, old, c) ==
    /\ pc' = [pc EXCEPT ![r] = step]
    /\ previous' = [previous EXCEPT ![r] = old]
    /\ found' = [found EXCEPT ![r] = {}]
    /\ code' = [code EXCEPT ![r] = c]

Finish(r) == Enter(r, "idle", {}, None)

-----------------------------------------------------------------------------
(* generate_recovery_code.                                                 *)

ReadStored(r) ==
    /\ pc[r] = "idle"
    /\ Enter(r, "store", stored, None)
    /\ UNCHANGED <<stored, history>>

\* A slip: the codes to invalidate are read when the new ones are stored.
StoreThenRead(r, batch) ==
    /\ pc[r] = "store"
    /\ Cardinality(batch) \in Amounts
    /\ Fresh(batch, Codes, generated)
    /\ stored' = stored \union batch
    /\ generated' = generated \union batch
    /\ newest' = batch
    /\ consumed' = {}
    /\ Enter(r, "invalidate", stored', None)
    /\ UNCHANGED used

\* create_recovery_code_credentials: the batch is one INSERT.
Store(r, batch) ==
    /\ pc[r] = "store"
    /\ Cardinality(batch) \in Amounts
    /\ Fresh(batch, Codes, generated)
    /\ stored' = stored \union batch
    /\ generated' = generated \union batch
    /\ newest' = batch
    /\ consumed' = {}
    /\ Enter(r, "invalidate", previous[r], None)
    /\ UNCHANGED used

\* delete_by_id, the SELECT.  The deletions run interleaved (try_join_all);
\* the first that fails makes the request fail and the others are dropped.
FindPrevious(r, c) ==
    /\ pc[r] = "invalidate"
    /\ c \in previous[r] \ found[r]
    /\ IF c \in stored
         THEN found' = [found EXCEPT ![r] = @ \union {c}] /\ UNCHANGED <<pc, previous, code>>
         ELSE Finish(r)
    /\ UNCHANGED <<stored, history>>

\* delete_by_id, the DELETE.
DeletePrevious(r, c) ==
    /\ pc[r] = "invalidate"
    /\ c \in found[r]
    /\ stored' = stored \ {c}
    /\ previous' = [previous EXCEPT ![r] = @ \ {c}]
    /\ found' = [found EXCEPT ![r] = @ \ {c}]
    /\ UNCHANGED <<pc, code, history>>

\* The codes are shown to the user.
Answer(r) ==
    /\ pc[r] = "invalidate"
    /\ previous[r] = {}
    /\ Finish(r)
    /\ UNCHANGED <<stored, history>>

-----------------------------------------------------------------------------
(* burn_recovery_code.                                                     *)

\* The presented code is compared with every stored one.
Match(r, c) ==
    /\ pc[r] = "idle"
    /\ c \in stored
    /\ Enter(r, "matched", {}, c)
    /\ UNCHANGED <<stored, history>>

\* delete_by_id, the SELECT.
FindMatched(r) ==
    /\ pc[r] = "matched"
    /\ IF code[r] \in stored THEN Enter(r, "found", {}, code[r]) ELSE Finish(r)
    /\ UNCHANGED <<stored, history>>

\* A slip: the deletion is left to the end and skipped.
BurnKeepsRow(r) ==
    /\ pc[r] = "found"
    /\ consumed' = consumed \union ({code[r]} \intersect newest)
    /\ Enter(r, "login", {}, code[r])
    /\ UNCHANGED <<stored, generated, newest, used>>

\* delete_by_id, the DELETE.
Burn(r) ==
    /\ pc[r] = "found"
    /\ stored' = stored \ {code[r]}
    /\ consumed' = consumed \union ({code[r]} \intersect newest)
    /\ Enter(r, "login", {}, code[r])
    /\ UNCHANGED <<generated, newest, used>>

\* update_code_and_user_id stamps the session (AuthSessions, Challenge).
Login(r) ==
    /\ pc[r] = "login"
    /\ used' = used \union {code[r]}
    /\ Finish(r)
    /\ UNCHANGED <<stored, generated, newest, consumed>>

\* delete_credential, by an administrator.
DeleteCredential(c) ==
    /\ c \in stored
    /\ stored' = stored \ {c}
    /\ consumed' = consumed \union ({c} \intersect newest)
    /\ UNCHANGED <<pc, previous, found, code, generated, newest, used>>

\* A database error, a lost connection or a crash between two statements.
Abort(r) ==
    /\ pc[r] # "idle"
    /\ Finish(r)
    /\ UNCHANGED <<stored, history>>

-----------------------------------------------------------------------------
Generate(r) ==
    \/ ReadStored(r)
    \/ \E batch \in SUBSET Codes : Store(r, batch)
    \/ \E c \in Codes : FindPrevious(r, c) \/ DeletePrevious(r, c)
    \/ Answer(r)

Challenge(r) ==
    \/ \E c \in Codes : Match(r, c)
    \/ FindMatched(r)
    \/ Burn(r)
    \/ Login(r)

Next ==
    \/ \E r \in Requests : Generate(r) \/ Challenge(r) \/ Abort(r)
    \/ \E c \in Codes : DeleteCredential(c)

Spec == Init /\ [][Next]_vars

-----------------------------------------------------------------------------
(* "Once new codes stored it's now safe to invalidate the previous         *)
(* recovery codes": whatever generations overlap, fail or crash half way,  *)
(* the batch stored last is there, except for codes burnt or deleted one   *)
(* by one; so no generation ever takes the last usable codes away.         *)
NewestBatchIntact == newest \subseteq stored \union consumed

(* A code that has opened a login is never accepted by a later request: it *)
(* is deleted before the session is stamped and no generation brings it    *)
(* back.                                                                   *)
UsedCodesAreGone == used \intersect stored = {}
=============================================================================
