----------------------------- MODULE MagicLinks -----------------------------
(***************************************************************************)
(* Magic links: table magic_links, generate_magic_link and                 *)
(* verify_magic_link.  A presented link stamps a code on the session it    *)
(* was asked for, and is deleted afterwards, best effort.                  *)
(***************************************************************************)
EXTENDS TridentParameters

VARIABLES
    status,     \* of a link: "unborn", "stored" or "deleted"
    owner,      \* column user_id
    bound,      \* links with an auth_session_code of a session of the realm
    late,       \* links whose expires_at has passed
    live,       \* accounts that exist
    pc, target, link,
    used,       \* history: links that have logged somebody in
    again,      \* history: links that have done so more than once
    excused     \* history: links presented again before an earlier
                \* presentation had finished, or whose deletion has failed or
                \* was cut off

links == <<status, owner, bound, late>>
locals == <<pc, target, link>>
history == <<used, again, excused>>
vars == <<links, live, locals, history>>

Steps == {"idle", "cleanup", "create", "drop", "stamp", "delete"}

TypeOK ==
    /\ status \in [Links -> {"unborn", "stored", "deleted"}]
    /\ owner \in [Links -> Users \union {None}]
    /\ bound \in SUBSET Links
    /\ late \in SUBSET Links
    /\ live \in SUBSET Users
    /\ pc \in [Requests -> Steps]
    /\ target \in [Requests -> Users \union {None}]
    /\ link \in [Requests -> Links \union {None}]
    /\ \A r \in Requests :
          /\ pc[r] \in {"cleanup", "create"} => target[r] \in Users
          /\ pc[r] \in {"drop", "stamp", "delete"} =>
                link[r] \in Links /\ status[link[r]] # "unborn"
    /\ \A l \in Links : status[l] = "stored" => owner[l] \in live
    /\ used \in SUBSET Links
    /\ again \in SUBSET used
    /\ excused \in SUBSET Links

Init ==
    /\ status = [l \in Links |-> "unborn"]
    /\ owner = [l \in Links |-> None]
    /\ bound = {}
    /\ late = {}
    /\ live = Users
    /\ pc = [r \in Requests |-> "idle"]
    /\ target = [r \in Requests |-> None]
    /\ link = [r \in Requests |-> None]
    /\ used = {}
    /\ again = {}
    /\ excused = {}

-----------------------------------------------------------------------------
Stored == {l \in Links : status[l] = "stored"}
Drop(ls) == status' = [l \in Links |-> IF l \in ls THEN "deleted" ELSE status[l]]

Enter(r, step, u, l) ==
    /\ pc' = [pc EXCEPT ![r] = step]
    /\ target' = [target EXCEPT ![r] = u]
    /\ link' = [link EXCEPT ![r] = l]

Finish(r) == Enter(r, "idle", None, None)

\* A request that has accepted the link l and not finished with it.
Using(r, l) == pc[r] \in {"stamp", "delete"} /\ link[r] = l

-----------------------------------------------------------------------------
(* generate_magic_link.                                                    *)

\* The user is found by email; without one the request ends.
Ask(r, u) ==
    /\ pc[r] = "idle"
    /\ u \in live
    /\ Enter(r, "cleanup", u, None)
    /\ UNCHANGED <<links, live, history>>

\* cleanup_expired: of the whole realm.
Cleanup(r) ==
    /\ pc[r] = "cleanup"
    /\ Drop(Stored \intersect late)
    /\ Enter(r, "create", target[r], None)
    /\ UNCHANGED <<owner, bound, late, live, history>>

\* create_magic_link: user_id references users.  The mail may fail: the row
\* stays.
CreateLink(r, l) ==
    /\ pc[r] = "create"
    /\ Fresh({l}, Links, {k \in Links : status[k] # "unborn"})
    /\ IF target[r] \in live
         THEN /\ status' = [status EXCEPT ![l] = "stored"]
              /\ owner' = [owner EXCEPT ![l] = target[r]]
              /\ bound' \in {bound, bound \union {l}}
         ELSE UNCHANGED <<status, owner, bound>>
    /\ Finish(r)
    /\ UNCHANGED <<late, live, history>>

-----------------------------------------------------------------------------
(* verify_magic_link.                                                      *)

\* get_by_token_id and the session.  Without a session of this realm the
\* request ends; an expired link, or a wrong token, is to be deleted.
Present(r, l) ==
    /\ pc[r] = "idle"
    /\ l \in Stored \intersect bound
    /\ \/ Enter(r, "drop", None, l) /\ UNCHANGED excused
       \/ /\ l \notin late
          /\ Enter(r, "stamp", None, l)
          /\ excused' = IF \E q \in Requests : Using(q, l) THEN excused \union {l} ELSE excused
    /\ UNCHANGED <<links, live, used, again>>

DropLink(r) ==
    /\ pc[r] = "drop"
    /\ Drop(Stored \intersect {link[r]})
    /\ Finish(r)
    /\ UNCHANGED <<owner, bound, late, live, history>>

\* store_auth_code_and_generate_login_url: update_code_and_user_id stamps the
\* session (AuthSessions, Challenge); auth_sessions.user_id references users,
\* and a session without a state ends the request.
Stamp(r) ==
    /\ pc[r] = "stamp"
    /\ \/ /\ owner[link[r]] \in live
          /\ used' = used \union {link[r]}
          /\ again' = again \union ({link[r]} \intersect used)
          /\ Enter(r, "delete", None, link[r])
       \/ Finish(r) /\ UNCHANGED <<used, again>>
    /\ UNCHANGED <<links, live, excused>>

\* A slip: the used link is left to cleanup_expired.
LeaveToCleanup(r) ==
    /\ pc[r] = "delete"
    /\ Finish(r)
    /\ UNCHANGED <<links, live, history>>

\* delete_by_token_id: its error is only logged.
DeleteUsed(r) ==
    /\ pc[r] = "delete"
    /\ \/ Drop(Stored \intersect {link[r]}) /\ UNCHANGED excused
       \/ excused' = excused \union {link[r]} /\ UNCHANGED status
    /\ Finish(r)
    /\ UNCHANGED <<owner, bound, late, live, used, again>>

-----------------------------------------------------------------------------
LifetimeElapses(l) ==
    /\ l \in Stored
    /\ late' = late \union {l}
    /\ UNCHANGED <<status, owner, bound, live, locals, history>>

\* DELETE FROM users: ON DELETE CASCADE on links.
DeleteUser(u) ==
    /\ u \in live
    /\ live' = live \ {u}
    /\ Drop({l \in Stored : owner[l] = u})
    /\ UNCHANGED <<owner, bound, late, locals, history>>

\* A database error, a lost connection or a crash between two statements.
Abort(r) ==
    /\ pc[r] # "idle"
    /\ excused' = IF pc[r] = "delete" THEN excused \union {link[r]} ELSE excused
    /\ Finish(r)
    /\ UNCHANGED <<links, live, used, again>>

-----------------------------------------------------------------------------
Next ==
    \/ \E r \in Requests :
          \/ \E u \in Users : Ask(r, u)
          \/ Cleanup(r)
          \/ \E l \in Links : CreateLink(r, l) \/ Present(r, l)
          \/ DropLink(r)
          \/ Stamp(r)
          \/ DeleteUsed(r)
          \/ Abort(r)
    \/ \E l \in Links : LifetimeElapses(l)
    \/ \E u \in Users : DeleteUser(u)

Spec == Init /\ [][Next]_vars

-----------------------------------------------------------------------------
(* The link is deleted only after the login it was presented for, and that *)
(* deletion may fail unnoticed.  Still no link logs in twice unless it was *)
(* presented a second time before the first was done with it, or its       *)
(* deletion failed or was cut off: expiry, cleanup, wrong tokens and       *)
(* further links open no other way.                                        *)
LinksLogInOnce == again \subseteq excused
=============================================================================
