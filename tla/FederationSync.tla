--------------------------- MODULE FederationSync ---------------------------
(***************************************************************************)
(* sync_federation_users for one LDAP provider: a run lists the directory, *)
(* reads the mappings once, creates or updates one account per entry and,  *)
(* in Force mode, disables the accounts whose entry was not listed.  The   *)
(* statements of a run are not a transaction and nothing keeps two runs    *)
(* apart: the endpoint may be called again while a run is under way, and   *)
(* administrators, other replicas and the directory move on meanwhile.     *)
(***************************************************************************)
EXTENDS Naturals

CONSTANTS
    Users,     \* ids of users
    Entries,   \* directory entries, by their external_id
    Names,     \* usernames
    NameOf,    \* the username attribute of an entry
    Runs,      \* concurrent calls of sync_federation_users
    Modes,     \* the modes they are called with
    MaxEvents, \* bound on faults and on writes of others in a behaviour
    Local,     \* attributes that are those of no entry
    None

ASSUME NamesAssumption == NameOf \in [Entries -> Names]
ASSUME ModesAssumption == Modes \subseteq {"Import", "Force", "LinkOnly"}
ASSUME EventsAssumption == MaxEvents \in Nat
ASSUME ForeignAssumption == None \notin Users \union Entries \union Names /\ Local \notin Entries

VARIABLES
    events,     \* how many of them there have been
    account,    \* of a user: whether the row is stored, and who created it
    name,       \* users.username, unique in the realm
    enabled,    \* users.enabled
    profile,    \* the entry whose e-mail and names the row carries
    password,   \* users with a credential of type password, the marker or their own
    mapping,    \* user_federation_mappings, by external_id
    directory,  \* entries the LDAP server has
    run,        \* of a run: its locals
    quiet,      \* history: runs that nobody and nothing has disturbed since they began
    abandoned   \* history: accounts whose run failed or ended before it mapped them

users == <<account, name, enabled, profile, password>>
vars == <<events, users, mapping, directory, run, quiet, abandoned>>

Idle == [step |-> "idle", mode |-> None, listing |-> {}, known |-> [e \in Entries |-> None],
         todo |-> {}, missing |-> {}, entry |-> None, user |-> None, seen |-> Local]

RunState ==
    [step : {"idle", "listed", "loop", "update", "adopt", "create", "map", "mark", "disable", "off"},
     mode : Modes \union {None}, listing : SUBSET Entries,
     known : [Entries -> Users \union {None}], todo : SUBSET Entries, missing : SUBSET Users,
     entry : Entries \union {None}, user : Users \union {None}, seen : Entries \union {Local}]

TypeOK ==
    /\ events \in 0 .. MaxEvents
    /\ account \in [Users -> {"unborn", "local", "imported", "deleted"}]
    /\ name \in [Users -> Names \union {None}]
    /\ enabled \in [Users -> BOOLEAN]
    /\ \A u \in Users : enabled[u] => account[u] \in {"local", "imported"}
    /\ profile \in [Users -> Entries \union {Local}]
    /\ password \in SUBSET Users
    /\ mapping \in [Entries -> Users \union {None}]
    /\ directory \in SUBSET Entries
    /\ run \in [Runs -> RunState]
    /\ quiet \in SUBSET Runs
    /\ abandoned \in SUBSET Users

Init ==
    /\ events = 0
    /\ account = [u \in Users |-> "unborn"]
    /\ name = [u \in Users |-> None]
    /\ enabled = [u \in Users |-> FALSE]
    /\ profile = [u \in Users |-> Local]
    /\ password = {}
    /\ mapping = [e \in Entries |-> None]
    /\ directory \in SUBSET Entries
    /\ run = [r \in Runs |-> Idle]
    /\ quiet = {}
    /\ abandoned = {}

-----------------------------------------------------------------------------
Stored(u) == account[u] \in {"local", "imported"}
MappedEntries(u) == {e \in Entries : mapping[e] = u}

\* At most one account: unique_username_realm_id.
Named(n) == {u \in Users : Stored(u) /\ name[u] = n}

Becomes(r, next) == run' = [run EXCEPT ![r] = next]
Goto(r, step) == Becomes(r, [run[r] EXCEPT !.step = step])

\* On to the next entry.
NextEntry(r) ==
    Becomes(r, [run[r] EXCEPT !.step = "loop", !.todo = @ \ {run[r].entry},
                                !.entry = None, !.user = None])

\* What another actor writes disturbs every run that is under way.
Event == events < MaxEvents /\ events' = events + 1
DisturbAll == Event /\ quiet' = {}
DisturbOthers(r) == quiet' = quiet \intersect {r} /\ UNCHANGED events
Disturb(r) == quiet' = quiet \ {r}

\* update_user: the row as it is now gets these columns; NotFound when deleted.
UpdateRow(u, e, on) ==
    IF Stored(u)
      THEN /\ profile' = [profile EXCEPT ![u] = e]
           /\ enabled' = [enabled EXCEPT ![u] = on]
      ELSE UNCHANGED <<profile, enabled>>

InsertRow(u, n, by, e) ==
    /\ account[u] = "unborn"
    /\ account' = [account EXCEPT ![u] = by]
    /\ name' = [name EXCEPT ![u] = n]
    /\ enabled' = [enabled EXCEPT ![u] = TRUE]
    /\ profile' = [profile EXCEPT ![u] = e]

-----------------------------------------------------------------------------
\* search_users.  The result code of the search is ignored and an entry that
\* cannot be mapped is skipped: the listing may lack entries of the directory.
Start(r, mode, listing) ==
    /\ run[r].step = "idle"
    /\ Becomes(r, [Idle EXCEPT !.step = "listed", !.mode = mode, !.listing = listing])
    /\ \/ listing = directory /\ quiet' = quiet \union {r} /\ UNCHANGED events
       \/ listing # directory /\ Disturb(r) /\ Event
    /\ UNCHANGED <<users, mapping, directory, abandoned>>

\* list_mappings_by_provider, once for the whole loop, which looks up what is listed.
ReadMappings(r) ==
    /\ run[r].step = "listed"
    /\ Becomes(r, [run[r] EXCEPT !.step = "loop", !.todo = run[r].listing,
                     !.known = [e \in Entries |-> IF e \in run[r].listing THEN mapping[e] ELSE None]])
    /\ UNCHANGED <<events, users, mapping, directory, quiet, abandoned>>

\* reconcile_user_optimized, entry e has a mapping, which the map gives away:
\* get_by_id, needs_update.
NeedsUpdate(r, e, u) ==
    \/ run[r].mode = "Force"
    \/ run[r].mode = "Import" /\ profile[u] # e

LookAtMapped(r, e) ==
    /\ run[r].step = "loop"
    /\ e \in run[r].todo
    /\ run[r].known[e] # None
    /\ LET u == run[r].known[e]
       IN  IF Stored(u) /\ NeedsUpdate(r, e, u)
             THEN Becomes(r, [run[r] EXCEPT !.step = "update", !.entry = e, !.user = u,
                                            !.known = [@ EXCEPT ![e] = None]])
             ELSE Becomes(r, [run[r] EXCEPT !.todo = @ \ {e}, !.known = [@ EXCEPT ![e] = None]])
    /\ UNCHANGED <<events, users, mapping, directory, quiet, abandoned>>

\* A slip: reconcile_user, which the optimized version replaced, looks for no orphan.
CreateWithoutLooking(r, e) ==
    /\ run[r].step = "loop"
    /\ e \in run[r].todo
    /\ run[r].known[e] = None
    /\ Becomes(r, [run[r] EXCEPT !.step = "create", !.entry = e])
    /\ UNCHANGED <<events, users, mapping, directory, quiet, abandoned>>

\* get_by_username.  Any error counts as "there is no such user".
LookForOrphan(r, e) ==
    /\ run[r].step = "loop"
    /\ e \in run[r].todo
    /\ run[r].known[e] = None
    /\ \/ /\ \E u \in Named(NameOf[e]) :
                Becomes(r, [run[r] EXCEPT !.step = "adopt", !.entry = e, !.user = u])
          /\ UNCHANGED <<events, quiet>>
       \/ /\ Becomes(r, [run[r] EXCEPT !.step = "create", !.entry = e])
          /\ \/ Named(NameOf[e]) = {} /\ UNCHANGED <<events, quiet>>
             \/ Named(NameOf[e]) # {} /\ Disturb(r) /\ Event
    /\ UNCHANGED <<users, mapping, directory, abandoned>>

\* update_user with enabled: true.  What update_mapping stamps nobody reads.
Update(r) ==
    /\ run[r].step = "update"
    /\ UpdateRow(run[r].user, run[r].entry, TRUE)
    /\ NextEntry(r)
    /\ DisturbOthers(r)
    /\ UNCHANGED <<account, name, password, mapping, directory, abandoned>>

\* An account of that name is updated before it is known whether it can be linked.
Adopt(r) ==
    /\ run[r].step = "adopt"
    /\ UpdateRow(run[r].user, run[r].entry, TRUE)
    /\ IF Stored(run[r].user) THEN Goto(r, "map") ELSE NextEntry(r)
    /\ DisturbOthers(r)
    /\ UNCHANGED <<account, name, password, mapping, directory, abandoned>>

\* A slip: usernames are not unique.
CreateAnyUser(r, u) ==
    /\ run[r].step = "create"
    /\ InsertRow(u, NameOf[run[r].entry], "imported", run[r].entry)
    /\ Becomes(r, [run[r] EXCEPT !.step = "map", !.user = u])
    /\ DisturbOthers(r)
    /\ UNCHANGED <<password, mapping, directory, abandoned>>

\* create_user; unique_username_realm_id.
CreateUser(r, u) ==
    /\ run[r].step = "create"
    /\ IF Named(NameOf[run[r].entry]) = {}
         THEN /\ InsertRow(u, NameOf[run[r].entry], "imported", run[r].entry)
              /\ Becomes(r, [run[r] EXCEPT !.step = "map", !.user = u])
         ELSE /\ NextEntry(r)
              /\ UNCHANGED <<account, name, enabled, profile>>
    /\ DisturbOthers(r)
    /\ UNCHANGED <<password, mapping, directory, abandoned>>

\* create_mapping: the account exists, and neither it nor the entry is mapped.
MapUser(r) ==
    /\ run[r].step = "map"
    /\ LET u == run[r].user
           e == run[r].entry
       IN  IF Stored(u) /\ mapping[e] = None /\ MappedEntries(u) = {}
             THEN mapping' = [mapping EXCEPT ![e] = u] /\ Goto(r, "mark")
             ELSE NextEntry(r) /\ UNCHANGED mapping
    /\ DisturbOthers(r)
    /\ UNCHANGED <<users, directory, abandoned>>

\* The federated marker, unless the account has a password; errors are ignored.
Mark(r) ==
    /\ run[r].step = "mark"
    /\ password' = IF Stored(run[r].user) THEN password \union {run[r].user} ELSE password
    /\ NextEntry(r)
    /\ DisturbOthers(r)
    /\ UNCHANGED <<account, name, enabled, profile, mapping, directory, abandoned>>

-----------------------------------------------------------------------------
Looped(r) == run[r].step = "loop" /\ run[r].todo = {}

\* The accounts mapped to entries that the listing lacks.
Unlisted(r) == {mapping[e] : e \in Entries \ run[r].listing} \ {None}

\* A slip: every mode disables.
ListMissingAlways(r) ==
    /\ Looped(r)
    /\ Becomes(r, [run[r] EXCEPT !.step = "disable", !.missing = Unlisted(r)])
    /\ UNCHANGED <<events, users, mapping, directory, quiet, abandoned>>

\* disable_missing_users: the mappings are read again, the listing is the old one.
ListMissing(r) ==
    /\ Looped(r)
    /\ run[r].mode = "Force"
    /\ Becomes(r, [run[r] EXCEPT !.step = "disable", !.missing = Unlisted(r)])
    /\ UNCHANGED <<events, users, mapping, directory, quiet, abandoned>>

\* get_by_id; an account that is disabled already is left alone.
LookAtMissing(r, u) ==
    /\ run[r].step = "disable"
    /\ u \in run[r].missing
    /\ IF Stored(u) /\ enabled[u]
         THEN Becomes(r, [run[r] EXCEPT !.step = "off", !.missing = @ \ {u}, !.user = u,
                                      !.seen = profile[u]])
         ELSE Becomes(r, [run[r] EXCEPT !.missing = @ \ {u}])
    /\ UNCHANGED <<events, users, mapping, directory, quiet, abandoned>>

\* update_user writes the attributes back as they were read.
Disable(r) ==
    /\ run[r].step = "off"
    /\ UpdateRow(run[r].user, run[r].seen, FALSE)
    /\ Becomes(r, [run[r] EXCEPT !.step = "disable", !.user = None, !.seen = Local])
    /\ DisturbOthers(r)
    /\ UNCHANGED <<account, name, password, mapping, directory, abandoned>>

AllDone(r) ==
    \/ Looped(r) /\ run[r].mode # "Force"
    \/ run[r].step = "disable" /\ run[r].missing = {}

Complete(r) ==
    /\ AllDone(r)
    /\ Becomes(r, Idle)
    /\ Disturb(r)
    /\ UNCHANGED <<events, users, mapping, directory, abandoned>>

-----------------------------------------------------------------------------
\* What a failing or dying run leaves behind.
Abandon(r) ==
    /\ abandoned' = IF run[r].step = "map" THEN abandoned \union {run[r].user} ELSE abandoned
    /\ Event
    /\ Disturb(r)
    /\ UNCHANGED <<users, mapping, directory>>

\* A statement fails: an e-mail in use, a database error.  The run goes on.
FailStatement(r) ==
    /\ \/ run[r].step \in {"update", "adopt", "create", "map", "mark"} /\ NextEntry(r)
       \/ /\ run[r].step = "off"
          /\ Becomes(r, [run[r] EXCEPT !.step = "disable", !.user = None, !.seen = Local])
    /\ Abandon(r)

\* The process ends, the request is dropped, or list_mappings_by_provider fails.
Crash(r) ==
    /\ run[r].step # "idle"
    /\ Becomes(r, Idle)
    /\ Abandon(r)

-----------------------------------------------------------------------------
CreateLocal(u, n) ==
    /\ Named(n) = {}
    /\ InsertRow(u, n, "local", Local)
    /\ DisturbAll
    /\ UNCHANGED <<password, mapping, directory, run, abandoned>>

\* update_user of an administrator.
EditUser(u, on) ==
    /\ Stored(u)
    /\ UpdateRow(u, Local, on)
    /\ DisturbAll
    /\ UNCHANGED <<account, name, password, mapping, directory, run, abandoned>>

\* A slip: the mappings of a deleted account stay.
DeleteUserRow(u) ==
    /\ Stored(u)
    /\ account' = [account EXCEPT ![u] = "deleted"]
    /\ name' = [name EXCEPT ![u] = None]
    /\ enabled' = [enabled EXCEPT ![u] = FALSE]
    /\ profile' = [profile EXCEPT ![u] = Local]
    /\ password' = password \ {u}
    /\ abandoned' = abandoned \ {u}
    /\ DisturbAll
    /\ UNCHANGED <<mapping, directory, run>>

\* delete_user; mappings and credentials follow by cascade.
DeleteUser(u) ==
    /\ Stored(u)
    /\ account' = [account EXCEPT ![u] = "deleted"]
    /\ name' = [name EXCEPT ![u] = None]
    /\ enabled' = [enabled EXCEPT ![u] = FALSE]
    /\ profile' = [profile EXCEPT ![u] = Local]
    /\ password' = password \ {u}
    /\ mapping' = [e \in Entries |-> IF mapping[e] = u THEN None ELSE mapping[e]]
    /\ abandoned' = abandoned \ {u}
    /\ DisturbAll
    /\ UNCHANGED <<directory, run>>

DirectoryMoves(e) ==
    /\ directory' = (directory \union {e}) \ (directory \intersect {e})
    /\ DisturbAll
    /\ UNCHANGED <<users, mapping, run, abandoned>>

Next ==
    \/ \E r \in Runs, mode \in Modes, listing \in SUBSET directory : Start(r, mode, listing)
    \/ \E r \in Runs, e \in Entries : LookAtMapped(r, e) \/ LookForOrphan(r, e)
    \/ \E r \in Runs, u \in Users : CreateUser(r, u) \/ LookAtMissing(r, u)
    \/ \E r \in Runs :
          \/ ReadMappings(r)
          \/ Update(r)
          \/ Adopt(r)
          \/ MapUser(r)
          \/ Mark(r)
          \/ ListMissing(r)
          \/ Disable(r)
          \/ Complete(r)
          \/ FailStatement(r)
          \/ Crash(r)
    \/ \E u \in Users :
          \/ \E n \in Names : CreateLocal(u, n)
          \/ \E on \in BOOLEAN : EditUser(u, on)
          \/ DeleteUser(u)
    \/ \E e \in Entries : DirectoryMoves(e)

Spec == Init /\ [][Next]_vars

-----------------------------------------------------------------------------
\* Two entries that claim one username cannot both be mapped.
NameClash(listing) ==
    \E e \in listing, f \in Entries :
        e # f /\ NameOf[e] = NameOf[f] /\ (f \in listing \/ mapping[f] # None)

(* 'This method performs a "diff" between LDAP and the local database'      *)
(* (sync_ldap_users, services.rs:286).                                      *)
(* Whatever crashes, failures and overlapping runs have left behind, one    *)
(* run that goes undisturbed over a full listing repairs it: every entry    *)
(* has a mapped account with its attributes, which Force also enables, and  *)
(* Force has disabled the accounts of all other entries.                    *)
SyncConverges ==
    \A r \in quiet :
        LET listing == run[r].listing
            force == run[r].mode = "Force"
        IN  AllDone(r) /\ ~NameClash(listing) =>
              /\ \A e \in listing :
                    /\ mapping[e] # None
                    /\ run[r].mode # "LinkOnly" => profile[mapping[e]] = e
                    /\ force => enabled[mapping[e]]
              /\ \A e \in Entries \ listing :
                    force /\ mapping[e] # None => ~enabled[mapping[e]]

(* A login goes to LDAP under the account's username when the account has a *)
(* mapping (authenticate).  Every mapping leads to a stored account of the  *)
(* entry's username and no account has two, whatever runs and deletions     *)
(* cross between get_by_username, create_user and create_mapping.           *)
MappingsAreSound ==
    \A e \in Entries :
        LET u == mapping[e]
        IN  u # None => Stored(u) /\ name[u] = NameOf[e] /\ MappedEntries(u) = {e}

(* E-mail and names that a run writes into an account come from an entry of *)
(* the same username, however long ago the run looked the account up; not   *)
(* always from the entry the account is mapped to.                          *)
ProfilesBelong ==
    \A u \in Users : profile[u] # Local => NameOf[profile[u]] = name[u]

(* An account that a run has created is linked, or about to be linked, or a *)
(* run has failed or died when it was about to link it: overlapping runs by *)
(* themselves never leave an account behind that no entry claims.  That a   *)
(* failure may leave one is what ImportsAreWhole, which the documentation   *)
(* promises, denies.                                                        *)
ImportedAreClaimed ==
    \A u \in Users : account[u] = "imported" =>
        \/ MappedEntries(u) # {}
        \/ \E r \in Runs : run[r].step = "map" /\ run[r].user = u
        \/ u \in abandoned

(* "Atomic operations to prevent partial updates" and "Comprehensive error  *)
(* handling with rollback support" (sync_ldap_users, services.rs:293-294):  *)
(* a run that gets to its end while no other is under way leaves no account *)
(* that a run has created without the mapping that belongs to it.           *)
ImportsAreWhole ==
    \A r \in Runs : AllDone(r) /\ (\A s \in Runs \ {r} : run[s].step = "idle") =>
        \A u \in Users : account[u] = "imported" => MappedEntries(u) # {}

(* "Only in Force mode to prevent accidental mass disables": a run disables *)
(* an account only in Force mode, and only one that is at that moment       *)
(* mapped to an entry missing from the run's listing.                       *)
DisablesOnlyTheMissing ==
    [][\A r \in Runs, u \in Users :
         run'[r] # run[r] /\ enabled[u] /\ ~enabled'[u] =>
           run[r].mode = "Force" /\ \E e \in Entries \ run[r].listing : mapping[e] = u]_vars
=============================================================================
