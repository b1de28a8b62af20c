---------------------------- MODULE ClusterOperator ----------------------------
(***************************************************************************)
(* The Kubernetes operator: one FerrisKeyCluster resource, the objects the *)
(* operator keeps for it, and the processes that reconcile them.  Nothing  *)
(* elects a leader: a rolling update, or more replicas, lets two processes *)
(* work at a time.  A process sees the resource through a cache that is    *)
(* fed by a watch, decides on the cached copy, and makes one call of the   *)
(* Kubernetes API after the other.                                         *)
(***************************************************************************)
EXTENDS Naturals, Sequences

CONSTANTS
    Operators,  \* operator processes
    Versions,   \* values of spec.version; each stands for a whole spec
    Stuck,      \* those whose image cannot be pulled: their job never finishes
    MaxEvents,  \* bound on what users do to the resource, on failed calls
                \* and on ended processes, together
    None        \* no object

ASSUME NoneAssumption == None \notin Versions
ASSUME StuckAssumption == Stuck \subseteq Versions
ASSUME MaxEventsAssumption == MaxEvents \in Nat

VARIABLES
    events,         \* counted against the bound
    resource,       \* the FerrisKeyCluster
    stored,         \* of an object: the spec it was last applied for
    seen,           \* the copy of the resource in a process's cache
    due,            \* processes that have the resource in their queue
    pc, at, spec,   \* of a process: its step, its place, and the spec it applies
    launched,       \* history: versions whose migration job was created
    contested       \* history: two processes have worked at a time, or one has
                    \* begun to apply a resource without finalizer

locals == <<pc, at, spec>>
history == <<launched, contested>>
vars == <<events, resource, stored, seen, due, locals, history>>

\* A slip: the migration job comes after the API.
ApiFirst == <<"secret", "api", "job", "apiService", "webapp", "webappService">>

ApplyOrder == <<"secret", "job", "api", "apiService", "webapp", "webappService">>
DeleteOrder == <<"api", "apiService", "secret", "job", "webapp", "webappService">>
Kinds == {"secret", "job", "api", "apiService", "webapp", "webappService"}
Places == 1 .. 6

Absent == [present |-> FALSE, finalizer |-> FALSE, deleting |-> FALSE, version |-> None]
Resource == {Absent} \union
    [present : {TRUE}, finalizer : BOOLEAN, deleting : BOOLEAN, version : Versions]
Working == {"apply", "cleanup", "release"}
Steps == {"down", "idle"} \union Working

TypeOK ==
    /\ events \in 0 .. MaxEvents
    /\ resource \in Resource
    /\ stored \in [Kinds -> Versions \union {None}]
    /\ seen \in [Operators -> Resource]
    /\ due \in SUBSET Operators
    /\ pc \in [Operators -> Steps]
    /\ at \in [Operators -> Places]
    /\ spec \in [Operators -> Versions \union {None}]
    /\ \A o \in Operators : pc[o] = "apply" => spec[o] \in Versions
    /\ launched \in SUBSET Versions
    /\ contested \in BOOLEAN

Init ==
    /\ events = 0
    /\ resource = Absent
    /\ stored = [k \in Kinds |-> None]
    /\ seen = [o \in Operators |-> Absent]
    /\ due = {}
    /\ pc = [o \in Operators |-> "down"]
    /\ at = [o \in Operators |-> 1]
    /\ spec = [o \in Operators |-> None]
    /\ launched = {}
    /\ contested = FALSE

-----------------------------------------------------------------------------
Count == events < MaxEvents /\ events' = events + 1

Goto(o, step, k, v) ==
    /\ pc' = [pc EXCEPT ![o] = step]
    /\ at' = [at EXCEPT ![o] = k]
    /\ spec' = [spec EXCEPT ![o] = v]

Rest(o) == Goto(o, "idle", 1, None)

\* A slip: a reconcile that has failed or is done waits for the next change.
AwaitChange(o) == Rest(o) /\ UNCHANGED due

\* Action::requeue, in 60 seconds, and error_policy, in 20.
Requeue(o) == Rest(o) /\ due' = due \union {o}

Advance(o) == Goto(o, pc[o], at[o] + 1, spec[o])

Alone(o) == \A q \in Operators \ {o} : pc[q] \notin Working

-----------------------------------------------------------------------------
(* The process: a Controller of kube-runtime over a watch.                 *)

\* The first list fills the cache and queues what it finds.
Start(o) ==
    /\ pc[o] = "down"
    /\ Rest(o)
    /\ seen' = [seen EXCEPT ![o] = resource]
    /\ due' = IF resource.present THEN due \union {o} ELSE due \ {o}
    /\ UNCHANGED <<events, resource, stored, history>>

\* The watch delivers the resource as it is by now, also during a reconcile.
Watch(o) ==
    /\ pc[o] # "down"
    /\ seen[o] # resource
    /\ seen' = [seen EXCEPT ![o] = resource]
    /\ due' = IF resource.present THEN due \union {o} ELSE due \ {o}
    /\ UNCHANGED <<events, resource, stored, locals, history>>

Take(o) ==
    /\ pc[o] = "idle"
    /\ o \in due
    /\ due' = due \ {o}

\* finalizer(): a resource without it gets it, by a patch that tests for its
\* absence, and comes back through the watch; an error queues it again.
Claim(o) ==
    /\ pc[o] = "idle"
    /\ o \in due
    /\ seen[o].present /\ ~seen[o].finalizer
    /\ IF resource.present /\ ~resource.finalizer
         THEN /\ resource' = [resource EXCEPT !.finalizer = TRUE]
              /\ due' = due \ {o}
         ELSE UNCHANGED <<resource, due>>
    /\ UNCHANGED <<events, stored, seen, locals, history>>

\* Event::Apply, with the spec of the cached copy.
BeginApply(o) ==
    /\ Take(o)
    /\ seen[o].finalizer /\ ~seen[o].deleting
    /\ Goto(o, "apply", 1, seen[o].version)
    /\ contested' = (contested \/ ~Alone(o) \/ ~resource.finalizer)
    /\ UNCHANGED <<events, resource, stored, seen, launched>>

\* Event::Cleanup.
BeginCleanup(o) ==
    /\ Take(o)
    /\ seen[o].finalizer /\ seen[o].deleting
    /\ Goto(o, "cleanup", 1, None)
    /\ contested' = (contested \/ ~Alone(o))
    /\ UNCHANGED <<events, resource, stored, seen, launched>>

-----------------------------------------------------------------------------
(* reconcile_cluster: server-side apply of one object after the other.     *)

\* The pod template of a Job is immutable: while a job of another version is
\* there, its patch is refused and the objects after it are not applied.
Refused(o) == ApplyOrder[at[o]] = "job" /\ stored["job"] \notin {None, spec[o]}

\* After the last object, and after a failure, the status is written, best
\* effort; no decision reads it.
Apply(o) ==
    LET k == ApplyOrder[at[o]] IN
    /\ pc[o] = "apply"
    /\ ~Refused(o)
    /\ stored' = [stored EXCEPT ![k] = spec[o]]
    /\ launched' = IF k = "job" THEN launched \union {spec[o]} ELSE launched
    /\ IF at[o] < 6 THEN Advance(o) /\ UNCHANGED due ELSE Requeue(o)
    /\ UNCHANGED <<events, resource, seen, contested>>

ApplyRefused(o) ==
    /\ pc[o] = "apply"
    /\ Refused(o)
    /\ Requeue(o)
    /\ UNCHANGED <<events, resource, stored, seen, history>>

-----------------------------------------------------------------------------
(* cleanup_cluster: one deletion after the other; 404 counts as deleted.   *)

Delete(o) ==
    /\ pc[o] = "cleanup"
    /\ stored' = [stored EXCEPT ![DeleteOrder[at[o]]] = None]
    /\ IF at[o] < 6 THEN Advance(o) ELSE Goto(o, "release", 1, None)
    /\ UNCHANGED <<events, resource, seen, due, history>>

\* finalizer() removes the finalizer by a patch that tests for it, from
\* whatever resource has the name; Kubernetes then removes a resource that is
\* being deleted.  404 is taken for done, another error queues it again.
Release(o) ==
    /\ pc[o] = "release"
    /\ resource' = CASE resource.finalizer /\ resource.deleting -> Absent
                     [] resource.finalizer /\ ~resource.deleting ->
                            [resource EXCEPT !.finalizer = FALSE]
                     [] OTHER -> resource
    /\ due' = IF resource.present /\ ~resource.finalizer THEN due \union {o} ELSE due
    /\ Rest(o)
    /\ UNCHANGED <<events, stored, seen, history>>

-----------------------------------------------------------------------------
(* Failures.                                                               *)

\* A slip: a deletion of the web application that fails is only logged.
LogFailure(o) ==
    /\ Count
    /\ pc[o] \in Working
    /\ CASE pc[o] = "cleanup" /\ at[o] = 5 -> Advance(o) /\ UNCHANGED due
         [] pc[o] = "cleanup" /\ at[o] = 6 -> Goto(o, "release", 1, None) /\ UNCHANGED due
         [] OTHER -> Requeue(o)
    /\ UNCHANGED <<resource, stored, seen, history>>

\* A call fails, and with it the reconcile.
FailCall(o) ==
    /\ Count
    /\ pc[o] \in Working
    /\ Requeue(o)
    /\ UNCHANGED <<resource, stored, seen, history>>

\* The process ends; its cache and its queue are lost.
Crash(o) ==
    /\ Count
    /\ pc[o] # "down"
    /\ Goto(o, "down", 1, None)
    /\ seen' = [seen EXCEPT ![o] = Absent]
    /\ due' = due \ {o}
    /\ UNCHANGED <<resource, stored, history>>

-----------------------------------------------------------------------------
(* Users and Kubernetes.                                                   *)

Edit(new) ==
    /\ Count
    /\ resource' = new
    /\ UNCHANGED <<stored, seen, due, locals, history>>

CreateResource(v) ==
    /\ ~resource.present
    /\ Edit([present |-> TRUE, finalizer |-> FALSE, deleting |-> FALSE, version |-> v])

ChangeResource(v) ==
    /\ resource.present
    /\ v # resource.version
    /\ Edit([resource EXCEPT !.version = v])

\* A resource with a finalizer is only marked.
DeleteResource ==
    /\ resource.present
    /\ ~resource.deleting
    /\ Edit(IF resource.finalizer THEN [resource EXCEPT !.deleting = TRUE] ELSE Absent)

\* ttl_seconds_after_finished: a job that has run is removed some time later.
JobExpires ==
    /\ stored["job"] \notin Stuck \union {None}
    /\ stored' = [stored EXCEPT !["job"] = None]
    /\ UNCHANGED <<events, resource, seen, due, locals, history>>

-----------------------------------------------------------------------------
Step(o) ==
    \/ Claim(o)
    \/ BeginApply(o)
    \/ BeginCleanup(o)
    \/ Apply(o)
    \/ ApplyRefused(o)
    \/ Delete(o)
    \/ Release(o)

Next ==
    \/ \E o \in Operators : Start(o) \/ Watch(o) \/ Step(o) \/ FailCall(o) \/ Crash(o)
    \/ \E v \in Versions : CreateResource(v) \/ ChangeResource(v)
    \/ DeleteResource
    \/ JobExpires

Spec == Init /\ [][Next]_vars

\* A process that runs goes on and hears of changes, one that has ended is
\* started again, and Kubernetes removes jobs that have finished.
FairSpec ==
    /\ Spec
    /\ \A o \in Operators : WF_vars(Step(o)) /\ WF_vars(Watch(o)) /\ WF_vars(Start(o))
    /\ WF_vars(JobExpires)

-----------------------------------------------------------------------------
Empty == \A k \in Kinds : stored[k] = None

(* When a resource is gone, so is all the operator has made for it, however *)
(* often the processes fail, end and restart between two calls, and        *)
(* whatever their caches still show: unless two of them work at a time.    *)
NothingLeftBehind == resource.present \/ Empty \/ contested

(* An API of a version is deployed only after the migration job of that    *)
(* version was created, and never without the secret its pods read the     *)
(* administrator's password from: neither while the objects are applied    *)
(* nor while they are deleted.                                             *)
ApiIsPrepared ==
    stored["api"] # None =>
        /\ stored["api"] \in launched
        /\ stored["secret"] # None \/ contested

\* A job that never finishes keeps every other version from being applied.
Blocked == stored["job"] \in Stuck \ {resource.version}

(* Once users and faults have come to rest, the objects follow: those of a *)
(* resource get to the version it asks for and stay there, and those of a  *)
(* resource that is being deleted are removed with it.                     *)
ClusterSettles == <>[](
    IF resource.present
      THEN /\ resource.finalizer /\ ~resource.deleting
           /\ Blocked \/ \A k \in Kinds \ {"job"} : stored[k] = resource.version
      ELSE Empty \/ contested)
=============================================================================
