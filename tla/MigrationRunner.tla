--------------------------- MODULE MigrationRunner ---------------------------
(***************************************************************************)
(* The data-migration runner: every API instance runs MigrationRunner::run *)
(* before it serves.  The instances share table data_migrations and the    *)
(* data the migrations write, and nothing else: there is no lock and no    *)
(* transaction around a migration.                                         *)
(***************************************************************************)
EXTENDS RunnerParameters

VARIABLES
    recorded,   \* rows of data_migrations
    effect,     \* what up() of a version has written: nothing, part or all
    pc,         \* of an instance
    pending     \* of an instance: versions it still has to apply

vars == <<recorded, effect, pc, pending>>

Extents == {"none", "part", "all"}
Phases == {"down", "next", "up", "record", "serving"}

TypeOK ==
    /\ recorded \in SUBSET Versions
    /\ effect \in [Versions -> Extents]
    /\ pc \in [Instances -> Phases]
    /\ pending \in [Instances -> SUBSET Versions]
    /\ \A i \in Instances :
          /\ pc[i] \in {"up", "record"} => pending[i] # {}
          /\ pc[i] = "serving" => pending[i] = {}

Init ==
    /\ recorded = {}
    /\ effect = [v \in Versions |-> "none"]
    /\ pc = [i \in Instances |-> "down"]
    /\ pending = [i \in Instances |-> {}]

-----------------------------------------------------------------------------
\* A slip: the pending migrations are not sorted.
AnyPending(i) == CHOOSE v \in pending[i] : \A w \in pending[i] : w <= v

\* sort_by_key(version).
Current(i) == CHOOSE v \in pending[i] : \A w \in pending[i] : v <= w

Goto(i, phase) == pc' = [pc EXCEPT ![i] = phase]
StopInstance(i) == Goto(i, "down") /\ pending' = [pending EXCEPT ![i] = {}]

\* find_applied_versions.
Load(i) ==
    /\ pc[i] = "down"
    /\ pending' = [pending EXCEPT ![i] = Versions \ recorded]
    /\ Goto(i, "next")
    /\ UNCHANGED <<recorded, effect>>

\* A slip: the loop takes a migration without looking whether one is left.
StartAnyway(i) ==
    /\ pc[i] = "next"
    /\ Goto(i, "up")
    /\ UNCHANGED <<recorded, effect, pending>>

StartUp(i) ==
    /\ pc[i] = "next"
    /\ pending[i] # {}
    /\ Goto(i, "up")
    /\ UNCHANGED <<recorded, effect, pending>>

\* One statement of up().  Migrations are idempotent: rows are only added.
Write(i) ==
    /\ pc[i] = "up"
    /\ effect[Current(i)] # "all"
    /\ effect' \in {[effect EXCEPT ![Current(i)] = e] : e \in {"part", "all"}}
    /\ UNCHANGED <<recorded, pc, pending>>

\* A slip: the migration is recorded before it has run.
FinishEarly(i) ==
    /\ pc[i] = "up"
    /\ Goto(i, "record")
    /\ UNCHANGED <<recorded, effect, pending>>

FinishUp(i) ==
    /\ pc[i] = "up"
    /\ effect[Current(i)] = "all"
    /\ Goto(i, "record")
    /\ UNCHANGED <<recorded, effect, pending>>

\* ExecutionFailed ends run(), and main() with it.
UpFails(i) ==
    /\ pc[i] = "up"
    /\ StopInstance(i)
    /\ UNCHANGED <<recorded, effect>>

\* record_applied: version is the primary key, a second row is refused and
\* RecordFailed ends run().
Record(i) ==
    /\ pc[i] = "record"
    /\ IF Current(i) \in recorded
         THEN StopInstance(i) /\ UNCHANGED recorded
         ELSE /\ recorded' = recorded \union {Current(i)}
              /\ pending' = [pending EXCEPT ![i] = @ \ {Current(i)}]
              /\ Goto(i, "next")
    /\ UNCHANGED effect

Serve(i) ==
    /\ pc[i] = "next"
    /\ pending[i] = {}
    /\ Goto(i, "serving")
    /\ UNCHANGED <<recorded, effect, pending>>

Crash(i) ==
    /\ pc[i] # "down"
    /\ StopInstance(i)
    /\ UNCHANGED <<recorded, effect>>

Run(i) ==
    \/ Load(i)
    \/ StartUp(i)
    \/ Write(i)
    \/ FinishUp(i)
    \/ UpFails(i)
    \/ Record(i)
    \/ Serve(i)

Next == \E i \in Instances : Run(i) \/ Crash(i)

Spec == Init /\ [][Next]_vars

-----------------------------------------------------------------------------
(* A migration touches data only when every earlier one is complete and    *)
(* recorded, whichever instances applied them, and no instance serves      *)
(* before all of them are.                                                 *)
InOrder ==
    /\ \A v \in Versions : effect[v] # "none" => \A w \in Versions : w < v => w \in recorded
    /\ \A i \in Instances : pc[i] = "serving" => recorded = Versions

(* A recorded migration has run to its end: no crash between up() and      *)
(* record_applied, and no other instance's failure, makes one be skipped.  *)
RecordedMeansDone == \A v \in recorded : effect[v] = "all"
=============================================================================
