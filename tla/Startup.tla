------------------------------- MODULE Startup -------------------------------
(***************************************************************************)
(* The life of the API processes (main): each completes the master realm,  *)
(* runs the data migrations, and then serves any number of requests, side  *)
(* by side and beside processes that are still starting, until it ends and *)
(* they with it.                                                           *)
(***************************************************************************)
EXTENDS Realms

CONSTANTS
    MaxEvents   \* bound on the starts and requests of a behaviour

ASSUME MaxEventsAssumption == MaxEvents \in Nat

VARIABLES
    events,     \* starts and requests so far
    server,     \* the process that a request is under way in
    recorded, effect, phase, pending    \* of the migration runner

runnerVars == <<recorded, effect, phase, pending>>
vars == <<events, server, realmVars, runnerVars>>

Runner == INSTANCE MigrationRunner WITH pc <- phase

TypeOK ==
    /\ events \in 0 .. MaxEvents
    /\ RealmsTypeOK
    /\ Runner!TypeOK
    /\ \A i \in Instances :
          /\ pc[i] \notin RequestSteps
          /\ phase[i] # "down" => pc[i] = "ready"
    /\ server \in [Requests -> Instances \union {None}]
    /\ \A q \in Requests :
          IF server[q] = None
            THEN pc[q] = "off"
            ELSE pc[q] \in RequestSteps /\ phase[server[q]] = "serving"

Init == events = 0 /\ server = [q \in Requests |-> None] /\ RealmsInit /\ Runner!Init

-----------------------------------------------------------------------------
Starting(i) ==
    /\ phase[i] = "down"
    /\ \/ events < MaxEvents /\ events' = events + 1 /\ Start(i)
       \/ Boot(i) /\ UNCHANGED events
    /\ UNCHANGED <<server, runnerVars>>

\* run_data_migrations: its error ends the process.
Migrating(i) ==
    /\ pc[i] = "ready"
    /\ Runner!Run(i)
    /\ IF phase'[i] = "down" THEN Stop(i) ELSE UNCHANGED locals
    /\ UNCHANGED <<events, server, tables, history>>

Accept(q, i) ==
    /\ phase[i] = "serving"
    /\ server[q] = None
    /\ events < MaxEvents
    /\ events' = events + 1
    /\ Ask(q)
    /\ server' = [server EXCEPT ![q] = i]
    /\ UNCHANGED runnerVars

Serving(q) ==
    /\ server[q] # None
    /\ Proceed(q)
    /\ server' = [server EXCEPT ![q] = IF pc'[q] = "off" THEN None ELSE @]
    /\ UNCHANGED <<events, runnerVars>>

\* The process is killed, or stops on an error, and its requests with it.
Crash(i) ==
    /\ pc[i] # "off"
    /\ \/ Runner!Crash(i)
       \/ phase[i] = "down" /\ UNCHANGED runnerVars
    /\ Die({i} \union {q \in Requests : server[q] = i})
    /\ server' = [q \in Requests |-> IF server[q] = i THEN None ELSE server[q]]
    /\ UNCHANGED events

Next ==
    \/ \E i \in Instances : Starting(i) \/ Migrating(i) \/ Crash(i)
    \/ \E q \in Requests : Serving(q) \/ \E i \in Instances : Accept(q, i)

Spec == Init /\ [][Next]_vars

-----------------------------------------------------------------------------
(* Migrations: one touches data only when every earlier one is complete    *)
(* and recorded, and no process serves before all of them are.             *)
InOrder == Runner!InOrder

(* Migrations: a recorded one has run to its end.                          *)
RecordedMeansDone == Runner!RecordedMeansDone

(* A process that serves finds the master realm complete, whatever         *)
(* processes started beside it, were refused rows or died half way: a      *)
(* start repairs what an earlier one has left undone.                      *)
ServingIsReady == \A i \in Instances : phase[i] = "serving" => MasterIsComplete
=============================================================================
