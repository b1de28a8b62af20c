-------------------------- MODULE SeedDefaultScopes --------------------------
(***************************************************************************)
(* Migration 1, SeedDefaultClientScopes, run by several API instances that *)
(* start together, for one realm.  up() walks the default scopes in order: *)
(* find or insert the scope, then insert the mappers it does not see; then *)
(* it assigns every scope to every client that does not have it.  Scope    *)
(* names and assignments are unique in the database, mapper names are not. *)
(* The instances implement MigrationRunner.                                *)
(***************************************************************************)
EXTENDS InstanceParameters, Naturals

CONSTANTS
    N,          \* default scopes, numbered in the order of default_scopes()
    Clients,    \* clients of the realm
    MaxCrashes  \* bound: crashes of instances

ASSUME NAssumption == N \in Nat \ {0}
ASSUME ClientsAssumption == IsFiniteSet(Clients) /\ None \notin Clients
ASSUME CrashAssumption == MaxCrashes \in Nat

VARIABLES
    applied,    \* version 1 is in data_migrations
    scopes,     \* rows of client_scopes
    mappers,    \* rows of client_scope_protocol_mappers, counted per scope
    assigned,   \* rows of client_scope_mappings
    stage,      \* of an instance: its step
    place,      \* of an instance: the scope it is at
    unapplied,  \* of an instance: it has found version 1 unapplied
    left,       \* of an instance: clients still to be looked at
    served,     \* of an instance: the client it assigns scopes to
    unseen,     \* of an instance: scopes that client was seen without
    crashes

seedTables == <<applied, scopes, mappers, assigned>>
seedLocals == <<stage, place, unapplied, left, served, unseen>>
seedVars == <<seedTables, seedLocals, crashes>>

Scopes == 1..N
UpSteps == {"find", "insert", "look", "map", "clients", "assign"}

SeedInit ==
    /\ applied = FALSE
    /\ scopes = {}
    /\ mappers = [s \in Scopes |-> 0]
    /\ assigned = {}
    /\ stage = [i \in Instances |-> "down"]
    /\ place = [i \in Instances |-> 1]
    /\ unapplied = [i \in Instances |-> FALSE]
    /\ left = [i \in Instances |-> {}]
    /\ served = [i \in Instances |-> None]
    /\ unseen = [i \in Instances |-> {}]
    /\ crashes = 0

-----------------------------------------------------------------------------
Enter(i, s) == stage' = [stage EXCEPT ![i] = s]

StopInstance(i) ==
    /\ Enter(i, "down")
    /\ place' = [place EXCEPT ![i] = 1]
    /\ unapplied' = [unapplied EXCEPT ![i] = FALSE]
    /\ left' = [left EXCEPT ![i] = {}]
    /\ served' = [served EXCEPT ![i] = None]
    /\ unseen' = [unseen EXCEPT ![i] = {}]

Load(i) ==
    /\ stage[i] = "down"
    /\ unapplied' = [unapplied EXCEPT ![i] = ~applied]
    /\ Enter(i, "next")
    /\ UNCHANGED <<seedTables, place, left, served, unseen, crashes>>

StartUp(i) ==
    /\ stage[i] = "next"
    /\ unapplied[i]
    /\ Enter(i, "find")
    /\ UNCHANGED <<seedTables, place, unapplied, left, served, unseen, crashes>>

-----------------------------------------------------------------------------
(* Scopes and their mappers.                                               *)

NextScope(i) ==
    IF place[i] < N
      THEN place' = [place EXCEPT ![i] = @ + 1] /\ Enter(i, "find") /\ UNCHANGED left
      ELSE Enter(i, "clients") /\ left' = [left EXCEPT ![i] = Clients] /\ UNCHANGED place

\* A slip: a scope that exists is taken to have its mappers.
SkipExisting(i) ==
    /\ stage[i] = "find"
    /\ IF place[i] \in scopes THEN NextScope(i) ELSE Enter(i, "insert") /\ UNCHANGED <<place, left>>
    /\ UNCHANGED <<seedTables, unapplied, served, unseen, crashes>>

\* find_by_name.
FindScope(i) ==
    /\ stage[i] = "find"
    /\ Enter(i, IF place[i] \in scopes THEN "look" ELSE "insert")
    /\ UNCHANGED <<seedTables, place, unapplied, left, served, unseen, crashes>>

\* create: UNIQUE (realm_id, name); a second insertion ends the run.
InsertScope(i) ==
    /\ stage[i] = "insert"
    /\ IF place[i] \in scopes
         THEN StopInstance(i) /\ UNCHANGED scopes
         ELSE /\ scopes' = scopes \union {place[i]}
              /\ Enter(i, "look")
              /\ UNCHANGED <<place, unapplied, left, served, unseen>>
    /\ UNCHANGED <<applied, mappers, assigned, crashes>>

\* A slip: the mappers are inserted without looking.
MapAnyway(i) ==
    /\ stage[i] = "look"
    /\ Enter(i, "map")
    /\ UNCHANGED <<seedTables, place, left, unapplied, served, unseen, crashes>>

\* get_by_scope_id: the mapper stands for all of the scope.
LookAtMappers(i) ==
    /\ stage[i] = "look"
    /\ IF mappers[place[i]] = 0
         THEN Enter(i, "map") /\ UNCHANGED <<place, left>>
         ELSE NextScope(i)
    /\ UNCHANGED <<seedTables, unapplied, served, unseen, crashes>>

\* create: nothing refuses a second mapper of that name.
InsertMapper(i) ==
    /\ stage[i] = "map"
    /\ mappers' = [mappers EXCEPT ![place[i]] = @ + 1]
    /\ NextScope(i)
    /\ UNCHANGED <<applied, scopes, assigned, unapplied, served, unseen, crashes>>

-----------------------------------------------------------------------------
(* Assignment to the clients.                                              *)

\* get_client_scopes of the next client.
LookAtClient(i, c) ==
    /\ stage[i] = "clients"
    /\ c \in left[i]
    /\ left' = [left EXCEPT ![i] = @ \ {c}]
    /\ served' = [served EXCEPT ![i] = c]
    /\ unseen' = [unseen EXCEPT ![i] = {s \in Scopes : <<c, s>> \notin assigned}]
    /\ Enter(i, "assign")
    /\ UNCHANGED <<seedTables, place, unapplied, crashes>>

\* assign_scope_to_client: the pair is the primary key; a second row ends
\* the run.
Assign(i) ==
    /\ stage[i] = "assign"
    /\ unseen[i] # {}
    /\ LET s == CHOOSE s \in unseen[i] : \A t \in unseen[i] : s <= t IN
       IF <<served[i], s>> \in assigned
         THEN StopInstance(i) /\ UNCHANGED assigned
         ELSE /\ assigned' = assigned \union {<<served[i], s>>}
              /\ unseen' = [unseen EXCEPT ![i] = @ \ {s}]
              /\ UNCHANGED <<stage, place, unapplied, left, served>>
    /\ UNCHANGED <<applied, scopes, mappers, crashes>>

ClientDone(i) ==
    /\ stage[i] = "assign"
    /\ unseen[i] = {}
    /\ Enter(i, "clients")
    /\ served' = [served EXCEPT ![i] = None]
    /\ UNCHANGED <<seedTables, place, unapplied, left, unseen, crashes>>

FinishUp(i) ==
    /\ stage[i] = "clients"
    /\ left[i] = {}
    /\ Enter(i, "record")
    /\ UNCHANGED <<seedTables, place, unapplied, left, served, unseen, crashes>>

-----------------------------------------------------------------------------
\* A slip: an instance whose record is refused waits instead of ending.
RecordOrWait(i) ==
    /\ stage[i] = "record"
    /\ ~applied
    /\ applied' = TRUE
    /\ unapplied' = [unapplied EXCEPT ![i] = FALSE]
    /\ Enter(i, "next")
    /\ UNCHANGED <<scopes, mappers, assigned, place, left, served, unseen, crashes>>

\* record_applied: version is the primary key.
Record(i) ==
    /\ stage[i] = "record"
    /\ IF applied
         THEN StopInstance(i) /\ UNCHANGED applied
         ELSE /\ applied' = TRUE
              /\ unapplied' = [unapplied EXCEPT ![i] = FALSE]
              /\ Enter(i, "next")
              /\ UNCHANGED <<place, left, served, unseen>>
    /\ UNCHANGED <<scopes, mappers, assigned, crashes>>

Serve(i) ==
    /\ stage[i] = "next"
    /\ ~unapplied[i]
    /\ Enter(i, "serving")
    /\ UNCHANGED <<seedTables, place, unapplied, left, served, unseen, crashes>>

\* The process ends, or a statement fails for another reason.
SeedCrash(i) ==
    /\ stage[i] # "down"
    /\ crashes < MaxCrashes
    /\ crashes' = crashes + 1
    /\ StopInstance(i)
    /\ UNCHANGED seedTables

Run(i) ==
    \/ Load(i) \/ StartUp(i)
    \/ FindScope(i) \/ InsertScope(i) \/ LookAtMappers(i) \/ InsertMapper(i)
    \/ \E c \in Clients : LookAtClient(i, c)
    \/ Assign(i) \/ ClientDone(i) \/ FinishUp(i) \/ Record(i) \/ Serve(i)

SeedNext == \E i \in Instances : Run(i) \/ SeedCrash(i)

SeedSpec == SeedInit /\ [][SeedNext]_seedVars

\* A process that runs goes on, and one that has ended is started again (the
\* API is a Kubernetes Deployment).
FairSeedSpec == SeedSpec /\ \A i \in Instances : WF_seedVars(Run(i))

-----------------------------------------------------------------------------
Seeded ==
    /\ scopes = Scopes
    /\ \A s \in Scopes : mappers[s] > 0
    /\ assigned = Clients \X Scopes

Empty == scopes = {}

Abstract == INSTANCE MigrationRunner WITH
    Versions <- {1},
    recorded <- IF applied THEN {1} ELSE {},
    effect   <- [v \in {1} |-> IF Seeded THEN "all" ELSE IF Empty THEN "none" ELSE "part"],
    pc       <- [i \in Instances |-> IF stage[i] \in UpSteps THEN "up" ELSE stage[i]],
    pending  <- [i \in Instances |-> IF unapplied[i] THEN {1} ELSE {}]

(* The instances implement the runner: what up() writes in many statements *)
(* is one idempotent migration that is recorded only when it is complete,  *)
(* also when two instances seed the realm together and one of them ends on *)
(* a unique constraint.                                                    *)
ImplementsRunner == Abstract!Spec

(* Instances that start together do not keep each other from starting: an  *)
(* instance that ends on a row the other has inserted starts again, finds  *)
(* the row, and in the end all of them serve.                              *)
AllServe == <>[](\A i \in Instances : stage[i] = "serving")

(* Mappers are listed and inserted in separate statements and no unique    *)
(* name is behind them, so instances that list a scope's mappers before    *)
(* any is inserted all insert them.  A later run adds none: a mapper has   *)
(* at most as many copies as there are instances, however often they end   *)
(* and run again.                                                          *)
DuplicatesAreBounded == \A s \in Scopes : mappers[s] <= Cardinality(Instances)
=============================================================================
