---------------------------- MODULE StartupProofs ----------------------------
(***************************************************************************)
(* Proofs about Startup and the modules it composes, and about the one     *)
(* registered migration, for any finite sets of processes and requests,    *)
(* any versions, rows and names, any scopes and clients, and any bound on  *)
(* the events.                                                             *)
(***************************************************************************)
EXTENDS Startup, SeedDefaultScopes, FiniteSetTheorems, WellFoundedInduction, TLAPS

(***************************************************************************)
(* Part 1.  The migration runner.                                          *)
(***************************************************************************)

USE VersionsAssumption DEF Runner!Extents, Runner!Phases

(* A set of numbers that is not empty has a first one.                     *)
LEMMA LeastNumber ==
    ASSUME NEW S \in SUBSET Nat, S # {}
    PROVE  \E v \in S : \A w \in S : v <= w
  <1>1. IsWellFoundedOn(OpToRel(<, Nat), Nat)
    BY NatLessThanWellFounded, Zenon
  <1>2. PICK v \in S : \A w \in S : ~ (<<w, v>> \in OpToRel(<, Nat))
    BY <1>1, WFMin, Zenon
  <1>3. \A w \in S : ~ (w < v)
    BY <1>2 DEF OpToRel
  <1> QED
    BY <1>3

(* The versions still to apply have one, which sort_by_key puts in front.  *)
LEMMA CurrentIsFirst ==
    ASSUME NEW i \in Instances, pending[i] \in SUBSET Versions, pending[i] # {}
    PROVE  /\ Runner!Current(i) \in pending[i]
           /\ \A w \in pending[i] : Runner!Current(i) <= w
  BY LeastNumber DEF Runner!Current

-----------------------------------------------------------------------------
(* An instance forgets a version only when it is recorded, so what it has  *)
(* not listed as pending is recorded ...                                   *)
MissingIsRecorded ==
    \A i \in Instances : phase[i] # "down" => Versions \ pending[i] \subseteq recorded

(* ... and it comes to record_applied only with a complete migration.      *)
RecordAfterUp ==
    \A i \in Instances : phase[i] = "record" => effect[Runner!Current(i)] = "all"

RunnerInductive ==
    Runner!TypeOK /\ Runner!InOrder /\ Runner!RecordedMeansDone /\ MissingIsRecorded /\ RecordAfterUp

(* The runner's invariant holds at first.                                  *)
LEMMA RunnerInit == Runner!Init => RunnerInductive
  BY DEF Runner!Init, RunnerInductive, Runner!TypeOK, Runner!InOrder, Runner!RecordedMeansDone, MissingIsRecorded, RecordAfterUp

(* Every step of the system keeps the types of the variables.              *)
LEMMA StepTypeOK == Runner!TypeOK /\ [Runner!Next]_runnerVars => Runner!TypeOK'
  <1> SUFFICES ASSUME Runner!TypeOK, [Runner!Next]_runnerVars PROVE Runner!TypeOK'
    OBVIOUS
  <1> USE DEF Runner!TypeOK
  <1>1. ASSUME NEW i \in Instances, Runner!Load(i) PROVE Runner!TypeOK'
    BY <1>1 DEF Runner!Load, Runner!Goto
  <1>2. ASSUME NEW i \in Instances, Runner!StartUp(i) PROVE Runner!TypeOK'
    BY <1>2 DEF Runner!StartUp, Runner!Goto
  <1>3. ASSUME NEW i \in Instances, Runner!Write(i) PROVE Runner!TypeOK'
    BY <1>3 DEF Runner!Write
  <1>4. ASSUME NEW i \in Instances, Runner!FinishUp(i) PROVE Runner!TypeOK'
    BY <1>4 DEF Runner!FinishUp, Runner!Goto
  <1>5. ASSUME NEW i \in Instances, Runner!UpFails(i) PROVE Runner!TypeOK'
    BY <1>5 DEF Runner!UpFails, Runner!StopInstance, Runner!Goto
  <1>6. ASSUME NEW i \in Instances, Runner!Record(i) PROVE Runner!TypeOK'
    <2>1. Runner!Current(i) \in pending[i] /\ Runner!Current(i) \in Versions
      BY <1>6, CurrentIsFirst DEF Runner!Record
    <2>2. CASE Runner!Current(i) \in recorded
      BY <1>6, <2>2 DEF Runner!Record, Runner!StopInstance, Runner!Goto
    <2>3. CASE Runner!Current(i) \notin recorded
      <3>1. PICK v \in Versions :
              /\ recorded' = recorded \union {v} /\ effect' = effect
              /\ pending' = [pending EXCEPT ![i] = @ \ {v}]
              /\ phase' = [phase EXCEPT ![i] = "next"]
        BY <1>6, <2>1, <2>3 DEF Runner!Record, Runner!Goto
      <3>2. pending'[i] \in SUBSET Versions /\ phase'[i] = "next"
        BY <3>1
      <3> QED
        BY <3>1, <3>2
    <2> QED
      BY <2>2, <2>3
  <1>7. ASSUME NEW i \in Instances, Runner!Serve(i) PROVE Runner!TypeOK'
    BY <1>7 DEF Runner!Serve, Runner!Goto
  <1>8. ASSUME NEW i \in Instances, Runner!Crash(i) PROVE Runner!TypeOK'
    BY <1>8 DEF Runner!Crash, Runner!StopInstance, Runner!Goto
  <1>9. CASE UNCHANGED runnerVars
    BY <1>9 DEF runnerVars
  <1> QED
    BY <1>1, <1>2, <1>3, <1>4, <1>5, <1>6, <1>7, <1>8, <1>9 DEF Runner!Next, Runner!Run

(* Current depends on nothing but pending.                                 *)
LEMMA SameCurrent ==
    ASSUME NEW i \in Instances, pending'[i] = pending[i]
    PROVE  Runner!Current(i)' = Runner!Current(i)
  BY DEF Runner!Current

(* Every step of the system preserves the inductive invariant.             *)
LEMMA RunnerStep == RunnerInductive /\ [Runner!Next]_runnerVars => RunnerInductive'
  <1> SUFFICES ASSUME RunnerInductive, [Runner!Next]_runnerVars, Runner!TypeOK' PROVE RunnerInductive'
    BY StepTypeOK DEF RunnerInductive
  <1> USE DEF RunnerInductive, Runner!TypeOK, Runner!InOrder, Runner!RecordedMeansDone, MissingIsRecorded, RecordAfterUp
  <1>1. ASSUME NEW i \in Instances, Runner!Load(i) PROVE RunnerInductive'
    <2>1. \A j \in Instances : j # i => Runner!Current(j)' = Runner!Current(j)
      BY <1>1, SameCurrent DEF Runner!Load
    <2>2. Runner!InOrder' /\ Runner!RecordedMeansDone'
      BY <1>1 DEF Runner!Load, Runner!Goto
    <2>3. MissingIsRecorded'
      BY <1>1 DEF Runner!Load, Runner!Goto
    <2>4. RecordAfterUp'
      BY <1>1, <2>1 DEF Runner!Load, Runner!Goto
    <2> QED
      BY <2>2, <2>3, <2>4
  <1>2. ASSUME NEW i \in Instances, Runner!StartUp(i) PROVE RunnerInductive'
    <2>1. \A j \in Instances : Runner!Current(j)' = Runner!Current(j)
      BY <1>2, SameCurrent DEF Runner!StartUp
    <2>2. Runner!InOrder' /\ Runner!RecordedMeansDone'
      BY <1>2 DEF Runner!StartUp, Runner!Goto
    <2>3. MissingIsRecorded'
      BY <1>2 DEF Runner!StartUp, Runner!Goto
    <2>4. RecordAfterUp'
      BY <1>2, <2>1 DEF Runner!StartUp, Runner!Goto
    <2> QED
      BY <2>2, <2>3, <2>4
  <1>3. ASSUME NEW i \in Instances, Runner!Write(i) PROVE RunnerInductive'
    <2>1. \A j \in Instances : Runner!Current(j)' = Runner!Current(j)
      BY <1>3, SameCurrent DEF Runner!Write
    <2>2. /\ Runner!Current(i) \in pending[i]
          /\ \A w \in pending[i] : Runner!Current(i) <= w
      BY <1>3, CurrentIsFirst DEF Runner!Write
    <2>3. \A w \in Versions : w < Runner!Current(i) => w \in recorded
      <3> SUFFICES ASSUME NEW w \in Versions, w < Runner!Current(i) PROVE w \in recorded
        OBVIOUS
      <3>1. Runner!Current(i) \in Nat
        <4>1. pending[i] \in SUBSET Versions
          OBVIOUS
        <4> QED
          BY <2>2, <4>1
      <3>2. ~ (Runner!Current(i) <= w)
        BY <3>1
      <3>3. w \notin pending[i]
        BY <2>2, <3>2
      <3> QED
        BY <1>3, <3>3 DEF Runner!Write
    <2>4. \A v \in Versions : effect'[v] = effect[v] \/ v = Runner!Current(i)
      BY <1>3 DEF Runner!Write
    <2>5. \A v \in Versions : effect[v] = "all" => effect'[v] = "all"
      BY <1>3 DEF Runner!Write
    <2>6. Runner!InOrder'
      BY <1>3, <2>3, <2>4 DEF Runner!Write
    <2>7. Runner!RecordedMeansDone'
      BY <1>3, <2>5 DEF Runner!Write
    <2>8. MissingIsRecorded'
      BY <1>3 DEF Runner!Write
    <2>9. RecordAfterUp'
      <3> SUFFICES ASSUME NEW j \in Instances, phase'[j] = "record"
                   PROVE  effect'[Runner!Current(j)'] = "all"
        OBVIOUS
      <3>1. phase[j] = "record" /\ Runner!Current(j) \in Versions
        BY <1>3, CurrentIsFirst DEF Runner!Write
      <3> QED
        BY <2>1, <2>5, <3>1
    <2> QED
      BY <2>6, <2>7, <2>8, <2>9
  <1>4. ASSUME NEW i \in Instances, Runner!FinishUp(i) PROVE RunnerInductive'
    <2>1. \A j \in Instances : Runner!Current(j)' = Runner!Current(j)
      BY <1>4, SameCurrent DEF Runner!FinishUp
    <2>2. Runner!InOrder' /\ Runner!RecordedMeansDone'
      BY <1>4 DEF Runner!FinishUp, Runner!Goto
    <2>3. MissingIsRecorded'
      BY <1>4 DEF Runner!FinishUp, Runner!Goto
    <2>4. RecordAfterUp'
      BY <1>4, <2>1 DEF Runner!FinishUp, Runner!Goto
    <2> QED
      BY <2>2, <2>3, <2>4
  <1>5. ASSUME NEW i \in Instances, Runner!UpFails(i) PROVE RunnerInductive'
    <2>1. \A j \in Instances : j # i => Runner!Current(j)' = Runner!Current(j)
      BY <1>5, SameCurrent DEF Runner!UpFails, Runner!StopInstance
    <2>2. Runner!InOrder' /\ Runner!RecordedMeansDone'
      BY <1>5 DEF Runner!UpFails, Runner!StopInstance, Runner!Goto
    <2>3. MissingIsRecorded'
      BY <1>5 DEF Runner!UpFails, Runner!StopInstance, Runner!Goto
    <2>4. RecordAfterUp'
      BY <1>5, <2>1 DEF Runner!UpFails, Runner!StopInstance, Runner!Goto
    <2> QED
      BY <2>2, <2>3, <2>4
  <1>6. ASSUME NEW i \in Instances, Runner!Record(i) PROVE RunnerInductive'
    <2>1. \A j \in Instances : j # i => Runner!Current(j)' = Runner!Current(j)
      BY <1>6, SameCurrent DEF Runner!Record, Runner!StopInstance
    <2>2. Runner!Current(i) \in pending[i] /\ effect[Runner!Current(i)] = "all"
      BY <1>6, CurrentIsFirst DEF Runner!Record
    <2>3. CASE Runner!Current(i) \in recorded
      BY <1>6, <2>1, <2>3 DEF Runner!Record, Runner!StopInstance, Runner!Goto
    <2>4. CASE Runner!Current(i) \notin recorded
      BY <1>6, <2>1, <2>2, <2>4 DEF Runner!Record, Runner!Goto
    <2> QED
      BY <2>3, <2>4
  <1>7. ASSUME NEW i \in Instances, Runner!Serve(i) PROVE RunnerInductive'
    <2>1. \A j \in Instances : Runner!Current(j)' = Runner!Current(j)
      BY <1>7, SameCurrent DEF Runner!Serve
    <2>2. recorded = Versions
      BY <1>7 DEF Runner!Serve
    <2>3. Runner!InOrder'
      BY <1>7, <2>2 DEF Runner!Serve, Runner!Goto
    <2>4. Runner!RecordedMeansDone' /\ MissingIsRecorded'
      BY <1>7 DEF Runner!Serve, Runner!Goto
    <2>5. RecordAfterUp'
      BY <1>7, <2>1 DEF Runner!Serve, Runner!Goto
    <2> QED
      BY <2>3, <2>4, <2>5
  <1>8. ASSUME NEW i \in Instances, Runner!Crash(i) PROVE RunnerInductive'
    <2>1. \A j \in Instances : j # i => Runner!Current(j)' = Runner!Current(j)
      BY <1>8, SameCurrent DEF Runner!Crash, Runner!StopInstance
    <2>2. Runner!InOrder' /\ Runner!RecordedMeansDone'
      BY <1>8 DEF Runner!Crash, Runner!StopInstance, Runner!Goto
    <2>3. MissingIsRecorded'
      BY <1>8 DEF Runner!Crash, Runner!StopInstance, Runner!Goto
    <2>4. RecordAfterUp'
      BY <1>8, <2>1 DEF Runner!Crash, Runner!StopInstance, Runner!Goto
    <2> QED
      BY <2>2, <2>3, <2>4
  <1>9. CASE UNCHANGED runnerVars
    <2>1. \A j \in Instances : Runner!Current(j)' = Runner!Current(j)
      BY <1>9, SameCurrent DEF runnerVars
    <2>2. Runner!InOrder' /\ Runner!RecordedMeansDone'
      BY <1>9 DEF runnerVars
    <2>3. MissingIsRecorded'
      BY <1>9 DEF runnerVars
    <2>4. RecordAfterUp'
      BY <1>9, <2>1 DEF runnerVars
    <2> QED
      BY <2>2, <2>3, <2>4
  <1> QED
    BY <1>1, <1>2, <1>3, <1>4, <1>5, <1>6, <1>7, <1>8, <1>9 DEF Runner!Next, Runner!Run

-----------------------------------------------------------------------------
(***************************************************************************)
(* Part 2.  The realms.                                                    *)
(***************************************************************************)

Booting == {"off", "find", "insert", "look", "make"}
Deleting == {"delete", "deleteClient"}

(* The invariant of a task by itself.  What it has passed in BootOrder     *)
(* is there, and once it has passed all of it the master realm is          *)
(* complete; the realms that requests hold are never the master's ...      *)
BootOK(i) ==
    /\ pc[i] \in {"look", "make"} => (\A k \in 1 .. at[i] - 1 : Present(row[i], BootOrder[k]))
    /\ pc[i] \notin Booting => MasterIsComplete
    /\ pc[i] \in {"sign", "create", "rename"} => row[i] \in born /\ name[row[i]] # Master
    /\ pc[i] \in Deleting => client[i] \in born /\ name[client[i]] # Master

(* ... a realm under creation has what the passed statements inserted,     *)
(* unless it was renamed or deleted meanwhile ...                          *)
CreateOK(i) ==
    pc[i] = "create" =>
       /\ at[i] <= 2 => label[row[i]] = None /\ row[i] \in Stored \union strayed
       /\ row[i] \in Stored \ renamed =>
             /\ name[row[i]] = wanted[i]
             /\ at[i] > 2 => label[row[i]] = wanted[i]
             /\ at[i] > 3 => rows[row[i]]["role"] = 1
             /\ at[i] > 4 => rows[row[i]]["grant"] = 1

(* ... and a deletion holds the client of the name it was asked for, or    *)
(* one of a realm that is renamed or gone.                                 *)
DeleteOK(i) ==
    /\ pc[i] = "delete" =>
          (client[i] \in Stored \ renamed => label[client[i]] = wanted[i])
    /\ pc[i] = "deleteClient" => client[i] \notin Stored \ renamed

(* A realm is created by one task, and nobody has its client before it     *)
(* is inserted.                                                            *)
PairOK(i, j) ==
    /\ pc[i] = "create" /\ pc[j] = "create" /\ row[i] = row[j] => i = j
    /\ pc[i] = "create" /\ pc[j] \in Deleting /\ client[j] = row[i] => at[i] > 2

(* A client is that of a realm ever inserted and has the realm's name, if  *)
(* the realm was not renamed.                                              *)
LabelsOK ==
    \A r \in Rows :
       label[r] # None =>
          /\ r \in born
          /\ r \in Stored \ renamed => label[r] = name[r]
          /\ name[r] = Master => label[r] = Master

TaskOK(i) == HeldTypeOK(i) /\ BootOK(i) /\ CreateOK(i) /\ DeleteOK(i)

RealmsInv ==
    /\ TablesTypeOK
    /\ LocalsTypeOK
    /\ HistoryTypeOK
    /\ \A i \in Tasks : TaskOK(i)
    /\ \A i, j \in Tasks : PairOK(i, j)
    /\ LabelsOK
    /\ ClientsMatchRealms

-----------------------------------------------------------------------------
(* How a step of the task i may change what it holds ...                   *)
Unmoved(j) ==
    /\ pc'[j] = pc[j] /\ at'[j] = at[j] /\ row'[j] = row[j]
    /\ client'[j] = client[j] /\ wanted'[j] = wanted[j]

Moves(i) == LocalsTypeOK' /\ \A j \in Tasks \ {i} : Unmoved(j)

(* ... and what every step leaves of the tables: a realm is never taken    *)
(* from the master nor becomes the master's, and the clients, roles and    *)
(* grants of stored realms that are not renamed stay.                      *)
Keeps ==
    /\ born \subseteq born'
    /\ \A r \in born : name[r] # Master => name'[r] # Master
    /\ \A r \in Named(Master) :
          /\ name'[r] = Master
          /\ \A k \in Kinds : rows'[r][k] >= rows[r][k]
          /\ label[r] # None => label'[r] # None
    /\ \A r \in born : r \in Stored' \ renamed' =>
          /\ r \in Stored \ renamed
          /\ name'[r] = name[r]
          /\ label[r] # None => label'[r] = label[r]
          /\ \A k \in OfClient : rows'[r][k] >= rows[r][k]

KeepsBegun(i) ==
    \A j \in Tasks \ {i} :
       pc[j] = "create" /\ at[j] <= 2 =>
          label'[row[j]] = None /\ row[j] \in (Stored \union strayed)'

KindFacts ==
    /\ Unconstrained \subseteq Kinds
    /\ OfClient \subseteq Kinds
    /\ OfClient \intersect Unconstrained = {}
    /\ "system" \notin Kinds

(* What the proofs use of the two orders of statements.                    *)
LEMMA Orders ==
    /\ DOMAIN BootOrder = 1 .. 6
    /\ Len(BootOrder) = 6
    /\ \A k \in 1 .. 6 : BootOrder[k] \in Kinds \union {"system"}
    /\ DOMAIN CreateOrder = 1 .. 6
    /\ Len(CreateOrder) = 6
    /\ \A k \in 1 .. 6 : CreateOrder[k] \in Kinds \union {"system"}
    /\ CreateOrder[1] = "settings" /\ CreateOrder[2] = "system" /\ CreateOrder[3] = "role"
    /\ CreateOrder[4] = "grant" /\ CreateOrder[5] = "builtin" /\ CreateOrder[6] = "console"
    /\ KindFacts
  BY DEF BootOrder, CreateOrder, Kinds, OfClient, Unconstrained, KindFacts

(* A step that keeps new locals moves its own task only, to the named      *)
(* step.                                                                   *)
LEMMA Held ==
    ASSUME LocalsTypeOK, NEW i \in Tasks, NEW step \in Steps, NEW k \in Nat,
           NEW r \in Rows \union {None}, NEW c \in Rows \union {None},
           NEW n \in Names \union {None}, NEW rs \in SUBSET Rows,
           Goto(i, step), Hold(i, k, r, c, n, rs)
    PROVE  /\ Moves(i)
           /\ pc'[i] = step /\ at'[i] = k /\ row'[i] = r /\ client'[i] = c /\ wanted'[i] = n
  BY DEF LocalsTypeOK, Goto, Hold, Moves, Unmoved

(* A step that drops its locals moves its own task only.                   *)
LEMMA Left ==
    ASSUME LocalsTypeOK, NEW i \in Tasks, NEW step \in Steps, Leave(i, step)
    PROVE  Moves(i) /\ pc'[i] = step
  BY Held, 0 \in Nat, {} \in SUBSET Rows DEF Leave

(* A step that keeps its locals moves its own task only.                   *)
LEMMA Gone ==
    ASSUME LocalsTypeOK, NEW i \in Tasks, NEW step \in Steps, Goto(i, step),
           UNCHANGED <<at, row, client, wanted, todo>>
    PROVE  /\ Moves(i)
           /\ pc'[i] = step /\ at'[i] = at[i] /\ row'[i] = row[i]
           /\ client'[i] = client[i] /\ wanted'[i] = wanted[i]
  BY DEF LocalsTypeOK, Goto, Moves, Unmoved

(* What the master realm has, it keeps, and so does its completeness.      *)
LEMMA MasterStaysComplete ==
    ASSUME TablesTypeOK, TablesTypeOK', Keeps
    PROVE  /\ \A r \in Named(Master), k \in Kinds \union {"system"} : Present(r, k) => Present(r, k)'
           /\ MasterIsComplete => MasterIsComplete'
  <1>1. \A r \in Named(Master), k \in Kinds \union {"system"} : Present(r, k) => Present(r, k)'
    BY DEF TablesTypeOK, Keeps, Present, Named
  <1>2. Required \subseteq Kinds \union {"system"}
    BY Orders DEF Required
  <1>3. \A r \in Named(Master) : r \in Named(Master)'
    BY DEF Keeps, Named
  <1> QED
    BY <1>1, <1>2, <1>3 DEF MasterIsComplete

(* What the tables keep is all that the other tasks rely on.               *)
LEMMA OthersStay ==
    ASSUME RealmsInv, TablesTypeOK', NEW i \in Tasks, Moves(i), Keeps, KeepsBegun(i)
    PROVE  \A j \in Tasks \ {i} : TaskOK(j)'
  <1> SUFFICES ASSUME NEW j \in Tasks \ {i} PROVE TaskOK(j)'
    OBVIOUS
  <1> USE NamesAssumption
  <1>1. TaskOK(j) /\ Unmoved(j) /\ LocalsTypeOK
    BY DEF RealmsInv, Moves
  <1>2. HeldTypeOK(j)'
    BY <1>1 DEF TaskOK, HeldTypeOK, Unmoved, Keeps, Named
  <1>3. BootOK(j)'
    <2>1. ASSUME pc'[j] \in {"look", "make"}, NEW k \in 1 .. at'[j] - 1
          PROVE  Present(row[j], BootOrder[k])'
      <3>1. pc[j] \in {"look", "make"} /\ k \in 1 .. at[j] - 1 /\ at[j] \in DOMAIN BootOrder
        BY <1>1, <2>1 DEF TaskOK, HeldTypeOK, Unmoved
      <3>2. PICK r \in Named(Master) : r = row[j] /\ r = row'[j]
        BY <1>1, <3>1 DEF TaskOK, HeldTypeOK, Unmoved
      <3>3. Present(r, BootOrder[k])
        BY <1>1, <3>1, <3>2 DEF TaskOK, BootOK
      <3>4. BootOrder[k] \in Kinds \union {"system"}
        BY <3>1, Orders
      <3>5. Present(r, BootOrder[k])'
        BY <3>2, <3>3, <3>4, MasterStaysComplete DEF RealmsInv
      <3> QED
        BY <3>2, <3>5 DEF Present
    <2>2. pc'[j] \notin Booting => MasterIsComplete'
      BY <1>1, MasterStaysComplete DEF RealmsInv, TaskOK, BootOK, Unmoved
    <2>3. pc'[j] \in {"sign", "create", "rename"} => row'[j] \in born' /\ name'[row'[j]] # Master
      BY <1>1 DEF TaskOK, BootOK, Unmoved, Keeps
    <2>4. pc'[j] \in Deleting => client'[j] \in born' /\ name'[client'[j]] # Master
      BY <1>1 DEF TaskOK, BootOK, Unmoved, Keeps
    <2> QED
      BY <2>1, <2>2, <2>3, <2>4 DEF BootOK
  <1>4. CreateOK(j)'
    <2> SUFFICES ASSUME pc[j] = "create" PROVE CreateOK(j)'
      BY <1>1 DEF Unmoved, CreateOK
    <2> DEFINE r == row[j]
    <2>1. r \in born /\ r \in Rows /\ at[j] \in Nat /\ wanted[j] \in Names
      BY <1>1 DEF TaskOK, BootOK, HeldTypeOK, LocalsTypeOK
    <2>2. at[j] <= 2 => label'[r] = None /\ r \in (Stored \union strayed)'
      BY DEF KeepsBegun
    <2>3. ASSUME r \in Stored' \ renamed'
          PROVE  /\ name'[r] = wanted[j]
                 /\ at[j] > 2 => label'[r] = wanted[j]
                 /\ at[j] > 3 => rows'[r]["role"] = 1
                 /\ at[j] > 4 => rows'[r]["grant"] = 1
      <3>1. /\ r \in Stored \ renamed
            /\ name'[r] = name[r]
            /\ label[r] # None => label'[r] = label[r]
            /\ \A k \in OfClient : rows'[r][k] >= rows[r][k]
        BY <2>1, <2>3 DEF Keeps
      <3>2. /\ name[r] = wanted[j]
            /\ at[j] > 2 => label[r] = wanted[j]
            /\ at[j] > 3 => rows[r]["role"] = 1
            /\ at[j] > 4 => rows[r]["grant"] = 1
        BY <1>1, <3>1 DEF TaskOK, CreateOK
      <3>3. \A k \in OfClient : rows'[r][k] \in Nat /\ rows'[r][k] <= 1
        BY <2>1, Orders DEF TablesTypeOK, KindFacts
      <3>4. /\ at[j] > 3 => rows'[r]["role"] = 1
            /\ at[j] > 4 => rows'[r]["grant"] = 1
        BY <3>1, <3>2, <3>3 DEF OfClient
      <3> QED
        BY <3>1, <3>2, <3>4, <2>1
    <2> QED
      BY <2>2, <2>3, <1>1 DEF CreateOK, Unmoved, Stored
  <1>5. DeleteOK(j)'
    <2>1. pc[j] \in Deleting => client[j] \in born
      BY <1>1 DEF TaskOK, BootOK
    <2>2. pc[j] = "delete" => wanted[j] \in Names
      BY <1>1 DEF TaskOK, HeldTypeOK
    <2>3. pc'[j] = "delete" => (client'[j] \in Stored' \ renamed' => label'[client'[j]] = wanted'[j])
      BY <1>1, <2>1, <2>2 DEF TaskOK, DeleteOK, Deleting, Unmoved, Keeps
    <2>4. pc'[j] = "deleteClient" => client'[j] \notin Stored' \ renamed'
      BY <1>1, <2>1 DEF TaskOK, DeleteOK, Deleting, Unmoved, Keeps
    <2> QED
      BY <2>3, <2>4 DEF DeleteOK
  <1> QED
    BY <1>2, <1>3, <1>4, <1>5 DEF TaskOK

(* So a step need only be looked at for the tables, the task itself and    *)
(* its relation to the others.                                             *)
LEMMA Combine ==
    ASSUME RealmsInv, NEW i \in Tasks, Moves(i), Keeps, KeepsBegun(i),
           TablesTypeOK', HistoryTypeOK', LabelsOK', ClientsMatchRealms', TaskOK(i)',
           \A j \in Tasks : PairOK(i, j)' /\ PairOK(j, i)'
    PROVE  RealmsInv'
  <1>1. \A j \in Tasks : TaskOK(j)'
    BY OthersStay
  <1>2. \A j, k \in Tasks : PairOK(j, k)'
    <2> SUFFICES ASSUME NEW j \in Tasks \ {i}, NEW k \in Tasks \ {i} PROVE PairOK(j, k)'
      OBVIOUS
    <2> QED
      BY DEF RealmsInv, PairOK, Moves, Unmoved
  <1> QED
    BY <1>1, <1>2 DEF RealmsInv, Moves

-----------------------------------------------------------------------------
(* Steps that write nothing, and those that only end a deletion.           *)
LEMMA Quiet ==
    ASSUME RealmsInv, NEW i \in Tasks, Moves(i), UNCHANGED <<tables, made, renamed>>,
           strayed' = strayed \union Broken(i)
    PROVE  /\ TablesTypeOK' /\ HistoryTypeOK' /\ Keeps /\ KeepsBegun(i)
           /\ LabelsOK' /\ ClientsMatchRealms'
  <1> USE DEF RealmsInv
  <1>1. TablesTypeOK'
    BY DEF TablesTypeOK, tables, Stored
  <1>2. HistoryTypeOK'
    <2>1. Broken(i) \subseteq born
      BY DEF Broken, TaskOK, BootOK, Deleting
    <2> QED
      BY <2>1 DEF HistoryTypeOK, tables, Stored
  <1>3. Keeps
    <2>1. rows \in [Rows -> [Kinds -> Nat]] /\ born \subseteq Rows /\ OfClient \subseteq Kinds
      BY Orders DEF TablesTypeOK, KindFacts
    <2> QED
      BY <2>1 DEF Keeps, tables, Stored, Named
  <1>4. KeepsBegun(i)
    BY DEF KeepsBegun, tables, TaskOK, CreateOK, Stored
  <1>5. LabelsOK'
    BY DEF LabelsOK, tables, Stored
  <1>6. ClientsMatchRealms'
    <2>1. ASSUME NEW r \in made' \ renamed'
          PROVE  label'[r] = name'[r] /\ \A k \in OfClient : rows'[r][k] = 1
      BY <2>1 DEF ClientsMatchRealms, tables
    <2>2. ASSUME NEW r \in Rows, r \notin Stored', label'[r] # None
          PROVE  r \in strayed' \/ \E j \in Tasks : pc'[j] = "deleteClient" /\ client'[j] = r
      <3>1. r \in strayed \/ \E j \in Tasks : pc[j] = "deleteClient" /\ client[j] = r
        BY <2>2 DEF ClientsMatchRealms, tables, Stored
      <3>2. CASE pc[i] = "deleteClient" /\ client[i] = r
        BY <2>2, <3>2 DEF Broken, tables
      <3>3. ASSUME NEW j \in Tasks \ {i}, pc[j] = "deleteClient" /\ client[j] = r
            PROVE  pc'[j] = "deleteClient" /\ client'[j] = r
        BY <3>3 DEF Moves, Unmoved
      <3> QED
        BY <3>1, <3>2, <3>3
    <2> QED
      BY <2>1, <2>2 DEF ClientsMatchRealms
  <1> QED
    BY <1>1, <1>2, <1>3, <1>4, <1>5, <1>6

(* A task that has ended, or looks for a row, holds nothing.               *)
Resting == {"off", "find", "insert", "list", "fill", "ready"}

(* A task between two pieces of work has nothing to vouch for.             *)
LEMMA RestingIsOK ==
    ASSUME RealmsInv, NEW i \in Tasks, pc'[i] \in Resting,
           pc'[i] \notin Booting => MasterIsComplete'
    PROVE  TaskOK(i)' /\ \A j \in Tasks : PairOK(i, j)' /\ PairOK(j, i)'
  BY DEF Resting, TaskOK, HeldTypeOK, BootOK, CreateOK, DeleteOK, PairOK, Booting, Deleting

(* A process that starts reads nothing yet.                                *)
LEMMA StepStart ==
    ASSUME RealmsInv, NEW i \in Tasks, Start(i) PROVE RealmsInv'
  <1>1. Moves(i) /\ pc'[i] = "find"
    BY Gone DEF RealmsInv, Start, Steps, StartSteps, RequestSteps
  <1>2. UNCHANGED <<tables, made, renamed>> /\ strayed' = strayed \union Broken(i)
    BY DEF Start, history, Broken
  <1> QED
    BY <1>1, <1>2, Quiet, RestingIsOK, Combine DEF Resting, Booting

(* Looking for the master realm at boot.                                   *)
LEMMA StepFindMaster ==
    ASSUME RealmsInv, NEW i \in Tasks, FindMaster(i) PROVE RealmsInv'
  <1>1. UNCHANGED <<tables, made, renamed>> /\ strayed' = strayed \union Broken(i)
    BY DEF FindMaster, history, Broken
  <1>2. CASE Goto(i, "insert") /\ UNCHANGED <<at, row, client, wanted, todo>>
    <2>1. Moves(i) /\ pc'[i] = "insert"
      BY <1>2, Gone DEF RealmsInv, Steps, StartSteps, RequestSteps
    <2> QED
      BY <1>1, <2>1, Quiet, RestingIsOK, Combine DEF Resting, Booting
  <1>3. ASSUME NEW r \in Named(Master), Goto(i, "look"), Hold(i, 1, r, None, None, {})
        PROVE  RealmsInv'
    <2>1. /\ Moves(i)
          /\ pc'[i] = "look" /\ at'[i] = 1 /\ row'[i] = r
      <3>1. LocalsTypeOK /\ r \in Rows \union {None} /\ "look" \in Steps
        BY DEF RealmsInv, Named, Steps, StartSteps
      <3> QED
        BY <1>3, <3>1, Held, 1 \in Nat, {} \in SUBSET Rows
    <2>2. TaskOK(i)' /\ \A j \in Tasks : PairOK(i, j)' /\ PairOK(j, i)'
      <3>1. r \in Named(Master)'
        BY <1>1 DEF Named, tables
      <3> QED
        BY <2>1, <3>1, Orders DEF TaskOK, HeldTypeOK, BootOK, CreateOK, DeleteOK, PairOK, Booting, Deleting
    <2> QED
      BY <1>1, <2>1, <2>2, Quiet, Combine
  <1> QED
    BY <1>2, <1>3 DEF FindMaster

(* The place in BootOrder: after the last one the master realm is complete. *)
LEMMA AdvanceIsOK ==
    ASSUME RealmsInv, TablesTypeOK', NEW i \in Tasks, Keeps, Advance(i),
           pc[i] \in {"look", "make"},
           NEW r \in Rows, r = row[i], NEW k \in 1 .. 6, k = at[i], Present(r, BootOrder[k])'
    PROVE  /\ Moves(i) /\ pc'[i] \in {"look", "list"} /\ TaskOK(i)'
           /\ \A j \in Tasks : PairOK(i, j)' /\ PairOK(j, i)'
  <1>1. \A m \in 1 .. k : Present(r, BootOrder[m])'
    <2>1. \A m \in 1 .. k - 1 : Present(r, BootOrder[m])
      BY DEF RealmsInv, TaskOK, BootOK
    <2>2. r \in Named(Master)
      BY DEF RealmsInv, TaskOK, HeldTypeOK
    <2>3. \A m \in 1 .. k - 1 : Present(r, BootOrder[m])'
      BY <2>1, <2>2, MasterStaysComplete, Orders DEF RealmsInv
    <2> QED
      BY <2>3
  <1>2. r \in Named(Master)'
    BY DEF RealmsInv, TaskOK, HeldTypeOK, Keeps, Named
  <1>3. CASE k < 6
    <2>1. /\ Moves(i)
          /\ pc'[i] = "look" /\ at'[i] = k + 1 /\ row'[i] = r
      <3>1. PICK m \in Nat : m = k + 1
        OBVIOUS
      <3>2. Goto(i, "look") /\ Hold(i, m, r, None, None, {}) /\ LocalsTypeOK
        BY <1>3, <3>1, Orders DEF RealmsInv, Advance
      <3>3. "look" \in Steps
        BY DEF Steps, StartSteps, RequestSteps
      <3>4. /\ Moves(i)
            /\ pc'[i] = "look" /\ at'[i] = m /\ row'[i] = r
        BY <3>2, <3>3, Held
      <3> QED
        BY <3>1, <3>4
    <2>2. HeldTypeOK(i)'
      BY <1>2, <1>3, <2>1, Orders DEF HeldTypeOK
    <2>3. BootOK(i)'
      BY <1>1, <2>1 DEF BootOK, Booting, Deleting, Present
    <2> QED
      BY <2>1, <2>2, <2>3 DEF TaskOK, CreateOK, DeleteOK, PairOK, Deleting
  <1>4. CASE k = 6
    <2>1. Moves(i) /\ pc'[i] = "list"
      BY <1>4, Left, Orders DEF RealmsInv, Advance, Steps, StartSteps, RequestSteps
    <2>2. MasterIsComplete'
      BY <1>1, <1>2, <1>4, Orders DEF MasterIsComplete, Required
    <2> QED
      BY <2>1, <2>2, RestingIsOK DEF Resting
  <1> QED
    BY <1>3, <1>4

(* The existence checks of the boot sequence.                              *)
LEMMA StepLook ==
    ASSUME RealmsInv, NEW i \in Tasks, Look(i) PROVE RealmsInv'
  <1>1. UNCHANGED <<tables, made, renamed>> /\ strayed' = strayed \union Broken(i)
    BY DEF Look, history, Broken
  <1>2. /\ pc[i] = "look" /\ at[i] \in 1 .. 6
        /\ row[i] \in Named(Master) /\ row[i] \in Rows
    BY Orders DEF Look, RealmsInv, TaskOK, HeldTypeOK, Named
  <1>3. CASE Goto(i, "make") /\ UNCHANGED <<at, row, client, wanted, todo>>
    <2>1. /\ Moves(i)
          /\ pc'[i] = "make" /\ at'[i] = at[i] /\ row'[i] = row[i]
      BY <1>3, Gone DEF RealmsInv, Steps, StartSteps, RequestSteps
    <2>2. HeldTypeOK(i)'
      BY <1>1, <1>2, <2>1, Orders DEF HeldTypeOK, Named, tables
    <2>3. BootOK(i)'
      BY <1>1, <1>2, <2>1 DEF RealmsInv, TaskOK, BootOK, Booting, Deleting, Present, tables
    <2>4. TaskOK(i)' /\ \A j \in Tasks : PairOK(i, j)' /\ PairOK(j, i)'
      BY <2>1, <2>2, <2>3 DEF TaskOK, CreateOK, DeleteOK, PairOK, Deleting
    <2> QED
      BY <1>1, <2>1, <2>4, Quiet, Combine
  <1>4. CASE Present(row[i], BootOrder[at[i]]) /\ Advance(i)
    <2>1. PICK r \in Rows, k \in 1 .. 6 : r = row[i] /\ k = at[i]
      BY <1>2
    <2>2. Present(r, BootOrder[k])'
      BY <1>1, <1>4, <2>1 DEF Present, tables
    <2>3. Moves(i)
      <3>1. LocalsTypeOK /\ {"look", "list"} \subseteq Steps /\ k + 1 \in Nat
        BY DEF RealmsInv, Steps, StartSteps, RequestSteps
      <3>2. CASE Goto(i, "look") /\ Hold(i, k + 1, r, None, None, {})
        <4>1. "look" \in Steps /\ {} \in SUBSET Rows /\ r \in Rows \union {None}
          BY <3>1, <2>1
        <4> QED
          BY <3>1, <3>2, <4>1, Held
      <3>3. CASE Leave(i, "list")
        BY <3>1, <3>3, Left
      <3> QED
        BY <1>4, <2>1, <3>2, <3>3 DEF Advance
    <2>4. TablesTypeOK' /\ Keeps
      BY <1>1, <2>3, Quiet
    <2> QED
      BY <1>1, <1>2, <1>4, <2>1, <2>2, <2>4, AdvanceIsOK, Quiet, Combine
  <1> QED
    BY <1>3, <1>4 DEF Look

(* The list of realms whose console client is missing.                     *)
LEMMA StepList ==
    ASSUME RealmsInv, NEW i \in Tasks, List(i) PROVE RealmsInv'
  <1>1. UNCHANGED <<tables, made, renamed>> /\ strayed' = strayed \union Broken(i)
    BY DEF List, history, Broken
  <1>2. Moves(i) /\ pc'[i] = "fill"
    BY Held DEF List, RealmsInv, Steps, StartSteps, RequestSteps, Stored
  <1>3. MasterIsComplete'
    BY <1>1, <1>2, Quiet, MasterStaysComplete DEF List, RealmsInv, TaskOK, BootOK, Booting
  <1> QED
    BY <1>1, <1>2, <1>3, Quiet, RestingIsOK, Combine DEF Resting

(* The look for the console client of a listed realm.                      *)
LEMMA StepFill ==
    ASSUME RealmsInv, NEW i \in Tasks, NEW r \in Rows, Fill(i, r) PROVE RealmsInv'
  <1>1. UNCHANGED <<tables, made, renamed>> /\ strayed' = strayed \union Broken(i)
    BY DEF Fill, history, Broken
  <1>2. Moves(i) /\ pc'[i] \in {"fill", "console"} /\ row'[i] = r
    <2>1. PICK step \in {"fill", "console"} : Goto(i, step)
      BY DEF Fill
    <2>2. LocalsTypeOK /\ step \in Steps /\ todo[i] \ {r} \in SUBSET Rows
      BY DEF RealmsInv, LocalsTypeOK, Steps, StartSteps, RequestSteps
    <2>3. Hold(i, 0, r, None, None, todo[i] \ {r})
      BY DEF Fill
    <2>4. Moves(i) /\ pc'[i] = step /\ row'[i] = r
      BY <2>1, <2>2, <2>3, Held
    <2> QED
      BY <2>1, <2>4
  <1>3. MasterIsComplete'
    BY <1>1, <1>2, Quiet, MasterStaysComplete DEF Fill, RealmsInv, TaskOK, BootOK, Booting
  <1>4. TaskOK(i)'
    BY <1>2, <1>3 DEF TaskOK, HeldTypeOK, BootOK, CreateOK, DeleteOK, Deleting
  <1>5. \A j \in Tasks : PairOK(i, j)' /\ PairOK(j, i)'
    BY <1>2 DEF PairOK, Deleting
  <1> QED
    BY <1>1, <1>2, <1>4, <1>5, Quiet, Combine

(* The end of the boot sequence.                                           *)
LEMMA StepReady ==
    ASSUME RealmsInv, NEW i \in Tasks, Ready(i) PROVE RealmsInv'
  <1>1. UNCHANGED <<tables, made, renamed>> /\ strayed' = strayed \union Broken(i)
    BY DEF Ready, history, Broken
  <1>2. Moves(i) /\ pc'[i] = "ready"
    BY Left DEF Ready, RealmsInv, Steps, StartSteps, RequestSteps
  <1>3. MasterIsComplete'
    BY <1>1, <1>2, Quiet, MasterStaysComplete DEF Ready, RealmsInv, TaskOK, BootOK, Booting
  <1> QED
    BY <1>1, <1>2, <1>3, Quiet, RestingIsOK, Combine DEF Resting

(* The look for a realm's signing key.                                     *)
LEMMA StepSign ==
    ASSUME RealmsInv, MasterIsComplete, NEW i \in Tasks, NEW r \in Rows, Sign(i, r)
    PROVE  RealmsInv'
  <1>1. UNCHANGED <<tables, made, renamed>> /\ strayed' = strayed \union Broken(i)
    BY DEF Sign, history, Broken
  <1>2. Moves(i) /\ pc'[i] = "sign" /\ row'[i] = r
    <2>1. Goto(i, "sign") /\ Hold(i, 0, r, None, None, {}) /\ LocalsTypeOK
      BY DEF Sign, RealmsInv
    <2>2. "sign" \in Steps /\ r \in Rows \union {None}
      BY DEF Steps, RequestSteps
    <2> QED
      BY <2>1, <2>2, Held, 0 \in Nat, {} \in SUBSET Rows
  <1>3. MasterIsComplete'
    BY <1>1, <1>2, Quiet, MasterStaysComplete DEF RealmsInv
  <1>4. r \in born /\ name[r] # Master
    <2>1. "key" \in Required
      BY Orders DEF Required, BootOrder
    <2>2. PICK m \in Named(Master) : Present(m, "key")
      BY <2>1 DEF MasterIsComplete
    <2>3. r \in Stored /\ rows[r]["key"] = 0 /\ m \in Stored /\ rows[m]["key"] > 0
      BY <2>2, NamesAssumption DEF Sign, Present, Named, Stored
    <2> QED
      BY <2>2, <2>3 DEF RealmsInv, TablesTypeOK, Named
  <1>5. HeldTypeOK(i)' /\ BootOK(i)' /\ CreateOK(i)' /\ DeleteOK(i)'
    BY <1>1, <1>2, <1>3, <1>4 DEF tables, HeldTypeOK, BootOK, CreateOK, DeleteOK, Deleting
  <1>6. \A j \in Tasks : PairOK(i, j)' /\ PairOK(j, i)'
    BY <1>2 DEF PairOK, Deleting
  <1> QED
    BY <1>1, <1>2, <1>5, <1>6, Quiet, Combine DEF TaskOK

(* The look-up that precedes a realm's deletion.                           *)
LEMMA StepFindDoomed ==
    ASSUME RealmsInv, MasterIsComplete, NEW i \in Tasks, NEW n \in Names, FindDoomed(i, n)
    PROVE  RealmsInv'
  <1>1. UNCHANGED <<tables, made, renamed>> /\ strayed' = strayed \union Broken(i)
    BY DEF FindDoomed, history, Broken
  <1>2. PICK c \in Labelled(n) : Hold(i, 0, None, c, n, {})
    BY DEF FindDoomed
  <1>3. /\ Moves(i)
        /\ pc'[i] = "delete" /\ client'[i] = c /\ wanted'[i] = n
    <2>1. LocalsTypeOK /\ c \in Rows \union {None} /\ n \in Names \union {None}
      BY DEF RealmsInv, Labelled
    <2>2. Goto(i, "delete") /\ "delete" \in Steps
      BY DEF FindDoomed, Steps, RequestSteps
    <2> QED
      BY <1>2, <2>1, <2>2, Held, 0 \in Nat, {} \in SUBSET Rows
  <1>4. c \in Rows /\ label[c] = n /\ n # None /\ n # Master
    BY NamesAssumption DEF FindDoomed, Labelled
  <1>5. c \in born /\ name[c] # Master
    BY <1>4 DEF RealmsInv, LabelsOK
  <1>6. MasterIsComplete'
    BY <1>1, <1>3, Quiet, MasterStaysComplete DEF RealmsInv
  <1>7. HeldTypeOK(i)' /\ BootOK(i)' /\ CreateOK(i)' /\ DeleteOK(i)'
    BY <1>1, <1>3, <1>4, <1>5, <1>6 DEF tables, HeldTypeOK, BootOK, CreateOK, DeleteOK, Deleting
  <1>8. ASSUME NEW j \in Tasks PROVE PairOK(i, j)' /\ PairOK(j, i)'
    <2>1. j # i => (pc[j] = "create" /\ row[j] = c => at[j] > 2)
      BY <1>4 DEF RealmsInv, TaskOK, CreateOK, HeldTypeOK, LocalsTypeOK
    <2> QED
      BY <1>3, <2>1 DEF PairOK, Moves, Unmoved, Deleting
  <1> QED
    BY <1>1, <1>3, <1>7, <1>8, Quiet, Combine DEF TaskOK

(* The look-up that precedes a realm's renaming.                           *)
LEMMA StepFindRenamed ==
    ASSUME RealmsInv, MasterIsComplete, NEW i \in Tasks, NEW n \in Names, NEW m \in Names,
           FindRenamed(i, n, m)
    PROVE  RealmsInv'
  <1>1. UNCHANGED <<tables, made, renamed>> /\ strayed' = strayed \union Broken(i)
    BY DEF FindRenamed, history, Broken
  <1>2. PICK r \in Named(n) : Hold(i, 0, r, None, m, {})
    BY DEF FindRenamed
  <1>3. /\ Moves(i)
        /\ pc'[i] = "rename" /\ row'[i] = r /\ wanted'[i] = m
    <2>1. LocalsTypeOK /\ r \in Rows \union {None} /\ m \in Names \union {None}
      BY DEF RealmsInv, Named
    <2>2. Goto(i, "rename") /\ "rename" \in Steps
      BY DEF FindRenamed, Steps, RequestSteps
    <2> QED
      BY <1>2, <2>1, <2>2, Held, 0 \in Nat, {} \in SUBSET Rows
  <1>4. r \in born /\ name[r] # Master
    BY NamesAssumption DEF FindRenamed, Named, RealmsInv, TablesTypeOK, Stored
  <1>5. MasterIsComplete'
    BY <1>1, <1>3, Quiet, MasterStaysComplete DEF RealmsInv
  <1>6. HeldTypeOK(i)' /\ BootOK(i)' /\ CreateOK(i)' /\ DeleteOK(i)'
    BY <1>1, <1>3, <1>4, <1>5 DEF FindRenamed, Named, tables, HeldTypeOK, BootOK, CreateOK, DeleteOK, Deleting
  <1>7. \A j \in Tasks : PairOK(i, j)' /\ PairOK(j, i)'
    BY <1>3 DEF PairOK, Deleting
  <1> QED
    BY <1>1, <1>3, <1>6, <1>7, Quiet, Combine DEF TaskOK

(* A task that ends with nothing under way holds nothing.                  *)
LEMMA StepStop ==
    ASSUME RealmsInv, NEW i \in Tasks, pc[i] = "ready", Stop(i), UNCHANGED <<tables, history>>
    PROVE  RealmsInv'
  <1>1. UNCHANGED <<tables, made, renamed>> /\ strayed' = strayed \union Broken(i)
    BY DEF history, Broken
  <1>2. Moves(i) /\ pc'[i] = "off"
    BY Left DEF Stop, RealmsInv, Steps
  <1> QED
    BY <1>1, <1>2, Quiet, RestingIsOK, Combine DEF Resting, Booting

(* The end of some tasks keeps the tables; what they leave half deleted is *)
(* noted.                                                                  *)
LEMMA StepDie ==
    ASSUME RealmsInv, NEW S \in SUBSET Tasks, Die(S) PROVE RealmsInv'
  <1> USE NamesAssumption DEF RealmsInv
  <1>1. UNCHANGED <<tables, made, renamed>> /\ Stored' = Stored
    BY DEF Die, tables, Stored
  <1>2. \A t \in S : pc'[t] = "off"
    BY DEF Die
  <1>3. \A t \in Tasks \ S : Unmoved(t)
    BY DEF Die, Unmoved
  <1>4. \A t \in S : Broken(t) \subseteq strayed'
    BY DEF Die
  <1>5. strayed \subseteq strayed'
    BY DEF Die
  <1>6. LocalsTypeOK'
    BY DEF LocalsTypeOK, Die, Steps
  <1>7. TablesTypeOK' /\ LabelsOK'
    BY <1>1 DEF TablesTypeOK, LabelsOK, tables
  <1>8. HistoryTypeOK'
    <2>1. \A t \in S : Broken(t) \subseteq born
      BY DEF Broken, TaskOK, BootOK, Deleting
    <2> QED
      BY <1>1, <2>1 DEF HistoryTypeOK, tables, Die
  <1>9. ClientsMatchRealms'
    <2>1. \A r \in made' \ renamed' : label'[r] = name'[r] /\ \A k \in OfClient : rows'[r][k] = 1
      BY <1>1 DEF ClientsMatchRealms, tables
    <2>2. ASSUME NEW r \in Rows \ Stored', label'[r] # None
          PROVE  r \in strayed' \/ \E j \in Tasks : pc'[j] = "deleteClient" /\ client'[j] = r
      <3>1. label[r] # None
        BY <1>1, <2>2 DEF tables
      <3>2. r \in strayed \/ \E j \in Tasks : pc[j] = "deleteClient" /\ client[j] = r
        BY <1>1, <2>2, <3>1 DEF ClientsMatchRealms
      <3>3. ASSUME NEW j \in S, pc[j] = "deleteClient" /\ client[j] = r PROVE r \in strayed'
        BY <1>4, <3>1, <3>3 DEF Broken
      <3>4. ASSUME NEW j \in Tasks \ S, pc[j] = "deleteClient" /\ client[j] = r
            PROVE  pc'[j] = "deleteClient" /\ client'[j] = r
        BY <1>3, <3>4 DEF Unmoved
      <3> QED
        BY <1>5, <3>2, <3>3, <3>4
    <2> QED
      BY <2>1, <2>2 DEF ClientsMatchRealms
  <1>10. ASSUME NEW j \in Tasks PROVE TaskOK(j)'
    <2>1. CASE j \in S
      BY <1>2, <2>1 DEF TaskOK, HeldTypeOK, BootOK, CreateOK, DeleteOK, Booting, Deleting
    <2>2. CASE j \notin S
      <3>1. TaskOK(j) /\ Unmoved(j)
        BY <1>3, <2>2
      <3>2. MasterIsComplete => MasterIsComplete'
        BY <1>1 DEF MasterIsComplete, Named, Present, tables
      <3>3. HeldTypeOK(j)' /\ BootOK(j)'
        BY <1>1, <3>1, <3>2 DEF TaskOK, HeldTypeOK, BootOK, Unmoved, Named, Present, tables
      <3>4. CreateOK(j)' /\ DeleteOK(j)'
        BY <1>1, <1>5, <3>1 DEF TaskOK, CreateOK, DeleteOK, Unmoved, tables
      <3> QED
        BY <3>3, <3>4 DEF TaskOK
    <2> QED
      BY <2>1, <2>2
  <1>11. ASSUME NEW j \in Tasks, NEW k \in Tasks PROVE PairOK(j, k)'
    <2>1. CASE j \in S \/ k \in S
      BY <1>2, <2>1 DEF PairOK, Deleting
    <2>2. CASE j \notin S /\ k \notin S
      BY <1>3, <2>2 DEF PairOK, Unmoved
    <2> QED
      BY <2>1, <2>2
  <1> QED
    BY <1>6, <1>7, <1>8, <1>9, <1>10, <1>11

-----------------------------------------------------------------------------
(* Insertion of a realm.                                                   *)
LEMMA RealmInserted ==
    ASSUME RealmsInv, NEW i \in Tasks, Moves(i), pc[i] # "deleteClient",
           NEW r \in Rows, NEW n \in Names, InsertRealm(r, n),
           UNCHANGED <<rows, label, history>>
    PROVE  /\ TablesTypeOK' /\ HistoryTypeOK' /\ Keeps /\ KeepsBegun(i)
           /\ LabelsOK' /\ ClientsMatchRealms'
           /\ r \notin born /\ born' = born \union {r} /\ label'[r] = None
           /\ name' = [name EXCEPT ![r] = n]
  <1> USE NamesAssumption DEF RealmsInv, history
  <1>1. /\ r \notin born /\ r \notin Stored
        /\ name' = [name EXCEPT ![r] = n] /\ born' = born \union {r}
        /\ \A q \in Rows : name[q] # n
    BY DEF InsertRealm, Fresh, TablesTypeOK, Named
  <1>2. Stored' = Stored \union {r}
    BY <1>1 DEF Stored, TablesTypeOK
  <1>3. label[r] = None
    BY <1>1 DEF LabelsOK
  <1>4. TablesTypeOK'
    <2>1. name' \in [Rows -> Names \union {None}] /\ born' \in SUBSET Rows
      BY <1>1 DEF TablesTypeOK
    <2>2. \A q, s \in Stored' : name'[q] = name'[s] => q = s
      BY <1>1, <1>2 DEF TablesTypeOK, Stored
    <2>3. Stored' \subseteq born'
      BY <1>1, <1>2 DEF TablesTypeOK
    <2>4. \A q \in Rows \ Stored', k \in Kinds \ OfClient : rows'[q][k] = 0
      BY <1>2 DEF TablesTypeOK
    <2> QED
      BY <2>1, <2>2, <2>3, <2>4 DEF TablesTypeOK
  <1>5. HistoryTypeOK'
    BY <1>1, <1>2 DEF HistoryTypeOK
  <1>6. Keeps
    <2>1. \A q \in Rows : q # r => name'[q] = name[q]
      BY <1>1 DEF TablesTypeOK
    <2>2. rows \in [Rows -> [Kinds -> Nat]] /\ born \subseteq Rows /\ OfClient \subseteq Kinds
      BY Orders DEF TablesTypeOK, KindFacts
    <2>3. r \notin Named(Master)
      BY <1>1 DEF Named, Stored
    <2> QED
      BY <1>1, <1>2, <2>1, <2>2, <2>3 DEF Keeps, Named
  <1>7. KeepsBegun(i)
    BY <1>2 DEF KeepsBegun, TaskOK, CreateOK
  <1>8. LabelsOK'
    BY <1>1, <1>2, <1>3 DEF LabelsOK, TablesTypeOK
  <1>9. ClientsMatchRealms'
    <2>1. ASSUME NEW q \in made' \ renamed'
          PROVE  label'[q] = name'[q] /\ \A k \in OfClient : rows'[q][k] = 1
      <3>1. q # r /\ q \in Rows
        BY <1>1, <2>1 DEF HistoryTypeOK, Stored
      <3> QED
        BY <1>1, <2>1, <3>1 DEF ClientsMatchRealms, TablesTypeOK
    <2>2. ASSUME NEW q \in Rows \ Stored', label'[q] # None
          PROVE  q \in strayed' \/ \E j \in Tasks : pc'[j] = "deleteClient" /\ client'[j] = q
      <3>1. q \in strayed \/ \E j \in Tasks : pc[j] = "deleteClient" /\ client[j] = q
        BY <1>2, <2>2 DEF ClientsMatchRealms
      <3> QED
        BY <3>1 DEF Moves, Unmoved
    <2> QED
      BY <2>1, <2>2 DEF ClientsMatchRealms
  <1> QED
    BY <1>1, <1>3, <1>4, <1>5, <1>6, <1>7, <1>8, <1>9

(* The insertion of the master realm.                                      *)
LEMMA StepInsertMaster ==
    ASSUME RealmsInv, NEW i \in Tasks, NEW r \in Rows, InsertMaster(i, r) PROVE RealmsInv'
  <1>1. CASE InsertRealm(r, Master) /\ Goto(i, "look") /\ Hold(i, 1, r, None, None, {})
    <2>1. /\ Moves(i)
          /\ pc'[i] = "look" /\ at'[i] = 1 /\ row'[i] = r
      <3>1. LocalsTypeOK /\ r \in Rows \union {None} /\ "look" \in Steps
        BY DEF RealmsInv, Steps, StartSteps
      <3> QED
        BY <1>1, <3>1, Held, 1 \in Nat, {} \in SUBSET Rows
    <2>2. pc[i] # "deleteClient" /\ UNCHANGED <<rows, label, history>> /\ Master \in Names
      BY NamesAssumption DEF InsertMaster
    <2>3. /\ TablesTypeOK' /\ HistoryTypeOK' /\ Keeps /\ KeepsBegun(i)
          /\ LabelsOK' /\ ClientsMatchRealms'
          /\ name' = [name EXCEPT ![r] = Master]
      BY <1>1, <2>1, <2>2, RealmInserted
    <2>4. r \in Named(Master)'
      BY <2>3 DEF Named, RealmsInv, TablesTypeOK
    <2>5. TaskOK(i)' /\ \A j \in Tasks : PairOK(i, j)' /\ PairOK(j, i)'
      BY <2>1, <2>4, Orders DEF TaskOK, HeldTypeOK, BootOK, CreateOK, DeleteOK, PairOK, Booting, Deleting
    <2> QED
      BY <2>1, <2>3, <2>5, Combine
  <1>2. CASE Stop(i) /\ UNCHANGED <<name, born>>
    <2>1. Moves(i) /\ pc'[i] = "off"
      BY <1>2, Left DEF Stop, RealmsInv, Steps, StartSteps, RequestSteps
    <2>2. UNCHANGED <<tables, made, renamed>> /\ strayed' = strayed \union Broken(i)
      BY <1>2 DEF InsertMaster, history, tables, Broken
    <2> QED
      BY <2>1, <2>2, Quiet, RestingIsOK, Combine DEF Resting, Booting
  <1> QED
    BY <1>1, <1>2 DEF InsertMaster

(* The insertion of a requested realm.                                     *)
LEMMA StepCreateRealm ==
    ASSUME RealmsInv, MasterIsComplete, NEW i \in Tasks, NEW r \in Rows, NEW n \in Names,
           CreateRealm(i, r, n)
    PROVE  RealmsInv'
  <1>1. /\ Moves(i)
        /\ pc'[i] = "create" /\ at'[i] = 1 /\ row'[i] = r /\ wanted'[i] = n
    <2>1. LocalsTypeOK /\ r \in Rows \union {None} /\ n \in Names \union {None}
      BY DEF RealmsInv
    <2>2. Goto(i, "create") /\ Hold(i, 1, r, None, n, {}) /\ "create" \in Steps
      BY DEF CreateRealm, Steps, RequestSteps
    <2> QED
      BY <2>1, <2>2, Held, 1 \in Nat, {} \in SUBSET Rows
  <1>2. pc[i] = "off" /\ InsertRealm(r, n) /\ UNCHANGED <<rows, label, history>>
    BY DEF CreateRealm
  <1>3. /\ TablesTypeOK' /\ HistoryTypeOK' /\ Keeps /\ KeepsBegun(i)
        /\ LabelsOK' /\ ClientsMatchRealms'
        /\ r \notin born /\ born' = born \union {r} /\ label'[r] = None
        /\ name' = [name EXCEPT ![r] = n]
    BY <1>1, <1>2, RealmInserted
  <1>4. MasterIsComplete /\ MasterIsComplete'
    BY <1>3, MasterStaysComplete DEF RealmsInv
  <1>5. n # Master
    BY <1>2, <1>4 DEF InsertRealm, MasterIsComplete
  <1>6. name'[r] = n /\ r \in Stored'
    BY <1>3, NamesAssumption DEF RealmsInv, TablesTypeOK, Stored
  <1>7. HeldTypeOK(i)'
    BY <1>1, Orders DEF HeldTypeOK
  <1>8. BootOK(i)'
    BY <1>1, <1>3, <1>4, <1>5, <1>6 DEF BootOK, Deleting
  <1>9. CreateOK(i)' /\ DeleteOK(i)'
    BY <1>1, <1>3, <1>6 DEF CreateOK, DeleteOK
  <1>10. ASSUME NEW j \in Tasks PROVE PairOK(i, j)' /\ PairOK(j, i)'
    <2>1. j # i => /\ pc[j] = "create" => row[j] \in born
                   /\ pc[j] \in Deleting => client[j] \in born
      BY DEF RealmsInv, TaskOK, BootOK
    <2> QED
      BY <1>1, <1>3, <2>1 DEF PairOK, Moves, Unmoved, Deleting
  <1> QED
    BY <1>1, <1>3, <1>7, <1>8, <1>9, <1>10, Combine DEF TaskOK

-----------------------------------------------------------------------------
(* Insertion of what belongs to a realm.                                   *)
LEMMA InsertedRows ==
    ASSUME TablesTypeOK, NEW r \in Rows, NEW n, NEW kind \in Kinds \union {"system"},
           Insert(r, n, kind)
    PROVE  /\ \A q \in Rows, k \in Kinds :
                 rows'[q][k] = IF q = r /\ k = kind THEN rows[q][k] + 1 ELSE rows[q][k]
           /\ rows' \in [Rows -> [Kinds -> Nat]]
  <1>1. CASE kind = "system"
    BY <1>1, Orders DEF Insert, TablesTypeOK, KindFacts
  <1>2. CASE kind \in Kinds
    <2>1. rows' = [rows EXCEPT ![r][kind] = rows[r][kind] + 1]
      BY <1>2, Orders DEF Insert, KindFacts
    <2>2. rows \in [Rows -> [Kinds -> Nat]]
      BY DEF TablesTypeOK
    <2>3. \A q \in Rows : q # r => rows'[q] = rows[q]
      BY <2>1, <2>2
    <2>4. rows'[r] = [rows[r] EXCEPT ![kind] = rows[r][kind] + 1]
      BY <2>1, <2>2
    <2>5. rows[r] \in [Kinds -> Nat] /\ rows[r][kind] + 1 \in Nat
      BY <1>2, <2>2
    <2>6. rows'[r] \in [Kinds -> Nat]
      BY <2>4, <2>5
    <2>7. \A k \in Kinds : rows'[r][k] = IF k = kind THEN rows[r][k] + 1 ELSE rows[r][k]
      BY <2>4, <2>5
    <2>8. rows' \in [Rows -> [Kinds -> Nat]]
      BY <2>1, <2>2, <2>6
    <2> QED
      BY <2>3, <2>7, <2>8
  <1> QED
    BY <1>1, <1>2

(* Insertion of what belongs to a realm.  A client is inserted for a realm *)
(* that has none, under the realm's name, by its creator alone.            *)
MayLabel(i, r, n) ==
    /\ label[r] = None /\ r \in born /\ n \in Names
    /\ r \in Stored \union strayed
    /\ r \in Stored \ renamed => n = name[r]
    /\ name[r] = Master => n = Master
    /\ \A j \in Tasks \ {i} : pc[j] = "create" /\ at[j] <= 2 => row[j] # r

(* What an accepted insertion of one kind of row does to the tables.       *)
LEMMA Inserted ==
    ASSUME RealmsInv, NEW i \in Tasks, Moves(i), pc[i] # "deleteClient",
           NEW r \in Rows, NEW n \in Names \union {None}, NEW kind \in Kinds \union {"system"},
           Accepted(r, n, kind), Insert(r, n, kind), UNCHANGED <<name, born, renamed, strayed>>,
           kind = "system" => MayLabel(i, r, n)
    PROVE  /\ TablesTypeOK' /\ Keeps /\ KeepsBegun(i) /\ LabelsOK'
           /\ \A q \in made \ renamed : label'[q] = name[q] /\ \A k \in OfClient : rows'[q][k] = 1
           /\ \A q \in Rows \ Stored' : label'[q] # None =>
                 q \in strayed' \/ \E j \in Tasks : pc'[j] = "deleteClient" /\ client'[j] = q
           /\ Present(r, kind)'
           /\ kind \in OfClient => rows'[r][kind] = 1
           /\ \A q \in Rows, k \in Kinds : q # r \/ k # kind => rows'[q][k] = rows[q][k]
           /\ kind = "system" => label'[r] = n
           /\ kind # "system" => label' = label
  <1> USE NamesAssumption DEF RealmsInv
  <1>0. KindFacts /\ Stored' = Stored
    BY Orders DEF Stored
  <1>1. TablesTypeOK
    OBVIOUS
  <1>2. /\ \A q \in Rows, k \in Kinds : rows'[q][k] = IF q = r /\ k = kind THEN rows[q][k] + 1 ELSE rows[q][k]
        /\ rows' \in [Rows -> [Kinds -> Nat]]
    BY <1>1, InsertedRows
  <1>3. /\ kind # "system" => label' = label
        /\ kind = "system" => label' = [label EXCEPT ![r] = n]
    BY DEF Insert
  <1>4. /\ kind \in Kinds \ Unconstrained => rows[r][kind] = 0
        /\ kind \in Kinds \ OfClient => r \in Stored
        /\ kind \in OfClient => label[r] # None
        /\ kind = "system" => \A q \in Rows : label[q] # n
    BY <1>0 DEF Accepted, KindFacts, Labelled
  <1>5. kind = "system" => label[r] = None /\ n \in Names
    BY DEF MayLabel
  <1>6. TablesTypeOK'
    <2>1. label' \in [Rows -> Names \union {None}]
      BY <1>1, <1>3, <1>5 DEF TablesTypeOK
    <2>2. \A q, s \in Rows : label'[q] = label'[s] /\ label'[q] # None => q = s
      BY <1>1, <1>3, <1>4, <1>5 DEF TablesTypeOK
    <2>3. \A q \in Rows, k \in Kinds \ Unconstrained : rows'[q][k] <= 1
      BY <1>1, <1>2, <1>4 DEF TablesTypeOK
    <2>4. \A q \in Rows \ Stored', k \in Kinds \ OfClient : rows'[q][k] = 0
      BY <1>0, <1>1, <1>2, <1>4 DEF TablesTypeOK
    <2>5. \A q \in Rows, k \in OfClient : rows'[q][k] > 0 => label'[q] # None
      <3> SUFFICES ASSUME NEW q \in Rows, NEW k \in OfClient, rows'[q][k] > 0 PROVE label'[q] # None
        OBVIOUS
      <3>1. k \in Kinds /\ rows[q][k] \in Nat
        BY <1>0, <1>1 DEF KindFacts, TablesTypeOK
      <3>2. label[q] # None
        BY <1>1, <1>2, <1>4, <3>1 DEF TablesTypeOK
      <3> QED
        BY <1>1, <1>3, <1>5, <3>2 DEF TablesTypeOK
    <2> QED
      BY <1>0, <1>1, <1>2, <2>1, <2>2, <2>3, <2>4, <2>5 DEF TablesTypeOK
  <1>7. \A q \in Rows : label[q] # None => label'[q] = label[q]
    BY <1>1, <1>3, <1>5 DEF TablesTypeOK
  <1>8. Keeps
    <2>1. \A q \in Rows, k \in Kinds : rows'[q][k] >= rows[q][k]
      BY <1>1, <1>2 DEF TablesTypeOK
    <2>2. born \subseteq Rows /\ OfClient \subseteq Kinds
      BY <1>0, <1>1 DEF TablesTypeOK, KindFacts
    <2> QED
      BY <1>0, <1>7, <2>1, <2>2 DEF Keeps, Named
  <1>9. KeepsBegun(i)
    <2> SUFFICES ASSUME NEW j \in Tasks \ {i}, pc[j] = "create", at[j] <= 2
                 PROVE  label'[row[j]] = None /\ row[j] \in (Stored \union strayed)'
      BY DEF KeepsBegun
    <2>1. row[j] \in Rows /\ label[row[j]] = None /\ row[j] \in Stored \union strayed
      BY DEF TaskOK, HeldTypeOK, CreateOK
    <2>2. kind = "system" => row[j] # r
      BY DEF MayLabel
    <2> QED
      BY <1>0, <1>1, <1>3, <2>1, <2>2 DEF TablesTypeOK
  <1>10. LabelsOK'
    <2>1. \A q \in Rows : label'[q] = label[q] \/ (kind = "system" /\ q = r /\ label'[q] = n)
      BY <1>1, <1>3 DEF TablesTypeOK
    <2> QED
      BY <1>0, <2>1 DEF LabelsOK, MayLabel
  <1>11. ASSUME NEW q \in made \ renamed
         PROVE  label'[q] = name[q] /\ \A k \in OfClient : rows'[q][k] = 1
    <2>1. q \in Rows /\ name[q] # None
      BY DEF HistoryTypeOK, Stored
    <2>2. label[q] = name[q] /\ \A k \in OfClient : rows[q][k] = 1
      BY DEF ClientsMatchRealms
    <2>3. \A k \in OfClient : k \in Kinds /\ ~ (q = r /\ k = kind)
      BY <1>0, <1>4, <2>2 DEF KindFacts
    <2> QED
      BY <1>2, <1>7, <2>1, <2>2, <2>3
  <1>12. ASSUME NEW q \in Rows \ Stored', label'[q] # None
         PROVE  q \in strayed' \/ \E j \in Tasks : pc'[j] = "deleteClient" /\ client'[j] = q
    <2>1. CASE label[q] = None
      BY <1>0, <1>1, <1>3, <1>12, <2>1 DEF MayLabel, TablesTypeOK
    <2>2. CASE label[q] # None
      <3>1. q \in strayed \/ \E j \in Tasks : pc[j] = "deleteClient" /\ client[j] = q
        BY <1>0, <2>2 DEF ClientsMatchRealms
      <3> QED
        BY <3>1 DEF Moves, Unmoved
    <2> QED
      BY <2>1, <2>2
  <1>13. Present(r, kind)'
    <2>1. CASE kind = "system"
      BY <1>1, <1>3, <1>5, <2>1 DEF Present, TablesTypeOK
    <2>2. CASE kind \in Kinds
      BY <1>0, <1>1, <1>2, <2>2 DEF Present, TablesTypeOK, KindFacts
    <2> QED
      BY <2>1, <2>2
  <1>14. kind \in OfClient => rows'[r][kind] = 1
    BY <1>0, <1>2, <1>4 DEF KindFacts
  <1>15. kind = "system" => label'[r] = n
    BY <1>1, <1>3 DEF TablesTypeOK
  <1> QED
    BY <1>2, <1>3, <1>6, <1>8, <1>9, <1>10, <1>11, <1>12, <1>13, <1>14, <1>15

(* The insertions that follow a realm's.                                   *)
LEMMA StepMake ==
    ASSUME RealmsInv, NEW i \in Tasks, Make(i) PROVE RealmsInv'
  <1>1. PICK r \in Named(Master), k \in 1 .. 6 : r = row[i] /\ k = at[i]
    BY Orders DEF Make, RealmsInv, TaskOK, HeldTypeOK
  <1>2. pc[i] = "make" /\ r \in Rows /\ name[r] = Master /\ UNCHANGED <<name, born, history>>
    BY <1>1 DEF Make, Named
  <1>3. CASE Accepted(row[i], Master, BootOrder[at[i]])
    <2>1. /\ Insert(r, Master, BootOrder[k]) /\ Accepted(r, Master, BootOrder[k]) /\ Advance(i)
          /\ BootOrder[k] \in Kinds \union {"system"}
      BY <1>1, <1>3, Orders DEF Make
    <2>2. Moves(i)
      <3>1. /\ LocalsTypeOK /\ {"look", "list"} \subseteq Steps
            /\ r \in Rows \union {None}
        BY <1>2 DEF RealmsInv, Steps, StartSteps, RequestSteps
      <3>2. CASE Goto(i, "look") /\ Hold(i, k + 1, r, None, None, {})
        <4>1. PICK m \in Nat : m = k + 1
          OBVIOUS
        <4>2. Goto(i, "look") /\ Hold(i, m, r, None, None, {})
          BY <3>2, <4>1
        <4> QED
          BY <3>1, <4>2, Held, {} \in SUBSET Rows
      <3>3. CASE Leave(i, "list")
        BY <3>1, <3>3, Left
      <3> QED
        BY <1>1, <2>1, <3>2, <3>3 DEF Advance
    <2>3. BootOrder[k] = "system" => MayLabel(i, r, Master)
      <3> SUFFICES ASSUME BootOrder[k] = "system" PROVE MayLabel(i, r, Master)
        OBVIOUS
      <3>1. r \in Stored /\ r \in born /\ Master \in Names
        BY <1>2, NamesAssumption DEF RealmsInv, TablesTypeOK, Stored
      <3>2. label[r] = None
        BY <1>2, <2>1, Orders DEF Accepted, Labelled, RealmsInv, LabelsOK, OfClient, Unconstrained
      <3>3. \A j \in Tasks : pc[j] = "create" => name[row[j]] # Master
        BY DEF RealmsInv, TaskOK, BootOK
      <3> QED
        BY <1>2, <3>1, <3>2, <3>3 DEF MayLabel
    <2>4. UNCHANGED <<name, born, renamed, strayed, made>> /\ Master \in Names \union {None}
      BY <1>2, NamesAssumption DEF history
    <2>5. /\ TablesTypeOK' /\ Keeps /\ KeepsBegun(i) /\ LabelsOK'
          /\ \A q \in made \ renamed : label'[q] = name[q] /\ \A m \in OfClient : rows'[q][m] = 1
          /\ \A q \in Rows \ Stored' : label'[q] # None =>
                q \in strayed' \/ \E j \in Tasks : pc'[j] = "deleteClient" /\ client'[j] = q
          /\ Present(r, BootOrder[k])'
      BY <1>2, <2>1, <2>2, <2>3, <2>4, Inserted
    <2>6. HistoryTypeOK' /\ ClientsMatchRealms'
      BY <2>4, <2>5 DEF RealmsInv, HistoryTypeOK, Stored, ClientsMatchRealms
    <2>7. TaskOK(i)' /\ \A j \in Tasks : PairOK(i, j)' /\ PairOK(j, i)'
      BY <1>1, <1>2, <2>1, <2>5, AdvanceIsOK
    <2> QED
      BY <2>2, <2>5, <2>6, <2>7, Combine
  <1>4. CASE ~ Accepted(row[i], Master, BootOrder[at[i]])
    <2>1. Stop(i) /\ UNCHANGED <<rows, label>>
      BY <1>4 DEF Make
    <2>2. Moves(i) /\ pc'[i] = "off"
      BY <2>1, Left DEF Stop, RealmsInv, Steps, StartSteps, RequestSteps
    <2>3. UNCHANGED <<tables, made, renamed>> /\ strayed' = strayed \union Broken(i)
      BY <1>2, <2>1 DEF history, tables, Broken
    <2> QED
      BY <2>2, <2>3, Quiet, RestingIsOK, Combine DEF Resting, Booting
  <1> QED
    BY <1>3, <1>4

(* A row for another realm, and the process goes on whether it was refused *)
(* or not.                                                                 *)
LEMMA InsertedOrNot ==
    ASSUME RealmsInv, NEW i \in Tasks, Moves(i), pc[i] \in {"console", "sign"},
           pc'[i] \in {"fill", "off"},
           NEW r \in Rows, NEW kind \in Kinds,
           \/ Accepted(r, None, kind) /\ Insert(r, None, kind)
           \/ UNCHANGED <<rows, label>>,
           UNCHANGED <<name, born, history>>
    PROVE  RealmsInv'
  <1>1. UNCHANGED <<name, born, made, renamed, strayed>>
    BY DEF history
  <1>2. MasterIsComplete
    BY DEF RealmsInv, TaskOK, BootOK, Booting
  <1>3. CASE Accepted(r, None, kind) /\ Insert(r, None, kind)
    <2>1. /\ TablesTypeOK' /\ Keeps /\ KeepsBegun(i) /\ LabelsOK'
          /\ \A q \in made \ renamed : label'[q] = name[q] /\ \A m \in OfClient : rows'[q][m] = 1
          /\ \A q \in Rows \ Stored' : label'[q] # None =>
                q \in strayed' \/ \E j \in Tasks : pc'[j] = "deleteClient" /\ client'[j] = q
      <3>1. kind # "system" /\ kind \in Kinds \union {"system"} /\ None \in Names \union {None}
        BY Orders DEF KindFacts
      <3>2. pc[i] # "deleteClient" /\ UNCHANGED <<name, born, renamed, strayed>>
        BY <1>1
      <3> QED
        BY <1>3, <3>1, <3>2, Inserted
    <2>2. HistoryTypeOK' /\ ClientsMatchRealms'
      BY <1>1, <2>1 DEF RealmsInv, HistoryTypeOK, Stored, ClientsMatchRealms
    <2>3. MasterIsComplete'
      BY <1>2, <2>1, MasterStaysComplete DEF RealmsInv
    <2> QED
      BY <2>1, <2>2, <2>3, RestingIsOK, Combine DEF Resting
  <1>4. CASE UNCHANGED <<rows, label>>
    <2>1. UNCHANGED <<tables, made, renamed>> /\ strayed' = strayed \union Broken(i)
      BY <1>1, <1>4 DEF tables, Broken
    <2>2. MasterIsComplete'
      BY <1>2, <2>1, Quiet, MasterStaysComplete DEF RealmsInv
    <2> QED
      BY <2>1, <2>2, Quiet, RestingIsOK, Combine DEF Resting
  <1> QED
    BY <1>3, <1>4

(* The insertion of a console client that was not found.                   *)
LEMMA StepFillConsole ==
    ASSUME RealmsInv, NEW i \in Tasks, FillConsole(i) PROVE RealmsInv'
  <1>1. PICK r \in Rows : r = row[i]
    BY DEF FillConsole, RealmsInv, TaskOK, HeldTypeOK
  <1>2. Moves(i) /\ pc'[i] = "fill"
    <2>1. PICK rs \in SUBSET Rows : rs = todo[i]
      BY DEF RealmsInv, LocalsTypeOK
    <2>2. Goto(i, "fill") /\ Hold(i, 0, None, None, None, rs) /\ LocalsTypeOK
      BY <2>1 DEF FillConsole, RealmsInv
    <2> QED
      BY <2>2, Held DEF Steps, StartSteps, RequestSteps
  <1>3. /\ pc[i] = "console" /\ UNCHANGED <<name, born, history>>
        /\ \/ Accepted(r, None, "console") /\ Insert(r, None, "console")
           \/ UNCHANGED <<rows, label>>
    BY <1>1 DEF FillConsole
  <1> QED
    BY <1>2, <1>3, InsertedOrNot DEF Kinds

(* The insertion of a signing key that was not found.                      *)
LEMMA StepGenerateKey ==
    ASSUME RealmsInv, NEW i \in Tasks, GenerateKey(i) PROVE RealmsInv'
  <1>1. PICK r \in Rows : r = row[i]
    BY DEF GenerateKey, RealmsInv, TaskOK, HeldTypeOK
  <1>2. Moves(i) /\ pc'[i] = "off"
    BY Left DEF GenerateKey, Stop, RealmsInv, Steps, StartSteps, RequestSteps
  <1>3. /\ pc[i] = "sign" /\ UNCHANGED <<name, born, history>>
        /\ \/ Accepted(r, None, "key") /\ Insert(r, None, "key")
           \/ UNCHANGED <<rows, label>>
    BY <1>1 DEF GenerateKey
  <1> QED
    BY <1>2, <1>3, InsertedOrNot DEF Kinds

(* The creation of a realm, statement by statement.                        *)
LEMMA StepComplete ==
    ASSUME RealmsInv, NEW i \in Tasks, Complete(i) PROVE RealmsInv'
  <1> USE DEF RealmsInv
  <1>1. PICK r \in Rows, n \in Names, k \in 1 .. 6 : r = row[i] /\ n = wanted[i] /\ k = at[i]
    BY Orders DEF Complete, TaskOK, HeldTypeOK
  <1>2. /\ pc[i] = "create" /\ UNCHANGED <<name, born, renamed, strayed>>
        /\ n # None /\ CreateOrder[k] \in Kinds \union {"system"}
    BY Orders, NamesAssumption DEF Complete
  <1>3. /\ r \in born /\ name[r] # Master
        /\ k <= 2 => label[r] = None /\ r \in Stored \union strayed
        /\ r \in Stored \ renamed =>
              /\ name[r] = n
              /\ k > 2 => label[r] = n
              /\ k > 3 => rows[r]["role"] = 1
              /\ k > 4 => rows[r]["grant"] = 1
    BY <1>1, <1>2 DEF TaskOK, BootOK, CreateOK
  <1>4. MasterIsComplete
    BY <1>2 DEF TaskOK, BootOK, Booting
  <1>5. CASE ~ Accepted(r, n, CreateOrder[k])
    <2>1. Stop(i) /\ UNCHANGED <<rows, label, made>>
      BY <1>1, <1>5 DEF Complete
    <2>2. Moves(i) /\ pc'[i] = "off"
      BY <2>1, Left DEF Stop, Steps, StartSteps, RequestSteps
    <2>3. UNCHANGED <<tables, made, renamed>> /\ strayed' = strayed \union Broken(i)
      BY <1>2, <2>1 DEF tables, Broken
    <2>4. MasterIsComplete'
      BY <1>4, <2>2, <2>3, Quiet, MasterStaysComplete
    <2> QED
      BY <2>2, <2>3, <2>4, Quiet, RestingIsOK, Combine DEF Resting
  <1>6. CASE Accepted(r, n, CreateOrder[k])
    <2>1. /\ Insert(r, n, CreateOrder[k])
          /\ k < 6 => /\ Goto(i, "create") /\ Hold(i, k + 1, r, None, n, {})
                      /\ UNCHANGED made
          /\ k = 6 => Stop(i) /\ made' = made \union {r}
      BY <1>1, <1>6, Orders DEF Complete
    <2>2. /\ Moves(i)
          /\ k < 6 => pc'[i] = "create" /\ at'[i] = k + 1 /\ row'[i] = r /\ wanted'[i] = n
          /\ k = 6 => pc'[i] = "off"
      <3>1. CASE k < 6
        <4>1. PICK m \in Nat : m = k + 1
          OBVIOUS
        <4>2. Goto(i, "create") /\ Hold(i, m, r, None, n, {}) /\ LocalsTypeOK
          BY <2>1, <3>1, <4>1
        <4>3. /\ Moves(i)
              /\ pc'[i] = "create" /\ at'[i] = m /\ row'[i] = r /\ wanted'[i] = n
          <5>1. /\ "create" \in Steps /\ r \in Rows \union {None} /\ None \in Rows \union {None}
                /\ n \in Names \union {None} /\ {} \in SUBSET Rows
            BY DEF Steps, StartSteps, RequestSteps
          <5> HIDE DEF RealmsInv
          <5> QED
            BY <4>2, <5>1, Held, Zenon
        <4> QED
          BY <3>1, <4>1, <4>3
      <3>2. CASE k = 6
        BY <2>1, <3>2, Left DEF Stop, Steps, StartSteps, RequestSteps
      <3> QED
        BY <3>1, <3>2
    <2>3. CreateOrder[k] = "system" => k = 2
      BY Orders
    <2>4. CreateOrder[k] = "system" => MayLabel(i, r, n)
      <3>1. \A j \in Tasks \ {i} : pc[j] = "create" => row[j] # r
        BY <1>1, <1>2 DEF PairOK
      <3> QED
        BY <1>3, <2>3, <3>1 DEF MayLabel
    <2>5. /\ TablesTypeOK' /\ Keeps /\ KeepsBegun(i) /\ LabelsOK'
          /\ \A q \in made \ renamed : label'[q] = name[q] /\ \A m \in OfClient : rows'[q][m] = 1
          /\ \A q \in Rows \ Stored' : label'[q] # None =>
                q \in strayed' \/ \E j \in Tasks : pc'[j] = "deleteClient" /\ client'[j] = q
          /\ CreateOrder[k] \in OfClient => rows'[r][CreateOrder[k]] = 1
          /\ \A q \in Rows, m \in Kinds : q # r \/ m # CreateOrder[k] => rows'[q][m] = rows[q][m]
          /\ CreateOrder[k] = "system" => label'[r] = n
          /\ CreateOrder[k] # "system" => label' = label
      <3>1. pc[i] # "deleteClient" /\ n \in Names \union {None}
        BY <1>2
      <3> QED
        BY <1>2, <1>6, <2>1, <2>2, <2>4, <3>1, Inserted
    <2>6. Stored' = Stored /\ MasterIsComplete'
      BY <1>2, <1>4, <2>5, MasterStaysComplete DEF Stored
    <2>7. {"role", "grant"} \subseteq Kinds /\ {"role", "grant"} = OfClient
      BY DEF Kinds, OfClient
    <2>8. ASSUME r \in Stored \ renamed
          PROVE  /\ k + 1 > 2 => label'[r] = n
                 /\ k + 1 > 3 => rows'[r]["role"] = 1
                 /\ k + 1 > 4 => rows'[r]["grant"] = 1
      <3>1. k + 1 > 2 => label'[r] = n
        BY <1>3, <2>3, <2>5, <2>8, Orders
      <3>2. k + 1 > 3 => rows'[r]["role"] = 1
        <4>1. CASE k = 3
          BY <2>5, <2>7, <4>1, Orders
        <4>2. CASE k > 3
          BY <1>3, <2>5, <2>7, <2>8, <4>2, Orders
        <4> QED
          BY <4>1, <4>2
      <3>3. k + 1 > 4 => rows'[r]["grant"] = 1
        <4>1. CASE k = 4
          BY <2>5, <2>7, <4>1, Orders
        <4>2. CASE k > 4
          BY <1>3, <2>5, <2>7, <2>8, <4>2, Orders
        <4> QED
          BY <4>1, <4>2
      <3> QED
        BY <3>1, <3>2, <3>3
    <2>9. CASE k < 6
      <3>1. HistoryTypeOK' /\ ClientsMatchRealms'
        BY <1>2, <2>1, <2>5, <2>9 DEF HistoryTypeOK, Stored, ClientsMatchRealms
      <3>2. HeldTypeOK(i)' /\ BootOK(i)' /\ DeleteOK(i)'
        BY <1>2, <1>3, <2>2, <2>6, <2>9, Orders DEF HeldTypeOK, BootOK, DeleteOK, Deleting
      <3>3. CreateOK(i)'
        <4>1. k + 1 <= 2 => label'[r] = None /\ r \in Stored' \union strayed'
          BY <1>2, <1>3, <2>3, <2>5, <2>6
        <4>2. r \in Stored' \ renamed' =>
                /\ name'[r] = n
                /\ k + 1 > 2 => label'[r] = n
                /\ k + 1 > 3 => rows'[r]["role"] = 1
                /\ k + 1 > 4 => rows'[r]["grant"] = 1
          BY <1>2, <1>3, <2>6, <2>8
        <4> QED
          BY <2>2, <2>9, <4>1, <4>2 DEF CreateOK
      <3>4. ASSUME NEW j \in Tasks PROVE PairOK(i, j)' /\ PairOK(j, i)'
        <4>1. j # i => PairOK(i, j) /\ PairOK(j, i) /\ Unmoved(j)
          BY <2>2 DEF Moves
        <4> QED
          BY <1>1, <1>2, <2>2, <2>9, <4>1 DEF PairOK, Unmoved, Deleting
      <3> QED
        BY <2>2, <2>5, <3>1, <3>2, <3>3, <3>4, Combine DEF TaskOK
    <2>10. CASE k = 6
      <3>1. r \in Stored
        BY <1>6, <2>10, Orders DEF Accepted, OfClient, Unconstrained
      <3>2. HistoryTypeOK'
        BY <1>2, <2>1, <2>6, <2>10, <3>1 DEF HistoryTypeOK
      <3>3. r \notin renamed => label'[r] = name[r] /\ \A m \in OfClient : rows'[r][m] = 1
        BY <1>3, <2>7, <2>8, <2>10, <3>1
      <3>4. ClientsMatchRealms'
        BY <1>2, <2>1, <2>5, <2>10, <3>3 DEF ClientsMatchRealms
      <3> QED
        BY <2>2, <2>5, <2>6, <2>10, <3>2, <3>4, RestingIsOK, Combine DEF Resting
    <2> QED
      BY <2>9, <2>10
  <1> QED
    BY <1>5, <1>6

-----------------------------------------------------------------------------
(* Renaming a realm takes it out of what is said of its client.            *)
LEMMA StepRename ==
    ASSUME RealmsInv, NEW i \in Tasks, Rename(i) PROVE RealmsInv'
  <1> USE NamesAssumption DEF RealmsInv
  <1>1. PICK r \in Rows, n \in Names \ {Master} : r = row[i] /\ n = wanted[i]
    BY DEF Rename, TaskOK, HeldTypeOK
  <1>2. /\ pc[i] = "rename" /\ UNCHANGED <<born, rows, label, made, strayed>>
        /\ r \in born /\ name[r] # Master /\ MasterIsComplete
    BY <1>1 DEF Rename, TaskOK, BootOK, Booting
  <1>3. Moves(i) /\ pc'[i] = "off"
    BY Left DEF Rename, Stop, Steps, StartSteps, RequestSteps
  <1>4. CASE r \in Stored /\ Named(n) \subseteq {r}
    <2>1. name' = [name EXCEPT ![r] = n] /\ renamed' = renamed \union {r}
      BY <1>1, <1>4 DEF Rename
    <2>2. /\ name' \in [Rows -> Names \union {None}] /\ name'[r] = n
          /\ \A q \in Rows : q # r => name'[q] = name[q]
      BY <2>1 DEF TablesTypeOK
    <2>3. Stored' = Stored
      BY <1>4, <2>2 DEF Stored
    <2>4. TablesTypeOK'
      <3>1. \A q, s \in Stored' : name'[q] = name'[s] => q = s
        BY <1>4, <2>2, <2>3 DEF TablesTypeOK, Stored, Named
      <3> QED
        BY <1>2, <2>2, <2>3, <3>1 DEF TablesTypeOK
    <2>5. HistoryTypeOK'
      BY <1>2, <1>4, <2>1, <2>3 DEF HistoryTypeOK
    <2>6. Keeps
      <3>1. rows \in [Rows -> [Kinds -> Nat]] /\ born \subseteq Rows /\ OfClient \subseteq Kinds
        BY Orders DEF TablesTypeOK, KindFacts
      <3> QED
        BY <1>2, <2>1, <2>2, <2>3, <3>1 DEF Keeps, Named
    <2>7. KeepsBegun(i)
      BY <1>2, <2>3 DEF KeepsBegun, TaskOK, CreateOK
    <2>8. LabelsOK'
      BY <1>2, <2>1, <2>2, <2>3 DEF LabelsOK
    <2>9. ClientsMatchRealms'
      <3>1. \A q \in made' \ renamed' : label'[q] = name'[q] /\ \A k \in OfClient : rows'[q][k] = 1
        BY <1>2, <2>1, <2>2 DEF ClientsMatchRealms, HistoryTypeOK, Stored
      <3>2. ASSUME NEW q \in Rows \ Stored', label'[q] # None
            PROVE  q \in strayed' \/ \E j \in Tasks : pc'[j] = "deleteClient" /\ client'[j] = q
        <4>1. q \in strayed \/ \E j \in Tasks : pc[j] = "deleteClient" /\ client[j] = q
          BY <1>2, <2>3, <3>2 DEF ClientsMatchRealms
        <4> QED
          BY <1>2, <1>3, <4>1 DEF Moves, Unmoved
      <3> QED
        BY <3>1, <3>2 DEF ClientsMatchRealms
    <2>10. MasterIsComplete'
      BY <1>2, <2>4, <2>6, MasterStaysComplete
    <2> QED
      BY <1>3, <2>4, <2>5, <2>6, <2>7, <2>8, <2>9, <2>10, RestingIsOK, Combine DEF Resting
  <1>5. CASE ~ (r \in Stored /\ Named(n) \subseteq {r})
    <2>1. UNCHANGED <<tables, made, renamed>> /\ strayed' = strayed \union Broken(i)
      BY <1>1, <1>2, <1>5 DEF Rename, tables, Broken
    <2>2. MasterIsComplete'
      BY <1>2, <1>3, <2>1, Quiet, MasterStaysComplete
    <2> QED
      BY <1>3, <2>1, <2>2, Quiet, RestingIsOK, Combine DEF Resting
  <1> QED
    BY <1>4, <1>5

-----------------------------------------------------------------------------
(* Deletion: the realm that has the name, then the client that was read.   *)
LEMMA StepDeleteRow ==
    ASSUME RealmsInv, NEW i \in Tasks, DeleteRow(i) PROVE RealmsInv'
  <1> USE NamesAssumption DEF RealmsInv
  <1>1. PICK c \in Rows, n \in Names \ {Master} : c = client[i] /\ n = wanted[i]
    BY DEF DeleteRow, TaskOK, HeldTypeOK
  <1>2. /\ pc[i] = "delete" /\ UNCHANGED <<born, label>>
        /\ c \in born /\ name[c] # Master /\ MasterIsComplete
        /\ c \in Stored \ renamed => label[c] = n
    BY <1>1 DEF DeleteRow, TaskOK, BootOK, DeleteOK, Booting, Deleting
  <1>3. CASE Stop(i) /\ UNCHANGED <<name, rows, history>>
    <2>1. Moves(i) /\ pc'[i] = "off"
      BY <1>3, Left DEF Stop, Steps, StartSteps, RequestSteps
    <2>2. UNCHANGED <<tables, made, renamed>> /\ strayed' = strayed \union Broken(i)
      BY <1>2, <1>3 DEF tables, history, Broken
    <2>3. MasterIsComplete'
      BY <1>2, <2>1, <2>2, Quiet, MasterStaysComplete
    <2> QED
      BY <2>1, <2>2, <2>3, Quiet, RestingIsOK, Combine DEF Resting
  <1>4. ASSUME NEW r \in Rows, name[r] = n,
               name' = [name EXCEPT ![r] = None],
               rows' = [rows EXCEPT ![r] = [k \in Kinds |-> IF k \in OfClient THEN @[k] ELSE 0]],
               made' = made \ {r}, renamed' = renamed \ {r},
               strayed' = IF r # c THEN strayed \union {r} ELSE strayed,
               Goto(i, "deleteClient"), Hold(i, 0, None, c, None, {})
        PROVE  RealmsInv'
    <2>1. Moves(i) /\ pc'[i] = "deleteClient" /\ client'[i] = c
      BY <1>4, Held DEF Steps, StartSteps, RequestSteps
    <2>2. /\ r \in Stored /\ r \in born
          /\ name' \in [Rows -> Names \union {None}] /\ name'[r] = None
          /\ \A q \in Rows : q # r => name'[q] = name[q]
      BY <1>4 DEF TablesTypeOK, Stored
    <2>3. Stored' = Stored \ {r}
      BY <2>2 DEF Stored
    <2>4. /\ rows' \in [Rows -> [Kinds -> Nat]]
          /\ \A q \in Rows : q # r => rows'[q] = rows[q]
          /\ \A k \in Kinds : rows'[r][k] = IF k \in OfClient THEN rows[r][k] ELSE 0
      <3>1. rows \in [Rows -> [Kinds -> Nat]]
        BY DEF TablesTypeOK
      <3>2. PICK f : f = [k \in Kinds |-> IF k \in OfClient THEN rows[r][k] ELSE 0]
        OBVIOUS
      <3>3. f \in [Kinds -> Nat]
        BY <3>1, <3>2
      <3>4. rows' = [rows EXCEPT ![r] = f]
        BY <1>4, <3>2
      <3>5. rows' \in [Rows -> [Kinds -> Nat]] /\ rows'[r] = f
        BY <3>1, <3>3, <3>4
      <3>6. \A q \in Rows : q # r => rows'[q] = rows[q]
        BY <3>1, <3>4
      <3>7. \A k \in Kinds : f[k] = IF k \in OfClient THEN rows[r][k] ELSE 0
        BY <3>2
      <3> QED
        BY <3>5, <3>6, <3>7
    <2>5. TablesTypeOK'
      <3>1. \A q, s \in Stored' : name'[q] = name'[s] => q = s
        BY <2>2, <2>3 DEF TablesTypeOK
      <3>2. ASSUME NEW q \in Rows, NEW k \in Kinds \ Unconstrained PROVE rows'[q][k] <= 1
        <4>1. rows[q][k] <= 1
          BY DEF TablesTypeOK
        <4>2. rows'[q][k] = rows[q][k] \/ rows'[q][k] = 0
          BY <2>4
        <4> QED
          BY <4>1, <4>2
      <3>3. \A q \in Rows \ Stored', k \in Kinds \ OfClient : rows'[q][k] = 0
        BY <2>3, <2>4 DEF TablesTypeOK
      <3>4. \A q \in Rows, k \in OfClient : rows'[q][k] > 0 => label'[q] # None
        BY <1>2, <2>4, Orders DEF TablesTypeOK, KindFacts
      <3> QED
        BY <1>2, <2>2, <2>3, <2>4, <3>1, <3>2, <3>3, <3>4 DEF TablesTypeOK
    <2>6. HistoryTypeOK'
      BY <1>2, <1>4, <2>2, <2>3 DEF HistoryTypeOK
    <2>7. Keeps
      <3>1. /\ rows \in [Rows -> [Kinds -> Nat]] /\ born \subseteq Rows /\ KindFacts
            /\ r \notin Named(Master)
        BY <1>4, Orders DEF TablesTypeOK, Named
      <3>2. \A q \in Named(Master) :
              /\ name'[q] = Master
              /\ \A k \in Kinds : rows'[q][k] >= rows[q][k]
              /\ label[q] # None => label'[q] # None
        BY <1>2, <2>2, <2>4, <3>1 DEF Named
      <3>3. \A q \in born : q \in Stored' \ renamed' =>
              /\ q \in Stored \ renamed
              /\ name'[q] = name[q]
              /\ label[q] # None => label'[q] = label[q]
              /\ \A k \in OfClient : rows'[q][k] >= rows[q][k]
        BY <1>2, <1>4, <2>2, <2>3, <2>4, <3>1 DEF KindFacts
      <3>4. \A q \in born : name[q] # Master => name'[q] # Master
        BY <2>2, <3>1
      <3> QED
        BY <1>2, <3>2, <3>3, <3>4 DEF Keeps
    <2>8. KeepsBegun(i)
      <3> SUFFICES ASSUME NEW j \in Tasks \ {i}, pc[j] = "create", at[j] <= 2
                   PROVE  label'[row[j]] = None /\ row[j] \in (Stored \union strayed)'
        BY DEF KeepsBegun
      <3>1. label[row[j]] = None /\ row[j] \in Stored \union strayed
        BY DEF TaskOK, CreateOK
      <3>2. row[j] = r => r # c
        <4>1. PairOK(j, i) /\ at[j] \in Nat
          BY DEF LocalsTypeOK
        <4> QED
          BY <1>1, <1>2, <4>1 DEF PairOK, Deleting
      <3> QED
        BY <1>2, <1>4, <2>3, <3>1, <3>2
    <2>9. LabelsOK'
      BY <1>2, <1>4, <2>2, <2>3 DEF LabelsOK
    <2>10. ClientsMatchRealms'
      <3>1. \A q \in made' \ renamed' : label'[q] = name'[q] /\ \A k \in OfClient : rows'[q][k] = 1
        <4>1. \A q \in made' \ renamed' : q \in made \ renamed /\ q # r /\ q \in Rows
          BY <1>4 DEF HistoryTypeOK, Stored
        <4> QED
          BY <1>2, <2>2, <2>4, <4>1 DEF ClientsMatchRealms
      <3>2. ASSUME NEW q \in Rows \ Stored', label'[q] # None
            PROVE  q \in strayed' \/ \E j \in Tasks : pc'[j] = "deleteClient" /\ client'[j] = q
        <4>1. CASE q = r
          BY <1>4, <2>1, <4>1
        <4>2. CASE q # r
          <5>1. q \in strayed \/ \E j \in Tasks : pc[j] = "deleteClient" /\ client[j] = q
            BY <1>2, <2>3, <3>2, <4>2 DEF ClientsMatchRealms
          <5>2. strayed \subseteq strayed'
            BY <1>4
          <5> QED
            BY <1>2, <2>1, <5>1, <5>2 DEF Moves, Unmoved
        <4> QED
          BY <4>1, <4>2
      <3> QED
        BY <3>1, <3>2 DEF ClientsMatchRealms
    <2>11. MasterIsComplete'
      BY <1>2, <2>5, <2>7, MasterStaysComplete
    <2>12. c \notin Stored' \ renamed'
      <3>1. SUFFICES ASSUME c \in Stored \ renamed, c # r PROVE FALSE
        BY <1>4, <2>3
      <3>2. label[c] = n /\ label[c] = name[c]
        BY <1>1, <1>2, <3>1 DEF LabelsOK
      <3> QED
        BY <1>4, <2>2, <3>1, <3>2 DEF TablesTypeOK
    <2>13. name'[c] # Master
      BY <1>2, <2>2
    <2>14. TaskOK(i)'
      BY <1>2, <2>1, <2>11, <2>12, <2>13
      DEF TaskOK, HeldTypeOK, BootOK, CreateOK, DeleteOK, Deleting
    <2>15. ASSUME NEW j \in Tasks PROVE PairOK(i, j)' /\ PairOK(j, i)'
      <3>1. PairOK(j, i) /\ (j # i => Unmoved(j))
        BY <2>1 DEF Moves
      <3> QED
        BY <1>1, <1>2, <2>1, <3>1 DEF PairOK, Unmoved, Deleting
    <2> QED
      BY <2>1, <2>5, <2>6, <2>7, <2>8, <2>9, <2>10, <2>14, <2>15, Combine
  <1> QED
    BY <1>1, <1>2, <1>3, <1>4 DEF DeleteRow, Named

(* The deletion of the client named after a deleted realm.                 *)
LEMMA StepDeleteClient ==
    ASSUME RealmsInv, NEW i \in Tasks, DeleteClient(i) PROVE RealmsInv'
  <1> USE NamesAssumption DEF RealmsInv
  <1>1. PICK c \in Rows : c = client[i]
    BY DEF DeleteClient, TaskOK, HeldTypeOK
  <1>2. /\ pc[i] = "deleteClient" /\ UNCHANGED <<name, born, made, renamed>>
        /\ c \in born /\ name[c] # Master /\ MasterIsComplete
        /\ c \notin Stored \ renamed
        /\ strayed' = strayed \ {c}
    BY <1>1 DEF DeleteClient, TaskOK, BootOK, DeleteOK, Booting, Deleting
  <1>3. Moves(i) /\ pc'[i] = "off"
    BY Left DEF DeleteClient, Stop, Steps, StartSteps, RequestSteps
  <1>4. Stored' = Stored
    BY <1>2 DEF Stored
  <1>5. /\ label' \in [Rows -> Names \union {None}] /\ label'[c] = None
        /\ \A q \in Rows : q # c => label'[q] = label[q]
    BY <1>1 DEF DeleteClient, DropClient, TablesTypeOK
  <1>6. /\ rows' \in [Rows -> [Kinds -> Nat]]
        /\ \A q \in Rows : q # c => rows'[q] = rows[q]
        /\ \A k \in Kinds : rows'[c][k] = IF k \in OfClient THEN 0 ELSE rows[c][k]
    <2>1. rows \in [Rows -> [Kinds -> Nat]]
      BY DEF TablesTypeOK
    <2>2. PICK f : f = [k \in Kinds |-> IF k \in OfClient THEN 0 ELSE rows[c][k]]
      OBVIOUS
    <2>3. f \in [Kinds -> Nat]
      BY <2>1, <2>2
    <2>4. rows' = [rows EXCEPT ![c] = f]
      BY <1>1, <2>2 DEF DeleteClient, DropClient
    <2> QED
      BY <2>1, <2>2, <2>3, <2>4
  <1>7. TablesTypeOK'
    <2>1. \A q \in Rows, k \in Kinds \ Unconstrained : rows'[q][k] <= 1
      BY <1>6 DEF TablesTypeOK
    <2>2. \A q \in Rows \ Stored', k \in Kinds \ OfClient : rows'[q][k] = 0
      BY <1>4, <1>6 DEF TablesTypeOK
    <2>3. ASSUME NEW q \in Rows, NEW k \in OfClient, rows'[q][k] > 0 PROVE label'[q] # None
      <3>1. k \in Kinds
        BY Orders DEF KindFacts
      <3>2. q # c
        BY <1>6, <2>3, <3>1
      <3>3. rows[q][k] > 0 => label[q] # None
        BY DEF TablesTypeOK
      <3> QED
        BY <1>5, <1>6, <2>3, <3>2, <3>3
    <2>4. \A q, s \in Rows : label'[q] = label'[s] /\ label'[q] # None => q = s
      BY <1>5 DEF TablesTypeOK
    <2>5. /\ name \in [Rows -> Names \union {None}]
          /\ \A q, s \in Stored : name[q] = name[s] => q = s
          /\ born \in SUBSET Rows /\ Stored \subseteq born
      BY DEF TablesTypeOK
    <2> QED
      BY <1>2, <1>4, <1>5, <1>6, <2>1, <2>2, <2>3, <2>4, <2>5 DEF TablesTypeOK
  <1>8. HistoryTypeOK'
    BY <1>2, <1>4 DEF HistoryTypeOK
  <1>9. Keeps
    <2>1. /\ rows \in [Rows -> [Kinds -> Nat]] /\ born \subseteq Rows /\ KindFacts
          /\ c \notin Named(Master)
      BY <1>2, Orders DEF TablesTypeOK, Named
    <2>2. \A q \in Named(Master) :
            /\ name'[q] = Master
            /\ \A k \in Kinds : rows'[q][k] >= rows[q][k]
            /\ label[q] # None => label'[q] # None
      BY <1>2, <1>5, <1>6, <2>1 DEF Named
    <2>3. \A q \in born : q \in Stored' \ renamed' =>
            /\ q \in Stored \ renamed
            /\ name'[q] = name[q]
            /\ label[q] # None => label'[q] = label[q]
            /\ \A k \in OfClient : rows'[q][k] >= rows[q][k]
      BY <1>2, <1>4, <1>5, <1>6, <2>1 DEF KindFacts
    <2> QED
      BY <1>2, <2>2, <2>3 DEF Keeps
  <1>10. KeepsBegun(i)
    <2> SUFFICES ASSUME NEW j \in Tasks \ {i}, pc[j] = "create", at[j] <= 2
                 PROVE  label'[row[j]] = None /\ row[j] \in (Stored \union strayed)'
      BY DEF KeepsBegun
    <2>1. label[row[j]] = None /\ row[j] \in Stored \union strayed /\ row[j] \in Rows
      BY DEF TaskOK, CreateOK, HeldTypeOK
    <2>2. row[j] # c
      <3>1. PairOK(j, i) /\ at[j] \in Nat
        BY DEF LocalsTypeOK
      <3> QED
        BY <1>1, <1>2, <3>1 DEF PairOK, Deleting
    <2> QED
      BY <1>2, <1>4, <1>5, <2>1, <2>2
  <1>11. LabelsOK'
    BY <1>2, <1>4, <1>5 DEF LabelsOK
  <1>12. ClientsMatchRealms'
    <2>1. \A q \in made' \ renamed' : label'[q] = name'[q] /\ \A k \in OfClient : rows'[q][k] = 1
      <3>1. \A q \in made' \ renamed' : q \in made \ renamed /\ q # c /\ q \in Rows
        BY <1>2 DEF HistoryTypeOK, Stored
      <3> QED
        BY <1>2, <1>5, <1>6, <3>1 DEF ClientsMatchRealms
    <2>2. ASSUME NEW q \in Rows \ Stored', label'[q] # None
          PROVE  q \in strayed' \/ \E j \in Tasks : pc'[j] = "deleteClient" /\ client'[j] = q
      <3>1. q # c /\ label[q] # None
        BY <1>5, <2>2
      <3>2. q \in strayed \/ \E j \in Tasks : pc[j] = "deleteClient" /\ client[j] = q
        BY <1>4, <2>2, <3>1 DEF ClientsMatchRealms
      <3> QED
        BY <1>1, <1>2, <1>3, <3>1, <3>2 DEF Moves, Unmoved
    <2> QED
      BY <2>1, <2>2 DEF ClientsMatchRealms
  <1>13. MasterIsComplete'
    BY <1>2, <1>7, <1>9, MasterStaysComplete
  <1> QED
    BY <1>3, <1>7, <1>8, <1>9, <1>10, <1>11, <1>12, <1>13, RestingIsOK, Combine DEF Resting

(* Empty tables and tasks that are not under way.                          *)
LEMMA RealmsInitially == RealmsInit => RealmsInv
  <1> SUFFICES ASSUME RealmsInit PROVE RealmsInv
    OBVIOUS
  <1> USE NamesAssumption DEF RealmsInit
  <1>1. Stored = {}
    BY DEF Stored
  <1>2. TablesTypeOK
    BY <1>1, Orders DEF TablesTypeOK, KindFacts
  <1>3. LocalsTypeOK
    BY DEF LocalsTypeOK, Steps, StartSteps, RequestSteps
  <1>4. HistoryTypeOK /\ LabelsOK /\ ClientsMatchRealms
    BY <1>1 DEF HistoryTypeOK, LabelsOK, ClientsMatchRealms
  <1>5. ASSUME NEW i \in Tasks, NEW j \in Tasks PROVE TaskOK(i) /\ PairOK(i, j)
    BY DEF TaskOK, HeldTypeOK, BootOK, CreateOK, DeleteOK, PairOK, Booting, Deleting
  <1> QED
    BY <1>2, <1>3, <1>4, <1>5 DEF RealmsInv

RealmsAct(i) == Start(i) \/ Boot(i) \/ (MasterIsComplete /\ Ask(i)) \/ Proceed(i)

(* Every step of a task keeps the invariant of the tables; a request finds *)
(* the master realm complete.                                              *)
LEMMA RealmsStep ==
    ASSUME RealmsInv, NEW i \in Tasks, RealmsAct(i) PROVE RealmsInv'
  <1>1. CASE Boot(i)
    BY <1>1, StepFindMaster, StepInsertMaster, StepLook, StepMake, StepList, StepFill,
       StepFillConsole, StepReady DEF Boot
  <1>2. CASE MasterIsComplete /\ Ask(i)
    BY <1>2, StepSign, StepCreateRealm, StepFindDoomed, StepFindRenamed DEF Ask
  <1>3. CASE Proceed(i)
    BY <1>3, StepGenerateKey, StepComplete, StepDeleteRow, StepDeleteClient, StepRename,
       StepDie DEF Proceed, Abort
  <1> QED
    BY <1>1, <1>2, <1>3, StepStart DEF RealmsAct

(* So does a step of the runner, which leaves the tables alone.            *)
LEMMA RealmsStutter == RealmsInv /\ UNCHANGED realmVars => RealmsInv'
  <1> SUFFICES ASSUME RealmsInv, UNCHANGED realmVars PROVE RealmsInv'
    OBVIOUS
  <1> USE DEF realmVars, tables, locals, history, Stored, Named
  <1>1. TablesTypeOK' /\ LocalsTypeOK' /\ HistoryTypeOK'
    BY DEF RealmsInv, TablesTypeOK, LocalsTypeOK, HistoryTypeOK
  <1>2. LabelsOK' /\ ClientsMatchRealms'
    BY DEF RealmsInv, LabelsOK, ClientsMatchRealms
  <1>3. ASSUME NEW i \in Tasks PROVE HeldTypeOK(i)' /\ BootOK(i)'
    <2>1. HeldTypeOK(i)'
      BY DEF RealmsInv, TaskOK, HeldTypeOK
    <2>2. MasterIsComplete => MasterIsComplete'
      BY DEF MasterIsComplete, Present
    <2>3. BootOK(i)'
      BY <2>2 DEF RealmsInv, TaskOK, BootOK, Present
    <2> QED
      BY <2>1, <2>3
  <1>4. ASSUME NEW i \in Tasks PROVE CreateOK(i)' /\ DeleteOK(i)'
    BY DEF RealmsInv, TaskOK, CreateOK, DeleteOK
  <1>5. ASSUME NEW i \in Tasks, NEW j \in Tasks PROVE PairOK(i, j)'
    BY DEF RealmsInv, PairOK
  <1> QED
    BY <1>1, <1>2, <1>3, <1>4, <1>5 DEF RealmsInv, TaskOK

(***************************************************************************)
(* Part 3.  The composition: a step of a process is one of its realms and  *)
(* one of its runner, or leaves either alone; a request is under way in a  *)
(* process that serves.                                                    *)
(***************************************************************************)
PhaseOK(i) == pc[i] \notin RequestSteps /\ (phase[i] # "down" => pc[i] = "ready")

RequestOK(q) ==
    IF server[q] = None
      THEN pc[q] = "off"
      ELSE pc[q] \in RequestSteps /\ phase[server[q]] = "serving"

StartupInv ==
    /\ events \in 0 .. MaxEvents
    /\ server \in [Requests -> Instances \union {None}]
    /\ RealmsInv
    /\ RunnerInductive
    /\ \A i \in Instances : PhaseOK(i)
    /\ \A q \in Requests : RequestOK(q)

OthersKeep(i) ==
    \A j \in Tasks \ {i} : pc'[j] = pc[j] /\ at'[j] = at[j] /\ row'[j] = row[j]

(* A step of one task leaves the others' locals alone.                     *)
LEMMA OneTaskActs ==
    ASSUME LocalsTypeOK, NEW i \in Tasks, RealmsAct(i) PROVE OthersKeep(i)
  <1> USE DEF LocalsTypeOK, OthersKeep, Goto, Hold, Leave, Stop
  <1>1. CASE Start(i)
    BY <1>1 DEF Start
  <1>2. CASE Boot(i)
    BY <1>2 DEF Boot, FindMaster, InsertMaster, Look, Make, Advance, List, Fill, FillConsole, Ready
  <1>3. CASE Ask(i)
    BY <1>3 DEF Ask, Sign, CreateRealm, FindDoomed, FindRenamed
  <1>4. CASE Proceed(i)
    <2>1. CASE Abort(i)
      BY <2>1 DEF Abort, Die
    <2> QED
      BY <1>4, <2>1 DEF Proceed, GenerateKey, Complete, DeleteRow, DeleteClient, Rename
  <1> QED
    BY <1>1, <1>2, <1>3, <1>4 DEF RealmsAct

(* The boot sequence goes to its own steps or ends.                        *)
LEMMA BootGoes ==
    ASSUME NEW i \in Tasks, pc \in [Tasks -> Steps], Start(i) \/ Boot(i)
    PROVE  pc'[i] \in StartSteps \union {"off", "ready"}
  BY DEF Start, Boot, FindMaster, InsertMaster, Look, Make, Advance, List, Fill, FillConsole, Ready,
         Stop, Leave, Goto, StartSteps

(* A request begins with a step of its own ...                             *)
LEMMA RequestBegins ==
    ASSUME NEW i \in Tasks, pc \in [Tasks -> Steps], Ask(i)
    PROVE  pc'[i] \in RequestSteps
  BY DEF Ask, Sign, CreateRealm, FindDoomed, FindRenamed, Goto, RequestSteps

(* ... and goes to others or ends.                                         *)
LEMMA RequestGoes ==
    ASSUME NEW i \in Tasks, pc \in [Tasks -> Steps], Proceed(i)
    PROVE  pc'[i] \in RequestSteps \union {"off"}
  <1>1. CASE Abort(i)
    BY <1>1 DEF Abort, Die
  <1> QED
    BY <1>1 DEF Proceed, GenerateKey, Complete, DeleteRow, DeleteClient, Rename, Stop, Leave, Goto,
                RequestSteps

(* The runner moves one instance's phase, and none that serves.            *)
LEMMA RunnerGoes ==
    ASSUME Runner!TypeOK, NEW i \in Instances, Runner!Run(i)
    PROVE  phase[i] # "serving" /\ \E p \in Runner!Phases : phase' = [phase EXCEPT ![i] = p]
  <1> USE DEF Runner!TypeOK, Runner!Goto, Runner!StopInstance
  <1>1. CASE Runner!Write(i)
    BY <1>1 DEF Runner!Write
  <1> QED
    BY <1>1 DEF Runner!Run, Runner!Load, Runner!StartUp, Runner!FinishUp, Runner!UpFails,
                Runner!Record, Runner!Serve

(* A request is served where the master realm is complete.                 *)
LEMMA HostIsReady ==
    ASSUME StartupInv, NEW i \in Instances, phase[i] = "serving" PROVE MasterIsComplete
  BY DEF StartupInv, PhaseOK, RealmsInv, TaskOK, BootOK, Booting, Tasks

(* A step of the composition is one of a task, the end of some, or leaves  *)
(* the realms alone.                                                       *)
LEMMA RealmsActs ==
    ASSUME StartupInv, [Next]_vars
    PROVE  \/ UNCHANGED realmVars
           \/ \E i \in Tasks : RealmsAct(i)
           \/ \E i \in Tasks : pc[i] = "ready" /\ Stop(i) /\ UNCHANGED <<tables, history>>
           \/ \E S \in SUBSET Tasks : Die(S)
  <1> USE DEF Tasks
  <1>1. ASSUME NEW i \in Instances, Starting(i) PROVE RealmsAct(i)
    BY <1>1 DEF Starting, RealmsAct
  <1>2. ASSUME NEW i \in Instances, Migrating(i)
        PROVE  UNCHANGED realmVars \/ (pc[i] = "ready" /\ Stop(i) /\ UNCHANGED <<tables, history>>)
    BY <1>2 DEF Migrating, realmVars
  <1>3. ASSUME NEW i \in Instances, Crash(i) PROVE \E S \in SUBSET Tasks : Die(S)
    <2>1. {i} \union {q \in Requests : server[q] = i} \in SUBSET Tasks
      OBVIOUS
    <2> QED
      BY <1>3, <2>1 DEF Crash
  <1>4. ASSUME NEW q \in Requests, Serving(q) PROVE RealmsAct(q)
    BY <1>4 DEF Serving, RealmsAct
  <1>5. ASSUME NEW q \in Requests, NEW i \in Instances, Accept(q, i) PROVE RealmsAct(q)
    BY <1>5, HostIsReady DEF Accept, RealmsAct
  <1>6. CASE UNCHANGED vars
    BY <1>6 DEF vars
  <1> QED
    BY <1>1, <1>2, <1>3, <1>4, <1>5, <1>6 DEF Next

(* The invariant of the composition is inductive.                          *)
LEMMA StartupStep == StartupInv /\ [Next]_vars => StartupInv'
  <1> SUFFICES ASSUME StartupInv, [Next]_vars PROVE StartupInv'
    OBVIOUS
  <1> USE MaxEventsAssumption, RequestsAssumption DEF Tasks
  <1>0. /\ events \in 0 .. MaxEvents /\ RealmsInv /\ RunnerInductive /\ Runner!TypeOK
        /\ server \in [Requests -> Instances \union {None}] /\ LocalsTypeOK
        /\ \A i \in Instances : PhaseOK(i)
        /\ \A q \in Requests : RequestOK(q)
        /\ pc \in [Tasks -> Steps] /\ phase \in [Instances -> Runner!Phases]
    BY DEF StartupInv, RunnerInductive, RealmsInv, LocalsTypeOK, Runner!TypeOK
  <1>1. ASSUME NEW i \in Instances, Starting(i) PROVE StartupInv'
    <2>1. (Start(i) \/ Boot(i)) /\ phase[i] = "down" /\ UNCHANGED <<server, runnerVars>>
      BY <1>1 DEF Starting
    <2>2. RealmsInv' /\ RunnerInductive'
      BY <1>0, <2>1, RealmsStep, RunnerStep DEF RealmsAct
    <2>3. pc'[i] \in StartSteps \union {"off", "ready"} /\ \A j \in Tasks \ {i} : pc'[j] = pc[j]
      BY <1>0, <2>1, BootGoes, OneTaskActs DEF RealmsAct, OthersKeep
    <2>4. UNCHANGED phase
      BY <2>1 DEF runnerVars
    <2>5. \A j \in Instances : PhaseOK(j)'
      BY <1>0, <2>1, <2>3, <2>4 DEF PhaseOK, StartSteps, RequestSteps
    <2>6. \A q \in Requests : RequestOK(q)'
      BY <1>0, <2>1, <2>3, <2>4 DEF RequestOK
    <2>7. events' \in 0 .. MaxEvents
      BY <1>0, <1>1 DEF Starting
    <2> QED
      BY <1>0, <2>1, <2>2, <2>5, <2>6, <2>7 DEF StartupInv
  <1>2. ASSUME NEW i \in Instances, Migrating(i) PROVE StartupInv'
    <2>1. pc[i] = "ready" /\ Runner!Run(i) /\ UNCHANGED <<events, server, tables, history>>
      BY <1>2 DEF Migrating
    <2>2. RunnerInductive'
      BY <1>0, <2>1, RunnerStep DEF Runner!Next
    <2>3. phase[i] # "serving" /\ \A j \in Instances \ {i} : phase'[j] = phase[j]
      BY <1>0, <2>1, RunnerGoes
    <2>4. CASE Stop(i) /\ phase'[i] = "down"
      <3>1. pc' = [pc EXCEPT ![i] = "off"]
        BY <2>4 DEF Stop, Leave, Goto
      <3>2. \A j \in Instances : PhaseOK(j)'
        BY <1>0, <2>3, <2>4, <3>1 DEF PhaseOK, RequestSteps
      <3>3. \A q \in Requests : RequestOK(q)'
        BY <1>0, <2>1, <2>3, <3>1 DEF RequestOK
      <3>4. RealmsInv'
        BY <1>0, <2>1, <2>4, StepStop
      <3> QED
        BY <1>0, <2>1, <2>2, <3>2, <3>3, <3>4 DEF StartupInv
    <2>5. CASE UNCHANGED locals
      <3>1. RealmsInv'
        BY <1>0, <2>1, <2>5, RealmsStutter DEF realmVars
      <3>2. UNCHANGED pc
        BY <2>5 DEF locals
      <3>3. \A j \in Instances : PhaseOK(j)'
        BY <1>0, <2>1, <2>3, <3>2 DEF PhaseOK
      <3>4. \A q \in Requests : RequestOK(q)'
        BY <1>0, <2>1, <2>3, <3>2 DEF RequestOK
      <3> QED
        BY <1>0, <2>1, <2>2, <3>1, <3>3, <3>4 DEF StartupInv
    <2> QED
      BY <1>2, <2>4, <2>5 DEF Migrating
  <1>3. ASSUME NEW q \in Requests, NEW i \in Instances, Accept(q, i) PROVE StartupInv'
    <2>1. /\ phase[i] = "serving" /\ Ask(q) /\ UNCHANGED runnerVars
          /\ server' = [server EXCEPT ![q] = i] /\ events' \in 0 .. MaxEvents
      BY <1>0, <1>3 DEF Accept
    <2>2. RealmsAct(q)
      BY <2>1, HostIsReady DEF RealmsAct
    <2>3. RealmsInv' /\ RunnerInductive'
      BY <1>0, <2>1, <2>2, RealmsStep, RunnerStep
    <2>4. pc'[q] \in RequestSteps /\ \A j \in Tasks \ {q} : pc'[j] = pc[j]
      BY <1>0, <2>1, <2>2, RequestBegins, OneTaskActs DEF OthersKeep
    <2>5. UNCHANGED phase
      BY <2>1 DEF runnerVars
    <2>6. \A j \in Instances : PhaseOK(j)'
      BY <1>0, <2>4, <2>5 DEF PhaseOK
    <2>7. /\ server' \in [Requests -> Instances \union {None}]
          /\ \A p \in Requests : RequestOK(p)'
      BY <1>0, <2>1, <2>4, <2>5 DEF RequestOK
    <2> QED
      BY <2>1, <2>3, <2>6, <2>7 DEF StartupInv
  <1>4. ASSUME NEW q \in Requests, Serving(q) PROVE StartupInv'
    <2>1. /\ server[q] # None /\ Proceed(q) /\ UNCHANGED <<events, runnerVars>>
          /\ server' = [server EXCEPT ![q] = IF pc'[q] = "off" THEN None ELSE server[q]]
      BY <1>4 DEF Serving
    <2>2. RealmsAct(q)
      BY <2>1 DEF RealmsAct
    <2>3. RealmsInv' /\ RunnerInductive'
      BY <1>0, <2>1, <2>2, RealmsStep, RunnerStep
    <2>4. pc'[q] \in RequestSteps \union {"off"} /\ \A j \in Tasks \ {q} : pc'[j] = pc[j]
      BY <1>0, <2>1, <2>2, RequestGoes, OneTaskActs DEF OthersKeep
    <2>5. UNCHANGED phase
      BY <2>1 DEF runnerVars
    <2>6. \A j \in Instances : PhaseOK(j)'
      BY <1>0, <2>4, <2>5 DEF PhaseOK
    <2>7. /\ server' \in [Requests -> Instances \union {None}]
          /\ \A p \in Requests : RequestOK(p)'
      BY <1>0, <2>1, <2>4, <2>5 DEF RequestOK
    <2> QED
      BY <1>0, <2>1, <2>3, <2>6, <2>7 DEF StartupInv
  <1>5. ASSUME NEW i \in Instances, Crash(i) PROVE StartupInv'
    <2> DEFINE S == {i} \union {q \in Requests : server[q] = i}
    <2>1. /\ Die(S) /\ UNCHANGED events
          /\ Runner!Crash(i) \/ (phase[i] = "down" /\ UNCHANGED runnerVars)
          /\ server' = [q \in Requests |-> IF server[q] = i THEN None ELSE server[q]]
      BY <1>5 DEF Crash
    <2>2. RealmsInv' /\ RunnerInductive'
      <3>1. S \in SUBSET Tasks
        OBVIOUS
      <3> HIDE DEF S
      <3> QED
        BY <1>0, <2>1, <3>1, StepDie, RunnerStep DEF Runner!Next
    <2>3. phase' = [phase EXCEPT ![i] = "down"]
      BY <1>0, <2>1 DEF Runner!Crash, Runner!StopInstance, Runner!Goto, runnerVars
    <2>4. \A j \in Tasks : pc'[j] = IF j \in S THEN "off" ELSE pc[j]
      BY <2>1 DEF Die
    <2>5. \A j \in Instances : PhaseOK(j)'
      BY <1>0, <2>3, <2>4 DEF PhaseOK, RequestSteps
    <2>6. /\ server' \in [Requests -> Instances \union {None}]
          /\ \A q \in Requests : RequestOK(q)'
      BY <1>0, <2>1, <2>3, <2>4 DEF RequestOK
    <2> QED
      BY <1>0, <2>1, <2>2, <2>5, <2>6 DEF StartupInv
  <1>6. CASE UNCHANGED vars
    <2>1. /\ UNCHANGED realmVars /\ UNCHANGED runnerVars /\ UNCHANGED <<events, server>>
          /\ UNCHANGED <<pc, phase>>
      BY <1>6 DEF vars, realmVars, locals, runnerVars
    <2>2. RealmsInv' /\ RunnerInductive'
      BY <1>0, <2>1, RealmsStutter, RunnerStep
    <2>3. (\A j \in Instances : PhaseOK(j)') /\ (\A q \in Requests : RequestOK(q)')
      BY <1>0, <2>1 DEF PhaseOK, RequestOK
    <2> QED
      BY <1>0, <2>1, <2>2, <2>3 DEF StartupInv
  <1> QED
    BY <1>1, <1>2, <1>3, <1>4, <1>5, <1>6 DEF Next

(* So it holds in every behaviour.                                         *)
LEMMA StartupInductive == Spec => []StartupInv
  <1>1. Init => StartupInv
    <2> SUFFICES ASSUME Init PROVE StartupInv
      OBVIOUS
    <2>1. RealmsInv /\ RunnerInductive
      BY RealmsInitially, RunnerInit DEF Init
    <2>2. (\A i \in Instances : PhaseOK(i)) /\ (\A q \in Requests : RequestOK(q))
      BY DEF Init, RealmsInit, Runner!Init, PhaseOK, RequestOK, RequestSteps, Tasks
    <2> QED
      BY <2>1, <2>2, MaxEventsAssumption DEF StartupInv, Init
  <1> QED
    BY <1>1, StartupStep, PTL DEF Spec

(* The tables satisfy their constraints, and every process and request is  *)
(* at a step with what it needs, in every state of every instance.         *)
THEOREM TypeCorrect == Spec => []TypeOK
  <1>1. StartupInv => TypeOK
    BY DEF StartupInv, TypeOK, RealmsInv, RealmsTypeOK, TaskOK, RunnerInductive, PhaseOK,
           RequestOK
  <1> QED
    BY <1>1, StartupInductive, PTL

(* A migration touches data only when every earlier one is complete and    *)
(* recorded, and no process serves before all of them are.                 *)
THEOREM AlwaysInOrder == Spec => []InOrder
  <1>1. StartupInv => InOrder
    BY DEF StartupInv, RunnerInductive, InOrder
  <1> QED
    BY <1>1, StartupInductive, PTL

(* No start takes a migration for applied that is not complete.            *)
THEOREM NeverSkipped == Spec => []RecordedMeansDone
  <1>1. StartupInv => RecordedMeansDone
    BY DEF StartupInv, RunnerInductive, RecordedMeansDone
  <1> QED
    BY <1>1, StartupInductive, PTL

(* A process that serves finds the master realm complete.                  *)
THEOREM ServingReady == Spec => []ServingIsReady
  <1>1. StartupInv => ServingIsReady
    BY HostIsReady DEF ServingIsReady
  <1> QED
    BY <1>1, StartupInductive, PTL

(* A realm and its client in the master realm go together.                 *)
THEOREM RealmsMatch == Spec => []ClientsMatchRealms
  <1>1. StartupInv => ClientsMatchRealms
    BY DEF StartupInv, RealmsInv
  <1> QED
    BY <1>1, StartupInductive, PTL

-----------------------------------------------------------------------------
(***************************************************************************)
(* Part 4.  The tables without a unique constraint.                        *)
(***************************************************************************)

(* A task that has found no row of a kind and is to insert one: with the   *)
(* rows that are there they are never more than the processes, for the     *)
(* master realm, or the requests under way, for another.                   *)
Inserting(i, r, k) ==
    /\ row[i] = r
    /\ \/ pc[i] = "make" /\ BootOrder[at[i]] = k
       \/ pc[i] = "create" /\ CreateOrder[at[i]] = k
       \/ pc[i] = "sign" /\ k = "key"

Inserters(r, k) == {i \in Tasks : Inserting(i, r, k)}

Group(r) == IF name[r] = Master THEN Instances ELSE Requests

KeysInv ==
    \A r \in Rows, k \in Unconstrained :
       rows[r][k] + Cardinality(Inserters(r, k)) <= Cardinality(Group(r))

(* Only starts insert for the master realm, and only requests for others.  *)
GroupsOK == \A r \in Rows, k \in Unconstrained : Inserters(r, k) \subseteq Group(r)

LEMMA InsertersInGroup == StartupInv => GroupsOK
  <1> SUFFICES ASSUME StartupInv, NEW r \in Rows, NEW k \in Unconstrained,
                      NEW i \in Tasks, Inserting(i, r, k)
               PROVE  i \in Group(r)
    BY DEF GroupsOK, Inserters
  <1>1. TaskOK(i) /\ row[i] = r
    BY DEF StartupInv, RealmsInv, Inserting
  <1>2. CASE pc[i] = "make"
    <2>1. i \notin Requests
      BY <1>2 DEF StartupInv, RequestOK, RequestSteps
    <2>2. name[r] = Master
      BY <1>1, <1>2 DEF TaskOK, HeldTypeOK, Named
    <2> QED
      BY <2>1, <2>2 DEF Group, Tasks
  <1>3. CASE pc[i] \in {"create", "sign"}
    <2>1. i \notin Instances
      BY <1>3 DEF StartupInv, PhaseOK, RequestSteps
    <2>2. name[r] # Master
      BY <1>1, <1>3 DEF TaskOK, BootOK
    <2> QED
      BY <2>1, <2>2 DEF Group, Tasks
  <1> QED
    BY <1>2, <1>3 DEF Inserting

(* The rows and the tasks that insert them are finitely many.              *)
LEMMA GroupsAreFinite ==
    ASSUME NEW r \in Rows, NEW k \in Unconstrained
    PROVE  /\ IsFiniteSet(Inserters(r, k)) /\ Cardinality(Inserters(r, k)) \in Nat
           /\ IsFiniteSet(Group(r)) /\ Cardinality(Group(r)) \in Nat
  <1>1. IsFiniteSet(Tasks) /\ Inserters(r, k) \subseteq Tasks
    BY InstancesAssumption, RequestsAssumption, FS_Union DEF Tasks, Inserters
  <1> QED
    BY <1>1, InstancesAssumption, RequestsAssumption, FS_Subset, FS_CardinalityType DEF Group

(* What a step of the task i does to the rows of a kind: they are none, or *)
(* the realm stays the master's or not, and the task inserts one and is    *)
(* done, or it changes nothing and comes to insert none.                   *)
FewStep(i, r, k) ==
    \/ rows'[r][k] = 0
    \/ rows'[r][k] = rows[r][k] /\ (Inserting(i, r, k)' => Inserting(i, r, k))
    \/ rows'[r][k] = rows[r][k] + 1 /\ Inserting(i, r, k) /\ ~ Inserting(i, r, k)'

SameGroup(r, k) == rows'[r][k] = 0 \/ (name'[r] = Master <=> name[r] = Master)

(* A step of one task that does no more than FewStep keeps the count.      *)
LEMMA FewKept ==
    ASSUME KeysInv, GroupsOK', TablesTypeOK', TablesTypeOK, NEW i \in Tasks, OthersKeep(i),
           \A r \in Rows, k \in Unconstrained : FewStep(i, r, k) /\ SameGroup(r, k)
    PROVE  KeysInv'
  <1> SUFFICES ASSUME NEW r \in Rows, NEW k \in Unconstrained
               PROVE  (rows[r][k] + Cardinality(Inserters(r, k)))' <= Cardinality(Group(r)')
    BY DEF KeysInv
  <1> DEFINE S == Inserters(r, k)
             G == Group(r)
  <1>1. S' \subseteq G'
    BY DEF GroupsOK
  <1>2. /\ IsFiniteSet(G) /\ IsFiniteSet(S) /\ Cardinality(S) \in Nat /\ Cardinality(G) \in Nat
        /\ IsFiniteSet(G') /\ IsFiniteSet(S')
        /\ Cardinality(S') \in Nat /\ Cardinality(G') \in Nat
    <2>1. IsFiniteSet(Tasks) /\ S \subseteq Tasks /\ S' \subseteq Tasks
      BY InstancesAssumption, RequestsAssumption, FS_Union DEF Tasks, Inserters
    <2>2. G \in {Instances, Requests} /\ G' \in {Instances, Requests}
      BY DEF Group
    <2> QED
      BY <2>1, <2>2, InstancesAssumption, RequestsAssumption, FS_Subset, FS_CardinalityType
  <1>3. Cardinality(S') <= Cardinality(G')
    BY <1>1, <1>2, FS_Subset
  <1>4. /\ rows[r][k] \in Nat /\ rows'[r][k] \in Nat
        /\ rows[r][k] + Cardinality(S) <= Cardinality(G)
    <2>1. k \in Kinds
      BY Orders DEF KindFacts
    <2> QED
      BY <2>1 DEF TablesTypeOK, KeysInv
  <1>5. \A j \in Tasks \ {i} : Inserting(j, r, k)' <=> Inserting(j, r, k)
    BY DEF OthersKeep, Inserting
  <1>6. CASE rows'[r][k] = 0
    BY <1>2, <1>3, <1>6
  <1>7. ASSUME rows'[r][k] # 0 PROVE G' = G
    BY <1>7 DEF SameGroup, Group
  <1>8. CASE rows'[r][k] # 0 /\ rows'[r][k] = rows[r][k] /\ (Inserting(i, r, k)' => Inserting(i, r, k))
    <2>1. S' \subseteq S
      BY <1>5, <1>8 DEF Inserters
    <2>2. Cardinality(S') <= Cardinality(S)
      BY <1>2, <2>1, FS_Subset
    <2>3. Cardinality(G') = Cardinality(G)
      BY <1>7, <1>8
    <2> QED
      BY <1>2, <1>4, <1>8, <2>2, <2>3
  <1>9. CASE /\ rows'[r][k] # 0 /\ rows'[r][k] = rows[r][k] + 1
             /\ Inserting(i, r, k) /\ ~ Inserting(i, r, k)'
    <2>1. S' \subseteq S \ {i} /\ i \in S
      BY <1>5, <1>9 DEF Inserters
    <2>2. IsFiniteSet(S \ {i}) /\ Cardinality(S \ {i}) = Cardinality(S) - 1
      BY <1>2, <2>1, FS_RemoveElement
    <2>3. Cardinality(S') <= Cardinality(S \ {i})
      BY <2>1, <2>2, FS_Subset
    <2>4. Cardinality(G') = Cardinality(G)
      BY <1>7, <1>9
    <2> QED
      BY <1>2, <1>4, <1>9, <2>2, <2>3, <2>4
  <1> QED
    BY <1>6, <1>8, <1>9 DEF FewStep

\* A step that comes to insert nothing.
Inserts == {"make", "create", "sign"}

(* A step that inserts nothing adds to no count.                           *)
LEMMA FewWhenQuiet ==
    ASSUME NEW i \in Tasks, pc'[i] \notin Inserts,
           \A r \in Rows, k \in Unconstrained : rows'[r][k] = rows[r][k]
    PROVE  \A r \in Rows, k \in Unconstrained : FewStep(i, r, k)
  BY DEF FewStep, Inserting, Inserts

(* An insertion adds one row, for the task that was about to.              *)
LEMMA FewWhenInserted ==
    ASSUME TablesTypeOK, NEW i \in Tasks, NEW q \in Rows, NEW n,
           NEW kind \in Kinds \union {"system"}, Insert(q, n, kind), Inserting(i, q, kind),
           \A r \in Rows, k \in Unconstrained : ~ Inserting(i, r, k)'
    PROVE  \A r \in Rows, k \in Unconstrained : FewStep(i, r, k)
  BY InsertedRows, Orders DEF FewStep, KindFacts

(* The boot sequence and the count.                                        *)
LEMMA FewStart ==
    ASSUME RealmsInv, NEW i \in Tasks, Start(i) \/ Boot(i)
    PROVE  \A r \in Rows, k \in Unconstrained : FewStep(i, r, k)
  <1> USE DEF Goto, Leave, Stop, tables, Inserts
  <1>0. /\ pc \in [Tasks -> Steps] /\ TablesTypeOK /\ KindFacts
        /\ TaskOK(i) /\ at[i] \in Nat
    BY Orders DEF RealmsInv, LocalsTypeOK
  <1>1. CASE Start(i) \/ FindMaster(i) \/ List(i) \/ Ready(i)
    BY <1>0, <1>1, FewWhenQuiet DEF Start, FindMaster, List, Ready
  <1>2. CASE \E r \in Rows : InsertMaster(i, r) \/ Fill(i, r)
    BY <1>0, <1>2, FewWhenQuiet DEF InsertMaster, Fill
  <1>3. CASE Look(i)
    <2>1. PICK q \in Rows, m \in 1 .. 6 : q = row[i] /\ m = at[i]
      BY <1>0, <1>3, Orders DEF Look, TaskOK, HeldTypeOK, Named
    <2>2. CASE Advance(i)
      BY <1>0, <1>3, <2>2, FewWhenQuiet DEF Look, Advance
    <2>3. CASE /\ ~ Present(q, BootOrder[m])
               /\ pc'[i] = "make" /\ UNCHANGED <<at, row, rows>>
      <3>1. BootOrder[m] \in Kinds => rows[q][BootOrder[m]] = 0
        BY <1>0, <2>3 DEF Present, KindFacts, TablesTypeOK
      <3> QED
        BY <1>0, <2>1, <2>3, <3>1 DEF FewStep, Inserting, KindFacts
    <2> QED
      BY <1>0, <1>3, <2>1, <2>2, <2>3 DEF Look
  <1>4. CASE Make(i)
    <2>1. PICK q \in Rows, m \in 1 .. 6 : q = row[i] /\ m = at[i] /\ pc[i] = "make"
      BY <1>0, <1>4, Orders DEF Make, TaskOK, HeldTypeOK, Named
    <2>2. pc'[i] \notin Inserts
      BY <1>0, <1>4 DEF Make, Advance
    <2>3. CASE Insert(q, Master, BootOrder[m])
      <3>1. \A r \in Rows, k \in Unconstrained : ~ Inserting(i, r, k)'
        BY <2>2 DEF Inserting
      <3>2. Inserting(i, q, BootOrder[m])
        BY <2>1 DEF Inserting
      <3> QED
        BY <1>0, <2>3, <3>1, <3>2, FewWhenInserted, Orders
    <2>4. CASE UNCHANGED rows
      BY <2>2, <2>4, FewWhenQuiet
    <2> QED
      BY <1>4, <2>1, <2>3, <2>4 DEF Make
  <1>5. CASE FillConsole(i)
    <2>1. pc'[i] \notin Inserts
      BY <1>0, <1>5 DEF FillConsole
    <2>2. PICK q \in Rows : q = row[i]
      BY <1>0, <1>5 DEF FillConsole, TaskOK, HeldTypeOK
    <2>3. Insert(q, None, "console") \/ UNCHANGED rows
      BY <1>5, <2>2 DEF FillConsole
    <2>4. "console" \in Kinds \ Unconstrained
      BY DEF Kinds, Unconstrained
    <2>5. \A r \in Rows, k \in Unconstrained : rows'[r][k] = rows[r][k]
      BY <1>0, <2>3, <2>4, InsertedRows DEF KindFacts
    <2> QED
      BY <2>1, <2>5, FewWhenQuiet
  <1> QED
    BY <1>1, <1>2, <1>3, <1>4, <1>5 DEF Boot

(* Requests and the count.                                                 *)
LEMMA FewRequest ==
    ASSUME RealmsInv, NEW i \in Tasks, Ask(i) \/ Proceed(i)
    PROVE  \A r \in Rows, k \in Unconstrained : FewStep(i, r, k)
  <1> USE DEF Goto, Leave, Stop, tables, Inserts
  <1>0. /\ pc \in [Tasks -> Steps] /\ row \in [Tasks -> Rows \union {None}]
        /\ at \in [Tasks -> Nat]
        /\ TablesTypeOK /\ KindFacts /\ TaskOK(i)
    BY Orders DEF RealmsInv, LocalsTypeOK
  <1>1. CASE Rename(i) \/ Abort(i) \/ \E n, m \in Names : FindDoomed(i, n) \/ FindRenamed(i, n, m)
    BY <1>0, <1>1, FewWhenQuiet DEF Rename, Abort, Die, FindDoomed, FindRenamed
  <1>2. ASSUME NEW q \in Rows, Sign(i, q)
        PROVE  \A r \in Rows, k \in Unconstrained : FewStep(i, r, k)
    <2>1. pc'[i] = "sign" /\ row'[i] = q /\ rows[q]["key"] = 0 /\ rows' = rows
      BY <1>0, <1>2 DEF Sign, Hold
    <2> QED
      BY <2>1 DEF FewStep, Inserting
  <1>3. ASSUME NEW q \in Rows, NEW n \in Names, CreateRealm(i, q, n)
        PROVE  \A r \in Rows, k \in Unconstrained : FewStep(i, r, k)
    <2>1. /\ pc'[i] = "create" /\ at'[i] = 1 /\ row'[i] = q /\ rows' = rows
          /\ q \notin Stored
      BY <1>0, <1>3 DEF CreateRealm, Hold, InsertRealm, Fresh, TablesTypeOK
    <2>2. "settings" \in Kinds \ OfClient
      BY DEF Kinds, OfClient
    <2>3. rows[q]["settings"] = 0
      BY <1>0, <2>1, <2>2 DEF TablesTypeOK
    <2> QED
      BY <2>1, <2>3, Orders DEF FewStep, Inserting
  <1>4. CASE GenerateKey(i)
    <2>1. PICK q \in Rows : q = row[i] /\ pc[i] = "sign"
      BY <1>0, <1>4 DEF GenerateKey, TaskOK, HeldTypeOK
    <2>2. pc'[i] = "off" /\ (Insert(q, None, "key") \/ UNCHANGED rows)
      BY <1>0, <1>4, <2>1 DEF GenerateKey
    <2>3. Inserting(i, q, "key") /\ "key" \in Kinds
      BY <2>1 DEF Inserting, Kinds
    <2>4. \A r \in Rows, k \in Unconstrained : ~ Inserting(i, r, k)'
      BY <2>2 DEF Inserting
    <2> QED
      BY <1>0, <2>2, <2>3, <2>4, FewWhenInserted, FewWhenQuiet
  <1>5. CASE Complete(i)
    <2>1. PICK q \in Rows, m \in 1 .. 6 : q = row[i] /\ m = at[i] /\ pc[i] = "create"
      BY <1>0, <1>5, Orders DEF Complete, TaskOK, HeldTypeOK
    <2>2. \A r \in Rows, k \in Unconstrained : ~ Inserting(i, r, k)'
      <3>1. CASE pc'[i] = "off"
        BY <3>1 DEF Inserting
      <3>2. CASE pc'[i] = "create" /\ at'[i] = m + 1 /\ m < 6
        <4>1. CreateOrder[m + 1] \notin Unconstrained
          BY <3>2, Orders DEF Unconstrained
        <4> QED
          BY <3>2, <4>1 DEF Inserting
      <3> QED
        BY <1>0, <1>5, <2>1, <3>1, <3>2, Orders DEF Complete, Hold
    <2>3. PICK n : Insert(q, n, CreateOrder[m]) \/ UNCHANGED rows
      BY <1>5, <2>1 DEF Complete
    <2>4. Inserting(i, q, CreateOrder[m])
      BY <2>1 DEF Inserting
    <2>5. CASE UNCHANGED rows
      BY <2>2, <2>5 DEF FewStep
    <2> QED
      BY <1>0, <2>2, <2>3, <2>4, <2>5, FewWhenInserted, Orders
  <1>6. CASE DeleteRow(i)
    <2>1. pc'[i] \in {"off", "deleteClient"}
      BY <1>0, <1>6 DEF DeleteRow
    <2>2. CASE UNCHANGED rows
      BY <2>1, <2>2, FewWhenQuiet
    <2>3. ASSUME NEW q \in Rows,
                 rows' = [rows EXCEPT ![q] = [k \in Kinds |-> IF k \in OfClient THEN @[k] ELSE 0]]
          PROVE  \A r \in Rows, k \in Unconstrained : rows'[r][k] = 0 \/ rows'[r][k] = rows[r][k]
      <3>1. PICK f : f = [k \in Kinds |-> IF k \in OfClient THEN rows[q][k] ELSE 0]
        OBVIOUS
      <3>2. rows' = [rows EXCEPT ![q] = f]
        BY <2>3, <3>1
      <3>3. \A k \in Unconstrained : f[k] = 0
        BY <1>0, <3>1 DEF KindFacts
      <3>4. \A r \in Rows : rows'[r] = IF r = q THEN f ELSE rows[r]
        BY <1>0, <3>2 DEF TablesTypeOK
      <3> QED
        BY <3>3, <3>4
    <2>4. \A r \in Rows, k \in Unconstrained : rows'[r][k] = 0 \/ rows'[r][k] = rows[r][k]
      BY <1>6, <2>2, <2>3 DEF DeleteRow, Named
    <2> QED
      BY <2>1, <2>4 DEF FewStep, Inserting
  <1>7. CASE DeleteClient(i)
    <2>1. PICK q \in Rows : q = client[i]
      BY <1>0, <1>7 DEF DeleteClient, TaskOK, HeldTypeOK
    <2>2. PICK f : f = [k \in Kinds |-> IF k \in OfClient THEN 0 ELSE rows[q][k]]
      OBVIOUS
    <2>3. rows' = [rows EXCEPT ![q] = f]
      BY <1>7, <2>1, <2>2 DEF DeleteClient, DropClient
    <2>4. \A k \in Unconstrained : f[k] = rows[q][k]
      BY <1>0, <2>2 DEF KindFacts
    <2>5. \A r \in Rows : rows'[r] = IF r = q THEN f ELSE rows[r]
      BY <1>0, <2>3 DEF TablesTypeOK
    <2>6. pc'[i] = "off"
      BY <1>0, <1>7 DEF DeleteClient
    <2> QED
      BY <2>4, <2>5, <2>6, FewWhenQuiet
  <1> QED
    BY <1>1, <1>2, <1>3, <1>4, <1>5, <1>6, <1>7 DEF Ask, Proceed

(* A realm comes under the master's name, or leaves it, without rows.      *)
LEMMA GroupStays ==
    ASSUME RealmsInv, NEW i \in Tasks, RealmsAct(i)
    PROVE  \A r \in Rows, k \in Unconstrained : SameGroup(r, k)
  <1> USE NamesAssumption DEF tables, SameGroup
  <1>0. TablesTypeOK /\ KindFacts /\ TaskOK(i)
    BY Orders DEF RealmsInv
  <1>1. ASSUME NEW q \in Rows, NEW n \in Names, InsertRealm(q, n), UNCHANGED rows
        PROVE  \A r \in Rows, k \in Unconstrained : SameGroup(r, k)
    <2>1. q \notin Stored /\ name' = [name EXCEPT ![q] = n]
      BY <1>0, <1>1 DEF InsertRealm, Fresh, TablesTypeOK
    <2>2. \A k \in Unconstrained : rows'[q][k] = 0
      BY <1>0, <1>1, <2>1 DEF TablesTypeOK, KindFacts
    <2>3. \A r \in Rows : r # q => name'[r] = name[r]
      BY <1>0, <2>1 DEF TablesTypeOK
    <2> QED
      BY <2>2, <2>3
  <1>2. CASE Start(i) \/ Boot(i)
    <2>1. CASE \E r \in Rows : InsertMaster(i, r)
      BY <1>1, <2>1 DEF InsertMaster
    <2> QED
      BY <1>2, <2>1 DEF Start, Boot, FindMaster, Look, Make, List, Fill, FillConsole, Ready
  <1>3. CASE Ask(i)
    <2>1. CASE \E r \in Rows, n \in Names : CreateRealm(i, r, n)
      BY <1>1, <2>1 DEF CreateRealm
    <2> QED
      BY <1>3, <2>1 DEF Ask, Sign, FindDoomed, FindRenamed
  <1>4. CASE Rename(i)
    <2>1. /\ row[i] \in Rows /\ name[row[i]] # Master /\ wanted[i] # Master
      BY <1>0, <1>4 DEF Rename, TaskOK, HeldTypeOK, BootOK
    <2>2. \A r \in Rows : name'[r] = name[r] \/ (r = row[i] /\ name'[r] = wanted[i])
      BY <1>0, <1>4 DEF Rename, TablesTypeOK
    <2> QED
      BY <2>1, <2>2
  <1>5. CASE DeleteRow(i)
    <2>1. wanted[i] # Master
      BY <1>0, <1>5 DEF DeleteRow, TaskOK, HeldTypeOK
    <2>2. \A r \in Rows : name'[r] = name[r] \/ (name[r] = wanted[i] /\ name'[r] = None)
      BY <1>0, <1>5 DEF DeleteRow, Named, TablesTypeOK
    <2> QED
      BY <2>1, <2>2
  <1>6. CASE Abort(i)
    BY <1>6 DEF Abort, Die
  <1>7. CASE GenerateKey(i) \/ Complete(i) \/ DeleteClient(i)
    BY <1>7 DEF GenerateKey, Complete, DeleteClient
  <1> QED
    BY <1>2, <1>3, <1>4, <1>5, <1>6, <1>7 DEF RealmsAct, Proceed

(* Every step of a task keeps the count.                                   *)
LEMMA RealmsStepKeys ==
    ASSUME RealmsInv, RealmsInv', GroupsOK', KeysInv, NEW i \in Tasks, RealmsAct(i)
    PROVE  KeysInv'
  <1>1. OthersKeep(i)
    BY OneTaskActs DEF RealmsInv
  <1>2. \A r \in Rows, k \in Unconstrained : FewStep(i, r, k)
    BY FewStart, FewRequest DEF RealmsAct
  <1>3. \A r \in Rows, k \in Unconstrained : SameGroup(r, k)
    BY GroupStays
  <1> QED
    BY <1>1, <1>2, <1>3, FewKept DEF RealmsInv

(* So does the end of tasks, of which fewer are about to insert then.      *)
LEMMA EndingKeepsKeys ==
    ASSUME KeysInv, TablesTypeOK, UNCHANGED <<rows, name>>,
           \A j \in Tasks : pc'[j] = "off" \/ (pc'[j] = pc[j] /\ at'[j] = at[j] /\ row'[j] = row[j])
    PROVE  KeysInv'
  <1> SUFFICES ASSUME NEW r \in Rows, NEW k \in Unconstrained
               PROVE  (rows[r][k] + Cardinality(Inserters(r, k)))' <= Cardinality(Group(r)')
    BY DEF KeysInv
  <1>1. Group(r)' = Group(r)
    BY DEF Group
  <1>2. Inserters(r, k)' \subseteq Inserters(r, k)
    BY DEF Inserters, Inserting
  <1>3. Cardinality(Inserters(r, k)') <= Cardinality(Inserters(r, k))
    BY <1>2, GroupsAreFinite, FS_Subset
  <1>4. /\ Cardinality(Inserters(r, k)) \in Nat /\ Cardinality(Inserters(r, k)') \in Nat
        /\ Cardinality(Group(r)) \in Nat
    BY <1>2, GroupsAreFinite, FS_Subset, FS_CardinalityType
  <1>5. rows[r][k] \in Nat /\ rows'[r][k] = rows[r][k]
    BY Orders DEF TablesTypeOK, KindFacts
  <1>6. rows[r][k] + Cardinality(Inserters(r, k)) <= Cardinality(Group(r))
    BY DEF KeysInv
  <1> QED
    BY <1>1, <1>3, <1>4, <1>5, <1>6

(* The master realm has no more signing keys and rows of settings than     *)
(* there are processes, and another no more than there are requests at a   *)
(* time, however many are asked in one process.                            *)
THEOREM FewKeys == Spec => []KeysAreFew
  <1>1. Init => KeysInv
    <2> SUFFICES ASSUME Init, NEW r \in Rows, NEW k \in Unconstrained
                 PROVE  rows[r][k] + Cardinality(Inserters(r, k)) <= Cardinality(Group(r))
      BY DEF KeysInv
    <2>1. Inserters(r, k) = {}
      BY DEF Init, RealmsInit, Inserters, Inserting
    <2>2. rows[r][k] = 0
      BY Orders DEF Init, RealmsInit, KindFacts
    <2> QED
      BY <2>1, <2>2, GroupsAreFinite, FS_EmptySet
  <1>2. StartupInv /\ StartupInv' /\ GroupsOK' /\ KeysInv /\ [Next]_vars => KeysInv'
    <2> SUFFICES ASSUME StartupInv, StartupInv', GroupsOK', KeysInv, [Next]_vars PROVE KeysInv'
      OBVIOUS
    <2>0. RealmsInv /\ RealmsInv' /\ TablesTypeOK /\ LocalsTypeOK
      BY DEF StartupInv, RealmsInv
    <2>1. CASE UNCHANGED realmVars
      BY <2>1 DEF KeysInv, Inserters, Inserting, Group, realmVars, tables, locals
    <2>2. ASSUME NEW i \in Tasks, RealmsAct(i) PROVE KeysInv'
      BY <2>0, <2>2, RealmsStepKeys
    <2>3. ASSUME NEW i \in Tasks, Stop(i), UNCHANGED <<tables, history>> PROVE KeysInv'
      <3>1. UNCHANGED <<rows, name>>
        BY <2>3 DEF tables
      <3>2. \A j \in Tasks : pc'[j] = "off" \/ (pc'[j] = pc[j] /\ at'[j] = at[j] /\ row'[j] = row[j])
        BY <2>0, <2>3 DEF Stop, Leave, Goto, Hold, LocalsTypeOK
      <3> QED
        BY <2>0, <3>1, <3>2, EndingKeepsKeys
    <2>4. ASSUME NEW S \in SUBSET Tasks, Die(S) PROVE KeysInv'
      <3>1. UNCHANGED <<rows, name>>
        BY <2>4 DEF Die, tables
      <3>2. \A j \in Tasks : pc'[j] = "off" \/ (pc'[j] = pc[j] /\ at'[j] = at[j] /\ row'[j] = row[j])
        BY <2>4 DEF Die
      <3> QED
        BY <2>0, <3>1, <3>2, EndingKeepsKeys
    <2> QED
      BY <2>1, <2>2, <2>3, <2>4, RealmsActs
  <1>3. StartupInv /\ KeysInv => KeysAreFew
    <2> SUFFICES ASSUME StartupInv, KeysInv, NEW r \in Rows, NEW k \in Unconstrained
                 PROVE  rows[r][k] <= Cardinality(Group(r))
      BY DEF KeysAreFew, Group
    <2>1. rows[r][k] \in Nat
      BY Orders DEF StartupInv, RealmsInv, TablesTypeOK, KindFacts
    <2>2. Cardinality(Inserters(r, k)) \in Nat /\ Cardinality(Group(r)) \in Nat
      BY GroupsAreFinite
    <2>3. rows[r][k] + Cardinality(Inserters(r, k)) <= Cardinality(Group(r))
      BY DEF KeysInv
    <2> QED
      BY <2>1, <2>2, <2>3
  <1>4. StartupInv => GroupsOK
    BY InsertersInGroup
  <1> QED
    BY <1>1, <1>2, <1>3, <1>4, StartupInductive, PTL DEF Spec

-----------------------------------------------------------------------------
(***************************************************************************)
(* Part 5.  What migration 1 does in its up(): the seeding of the default  *)
(* scopes, for any number of processes, scopes and clients.  It implements *)
(* a runner like that of part 1, with one version.                         *)
(***************************************************************************)
InScopes == {"find", "insert", "look", "map"}
InClients == {"clients", "assign", "record"}

SeedsTypeOK ==
    /\ applied \in BOOLEAN
    /\ scopes \in SUBSET Scopes
    /\ mappers \in [Scopes -> Nat]
    /\ assigned \in SUBSET (Clients \X Scopes)
    /\ stage \in [Instances -> UpSteps \union {"down", "next", "record", "serving"}]
    /\ place \in [Instances -> Scopes]
    /\ unapplied \in [Instances -> BOOLEAN]
    /\ left \in [Instances -> SUBSET Clients]
    /\ served \in [Instances -> Clients \union {None}]
    /\ unseen \in [Instances -> SUBSET Scopes]

(* A run of up() begins at the first scope and ends when no client is left. *)
Places(i) ==
    /\ stage[i] = "down" \/ (stage[i] = "next" /\ unapplied[i]) => place[i] = 1
    /\ stage[i] \in UpSteps \union {"record"} => unapplied[i]
    /\ stage[i] = "assign" => served[i] \in Clients \ left[i]
    /\ stage[i] = "record" => left[i] = {}

(* A scope that a process has passed is there with a mapper.  *)
Passed(i) ==
    IF stage[i] \in InScopes THEN {s \in Scopes : s < place[i]} ELSE
    IF stage[i] \in InClients THEN Scopes ELSE {}

ScopesDone(i) ==
    /\ \A s \in Passed(i) : s \in scopes /\ mappers[s] > 0
    /\ stage[i] \in {"look", "map"} => place[i] \in scopes

(* A client that a process has passed has every scope, but for those the   *)
(* process is about to assign.                                             *)
ClientsDone(i) ==
    stage[i] \in InClients =>
        \A c \in Clients \ left[i], s \in Scopes :
            \/ <<c, s>> \in assigned
            \/ stage[i] = "assign" /\ c = served[i] /\ s \in unseen[i]

InstanceInv(i) == Places(i) /\ ScopesDone(i) /\ ClientsDone(i)

SeedsInv ==
    /\ SeedsTypeOK
    /\ \A i \in Instances : InstanceInv(i)
    /\ applied => Seeded

(* Before migration 1 nothing is written and no instance is up.            *)
LEMMA SeedsInit == SeedInit => SeedsInv
<1> SUFFICES ASSUME SeedInit PROVE SeedsInv
  OBVIOUS
<1>1. 1 \in Scopes  BY NAssumption DEF Scopes
<1>2. SeedsTypeOK  BY <1>1 DEF SeedInit, SeedsTypeOK
<1>3. \A i \in Instances : InstanceInv(i)
  BY DEF SeedInit, InstanceInv, Places, ScopesDone, Passed, ClientsDone, InScopes, InClients,
     UpSteps
<1> QED  BY <1>2, <1>3 DEF SeedsInv, SeedInit

(* Rows are only added.                                                    *)
Grows ==
    /\ scopes \subseteq scopes' /\ assigned \subseteq assigned'
    /\ \A s \in Scopes : mappers[s] > 0 => mappers'[s] > 0

(* What is seeded stays so: migration 1 deletes nothing.                   *)
LEMMA SeededStays ==
    ASSUME SeedsTypeOK, SeedsTypeOK', Grows, Seeded
    PROVE  Seeded'
BY DEF SeedsTypeOK, Grows, Seeded

(* What holds of a process is not disturbed by the steps of others.        *)
LEMMA InstanceKept ==
    ASSUME Grows, NEW j \in Instances, InstanceInv(j),
           stage'[j] = stage[j], place'[j] = place[j], unapplied'[j] = unapplied[j],
           left'[j] = left[j], served'[j] = served[j], unseen'[j] = unseen[j]
    PROVE  InstanceInv(j)'
<1>1. Places(j)'  BY DEF InstanceInv, Places
<1>2. Passed(j)' = Passed(j)  BY DEF Passed
<1>3. Passed(j) \subseteq Scopes  BY DEF Passed
<1>4. ScopesDone(j)'  BY <1>2, <1>3 DEF InstanceInv, ScopesDone, Grows
<1>5. ClientsDone(j)'  BY DEF InstanceInv, ClientsDone, Grows
<1> QED  BY <1>1, <1>4, <1>5 DEF InstanceInv

(* A step of one process: the others stay as they are.                     *)
Alone(i) ==
    \A j \in Instances \ {i} :
        /\ stage'[j] = stage[j] /\ place'[j] = place[j] /\ unapplied'[j] = unapplied[j]
        /\ left'[j] = left[j] /\ served'[j] = served[j] /\ unseen'[j] = unseen[j]

(* A step of one instance that only adds rows is judged by that instance   *)
(* alone.                                                                  *)
LEMMA OneMoves ==
    ASSUME SeedsInv, NEW i \in Instances, SeedsTypeOK', Grows, Alone(i), InstanceInv(i)',
           applied' => applied \/ Seeded
    PROVE  SeedsInv'
<1>1. \A j \in Instances : InstanceInv(j)'
  BY InstanceKept DEF Alone, SeedsInv
<1>2. applied' => Seeded'  BY SeededStays DEF SeedsInv
<1> QED  BY <1>1, <1>2 DEF SeedsInv

(* A crash or an error leaves the tables, so the invariant, alone.         *)
LEMMA StopKeeps ==
    ASSUME SeedsInv, NEW i \in Instances, StopInstance(i),
           UNCHANGED <<applied, scopes, mappers, assigned>>
    PROVE  SeedsInv'
<1>1. 1 \in Scopes  BY NAssumption DEF Scopes
<1>2. SeedsTypeOK'
  BY <1>1 DEF SeedsInv, SeedsTypeOK, StopInstance, Enter
<1>3. Alone(i)
  BY DEF SeedsInv, SeedsTypeOK, Alone, StopInstance, Enter
<1>4. stage'[i] = "down" /\ place'[i] = 1
  BY DEF SeedsInv, SeedsTypeOK, StopInstance, Enter
<1>5. InstanceInv(i)'
  BY <1>4 DEF InstanceInv, Places, ScopesDone, Passed, ClientsDone, InScopes, InClients,
     UpSteps
<1>6. Grows  BY DEF Grows
<1> QED  BY <1>2, <1>3, <1>5, <1>6, OneMoves

(* On to the next scope, when the one a process is at is there.            *)
LEMMA NextScopeKeeps ==
    ASSUME SeedsInv, NEW i \in Instances, stage[i] \in {"look", "map"}, NextScope(i),
           UNCHANGED <<applied, scopes, assigned, unapplied, served, unseen>>,
           mappers' \in [Scopes -> Nat], Grows, mappers'[place[i]] > 0
    PROVE  SeedsInv'
<1> USE DEF SeedsInv
<1>1. place[i] \in 1..N /\ place[i] \in Nat /\ N \in Nat
  BY NAssumption DEF SeedsTypeOK, Scopes
<1>2. SeedsTypeOK'
  <2>1. place' \in [Instances -> Scopes]
    <3>1. place[i] < N => place[i] + 1 \in Scopes  BY <1>1 DEF Scopes
    <3>2. \/ place[i] < N /\ place' = [place EXCEPT ![i] = place[i] + 1]
          \/ place' = place
      BY DEF NextScope
    <3> QED  BY <3>1, <3>2 DEF SeedsTypeOK
  <2>2. /\ stage' \in [Instances -> UpSteps \union {"down", "next", "record", "serving"}]
        /\ left' \in [Instances -> SUBSET Clients]
    BY DEF SeedsTypeOK, NextScope, Enter, UpSteps
  <2> QED  BY <2>1, <2>2 DEF SeedsTypeOK
<1>3. Alone(i)
  BY DEF SeedsTypeOK, Alone, NextScope, Enter
<1>4. \A s \in Scopes : s < place[i] => s \in scopes /\ mappers[s] > 0
  BY DEF InstanceInv, ScopesDone, Passed, InScopes
<1>5. place[i] \in scopes  BY DEF InstanceInv, ScopesDone
<1>6. \A s \in Scopes : s <= place[i] => s \in scopes' /\ mappers'[s] > 0
  BY <1>1, <1>4, <1>5 DEF Grows, Scopes
<1>7. unapplied[i]  BY DEF InstanceInv, Places, UpSteps
<1>8. CASE place[i] < N
  <2>1. stage'[i] = "find" /\ place'[i] = place[i] + 1
    BY <1>8 DEF NextScope, Enter, SeedsTypeOK
  <2>2. InstanceInv(i)'
    BY <1>1, <1>6, <1>7, <2>1
    DEF InstanceInv, Places, ScopesDone, Passed, ClientsDone, InScopes, InClients, UpSteps,
        Scopes
  <2> QED  BY <1>2, <1>3, <2>2, OneMoves
<1>9. CASE ~(place[i] < N)
  <2>1. stage'[i] = "clients" /\ left'[i] = Clients
    BY <1>9 DEF NextScope, Enter, SeedsTypeOK
  <2>2. \A s \in Scopes : s <= place[i]  BY <1>1, <1>9 DEF Scopes
  <2>3. InstanceInv(i)'
    BY <1>6, <1>7, <2>1, <2>2
    DEF InstanceInv, Places, ScopesDone, Passed, ClientsDone, InScopes, InClients, UpSteps
  <2> QED  BY <1>2, <1>3, <2>3, OneMoves
<1> QED  BY <1>8, <1>9

-----------------------------------------------------------------------------
(* All that up() has to write.                                             *)
LEMMA AllWritten ==
    ASSUME SeedsTypeOK, \A s \in Scopes : s \in scopes /\ mappers[s] > 0,
           \A c \in Clients, s \in Scopes : <<c, s>> \in assigned
    PROVE  Seeded
<1>1. Clients \X Scopes \subseteq assigned  OBVIOUS
<1> QED  BY <1>1 DEF SeedsTypeOK, Seeded

(* record_applied comes when all is written.                               *)
LEMMA RecordsWhenSeeded ==
    ASSUME SeedsInv, NEW i \in Instances, stage[i] = "record"
    PROVE  Seeded
<1>1. InstanceInv(i) /\ SeedsTypeOK  BY DEF SeedsInv
<1>2. \A s \in Scopes : s \in scopes /\ mappers[s] > 0
  BY <1>1 DEF InstanceInv, ScopesDone, Passed, InScopes, InClients
<1>3. \A c \in Clients, s \in Scopes : <<c, s>> \in assigned
  BY <1>1 DEF InstanceInv, Places, ClientsDone, InClients
<1> QED  BY <1>1, <1>2, <1>3, AllWritten

(* A step of a process changes no locals of another.                       *)
LEMMA StepsAreAlone ==
    ASSUME SeedsTypeOK, NEW i \in Instances, Run(i) \/ SeedCrash(i)
    PROVE  Alone(i)
<1> USE DEF SeedsTypeOK, Alone
<1>1. ASSUME StopInstance(i) PROVE Alone(i)
  BY <1>1 DEF StopInstance, Enter
<1>2. ASSUME NextScope(i), UNCHANGED <<unapplied, served, unseen>> PROVE Alone(i)
  BY <1>2 DEF NextScope, Enter
<1>3. CASE Load(i) \/ StartUp(i) \/ FindScope(i)
  BY <1>3 DEF Load, StartUp, FindScope, Enter
<1>4. CASE InsertScope(i)
  BY <1>1, <1>4 DEF InsertScope, Enter
<1>5. CASE LookAtMappers(i) \/ InsertMapper(i)
  BY <1>2, <1>5 DEF LookAtMappers, InsertMapper, Enter
<1>6. CASE \E c \in Clients : LookAtClient(i, c)
  BY <1>6 DEF LookAtClient, Enter
<1>7. CASE Assign(i)
  BY <1>1, <1>7 DEF Assign
<1>8. CASE ClientDone(i) \/ FinishUp(i) \/ Serve(i)
  BY <1>8 DEF ClientDone, FinishUp, Serve, Enter
<1>9. CASE Record(i)
  BY <1>1, <1>9 DEF Record, Enter
<1>10. CASE SeedCrash(i)
  BY <1>1, <1>10 DEF SeedCrash
<1> QED
  BY <1>3, <1>4, <1>5, <1>6, <1>7, <1>8, <1>9, <1>10 DEF Run

(* The invariant, over every step.                                         *)
LEMMA SeedsStep == ASSUME SeedsInv, SeedNext PROVE SeedsInv'
<1> DEFINE Goal == SeedsInv'
<1>1. SeedsTypeOK /\ \A i \in Instances : InstanceInv(i)  BY DEF SeedsInv
<1>2. ASSUME UNCHANGED <<scopes, mappers, assigned>> PROVE Grows
  BY <1>2 DEF Grows
\* A step within the locals of one process, the scopes done or not begun.
<1>3. ASSUME NEW i \in Instances, Load(i) PROVE Goal
  <2>1. SeedsTypeOK'
    BY <1>1, <1>3 DEF SeedsTypeOK, Load, Enter, UpSteps, seedTables
  <2>2. Alone(i)  BY <1>1, <1>3, StepsAreAlone DEF Run
  <2>3. stage'[i] = "next" /\ place'[i] = 1
    BY <1>1, <1>3 DEF SeedsTypeOK, Load, Enter, InstanceInv, Places
  <2>4. InstanceInv(i)'
    BY <2>3 DEF InstanceInv, Places, ScopesDone, Passed, ClientsDone, InScopes, InClients,
       UpSteps
  <2> QED  BY <1>2, <1>3, <2>1, <2>2, <2>4, OneMoves DEF Load, seedTables
<1>4. ASSUME NEW i \in Instances, StartUp(i) PROVE Goal
  <2>1. SeedsTypeOK'
    BY <1>1, <1>4 DEF SeedsTypeOK, StartUp, Enter, UpSteps, seedTables
  <2>2. Alone(i)  BY <1>1, <1>4, StepsAreAlone DEF Run
  <2>3. stage'[i] = "find" /\ place'[i] = 1 /\ unapplied'[i]
    BY <1>1, <1>4 DEF SeedsTypeOK, StartUp, Enter, InstanceInv, Places
  <2>4. \A s \in Scopes : ~(s < 1)  BY NAssumption DEF Scopes
  <2>5. InstanceInv(i)'
    BY <2>3, <2>4 DEF InstanceInv, Places, ScopesDone, Passed, ClientsDone, InScopes, InClients,
       UpSteps
  <2> QED  BY <1>2, <1>4, <2>1, <2>2, <2>5, OneMoves DEF StartUp, seedTables
<1>5. ASSUME NEW i \in Instances, FindScope(i) PROVE Goal
  <2>1. SeedsTypeOK'
    BY <1>1, <1>5 DEF SeedsTypeOK, FindScope, Enter, UpSteps, seedTables
  <2>2. Alone(i)  BY <1>1, <1>5, StepsAreAlone DEF Run
  <2>3. /\ stage'[i] \in {"look", "insert"} /\ (stage'[i] = "look" => place[i] \in scopes)
        /\ UNCHANGED <<scopes, mappers, assigned, place, unapplied>> /\ stage[i] = "find"
    BY <1>1, <1>5 DEF SeedsTypeOK, FindScope, Enter, seedTables
  <2>4. InstanceInv(i)'
    BY <1>1, <2>3 DEF InstanceInv, Places, ScopesDone, Passed, ClientsDone, InScopes, InClients,
       UpSteps
  <2> QED  BY <1>2, <1>5, <2>1, <2>2, <2>4, OneMoves DEF FindScope, seedTables
<1>6. ASSUME NEW i \in Instances, InsertScope(i) PROVE Goal
  <2>1. CASE StopInstance(i) /\ UNCHANGED scopes
    BY <1>6, <2>1, StopKeeps DEF InsertScope
  <2>2. CASE scopes' = scopes \union {place[i]} /\ Enter(i, "look")
               /\ UNCHANGED <<place, unapplied, left, served, unseen>>
    <3>1. UNCHANGED <<applied, mappers, assigned>> /\ stage[i] = "insert"
      BY <1>6 DEF InsertScope
    <3>2. SeedsTypeOK'
      BY <1>1, <2>2, <3>1 DEF SeedsTypeOK, Enter, UpSteps
    <3>3. Alone(i)  BY <1>1, <1>6, StepsAreAlone DEF Run
    <3>4. Grows  BY <2>2, <3>1 DEF Grows
    <3>5. stage'[i] = "look"  BY <1>1, <2>2 DEF SeedsTypeOK, Enter
    <3>6. InstanceInv(i)'
      BY <1>1, <2>2, <3>1, <3>5 DEF InstanceInv, Places, ScopesDone, Passed, ClientsDone,
         InScopes, InClients, UpSteps
    <3> QED  BY <3>1, <3>2, <3>3, <3>4, <3>6, OneMoves
  <2> QED  BY <1>6, <2>1, <2>2 DEF InsertScope
<1>7. ASSUME NEW i \in Instances, LookAtMappers(i) PROVE Goal
  <2>1. /\ UNCHANGED <<applied, scopes, mappers, assigned, unapplied, served, unseen>>
        /\ stage[i] = "look"
    BY <1>7 DEF LookAtMappers, seedTables
  <2>2. CASE Enter(i, "map") /\ UNCHANGED <<place, left>>
    <3>1. SeedsTypeOK'
      BY <1>1, <2>1, <2>2 DEF SeedsTypeOK, Enter, UpSteps
    <3>2. Alone(i)  BY <1>1, <1>7, StepsAreAlone DEF Run
    <3>3. stage'[i] = "map"  BY <1>1, <2>2 DEF SeedsTypeOK, Enter
    <3>4. InstanceInv(i)'
      BY <1>1, <2>1, <2>2, <3>3 DEF InstanceInv, Places, ScopesDone, Passed, ClientsDone,
         InScopes, InClients, UpSteps
    <3> QED  BY <1>2, <2>1, <3>1, <3>2, <3>4, OneMoves
  <2>3. CASE mappers[place[i]] # 0 /\ NextScope(i)
    <3>1. mappers'[place[i]] > 0 /\ mappers' \in [Scopes -> Nat]
      BY <1>1, <2>1, <2>3 DEF SeedsTypeOK
    <3> QED  BY <1>2, <2>1, <2>3, <3>1, NextScopeKeeps
  <2> QED  BY <1>7, <2>2, <2>3 DEF LookAtMappers
<1>8. ASSUME NEW i \in Instances, InsertMapper(i) PROVE Goal
  <2>1. /\ UNCHANGED <<applied, scopes, assigned, unapplied, served, unseen>>
        /\ stage[i] = "map" /\ NextScope(i)
        /\ mappers' = [mappers EXCEPT ![place[i]] = @ + 1]
    BY <1>8 DEF InsertMapper
  <2>2. mappers' \in [Scopes -> Nat] /\ mappers'[place[i]] > 0 /\ Grows
    BY <1>1, <2>1 DEF SeedsTypeOK, Grows
  <2> QED  BY <2>1, <2>2, NextScopeKeeps
<1>9. ASSUME NEW i \in Instances, NEW c \in Clients, LookAtClient(i, c) PROVE Goal
  <2>1. SeedsTypeOK'
    BY <1>1, <1>9 DEF SeedsTypeOK, LookAtClient, Enter, UpSteps, seedTables
  <2>2. Alone(i)  BY <1>1, <1>9, StepsAreAlone DEF Run
  <2>3. /\ stage'[i] = "assign" /\ served'[i] = c /\ left'[i] = left[i] \ {c}
        /\ unseen'[i] = {s \in Scopes : <<c, s>> \notin assigned}
        /\ UNCHANGED <<scopes, mappers, assigned, unapplied>> /\ stage[i] = "clients"
    BY <1>1, <1>9 DEF SeedsTypeOK, LookAtClient, Enter, seedTables
  <2>4. Places(i)' /\ ScopesDone(i)'
    BY <1>1, <2>3 DEF InstanceInv, Places, ScopesDone, Passed, InScopes, InClients, UpSteps
  <2>5. ClientsDone(i)'
    BY <1>1, <2>3 DEF InstanceInv, ClientsDone, InClients
  <2> QED
    BY <1>2, <1>9, <2>1, <2>2, <2>4, <2>5, OneMoves DEF InstanceInv, LookAtClient, seedTables
<1>10. ASSUME NEW i \in Instances, Assign(i) PROVE Goal
  <2> DEFINE first == CHOOSE s \in unseen[i] : \A t \in unseen[i] : s <= t
  <2>0. UNCHANGED <<applied, scopes, mappers>> /\ stage[i] = "assign"
    BY <1>10 DEF Assign
  <2>1. CASE StopInstance(i) /\ UNCHANGED assigned
    BY <2>0, <2>1, StopKeeps
  <2>2. CASE /\ assigned' = assigned \union {<<served[i], first>>}
             /\ unseen' = [unseen EXCEPT ![i] = @ \ {first}]
             /\ UNCHANGED <<stage, place, unapplied, left, served>>
    <3>1. PICK s \in Scopes : s = first
      <4>1. unseen[i] \in SUBSET (1..N) /\ unseen[i] # {}
        BY <1>1, <1>10 DEF SeedsTypeOK, Assign, Scopes
      <4>2. \E s \in unseen[i] : \A t \in unseen[i] : s <= t
        BY <4>1, NAssumption, LeastNumber
      <4> QED  BY <4>1, <4>2 DEF Scopes
    <3>2. PICK c \in Clients : c = served[i]
      BY <1>1, <2>0 DEF InstanceInv, Places
    <3>3. SeedsTypeOK'
      <4>1. assigned' \in SUBSET (Clients \X Scopes)
        <5>1. assigned' = assigned \union {<<c, s>>}  BY <2>2, <3>1, <3>2
        <5>2. <<c, s>> \in Clients \X Scopes  OBVIOUS
        <5> QED  BY <1>1, <5>1, <5>2 DEF SeedsTypeOK
      <4>2. /\ unseen[i] \ {s} \in SUBSET Scopes
            /\ unseen' = [unseen EXCEPT ![i] = unseen[i] \ {s}]
        BY <1>1, <2>2, <3>1 DEF SeedsTypeOK
      <4>3. unseen' \in [Instances -> SUBSET Scopes]
        BY <1>1, <4>2 DEF SeedsTypeOK
      <4> QED  BY <1>1, <2>0, <2>2, <4>1, <4>3 DEF SeedsTypeOK
    <3>4. Alone(i)  BY <1>1, <1>10, StepsAreAlone DEF Run
    <3>5. Grows  BY <2>0, <2>2 DEF Grows
    <3>6. unseen'[i] = unseen[i] \ {s}  BY <1>1, <2>2, <3>1 DEF SeedsTypeOK
    <3>7. Places(i)' /\ ScopesDone(i)'
      BY <1>1, <2>0, <2>2 DEF InstanceInv, Places, ScopesDone, Passed
    <3>8. ClientsDone(i)'
      BY <1>1, <2>0, <2>2, <3>1, <3>2, <3>6 DEF InstanceInv, ClientsDone
    <3> QED  BY <2>0, <3>3, <3>4, <3>5, <3>7, <3>8, OneMoves DEF InstanceInv
  <2> QED  BY <1>10, <2>1, <2>2 DEF Assign
<1>11. ASSUME NEW i \in Instances, ClientDone(i) PROVE Goal
  <2>1. SeedsTypeOK'
    BY <1>1, <1>11 DEF SeedsTypeOK, ClientDone, Enter, UpSteps, seedTables
  <2>2. Alone(i)  BY <1>1, <1>11, StepsAreAlone DEF Run
  <2>3. /\ stage'[i] = "clients" /\ unseen[i] = {} /\ stage[i] = "assign"
        /\ UNCHANGED <<scopes, mappers, assigned, unapplied, left>>
    BY <1>1, <1>11 DEF SeedsTypeOK, ClientDone, Enter, seedTables
  <2>4. InstanceInv(i)'
    BY <1>1, <2>3 DEF InstanceInv, Places, ScopesDone, Passed, ClientsDone, InScopes, InClients,
       UpSteps
  <2> QED  BY <1>2, <1>11, <2>1, <2>2, <2>4, OneMoves DEF ClientDone, seedTables
<1>12. ASSUME NEW i \in Instances, FinishUp(i) PROVE Goal
  <2>1. SeedsTypeOK'
    BY <1>1, <1>12 DEF SeedsTypeOK, FinishUp, Enter, UpSteps, seedTables
  <2>2. Alone(i)  BY <1>1, <1>12, StepsAreAlone DEF Run
  <2>3. /\ stage'[i] = "record" /\ left[i] = {} /\ stage[i] = "clients"
        /\ UNCHANGED <<scopes, mappers, assigned, unapplied, left>>
    BY <1>1, <1>12 DEF SeedsTypeOK, FinishUp, Enter, seedTables
  <2>4. InstanceInv(i)'
    BY <1>1, <2>3 DEF InstanceInv, Places, ScopesDone, Passed, ClientsDone, InScopes, InClients,
       UpSteps
  <2> QED  BY <1>2, <1>12, <2>1, <2>2, <2>4, OneMoves DEF FinishUp, seedTables
<1>13. ASSUME NEW i \in Instances, Record(i) PROVE Goal
  <2>1. UNCHANGED <<scopes, mappers, assigned>> /\ stage[i] = "record"
    BY <1>13 DEF Record
  <2>2. CASE StopInstance(i) /\ UNCHANGED applied
    BY <2>1, <2>2, StopKeeps
  <2>3. CASE /\ applied' = TRUE /\ unapplied' = [unapplied EXCEPT ![i] = FALSE]
             /\ Enter(i, "next") /\ UNCHANGED <<place, left, served, unseen>>
    <3>1. SeedsTypeOK'
      BY <1>1, <2>1, <2>3 DEF SeedsTypeOK, Enter, UpSteps
    <3>2. Alone(i)  BY <1>1, <1>13, StepsAreAlone DEF Run
    <3>3. stage'[i] = "next" /\ ~unapplied'[i]
      BY <1>1, <2>3 DEF SeedsTypeOK, Enter
    <3>4. InstanceInv(i)'
      BY <3>3 DEF InstanceInv, Places, ScopesDone, Passed, ClientsDone, InScopes, InClients,
         UpSteps
    <3>5. Seeded  BY <2>1, RecordsWhenSeeded
    <3> QED  BY <1>2, <2>1, <3>1, <3>2, <3>4, <3>5, OneMoves
  <2> QED  BY <1>13, <2>2, <2>3 DEF Record
<1>14. ASSUME NEW i \in Instances, Serve(i) PROVE Goal
  <2>1. SeedsTypeOK'
    BY <1>1, <1>14 DEF SeedsTypeOK, Serve, Enter, UpSteps, seedTables
  <2>2. Alone(i)  BY <1>1, <1>14, StepsAreAlone DEF Run
  <2>3. stage'[i] = "serving"
    BY <1>1, <1>14 DEF SeedsTypeOK, Serve, Enter
  <2>4. InstanceInv(i)'
    BY <2>3 DEF InstanceInv, Places, ScopesDone, Passed, ClientsDone, InScopes, InClients,
       UpSteps
  <2> QED  BY <1>2, <1>14, <2>1, <2>2, <2>4, OneMoves DEF Serve, seedTables
<1>15. ASSUME NEW i \in Instances, SeedCrash(i) PROVE Goal
  BY <1>15, StopKeeps DEF SeedCrash, seedTables
<1> QED
  BY <1>3, <1>4, <1>5, <1>6, <1>7, <1>8, <1>9, <1>10, <1>11, <1>12, <1>13, <1>14, <1>15
  DEF SeedNext, Run

(* The inductive invariant: what a process has passed is written, and what *)
(* is recorded is written.                                                 *)
THEOREM SeedsInductive == SeedSpec => []SeedsInv
<1>1. SeedsInv /\ [SeedNext]_seedVars => SeedsInv'
  <2> SUFFICES ASSUME SeedsInv, [SeedNext]_seedVars PROVE SeedsInv'
    OBVIOUS
  <2>1. CASE SeedNext  BY <2>1, SeedsStep
  <2>2. CASE UNCHANGED seedVars
    <3> USE <2>2 DEF SeedsInv, seedVars, seedTables, seedLocals
    <3>1. SeedsTypeOK'  BY DEF SeedsTypeOK
    <3>2. Grows  BY DEF Grows
    <3>3. \A i \in Instances : InstanceInv(i)'  BY <3>2, InstanceKept
    <3>4. (applied => Seeded)'  BY DEF Seeded
    <3> QED  BY <3>1, <3>3, <3>4
  <2> QED  BY <2>1, <2>2
<1> QED  BY <1>1, SeedsInit, PTL DEF SeedSpec

-----------------------------------------------------------------------------
(* Refinement: the extent of what up() has written.                        *)
Extent == IF Seeded THEN "all" ELSE IF Empty THEN "none" ELSE "part"

Phase(i) == IF stage[i] \in UpSteps THEN "up" ELSE stage[i]
Listed(i) == IF unapplied[i] THEN {1} ELSE {}

(* The variables of the runner, as the seeding has them.                   *)
absRecorded == IF applied THEN {1} ELSE {}
absEffect == [v \in {1} |-> Extent]
absPhase == [i \in Instances |-> Phase(i)]
absPending == [i \in Instances |-> Listed(i)]

(* The runner's current version is 1, the only one.                        *)
LEMMA OneVersion ==
    ASSUME NEW i \in Instances, unapplied[i]
    PROVE  Abstract!Current(i) = 1
<1>1. (CHOOSE v \in {1} : \A w \in {1} : v <= w) = 1  OBVIOUS
<1> QED  BY <1>1 DEF Abstract!Current

\* Steps of the runner, in terms of these.
LEMMA AbstractStep ==
    ASSUME NEW i \in Instances,
           \/ /\ absPhase[i] = "down"
              /\ absPending' = [absPending EXCEPT ![i] = {1} \ absRecorded]
              /\ absPhase' = [absPhase EXCEPT ![i] = "next"]
              /\ UNCHANGED <<absRecorded, absEffect>>
           \/ /\ absPhase[i] = "next" /\ absPending[i] # {}
              /\ absPhase' = [absPhase EXCEPT ![i] = "up"]
              /\ UNCHANGED <<absRecorded, absEffect, absPending>>
           \/ /\ absPhase[i] = "next" /\ absPending[i] = {}
              /\ absPhase' = [absPhase EXCEPT ![i] = "serving"]
              /\ UNCHANGED <<absRecorded, absEffect, absPending>>
           \/ /\ absPhase[i] # "down"
              /\ absPhase' = [absPhase EXCEPT ![i] = "down"]
              /\ absPending' = [absPending EXCEPT ![i] = {}]
              /\ UNCHANGED <<absRecorded, absEffect>>
    PROVE  Abstract!Next
BY DEF absRecorded, absEffect, absPhase, absPending, Extent, Phase, Listed, Abstract!Next,
   Abstract!Run, Abstract!Load, Abstract!StartUp, Abstract!Serve,
   Abstract!Crash, Abstract!StopInstance, Abstract!Goto

(* A write that leaves an effect is the runner's partial or whole          *)
(* application.                                                            *)
LEMMA AbstractWrite ==
    ASSUME NEW i \in Instances, unapplied[i], absPhase[i] = "up",
           Extent # "all", Extent' \in {"part", "all"},
           UNCHANGED <<absRecorded, absPhase, absPending>>
    PROVE  Abstract!Next
<1>1. Abstract!Current(i) = 1  BY OneVersion
<1>2. absEffect' = [absEffect EXCEPT ![1] = Extent']  BY DEF absEffect
<1>3. absEffect[Abstract!Current(i)] # "all"  BY <1>1 DEF absEffect
<1>4. absEffect' \in {[absEffect EXCEPT ![Abstract!Current(i)] = e] : e \in {"part", "all"}}
  BY <1>1, <1>2
<1>5. Abstract!Write(i)
  BY <1>3, <1>4 DEF Abstract!Write, absRecorded, absEffect, absPhase, absPending, Extent,
     Phase, Listed
<1> QED  BY <1>5 DEF Abstract!Next, Abstract!Run

(* The last look at a fully seeded database ends the runner's              *)
(* application.                                                            *)
LEMMA AbstractFinish ==
    ASSUME NEW i \in Instances, unapplied[i], absPhase[i] = "up", Extent = "all",
           absPhase' = [absPhase EXCEPT ![i] = "record"],
           UNCHANGED <<absRecorded, absEffect, absPending>>
    PROVE  Abstract!Next
<1>1. Abstract!Current(i) = 1  BY OneVersion
<1>2. absEffect[1] = "all"  BY DEF absEffect
<1>3. Abstract!FinishUp(i)
  BY <1>1, <1>2 DEF Abstract!FinishUp, Abstract!Goto, absRecorded, absEffect,
     absPhase, absPending, Extent, Phase, Listed
<1> QED  BY <1>3 DEF Abstract!Next, Abstract!Run

(* The insertion into the migrations table is the runner's record.         *)
LEMMA AbstractRecord ==
    ASSUME NEW i \in Instances, unapplied[i], absPhase[i] = "record", ~applied, applied',
           absPhase' = [absPhase EXCEPT ![i] = "next"],
           absPending' = [absPending EXCEPT ![i] = {}],
           UNCHANGED absEffect
    PROVE  Abstract!Next
<1>1. Abstract!Current(i) = 1  BY OneVersion
<1>2. absRecorded = {} /\ absRecorded' = {1}  BY DEF absRecorded
<1>3. absPending' = [absPending EXCEPT ![i] = @ \ {1}]
  <2>1. absPending[i] = {1}  BY DEF absPending, Listed
  <2>2. {1} \ {1} = {}  OBVIOUS
  <2> QED  BY <2>1, <2>2
<1>4. Abstract!Record(i)
  BY <1>1, <1>2, <1>3 DEF Abstract!Record, Abstract!Goto, absRecorded, absEffect,
     absPhase, absPending, Extent, Phase, Listed
<1> QED  BY <1>4 DEF Abstract!Next, Abstract!Run

(* What moves no abstract variable is a stutter of the runner.             *)
LEMMA Stutters ==
    ASSUME UNCHANGED <<absRecorded, absEffect, absPhase, absPending>>
    PROVE  UNCHANGED Abstract!vars
BY DEF Abstract!vars, absRecorded, absEffect, absPhase, absPending, Extent, Phase, Listed

(* One instance's step moves that instance's abstract phase and list       *)
(* only.                                                                   *)
LEMMA AbstractLocals ==
    ASSUME SeedsTypeOK, NEW i \in Instances, Alone(i)
    PROVE  /\ absPhase' = [absPhase EXCEPT ![i] = Phase(i)']
           /\ absPending' = [absPending EXCEPT ![i] = Listed(i)']
           /\ absPhase[i] = Phase(i) /\ absPending[i] = Listed(i)
           /\ Phase(i)' = Phase(i) => absPhase' = absPhase
           /\ Listed(i)' = Listed(i) => absPending' = absPending
<1>1. \A j \in Instances \ {i} : Phase(j)' = Phase(j) /\ Listed(j)' = Listed(j)
  BY DEF Alone, Phase, Listed
<1> QED  BY <1>1 DEF absPhase, absPending

(* The abstract tables change with the concrete ones only.                 *)
LEMMA AbstractTables ==
    /\ UNCHANGED <<scopes, mappers, assigned>> => UNCHANGED absEffect
    /\ UNCHANGED applied => UNCHANGED absRecorded
BY DEF absEffect, Extent, Seeded, Empty, absRecorded

(* A statement that adds rows is a write of the migration, or adds nothing *)
(* that the runner tells apart.                                            *)
LEMMA WritesRefine ==
    ASSUME SeedsTypeOK, SeedsTypeOK', NEW i \in Instances, Alone(i), unapplied[i],
           Phase(i) = "up", Phase(i)' = "up", UNCHANGED <<applied, unapplied>>, Grows, scopes' # {}
    PROVE  Abstract!Next \/ UNCHANGED Abstract!vars
<1>1. UNCHANGED <<absRecorded, absPhase, absPending>> /\ absPhase[i] = "up"
  BY AbstractLocals, AbstractTables DEF Listed
<1>2. Extent' \in {"part", "all"}  BY DEF Extent, Empty
<1>3. Extent = "all" => Extent' = "all"  BY SeededStays DEF Extent
<1>4. CASE Extent = "all"
  BY <1>1, <1>3, <1>4, Stutters DEF absEffect
<1>5. CASE Extent # "all"
  BY <1>1, <1>2, <1>5, AbstractWrite
<1> QED  BY <1>4, <1>5

(* A crash or an error of migration 1 is one of the runner.                *)
LEMMA StopsRefine ==
    ASSUME SeedsTypeOK, NEW i \in Instances, stage[i] # "down", StopInstance(i), Alone(i),
           UNCHANGED <<applied, scopes, mappers, assigned>>
    PROVE  Abstract!Next
<1>1. stage'[i] = "down" /\ ~unapplied'[i]
  BY DEF SeedsTypeOK, StopInstance, Enter
<1>2. Phase(i)' = "down" /\ Listed(i)' = {} /\ Phase(i) # "down"
  BY <1>1 DEF Phase, Listed, UpSteps
<1> QED  BY <1>2, AbstractLocals, AbstractTables, AbstractStep

(* Every step of the seeding is one of the runner, or none.                *)
LEMMA StepsRefine ==
    ASSUME SeedsInv, SeedsInv', NEW i \in Instances, Run(i) \/ SeedCrash(i)
    PROVE  Abstract!Next \/ UNCHANGED Abstract!vars
<1> DEFINE Goal == Abstract!Next \/ UNCHANGED Abstract!vars
<1>1. SeedsTypeOK /\ SeedsTypeOK' /\ InstanceInv(i)  BY DEF SeedsInv
<1>2. Alone(i)  BY <1>1, StepsAreAlone
<1>3. /\ absPhase' = [absPhase EXCEPT ![i] = Phase(i)']
      /\ absPending' = [absPending EXCEPT ![i] = Listed(i)']
      /\ absPhase[i] = Phase(i) /\ absPending[i] = Listed(i)
      /\ Phase(i)' = Phase(i) => absPhase' = absPhase
      /\ Listed(i)' = Listed(i) => absPending' = absPending
  BY <1>1, <1>2, AbstractLocals
\* A step between two statements of up().
<1>4. ASSUME stage[i] \in UpSteps, stage'[i] \in UpSteps, UNCHANGED unapplied,
             UNCHANGED <<applied, scopes, mappers, assigned>>
      PROVE  Goal
  BY <1>3, <1>4, AbstractTables, Stutters DEF Phase, Listed
<1>5. ASSUME stage[i] # "down", StopInstance(i),
             UNCHANGED <<applied, scopes, mappers, assigned>>
      PROVE  Goal
  BY <1>1, <1>2, <1>5, StopsRefine
<1>6. ASSUME stage[i] \in UpSteps, stage'[i] \in UpSteps, UNCHANGED unapplied,
             UNCHANGED applied, Grows, scopes' # {}
      PROVE  Goal
  <2>1. unapplied[i]  BY <1>1, <1>6 DEF InstanceInv, Places
  <2> QED  BY <1>1, <1>2, <1>6, <2>1, WritesRefine DEF Phase
<1>7. CASE Load(i)
  <2>1. /\ stage[i] = "down" /\ stage'[i] = "next" /\ unapplied'[i] = ~applied
        /\ UNCHANGED <<applied, scopes, mappers, assigned>>
    BY <1>1, <1>7 DEF SeedsTypeOK, Load, Enter, seedTables
  <2>2. Phase(i) = "down" /\ Phase(i)' = "next"  BY <2>1 DEF Phase, UpSteps
  <2>3. Listed(i)' = {1} \ absRecorded  BY <1>1, <2>1 DEF Listed, absRecorded, SeedsTypeOK
  <2> QED  BY <1>3, <2>1, <2>2, <2>3, AbstractTables, AbstractStep
<1>8. CASE StartUp(i)
  <2>1. /\ stage[i] = "next" /\ stage'[i] = "find" /\ unapplied[i] /\ UNCHANGED unapplied
        /\ UNCHANGED <<applied, scopes, mappers, assigned>>
    BY <1>1, <1>8 DEF SeedsTypeOK, StartUp, Enter, seedTables
  <2>2. Phase(i) = "next" /\ Phase(i)' = "up"  BY <2>1 DEF Phase, UpSteps
  <2>3. Listed(i) # {} /\ Listed(i)' = Listed(i)  BY <2>1 DEF Listed
  <2> QED  BY <1>3, <2>1, <2>2, <2>3, AbstractTables, AbstractStep
<1>9. CASE FindScope(i)
  <2>1. /\ stage[i] = "find" /\ stage'[i] \in {"look", "insert"}
        /\ UNCHANGED <<applied, scopes, mappers, assigned, unapplied>>
    BY <1>1, <1>9 DEF SeedsTypeOK, FindScope, Enter, seedTables
  <2> QED  BY <1>4, <2>1 DEF UpSteps
<1>10. CASE InsertScope(i)
  <2>1. stage[i] = "insert" /\ UNCHANGED <<applied, mappers, assigned>>
    BY <1>10 DEF InsertScope
  <2>2. CASE StopInstance(i) /\ UNCHANGED scopes
    BY <1>5, <2>1, <2>2
  <2>3. CASE scopes' = scopes \union {place[i]} /\ Enter(i, "look") /\ UNCHANGED unapplied
    <3>1. stage'[i] = "look"  BY <1>1, <2>3 DEF SeedsTypeOK, Enter
    <3>2. Grows /\ scopes' # {}  BY <2>1, <2>3 DEF Grows
    <3> QED  BY <1>6, <2>1, <2>3, <3>1, <3>2 DEF UpSteps
  <2> QED  BY <1>10, <2>2, <2>3 DEF InsertScope
<1>11. CASE LookAtMappers(i)
  <2>1. /\ stage[i] = "look" /\ stage'[i] \in {"map", "find", "clients"}
        /\ UNCHANGED <<applied, scopes, mappers, assigned, unapplied>>
    BY <1>1, <1>11 DEF SeedsTypeOK, LookAtMappers, NextScope, Enter, seedTables
  <2> QED  BY <1>4, <2>1 DEF UpSteps
<1>12. CASE InsertMapper(i)
  <2>1. /\ stage[i] = "map" /\ stage'[i] \in {"find", "clients"}
        /\ UNCHANGED <<applied, scopes, assigned, unapplied>>
        /\ mappers' = [mappers EXCEPT ![place[i]] = @ + 1]
    BY <1>1, <1>12 DEF SeedsTypeOK, InsertMapper, NextScope, Enter
  <2>2. scopes' # {}  BY <1>1, <2>1 DEF InstanceInv, ScopesDone
  <2>3. Grows  BY <1>1, <2>1 DEF Grows, SeedsTypeOK
  <2> QED  BY <1>6, <2>1, <2>2, <2>3 DEF UpSteps
<1>13. CASE \E c \in Clients : LookAtClient(i, c)
  <2>1. /\ stage[i] = "clients" /\ stage'[i] = "assign"
        /\ UNCHANGED <<applied, scopes, mappers, assigned, unapplied>>
    BY <1>1, <1>13 DEF SeedsTypeOK, LookAtClient, Enter, seedTables
  <2> QED  BY <1>4, <2>1 DEF UpSteps
<1>14. CASE Assign(i)
  <2>1. stage[i] = "assign" /\ UNCHANGED <<applied, scopes, mappers>>
    BY <1>14 DEF Assign
  <2>2. CASE StopInstance(i) /\ UNCHANGED assigned
    BY <1>5, <2>1, <2>2
  <2>3. CASE assigned \subseteq assigned' /\ UNCHANGED <<stage, unapplied>>
    <3>1. 1 \in scopes'
      BY <1>1, <2>1, NAssumption
      DEF InstanceInv, ScopesDone, Passed, InScopes, InClients, Scopes
    <3>2. Grows  BY <2>1, <2>3 DEF Grows
    <3> QED  BY <1>6, <2>1, <2>3, <3>1, <3>2 DEF UpSteps
  <2> QED  BY <1>14, <2>2, <2>3 DEF Assign
<1>15. CASE ClientDone(i)
  <2>1. /\ stage[i] = "assign" /\ stage'[i] = "clients"
        /\ UNCHANGED <<applied, scopes, mappers, assigned, unapplied>>
    BY <1>1, <1>15 DEF SeedsTypeOK, ClientDone, Enter, seedTables
  <2> QED  BY <1>4, <2>1 DEF UpSteps
<1>16. CASE FinishUp(i)
  <2>1. /\ stage[i] = "clients" /\ stage'[i] = "record" /\ left[i] = {} /\ left' = left
        /\ UNCHANGED <<applied, scopes, mappers, assigned, unapplied>>
    BY <1>1, <1>16 DEF SeedsTypeOK, FinishUp, Enter, seedTables
  <2>2. Phase(i) = "up" /\ Phase(i)' = "record" /\ Listed(i)' = Listed(i)
    BY <2>1 DEF Phase, Listed, UpSteps
  <2>3. unapplied[i]  BY <1>1, <2>1 DEF InstanceInv, Places, UpSteps
  <2>4. Extent = "all"
    <3>1. \A s \in Scopes : s \in scopes /\ mappers[s] > 0
      BY <1>1, <2>1 DEF InstanceInv, ScopesDone, Passed, InScopes, InClients
    <3>2. \A c \in Clients, s \in Scopes : <<c, s>> \in assigned
      BY <1>1, <2>1 DEF InstanceInv, ClientsDone, InClients
    <3>3. Seeded  BY <1>1, <3>1, <3>2, AllWritten
    <3> QED  BY <3>3 DEF Extent
  <2> QED  BY <1>3, <2>1, <2>2, <2>3, <2>4, AbstractTables, AbstractFinish
<1>17. CASE Record(i)
  <2>1. stage[i] = "record" /\ UNCHANGED <<scopes, mappers, assigned>>
    BY <1>17 DEF Record
  <2>2. CASE StopInstance(i) /\ UNCHANGED applied
    BY <1>5, <2>1, <2>2
  <2>3. CASE /\ ~applied /\ applied' = TRUE /\ Enter(i, "next")
             /\ unapplied' = [unapplied EXCEPT ![i] = FALSE]
    <3>1. stage'[i] = "next" /\ ~unapplied'[i]
      BY <1>1, <2>3 DEF SeedsTypeOK, Enter
    <3>2. Phase(i) = "record" /\ Phase(i)' = "next" /\ Listed(i)' = {}
      BY <2>1, <3>1 DEF Phase, Listed, UpSteps
    <3>3. unapplied[i]  BY <1>1, <2>1 DEF InstanceInv, Places
    <3> QED  BY <1>3, <2>1, <2>3, <3>2, <3>3, AbstractTables, AbstractRecord
  <2> QED  BY <1>17, <2>2, <2>3 DEF Record
<1>18. CASE Serve(i)
  <2>1. /\ stage[i] = "next" /\ stage'[i] = "serving" /\ ~unapplied[i] /\ UNCHANGED unapplied
        /\ UNCHANGED <<applied, scopes, mappers, assigned>>
    BY <1>1, <1>18 DEF SeedsTypeOK, Serve, Enter, seedTables
  <2>2. Phase(i) = "next" /\ Phase(i)' = "serving"  BY <2>1 DEF Phase, UpSteps
  <2>3. Listed(i) = {} /\ Listed(i)' = Listed(i)  BY <2>1 DEF Listed
  <2> QED  BY <1>3, <2>1, <2>2, <2>3, AbstractTables, AbstractStep
<1>19. CASE SeedCrash(i)
  BY <1>5, <1>19 DEF SeedCrash, seedTables
<1> QED
  BY <1>7, <1>8, <1>9, <1>10, <1>11, <1>12, <1>13, <1>14, <1>15, <1>16, <1>17, <1>18, <1>19
  DEF Run

(* Processes that seed the realm together, are refused rows the others     *)
(* have inserted, die and start again, implement one idempotent migration  *)
(* that is recorded only when it is complete.                              *)
THEOREM SeedingIsAMigration == SeedSpec => ImplementsRunner
<1>1. SeedInit => Abstract!Init
  <2> SUFFICES ASSUME SeedInit PROVE Abstract!Init
    OBVIOUS
  <2>1. ~Seeded /\ Empty
    <3>1. 1 \in Scopes  BY NAssumption DEF Scopes
    <3> QED  BY <3>1 DEF SeedInit, Seeded, Empty
  <2> QED  BY <2>1 DEF SeedInit, Abstract!Init, UpSteps
<1>2. /\ SeedsInv /\ SeedsInv' /\ [SeedNext]_seedVars
      => [Abstract!Next]_(Abstract!vars)
  <2> SUFFICES ASSUME SeedsInv, SeedsInv', [SeedNext]_seedVars
               PROVE  Abstract!Next \/ UNCHANGED Abstract!vars
    OBVIOUS
  <2>1. CASE SeedNext  BY <2>1, StepsRefine DEF SeedNext
  <2>2. CASE UNCHANGED seedVars
    <3>1. UNCHANGED <<absRecorded, absEffect, absPhase, absPending>>
      BY <2>2 DEF seedVars, seedTables, seedLocals, absRecorded, absEffect, absPhase,
         absPending, Extent, Phase, Listed, Seeded, Empty
    <3> QED  BY <3>1, Stutters
  <2> QED  BY <2>1, <2>2
<1> QED
  BY <1>1, <1>2, SeedsInductive, PTL DEF SeedSpec, ImplementsRunner, Abstract!Spec

-----------------------------------------------------------------------------
(* Mappers.  A process sets out to insert the mappers of a scope only when *)
(* it sees none, so from the first insertion on every other one is by a    *)
(* process that had set out before.                                        *)
Mapping(s) == {i \in Instances : stage[i] = "map" /\ place[i] = s}

MappersInv ==
    \A s \in Scopes :
        mappers[s] + Cardinality(Mapping(s)) <= Cardinality(Instances)

(* At most every instance is about to insert the same mapper.              *)
LEMMA MappingIsFinite ==
    ASSUME NEW s
    PROVE  /\ IsFiniteSet(Mapping(s)) /\ Cardinality(Mapping(s)) \in Nat
           /\ Cardinality(Instances) \in Nat /\ Cardinality(Mapping(s)) <= Cardinality(Instances)
<1>1. Mapping(s) \subseteq Instances  BY DEF Mapping
<1> QED  BY <1>1, InstancesAssumption, FS_Subset, FS_CardinalityType

(* Nobody sets out for a scope that has a mapper.                          *)
LEMMA FewerMapping ==
    ASSUME SeedsTypeOK, MappersInv, NEW s \in Scopes, mappers'[s] = mappers[s],
           mappers[s] # 0 => Mapping(s)' \subseteq Mapping(s)
    PROVE  mappers'[s] + Cardinality(Mapping(s)') <= Cardinality(Instances)
<1>1. mappers[s] \in Nat  BY DEF SeedsTypeOK
<1>2. /\ Mapping(s)' \subseteq Instances
      /\ IsFiniteSet(Mapping(s)') /\ Cardinality(Mapping(s)') \in Nat
      /\ Cardinality(Instances) \in Nat /\ Cardinality(Mapping(s)') <= Cardinality(Instances)
  <2>1. Mapping(s)' \subseteq Instances  BY DEF Mapping
  <2> QED  BY <2>1, InstancesAssumption, FS_Subset, FS_CardinalityType
<1>3. CASE mappers[s] = 0  BY <1>1, <1>2, <1>3
<1>4. CASE mappers[s] # 0
  <2>1. Cardinality(Mapping(s)') <= Cardinality(Mapping(s))
    BY <1>4, MappingIsFinite, FS_Subset
  <2>2. mappers[s] + Cardinality(Mapping(s)) <= Cardinality(Instances)
    BY DEF MappersInv
  <2>3. Cardinality(Mapping(s)) \in Nat  BY MappingIsFinite
  <2> QED  BY <1>1, <1>2, <2>1, <2>2, <2>3
<1> QED  BY <1>3, <1>4

(* An insertion turns one instance about to insert into one row.           *)
LEMMA MapperInserted ==
    ASSUME SeedsTypeOK, MappersInv, NEW i \in Instances, InsertMapper(i)
    PROVE  MappersInv'
<1>1. stage[i] = "map" /\ mappers' = [mappers EXCEPT ![place[i]] = @ + 1]
  BY DEF InsertMapper
<1>2. stage'[i] # "map" /\ \A j \in Instances \ {i} : stage'[j] = stage[j] /\ place'[j] = place[j]
  BY DEF SeedsTypeOK, InsertMapper, NextScope, Enter
<1>3. \A s : Mapping(s)' = Mapping(s) \ {i}  BY <1>2 DEF Mapping
<1>4. SUFFICES ASSUME NEW s \in Scopes
               PROVE  mappers'[s] + Cardinality(Mapping(s)') <= Cardinality(Instances)
  BY DEF MappersInv
<1>5. CASE s = place[i]
  <2>1. i \in Mapping(s)  BY <1>1, <1>5 DEF Mapping
  <2>2. Cardinality(Mapping(s)') = Cardinality(Mapping(s)) - 1
    BY <1>3, <2>1, MappingIsFinite, FS_RemoveElement
  <2>3. mappers[s] \in Nat /\ mappers'[s] = mappers[s] + 1
    BY <1>1, <1>5 DEF SeedsTypeOK
  <2>4. mappers[s] + Cardinality(Mapping(s)) <= Cardinality(Instances)  BY DEF MappersInv
  <2>5. Cardinality(Mapping(s)) \in Nat /\ Cardinality(Instances) \in Nat  BY MappingIsFinite
  <2> QED  BY <2>2, <2>3, <2>4, <2>5
<1>6. CASE s # place[i]
  <2>1. mappers'[s] = mappers[s]  BY <1>1, <1>6 DEF SeedsTypeOK
  <2> QED  BY <1>3, <2>1, FewerMapping
<1> QED  BY <1>5, <1>6

(* No other step adds a row, or an instance that saw none after one was    *)
(* stored.                                                                 *)
LEMMA MappersStep == ASSUME SeedsTypeOK, MappersInv, SeedNext PROVE MappersInv'
<1>1. SUFFICES ASSUME NEW i \in Instances, Run(i) \/ SeedCrash(i) PROVE MappersInv'
  BY DEF SeedNext
<1>2. \A j \in Instances \ {i} : stage'[j] = stage[j] /\ place'[j] = place[j]
  BY <1>1, StepsAreAlone DEF Alone
<1>3. ASSUME mappers' = mappers, stage'[i] = "map" => mappers[place'[i]] = 0 PROVE MappersInv'
  <2>1. SUFFICES ASSUME NEW s \in Scopes
                 PROVE  mappers'[s] + Cardinality(Mapping(s)') <= Cardinality(Instances)
    BY DEF MappersInv
  <2>2. mappers[s] # 0 => Mapping(s)' \subseteq Mapping(s)  BY <1>2, <1>3 DEF Mapping
  <2> QED  BY <1>3, <2>2, FewerMapping
<1>4. ASSUME mappers' = mappers, stage'[i] # "map" PROVE MappersInv'
  BY <1>3, <1>4
<1>5. ASSUME StopInstance(i) PROVE stage'[i] # "map"
  BY <1>5 DEF SeedsTypeOK, StopInstance, Enter
<1>6. CASE InsertMapper(i)
  BY <1>6, MapperInserted
<1>7. CASE LookAtMappers(i)
  <2>1. mappers' = mappers  BY <1>7 DEF LookAtMappers, seedTables
  <2>2. CASE mappers[place[i]] = 0 /\ Enter(i, "map") /\ UNCHANGED place
    BY <1>3, <2>1, <2>2 DEF SeedsTypeOK
  <2>3. CASE NextScope(i)
    <3>1. stage'[i] # "map"  BY <2>3 DEF SeedsTypeOK, NextScope, Enter
    <3> QED  BY <1>4, <2>1, <3>1
  <2> QED  BY <1>7, <2>2, <2>3 DEF LookAtMappers
<1>8. CASE Load(i) \/ StartUp(i) \/ FindScope(i)
  <2>1. mappers' = mappers /\ stage'[i] # "map"
    BY <1>8 DEF SeedsTypeOK, Load, StartUp, FindScope, Enter, seedTables
  <2> QED  BY <1>4, <2>1
<1>9. CASE InsertScope(i) \/ Record(i) \/ SeedCrash(i)
  <2>1. mappers' = mappers /\ stage'[i] # "map"
    BY <1>5, <1>9 DEF SeedsTypeOK, InsertScope, Record, SeedCrash, Enter,
       seedTables
  <2> QED  BY <1>4, <2>1
<1>10. CASE Assign(i)
  <2>1. mappers' = mappers /\ stage'[i] # "map"
    BY <1>5, <1>10 DEF SeedsTypeOK, Assign
  <2> QED  BY <1>4, <2>1
<1>11. CASE (\E c \in Clients : LookAtClient(i, c)) \/ ClientDone(i)
              \/ FinishUp(i) \/ Serve(i)
  <2>1. mappers' = mappers /\ stage'[i] # "map"
    BY <1>11 DEF SeedsTypeOK, LookAtClient, ClientDone, FinishUp, Serve,
       Enter, seedTables
  <2> QED  BY <1>4, <2>1
<1> QED
  BY <1>1, <1>6, <1>7, <1>8, <1>9, <1>10, <1>11 DEF Run

(* The instance counts with the same operator.                             *)
LEMMA SeedsCardinality == \A S : Cardinality(S) = Cardinality(S)
BY DEF Cardinality, Cardinality

(* However often processes die and seed again, a mapper has no more copies *)
(* than there are processes.                                               *)
THEOREM FewDuplicates == SeedSpec => []DuplicatesAreBounded
<1>1. SeedInit => MappersInv
  <2> SUFFICES ASSUME SeedInit, NEW s \in Scopes
               PROVE  mappers[s] + Cardinality(Mapping(s)) <= Cardinality(Instances)
    BY DEF MappersInv
  <2>1. mappers[s] = 0  BY DEF SeedInit
  <2> QED  BY <2>1, MappingIsFinite
<1>2. SeedsInv /\ MappersInv /\ [SeedNext]_seedVars => MappersInv'
  <2> SUFFICES ASSUME SeedsTypeOK, MappersInv, [SeedNext]_seedVars PROVE MappersInv'
    BY DEF SeedsInv
  <2>1. CASE SeedNext  BY <2>1, MappersStep
  <2>2. CASE UNCHANGED seedVars
    BY <2>2 DEF MappersInv, Mapping, seedVars, seedTables, seedLocals
  <2> QED  BY <2>1, <2>2
<1>3. SeedsInv /\ MappersInv => DuplicatesAreBounded
  <2> SUFFICES ASSUME SeedsInv, MappersInv, NEW s \in Scopes
               PROVE  mappers[s] <= Cardinality(Instances)
    BY SeedsCardinality DEF DuplicatesAreBounded
  <2>1. mappers[s] \in Nat  BY DEF SeedsInv, SeedsTypeOK
  <2>2. mappers[s] + Cardinality(Mapping(s)) <= Cardinality(Instances)  BY DEF MappersInv
  <2> QED  BY <2>1, <2>2, MappingIsFinite
<1> QED  BY <1>1, <1>2, <1>3, SeedsInductive, PTL DEF SeedSpec

-----------------------------------------------------------------------------
(***************************************************************************)
(* Part 6.  Why the seeding ends: what every step of an instance lowers.   *)
(* A step adds one of finitely many rows; or it stops an instance that     *)
(* others have overtaken, which only a row that is added can do; or it     *)
(* brings the instance nearer to serving and moves no other.               *)
(***************************************************************************)
\* How many rows are still to be written of those that are written once only.
Absent ==
    Cardinality(Scopes \ scopes) + Cardinality((Clients \X Scopes) \ assigned)
      + (IF applied THEN 0 ELSE 1)

\* Instance i goes by a reading that the insertion of another has outdated.
Overtaken(i) ==
    \/ stage[i] = "insert" /\ place[i] \in scopes
    \/ stage[i] = "assign" /\ \E s \in unseen[i] : <<served[i], s>> \in assigned
    \/ unapplied[i] /\ applied

OvertakenOnes == {i \in Instances : Overtaken(i)}

\* How far it is from serving: the parts of the way that are left, the scopes or
\* clients left of the present part, and the statements left for the present one.
Way(s, u) ==
    CASE s = "down" -> 6
      [] s = "next" /\ u -> 5
      [] s = "next" /\ ~u -> 1
      [] s \in InScopes -> 4
      [] s \in {"clients", "assign"} -> 3
      [] s = "record" -> 2
      [] OTHER -> 0

Round(s, p, cs) ==
    CASE s \in InScopes -> N - p
      [] s \in {"clients", "assign"} -> Cardinality(cs)
      [] OTHER -> 0

Turn(s, us) ==
    CASE s = "find" -> 3
      [] s = "insert" -> 2
      [] s = "look" -> 1
      [] s = "assign" -> Cardinality(us) + 1
      [] OTHER -> 0

\* In the lexicographic order of the three.
Nearer(i) ==
    LET way == Way(stage[i], unapplied[i])
        round == Round(stage[i], place[i], left[i])
        turn == Turn(stage[i], unseen[i])
    IN  \/ way' < way
        \/ way' = way /\ round' < round
        \/ way' = way /\ round' = round /\ turn' < turn

Descends(i) ==
    \/ Absent' < Absent
    \/ Absent' = Absent /\ Cardinality(OvertakenOnes') < Cardinality(OvertakenOnes)
    \/ /\ Absent' = Absent /\ Cardinality(OvertakenOnes') <= Cardinality(OvertakenOnes)
       /\ Nearer(i) /\ Alone(i)

(* All that is counted is finite.                                          *)
LEMMA CountedIsFinite ==
    /\ IsFiniteSet(Scopes) /\ IsFiniteSet(Clients \X Scopes)
    /\ \A S : IsFiniteSet(Scopes \ S) /\ Cardinality(Scopes \ S) \in Nat
    /\ \A S : /\ IsFiniteSet((Clients \X Scopes) \ S)
              /\ Cardinality((Clients \X Scopes) \ S) \in Nat
<1>1. IsFiniteSet(Scopes)
  BY NAssumption, FS_Interval DEF Scopes
<1>2. IsFiniteSet(Clients \X Scopes)
  BY <1>1, ClientsAssumption, FS_Product
<1>3. ASSUME NEW T, IsFiniteSet(T), NEW S
      PROVE  IsFiniteSet(T \ S) /\ Cardinality(T \ S) \in Nat
  BY <1>3, FS_Difference, FS_CardinalityType
<1> QED  BY <1>1, <1>2, <1>3

(* A set with an element taken out has fewer.                              *)
LEMMA OneOut ==
    ASSUME NEW S, IsFiniteSet(S), NEW x \in S
    PROVE  Cardinality(S \ {x}) < Cardinality(S)
<1>1. Cardinality(S) \in Nat  BY FS_CardinalityType
<1>2. Cardinality(S \ {x}) = Cardinality(S) - 1  BY FS_RemoveElement, Zenon
<1> QED  BY <1>1, <1>2

(* One row more is one row less to write.                                  *)
LEMMA OneFewer ==
    ASSUME NEW T, IsFiniteSet(T), NEW S, NEW x \in T \ S
    PROVE  Cardinality(T \ (S \union {x})) < Cardinality(T \ S)
<1>1. T \ (S \union {x}) = (T \ S) \ {x}  OBVIOUS
<1>2. IsFiniteSet(T \ S)  BY FS_Difference
<1> QED  BY <1>1, <1>2, OneOut

(* A scope, an assignment or the record that is written lowers the first   *)
(* count.                                                                  *)
LEMMA RowAdded ==
    \/ /\ \E s \in Scopes \ scopes : scopes' = scopes \union {s}
       /\ UNCHANGED <<assigned, applied>>
    \/ /\ \E a \in (Clients \X Scopes) \ assigned : assigned' = assigned \union {a}
       /\ UNCHANGED <<scopes, applied>>
    \/ ~applied /\ applied' /\ UNCHANGED <<scopes, assigned>>
    => Absent' < Absent
<1> DEFINE a == Cardinality(Scopes \ scopes)
           b == Cardinality((Clients \X Scopes) \ assigned)
           c == IF applied THEN 0 ELSE 1
<1>1. a \in Nat /\ a' \in Nat /\ b \in Nat /\ b' \in Nat
  BY CountedIsFinite
<1>2. c \in Nat /\ c' \in Nat /\ (~applied /\ applied' => c' < c)
  OBVIOUS
<1>3. PICK a1 \in Nat, b1 \in Nat, c1 \in Nat, a2 \in Nat, b2 \in Nat, c2 \in Nat :
        /\ a1 = a /\ b1 = b /\ c1 = c
        /\ a2 = a' /\ b2 = b' /\ c2 = c'
  BY <1>1, <1>2
<1>4. Absent = a1 + b1 + c1 /\ Absent' = a2 + b2 + c2
  BY <1>3 DEF Absent
<1>5. ASSUME NEW s \in Scopes \ scopes, scopes' = scopes \union {s} PROVE a2 < a1
  <2>1. a' < a  BY <1>5, CountedIsFinite, OneFewer
  <2> QED  BY <1>3, <2>1
<1>6. ASSUME NEW x \in (Clients \X Scopes) \ assigned, assigned' = assigned \union {x}
      PROVE  b2 < b1
  <2>1. b' < b  BY <1>6, CountedIsFinite, OneFewer
  <2> QED  BY <1>3, <2>1
<1>7. UNCHANGED scopes => a2 = a1
  <2>1. UNCHANGED scopes => a' = a  OBVIOUS
  <2> HIDE DEF a
  <2> QED  BY <1>3, <2>1
<1>8. UNCHANGED assigned => b2 = b1
  <2>1. UNCHANGED assigned => b' = b  OBVIOUS
  <2> HIDE DEF b
  <2> QED  BY <1>3, <2>1
<1>9. UNCHANGED applied => c2 = c1
  <2>1. UNCHANGED applied => c' = c  OBVIOUS
  <2> HIDE DEF c
  <2> QED  BY <1>3, <2>1
<1> HIDE DEF a, b, c
<1>10. ~applied /\ applied' => c2 < c1  BY <1>2, <1>3
<1>11. \/ a2 < a1 /\ b2 = b1 /\ c2 = c1
       \/ a2 = a1 /\ b2 < b1 /\ c2 = c1
       \/ a2 = a1 /\ b2 = b1 /\ c2 < c1
       => Absent' < Absent
  BY <1>4
<1> QED  BY <1>5, <1>6, <1>7, <1>8, <1>9, <1>10, <1>11

(* Without a new row nobody is overtaken but by its own step.              *)
LEMMA OthersOvertaken ==
    ASSUME NEW i \in Instances, Alone(i), UNCHANGED <<scopes, assigned, applied>>
    PROVE  /\ Absent' = Absent
           /\ \A j \in Instances \ {i} : Overtaken(j)' = Overtaken(j)
           /\ IsFiniteSet(OvertakenOnes) /\ IsFiniteSet(OvertakenOnes')
<1>1. \A j \in Instances \ {i} : Overtaken(j)' = Overtaken(j)
  BY DEF Alone, Overtaken
<1>2. OvertakenOnes \subseteq Instances /\ OvertakenOnes' \subseteq Instances
  BY DEF OvertakenOnes
<1> QED  BY <1>1, <1>2, InstancesAssumption, FS_Subset DEF Absent

(* An instance that stops where another was before it is overtaken no more. *)
LEMMA StopDescends ==
    ASSUME SeedsTypeOK, NEW i \in Instances, Overtaken(i), StopInstance(i), Alone(i),
           UNCHANGED <<scopes, assigned, applied>>
    PROVE  Descends(i)
<1>1. stage'[i] = "down" /\ ~unapplied'[i]
  BY DEF SeedsTypeOK, StopInstance, Enter
<1>2. ~Overtaken(i)'  BY <1>1 DEF Overtaken
<1>3. OvertakenOnes' = OvertakenOnes \ {i} /\ i \in OvertakenOnes
  BY <1>2, OthersOvertaken DEF OvertakenOnes
<1>4. IsFiniteSet(OvertakenOnes) /\ Absent' = Absent  BY OthersOvertaken
<1>5. Cardinality(OvertakenOnes \ {i}) < Cardinality(OvertakenOnes)
  BY <1>3, <1>4, OneOut
<1> QED  BY <1>3, <1>4, <1>5 DEF Descends

(* A step that writes none of the rows and goes on.                        *)
LEMMA GoingOnDescends ==
    ASSUME NEW i \in Instances, Alone(i), UNCHANGED <<scopes, assigned, applied>>,
           Overtaken(i)' => Overtaken(i), Nearer(i)
    PROVE  Descends(i)
<1>1. OvertakenOnes' \subseteq OvertakenOnes
  BY OthersOvertaken DEF OvertakenOnes
<1>2. Cardinality(OvertakenOnes') <= Cardinality(OvertakenOnes)
  BY <1>1, OthersOvertaken, FS_Subset
<1> QED  BY <1>2, OthersOvertaken DEF Descends

(* The next scope, or the clients, are nearer than any statement about the *)
(* present scope.                                                          *)
LEMMA NextScopeIsNearer ==
    ASSUME SeedsTypeOK, NEW i \in Instances, stage[i] \in InScopes, NextScope(i),
           UNCHANGED <<unapplied, unseen>>
    PROVE  Nearer(i) /\ stage'[i] \in {"find", "clients"}
<1>1. place[i] \in Nat /\ N \in Nat  BY NAssumption DEF SeedsTypeOK, Scopes
<1>2. CASE place[i] < N
  <2>1. stage'[i] = "find" /\ place'[i] = place[i] + 1
    BY <1>2 DEF SeedsTypeOK, NextScope, Enter
  <2> QED  BY <1>1, <2>1 DEF Nearer, Way, Round, InScopes
<1>3. CASE ~(place[i] < N)
  <2>1. stage'[i] = "clients"
    BY <1>3 DEF SeedsTypeOK, NextScope, Enter
  <2> QED  BY <2>1 DEF Nearer, Way, InScopes
<1> QED  BY <1>2, <1>3

(* Every step of an instance descends.                                     *)
LEMMA RunDescends ==
    ASSUME SeedsInv, NEW i \in Instances, Run(i)
    PROVE  Descends(i)
<1> USE DEF SeedsInv
<1>1. Alone(i)  BY StepsAreAlone
<1>2. unseen[i] \subseteq Scopes /\ IsFiniteSet(unseen[i]) /\ Cardinality(unseen[i]) \in Nat
  BY CountedIsFinite, FS_Subset, FS_CardinalityType DEF SeedsTypeOK
<1>3. IsFiniteSet(left[i]) /\ Cardinality(left[i]) \in Nat
  BY ClientsAssumption, FS_Subset, FS_CardinalityType DEF SeedsTypeOK
<1>4. CASE Load(i)
  <2>1. /\ stage[i] = "down" /\ stage'[i] = "next"
        /\ UNCHANGED <<scopes, assigned, applied>>
    BY <1>4 DEF SeedsTypeOK, Load, Enter, seedTables
  <2>2. Nearer(i)
    <3>1. \A u : Way("down", u) = 6  BY DEF Way, InScopes
    <3>2. \A u \in BOOLEAN : Way("next", u) \in {1, 5}  BY DEF Way, InScopes
    <3>3. unapplied'[i] \in BOOLEAN  BY <1>4 DEF SeedsTypeOK, Load
    <3> QED  BY <2>1, <3>1, <3>2, <3>3 DEF Nearer
  <2>3. ~(unapplied'[i] /\ applied)  BY <1>4 DEF SeedsTypeOK, Load
  <2>4. ~Overtaken(i)'  BY <2>1, <2>3 DEF Overtaken
  <2> QED  BY <1>1, <2>1, <2>2, <2>4, GoingOnDescends
<1>5. CASE StartUp(i)
  <2>1. /\ stage[i] = "next" /\ unapplied[i] /\ stage'[i] = "find"
        /\ UNCHANGED <<scopes, assigned, applied, unapplied>>
    BY <1>5 DEF SeedsTypeOK, StartUp, Enter, seedTables
  <2>2. Nearer(i)  BY <2>1 DEF Nearer, Way, InScopes
  <2>3. Overtaken(i)' => Overtaken(i)  BY <2>1 DEF Overtaken
  <2> QED  BY <1>1, <2>1, <2>2, <2>3, GoingOnDescends
<1>6. CASE FindScope(i)
  <2>1. /\ stage[i] = "find" /\ stage'[i] = IF place[i] \in scopes THEN "look" ELSE "insert"
        /\ UNCHANGED <<scopes, assigned, applied, unapplied, place, left, unseen>>
    BY <1>6 DEF SeedsTypeOK, FindScope, Enter, seedTables
  <2>2. Nearer(i)  BY <2>1 DEF Nearer, Way, Round, Turn, InScopes
  <2>3. Overtaken(i)' => Overtaken(i)  BY <2>1 DEF Overtaken
  <2> QED  BY <1>1, <2>1, <2>2, <2>3, GoingOnDescends
<1>7. CASE InsertScope(i)
  <2>1. CASE place[i] \in scopes
    <3>1. StopInstance(i) /\ UNCHANGED <<scopes, assigned, applied>> /\ Overtaken(i)
      BY <1>7, <2>1 DEF InsertScope, Overtaken
    <3> QED  BY <1>1, <3>1, StopDescends
  <2>2. CASE place[i] \notin scopes
    <3>1. scopes' = scopes \union {place[i]} /\ UNCHANGED <<assigned, applied>>
      BY <1>7, <2>2 DEF InsertScope
    <3>2. place[i] \in Scopes \ scopes  BY <2>2 DEF SeedsTypeOK
    <3> QED  BY <3>1, <3>2, RowAdded DEF Descends
  <2> QED  BY <2>1, <2>2
<1>8. CASE LookAtMappers(i)
  <2>1. stage[i] = "look" /\ UNCHANGED <<scopes, assigned, applied, unapplied, served, unseen>>
    BY <1>8 DEF LookAtMappers, seedTables
  <2>2. CASE Enter(i, "map") /\ UNCHANGED <<place, left>>
    <3>1. stage'[i] = "map"  BY <2>2 DEF SeedsTypeOK, Enter
    <3>2. Nearer(i)  BY <2>1, <2>2, <3>1 DEF Nearer, Way, Round, Turn, InScopes
    <3>3. Overtaken(i)' => Overtaken(i)  BY <2>1, <3>1 DEF Overtaken
    <3> QED  BY <1>1, <2>1, <3>2, <3>3, GoingOnDescends
  <2>3. CASE NextScope(i)
    <3>1. Nearer(i) /\ stage'[i] \in {"find", "clients"}
      BY <2>1, <2>3, NextScopeIsNearer DEF InScopes
    <3>2. Overtaken(i)' => Overtaken(i)  BY <2>1, <3>1 DEF Overtaken
    <3> QED  BY <1>1, <2>1, <3>1, <3>2, GoingOnDescends
  <2> QED  BY <1>8, <2>2, <2>3 DEF LookAtMappers
<1>9. CASE InsertMapper(i)
  <2>1. /\ stage[i] = "map" /\ NextScope(i)
        /\ UNCHANGED <<scopes, assigned, applied, unapplied, served, unseen>>
    BY <1>9 DEF InsertMapper
  <2>2. Nearer(i) /\ stage'[i] \in {"find", "clients"}
    BY <2>1, NextScopeIsNearer DEF InScopes
  <2>3. Overtaken(i)' => Overtaken(i)  BY <2>1, <2>2 DEF Overtaken
  <2> QED  BY <1>1, <2>1, <2>2, <2>3, GoingOnDescends
<1>10. ASSUME NEW c \in Clients, LookAtClient(i, c) PROVE Descends(i)
  <2>1. /\ stage[i] = "clients" /\ stage'[i] = "assign" /\ served'[i] = c
        /\ c \in left[i] /\ left'[i] = left[i] \ {c}
        /\ unseen'[i] = {s \in Scopes : <<c, s>> \notin assigned}
        /\ UNCHANGED <<scopes, assigned, applied, unapplied>>
    BY <1>10 DEF SeedsTypeOK, LookAtClient, Enter, seedTables
  <2>2. Cardinality(left[i] \ {c}) < Cardinality(left[i])
    BY <1>3, <2>1, OneOut
  <2>3. Nearer(i)  BY <2>1, <2>2 DEF Nearer, Way, Round, InScopes
  <2>4. Overtaken(i)' => Overtaken(i)  BY <2>1 DEF Overtaken
  <2> QED  BY <1>1, <2>1, <2>3, <2>4, GoingOnDescends
<1>11. CASE Assign(i)
  <2> DEFINE first == CHOOSE s \in unseen[i] : \A t \in unseen[i] : s <= t
  <2>1. stage[i] = "assign" /\ UNCHANGED <<applied, scopes>>
    BY <1>11 DEF Assign
  <2>2. PICK s \in unseen[i] : s = first
    <3>1. unseen[i] \in SUBSET (1..N) /\ unseen[i] # {}
      BY <1>11 DEF SeedsTypeOK, Assign, Scopes
    <3>2. \E s \in unseen[i] : \A t \in unseen[i] : s <= t
      BY <3>1, NAssumption, LeastNumber
    <3> QED  BY <3>2
  <2>3. CASE <<served[i], s>> \in assigned
    <3>1. StopInstance(i) /\ UNCHANGED assigned  BY <1>11, <2>2, <2>3 DEF Assign
    <3>2. Overtaken(i)  BY <2>1, <2>2, <2>3 DEF Overtaken
    <3> QED  BY <1>1, <2>1, <3>1, <3>2, StopDescends
  <2>4. CASE <<served[i], s>> \notin assigned
    <3>1. assigned' = assigned \union {<<served[i], s>>}  BY <1>11, <2>2, <2>4 DEF Assign
    <3>2. served[i] \in Clients  BY <2>1 DEF InstanceInv, Places
    <3>3. <<served[i], s>> \in (Clients \X Scopes) \ assigned
      <4>1. PICK c \in Clients, t \in Scopes : c = served[i] /\ t = s
        BY <1>2, <3>2
      <4>2. <<c, t>> \in Clients \X Scopes  OBVIOUS
      <4> QED  BY <2>4, <4>1, <4>2
    <3> QED  BY <2>1, <3>1, <3>3, RowAdded DEF Descends
  <2> QED  BY <2>3, <2>4
<1>12. CASE ClientDone(i)
  <2>1. /\ stage[i] = "assign" /\ stage'[i] = "clients"
        /\ UNCHANGED <<scopes, assigned, applied, unapplied, left, unseen>>
    BY <1>12 DEF SeedsTypeOK, ClientDone, Enter, seedTables
  <2>2. Nearer(i)  BY <1>2, <2>1 DEF Nearer, Way, Round, Turn, InScopes
  <2>3. Overtaken(i)' => Overtaken(i)  BY <2>1 DEF Overtaken
  <2> QED  BY <1>1, <2>1, <2>2, <2>3, GoingOnDescends
<1>13. CASE FinishUp(i)
  <2>1. /\ stage[i] = "clients" /\ stage'[i] = "record"
        /\ UNCHANGED <<scopes, assigned, applied, unapplied>>
    BY <1>13 DEF SeedsTypeOK, FinishUp, Enter, seedTables
  <2>2. Nearer(i)  BY <2>1 DEF Nearer, Way, InScopes
  <2>3. Overtaken(i)' => Overtaken(i)  BY <2>1 DEF Overtaken
  <2> QED  BY <1>1, <2>1, <2>2, <2>3, GoingOnDescends
<1>14. CASE Record(i)
  <2>1. UNCHANGED <<scopes, assigned>> /\ stage[i] = "record"
    BY <1>14 DEF Record
  <2>2. CASE applied
    <3>1. StopInstance(i) /\ UNCHANGED applied  BY <1>14, <2>2 DEF Record
    <3>2. Overtaken(i)  BY <2>1, <2>2 DEF InstanceInv, Places, Overtaken
    <3> QED  BY <1>1, <2>1, <3>1, <3>2, StopDescends
  <2>3. CASE ~applied
    <3>1. applied'  BY <1>14, <2>3 DEF Record
    <3> QED  BY <2>1, <2>3, <3>1, RowAdded DEF Descends
  <2> QED  BY <2>2, <2>3
<1>15. CASE Serve(i)
  <2>1. /\ stage[i] = "next" /\ ~unapplied[i] /\ stage'[i] = "serving"
        /\ UNCHANGED <<scopes, assigned, applied, unapplied>>
    BY <1>15 DEF SeedsTypeOK, Serve, Enter, seedTables
  <2>2. Nearer(i)  BY <2>1 DEF Nearer, Way, InScopes
  <2>3. Overtaken(i)' => Overtaken(i)  BY <2>1 DEF Overtaken
  <2> QED  BY <1>1, <2>1, <2>2, <2>3, GoingOnDescends
<1> QED
  BY <1>4, <1>5, <1>6, <1>7, <1>8, <1>9, <1>10, <1>11, <1>12, <1>13, <1>14, <1>15 DEF Run

(* Instances that seed together cannot keep each other busy: each step of  *)
(* one descends in a well-founded order, whatever the others have done, so *)
(* that between two crashes there are finitely many.                       *)
THEOREM SeedingRunsOut == SeedSpec => [][\A i \in Instances : Run(i) => Descends(i)]_seedVars
<1>1. SeedsInv /\ [SeedNext]_seedVars => [\A i \in Instances : Run(i) => Descends(i)]_seedVars
  BY RunDescends
<1> QED  BY <1>1, SeedsInductive, PTL DEF SeedSpec
=============================================================================
