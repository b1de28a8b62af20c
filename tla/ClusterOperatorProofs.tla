------------------------ MODULE ClusterOperatorProofs ------------------------
(* Proofs about ClusterOperator, for any processes, versions and bound on  *)
(* the events.                                                             *)
EXTENDS ClusterOperator, TLAPS

USE NoneAssumption, StuckAssumption, MaxEventsAssumption
    DEF Kinds, Places, Working, Steps

(* While no two processes have worked at a time, the one that applies can  *)
(* rely on the finalizer, and the one that deletes on finding gone what it *)
(* has deleted; so nothing is there without the finalizer.                 *)
OneWorks ==
    \A o, q \in Operators : pc[o] \in Working /\ pc[q] \in Working => o = q
Held ==
    /\ \A o \in Operators : pc[o] = "apply" => resource.finalizer
    /\ ~resource.finalizer => Empty
Gone ==
    /\ \A o \in Operators, k \in Places :
          pc[o] = "cleanup" /\ k < at[o] => stored[DeleteOrder[k]] = None
    /\ \A o \in Operators : pc[o] = "release" => Empty
SecretFirst ==
    /\ stored["api"] # None => stored["secret"] # None
    /\ \A o \in Operators : pc[o] = "apply" /\ at[o] > 1 => stored["secret"] # None

Quiet == ~contested => OneWorks /\ Held /\ Gone /\ SecretFirst

(* Whatever the others do, a process comes to the API after the job.       *)
JobFirst ==
    /\ stored["api"] # None => stored["api"] \in launched
    /\ \A o \in Operators : pc[o] = "apply" /\ at[o] > 2 => spec[o] \in launched

Inductive == TypeOK /\ Quiet /\ JobFirst

-----------------------------------------------------------------------------
LEMMA Orders ==
    /\ ApplyOrder \in [Places -> Kinds]
    /\ DeleteOrder \in [Places -> Kinds]
    /\ \A k \in Places : ApplyOrder[k] = "secret" <=> k = 1
    /\ \A k \in Places : ApplyOrder[k] = "job" <=> k = 2
    /\ \A k \in Places : ApplyOrder[k] = "api" <=> k = 3
    /\ \A k \in Places : DeleteOrder[k] = "api" <=> k = 1
    /\ \A k \in Places : DeleteOrder[k] = "secret" <=> k = 3
    /\ \A x \in Kinds : \E k \in Places : DeleteOrder[k] = x
  BY DEF ApplyOrder, DeleteOrder

(* The copies of the resource that the actions write.                      *)
LEMMA AbsentCopy ==
    Absent \in Resource /\ ~Absent.present /\ ~Absent.finalizer /\ ~Absent.deleting
  BY DEF Resource, Absent

LEMMA OneCopy ==
    ASSUME NEW c \in Resource
    PROVE  \/ c = Absent
           \/ /\ c.present
              /\ c \in [present : {TRUE}, finalizer : BOOLEAN, deleting : BOOLEAN,
                       version : Versions]
  <1> DEFINE R == [present : {TRUE}, finalizer : BOOLEAN, deleting : BOOLEAN, version : Versions]
  <1>1. c = Absent \/ c \in R
    BY DEF Resource
  <1>2. c \in R => c.present
    OBVIOUS
  <1> QED BY <1>1, <1>2

LEMMA PresentCopy ==
    ASSUME NEW c \in Resource
    PROVE  /\ c.present \in BOOLEAN /\ c.finalizer \in BOOLEAN /\ c.deleting \in BOOLEAN
           /\ c.present => c.version \in Versions
           /\ c.finalizer => c.present
           /\ ~c.present => c = Absent
  <1>1. CASE c = Absent
    BY <1>1 DEF Absent
  <1>2. CASE c # Absent
    BY <1>2, OneCopy
  <1> QED BY <1>1, <1>2

LEMMA ClaimedCopy ==
    ASSUME NEW c \in Resource, c.present, NEW b \in BOOLEAN
    PROVE  [c EXCEPT !.finalizer = b] \in Resource /\ [c EXCEPT !.finalizer = b].finalizer = b
  <1>1. c \in [present : {TRUE}, finalizer : BOOLEAN, deleting : BOOLEAN, version : Versions]
    BY OneCopy, AbsentCopy
  <1> QED BY <1>1 DEF Resource

LEMMA MarkedCopy ==
    ASSUME NEW c \in Resource, c.present
    PROVE  /\ [c EXCEPT !.deleting = TRUE] \in Resource
           /\ [c EXCEPT !.deleting = TRUE].finalizer = c.finalizer
  <1>1. c \in [present : {TRUE}, finalizer : BOOLEAN, deleting : BOOLEAN, version : Versions]
    BY OneCopy, AbsentCopy
  <1> QED BY <1>1 DEF Resource

LEMMA ChangedCopy ==
    ASSUME NEW c \in Resource, c.present, NEW v \in Versions
    PROVE  /\ [c EXCEPT !.version = v] \in Resource
           /\ [c EXCEPT !.version = v].finalizer = c.finalizer
  <1>1. c \in [present : {TRUE}, finalizer : BOOLEAN, deleting : BOOLEAN, version : Versions]
    BY OneCopy, AbsentCopy
  <1> QED BY <1>1 DEF Resource

LEMMA CreatedCopy ==
    ASSUME NEW v \in Versions
    PROVE  [present |-> TRUE, finalizer |-> FALSE, deleting |-> FALSE, version |-> v] \in Resource
  BY DEF Resource

LEMMA InitInductive == Init => Inductive
  <1> SUFFICES ASSUME Init PROVE Inductive
    OBVIOUS
  <1>1. TypeOK
    <2>1. events \in 0 .. MaxEvents /\ contested \in BOOLEAN
      <3>1. events = 0 /\ contested = FALSE
        BY DEF Init
      <3>2. 0 \in 0 .. MaxEvents
        BY MaxEventsAssumption
      <3>3. contested \in BOOLEAN
        BY <3>1
      <3> QED BY <3>1, <3>2, <3>3
    <2>2. resource \in Resource /\ seen \in [Operators -> Resource]
      BY AbsentCopy DEF Init
    <2>3. stored \in [Kinds -> Versions \union {None}]
      BY DEF Init
    <2>4. /\ due \in SUBSET Operators /\ launched \in SUBSET Versions
          /\ pc \in [Operators -> Steps] /\ at \in [Operators -> Places]
          /\ spec \in [Operators -> Versions \union {None}]
      BY DEF Init
    <2>5. \A o \in Operators : pc[o] = "apply" => spec[o] \in Versions
      BY DEF Init
    <2> QED BY <2>1, <2>2, <2>3, <2>4, <2>5 DEF TypeOK
  <1>2. Quiet
    BY DEF Init, Quiet, OneWorks, Held, Gone, SecretFirst, Empty
  <1>3. JobFirst
    BY DEF Init, JobFirst
  <1> QED BY <1>1, <1>2, <1>3 DEF Inductive

(* Every step keeps the types of the variables.                            *)
LEMMA StepTypeOK == TypeOK /\ [Next]_vars => TypeOK'
  <1> SUFFICES ASSUME TypeOK, [Next]_vars PROVE TypeOK'
    OBVIOUS
  <1> USE DEF TypeOK, Goto, Rest, Requeue, Advance, Take, Count, locals, history
  <1>1. ASSUME NEW o \in Operators, Start(o) PROVE TypeOK'
    BY <1>1 DEF Start
  <1>2. ASSUME NEW o \in Operators, Watch(o) PROVE TypeOK'
    BY <1>2 DEF Watch
  <1>3. ASSUME NEW o \in Operators, Claim(o) PROVE TypeOK'
    <2>1. resource' \in Resource
      <3>1. CASE resource.present /\ ~resource.finalizer
        BY <1>3, <3>1, ClaimedCopy DEF Claim
      <3>2. CASE ~(resource.present /\ ~resource.finalizer)
        BY <1>3, <3>2 DEF Claim
      <3> QED BY <3>1, <3>2
    <2> QED BY <1>3, <2>1 DEF Claim
  <1>4. ASSUME NEW o \in Operators, BeginApply(o) PROVE TypeOK'
    <2>1. seen[o].version \in Versions
      BY <1>4, PresentCopy DEF BeginApply
    <2> QED BY <1>4, <2>1 DEF BeginApply
  <1>5. ASSUME NEW o \in Operators, BeginCleanup(o) PROVE TypeOK'
    BY <1>5 DEF BeginCleanup
  <1>6. ASSUME NEW o \in Operators, Apply(o) PROVE TypeOK'
    BY <1>6, Orders DEF Apply
  <1>7. ASSUME NEW o \in Operators, ApplyRefused(o) PROVE TypeOK'
    BY <1>7 DEF ApplyRefused
  <1>8. ASSUME NEW o \in Operators, Delete(o) PROVE TypeOK'
    BY <1>8, Orders DEF Delete
  <1>9. ASSUME NEW o \in Operators, Release(o) PROVE TypeOK'
    <2>1. resource' \in Resource
      <3>1. CASE resource.finalizer /\ resource.deleting
        BY <1>9, <3>1, AbsentCopy DEF Release
      <3>2. CASE resource.finalizer /\ ~resource.deleting
        <4>1. resource.present
          BY <3>2, PresentCopy
        <4> QED BY <1>9, <3>2, <4>1, ClaimedCopy DEF Release
      <3>3. CASE ~resource.finalizer
        BY <1>9, <3>3 DEF Release
      <3> QED BY <3>1, <3>2, <3>3
    <2> QED BY <1>9, <2>1 DEF Release
  <1>10. ASSUME NEW o \in Operators, FailCall(o) PROVE TypeOK'
    BY <1>10 DEF FailCall
  <1>11. ASSUME NEW o \in Operators, Crash(o) PROVE TypeOK'
    BY <1>11, AbsentCopy DEF Crash
  <1>12. ASSUME NEW v \in Versions, CreateResource(v) PROVE TypeOK'
    BY <1>12, CreatedCopy DEF CreateResource, Edit
  <1>13. ASSUME NEW v \in Versions, ChangeResource(v) PROVE TypeOK'
    BY <1>13, ChangedCopy DEF ChangeResource, Edit
  <1>14. CASE DeleteResource
    BY <1>14, MarkedCopy, AbsentCopy DEF DeleteResource, Edit
  <1>15. CASE JobExpires
    BY <1>15 DEF JobExpires
  <1>16. CASE UNCHANGED vars
    BY <1>16 DEF vars
  <1> QED
    BY <1>1, <1>2, <1>3, <1>4, <1>5, <1>6, <1>7, <1>8, <1>9, <1>10, <1>11, <1>12,
       <1>13, <1>14, <1>15, <1>16
       DEF Next, Step

-----------------------------------------------------------------------------
(* A step that writes no object and begins no work disturbs nothing, as    *)
(* long as it leaves the finalizer.                                        *)
LEMMA Undisturbed ==
    ASSUME Inductive, TypeOK', stored' = stored, launched' = launched, contested' = contested,
           resource.finalizer => resource'.finalizer,
           \A o \in Operators :
              \/ pc'[o] = pc[o] /\ at'[o] = at[o] /\ spec'[o] = spec[o]
              \/ pc'[o] \notin Working
    PROVE  Inductive'
  <1> USE DEF Inductive, TypeOK
  <1>1. Quiet'
    <2> SUFFICES ASSUME ~contested PROVE (OneWorks /\ Held /\ Gone /\ SecretFirst)'
      BY DEF Quiet
    <2> OneWorks /\ Held /\ Gone /\ SecretFirst
      BY DEF Quiet
    <2>1. OneWorks'
      BY DEF OneWorks
    <2>2. Held'
      BY DEF Held, Empty
    <2>3. Gone'
      BY DEF Gone, Empty
    <2>4. SecretFirst'
      BY DEF SecretFirst
    <2> QED BY <2>1, <2>2, <2>3, <2>4
  <1>2. JobFirst'
    BY DEF JobFirst
  <1> QED BY <1>1, <1>2

(* Every step preserves the inductive invariant.                           *)
LEMMA StepInductive == Inductive /\ [Next]_vars => Inductive'
  <1> SUFFICES ASSUME Inductive, [Next]_vars, TypeOK' PROVE Inductive'
    BY StepTypeOK DEF Inductive
  <1> USE DEF Goto, Rest, Requeue, Advance, Take, Count, locals, history
  <1> TypeOK /\ Quiet /\ JobFirst
    BY DEF Inductive
  <1>1. ASSUME NEW o \in Operators, Start(o) PROVE Inductive'
    BY <1>1, Undisturbed DEF Start, TypeOK
  <1>2. ASSUME NEW o \in Operators, Watch(o) PROVE Inductive'
    BY <1>2, Undisturbed DEF Watch
  <1>3. ASSUME NEW o \in Operators, Claim(o) PROVE Inductive'
    BY <1>3, Undisturbed DEF Claim, TypeOK
  <1>4. ASSUME NEW o \in Operators, BeginApply(o) PROVE Inductive'
    <2>1. JobFirst'
      BY <1>4 DEF BeginApply, JobFirst, TypeOK
    <2>2. Quiet'
      <3> SUFFICES ASSUME ~contested' PROVE (OneWorks /\ Held /\ Gone /\ SecretFirst)'
        BY DEF Quiet
      <3>1. ~contested /\ Alone(o) /\ resource.finalizer
        BY <1>4 DEF BeginApply, TypeOK
      <3>2. OneWorks /\ Held /\ Gone /\ SecretFirst
        BY <3>1 DEF Quiet
      <3>3. OneWorks'
        BY <1>4, <3>1, <3>2 DEF BeginApply, OneWorks, Alone, TypeOK
      <3>4. Held'
        BY <1>4, <3>1, <3>2 DEF BeginApply, Held, Empty, TypeOK
      <3>5. Gone'
        BY <1>4, <3>2 DEF BeginApply, Gone, Empty, TypeOK
      <3>6. SecretFirst'
        BY <1>4, <3>2 DEF BeginApply, SecretFirst, TypeOK
      <3> QED BY <3>3, <3>4, <3>5, <3>6
    <2> QED BY <2>1, <2>2 DEF Inductive
  <1>5. ASSUME NEW o \in Operators, BeginCleanup(o) PROVE Inductive'
    <2>1. JobFirst'
      BY <1>5 DEF BeginCleanup, JobFirst, TypeOK
    <2>2. Quiet'
      <3> SUFFICES ASSUME ~contested' PROVE (OneWorks /\ Held /\ Gone /\ SecretFirst)'
        BY DEF Quiet
      <3>1. ~contested /\ Alone(o)
        BY <1>5 DEF BeginCleanup, TypeOK
      <3>2. OneWorks /\ Held /\ Gone /\ SecretFirst
        BY <3>1 DEF Quiet
      <3>3. OneWorks'
        BY <1>5, <3>1, <3>2 DEF BeginCleanup, OneWorks, Alone, TypeOK
      <3>4. Held'
        BY <1>5, <3>2 DEF BeginCleanup, Held, Empty, TypeOK
      <3>5. Gone'
        BY <1>5, <3>2 DEF BeginCleanup, Gone, Empty, TypeOK
      <3>6. SecretFirst'
        BY <1>5, <3>2 DEF BeginCleanup, SecretFirst, TypeOK
      <3> QED BY <3>3, <3>4, <3>5, <3>6
    <2> QED BY <2>1, <2>2 DEF Inductive
  <1>6. ASSUME NEW o \in Operators, Apply(o) PROVE Inductive'
    <2> DEFINE k == ApplyOrder[at[o]]
    <2>1. /\ pc[o] = "apply" /\ at[o] \in Places /\ spec[o] \in Versions /\ k \in Kinds
          /\ stored' = [stored EXCEPT ![k] = spec[o]]
          /\ launched' = IF k = "job" THEN launched \union {spec[o]} ELSE launched
          /\ UNCHANGED <<resource, contested>>
      BY <1>6, Orders DEF Apply, TypeOK
    <2>2. /\ \A q \in Operators \ {o} : pc'[q] = pc[q] /\ at'[q] = at[q] /\ spec'[q] = spec[q]
          /\ \/ pc'[o] = "apply" /\ at'[o] = at[o] + 1 /\ spec'[o] = spec[o]
             \/ pc'[o] = "idle"
      BY <1>6 DEF Apply, TypeOK
    <2>3. JobFirst'
      <3>1. at[o] > 2 => spec[o] \in launched
        BY <2>1 DEF JobFirst
      <3>2. k = "api" => at[o] > 2
        BY <2>1, Orders
      <3>3. at[o] = 2 => spec[o] \in launched'
        BY <2>1, Orders
      <3>4. launched \subseteq launched'
        BY <2>1
      <3>5. stored'["api"] # None => stored'["api"] \in launched'
        <4>1. CASE k = "api"
          BY <4>1, <2>1, <3>1, <3>2, <3>4 DEF TypeOK
        <4>2. CASE k # "api"
          BY <4>2, <2>1, <3>4 DEF TypeOK, JobFirst
        <4> QED BY <4>1, <4>2
      <3>6. ASSUME NEW q \in Operators, pc'[q] = "apply", at'[q] > 2
            PROVE  spec'[q] \in launched'
        <4>1. CASE q = o
          <5>1. at[o] >= 2 /\ spec'[o] = spec[o]
            BY <4>1, <3>6, <2>1, <2>2
          <5>2. at[o] > 2 \/ at[o] = 2
            BY <5>1, <2>1
          <5> QED BY <4>1, <5>1, <5>2, <3>1, <3>3, <3>4
        <4>2. CASE q # o
          BY <4>2, <3>6, <2>2, <3>4 DEF JobFirst
        <4> QED BY <4>1, <4>2
      <3> QED BY <3>5, <3>6 DEF JobFirst
    <2>4. Quiet'
      <3> SUFFICES ASSUME ~contested PROVE (OneWorks /\ Held /\ Gone /\ SecretFirst)'
        BY <2>1 DEF Quiet
      <3>1. OneWorks /\ Held /\ Gone /\ SecretFirst
        BY DEF Quiet
      <3>2. OneWorks'
        BY <2>1, <2>2, <3>1 DEF OneWorks
      <3>3. \A q \in Operators \ {o} : pc'[q] \notin Working
        BY <2>1, <2>2, <3>1 DEF OneWorks
      <3>4. Held'
        BY <2>1, <2>2, <3>1, <3>3 DEF Held
      <3>5. Gone'
        BY <2>2, <3>3 DEF Gone
      <3>6. SecretFirst'
        <4>1. at[o] = 1 => k = "secret"
          BY <2>1, Orders
        <4>2. at[o] > 1 => stored["secret"] # None
          BY <2>1, <3>1 DEF SecretFirst
        <4>3. stored'["secret"] # None
          <5>1. at[o] = 1 \/ at[o] > 1
            BY <2>1
          <5> QED BY <4>1, <4>2, <5>1, <2>1 DEF TypeOK
        <4> QED BY <4>3 DEF SecretFirst
      <3> QED BY <3>2, <3>4, <3>5, <3>6
    <2> QED BY <2>3, <2>4 DEF Inductive
  <1>7. ASSUME NEW o \in Operators, ApplyRefused(o) PROVE Inductive'
    BY <1>7, Undisturbed DEF ApplyRefused, TypeOK
  <1>8. ASSUME NEW o \in Operators, Delete(o) PROVE Inductive'
    <2> DEFINE k == DeleteOrder[at[o]]
    <2>1. /\ pc[o] = "cleanup" /\ at[o] \in Places /\ k \in Kinds
          /\ stored' = [stored EXCEPT ![k] = None]
          /\ UNCHANGED <<resource, contested, launched>>
      BY <1>8, Orders DEF Delete, TypeOK
    <2>2. /\ \A q \in Operators \ {o} : pc'[q] = pc[q] /\ at'[q] = at[q] /\ spec'[q] = spec[q]
          /\ \/ at[o] < 6 /\ pc'[o] = "cleanup" /\ at'[o] = at[o] + 1
             \/ at[o] = 6 /\ pc'[o] = "release"
      BY <1>8, <2>1 DEF Delete, TypeOK
    <2>3. JobFirst'
      <3>1. stored'["api"] # None => stored'["api"] = stored["api"]
        BY <2>1 DEF TypeOK
      <3>2. \A q \in Operators : pc'[q] = "apply" =>
                pc[q] = "apply" /\ at'[q] = at[q] /\ spec'[q] = spec[q]
        BY <2>2
      <3> QED BY <2>1, <3>1, <3>2 DEF JobFirst
    <2>4. Quiet'
      <3> SUFFICES ASSUME ~contested PROVE (OneWorks /\ Held /\ Gone /\ SecretFirst)'
        BY <2>1 DEF Quiet
      <3>1. OneWorks /\ Held /\ Gone /\ SecretFirst
        BY DEF Quiet
      <3>2. OneWorks'
        BY <2>1, <2>2, <3>1 DEF OneWorks
      <3>3. \A q \in Operators \ {o} : pc'[q] \notin Working
        BY <2>1, <2>2, <3>1 DEF OneWorks
      <3>4. \A x \in Kinds : stored[x] = None => stored'[x] = None
        BY <2>1 DEF TypeOK
      <3>5. Held'
        BY <2>1, <2>2, <3>1, <3>3, <3>4 DEF Held, Empty
      <3>6. \A j \in Places : j <= at[o] => stored'[DeleteOrder[j]] = None
        <4> SUFFICES ASSUME NEW j \in Places, j <= at[o] PROVE stored'[DeleteOrder[j]] = None
          OBVIOUS
        <4>1. DeleteOrder[j] \in Kinds
          BY Orders
        <4>2. CASE j = at[o]
          BY <4>1, <4>2, <2>1 DEF TypeOK
        <4>3. CASE j < at[o]
          BY <4>1, <4>3, <2>1, <3>1, <3>4 DEF Gone
        <4> QED BY <4>2, <4>3, <2>1
      <3>7. Gone'
        <4>1. CASE at[o] < 6 /\ pc'[o] = "cleanup" /\ at'[o] = at[o] + 1
          <5>1. \A j \in Places : j < at'[o] => j <= at[o]
            BY <4>1, <2>1
          <5> QED BY <4>1, <5>1, <2>2, <3>3, <3>6 DEF Gone
        <4>2. CASE at[o] = 6 /\ pc'[o] = "release"
          <5>1. Empty'
            BY <4>2, <3>6, Orders DEF Empty
          <5> QED BY <4>2, <5>1, <2>2, <3>3 DEF Gone
        <4> QED BY <4>1, <4>2, <2>2
      <3>8. SecretFirst'
        <4>1. stored'["api"] = None
          <5>1. at[o] = 1 \/ 1 < at[o]
            BY <2>1
          <5>2. DeleteOrder[1] = "api" /\ 1 \in Places /\ 1 <= at[o]
            BY <5>1, Orders, <2>1
          <5> QED BY <5>2, <3>6
        <4>2. \A q \in Operators : pc'[q] # "apply"
          BY <2>2, <3>3
        <4> QED BY <4>1, <4>2 DEF SecretFirst
      <3> QED BY <3>2, <3>5, <3>7, <3>8
    <2> QED BY <2>3, <2>4 DEF Inductive
  <1>9. ASSUME NEW o \in Operators, Release(o) PROVE Inductive'
    <2>1. JobFirst'
      BY <1>9 DEF Release, JobFirst, TypeOK
    <2>2. Quiet'
      <3> SUFFICES ASSUME ~contested PROVE (OneWorks /\ Held /\ Gone /\ SecretFirst)'
        BY <1>9 DEF Quiet, Release
      <3>1. OneWorks /\ Held /\ Gone /\ SecretFirst
        BY DEF Quiet
      <3>2. /\ Empty /\ stored' = stored
            /\ \A q \in Operators : pc'[q] \notin Working
        BY <1>9, <3>1 DEF Release, OneWorks, Gone, TypeOK
      <3>3. Empty'
        BY <3>2 DEF Empty
      <3> QED BY <3>1, <3>2, <3>3 DEF OneWorks, Held, Gone, SecretFirst
    <2> QED BY <2>1, <2>2 DEF Inductive
  <1>10. ASSUME NEW o \in Operators, FailCall(o) PROVE Inductive'
    BY <1>10, Undisturbed DEF FailCall, TypeOK
  <1>11. ASSUME NEW o \in Operators, Crash(o) PROVE Inductive'
    BY <1>11, Undisturbed DEF Crash, TypeOK
  <1>12. ASSUME NEW v \in Versions, CreateResource(v) PROVE Inductive'
    <2>1. ~resource.finalizer
      BY <1>12, PresentCopy DEF CreateResource, TypeOK
    <2> QED BY <1>12, <2>1, Undisturbed DEF CreateResource, Edit, TypeOK
  <1>13. ASSUME NEW v \in Versions, ChangeResource(v) PROVE Inductive'
    BY <1>13, Undisturbed DEF ChangeResource, Edit, TypeOK
  <1>14. CASE DeleteResource
    BY <1>14, Undisturbed DEF DeleteResource, Edit, TypeOK
  <1>15. CASE JobExpires
    <2>1. /\ stored' = [stored EXCEPT !["job"] = None]
          /\ UNCHANGED <<resource, pc, at, spec, launched, contested>>
      BY <1>15 DEF JobExpires
    <2>2. /\ stored'["api"] = stored["api"] /\ stored'["secret"] = stored["secret"]
          /\ \A x \in Kinds : stored[x] = None => stored'[x] = None
      BY <2>1 DEF TypeOK
    <2>3. JobFirst'
      BY <2>1, <2>2 DEF JobFirst
    <2>4. Quiet'
      <3> SUFFICES ASSUME ~contested PROVE (OneWorks /\ Held /\ Gone /\ SecretFirst)'
        BY <2>1 DEF Quiet
      <3>1. OneWorks /\ Held /\ Gone /\ SecretFirst
        BY DEF Quiet
      <3>2. OneWorks' /\ SecretFirst'
        BY <2>1, <2>2, <3>1 DEF OneWorks, SecretFirst
      <3>3. Held'
        BY <2>1, <2>2, <3>1 DEF Held, Empty
      <3>4. Gone'
        BY <2>1, <2>2, <3>1, Orders DEF Gone, Empty
      <3> QED BY <3>2, <3>3, <3>4
    <2> QED BY <2>3, <2>4 DEF Inductive
  <1>16. CASE UNCHANGED vars
    BY <1>16, Undisturbed DEF vars
  <1> QED
    BY <1>1, <1>2, <1>3, <1>4, <1>5, <1>6, <1>7, <1>8, <1>9, <1>10, <1>11, <1>12,
       <1>13, <1>14, <1>15, <1>16
       DEF Next, Step

LEMMA AlwaysInductive == Spec => []Inductive
  BY InitInductive, StepInductive, PTL DEF Spec

-----------------------------------------------------------------------------
(* Every variable keeps its type; in particular a process that applies     *)
(* objects holds a version, and an absent resource has no finalizer.       *)
THEOREM TypeCorrect == Spec => []TypeOK
  BY AlwaysInductive, PTL DEF Inductive

(* Crashes, failed calls, stale caches and resources created again under   *)
(* the same name leave no object behind, unless two processes work at a    *)
(* time.                                                                   *)
THEOREM CleanupIsComplete == Spec => []NothingLeftBehind
  <1>1. Inductive => NothingLeftBehind
    BY PresentCopy DEF Inductive, Quiet, Held, TypeOK, NothingLeftBehind
  <1> QED BY <1>1, AlwaysInductive, PTL

(* An API is deployed after the migration job of its version was created,  *)
(* and while no two processes have worked at a time it has its secret.     *)
THEOREM ApiComesLast == Spec => []ApiIsPrepared
  <1>1. Inductive => ApiIsPrepared
    BY DEF Inductive, Quiet, SecretFirst, JobFirst, ApiIsPrepared
  <1> QED BY <1>1, AlwaysInductive, PTL

-----------------------------------------------------------------------------
(* What ClusterSettles leads to, as states.  The cluster runs what the     *)
(* resource asks for, and every process knows it: those that apply objects *)
(* apply just these, and no cached copy of an earlier resource is left.    *)
Runs == \A k \in Kinds \ {"job"} : stored[k] = resource.version
Informed ==
    \A o \in Operators :
       /\ pc[o] \in {"down", "idle", "apply"}
       /\ pc[o] # "down" => seen[o] = resource
       /\ pc[o] = "apply" => spec[o] = resource.version
Settled == resource.present /\ resource.finalizer /\ ~resource.deleting /\ Runs /\ Informed

(* The cluster is gone, and no process works or still sees a resource.     *)
Removed ==
    /\ ~resource.present
    /\ Empty
    /\ \A o \in Operators : pc[o] \notin Working /\ ~seen[o].present

(* Steps that write neither the resource nor an object, and after which a  *)
(* process is down, knows the resource as it is, or is as it was.          *)
LEMMA SettledUndisturbed ==
    ASSUME Settled, resource' = resource, stored' = stored,
           \A o \in Operators :
              \/ pc'[o] = "down"
              \/ pc'[o] = "idle" /\ seen'[o] = resource
              \/ /\ pc'[o] = "apply" /\ seen'[o] = resource
                 /\ spec'[o] = resource.version
              \/ pc'[o] = pc[o] /\ seen'[o] = seen[o] /\ spec'[o] = spec[o]
    PROVE  Settled'
  <1>1. Runs'
    BY DEF Settled, Runs
  <1>2. Informed'
    BY DEF Settled, Informed
  <1> QED BY <1>1, <1>2 DEF Settled

(* A settled cluster stays so in every step that leaves the resource.      *)
LEMMA SettledStep == Inductive /\ [Next]_vars /\ resource' = resource /\ Settled => Settled'
  <1> SUFFICES ASSUME Inductive, [Next]_vars, resource' = resource, Settled PROVE Settled'
    OBVIOUS
  <1> TypeOK
    BY DEF Inductive
  <1> USE DEF TypeOK, Goto, Rest, Requeue, Advance, Take, Count, locals, history
  <1>0. /\ \A o \in Operators : pc[o] # "down" => seen[o] = resource
        /\ \A o \in Operators : pc[o] \in {"down", "idle", "apply"}
        /\ \A o \in Operators : pc[o] = "apply" => spec[o] = resource.version
        /\ resource.present /\ resource.finalizer /\ ~resource.deleting
    BY DEF Settled, Informed
  <1>1. ASSUME NEW o \in Operators, Start(o) PROVE Settled'
    BY <1>1, SettledUndisturbed DEF Start
  <1>2. ASSUME NEW o \in Operators, Watch(o) PROVE Settled'
    BY <1>0, <1>2 DEF Watch
  <1>3. ASSUME NEW o \in Operators, Claim(o) PROVE Settled'
    BY <1>0, <1>3 DEF Claim
  <1>4. ASSUME NEW o \in Operators, BeginApply(o) PROVE Settled'
    <2>1. seen[o] = resource
      BY <1>0, <1>4 DEF BeginApply
    <2> QED BY <1>4, <2>1, SettledUndisturbed DEF BeginApply
  <1>5. ASSUME NEW o \in Operators, BeginCleanup(o) PROVE Settled'
    BY <1>0, <1>5 DEF BeginCleanup
  <1>6. ASSUME NEW o \in Operators, Apply(o) PROVE Settled'
    <2>1. spec[o] = resource.version /\ seen[o] = resource
      BY <1>0, <1>6 DEF Apply
    <2>2. Runs'
      BY <1>6, <2>1, Orders DEF Apply, Settled, Runs
    <2>3. Informed'
      <3>1. seen' = seen
        BY <1>6 DEF Apply
      <3>2. \A q \in Operators \ {o} : pc'[q] = pc[q] /\ spec'[q] = spec[q]
        BY <1>6 DEF Apply
      <3>3. pc'[o] = "idle" \/ (pc'[o] = "apply" /\ spec'[o] = spec[o])
        BY <1>6 DEF Apply
      <3> QED BY <2>1, <3>1, <3>2, <3>3 DEF Settled, Informed
    <2> QED BY <2>2, <2>3 DEF Settled
  <1>7. ASSUME NEW o \in Operators, ApplyRefused(o) PROVE Settled'
    <2>1. seen[o] = resource
      BY <1>0, <1>7 DEF ApplyRefused
    <2> QED BY <1>7, <2>1, SettledUndisturbed DEF ApplyRefused
  <1>8. ASSUME NEW o \in Operators, Delete(o) PROVE Settled'
    BY <1>0, <1>8 DEF Delete
  <1>9. ASSUME NEW o \in Operators, Release(o) PROVE Settled'
    BY <1>0, <1>9 DEF Release
  <1>10. ASSUME NEW o \in Operators, FailCall(o) PROVE Settled'
    <2>1. seen[o] = resource
      BY <1>0, <1>10 DEF FailCall
    <2> QED BY <1>10, <2>1, SettledUndisturbed DEF FailCall
  <1>11. ASSUME NEW o \in Operators, Crash(o) PROVE Settled'
    BY <1>11, SettledUndisturbed DEF Crash
  <1>12. ASSUME NEW v \in Versions, CreateResource(v) PROVE Settled'
    BY <1>0, <1>12 DEF CreateResource
  <1>13. ASSUME NEW v \in Versions, ChangeResource(v) PROVE Settled'
    <2>1. resource'.version = v
      BY <1>13, OneCopy, AbsentCopy DEF ChangeResource, Edit
    <2> QED BY <1>13, <2>1 DEF ChangeResource
  <1>14. CASE DeleteResource
    <2>1. resource' = [resource EXCEPT !.deleting = TRUE]
      BY <1>0, <1>14 DEF DeleteResource, Edit
    <2>2. resource \in [present : {TRUE}, finalizer : BOOLEAN, deleting : BOOLEAN,
                       version : Versions]
      BY <1>0, OneCopy, AbsentCopy
    <2>3. resource'.deleting
      BY <2>1, <2>2
    <2> QED BY <1>0, <2>3
  <1>15. CASE JobExpires
    <2>1. Runs'
      BY <1>15 DEF JobExpires, Settled, Runs
    <2>2. Informed'
      BY <1>15 DEF JobExpires, Settled, Informed
    <2> QED BY <2>1, <2>2 DEF Settled
  <1>16. CASE UNCHANGED vars
    BY <1>16, SettledUndisturbed DEF vars
  <1> QED
    BY <1>1, <1>2, <1>3, <1>4, <1>5, <1>6, <1>7, <1>8, <1>9, <1>10, <1>11, <1>12,
       <1>13, <1>14, <1>15, <1>16
       DEF Next, Step

(* A removed cluster stays so in every step that leaves the resource.      *)
LEMMA RemovedStep == Inductive /\ [Next]_vars /\ resource' = resource /\ Removed => Removed'
  <1> SUFFICES ASSUME Inductive, [Next]_vars, resource' = resource, Removed PROVE Removed'
    OBVIOUS
  <1> TypeOK
    BY DEF Inductive
  <1> USE DEF TypeOK, Goto, Rest, Requeue, Advance, Take, Count, locals, history, Removed, Empty
  <1>0. \A o \in Operators : ~seen[o].present /\ ~seen[o].finalizer
    BY PresentCopy
  <1>1. ASSUME NEW o \in Operators, Start(o) PROVE Removed'
    BY <1>1 DEF Start
  <1>2. ASSUME NEW o \in Operators, Watch(o) PROVE Removed'
    BY <1>2 DEF Watch
  <1>3. ASSUME NEW o \in Operators, Claim(o) PROVE Removed'
    BY <1>0, <1>3 DEF Claim
  <1>4. ASSUME NEW o \in Operators, BeginApply(o) \/ BeginCleanup(o) PROVE Removed'
    BY <1>0, <1>4 DEF BeginApply, BeginCleanup
  <1>5. ASSUME NEW o \in Operators, Apply(o) \/ ApplyRefused(o) \/ Delete(o) \/ Release(o)
        PROVE  Removed'
    BY <1>5 DEF Apply, ApplyRefused, Delete, Release
  <1>6. ASSUME NEW o \in Operators, FailCall(o) PROVE Removed'
    BY <1>6 DEF FailCall
  <1>7. ASSUME NEW o \in Operators, Crash(o) PROVE Removed'
    BY <1>7, AbsentCopy DEF Crash
  <1>8. ASSUME NEW v \in Versions, CreateResource(v) PROVE Removed'
    <2>1. resource'.present
      BY <1>8 DEF CreateResource, Edit
    <2> QED BY <2>1
  <1>9. CASE (\E v \in Versions : ChangeResource(v)) \/ DeleteResource
    BY <1>9 DEF ChangeResource, DeleteResource
  <1>10. CASE JobExpires
    BY <1>10 DEF JobExpires
  <1>11. CASE UNCHANGED vars
    BY <1>11 DEF vars
  <1> QED
    BY <1>1, <1>2, <1>3, <1>4, <1>5, <1>6, <1>7, <1>8, <1>9, <1>10, <1>11
       DEF Next, Step

(* Only users end it: from a settled or a removed cluster no reconcile,    *)
(* failed call, end of a process, late watch or expired job leads away, as *)
(* long as nobody edits the resource.                                      *)
THEOREM SettledStays ==
    Spec => [][resource' = resource =>
                  /\ Settled => Settled'
                  /\ Removed => Removed']_vars
  <1>1. Inductive /\ [Next]_vars =>
           [resource' = resource => (Settled => Settled') /\ (Removed => Removed')]_vars
    BY SettledStep, RemovedStep
  <1> QED BY <1>1, AlwaysInductive, PTL DEF Spec
=============================================================================
