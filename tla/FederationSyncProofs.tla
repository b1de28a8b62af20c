------------------------ MODULE FederationSyncProofs ------------------------
(***************************************************************************)
(* Mappings, profiles, created and disabled accounts of FederationSync for *)
(* any directory, any number of runs, accounts and events.  The induction  *)
(* needs what a run may rely on between two statements: an account it has  *)
(* looked up keeps its username or is deleted for good.  At the end, what  *)
(* a run that nothing disturbs has put in order at each of its statements. *)
(***************************************************************************)
EXTENDS FederationSync, TLAPS

Row(acc, u) == acc[u] \in {"local", "imported"}

\* What is known of account u once it was found or created for entry e.
Meant(u, e, acc, nm) == acc[u] # "unborn" /\ (Row(acc, u) => nm[u] = NameOf[e])

\* What a run in state x has in its hands, with these accounts and usernames.
Relies(x, acc, nm) ==
    /\ x.step \in {"update", "adopt", "create", "map", "mark"} => x.entry \in Entries
    /\ x.step \in {"update", "adopt", "map", "mark"} =>
          x.user \in Users /\ Meant(x.user, x.entry, acc, nm)
    /\ \A e \in Entries : x.known[e] # None => Meant(x.known[e], e, acc, nm)
    /\ x.step = "off" =>
          /\ x.user \in Users
          /\ acc[x.user] # "unborn"
          /\ Row(acc, x.user) /\ x.seen # Local => NameOf[x.seen] = nm[x.user]

RunsRely == \A r \in Runs : Relies(run[r], account, name)

IInv == TypeOK /\ MappingsAreSound /\ ProfilesBelong /\ RunsRely

\* Usernames stay with their accounts and identities are used once.
RowsKeep ==
    \A u \in Users : account[u] # "unborn" =>
        /\ account'[u] # "unborn"
        /\ Row(account', u) => Row(account, u) /\ name'[u] = name[u]

-----------------------------------------------------------------------------
(* The locals of a run stay locals of a run when one record replaces them. *)
LEMMA RunTyped ==
    ASSUME run \in [Runs -> RunState], NEW r \in Runs, NEW x \in RunState, Becomes(r, x)
    PROVE  run' \in [Runs -> RunState]
<1> HIDE DEF RunState
<1> QED  BY DEF Becomes

(* What a run relies on survives every step of others. *)
LEMMA RelianceLasts ==
    ASSUME NEW x \in RunState, Relies(x, account, name), RowsKeep
    PROVE  Relies(x, account', name')
<1>1. ASSUME NEW u \in Users, NEW e \in Entries, Meant(u, e, account, name)
      PROVE  Meant(u, e, account', name')
  BY <1>1 DEF Meant, RowsKeep
<1>2. \A e \in Entries : x.known[e] # None => Meant(x.known[e], e, account', name')
  <2> TAKE e \in Entries
  <2>1. x.known[e] \in Users \union {None}  BY DEF RunState
  <2> QED  BY <1>1, <2>1 DEF Relies
<1>3. x.step = "off" =>
          /\ x.user \in Users
          /\ account'[x.user] # "unborn"
          /\ Row(account', x.user) /\ x.seen # Local => NameOf[x.seen] = name'[x.user]
  BY DEF Relies, RowsKeep
<1> QED  BY <1>1, <1>2, <1>3 DEF Relies

(* A step that replaces one run's locals by others that may be relied on. *)
LEMMA RunsStillRely ==
    ASSUME RunsRely, RowsKeep, run \in [Runs -> RunState],
           NEW r \in Runs, NEW x \in RunState, Becomes(r, x), Relies(x, account', name')
    PROVE  RunsRely'
<1> SUFFICES ASSUME NEW s \in Runs PROVE Relies(run'[s], account', name')
  BY DEF RunsRely, Relies, Meant, Row
<1>1. CASE s = r  BY <1>1 DEF Becomes
<1>2. CASE s # r
  <2>1. run'[s] = run[s] /\ run[s] \in RunState  BY <1>2 DEF Becomes
  <2>2. Relies(run[s], account, name)  BY DEF RunsRely
  <2> QED  BY <2>1, <2>2, RelianceLasts
<1> QED  BY <1>1, <1>2

(* What a run relies on survives a step that moves no run.                 *)
LEMMA OthersStillRely ==
    ASSUME RunsRely, RowsKeep, run \in [Runs -> RunState], run' = run
    PROVE  RunsRely'
<1> SUFFICES ASSUME NEW s \in Runs PROVE Relies(run'[s], account', name')
  BY DEF RunsRely, Relies, Meant, Row
<1>1. run[s] \in RunState /\ Relies(run[s], account, name)  BY DEF RunsRely
<1> QED  BY <1>1, RelianceLasts

(* A step that writes no account keeps the rows.                           *)
LEMMA RowsUntouched ==
    ASSUME UNCHANGED <<account, name>>
    PROVE  RowsKeep
BY DEF RowsKeep, Row

-----------------------------------------------------------------------------
(* Usernames: rows are inserted under new ids, and deletion is for good. *)
LEMMA NextKeepsRows == ASSUME TypeOK, Next PROVE RowsKeep
<1>1. ASSUME NEW u \in Users, NEW n, NEW by, NEW e, InsertRow(u, n, by, e)  PROVE RowsKeep
  BY <1>1 DEF InsertRow, RowsKeep, Row, TypeOK
<1>2. CASE \E r \in Runs, u \in Users : CreateUser(r, u)
  BY <1>1, <1>2, RowsUntouched DEF CreateUser
<1>3. CASE \E u \in Users, n \in Names : CreateLocal(u, n)
  BY <1>1, <1>3 DEF CreateLocal
<1>4. CASE \E u \in Users : DeleteUser(u)
  BY <1>4 DEF DeleteUser, RowsKeep, Row, TypeOK
<1>5. CASE \E r \in Runs, mode \in Modes, listing \in SUBSET directory : Start(r, mode, listing)
  BY <1>5, RowsUntouched DEF Start, users
<1>6. CASE \E r \in Runs, e \in Entries : LookAtMapped(r, e) \/ LookForOrphan(r, e)
  BY <1>6, RowsUntouched DEF LookAtMapped, LookForOrphan, users
<1>7. CASE \E r \in Runs, u \in Users : LookAtMissing(r, u)
  BY <1>7, RowsUntouched DEF LookAtMissing, users
<1>8. CASE \E r \in Runs :
          \/ ReadMappings(r)
          \/ Update(r)
          \/ Adopt(r)
          \/ MapUser(r)
          \/ Mark(r)
          \/ ListMissing(r)
          \/ Disable(r)
          \/ Complete(r)
          \/ FailStatement(r)
          \/ Crash(r)
  BY <1>8, RowsUntouched DEF ReadMappings, Update, Adopt, MapUser, Mark, ListMissing, Disable,
     Complete, FailStatement, Crash, Abandon, users
<1>9. CASE \E u \in Users, on \in BOOLEAN : EditUser(u, on)
  BY <1>9, RowsUntouched DEF EditUser
<1>10. CASE \E e \in Entries : DirectoryMoves(e)
  BY <1>10, RowsUntouched DEF DirectoryMoves, users
<1> QED  BY <1>2, <1>3, <1>4, <1>5, <1>6, <1>7, <1>8, <1>9, <1>10 DEF Next

-----------------------------------------------------------------------------
(* The locals of the runs, over every step. *)
LEMMA LocalsStay == ASSUME IInv, Next PROVE run' \in [Runs -> RunState] /\ RunsRely'
<1> DEFINE Goal == run' \in [Runs -> RunState] /\ RunsRely'
<1> USE DEF IInv
<1>1. RowsKeep  BY NextKeepsRows
<1>2. run \in [Runs -> RunState]  BY DEF TypeOK
<1>3. ASSUME NEW r \in Runs, NEW x \in RunState, Becomes(r, x), Relies(x, account', name')
      PROVE  Goal
  BY <1>1, <1>2, <1>3, RunTyped, RunsStillRely
<1>4. ASSUME run' = run PROVE Goal
  BY <1>1, <1>2, <1>4, OthersStillRely
<1>5. ASSUME NEW r \in Runs
      PROVE  run[r] \in RunState /\ Relies(run[r], account', name')
  BY <1>1, <1>2, RelianceLasts DEF RunsRely
\* Locals in which nothing is held but the mappings that were read.
<1>6. ASSUME NEW r \in Runs, NEW x \in RunState, Becomes(r, x), x.step \in {"loop", "disable"},
             \A e \in Entries : x.known[e] \in {None, run[r].known[e]}
      PROVE  Goal
  <2>1. Relies(x, account', name')  BY <1>5, <1>6 DEF Relies
  <2> QED  BY <1>3, <1>6, <2>1
<1>7. Idle \in RunState  BY DEF Idle, RunState
<1>8. \A e \in Entries : Idle.known[e] = None  BY DEF Idle
<1>9. ASSUME NEW r \in Runs, Becomes(r, Idle) PROVE Goal
  <2>1. Relies(Idle, account', name')  BY <1>8 DEF Relies, Idle
  <2> QED  BY <1>3, <1>7, <1>9, <2>1
<1>10. ASSUME NEW r \in Runs, NextEntry(r) PROVE Goal
  <2> DEFINE x == [run[r] EXCEPT !.step = "loop", !.todo = @ \ {run[r].entry},
                                 !.entry = None, !.user = None]
  <2>1. x \in RunState  BY <1>5 DEF RunState
  <2>2. Becomes(r, x)  BY <1>10 DEF NextEntry
  <2>3. x.known = run[r].known /\ x.step = "loop"  BY <1>5 DEF RunState
  <2> QED  BY <1>6, <2>1, <2>2, <2>3
<1>11. ASSUME NEW r \in Runs, NEW mode \in Modes, NEW listing \in SUBSET directory,
              Start(r, mode, listing)
       PROVE  Goal
  <2> DEFINE x == [Idle EXCEPT !.step = "listed", !.mode = mode, !.listing = listing]
  <2>1. x \in RunState  BY <1>7 DEF RunState, TypeOK
  <2>2. Relies(x, account', name')  BY <1>7, <1>8 DEF Relies, RunState
  <2> QED  BY <1>3, <1>11, <2>1, <2>2 DEF Start
<1>12. ASSUME NEW r \in Runs, ReadMappings(r) PROVE Goal
  <2> DEFINE read == [e \in Entries |-> IF e \in run[r].listing THEN mapping[e] ELSE None]
             x == [run[r] EXCEPT !.step = "loop", !.todo = run[r].listing, !.known = read]
  <2>0. read \in [Entries -> Users \union {None}]  BY DEF TypeOK
  <2>1. x \in RunState  BY <1>5, <2>0 DEF RunState
  <2>2. x.step = "loop" /\ x.known = read  BY <1>5 DEF RunState
  <2>3. \A e \in Entries : read[e] # None => Meant(read[e], e, account', name')
    BY <1>12 DEF ReadMappings, MappingsAreSound, Stored, Meant, Row, users
  <2>4. Relies(x, account', name')  BY <2>2, <2>3 DEF Relies
  <2> QED  BY <1>3, <1>12, <2>1, <2>4 DEF ReadMappings
<1>13. ASSUME NEW r \in Runs, NEW e \in Entries, LookAtMapped(r, e) PROVE Goal
  <2>0. PICK known \in [Entries -> Users \union {None}] : known = [run[r].known EXCEPT ![e] = None]
    BY <1>5 DEF RunState
  <2> DEFINE u == run[r].known[e]
             x == [run[r] EXCEPT !.step = "update", !.entry = e, !.user = u, !.known = known]
             y == [run[r] EXCEPT !.todo = @ \ {e}, !.known = known]
  <2>1. \A f \in Entries : known[f] \in {None, run[r].known[f]}  BY <1>5, <2>0 DEF RunState
  <2>2. run[r].step = "loop" /\ u # None  BY <1>13 DEF LookAtMapped
  <2>3. CASE Becomes(r, x)
    <3>1. u \in Users /\ Meant(u, e, account', name')
      BY <1>5, <2>2 DEF RunState, Relies
    <3>2. x \in RunState  BY <1>5, <3>1 DEF RunState
    <3>3. x.step = "update" /\ x.entry = e /\ x.user = u /\ x.known = known
      BY <1>5 DEF RunState
    <3>4. Relies(x, account', name')  BY <1>5, <2>1, <3>1, <3>3 DEF Relies
    <3> QED  BY <1>3, <2>3, <3>2, <3>4
  <2>4. CASE Becomes(r, y)
    <3>1. y \in RunState  BY <1>5 DEF RunState
    <3>2. y.known = known /\ y.step = "loop"  BY <1>5, <2>2 DEF RunState
    <3>3. \A f \in Entries : y.known[f] \in {None, run[r].known[f]}  BY <2>1, <3>2
    <3> HIDE DEF y
    <3> QED  BY <1>6, <2>4, <3>1, <3>2, <3>3
  <2> QED  BY <1>13, <2>0, <2>3, <2>4 DEF LookAtMapped
<1>14. ASSUME NEW r \in Runs, NEW e \in Entries, LookForOrphan(r, e) PROVE Goal
  <2>1. CASE Becomes(r, [run[r] EXCEPT !.step = "create", !.entry = e])
    <3> DEFINE x == [run[r] EXCEPT !.step = "create", !.entry = e]
    <3>1. x \in RunState  BY <1>5 DEF RunState
    <3>2. x.step = "create" /\ x.entry = e /\ x.known = run[r].known  BY <1>5 DEF RunState
    <3>3. Relies(x, account', name')  BY <1>5, <3>2 DEF Relies
    <3> QED  BY <1>3, <2>1, <3>1, <3>3
  <2>2. ASSUME NEW u \in Named(NameOf[e]),
               Becomes(r, [run[r] EXCEPT !.step = "adopt", !.entry = e, !.user = u])
        PROVE  Goal
    <3> DEFINE x == [run[r] EXCEPT !.step = "adopt", !.entry = e, !.user = u]
    <3>1. u \in Users /\ Meant(u, e, account', name')
      BY <1>14 DEF LookForOrphan, users, Named, Stored, Meant, Row
    <3>2. x \in RunState  BY <1>5, <3>1 DEF RunState
    <3>3. x.step = "adopt" /\ x.entry = e /\ x.user = u /\ x.known = run[r].known
      BY <1>5 DEF RunState
    <3>4. Relies(x, account', name')  BY <1>5, <3>1, <3>3 DEF Relies
    <3> QED  BY <1>3, <2>2, <3>2, <3>4
  <2> QED  BY <1>14, <2>1, <2>2 DEF LookForOrphan
<1>15. ASSUME NEW r \in Runs, Update(r) PROVE Goal
  BY <1>10, <1>15 DEF Update
<1>16. ASSUME NEW r \in Runs, Adopt(r) PROVE Goal
  <2> DEFINE x == [run[r] EXCEPT !.step = "map"]
  <2>1. x \in RunState  BY <1>5 DEF RunState
  <2>2. x.step = "map" /\ x.known = run[r].known /\ x.entry = run[r].entry
          /\ x.user = run[r].user
    BY <1>5 DEF RunState
  <2>3. run[r].step = "adopt"  BY <1>16 DEF Adopt
  <2>4. Relies(x, account', name')  BY <1>5, <2>2, <2>3 DEF Relies
  <2> QED  BY <1>3, <1>10, <1>16, <2>1, <2>4 DEF Adopt, Goto
<1>17. ASSUME NEW r \in Runs, NEW u \in Users, CreateUser(r, u) PROVE Goal
  <2> DEFINE x == [run[r] EXCEPT !.step = "map", !.user = u]
  <2>1. x \in RunState  BY <1>5 DEF RunState
  <2>2. x.step = "map" /\ x.known = run[r].known /\ x.entry = run[r].entry /\ x.user = u
    BY <1>5 DEF RunState
  <2>3. run[r].step = "create"  BY <1>17 DEF CreateUser
  <2>4. ASSUME InsertRow(u, NameOf[run[r].entry], "imported", run[r].entry)
        PROVE  Relies(x, account', name')
    <3>1. account'[u] = "imported" /\ name'[u] = NameOf[run[r].entry]
      BY <2>4 DEF InsertRow, TypeOK
    <3>2. Meant(u, run[r].entry, account', name')  BY <3>1 DEF Meant
    <3> QED  BY <1>5, <2>2, <2>3, <3>2 DEF Relies
  <2> QED  BY <1>3, <1>10, <1>17, <2>1, <2>4 DEF CreateUser
<1>18. ASSUME NEW r \in Runs, MapUser(r) PROVE Goal
  <2> DEFINE x == [run[r] EXCEPT !.step = "mark"]
  <2>1. x \in RunState  BY <1>5 DEF RunState
  <2>2. x.step = "mark" /\ x.known = run[r].known /\ x.entry = run[r].entry
          /\ x.user = run[r].user
    BY <1>5 DEF RunState
  <2>3. run[r].step = "map"  BY <1>18 DEF MapUser
  <2>4. Relies(x, account', name')  BY <1>5, <2>2, <2>3 DEF Relies
  <2> QED  BY <1>3, <1>10, <1>18, <2>1, <2>4 DEF MapUser, Goto
<1>19. ASSUME NEW r \in Runs, Mark(r) PROVE Goal
  BY <1>10, <1>19 DEF Mark
<1>20. ASSUME NEW r \in Runs, ListMissing(r) PROVE Goal
  <2> DEFINE x == [run[r] EXCEPT !.step = "disable", !.missing = Unlisted(r)]
  <2>1. Unlisted(r) \subseteq Users  BY DEF Unlisted, TypeOK
  <2>2. x \in RunState  BY <1>5, <2>1 DEF RunState
  <2>3. x.step = "disable" /\ x.known = run[r].known  BY <1>5 DEF RunState
  <2> QED  BY <1>6, <1>20, <2>2, <2>3 DEF ListMissing
<1>21. ASSUME NEW r \in Runs, NEW u \in Users, LookAtMissing(r, u) PROVE Goal
  <2> DEFINE x == [run[r] EXCEPT !.step = "off", !.missing = @ \ {u}, !.user = u,
                                 !.seen = profile[u]]
             y == [run[r] EXCEPT !.missing = @ \ {u}]
  <2>1. run[r].step = "disable" /\ account' = account /\ name' = name
    BY <1>21 DEF LookAtMissing, users
  <2>2. ASSUME Stored(u), Becomes(r, x) PROVE Goal
    <3>0. profile[u] \in Entries \union {Local}  BY DEF TypeOK
    <3>1. x \in RunState  BY <1>5, <3>0 DEF RunState
    <3>2. x.step = "off" /\ x.user = u /\ x.seen = profile[u] /\ x.known = run[r].known
      BY <1>5 DEF RunState
    <3>3. account'[u] # "unborn" /\ (profile[u] # Local => NameOf[profile[u]] = name'[u])
      BY <2>1, <2>2 DEF Stored, ProfilesBelong
    <3>4. Relies(x, account', name')  BY <1>5, <3>2, <3>3 DEF Relies
    <3> QED  BY <1>3, <2>2, <3>1, <3>4
  <2>3. CASE Becomes(r, y)
    <3>1. y \in RunState  BY <1>5 DEF RunState
    <3>2. y.known = run[r].known /\ y.step = "disable"  BY <1>5, <2>1 DEF RunState
    <3> QED  BY <1>6, <2>3, <3>1, <3>2
  <2> QED  BY <1>21, <2>2, <2>3 DEF LookAtMissing
\* A disabling that was done or has failed: on to the next account.
<1>22. ASSUME NEW r \in Runs,
              Becomes(r, [run[r] EXCEPT !.step = "disable", !.user = None, !.seen = Local])
       PROVE  Goal
  <2> DEFINE x == [run[r] EXCEPT !.step = "disable", !.user = None, !.seen = Local]
  <2>1. x \in RunState  BY <1>5 DEF RunState
  <2>2. x.known = run[r].known /\ x.step = "disable"  BY <1>5 DEF RunState
  <2> QED  BY <1>6, <1>22, <2>1, <2>2
<1>23. ASSUME NEW r \in Runs, Disable(r) PROVE Goal
  BY <1>22, <1>23 DEF Disable
<1>24. ASSUME NEW r \in Runs, Complete(r) \/ Crash(r) PROVE Goal
  BY <1>9, <1>24 DEF Complete, Crash
<1>25. ASSUME NEW r \in Runs, FailStatement(r) PROVE Goal
  BY <1>10, <1>22, <1>25 DEF FailStatement
<1>26. CASE \/ \E u \in Users, n \in Names : CreateLocal(u, n)
            \/ \E u \in Users, on \in BOOLEAN : EditUser(u, on)
            \/ \E u \in Users : DeleteUser(u)
            \/ \E e \in Entries : DirectoryMoves(e)
  BY <1>4, <1>26 DEF CreateLocal, EditUser, DeleteUser, DirectoryMoves
<1> QED
  BY <1>11, <1>12, <1>13, <1>14, <1>15, <1>16, <1>17, <1>18, <1>19, <1>20, <1>21, <1>23, <1>24,
     <1>25, <1>26 DEF Next

-----------------------------------------------------------------------------
(* Nothing is synchronised yet, so all that is relied on holds.            *)
LEMMA InitIInv == ASSUME Init PROVE IInv
<1>1. Idle \in RunState  BY DEF Idle, RunState
<1>2. TypeOK  BY <1>1, EventsAssumption DEF Init, TypeOK
<1>3. MappingsAreSound /\ ProfilesBelong  BY DEF Init, MappingsAreSound, ProfilesBelong
<1>4. RunsRely  BY DEF Init, RunsRely, Relies, Idle
<1> QED  BY <1>2, <1>3, <1>4 DEF IInv

(* What update_user does to a stored row. *)
LEMMA UpdatedRow ==
    ASSUME TypeOK, ProfilesBelong, NEW u \in Users, NEW e \in Entries \union {Local},
           NEW on \in BOOLEAN, UpdateRow(u, e, on), UNCHANGED <<account, name>>,
           Stored(u) /\ e # Local => NameOf[e] = name[u]
    PROVE  /\ profile' \in [Users -> Entries \union {Local}]
           /\ enabled' \in [Users -> BOOLEAN]
           /\ \A v \in Users : enabled'[v] => account'[v] \in {"local", "imported"}
           /\ ProfilesBelong'
BY DEF UpdateRow, TypeOK, ProfilesBelong, Stored

(* What an insertion does. *)
LEMMA InsertedRow ==
    ASSUME TypeOK, ProfilesBelong, MappingsAreSound, NEW u \in Users, NEW n \in Names,
           NEW by \in {"local", "imported"}, NEW e \in Entries \union {Local},
           e # Local => NameOf[e] = n, InsertRow(u, n, by, e), UNCHANGED mapping
    PROVE  /\ account' \in [Users -> {"unborn", "local", "imported", "deleted"}]
           /\ name' \in [Users -> Names \union {None}]
           /\ enabled' \in [Users -> BOOLEAN]
           /\ \A v \in Users : enabled'[v] => account'[v] \in {"local", "imported"}
           /\ profile' \in [Users -> Entries \union {Local}]
           /\ ProfilesBelong'
           /\ MappingsAreSound'
<1>1. account' \in [Users -> {"unborn", "local", "imported", "deleted"}]
  BY DEF InsertRow, TypeOK
<1>2. name' \in [Users -> Names \union {None}]  BY DEF InsertRow, TypeOK
<1>3. enabled' \in [Users -> BOOLEAN]  BY DEF InsertRow, TypeOK
<1>4. \A v \in Users : enabled'[v] => account'[v] \in {"local", "imported"}
  BY DEF InsertRow, TypeOK
<1>5. profile' \in [Users -> Entries \union {Local}]  BY DEF InsertRow, TypeOK
<1>6. ProfilesBelong'  BY DEF InsertRow, TypeOK, ProfilesBelong
<1>7. MappingsAreSound'
  BY DEF InsertRow, TypeOK, MappingsAreSound, Stored, MappedEntries
<1> QED  BY <1>1, <1>2, <1>3, <1>4, <1>5, <1>6, <1>7

(* The bound on events holds.                                              *)
LEMMA EventsCounted == ASSUME TypeOK, Event PROVE events' \in 0 .. MaxEvents
BY EventsAssumption DEF Event, TypeOK

-----------------------------------------------------------------------------
(* The tables, over every step. *)
LEMMA TablesStay == ASSUME IInv, Next PROVE TypeOK' /\ ProfilesBelong' /\ MappingsAreSound'
<1> DEFINE Goal == TypeOK' /\ ProfilesBelong' /\ MappingsAreSound'
           Marks == quiet' \in SUBSET Runs /\ events' \in 0 .. MaxEvents
<1> USE DEF IInv
<1>1. run' \in [Runs -> RunState]  BY LocalsStay
<1>2. ASSUME DisturbAll PROVE Marks
  BY <1>2, EventsCounted DEF DisturbAll
<1>3. ASSUME NEW r \in Runs, DisturbOthers(r) PROVE Marks
  BY <1>3 DEF DisturbOthers, TypeOK
<1>4. ASSUME UNCHANGED <<users, mapping, directory>>, abandoned' \in SUBSET Users, Marks
      PROVE  Goal
  <2>1. TypeOK'  BY <1>1, <1>4 DEF TypeOK, users
  <2>2. ProfilesBelong'  BY <1>4 DEF ProfilesBelong, users
  <2>3. MappingsAreSound'  BY <1>4 DEF MappingsAreSound, Stored, MappedEntries, users
  <2> QED  BY <2>1, <2>2, <2>3
<1>5. CASE \E r \in Runs, mode \in Modes, listing \in SUBSET directory : Start(r, mode, listing)
  <2>1. Marks  BY <1>5, EventsCounted DEF Start, Disturb, TypeOK
  <2>2. abandoned' \in SUBSET Users  BY <1>5 DEF Start, TypeOK
  <2> QED  BY <1>4, <1>5, <2>1, <2>2 DEF Start
<1>6. CASE \E r \in Runs, e \in Entries : LookForOrphan(r, e)
  <2>1. Marks  BY <1>6, EventsCounted DEF LookForOrphan, Disturb, TypeOK
  <2>2. abandoned' \in SUBSET Users  BY <1>6 DEF LookForOrphan, TypeOK
  <2> QED  BY <1>4, <1>6, <2>1, <2>2 DEF LookForOrphan
<1>7. CASE \/ \E r \in Runs, e \in Entries : LookAtMapped(r, e)
           \/ \E r \in Runs, u \in Users : LookAtMissing(r, u)
           \/ \E r \in Runs : ReadMappings(r) \/ ListMissing(r)
  <2>1. UNCHANGED <<events, users, mapping, directory, quiet, abandoned>>
    BY <1>7 DEF LookAtMapped, LookAtMissing, ReadMappings, ListMissing
  <2>2. Marks /\ abandoned' \in SUBSET Users  BY <2>1 DEF TypeOK
  <2> QED  BY <1>4, <2>1, <2>2
<1>8. CASE \E r \in Runs : Complete(r)
  <2>1. Marks /\ abandoned' \in SUBSET Users  BY <1>8 DEF Complete, Disturb, TypeOK
  <2> QED  BY <1>4, <1>8, <2>1 DEF Complete
<1>9. CASE \E r \in Runs : FailStatement(r) \/ Crash(r)
  <2>1. PICK r \in Runs : Abandon(r)  BY <1>9 DEF FailStatement, Crash
  <2>2. Marks  BY <2>1, EventsCounted DEF Abandon, Disturb, TypeOK
  <2>3. run[r].step = "map" => run[r].user \in Users  BY DEF RunsRely, Relies
  <2>4. abandoned' \in SUBSET Users  BY <2>1, <2>3 DEF Abandon, TypeOK
  <2> QED  BY <1>4, <2>1, <2>2, <2>4 DEF Abandon
<1>10. ASSUME NEW u \in Users, NEW e \in Entries \union {Local}, NEW on \in BOOLEAN,
              UpdateRow(u, e, on), Stored(u) /\ e # Local => NameOf[e] = name[u], Marks,
              UNCHANGED <<account, name, password, mapping, directory, abandoned>>
       PROVE  Goal
  <2>1. /\ profile' \in [Users -> Entries \union {Local}]
        /\ enabled' \in [Users -> BOOLEAN]
        /\ \A v \in Users : enabled'[v] => account'[v] \in {"local", "imported"}
        /\ ProfilesBelong'
    BY <1>10, UpdatedRow
  <2>2. TypeOK'  BY <1>1, <1>10, <2>1 DEF TypeOK
  <2>3. MappingsAreSound'  BY <1>10 DEF MappingsAreSound, Stored, MappedEntries
  <2> QED  BY <2>1, <2>2, <2>3
<1>11. ASSUME NEW r \in Runs, Update(r) \/ Adopt(r) PROVE Goal
  <2> DEFINE u == run[r].user
             e == run[r].entry
  <2>1. u \in Users /\ e \in Entries /\ (Stored(u) => name[u] = NameOf[e])
    BY <1>11 DEF Update, Adopt, RunsRely, Relies, Meant, Row, Stored
  <2>2. Marks  BY <1>3, <1>11 DEF Update, Adopt
  <2>3. UpdateRow(u, e, TRUE)
    BY <1>11 DEF Update, Adopt
  <2> QED  BY <1>10, <1>11, <2>1, <2>2, <2>3 DEF Update, Adopt
<1>12. ASSUME NEW r \in Runs, Disable(r) PROVE Goal
  <2> DEFINE u == run[r].user
             e == run[r].seen
  <2>1. u \in Users /\ (Stored(u) /\ e # Local => NameOf[e] = name[u])
    BY <1>12 DEF Disable, RunsRely, Relies, Row, Stored
  <2>2. e \in Entries \union {Local}
    <3>1. run[r] \in RunState  BY DEF TypeOK
    <3> QED  BY <3>1 DEF RunState
  <2>3. Marks  BY <1>3, <1>12 DEF Disable
  <2> QED  BY <1>10, <1>12, <2>1, <2>2, <2>3 DEF Disable
<1>13. ASSUME NEW u \in Users, NEW on \in BOOLEAN, EditUser(u, on) PROVE Goal
  <2>1. Marks  BY <1>2, <1>13 DEF EditUser
  <2> QED  BY <1>10, <1>13, <2>1 DEF EditUser
<1>14. ASSUME NEW u \in Users, NEW n \in Names, NEW by \in {"local", "imported"},
              NEW e \in Entries \union {Local}, e # Local => NameOf[e] = n, Marks,
              InsertRow(u, n, by, e), UNCHANGED <<password, mapping, directory, abandoned>>
       PROVE  Goal
  <2>1. /\ account' \in [Users -> {"unborn", "local", "imported", "deleted"}]
        /\ name' \in [Users -> Names \union {None}]
        /\ enabled' \in [Users -> BOOLEAN]
        /\ \A v \in Users : enabled'[v] => account'[v] \in {"local", "imported"}
        /\ profile' \in [Users -> Entries \union {Local}]
        /\ ProfilesBelong'
        /\ MappingsAreSound'
    BY <1>14, InsertedRow
  <2>2. TypeOK'  BY <1>1, <1>14, <2>1 DEF TypeOK
  <2> QED  BY <2>1, <2>2
<1>15. ASSUME NEW r \in Runs, NEW u \in Users, CreateUser(r, u) PROVE Goal
  <2> DEFINE e == run[r].entry
  <2>1. e \in Entries  BY <1>15 DEF CreateUser, RunsRely, Relies
  <2>2. NameOf[e] \in Names  BY <2>1, NamesAssumption
  <2>3. Marks  BY <1>3, <1>15 DEF CreateUser
  <2>4. CASE InsertRow(u, NameOf[e], "imported", e)
    BY <1>14, <1>15, <2>1, <2>2, <2>3, <2>4 DEF CreateUser
  <2>5. CASE UNCHANGED <<account, name, enabled, profile>>
    <3>1. abandoned' \in SUBSET Users  BY <1>15 DEF CreateUser, TypeOK
    <3> QED  BY <1>4, <1>15, <2>3, <2>5, <3>1 DEF CreateUser, users
  <2> QED  BY <1>15, <2>4, <2>5 DEF CreateUser
<1>16. ASSUME NEW u \in Users, NEW n \in Names, CreateLocal(u, n) PROVE Goal
  <2>1. Marks  BY <1>2, <1>16 DEF CreateLocal
  <2> QED  BY <1>14, <1>16, <2>1 DEF CreateLocal
<1>17. ASSUME NEW r \in Runs, MapUser(r) PROVE Goal
  <2> DEFINE u == run[r].user
             e == run[r].entry
  <2>1. u \in Users /\ e \in Entries /\ (Stored(u) => name[u] = NameOf[e])
    BY <1>17 DEF MapUser, RunsRely, Relies, Meant, Row, Stored
  <2>2. Marks  BY <1>3, <1>17 DEF MapUser
  <2>3. UNCHANGED <<users, directory, abandoned>>  BY <1>17 DEF MapUser
  <2>4. CASE mapping' = mapping
    <3>1. abandoned' \in SUBSET Users  BY <2>3 DEF TypeOK
    <3> QED  BY <1>4, <2>2, <2>3, <2>4, <3>1
  <2>5. CASE /\ Stored(u) /\ MappedEntries(u) = {}
             /\ mapping' = [mapping EXCEPT ![e] = u]
    <3>1. TypeOK'  BY <1>1, <2>1, <2>2, <2>3, <2>5 DEF TypeOK, users
    <3>2. ProfilesBelong'  BY <2>3 DEF ProfilesBelong, users
    <3>3. MappingsAreSound'
      BY <2>1, <2>3, <2>5 DEF MappingsAreSound, MappedEntries, Stored, TypeOK, users
    <3> QED  BY <3>1, <3>2, <3>3
  <2> QED  BY <1>17, <2>4, <2>5 DEF MapUser
<1>18. ASSUME NEW r \in Runs, Mark(r) PROVE Goal
  <2>1. run[r].user \in Users  BY <1>18 DEF Mark, RunsRely, Relies
  <2>2. Marks  BY <1>3, <1>18 DEF Mark
  <2>3. UNCHANGED <<account, name, enabled, profile, mapping, directory, abandoned>>
    BY <1>18 DEF Mark
  <2>4. password' \in SUBSET Users  BY <1>18, <2>1 DEF Mark, TypeOK
  <2>5. TypeOK'  BY <1>1, <2>2, <2>3, <2>4 DEF TypeOK
  <2>6. ProfilesBelong'  BY <2>3 DEF ProfilesBelong
  <2>7. MappingsAreSound'  BY <2>3 DEF MappingsAreSound, MappedEntries, Stored
  <2> QED  BY <2>5, <2>6, <2>7
<1>19. ASSUME NEW u \in Users, DeleteUser(u) PROVE Goal
  <2>1. Marks  BY <1>2, <1>19 DEF DeleteUser
  <2>2. TypeOK'  BY <1>1, <1>19, <2>1 DEF DeleteUser, TypeOK
  <2>3. ProfilesBelong'  BY <1>19 DEF DeleteUser, ProfilesBelong, TypeOK
  <2>4. MappingsAreSound'
    BY <1>19, ForeignAssumption DEF DeleteUser, MappingsAreSound, MappedEntries, Stored, TypeOK
  <2> QED  BY <2>2, <2>3, <2>4
<1>20. ASSUME NEW e \in Entries, DirectoryMoves(e) PROVE Goal
  <2>1. Marks  BY <1>2, <1>20 DEF DirectoryMoves
  <2>2. UNCHANGED <<users, mapping, run, abandoned>> /\ directory' \in SUBSET Entries
    BY <1>20 DEF DirectoryMoves, TypeOK
  <2>3. TypeOK'  BY <1>1, <2>1, <2>2 DEF TypeOK, users
  <2>4. ProfilesBelong'  BY <2>2 DEF ProfilesBelong, users
  <2>5. MappingsAreSound'  BY <2>2 DEF MappingsAreSound, MappedEntries, Stored, users
  <2> QED  BY <2>3, <2>4, <2>5
<1> QED
  BY <1>5, <1>6, <1>7, <1>8, <1>9, <1>11, <1>12, <1>13, <1>15, <1>16, <1>17, <1>18, <1>19, <1>20
  DEF Next

-----------------------------------------------------------------------------
(* The induction. *)
LEMMA StutterIInv == ASSUME IInv, UNCHANGED vars PROVE IInv'
<1> USE DEF vars, users, IInv
<1>1. TypeOK'  BY DEF TypeOK
<1>2. ProfilesBelong'  BY DEF ProfilesBelong
<1>3. MappingsAreSound'  BY DEF MappingsAreSound, MappedEntries, Stored
<1>4. RunsRely'  BY DEF RunsRely, Relies, Meant, Row
<1> QED  BY <1>1, <1>2, <1>3, <1>4

(* The inductive invariant: whatever a run holds is an account that had    *)
(* the entry's username when it was looked up or made, and has it still.   *)
THEOREM Invariance == Spec => []IInv
<1>1. Init => IInv  BY InitIInv
<1>2. IInv /\ [Next]_vars => IInv'
  BY LocalsStay, TablesStay, StutterIInv DEF IInv
<1> QED  BY <1>1, <1>2, PTL DEF Spec

(* Every variable keeps its type, and only stored accounts are enabled. *)
THEOREM TypeCorrect == Spec => []TypeOK
<1>1. IInv => TypeOK  BY DEF IInv
<1> QED  BY <1>1, Invariance, PTL

(* create_mapping never links an entry to an account of another username,  *)
(* to a deleted one, or to one that has a mapping already.                 *)
THEOREM SoundMappings == Spec => []MappingsAreSound
<1>1. IInv => MappingsAreSound  BY DEF IInv
<1> QED  BY <1>1, Invariance, PTL

(* No run writes e-mail and names into an account of another username than *)
(* their entry's, however stale its lookup.                                *)
THEOREM ProfilesBelongToNames == Spec => []ProfilesBelong
<1>1. IInv => ProfilesBelong  BY DEF IInv
<1> QED  BY <1>1, Invariance, PTL

-----------------------------------------------------------------------------
(* ImportedAreClaimed needs one more fact, the unique index on usernames.  *)
UniqueNames ==
    \A u, v \in Users : Stored(u) /\ Stored(v) /\ name[u] = name[v] => u = v

(* No step gives a username to a second stored account.                    *)
LEMMA NextKeepsUnique == ASSUME TypeOK, UniqueNames, Next PROVE UniqueNames'
<1>1. ASSUME NEW u \in Users, NEW n, NEW by, NEW e, InsertRow(u, n, by, e), Named(n) = {}
      PROVE  UniqueNames'
  BY <1>1 DEF InsertRow, Named, UniqueNames, Stored, TypeOK
<1>2. ASSUME UNCHANGED <<account, name>> PROVE UniqueNames'
  BY <1>2 DEF UniqueNames, Stored
<1>3. CASE \E r \in Runs, u \in Users : CreateUser(r, u)
  BY <1>1, <1>2, <1>3 DEF CreateUser
<1>4. CASE \E u \in Users, n \in Names : CreateLocal(u, n)
  BY <1>1, <1>4 DEF CreateLocal
<1>5. CASE \E u \in Users : DeleteUser(u)
  BY <1>5 DEF DeleteUser, UniqueNames, Stored, TypeOK
<1>6. CASE \/ \E r \in Runs, mode \in Modes, listing \in SUBSET directory : Start(r, mode, listing)
           \/ \E r \in Runs, e \in Entries : LookAtMapped(r, e) \/ LookForOrphan(r, e)
           \/ \E r \in Runs, u \in Users : LookAtMissing(r, u)
           \/ \E r \in Runs : ReadMappings(r) \/ ListMissing(r)
  BY <1>2, <1>6 DEF Start, LookAtMapped, LookForOrphan, LookAtMissing, ReadMappings, ListMissing,
     users
<1>7. CASE \E r \in Runs :
          \/ Update(r)
          \/ Adopt(r)
          \/ MapUser(r)
          \/ Mark(r)
          \/ Disable(r)
          \/ Complete(r)
          \/ FailStatement(r)
          \/ Crash(r)
  BY <1>2, <1>7 DEF Update, Adopt, MapUser, Mark, Disable, Complete, FailStatement, Crash, Abandon,
     users
<1>8. CASE \/ \E u \in Users, on \in BOOLEAN : EditUser(u, on)
           \/ \E e \in Entries : DirectoryMoves(e)
  BY <1>2, <1>8 DEF EditUser, DirectoryMoves, users
<1> QED  BY <1>3, <1>4, <1>5, <1>6, <1>7, <1>8 DEF Next

Claimed(u) ==
    \/ MappedEntries(u) # {}
    \/ \E r \in Runs : run[r].step = "map" /\ run[r].user = u
    \/ u \in abandoned

(* Without failures and crashes, a created account is claimed by its       *)
(* mapping or by the run about to write it.                                *)
LEMMA NextKeepsClaims ==
    ASSUME IInv, UniqueNames, ImportedAreClaimed, Next
    PROVE  ImportedAreClaimed'
<1> USE DEF IInv
<1>1. \A u \in Users : account[u] = "imported" => Claimed(u)
  BY DEF ImportedAreClaimed, Claimed
<1>2. SUFFICES ASSUME NEW u \in Users, account'[u] = "imported" PROVE Claimed(u)'
  BY DEF ImportedAreClaimed, Claimed
<1>3. run \in [Runs -> RunState]  BY DEF TypeOK
\* A step of a run that is not about to map an account.
<1>4. ASSUME NEW r \in Runs, NEW x, Becomes(r, x), run[r].step # "map", account' = account,
             mapping' = mapping, abandoned' = abandoned
      PROVE  Claimed(u)'
  BY <1>1, <1>2, <1>3, <1>4 DEF Claimed, Becomes, MappedEntries
<1>5. ASSUME run' = run, account[u] = "imported", mapping' = mapping, abandoned' = abandoned
      PROVE  Claimed(u)'
  BY <1>1, <1>5 DEF Claimed, MappedEntries
\* A run that gives up leaves its account in abandoned.
<1>6. ASSUME NEW r \in Runs, NEW x, Becomes(r, x), Abandon(r)
      PROVE  Claimed(u)'
  BY <1>1, <1>2, <1>3, <1>6 DEF Claimed, Becomes, MappedEntries, Abandon, users
<1>7. ASSUME NEW r \in Runs, NEW v \in Users, CreateUser(r, v) PROVE Claimed(u)'
  <2>1. CASE account' = account
    BY <1>4, <1>7, <2>1 DEF CreateUser, NextEntry, InsertRow, TypeOK
  <2>2. CASE /\ InsertRow(v, NameOf[run[r].entry], "imported", run[r].entry)
             /\ Becomes(r, [run[r] EXCEPT !.step = "map", !.user = v])
    <3>1. run[r].step = "create" /\ mapping' = mapping /\ abandoned' = abandoned
      BY <1>7 DEF CreateUser
    <3>2. run'[r].step = "map" /\ run'[r].user = v
      BY <1>3, <2>2 DEF Becomes, RunState
    <3>3. CASE u = v  BY <3>2, <3>3 DEF Claimed
    <3>4. CASE u # v
      <4>1. account[u] = "imported"  BY <1>2, <2>2, <3>4 DEF InsertRow, TypeOK
      <4> QED  BY <1>1, <1>3, <2>2, <3>1, <4>1 DEF Claimed, Becomes, MappedEntries
    <3> QED  BY <3>3, <3>4
  <2> QED  BY <1>7, <2>1, <2>2 DEF CreateUser
<1>8. ASSUME NEW r \in Runs, MapUser(r) PROVE Claimed(u)'
  <2> DEFINE v == run[r].user
             e == run[r].entry
  <2>1. v \in Users /\ e \in Entries /\ (Stored(v) => name[v] = NameOf[e])
    BY <1>8 DEF MapUser, RunsRely, Relies, Meant, Row, Stored
  <2>2. account' = account /\ abandoned' = abandoned /\ (u = v => Stored(v))
    BY <1>2, <1>8 DEF MapUser, users, Stored
  <2>3. \A s \in Runs \ {r} : run'[s] = run[s]
    BY <1>3, <1>8 DEF MapUser, Goto, NextEntry, Becomes
  <2>4. CASE /\ Stored(v) /\ mapping[e] = None /\ MappedEntries(v) = {}
             /\ mapping' = [mapping EXCEPT ![e] = v]
    <3>1. mapping'[e] = v  BY <2>1, <2>4 DEF TypeOK
    <3>2. MappedEntries(u) \subseteq MappedEntries(u)'
      BY <2>1, <2>4, ForeignAssumption DEF MappedEntries, TypeOK
    <3>3. CASE u = v  BY <2>1, <3>1, <3>3 DEF Claimed, MappedEntries
    <3>4. CASE u # v  BY <1>1, <1>2, <2>2, <2>3, <3>2, <3>4 DEF Claimed
    <3> QED  BY <3>3, <3>4
  <2>5. CASE /\ ~(Stored(v) /\ mapping[e] = None /\ MappedEntries(v) = {})
             /\ mapping' = mapping
    <3>1. MappedEntries(u)' = MappedEntries(u)  BY <2>5 DEF MappedEntries
    <3>2. CASE u = v
      <4>1. ASSUME MappedEntries(v) = {} PROVE FALSE
        <5>1. mapping[e] # None /\ Stored(v)  BY <2>2, <2>5, <3>2, <4>1
        <5>2. mapping[e] \in Users  BY <2>1, <5>1 DEF TypeOK
        <5>3. Stored(mapping[e]) /\ name[mapping[e]] = name[v]
          BY <2>1, <5>1 DEF MappingsAreSound
        <5>4. mapping[e] = v  BY <2>1, <5>1, <5>2, <5>3 DEF UniqueNames
        <5> QED  BY <2>1, <4>1, <5>4 DEF MappedEntries
      <4> QED  BY <3>1, <3>2, <4>1 DEF Claimed
    <3>3. CASE u # v  BY <1>1, <1>2, <2>2, <2>3, <3>1, <3>3 DEF Claimed
    <3> QED  BY <3>2, <3>3
  <2> QED  BY <1>8, <2>4, <2>5 DEF MapUser
<1>9. ASSUME NEW v \in Users, DeleteUser(v) PROVE Claimed(u)'
  <2>1. u # v /\ account[u] = "imported"  BY <1>2, <1>9 DEF DeleteUser, TypeOK
  <2>2. run' = run /\ abandoned' = abandoned \ {v}  BY <1>9 DEF DeleteUser
  <2>3. MappedEntries(u) \subseteq MappedEntries(u)'
    BY <1>9, <2>1 DEF DeleteUser, MappedEntries, TypeOK
  <2> QED  BY <1>1, <2>1, <2>2, <2>3 DEF Claimed
<1>10. CASE \E v \in Users, n \in Names : CreateLocal(v, n)
  <2>1. account[u] = "imported"  BY <1>2, <1>10 DEF CreateLocal, InsertRow, TypeOK
  <2> QED  BY <1>5, <1>10, <2>1 DEF CreateLocal
<1>11. CASE \/ \E v \in Users, on \in BOOLEAN : EditUser(v, on)
            \/ \E e \in Entries : DirectoryMoves(e)
  <2>1. account[u] = "imported"  BY <1>2, <1>11 DEF EditUser, DirectoryMoves, users
  <2> QED  BY <1>5, <1>11, <2>1 DEF EditUser, DirectoryMoves
<1>12. CASE \E r \in Runs : FailStatement(r) \/ Crash(r)
  BY <1>6, <1>12 DEF FailStatement, Crash, NextEntry
<1>13. CASE \/ \E r \in Runs, mode \in Modes, listing \in SUBSET directory : Start(r, mode, listing)
            \/ \E r \in Runs, e \in Entries : LookAtMapped(r, e) \/ LookForOrphan(r, e)
            \/ \E r \in Runs, v \in Users : LookAtMissing(r, v)
  BY <1>4, <1>13 DEF Start, LookAtMapped, LookForOrphan, LookAtMissing, users
<1>14. CASE \E r \in Runs :
          \/ ReadMappings(r)
          \/ Update(r)
          \/ Adopt(r)
          \/ Mark(r)
          \/ ListMissing(r)
          \/ Disable(r)
          \/ Complete(r)
  BY <1>4, <1>14 DEF ReadMappings, Update, Adopt, Mark, ListMissing, Disable, Complete, AllDone,
     Looped, Goto, NextEntry, users
<1> QED  BY <1>7, <1>8, <1>9, <1>10, <1>11, <1>12, <1>13, <1>14 DEF Next

(* Whatever runs overlap, an account that one of them has created ends up  *)
(* linked to an entry, unless a run fails or dies between the two inserts. *)
THEOREM ImportsAreClaimed == Spec => []ImportedAreClaimed
<1> DEFINE Claims == UniqueNames /\ ImportedAreClaimed
<1>1. Init => Claims
  BY DEF Init, UniqueNames, ImportedAreClaimed, Stored
<1>2. IInv /\ Claims /\ [Next]_vars => Claims'
  <2> SUFFICES ASSUME IInv, Claims, [Next]_vars PROVE Claims'
    OBVIOUS
  <2>1. CASE Next  BY <2>1, NextKeepsUnique, NextKeepsClaims DEF IInv
  <2>2. CASE UNCHANGED vars
    <3>1. UniqueNames'  BY <2>2 DEF vars, users, UniqueNames, Stored
    <3>2. ImportedAreClaimed'  BY <2>2 DEF vars, users, ImportedAreClaimed, MappedEntries
    <3> QED  BY <3>1, <3>2
  <2> QED  BY <2>1, <2>2
<1> HIDE DEF Claims
<1>3. Claims => ImportedAreClaimed  BY DEF Claims
<1> QED  BY <1>1, <1>2, <1>3, Invariance, PTL DEF Spec

-----------------------------------------------------------------------------
(* Disabling.  What a run of Force mode means to disable, and the account  *)
(* it is about to disable, stays mapped to an entry its listing lacks, or  *)
(* is deleted: a mapping goes away with its account only.                  *)
Target(x, u, acc, map) ==
    /\ u \in Users
    /\ acc[u] # "unborn"
    /\ Row(acc, u) => \E e \in Entries \ x.listing : map[e] = u

Aims(x, acc, map) ==
    /\ x.step # "idle" => x.mode \in Modes
    /\ x.step \in {"disable", "off"} =>
          /\ x.mode = "Force"
          /\ \A u \in x.missing : Target(x, u, acc, map)
    /\ x.step = "off" => Target(x, x.user, acc, map)

RunsAim == \A r \in Runs : Aims(run[r], account, mapping)

LinksKeep ==
    \A u \in Users, e \in Entries : mapping[e] = u /\ Row(account', u) => mapping'[e] = u

(* create_mapping writes no mapping over another. *)
LEMMA NextKeepsLinks == ASSUME IInv, Next PROVE LinksKeep
<1> USE DEF IInv
<1>1. ASSUME mapping' = mapping PROVE LinksKeep
  BY <1>1 DEF LinksKeep
<1>2. CASE \E r \in Runs : MapUser(r)
  <2>1. PICK r \in Runs : MapUser(r)  BY <1>2
  <2>2. ASSUME mapping[run[r].entry] = None,
               mapping' = [mapping EXCEPT ![run[r].entry] = run[r].user]
        PROVE  LinksKeep
    BY <2>2, ForeignAssumption DEF LinksKeep, TypeOK
  <2> QED  BY <1>1, <2>1, <2>2 DEF MapUser
<1>3. CASE \E u \in Users : DeleteUser(u)
  BY <1>3 DEF DeleteUser, LinksKeep, Row, TypeOK
<1>4. CASE \/ \E r \in Runs, u \in Users : CreateUser(r, u) \/ LookAtMissing(r, u)
           \/ \E u \in Users, n \in Names : CreateLocal(u, n)
           \/ \E u \in Users, on \in BOOLEAN : EditUser(u, on)
           \/ \E e \in Entries : DirectoryMoves(e)
  BY <1>1, <1>4 DEF CreateUser, LookAtMissing, CreateLocal, EditUser, DirectoryMoves
<1>5. CASE \/ \E r \in Runs, mode \in Modes, listing \in SUBSET directory : Start(r, mode, listing)
           \/ \E r \in Runs, e \in Entries : LookAtMapped(r, e) \/ LookForOrphan(r, e)
  BY <1>1, <1>5 DEF Start, LookAtMapped, LookForOrphan
<1>6. CASE \E r \in Runs :
          \/ ReadMappings(r)
          \/ Update(r)
          \/ Adopt(r)
          \/ Mark(r)
          \/ ListMissing(r)
          \/ Disable(r)
          \/ Complete(r)
          \/ FailStatement(r)
          \/ Crash(r)
  BY <1>1, <1>6 DEF ReadMappings, Update, Adopt, Mark, ListMissing, Disable, Complete,
     FailStatement, Crash, Abandon
<1> QED  BY <1>2, <1>3, <1>4, <1>5, <1>6 DEF Next

(* What a run aims at stays so while rows and mappings are kept.           *)
LEMMA AimsLast ==
    ASSUME RowsKeep, LinksKeep, NEW x \in RunState, Aims(x, account, mapping)
    PROVE  Aims(x, account', mapping')
<1>1. ASSUME NEW u, Target(x, u, account, mapping) PROVE Target(x, u, account', mapping')
  BY <1>1 DEF Target, RowsKeep, LinksKeep
<1> QED  BY <1>1 DEF Aims

(* Another step of a run aims at no more than the step before it, unless   *)
(* it is the listing of the missing accounts.                              *)
LEMMA NextKeepsAims == ASSUME IInv, RunsAim, Next PROVE RunsAim'
<1> DEFINE Goal == RunsAim'
<1> USE DEF IInv
<1>1. RowsKeep /\ LinksKeep  BY NextKeepsRows, NextKeepsLinks
<1>2. run \in [Runs -> RunState]  BY DEF TypeOK
<1>3. ASSUME NEW r \in Runs PROVE run[r] \in RunState /\ Aims(run[r], account', mapping')
  BY <1>1, <1>2, AimsLast DEF RunsAim
<1>4. ASSUME NEW r \in Runs, NEW x, Becomes(r, x), Aims(x, account', mapping') PROVE Goal
  <2> SUFFICES ASSUME NEW s \in Runs PROVE Aims(run'[s], account', mapping')
    BY DEF RunsAim, Aims, Target, Row
  <2> QED  BY <1>2, <1>3, <1>4 DEF Becomes
<1>5. ASSUME run' = run PROVE Goal
  BY <1>3, <1>5 DEF RunsAim, Aims, Target, Row
\* A step outside the disabling.
<1>6. ASSUME NEW r \in Runs, NEW x, Becomes(r, x), x.step \notin {"disable", "off"},
             run[r].step # "idle", x.mode = run[r].mode
      PROVE  Goal
  <2>1. Aims(x, account', mapping')  BY <1>3, <1>6 DEF Aims
  <2> QED  BY <1>4, <1>6, <2>1
<1>7. ASSUME NEW r \in Runs, Becomes(r, Idle) PROVE Goal
  <2>1. Aims(Idle, account', mapping')  BY DEF Aims, Idle
  <2> QED  BY <1>4, <1>7, <2>1
<1>8. ASSUME NEW r \in Runs, run[r].step # "idle", NextEntry(r) PROVE Goal
  <2> DEFINE x == [run[r] EXCEPT !.step = "loop", !.todo = @ \ {run[r].entry},
                                 !.entry = None, !.user = None]
  <2>1. Becomes(r, x)  BY <1>8 DEF NextEntry
  <2>2. x.step = "loop" /\ x.mode = run[r].mode  BY <1>3 DEF RunState
  <2> HIDE DEF x
  <2> QED  BY <1>6, <1>8, <2>1, <2>2
<1>9. ASSUME NEW r \in Runs, NEW mode \in Modes, NEW listing \in SUBSET directory,
             Start(r, mode, listing)
      PROVE  Goal
  <2> DEFINE x == [Idle EXCEPT !.step = "listed", !.mode = mode, !.listing = listing]
  <2>1. x.step = "listed" /\ x.mode = mode  BY DEF Idle
  <2>2. Aims(x, account', mapping')  BY <2>1 DEF Aims
  <2> QED  BY <1>4, <1>9, <2>2 DEF Start
<1>10. ASSUME NEW r \in Runs, ReadMappings(r) PROVE Goal
  <2> DEFINE x == [run[r] EXCEPT !.step = "loop", !.todo = run[r].listing,
                     !.known = [e \in Entries |-> IF e \in run[r].listing THEN mapping[e] ELSE None]]
  <2>1. Becomes(r, x) /\ run[r].step = "listed"  BY <1>10 DEF ReadMappings
  <2>2. x.step = "loop" /\ x.mode = run[r].mode  BY <1>3 DEF RunState
  <2> HIDE DEF x
  <2> QED  BY <1>6, <2>1, <2>2
<1>11. ASSUME NEW r \in Runs, NEW e \in Entries, LookAtMapped(r, e) PROVE Goal
  <2> DEFINE known == [run[r].known EXCEPT ![e] = None]
             x == [run[r] EXCEPT !.step = "update", !.entry = e, !.user = run[r].known[e],
                                 !.known = known]
             y == [run[r] EXCEPT !.todo = @ \ {e}, !.known = known]
  <2>1. run[r].step = "loop" /\ (Becomes(r, x) \/ Becomes(r, y))
    BY <1>3, <1>11 DEF LookAtMapped, RunState
  <2>2. /\ x.step = "update" /\ x.mode = run[r].mode
        /\ y.step = run[r].step /\ y.mode = run[r].mode
    BY <1>3 DEF RunState
  <2> HIDE DEF x, y
  <2> QED  BY <1>6, <2>1, <2>2
<1>12. ASSUME NEW r \in Runs, NEW e \in Entries, LookForOrphan(r, e) PROVE Goal
  <2> DEFINE x(u) == [run[r] EXCEPT !.step = "adopt", !.entry = e, !.user = u]
             y == [run[r] EXCEPT !.step = "create", !.entry = e]
  <2>1. run[r].step = "loop"  BY <1>12 DEF LookForOrphan
  <2>2. \A u : x(u).step = "adopt" /\ x(u).mode = run[r].mode  BY <1>3 DEF RunState
  <2>3. y.step = "create" /\ y.mode = run[r].mode  BY <1>3 DEF RunState
  <2>4. (\E u \in Named(NameOf[e]) : Becomes(r, x(u))) \/ Becomes(r, y)
    BY <1>12 DEF LookForOrphan
  <2> HIDE DEF x, y
  <2> QED  BY <1>6, <2>1, <2>2, <2>3, <2>4
<1>13. ASSUME NEW r \in Runs, NEW step \in {"map", "mark"}, run[r].step # "idle", Goto(r, step)
       PROVE  Goal
  <2> DEFINE x == [run[r] EXCEPT !.step = step]
  <2>1. x.step = step /\ x.mode = run[r].mode  BY <1>3 DEF RunState
  <2>2. Becomes(r, x)  BY <1>13 DEF Goto
  <2> HIDE DEF x
  <2> QED  BY <1>6, <1>13, <2>1, <2>2
<1>14. ASSUME NEW r \in Runs, Update(r) \/ Adopt(r) \/ MapUser(r) \/ Mark(r) PROVE Goal
  BY <1>8, <1>13, <1>14 DEF Update, Adopt, MapUser, Mark
<1>15. ASSUME NEW r \in Runs, NEW u \in Users, CreateUser(r, u) PROVE Goal
  <2> DEFINE x == [run[r] EXCEPT !.step = "map", !.user = u]
  <2>1. x.step = "map" /\ x.mode = run[r].mode  BY <1>3 DEF RunState
  <2>2. run[r].step = "create" /\ (Becomes(r, x) \/ NextEntry(r))  BY <1>15 DEF CreateUser
  <2> HIDE DEF x
  <2> QED  BY <1>6, <1>8, <2>1, <2>2
<1>16. ASSUME NEW r \in Runs, ListMissing(r) PROVE Goal
  <2> DEFINE x == [run[r] EXCEPT !.step = "disable", !.missing = Unlisted(r)]
  <2>1. /\ x.step = "disable" /\ x.mode = run[r].mode /\ x.listing = run[r].listing
        /\ x.missing = Unlisted(r)
    BY <1>3 DEF RunState
  <2>2. run[r].mode = "Force" /\ run[r].step = "loop" /\ Becomes(r, x)
    BY <1>16 DEF ListMissing, Looped
  <2>3. ASSUME NEW u \in Unlisted(r) PROVE Target(x, u, account', mapping')
    <3>1. PICK e \in Entries \ run[r].listing : mapping[e] = u /\ u # None
      BY DEF Unlisted
    <3>2. u \in Users /\ Stored(u)  BY <3>1 DEF TypeOK, MappingsAreSound
    <3>3. account' = account /\ mapping' = mapping  BY <1>16 DEF ListMissing, users
    <3> QED  BY <2>1, <3>1, <3>2, <3>3 DEF Target, Stored
  <2>4. x.mode \in Modes  BY <1>3, <2>1, <2>2 DEF Aims
  <2>5. Aims(x, account', mapping')  BY <2>1, <2>2, <2>3, <2>4 DEF Aims
  <2> QED  BY <1>4, <2>2, <2>5
<1>17. ASSUME NEW r \in Runs, NEW x, Becomes(r, x), run[r].step \in {"disable", "off"},
              x.step \in {"disable", "off"}, x.listing = run[r].listing, x.mode = run[r].mode,
              x.missing \subseteq run[r].missing,
              x.step = "off" => x.user \in run[r].missing
       PROVE  Goal
  <2>1. \A u : Target(run[r], u, account', mapping') => Target(x, u, account', mapping')
    BY <1>17 DEF Target
  <2>2. Aims(x, account', mapping')  BY <1>3, <1>17, <2>1 DEF Aims
  <2> QED  BY <1>4, <1>17, <2>2
<1>18. ASSUME NEW r \in Runs, NEW u \in Users, LookAtMissing(r, u) PROVE Goal
  <2> DEFINE x == [run[r] EXCEPT !.step = "off", !.missing = @ \ {u}, !.user = u,
                                 !.seen = profile[u]]
             y == [run[r] EXCEPT !.missing = @ \ {u}]
  <2>1. /\ x.step = "off" /\ x.missing = run[r].missing \ {u} /\ x.user = u
        /\ x.listing = run[r].listing /\ x.mode = run[r].mode
        /\ y.step = run[r].step /\ y.missing = run[r].missing \ {u}
        /\ y.listing = run[r].listing /\ y.mode = run[r].mode
    BY <1>3 DEF RunState
  <2>2. run[r].step = "disable" /\ u \in run[r].missing /\ (Becomes(r, x) \/ Becomes(r, y))
    BY <1>18 DEF LookAtMissing
  <2> HIDE DEF x, y
  <2> QED  BY <1>17, <2>1, <2>2
<1>19. ASSUME NEW r \in Runs, run[r].step = "off",
              Becomes(r, [run[r] EXCEPT !.step = "disable", !.user = None, !.seen = Local])
       PROVE  Goal
  <2> DEFINE x == [run[r] EXCEPT !.step = "disable", !.user = None, !.seen = Local]
  <2>1. /\ x.step = "disable" /\ x.missing = run[r].missing
        /\ x.listing = run[r].listing /\ x.mode = run[r].mode
    BY <1>3 DEF RunState
  <2>2. Becomes(r, x)  BY <1>19
  <2> HIDE DEF x
  <2> QED  BY <1>17, <1>19, <2>1, <2>2
<1>20. ASSUME NEW r \in Runs, Disable(r) PROVE Goal
  BY <1>19, <1>20 DEF Disable
<1>21. ASSUME NEW r \in Runs, Complete(r) \/ Crash(r) PROVE Goal
  BY <1>7, <1>21 DEF Complete, Crash
<1>22. ASSUME NEW r \in Runs, FailStatement(r) PROVE Goal
  BY <1>8, <1>19, <1>22 DEF FailStatement
<1>23. CASE \/ \E u \in Users, n \in Names : CreateLocal(u, n)
            \/ \E u \in Users, on \in BOOLEAN : EditUser(u, on)
            \/ \E u \in Users : DeleteUser(u)
            \/ \E e \in Entries : DirectoryMoves(e)
  BY <1>5, <1>23 DEF CreateLocal, EditUser, DeleteUser, DirectoryMoves
<1> QED
  BY <1>9, <1>10, <1>11, <1>12, <1>14, <1>15, <1>16, <1>18, <1>20, <1>21, <1>22, <1>23 DEF Next

(* IInv with what the runs aim at, which the rest of the proofs start from. *)
Aiming == IInv /\ RunsAim

(* What a run in Force mode is about to disable stays mapped to an entry   *)
(* its listing lacks, or is deleted.                                       *)
THEOREM Aimed == Spec => []Aiming
<1>1. Init => RunsAim
  BY DEF Init, RunsAim, Aims, Idle
<1>2. IInv /\ RunsAim /\ [Next]_vars => RunsAim'
  <2> SUFFICES ASSUME IInv, RunsAim, [Next]_vars PROVE RunsAim'
    OBVIOUS
  <2>1. CASE Next  BY <2>1, NextKeepsAims
  <2>2. CASE UNCHANGED vars  BY <2>2 DEF vars, users, RunsAim, Aims, Target, Row
  <2> QED  BY <2>1, <2>2
<1>3. IInv /\ RunsAim => Aiming  BY DEF Aiming
<1> QED  BY <1>1, <1>2, <1>3, Invariance, PTL DEF Spec

Disabling ==
    \A r \in Runs, u \in Users :
        run'[r] # run[r] /\ enabled[u] /\ ~enabled'[u] =>
          run[r].mode = "Force" /\ \E e \in Entries \ run[r].listing : mapping[e] = u

(* A run's step clears enabled in Disable only, and there of an account    *)
(* its listing lacks.                                                      *)
LEMMA NextDisabling == ASSUME Aiming, Next PROVE Disabling
<1> USE DEF Aiming, IInv
<1>1. ASSUME enabled' = enabled PROVE Disabling
  BY <1>1 DEF Disabling
<1>2. ASSUME run' = run PROVE Disabling
  BY <1>2 DEF Disabling
<1>3. ASSUME NEW v, NEW e, UpdateRow(v, e, TRUE) PROVE Disabling
  BY <1>3 DEF UpdateRow, Disabling, TypeOK
<1>4. ASSUME NEW v, NEW n, NEW by, NEW e, InsertRow(v, n, by, e) PROVE Disabling
  BY <1>4 DEF InsertRow, Disabling, TypeOK
<1>5. ASSUME NEW s \in Runs, Disable(s) PROVE Disabling
  <2> SUFFICES ASSUME NEW r \in Runs, NEW u \in Users,
                      run'[r] # run[r], enabled[u], ~enabled'[u]
               PROVE  /\ run[r].mode = "Force"
                      /\ \E e \in Entries \ run[r].listing : mapping[e] = u
    BY DEF Disabling
  <2>1. r = s  BY <1>5 DEF Disable, Becomes, TypeOK
  <2>2. u = run[s].user  BY <1>5 DEF Disable, UpdateRow, TypeOK
  <2>3. Row(account, u)  BY DEF TypeOK, Row
  <2>4. Aims(run[s], account, mapping) /\ run[s].step = "off"
    BY <1>5 DEF RunsAim, Disable
  <2> QED  BY <2>1, <2>2, <2>3, <2>4 DEF Aims, Target
<1>6. CASE \E r \in Runs : Update(r) \/ Adopt(r)
  BY <1>3, <1>6 DEF Update, Adopt
<1>7. CASE \E r \in Runs, u \in Users : CreateUser(r, u)
  BY <1>1, <1>4, <1>7 DEF CreateUser
<1>8. CASE \/ \E u \in Users, n \in Names : CreateLocal(u, n)
           \/ \E u \in Users, on \in BOOLEAN : EditUser(u, on)
           \/ \E u \in Users : DeleteUser(u)
           \/ \E e \in Entries : DirectoryMoves(e)
  BY <1>2, <1>8 DEF CreateLocal, EditUser, DeleteUser, DirectoryMoves
<1>9. CASE \/ \E r \in Runs, mode \in Modes, listing \in SUBSET directory : Start(r, mode, listing)
           \/ \E r \in Runs, e \in Entries : LookAtMapped(r, e) \/ LookForOrphan(r, e)
           \/ \E r \in Runs, u \in Users : LookAtMissing(r, u)
  BY <1>1, <1>9 DEF Start, LookAtMapped, LookForOrphan, LookAtMissing, users
<1>10. CASE \E r \in Runs :
          \/ ReadMappings(r)
          \/ MapUser(r)
          \/ Mark(r)
          \/ ListMissing(r)
          \/ Complete(r)
          \/ FailStatement(r)
          \/ Crash(r)
  BY <1>1, <1>10 DEF ReadMappings, MapUser, Mark, ListMissing, Complete, FailStatement, Crash,
     Abandon, users
<1> QED  BY <1>5, <1>6, <1>7, <1>8, <1>9, <1>10 DEF Next

(* A run disables only in Force mode, and only an account that is mapped   *)
(* to an entry its listing lacks at the moment of the write.               *)
THEOREM DisablesMissing == Spec => DisablesOnlyTheMissing
<1>1. Aiming /\ [Next]_vars => [Disabling]_vars
  BY NextDisabling
<1> QED  BY <1>1, Aimed, PTL DEF Spec, DisablesOnlyTheMissing, Disabling

-----------------------------------------------------------------------------
(* Convergence.  How far a run has come that nothing has disturbed.  Every *)
(* listed entry it is through with is in order ...                         *)
Synced(r, e) ==
    /\ mapping[e] # None
    /\ run[r].mode # "LinkOnly" => profile[mapping[e]] = e
    /\ run[r].mode = "Force" => enabled[mapping[e]]

(* ... what it has read of the others is still true ...                    *)
Ahead(r) ==
    \A e \in run[r].todo : run[r].step = "loop" \/ e # run[r].entry => run[r].known[e] = mapping[e]

(* ... and so is what it knows of the entry it is at; and an account that  *)
(* Force has to disable is disabled or still to come.                      *)
AtHand(r) ==
    LET e == run[r].entry
        u == run[r].user
    IN  /\ run[r].step \in {"update", "adopt", "create", "map", "mark"} => e \in run[r].todo
        /\ run[r].step \in {"update", "mark"} => mapping[e] = u
        /\ run[r].step \in {"adopt", "create", "map"} => mapping[e] = None
        /\ run[r].step \in {"adopt", "map"} => Stored(u)
        /\ run[r].step = "create" => Named(NameOf[e]) = {}
        /\ run[r].step \in {"map", "mark"} => profile[u] = e /\ enabled[u]

Ending(r) ==
    run[r].step \in {"disable", "off"} =>
        /\ run[r].todo = {}
        /\ \A e \in Entries \ run[r].listing : mapping[e] # None =>
              \/ ~enabled[mapping[e]]
              \/ mapping[e] \in run[r].missing
              \/ run[r].step = "off" /\ run[r].user = mapping[e]

Reached(r) ==
    /\ run[r].todo \subseteq run[r].listing
    /\ \A e \in run[r].listing \ run[r].todo : Synced(r, e)
    /\ Ahead(r)
    /\ AtHand(r)
    /\ Ending(r)

Progress(r) ==
    run[r].step \notin {"idle", "listed"} /\ ~NameClash(run[r].listing) => Reached(r)

(* An entry stays synchronised while its mapping and its account are left  *)
(* alone.                                                                  *)
LEMMA SyncedStays ==
    ASSUME NEW r \in Runs, NEW e \in Entries, Synced(r, e), run'[r].mode = run[r].mode,
           mapping'[e] = mapping[e], profile'[mapping[e]] = profile[mapping[e]],
           enabled'[mapping[e]] = enabled[mapping[e]]
    PROVE  Synced(r, e)'
BY DEF Synced

(* The clash of usernames is about the listing and what is mapped.         *)
LEMMA ClashStays ==
    ASSUME NEW listing, NameClash(listing),
           \A e \in Entries : mapping[e] # None => mapping'[e] # None
    PROVE  NameClash(listing)'
BY DEF NameClash

(* A step of another run that leaves this one undisturbed writes nothing.  *)
LEMMA ProgressLasts ==
    ASSUME NEW r \in Runs, Progress(r), run'[r] = run[r],
           UNCHANGED <<account, name, enabled, profile, mapping>>
    PROVE  Progress(r)'
<1>1. NameClash(run[r].listing)' = NameClash(run[r].listing)  BY DEF NameClash
<1>2. ASSUME Reached(r) PROVE Reached(r)'
  <2>1. (run[r].todo \subseteq run[r].listing)'  BY <1>2 DEF Reached
  <2>2. (\A e \in run[r].listing \ run[r].todo : Synced(r, e))'  BY <1>2 DEF Reached, Synced
  <2>3. Ahead(r)'  BY <1>2 DEF Reached, Ahead
  <2>4. AtHand(r)'  BY <1>2 DEF Reached, AtHand, Stored, Named
  <2>5. Ending(r)'  BY <1>2 DEF Reached, Ending
  <2> QED  BY <2>1, <2>2, <2>3, <2>4, <2>5 DEF Reached
<1> QED  BY <1>1, <1>2 DEF Progress

-----------------------------------------------------------------------------
(* The steps of an undisturbed run itself.                                 *)
LEMMA ReadMappingsProgresses ==
    ASSUME Aiming, NEW r \in Runs, ReadMappings(r)
    PROVE  Progress(r)'
<1> DEFINE read == [e \in Entries |-> IF e \in run[r].listing THEN mapping[e] ELSE None]
           x == [run[r] EXCEPT !.step = "loop", !.todo = run[r].listing, !.known = read]
<1>1. run \in [Runs -> RunState] /\ run[r] \in RunState  BY DEF Aiming, IInv, TypeOK
<1>2. run'[r] = x /\ mapping' = mapping  BY <1>1 DEF ReadMappings, Becomes
<1>3. /\ x.step = "loop" /\ x.todo = run[r].listing /\ x.listing = run[r].listing
      /\ x.known = read /\ x.listing \subseteq Entries
  BY <1>1 DEF RunState
<1>4. /\ run'[r].step = "loop" /\ run'[r].todo = run'[r].listing
      /\ \A e \in run'[r].todo : run'[r].known[e] = mapping'[e]
  BY <1>2, <1>3
<1>5. Reached(r)'  BY <1>4 DEF Reached, Ahead, AtHand, Ending
<1> QED  BY <1>5 DEF Progress

(* A mapped entry is in order, or its update is at hand.                   *)
LEMMA LookAtMappedProgresses ==
    ASSUME Aiming, NEW r \in Runs, Progress(r), NEW e \in Entries, LookAtMapped(r, e)
    PROVE  Progress(r)'
<1> DEFINE u == run[r].known[e]
           known == [run[r].known EXCEPT ![e] = None]
           x == [run[r] EXCEPT !.step = "update", !.entry = e, !.user = u, !.known = known]
           y == [run[r] EXCEPT !.todo = @ \ {e}, !.known = known]
<1>1. run \in [Runs -> RunState] /\ run[r] \in RunState  BY DEF Aiming, IInv, TypeOK
<1>2. UNCHANGED <<account, name, enabled, profile, mapping>>  BY DEF LookAtMapped, users
<1>3. run[r].step = "loop" /\ e \in run[r].todo /\ u # None  BY DEF LookAtMapped
<1>4. SUFFICES ASSUME ~NameClash(run[r].listing)', run'[r].listing = run[r].listing
               PROVE  Reached(r)'
  <2>1. x.listing = run[r].listing /\ y.listing = run[r].listing  BY <1>1 DEF RunState
  <2>2. run'[r] = x \/ run'[r] = y  BY <1>1 DEF LookAtMapped, Becomes
  <2>3. run'[r].listing = run[r].listing  BY <2>1, <2>2
  <2> QED  BY <1>4, <2>3 DEF Progress, NameClash
<1>5. Reached(r)  BY <1>2, <1>3, <1>4 DEF Progress, NameClash
<1>6. u = mapping[e] /\ run[r].todo \subseteq run[r].listing  BY <1>3, <1>5 DEF Reached, Ahead
<1>7. u \in Users /\ Stored(u)
  BY <1>3, <1>6 DEF Aiming, IInv, TypeOK, MappingsAreSound
<1>8. CASE NeedsUpdate(r, e, u)
  <2>1. run'[r] = x  BY <1>1, <1>7, <1>8 DEF LookAtMapped, Becomes
  <2>2. /\ x.step = "update" /\ x.entry = e /\ x.user = u /\ x.known = known
        /\ x.todo = run[r].todo /\ x.listing = run[r].listing /\ x.mode = run[r].mode
    BY <1>1 DEF RunState
  <2>3. \A f \in Entries \ {e} : known[f] = run[r].known[f]  BY <1>1 DEF RunState
  <2>4. run[r].todo \subseteq Entries  BY <1>1 DEF RunState
  <2>5. (\A f \in run[r].listing \ run[r].todo : Synced(r, f))'
    BY <1>2, <1>5, <2>1, <2>2 DEF Reached, Synced
  <2>6. Ahead(r)'  BY <1>2, <1>3, <1>5, <2>1, <2>2, <2>3, <2>4 DEF Reached, Ahead
  <2>7. AtHand(r)'  BY <1>2, <1>3, <1>6, <2>1, <2>2 DEF AtHand
  <2>8. Ending(r)'  BY <2>1, <2>2 DEF Ending
  <2> QED  BY <1>6, <2>1, <2>2, <2>5, <2>6, <2>7, <2>8 DEF Reached
<1>9. CASE ~NeedsUpdate(r, e, u)
  <2>1. run'[r] = y  BY <1>1, <1>9 DEF LookAtMapped, Becomes
  <2>2. /\ y.step = "loop" /\ y.known = known /\ y.todo = run[r].todo \ {e}
        /\ y.listing = run[r].listing /\ y.mode = run[r].mode
    BY <1>1, <1>3 DEF RunState
  <2>3. \A f \in Entries \ {e} : known[f] = run[r].known[f]  BY <1>1 DEF RunState
  <2>4. run[r].todo \subseteq Entries  BY <1>1 DEF RunState
  <2>5. Synced(r, e)
    <3>1. run[r].mode \in {"Import", "Force", "LinkOnly"}
      BY <1>3, ModesAssumption DEF Aiming, RunsAim, Aims
    <3> QED  BY <1>3, <1>6, <1>9, <3>1 DEF Synced, NeedsUpdate
  <2>6. (\A f \in run[r].listing \ run[r].todo : Synced(r, f))'
    BY <1>2, <1>5, <2>1, <2>2, <2>5 DEF Reached, Synced
  <2>7. Ahead(r)'  BY <1>2, <1>3, <1>5, <2>1, <2>2, <2>3, <2>4 DEF Reached, Ahead
  <2>8. AtHand(r)' /\ Ending(r)'  BY <2>1, <2>2 DEF AtHand, Ending
  <2> QED  BY <1>6, <2>1, <2>2, <2>6, <2>7, <2>8 DEF Reached
<1> QED  BY <1>8, <1>9

(* An entry without a mapping: the account to adopt, or that there is      *)
(* none, is known.                                                         *)
LEMMA LookForOrphanProgresses ==
    ASSUME Aiming, NEW r \in quiet, r \in Runs, r \in quiet', Progress(r), NEW e \in Entries,
           LookForOrphan(r, e)
    PROVE  Progress(r)'
<1> DEFINE x(u) == [run[r] EXCEPT !.step = "adopt", !.entry = e, !.user = u]
           y == [run[r] EXCEPT !.step = "create", !.entry = e]
<1>1. run \in [Runs -> RunState] /\ run[r] \in RunState  BY DEF Aiming, IInv, TypeOK
<1>2. UNCHANGED <<account, name, enabled, profile, mapping>>  BY DEF LookForOrphan, users
<1>3. run[r].step = "loop" /\ e \in run[r].todo /\ run[r].known[e] = None  BY DEF LookForOrphan
<1>4. \/ \E u \in Named(NameOf[e]) : run'[r] = x(u)
      \/ Named(NameOf[e]) = {} /\ run'[r] = y
  BY <1>1 DEF LookForOrphan, Becomes, Disturb
<1>5. \A u : /\ x(u).step = "adopt" /\ x(u).entry = e /\ x(u).user = u
             /\ x(u).known = run[r].known /\ x(u).todo = run[r].todo
             /\ x(u).listing = run[r].listing /\ x(u).mode = run[r].mode
  BY <1>1 DEF RunState
<1>6. /\ y.step = "create" /\ y.entry = e /\ y.known = run[r].known /\ y.todo = run[r].todo
      /\ y.listing = run[r].listing /\ y.mode = run[r].mode
  BY <1>1 DEF RunState
<1> HIDE DEF x, y
<1>7. /\ run'[r].step \in {"adopt", "create"} /\ run'[r].entry = e
      /\ run'[r].known = run[r].known /\ run'[r].todo = run[r].todo
      /\ run'[r].listing = run[r].listing /\ run'[r].mode = run[r].mode
  BY <1>4, <1>5, <1>6
<1>8. SUFFICES ASSUME ~NameClash(run[r].listing) PROVE Reached(r)'
  BY <1>2, <1>7 DEF Progress, NameClash
<1>9. Reached(r)  BY <1>3, <1>8 DEF Progress
<1>10. mapping[e] = None  BY <1>3, <1>9 DEF Reached, Ahead
<1>11. (\A f \in run[r].listing \ run[r].todo : Synced(r, f))'
  BY <1>2, <1>7, <1>9 DEF Reached, Synced
<1>12. Ahead(r)'  BY <1>2, <1>3, <1>7, <1>9 DEF Reached, Ahead
<1>13. AtHand(r)'
  <2>1. run'[r].step = "adopt" => Stored(run'[r].user)
    BY <1>4, <1>5, <1>6 DEF Named
  <2>2. run'[r].step = "create" => Named(NameOf[e]) = {}
    BY <1>4, <1>5, <1>6
  <2> QED  BY <1>2, <1>3, <1>7, <1>10, <2>1, <2>2 DEF AtHand, Stored, Named
<1>14. Ending(r)'  BY <1>7 DEF Ending
<1> QED  BY <1>7, <1>9, <1>11, <1>12, <1>13, <1>14 DEF Reached

(* An entry is finished: on to the next one.                               *)
LEMMA NextEntryProgresses ==
    ASSUME Aiming, NEW r \in Runs, Reached(r), NextEntry(r),
           run[r].step \in {"update", "mark"},
           mapping' = mapping,
           \A v \in Users : v # run[r].user => profile'[v] = profile[v] /\ enabled'[v] = enabled[v],
           profile'[run[r].user] = run[r].entry, enabled'[run[r].user]
    PROVE  Progress(r)'
<1>0. PICK e \in Entries, u \in Users : e = run[r].entry /\ u = run[r].user
  BY DEF Aiming, IInv, RunsRely, Relies
<1> DEFINE x == [run[r] EXCEPT !.step = "loop", !.todo = @ \ {e}, !.entry = None, !.user = None]
<1>1. run \in [Runs -> RunState] /\ run[r] \in RunState  BY DEF Aiming, IInv, TypeOK
<1>2. run'[r] = x  BY <1>0, <1>1 DEF NextEntry, Becomes
<1>3. /\ x.step = "loop" /\ x.todo = run[r].todo \ {e} /\ x.known = run[r].known
      /\ x.listing = run[r].listing /\ x.mode = run[r].mode
  BY <1>1 DEF RunState
<1> HIDE DEF x
<1>4. run[r].listing \subseteq Entries /\ run[r].todo \subseteq run[r].listing
  BY <1>1 DEF RunState, Reached
<1>5. e \in run[r].todo /\ mapping[e] = u
  BY <1>0 DEF Reached, AtHand
<1>6. Synced(r, e)'  BY <1>0, <1>2, <1>3, <1>5, ForeignAssumption DEF Synced
<1>7. ASSUME NEW f \in run[r].listing \ run[r].todo PROVE Synced(r, f)'
  <2>1. Synced(r, f) /\ f \in Entries /\ f # e  BY <1>4, <1>5 DEF Reached
  <2>2. mapping[f] # u
    BY <1>4, <1>5, <2>1, ForeignAssumption DEF Synced, Aiming, IInv, MappingsAreSound, MappedEntries
  <2>3. mapping[f] \in Users  BY <2>1 DEF Synced, Aiming, IInv, TypeOK
  <2> QED  BY <1>0, <1>2, <1>3, <2>1, <2>2, <2>3, SyncedStays
<1>8. (\A f \in run[r].listing \ run[r].todo : Synced(r, f))'
  BY <1>2, <1>3, <1>4, <1>6, <1>7
<1>9. Ahead(r)'  BY <1>0, <1>2, <1>3 DEF Reached, Ahead
<1>10. AtHand(r)' /\ Ending(r)'  BY <1>2, <1>3 DEF AtHand, Ending
<1> QED  BY <1>2, <1>3, <1>4, <1>8, <1>9, <1>10 DEF Reached, Progress

(* The listing is what it was when the run began.                          *)
LEMMA SameListing ==
    ASSUME TypeOK, NEW r \in Runs, NEW step, NextEntry(r) \/ Goto(r, step)
    PROVE  run'[r].listing = run[r].listing
<1>1. run \in [Runs -> RunState] /\ run[r] \in RunState  BY DEF TypeOK
<1>2. CASE NextEntry(r)  BY <1>1, <1>2 DEF NextEntry, Becomes, RunState
<1>3. CASE Goto(r, step)  BY <1>1, <1>3 DEF Goto, Becomes, RunState
<1> QED  BY <1>2, <1>3

(* The update of a mapped account, or the mark of an adopted or created    *)
(* one, leaves the entry in order.                                         *)
LEMMA UpdateProgresses ==
    ASSUME Aiming, NEW r \in Runs, Progress(r), Update(r) \/ Mark(r)
    PROVE  Progress(r)'
<1>1. run[r] \in RunState /\ run \in [Runs -> RunState]  BY DEF Aiming, IInv, TypeOK
<1>2. mapping' = mapping /\ NextEntry(r) /\ run[r].step \in {"update", "mark"}
  BY DEF Update, Mark, users
<1>3. run'[r].listing = run[r].listing
  BY <1>1, <1>2 DEF NextEntry, Becomes, RunState
<1>4. SUFFICES ASSUME ~NameClash(run[r].listing) PROVE Progress(r)'
  BY <1>2, <1>3 DEF Progress, NameClash
<1>5. Reached(r)  BY <1>2, <1>4 DEF Progress
<1>6. CASE Update(r)
  <2>1. PICK e \in Entries, u \in Users : e = run[r].entry /\ u = run[r].user
    BY <1>6 DEF Update, Aiming, IInv, RunsRely, Relies
  <2>2. Stored(u)
    BY <1>5, <1>6, <2>1, ForeignAssumption
    DEF Reached, AtHand, Update, Aiming, IInv, MappingsAreSound
  <2>3. /\ \A v \in Users : v # u => profile'[v] = profile[v] /\ enabled'[v] = enabled[v]
        /\ profile'[u] = e /\ enabled'[u]
    BY <1>6, <2>1, <2>2 DEF Update, UpdateRow, Aiming, IInv, TypeOK
  <2> QED  BY <1>2, <1>5, <2>1, <2>3, NextEntryProgresses
<1>7. CASE Mark(r)
  <2>1. UNCHANGED <<profile, enabled>> /\ run[r].step = "mark"  BY <1>7 DEF Mark
  <2>2. profile'[run[r].user] = run[r].entry /\ enabled'[run[r].user]
    BY <1>5, <2>1 DEF Reached, AtHand
  <2> QED  BY <1>2, <1>5, <2>1, <2>2, NextEntryProgresses
<1> QED  BY <1>6, <1>7

(* An account that the run adopts is mapped to no entry, or two entries    *)
(* would claim its username.                                               *)
LEMMA AdoptedIsUnmapped ==
    ASSUME IInv, NEW listing \in SUBSET Entries, ~NameClash(listing), NEW e \in listing,
           NEW u \in Users, name[u] = NameOf[e], mapping[e] = None
    PROVE  MappedEntries(u) = {}
<1> SUFFICES ASSUME NEW f \in Entries, mapping[f] = u PROVE FALSE
  BY DEF MappedEntries
<1>1. u # None /\ f # e  BY ForeignAssumption
<1>2. name[u] = NameOf[f]  BY <1>1 DEF IInv, MappingsAreSound
<1> QED  BY <1>1, <1>2 DEF NameClash

(* An adopted account has the entry's attributes and is still to be        *)
(* mapped.                                                                 *)
LEMMA AdoptProgresses ==
    ASSUME Aiming, NEW r \in Runs, Progress(r), Adopt(r)
    PROVE  Progress(r)'
<1> DEFINE x == [run[r] EXCEPT !.step = "map"]
<1>1. run \in [Runs -> RunState] /\ run[r] \in RunState  BY DEF Aiming, IInv, TypeOK
<1>2. /\ UNCHANGED <<account, name, mapping>> /\ run[r].step = "adopt"
      /\ UpdateRow(run[r].user, run[r].entry, TRUE)
  BY DEF Adopt
<1>3. PICK e \in Entries, u \in Users :
        e = run[r].entry /\ u = run[r].user /\ (Stored(u) => name[u] = NameOf[e])
  BY <1>2 DEF Aiming, IInv, RunsRely, Relies, Meant, Row, Stored
<1>4. /\ x.step = "map" /\ x.entry = e /\ x.user = u /\ x.known = run[r].known
      /\ x.todo = run[r].todo /\ x.listing = run[r].listing /\ x.mode = run[r].mode
  BY <1>1, <1>3 DEF RunState
<1> HIDE DEF x
<1>5. run'[r].listing = run[r].listing
  BY SameListing DEF Adopt, Aiming, IInv
<1>6. SUFFICES ASSUME ~NameClash(run[r].listing) PROVE Reached(r)'
  BY <1>2, <1>5 DEF Progress, NameClash
<1>7. Reached(r)  BY <1>2, <1>6 DEF Progress
<1>8. Stored(u) /\ mapping[e] = None /\ e \in run[r].todo /\ e \in run[r].listing
  BY <1>2, <1>3, <1>7 DEF Reached, AtHand
<1>9. run'[r] = x  BY <1>1, <1>3, <1>8 DEF Adopt, Goto, Becomes, x
<1>10. MappedEntries(u) = {}
  <2>1. run[r].listing \in SUBSET Entries  BY <1>1 DEF RunState
  <2> QED  BY <1>3, <1>6, <1>8, <2>1, AdoptedIsUnmapped DEF Aiming
<1>11. /\ \A v \in Users : v # u => profile'[v] = profile[v] /\ enabled'[v] = enabled[v]
       /\ profile'[u] = e /\ enabled'[u]
  BY <1>2, <1>3, <1>8 DEF UpdateRow, Aiming, IInv, TypeOK
<1>12. ASSUME NEW f \in run[r].listing \ run[r].todo PROVE Synced(r, f)'
  <2>1. Synced(r, f) /\ f \in Entries  BY <1>1, <1>7 DEF Reached, RunState
  <2>2. mapping[f] # u  BY <1>10, <2>1 DEF MappedEntries
  <2>3. mapping[f] \in Users  BY <2>1 DEF Synced, Aiming, IInv, TypeOK
  <2> QED  BY <1>2, <1>4, <1>9, <1>11, <2>1, <2>2, <2>3, SyncedStays
<1>13. (\A f \in run[r].listing \ run[r].todo : Synced(r, f))'  BY <1>4, <1>9, <1>12
<1>14. Ahead(r)'  BY <1>2, <1>3, <1>4, <1>7, <1>9 DEF Reached, Ahead
<1>15. AtHand(r)'  BY <1>2, <1>4, <1>8, <1>9, <1>11 DEF AtHand, Stored
<1>16. Ending(r)'  BY <1>4, <1>9 DEF Ending
<1> QED  BY <1>4, <1>7, <1>9, <1>13, <1>14, <1>15, <1>16 DEF Reached

(* A created account has them too, and is still to be mapped.              *)
LEMMA CreateUserProgresses ==
    ASSUME Aiming, NEW r \in Runs, Progress(r), NEW u \in Users, CreateUser(r, u)
    PROVE  Progress(r)'
<1> DEFINE x == [run[r] EXCEPT !.step = "map", !.user = u]
<1>1. run \in [Runs -> RunState] /\ run[r] \in RunState  BY DEF Aiming, IInv, TypeOK
<1>2. mapping' = mapping /\ run[r].step = "create"  BY DEF CreateUser
<1>3. PICK e \in Entries : e = run[r].entry
  BY <1>2 DEF Aiming, IInv, RunsRely, Relies
<1>4. /\ x.step = "map" /\ x.entry = e /\ x.user = u /\ x.known = run[r].known
      /\ x.todo = run[r].todo /\ x.listing = run[r].listing /\ x.mode = run[r].mode
  BY <1>1, <1>3 DEF RunState
<1> HIDE DEF x
<1>5. run'[r].listing = run[r].listing
  <2>1. run'[r] = x \/ NextEntry(r)  BY <1>1 DEF CreateUser, Becomes, x
  <2> QED  BY <1>4, <2>1, SameListing DEF Aiming, IInv
<1>6. SUFFICES ASSUME ~NameClash(run[r].listing) PROVE Reached(r)'
  BY <1>2, <1>5 DEF Progress, NameClash
<1>7. Reached(r)  BY <1>2, <1>6 DEF Progress
<1>8. mapping[e] = None /\ e \in run[r].todo /\ Named(NameOf[e]) = {}
  BY <1>2, <1>3, <1>7 DEF Reached, AtHand
<1>9. run'[r] = x /\ InsertRow(u, NameOf[e], "imported", e)
  BY <1>1, <1>3, <1>8 DEF CreateUser, Becomes, x
<1>10. /\ account'[u] = "imported" /\ profile'[u] = e /\ enabled'[u]
       /\ \A v \in Users : v # u => profile'[v] = profile[v] /\ enabled'[v] = enabled[v]
  BY <1>9 DEF InsertRow, Aiming, IInv, TypeOK
<1>11. ASSUME NEW f \in run[r].listing \ run[r].todo PROVE Synced(r, f)'
  <2>1. Synced(r, f) /\ f \in Entries  BY <1>1, <1>7 DEF Reached, RunState
  <2>2. mapping[f] \in Users /\ Stored(mapping[f])
    BY <2>1 DEF Synced, Aiming, IInv, TypeOK, MappingsAreSound
  <2>3. mapping[f] # u  BY <1>9, <2>2 DEF InsertRow, Stored
  <2> QED  BY <1>2, <1>4, <1>9, <1>10, <2>1, <2>2, <2>3, SyncedStays
<1>12. (\A f \in run[r].listing \ run[r].todo : Synced(r, f))'  BY <1>4, <1>9, <1>11
<1>13. Ahead(r)'  BY <1>2, <1>3, <1>4, <1>7, <1>9 DEF Reached, Ahead
<1>14. AtHand(r)'  BY <1>2, <1>4, <1>8, <1>9, <1>10 DEF AtHand, Stored
<1>15. Ending(r)'  BY <1>4, <1>9 DEF Ending
<1> QED  BY <1>4, <1>7, <1>9, <1>12, <1>13, <1>14, <1>15 DEF Reached

(* The mapping is written, since nobody has mapped the entry or the        *)
(* account.                                                                *)
LEMMA MapUserProgresses ==
    ASSUME Aiming, NEW r \in Runs, Progress(r), MapUser(r)
    PROVE  Progress(r)'
<1> DEFINE x == [run[r] EXCEPT !.step = "mark"]
<1>1. run \in [Runs -> RunState] /\ run[r] \in RunState  BY DEF Aiming, IInv, TypeOK
<1>2. UNCHANGED <<account, name, enabled, profile>> /\ run[r].step = "map"
  BY DEF MapUser, users
<1>3. PICK e \in Entries, u \in Users :
        e = run[r].entry /\ u = run[r].user /\ (Stored(u) => name[u] = NameOf[e])
  BY <1>2 DEF Aiming, IInv, RunsRely, Relies, Meant, Row, Stored
<1>4. /\ x.step = "mark" /\ x.entry = e /\ x.user = u /\ x.known = run[r].known
      /\ x.todo = run[r].todo /\ x.listing = run[r].listing /\ x.mode = run[r].mode
  BY <1>1, <1>3 DEF RunState
<1> HIDE DEF x
<1>5. run'[r].listing = run[r].listing
  BY SameListing DEF MapUser, Aiming, IInv
<1>6. \A f \in Entries : mapping[f] # None => mapping'[f] # None
  BY <1>3, ForeignAssumption DEF MapUser, Aiming, IInv, TypeOK
<1>7. SUFFICES ASSUME ~NameClash(run[r].listing) PROVE Reached(r)'
  <2>1. NameClash(run[r].listing) => NameClash(run[r].listing)'
    BY <1>5, <1>6 DEF NameClash
  <2> QED  BY <1>7, <2>1 DEF Progress
<1>8. Reached(r)  BY <1>2, <1>7 DEF Progress
<1>9. /\ Stored(u) /\ mapping[e] = None /\ profile[u] = e /\ enabled[u]
      /\ e \in run[r].todo /\ e \in run[r].listing
  BY <1>2, <1>3, <1>8 DEF Reached, AtHand
<1>10. MappedEntries(u) = {}
  <2>1. run[r].listing \in SUBSET Entries  BY <1>1 DEF RunState
  <2> QED  BY <1>3, <1>7, <1>9, <2>1, AdoptedIsUnmapped DEF Aiming
<1>11. run'[r] = x /\ mapping' = [mapping EXCEPT ![e] = u]
  BY <1>1, <1>3, <1>9, <1>10 DEF MapUser, Goto, Becomes, x
<1>12. mapping'[e] = u /\ \A f \in Entries : f # e => mapping'[f] = mapping[f]
  BY <1>11 DEF Aiming, IInv, TypeOK
<1>13. ASSUME NEW f \in run[r].listing \ run[r].todo PROVE Synced(r, f)'
  <2>1. Synced(r, f) /\ f \in Entries /\ f # e  BY <1>1, <1>8, <1>9 DEF Reached, RunState
  <2> QED  BY <1>2, <1>4, <1>11, <1>12, <2>1, SyncedStays
<1>14. (\A f \in run[r].listing \ run[r].todo : Synced(r, f))'  BY <1>4, <1>11, <1>13
<1>15. Ahead(r)'
  <2>1. run[r].todo \subseteq Entries  BY <1>1 DEF RunState
  <2> QED  BY <1>2, <1>3, <1>4, <1>8, <1>11, <1>12, <2>1 DEF Reached, Ahead
<1>16. AtHand(r)'  BY <1>2, <1>4, <1>9, <1>11, <1>12 DEF AtHand
<1>17. Ending(r)'  BY <1>4, <1>11 DEF Ending
<1> QED  BY <1>4, <1>8, <1>11, <1>14, <1>15, <1>16, <1>17 DEF Reached

(* What is listed as missing is everything mapped to an absent entry.      *)
LEMMA ListMissingProgresses ==
    ASSUME Aiming, NEW r \in Runs, Progress(r), ListMissing(r)
    PROVE  Progress(r)'
<1> DEFINE x == [run[r] EXCEPT !.step = "disable", !.missing = Unlisted(r)]
<1>1. run \in [Runs -> RunState] /\ run[r] \in RunState  BY DEF Aiming, IInv, TypeOK
<1>2. UNCHANGED <<account, name, enabled, profile, mapping>>  BY DEF ListMissing, users
<1>3. run'[r] = x /\ run[r].step = "loop" /\ run[r].todo = {}
  BY <1>1 DEF ListMissing, Looped, Becomes
<1>4. /\ x.step = "disable" /\ x.missing = Unlisted(r) /\ x.todo = run[r].todo
      /\ x.listing = run[r].listing /\ x.mode = run[r].mode
  BY <1>1 DEF RunState
<1> HIDE DEF x
<1>5. SUFFICES ASSUME ~NameClash(run[r].listing) PROVE Reached(r)'
  BY <1>2, <1>3, <1>4 DEF Progress, NameClash
<1>6. Reached(r)  BY <1>3, <1>5 DEF Progress
<1>7. (\A f \in run[r].listing \ run[r].todo : Synced(r, f))'
  BY <1>2, <1>3, <1>4, <1>6 DEF Reached, Synced
<1>8. Ahead(r)'  BY <1>3, <1>4 DEF Ahead
<1>9. AtHand(r)'  BY <1>3, <1>4 DEF AtHand
<1>10. Ending(r)'  BY <1>2, <1>3, <1>4 DEF Ending, Unlisted
<1> QED  BY <1>3, <1>4, <1>7, <1>8, <1>9, <1>10 DEF Reached

(* A missing account is disabled already or about to be.                   *)
LEMMA LookAtMissingProgresses ==
    ASSUME Aiming, NEW r \in Runs, Progress(r), NEW u \in Users, LookAtMissing(r, u)
    PROVE  Progress(r)'
<1> DEFINE x == [run[r] EXCEPT !.step = "off", !.missing = @ \ {u}, !.user = u, !.seen = profile[u]]
           y == [run[r] EXCEPT !.missing = @ \ {u}]
<1>1. run \in [Runs -> RunState] /\ run[r] \in RunState  BY DEF Aiming, IInv, TypeOK
<1>2. UNCHANGED <<account, name, enabled, profile, mapping>>  BY DEF LookAtMissing, users
<1>3. run[r].step = "disable"  BY DEF LookAtMissing
<1>4. IF Stored(u) /\ enabled[u] THEN run'[r] = x ELSE run'[r] = y
  BY <1>1 DEF LookAtMissing, Becomes
<1>5. /\ x.step = "off" /\ x.user = u /\ x.missing = run[r].missing \ {u} /\ x.todo = run[r].todo
      /\ x.listing = run[r].listing /\ x.mode = run[r].mode
  BY <1>1 DEF RunState
<1>6. /\ y.step = "disable" /\ y.missing = run[r].missing \ {u} /\ y.todo = run[r].todo
      /\ y.listing = run[r].listing /\ y.mode = run[r].mode
  BY <1>1, <1>3 DEF RunState
<1> HIDE DEF x, y
<1>7. /\ run'[r].step \in {"disable", "off"} /\ run'[r].missing = run[r].missing \ {u}
      /\ run'[r].todo = run[r].todo /\ run'[r].listing = run[r].listing
      /\ run'[r].mode = run[r].mode
  BY <1>4, <1>5, <1>6
<1>8. SUFFICES ASSUME ~NameClash(run[r].listing) PROVE Reached(r)'
  BY <1>2, <1>7 DEF Progress, NameClash
<1>9. Reached(r)  BY <1>3, <1>8 DEF Progress
<1>10. run[r].todo = {}  BY <1>3, <1>9 DEF Reached, Ending
<1>11. (\A f \in run[r].listing \ run[r].todo : Synced(r, f))'
  BY <1>2, <1>7, <1>9 DEF Reached, Synced
<1>12. Ahead(r)'  BY <1>7, <1>10 DEF Ahead
<1>13. AtHand(r)'  BY <1>7 DEF AtHand
<1>14. Ending(r)'
  <2> SUFFICES ASSUME NEW e \in Entries \ run[r].listing, mapping[e] # None
               PROVE  \/ ~enabled[mapping[e]]
                      \/ mapping[e] \in run'[r].missing
                      \/ run'[r].step = "off" /\ run'[r].user = mapping[e]
    BY <1>2, <1>7, <1>10 DEF Ending
  <2>1. ~enabled[mapping[e]] \/ mapping[e] \in run[r].missing
    BY <1>3, <1>9 DEF Reached, Ending
  <2>2. Stored(mapping[e])  BY DEF Aiming, IInv, MappingsAreSound
  <2> QED  BY <1>4, <1>5, <1>7, <2>1, <2>2
<1> QED  BY <1>7, <1>9, <1>11, <1>12, <1>13, <1>14 DEF Reached

(* Disabling a missing account touches no account of a listed entry.       *)
LEMMA DisableProgresses ==
    ASSUME Aiming, NEW r \in Runs, Progress(r), Disable(r)
    PROVE  Progress(r)'
<1> DEFINE x == [run[r] EXCEPT !.step = "disable", !.user = None, !.seen = Local]
<1>1. run \in [Runs -> RunState] /\ run[r] \in RunState  BY DEF Aiming, IInv, TypeOK
<1>2. UNCHANGED <<account, name, mapping>> /\ run[r].step = "off"  BY DEF Disable
<1>3. PICK u \in Users : u = run[r].user
  BY <1>2 DEF Aiming, IInv, RunsRely, Relies
<1>4. run'[r] = x /\ UpdateRow(u, run[r].seen, FALSE)
  BY <1>1, <1>3 DEF Disable, Becomes
<1>5. /\ x.step = "disable" /\ x.missing = run[r].missing /\ x.todo = run[r].todo
      /\ x.listing = run[r].listing /\ x.mode = run[r].mode
  BY <1>1 DEF RunState
<1> HIDE DEF x
<1>6. SUFFICES ASSUME ~NameClash(run[r].listing) PROVE Reached(r)'
  BY <1>2, <1>4, <1>5 DEF Progress, NameClash
<1>7. Reached(r)  BY <1>2, <1>6 DEF Progress
<1>8. run[r].todo = {}  BY <1>2, <1>7 DEF Reached, Ending
<1>9. \A v \in Users : v # u => profile'[v] = profile[v] /\ enabled'[v] = enabled[v]
  BY <1>4 DEF UpdateRow, Aiming, IInv, TypeOK
<1>10. Stored(u) => ~enabled'[u]
  BY <1>4 DEF UpdateRow, Aiming, IInv, TypeOK
<1>11. ASSUME NEW f \in run[r].listing \ run[r].todo PROVE Synced(r, f)'
  <2>1. Synced(r, f) /\ f \in Entries  BY <1>1, <1>7 DEF Reached, RunState
  <2>2. mapping[f] \in Users /\ Stored(mapping[f]) /\ MappedEntries(mapping[f]) = {f}
    BY <2>1 DEF Synced, Aiming, IInv, TypeOK, MappingsAreSound
  <2>3. ASSUME mapping[f] = u PROVE FALSE
    <3>1. Target(run[r], u, account, mapping)
      BY <1>2, <1>3 DEF Aiming, RunsAim, Aims
    <3>2. PICK e \in Entries \ run[r].listing : mapping[e] = u
      BY <2>2, <2>3, <3>1 DEF Target, Row, Stored
    <3> QED  BY <2>2, <2>3, <3>2 DEF MappedEntries
  <2> QED  BY <1>2, <1>4, <1>5, <1>9, <2>1, <2>2, <2>3, SyncedStays
<1>12. (\A f \in run[r].listing \ run[r].todo : Synced(r, f))'  BY <1>4, <1>5, <1>11
<1>13. Ahead(r)'  BY <1>4, <1>5, <1>8 DEF Ahead
<1>14. AtHand(r)'  BY <1>4, <1>5 DEF AtHand
<1>15. Ending(r)'
  <2> SUFFICES ASSUME NEW e \in Entries \ run[r].listing, mapping[e] # None
               PROVE  ~enabled'[mapping[e]] \/ mapping[e] \in run'[r].missing
    BY <1>2, <1>4, <1>5, <1>8 DEF Ending
  <2>1. ~enabled[mapping[e]] \/ mapping[e] \in run[r].missing \/ mapping[e] = u
    BY <1>2, <1>3, <1>7 DEF Reached, Ending
  <2>2. Stored(mapping[e]) /\ mapping[e] \in Users
    BY DEF Aiming, IInv, TypeOK, MappingsAreSound
  <2> QED  BY <1>4, <1>5, <1>9, <1>10, <2>1, <2>2
<1> QED  BY <1>4, <1>5, <1>7, <1>12, <1>13, <1>14, <1>15 DEF Reached

(* What others do while a run stays undisturbed leaves what it has         *)
(* reached; what it does itself takes it further.                          *)
LEMMA NextProgresses ==
    ASSUME Aiming, Next, NEW r \in Runs, r \in quiet', r \in quiet => Progress(r)
    PROVE  Progress(r)'
<1>1. run \in [Runs -> RunState]  BY DEF Aiming, IInv, TypeOK
<1>2. ASSUME NEW s \in Runs \ {r}, NEW x, Becomes(s, x), r \in quiet,
             UNCHANGED <<account, name, enabled, profile, mapping>>
      PROVE  Progress(r)'
  <2>1. run'[r] = run[r]  BY <1>1, <1>2 DEF Becomes
  <2> QED  BY <1>2, <2>1, ProgressLasts
<1>3. CASE \E s \in Runs, mode \in Modes, listing \in SUBSET directory : Start(s, mode, listing)
  <2>1. PICK s \in Runs, mode \in Modes, listing \in SUBSET directory : Start(s, mode, listing)
    BY <1>3
  <2>2. CASE s = r
    <3>1. run'[r] = [Idle EXCEPT !.step = "listed", !.mode = mode, !.listing = listing]
      BY <1>1, <2>1, <2>2 DEF Start, Becomes
    <3>2. run'[r].step = "listed"  BY <3>1 DEF Idle
    <3> QED  BY <3>2 DEF Progress
  <2>3. CASE s # r
    <3>1. r \in quiet  BY <2>1, <2>3 DEF Start, Disturb
    <3> QED  BY <1>2, <2>1, <2>3, <3>1 DEF Start, users
  <2> QED  BY <2>2, <2>3
<1>4. ASSUME NEW s \in Runs, NEW e \in Entries, LookAtMapped(s, e) PROVE Progress(r)'
  <2>1. r \in quiet  BY <1>4 DEF LookAtMapped
  <2>2. CASE s = r  BY <1>4, <2>1, <2>2, LookAtMappedProgresses
  <2>3. CASE s # r  BY <1>2, <1>4, <2>1, <2>3 DEF LookAtMapped, users
  <2> QED  BY <2>2, <2>3
<1>5. ASSUME NEW s \in Runs, NEW e \in Entries, LookForOrphan(s, e) PROVE Progress(r)'
  <2>1. r \in quiet  BY <1>5 DEF LookForOrphan, Disturb
  <2>2. CASE s = r  BY <1>5, <2>1, <2>2, LookForOrphanProgresses
  <2>3. CASE s # r  BY <1>2, <1>5, <2>1, <2>3 DEF LookForOrphan, users
  <2> QED  BY <2>2, <2>3
\* A write of another run disturbs this one.
<1>6. ASSUME NEW s \in Runs, DisturbOthers(s) PROVE s = r /\ r \in quiet
  BY <1>6 DEF DisturbOthers
<1>7. ASSUME NEW s \in Runs, Update(s) \/ Mark(s) PROVE Progress(r)'
  <2>1. s = r /\ r \in quiet  BY <1>6, <1>7 DEF Update, Mark
  <2> QED  BY <1>7, <2>1, UpdateProgresses
<1>8. ASSUME NEW s \in Runs, Adopt(s) PROVE Progress(r)'
  <2>1. s = r /\ r \in quiet  BY <1>6, <1>8 DEF Adopt
  <2> QED  BY <1>8, <2>1, AdoptProgresses
<1>9. ASSUME NEW s \in Runs, NEW u \in Users, CreateUser(s, u) PROVE Progress(r)'
  <2>1. s = r /\ r \in quiet  BY <1>6, <1>9 DEF CreateUser
  <2> QED  BY <1>9, <2>1, CreateUserProgresses
<1>10. ASSUME NEW s \in Runs, MapUser(s) PROVE Progress(r)'
  <2>1. s = r /\ r \in quiet  BY <1>6, <1>10 DEF MapUser
  <2> QED  BY <1>10, <2>1, MapUserProgresses
<1>11. ASSUME NEW s \in Runs, Disable(s) PROVE Progress(r)'
  <2>1. s = r /\ r \in quiet  BY <1>6, <1>11 DEF Disable
  <2> QED  BY <1>11, <2>1, DisableProgresses
<1>12. ASSUME NEW s \in Runs, ReadMappings(s) PROVE Progress(r)'
  <2>1. r \in quiet  BY <1>12 DEF ReadMappings
  <2>2. CASE s = r  BY <1>12, <2>2, ReadMappingsProgresses
  <2>3. CASE s # r  BY <1>2, <1>12, <2>1, <2>3 DEF ReadMappings, users
  <2> QED  BY <2>2, <2>3
<1>13. ASSUME NEW s \in Runs, ListMissing(s) PROVE Progress(r)'
  <2>1. r \in quiet  BY <1>13 DEF ListMissing
  <2>2. CASE s = r  BY <1>13, <2>1, <2>2, ListMissingProgresses
  <2>3. CASE s # r  BY <1>2, <1>13, <2>1, <2>3 DEF ListMissing, users
  <2> QED  BY <2>2, <2>3
<1>14. ASSUME NEW s \in Runs, NEW u \in Users, LookAtMissing(s, u) PROVE Progress(r)'
  <2>1. r \in quiet  BY <1>14 DEF LookAtMissing
  <2>2. CASE s = r  BY <1>14, <2>1, <2>2, LookAtMissingProgresses
  <2>3. CASE s # r  BY <1>2, <1>14, <2>1, <2>3 DEF LookAtMissing, users
  <2> QED  BY <2>2, <2>3
\* The end of a run disturbs that run only.
<1>15. ASSUME NEW s \in Runs, Complete(s) \/ FailStatement(s) \/ Crash(s) PROVE Progress(r)'
  <2>1. s # r /\ r \in quiet
    BY <1>15 DEF Complete, FailStatement, Crash, Abandon, Disturb
  <2>2. UNCHANGED <<account, name, enabled, profile, mapping>>
    BY <1>15 DEF Complete, FailStatement, Crash, Abandon, users
  <2>3. \E x : Becomes(s, x)
    BY <1>15 DEF Complete, FailStatement, Crash, NextEntry
  <2> QED  BY <1>2, <2>1, <2>2, <2>3
\* Other writers disturb every run.
<1>16. CASE \/ \E u \in Users, n \in Names : CreateLocal(u, n)
            \/ \E u \in Users, on \in BOOLEAN : EditUser(u, on)
            \/ \E u \in Users : DeleteUser(u)
            \/ \E e \in Entries : DirectoryMoves(e)
  BY <1>16 DEF CreateLocal, EditUser, DeleteUser, DirectoryMoves, DisturbAll
<1> QED
  BY <1>3, <1>4, <1>5, <1>7, <1>8, <1>9, <1>10, <1>11, <1>12, <1>13, <1>14, <1>15, <1>16 DEF Next

QuietRunsProgress == \A r \in quiet : Progress(r)

(* A run that has come to its end undisturbed has every listed entry in    *)
(* order.                                                                  *)
LEMMA ProgressConverges ==
    ASSUME IInv, QuietRunsProgress
    PROVE  SyncConverges
<1> SUFFICES ASSUME NEW r \in quiet, AllDone(r), ~NameClash(run[r].listing)
             PROVE  /\ \A e \in run[r].listing :
                          /\ mapping[e] # None
                          /\ run[r].mode # "LinkOnly" => profile[mapping[e]] = e
                          /\ run[r].mode = "Force" => enabled[mapping[e]]
                    /\ \A e \in Entries \ run[r].listing :
                          run[r].mode = "Force" /\ mapping[e] # None => ~enabled[mapping[e]]
  BY DEF SyncConverges
<1>1. Reached(r)  BY DEF QuietRunsProgress, Progress, AllDone, Looped
<1>2. run[r].todo = {}  BY <1>1 DEF AllDone, Looped, Reached, Ending
<1>3. \A e \in run[r].listing : Synced(r, e)  BY <1>1, <1>2 DEF Reached
<1>4. ASSUME NEW e \in Entries \ run[r].listing, run[r].mode = "Force", mapping[e] # None
      PROVE  ~enabled[mapping[e]]
  BY <1>1, <1>4 DEF AllDone, Reached, Ending
<1> QED  BY <1>3, <1>4 DEF Synced

(* Whatever crashes, failures and overlapping runs have left behind, one   *)
(* run over a full listing that nothing disturbs brings every account in   *)
(* line with the directory, unless two entries claim one username.         *)
THEOREM SyncRepairs == Spec => []SyncConverges
<1>1. Init => QuietRunsProgress
  BY DEF Init, QuietRunsProgress
<1>2. Aiming /\ QuietRunsProgress /\ [Next]_vars => QuietRunsProgress'
  <2> SUFFICES ASSUME Aiming, QuietRunsProgress, [Next]_vars, NEW r \in quiet'
               PROVE  Progress(r)'
    BY DEF QuietRunsProgress
  <2>1. quiet \subseteq Runs  BY DEF Aiming, IInv, TypeOK
  <2>2. CASE Next
    <3>1. r \in Runs  BY <2>2, LocalsStay, TablesStay DEF Aiming, TypeOK
    <3> QED  BY <2>2, <3>1, NextProgresses DEF QuietRunsProgress
  <2>3. CASE UNCHANGED vars
    BY <2>1, <2>3, ProgressLasts DEF vars, users, QuietRunsProgress
  <2> QED  BY <2>2, <2>3
<1>3. Aiming /\ QuietRunsProgress => SyncConverges
  BY ProgressConverges DEF Aiming
<1> QED  BY <1>1, <1>2, <1>3, Aimed, PTL DEF Spec
=============================================================================
