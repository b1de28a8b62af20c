-------------------------------- MODULE Realms --------------------------------
(***************************************************************************)
(* The realms and what belongs to each: its signing keys, its settings,    *)
(* its built-in clients, and in the master realm the client "<name>-realm" *)
(* through whose role it is administered.  An API process completes the    *)
(* master realm before it serves (initialize_application).  The requests   *)
(* to the processes create, rename and delete realms and sign tokens, each *)
(* in several statements without a transaction; any number of them may be  *)
(* under way in one process.                                               *)
(***************************************************************************)
EXTENDS RunnerParameters, Sequences

CONSTANTS
    Rows,       \* rows of realms that may ever be inserted
    Names,      \* names of realms
    Master,     \* the name of the master realm
    Requests    \* the requests that may be under way at a time, in all processes

ASSUME RowsAssumption == Rows \subseteq Nat
ASSUME NamesAssumption == Master \in Names /\ None \notin Names \union Rows
ASSUME RequestsAssumption ==
    IsFiniteSet(Requests) /\ Requests \intersect Instances = {} /\ None \notin Instances

\* What takes steps: the start of a process, and the requests.
Tasks == Instances \union Requests

VARIABLES
    name,       \* column name of a stored realm
    born,       \* rows ever inserted
    rows,       \* how many rows of a kind a realm has
    label,      \* the name in the client_id of the client "<name>-realm" that
                \* was inserted for a realm
    pc, at,     \* of a task: its step, and its place in a list of kinds
    row, client, wanted, todo, \* what it holds: a realm, the realm whose
                \* client it has read, a name, realms to back-fill
    made,       \* history: realms whose creation was answered
    renamed,    \* history: realms renamed
    strayed     \* history: realms deleted by a request that had read another's
                \* client, or whose deletion was cut off

tables == <<name, born, rows, label>>
locals == <<pc, at, row, client, wanted, todo>>
history == <<made, renamed, strayed>>
realmVars == <<tables, locals, history>>

\* The order of the statements.  The client "system" is the one in the master
\* realm; its role and the grant of the role go with it.  "builtin" is the
\* client admin-cli, with the admin user in the master realm and with
\* ferriskey-account and its scopes in a realm that is created.
BootOrder == <<"key", "settings", "console", "system", "builtin", "role">>
CreateOrder == <<"settings", "system", "role", "grant", "builtin", "console">>

Kinds == {"key", "settings", "console", "builtin", "role", "grant"}
Unconstrained == {"key", "settings"}    \* no unique constraint
OfClient == {"role", "grant"}           \* ON DELETE CASCADE from the client
StartSteps == {"find", "insert", "look", "make", "list", "fill", "console"}
RequestSteps == {"sign", "create", "delete", "deleteClient", "rename"}
Steps == {"off", "ready"} \union StartSteps \union RequestSteps

Stored == {r \in Rows : name[r] # None}
Named(n) == {r \in Rows : name[r] = n}
Labelled(n) == {r \in Rows : label[r] = n}
Present(r, kind) == IF kind = "system" THEN label[r] # None ELSE rows[r][kind] > 0

TablesTypeOK ==
    /\ name \in [Rows -> Names \union {None}]
    /\ \A r, s \in Stored : name[r] = name[s] => r = s
    /\ born \in SUBSET Rows
    /\ Stored \subseteq born
    /\ rows \in [Rows -> [Kinds -> Nat]]
    /\ \A r \in Rows, k \in Kinds \ Unconstrained : rows[r][k] <= 1
    /\ \A r \in Rows \ Stored, k \in Kinds \ OfClient : rows[r][k] = 0
    /\ \A r \in Rows, k \in OfClient : rows[r][k] > 0 => label[r] # None
    /\ label \in [Rows -> Names \union {None}]
    /\ \A r, s \in Rows : label[r] = label[s] /\ label[r] # None => r = s

LocalsTypeOK ==
    /\ pc \in [Tasks -> Steps]
    /\ at \in [Tasks -> Nat]
    /\ row \in [Tasks -> Rows \union {None}]
    /\ client \in [Tasks -> Rows \union {None}]
    /\ wanted \in [Tasks -> Names \union {None}]
    /\ todo \in [Tasks -> SUBSET Rows]

\* What a task holds at its step.
HeldTypeOK(i) ==
    /\ pc[i] \in {"look", "make"} => at[i] \in DOMAIN BootOrder /\ row[i] \in Named(Master)
    /\ pc[i] = "create" => at[i] \in DOMAIN CreateOrder /\ wanted[i] \in Names
    /\ pc[i] \in {"console", "sign", "create", "rename"} => row[i] \in Rows
    /\ pc[i] \in {"delete", "rename"} => wanted[i] \in Names \ {Master}
    /\ pc[i] \in {"delete", "deleteClient"} => client[i] \in Rows

HistoryTypeOK ==
    /\ made \in SUBSET Stored
    /\ renamed \in SUBSET Stored
    /\ strayed \in SUBSET born

RealmsTypeOK ==
    TablesTypeOK /\ LocalsTypeOK /\ HistoryTypeOK /\ \A i \in Tasks : HeldTypeOK(i)

RealmsInit ==
    /\ name = [r \in Rows |-> None]
    /\ born = {}
    /\ rows = [r \in Rows |-> [k \in Kinds |-> 0]]
    /\ label = [r \in Rows |-> None]
    /\ pc = [i \in Tasks |-> "off"]
    /\ at = [i \in Tasks |-> 0]
    /\ row = [i \in Tasks |-> None]
    /\ client = [i \in Tasks |-> None]
    /\ wanted = [i \in Tasks |-> None]
    /\ todo = [i \in Tasks |-> {}]
    /\ made = {}
    /\ renamed = {}
    /\ strayed = {}

-----------------------------------------------------------------------------
Goto(i, step) == pc' = [pc EXCEPT ![i] = step]

Hold(i, k, r, c, n, rs) ==
    /\ at' = [at EXCEPT ![i] = k]
    /\ row' = [row EXCEPT ![i] = r]
    /\ client' = [client EXCEPT ![i] = c]
    /\ wanted' = [wanted EXCEPT ![i] = n]
    /\ todo' = [todo EXCEPT ![i] = rs]

Leave(i, step) == Goto(i, step) /\ Hold(i, 0, None, None, None, {})
Stop(i) == Leave(i, "off")

\* Realms to be inserted get identities nobody has had (generate_uuid_v7).
\* They are taken in order: which ones they are makes no difference.
Fresh(r) == r \in Rows \ born /\ \A s \in Rows \ (born \union {r}) : r < s

\* INSERT INTO realms: name is unique.
InsertRealm(r, n) ==
    /\ Fresh(r)
    /\ Named(n) = {}
    /\ name' = [name EXCEPT ![r] = n]
    /\ born' = born \union {r}

\* An insertion of another kind for the realm r named n is refused by a unique
\* constraint, or because what it refers to is gone.
Accepted(r, n, kind) ==
    CASE kind = "system" -> Labelled(n) = {}
      [] kind \in OfClient -> label[r] # None /\ rows[r][kind] = 0
      [] kind \in Unconstrained -> r \in Stored
      [] OTHER -> r \in Stored /\ rows[r][kind] = 0

Insert(r, n, kind) ==
    IF kind = "system"
      THEN label' = [label EXCEPT ![r] = n] /\ UNCHANGED rows
      ELSE rows' = [rows EXCEPT ![r][kind] = @ + 1] /\ UNCHANGED label

-----------------------------------------------------------------------------
(* initialize_application.                                                 *)

Start(i) ==
    /\ pc[i] = "off"
    /\ Goto(i, "find")
    /\ UNCHANGED <<tables, at, row, client, wanted, todo, history>>

\* A slip: a master realm that is there is taken to be complete.
FindComplete(i) ==
    /\ pc[i] = "find"
    /\ IF Named(Master) = {}
         THEN Goto(i, "insert") /\ UNCHANGED <<at, row, client, wanted, todo>>
         ELSE Leave(i, "list")
    /\ UNCHANGED <<tables, history>>

FindMaster(i) ==
    /\ pc[i] = "find"
    /\ IF Named(Master) = {}
         THEN Goto(i, "insert") /\ UNCHANGED <<at, row, client, wanted, todo>>
         ELSE \E r \in Named(Master) : Goto(i, "look") /\ Hold(i, 1, r, None, None, {})
    /\ UNCHANGED <<tables, history>>

InsertMaster(i, r) ==
    /\ pc[i] = "insert"
    /\ \/ /\ InsertRealm(r, Master)
          /\ Goto(i, "look")
          /\ Hold(i, 1, r, None, None, {})
       \/ /\ Named(Master) # {}
          /\ Stop(i)
          /\ UNCHANGED <<name, born>>
    /\ UNCHANGED <<rows, label, history>>

Advance(i) ==
    IF at[i] < Len(BootOrder)
      THEN Goto(i, "look") /\ Hold(i, at[i] + 1, row[i], None, None, {})
      ELSE Leave(i, "list")

\* get_by_client_id, get_by_username and so on.
Look(i) ==
    /\ pc[i] = "look"
    /\ IF Present(row[i], BootOrder[at[i]])
         THEN Advance(i)
         ELSE Goto(i, "make") /\ UNCHANGED <<at, row, client, wanted, todo>>
    /\ UNCHANGED <<tables, history>>

\* What is missing is inserted; a refusal ends the process.
Make(i) ==
    /\ pc[i] = "make"
    /\ IF Accepted(row[i], Master, BootOrder[at[i]])
         THEN Insert(row[i], Master, BootOrder[at[i]]) /\ Advance(i)
         ELSE Stop(i) /\ UNCHANGED <<rows, label>>
    /\ UNCHANGED <<name, born, history>>

\* The role is given to the admin user and the password set, whose errors are
\* ignored.  Then the other realms are back-filled; an error in listing them leaves none.
List(i) ==
    /\ pc[i] = "list"
    /\ Goto(i, "fill")
    /\ Hold(i, 0, None, None, None, Stored \ Named(Master)) \/ Hold(i, 0, None, None, None, {})
    /\ UNCHANGED <<tables, history>>

Fill(i, r) ==
    /\ pc[i] = "fill"
    /\ r \in todo[i]
    /\ IF Present(r, "console") THEN Goto(i, "fill") ELSE Goto(i, "console")
    /\ Hold(i, 0, r, None, None, todo[i] \ {r})
    /\ UNCHANGED <<tables, history>>

\* create_client for another realm: an error is logged.
FillConsole(i) ==
    /\ pc[i] = "console"
    /\ \/ Accepted(row[i], None, "console") /\ Insert(row[i], None, "console")
       \/ UNCHANGED <<rows, label>>
    /\ Goto(i, "fill")
    /\ Hold(i, 0, None, None, None, todo[i])
    /\ UNCHANGED <<name, born, history>>

Ready(i) ==
    /\ pc[i] = "fill"
    /\ todo[i] = {}
    /\ Leave(i, "ready")
    /\ UNCHANGED <<tables, history>>

Boot(i) ==
    \/ FindMaster(i)
    \/ \E r \in Rows : InsertMaster(i, r) \/ Fill(i, r)
    \/ Look(i)
    \/ Make(i)
    \/ List(i)
    \/ FillConsole(i)
    \/ Ready(i)

-----------------------------------------------------------------------------
(* get_or_generate_key, at the first token of a realm.                     *)

\* A slip: the key is generated without looking for one.
SignAnew(q, r) ==
    /\ pc[q] = "off"
    /\ r \in Stored
    /\ Goto(q, "sign")
    /\ Hold(q, 0, r, None, None, {})
    /\ UNCHANGED <<tables, history>>

Sign(q, r) ==
    /\ pc[q] = "off"
    /\ r \in Stored
    /\ rows[r]["key"] = 0
    /\ Goto(q, "sign")
    /\ Hold(q, 0, r, None, None, {})
    /\ UNCHANGED <<tables, history>>

GenerateKey(q) ==
    /\ pc[q] = "sign"
    /\ IF Accepted(row[q], None, "key")
         THEN Insert(row[q], None, "key")
         ELSE UNCHANGED <<rows, label>>
    /\ Stop(q)
    /\ UNCHANGED <<name, born, history>>

-----------------------------------------------------------------------------
(* create_realm.                                                           *)

CreateRealm(q, r, n) ==
    /\ pc[q] = "off"
    /\ InsertRealm(r, n)
    /\ Goto(q, "create")
    /\ Hold(q, 1, r, None, n, {})
    /\ UNCHANGED <<rows, label, history>>

\* The next statement; the first that is refused ends the request, and leaves
\* what the others have inserted.
Complete(q) ==
    /\ pc[q] = "create"
    /\ LET kind == CreateOrder[at[q]] IN
       IF Accepted(row[q], wanted[q], kind)
         THEN /\ Insert(row[q], wanted[q], kind)
              /\ IF at[q] < Len(CreateOrder)
                   THEN /\ Goto(q, "create")
                        /\ Hold(q, at[q] + 1, row[q], None, wanted[q], {})
                        /\ UNCHANGED made
                   ELSE Stop(q) /\ made' = made \union {row[q]}
         ELSE /\ Stop(q)
              /\ UNCHANGED <<rows, label, made>>
    /\ UNCHANGED <<name, born, renamed, strayed>>

-----------------------------------------------------------------------------
(* delete_realm and update_realm.  (The master realm is not renamed and its *)
(* name not given to another: see README.)                                 *)

\* get_by_name, can_delete, and the client "<name>-realm", without which the
\* request ends.
FindDoomed(q, n) ==
    /\ pc[q] = "off"
    /\ n # Master
    /\ Named(n) # {}
    /\ \E c \in Labelled(n) : Hold(q, 0, None, c, n, {})
    /\ Goto(q, "delete")
    /\ UNCHANGED <<tables, history>>

DropClient(c) ==
    /\ label' = [label EXCEPT ![c] = None]
    /\ rows' = [rows EXCEPT ![c] = [k \in Kinds |-> IF k \in OfClient THEN 0 ELSE @[k]]]

\* A slip: the client is deleted before the realm.
DeleteClientFirst(q) ==
    /\ pc[q] = "delete"
    /\ DropClient(client[q])
    /\ Goto(q, "deleteClient")
    /\ UNCHANGED <<name, born, at, row, client, wanted, todo, history>>

\* delete_by_name, with what is ON DELETE CASCADE: whatever realm has the name
\* now.
DeleteRow(q) ==
    /\ pc[q] = "delete"
    /\ \/ /\ Named(wanted[q]) = {}
          /\ Stop(q)
          /\ UNCHANGED <<name, rows, history>>
       \/ \E r \in Named(wanted[q]) :
             /\ name' = [name EXCEPT ![r] = None]
             /\ rows' = [rows EXCEPT ![r] = [k \in Kinds |-> IF k \in OfClient THEN @[k] ELSE 0]]
             /\ made' = made \ {r}
             /\ renamed' = renamed \ {r}
             /\ strayed' = IF r # client[q] THEN strayed \union {r} ELSE strayed
             /\ Goto(q, "deleteClient")
             /\ Hold(q, 0, None, client[q], None, {})
    /\ UNCHANGED <<born, label>>

\* delete_by_id.
DeleteClient(q) ==
    /\ pc[q] = "deleteClient"
    /\ DropClient(client[q])
    /\ strayed' = strayed \ {client[q]}
    /\ Stop(q)
    /\ UNCHANGED <<name, born, made, renamed>>

FindRenamed(q, n, m) ==
    /\ pc[q] = "off"
    /\ Master \notin {n, m}
    /\ n # m
    /\ \E r \in Named(n) : Hold(q, 0, r, None, m, {})
    /\ Goto(q, "rename")
    /\ UNCHANGED <<tables, history>>

\* The UPDATE, by id: the client "<name>-realm" keeps its name.
Rename(q) ==
    /\ pc[q] = "rename"
    /\ IF row[q] \in Stored /\ Named(wanted[q]) \subseteq {row[q]}
         THEN /\ name' = [name EXCEPT ![row[q]] = wanted[q]]
              /\ renamed' = renamed \union {row[q]}
         ELSE UNCHANGED <<name, renamed>>
    /\ Stop(q)
    /\ UNCHANGED <<born, rows, label, made, strayed>>

\* What a request leaves half deleted when it ends before its time.
Broken(q) == IF pc[q] = "deleteClient" /\ label[client[q]] # None THEN {client[q]} ELSE {}

\* Tasks end where they are.
Die(S) ==
    /\ strayed' = strayed \union UNION {Broken(t) : t \in S}
    /\ pc' = [t \in Tasks |-> IF t \in S THEN "off" ELSE pc[t]]
    /\ at' = [t \in Tasks |-> IF t \in S THEN 0 ELSE at[t]]
    /\ row' = [t \in Tasks |-> IF t \in S THEN None ELSE row[t]]
    /\ client' = [t \in Tasks |-> IF t \in S THEN None ELSE client[t]]
    /\ wanted' = [t \in Tasks |-> IF t \in S THEN None ELSE wanted[t]]
    /\ todo' = [t \in Tasks |-> IF t \in S THEN {} ELSE todo[t]]
    /\ UNCHANGED <<tables, made, renamed>>

\* A database error, or a client that does not wait, between two statements of
\* a request.
Abort(q) == pc[q] \in RequestSteps /\ Die({q})

\* A request arrives, and goes on.
Ask(q) ==
    \/ \E r \in Rows : Sign(q, r)
    \/ \E r \in Rows, n \in Names : CreateRealm(q, r, n)
    \/ \E n \in Names : FindDoomed(q, n)
    \/ \E n, m \in Names : FindRenamed(q, n, m)

Proceed(q) ==
    \/ GenerateKey(q)
    \/ Complete(q)
    \/ DeleteRow(q)
    \/ DeleteClient(q)
    \/ Rename(q)
    \/ Abort(q)

-----------------------------------------------------------------------------
\* What initialize_application insists on.
Required == {BootOrder[k] : k \in DOMAIN BootOrder}

MasterIsComplete == \E r \in Named(Master) : \A k \in Required : Present(r, k)

(* No unique constraint keeps a realm to one signing key or one row of     *)
(* settings, and each is looked for and inserted in two statements.  Still *)
(* rows do not pile up.  Of the master realm there are no more than        *)
(* processes, whose starts alone insert them, and of another no more than  *)
(* requests under way at a time: a realm whose rows are there gets none    *)
(* from a later start or request, whatever is cut off and tried again.     *)
KeysAreFew ==
    \A r \in Rows, k \in Unconstrained :
       rows[r][k] <= Cardinality(IF name[r] = Master THEN Instances ELSE Requests)

(* A realm and its client in the master realm go together.  A realm whose  *)
(* creation was answered can be administered and deleted (its client is    *)
(* there, and its creator has the role) unless it was renamed; and no      *)
(* client of a deleted realm stays behind to block its name, unless its    *)
(* deletion was cut off, or it was deleted by a request that had read the  *)
(* client of another realm of the name.                                    *)
ClientsMatchRealms ==
    /\ \A r \in made \ renamed :
          label[r] = name[r] /\ \A k \in OfClient : rows[r][k] = 1
    /\ \A r \in Rows \ Stored :
          label[r] # None =>
              r \in strayed \/ \E i \in Tasks : pc[i] = "deleteClient" /\ client[i] = r
=============================================================================
