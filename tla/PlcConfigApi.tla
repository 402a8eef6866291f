------------------------------ MODULE PlcConfigApi ------------------------------
(***************************************************************************)
(* The PLC configuration path: the SQLite store (internal/plcstore), the   *)
(* create, update and delete handlers (internal/server/api_plcs.go), the   *)
(* config file watcher's callback and the boot sequence                    *)
(* (cmd/lgb/cmd/server.go), and the manager they drive, seen through       *)
(* PlcRegistry.                                                            *)
(*                                                                         *)
(* A request body or YAML entry is a value of Value: it fixes the columns  *)
(* of the plcs row and the rows of plc_tags.  List reads the two tables in *)
(* separate queries, so what it returns has a row value and a tags value.  *)
(* The store has one connection: a query or a transaction is one step.     *)
(***************************************************************************)
EXTENDS Integers, FiniteSets

CONSTANTS
    MaxName,    \* PLC names are 1..MaxName, in the order of ORDER BY name
    Value,      \* contents of a PLC configuration
    Client,     \* goroutines serving a mutating request
    Watcher,    \* goroutines of the watcher's debounce timer
    Yaml,       \* the plcs: block of the YAML file, a function on names
    NoPlc,      \* "no such PLC"
    MaxWrites   \* bound: committed writes

Name == 1..MaxName

ASSUME ApiAssumption ==
    /\ MaxName \in Nat \ {0}
    /\ NoPlc \notin Value \cup [id: Nat, val: Value]
    /\ Yaml \in [Name -> Value \cup {NoPlc}]
    /\ Client \cap Watcher = {}
    /\ IsFiniteSet(Client) /\ IsFiniteSet(Watcher)
    /\ MaxWrites \in Nat

Actor == Client \cup Watcher

\* Surrogate ids.  AUTOINCREMENT never gives one out twice; an id no table
\* and no pending List mentions any more may stand for a new one.
Id == 1..(MaxName * (Cardinality(Actor) + 1) + MaxName)
Stored == [id: Id, val: Value]
NoTags == "no tags"

\* A configuration as List returns it.
Config == [row: Value, tags: Value \cup {NoTags}]
NoConfig == [row |-> NoPlc, tags |-> NoTags]

\* What List returns of a store seeded from the YAML file.
YamlConfig ==
    [n \in Name |-> IF Yaml[n] = NoPlc THEN NoConfig
                    ELSE [row |-> Yaml[n], tags |-> Yaml[n]]]

VARIABLES
    plcs,       \* tables plcs and plc_tags
    running, want, phase,   \* the manager (PlcRegistry)
    holder,     \* the actor inside Reload, or NoActor
    pc,         \* per actor
    ids,        \* per actor: name -> id, as the first query of List found it
    list,       \* per actor: the result of List so far
    cursor,     \* per actor: the name whose tags are read next
    writes,     \* committed writes, up to the bound
    \* ---- history
    fresh,      \* per actor: no write committed since its List began
    runFresh    \* no write committed since the List began that runs now

NoActor == "no actor"
Empty == [n \in Name |-> NoConfig]
NoId == 0

\* What the store holds, as a List that no write overlaps returns it.
StoreConfig ==
    [n \in Name |-> IF plcs[n] = NoPlc THEN NoConfig
                    ELSE [row |-> plcs[n].val, tags |-> plcs[n].val]]

storeVars == <<plcs, writes, fresh, runFresh>>
registryVars == <<running, want, phase, holder>>
listVars == <<ids, list, cursor>>
vars == <<storeVars, registryVars, pc, listVars>>

Manager == INSTANCE PlcRegistry WITH None <- NoConfig, InitRunning <- YamlConfig

TypeOK ==
    /\ plcs \in [Name -> Stored \cup {NoPlc}]
    /\ \A m, n \in Name: m # n /\ plcs[m] # NoPlc /\ plcs[n] # NoPlc =>
           plcs[m].id # plcs[n].id
    /\ running \in [Name -> Config \cup {NoConfig}]
    /\ want \in [Name -> Config \cup {NoConfig}]
    /\ phase \in {"idle", "diff", "add"}
    /\ holder \in Actor \cup {NoActor}
    /\ pc \in [Actor -> {"idle", "audit", "list", "tags", "reload", "reloading"}]
    /\ ids \in [Actor -> [Name -> Id \cup {NoId}]]
    /\ list \in [Actor -> [Name -> Config \cup {NoConfig}]]
    /\ cursor \in [Actor -> 1..(MaxName + 1)]
    /\ writes \in 0..MaxWrites
    /\ fresh \in [Actor -> BOOLEAN] /\ runFresh \in BOOLEAN

-----------------------------------------------------------------------------
\* Seed and Create: a new id for name n.
UsedIds ==
    {plcs[n].id : n \in {m \in Name: plcs[m] # NoPlc}}
        \cup {ids[a][n] : a \in Actor, n \in Name}

NewId(i) == i \in Id \ UsedIds /\ \A j \in Id \ UsedIds: i <= j

\* Every name of the YAML file, numbered from 1.
Seeded == [n \in Name |-> IF Yaml[n] = NoPlc THEN NoPlc
                          ELSE [id |-> n, val |-> Yaml[n]]]

\* First boot: the empty store is seeded, List, NewManager.
Init ==
    /\ plcs = Seeded /\ writes = 0
    /\ running = YamlConfig /\ want = Empty /\ phase = "idle"
    /\ holder = NoActor
    /\ pc = [a \in Actor |-> "idle"]
    /\ ids = [a \in Actor |-> [n \in Name |-> NoId]]
    /\ list = [a \in Actor |-> Empty]
    /\ cursor = [a \in Actor |-> 1]
    /\ fresh = [a \in Actor |-> FALSE] /\ runFresh = TRUE

-----------------------------------------------------------------------------
(* The store transaction of a mutating handler.  A request that fails its  *)
(* validation or its transaction changes nothing and returns.              *)

Commit(c) ==
    /\ writes < MaxWrites
    /\ writes' = writes + 1
    /\ pc' = [pc EXCEPT ![c] = "audit"]
    /\ fresh' = [a \in Actor |-> FALSE]
    /\ runFresh' = FALSE
    /\ UNCHANGED <<registryVars, listVars>>

handleCreatePLC(c, n, v) ==
    /\ pc[c] = "idle"
    /\ plcs[n] = NoPlc
    /\ \E i \in Id: NewId(i) /\ plcs' = [plcs EXCEPT ![n] = [id |-> i, val |-> v]]
    /\ Commit(c)

\* Mutant: a renamed PLC keeps its old row too.
handleUpdatePLCCopies(c, n, m, v) ==
    /\ pc[c] = "idle"
    /\ plcs[n] # NoPlc
    /\ m # n => plcs[m] = NoPlc
    /\ plcs' = [plcs EXCEPT ![m] = [id |-> plcs[n].id, val |-> v]]
    /\ Commit(c)

\* The body may carry another name m: the row keeps its id.
handleUpdatePLC(c, n, m, v) ==
    /\ pc[c] = "idle"
    /\ plcs[n] # NoPlc
    /\ m # n => plcs[m] = NoPlc
    /\ plcs' = [plcs EXCEPT ![n] = NoPlc, ![m] = [id |-> plcs[n].id, val |-> v]]
    /\ Commit(c)

handleDeletePLC(c, n) ==
    /\ pc[c] = "idle"
    /\ plcs[n] # NoPlc
    /\ plcs' = [plcs EXCEPT ![n] = NoPlc]
    /\ Commit(c)

\* The audit line is written; nothing reads the log back.
Audit(c) ==
    /\ pc[c] = "audit"
    /\ pc' = [pc EXCEPT ![c] = "list"]
    /\ UNCHANGED <<storeVars, registryVars, listVars>>

\* The debounce timer fires and the file parses.
Watch(w) ==
    /\ pc[w] = "idle"
    /\ pc' = [pc EXCEPT ![w] = "list"]
    /\ UNCHANGED <<storeVars, registryVars, listVars>>

-----------------------------------------------------------------------------
(* reloadPLCsFromStore, and the watcher's callback. *)

\* The actor returns; its locals are gone.
Done(a) ==
    /\ pc' = [pc EXCEPT ![a] = "idle"]
    /\ ids' = [ids EXCEPT ![a] = [n \in Name |-> NoId]]
    /\ list' = [list EXCEPT ![a] = Empty]
    /\ cursor' = [cursor EXCEPT ![a] = 1]

\* First query of List: the rows of plcs, without their tags.
RowsOf == [n \in Name |-> IF plcs[n] = NoPlc THEN NoConfig
                          ELSE [row |-> plcs[n].val, tags |-> NoTags]]

ListRows(a) ==
    /\ pc[a] = "list"
    /\ ids' = [ids EXCEPT ![a] =
                  [n \in Name |-> IF plcs[n] = NoPlc THEN NoId ELSE plcs[n].id]]
    /\ list' = [list EXCEPT ![a] = RowsOf]
    /\ fresh' = [fresh EXCEPT ![a] = TRUE]
    /\ pc' = [pc EXCEPT ![a] = "tags"]
    /\ UNCHANGED <<plcs, writes, runFresh, registryVars, cursor>>

\* listTags(id): the tags of the row with that id, whatever its name is now.
TagsOfId(i) ==
    IF \E n \in Name: plcs[n] # NoPlc /\ plcs[n].id = i
    THEN plcs[CHOOSE n \in Name: plcs[n] # NoPlc /\ plcs[n].id = i].val
    ELSE NoTags

\* Mutant: the tags are looked up by the row's position instead of its id.
listTagsOfName(a) ==
    /\ pc[a] = "tags"
    /\ cursor[a] <= MaxName
    /\ list' = [list EXCEPT ![a][cursor[a]].tags =
                   IF ids[a][cursor[a]] = NoId THEN NoTags ELSE TagsOfId(cursor[a])]
    /\ cursor' = [cursor EXCEPT ![a] = @ + 1]
    /\ UNCHANGED <<storeVars, registryVars, pc, ids>>

\* One query per row found, in the order of their names.
listTags(a) ==
    /\ pc[a] = "tags"
    /\ cursor[a] <= MaxName
    /\ list' = [list EXCEPT ![a][cursor[a]].tags =
                   IF ids[a][cursor[a]] = NoId THEN NoTags ELSE TagsOfId(ids[a][cursor[a]])]
    /\ cursor' = [cursor EXCEPT ![a] = @ + 1]
    /\ UNCHANGED <<storeVars, registryVars, pc, ids>>

ListDone(a) ==
    /\ pc[a] = "tags"
    /\ cursor[a] > MaxName
    /\ pc' = [pc EXCEPT ![a] = "reload"]
    /\ UNCHANGED <<storeVars, registryVars, listVars>>

\* A query fails, for a client that has gone away because its context is
\* cancelled: logged, and no Reload.
ListFail(a) ==
    /\ pc[a] \in {"list", "tags"}
    /\ Done(a)
    /\ UNCHANGED <<storeVars, registryVars>>

\* plcMgr.Reload waits for reloadMu, then runs.
ReloadBegin(a) ==
    /\ pc[a] = "reload"
    /\ holder = NoActor
    /\ Manager!Begin(list[a])
    /\ holder' = a
    /\ pc' = [pc EXCEPT ![a] = "reloading"]
    /\ UNCHANGED <<storeVars, listVars>>

ReloadDiff ==
    /\ Manager!Unregister
    /\ UNCHANGED <<storeVars, holder, pc, listVars>>

\* Mutant: reloadMu is not released.
ReloadAddKeepsLock ==
    /\ want' = Empty
    /\ Manager!Register
    /\ runFresh' = fresh[holder]
    /\ Done(holder)
    /\ UNCHANGED <<plcs, writes, fresh, holder>>

ReloadAdd ==
    /\ want' = Empty
    /\ Manager!Register
    /\ runFresh' = fresh[holder]
    /\ Done(holder)
    /\ holder' = NoActor
    /\ UNCHANGED <<plcs, writes, fresh>>

-----------------------------------------------------------------------------
\* The gateway dies and boots again: an empty store is seeded from YAML, and
\* the new manager starts from List.
Restart ==
    /\ plcs' = IF \A n \in Name: plcs[n] = NoPlc THEN Seeded ELSE plcs
    /\ running' = StoreConfig' /\ want' = Empty /\ phase' = "idle"
    /\ holder' = NoActor
    /\ pc' = [a \in Actor |-> "idle"]
    /\ ids' = [a \in Actor |-> [n \in Name |-> NoId]]
    /\ list' = [a \in Actor |-> Empty]
    /\ cursor' = [a \in Actor |-> 1]
    /\ fresh' = [a \in Actor |-> FALSE] /\ runFresh' = TRUE
    /\ UNCHANGED writes

Mutate(c) ==
    \/ \E n \in Name, v \in Value: handleCreatePLC(c, n, v)
    \/ \E n, m \in Name, v \in Value: handleUpdatePLC(c, n, m, v)
    \/ \E n \in Name: handleDeletePLC(c, n)

reloadPLCsFromStore(a) ==
    ListRows(a) \/ listTags(a) \/ ListDone(a) \/ ListFail(a) \/ ReloadBegin(a)

Next ==
    \/ \E c \in Client: Mutate(c) \/ Audit(c)
    \/ \E w \in Watcher: Watch(w)
    \/ \E a \in Actor: reloadPLCsFromStore(a)
    \/ ReloadDiff \/ ReloadAdd
    \/ Restart

Spec == Init /\ [][Next]_vars

(***************************************************************************)
(* Fairness: goroutines are scheduled.  Go's mutex does not starve a       *)
(* waiter, which is strong fairness of ReloadBegin.  ReloadAdd comes after *)
(* the wait for the drained goroutines, which need not end (ReloadReturns  *)
(* of PlcManager), so nothing is assumed of it here.                       *)
(***************************************************************************)
Fairness ==
    /\ WF_vars(ReloadDiff)
    /\ \A a \in Actor:
        /\ WF_vars(ListRows(a) \/ listTags(a) \/ ListDone(a))
        /\ SF_vars(ReloadBegin(a))
    /\ \A c \in Client: WF_vars(Audit(c))

FairSpec == Spec /\ Fairness

-----------------------------------------------------------------------------
(* Properties. *)

\* The manager runs exactly what the store holds whenever the List it was
\* last given began after the last committed write, whoever made it, and
\* however many Reloads took turns meanwhile.  A List that a write overlaps
\* may mix old rows with new tags; this says no other List does.
FreshReloadConverges ==
    phase = "idle" /\ runFresh => running = StoreConfig

\* No drain lasts for ever.  One does when a tag callback of a drained worker
\* never returns: see ReloadReturns of PlcManager.
DrainsEnd == []<>(phase # "add")

\* As long as drains end, every mutating request and every watcher callback
\* gets through the reload lock and returns.  A drain that does not end holds
\* reloadMu, and every later handler waits for it.
HandlersReturn ==
    DrainsEnd => \A a \in Actor: pc[a] # "idle" ~> pc[a] = "idle"

=============================================================================
