-------------------------- MODULE PlcConfigApiProofs --------------------------
(***************************************************************************)
(* The PLC configuration path, for any names, configurations, YAML file,   *)
(* clients and watcher goroutines, and any number of writes and restarts.  *)
(***************************************************************************)
EXTENDS PlcConfigApi, FiniteSetTheorems, TLAPS

(***************************************************************************)
(* The inductive invariant.                                                *)
(***************************************************************************)

\* The id of a name's row.
IdOf(n) == IF plcs[n] = NoPlc THEN NoId ELSE plcs[n].id

\* A List has found a row for exactly the names it has an id for.
ListInv ==
    \A a \in Actor, n \in Name:
        IF ids[a][n] = NoId THEN list[a][n] = NoConfig ELSE list[a][n] \in Config

Listed(a) == pc[a] \in {"tags", "reload", "reloading"}

\* The tags of every row have been read when Reload is called.
CursorInv ==
    \A a \in Actor:
        /\ ~Listed(a) => cursor[a] = 1
        /\ pc[a] \in {"reload", "reloading"} => cursor[a] = MaxName + 1

\* A List that no write has overlapped has the ids and the rows of the store,
\* and its tags as far as it has come.
FreshInv ==
    \A a \in Actor: fresh[a] /\ Listed(a) =>
        \A n \in Name:
            /\ ids[a][n] = IdOf(n)
            /\ list[a][n] = IF n < cursor[a] THEN StoreConfig[n] ELSE RowsOf[n]

\* The Reload in progress works on the List of the actor that holds the lock.
ReloadInv ==
    phase # "idle" => holder \in Actor /\ pc[holder] = "reloading" /\ want = list[holder]

Inv == TypeOK /\ ListInv /\ CursorInv /\ FreshInv /\ ReloadInv /\ FreshReloadConverges

-----------------------------------------------------------------------------
(* Ids, rows and configurations. *)

LEMMA IdFacts ==
    /\ MaxName \in Nat \ {0}
    /\ \A n \in Name: n \in Id
    /\ \A i \in Id: i \in Nat /\ i # NoId
<1>1. IsFiniteSet(Actor)
  BY ApiAssumption, FS_Union DEF Actor
<1>2. Cardinality(Actor) \in Nat
  BY <1>1, FS_CardinalityType
<1>3. MaxName * (Cardinality(Actor) + 1) \in Nat
  BY <1>2, ApiAssumption
<1> DEFINE k == MaxName * (Cardinality(Actor) + 1)
<1>4. Id = 1..(k + MaxName)
  BY DEF Id
<1> HIDE DEF k
<1>5. k \in Nat
  BY <1>3 DEF k
<1> QED BY <1>4, <1>5, ApiAssumption DEF Name, NoId

LEMMA StoredFacts ==
    \A i \in Id, v \in Value: [id |-> i, val |-> v] \in Stored /\ [id |-> i, val |-> v] # NoPlc
BY IdFacts, ApiAssumption DEF Stored

\* A row of the store, and what the two queries of List make of it.
LEMMA RowFacts ==
    ASSUME plcs \in [Name -> Stored \cup {NoPlc}], NEW n \in Name
    PROVE  /\ plcs[n] = NoPlc => /\ RowsOf[n] = NoConfig /\ StoreConfig[n] = NoConfig
                                 /\ IdOf(n) = NoId
           /\ plcs[n] # NoPlc => /\ plcs[n].id \in Id /\ plcs[n].val \in Value
                                 /\ RowsOf[n] = [row |-> plcs[n].val, tags |-> NoTags]
                                 /\ StoreConfig[n] = [row |-> plcs[n].val, tags |-> plcs[n].val]
                                 /\ RowsOf[n] \in Config /\ StoreConfig[n] \in Config
                                 /\ IdOf(n) = plcs[n].id /\ IdOf(n) # NoId
<1>1. plcs[n] # NoPlc => plcs[n].id \in Id /\ plcs[n].val \in Value
  BY DEF Stored
<1>2. /\ RowsOf[n] = IF plcs[n] = NoPlc THEN NoConfig ELSE [row |-> plcs[n].val, tags |-> NoTags]
      /\ StoreConfig[n] = IF plcs[n] = NoPlc THEN NoConfig
                          ELSE [row |-> plcs[n].val, tags |-> plcs[n].val]
  BY DEF RowsOf, StoreConfig
<1>3. \A v \in Value: [row |-> v, tags |-> NoTags] \in Config /\ [row |-> v, tags |-> v] \in Config
  BY DEF Config
<1> QED BY <1>1, <1>2, <1>3, IdFacts DEF IdOf

LEMMA ConfigTypes ==
    ASSUME plcs \in [Name -> Stored \cup {NoPlc}]
    PROVE  /\ RowsOf \in [Name -> Config \cup {NoConfig}]
           /\ StoreConfig \in [Name -> Config \cup {NoConfig}]
<1>1. \A n \in Name: RowsOf[n] \in Config \cup {NoConfig} /\ StoreConfig[n] \in Config \cup {NoConfig}
  BY RowFacts
<1>2. RowsOf = [n \in Name |-> RowsOf[n]] /\ StoreConfig = [n \in Name |-> StoreConfig[n]]
  BY DEF RowsOf, StoreConfig
<1> QED BY <1>1, <1>2

\* A row is found again by its id, whatever happened to the names.
LEMMA TagsFacts ==
    ASSUME TypeOK
    PROVE  /\ \A i \in Id: TagsOfId(i) \in Value \cup {NoTags}
           /\ \A n \in Name: plcs[n] # NoPlc => TagsOfId(plcs[n].id) = plcs[n].val
<1>0. /\ plcs \in [Name -> Stored \cup {NoPlc}]
      /\ \A m, n \in Name: m # n /\ plcs[m] # NoPlc /\ plcs[n] # NoPlc => plcs[m].id # plcs[n].id
  BY DEF TypeOK
<1>1. ASSUME NEW i \in Id PROVE TagsOfId(i) \in Value \cup {NoTags}
  <2>1. CASE \E n \in Name: plcs[n] # NoPlc /\ plcs[n].id = i
    <3>1. PICK m \in Name: m = (CHOOSE n \in Name: plcs[n] # NoPlc /\ plcs[n].id = i)
                           /\ plcs[m] # NoPlc
      BY <2>1
    <3> QED BY <1>0, <2>1, <3>1, RowFacts DEF TagsOfId
  <2>2. CASE ~ \E n \in Name: plcs[n] # NoPlc /\ plcs[n].id = i
    BY <2>2 DEF TagsOfId
  <2> QED BY <2>1, <2>2
<1>2. ASSUME NEW n \in Name, plcs[n] # NoPlc PROVE TagsOfId(plcs[n].id) = plcs[n].val
  <2>1. PICK m \in Name: m = (CHOOSE k \in Name: plcs[k] # NoPlc /\ plcs[k].id = plcs[n].id)
                         /\ plcs[m] # NoPlc /\ plcs[m].id = plcs[n].id
    BY <1>2
  <2>2. m = n
    BY <1>0, <1>2, <2>1
  <2> QED BY <1>2, <2>1, <2>2 DEF TagsOfId
<1> QED BY <1>1, <1>2

\* The state after boot, first or later.
Booted ==
    /\ want = Empty /\ phase = "idle" /\ holder = NoActor
    /\ pc = [a \in Actor |-> "idle"]
    /\ ids = [a \in Actor |-> [n \in Name |-> NoId]]
    /\ list = [a \in Actor |-> Empty]
    /\ cursor = [a \in Actor |-> 1]
    /\ fresh = [a \in Actor |-> FALSE] /\ runFresh = TRUE

DistinctIds ==
    \A m, n \in Name: m # n /\ plcs[m] # NoPlc /\ plcs[n] # NoPlc => plcs[m].id # plcs[n].id

BootState ==
    /\ Booted /\ running = StoreConfig /\ writes \in 0..MaxWrites
    /\ plcs \in [Name -> Stored \cup {NoPlc}] /\ DistinctIds

LEMMA BootInv == BootState => Inv
<1> SUFFICES ASSUME BootState PROVE Inv
  OBVIOUS
<1> USE DEF BootState, Booted, DistinctIds
<1>1. /\ running \in [Name -> Config \cup {NoConfig}]
      /\ want \in [Name -> Config \cup {NoConfig}]
      /\ list \in [Actor -> [Name -> Config \cup {NoConfig}]]
  BY ConfigTypes DEF Empty
<1>2. /\ ids \in [Actor -> [Name -> Id \cup {NoId}]]
      /\ cursor \in [Actor -> 1..(MaxName + 1)]
  BY IdFacts
<1>3. TypeOK
  BY <1>1, <1>2 DEF TypeOK
<1>4. ListInv /\ CursorInv /\ FreshInv
  BY DEF ListInv, CursorInv, FreshInv, Listed, Empty
<1> QED BY <1>3, <1>4 DEF Inv, ReloadInv, FreshReloadConverges

\* What Seed writes to an empty store.
LEMMA SeededFacts ==
    /\ Seeded \in [Name -> Stored \cup {NoPlc}]
    /\ \A m, n \in Name: m # n /\ Seeded[m] # NoPlc /\ Seeded[n] # NoPlc => Seeded[m].id # Seeded[n].id
    /\ \A n \in Name: IF Yaml[n] = NoPlc THEN Seeded[n] = NoPlc
                       ELSE Seeded[n] # NoPlc /\ Seeded[n].val = Yaml[n]
<1>1. \A n \in Name: Yaml[n] # NoPlc => [id |-> n, val |-> Yaml[n]] \in Stored /\ [id |-> n, val |-> Yaml[n]] # NoPlc
  BY IdFacts, StoredFacts, ApiAssumption
<1>2. \A n \in Name: Seeded[n] = IF Yaml[n] = NoPlc THEN NoPlc ELSE [id |-> n, val |-> Yaml[n]]
  BY DEF Seeded
<1>3. Seeded = [n \in Name |-> Seeded[n]]
  BY DEF Seeded
<1> QED BY <1>1, <1>2, <1>3

LEMMA InitInv == Init => Inv
<1> SUFFICES ASSUME Init PROVE Inv
  OBVIOUS
<1>1. Booted /\ plcs = Seeded /\ running = YamlConfig /\ writes = 0
  BY DEF Init, Booted
<1>2. running = StoreConfig
  BY <1>1, SeededFacts DEF YamlConfig, StoreConfig
<1> QED BY <1>1, <1>2, SeededFacts, BootInv, ApiAssumption DEF BootState, DistinctIds

-----------------------------------------------------------------------------
(* Writes and restarts. *)

\* A committed write spoils every List under way and what runs now.
LEMMA CommitInv ==
    ASSUME Inv, NEW c \in Client, pc[c] = "idle", Commit(c),
           plcs' \in [Name -> Stored \cup {NoPlc}], DistinctIds'
    PROVE  Inv'
<1>0. c \in Actor
  BY DEF Actor
<1>1. /\ writes < MaxWrites /\ writes' = writes + 1 /\ pc' = [pc EXCEPT ![c] = "audit"]
      /\ fresh' = [a \in Actor |-> FALSE] /\ runFresh' = FALSE
      /\ UNCHANGED <<running, want, phase, holder, ids, list, cursor>>
  BY DEF Commit, registryVars, listVars
<1>2. pc'[c] = "audit" /\ \A a \in Actor: a # c => pc'[a] = pc[a]
  BY <1>0, <1>1 DEF Inv, TypeOK
<1>3. TypeOK'
  <2>1. writes' \in 0..MaxWrites
    BY <1>1, ApiAssumption DEF Inv, TypeOK
  <2>2. /\ pc' \in [Actor -> {"idle", "audit", "list", "tags", "reload", "reloading"}]
        /\ fresh' \in [Actor -> BOOLEAN] /\ runFresh' \in BOOLEAN
    BY <1>1 DEF Inv, TypeOK
  <2> QED BY <1>1, <2>1, <2>2 DEF Inv, TypeOK, DistinctIds
<1>4. ListInv' /\ FreshInv' /\ FreshReloadConverges'
  BY <1>1 DEF Inv, ListInv, FreshInv, FreshReloadConverges
<1>5. CursorInv'
  BY <1>0, <1>1, <1>2 DEF Inv, CursorInv, Listed
<1>6. ReloadInv'
  BY <1>1, <1>2 DEF Inv, ReloadInv
<1> QED BY <1>3, <1>4, <1>5, <1>6 DEF Inv

LEMMA MutateInv ==
    ASSUME Inv, NEW c \in Client, Mutate(c)
    PROVE  Inv'
<1>0. plcs \in [Name -> Stored \cup {NoPlc}] /\ DistinctIds
  BY DEF Inv, TypeOK, DistinctIds
<1>1. ASSUME NEW n \in Name, NEW v \in Value, handleCreatePLC(c, n, v) PROVE Inv'
  <2>1. PICK i \in Id: NewId(i) /\ plcs' = [plcs EXCEPT ![n] = [id |-> i, val |-> v]]
    BY <1>1 DEF handleCreatePLC
  <2>2. \A m \in Name: plcs[m] # NoPlc => plcs[m].id # i
    BY <2>1 DEF NewId, UsedIds
  <2>3. plcs' \in [Name -> Stored \cup {NoPlc}]
    BY <1>0, <2>1, StoredFacts
  <2>4. \A m \in Name: plcs'[m] = IF m = n THEN [id |-> i, val |-> v] ELSE plcs[m]
    BY <1>0, <2>1
  <2>5. DistinctIds'
    BY <1>0, <2>2, <2>4 DEF DistinctIds
  <2> QED BY <1>1, <2>3, <2>5, CommitInv DEF handleCreatePLC
<1>2. ASSUME NEW n \in Name, NEW m \in Name, NEW v \in Value, handleUpdatePLC(c, n, m, v) PROVE Inv'
  <2>1. /\ plcs[n] # NoPlc /\ (m # n => plcs[m] = NoPlc)
        /\ plcs' = [plcs EXCEPT ![n] = NoPlc, ![m] = [id |-> plcs[n].id, val |-> v]]
    BY <1>2 DEF handleUpdatePLC
  <2>2. [id |-> plcs[n].id, val |-> v] \in Stored
    BY <1>0, <2>1, RowFacts, StoredFacts
  <2>3. plcs' \in [Name -> Stored \cup {NoPlc}]
    BY <1>0, <2>1, <2>2
  <2>4. \A k \in Name: plcs'[k] = IF k = m THEN [id |-> plcs[n].id, val |-> v]
                                  ELSE IF k = n THEN NoPlc ELSE plcs[k]
    BY <1>0, <2>1
  <2>5. DistinctIds'
    BY <1>0, <2>1, <2>4 DEF DistinctIds
  <2> QED BY <1>2, <2>3, <2>5, CommitInv DEF handleUpdatePLC
<1>3. ASSUME NEW n \in Name, handleDeletePLC(c, n) PROVE Inv'
  <2>1. plcs' = [plcs EXCEPT ![n] = NoPlc]
    BY <1>3 DEF handleDeletePLC
  <2>2. plcs' \in [Name -> Stored \cup {NoPlc}] /\ DistinctIds'
    BY <1>0, <2>1 DEF DistinctIds
  <2> QED BY <1>3, <2>2, CommitInv DEF handleDeletePLC
<1> QED BY <1>1, <1>2, <1>3 DEF Mutate

LEMMA RestartInv ==
    ASSUME Inv, Restart
    PROVE  Inv'
<1>1. Booted' /\ running' = StoreConfig' /\ writes' \in 0..MaxWrites
  BY DEF Restart, Booted, Inv, TypeOK
<1>2. plcs' \in [Name -> Stored \cup {NoPlc}] /\ DistinctIds'
  BY SeededFacts DEF Restart, Inv, TypeOK, DistinctIds
<1>3. BootState'
  BY <1>1, <1>2 DEF BootState
<1> QED BY <1>3, BootInv, PTL

-----------------------------------------------------------------------------
(* List. *)

\* Steps of an actor that has no Reload in progress: the store and the
\* manager stay as they are.
ActorUnchanged == <<plcs, writes, runFresh, running, want, phase, holder>>

LEMMA ActorStep ==
    ASSUME Inv, NEW a \in Actor, pc[a] # "reloading", UNCHANGED ActorUnchanged,
           \A b \in Actor: b # a => /\ pc'[b] = pc[b] /\ ids'[b] = ids[b] /\ list'[b] = list[b]
                                    /\ cursor'[b] = cursor[b] /\ fresh'[b] = fresh[b],
           pc' \in [Actor -> {"idle", "audit", "list", "tags", "reload", "reloading"}],
           ids' \in [Actor -> [Name -> Id \cup {NoId}]],
           list' \in [Actor -> [Name -> Config \cup {NoConfig}]],
           cursor' \in [Actor -> 1..(MaxName + 1)],
           fresh' \in [Actor -> BOOLEAN],
           \A n \in Name: IF ids'[a][n] = NoId THEN list'[a][n] = NoConfig ELSE list'[a][n] \in Config,
           ~Listed(a)' => cursor'[a] = 1,
           pc'[a] \in {"reload", "reloading"} => cursor'[a] = MaxName + 1,
           fresh'[a] /\ Listed(a)' =>
              \A n \in Name: /\ ids'[a][n] = IdOf(n)
                             /\ list'[a][n] = IF n < cursor'[a] THEN StoreConfig[n] ELSE RowsOf[n]
    PROVE  Inv'
<1>0. /\ UNCHANGED <<plcs, writes, runFresh, running, want, phase, holder>>
      /\ UNCHANGED <<StoreConfig, RowsOf>> /\ \A n \in Name: IdOf(n)' = IdOf(n)
  BY DEF ActorUnchanged, StoreConfig, RowsOf, IdOf
<1>1. TypeOK'
  BY <1>0 DEF Inv, TypeOK
<1>2. ListInv'
  BY DEF Inv, ListInv
<1>3. CursorInv'
  BY DEF Inv, CursorInv, Listed
<1>4. FreshInv'
  <2> SUFFICES ASSUME NEW b \in Actor, fresh'[b], Listed(b)', NEW n \in Name
               PROVE  /\ ids'[b][n] = IdOf(n)
                      /\ list'[b][n] = IF n < cursor'[b] THEN StoreConfig[n] ELSE RowsOf[n]
    BY <1>0 DEF FreshInv
  <2>1. CASE b = a
    BY <2>1
  <2>2. CASE b # a
    BY <2>2 DEF Inv, FreshInv, Listed
  <2> QED BY <2>1, <2>2
<1>5. ReloadInv'
  BY <1>0 DEF Inv, ReloadInv
<1>6. FreshReloadConverges'
  BY <1>0 DEF Inv, FreshReloadConverges
<1> QED BY <1>1, <1>2, <1>3, <1>4, <1>5, <1>6 DEF Inv

\* An actor moves on, with what it has listed so far.
LEMMA MoveInv ==
    ASSUME Inv, NEW a \in Actor, NEW p \in {"list", "tags", "reload"},
           pc' = [pc EXCEPT ![a] = p], UNCHANGED <<storeVars, registryVars, listVars>>,
           \/ pc[a] \in {"idle", "audit"} /\ p = "list"
           \/ pc[a] = "tags" /\ p = "reload" /\ cursor[a] > MaxName
    PROVE  Inv'
<1>1. UNCHANGED ActorUnchanged /\ UNCHANGED <<fresh, ids, list, cursor>>
  BY DEF ActorUnchanged, storeVars, registryVars, listVars
<1>2. pc'[a] = p /\ \A b \in Actor: b # a => pc'[b] = pc[b]
  BY DEF Inv, TypeOK
<1>3. /\ pc' \in [Actor -> {"idle", "audit", "list", "tags", "reload", "reloading"}]
      /\ ids' \in [Actor -> [Name -> Id \cup {NoId}]]
      /\ list' \in [Actor -> [Name -> Config \cup {NoConfig}]]
      /\ cursor' \in [Actor -> 1..(MaxName + 1)] /\ fresh' \in [Actor -> BOOLEAN]
  BY <1>1 DEF Inv, TypeOK
<1>4. \A n \in Name: IF ids'[a][n] = NoId THEN list'[a][n] = NoConfig ELSE list'[a][n] \in Config
  BY <1>1 DEF Inv, ListInv
<1>5. /\ ~Listed(a)' => cursor'[a] = 1
      /\ pc'[a] \in {"reload", "reloading"} => cursor'[a] = MaxName + 1
  <2>1. cursor[a] \in 1..(MaxName + 1) /\ MaxName \in Nat
    BY IdFacts DEF Inv, TypeOK
  <2>2. p = "list" => cursor[a] = 1
    BY DEF Inv, CursorInv, Listed
  <2> QED BY <1>1, <1>2, <2>1, <2>2 DEF Listed
<1>6. fresh'[a] /\ Listed(a)' =>
         \A n \in Name: /\ ids'[a][n] = IdOf(n)
                        /\ list'[a][n] = IF n < cursor'[a] THEN StoreConfig[n] ELSE RowsOf[n]
  BY <1>1, <1>2 DEF Inv, FreshInv, Listed
<1>7. pc[a] # "reloading"
  OBVIOUS
<1> QED BY <1>1, <1>2, <1>3, <1>4, <1>5, <1>6, <1>7, ActorStep

\* The first query of List.
LEMMA ListRowsInv ==
    ASSUME Inv, NEW a \in Actor, ListRows(a)
    PROVE  Inv'
<1>0. plcs \in [Name -> Stored \cup {NoPlc}]
  BY DEF Inv, TypeOK
<1>1. /\ pc[a] = "list" /\ pc' = [pc EXCEPT ![a] = "tags"] /\ fresh' = [fresh EXCEPT ![a] = TRUE]
      /\ list' = [list EXCEPT ![a] = RowsOf] /\ ids' = [ids EXCEPT ![a] = [n \in Name |-> IdOf(n)]]
      /\ cursor' = cursor /\ UNCHANGED ActorUnchanged
  BY DEF ListRows, IdOf, registryVars, ActorUnchanged
<1>2. [n \in Name |-> IdOf(n)] \in [Name -> Id \cup {NoId}]
  BY <1>0, RowFacts
<1>3. /\ pc' \in [Actor -> {"idle", "audit", "list", "tags", "reload", "reloading"}]
      /\ ids' \in [Actor -> [Name -> Id \cup {NoId}]]
      /\ list' \in [Actor -> [Name -> Config \cup {NoConfig}]]
      /\ cursor' \in [Actor -> 1..(MaxName + 1)] /\ fresh' \in [Actor -> BOOLEAN]
  BY <1>0, <1>1, <1>2, ConfigTypes DEF Inv, TypeOK
<1>4. /\ pc'[a] = "tags" /\ list'[a] = RowsOf /\ ids'[a] = [n \in Name |-> IdOf(n)]
      /\ \A b \in Actor: b # a => /\ pc'[b] = pc[b] /\ ids'[b] = ids[b] /\ list'[b] = list[b]
                                  /\ cursor'[b] = cursor[b] /\ fresh'[b] = fresh[b]
  BY <1>1 DEF Inv, TypeOK
<1>5. cursor'[a] = 1
  BY <1>1 DEF Inv, CursorInv, Listed
<1>6. \A n \in Name: IF ids'[a][n] = NoId THEN list'[a][n] = NoConfig ELSE list'[a][n] \in Config
  BY <1>0, <1>4, RowFacts
<1>7. \A n \in Name: /\ ids'[a][n] = IdOf(n)
                     /\ list'[a][n] = IF n < cursor'[a] THEN StoreConfig[n] ELSE RowsOf[n]
  BY <1>4, <1>5, IdFacts DEF Name
<1> QED BY <1>1, <1>3, <1>4, <1>5, <1>6, <1>7, ActorStep

\* One query for the tags of one row.
LEMMA ListTagsInv ==
    ASSUME Inv, NEW a \in Actor, listTags(a)
    PROVE  Inv'
<1>0. /\ plcs \in [Name -> Stored \cup {NoPlc}] /\ TypeOK
      /\ list \in [Actor -> [Name -> Config \cup {NoConfig}]]
      /\ ids \in [Actor -> [Name -> Id \cup {NoId}]]
      /\ cursor \in [Actor -> 1..(MaxName + 1)] /\ MaxName \in Nat
  BY IdFacts DEF Inv, TypeOK
<1> DEFINE k == cursor[a]
           t == IF ids[a][k] = NoId THEN NoTags ELSE TagsOfId(ids[a][k])
           e == [list[a][k] EXCEPT !.tags = t]
<1>1. /\ pc[a] = "tags" /\ k \in Name /\ list' = [list EXCEPT ![a][k].tags = t]
      /\ cursor' = [cursor EXCEPT ![a] = k + 1]
      /\ UNCHANGED <<pc, ids, fresh>> /\ UNCHANGED ActorUnchanged
  BY <1>0 DEF listTags, registryVars, storeVars, ActorUnchanged, Name
<1>2. list' = [list EXCEPT ![a] = [list[a] EXCEPT ![k] = e]]
  BY <1>0, <1>1
<1>3. t \in Value \cup {NoTags}
  BY <1>0, <1>1, TagsFacts
<1>4. /\ ids[a][k] = NoId => list[a][k] = NoConfig /\ e = NoConfig
      /\ ids[a][k] # NoId => e \in Config
  <2>1. ids[a][k] = NoId => list[a][k] = NoConfig
    BY <1>1 DEF Inv, ListInv
  <2>2. ids[a][k] # NoId => list[a][k] \in Config
    BY <1>1 DEF Inv, ListInv
  <2>3. ids[a][k] = NoId => e = NoConfig
    BY <2>1 DEF NoConfig
  <2>4. ids[a][k] # NoId => e \in Config
    BY <1>3, <2>2 DEF Config
  <2> QED BY <2>1, <2>3, <2>4
<1>5. ASSUME fresh[a], ids[a][k] = IdOf(k), list[a][k] = RowsOf[k] PROVE e = StoreConfig[k]
  <2>1. CASE plcs[k] = NoPlc
    BY <1>0, <1>1, <1>4, <1>5, <2>1, RowFacts
  <2>2. CASE plcs[k] # NoPlc
    <3>1. t = plcs[k].val
      <4>1. ids[a][k] = plcs[k].id /\ ids[a][k] # NoId
        BY <1>0, <1>1, <1>5, <2>2, RowFacts
      <4>2. TagsOfId(plcs[k].id) = plcs[k].val
        BY <1>0, <1>1, <2>2, TagsFacts
      <4> QED BY <4>1, <4>2
    <3>2. list[a][k] = [row |-> plcs[k].val, tags |-> NoTags]
      BY <1>0, <1>1, <1>5, <2>2, RowFacts
    <3>3. e = [row |-> plcs[k].val, tags |-> plcs[k].val]
      BY <3>1, <3>2
    <3> QED BY <1>0, <1>1, <2>2, <3>3, RowFacts
  <2> QED BY <2>1, <2>2
<1> HIDE DEF e, t
<1>6. /\ list'[a] = [list[a] EXCEPT ![k] = e] /\ cursor'[a] = k + 1
      /\ \A b \in Actor: b # a => list'[b] = list[b] /\ cursor'[b] = cursor[b]
  BY <1>0, <1>1, <1>2
<1>7. \A n \in Name: list'[a][n] = IF n = k THEN e ELSE list[a][n]
  BY <1>0, <1>6
<1>8. /\ pc' \in [Actor -> {"idle", "audit", "list", "tags", "reload", "reloading"}]
      /\ ids' \in [Actor -> [Name -> Id \cup {NoId}]]
      /\ list' \in [Actor -> [Name -> Config \cup {NoConfig}]]
      /\ cursor' \in [Actor -> 1..(MaxName + 1)] /\ fresh' \in [Actor -> BOOLEAN]
  <2>1. e \in Config \cup {NoConfig}
    BY <1>4
  <2>2. [list[a] EXCEPT ![k] = e] \in [Name -> Config \cup {NoConfig}]
    BY <1>0, <2>1
  <2>3. k + 1 \in 1..(MaxName + 1)
    BY <1>0, <1>1 DEF Name
  <2>4. list' \in [Actor -> [Name -> Config \cup {NoConfig}]]
    BY <1>0, <1>2, <2>2
  <2>5. cursor' \in [Actor -> 1..(MaxName + 1)]
    BY <1>0, <1>1, <2>3
  <2> QED BY <1>1, <2>4, <2>5 DEF Inv, TypeOK
<1>9. \A n \in Name: IF ids'[a][n] = NoId THEN list'[a][n] = NoConfig ELSE list'[a][n] \in Config
  BY <1>1, <1>4, <1>7 DEF Inv, ListInv
<1>10. Listed(a)' /\ pc'[a] = "tags"
  BY <1>1 DEF Listed
<1>11. ASSUME fresh'[a], NEW n \in Name
       PROVE  /\ ids'[a][n] = IdOf(n)
              /\ list'[a][n] = IF n < cursor'[a] THEN StoreConfig[n] ELSE RowsOf[n]
  <2>1. \A m \in Name: ids[a][m] = IdOf(m) /\ list[a][m] = IF m < k THEN StoreConfig[m] ELSE RowsOf[m]
    BY <1>1, <1>11 DEF Inv, FreshInv, Listed
  <2>2. n \in Nat /\ k \in Nat
    BY <1>0, <1>1 DEF Name
  <2>3. CASE n = k
    BY <1>1, <1>5, <1>6, <1>7, <1>11, <2>1, <2>2, <2>3
  <2>4. CASE n # k
    BY <1>1, <1>6, <1>7, <2>1, <2>2, <2>4
  <2> QED BY <2>3, <2>4
<1>12. /\ pc[a] # "reloading" /\ UNCHANGED ActorUnchanged
       /\ \A b \in Actor: b # a => /\ pc'[b] = pc[b] /\ ids'[b] = ids[b] /\ list'[b] = list[b]
                                   /\ cursor'[b] = cursor[b] /\ fresh'[b] = fresh[b]
  BY <1>1, <1>6
<1> QED BY <1>8, <1>9, <1>10, <1>11, <1>12, ActorStep

\* An actor that returns takes its List with it.
LEMMA DoneFacts ==
    ASSUME Inv, NEW a \in Actor, Done(a)
    PROVE  /\ pc' \in [Actor -> {"idle", "audit", "list", "tags", "reload", "reloading"}]
           /\ ids' \in [Actor -> [Name -> Id \cup {NoId}]]
           /\ list' \in [Actor -> [Name -> Config \cup {NoConfig}]]
           /\ cursor' \in [Actor -> 1..(MaxName + 1)]
           /\ pc'[a] = "idle" /\ cursor'[a] = 1
           /\ \A n \in Name: ids'[a][n] = NoId /\ list'[a][n] = NoConfig
           /\ \A b \in Actor: b # a => /\ pc'[b] = pc[b] /\ ids'[b] = ids[b] /\ list'[b] = list[b]
                                       /\ cursor'[b] = cursor[b]
<1>1. /\ [n \in Name |-> NoId] \in [Name -> Id \cup {NoId}]
      /\ Empty \in [Name -> Config \cup {NoConfig}] /\ \A n \in Name: Empty[n] = NoConfig
      /\ 1 \in 1..(MaxName + 1)
  BY IdFacts DEF Empty
<1>2. /\ pc \in [Actor -> {"idle", "audit", "list", "tags", "reload", "reloading"}]
      /\ ids \in [Actor -> [Name -> Id \cup {NoId}]]
      /\ list \in [Actor -> [Name -> Config \cup {NoConfig}]]
      /\ cursor \in [Actor -> 1..(MaxName + 1)]
  BY DEF Inv, TypeOK
<1> QED BY <1>1, <1>2 DEF Done

LEMMA ListFailInv ==
    ASSUME Inv, NEW a \in Actor, ListFail(a)
    PROVE  Inv'
<1>1. /\ pc[a] # "reloading" /\ Done(a) /\ UNCHANGED ActorUnchanged /\ fresh' = fresh
  BY DEF ListFail, storeVars, registryVars, ActorUnchanged
<1>2. ~Listed(a)'
  BY <1>1, DoneFacts DEF Listed
<1>3. fresh' \in [Actor -> BOOLEAN]
  BY <1>1 DEF Inv, TypeOK
<1> QED BY <1>1, <1>2, <1>3, DoneFacts, ActorStep

-----------------------------------------------------------------------------
(* Reload. *)

LEMMA ReloadBeginInv ==
    ASSUME Inv, NEW a \in Actor, ReloadBegin(a)
    PROVE  Inv'
<1>1. /\ pc[a] = "reload" /\ phase = "idle" /\ want' = list[a] /\ phase' = "diff" /\ holder' = a
      /\ pc' = [pc EXCEPT ![a] = "reloading"]
      /\ UNCHANGED <<running, plcs, writes, fresh, runFresh, ids, list, cursor>>
  BY DEF ReloadBegin, Manager!Begin, storeVars, listVars
<1>2. pc'[a] = "reloading" /\ \A b \in Actor: b # a => pc'[b] = pc[b]
  BY <1>1 DEF Inv, TypeOK
<1>3. TypeOK'
  BY <1>1 DEF Inv, TypeOK
<1>4. ListInv'
  BY <1>1 DEF Inv, ListInv
<1>5. CursorInv'
  BY <1>1, <1>2 DEF Inv, CursorInv, Listed
<1>6. FreshInv'
  <2>1. \A b \in Actor: Listed(b)' <=> Listed(b)
    BY <1>1, <1>2 DEF Listed
  <2>2. UNCHANGED <<StoreConfig, RowsOf>> /\ \A n \in Name: IdOf(n)' = IdOf(n)
    BY <1>1 DEF StoreConfig, RowsOf, IdOf
  <2> QED BY <1>1, <2>1, <2>2 DEF Inv, FreshInv
<1>7. ReloadInv' /\ FreshReloadConverges'
  BY <1>1, <1>2 DEF ReloadInv, FreshReloadConverges
<1> QED BY <1>3, <1>4, <1>5, <1>6, <1>7 DEF Inv

LEMMA ReloadDiffInv ==
    ASSUME Inv, ReloadDiff
    PROVE  Inv'
<1>1. /\ phase = "diff" /\ phase' = "add"
      /\ running' = [n \in Name |-> IF running[n] = want[n] THEN running[n] ELSE NoConfig]
      /\ UNCHANGED <<want, plcs, writes, fresh, runFresh, holder, pc, ids, list, cursor>>
  BY DEF ReloadDiff, Manager!Unregister, storeVars, listVars
<1>2. TypeOK'
  BY <1>1 DEF Inv, TypeOK
<1>3. ListInv' /\ CursorInv'
  BY <1>1 DEF Inv, ListInv, CursorInv, Listed
<1>4. FreshInv'
  BY <1>1 DEF Inv, FreshInv, Listed, StoreConfig, RowsOf, IdOf
<1>5. ReloadInv' /\ FreshReloadConverges'
  BY <1>1 DEF Inv, ReloadInv, FreshReloadConverges
<1> QED BY <1>2, <1>3, <1>4, <1>5 DEF Inv

\* The registry ends with the List of the actor that called Reload, and that
\* is the store's when no write has overlapped it.
LEMMA ReloadAddInv ==
    ASSUME Inv, ReloadAdd
    PROVE  Inv'
<1>1. /\ phase = "add" /\ phase' = "idle" /\ running' = want /\ want' = Empty
      /\ runFresh' = fresh[holder] /\ Done(holder) /\ holder' = NoActor
      /\ UNCHANGED <<plcs, writes, fresh>>
  BY DEF ReloadAdd, Manager!Register
<1>2. PICK a \in Actor: a = holder /\ pc[a] = "reloading" /\ want = list[a]
  BY <1>1 DEF Inv, ReloadInv
<1>3. Done(a) /\ runFresh' = fresh[a]
  BY <1>1, <1>2
<1>4. TypeOK'
  <2>1. want' \in [Name -> Config \cup {NoConfig}]
    BY <1>1 DEF Empty
  <2>2. runFresh' \in BOOLEAN /\ running' \in [Name -> Config \cup {NoConfig}]
    BY <1>1, <1>3 DEF Inv, TypeOK
  <2>3. phase' \in {"idle", "diff", "add"} /\ holder' \in Actor \cup {NoActor}
    BY <1>1
  <2> QED BY <1>1, <1>3, <2>1, <2>2, <2>3, DoneFacts DEF Inv, TypeOK
<1>5. ListInv'
  BY <1>3, DoneFacts DEF Inv, ListInv
<1>6. CursorInv'
  BY <1>3, DoneFacts DEF Inv, CursorInv, Listed
<1>7. UNCHANGED <<StoreConfig, RowsOf>> /\ \A n \in Name: IdOf(n)' = IdOf(n)
  BY <1>1 DEF StoreConfig, RowsOf, IdOf
<1>8. FreshInv'
  BY <1>1, <1>3, <1>7, DoneFacts DEF Inv, FreshInv, Listed
<1>9. FreshReloadConverges'
  <2> SUFFICES ASSUME fresh[a] PROVE list[a] = StoreConfig
    BY <1>1, <1>2, <1>3, <1>7 DEF FreshReloadConverges
  <2>1. cursor[a] = MaxName + 1
    BY <1>2 DEF Inv, CursorInv
  <2>2. \A n \in Name: n < cursor[a]
    BY <2>1, IdFacts DEF Name
  <2>3. \A n \in Name: list[a][n] = StoreConfig[n]
    BY <1>2, <2>2 DEF Inv, FreshInv, Listed
  <2>4. /\ list[a] \in [Name -> Config \cup {NoConfig}]
        /\ StoreConfig \in [Name -> Config \cup {NoConfig}]
    BY ConfigTypes DEF Inv, TypeOK
  <2> QED BY <2>3, <2>4
<1> QED BY <1>1, <1>4, <1>5, <1>6, <1>8, <1>9 DEF Inv, ReloadInv

-----------------------------------------------------------------------------
LEMMA NextInv == Inv /\ [Next]_vars => Inv'
<1> SUFFICES ASSUME Inv, [Next]_vars PROVE Inv'
  OBVIOUS
<1>1. ASSUME NEW c \in Client, Mutate(c) PROVE Inv'
  BY <1>1, MutateInv
<1>2. ASSUME NEW c \in Client, Audit(c) PROVE Inv'
  <2>1. c \in Actor
    BY DEF Actor
  <2> QED BY <1>2, <2>1, MoveInv DEF Audit
<1>3. ASSUME NEW w \in Watcher, Watch(w) PROVE Inv'
  <2>1. w \in Actor
    BY DEF Actor
  <2> QED BY <1>3, <2>1, MoveInv DEF Watch
<1>4. ASSUME NEW a \in Actor, ListDone(a) PROVE Inv'
  BY <1>4, MoveInv DEF ListDone
<1>5. ASSUME NEW a \in Actor, reloadPLCsFromStore(a) PROVE Inv'
  BY <1>4, <1>5, ListRowsInv, ListTagsInv, ListFailInv, ReloadBeginInv DEF reloadPLCsFromStore
<1>6. CASE ReloadDiff \/ ReloadAdd \/ Restart
  BY <1>6, ReloadDiffInv, ReloadAddInv, RestartInv
<1>7. CASE UNCHANGED vars
  <2>1. UNCHANGED <<plcs, writes, fresh, runFresh, running, want, phase, holder, pc, ids, list, cursor>>
    BY <1>7 DEF vars, storeVars, registryVars, listVars
  <2>2. TypeOK' /\ ListInv' /\ CursorInv' /\ ReloadInv' /\ FreshReloadConverges'
    BY <2>1 DEF Inv, TypeOK, ListInv, CursorInv, ReloadInv, FreshReloadConverges, Listed, StoreConfig
  <2>3. FreshInv'
    BY <2>1 DEF Inv, FreshInv, Listed, StoreConfig, RowsOf, IdOf
  <2> QED BY <2>2, <2>3 DEF Inv
<1> QED BY <1>1, <1>2, <1>3, <1>5, <1>6, <1>7 DEF Next

\* The inductive invariant of the configuration path holds in every reachable
\* state.
THEOREM ApiInvariant == Spec => []Inv
BY InitInv, NextInv, PTL DEF Spec

\* Store, Lists and registry keep their types; in particular no two PLC rows
\* ever have the same id, however names are created, renamed and deleted.
THEOREM TypeCorrect == Spec => []TypeOK
<1>1. Inv => TypeOK
  BY DEF Inv
<1> QED BY <1>1, ApiInvariant, PTL

\* The manager runs exactly the store's contents whenever no write has
\* committed since the List began that it was last given.
THEOREM ReloadConverges == Spec => []FreshReloadConverges
<1>1. Inv => FreshReloadConverges
  BY DEF Inv
<1> QED BY <1>1, ApiInvariant, PTL
=============================================================================
