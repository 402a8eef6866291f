# Verification of the LGB gateway

LGB is an industrial gateway in Go: it scans Logix PLCs, keeps the current tag
values, publishes them over MQTT (Sparkplug B), OPC UA, a REST/WebSocket API and
a SQLite historian, and lets operators change the PLC configuration, users and
write permissions at run time. This directory holds TLA+ specifications of its
stateful parts, the TLC runs that check them on small instances, and TLAPS proofs
of every safety property those runs check.

## 1. Inventory

| Component (source) | State | Operations | What is hard | What makes it correct |
|---|---|---|---|---|
| PLC manager `internal/plc/manager.go` | `workers`, `current`, `stopped`; one goroutine, context and done channel per worker | Start, Stop, Reload, WriteTag, runWorker | Reload and Stop against goroutines in mid-dial or mid-scan; two locks; contexts of different origin | one goroutine per PLC, no leaked connection, Stop and Reload return, the store shows what was read |
| PLC driver `internal/plc/gologix.go` | `connected`, the CIP session | Connect, Close, ReadTag, WriteTag | a dial cannot be interrupted; a lost session is not noticed | the manager's view of `connected` |
| Retry `internal/retry` | attempt counter, delay | Do | cancellation during a delay | ends on ctx, delay bounded |
| Edge node `internal/sparkplug` | state machine, bdSeq, updates and reconnect channels | Start, Stop, publishBirths, publishLoop, reconnectLoop, NCMD/DCMD | births published by several goroutines; connection lost anywhere | complete births, subscribed, ONLINE only when born, Stop returns |
| MQTT client `internal/mqtt` | paho client, callbacks, Will | Connect, Publish, Subscribe | a dial that outlives its caller | errors when not connected |
| Historian `internal/historian` | sample channel, batch, table | Enqueue, Stop, run, InsertBatch | bounded channel blocks scans; failing flush; shutdown | order, no holes, no send on a closed channel, bounded blocking |
| PLC store and API `internal/plcstore`, `server/api_plcs.go` | tables plcs, plc_tags | create, update, delete, seed, list; reload after each | non-atomic List; List and Reload of several requests overlap; crash before Reload | the manager converges to the store |
| Config watcher `internal/config/watcher.go` | debounce timer | callback: List, Reload | competes with requests | as above |
| Config loader `internal/config/loader.go` | layers | Load: defaults, file, environment | settings refused late, or not at all | the last layer wins |
| Server `internal/server/server.go`, `cmd/lgb/cmd/server.go` | components, listener, stores | boot, Run: start, serve, stop in order, close | early returns; serve error; handlers and backups during the shutdown | nothing is used after its stop, the process exits |
| Write path `writeguard`, `aclstore`, `api_write.go`, `api_acl.go`, `auth/audit.go` | rules, tag switches, audit log | authorise, write, audit; edit rules | guard, write and audit are separate steps | no write on a permission withdrawn earlier, stores and log open while handlers run |
| Users `internal/auth`, `api_auth.go`, `api_users.go` | users, tokens in clients' hands | login, refresh, create, role, password, delete | two statements per handler; stateless tokens | tokens name their user, roles are current, lock-out, one admin remains |
| Tag hub `server/tag_hub.go`, WebSocket in `api.go` | subscribers, channels | register, filter, publish, unregister | slow and broken clients, closed channels, a writer-preferring RWMutex | scans never block, no send on a closed channel, order |
| Backup `internal/backup`, `api_backup.go` | status, scheduler | schedule, trigger, stop | a backup under way when the gateway stops | scheduled backups end before anything they use |
| OPC UA `internal/opcua` | running flag, server | Start, Stop, refresh | Start in a goroutine races Stop | see section 6 |
| Read-only API, doctor, datadir, log, errors, CLI, frontend, simulator | – | – | sequential | unit tests |

Interactions: `Server.Run` starts edge node, historian, PLC manager, OPC UA and
backup in that order; it stops backup, OPC UA, PLC manager, historian and edge
node, then shuts HTTP down, and the command closes the stores. Each scan
goroutine calls the tag callbacks synchronously: edge node (drops when full),
historian (blocks when full), tag hub (drops). API handlers and the config
watcher read the PLC store and call `Manager.Reload`; WriteTag comes from HTTP
and from DCMD.

`PROJECT.json` lists 40 hazards at their lines, with the properties that cover
them or the reason why none does.

## 2. Modules

| Module | Models | Kind |
|---|---|---|
| `PlcManager` | manager, driver, goroutines, callers | detailed specification |
| `PlcRegistry` | what Reload promises | abstract specification, implemented by `PlcManager`, used by `PlcConfigApi` |
| `EdgeNode` | Sparkplug node, MQTT client, paho callbacks | detailed specification |
| `Historian` | writer, its producers, the shutdown around it | composition |
| `PlcConfigApi` | store, handlers, watcher, boot, on top of `PlcRegistry` | composition |
| `Accounts` | users, tokens, the handlers of both | detailed specification |
| `ServerRun` | the state of the process that components look at | shared state |
| `Boot` | configuration layers, opening of the stores, head of Run | part of `Gateway` |
| `TagHub`, `WriteAccess`, `Backup`, `OpcuaServer` | one component each, over `ServerRun` | parts of `Gateway` |
| `Gateway` | boot, Run, shutdown, with the parts above | composition |
| `MC...` | constants for TLC | instances |
| `PlcManagerProofs`, `EdgeNodeProofs`, `HistorianProofs`, `PlcConfigApiProofs`, `AccountsProofs` | – | theorems about the module of that name |
| `TagHubProofs`, `WriteAccessProofs` | – | lemmas: what the steps of these parts preserve |
| `GatewayProofs` | – | theorems about `Gateway`, from those lemmas |

Operators named "Mutant" in a comment are wrong variants of the definition that
follows them. They are used by no specification: replacing the definition by its
mutant makes TLC report the property named with it in `PROJECT.json`.

### PlcManager

A worker is `<<plc, g>>`, the g-th `plcWorker` created under a name; it stands for
driver, goroutine, context and done channel, which the code creates together.
`live` is `m.workers`. A section under `m.mu` is one action; each driver call is
bounded by actions of its own, because other goroutines run during it.
`reloadMu` admits one Reload, whose locals are `rpc, rctx, rcfg, drained`.

| Code | Actions |
|---|---|
| NewManager, Start | `Init`, `Start` |
| runWorker: connect, select, scan, reconnect | `Dial GiveUp DialOk DialFail`, `SelectDone Tick`, `ReadGood ReadBad StoreTag Notify` |
| Stop | `StopBegin StopWaited StopClose` |
| Reload | `ReloadBegin ReloadDiff ReloadClose ReloadAdd` |
| WriteTag | `WriteLookup WriteOk WriteErr` |
| external | `DropSession`, `CancelCtx` |

`connected` is the driver's flag, `session` the truth; nothing but `Close` and
`Connect` of the same driver makes them agree. Values of tags are abstracted to
the generation of the worker that read them and their quality, which is what
`NeverOlderReading` and `QualityIsPublished` tell apart. Data races inside
gologix are out of scope.

### PlcRegistry

Three steps: a Reload begins, removed and changed names go, new and changed names
come. `PlcManager!ImplementsRegistry` is the refinement: `running` is the
configuration registered for each name, and waiting for drained goroutines is a
stutter.

### EdgeNode

Every atomic operation, transition and publish is a step. Birthers are
`reconnectLoop` (0), one `onConnect` goroutine per connection and one goroutine
per NCMD, since `SetOrderMatters(false)` lets handlers overlap. `host` is what a
host application concludes from the delivered messages. An NBIRTH is published
and acknowledged in two steps: a connection lost in between makes the publish
fail although the host has seen the birth, and `publishBirths` gives up. A DBIRTH
that fails is only logged, so its acknowledgement makes no difference. A
subscription that the broker refuses is only logged too; such a broker sends no
commands, so `subscribed` says that the node has asked. Encoding errors are not
modelled. The `seq` of each message is data that no branch reads; it is left out.

The module assumes a clean session (`mqtt.cleanSession`, on by default). Without
it the broker keeps the subscriptions and paho the unacknowledged publishes of a
lost connection, which then wait for the next one; a `Stop` on a dead link may
wait for ever. `Gateway` knows the setting and names this exception.
The Will carries bdSeq 0 (it is frozen when the client is built), which no birth
has, so `HostDeath` leaves `host` alone. The DCMD handler is in `WriteAccess`.

### Historian

The channel, the batch and the table are sequences; `InsertBatch` is one
transaction. `Late` are scan goroutines a Reload that overlaps Stop adds after
Stop's `wg.Wait`; `PlcManager` shows such a Reload is possible, so they may send
on the closed channel (`EnqueuePanic`). The steps of `Server.Run` that do not
touch these components (edge node, HTTP shutdown) are left out between
`StopWait` and `CloseStore`.

### PlcConfigApi

A configuration is an abstract value; `List` returns a row value and a tags value
per name, which differ when a write falls between its queries. Requests that
fail validation or their transaction change nothing. A restart may happen at any
point. The history variables `fresh` and `runFresh` say whether a write was
committed since the relevant List began.

### Accounts

Tokens are stateless, so `tokens` is what clients hold, one slot per token; a
slot is emptied when its token expires or is logged out, never because of what
happens to its user. Two tokens with equal claims expire each on its own. The user store has one
connection, hence each SQL statement is a step. A handler with two statements
(login, refresh, delete) is two steps: `Revalidate`/`Issue`, `DeleteCount`/
`DeleteUser`. Ids come from `AUTOINCREMENT` (`lastId`). `Restart` is a new process: requests are
gone, tokens and users stay, and `EnsureAdminExists` inserts an admin if the
table is empty. `overtaken` is a history variable: a role changed or a user went
between the two statements. Password hashing, signing and the cookie are abstracted.

### ServerRun, Boot, Gateway

`stage` is what the command or `Run` does next, and each component looks at it
through `Accepting`, `BrokerUp` and `Alive`. `Boot` has one action per
step with an early return. A setting is "off", "on" or "bad" (present, and
refused where it is used): the server command never calls `Config.Validate`.
A deployment is a file, environment variables and the clients that show up. The
spellings of a variable's name that `envLookup` accepts are left out: a name it
does not know sets nothing. A serve error returns from `Run` without stopping
anything, so `CloseStore` then runs under components that are still alive.
`Shutdown` waits for handlers, not for hijacked WebSockets, until its deadline.
`StopNode` is one step; `NodeStopReturns` says when the code guarantees that it
comes to its end.

### TagHub

The hub's RWMutex is Go's: a goroutine waiting in `Lock` keeps new readers out,
so a scan may wait for register, and register for a publish. A connection has two
goroutines which share `writeMu`; a peer may stop reading (`Stall`) or vanish
(`Break`). An update is its source and a number.

### WriteAccess

The guard's two reads, the write and the audit entry are steps of their own, and
tags and rules are edited in between. `saw` collects which gates were open since
the request began. Whether the PLC took the value and whether `Log` could write
the entry only decide what is in the log, which nothing reads back, and
`emitWriteAuditDetail` discards the error of `Log`: both steps end with or without
an entry, and the model does not keep one.

### Backup, OpcuaServer

The scheduler runs under the context of `Run`, a manual backup under
`context.Background()`. restic is external: each run ends well or fails.
`OpcuaServer` has one action per section of `s.mu`; gopcua's `Start` returns at
once, as `opcua/server_test.go` relies on. Its listener is gopcua's own state.

## 3. Runs

| Run | Instance | Shows |
|---|---|---|
| `plc_manager` | 1 PLC, 2 configurations (1 and 2 tags), 2 generations, 1 request, 1 writer | ownership of goroutines and connections, what the tag store shows, the refinement, Stop returns, Reload does while callbacks do, a configured PLC gets connected |
| `edge_node` | 1 device, 2 connections, or 1 and two rebirth commands | complete births, ONLINE only after a birth, distinct bdSeq, Stop returns |
| `historian_writer` | 2 scans (1 late), channel of 1, batches of 2, 3 samples each | order, no hole, closing order, progress |
| `plc_config_api` | 2 names, 2 values, 1 client, 1 watcher, 3 writes | convergence, handlers return while drains end |
| `accounts` | 3 names, 2 roles, 2 passwords, 2 requests, 2 rows ever inserted, 2 tokens | tokens name their user, carry the current role, deleted users are locked out, the last-admin guard when nothing overtakes it |
| `gateway` | 10 deployments, 1 scan, 1 WebSocket with a channel of 2 and 3 updates, 1 HTTP and 1 DCMD write, 2 edits, 2 repositories, 2 backups | hub, write path, backup and OPC UA server through boot, serving, serve error and shutdown |

Why the bounds suffice: workers of different PLCs share only `m.mu`, `reloadMu`
and the WaitGroup, and the theorems below hold for any number of PLCs and
generations. Two generations give a drained worker and its successor. Two
connections are the smallest number with a reconnect, and so with births of two
onConnect goroutines and `reconnectLoop` at once; two rebirth commands on one
connection give handlers that overlap. `MaxEvents` weighs them (two births per
connection, one per command) so that one run holds both mixes. The run that looks
for a lost reconnect needs three connections. A channel of one and batches of two make the channel full
and the batch both partial and full. Two names allow a rename. Two rows and three
names allow a deletion, a new user, and the question of a reused id; two requests
overtake each other. In `gateway` a channel of 2 and 3 updates make the hub queue
several updates, so that their order within the channel counts, and drop; two edits
grant and revoke. A deployment there exercises one workload:
the parts share no state but `ServerRun`, so they meet only in `Run`.
`MaxGen`, `MaxConnects`, `MaxCommands`, `MaxEvents`, `MaxSamples`, `MaxWrites`,
`MaxId`, `MaxTokens`, `MaxUpdates`, `MaxEdits` and `MaxBackups` are bounds of the
model and not of the code; `QueueCap` is 256, `BufferSize` 1024, `BatchSize`
100 and `Cap` 16 in the code.

Deadlock is checked in every run but those of `Accounts`, which may stop: once the
bounded ids are used up and the last user is deleted, nobody can log in. Elsewhere `Ended` or
`Exited` marks the states in which the node or the process has finished.

### Disagreements between documents and code

Each of these runs checks one statement of a comment or specification, and TLC
finds a behaviour of the code that violates it.

| Run | Statement | Behaviour |
|---|---|---|
| `plc_manager_request_ctx` | `manager.go:220` "The parent ctx must be the same context passed to Start." | `api_plcs.go:104` passes the request's context: the new worker ends with the request, and its entry stays |
| `plc_manager_lost_session` | `manager.go:318` "On read error: log WARN and reconnect." | a failing read leaves `connected` true, and only `!Connected()` leads to a reconnect |
| `edge_node_online` | `edge_node.go:202`, MQTT spec line 67 "Transition ... to ONLINE after NBIRTH and all DBIRTHs" | after a reconnect the state machine is Offline and ignores EventConnectSuccess |
| `edge_node_restored` | `edge_node.go:288` "waits for connection-loss signals and attempts reconnect" | the drain at line 330 takes the signal of a new loss |
| `historian_flush` | `server.go:409` "flushes pending samples" | the flush uses the context whose cancellation started the shutdown |
| `last_admin` | `api_users.go:200` "guarding against removal of the last admin" | count and delete are two statements: two admins who delete each other both pass the guard |

## 4. Fairness

* Goroutines are scheduled: weak fairness of each goroutine's next step.
* Dials and reads end: `SocketTimeout` bounds them (weak fairness of `Scan`). A tag
  callback is only assumed to return once the server's context is cancelled
  (`NotifyReturns`), because `Enqueue` selects on it.
* A `select` with several ready cases picks at random, so a ready `ctx.Done()` or
  `done` is not passed over for ever: strong fairness of `SelectDone`,
  `PublishExit`, `ScanExit`, `SchedulerExit`; the same for the
  historian's ticker.
* An HTTP handler returns and net/http then cancels its context.
* Go's mutex hands over to a waiter after 1 ms (starvation mode): strong fairness
  of `ReloadBegin` in `PlcConfigApi`.
* A token expires, and a request past its first statement goes on (`Accounts`).
* Edge node: the two loops and the caller of Stop are scheduled, and a publish is
  acknowledged unless its connection breaks (keep-alive). Only the run about a lost
  reconnect also needs that paho's callbacks run (`PahoFairness`).
* Nothing is assumed of clients: a WebSocket write to a stalled peer waits, without
  a deadline, until the peer reads or the connection breaks. A restic run ends: the
  context kills it at the latest.
* Environment: a PLC answers some dial (`PlcsAnswer`), the broker accepts some
  dial (`BrokerAccepts`). Only the properties about connecting need these.
* Nothing forces the server's context to be cancelled, a write, a reading to
  succeed, or the network to break.

That tag callbacks return while the gateway serves is not assumed, because the code
does not guarantee it. After a failed flush the historian writer's goroutine is gone
(`writer.go:77`); the callback, which runs under the server's context
(`cmd/server.go:167`), then blocks on a full channel until the gateway stops, and a
Reload that drains such a worker hangs and holds `reloadMu`. So `ReloadReturns` has
the hypothesis `CallbacksReturn` and `HandlersReturn` the hypothesis `DrainsEnd`.
`Historian!ScanGoesOn` says when the first one holds of the historian's callback:
as long as the writer lives. `ScanIsNotBlocked` says it of the hub's. `StopReturns`
of `PlcManager` needs no such hypothesis, since Stop follows the cancellation.

In `Gateway`, `StopPlc`, `StopHist` and `StopNode` rely on `StopReturns` of
`PlcManager` and `EdgeNode` and on `ShutdownEnds` of `Historian`. `StopNode` is fair
only under a clean session (`NodeStopReturns`), which is what `EdgeNode` assumes.

## 5. Proofs

Every invariant, every action property and the refinement that a passing run
checks is proved with TLAPS for all values of the constants: any number of PLCs,
scans, connections, clients, requests, names, devices and samples, any buffer
sizes, and any values of the bounds that TLC needs. (`Client` and `Watcher` of
`PlcConfigApi` are finite; whether a fresh id exists there is a question of
counting.) No theorem uses fairness: each is about `Spec`, which `FairSpec`
implies.

The assumptions are the named `ASSUME`s of the modules: capacities and bounds are
positive or natural numbers, a "none" value is not a proper value, sets of
different actors are disjoint, device names differ, and initial configurations,
deployments and seeds are well formed. TLC evaluates them in the runs.

Hardly any of the properties is inductive as it stands. Each proof module starts
with the inductive invariant, whose parts are explained there; TLC has checked
each on the instance of the run before it was proved. There is a lemma per
action (or group of actions with the same effect) that it preserves the
invariant, with a step per part that the action can disturb.

### PlcManager

| Theorem | Statement |
|---|---|
| `TypeCorrect` | `Spec => []TypeOK` |
| `OneRoutine` | `Spec => []OneRoutinePerPLC` |
| `ConnectionsOwned` | `Spec => []NoLeakedConnection` |
| `Served` | `Spec => []RegisteredIsServed` |
| `QualityPublished` | `Spec => []QualityIsPublished` |
| `QuietStop` | `Spec => []QuietAfterStop` |
| `NewerReadings` | `Spec => NeverOlderReading` |
| `RegistryImplemented` | `Spec => ImplementsRegistry` |

That the goroutine of a former generation no longer runs follows from who owns
it. `IndInv` adds to `TypeOK`

* `GenInv`: no registered generation is beyond `gen`, and a Reload in progress has
  room for what it adds;
* `DrainInv`: something is drained only while Reload waits, and its name is not
  registered then;
* `OwnedInv`: a running goroutine, a connected driver or a session belongs to a
  worker that is registered or held by the Reload in progress;
* `SessionInv`: a session that is up has a driver that says so, and a goroutine
  that dials has a driver that says it is not connected;
* `StartInv`: before Start no goroutine runs, nothing is connected and neither
  Reload nor Stop is in progress;
* `ServedInv`: a registered goroutine that has ended had its context done, only
  Stop cancels a worker that stays registered, and Stop follows the cancellation
  of the server's context.

The ten actions of a goroutine go through `RoutineEffect`, which says what any of
them may do. `OneRoutine` follows because a name has at most one owned generation:
Reload adds a worker only after the drained one has ended. Three more invariants
are proved relative to `IndInv`. `ReadingInv` says that what an owned worker may
overwrite is not newer than its own generation. `PublishInv` says that between
`storeTag` and the update of `lastQuality` the tag store is ahead by exactly the
reading in hand. `QuietInv` says what `wg.Wait` has established although a Reload
may still add workers. The refinement uses `DiffInv` (between the sections every
registered name runs what Reload was given) and maps the two sections to
`Unregister` and `Register` and every other step to a stutter.

### EdgeNode

`BirthsDistinct`, `OnlineIsBorn`, `SettledBorn` and `TypeCorrect`, from
`EdgeInvariant`. The difficult part is that `bdSeq` has no bound of its own: `CountInv`
bounds it together with the birthers that are about to take a number by what
connections and commands can cause, which takes a count over birthers.
`NumberInv` keeps numbers in use apart from each other and from the last
one delivered. `BornInv` is the argument for `SettledIsBorn`: while the connection
is up, what the host does not know yet is still to be published, by a birther
before its NBIRTH or, for a device, by one that has not passed it; an NBIRTH that
overtakes another clears `host.born`, and its own birther then owes all devices.
`SubscribeInv` says who subscribes after a dial.

### Historian

`HistoryHasNoHole`, `StopAfterScans` and `TypeCorrect`, from `HistorianInvariant`.
`BatchInv` says when a batch has room, `StageInv` which scan goroutines each stage
of Run leaves. `NoHole` is kept by a failing insert because `run` exits, and by a
flush through lemmas about prefixes and concatenation.

### PlcConfigApi

`ReloadConverges` and `TypeCorrect`, from `ApiInvariant`. `FreshInv` is the core: a
List that no write has overlapped agrees with the store, row by row up to its
cursor with the tags and beyond it with the row alone; `ReloadInv` ties the
Reload in progress to the List of the lock's holder. `ListInv` and `CursorInv` say
how far a List has come.

### Accounts

`TokensKeepTheirUser`, `IssuesCurrentRole`, `GuardSparesLastAdmin` and
`TypeCorrect`, from `IndInv`. A token never passes to another user because no claim
in anybody's hands, a request in progress included, is ahead of `lastId`
(`HeldInv`); with ids that are used again it would be false. `TargetInv` says the
same of deletes, `CurrentInv` and `AdminInv` what a request that nothing overtook
still knows.

### TagHub, WriteAccess, Gateway

| Theorem | Statement |
|---|---|
| `GatewayInvariant` | `Spec => []GatewayInv` |
| `TypeCorrect` | `Spec => []TypeOK` |
| `PublishIsSafe` | `Spec => []NoSendOnClosedSub` |
| `UpdatesInOrder` | `Spec => []DeliveredInOrder` |
| `RevocationHolds` | `Spec => []NoWriteAfterRevocation` |
| `HandlersKeepStores` | `Spec => []StoresOutliveHandlers` |
| `BackupStops` | `Spec => []BackupStopsFirst` |

The proof follows the composition. `TagHubProofs` shows that the steps of scans and
connections preserve `HubInv`, `WriteAccessProofs` that the steps of the write path
preserve `AccessInv`; `GatewayProofs` uses them and adds the boot, the start and the
shutdown.

* `HubInv`: a publish visits subscribers only under the read lock, subscribers in
  the map have a handler between register and unregister, and only a handler that
  is gone has closed its channel (`SubInv`). For the order, what a client was sent,
  holds and has queued is bounded by what the source has counted and the
  subscriber was already offered (`BoundInv`), and is sorted (`OrderInv`).
* `AccessInv`: `saw` holds at least the gates open now until the guard has decided
  (`SawInv`), so a gate the guard finds open is in it; `AclInv` carries the first
  read over to the second.
* `ProcInv` says which stores are open at which stage, `ScanInv`, `IdleInv` and
  `SchedInv` which goroutines can be there. `HandlersKeepStores` needs that stores
  and log are open at every stage at which a handler may be at work (`OpenInv` with
  `IdleInv`); a serve error and the deadline of Shutdown are excepted in the
  property, since there the code does close them early. `BackupStops` needs that the scheduler's goroutine has ended when `StopBackup` has.

### Only model-checked

The liveness properties: `StopReturns`, `ReloadReturns`, `ConfiguredIsConnected`,
`ScanGoesOn`, `ShutdownEnds`, `AcceptedIsStored`, `HandlersReturn`,
`DeletedUserIsLockedOut`, `ScanIsNotBlocked` and `DeadClientIsForgotten`. Fairness
and ENABLED are beyond the prover. What recursive definitions compute for every
input would need induction over data, which is out of its reach too; the modules
here have none.

## 6. What modelling brought to light

The six disagreements of section 3 have a run each. Four more were met while
modelling and have none: the first is about the contents of the audit log and the
last about sequence numbers, which the models leave out, the second about a listener
inside gopcua; the third is visible in `EdgeNode` and in the table below.

| Statement | Behaviour |
|---|---|
| `openspec/specs/tag-write-acl/spec.md:280` "The audit event MUST be written before the handler returns", `:372` every attempt, "whether via HTTP or DCMD — MUST emit exactly one `AuditEvent`" | `api_write.go:148` discards the error of `Log` (`audit.go:61`), so a full disk loses entries; after a serve error or the deadline of Shutdown the log is closed under running handlers; DCMD handlers are never waited for. `StoresOutliveHandlers` is what does hold |
| `server.go:395` "Stop OPC UA server SECOND (stops serving tag values)", `opcua/server.go:160` "gracefully shuts down the OPC UA server" | gopcua's `Start` returns at once, so `running` is false again when `Stop` is called, and `Stop` returns without closing: the listener lives until the process exits |
| `openspec/changes/sparkplug-b/specs/sparkplug/spec.md:175` DDATA "MUST NOT be published while state machine is not ONLINE" | `publishLoop` reads the state, then publishes (`PublishTake`, `PublishDDATA`): one DDATA may go out after a lost connection or after Stop's NDEATH |
| `payload.go:27-28` "reset and advanced so seq=0", `sparkplug/spec.md:118` "seq=0 for NBIRTH" | `Reset` and `Next` are two atomic operations on a tracker that onConnect, reconnectLoop, the NCMD handlers and publishLoop share: two that interleave give an NBIRTH another seq |

Further behaviours that the models contain and a maintainer should know of:

* The OPC UA nodes, and the Sparkplug devices, come from the YAML file, while the
  manager runs the PLCs of the store.
* A failed flush ends the historian writer; the next full channel then stops every
  scan and every Reload until the gateway is restarted.
* With `mqtt.cleanSession` off, a shutdown on a dead broker link may never end.
* HTTP stays open while the PLC manager is stopped; writes then fail.
* A write that fails after the PLC took the value is audited as "deny". The details `handleDeleteACLRule` logs may be stale. ACL rules outlive tags.
* A token is honoured until it expires, also when its user was deleted or lost the
  role. `EnsureAdminExists` counts users and not admins.
* A slow WebSocket client loses the newest update; updates queued before an
  unsubscribe are still delivered; `Shutdown` does not wait for WebSockets.
* After a serve error the stores are closed under running components.
* A manual backup passes no paths, runs under `context.Background()` and survives
  the shutdown. `lgb backup run` is a process of its own that shares the snapshot
  file with the server's.
* Only `lgb config validate` validates the configuration, and `Validate` does not
  look at `jwtSecret`; the watcher loads the file without defaults and environment.
* The Will carries bdSeq 0, so hosts ignore it. NDEATH carries the current counter,
  which a concurrent birth may have advanced past the last NBIRTH delivered.

## 7. Not modelled

The read-only HTTP handlers, the single-page application and its headers render
what other components hold. Data directory, doctor, logging, error types and the
other commands are I/O and formatting. `Config.Validate` and `Redacted` are
functions of one value without state. The protobuf code is generated; the encoding
of payloads with their sequence numbers, the contents of the audit log, password
hashing and token signing are abstracted. Retention deletes
rows by age, which no property tells apart; the lengths of retry delays are
abstracted to a wait that ends. The frontend and the PLC simulator are clients and
test tooling.

## 8. Plan

The models cover the parts with state of their own, and what the runs check is
proved but for liveness. What is left:

1. The refinement of `PlcRegistry` is used by `PlcConfigApi` through its actions
   only; a theorem that each step of `PlcConfigApi` is a step of the registry (or a
   restart) would tie the two proofs together.
2. The safety half of the liveness properties, where it can be stated without
   ENABLED: a shutdown stage never goes back, a `todo` set only shrinks, a drained
   worker never runs again.
3. The hazards without a property (section "hazards" of `PROJECT.json`), and the
   disagreements of section 6 that have no run: a module of the sequence tracker and
   its users, and a run each for DDATA outside ONLINE and for the audit entries.
