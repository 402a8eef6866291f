------------------------------ MODULE PlcManager ------------------------------
(***************************************************************************)
(* The PLC manager (internal/plc/manager.go) with the gologix driver it    *)
(* owns (internal/plc/gologix.go): one goroutine per configured PLC that   *)
(* connects, scans its tags and publishes every reading; Start, Stop,      *)
(* Reload and WriteTag run concurrently with these goroutines.             *)
(*                                                                         *)
(* A worker is <<plc, g>>: the g-th plcWorker ever created under that PLC  *)
(* name.  A worker stands for its driver, its goroutine, its context and   *)
(* its done channel, which the code creates together and never shares.     *)
(* m.workers is the map live: live[p] = g when m.workers[p] is worker      *)
(* <<p, g>>, and 0 when the map has no entry for p.                        *)
(*                                                                         *)
(* Steps that hold m.mu from first to last statement are one action; a     *)
(* release of m.mu ends the action.  reloadMu admits one Reload at a time, *)
(* so one set of r... variables holds the locals of the Reload inside it.  *)
(***************************************************************************)
EXTENDS Integers, Sequences

CONSTANTS
    PLC,         \* PLC names
    Cfg,         \* PLC configurations that reflect.DeepEqual tells apart
    Tag,         \* tag names
    TagsOf,      \* [Cfg -> Seq(Tag)]: the tags a configuration scans, in order
    NoCfg,       \* "this PLC is not configured"
    InitCfg,     \* what the PLC store holds when the manager is built
    RootCtx,     \* the context of Server.Run, passed to Start
    RequestCtx,  \* contexts of HTTP requests, passed to Reload by the API
    Writer,      \* callers of WriteTag
    MaxGen       \* bound: workers created per PLC name

ASSUME GenAssumption == MaxGen \in Nat \ {0}

ASSUME ConfigAssumption ==
    /\ NoCfg \notin Cfg
    /\ TagsOf \in [Cfg -> Seq(Tag)]
    /\ InitCfg \in [PLC -> Cfg \cup {NoCfg}]

ASSUME ContextAssumption == RootCtx \notin RequestCtx

Gen == 1..MaxGen
GenOrNone == 0..MaxGen
Worker == PLC \X Gen
Ctx == RequestCtx \cup {RootCtx}
Quality == {"good", "bad"}

\* What m.current holds for a tag: the worker generation whose reading it is
\* stands for the value, and gen 0 for "no entry".
TagValue == [gen: GenOrNone, quality: Quality]
Absent == [gen |-> 0, quality |-> "bad"]

VARIABLES
    \* ---- Manager, guarded by m.mu
    live,       \* m.workers
    gen,        \* workers created so far per PLC name (names the next one)
    wcfg,       \* w.cfg
    current,    \* m.current
    stopped,    \* m.stopped
    started,    \* Start has been called
    \* ---- one goroutine per worker (runWorker) and its driver
    pc,         \* where the goroutine is
    cancelled,  \* w.cancel() has been called
    parent,     \* the context the worker's context derives from
    connected,  \* driver.connected
    session,    \* the CIP session really is up (the PLC's side of it)
    idx,        \* position in the tag list of the scan in progress
    lastQuality,\* the goroutine's lastQuality map
    reading,    \* quality of the reading being emitted
    \* ---- callers
    ctxState,   \* "fresh", "live" or "cancelled" per context
    stopPc,     \* Stop: "idle", "wait" (wg.Wait) or "close"
    rpc,        \* Reload: "idle", "diff", "wait" or "add"
    rctx, rcfg, \* Reload's arguments
    drained,    \* workers this Reload drains: generation per PLC name, or 0
    target      \* per WriteTag caller: the worker it looked up, or NoWorker

mgrVars == <<live, gen, wcfg, current, stopped, started>>
routineVars == <<pc, cancelled, parent, idx, lastQuality, reading>>
driverVars == <<connected, session>>
reloadVars == <<rpc, rctx, rcfg, drained>>
vars == <<mgrVars, routineVars, driverVars, reloadVars, ctxState, stopPc, target>>

NoWorker == <<>>
NoReading == [t \in Tag |-> "none"]

\* Program counters of runWorker.  "new": created by NewManager, not launched.
Connecting == {"connect", "reconnect"}
Dialing == {"dial", "redial"}
Scanning == {"read", "store", "notify"}
Running == Connecting \cup Dialing \cup Scanning \cup {"select"}
WorkerPc == Running \cup {"none", "new", "exited"}

TypeOK ==
    /\ live \in [PLC -> GenOrNone]
    /\ gen \in [PLC -> GenOrNone]
    /\ wcfg \in [Worker -> Cfg \cup {NoCfg}]
    /\ current \in [PLC -> [Tag -> TagValue]]
    /\ stopped \in BOOLEAN
    /\ started \in BOOLEAN
    /\ pc \in [Worker -> WorkerPc]
    /\ cancelled \in [Worker -> BOOLEAN]
    /\ parent \in [Worker -> Ctx]
    /\ connected \in [Worker -> BOOLEAN]
    /\ session \in [Worker -> BOOLEAN]
    /\ idx \in [Worker -> Nat]
    /\ lastQuality \in [Worker -> [Tag -> Quality \cup {"none"}]]
    /\ reading \in [Worker -> Quality]
    /\ ctxState \in [Ctx -> {"fresh", "live", "cancelled"}]
    /\ stopPc \in {"idle", "wait", "close"}
    /\ rpc \in {"idle", "diff", "wait", "add"}
    /\ rctx \in Ctx
    /\ rcfg \in [PLC -> Cfg \cup {NoCfg}]
    /\ drained \in [PLC -> GenOrNone]
    /\ target \in [Writer -> Worker \cup {NoWorker}]

-----------------------------------------------------------------------------
\* Lookups under m.mu.

Registered(w) == live[w[1]] = w[2]

\* The configuration m.workers runs for p, NoCfg when p has no worker.
LiveCfg(p) == IF live[p] = 0 THEN NoCfg ELSE wcfg[<<p, live[p]>>]

\* CurrentTag(plc, tag); its ok result is gen # 0.
CurrentTag(p, t) == current[p][t]

\* Mutant: the worker's context derives from context.Background().
CtxDoneDetached(w) == cancelled[w]

\* ctx.Done() of the worker's own context.
CtxDone(w) == cancelled[w] \/ ctxState[parent[w]] = "cancelled"

-----------------------------------------------------------------------------
\* NewManager: one driver and one worker entry per configured PLC; no
\* goroutine and no cancel function until Start.
Init ==
    /\ live = [p \in PLC |-> IF InitCfg[p] = NoCfg THEN 0 ELSE 1]
    /\ gen = live
    /\ wcfg = [w \in Worker |-> IF w[2] = 1 THEN InitCfg[w[1]] ELSE NoCfg]
    /\ current = [p \in PLC |-> [t \in Tag |-> Absent]]
    /\ stopped = FALSE
    /\ started = FALSE
    /\ pc = [w \in Worker |->
                IF w[2] = 1 /\ InitCfg[w[1]] # NoCfg THEN "new" ELSE "none"]
    /\ cancelled = [w \in Worker |-> FALSE]
    /\ parent = [w \in Worker |-> RootCtx]
    /\ connected = [w \in Worker |-> FALSE]
    /\ session = [w \in Worker |-> FALSE]
    /\ idx = [w \in Worker |-> 0]
    /\ lastQuality = [w \in Worker |-> NoReading]
    /\ reading = [w \in Worker |-> "bad"]
    /\ ctxState = [c \in Ctx |-> IF c = RootCtx THEN "live" ELSE "fresh"]
    /\ stopPc = "idle"
    /\ rpc = "idle"
    /\ rctx = RootCtx
    /\ rcfg = InitCfg
    /\ drained = [p \in PLC |-> 0]
    /\ target = [x \in Writer |-> NoWorker]

\* Start(ctx): one goroutine per registered worker, all under m.mu.
Start ==
    /\ ~started
    /\ started' = TRUE
    /\ pc' = [w \in Worker |-> IF Registered(w) THEN "connect" ELSE pc[w]]
    /\ UNCHANGED <<live, gen, wcfg, current, stopped, cancelled, parent, idx,
                   lastQuality, reading, driverVars, reloadVars, ctxState,
                   stopPc, target>>

-----------------------------------------------------------------------------
(* runWorker.  Outside storeTag the goroutine never holds m.mu. *)

Goto(w, l) == pc' = [pc EXCEPT ![w] = l]

\* The goroutine returns: wg.Done, close(done).  Its locals die with it.
Return(w) ==
    /\ Goto(w, "exited")
    /\ idx' = [idx EXCEPT ![w] = 0]
    /\ lastQuality' = [lastQuality EXCEPT ![w] = NoReading]
    /\ reading' = [reading EXCEPT ![w] = "bad"]
    /\ UNCHANGED <<mgrVars, cancelled, parent, driverVars, reloadVars,
                   ctxState, stopPc, target>>

\* retry.Do calls Connect unless ctx is done; the dial then holds driver.mu
\* and runs to completion whatever happens to ctx.
Dial(w) ==
    /\ pc[w] \in Connecting
    /\ ~CtxDone(w)
    /\ Goto(w, IF pc[w] = "connect" THEN "dial" ELSE "redial")
    /\ UNCHANGED <<mgrVars, cancelled, parent, idx, lastQuality, reading,
                   driverVars, reloadVars, ctxState, stopPc, target>>

\* retry.Do returns ctx.Err(), before an attempt or during its delay.
GiveUp(w) ==
    /\ pc[w] \in Connecting
    /\ CtxDone(w)
    /\ Return(w)

\* The goroutine goes on with tag number i, or back to select after the last.
ScanFrom(w, i) ==
    IF i <= Len(TagsOf[wcfg[w]])
    THEN Goto(w, "read") /\ idx' = [idx EXCEPT ![w] = i]
    ELSE Goto(w, "select") /\ idx' = [idx EXCEPT ![w] = 0]

\* Connect returns nil.  After a reconnect the interrupted tick goes on.
DialOk(w) ==
    /\ pc[w] \in Dialing
    /\ connected' = [connected EXCEPT ![w] = TRUE]
    /\ session' = [session EXCEPT ![w] = TRUE]
    /\ IF pc[w] = "dial"
       THEN Goto(w, "select") /\ UNCHANGED idx
       ELSE ScanFrom(w, 1)
    /\ UNCHANGED <<mgrVars, cancelled, parent, lastQuality, reading,
                   reloadVars, ctxState, stopPc, target>>

\* Mutant: a failed Connect ends the goroutine instead of being retried.
DialFailReturns(w) ==
    /\ pc[w] \in Dialing
    /\ Return(w)

\* Connect returns an error after its own attempts; retry.Do tries again.
DialFail(w) ==
    /\ pc[w] \in Dialing
    /\ connected' = [connected EXCEPT ![w] = FALSE]
    /\ Goto(w, IF pc[w] = "dial" THEN "connect" ELSE "reconnect")
    /\ UNCHANGED <<mgrVars, cancelled, parent, idx, lastQuality, reading,
                   session, reloadVars, ctxState, stopPc, target>>

\* select takes <-ctx.Done().
SelectDone(w) ==
    /\ pc[w] = "select"
    /\ CtxDone(w)
    /\ Return(w)

\* select takes <-ticker.C (also when ctx is done: select picks either).
\* reconnect's Close finds connected already FALSE and does nothing.
Tick(w) ==
    /\ pc[w] = "select"
    /\ IF connected[w]
       THEN ScanFrom(w, 1)
       ELSE Goto(w, "reconnect") /\ UNCHANGED idx
    /\ UNCHANGED <<mgrVars, cancelled, parent, lastQuality, reading,
                   driverVars, reloadVars, ctxState, stopPc, target>>

TagAt(w) == TagsOf[wcfg[w]][idx[w]]

\* Mutant: the update goes out without a Quality; only storeTag fills one in.
ReadGoodNoQuality(w) ==
    /\ pc[w] = "read"
    /\ session[w]
    /\ reading' = [reading EXCEPT ![w] = ""]
    /\ Goto(w, "store")
    /\ UNCHANGED <<mgrVars, cancelled, parent, idx, lastQuality, driverVars,
                   reloadVars, ctxState, stopPc, target>>

\* ReadTag returns: a good reading needs the session; a read may also fail
\* for the tag alone.  driver.connected is not touched either way.
ReadGood(w) ==
    /\ pc[w] = "read"
    /\ session[w]
    /\ reading' = [reading EXCEPT ![w] = "good"]
    /\ Goto(w, "store")
    /\ UNCHANGED <<mgrVars, cancelled, parent, idx, lastQuality, driverVars,
                   reloadVars, ctxState, stopPc, target>>

\* A failed read is emitted once; while it keeps failing the tag is skipped.
ReadBad(w) ==
    /\ pc[w] = "read"
    /\ IF lastQuality[w][TagAt(w)] # "bad"
       THEN /\ reading' = [reading EXCEPT ![w] = "bad"]
            /\ Goto(w, "store")
            /\ UNCHANGED idx
       ELSE ScanFrom(w, idx[w] + 1) /\ UNCHANGED reading
    /\ UNCHANGED <<mgrVars, cancelled, parent, lastQuality, driverVars,
                   reloadVars, ctxState, stopPc, target>>

\* emitTagUpdate, first half: storeTag under m.mu, whether or not the PLC is
\* still registered.
StoreTag(w) ==
    /\ pc[w] = "store"
    /\ current' = [current EXCEPT ![w[1]][TagAt(w)] =
                      [gen |-> w[2], quality |-> reading[w]]]
    /\ Goto(w, "notify")
    /\ UNCHANGED <<live, gen, wcfg, stopped, started, cancelled, parent, idx,
                   lastQuality, reading, driverVars, reloadVars, ctxState,
                   stopPc, target>>

\* emitTagUpdate, second half: the callbacks return, the loop goes on.
Notify(w) ==
    /\ pc[w] = "notify"
    /\ lastQuality' = [lastQuality EXCEPT ![w][TagAt(w)] = reading[w]]
    /\ ScanFrom(w, idx[w] + 1)
    /\ UNCHANGED <<mgrVars, cancelled, parent, reading, driverVars,
                   reloadVars, ctxState, stopPc, target>>

\* The PLC or the network drops the session; nothing tells the driver.
DropSession(w) ==
    /\ session[w]
    /\ session' = [session EXCEPT ![w] = FALSE]
    /\ UNCHANGED <<mgrVars, routineVars, connected, reloadVars, ctxState,
                   stopPc, target>>

-----------------------------------------------------------------------------
(* Stop.  Server.Run calls it once its context is cancelled. *)

StopBegin ==
    /\ started
    /\ ctxState[RootCtx] = "cancelled"
    /\ stopPc = "idle"
    /\ stopped' = TRUE
    /\ cancelled' = [w \in Worker |-> cancelled[w] \/ Registered(w)]
    /\ stopPc' = "wait"
    /\ UNCHANGED <<live, gen, wcfg, current, started, pc, parent, idx,
                   lastQuality, reading, driverVars, reloadVars, ctxState,
                   target>>

\* Mutant: Stop does not wait for the goroutines.
StopWaitedNot ==
    /\ stopPc = "wait"
    /\ stopPc' = "close"
    /\ UNCHANGED <<mgrVars, routineVars, driverVars, reloadVars, ctxState, target>>

\* wg.Wait returns: no goroutine of this manager runs at that instant.
StopWaited ==
    /\ stopPc = "wait"
    /\ \A w \in Worker: pc[w] \notin Running
    /\ stopPc' = "close"
    /\ UNCHANGED <<mgrVars, routineVars, driverVars, reloadVars, ctxState, target>>

\* Close on every registered driver, under m.mu.RLock; each Close needs
\* driver.mu, which a dial in progress holds.
StopClose ==
    /\ stopPc = "close"
    /\ \A w \in Worker: Registered(w) => pc[w] \notin Dialing
    /\ connected' = [w \in Worker |-> connected[w] /\ ~Registered(w)]
    /\ session' = [w \in Worker |->
                      session[w] /\ ~(Registered(w) /\ connected[w])]
    /\ stopPc' = "idle"
    /\ UNCHANGED <<mgrVars, routineVars, reloadVars, ctxState, target>>

-----------------------------------------------------------------------------
(* Reload(ctx, cfg). *)

\* The bound on worker generations: a Reload that would need one more worker
\* for a name than MaxGen is not offered.
WithinGenBound(cfg) ==
    \A p \in PLC: cfg[p] # NoCfg /\ cfg[p] # LiveCfg(p) => gen[p] < MaxGen

\* reloadMu taken, the stopped flag read and found FALSE.  (When it is TRUE
\* Reload returns without any effect.)  An HTTP caller brings a new context.
\* HTTP is served after Start; an earlier Reload by the config watcher lists
\* the same store the manager was built from and changes nothing.
ReloadBegin(c, cfg) ==
    /\ started
    /\ rpc = "idle"
    /\ ~stopped
    /\ c # RootCtx => ctxState[c] = "fresh"
    /\ WithinGenBound(cfg)
    /\ ctxState' = [ctxState EXCEPT ![c] = IF @ = "fresh" THEN "live" ELSE @]
    /\ rctx' = c
    /\ rcfg' = cfg
    /\ rpc' = "diff"
    /\ UNCHANGED <<mgrVars, routineVars, driverVars, drained, stopPc, target>>

\* Mutant: every registered worker is restarted.
MustDrainAll(p) == live[p] # 0

\* Removed or changed: the name is registered with another configuration.
MustDrain(p) == live[p] # 0 /\ rcfg[p] # LiveCfg(p)

\* Mutant: the drained workers are not cancelled.
ReloadDiffNoCancel ==
    /\ rpc = "diff"
    /\ drained' = [p \in PLC |-> IF MustDrain(p) THEN live[p] ELSE 0]
    /\ live' = [p \in PLC |-> IF MustDrain(p) THEN 0 ELSE live[p]]
    /\ current' = [p \in PLC |->
                      IF MustDrain(p) THEN [t \in Tag |-> Absent] ELSE current[p]]
    /\ rpc' = "wait"
    /\ UNCHANGED <<gen, wcfg, stopped, started, routineVars, driverVars, rctx,
                   rcfg, ctxState, stopPc, target>>

\* Mutant: the current values of every PLC are dropped.
ReloadDiffDropsAll ==
    /\ rpc = "diff"
    /\ drained' = [p \in PLC |-> IF MustDrain(p) THEN live[p] ELSE 0]
    /\ cancelled' = [w \in Worker |->
                        cancelled[w] \/ (Registered(w) /\ MustDrain(w[1]))]
    /\ live' = [p \in PLC |-> IF MustDrain(p) THEN 0 ELSE live[p]]
    /\ current' = [p \in PLC |-> [t \in Tag |-> Absent]]
    /\ rpc' = "wait"
    /\ UNCHANGED <<gen, wcfg, stopped, started, pc, parent, idx, lastQuality,
                   reading, driverVars, rctx, rcfg, ctxState, stopPc, target>>

\* First m.mu section: cancel and unregister what must be drained, and drop
\* its current values.
ReloadDiff ==
    /\ rpc = "diff"
    /\ drained' = [p \in PLC |-> IF MustDrain(p) THEN live[p] ELSE 0]
    /\ cancelled' = [w \in Worker |->
                        cancelled[w] \/ (Registered(w) /\ MustDrain(w[1]))]
    /\ live' = [p \in PLC |-> IF MustDrain(p) THEN 0 ELSE live[p]]
    /\ current' = [p \in PLC |->
                      IF MustDrain(p) THEN [t \in Tag |-> Absent] ELSE current[p]]
    /\ rpc' = "wait"
    /\ UNCHANGED <<gen, wcfg, stopped, started, pc, parent, idx, lastQuality,
                   reading, driverVars, rctx, rcfg, ctxState, stopPc, target>>

Drained(w) == drained[w[1]] = w[2]

\* Mutant: Reload does not wait for the done channels.
ReloadCloseNoWait ==
    /\ rpc = "wait"
    /\ connected' = [w \in Worker |-> connected[w] /\ ~Drained(w)]
    /\ session' = [w \in Worker |-> session[w] /\ ~(Drained(w) /\ connected[w])]
    /\ drained' = [p \in PLC |-> 0]
    /\ rpc' = "add"
    /\ UNCHANGED <<mgrVars, routineVars, rctx, rcfg, ctxState, stopPc, target>>

\* Mutant: the drained drivers are not closed.
ReloadCloseForgets ==
    /\ rpc = "wait"
    /\ \A w \in Worker: Drained(w) => pc[w] = "exited"
    /\ drained' = [p \in PLC |-> 0]
    /\ rpc' = "add"
    /\ UNCHANGED <<mgrVars, routineVars, driverVars, rctx, rcfg, ctxState,
                   stopPc, target>>

\* Every drained goroutine has closed its done channel; Close their drivers.
ReloadClose ==
    /\ rpc = "wait"
    /\ \A w \in Worker: Drained(w) => pc[w] = "exited"
    /\ connected' = [w \in Worker |-> connected[w] /\ ~Drained(w)]
    /\ session' = [w \in Worker |-> session[w] /\ ~(Drained(w) /\ connected[w])]
    /\ drained' = [p \in PLC |-> 0]
    /\ rpc' = "add"
    /\ UNCHANGED <<mgrVars, routineVars, rctx, rcfg, ctxState, stopPc, target>>

\* Configured and not registered: gets a worker in the add loop.
MustAdd(p) == live[p] = 0 /\ rcfg[p] # NoCfg

IsNext(w) == MustAdd(w[1]) /\ w[2] = gen[w[1]] + 1

\* Second m.mu section: a driver, a context derived from Reload's ctx and a
\* goroutine for every configured name that has none.  stopped is not looked
\* at again.
ReloadAdd ==
    /\ rpc = "add"
    /\ live' = [p \in PLC |-> IF MustAdd(p) THEN gen[p] + 1 ELSE live[p]]
    /\ gen' = [p \in PLC |-> IF MustAdd(p) THEN gen[p] + 1 ELSE gen[p]]
    /\ wcfg' = [w \in Worker |-> IF IsNext(w) THEN rcfg[w[1]] ELSE wcfg[w]]
    /\ parent' = [w \in Worker |-> IF IsNext(w) THEN rctx ELSE parent[w]]
    /\ pc' = [w \in Worker |-> IF IsNext(w) THEN "connect" ELSE pc[w]]
    /\ rpc' = "idle"
    /\ UNCHANGED <<current, stopped, started, cancelled, idx, lastQuality,
                   reading, driverVars, rctx, rcfg, drained, ctxState, stopPc,
                   target>>

-----------------------------------------------------------------------------
(* Contexts.  net/http cancels a request's context when its client goes     *)
(* away and at the latest when its handler, and so its Reload, has returned.*)

CancelCtx(c) ==
    /\ ctxState[c] = "live"
    /\ ctxState' = [ctxState EXCEPT ![c] = "cancelled"]
    /\ UNCHANGED <<mgrVars, routineVars, driverVars, reloadVars, stopPc, target>>

-----------------------------------------------------------------------------
(* WriteTag: lookup under m.mu.RLock, driver.WriteTag outside the lock. *)

WriteLookup(x, p) ==
    /\ target[x] = NoWorker
    /\ live[p] # 0
    /\ target' = [target EXCEPT ![x] = <<p, live[p]>>]
    /\ UNCHANGED <<mgrVars, routineVars, driverVars, reloadVars, ctxState, stopPc>>

WriteReturn(x) ==
    /\ target[x] # NoWorker
    /\ target' = [target EXCEPT ![x] = NoWorker]
    /\ UNCHANGED <<mgrVars, routineVars, driverVars, reloadVars, ctxState, stopPc>>

\* driver.WriteTag returns nil: the value went out on the session.
WriteOk(x) == WriteReturn(x) /\ session[target[x]]

\* driver.WriteTag returns an error (no session, or the PLC refused).
WriteErr(x) == WriteReturn(x)

-----------------------------------------------------------------------------
\* The goroutine, up to the callbacks.
Scan(w) ==
    \/ Dial(w) \/ GiveUp(w) \/ DialOk(w) \/ DialFail(w)
    \/ SelectDone(w) \/ Tick(w)
    \/ ReadGood(w) \/ ReadBad(w) \/ StoreTag(w)

Routine(w) == Scan(w) \/ Notify(w)

Stop == StopBegin \/ StopWaited \/ StopClose

Reload ==
    \/ \E c \in Ctx, cfg \in [PLC -> Cfg \cup {NoCfg}]: ReloadBegin(c, cfg)
    \/ ReloadDiff \/ ReloadClose \/ ReloadAdd

WriteTag(x) == WriteOk(x) \/ WriteErr(x) \/ \E p \in PLC: WriteLookup(x, p)

Environment ==
    \/ \E w \in Worker: DropSession(w)
    \/ \E c \in Ctx: CancelCtx(c)

Next ==
    \/ Start \/ Stop \/ Reload
    \/ \E w \in Worker: Routine(w)
    \/ \E x \in Writer: WriteTag(x)
    \/ Environment

Spec == Init /\ [][Next]_vars

(***************************************************************************)
(* Fairness.  Goroutines are scheduled, a dial and a read end by           *)
(* SocketTimeout, and an HTTP handler returns, which cancels its context.  *)
(* A tag callback need not return while the server runs: the historian's   *)
(* Enqueue waits for room in a channel that nobody reads once the writer   *)
(* has exited on a failed flush.  It waits on the server's context too,    *)
(* so it does return once that context is cancelled (NotifyReturns).       *)
(* A select that finds both its ticker and ctx.Done ready picks at random, *)
(* so it does not avoid ctx.Done for ever: strong fairness of SelectDone.  *)
(* That a PLC answers some dial after finitely many failed ones is an      *)
(* assumption on the environment, made only by PlcsAnswer.                 *)
(***************************************************************************)
ReturnRequest(c) == rpc = "idle" /\ CancelCtx(c)

NotifyReturns(w) == ctxState[RootCtx] # "live" /\ Notify(w)

Fairness ==
    /\ WF_vars(Start)
    /\ WF_vars(StopWaited) /\ WF_vars(StopClose)
    /\ WF_vars(ReloadDiff) /\ WF_vars(ReloadClose) /\ WF_vars(ReloadAdd)
    /\ \A w \in Worker:
        /\ WF_vars(Scan(w)) /\ SF_vars(SelectDone(w))
        /\ WF_vars(NotifyReturns(w))
    /\ \A c \in RequestCtx: WF_vars(ReturnRequest(c))

PlcsAnswer == \A w \in Worker: SF_vars(DialOk(w))

FairSpec == Spec /\ Fairness /\ PlcsAnswer

-----------------------------------------------------------------------------
(* Safety. *)

\* At most one goroutine runs per PLC name, whatever Reloads, Stops and slow
\* dials overlap: Reload waits for the drained goroutine's done channel before
\* it adds the replacement.
OneRoutinePerPLC ==
    \A p \in PLC: \A g, h \in Gen:
        pc[<<p, g>>] \in Running /\ pc[<<p, h>>] \in Running => g = h

\* No driver is left connected with nobody to close it: a connected driver is
\* registered, or the Reload in progress holds it and has yet to Close it.
\* A dial that completes after its worker was drained is the hard case.
NoLeakedConnection ==
    \A w \in Worker:
        connected[w] \/ session[w] =>
            Registered(w) \/ (rpc = "wait" /\ Drained(w))

\* lastQuality is what decides whether a failing read is published again, so
\* it must agree with what readers of the tag store see for a registered PLC:
\* otherwise a failing tag would show an old good value for ever.
QualityIsPublished ==
    \A w \in Worker: \A t \in Tag:
        Registered(w) /\ pc[w] # "notify" /\ lastQuality[w][t] # "none" =>
            CurrentTag(w[1], t) = [gen |-> w[2], quality |-> lastQuality[w][t]]

\* A registered worker whose context derives from the server's has a running
\* goroutine for as long as the server runs, so its PLC is scanned (or being
\* dialled): neither Reload nor a failing PLC ends it.
RegisteredIsServed ==
    \A w \in Worker:
        /\ started /\ Registered(w)
        /\ parent[w] = RootCtx /\ ctxState[RootCtx] = "live"
        => pc[w] \in Running

\* Once Stop has returned no goroutine under the server's context dials,
\* reads or publishes, and no driver of such a worker is connected unless a
\* Reload that overlapped Stop is about to Close it.  A Reload that passed the
\* stopped check before Stop set it may still add workers afterwards.
QuietAfterStop ==
    stopped /\ stopPc = "idle" =>
        \A w \in Worker: parent[w] = RootCtx =>
            /\ pc[w] \notin Running \ Connecting
            /\ connected[w] => rpc = "wait" /\ Drained(w)

\* A stored reading is never replaced by one of an older worker: the value of
\* a superseded configuration cannot come back over the new one's.
NeverOlderReading ==
    [][\A p \in PLC, t \in Tag:
          current'[p][t].gen = 0 \/ current'[p][t].gen >= current[p][t].gen]_vars

-----------------------------------------------------------------------------
(* Reload implements the abstract registry. *)

Registry == INSTANCE PlcRegistry WITH
    Name <- PLC, Config <- Cfg, None <- NoCfg, InitRunning <- InitCfg,
    running <- [p \in PLC |-> LiveCfg(p)],
    want <- rcfg,
    phase <- IF rpc = "wait" THEN "add" ELSE rpc

\* For its callers Reload goes from the old set of running configurations to
\* the new one in two steps, whatever goroutines, Stop and writers do at the
\* same time: unchanged PLCs are not interrupted, and afterwards m.workers is
\* what the configuration says.
ImplementsRegistry == Registry!Spec

-----------------------------------------------------------------------------
(* Liveness, under FairSpec. *)

\* Stop returns: every goroutine wg.Wait counts ends, also those a Reload
\* adds while Stop is waiting, and also those that a callback holds up.
StopReturns == stopPc # "idle" ~> stopPc = "idle"

\* No callback holds up its goroutine for ever.  The code does not guarantee
\* it: see Historian, where a scan is stuck in Enqueue exactly when the
\* writer has exited on a failed flush and the channel is full.
CallbacksReturn == \A w \in Worker: []<>(pc[w] # "notify")

\* Reload returns as long as the callbacks do (and they do once the server's
\* context is cancelled): the goroutines it drains end even in mid-dial or
\* mid-scan.  A callback that never returns is the only thing that can hold
\* it up.
ReloadReturns == CallbacksReturn => (rpc # "idle" ~> rpc = "idle")

\* A PLC that stays configured gets connected, however often its dial fails.
ConfiguredIsConnected ==
    \A w \in Worker:
        started /\ Registered(w) /\ parent[w] = RootCtx
        ~> connected[w] \/ ~Registered(w) \/ ctxState[RootCtx] = "cancelled"

-----------------------------------------------------------------------------
(* What comments and specifications of the repository say and the code does *)
(* not guarantee.                                                            *)

\* "The parent ctx must be the same context passed to Start": every worker
\* that is registered while the server runs has a running goroutine.
EveryRegisteredIsServed ==
    \A w \in Worker:
        started /\ Registered(w) /\ ctxState[RootCtx] = "live" => pc[w] \in Running

\* "On read error: log WARN and reconnect": a scanning worker that loses its
\* session gets a new one, or its context ends (also where callbacks return).
LostSessionIsRestored ==
    CallbacksReturn =>
        \A w \in Worker:
            connected[w] /\ ~session[w] ~> session[w] \/ CtxDone(w)

=============================================================================
