--------------------------- MODULE PlcManagerProofs ---------------------------
(***************************************************************************)
(* Proofs about PlcManager, for any set of PLCs, configurations, tags,     *)
(* request contexts and writers and any bound MaxGen.                      *)
(***************************************************************************)
EXTENDS PlcManager, TLAPS

\* What is used of a worker's identity.
LEMMA WorkerParts ==
    /\ \A w \in Worker: w[1] \in PLC /\ w[2] \in Gen /\ w = <<w[1], w[2]>>
    /\ \A p \in PLC, g \in Gen: <<p, g>> \in Worker
BY DEF Worker

\* Wherever a scan goes on, the goroutine is at a read or back at select.
LEMMA ScanFromEffect ==
    ASSUME TypeOK, NEW w \in Worker, NEW i \in Nat, ScanFrom(w, i)
    PROVE  /\ \E l \in {"read", "select"}: pc' = [pc EXCEPT ![w] = l]
           /\ idx' \in [Worker -> Nat]
<1>1. CASE i <= Len(TagsOf[wcfg[w]])
  BY <1>1 DEF TypeOK, ScanFrom, Goto
<1>2. CASE ~(i <= Len(TagsOf[wcfg[w]]))
  BY <1>2 DEF TypeOK, ScanFrom, Goto
<1> QED BY <1>1, <1>2

\* storeTag writes a well-formed value (or nothing, for a tag unknown here).
LEMMA StoreTagType ==
    ASSUME TypeOK, NEW w \in Worker, StoreTag(w)
    PROVE  current' \in [PLC -> [Tag -> TagValue]]
<1> DEFINE v == [gen |-> w[2], quality |-> reading[w]]
<1>1. v \in TagValue
  BY WorkerParts DEF TypeOK, TagValue, GenOrNone, Gen, Quality
<1>2. \A p \in PLC: current'[p] \in [Tag -> TagValue]
  <2> SUFFICES ASSUME NEW p \in PLC PROVE current'[p] \in [Tag -> TagValue]
    OBVIOUS
  <2>1. current'[p] = IF p = w[1] THEN [current[p] EXCEPT ![TagAt(w)] = v] ELSE current[p]
    BY WorkerParts DEF TypeOK, StoreTag
  <2> HIDE DEF v
  <2>2. current[p] \in [Tag -> TagValue]
    BY DEF TypeOK
  <2>3. [current[p] EXCEPT ![TagAt(w)] = v] \in [Tag -> TagValue]
    BY <1>1, <2>2
  <2> QED BY <2>1, <2>2, <2>3
<1>3. current' = [p \in PLC |-> current'[p]]
  BY DEF TypeOK, StoreTag
<1> QED BY <1>2, <1>3

\* A routine step moves one worker, and keeps every variable in its type.
LEMMA RoutineType ==
    ASSUME TypeOK, NEW w \in Worker, Routine(w)
    PROVE  TypeOK'
<1> USE DEF Quality, WorkerPc, Running, Connecting, Dialing, Scanning
<1>1. CASE Dial(w)
  BY <1>1 DEF TypeOK, Dial, Goto, mgrVars, driverVars, reloadVars
<1>2. CASE GiveUp(w)
  BY <1>2 DEF TypeOK, GiveUp, Return, NoReading, Goto, mgrVars, driverVars, reloadVars
<1>3. CASE DialOk(w)
  <2>1. CASE pc[w] = "dial"
    BY <1>3, <2>1 DEF TypeOK, DialOk, Goto, mgrVars, reloadVars
  <2>2. CASE pc[w] # "dial"
    BY <1>3, <2>2, ScanFromEffect DEF TypeOK, DialOk, mgrVars, reloadVars
  <2> QED BY <2>1, <2>2
<1>4. CASE DialFail(w)
  BY <1>4 DEF TypeOK, DialFail, Goto, mgrVars, reloadVars
<1>5. CASE SelectDone(w)
  BY <1>5 DEF TypeOK, SelectDone, Return, NoReading, Goto, mgrVars, driverVars, reloadVars
<1>6. CASE Tick(w)
  <2>1. CASE connected[w]
    <3>1. ScanFrom(w, 1)
      BY <1>6, <2>1 DEF Tick
    <3>2. /\ pc' \in [Worker -> WorkerPc] /\ idx' \in [Worker -> Nat]
      BY <3>1, ScanFromEffect DEF TypeOK
    <3> QED BY <1>6, <3>2 DEF TypeOK, Tick, mgrVars, driverVars, reloadVars
  <2>2. CASE ~connected[w]
    BY <1>6, <2>2 DEF TypeOK, Tick, Goto, mgrVars, driverVars, reloadVars
  <2> QED BY <2>1, <2>2
<1>7. CASE ReadGood(w)
  BY <1>7 DEF TypeOK, ReadGood, Goto, mgrVars, driverVars, reloadVars
<1>8. CASE ReadBad(w)
  <2>1. CASE lastQuality[w][TagAt(w)] # "bad"
    BY <1>8, <2>1 DEF TypeOK, ReadBad, Goto, mgrVars, driverVars, reloadVars
  <2>2. CASE lastQuality[w][TagAt(w)] = "bad"
    <3>1. idx[w] + 1 \in Nat
      BY DEF TypeOK
    <3>2. ScanFrom(w, idx[w] + 1)
      BY <1>8, <2>2 DEF ReadBad
    <3>3. /\ pc' \in [Worker -> WorkerPc] /\ idx' \in [Worker -> Nat]
      BY <3>1, <3>2, ScanFromEffect DEF TypeOK
    <3> QED BY <1>8, <2>2, <3>3 DEF TypeOK, ReadBad, mgrVars, driverVars, reloadVars
  <2> QED BY <2>1, <2>2
<1>9. CASE StoreTag(w)
  BY <1>9, StoreTagType DEF TypeOK, StoreTag, Goto, driverVars, reloadVars
<1>10. CASE Notify(w)
  <2>1. idx[w] + 1 \in Nat
    BY DEF TypeOK
  <2>2. lastQuality' \in [Worker -> [Tag -> Quality \cup {"none"}]]
    BY <1>10 DEF TypeOK, Notify
  <2>3. ScanFrom(w, idx[w] + 1)
    BY <1>10 DEF Notify
  <2>4. pc' \in [Worker -> WorkerPc] /\ idx' \in [Worker -> Nat]
    BY <2>1, <2>3, ScanFromEffect DEF TypeOK
  <2> QED BY <1>10, <2>2, <2>4 DEF TypeOK, Notify, mgrVars, driverVars, reloadVars
<1> QED BY <1>1, <1>2, <1>3, <1>4, <1>5, <1>6, <1>7, <1>8, <1>9, <1>10 DEF Routine, Scan

-----------------------------------------------------------------------------
(***************************************************************************)
(* The inductive invariant.  OneRoutinePerPLC and NoLeakedConnection follow *)
(* from OwnedInv: whatever runs or is connected is either in m.workers or   *)
(* in the hands of the Reload that is draining it, and DrainInv says that   *)
(* no PLC name has both.                                                    *)
(***************************************************************************)

\* Worker generations: room for the workers the Reload in progress will add.
GenInv ==
    /\ \A p \in PLC: live[p] <= gen[p]
    /\ rpc # "idle" => WithinGenBound(rcfg)

\* A name whose worker is being drained is not registered.
DrainInv == \A p \in PLC: drained[p] # 0 => rpc = "wait" /\ live[p] = 0

Owned(w) == Registered(w) \/ (rpc = "wait" /\ Drained(w))

OwnedInv ==
    \A w \in Worker:
        pc[w] \in Running \/ connected[w] \/ session[w] => Owned(w)

\* The flag covers the session, and a goroutine that dials is not connected.
SessionInv ==
    \A w \in Worker:
        /\ session[w] => connected[w]
        /\ pc[w] \in Connecting \cup Dialing => ~connected[w]

\* Nothing runs before Start.
StartInv ==
    ~started => /\ rpc = "idle" /\ ~stopped
                /\ \A w \in Worker: pc[w] \in {"none", "new"} /\ ~connected[w]

\* A registered goroutine has ended only because its context is done, and
\* only Stop cancels the context of a worker that stays registered.
ServedInv ==
    /\ \A w \in Worker: started /\ Registered(w) => pc[w] \in Running \/ CtxDone(w)
    /\ \A w \in Worker: cancelled[w] => w[2] <= gen[w[1]] /\ (Registered(w) => stopped)
    /\ stopped => ctxState[RootCtx] = "cancelled"

IndInv ==
    /\ TypeOK /\ GenInv /\ DrainInv /\ OwnedInv /\ SessionInv
    /\ StartInv /\ ServedInv

-----------------------------------------------------------------------------
\* What a routine step of w may change, as far as IndInv is concerned.
SharedVars == <<live, gen, wcfg, stopped, started, cancelled, parent, ctxState>>

DriverEffect(w) ==
    \/ UNCHANGED <<connected, session>>
    \/ /\ connected' = [connected EXCEPT ![w] = TRUE]
       /\ session' = [session EXCEPT ![w] = TRUE]
       /\ pc'[w] \notin Connecting \cup Dialing
    \/ /\ connected' = [connected EXCEPT ![w] = FALSE]
       /\ UNCHANGED session
       /\ pc[w] \in Dialing

PcEffect(w) ==
    \E l \in Running \cup {"exited"}:
        /\ pc' = [pc EXCEPT ![w] = l]
        /\ l = "exited" => CtxDone(w)
        /\ l \in Connecting \cup Dialing =>
              pc[w] \in Connecting \cup Dialing \/ ~connected[w]

\* A goroutine touches its own worker and the tag store only: it enters a
\* dial when its driver is not connected, and ends when its context is done.
LEMMA RoutineEffect ==
    ASSUME TypeOK, NEW w \in Worker, Routine(w)
    PROVE  /\ UNCHANGED SharedVars /\ UNCHANGED reloadVars
           /\ pc[w] \in Running
           /\ PcEffect(w) /\ DriverEffect(w)
<1> USE DEF PcEffect, DriverEffect, SharedVars, Running, Connecting, Dialing, Scanning
<1>i. idx[w] + 1 \in Nat /\ 1 \in Nat
  BY DEF TypeOK
<1>1. CASE Dial(w)
  BY <1>1 DEF TypeOK, Dial, Goto, mgrVars, driverVars
<1>2. CASE GiveUp(w)
  BY <1>2 DEF TypeOK, GiveUp, Return, Goto, mgrVars, driverVars
<1>3. CASE DialOk(w)
  <2>1. CASE pc[w] = "dial"
    BY <1>3, <2>1 DEF TypeOK, DialOk, Goto, mgrVars
  <2>2. CASE pc[w] # "dial"
    BY <1>3, <1>i, <2>2, ScanFromEffect DEF TypeOK, DialOk, mgrVars
  <2> QED BY <2>1, <2>2
<1>4. CASE DialFail(w)
  BY <1>4 DEF TypeOK, DialFail, Goto, mgrVars
<1>5. CASE SelectDone(w)
  BY <1>5 DEF TypeOK, SelectDone, Return, Goto, mgrVars, driverVars
<1>6. CASE Tick(w)
  <2>1. CASE connected[w]
    BY <1>6, <1>i, <2>1, ScanFromEffect DEF TypeOK, Tick, mgrVars, driverVars
  <2>2. CASE ~connected[w]
    BY <1>6, <2>2 DEF TypeOK, Tick, Goto, mgrVars, driverVars
  <2> QED BY <2>1, <2>2
<1>7. CASE ReadGood(w)
  BY <1>7 DEF TypeOK, ReadGood, Goto, mgrVars, driverVars
<1>8. CASE ReadBad(w)
  <2>1. CASE lastQuality[w][TagAt(w)] # "bad"
    BY <1>8, <2>1 DEF TypeOK, ReadBad, Goto, mgrVars, driverVars
  <2>2. CASE lastQuality[w][TagAt(w)] = "bad"
    BY <1>8, <1>i, <2>2, ScanFromEffect DEF TypeOK, ReadBad, mgrVars, driverVars
  <2> QED BY <2>1, <2>2
<1>9. CASE StoreTag(w)
  BY <1>9 DEF TypeOK, StoreTag, Goto, driverVars
<1>10. CASE Notify(w)
  BY <1>10, <1>i, ScanFromEffect DEF TypeOK, Notify, mgrVars, driverVars
<1> QED BY <1>1, <1>2, <1>3, <1>4, <1>5, <1>6, <1>7, <1>8, <1>9, <1>10 DEF Routine, Scan

\* A step of a goroutine keeps the invariant.
LEMMA RoutineInv ==
    ASSUME IndInv, NEW w \in Worker, Routine(w)
    PROVE  IndInv'
<1>t. TypeOK'
  BY RoutineType DEF IndInv
<1>e. /\ UNCHANGED SharedVars /\ UNCHANGED reloadVars
      /\ pc[w] \in Running /\ PcEffect(w) /\ DriverEffect(w)
  BY RoutineEffect DEF IndInv
<1> USE DEF IndInv, SharedVars, reloadVars
<1>1. GenInv'
  BY <1>e DEF GenInv, WithinGenBound, LiveCfg
<1>2. DrainInv'
  BY <1>e DEF DrainInv
<1>3. OwnedInv'
  <2>1. Owned(w)
    BY <1>e DEF OwnedInv
  <2>2. \A v \in Worker: Owned(v) => Owned(v)'
    BY <1>e DEF Owned, Registered, Drained
  <2>3. \A v \in Worker: v # w =>
          pc'[v] = pc[v] /\ connected'[v] = connected[v] /\ session'[v] = session[v]
    BY <1>e DEF PcEffect, DriverEffect, TypeOK
  <2> QED BY <2>1, <2>2, <2>3 DEF OwnedInv
<1>4. SessionInv'
  <2>1. \A v \in Worker: v # w =>
          pc'[v] = pc[v] /\ connected'[v] = connected[v] /\ session'[v] = session[v]
    BY <1>e DEF PcEffect, DriverEffect, TypeOK
  <2>2. session'[w] => connected'[w]
    BY <1>e DEF DriverEffect, TypeOK, SessionInv
  <2>3. pc'[w] \in Connecting \cup Dialing => ~connected'[w]
    BY <1>e DEF DriverEffect, PcEffect, TypeOK, SessionInv
  <2> QED BY <2>1, <2>2, <2>3 DEF SessionInv
<1>5. StartInv'
  BY <1>e DEF StartInv, Running, Connecting, Dialing, Scanning
<1>6. ServedInv'
  <2>1. \A v \in Worker: CtxDone(v)' <=> CtxDone(v)
    BY <1>e DEF CtxDone
  <2>2. \A v \in Worker: Registered(v)' <=> Registered(v)
    BY <1>e DEF Registered
  <2>3. \A v \in Worker: pc'[v] \in Running \/ pc'[v] = pc[v] \/ CtxDone(v)
    BY <1>e DEF PcEffect, TypeOK
  <2> QED BY <1>e, <2>1, <2>2, <2>3 DEF ServedInv
<1> QED BY <1>t, <1>1, <1>2, <1>3, <1>4, <1>5, <1>6

\* The manager is built in a state that satisfies the invariant.
LEMMA InitInv == Init => IndInv
<1> SUFFICES ASSUME Init PROVE IndInv
  OBVIOUS
<1> USE GenAssumption, ConfigAssumption, ContextAssumption, WorkerParts DEF Init
<1>1. TypeOK
  <2>1. live \in [PLC -> GenOrNone] /\ gen \in [PLC -> GenOrNone]
    BY DEF GenOrNone
  <2>2. wcfg \in [Worker -> Cfg \cup {NoCfg}]
    <3>1. \A w \in Worker: InitCfg[w[1]] \in Cfg \cup {NoCfg}
      OBVIOUS
    <3> QED BY <3>1
  <2>3. current \in [PLC -> [Tag -> TagValue]]
    <3>1. Absent \in TagValue
      BY DEF Absent, TagValue, GenOrNone, Quality
    <3> QED BY <3>1
  <2>4. pc \in [Worker -> WorkerPc]
    BY DEF WorkerPc
  <2>5. /\ parent \in [Worker -> Ctx] /\ rctx \in Ctx
        /\ ctxState \in [Ctx -> {"fresh", "live", "cancelled"}]
    BY DEF Ctx
  <2>6. /\ lastQuality \in [Worker -> [Tag -> Quality \cup {"none"}]]
        /\ reading \in [Worker -> Quality]
    BY DEF NoReading, Quality
  <2>7. rcfg \in [PLC -> Cfg \cup {NoCfg}] /\ drained \in [PLC -> GenOrNone]
    BY DEF GenOrNone
  <2>8. /\ cancelled \in [Worker -> BOOLEAN] /\ connected \in [Worker -> BOOLEAN]
        /\ session \in [Worker -> BOOLEAN] /\ idx \in [Worker -> Nat]
        /\ target \in [Writer -> Worker \cup {NoWorker}]
    OBVIOUS
  <2> QED BY <2>1, <2>2, <2>3, <2>4, <2>5, <2>6, <2>7, <2>8 DEF TypeOK
<1>2. GenInv /\ DrainInv
  BY DEF GenInv, DrainInv
<1>3. OwnedInv
  BY DEF OwnedInv, Running, Connecting, Dialing, Scanning
<1>4. SessionInv /\ StartInv
  BY DEF SessionInv, StartInv, Connecting, Dialing
<1>5. ServedInv
  BY DEF ServedInv
<1> QED BY <1>1, <1>2, <1>3, <1>4, <1>5 DEF IndInv

\* Start launches the goroutine of every registered worker.
LEMMA StartStep ==
    ASSUME IndInv, Start
    PROVE  IndInv'
<1> USE DEF IndInv, Start, driverVars, reloadVars
<1>1. TypeOK'
  BY DEF TypeOK, WorkerPc, Running, Connecting
<1>2. GenInv' /\ DrainInv'
  BY DEF GenInv, DrainInv, WithinGenBound, LiveCfg
<1>3. \A w \in Worker: Registered(w)' <=> Registered(w)
  BY DEF Registered
<1>4. OwnedInv'
  BY <1>3 DEF OwnedInv, Owned, Drained
<1>5. SessionInv'
  BY DEF SessionInv, StartInv, Connecting, Dialing
<1>6. StartInv'
  BY DEF StartInv
<1>7. ServedInv'
  BY <1>3 DEF ServedInv, Running, Connecting
<1> QED BY <1>1, <1>2, <1>4, <1>5, <1>6, <1>7

\* Stop cancels the registered workers, all of them launched by then.
LEMMA StopBeginStep ==
    ASSUME IndInv, StopBegin
    PROVE  IndInv'
<1> USE DEF IndInv, StopBegin, driverVars, reloadVars
<1>1. TypeOK'
  BY DEF TypeOK, Registered
<1>2. GenInv' /\ DrainInv'
  BY DEF GenInv, DrainInv, WithinGenBound, LiveCfg
<1>3. \A w \in Worker: (Registered(w)' <=> Registered(w)) /\ (Drained(w)' <=> Drained(w))
  BY DEF Registered, Drained
<1>4. OwnedInv' /\ SessionInv' /\ StartInv'
  BY <1>3 DEF OwnedInv, Owned, SessionInv, StartInv
<1>5. ServedInv'
  <2>1. \A w \in Worker: CtxDone(w) => CtxDone(w)'
    BY DEF CtxDone
  <2>2. \A w \in Worker: Registered(w) => w[2] <= gen[w[1]]
    BY WorkerParts DEF Registered, GenInv
  <2> QED BY <1>3, <2>1, <2>2 DEF ServedInv
<1> QED BY <1>1, <1>2, <1>4, <1>5

\* wg.Wait only moves Stop on.
LEMMA StopWaitedStep ==
    ASSUME IndInv, StopWaited
    PROVE  IndInv'
BY DEF IndInv, StopWaited, mgrVars, routineVars, driverVars, reloadVars, TypeOK,
       GenInv, DrainInv, WithinGenBound, LiveCfg, OwnedInv, Owned, Registered,
       Drained, SessionInv, StartInv, ServedInv, CtxDone

\* Closing the registered drivers disconnects; it never connects.
LEMMA StopCloseStep ==
    ASSUME IndInv, StopClose
    PROVE  IndInv'
<1> USE DEF IndInv, StopClose, mgrVars, routineVars, reloadVars
<1>1. TypeOK'
  BY DEF TypeOK, Registered
<1>2. GenInv' /\ DrainInv'
  BY DEF GenInv, DrainInv, WithinGenBound, LiveCfg
<1>3. \A w \in Worker: (Registered(w)' <=> Registered(w)) /\ (Drained(w)' <=> Drained(w))
  BY DEF Registered, Drained
<1>4. \A w \in Worker: /\ connected'[w] => connected[w]
                       /\ session'[w] => session[w]
                       /\ session'[w] => connected'[w]
  BY DEF SessionInv, TypeOK
<1>5. OwnedInv' /\ SessionInv' /\ StartInv'
  BY <1>3, <1>4 DEF OwnedInv, Owned, SessionInv, StartInv
<1>6. ServedInv'
  BY <1>3 DEF ServedInv, CtxDone
<1> QED BY <1>1, <1>2, <1>5, <1>6

\* Writers, contexts and a lost session leave workers and registry alone.
LEMMA CallerStep ==
    ASSUME IndInv, Environment \/ \E x \in Writer: WriteTag(x)
    PROVE  IndInv'
<1> USE DEF IndInv, mgrVars, routineVars, driverVars, reloadVars
<1>1. ASSUME NEW w \in Worker, DropSession(w) PROVE IndInv'
  <2>1. TypeOK' /\ GenInv' /\ DrainInv' /\ StartInv' /\ ServedInv'
    BY <1>1 DEF DropSession, TypeOK, GenInv, DrainInv, WithinGenBound, LiveCfg,
                StartInv, ServedInv, CtxDone, Registered
  <2>2. \A v \in Worker: session'[v] => session[v]
    BY <1>1 DEF DropSession, TypeOK
  <2>3. OwnedInv' /\ SessionInv'
    BY <1>1, <2>2 DEF DropSession, OwnedInv, Owned, Registered, Drained, SessionInv
  <2> QED BY <2>1, <2>3
<1>2. ASSUME NEW c \in Ctx, CancelCtx(c) PROVE IndInv'
  <2>1. TypeOK' /\ GenInv' /\ DrainInv' /\ StartInv'
    BY <1>2 DEF CancelCtx, TypeOK, GenInv, DrainInv, WithinGenBound, LiveCfg, StartInv
  <2>2. OwnedInv' /\ SessionInv'
    BY <1>2 DEF CancelCtx, OwnedInv, Owned, Registered, Drained, SessionInv
  <2>3. \A w \in Worker: CtxDone(w) => CtxDone(w)'
    BY <1>2 DEF CancelCtx, CtxDone, TypeOK
  <2>4. ctxState[RootCtx] = "cancelled" => ctxState'[RootCtx] = "cancelled"
    BY <1>2 DEF CancelCtx, TypeOK, Ctx
  <2>5. ServedInv'
    BY <1>2, <2>3, <2>4 DEF CancelCtx, ServedInv, Registered
  <2> QED BY <2>1, <2>2, <2>5
<1>3. ASSUME NEW x \in Writer, WriteTag(x) PROVE IndInv'
  <2>1. /\ UNCHANGED <<mgrVars, routineVars, driverVars, reloadVars, ctxState, stopPc>>
        /\ target' \in [Writer -> Worker \cup {NoWorker}]
    <3>1. CASE WriteReturn(x)
      BY <3>1 DEF WriteReturn, TypeOK
    <3>2. CASE \E p \in PLC: WriteLookup(x, p)
      <4>1. PICK p \in PLC: WriteLookup(x, p)
        BY <3>2
      <4>2. <<p, live[p]>> \in Worker
        BY <4>1, GenAssumption DEF WriteLookup, TypeOK, Worker, Gen, GenOrNone
      <4> QED BY <4>1, <4>2 DEF WriteLookup, TypeOK
    <3> QED BY <1>3, <3>1, <3>2 DEF WriteTag, WriteOk, WriteErr
  <2> QED
    BY <2>1 DEF TypeOK, GenInv, DrainInv, WithinGenBound, LiveCfg, OwnedInv, Owned,
                Registered, Drained, SessionInv, StartInv, ServedInv, CtxDone
<1> QED BY <1>1, <1>2, <1>3 DEF Environment

\* Reload starts with nothing drained and within the generation bound.
LEMMA ReloadBeginStep ==
    ASSUME IndInv, NEW c \in Ctx, NEW cfg \in [PLC -> Cfg \cup {NoCfg}],
           ReloadBegin(c, cfg)
    PROVE  IndInv'
<1> USE DEF IndInv, ReloadBegin, mgrVars, routineVars, driverVars
<1>1. TypeOK'
  BY DEF TypeOK
<1>2. GenInv' /\ DrainInv' /\ StartInv'
  BY DEF GenInv, DrainInv, WithinGenBound, LiveCfg, StartInv
<1>3. OwnedInv' /\ SessionInv'
  BY DEF OwnedInv, Owned, Registered, Drained, SessionInv, DrainInv
<1>4. \A w \in Worker: CtxDone(w) => CtxDone(w)'
  BY DEF CtxDone, TypeOK
<1>5. ServedInv'
  BY <1>4 DEF ServedInv, Registered
<1> QED BY <1>1, <1>2, <1>3, <1>5

\* The drained workers pass from m.workers into the hands of this Reload.
LEMMA ReloadDiffStep ==
    ASSUME IndInv, ReloadDiff
    PROVE  IndInv'
<1> USE DEF IndInv, ReloadDiff, driverVars
<1>1. TypeOK'
  <2>1. Absent \in TagValue
    BY GenAssumption DEF Absent, TagValue, GenOrNone, Quality
  <2>2. current' \in [PLC -> [Tag -> TagValue]]
    BY <2>1 DEF TypeOK
  <2>3. live' \in [PLC -> GenOrNone] /\ drained' \in [PLC -> GenOrNone]
    BY GenAssumption DEF TypeOK, GenOrNone
  <2>4. cancelled' \in [Worker -> BOOLEAN]
    BY DEF TypeOK, Registered, MustDrain
  <2> QED BY <2>2, <2>3, <2>4 DEF TypeOK
<1>2. GenInv'
  <2>1. \A p \in PLC: live'[p] <= gen'[p]
    BY GenAssumption DEF GenInv, TypeOK, GenOrNone
  <2>2. \A p \in PLC: rcfg[p] # NoCfg /\ rcfg[p] # LiveCfg(p)' => rcfg[p] # LiveCfg(p)
    BY DEF LiveCfg, MustDrain
  <2> QED BY <2>1, <2>2 DEF GenInv, WithinGenBound
<1>3. DrainInv'
  BY DEF DrainInv
<1>4. \A w \in Worker: Registered(w) => Owned(w)'
  BY WorkerParts DEF Registered, Owned, Drained
<1>5. OwnedInv'
  BY <1>4 DEF OwnedInv, Owned
<1>6. SessionInv' /\ StartInv'
  BY DEF SessionInv, StartInv
<1>7. ServedInv'
  <2>1. \A w \in Worker: Registered(w)' => Registered(w) /\ ~MustDrain(w[1])
    BY WorkerParts DEF Registered, TypeOK, Gen
  <2>2. \A w \in Worker: CtxDone(w) => CtxDone(w)'
    BY DEF CtxDone
  <2>3. \A w \in Worker: Registered(w) => w[2] <= gen[w[1]]
    BY WorkerParts DEF Registered, GenInv
  <2>4. \A w \in Worker: cancelled'[w] => w[2] <= gen[w[1]]
    BY <2>3 DEF ServedInv
  <2>5. \A w \in Worker: cancelled'[w] /\ Registered(w)' => stopped
    BY <2>1 DEF ServedInv
  <2> QED BY <2>1, <2>2, <2>4, <2>5 DEF ServedInv
<1> QED BY <1>1, <1>2, <1>3, <1>5, <1>6, <1>7

\* Closing ends the ownership of the drained workers: their goroutines have
\* ended and their drivers are no longer connected.
LEMMA ReloadCloseStep ==
    ASSUME IndInv, ReloadClose
    PROVE  IndInv'
<1> USE DEF IndInv, ReloadClose, mgrVars, routineVars
<1>1. TypeOK'
  BY GenAssumption DEF TypeOK, Drained, GenOrNone
<1>2. GenInv' /\ DrainInv'
  BY DEF GenInv, DrainInv, WithinGenBound, LiveCfg
<1>3. \A w \in Worker: /\ connected'[w] => connected[w] /\ ~Drained(w)
                       /\ session'[w] => session[w] /\ connected'[w]
  BY DEF SessionInv, TypeOK
<1>4. OwnedInv'
  BY <1>3 DEF OwnedInv, Owned, Registered, Running, Connecting, Dialing, Scanning
<1>5. SessionInv' /\ StartInv'
  BY <1>3 DEF SessionInv, StartInv
<1>6. ServedInv'
  BY DEF ServedInv, CtxDone, Registered
<1> QED BY <1>1, <1>2, <1>4, <1>5, <1>6

\* The worker that Reload adds for a name is within the bound.
LEMMA RoomToAdd ==
    ASSUME IndInv, ReloadAdd
    PROVE  \A p \in PLC: MustAdd(p) => gen[p] < MaxGen /\ gen[p] + 1 \in Gen
<1> USE DEF IndInv, ReloadAdd
<1>1. WithinGenBound(rcfg)
  BY DEF GenInv
<1>2. \A p \in PLC: MustAdd(p) => rcfg[p] # NoCfg /\ rcfg[p] # LiveCfg(p)
  BY DEF MustAdd, LiveCfg
<1>3. \A p \in PLC: MustAdd(p) => gen[p] < MaxGen
  BY <1>1, <1>2 DEF WithinGenBound
<1> QED BY <1>3, GenAssumption DEF TypeOK, Gen, GenOrNone

\* A new worker takes a generation no worker had, so nothing of that
\* generation runs, is connected or is cancelled yet.
LEMMA ReloadAddStep ==
    ASSUME IndInv, ReloadAdd
    PROVE  IndInv'
<1> USE DEF IndInv, ReloadAdd, driverVars
<1>g. \A p \in PLC: MustAdd(p) => gen[p] < MaxGen /\ gen[p] + 1 \in Gen
  BY RoomToAdd
<1>1. TypeOK'
  <2>1. live' \in [PLC -> GenOrNone] /\ gen' \in [PLC -> GenOrNone]
    BY <1>g DEF TypeOK, Gen, GenOrNone
  <2>2. wcfg' \in [Worker -> Cfg \cup {NoCfg}]
    BY WorkerParts DEF TypeOK
  <2>3. parent' \in [Worker -> Ctx] /\ pc' \in [Worker -> WorkerPc]
    BY DEF TypeOK, WorkerPc, Running, Connecting
  <2> QED BY <2>1, <2>2, <2>3 DEF TypeOK
<1>2. GenInv' /\ DrainInv'
  BY GenAssumption DEF GenInv, DrainInv, TypeOK, GenOrNone
<1>3. \A w \in Worker: IsNext(w) => ~Owned(w) /\ Registered(w)'
  BY WorkerParts DEF IsNext, MustAdd, Owned, Registered, Gen
<1>4. \A w \in Worker: ~IsNext(w) => (Registered(w) <=> Registered(w)')
  BY WorkerParts DEF IsNext, MustAdd, Registered, Gen
<1>5. OwnedInv'
  BY <1>3, <1>4 DEF OwnedInv, Owned
<1>6. SessionInv'
  BY <1>3 DEF SessionInv, OwnedInv
<1>7. StartInv'
  BY DEF StartInv
<1>8. ServedInv'
  <2>1. \A w \in Worker: IsNext(w) => ~cancelled[w] /\ pc'[w] \in Running
    BY WorkerParts, GenAssumption DEF IsNext, ServedInv, TypeOK, Gen, GenOrNone, Running, Connecting
  <2>2. \A w \in Worker: ~IsNext(w) => (CtxDone(w)' <=> CtxDone(w)) /\ pc'[w] = pc[w]
    BY DEF CtxDone
  <2>3. \A w \in Worker: gen[w[1]] <= gen'[w[1]]
    BY WorkerParts, GenAssumption DEF TypeOK, GenOrNone
  <2>4. \A w \in Worker: cancelled[w] => w[2] <= gen'[w[1]]
    BY <2>3, <1>1, WorkerParts, GenAssumption DEF ServedInv, TypeOK, Gen, GenOrNone
  <2> QED BY <1>3, <1>4, <2>1, <2>2, <2>4 DEF ServedInv
<1> QED BY <1>1, <1>2, <1>5, <1>6, <1>7, <1>8

\* IndInv is inductive.
LEMMA NextInv == IndInv /\ [Next]_vars => IndInv'
<1> SUFFICES ASSUME IndInv, [Next]_vars PROVE IndInv'
  OBVIOUS
<1>1. CASE Start
  BY <1>1, StartStep
<1>2. CASE Stop
  BY <1>2, StopBeginStep, StopWaitedStep, StopCloseStep DEF Stop
<1>3. CASE Reload
  BY <1>3, ReloadBeginStep, ReloadDiffStep, ReloadCloseStep, ReloadAddStep DEF Reload
<1>4. CASE \E w \in Worker: Routine(w)
  BY <1>4, RoutineInv
<1>5. CASE Environment \/ \E x \in Writer: WriteTag(x)
  BY <1>5, CallerStep
<1>6. CASE UNCHANGED vars
  BY <1>6 DEF vars, mgrVars, routineVars, driverVars, reloadVars, IndInv, TypeOK,
              GenInv, DrainInv, WithinGenBound, LiveCfg, OwnedInv, Owned, Registered,
              Drained, SessionInv, StartInv, ServedInv, CtxDone
<1> QED BY <1>1, <1>2, <1>3, <1>4, <1>5, <1>6 DEF Next

\* The inductive invariant holds in every reachable state.
LEMMA InvHolds == Spec => []IndInv
BY InitInv, NextInv, PTL DEF Spec

-----------------------------------------------------------------------------
\* Every variable keeps its type in every run of the manager, for any number
\* of PLCs, configurations, requests and writers.
THEOREM TypeCorrect == Spec => []TypeOK
<1>1. IndInv => TypeOK
  BY DEF IndInv
<1> QED BY <1>1, InvHolds, PTL

\* Two goroutines never serve the same PLC name at the same time, however
\* Start, Stop, Reload and slow dials interleave.
THEOREM OneRoutine == Spec => []OneRoutinePerPLC
<1>1. IndInv => OneRoutinePerPLC
  <2> SUFFICES ASSUME IndInv, NEW p \in PLC, NEW g \in Gen, NEW h \in Gen,
                      pc[<<p, g>>] \in Running, pc[<<p, h>>] \in Running
               PROVE  g = h
    BY DEF OneRoutinePerPLC
  <2>1. Owned(<<p, g>>) /\ Owned(<<p, h>>)
    BY WorkerParts DEF IndInv, OwnedInv
  <2> QED BY <2>1 DEF IndInv, Owned, Registered, Drained, DrainInv, Gen
<1> QED BY <1>1, InvHolds, PTL

\* A driver that is connected is registered or about to be closed by the
\* Reload that unregistered it: no connection is ever leaked.
THEOREM ConnectionsOwned == Spec => []NoLeakedConnection
<1>1. IndInv => NoLeakedConnection
  BY DEF IndInv, OwnedInv, Owned, NoLeakedConnection
<1> QED BY <1>1, InvHolds, PTL

\* A registered worker under the server's context keeps its goroutine until
\* the server's context is cancelled.
THEOREM Served == Spec => []RegisteredIsServed
<1>1. IndInv => RegisteredIsServed
  BY DEF IndInv, ServedInv, RegisteredIsServed, CtxDone
<1> QED BY <1>1, InvHolds, PTL

-----------------------------------------------------------------------------
(***************************************************************************)
(* Reload implements PlcRegistry.  What the registry sees changes only in   *)
(* Reload's own steps; between its two m.mu sections nobody registers a     *)
(* worker, so whatever is still registered runs what Reload was given.      *)
(***************************************************************************)

regView == <<live, wcfg, rcfg, rpc>>

\* Goroutines, Start, Stop, writers and contexts do not touch the registry.
LEMMA OtherSteps ==
    ASSUME [Next]_vars, ~Reload
    PROVE  UNCHANGED regView
<1> USE DEF regView, mgrVars, routineVars, driverVars, reloadVars
<1>1. CASE Start
  BY <1>1 DEF Start
<1>2. CASE Stop
  BY <1>2 DEF Stop, StopBegin, StopWaited, StopClose
<1>3. ASSUME NEW w \in Worker, Routine(w) PROVE UNCHANGED regView
  BY <1>3 DEF Routine, Scan, Dial, GiveUp, DialOk, DialFail, SelectDone, Tick, ReadGood,
              ReadBad, StoreTag, Notify, Return
<1>4. ASSUME NEW x \in Writer, WriteTag(x) PROVE UNCHANGED regView
  BY <1>4 DEF WriteTag, WriteOk, WriteErr, WriteReturn, WriteLookup
<1>5. CASE Environment
  BY <1>5 DEF Environment, DropSession, CancelCtx
<1>6. CASE UNCHANGED vars
  BY <1>6 DEF vars
<1> QED BY <1>1, <1>2, <1>3, <1>4, <1>5, <1>6 DEF Next

\* After the first section, registered names run what Reload was given.
DiffInv ==
    rpc \in {"wait", "add"} => \A p \in PLC: live[p] # 0 => LiveCfg(p) = rcfg[p]

\* DiffInv is inductive relative to IndInv.
LEMMA DiffStep == IndInv /\ DiffInv /\ [Next]_vars => DiffInv'
<1> SUFFICES ASSUME IndInv, DiffInv, [Next]_vars PROVE DiffInv'
  OBVIOUS
<1>1. CASE ~Reload
  BY <1>1, OtherSteps DEF DiffInv, regView, LiveCfg
<1>2. CASE \E c \in Ctx, cfg \in [PLC -> Cfg \cup {NoCfg}]: ReloadBegin(c, cfg)
  BY <1>2 DEF DiffInv, ReloadBegin
<1>3. CASE ReloadDiff
  BY <1>3 DEF DiffInv, ReloadDiff, LiveCfg, MustDrain, IndInv, TypeOK
<1>4. CASE ReloadClose
  BY <1>4 DEF DiffInv, ReloadClose, LiveCfg, mgrVars
<1>5. CASE ReloadAdd
  BY <1>5 DEF DiffInv, ReloadAdd
<1> QED BY <1>1, <1>2, <1>3, <1>4, <1>5 DEF Reload

\* The first section is the registry's Unregister.
LEMMA DiffIsUnregister ==
    ASSUME IndInv, ReloadDiff
    PROVE  Registry!Unregister
<1>1. \A p \in PLC: LiveCfg(p)' = IF LiveCfg(p) = rcfg[p] THEN LiveCfg(p) ELSE NoCfg
  BY DEF ReloadDiff, LiveCfg, MustDrain, IndInv, TypeOK
<1> QED BY <1>1 DEF ReloadDiff, Registry!Unregister

\* The second section is the registry's Register.
LEMMA AddIsRegister ==
    ASSUME IndInv, DiffInv, ReloadAdd
    PROVE  Registry!Register
<1> SUFFICES \A p \in PLC: LiveCfg(p)' = rcfg[p]
  BY DEF ReloadAdd, Registry!Register, IndInv, TypeOK
<1> SUFFICES ASSUME NEW p \in PLC PROVE LiveCfg(p)' = rcfg[p]
  OBVIOUS
<1>1. CASE MustAdd(p)
  <2>1. gen[p] \in Nat
    BY DEF IndInv, TypeOK, GenOrNone
  <2>2. gen[p] + 1 \in Gen /\ <<p, gen[p] + 1>> \in Worker
    BY <1>1, RoomToAdd, WorkerParts
  <2>3. live'[p] = gen[p] + 1 /\ IsNext(<<p, gen[p] + 1>>)
    BY <1>1, <2>2 DEF ReloadAdd, IsNext
  <2>4. wcfg'[<<p, gen[p] + 1>>] = rcfg[p]
    BY <2>2, <2>3 DEF ReloadAdd
  <2> QED BY <2>1, <2>3, <2>4 DEF LiveCfg
<1>2. CASE ~MustAdd(p) /\ live[p] = 0
  BY <1>2 DEF ReloadAdd, MustAdd, LiveCfg
<1>3. CASE ~MustAdd(p) /\ live[p] # 0
  <2>1. live[p] \in Gen /\ <<p, live[p]>> \in Worker
    BY <1>3, WorkerParts DEF IndInv, TypeOK, GenOrNone, Gen
  <2>2. ~IsNext(<<p, live[p]>>)
    BY <1>3 DEF IsNext, MustAdd
  <2>3. live'[p] = live[p] /\ wcfg'[<<p, live[p]>>] = wcfg[<<p, live[p]>>]
    BY <1>3, <2>1, <2>2 DEF ReloadAdd
  <2>4. LiveCfg(p) = rcfg[p]
    BY <1>3 DEF DiffInv, ReloadAdd
  <2> QED BY <1>3, <2>3, <2>4 DEF LiveCfg
<1> QED BY <1>1, <1>2, <1>3

\* Every run of the manager is, for the callers of Reload, a run of the
\* abstract registry: a Reload ends with exactly the configuration it was
\* given and never interrupts a PLC whose configuration does not change.
THEOREM RegistryImplemented == Spec => ImplementsRegistry
<1>1. Init => Registry!Init
  <2> SUFFICES ASSUME Init PROVE Registry!Init
    OBVIOUS
  <2>1. \A p \in PLC: LiveCfg(p) = InitCfg[p]
    <3> SUFFICES ASSUME NEW p \in PLC PROVE LiveCfg(p) = InitCfg[p]
      OBVIOUS
    <3>1. <<p, 1>> \in Worker
      BY GenAssumption, WorkerParts DEF Gen
    <3>2. wcfg[<<p, 1>>] = InitCfg[p]
      BY <3>1 DEF Init
    <3>3. live[p] = IF InitCfg[p] = NoCfg THEN 0 ELSE 1
      BY DEF Init
    <3> QED BY <3>2, <3>3 DEF LiveCfg
  <2> QED BY <2>1, ConfigAssumption DEF Init, Registry!Init
<1>2. Init => DiffInv
  BY DEF Init, DiffInv
<1>3. IndInv /\ DiffInv /\ [Next]_vars => [Registry!Next]_(Registry!regVars)
  <2> SUFFICES ASSUME IndInv, DiffInv, [Next]_vars
               PROVE  [Registry!Next]_(Registry!regVars)
    OBVIOUS
  <2>1. CASE ~Reload
    BY <2>1, OtherSteps DEF regView, Registry!regVars, LiveCfg
  <2>2. ASSUME NEW c \in Ctx, NEW cfg \in [PLC -> Cfg \cup {NoCfg}], ReloadBegin(c, cfg)
        PROVE  Registry!Next
    <3>1. Registry!Begin(cfg)
      BY <2>2 DEF ReloadBegin, Registry!Begin, LiveCfg, mgrVars
    <3> QED BY <3>1 DEF Registry!Next
  <2>3. CASE ReloadDiff
    BY <2>3, DiffIsUnregister DEF Registry!Next
  <2>4. CASE ReloadClose
    BY <2>4 DEF ReloadClose, Registry!regVars, LiveCfg, mgrVars
  <2>5. CASE ReloadAdd
    BY <2>5, AddIsRegister DEF Registry!Next
  <2> QED BY <2>1, <2>2, <2>3, <2>4, <2>5 DEF Reload
<1> QED BY <1>1, <1>2, <1>3, DiffStep, InvHolds, PTL DEF Spec, ImplementsRegistry, Registry!Spec

-----------------------------------------------------------------------------
(***************************************************************************)
(* Readings.  A name has one running goroutine, so the tag store of a      *)
(* registered PLC has one writer, and the workers before it are older.     *)
(***************************************************************************)

\* What a worker may overwrite is not newer than its own reading.
ReadingInv ==
    /\ \A p \in PLC: drained[p] <= gen[p]
    /\ \A p \in PLC, t \in Tag: current[p][t].gen <= gen[p]
    /\ \A w \in Worker, t \in Tag: Owned(w) => current[w[1]][t].gen <= w[2]

\* The goroutine is between storeTag and its lastQuality for tag t.
Notifying(w, t) == pc[w] = "notify" /\ t = TagAt(w)

\* lastQuality is a local of the goroutine, and what it holds for a tag is
\* what the goroutine stored last, except while it notifies.
PublishInv ==
    /\ \A w \in Worker: pc[w] \notin Running => lastQuality[w] = NoReading
    /\ \A w \in Worker, t \in Tag: Registered(w) /\ Notifying(w, t) =>
          current[w[1]][t] = [gen |-> w[2], quality |-> reading[w]]
    /\ \A w \in Worker, t \in Tag: Registered(w) /\ ~Notifying(w, t) /\ lastQuality[w][t] # "none" =>
          current[w[1]][t] = [gen |-> w[2], quality |-> lastQuality[w][t]]

\* After wg.Wait a goroutine under the server's context is a new one whose
\* context is done, and after Stop only a Reload has such a driver open.
QuietInv ==
    /\ stopped /\ stopPc # "wait" =>
          \A w \in Worker: parent[w] = RootCtx => pc[w] \notin Running \ Connecting
    /\ stopped /\ stopPc = "idle" =>
          \A w \in Worker: parent[w] = RootCtx /\ connected[w] => rpc = "wait" /\ Drained(w)

-----------------------------------------------------------------------------
\* A name has at most one owned worker.
LEMMA OneOwner ==
    ASSUME IndInv, NEW v \in Worker, NEW w \in Worker, Owned(v), Owned(w), v[1] = w[1]
    PROVE  v = w
<1>1. v[1] \in PLC /\ v[2] \in Gen /\ w[2] \in Gen /\ v = <<v[1], v[2]>> /\ w = <<w[1], w[2]>>
  BY WorkerParts
<1>2. v[2] = w[2]
  BY <1>1 DEF IndInv, Owned, Registered, Drained, DrainInv, Gen
<1> QED BY <1>1, <1>2

\* storeTag writes one reading.
LEMMA StoreEffect ==
    ASSUME TypeOK, NEW w \in Worker, StoreTag(w), NEW p \in PLC, NEW t \in Tag
    PROVE  current'[p][t] = IF p = w[1] /\ t = TagAt(w)
                            THEN [gen |-> w[2], quality |-> reading[w]] ELSE current[p][t]
<1>1. current'[p] = IF p = w[1] THEN [current[p] EXCEPT ![TagAt(w)] =
                                        [gen |-> w[2], quality |-> reading[w]]] ELSE current[p]
  BY WorkerParts DEF TypeOK, StoreTag
<1>2. current[p] \in [Tag -> TagValue]
  BY DEF TypeOK
<1> QED BY <1>1, <1>2

LEMMA StoreGen ==
    ASSUME IndInv, NEW w \in Worker, StoreTag(w), NEW p \in PLC, NEW t \in Tag
    PROVE  current'[p][t].gen = IF p = w[1] /\ t = TagAt(w) THEN w[2] ELSE current[p][t].gen
<1>1. TypeOK
  BY DEF IndInv
<1>2. current'[p][t] = IF p = w[1] /\ t = TagAt(w)
                       THEN [gen |-> w[2], quality |-> reading[w]] ELSE current[p][t]
  BY <1>1, StoreEffect
<1> QED BY <1>2

readView == <<live, gen, current, drained, rpc>>

\* Nobody but storeTag and Reload touches the tag store and the registry.
LEMMA ReadOther ==
    ASSUME [Next]_vars, ~Reload, ~ \E w \in Worker: StoreTag(w)
    PROVE  UNCHANGED readView
<1> USE DEF readView, mgrVars, routineVars, driverVars, reloadVars
<1>1. CASE Start
  BY <1>1 DEF Start
<1>2. CASE Stop
  BY <1>2 DEF Stop, StopBegin, StopWaited, StopClose
<1>3. ASSUME NEW w \in Worker, Routine(w) PROVE UNCHANGED readView
  BY <1>3 DEF Routine, Scan, Dial, GiveUp, DialOk, DialFail, SelectDone, Tick, ReadGood,
              ReadBad, Notify, Return
<1>4. ASSUME NEW x \in Writer, WriteTag(x) PROVE UNCHANGED readView
  BY <1>4 DEF WriteTag, WriteOk, WriteErr, WriteReturn, WriteLookup
<1>5. CASE Environment
  BY <1>5 DEF Environment, DropSession, CancelCtx
<1>6. CASE UNCHANGED vars
  BY <1>6 DEF vars
<1> QED BY <1>1, <1>2, <1>3, <1>4, <1>5, <1>6 DEF Next

\* Generations are numbers.
LEMMA ReadingNat ==
    ASSUME TypeOK
    PROVE  /\ \A p \in PLC: live[p] \in Nat /\ gen[p] \in Nat /\ drained[p] \in Nat
           /\ \A p \in PLC, t \in Tag: current[p][t].gen \in Nat
           /\ \A w \in Worker: w[1] \in PLC /\ w[2] \in Nat /\ w[2] # 0
BY GenAssumption, WorkerParts DEF TypeOK, TagValue, GenOrNone, Gen

\* Whoever stores a reading owns its PLC, and its generation is in use.
LEMMA StoreOwned ==
    ASSUME IndInv, ReadingInv, NEW w \in Worker, StoreTag(w)
    PROVE  Owned(w) /\ w[2] <= gen[w[1]]
<1>1. Owned(w)
  BY DEF StoreTag, IndInv, OwnedInv, Running, Scanning
<1>2. w[1] \in PLC
  BY WorkerParts
<1> QED BY <1>1, <1>2 DEF Owned, Registered, Drained, ReadingInv, IndInv, GenInv

LEMMA ReadingStep == IndInv /\ ReadingInv /\ [Next]_vars => ReadingInv'
<1> SUFFICES ASSUME IndInv, ReadingInv, [Next]_vars PROVE ReadingInv'
  OBVIOUS
<1>0. /\ \A p \in PLC: live[p] \in Nat /\ gen[p] \in Nat /\ drained[p] \in Nat
      /\ \A p \in PLC, t \in Tag: current[p][t].gen \in Nat
      /\ \A w \in Worker: w[1] \in PLC /\ w[2] \in Nat /\ w[2] # 0
  BY ReadingNat DEF IndInv
<1>1. CASE ~Reload /\ ~ \E w \in Worker: StoreTag(w)
  BY <1>1, ReadOther DEF readView, ReadingInv, Owned, Registered, Drained
<1>2. ASSUME NEW w \in Worker, StoreTag(w) PROVE ReadingInv'
  <2>1. Owned(w) /\ w[2] <= gen[w[1]]
    BY <1>2, StoreOwned
  <2>2. UNCHANGED <<live, gen, drained, rpc>>
    BY <1>2 DEF StoreTag, reloadVars
  <2>3. \A p \in PLC, t \in Tag:
          current'[p][t].gen = IF p = w[1] /\ t = TagAt(w) THEN w[2] ELSE current[p][t].gen
    BY <1>2, StoreGen
  <2>4. \A v \in Worker: Owned(v)' => Owned(v)
    BY <2>2 DEF Owned, Registered, Drained
  <2>5. \A p \in PLC, t \in Tag: current'[p][t].gen <= gen'[p]
    BY <2>1, <2>2, <2>3 DEF ReadingInv
  <2>6. \A v \in Worker, t \in Tag: Owned(v)' => current'[v[1]][t].gen <= v[2]
    BY <1>0, <2>1, <2>3, <2>4, OneOwner DEF ReadingInv
  <2> QED BY <2>2, <2>5, <2>6 DEF ReadingInv
<1>3. ASSUME NEW c \in Ctx, NEW cfg \in [PLC -> Cfg \cup {NoCfg}], ReloadBegin(c, cfg)
      PROVE  ReadingInv'
  BY <1>3 DEF ReloadBegin, mgrVars, ReadingInv, Owned, Registered, Drained
<1>4. CASE ReloadDiff
  <2>1. \A p \in PLC: /\ drained'[p] = (IF MustDrain(p) THEN live[p] ELSE 0)
                      /\ live'[p] = (IF MustDrain(p) THEN 0 ELSE live[p])
                      /\ gen'[p] = gen[p]
    BY <1>4 DEF ReloadDiff
  <2>2. \A p \in PLC, t \in Tag: current'[p][t] = IF MustDrain(p) THEN Absent ELSE current[p][t]
    BY <1>4 DEF ReloadDiff
  <2>3. Absent.gen = 0
    BY DEF Absent
  <2>4. \A p \in PLC: drained'[p] <= gen'[p]
    BY <1>0, <2>1 DEF IndInv, GenInv
  <2>5. \A p \in PLC, t \in Tag: current'[p][t].gen <= gen'[p]
    BY <1>0, <2>1, <2>2, <2>3 DEF ReadingInv
  <2>6. \A w \in Worker: Owned(w)' => Registered(w)
    BY <1>0, <2>1 DEF Owned, Registered, Drained
  <2>7. \A w \in Worker, t \in Tag: Owned(w)' => current'[w[1]][t].gen <= w[2]
    BY <1>0, <2>2, <2>3, <2>6 DEF ReadingInv, Owned
  <2> QED BY <2>4, <2>5, <2>7 DEF ReadingInv
<1>5. CASE ReloadClose
  <2>1. /\ UNCHANGED <<live, gen, current>> /\ drained' = [p \in PLC |-> 0] /\ rpc' = "add"
    BY <1>5 DEF ReloadClose, mgrVars
  <2> QED BY <1>0, <2>1 DEF ReadingInv, Owned, Registered
<1>6. CASE ReloadAdd
  <2>1. \A p \in PLC: /\ live'[p] = (IF MustAdd(p) THEN gen[p] + 1 ELSE live[p])
                      /\ gen'[p] = (IF MustAdd(p) THEN gen[p] + 1 ELSE gen[p])
    BY <1>6 DEF ReloadAdd
  <2>2. UNCHANGED <<current, drained>> /\ rpc' = "idle"
    BY <1>6 DEF ReloadAdd
  <2>3. \A p \in PLC: gen[p] <= gen'[p] /\ gen'[p] \in Nat
    BY <1>0, <2>1
  <2>4. /\ \A p \in PLC: drained'[p] <= gen'[p]
        /\ \A p \in PLC, t \in Tag: current'[p][t].gen <= gen'[p]
    BY <1>0, <2>2, <2>3 DEF ReadingInv
  <2>5. ASSUME NEW w \in Worker, NEW t \in Tag, Owned(w)' PROVE current'[w[1]][t].gen <= w[2]
    <3>1. live'[w[1]] = w[2]
      BY <2>2, <2>5 DEF Owned, Registered
    <3>2. CASE MustAdd(w[1])
      BY <1>0, <2>1, <2>2, <3>1, <3>2 DEF ReadingInv
    <3>3. CASE ~MustAdd(w[1])
      BY <1>0, <2>1, <2>2, <3>1, <3>3 DEF ReadingInv, Owned, Registered
    <3> QED BY <3>2, <3>3
  <2> QED BY <2>4, <2>5 DEF ReadingInv
<1> QED BY <1>1, <1>2, <1>3, <1>4, <1>5, <1>6 DEF Reload

\* The tag store starts empty.
LEMMA InitReading == Init => ReadingInv
<1> SUFFICES ASSUME Init PROVE ReadingInv
  OBVIOUS
<1>1. Absent.gen = 0
  BY DEF Absent
<1>2. \A p \in PLC, t \in Tag: current[p][t].gen = 0
  BY <1>1 DEF Init
<1>3. \A p \in PLC: drained[p] = 0 /\ gen[p] \in Nat
  BY DEF Init
<1>4. \A w \in Worker: w[1] \in PLC /\ w[2] \in Nat
  BY WorkerParts, GenAssumption DEF Gen
<1> QED BY <1>2, <1>3, <1>4 DEF ReadingInv

\* A stored reading is never replaced by the reading of an older worker.
THEOREM NewerReadings == Spec => NeverOlderReading
<1>1. IndInv /\ ReadingInv /\ [Next]_vars =>
        [\A p \in PLC, t \in Tag:
            current'[p][t].gen = 0 \/ current'[p][t].gen >= current[p][t].gen]_vars
  <2> SUFFICES ASSUME IndInv, ReadingInv, [Next]_vars, NEW p \in PLC, NEW t \in Tag
               PROVE  current'[p][t].gen = 0 \/ current'[p][t].gen >= current[p][t].gen
    OBVIOUS
  <2>0. current[p][t].gen \in Nat /\ Absent.gen = 0
    BY ReadingNat DEF IndInv, Absent
  <2>1. CASE ~Reload /\ ~ \E w \in Worker: StoreTag(w)
    BY <2>0, <2>1, ReadOther DEF readView
  <2>2. ASSUME NEW w \in Worker, StoreTag(w) PROVE current'[p][t].gen >= current[p][t].gen
    <3>1. Owned(w) /\ w[2] \in Nat
      BY <2>2, StoreOwned, ReadingNat DEF IndInv
    <3>2. current'[p][t].gen = IF p = w[1] /\ t = TagAt(w) THEN w[2] ELSE current[p][t].gen
      BY <2>2, StoreGen
    <3> QED BY <2>0, <3>1, <3>2 DEF ReadingInv
  <2>3. CASE ReloadDiff
    BY <2>0, <2>3 DEF ReloadDiff
  <2>4. CASE Reload /\ ~ReloadDiff
    <3>1. ReloadClose \/ ReloadAdd \/ \E c \in Ctx, cfg \in [PLC -> Cfg \cup {NoCfg}]: ReloadBegin(c, cfg)
      BY <2>4 DEF Reload
    <3>2. ASSUME NEW c, NEW cfg, ReloadBegin(c, cfg) PROVE UNCHANGED current
      BY <3>2 DEF ReloadBegin, mgrVars
    <3>3. ReloadClose \/ ReloadAdd => UNCHANGED current
      BY DEF ReloadClose, ReloadAdd, mgrVars
    <3>4. UNCHANGED current
      BY <3>1, <3>2, <3>3
    <3> QED BY <2>0, <3>4
  <2> QED BY <2>1, <2>2, <2>3, <2>4
<1> QED BY <1>1, InitReading, ReadingStep, InvHolds, PTL DEF Spec, NeverOlderReading

-----------------------------------------------------------------------------
(* Qualities. *)

\* What goroutine w leaves alone: the other goroutines, and the tag store
\* unless it stores.
LEMMA RoutineLocal ==
    ASSUME TypeOK, NEW w \in Worker, Routine(w)
    PROVE  /\ UNCHANGED <<live, wcfg, stopPc>>
           /\ \A v \in Worker: v # w => /\ pc'[v] = pc[v] /\ idx'[v] = idx[v]
                                        /\ lastQuality'[v] = lastQuality[v] /\ reading'[v] = reading[v]
           /\ ~StoreTag(w) => UNCHANGED current
<1>s. \A i: ScanFrom(w, i) => \E l, j: /\ pc' = [pc EXCEPT ![w] = l] /\ idx' = [idx EXCEPT ![w] = j]
  BY DEF ScanFrom, Goto
<1>t. /\ pc \in [Worker -> WorkerPc] /\ idx \in [Worker -> Nat]
      /\ lastQuality \in [Worker -> [Tag -> Quality \cup {"none"}]] /\ reading \in [Worker -> Quality]
  BY DEF TypeOK
<1> USE DEF Goto, mgrVars
<1>1. CASE Dial(w)
  BY <1>1, <1>t DEF Dial
<1>2. CASE GiveUp(w) \/ SelectDone(w)
  BY <1>2, <1>t DEF GiveUp, SelectDone, Return
<1>3. CASE DialOk(w)
  BY <1>3, <1>s, <1>t DEF DialOk
<1>4. CASE DialFail(w)
  BY <1>4, <1>t DEF DialFail
<1>5. CASE Tick(w)
  BY <1>5, <1>s, <1>t DEF Tick
<1>6. CASE ReadGood(w)
  BY <1>6, <1>t DEF ReadGood
<1>7. CASE ReadBad(w)
  BY <1>7, <1>s, <1>t DEF ReadBad
<1>8. CASE StoreTag(w)
  BY <1>8, <1>t DEF StoreTag
<1>9. CASE Notify(w)
  BY <1>9, <1>s, <1>t DEF Notify
<1> QED BY <1>1, <1>2, <1>3, <1>4, <1>5, <1>6, <1>7, <1>8, <1>9 DEF Routine, Scan

\* Nobody else stores readings of a registered PLC.
LEMMA OthersReadings ==
    ASSUME IndInv, NEW w \in Worker, Routine(w), NEW v \in Worker, v # w, Registered(v), NEW t \in Tag
    PROVE  current'[v[1]][t] = current[v[1]][t]
<1>0. TypeOK /\ v[1] \in PLC
  BY WorkerParts DEF IndInv
<1>1. CASE ~StoreTag(w)
  BY <1>0, <1>1, RoutineLocal
<1>2. CASE StoreTag(w)
  <2>1. Owned(w) /\ Owned(v)
    BY <1>2 DEF StoreTag, IndInv, OwnedInv, Owned, Running, Scanning
  <2>2. v[1] # w[1]
    BY <2>1, OneOwner
  <2> QED BY <1>0, <1>2, <2>2, StoreEffect
<1> QED BY <1>1, <1>2

\* The readings of goroutine w itself, after a step that does not notify.
LEMMA RoutineOwn ==
    ASSUME IndInv, PublishInv, NEW w \in Worker, Routine(w)
    PROVE  /\ pc'[w] \notin Running => lastQuality'[w] = NoReading
           /\ \A t \in Tag: Registered(w) /\ Notifying(w, t)' =>
                 current'[w[1]][t] = [gen |-> w[2], quality |-> reading'[w]]
           /\ \A t \in Tag: Registered(w) /\ ~Notifying(w, t)' /\ lastQuality'[w][t] # "none" =>
                 current'[w[1]][t] = [gen |-> w[2], quality |-> lastQuality'[w][t]]
<1>t. /\ TypeOK /\ w[1] \in PLC /\ pc \in [Worker -> WorkerPc]
      /\ lastQuality \in [Worker -> [Tag -> Quality \cup {"none"}]] /\ reading \in [Worker -> Quality]
      /\ NoReading \in [Tag -> Quality \cup {"none"}] /\ \A t \in Tag: NoReading[t] = "none"
  BY WorkerParts DEF IndInv, TypeOK, NoReading
<1>s. \A i: ScanFrom(w, i) => pc'[w] \in {"read", "select"}
  BY <1>t DEF ScanFrom, Goto
<1>1. CASE GiveUp(w) \/ SelectDone(w)
  <2>1. pc'[w] = "exited" /\ lastQuality'[w] = NoReading
    BY <1>1, <1>t DEF GiveUp, SelectDone, Return, Goto
  <2> QED BY <1>t, <2>1 DEF Notifying
<1>2. CASE StoreTag(w)
  <2>1. /\ pc[w] = "store" /\ pc'[w] = "notify" /\ UNCHANGED <<lastQuality, reading, wcfg, idx>>
    BY <1>2, <1>t DEF StoreTag, Goto
  <2>2. TagAt(w)' = TagAt(w)
    BY <2>1 DEF TagAt
  <2>3. pc'[w] \in Running
    BY <2>1 DEF Running, Scanning
  <2>4. \A t \in Tag: current'[w[1]][t] = IF t = TagAt(w) THEN [gen |-> w[2], quality |-> reading[w]]
                                          ELSE current[w[1]][t]
    BY <1>2, <1>t, StoreEffect
  <2>5. \A t \in Tag: Notifying(w, t)' <=> t = TagAt(w)
    BY <2>1, <2>2 DEF Notifying
  <2>6. \A t \in Tag: ~Notifying(w, t)
    BY <2>1 DEF Notifying
  <2> QED BY <2>1, <2>3, <2>4, <2>5, <2>6 DEF PublishInv
<1>3. CASE Notify(w)
  <2>1. /\ pc[w] = "notify" /\ UNCHANGED <<reading, current>> /\ pc'[w] \in {"read", "select"}
        /\ lastQuality' = [lastQuality EXCEPT ![w][TagAt(w)] = reading[w]]
    BY <1>3, <1>s DEF Notify, mgrVars
  <2>2. \A t \in Tag: lastQuality'[w][t] = IF t = TagAt(w) THEN reading[w] ELSE lastQuality[w][t]
    BY <1>t, <2>1
  <2>3. pc'[w] \in Running
    BY <2>1 DEF Running, Scanning
  <2>4. \A t \in Tag: ~Notifying(w, t)' /\ (Notifying(w, t) <=> t = TagAt(w))
    BY <2>1 DEF Notifying
  <2> QED BY <2>1, <2>2, <2>3, <2>4 DEF PublishInv
<1>4. CASE Dial(w) \/ DialOk(w) \/ DialFail(w) \/ Tick(w) \/ ReadGood(w) \/ ReadBad(w)
  <2>1. pc[w] # "notify" /\ UNCHANGED <<current, lastQuality>>
    BY <1>4 DEF Dial, DialOk, DialFail, Tick, ReadGood, ReadBad, Connecting, Dialing, mgrVars
  <2>2. pc'[w] \in Running /\ pc'[w] # "notify"
    <3> USE <1>t, <1>s DEF Goto, Running, Connecting, Dialing, Scanning
    <3>1. CASE Dial(w)
      BY <3>1 DEF Dial
    <3>2. CASE DialOk(w)
      BY <3>2 DEF DialOk
    <3>3. CASE DialFail(w)
      BY <3>3 DEF DialFail
    <3>4. CASE Tick(w)
      BY <3>4 DEF Tick
    <3>5. CASE ReadGood(w)
      BY <3>5 DEF ReadGood
    <3>6. CASE ReadBad(w)
      BY <3>6 DEF ReadBad
    <3> QED BY <1>4, <3>1, <3>2, <3>3, <3>4, <3>5, <3>6
  <2>3. \A t \in Tag: ~Notifying(w, t) /\ ~Notifying(w, t)'
    BY <2>1, <2>2 DEF Notifying
  <2> QED BY <2>1, <2>2, <2>3 DEF PublishInv
<1> QED BY <1>1, <1>2, <1>3, <1>4 DEF Routine, Scan

LEMMA PublishRoutine ==
    ASSUME IndInv, PublishInv, NEW w \in Worker, Routine(w)
    PROVE  PublishInv'
<1>0. TypeOK
  BY DEF IndInv
<1>1. /\ UNCHANGED <<live, wcfg>>
      /\ \A v \in Worker: v # w => /\ pc'[v] = pc[v] /\ idx'[v] = idx[v]
                                   /\ lastQuality'[v] = lastQuality[v] /\ reading'[v] = reading[v]
  BY <1>0, RoutineLocal
<1>2. \A v \in Worker: Registered(v)' <=> Registered(v)
  BY <1>1 DEF Registered
<1>3. \A v \in Worker: v # w => \A t \in Tag: Notifying(v, t)' <=> Notifying(v, t)
  BY <1>1 DEF Notifying, TagAt
<1>4. \A v \in Worker, t \in Tag: v # w /\ Registered(v) => current'[v[1]][t] = current[v[1]][t]
  BY OthersReadings
<1>5. \A v \in Worker: pc'[v] \notin Running => lastQuality'[v] = NoReading
  BY <1>1, RoutineOwn DEF PublishInv
<1>6. ASSUME NEW v \in Worker, NEW t \in Tag, Registered(v)', Notifying(v, t)'
      PROVE  current'[v[1]][t] = [gen |-> v[2], quality |-> reading'[v]]
  <2>1. CASE v = w
    BY <1>2, <1>6, <2>1, RoutineOwn
  <2>2. CASE v # w
    BY <1>1, <1>2, <1>3, <1>4, <1>6, <2>2 DEF PublishInv
  <2> QED BY <2>1, <2>2
<1>7. ASSUME NEW v \in Worker, NEW t \in Tag, Registered(v)', ~Notifying(v, t)', lastQuality'[v][t] # "none"
      PROVE  current'[v[1]][t] = [gen |-> v[2], quality |-> lastQuality'[v][t]]
  <2>1. CASE v = w
    BY <1>2, <1>7, <2>1, RoutineOwn
  <2>2. CASE v # w
    BY <1>1, <1>2, <1>3, <1>4, <1>7, <2>2 DEF PublishInv
  <2> QED BY <2>1, <2>2
<1> QED BY <1>5, <1>6, <1>7 DEF PublishInv

pubView == <<live, current, wcfg, pc, idx, lastQuality, reading>>

\* Readings that nobody touches stay published.
LEMMA PublishStutter ==
    ASSUME PublishInv, UNCHANGED pubView
    PROVE  PublishInv'
BY DEF pubView, PublishInv, Registered, Notifying, TagAt

LEMMA PublishStep == IndInv /\ PublishInv /\ [Next]_vars => PublishInv'
<1> SUFFICES ASSUME IndInv, PublishInv, [Next]_vars PROVE PublishInv'
  OBVIOUS
<1> USE DEF mgrVars, routineVars
<1>0. /\ \A w \in Worker: w[1] \in PLC /\ w[2] # 0 /\ w[2] \in Nat
      /\ \A p \in PLC: gen[p] \in Nat /\ \A t \in Tag: NoReading[t] = "none"
  BY ReadingNat DEF IndInv, NoReading
<1>1. CASE Start
  <2>1. /\ UNCHANGED <<live, current, wcfg, idx, lastQuality, reading>>
        /\ \A w \in Worker: pc'[w] = IF Registered(w) THEN "connect" ELSE pc[w]
    BY <1>1 DEF Start
  <2>2. \A w \in Worker: pc[w] \notin Running /\ pc[w] # "notify"
    BY <1>1 DEF Start, IndInv, StartInv, Running, Connecting, Dialing, Scanning
  <2>3. \A w \in Worker: lastQuality[w] = NoReading
    BY <2>2 DEF PublishInv
  <2>4. \A w \in Worker, t \in Tag: ~Notifying(w, t)'
    BY <2>1, <2>2 DEF Notifying
  <2> QED BY <1>0, <2>1, <2>3, <2>4 DEF PublishInv
<1>2. CASE Stop
  BY <1>2, PublishStutter DEF Stop, StopBegin, StopWaited, StopClose, pubView
<1>3. ASSUME NEW c \in Ctx, NEW cfg \in [PLC -> Cfg \cup {NoCfg}], ReloadBegin(c, cfg)
      PROVE  PublishInv'
  BY <1>3, PublishStutter DEF ReloadBegin, pubView
<1>4. CASE ReloadDiff
  <2>1. UNCHANGED <<wcfg, pc, idx, lastQuality, reading>>
    BY <1>4 DEF ReloadDiff
  <2>2. \A w \in Worker: Registered(w)' => Registered(w) /\ current'[w[1]] = current[w[1]]
    BY <1>0, <1>4 DEF ReloadDiff, Registered
  <2>3. \A w \in Worker, t \in Tag: Notifying(w, t)' <=> Notifying(w, t)
    BY <2>1 DEF Notifying, TagAt
  <2> QED BY <2>1, <2>2, <2>3 DEF PublishInv
<1>5. CASE ReloadClose
  BY <1>5, PublishStutter DEF ReloadClose, pubView
<1>6. CASE ReloadAdd
  <2>1. /\ UNCHANGED <<current, idx, lastQuality, reading>>
        /\ \A w \in Worker: /\ pc'[w] = (IF IsNext(w) THEN "connect" ELSE pc[w])
                            /\ wcfg'[w] = (IF IsNext(w) THEN rcfg[w[1]] ELSE wcfg[w])
        /\ \A p \in PLC: live'[p] = IF MustAdd(p) THEN gen[p] + 1 ELSE live[p]
    BY <1>6 DEF ReloadAdd
  <2>2. \A w \in Worker: IsNext(w) => lastQuality[w] = NoReading
    <3>1. \A w \in Worker: IsNext(w) => ~Owned(w)
      BY <1>0, <1>6 DEF ReloadAdd, IsNext, MustAdd, Owned, Registered
    <3> QED BY <3>1 DEF IndInv, OwnedInv, PublishInv
  <2>3. \A w \in Worker: ~IsNext(w) /\ Registered(w)' => Registered(w)
    BY <1>0, <2>1 DEF IsNext, Registered
  <2>4. \A w \in Worker, t \in Tag: /\ IsNext(w) => ~Notifying(w, t)'
                                    /\ ~IsNext(w) => (Notifying(w, t)' <=> Notifying(w, t))
    BY <2>1 DEF Notifying, TagAt
  <2>5. \A w \in Worker: pc'[w] \notin Running => lastQuality'[w] = NoReading
    BY <2>1, <2>2 DEF PublishInv
  <2>6. ASSUME NEW w \in Worker, NEW t \in Tag, Registered(w)', Notifying(w, t)'
        PROVE  current'[w[1]][t] = [gen |-> w[2], quality |-> reading'[w]]
    <3>1. ~IsNext(w) /\ Registered(w) /\ Notifying(w, t)
      BY <2>3, <2>4, <2>6
    <3>2. current[w[1]][t] = [gen |-> w[2], quality |-> reading[w]]
      BY <3>1 DEF PublishInv
    <3> QED BY <2>1, <3>2
  <2>7. ASSUME NEW w \in Worker, NEW t \in Tag, Registered(w)', ~Notifying(w, t)', lastQuality'[w][t] # "none"
        PROVE  current'[w[1]][t] = [gen |-> w[2], quality |-> lastQuality'[w][t]]
    <3>1. ~IsNext(w)
      BY <1>0, <2>1, <2>2, <2>7
    <3>2. Registered(w) /\ ~Notifying(w, t) /\ lastQuality[w][t] # "none"
      BY <2>1, <2>3, <2>4, <2>7, <3>1
    <3>3. current[w[1]][t] = [gen |-> w[2], quality |-> lastQuality[w][t]]
      BY <3>2 DEF PublishInv
    <3> QED BY <2>1, <3>3
  <2> QED BY <2>5, <2>6, <2>7 DEF PublishInv
<1>7. ASSUME NEW w \in Worker, Routine(w) PROVE PublishInv'
  BY <1>7, PublishRoutine
<1>8. ASSUME NEW x \in Writer, WriteTag(x) PROVE PublishInv'
  BY <1>8, PublishStutter DEF WriteTag, WriteOk, WriteErr, WriteReturn, WriteLookup, pubView
<1>9. CASE Environment
  BY <1>9, PublishStutter DEF Environment, DropSession, CancelCtx, pubView
<1>10. CASE UNCHANGED vars
  BY <1>10, PublishStutter DEF vars, pubView
<1> QED BY <1>1, <1>2, <1>3, <1>4, <1>5, <1>6, <1>7, <1>8, <1>9, <1>10 DEF Next, Reload

\* What a goroutine remembers of a tag's quality is what the tag store shows:
\* a failing read of a registered PLC never stays hidden behind a good value.
THEOREM QualityPublished == Spec => []QualityIsPublished
<1>1. Init => PublishInv
  <2> SUFFICES ASSUME Init PROVE PublishInv
    OBVIOUS
  <2>1. \A w \in Worker: lastQuality[w] = NoReading /\ pc[w] # "notify"
    BY DEF Init
  <2>2. \A t \in Tag: NoReading[t] = "none"
    BY DEF NoReading
  <2> QED BY <2>1, <2>2 DEF PublishInv, Notifying
<1>2. PublishInv => QualityIsPublished
  BY DEF PublishInv, QualityIsPublished, Notifying, CurrentTag
<1> QED BY <1>1, <1>2, PublishStep, InvHolds, PTL DEF Spec

-----------------------------------------------------------------------------
(* After Stop. *)

\* A goroutine whose context is done can only give up its dialling.
LEMMA DoneGivesUp ==
    ASSUME NEW w \in Worker, Routine(w), pc[w] \in Connecting, CtxDone(w)
    PROVE  GiveUp(w)
BY DEF Routine, Scan, Dial, DialOk, DialFail, SelectDone, Tick, ReadGood, ReadBad, StoreTag, Notify,
       Connecting, Dialing

quietView == <<stopped, stopPc, parent, pc, connected, rpc, drained>>

LEMMA QuietStep == IndInv /\ QuietInv /\ [Next]_vars => QuietInv'
<1> SUFFICES ASSUME IndInv, QuietInv, [Next]_vars PROVE QuietInv'
  OBVIOUS
<1> USE DEF mgrVars, routineVars, driverVars, reloadVars
<1>0. TypeOK /\ "exited" \notin Running
  BY DEF IndInv, Running, Connecting, Dialing, Scanning
<1>1. CASE Start
  BY <1>1 DEF Start, IndInv, StartInv, QuietInv
<1>2. CASE StopBegin
  BY <1>2 DEF StopBegin, QuietInv
<1>3. CASE StopWaited
  BY <1>3 DEF StopWaited, QuietInv
<1>4. CASE StopClose
  <2>1. /\ stopPc = "close" /\ stopPc' = "idle" /\ UNCHANGED <<stopped, parent, pc, rpc, drained>>
        /\ \A w \in Worker: connected'[w] => connected[w] /\ ~Registered(w)
    BY <1>4 DEF StopClose
  <2>2. \A w \in Worker: connected'[w] => rpc = "wait" /\ Drained(w)
    BY <2>1 DEF IndInv, OwnedInv, Owned
  <2> QED BY <2>1, <2>2 DEF QuietInv, Drained
<1>5. ASSUME NEW c \in Ctx, NEW cfg \in [PLC -> Cfg \cup {NoCfg}], ReloadBegin(c, cfg)
      PROVE  QuietInv'
  BY <1>5 DEF ReloadBegin, QuietInv
<1>6. CASE ReloadDiff
  BY <1>6 DEF ReloadDiff, QuietInv
<1>7. CASE ReloadClose
  BY <1>7 DEF ReloadClose, QuietInv
<1>8. CASE ReloadAdd
  <2>1. /\ UNCHANGED <<stopped, stopPc, connected>> /\ rpc = "add"
        /\ \A w \in Worker: /\ parent'[w] = (IF IsNext(w) THEN rctx ELSE parent[w])
                            /\ pc'[w] = (IF IsNext(w) THEN "connect" ELSE pc[w])
    BY <1>8 DEF ReloadAdd
  <2>2. \A w \in Worker: IsNext(w) => ~connected[w]
    <3>1. \A w \in Worker: IsNext(w) => ~Owned(w)
      BY <2>1, ReadingNat DEF IndInv, IsNext, MustAdd, Owned, Registered
    <3> QED BY <3>1 DEF IndInv, OwnedInv
  <2>3. "connect" \in Connecting
    BY DEF Connecting
  <2> QED BY <2>1, <2>2, <2>3 DEF QuietInv
<1>9. ASSUME NEW w \in Worker, Routine(w) PROVE QuietInv'
  <2>1. /\ UNCHANGED SharedVars /\ UNCHANGED reloadVars /\ UNCHANGED stopPc
        /\ pc[w] \in Running /\ DriverEffect(w)
        /\ \A v \in Worker: v # w => pc'[v] = pc[v]
    BY <1>0, <1>9, RoutineEffect, RoutineLocal
  <2>2. \A v \in Worker: v # w => connected'[v] = connected[v]
    BY <1>0, <2>1 DEF DriverEffect, TypeOK
  <2>3. UNCHANGED <<stopped, stopPc, parent, rpc, drained>>
    BY <2>1 DEF SharedVars
  <2>4. ASSUME stopped, stopPc # "wait", parent[w] = RootCtx
        PROVE  pc'[w] \notin Running /\ UNCHANGED connected
    <3>1. pc[w] \in Connecting
      BY <2>1, <2>4 DEF QuietInv
    <3>2. CtxDone(w)
      BY <2>4 DEF CtxDone, IndInv, ServedInv
    <3>3. GiveUp(w)
      BY <1>9, <3>1, <3>2, DoneGivesUp
    <3>4. pc' = [pc EXCEPT ![w] = "exited"] /\ UNCHANGED connected
      BY <3>3 DEF GiveUp, Return, Goto
    <3> QED BY <1>0, <3>4 DEF TypeOK
  <2>5. ASSUME stopped, stopPc # "wait", NEW v \in Worker, parent[v] = RootCtx
        PROVE  pc'[v] \notin Running \ Connecting
    BY <2>1, <2>4, <2>5 DEF QuietInv
  <2>6. ASSUME stopped, stopPc = "idle", NEW v \in Worker, parent[v] = RootCtx, connected'[v]
        PROVE  rpc = "wait" /\ Drained(v)
    BY <2>2, <2>4, <2>6 DEF QuietInv
  <2> QED BY <2>3, <2>5, <2>6 DEF QuietInv, Drained
<1>10. CASE UNCHANGED quietView
  BY <1>10 DEF quietView, QuietInv, Drained
<1>11. ASSUME NEW x \in Writer, WriteTag(x) PROVE UNCHANGED quietView
  BY <1>11 DEF WriteTag, WriteOk, WriteErr, WriteReturn, WriteLookup, quietView
<1>12. CASE Environment
  BY <1>10, <1>12 DEF Environment, DropSession, CancelCtx, quietView
<1>13. CASE UNCHANGED vars
  BY <1>10, <1>13 DEF vars, quietView
<1> QED BY <1>1, <1>2, <1>3, <1>4, <1>5, <1>6, <1>7, <1>8, <1>9, <1>10, <1>11, <1>12, <1>13
        DEF Next, Reload, Stop

\* Once Stop has returned, nothing under the server's context dials, reads or
\* publishes, and no such driver is open that no Reload is about to close.
THEOREM QuietStop == Spec => []QuietAfterStop
<1>1. Init => QuietInv
  BY DEF Init, QuietInv
<1>2. QuietInv => QuietAfterStop
  BY DEF QuietInv, QuietAfterStop
<1> QED BY <1>1, <1>2, QuietStep, InvHolds, PTL DEF Spec
=============================================================================
