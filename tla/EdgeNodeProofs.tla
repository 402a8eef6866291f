---------------------------- MODULE EdgeNodeProofs ----------------------------
(***************************************************************************)
(* The invariants of the Sparkplug edge node, for any devices and any      *)
(* number of connections and commands.                                     *)
(***************************************************************************)
EXTENDS EdgeNode, FiniteSetTheorems, TLAPS

\* What has no NBIRTH out yet, and what still has DBIRTHs to publish.
PreBirth(b) == bpc[b] \in {"add", "nbirth"}
InDevices(b) == bpc[b] = "dbirth"
Owes(b, i) == bpc[b] = "nack" \/ (InDevices(b) /\ bdev[b] <= i)

(***************************************************************************)
(* The inductive invariant.                                                *)
(***************************************************************************)

\* The counter of births stays within its bound: a birther that is about to
\* take a number owes it to a connection or a command, and a connection has at
\* most two, its onConnect goroutine and reconnectLoop.
Adders == {b \in Birther: bpc[b] = "add"}
Owed == IF rpc = "resubscribe" THEN 1 ELSE 0
CountInv == bdSeq + Cardinality(Adders) + Owed <= 2 * connects + commands

\* Numbers are handed out in order, and one that is in use belongs to a birth
\* whose NBIRTH is still to come.
NumberInv ==
    /\ host.bd <= bdSeq
    /\ \A b \in Birther: bd[b] <= bdSeq
    /\ \A b \in Birther: bpc[b] = "nbirth" => bd[b] # 0
    /\ BirthsAreDistinct

\* ONLINE comes after an NBIRTH, and a birther that is past it has sent one.
OnlineInv ==
    /\ OnlineAfterBirth
    /\ \A b \in Birther: bpc[b] \in {"nack", "dbirth", "online"} => host.bd # 0

\* A birther among its devices is at one of them.
DeviceInv == \A b \in Birther: InDevices(b) => bdev[b] <= Len(Device)

\* Stop has not begun to publish deaths.
BeforeStop == cpc \in {"new", "connect", "subscribe", "running", "failed"}

\* While the connection is up, whatever the host does not know yet is still
\* going to be published: by a birther before its NBIRTH, or, for a device, by
\* one that waits for the NBIRTH's acknowledgement or has not passed it.
BornInv ==
    link /\ BeforeStop =>
        \/ \E b \in Birther: PreBirth(b)
        \/ /\ host.alive
           /\ \A i \in 1..Len(Device):
                 \/ Device[i] \in host.born
                 \/ \E b \in Birther: Owes(b, i)

\* A dial while the node runs is reconnectLoop's, which subscribes afterwards.
SubscribeInv ==
    /\ cpc \in {"new", "connect", "subscribe", "failed"} => rpc = "none"
    /\ cpc = "subscribe" => ~dial
    /\ cpc = "running" /\ dial => rpc \in {"retry", "exited"}
    /\ cpc = "running" /\ link => subscribed \/ rpc \in {"resubscribe", "exited"}

Inv == TypeOK /\ CountInv /\ NumberInv /\ OnlineInv /\ DeviceInv /\ BornInv /\ SubscribeInv

-----------------------------------------------------------------------------
(* Counting birthers. *)

LEMMA Birthers ==
    /\ IsFiniteSet(Birther) /\ Loop \in Birther
    /\ \A n \in Nat: n < MaxConnects => Hook(n + 1) \in Birther
    /\ \A n \in Nat: n < MaxCommands => Handler(n + 1) \in Birther
<1>1. MaxConnects \in Nat \ {0} /\ MaxCommands \in Nat
  BY EdgeAssumption
<1>2. MaxConnects + MaxCommands \in Nat
  BY <1>1
<1>3. IsFiniteSet(Birther)
  BY <1>2, FS_Interval DEF Birther
<1> QED BY <1>1, <1>3 DEF Birther, Loop, Hook, Handler

LEMMA AddersFinite ==
    /\ IsFiniteSet(Adders) /\ Cardinality(Adders) \in Nat
    /\ IsFiniteSet(Adders') /\ Cardinality(Adders') \in Nat
<1>1. Adders \subseteq Birther /\ Adders' \subseteq Birther
  BY DEF Adders
<1> QED BY <1>1, Birthers, FS_Subset, FS_CardinalityType

LEMMA AddersEnter ==
    ASSUME bpc \in [Birther -> BirthPc], NEW b \in Birther, bpc' = [bpc EXCEPT ![b] = "add"]
    PROVE  Cardinality(Adders') <= Cardinality(Adders) + 1
<1>1. Adders' = Adders \cup {b}
  BY DEF Adders
<1>2. Cardinality(Adders \cup {b}) = IF b \in Adders THEN Cardinality(Adders) ELSE Cardinality(Adders) + 1
  BY AddersFinite, FS_AddElement
<1> QED BY <1>1, <1>2, AddersFinite

LEMMA AddersLeave ==
    ASSUME bpc \in [Birther -> BirthPc], NEW b \in Birther, bpc[b] = "add",
           bpc' = [bpc EXCEPT ![b] = "nbirth"]
    PROVE  Cardinality(Adders') = Cardinality(Adders) - 1 /\ Cardinality(Adders) >= 1
<1>1. Adders' = Adders \ {b} /\ b \in Adders
  BY DEF Adders
<1>2. Cardinality(Adders \ {b}) = Cardinality(Adders) - 1
  BY <1>1, AddersFinite, FS_RemoveElement
<1>3. Cardinality(Adders) # 0
  BY <1>1, AddersFinite, FS_EmptySet
<1> QED BY <1>1, <1>2, <1>3, AddersFinite

LEMMA AddersSame ==
    ASSUME bpc \in [Birther -> BirthPc], NEW b \in Birther, bpc[b] # "add",
           NEW p, p # "add", bpc' = [bpc EXCEPT ![b] = p]
    PROVE  Adders' = Adders
BY DEF Adders

LEMMA TransitionType ==
    ASSUME sm \in {"Offline", "Connecting", "Online"}, NEW e
    PROVE  /\ transition(sm, e) \in {"Offline", "Connecting", "Online"}
           /\ e # "ConnectSuccess" => (transition(sm, e) = "Online" => sm = "Online")
BY DEF transition

-----------------------------------------------------------------------------
LEMMA InitInv == Init => Inv
<1> SUFFICES ASSUME Init PROVE Inv
  OBVIOUS
<1>0. /\ QueueCap \in Nat /\ MaxConnects \in Nat /\ MaxCommands \in Nat
      /\ Len(Device) \in Nat
  BY EdgeAssumption
<1>1. TypeOK
  <2>1. MaxBirths \in Nat /\ 1 \in DeviceIndex
    BY <1>0 DEF MaxBirths, DeviceIndex
  <2>2. host \in [bd: 0..MaxBirths, alive: BOOLEAN, born: SUBSET DeviceSet]
    BY <2>1 DEF Init
  <2>3. {signal, link, dial, subscribed, lost, ctxDone} \subseteq BOOLEAN
    BY DEF Init
  <2>4. /\ bpc \in [Birther -> BirthPc] /\ bd \in [Birther -> 0..MaxBirths]
        /\ bdev \in [Birther -> DeviceIndex]
    BY <2>1 DEF Init, BirthPc
  <2> QED BY <1>0, <2>1, <2>2, <2>3, <2>4 DEF Init, TypeOK, CallerPc
<1>2. CountInv
  <2>1. Adders = {}
    BY DEF Init, Adders
  <2>2. Cardinality(Adders) = 0
    BY <2>1, FS_EmptySet
  <2> QED BY <2>2 DEF Init, CountInv, Owed
<1>3. NumberInv /\ OnlineInv /\ DeviceInv
  BY DEF Init, NumberInv, BirthsAreDistinct, OnlineInv, OnlineAfterBirth, DeviceInv, InDevices
<1>4. BornInv /\ SubscribeInv
  BY DEF Init, BornInv, SubscribeInv
<1> QED BY <1>1, <1>2, <1>3, <1>4 DEF Inv

-----------------------------------------------------------------------------
(* Steps that leave the births alone. *)

BirthParts == CountInv /\ NumberInv /\ OnlineInv /\ DeviceInv /\ BornInv

LEMMA QuietBirths ==
    ASSUME Inv, UNCHANGED <<bdSeq, birthVars, connects, commands>>, host'.bd = host.bd,
           sm' = "Online" => sm = "Online",
           rpc' = "resubscribe" => rpc = "resubscribe",
           link' /\ BeforeStop' => link /\ BeforeStop /\ host' = host
    PROVE  BirthParts'
<1>0. UNCHANGED <<bpc, bd, bdev>>
  BY DEF birthVars
<1>1. CountInv'
  <2>1. Adders' = Adders /\ Owed' <= Owed /\ Owed \in Nat /\ Owed' \in Nat
    BY <1>0 DEF Adders, Owed
  <2>2. bdSeq \in Nat /\ connects \in Nat /\ commands \in Nat
    BY DEF Inv, TypeOK
  <2> QED BY <2>1, <2>2, AddersFinite DEF Inv, CountInv
<1>2. NumberInv' /\ DeviceInv'
  BY <1>0 DEF Inv, NumberInv, BirthsAreDistinct, DeviceInv, InDevices
<1>3. OnlineInv'
  BY <1>0 DEF Inv, OnlineInv, OnlineAfterBirth
<1>4. BornInv'
  BY <1>0 DEF Inv, BornInv, PreBirth, InDevices, Owes
<1> QED BY <1>1, <1>2, <1>3, <1>4 DEF BirthParts

\* The connection goes, and with it the acknowledgements that are due.
LEMMA CutBirths ==
    ASSUME Inv, CutPublishes, UNCHANGED <<bdSeq, bd, bdev, connects, commands, sm, rpc>>,
           host'.bd = host.bd, ~link'
    PROVE  BirthParts' /\ bpc' \in [Birther -> BirthPc]
<1>0. /\ bpc \in [Birther -> BirthPc]
      /\ \A b \in Birther: bpc'[b] = IF bpc[b] = "nack" THEN "nfail" ELSE bpc[b]
  BY DEF CutPublishes, Inv, TypeOK
<1>1. bpc' \in [Birther -> BirthPc]
  BY <1>0 DEF CutPublishes, BirthPc
<1>2. CountInv'
  <2>1. Adders' = Adders /\ Owed' = Owed
    BY <1>0 DEF Adders, Owed
  <2> QED BY <2>1 DEF Inv, CountInv
<1>3. NumberInv' /\ DeviceInv'
  BY <1>0 DEF Inv, NumberInv, BirthsAreDistinct, DeviceInv, InDevices
<1>4. OnlineInv'
  BY <1>0 DEF Inv, OnlineInv, OnlineAfterBirth
<1>5. BornInv'
  BY DEF BornInv
<1> QED BY <1>1, <1>2, <1>3, <1>4, <1>5 DEF BirthParts

\* A birther enters publishBirths.
LEMMA EnterBirths ==
    ASSUME Inv, NEW b \in Birther, bpc' = [bpc EXCEPT ![b] = "add"],
           UNCHANGED <<bd, bdev, bdSeq, host, sm>>
    PROVE  NumberInv' /\ OnlineInv' /\ DeviceInv' /\ BornInv'
<1>0. bpc'[b] = "add" /\ \A c \in Birther: c # b => bpc'[c] = bpc[c]
  BY DEF Inv, TypeOK
<1>1. NumberInv' /\ DeviceInv'
  BY <1>0 DEF Inv, NumberInv, BirthsAreDistinct, DeviceInv, InDevices
<1>2. OnlineInv'
  BY <1>0 DEF Inv, OnlineInv, OnlineAfterBirth
<1>3. BornInv'
  BY <1>0 DEF BornInv, PreBirth
<1> QED BY <1>1, <1>2, <1>3

\* Start and Stop.
LEMMA StartInv ==
    ASSUME Inv, Start
    PROVE  Inv'
<1>0. sm \in {"Offline", "Connecting", "Online"} /\ {signal, link, dial, subscribed, lost, ctxDone} \subseteq BOOLEAN
  BY DEF Inv, TypeOK
<1>1. CASE StartConnect
  <2>1. TypeOK'
    BY <1>0, <1>1, TransitionType DEF StartConnect, Transition, birthVars, publishVars,
       Inv, TypeOK, CallerPc
  <2>2. BirthParts'
    BY <1>0, <1>1, QuietBirths, TransitionType DEF StartConnect, Transition, BeforeStop
  <2>3. SubscribeInv'
    BY <1>1 DEF StartConnect, Inv, SubscribeInv
  <2> QED BY <2>1, <2>2, <2>3 DEF Inv, BirthParts
<1>2. CASE StartFail
  <2>1. TypeOK'
    BY <1>0, <1>2, TransitionType DEF StartFail, Transition, pahoVars, birthVars, publishVars,
       Inv, TypeOK, CallerPc
  <2>2. BirthParts'
    BY <1>0, <1>2, QuietBirths, TransitionType DEF StartFail, Transition, pahoVars, BeforeStop
  <2>3. SubscribeInv'
    BY <1>2 DEF StartFail, Inv, SubscribeInv
  <2> QED BY <2>1, <2>2, <2>3 DEF Inv, BirthParts
<1>3. CASE StartLoops
  <2>1. TypeOK'
    BY <1>0, <1>3 DEF StartLoops, Subscribe, birthVars, Inv, TypeOK, CallerPc
  <2>2. BirthParts'
    BY <1>3, QuietBirths DEF StartLoops, BeforeStop
  <2>3. SubscribeInv'
    BY <1>3 DEF StartLoops, Subscribe, Inv, SubscribeInv
  <2> QED BY <2>1, <2>2, <2>3 DEF Inv, BirthParts
<1> QED BY <1>1, <1>2, <1>3 DEF Start

LEMMA StopInv ==
    ASSUME Inv, Stop \/ CancelCtx
    PROVE  Inv'
<1> USE DEF StopUnchanged, pahoVars
<1>0. /\ sm \in {"Offline", "Connecting", "Online"} /\ cdev \in DeviceIndex
      /\ {signal, link, dial, subscribed, lost, ctxDone} \subseteq BOOLEAN
      /\ host \in [bd: 0..MaxBirths, alive: BOOLEAN, born: SUBSET DeviceSet]
  BY DEF Inv, TypeOK
<1>1. CASE CancelCtx
  <2>1. TypeOK'
    BY <1>0, <1>1 DEF CancelCtx, birthVars, publishVars, Inv, TypeOK
  <2>2. BirthParts'
    BY <1>1, QuietBirths DEF CancelCtx, BeforeStop
  <2>3. SubscribeInv'
    BY <1>1 DEF CancelCtx, Inv, SubscribeInv
  <2> QED BY <2>1, <2>2, <2>3 DEF Inv, BirthParts
<1>2. CASE StopBegin
  <2>1. TypeOK'
    BY <1>0, <1>2 DEF StopBegin, birthVars, publishVars, Inv, TypeOK, CallerPc
  <2>2. BirthParts'
    BY <1>2, QuietBirths DEF StopBegin, BeforeStop
  <2>3. SubscribeInv'
    BY <1>2 DEF StopBegin, Inv, SubscribeInv
  <2> QED BY <2>1, <2>2, <2>3 DEF Inv, BirthParts
<1>3. CASE StopDDEATH
  <2>1. /\ host' \in [bd: 0..MaxBirths, alive: BOOLEAN, born: SUBSET DeviceSet]
        /\ host'.bd = host.bd /\ cdev' \in DeviceIndex
    <3>1. /\ host' = [host EXCEPT !.born = host.born \ {Device[cdev]}] \/ host' = host
          /\ cdev' = cdev + 1 /\ cdev <= Len(Device)
      BY <1>3 DEF StopDDEATH
    <3>2. host.born \ {Device[cdev]} \in SUBSET DeviceSet
      BY <1>0
    <3>3. host' \in [bd: 0..MaxBirths, alive: BOOLEAN, born: SUBSET DeviceSet] /\ host'.bd = host.bd
      BY <1>0, <3>1, <3>2
    <3>4. cdev' \in DeviceIndex
      BY <1>0, <3>1, EdgeAssumption DEF DeviceIndex
    <3> QED BY <3>3, <3>4
  <2>2. TypeOK'
    BY <1>0, <1>3, <2>1 DEF StopDDEATH, birthVars, publishVars, Inv, TypeOK
  <2>3. BirthParts'
    BY <1>3, <2>1, QuietBirths DEF StopDDEATH, BeforeStop
  <2>4. SubscribeInv'
    BY <1>3 DEF StopDDEATH, Inv, SubscribeInv
  <2> QED BY <2>2, <2>3, <2>4 DEF Inv, BirthParts
<1>4. CASE StopNDEATH
  <2>1. /\ host' \in [bd: 0..MaxBirths, alive: BOOLEAN, born: SUBSET DeviceSet]
        /\ host'.bd = host.bd
    BY <1>0, <1>4 DEF StopNDEATH, HostDeath
  <2>2. TypeOK'
    BY <1>0, <1>4, <2>1 DEF StopNDEATH, birthVars, publishVars, Inv, TypeOK, CallerPc
  <2>3. BirthParts'
    BY <1>4, <2>1, QuietBirths DEF StopNDEATH, BeforeStop
  <2>4. SubscribeInv'
    BY <1>4 DEF StopNDEATH, Inv, SubscribeInv
  <2> QED BY <2>2, <2>3, <2>4 DEF Inv, BirthParts
<1>5. CASE StopSignal
  <2>1. TypeOK'
    BY <1>0, <1>5, TransitionType DEF StopSignal, Transition, birthVars, publishVars, Inv, TypeOK, CallerPc
  <2>2. BirthParts'
    BY <1>0, <1>5, QuietBirths, TransitionType DEF StopSignal, Transition, BeforeStop
  <2>3. SubscribeInv'
    BY <1>5 DEF StopSignal, Inv, SubscribeInv
  <2> QED BY <2>1, <2>2, <2>3 DEF Inv, BirthParts
<1>6. CASE StopReturn
  <2>0. BirthParts' /\ bpc' \in [Birther -> BirthPc]
    BY <1>6, CutBirths DEF StopReturn
  <2>1. TypeOK'
    BY <1>0, <1>6, <2>0 DEF StopReturn, publishVars, Inv, TypeOK, CallerPc
  <2>2. BirthParts'
    BY <2>0
  <2>3. SubscribeInv'
    BY <1>6 DEF StopReturn, Inv, SubscribeInv
  <2> QED BY <2>1, <2>2, <2>3 DEF Inv, BirthParts
<1> QED BY <1>1, <1>2, <1>3, <1>4, <1>5, <1>6 DEF Stop

\* paho and the broker.
LEMMA PahoInv ==
    ASSUME Inv, Paho
    PROVE  Inv'
<1>0. /\ sm \in {"Offline", "Connecting", "Online"} /\ bpc \in [Birther -> BirthPc]
      /\ {signal, link, dial, subscribed, lost, ctxDone} \subseteq BOOLEAN
      /\ host \in [bd: 0..MaxBirths, alive: BOOLEAN, born: SUBSET DeviceSet]
      /\ bdSeq \in Nat /\ connects \in 0..MaxConnects /\ commands \in 0..MaxCommands
      /\ MaxConnects \in Nat /\ MaxCommands \in Nat /\ MaxEvents \in Nat
      /\ bdSeq + Cardinality(Adders) + Owed <= 2 * connects + commands
  BY EdgeAssumption DEF Inv, TypeOK, CountInv
<1>1. CASE PahoConnected
  <2>1. /\ dial /\ connects < MaxConnects /\ dial' = FALSE /\ link' = TRUE /\ connects' = connects + 1
        /\ bpc' = [bpc EXCEPT ![Hook(connects + 1)] = "add"]
        /\ cpc' = IF cpc = "connect" THEN "subscribe" ELSE cpc
        /\ rpc' = IF rpc = "retry" THEN "resubscribe" ELSE rpc
        /\ UNCHANGED <<sm, bdSeq, signal, subscribed, lost, commands, host, bd,
                       bdev, ppc, queue, cdev, ctxDone>>
    BY <1>1 DEF PahoConnected, publishVars
  <2>2. Hook(connects + 1) \in Birther
    BY <1>0, <2>1, Birthers
  <2>3. TypeOK'
    <3>1. bpc' \in [Birther -> BirthPc]
      BY <1>0, <2>1, <2>2 DEF BirthPc
    <3>0. connects' \in 0..MaxConnects
      BY <1>0, <2>1
    <3>2. cpc' \in CallerPc /\ rpc' \in {"none", "wait", "retry", "resubscribe", "births", "exited"}
      BY <2>1 DEF Inv, TypeOK, CallerPc
    <3>3. {signal', link', dial', subscribed', lost', ctxDone'} \subseteq BOOLEAN
      BY <1>0, <2>1
    <3>4. UNCHANGED <<sm, bdSeq, commands, host, bd, bdev, ppc, queue, cdev>>
      BY <2>1
    <3> QED BY <3>0, <3>1, <3>2, <3>3, <3>4 DEF Inv, TypeOK
  <2>4. CountInv'
    <3>1. Cardinality(Adders') <= Cardinality(Adders) + 1
      BY <1>0, <2>1, <2>2, AddersEnter
    <3>2. Owed' <= Owed + 1 /\ Owed \in Nat /\ Owed' \in Nat
      BY <2>1 DEF Owed
    <3> QED BY <1>0, <2>1, <3>1, <3>2, AddersFinite DEF CountInv
  <2>5. NumberInv' /\ OnlineInv' /\ DeviceInv' /\ BornInv'
    BY <2>1, <2>2, EnterBirths
  <2>6. SubscribeInv'
    BY <2>1 DEF Inv, SubscribeInv
  <2> QED BY <2>3, <2>4, <2>5, <2>6 DEF Inv
<1>2. CASE PahoRefused
  <2>1. TypeOK'
    BY <1>0, <1>2 DEF PahoRefused, birthVars, publishVars, callerVars, Inv, TypeOK
  <2>2. BirthParts'
    BY <1>2, QuietBirths DEF PahoRefused, callerVars, BeforeStop
  <2>3. SubscribeInv'
    BY <1>2 DEF PahoRefused, callerVars, Inv, SubscribeInv
  <2> QED BY <2>1, <2>2, <2>3 DEF Inv, BirthParts
<1>3. CASE LinkLost
  <2>1. /\ host' \in [bd: 0..MaxBirths, alive: BOOLEAN, born: SUBSET DeviceSet]
        /\ host'.bd = host.bd
    BY <1>0, <1>3 DEF LinkLost, HostDeath
  <2>3. BirthParts' /\ bpc' \in [Birther -> BirthPc]
    BY <1>3, <2>1, CutBirths DEF LinkLost
  <2>2. TypeOK'
    BY <1>0, <1>3, <2>1, <2>3 DEF LinkLost, publishVars, callerVars, Inv, TypeOK
  <2>4. SubscribeInv'
    BY <1>3 DEF LinkLost, callerVars, Inv, SubscribeInv
  <2> QED BY <2>2, <2>3, <2>4 DEF Inv, BirthParts
<1>4. CASE onConnectionLost
  <2>1. TypeOK'
    BY <1>0, <1>4, TransitionType DEF onConnectionLost, Transition, birthVars, publishVars,
       callerVars, Inv, TypeOK
  <2>2. BirthParts'
    BY <1>0, <1>4, QuietBirths, TransitionType DEF onConnectionLost, Transition, callerVars, BeforeStop
  <2>3. SubscribeInv'
    BY <1>4 DEF onConnectionLost, callerVars, Inv, SubscribeInv
  <2> QED BY <2>1, <2>2, <2>3 DEF Inv, BirthParts
<1>5. CASE handleNCMD
  <2>1. /\ commands < MaxCommands /\ commands' = commands + 1
        /\ bpc' = [bpc EXCEPT ![Handler(commands + 1)] = "add"]
        /\ UNCHANGED <<sm, bdSeq, signal, link, dial, connects, subscribed, lost,
                       host, bd, bdev, ppc, queue, rpc, cpc, cdev, ctxDone>>
    BY <1>5 DEF handleNCMD, publishVars, callerVars
  <2>2. Handler(commands + 1) \in Birther
    BY <1>0, <2>1, Birthers
  <2>3. TypeOK'
    BY <1>0, <2>1, <2>2 DEF Inv, TypeOK, BirthPc
  <2>4. CountInv'
    <3>1. Cardinality(Adders') <= Cardinality(Adders) + 1
      BY <1>0, <2>1, <2>2, AddersEnter
    <3>2. Owed' = Owed /\ Owed \in Nat
      BY <2>1 DEF Owed
    <3> QED BY <1>0, <2>1, <3>1, <3>2, AddersFinite DEF CountInv
  <2>5. NumberInv' /\ OnlineInv' /\ DeviceInv' /\ BornInv'
    BY <2>1, <2>2, EnterBirths
  <2>6. SubscribeInv'
    BY <2>1 DEF Inv, SubscribeInv
  <2> QED BY <2>3, <2>4, <2>5, <2>6 DEF Inv
<1> QED BY <1>1, <1>2, <1>3, <1>4, <1>5 DEF Paho

\* HandleTagUpdate, publishLoop and reconnectLoop.
LEMMA LoopsInv ==
    ASSUME Inv, HandleTagUpdate \/ publishLoop \/ reconnectLoop
    PROVE  Inv'
<1> USE DEF LoopUnchanged, ReconnectUnchanged, pahoVars, callerVars
<1>0. /\ queue \in 0..QueueCap /\ QueueCap \in Nat /\ bpc \in [Birther -> BirthPc]
      /\ {signal, link, dial, subscribed, lost, ctxDone} \subseteq BOOLEAN
      /\ bdSeq \in Nat /\ connects \in Nat /\ commands \in Nat
      /\ bdSeq + Cardinality(Adders) + Owed <= 2 * connects + commands
  BY EdgeAssumption DEF Inv, TypeOK, CountInv
<1>1. CASE HandleTagUpdate
  <2>1. TypeOK'
    BY <1>0, <1>1 DEF HandleTagUpdate, birthVars, Inv, TypeOK
  <2>2. BirthParts'
    BY <1>1, QuietBirths DEF HandleTagUpdate, BeforeStop
  <2>3. SubscribeInv'
    BY <1>1 DEF HandleTagUpdate, Inv, SubscribeInv
  <2> QED BY <2>1, <2>2, <2>3 DEF Inv, BirthParts
<1>2. CASE publishLoop
  <2>1. UNCHANGED <<sm, signal, bdSeq, link, dial, connects, subscribed, lost, commands, host,
                    birthVars, rpc, cpc, cdev, ctxDone>>
    BY <1>2 DEF publishLoop, PublishTake, PublishDDATA, PublishExit
  <2>2. queue' \in 0..QueueCap /\ ppc' \in {"none", "wait", "publish", "exited"}
    BY <1>0, <1>2 DEF publishLoop, PublishTake, PublishDDATA, PublishExit
  <2>3. TypeOK'
    BY <1>0, <2>1, <2>2 DEF birthVars, Inv, TypeOK
  <2>4. BirthParts'
    BY <2>1, QuietBirths DEF BeforeStop
  <2>5. SubscribeInv'
    BY <2>1 DEF Inv, SubscribeInv
  <2> QED BY <2>3, <2>4, <2>5 DEF Inv, BirthParts
<1>3. CASE ReconnectTake \/ ReconnectDial \/ ReconnectExit \/ ReconnectDrain
  <2>1. /\ UNCHANGED <<sm, bdSeq, link, connects, subscribed, lost, commands, host, birthVars,
                       ppc, queue, cpc, cdev, ctxDone>>
        /\ signal' \in BOOLEAN /\ dial' \in BOOLEAN
        /\ rpc' \in {"wait", "retry", "exited"}
        /\ dial' = dial \/ rpc' = "retry"
        /\ rpc # "none" /\ rpc # "resubscribe"
        /\ rpc = "exited" => rpc' = "exited"
        /\ rpc = "retry" => rpc' \in {"retry", "exited"}
    BY <1>0, <1>3 DEF ReconnectTake, ReconnectDial, ReconnectExit, ReconnectDrain, publishVars
  <2>2. TypeOK'
    BY <1>0, <2>1 DEF birthVars, Inv, TypeOK
  <2>3. BirthParts'
    BY <2>1, QuietBirths DEF BeforeStop
  <2>4. SubscribeInv'
    BY <2>1 DEF Inv, SubscribeInv
  <2> QED BY <2>2, <2>3, <2>4 DEF Inv, BirthParts
<1>4. CASE ReconnectBirths
  <2>1. /\ rpc = "resubscribe" /\ rpc' = "births" /\ subscribed' = link
        /\ bpc' = [bpc EXCEPT ![Loop] = "add"]
        /\ UNCHANGED <<sm, bdSeq, signal, link, dial, connects, lost, commands, bd, bdev, host,
                       ppc, queue, cpc, cdev, ctxDone>>
    BY <1>4 DEF ReconnectBirths, Subscribe, publishVars
  <2>2. Loop \in Birther
    BY Birthers
  <2>3. TypeOK'
    BY <1>0, <2>1, <2>2 DEF Inv, TypeOK, BirthPc
  <2>4. CountInv'
    <3>1. Cardinality(Adders') <= Cardinality(Adders) + 1
      BY <1>0, <2>1, <2>2, AddersEnter
    <3>2. Owed' = 0 /\ Owed = 1
      BY <2>1 DEF Owed
    <3> QED BY <1>0, <2>1, <3>1, <3>2, AddersFinite DEF CountInv
  <2>5. NumberInv' /\ OnlineInv' /\ DeviceInv' /\ BornInv'
    BY <2>1, <2>2, EnterBirths
  <2>6. SubscribeInv'
    BY <2>1 DEF Inv, SubscribeInv
  <2> QED BY <2>3, <2>4, <2>5, <2>6 DEF Inv
<1> QED BY <1>1, <1>2, <1>3, <1>4 DEF reconnectLoop

-----------------------------------------------------------------------------
(* publishBirths. *)

\* What a step of birther b needs to show: the rest of the state is not its own.
LEMMA BirthType ==
    ASSUME Inv, UNCHANGED BirthUnchanged,
           sm' \in {"Offline", "Connecting", "Online"}, bdSeq' \in 0..MaxBirths,
           host' \in [bd: 0..MaxBirths, alive: BOOLEAN, born: SUBSET DeviceSet],
           bpc' \in [Birther -> BirthPc], bd' \in [Birther -> 0..MaxBirths],
           bdev' \in [Birther -> DeviceIndex]
    PROVE  TypeOK' /\ SubscribeInv'
<1>1. UNCHANGED <<signal, link, dial, connects, subscribed, lost, commands, ppc, queue, rpc,
                  cpc, cdev, ctxDone>>
  BY DEF BirthUnchanged, pahoVars, publishVars, callerVars
<1>2. TypeOK'
  BY <1>1 DEF Inv, TypeOK
<1>3. SubscribeInv'
  BY <1>1 DEF Inv, SubscribeInv
<1> QED BY <1>2, <1>3

\* A step past the first one takes no number.
LEMMA BirthCount ==
    ASSUME Inv, NEW b \in Birther, bpc[b] # "add", NEW p, p # "add",
           bpc' = [bpc EXCEPT ![b] = p], UNCHANGED <<bdSeq, rpc, connects, commands>>
    PROVE  CountInv'
<1>1. Adders' = Adders
  BY AddersSame DEF Inv, TypeOK
<1>2. Owed' = Owed
  BY DEF Owed
<1> QED BY <1>1, <1>2 DEF Inv, CountInv

LEMMA BirthStepInv ==
    ASSUME Inv, NEW b \in Birther, publishBirths(b)
    PROVE  Inv'
<1>0. /\ sm \in {"Offline", "Connecting", "Online"} /\ bdSeq \in 0..MaxBirths
      /\ host \in [bd: 0..MaxBirths, alive: BOOLEAN, born: SUBSET DeviceSet]
      /\ bpc \in [Birther -> BirthPc] /\ bd \in [Birther -> 0..MaxBirths]
      /\ bdev \in [Birther -> DeviceIndex]
      /\ connects \in 0..MaxConnects /\ commands \in 0..MaxCommands
      /\ MaxConnects \in Nat /\ MaxCommands \in Nat /\ Len(Device) \in Nat
      /\ bdSeq + Cardinality(Adders) + Owed <= 2 * connects + commands
  BY EdgeAssumption DEF Inv, TypeOK, CountInv
<1>a. /\ MaxBirths \in Nat /\ 0 \in 0..MaxBirths /\ 1 \in DeviceIndex
  BY <1>0, EdgeAssumption DEF MaxBirths, DeviceIndex
<1>b. /\ host.bd <= bdSeq
      /\ \A c \in Birther: bd[c] <= bdSeq
      /\ \A c \in Birther: bpc[c] \in {"nbirth"} => bd[c] # 0
      /\ BirthsAreDistinct
  BY DEF Inv, NumberInv
<1>c. UNCHANGED BirthUnchanged => UNCHANGED <<link, cpc, rpc, connects, commands>>
  BY DEF BirthUnchanged, pahoVars, callerVars
<1>1. CASE BirthAdd(b)
  <2>1. /\ bpc[b] = "add" /\ bdSeq' = bdSeq + 1 /\ bd' = [bd EXCEPT ![b] = bdSeq + 1]
        /\ bpc' = [bpc EXCEPT ![b] = "nbirth"]
        /\ UNCHANGED <<sm, host, bdev>> /\ UNCHANGED BirthUnchanged
    BY <1>1 DEF BirthAdd
  <2>2. Cardinality(Adders') = Cardinality(Adders) - 1 /\ Cardinality(Adders) >= 1
    BY <1>0, <2>1, AddersLeave
  <2>3. bdSeq + 1 \in 0..MaxBirths
    <3>1. Owed \in Nat
      BY DEF Owed
    <3> QED BY <1>0, <2>2, <3>1, AddersFinite DEF MaxBirths
  <2>4. TypeOK' /\ SubscribeInv'
    <3>1. bpc' \in [Birther -> BirthPc] /\ bd' \in [Birther -> 0..MaxBirths]
      BY <1>0, <2>1, <2>3 DEF BirthPc
    <3> QED BY <1>0, <2>1, <2>3, <3>1, BirthType
  <2>5. CountInv'
    <3>1. Owed' = Owed /\ Owed \in Nat
      BY <1>c, <2>1 DEF Owed
    <3> QED BY <1>0, <1>c, <2>1, <2>2, <3>1, AddersFinite DEF CountInv
  <2>6. NumberInv'
    <3>1. \A c \in Birther: bd'[c] = IF c = b THEN bdSeq + 1 ELSE bd[c]
      BY <1>0, <2>1
    <3>2. \A c \in Birther: c # b => bpc'[c] = bpc[c]
      BY <1>0, <2>1
    <3>3. host.bd \in Nat /\ bdSeq \in Nat /\ \A c \in Birther: bd[c] \in Nat
      BY <1>0, <1>a
    <3>4. BirthsAreDistinct'
      BY <1>b, <2>1, <3>1, <3>3 DEF BirthsAreDistinct
    <3>5. host'.bd <= bdSeq' /\ \A c \in Birther: bd'[c] <= bdSeq'
      BY <1>b, <2>1, <3>1, <3>3
    <3>6. \A c \in Birther: bpc'[c] \in {"nbirth"} => bd'[c] # 0
      BY <1>b, <3>1, <3>2, <3>3
    <3> QED BY <3>4, <3>5, <3>6 DEF NumberInv
  <2>7. OnlineInv' /\ DeviceInv' /\ BornInv'
    <3>1. bpc'[b] = "nbirth" /\ \A c \in Birther: c # b => bpc'[c] = bpc[c]
      BY <1>0, <2>1
    <3>2. OnlineInv'
      BY <2>1, <3>1 DEF Inv, OnlineInv, OnlineAfterBirth
    <3>3. DeviceInv' /\ BornInv'
      BY <2>1, <3>1 DEF Inv, DeviceInv, BornInv, PreBirth, InDevices, Owes
    <3> QED BY <3>2, <3>3
  <2> QED BY <2>4, <2>5, <2>6, <2>7 DEF Inv
<1>2. CASE PublishNBIRTH(b)
  <2>1. /\ bpc[b] = "nbirth" /\ host' = [bd |-> bd[b], alive |-> TRUE, born |-> {}]
        /\ bd' = [bd EXCEPT ![b] = 0] /\ bpc' = [bpc EXCEPT ![b] = "nack"]
        /\ UNCHANGED <<sm, bdSeq, bdev>> /\ UNCHANGED BirthUnchanged
    BY <1>2 DEF PublishNBIRTH
  <2>2. TypeOK' /\ SubscribeInv'
    <3>1. bpc' \in [Birther -> BirthPc] /\ bd' \in [Birther -> 0..MaxBirths]
      BY <1>0, <1>a, <2>1 DEF BirthPc
    <3>2. host' \in [bd: 0..MaxBirths, alive: BOOLEAN, born: SUBSET DeviceSet]
      BY <1>0, <2>1
    <3> QED BY <1>0, <2>1, <3>1, <3>2, BirthType
  <2>3. CountInv'
    BY <1>c, <2>1, BirthCount
  <2>4. /\ bpc'[b] = "nack" /\ \A c \in Birther: c # b => bpc'[c] = bpc[c]
        /\ bd'[b] = 0 /\ \A c \in Birther: c # b => bd'[c] = bd[c]
        /\ host'.bd = bd[b] /\ host'.alive
    BY <1>0, <2>1
  <2>5. NumberInv'
    <3>1. BirthsAreDistinct'
      BY <1>b, <2>1, <2>4 DEF BirthsAreDistinct
    <3> QED BY <1>0, <1>b, <2>1, <2>4, <3>1 DEF NumberInv
  <2>6. OnlineInv'
    BY <1>b, <2>1, <2>4 DEF OnlineInv, OnlineAfterBirth
  <2>7. DeviceInv' /\ BornInv'
    BY <2>1, <2>4 DEF Inv, DeviceInv, InDevices, BornInv, Owes
  <2> QED BY <2>2, <2>3, <2>5, <2>6, <2>7 DEF Inv
<1>3. CASE RefuseNBIRTH(b)
  <2>1. /\ bpc[b] = "nbirth" /\ ~link /\ bpc' = [bpc EXCEPT ![b] = "nfail"]
        /\ UNCHANGED <<sm, bdSeq, host, bd, bdev>> /\ UNCHANGED BirthUnchanged
    BY <1>3 DEF RefuseNBIRTH
  <2>2. TypeOK' /\ SubscribeInv'
    <3>1. bpc' \in [Birther -> BirthPc]
      BY <1>0, <2>1 DEF BirthPc
    <3> QED BY <1>0, <2>1, <3>1, BirthType
  <2>3. CountInv'
    BY <1>c, <2>1, BirthCount
  <2>4. bpc'[b] = "nfail" /\ \A c \in Birther: c # b => bpc'[c] = bpc[c]
    BY <1>0, <2>1
  <2>5. NumberInv'
    BY <1>b, <2>1, <2>4 DEF NumberInv, BirthsAreDistinct
  <2>6. OnlineInv'
    BY <2>1, <2>4 DEF Inv, OnlineInv, OnlineAfterBirth
  <2>7. DeviceInv' /\ BornInv'
    BY <1>c, <2>1, <2>4 DEF Inv, DeviceInv, InDevices, BornInv
  <2> QED BY <2>2, <2>3, <2>5, <2>6, <2>7 DEF Inv
<1>4. CASE AckNBIRTH(b)
  <2>1. PICK p \in {"dbirth", "online"}:
        /\ p = IF 1 <= Len(Device) THEN "dbirth" ELSE "online"
        /\ bpc' = [bpc EXCEPT ![b] = p]
    BY <1>4 DEF AckNBIRTH, NextDevice
  <2>2. /\ bpc[b] = "nack" /\ bdev' = [bdev EXCEPT ![b] = 1]
        /\ UNCHANGED <<sm, bdSeq, host, bd>> /\ UNCHANGED BirthUnchanged
    BY <1>4 DEF AckNBIRTH, NextDevice
  <2>3. TypeOK' /\ SubscribeInv'
    <3>1. bpc' \in [Birther -> BirthPc] /\ bdev' \in [Birther -> DeviceIndex]
      BY <1>0, <1>a, <2>1, <2>2 DEF BirthPc
    <3> QED BY <1>0, <2>2, <3>1, BirthType
  <2>4. CountInv'
    BY <1>c, <2>1, <2>2, BirthCount
  <2>5. /\ bpc'[b] = p /\ \A c \in Birther: c # b => bpc'[c] = bpc[c]
        /\ bdev'[b] = 1 /\ \A c \in Birther: c # b => bdev'[c] = bdev[c]
    BY <1>0, <2>1, <2>2
  <2>6. NumberInv'
    BY <1>b, <2>1, <2>2, <2>5 DEF NumberInv, BirthsAreDistinct
  <2>7. OnlineInv'
    BY <2>2, <2>5 DEF Inv, OnlineInv, OnlineAfterBirth
  <2>8. DeviceInv'
    BY <2>1, <2>5 DEF Inv, DeviceInv, InDevices
  <2>9. BornInv'
    <3>1. \A c \in Birther: PreBirth(c)' <=> PreBirth(c)
      BY <2>1, <2>2, <2>5 DEF PreBirth
    <3>2. ASSUME NEW i \in 1..Len(Device), NEW c \in Birther, Owes(c, i)
          PROVE  Owes(c, i)'
      <4>1. CASE c = b
        BY <1>0, <2>1, <2>5, <4>1 DEF Owes, InDevices
      <4>2. CASE c # b
        BY <2>5, <3>2, <4>2 DEF Owes, InDevices
      <4> QED BY <4>1, <4>2
    <3>3. link' = link /\ BeforeStop' = BeforeStop /\ host' = host
      BY <1>c, <2>2 DEF BeforeStop
    <3> QED BY <3>1, <3>2, <3>3 DEF Inv, BornInv
  <2> QED BY <2>3, <2>4, <2>6, <2>7, <2>8, <2>9 DEF Inv
<1>5. CASE FailNBIRTH(b) \/ BirthOnline(b)
  <2>1. /\ bpc[b] \in {"nfail", "online"}
        /\ sm' = "Online" => sm = "Online" \/ bpc[b] = "online"
        /\ sm' \in {"Offline", "Connecting", "Online"}
    BY <1>0, <1>5, TransitionType DEF FailNBIRTH, BirthOnline, Transition
  <2>2. /\ bpc' = [bpc EXCEPT ![b] = "none"] /\ bd' = [bd EXCEPT ![b] = 0]
        /\ bdev' = [bdev EXCEPT ![b] = 1]
        /\ UNCHANGED <<bdSeq, host>> /\ UNCHANGED BirthUnchanged
    BY <1>5 DEF FailNBIRTH, BirthOnline, BirthEnd
  <2>3. TypeOK' /\ SubscribeInv'
    <3>1. /\ bpc' \in [Birther -> BirthPc] /\ bd' \in [Birther -> 0..MaxBirths]
          /\ bdev' \in [Birther -> DeviceIndex]
      BY <1>0, <1>a, <2>2 DEF BirthPc
    <3> QED BY <1>0, <2>1, <2>2, <3>1, BirthType
  <2>4. CountInv'
    <3>1. bpc[b] # "add" /\ UNCHANGED <<bdSeq, rpc, connects, commands>>
      BY <1>c, <2>1, <2>2
    <3>2. "none" # "add" /\ bpc' = [bpc EXCEPT ![b] = "none"]
      BY <2>2
    <3> QED BY <3>1, <3>2, BirthCount
  <2>5. /\ bpc'[b] = "none" /\ \A c \in Birther: c # b => bpc'[c] = bpc[c]
        /\ bd'[b] = 0 /\ \A c \in Birther: c # b => bd'[c] = bd[c]
        /\ \A c \in Birther: c # b => bdev'[c] = bdev[c]
    BY <1>0, <2>2
  <2>6. NumberInv'
    <3>1. BirthsAreDistinct'
      BY <1>b, <2>2, <2>5 DEF BirthsAreDistinct
    <3> QED BY <1>0, <1>b, <2>2, <2>5, <3>1 DEF NumberInv
  <2>7. OnlineInv'
    BY <2>1, <2>2, <2>5 DEF Inv, OnlineInv, OnlineAfterBirth
  <2>8. DeviceInv'
    BY <2>5 DEF Inv, DeviceInv, InDevices
  <2>9. BornInv'
    <3>1. link' = link /\ BeforeStop' = BeforeStop /\ host' = host
      BY <1>c, <2>2 DEF BeforeStop
    <3>2. \A c \in Birther: PreBirth(c)' <=> PreBirth(c)
      BY <2>1, <2>5 DEF PreBirth
    <3>3. \A i \in 1..Len(Device): \A c \in Birther: Owes(c, i) => Owes(c, i)'
      BY <2>1, <2>5 DEF Owes, InDevices
    <3> QED BY <3>1, <3>2, <3>3 DEF Inv, BornInv
  <2> QED BY <2>3, <2>4, <2>6, <2>7, <2>8, <2>9 DEF Inv
<1>6. CASE PublishDBIRTH(b)
  <2>0. bdev[b] \in 1..Len(Device) /\ bpc[b] = "dbirth"
    BY <1>0, <1>6 DEF PublishDBIRTH, Inv, DeviceInv, InDevices, DeviceIndex
  <2>1. PICK p \in {"dbirth", "online"}:
        /\ p = IF bdev[b] + 1 <= Len(Device) THEN "dbirth" ELSE "online"
        /\ bpc' = [bpc EXCEPT ![b] = p]
    BY <1>6 DEF PublishDBIRTH, NextDevice
  <2>2. /\ host' = IF link THEN [host EXCEPT !.born = host.born \cup {Device[bdev[b]]}] ELSE host
        /\ bdev' = [bdev EXCEPT ![b] = bdev[b] + 1]
        /\ UNCHANGED <<sm, bdSeq, bd>> /\ UNCHANGED BirthUnchanged
    BY <1>6 DEF PublishDBIRTH, NextDevice
  <2>3. /\ host' \in [bd: 0..MaxBirths, alive: BOOLEAN, born: SUBSET DeviceSet]
        /\ host'.bd = host.bd /\ host'.alive = host.alive
        /\ link => host'.born = host.born \cup {Device[bdev[b]]}
    <3>1. host.born \cup {Device[bdev[b]]} \in SUBSET DeviceSet
      BY <1>0, <2>0 DEF DeviceSet
    <3> QED BY <1>0, <2>2, <3>1
  <2>4. TypeOK' /\ SubscribeInv'
    <3>1. bpc' \in [Birther -> BirthPc]
      BY <1>0, <2>1 DEF BirthPc
    <3>2. bdev[b] + 1 \in DeviceIndex
      BY <1>0, <2>0 DEF DeviceIndex
    <3>3. bdev' \in [Birther -> DeviceIndex]
      BY <1>0, <2>2, <3>2
    <3> QED BY <1>0, <2>2, <2>3, <3>1, <3>3, BirthType
  <2>5. CountInv'
    BY <1>c, <2>0, <2>1, <2>2, BirthCount
  <2>6. /\ bpc'[b] = p /\ \A c \in Birther: c # b => bpc'[c] = bpc[c]
        /\ bdev'[b] = bdev[b] + 1 /\ \A c \in Birther: c # b => bdev'[c] = bdev[c]
    BY <1>0, <2>1, <2>2
  <2>7. NumberInv'
    BY <1>b, <2>1, <2>2, <2>3, <2>6 DEF NumberInv, BirthsAreDistinct
  <2>8. OnlineInv'
    BY <2>0, <2>2, <2>3, <2>6 DEF Inv, OnlineInv, OnlineAfterBirth
  <2>9. DeviceInv'
    BY <2>1, <2>6 DEF Inv, DeviceInv, InDevices
  <2>10. BornInv'
    <3>1. link' = link /\ BeforeStop' = BeforeStop
      BY <1>c, <2>2 DEF BeforeStop
    <3>2. SUFFICES ASSUME link, BeforeStop, ~ \E c \in Birther: PreBirth(c)'
                   PROVE  host'.alive /\ \A i \in 1..Len(Device):
                             \/ Device[i] \in host'.born
                             \/ \E c \in Birther: Owes(c, i)'
      BY <3>1 DEF BornInv
    <3>3. ~ \E c \in Birther: PreBirth(c)
      BY <2>0, <2>6, <3>2 DEF PreBirth
    <3>4. /\ host.alive
          /\ \A i \in 1..Len(Device):
                \/ Device[i] \in host.born
                \/ \E c \in Birther: Owes(c, i)
      BY <3>2, <3>3 DEF Inv, BornInv
    <3>5. ASSUME NEW i \in 1..Len(Device), Device[i] \notin host'.born
          PROVE  \E c \in Birther: Owes(c, i)'
      <4>1. Device[i] \notin host.born /\ i # bdev[b]
        BY <2>3, <3>2, <3>5
      <4>2. PICK c \in Birther: Owes(c, i)
        BY <3>4, <4>1
      <4>3. CASE c = b
        <5>1. bdev[b] + 1 <= i /\ bdev[b] + 1 <= Len(Device)
          BY <1>0, <2>0, <4>1, <4>2, <4>3 DEF Owes
        <5> QED BY <2>1, <2>6, <5>1 DEF InDevices, Owes
      <4>4. CASE c # b
        BY <2>6, <4>2, <4>4 DEF InDevices, Owes
      <4> QED BY <4>3, <4>4
    <3> QED BY <2>3, <3>4, <3>5
  <2> QED BY <2>4, <2>5, <2>7, <2>8, <2>9, <2>10 DEF Inv
<1> QED BY <1>1, <1>2, <1>3, <1>4, <1>5, <1>6 DEF publishBirths

-----------------------------------------------------------------------------
LEMMA StutterInv ==
    ASSUME Inv, UNCHANGED vars
    PROVE  Inv'
<1>1. UNCHANGED <<sm, bdSeq, signal, link, dial, connects, subscribed, lost, commands, host,
                  birthVars, ppc, queue, rpc, cpc, cdev, ctxDone>>
  BY DEF vars, pahoVars, publishVars, callerVars
<1>2. TypeOK'
  BY <1>1 DEF birthVars, Inv, TypeOK
<1>3. BirthParts'
  BY <1>1, QuietBirths DEF BeforeStop
<1>4. SubscribeInv'
  BY <1>1 DEF Inv, SubscribeInv
<1> QED BY <1>2, <1>3, <1>4 DEF Inv, BirthParts

\* The inductive invariant of the edge node holds in every reachable state.
THEOREM EdgeInvariant == Spec => []Inv
<1>1. Inv /\ [Next]_vars => Inv'
  <2> SUFFICES ASSUME Inv, [Next]_vars PROVE Inv'
    OBVIOUS
  <2>1. CASE Start
    BY <2>1, StartInv
  <2>2. CASE Stop \/ CancelCtx
    BY <2>2, StopInv
  <2>3. CASE Paho
    BY <2>3, PahoInv
  <2>4. CASE \E b \in Birther: publishBirths(b)
    BY <2>4, BirthStepInv
  <2>5. CASE HandleTagUpdate \/ publishLoop \/ reconnectLoop
    BY <2>5, LoopsInv
  <2>6. CASE UNCHANGED vars
    BY <2>6, StutterInv
  <2> QED BY <2>1, <2>2, <2>3, <2>4, <2>5, <2>6 DEF Next, Ended
<1> QED BY InitInv, <1>1, PTL DEF Spec

\* The state of the node keeps its types: bdSeq counts at most two births per
\* connection and one per command, the queue stays within its capacity.
THEOREM TypeCorrect == Spec => []TypeOK
<1>1. Inv => TypeOK
  BY DEF Inv
<1> QED BY <1>1, EdgeInvariant, PTL

\* However onConnect, reconnectLoop and the NCMD handlers overlap in
\* publishBirths, no two births carry the same bdSeq.
THEOREM BirthsDistinct == Spec => []BirthsAreDistinct
<1>1. Inv => BirthsAreDistinct
  BY DEF Inv, NumberInv
<1> QED BY <1>1, EdgeInvariant, PTL

\* The state machine is ONLINE only after the host has received an NBIRTH.
THEOREM OnlineIsBorn == Spec => []OnlineAfterBirth
<1>1. Inv => OnlineAfterBirth
  BY DEF Inv, OnlineInv
<1> QED BY <1>1, EdgeInvariant, PTL

\* A connected node with no callback, birth or reconnect in progress is known
\* to the host with all its devices, and has subscribed to commands.
THEOREM SettledBorn == Spec => []SettledIsBorn
<1>1. Inv => SettledIsBorn
  <2> SUFFICES ASSUME Inv, Settled, link PROVE host.alive /\ host.born = DeviceSet /\ subscribed
    BY DEF SettledIsBorn
  <2>1. \A b \in Birther: ~PreBirth(b) /\ \A i \in 1..Len(Device): ~Owes(b, i)
    BY DEF Settled, PreBirth, InDevices, Owes
  <2>2. host.alive /\ \A i \in 1..Len(Device): Device[i] \in host.born
    BY <2>1 DEF Inv, BornInv, BeforeStop, Settled
  <2>3. host.born \subseteq DeviceSet
    BY DEF Inv, TypeOK
  <2>4. subscribed
    BY DEF Inv, SubscribeInv, Settled
  <2> QED BY <2>2, <2>3, <2>4 DEF DeviceSet
<1> QED BY <1>1, EdgeInvariant, PTL
=============================================================================
