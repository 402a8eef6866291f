------------------------------- MODULE EdgeNode -------------------------------
(***************************************************************************)
(* The Sparkplug B edge node (internal/sparkplug/edge_node.go, state.go)   *)
(* on the MQTT client (internal/mqtt/client.go) and paho.                  *)
(*                                                                         *)
(* Four kinds of goroutines share the state machine, the birth counter and *)
(* the connection: publishLoop, reconnectLoop, the caller of Start and     *)
(* then Stop, and the goroutines paho starts for its callbacks: onConnect  *)
(* (one per connection), onConnectionLost and the NCMD handlers.           *)
(* publishBirths runs in reconnectLoop, in onConnect and in the NCMD       *)
(* handler; each run of it is a birther with locals of its own.            *)
(*                                                                         *)
(* Every atomic operation and every MQTT publish is a step of its own; of  *)
(* an NBIRTH also its acknowledgement, which a lost connection can cut off *)
(* after delivery.  A publish or a subscription the broker refuses comes   *)
(* back as an error.  The broker and a host application that follows the   *)
(* node's messages are external: host is what the delivered messages tell  *)
(* the host.  The sequence number in each message (seq.go) is data that no *)
(* branch of the code reads, and is left out.                              *)
(*                                                                         *)
(* Assumed: a clean session, mqtt.cleanSession of loader.go, on unless the *)
(* configuration says otherwise.  The broker then drops the subscriptions  *)
(* with the connection, and paho completes every publish under way with an *)
(* error; without it a publish waits for the next connection.              *)
(***************************************************************************)
EXTENDS Integers, Sequences, FiniteSets

CONSTANTS
    Device,       \* the devices of the node, a sequence
    QueueCap,     \* capacity of the updates channel: 256 in NewEdgeNode
    MaxConnects,  \* bound: connections paho establishes
    MaxCommands,  \* bound: NCMD rebirth commands
    MaxEvents     \* bound: births begun, two per connection, one per command

ASSUME EdgeAssumption ==
    /\ QueueCap \in Nat \ {0}
    /\ MaxConnects \in Nat \ {0} /\ MaxCommands \in Nat /\ MaxEvents \in Nat
    /\ Len(Device) \in Nat
    /\ \A i, j \in 1..Len(Device): Device[i] = Device[j] => i = j

\* Birthers: reconnectLoop, the onConnect goroutine of each connection, and,
\* as SetOrderMatters(false) has it, a goroutine for each NCMD.
Loop == 0
Hook(n) == n
Handler(n) == MaxConnects + n
Birther == 0..(MaxConnects + MaxCommands)

MaxBirths == 2 * MaxConnects + MaxCommands
DeviceIndex == 1..(Len(Device) + 1)
DeviceSet == {Device[i] : i \in 1..Len(Device)}

VARIABLES
    sm,          \* the state machine
    bdSeq,       \* birth-death sequence counter
    queue,       \* length of the updates channel
    signal,      \* reconnectCh holds a signal
    \* ---- paho and the broker
    link,        \* client.IsConnected()
    dial,        \* paho is establishing a connection
    connects,    \* connections established so far
    subscribed,  \* NCMD and DCMD have been subscribed to on this connection
    lost,        \* an onConnectionLost callback is due
    commands,    \* rebirth commands received
    host,        \* what the host application knows of the node
    \* ---- goroutines
    bpc, bd, bdev,  \* publishBirths, per birther
    ppc,         \* publishLoop
    rpc,         \* reconnectLoop
    cpc, cdev,   \* the caller of Start and Stop
    ctxDone      \* the context given to Start is cancelled

pahoVars == <<link, dial, connects, subscribed, lost, commands>>
birthVars == <<bpc, bd, bdev>>
publishVars == <<ppc, queue>>
callerVars == <<cpc, cdev, ctxDone>>
vars == <<sm, bdSeq, signal, pahoVars, host, birthVars, publishVars, rpc, callerVars>>

BirthPc == {"none", "add", "nbirth", "nack", "nfail", "dbirth", "online"}
CallerPc == {"new", "connect", "subscribe", "running", "failed", "ddeath",
             "disconnect", "wait", "returned"}

TypeOK ==
    /\ sm \in {"Offline", "Connecting", "Online"}
    /\ bdSeq \in 0..MaxBirths
    /\ queue \in 0..QueueCap
    /\ {signal, link, dial, subscribed, lost, ctxDone} \subseteq BOOLEAN
    /\ connects \in 0..MaxConnects
    /\ commands \in 0..MaxCommands
    /\ host \in [bd: 0..MaxBirths, alive: BOOLEAN, born: SUBSET DeviceSet]
    /\ bpc \in [Birther -> BirthPc]
    /\ bd \in [Birther -> 0..MaxBirths]
    /\ bdev \in [Birther -> DeviceIndex]
    /\ ppc \in {"none", "wait", "publish", "exited"}
    /\ rpc \in {"none", "wait", "retry", "resubscribe", "births", "exited"}
    /\ cpc \in CallerPc
    /\ cdev \in DeviceIndex

-----------------------------------------------------------------------------
\* state.go: invalid transitions are ignored.
transition(from, event) ==
    CASE from = "Offline" /\ event = "ConnectAttempt"    -> "Connecting"
      [] from = "Connecting" /\ event = "ConnectSuccess" -> "Online"
      [] from = "Connecting" /\ event = "ConnectFail"    -> "Offline"
      [] from = "Online" /\ event = "Disconnect"         -> "Offline"
      [] from = "Online" /\ event = "ConnectionLost"     -> "Offline"
      [] OTHER -> from

Transition(event) == sm' = transition(sm, event)

\* Mutant: done is closed after wg.Wait.
doneLate == cpc = "returned"

\* close(e.done) has happened.
done == cpc \in {"wait", "returned"}

Init ==
    /\ sm = "Offline"
    /\ bdSeq = 0
    /\ queue = 0 /\ signal = FALSE
    /\ link = FALSE /\ dial = FALSE /\ connects = 0
    /\ subscribed = FALSE /\ lost = FALSE /\ commands = 0
    /\ host = [bd |-> 0, alive |-> FALSE, born |-> {}]
    /\ bpc = [b \in Birther |-> "none"]
    /\ bd = [b \in Birther |-> 0]
    /\ bdev = [b \in Birther |-> 1]
    /\ ppc = "none"
    /\ rpc = "none"
    /\ cpc = "new" /\ cdev = 1 /\ ctxDone = FALSE

-----------------------------------------------------------------------------
(* The client and the host. *)

\* Subscribe fails without a connection.  With one the broker may still refuse
\* it; the error is only logged, and such a broker sends no commands.
Subscribe == subscribed' = link

\* The Will is built once, with bdSeq 0, and paho cannot change it later.
WillBdSeq == 0

\* A host acts on the death of the birth it saw last, and on no other.
HostDeath(n) == host' = IF host.bd = n THEN [host EXCEPT !.alive = FALSE, !.born = {}] ELSE host

\* paho fails the NBIRTHs that still wait for their PUBACK.
CutPublishes == bpc' = [b \in Birther |-> IF bpc[b] = "nack" THEN "nfail" ELSE bpc[b]]

-----------------------------------------------------------------------------
(* Start(ctx). *)

\* EventConnectAttempt, then client.Connect starts paho's dial unless ctx is
\* already done.
StartConnect ==
    /\ cpc = "new"
    /\ Transition("ConnectAttempt")
    /\ dial' = ~ctxDone
    /\ cpc' = "connect"
    /\ UNCHANGED <<bdSeq, signal, link, connects, subscribed, lost, commands,
                   host, birthVars, publishVars, rpc, cdev, ctxDone>>

\* client.Connect returns an error: the dial was refused or ctx is done.
StartFail ==
    /\ cpc = "connect"
    /\ ~link
    /\ ~dial \/ ctxDone
    /\ Transition("ConnectFail")
    /\ cpc' = "failed"
    /\ UNCHANGED <<bdSeq, signal, pahoVars, host, birthVars, publishVars,
                   rpc, cdev, ctxDone>>

\* subscribeCommands (its error is only logged), then both loops start.
StartLoops ==
    /\ cpc = "subscribe"
    /\ Subscribe
    /\ ppc' = "wait"
    /\ rpc' = "wait"
    /\ cpc' = "running"
    /\ UNCHANGED <<sm, bdSeq, signal, link, dial, connects, lost, commands,
                   host, birthVars, queue, cdev, ctxDone>>

-----------------------------------------------------------------------------
(* paho and the broker (external). *)

\* The connection is up: paho starts the OnConnect goroutine, and whoever
\* waits in client.Connect goes on.  A dial whose caller gave up on ctx may
\* still come up.
PahoConnected ==
    /\ dial
    /\ connects < MaxConnects /\ 2 * connects + 2 + commands <= MaxEvents
    /\ dial' = FALSE
    /\ link' = TRUE
    /\ connects' = connects + 1
    /\ bpc' = [bpc EXCEPT ![Hook(connects + 1)] = "add"]
    /\ cpc' = IF cpc = "connect" THEN "subscribe" ELSE cpc
    /\ rpc' = IF rpc = "retry" THEN "resubscribe" ELSE rpc
    /\ UNCHANGED <<sm, bdSeq, signal, subscribed, lost, commands, host, bd,
                   bdev, publishVars, cdev, ctxDone>>

PahoRefused ==
    /\ dial
    /\ dial' = FALSE
    /\ UNCHANGED <<sm, bdSeq, signal, link, connects, subscribed, lost,
                   commands, host, birthVars, publishVars, rpc, callerVars>>

\* The connection breaks.  The broker drops the clean session's subscriptions
\* and publishes the Will.
LinkLost ==
    /\ link
    /\ link' = FALSE
    /\ subscribed' = FALSE
    /\ lost' = TRUE
    /\ HostDeath(WillBdSeq)
    /\ CutPublishes
    /\ UNCHANGED <<sm, bdSeq, signal, dial, connects, commands, bd, bdev,
                   publishVars, rpc, callerVars>>

\* onConnectionLost: nobody reads the state and reconnectCh together, so its
\* two effects are one step.
onConnectionLost ==
    /\ lost
    /\ lost' = FALSE
    /\ Transition("ConnectionLost")
    /\ signal' = TRUE
    /\ UNCHANGED <<bdSeq, link, dial, connects, subscribed, commands, host,
                   birthVars, publishVars, rpc, callerVars>>

\* An NCMD with Node Control/Rebirth = true arrives, in a goroutine of its own
\* whether or not the handlers of earlier ones have returned.
handleNCMD ==
    /\ link /\ subscribed
    /\ commands < MaxCommands /\ 2 * connects + commands < MaxEvents
    /\ commands' = commands + 1
    /\ bpc' = [bpc EXCEPT ![Handler(commands + 1)] = "add"]
    /\ UNCHANGED <<sm, bdSeq, signal, link, dial, connects, subscribed, lost,
                   host, bd, bdev, publishVars, rpc, callerVars>>

-----------------------------------------------------------------------------
(* publishBirths, run by birther b. *)

BirthUnchanged == <<signal, pahoVars, publishVars, rpc, callerVars>>

\* Mutant: a later birth reuses the bdSeq of the first.
BirthAddReuses(b) ==
    /\ bpc[b] = "add"
    /\ bdSeq' = 1
    /\ bd' = [bd EXCEPT ![b] = 1]
    /\ bpc' = [bpc EXCEPT ![b] = "nbirth"]
    /\ UNCHANGED <<sm, host, bdev, BirthUnchanged>>

\* bdSeq.Add(1).
BirthAdd(b) ==
    /\ bpc[b] = "add"
    /\ bdSeq' = bdSeq + 1
    /\ bd' = [bd EXCEPT ![b] = bdSeq + 1]
    /\ bpc' = [bpc EXCEPT ![b] = "nbirth"]
    /\ UNCHANGED <<sm, host, bdev, BirthUnchanged>>

\* After NBIRTH or a DBIRTH: the next device, or EventConnectSuccess.
NextDevice(b, i) ==
    /\ bdev' = [bdev EXCEPT ![b] = i]
    /\ bpc' = [bpc EXCEPT ![b] = IF i <= Len(Device) THEN "dbirth" ELSE "online"]

\* publishBirths returns; its locals are gone.
BirthEnd(b) ==
    /\ bpc' = [bpc EXCEPT ![b] = "none"]
    /\ bd' = [bd EXCEPT ![b] = 0]
    /\ bdev' = [bdev EXCEPT ![b] = 1]

\* NBIRTH is delivered: the host forgets the devices of the former birth.
PublishNBIRTH(b) ==
    /\ bpc[b] = "nbirth"
    /\ link
    /\ host' = [bd |-> bd[b], alive |-> TRUE, born |-> {}]
    /\ bd' = [bd EXCEPT ![b] = 0]
    /\ bpc' = [bpc EXCEPT ![b] = "nack"]
    /\ UNCHANGED <<sm, bdSeq, bdev, BirthUnchanged>>

\* There is no connection for NBIRTH, or it broke before NBIRTH was delivered.
RefuseNBIRTH(b) ==
    /\ bpc[b] = "nbirth"
    /\ ~link
    /\ bpc' = [bpc EXCEPT ![b] = "nfail"]
    /\ UNCHANGED <<sm, bdSeq, host, bd, bdev, BirthUnchanged>>

\* The PUBACK arrives: client.Publish returns nil.
AckNBIRTH(b) ==
    /\ bpc[b] = "nack"
    /\ NextDevice(b, 1)
    /\ UNCHANGED <<sm, bdSeq, host, bd, BirthUnchanged>>

\* Mutant: a failed NBIRTH is logged and skipped, as a failed DBIRTH is.
FailNBIRTHGoesOn(b) ==
    /\ bpc[b] = "nfail"
    /\ bd' = [bd EXCEPT ![b] = 0]
    /\ NextDevice(b, 1)
    /\ UNCHANGED <<sm, bdSeq, host, BirthUnchanged>>

\* client.Publish of NBIRTH returns an error: EventConnectFail and return.
FailNBIRTH(b) ==
    /\ bpc[b] = "nfail"
    /\ Transition("ConnectFail")
    /\ BirthEnd(b)
    /\ UNCHANGED <<bdSeq, host, BirthUnchanged>>

\* DBIRTH of the next device; a failed publish is logged and skipped, so that
\* it does not matter whether one that is cut off was delivered and when its
\* publisher learns of it.
PublishDBIRTH(b) ==
    /\ bpc[b] = "dbirth"
    /\ host' = IF link THEN [host EXCEPT !.born = @ \cup {Device[bdev[b]]}] ELSE host
    /\ NextDevice(b, bdev[b] + 1)
    /\ UNCHANGED <<sm, bdSeq, bd, BirthUnchanged>>

\* EventConnectSuccess and return.
BirthOnline(b) ==
    /\ bpc[b] = "online"
    /\ Transition("ConnectSuccess")
    /\ BirthEnd(b)
    /\ UNCHANGED <<bdSeq, host, BirthUnchanged>>

publishBirths(b) ==
    \/ BirthAdd(b) \/ PublishNBIRTH(b) \/ RefuseNBIRTH(b) \/ AckNBIRTH(b) \/ FailNBIRTH(b)
    \/ PublishDBIRTH(b) \/ BirthOnline(b)

-----------------------------------------------------------------------------
(* HandleTagUpdate and publishLoop. *)

\* Mutant: an update that finds the channel full is queued all the same.
HandleTagUpdateUnbounded ==
    /\ sm = "Online"
    /\ queue' = queue + 1
    /\ UNCHANGED <<sm, bdSeq, signal, pahoVars, host, birthVars, ppc, rpc, callerVars>>

\* An update is queued when the node is ONLINE and the channel has room, and
\* dropped otherwise; the scan loop never blocks here.
HandleTagUpdate ==
    /\ sm = "Online"
    /\ queue < QueueCap
    /\ queue' = queue + 1
    /\ UNCHANGED <<sm, bdSeq, signal, pahoVars, host, birthVars, ppc,
                   rpc, callerVars>>

LoopUnchanged == <<sm, signal, bdSeq, pahoVars, host, birthVars, rpc, callerVars>>

\* An update is taken and passes the ONLINE gate, or is dropped there.
PublishTake ==
    /\ ppc = "wait"
    /\ queue > 0
    /\ queue' = queue - 1
    /\ ppc' = IF sm = "Online" THEN "publish" ELSE "wait"
    /\ UNCHANGED <<LoopUnchanged>>

\* DDATA goes out when the client is connected; otherwise it is lost.
PublishDDATA ==
    /\ ppc = "publish"
    /\ ppc' = "wait"
    /\ UNCHANGED <<queue, LoopUnchanged>>

PublishExit ==
    /\ ppc = "wait"
    /\ done
    /\ ppc' = "exited"
    /\ UNCHANGED <<queue, LoopUnchanged>>

publishLoop == PublishTake \/ PublishDDATA \/ PublishExit

-----------------------------------------------------------------------------
(* reconnectLoop. *)

ReconnectUnchanged == <<sm, bdSeq, host, publishVars, callerVars>>

\* A loss signal is taken; retry.Do calls client.Connect.
ReconnectTake ==
    /\ rpc = "wait"
    /\ signal
    /\ signal' = FALSE
    /\ rpc' = "retry"
    /\ UNCHANGED <<pahoVars, birthVars, ReconnectUnchanged>>

\* Each attempt of retry.Do is a dial of paho.
ReconnectDial ==
    /\ rpc = "retry"
    /\ ~dial /\ ~link
    /\ ~(done \/ ctxDone)
    /\ dial' = TRUE
    /\ UNCHANGED <<signal, link, connects, subscribed, lost, commands, birthVars,
                   rpc, ReconnectUnchanged>>

\* The loop returns on done or ctx, from its select or out of retry.Do.
ReconnectExit ==
    /\ rpc \in {"wait", "retry"}
    /\ done \/ ctxDone
    /\ rpc' = "exited"
    /\ UNCHANGED <<signal, pahoVars, birthVars, ReconnectUnchanged>>

\* Mutant: the subscriptions are not renewed.
ReconnectBirthsOnly ==
    /\ rpc = "resubscribe"
    /\ bpc' = [bpc EXCEPT ![Loop] = "add"]
    /\ rpc' = "births"
    /\ UNCHANGED <<signal, pahoVars, bd, bdev, ReconnectUnchanged>>

\* resubscribeCommands, then publishBirths in this goroutine.
ReconnectBirths ==
    /\ rpc = "resubscribe"
    /\ Subscribe
    /\ bpc' = [bpc EXCEPT ![Loop] = "add"]
    /\ rpc' = "births"
    /\ UNCHANGED <<signal, link, dial, connects, lost, commands, bd, bdev,
                   ReconnectUnchanged>>

\* publishBirths has returned; a signal that is there by now is dropped.
ReconnectDrain ==
    /\ rpc = "births"
    /\ bpc[Loop] = "none"
    /\ signal' = FALSE
    /\ rpc' = "wait"
    /\ UNCHANGED <<pahoVars, birthVars, ReconnectUnchanged>>

reconnectLoop ==
    \/ ReconnectTake \/ ReconnectDial \/ ReconnectExit
    \/ ReconnectBirths \/ ReconnectDrain

-----------------------------------------------------------------------------
(* Stop.  Server.Run calls it after its context is cancelled. *)

CancelCtx ==
    /\ ~ctxDone
    /\ ctxDone' = TRUE
    /\ UNCHANGED <<sm, bdSeq, signal, pahoVars, host, birthVars, publishVars,
                   rpc, cpc, cdev>>

StopUnchanged == <<bdSeq, signal, birthVars, publishVars, rpc, ctxDone>>

StopBegin ==
    /\ cpc \in {"running", "failed"}
    /\ ctxDone
    /\ cpc' = "ddeath"
    /\ UNCHANGED <<sm, pahoVars, host, cdev, StopUnchanged>>

\* DDEATH of every device in turn.
StopDDEATH ==
    /\ cpc = "ddeath"
    /\ cdev <= Len(Device)
    /\ host' = IF link THEN [host EXCEPT !.born = @ \ {Device[cdev]}] ELSE host
    /\ cdev' = cdev + 1
    /\ UNCHANGED <<sm, pahoVars, cpc, StopUnchanged>>

\* NDEATH with the current bdSeq; the host acts on it when it is the bdSeq of
\* the last birth it saw.
StopNDEATH ==
    /\ cpc = "ddeath"
    /\ cdev > Len(Device)
    /\ IF link THEN HostDeath(bdSeq) ELSE UNCHANGED host
    /\ cpc' = "disconnect"
    /\ UNCHANGED <<sm, pahoVars, cdev, StopUnchanged>>

\* EventDisconnect, close(done).
StopSignal ==
    /\ cpc = "disconnect"
    /\ Transition("Disconnect")
    /\ cpc' = "wait"
    /\ UNCHANGED <<pahoVars, host, cdev, StopUnchanged>>

\* wg.Wait returns; client.Disconnect, which also abandons a dial.
StopReturn ==
    /\ cpc = "wait"
    /\ ppc \in {"none", "exited"} /\ rpc \in {"none", "exited"}
    /\ link' = FALSE /\ dial' = FALSE /\ subscribed' = FALSE
    /\ CutPublishes
    /\ cpc' = "returned"
    /\ UNCHANGED <<sm, host, connects, lost, commands, cdev, bdSeq, signal,
                   bd, bdev, publishVars, rpc, ctxDone>>

Stop == StopBegin \/ StopDDEATH \/ StopNDEATH \/ StopSignal \/ StopReturn

\* The node has stopped and every goroutine of it has ended.
Ended ==
    /\ cpc = "returned" /\ ~lost
    /\ \A b \in Birther: bpc[b] = "none"
    /\ UNCHANGED vars

-----------------------------------------------------------------------------
Start == StartConnect \/ StartFail \/ StartLoops

Paho ==
    \/ PahoConnected \/ PahoRefused \/ LinkLost
    \/ onConnectionLost \/ handleNCMD

Next ==
    \/ Start \/ Stop \/ CancelCtx \/ Paho
    \/ \E b \in Birther: publishBirths(b)
    \/ HandleTagUpdate \/ publishLoop \/ reconnectLoop
    \/ Ended

Spec == Init /\ [][Next]_vars

(***************************************************************************)
(* Fairness: the two loops and the caller of Stop are scheduled, a publish *)
(* is acknowledged unless its connection breaks (keep-alive), and the      *)
(* select of publishLoop does not pass over done for ever.  PahoFairness:  *)
(* so are the goroutines of paho's callbacks, and a dial ends.  That a     *)
(* broker which is dialled again and again accepts some dial is an         *)
(* assumption on the environment (BrokerAccepts).                          *)
(***************************************************************************)
Fairness ==
    /\ WF_vars(StopDDEATH \/ StopNDEATH \/ StopSignal \/ StopReturn)
    /\ WF_vars(reconnectLoop \/ publishBirths(Loop))
    /\ WF_vars(publishLoop) /\ SF_vars(PublishExit)

PahoFairness ==
    /\ WF_vars(Start) /\ WF_vars(PahoConnected \/ PahoRefused)
    /\ WF_vars(onConnectionLost)
    /\ \A b \in Birther: WF_vars(publishBirths(b))
    /\ WF_vars(ReconnectExit)

BrokerAccepts == SF_vars(PahoConnected)

FairSpec == Spec /\ Fairness

BrokerSpec == FairSpec /\ PahoFairness /\ BrokerAccepts

-----------------------------------------------------------------------------
(* Properties. *)

\* The node runs, and no callback, birth or reconnect is in progress.
Settled ==
    /\ cpc = "running" /\ ~ctxDone
    /\ ~lost /\ ~signal /\ ~dial
    /\ \A b \in Birther: bpc[b] = "none"
    /\ rpc = "wait"

\* Once the callbacks have run, a connected node that has not begun to stop
\* is completely born and has subscribed to commands on this connection: the
\* host has seen an NBIRTH and a DBIRTH of every device after it, although
\* several goroutines publish births at once and any of them may lose the
\* connection half way, also between an NBIRTH and its acknowledgement.
SettledIsBorn ==
    Settled /\ link =>
        host.alive /\ host.born = DeviceSet /\ subscribed

\* ONLINE is only reached through a birth the host received.
OnlineAfterBirth == sm = "Online" => host.bd # 0

\* Births that overlap never share a bdSeq: an NBIRTH differs from the last
\* one delivered and from every one still to be published.
BirthsAreDistinct ==
    \A b \in Birther: bd[b] # 0 =>
        /\ bd[b] # host.bd
        /\ \A c \in Birther \ {b}: bd[c] # bd[b]

\* Stop returns although publishes, callbacks and a reconnect may be under way.
StopReturns == cpc \in {"ddeath", "disconnect", "wait"} ~> cpc = "returned"

-----------------------------------------------------------------------------
(* What the documents say and the code does not guarantee. *)

\* MQTT-1.3: on every connect, the state machine goes to ONLINE after NBIRTH
\* and all DBIRTHs are published.
SettledIsOnline == Settled /\ link => sm = "Online"

\* reconnectLoop "waits for connection-loss signals and attempts reconnect":
\* a lost connection comes back while the node runs and connections remain
\* within the bound.
LostLinkIsRestored ==
    cpc = "running" /\ ~link /\ connects < MaxConnects ~> link \/ ctxDone
=============================================================================
