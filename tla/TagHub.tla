-------------------------------- MODULE TagHub --------------------------------
(***************************************************************************)
(* Realtime tag updates: the hub of internal/server/tag_hub.go and one     *)
(* WebSocket connection per element of Conn (handleTagsWebSocket, api.go). *)
(*                                                                         *)
(* Publishers are the scan goroutines of the PLC manager, which call       *)
(* publish from their callback; a connection is two goroutines, the        *)
(* handler, which reads the client's messages and answers, and the writer, *)
(* which forwards updates and pings.  Both write under writeMu.  The hub's *)
(* RWMutex is Go's: a goroutine that waits in Lock keeps new readers out.  *)
(*                                                                         *)
(* An update is its source and a number that counts the updates of that    *)
(* source; a filter is the set of sources it lets through ({} after        *)
(* unsubscribe, or when it names a tag that no PLC has).                   *)
(***************************************************************************)
EXTENDS Integers, Sequences, ServerRun

CONSTANTS
    Source,     \* scan goroutines, one per PLC
    Conn,       \* WebSocket connections
    Cap,        \* capacity of a subscriber's channel (16)
    MaxUpdates  \* bound: updates of one source

ASSUME TagHubAssumption == Cap \in Nat \ {0} /\ MaxUpdates \in Nat \ {0}

VARIABLES
    scan,       \* where each scan goroutine is
    count,      \* updates that each source has emitted
    todo,       \* subscribers a publish has still to visit
    clients,    \* hub.clients
    filter,     \* filter of each subscriber
    ch,         \* channel of each subscriber
    closed,     \* close(sub.ch) has run
    handler,    \* where the handler of each connection is
    writer,     \* where its writer goroutine is
    msg,        \* what the writer is about to send
    mu,         \* who holds writeMu
    cancelled,  \* the connection's context is cancelled
    link,       \* the TCP connection: "up", "stalled" (peer does not read), "dead"
    seen        \* history: number of the last update of each source sent

hubVars == <<scan, count, todo, clients, filter, ch, closed>>
connVars == <<handler, writer, msg, mu, cancelled, link, seen>>

Update == [src: Source, n: 1..MaxUpdates]
Ping == [src |-> "ping", n |-> 0]
Filter == {Source, {}} \cup {{s}: s \in Source}

HubTypeOK ==
    /\ scan \in [Source -> {"off", "scan", "rlock", "publish", "ended"}]
    /\ count \in [Source -> 0..MaxUpdates]
    /\ todo \in [Source -> SUBSET Conn]
    /\ clients \subseteq Conn
    /\ filter \in [Conn -> Filter]
    /\ ch \in [Conn -> Seq(Update)] /\ \A c \in Conn: Len(ch[c]) <= Cap
    /\ closed \in [Conn -> BOOLEAN]
    /\ handler \in [Conn -> {"none", "auth", "register", "reply", "send", "read",
                             "unregister", "gone"}]
    /\ writer \in [Conn -> {"none", "select", "write", "send", "gone"}]
    /\ msg \in [Conn -> Update \cup {Ping}]
    /\ mu \in [Conn -> {"free", "handler", "writer"}]
    /\ cancelled \in [Conn -> BOOLEAN]
    /\ link \in [Conn -> {"up", "stalled", "dead"}]
    /\ seen \in [Conn -> [Source -> 0..MaxUpdates]]

HubInit ==
    /\ scan = [s \in Source |-> "off"]
    /\ count = [s \in Source |-> 0]
    /\ todo = [s \in Source |-> {}]
    /\ clients = {}
    /\ filter = [c \in Conn |-> {}]
    /\ ch = [c \in Conn |-> <<>>]
    /\ closed = [c \in Conn |-> FALSE]
    /\ handler = [c \in Conn |-> "none"]
    /\ writer = [c \in Conn |-> "none"]
    /\ msg = [c \in Conn |-> Ping]
    /\ mu = [c \in Conn |-> "free"]
    /\ cancelled = [c \in Conn |-> FALSE]
    /\ link = [c \in Conn |-> "up"]
    /\ seen = [c \in Conn |-> [s \in Source |-> 0]]

-----------------------------------------------------------------------------
(* The hub. *)

Readers == {s \in Source: scan[s] = "publish"}

\* A handler in hub.mu.Lock.
LockPending == \E c \in Conn: handler[c] \in {"register", "unregister"}

\* Mutant: a full channel overwrites its oldest update in place.
OfferOverwrites(q, u) == IF Len(q) < Cap THEN Append(q, u) ELSE [q EXCEPT ![1] = u]

\* select { case sub.ch <- update: default: }: a full channel drops the newest.
Offer(q, u) == IF Len(q) < Cap THEN Append(q, u) ELSE q

\* The filter of c lets the updates of s through.
Matches(s, c) == s \in filter[c]

\* plcMgr.Start starts the scan goroutines.
ScanStart ==
    /\ scan' = [s \in Source |-> "scan"]
    /\ UNCHANGED <<count, todo, clients, filter, ch, closed, connVars>>

\* A scan has a new value and calls publish.
Publish(s) ==
    /\ scan[s] = "scan" /\ count[s] < MaxUpdates
    /\ scan' = [scan EXCEPT ![s] = "rlock"]
    /\ count' = [count EXCEPT ![s] = @ + 1]
    /\ UNCHANGED <<todo, clients, filter, ch, closed, connVars>>

\* RLock; the map cannot change while it is held.
PublishLock(s) ==
    /\ scan[s] = "rlock" /\ ~LockPending
    /\ scan' = [scan EXCEPT ![s] = "publish"]
    /\ todo' = [todo EXCEPT ![s] = clients]
    /\ UNCHANGED <<count, clients, filter, ch, closed, connVars>>

\* Mutant: a send that waits for room.
PublishToWaits(s, c) ==
    /\ scan[s] = "publish" /\ c \in todo[s]
    /\ s \in filter[c] => Len(ch[c]) < Cap
    /\ todo' = [todo EXCEPT ![s] = @ \ {c}]
    /\ ch' = IF s \in filter[c] THEN [ch EXCEPT ![c] = Append(@, [src |-> s, n |-> count[s]])] ELSE ch
    /\ UNCHANGED <<scan, count, clients, filter, closed, connVars>>

\* One round of the loop: matches, then the non-blocking send.
PublishTo(s, c) ==
    /\ scan[s] = "publish" /\ c \in todo[s]
    /\ todo' = [todo EXCEPT ![s] = @ \ {c}]
    /\ ch' = IF Matches(s, c) THEN [ch EXCEPT ![c] = Offer(@, [src |-> s, n |-> count[s]])] ELSE ch
    /\ UNCHANGED <<scan, count, clients, filter, closed, connVars>>

PublishEnd(s) ==
    /\ scan[s] = "publish" /\ todo[s] = {}
    /\ scan' = [scan EXCEPT ![s] = "scan"]
    /\ UNCHANGED <<count, todo, clients, filter, ch, closed, connVars>>

\* The scan loop sees its context cancelled between two publishes.
ScanExit(s) ==
    /\ scan[s] = "scan" /\ ctxDone
    /\ scan' = [scan EXCEPT ![s] = "ended"]
    /\ UNCHANGED <<count, todo, clients, filter, ch, closed, connVars>>

-----------------------------------------------------------------------------
(* The handler of a connection. *)

HandlerTo(c, p) == handler' = [handler EXCEPT ![c] = p]

\* websocket.Accept: an upgrade of a new request.
Accept(c) ==
    /\ handler[c] = "none" /\ Accepting
    /\ HandlerTo(c, "auth")
    /\ UNCHANGED <<hubVars, writer, msg, mu, cancelled, link, seen>>

\* The auth frame is read and valid, and auth_ok is written.
AuthOk(c) ==
    /\ handler[c] = "auth" /\ link[c] = "up"
    /\ HandlerTo(c, "register")
    /\ UNCHANGED <<hubVars, writer, msg, mu, cancelled, link, seen>>

\* Missing, late or invalid frame, or a failed write: close and return.
AuthFail(c) ==
    /\ handler[c] = "auth"
    /\ HandlerTo(c, "gone")
    /\ link' = [link EXCEPT ![c] = "dead"]
    /\ UNCHANGED <<hubVars, writer, msg, mu, cancelled, seen>>

\* setFilter from the URL, register, start of the writer goroutine; the
\* answer "subscribed" is next.
Register(c, f) ==
    /\ handler[c] = "register" /\ Readers = {}
    /\ filter' = [filter EXCEPT ![c] = f]
    /\ clients' = clients \cup {c}
    /\ HandlerTo(c, "reply")
    /\ writer' = [writer EXCEPT ![c] = "select"]
    /\ UNCHANGED <<scan, count, todo, ch, closed, msg, mu, cancelled, link, seen>>

\* wsjson.Read returns a message: subscribe and unsubscribe set the filter,
\* ping and anything else are only answered.
Read(c, f) ==
    /\ handler[c] = "read" /\ link[c] # "dead"
    /\ filter' = [filter EXCEPT ![c] = f]
    /\ HandlerTo(c, "reply")
    /\ UNCHANGED <<scan, count, todo, clients, ch, closed, writer, msg, mu, cancelled, link, seen>>

\* The way out of the handler: the deferred cancel, then unregister.
Leave(c) ==
    /\ HandlerTo(c, "unregister")
    /\ cancelled' = [cancelled EXCEPT ![c] = TRUE]

\* The connection broke, or the context is cancelled (select or Read).
ReadFail(c) ==
    /\ handler[c] = "read" /\ (link[c] = "dead" \/ cancelled[c])
    /\ Leave(c)
    /\ UNCHANGED <<hubVars, writer, msg, mu, link, seen>>

\* The answer: writeMu, then wsjson.Write.
ReplyLock(c) ==
    /\ handler[c] = "reply" /\ mu[c] = "free"
    /\ HandlerTo(c, "send")
    /\ mu' = [mu EXCEPT ![c] = "handler"]
    /\ UNCHANGED <<hubVars, writer, msg, cancelled, link, seen>>

ReplyOk(c) ==
    /\ handler[c] = "send" /\ link[c] = "up" /\ ~cancelled[c]
    /\ HandlerTo(c, "read")
    /\ mu' = [mu EXCEPT ![c] = "free"]
    /\ UNCHANGED <<hubVars, writer, msg, cancelled, link, seen>>

ReplyFail(c) ==
    /\ handler[c] = "send" /\ (link[c] = "dead" \/ cancelled[c])
    /\ Leave(c)
    /\ mu' = [mu EXCEPT ![c] = "free"]
    /\ UNCHANGED <<hubVars, writer, msg, link, seen>>

\* Mutant: the channel is closed without waiting for publishes under way.
UnregisterNoLock(c) ==
    /\ handler[c] = "unregister"
    /\ clients' = clients \ {c}
    /\ closed' = [closed EXCEPT ![c] = TRUE]
    /\ HandlerTo(c, "gone")
    /\ link' = [link EXCEPT ![c] = "dead"]
    /\ UNCHANGED <<scan, count, todo, filter, ch, writer, msg, mu, cancelled, seen>>

\* delete and close under the lock; then the deferred conn.Close.
Unregister(c) ==
    /\ handler[c] = "unregister" /\ Readers = {}
    /\ clients' = clients \ {c}
    /\ closed' = [closed EXCEPT ![c] = TRUE]
    /\ HandlerTo(c, "gone")
    /\ link' = [link EXCEPT ![c] = "dead"]
    /\ UNCHANGED <<scan, count, todo, filter, ch, writer, msg, mu, cancelled, seen>>

-----------------------------------------------------------------------------
(* The writer goroutine of a connection. *)

WriterTo(c, p) == writer' = [writer EXCEPT ![c] = p]

WriterTake(c) ==
    /\ writer[c] = "select" /\ ch[c] # <<>>
    /\ msg' = [msg EXCEPT ![c] = Head(ch[c])]
    /\ ch' = [ch EXCEPT ![c] = Tail(@)]
    /\ WriterTo(c, "write")
    /\ UNCHANGED <<scan, count, todo, clients, filter, closed, handler, mu, cancelled, link, seen>>

\* ticker.C.
WriterPing(c) ==
    /\ writer[c] = "select"
    /\ msg' = [msg EXCEPT ![c] = Ping]
    /\ WriterTo(c, "write")
    /\ UNCHANGED <<hubVars, handler, mu, cancelled, link, seen>>

\* ctx.Done, or the closed and drained channel.
WriterExit(c) ==
    /\ writer[c] = "select" /\ (cancelled[c] \/ (closed[c] /\ ch[c] = <<>>))
    /\ WriterTo(c, "gone")
    /\ UNCHANGED <<hubVars, handler, msg, mu, cancelled, link, seen>>

WriteLock(c) ==
    /\ writer[c] = "write" /\ mu[c] = "free"
    /\ WriterTo(c, "send")
    /\ mu' = [mu EXCEPT ![c] = "writer"]
    /\ UNCHANGED <<hubVars, handler, msg, cancelled, link, seen>>

WriteOk(c) ==
    /\ writer[c] = "send" /\ link[c] = "up" /\ ~cancelled[c]
    /\ WriterTo(c, "select")
    /\ mu' = [mu EXCEPT ![c] = "free"]
    /\ msg' = [msg EXCEPT ![c] = Ping]
    /\ seen' = IF msg[c] = Ping THEN seen ELSE [seen EXCEPT ![c][msg[c].src] = msg[c].n]
    /\ UNCHANGED <<hubVars, handler, cancelled, link>>

\* Mutant: writeMu is not unlocked on the error path.
WriteFailKeepsMutex(c) ==
    /\ writer[c] = "send" /\ (link[c] = "dead" \/ cancelled[c])
    /\ WriterTo(c, "gone")
    /\ cancelled' = [cancelled EXCEPT ![c] = TRUE]
    /\ UNCHANGED <<hubVars, handler, msg, mu, link, seen>>

\* cancel(), writeErr <- err (a buffer of one), return.
WriteFail(c) ==
    /\ writer[c] = "send" /\ (link[c] = "dead" \/ cancelled[c])
    /\ WriterTo(c, "gone")
    /\ mu' = [mu EXCEPT ![c] = "free"]
    /\ cancelled' = [cancelled EXCEPT ![c] = TRUE]
    /\ msg' = [msg EXCEPT ![c] = Ping]
    /\ UNCHANGED <<hubVars, handler, link, seen>>

-----------------------------------------------------------------------------
(* The client and the network. *)

\* The peer stops reading, or reads again.
Stall(c) ==
    /\ handler[c] \notin {"none", "gone"} /\ link[c] # "dead"
    /\ link' = [link EXCEPT ![c] = IF @ = "up" THEN "stalled" ELSE "up"]
    /\ UNCHANGED <<hubVars, handler, writer, msg, mu, cancelled, seen>>

\* The connection is closed or reset.
Break(c) ==
    /\ handler[c] \notin {"none", "gone"} /\ link[c] # "dead"
    /\ link' = [link EXCEPT ![c] = "dead"]
    /\ UNCHANGED <<hubVars, handler, writer, msg, mu, cancelled, seen>>

-----------------------------------------------------------------------------
PublishSteps(s) == PublishLock(s) \/ (\E c \in Conn: PublishTo(s, c)) \/ PublishEnd(s)

\* What the handler does without waiting for the client.
HandlerSteps(c) ==
    \/ AuthFail(c) \/ (\E f \in Filter: Register(c, f)) \/ ReadFail(c)
    \/ ReplyLock(c) \/ ReplyOk(c) \/ ReplyFail(c) \/ Unregister(c)

WriterSteps(c) ==
    WriterTake(c) \/ WriterPing(c) \/ WriterExit(c) \/ WriteLock(c) \/ WriteOk(c) \/ WriteFail(c)

-----------------------------------------------------------------------------
(* Properties. *)

\* publish never sends on the channel of a subscriber that unregister has
\* closed (a panic of the scan goroutine), whenever the client leaves.
NoSendOnClosedSub == \A s \in Source: \A c \in todo[s]: c \in clients /\ ~closed[c]

\* A client sees the updates of a source in the order of the scans, none of
\* them twice: what waits in the writer's hand and in the channel is newer than
\* what was sent, and sorted, whatever was dropped in between.
DeliveredInOrder ==
    \A c \in Conn:
        LET held == IF writer[c] \in {"write", "send"} /\ msg[c] # Ping THEN <<msg[c]>> ELSE <<>>
            q == held \o ch[c]
        IN  \A i \in 1..Len(q):
               /\ q[i].n > seen[c][q[i].src]
               /\ \A j \in 1..(i-1): q[j].src = q[i].src => q[j].n < q[i].n

\* A slow, stalled or leaving client never holds up a scan: a scan goroutine
\* that called publish gets out of it (unless the process ends first).
ScanIsNotBlocked == \A s \in Source: scan[s] \in {"rlock", "publish"} ~> scan[s] \in {"scan", "ended"} \/ ~Alive

\* A connection that broke is forgotten: its subscriber leaves the hub and its
\* goroutines end, whatever they were doing when it broke.
DeadClientIsForgotten ==
    \A c \in Conn: link[c] = "dead" ~>
        \/ c \notin clients /\ handler[c] = "gone" /\ writer[c] \in {"none", "gone"}
        \/ ~Alive
=============================================================================
