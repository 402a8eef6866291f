----------------------------- MODULE TagHubProofs -----------------------------
(***************************************************************************)
(* What every step of TagHub preserves, for any number of scan goroutines  *)
(* and connections, any channel capacity and any bound MaxUpdates.         *)
(* GatewayProofs takes it from here to the composition.                    *)
(***************************************************************************)
EXTENDS TagHub, TLAPS

\* The steps of a scan goroutine and of a connection, with its client.
Scans(s) == Publish(s) \/ PublishSteps(s) \/ ScanExit(s)

Connects(c) ==
    \/ Accept(c) \/ AuthOk(c) \/ (\E f \in Filter: Read(c, f)) \/ Stall(c) \/ Break(c)
    \/ HandlerSteps(c) \/ WriterSteps(c)

(***************************************************************************)
(* The inductive invariant.  NoSendOnClosedSub follows from SubInv: a      *)
(* publish visits subscribers only while it holds the read lock, the       *)
(* subscribers in the map are those whose handler is between register and  *)
(* unregister, and only a handler that is gone has closed its channel.     *)
(***************************************************************************)
SubInv ==
    /\ \A s \in Source: todo[s] # {} => scan[s] = "publish"
    /\ \A s \in Source: todo[s] \subseteq clients
    /\ \A c \in clients: handler[c] \in {"reply", "send", "read", "unregister"}
    /\ \A c \in Conn: closed[c] => handler[c] = "gone"

\* A scan goroutine in publish has counted the update it carries.
CountInv == \A s \in Source: scan[s] \in {"rlock", "publish"} => count[s] >= 1

\* The writer of c has taken an update off the channel and not yet sent it.
Holding(c) == writer[c] \in {"write", "send"} /\ msg[c] # Ping

\* The newest update of s that c can have been offered: the scan goroutine
\* counts an update before it visits the subscribers.
Bound(s, c) ==
    IF scan[s] = "rlock" \/ (scan[s] = "publish" /\ c \in todo[s]) THEN count[s] - 1 ELSE count[s]

\* What c was sent, holds and has queued is no newer than that, ...
BoundInv ==
    \A s \in Source, c \in Conn:
        /\ seen[c][s] <= Bound(s, c)
        /\ Holding(c) /\ msg[c].src = s => msg[c].n <= Bound(s, c)
        /\ \A i \in 1..Len(ch[c]): ch[c][i].src = s => ch[c][i].n <= Bound(s, c)

\* ... and is sorted for each source.
OrderInv ==
    \A c \in Conn:
        /\ Holding(c) => msg[c].n > seen[c][msg[c].src]
        /\ \A i \in 1..Len(ch[c]):
              /\ ch[c][i].n > seen[c][ch[c][i].src]
              /\ Holding(c) /\ msg[c].src = ch[c][i].src => msg[c].n < ch[c][i].n
              /\ \A j \in 1..(i-1): ch[c][j].src = ch[c][i].src => ch[c][j].n < ch[c][i].n

HubInv == HubTypeOK /\ SubInv /\ CountInv /\ BoundInv /\ OrderInv

-----------------------------------------------------------------------------
LEMMA UpdateFields ==
    ASSUME NEW u \in Update
    PROVE  u.src \in Source /\ u.n \in 1..MaxUpdates /\ u # Ping
BY TagHubAssumption DEF Update, Ping

LEMMA OfferType ==
    ASSUME NEW q \in Seq(Update), Len(q) <= Cap, NEW u \in Update
    PROVE  /\ Offer(q, u) \in Seq(Update) /\ Len(Offer(q, u)) <= Cap
           /\ \/ Offer(q, u) = q
              \/ /\ Len(Offer(q, u)) = Len(q) + 1
                 /\ Offer(q, u)[Len(q) + 1] = u
                 /\ \A i \in 1..Len(q): Offer(q, u)[i] = q[i]
BY TagHubAssumption DEF Offer

LEMMA InitHub == HubInit => HubInv
<1> SUFFICES ASSUME HubInit PROVE HubInv
  OBVIOUS
<1>1. HubTypeOK
  BY TagHubAssumption DEF HubInit, HubTypeOK, Filter
<1>2. SubInv /\ CountInv
  BY DEF HubInit, SubInv, CountInv
<1>3. BoundInv /\ OrderInv
  BY DEF HubInit, BoundInv, OrderInv, Bound, Holding
<1> QED BY <1>1, <1>2, <1>3 DEF HubInv

\* One publish of s to c: the channel is as before, or one update longer.
LEMMA PublishToEffect ==
    ASSUME HubInv, NEW s \in Source, NEW c \in Conn, PublishTo(s, c)
    PROVE  /\ ch' \in [Conn -> Seq(Update)] /\ \A d \in Conn: Len(ch'[d]) <= Cap
           /\ \A d \in Conn: d # c => ch'[d] = ch[d]
           /\ \/ ch'[c] = ch[c]
              \/ /\ Len(ch'[c]) = Len(ch[c]) + 1
                 /\ ch'[c][Len(ch[c]) + 1] = [src |-> s, n |-> count[s]]
                 /\ \A i \in 1..Len(ch[c]): ch'[c][i] = ch[c][i]
<1> DEFINE u == [src |-> s, n |-> count[s]]
<1>1. u \in Update
  BY DEF PublishTo, HubInv, HubTypeOK, CountInv, Update
<1>2. ch \in [Conn -> Seq(Update)] /\ \A d \in Conn: Len(ch[d]) <= Cap
  BY DEF HubInv, HubTypeOK
<1>3. CASE ~Matches(s, c)
  BY <1>2, <1>3 DEF PublishTo
<1>4. CASE Matches(s, c)
  <2>1. ch' = [ch EXCEPT ![c] = Offer(ch[c], u)]
    BY <1>4 DEF PublishTo
  <2> HIDE DEF u
  <2>2. /\ Offer(ch[c], u) \in Seq(Update) /\ Len(Offer(ch[c], u)) <= Cap
        /\ \/ Offer(ch[c], u) = ch[c]
           \/ /\ Len(Offer(ch[c], u)) = Len(ch[c]) + 1
              /\ Offer(ch[c], u)[Len(ch[c]) + 1] = u
              /\ \A i \in 1..Len(ch[c]): Offer(ch[c], u)[i] = ch[c][i]
    BY <1>1, <1>2, OfferType
  <2>3. ch'[c] = Offer(ch[c], u) /\ \A d \in Conn: d # c => ch'[d] = ch[d]
    BY <1>2, <2>1
  <2>4. ch' \in [Conn -> Seq(Update)] /\ \A d \in Conn: Len(ch'[d]) <= Cap
    BY <1>2, <2>1, <2>2
  <2> QED BY <2>2, <2>3, <2>4 DEF u
<1> QED BY <1>3, <1>4

\* WriterTake moves the head of the channel into the writer's hands.
LEMMA WriterTakeEffect ==
    ASSUME HubInv, NEW c \in Conn, WriterTake(c)
    PROVE  /\ ch' \in [Conn -> Seq(Update)] /\ \A d \in Conn: Len(ch'[d]) <= Cap
           /\ Len(ch[c]) >= 1 /\ ch[c][1] \in Update /\ msg' = [msg EXCEPT ![c] = ch[c][1]]
           /\ \A d \in Conn: d # c => ch'[d] = ch[d]
           /\ Len(ch'[c]) = Len(ch[c]) - 1
           /\ \A i \in 1..Len(ch'[c]): ch'[c][i] = ch[c][i + 1]
<1> DEFINE q == ch[c]
<1>1. q \in Seq(Update) /\ Len(q) <= Cap /\ q # <<>> /\ Cap \in Nat
  BY TagHubAssumption DEF HubInv, HubTypeOK, WriterTake
<1>2. ch' = [ch EXCEPT ![c] = Tail(q)] /\ msg' = [msg EXCEPT ![c] = Head(q)]
  BY DEF WriterTake
<1> HIDE DEF q
<1>3. Len(q) >= 1 /\ q[1] \in Update /\ Head(q) = q[1] /\ Tail(q) \in Seq(Update)
      /\ Len(Tail(q)) = Len(q) - 1 /\ \A i \in 1..Len(Tail(q)): Tail(q)[i] = q[i + 1]
  BY <1>1
<1>4. Len(Tail(q)) <= Cap
  BY <1>1, <1>3
<1>5. ch \in [Conn -> Seq(Update)] /\ \A d \in Conn: Len(ch[d]) <= Cap
  BY DEF HubInv, HubTypeOK
<1>6. ch'[c] = Tail(q) /\ \A d \in Conn: d # c => ch'[d] = ch[d]
  BY <1>2, <1>5
<1>7. ch' \in [Conn -> Seq(Update)] /\ \A d \in Conn: Len(ch'[d]) <= Cap
  BY <1>2, <1>3, <1>4, <1>5
<1> QED BY <1>2, <1>3, <1>6, <1>7 DEF q

-----------------------------------------------------------------------------
(* Types. *)

LEMMA ScanType ==
    ASSUME HubInv, NEW s \in Source, Scans(s)
    PROVE  HubTypeOK'
<1> USE DEF HubTypeOK, connVars
<1>0. HubTypeOK
  BY DEF HubInv
<1>1. CASE Publish(s)
  BY <1>0, <1>1, TagHubAssumption DEF Publish
<1>2. CASE PublishLock(s)
  BY <1>0, <1>2 DEF PublishLock
<1>3. ASSUME NEW c \in Conn, PublishTo(s, c) PROVE HubTypeOK'
  BY <1>0, <1>3, PublishToEffect DEF PublishTo
<1>4. CASE PublishEnd(s)
  BY <1>0, <1>4 DEF PublishEnd
<1>5. CASE ScanExit(s)
  BY <1>0, <1>5 DEF ScanExit
<1> QED BY <1>1, <1>2, <1>3, <1>4, <1>5 DEF Scans, PublishSteps

LEMMA ConnType ==
    ASSUME HubInv, NEW c \in Conn, Connects(c)
    PROVE  HubTypeOK'
<1> USE DEF HubTypeOK, hubVars, HandlerTo, WriterTo
<1>0. HubTypeOK
  BY DEF HubInv
<1>1. CASE Accept(c)
  BY <1>0, <1>1 DEF Accept
<1>2. CASE AuthOk(c)
  BY <1>0, <1>2 DEF AuthOk
<1>3. ASSUME NEW f \in Filter, Read(c, f) PROVE HubTypeOK'
  BY <1>0, <1>3 DEF Read
<1>4. CASE Stall(c)
  BY <1>0, <1>4 DEF Stall
<1>5. CASE Break(c)
  BY <1>0, <1>5 DEF Break
<1>6. CASE AuthFail(c)
  BY <1>0, <1>6 DEF AuthFail
<1>7. ASSUME NEW f \in Filter, Register(c, f) PROVE HubTypeOK'
  BY <1>0, <1>7 DEF Register
<1>8. CASE ReadFail(c)
  BY <1>0, <1>8 DEF ReadFail, Leave
<1>9. CASE ReplyLock(c)
  BY <1>0, <1>9 DEF ReplyLock
<1>10. CASE ReplyOk(c)
  BY <1>0, <1>10 DEF ReplyOk
<1>11. CASE ReplyFail(c)
  BY <1>0, <1>11 DEF ReplyFail, Leave
<1>12. CASE Unregister(c)
  BY <1>0, <1>12 DEF Unregister
<1>13. CASE WriterTake(c)
  <2>1. /\ ch' \in [Conn -> Seq(Update)] /\ \A d \in Conn: Len(ch'[d]) <= Cap
        /\ msg' \in [Conn -> Update \cup {Ping}]
    BY <1>0, <1>13, WriterTakeEffect
  <2>2. /\ writer' = [writer EXCEPT ![c] = "write"]
        /\ UNCHANGED <<scan, count, todo, clients, filter, closed, handler, mu, cancelled,
                       link, seen>>
    BY <1>13 DEF WriterTake
  <2> QED BY <1>0, <2>1, <2>2
<1>14. CASE WriterPing(c)
  BY <1>0, <1>14 DEF WriterPing
<1>15. CASE WriterExit(c)
  BY <1>0, <1>15 DEF WriterExit
<1>16. CASE WriteLock(c)
  BY <1>0, <1>16 DEF WriteLock
<1>17. CASE WriteOk(c)
  <2>1. CASE msg[c] = Ping
    BY <1>0, <1>17, <2>1 DEF WriteOk
  <2>2. CASE msg[c] # Ping
    <3>1. msg[c].src \in Source /\ msg[c].n \in 0..MaxUpdates
      BY <1>0, <2>2, UpdateFields
    <3>2. seen' \in [Conn -> [Source -> 0..MaxUpdates]]
      BY <1>0, <1>17, <2>2, <3>1 DEF WriteOk
    <3> QED BY <1>0, <1>17, <3>2 DEF WriteOk
  <2> QED BY <2>1, <2>2
<1>18. CASE WriteFail(c)
  BY <1>0, <1>18 DEF WriteFail
<1> QED BY <1>1, <1>2, <1>3, <1>4, <1>5, <1>6, <1>7, <1>8, <1>9, <1>10, <1>11, <1>12, <1>13,
           <1>14, <1>15, <1>16, <1>17, <1>18 DEF Connects, HandlerSteps, WriterSteps

-----------------------------------------------------------------------------
(* The map of subscribers and their channels. *)

LEMMA ScanSub ==
    ASSUME HubInv, NEW s \in Source, Scans(s)
    PROVE  SubInv' /\ CountInv'
<1> USE DEF HubInv, HubTypeOK, SubInv, CountInv, connVars
<1>1. CASE Publish(s)
  BY <1>1, TagHubAssumption DEF Publish
<1>2. CASE PublishLock(s)
  BY <1>2 DEF PublishLock
<1>3. ASSUME NEW c \in Conn, PublishTo(s, c) PROVE SubInv' /\ CountInv'
  BY <1>3 DEF PublishTo
<1>4. CASE PublishEnd(s)
  BY <1>4 DEF PublishEnd
<1>5. CASE ScanExit(s)
  BY <1>5 DEF ScanExit
<1> QED BY <1>1, <1>2, <1>3, <1>4, <1>5 DEF Scans, PublishSteps

\* The lock is held by no reader, so nobody has a subscriber left to visit.
LEMMA NoReaders ==
    ASSUME HubInv, Readers = {}
    PROVE  \A s \in Source: todo[s] = {}
BY DEF HubInv, SubInv, Readers

LEMMA ConnSub ==
    ASSUME HubInv, NEW c \in Conn, Connects(c)
    PROVE  SubInv' /\ CountInv'
<1> USE DEF HubInv, HubTypeOK, SubInv, CountInv, hubVars, HandlerTo, WriterTo
<1>1. CASE Accept(c)
  BY <1>1 DEF Accept
<1>2. CASE AuthOk(c)
  BY <1>2 DEF AuthOk
<1>3. ASSUME NEW f \in Filter, Read(c, f) PROVE SubInv' /\ CountInv'
  BY <1>3 DEF Read
<1>4. CASE Stall(c) \/ Break(c)
  BY <1>4 DEF Stall, Break
<1>5. CASE AuthFail(c)
  BY <1>5 DEF AuthFail
<1>6. ASSUME NEW f \in Filter, Register(c, f) PROVE SubInv' /\ CountInv'
  BY <1>6 DEF Register
<1>7. CASE ReadFail(c)
  BY <1>7 DEF ReadFail, Leave
<1>8. CASE ReplyLock(c)
  BY <1>8 DEF ReplyLock
<1>9. CASE ReplyOk(c)
  BY <1>9 DEF ReplyOk
<1>10. CASE ReplyFail(c)
  BY <1>10 DEF ReplyFail, Leave
<1>11. CASE Unregister(c)
  <2>1. \A s \in Source: todo[s] = {}
    BY <1>11, NoReaders DEF Unregister
  <2> QED BY <1>11, <2>1 DEF Unregister
<1>12. CASE WriterSteps(c)
  BY <1>12 DEF WriterSteps, WriterTake, WriterPing, WriterExit, WriteLock, WriteOk, WriteFail
<1> QED BY <1>1, <1>2, <1>3, <1>4, <1>5, <1>6, <1>7, <1>8, <1>9, <1>10, <1>11, <1>12
        DEF Connects, HandlerSteps
-----------------------------------------------------------------------------
(* The order of updates. *)

LEMMA Typed ==
    ASSUME HubInv
    PROVE  /\ \A s \in Source, c \in Conn: Bound(s, c) \in Int /\ seen[c][s] \in Int
           /\ \A c \in Conn: Holding(c) => msg[c] \in Update
           /\ \A c \in Conn: msg[c] \in Update => msg[c].src \in Source /\ msg[c].n \in Int
           /\ \A c \in Conn: Len(ch[c]) \in Nat /\ \A i \in 1..Len(ch[c]):
                 ch[c][i] \in Update /\ ch[c][i].src \in Source /\ ch[c][i].n \in Int
<1>1. \A c \in Conn: ch[c] \in Seq(Update) /\ msg[c] \in Update \cup {Ping}
  BY DEF HubInv, HubTypeOK
<1>2. \A c \in Conn: Len(ch[c]) \in Nat /\ \A i \in 1..Len(ch[c]): ch[c][i] \in Update
  BY <1>1
<1>3. \A s \in Source, c \in Conn: Bound(s, c) \in Int /\ seen[c][s] \in Int
  BY DEF HubInv, HubTypeOK, Bound
<1> QED BY <1>1, <1>2, <1>3, UpdateFields DEF Holding

\* A scan goroutine that touches no channel only moves its own bound, and
\* upwards.
LEMMA BoundGrows ==
    ASSUME HubInv, UNCHANGED <<ch, connVars>>,
           \A s \in Source, c \in Conn: Bound(s, c)' \in Int /\ Bound(s, c)' >= Bound(s, c)
    PROVE  BoundInv' /\ OrderInv'
<1>1. \A c \in Conn: Holding(c)' <=> Holding(c)
  BY DEF Holding, connVars
<1>2. OrderInv'
  BY <1>1 DEF HubInv, OrderInv, connVars
<1>3. BoundInv'
  <2> SUFFICES ASSUME NEW s \in Source, NEW c \in Conn
               PROVE  /\ seen[c][s] <= Bound(s, c)'
                      /\ Holding(c) /\ msg[c].src = s => msg[c].n <= Bound(s, c)'
                      /\ \A i \in 1..Len(ch[c]): ch[c][i].src = s => ch[c][i].n <= Bound(s, c)'
    BY <1>1 DEF BoundInv, connVars
  <2>1. /\ seen[c][s] <= Bound(s, c)
        /\ Holding(c) /\ msg[c].src = s => msg[c].n <= Bound(s, c)
        /\ \A i \in 1..Len(ch[c]): ch[c][i].src = s => ch[c][i].n <= Bound(s, c)
    BY DEF HubInv, BoundInv
  <2> QED BY <2>1, Typed
<1> QED BY <1>2, <1>3

\* publish reaches c: the update it carries is newer than all c has of s.
LEMMA PublishToOrder ==
    ASSUME HubInv, NEW s \in Source, NEW c \in Conn, PublishTo(s, c)
    PROVE  BoundInv' /\ OrderInv'
<1> DEFINE u == [src |-> s, n |-> count[s]]
<1>1. /\ \A d \in Conn: d # c => ch'[d] = ch[d]
      /\ \/ ch'[c] = ch[c]
         \/ /\ Len(ch'[c]) = Len(ch[c]) + 1
            /\ ch'[c][Len(ch[c]) + 1] = u
            /\ \A i \in 1..Len(ch[c]): ch'[c][i] = ch[c][i]
  BY PublishToEffect
<1>2. u.src = s /\ u.n = count[s]
  OBVIOUS
<1> HIDE DEF u
<1>3. /\ UNCHANGED connVars /\ UNCHANGED <<scan, count>> /\ c \in todo[s] /\ scan[s] = "publish"
      /\ todo' = [todo EXCEPT ![s] = @ \ {c}]
  BY DEF PublishTo
<1>4. \A d \in Conn: (Holding(d)' <=> Holding(d)) /\ msg'[d] = msg[d] /\ seen'[d] = seen[d]
  BY <1>3 DEF Holding, connVars
<1>5. /\ count[s] \in Int /\ Bound(s, c) = count[s] - 1 /\ Bound(s, c)' = count[s]
      /\ \A x \in Source, d \in Conn: x # s \/ d # c => Bound(x, d)' = Bound(x, d)
  BY <1>3 DEF Bound, HubInv, HubTypeOK
<1>6. \A x \in Source, d \in Conn: Bound(x, d)' \in Int /\ Bound(x, d)' >= Bound(x, d)
  BY <1>5, Typed
<1>7. ASSUME NEW x \in Source, NEW d \in Conn
      PROVE  /\ seen[d][x] <= Bound(x, d)
             /\ Holding(d) /\ msg[d].src = x => msg[d].n <= Bound(x, d)
             /\ \A i \in 1..Len(ch[d]): ch[d][i].src = x => ch[d][i].n <= Bound(x, d)
  BY DEF HubInv, BoundInv
<1>8. BoundInv'
  <2> SUFFICES ASSUME NEW x \in Source, NEW d \in Conn
               PROVE  /\ seen[d][x] <= Bound(x, d)'
                      /\ Holding(d) /\ msg[d].src = x => msg[d].n <= Bound(x, d)'
                      /\ \A i \in 1..Len(ch'[d]): ch'[d][i].src = x => ch'[d][i].n <= Bound(x, d)'
    BY <1>4 DEF BoundInv
  <2>1. /\ seen[d][x] <= Bound(x, d)'
        /\ Holding(d) /\ msg[d].src = x => msg[d].n <= Bound(x, d)'
        /\ \A i \in 1..Len(ch[d]): ch[d][i].src = x => ch[d][i].n <= Bound(x, d)'
    <3>1. /\ Bound(x, d) \in Int /\ seen[d][x] \in Int /\ Bound(x, d)' \in Int
          /\ Bound(x, d)' >= Bound(x, d)
      BY <1>6, Typed
    <3>2. /\ seen[d][x] <= Bound(x, d)
          /\ Holding(d) /\ msg[d].src = x => msg[d].n <= Bound(x, d) /\ msg[d].n \in Int
          /\ \A i \in 1..Len(ch[d]): /\ ch[d][i].src = x => ch[d][i].n <= Bound(x, d)
                                     /\ ch[d][i].n \in Int
      BY <1>7, Typed
    <3> QED BY <3>1, <3>2
  <2>2. ASSUME NEW i \in 1..Len(ch'[d]), ch'[d][i].src = x PROVE ch'[d][i].n <= Bound(x, d)'
    <3>1. CASE d # c \/ ch'[c] = ch[c]
      BY <1>1, <2>1, <2>2, <3>1
    <3>2. CASE d = c /\ ch'[c] # ch[c] /\ i = Len(ch[c]) + 1
      <4>1. ch'[d][i] = u
        BY <1>1, <3>2
      <4>2. x = s /\ ch'[d][i].n = count[s]
        BY <1>2, <2>2, <4>1
      <4> QED BY <1>5, <3>2, <4>2
    <3>3. CASE d = c /\ ch'[c] # ch[c] /\ i # Len(ch[c]) + 1
      <4>1. i \in 1..Len(ch[c]) /\ ch'[c][i] = ch[c][i]
        BY <1>1, <3>3, Typed
      <4> QED BY <2>1, <2>2, <3>3, <4>1
    <3> QED BY <3>1, <3>2, <3>3
  <2> QED BY <2>1, <2>2
<1>9. OrderInv'
  <2> SUFFICES ASSUME NEW d \in Conn
               PROVE  /\ Holding(d) => msg[d].n > seen[d][msg[d].src]
                      /\ \A i \in 1..Len(ch'[d]):
                            /\ ch'[d][i].n > seen[d][ch'[d][i].src]
                            /\ Holding(d) /\ msg[d].src = ch'[d][i].src => msg[d].n < ch'[d][i].n
                            /\ \A j \in 1..(i-1): ch'[d][j].src = ch'[d][i].src =>
                                                  ch'[d][j].n < ch'[d][i].n
    BY <1>4 DEF OrderInv
  <2>1. /\ Holding(d) => msg[d].n > seen[d][msg[d].src]
        /\ \A i \in 1..Len(ch[d]):
              /\ ch[d][i].n > seen[d][ch[d][i].src]
              /\ Holding(d) /\ msg[d].src = ch[d][i].src => msg[d].n < ch[d][i].n
              /\ \A j \in 1..(i-1): ch[d][j].src = ch[d][i].src => ch[d][j].n < ch[d][i].n
    BY DEF HubInv, OrderInv
  <2>2. CASE d # c \/ ch'[c] = ch[c]
    BY <1>1, <2>1, <2>2
  <2>3. CASE d = c /\ ch'[c] # ch[c]
    <3> DEFINE m == Len(ch[c]) + 1
    <3>1. /\ Len(ch'[c]) = m /\ ch'[c][m] = u /\ m \in Nat /\ m - 1 = Len(ch[c])
          /\ \A i \in 1..(m-1): ch'[c][i] = ch[c][i]
      BY <1>1, <2>3, Typed
    <3> HIDE DEF m
    <3> SUFFICES ASSUME NEW i \in 1..m
                 PROVE  /\ ch'[c][i].n > seen[c][ch'[c][i].src]
                        /\ Holding(c) /\ msg[c].src = ch'[c][i].src => msg[c].n < ch'[c][i].n
                        /\ \A j \in 1..(i-1): ch'[c][j].src = ch'[c][i].src =>
                                              ch'[c][j].n < ch'[c][i].n
      BY <2>1, <2>3, <3>1
    <3>2. CASE i # m
      <4>1. i \in 1..(m-1) /\ \A j \in 1..(i-1): j \in 1..(m-1)
        BY <3>1, <3>2
      <4> QED BY <2>1, <2>3, <3>1, <4>1
    <3>3. CASE i = m
      <4>1. ch'[c][i].src = s /\ ch'[c][i].n = count[s]
        BY <1>2, <3>1, <3>3
      <4>2. seen[c][s] < count[s]
        BY <1>5, <1>7, Typed
      <4>3. Holding(c) /\ msg[c].src = s => msg[c].n < count[s]
        BY <1>5, <1>7, Typed
      <4>4. ASSUME NEW j \in 1..(i-1), ch'[c][j].src = s PROVE ch'[c][j].n < count[s]
        <5>1. j \in 1..Len(ch[c]) /\ ch'[c][j] = ch[c][j]
          BY <3>1, <3>3
        <5> QED BY <1>5, <1>7, <4>4, <5>1, Typed
      <4> QED BY <4>1, <4>2, <4>3, <4>4
    <3> QED BY <3>2, <3>3
  <2> QED BY <2>2, <2>3
<1> QED BY <1>8, <1>9

LEMMA ScanOrder ==
    ASSUME HubInv, NEW s \in Source, Scans(s)
    PROVE  BoundInv' /\ OrderInv'
<1>1. CASE Publish(s)
  <2>1. \A x \in Source, c \in Conn: Bound(x, c)' \in Int /\ Bound(x, c)' >= Bound(x, c)
    BY <1>1 DEF Publish, Bound, HubInv, HubTypeOK
  <2> QED BY <1>1, <2>1, BoundGrows DEF Publish
<1>2. CASE PublishLock(s)
  <2>1. \A x \in Source, c \in Conn: Bound(x, c)' \in Int /\ Bound(x, c)' >= Bound(x, c)
    BY <1>2 DEF PublishLock, Bound, HubInv, HubTypeOK
  <2> QED BY <1>2, <2>1, BoundGrows DEF PublishLock
<1>3. ASSUME NEW c \in Conn, PublishTo(s, c) PROVE BoundInv' /\ OrderInv'
  BY <1>3, PublishToOrder
<1>4. CASE PublishEnd(s)
  <2>1. \A x \in Source, c \in Conn: Bound(x, c)' \in Int /\ Bound(x, c)' >= Bound(x, c)
    BY <1>4 DEF PublishEnd, Bound, HubInv, HubTypeOK
  <2> QED BY <1>4, <2>1, BoundGrows DEF PublishEnd
<1>5. CASE ScanExit(s)
  <2>1. \A x \in Source, c \in Conn: Bound(x, c)' \in Int /\ Bound(x, c)' >= Bound(x, c)
    BY <1>5 DEF ScanExit, Bound, HubInv, HubTypeOK
  <2> QED BY <1>5, <2>1, BoundGrows DEF ScanExit
<1> QED BY <1>1, <1>2, <1>3, <1>4, <1>5 DEF Scans, PublishSteps

\* A step of a connection that takes nothing off a channel and sends no update.
LEMMA ConnQuiet ==
    ASSUME HubInv, UNCHANGED <<scan, count, todo, ch, seen>>,
           \A d \in Conn: Holding(d)' => Holding(d) /\ msg'[d] = msg[d]
    PROVE  BoundInv' /\ OrderInv'
<1>1. \A s \in Source, d \in Conn: Bound(s, d)' = Bound(s, d)
  BY DEF Bound
<1>2. BoundInv'
  <2> SUFFICES ASSUME NEW s \in Source, NEW c \in Conn
               PROVE  /\ seen[c][s] <= Bound(s, c)
                      /\ Holding(c)' /\ msg'[c].src = s => msg'[c].n <= Bound(s, c)
                      /\ \A i \in 1..Len(ch[c]): ch[c][i].src = s => ch[c][i].n <= Bound(s, c)
    BY <1>1 DEF BoundInv
  <2> QED BY DEF HubInv, BoundInv
<1>3. OrderInv'
  BY DEF HubInv, OrderInv
<1> QED BY <1>2, <1>3

LEMMA WriterTakeOrder ==
    ASSUME HubInv, NEW c \in Conn, WriterTake(c)
    PROVE  BoundInv' /\ OrderInv'
<1> DEFINE q == ch[c]
<1>1. /\ Len(q) >= 1 /\ msg' = [msg EXCEPT ![c] = q[1]]
      /\ \A d \in Conn: d # c => ch'[d] = ch[d]
      /\ Len(ch'[c]) = Len(q) - 1
      /\ \A i \in 1..Len(ch'[c]): ch'[c][i] = q[i + 1]
  BY WriterTakeEffect
<1>2. UNCHANGED <<scan, count, todo, seen>> /\ writer' = [writer EXCEPT ![c] = "write"]
  BY DEF WriterTake, WriterTo
<1>3. msg'[c] = q[1] /\ \A d \in Conn: d # c => msg'[d] = msg[d] /\ (Holding(d)' <=> Holding(d))
  BY <1>1, <1>2 DEF HubInv, HubTypeOK, Holding
<1>4. \A s \in Source: /\ seen[c][s] <= Bound(s, c)
                       /\ \A i \in 1..Len(q): q[i].src = s => q[i].n <= Bound(s, c)
  BY DEF HubInv, BoundInv
<1>5. \A i \in 1..Len(q):
         /\ q[i].n > seen[c][q[i].src]
         /\ \A j \in 1..(i-1): q[j].src = q[i].src => q[j].n < q[i].n
  BY DEF HubInv, OrderInv
<1>6. \A s \in Source, d \in Conn: Bound(s, d)' = Bound(s, d)
  BY <1>2 DEF Bound
<1> HIDE DEF q
<1>7. Len(q) \in Nat /\ 1 \in 1..Len(q) /\ \A i \in 1..Len(q): q[i].src \in Source /\ q[i].n \in Int
  BY <1>1, Typed DEF q
<1>8. \A i \in 1..Len(ch'[c]): i + 1 \in 1..Len(q) /\ 1 \in 1..((i + 1) - 1)
                               /\ \A j \in 1..(i-1): j + 1 \in 1..((i + 1) - 1) /\ j \in 1..Len(ch'[c])
  BY <1>1, <1>7
<1>9. BoundInv'
  <2> SUFFICES ASSUME NEW s \in Source, NEW d \in Conn
               PROVE  /\ seen[d][s] <= Bound(s, d)
                      /\ Holding(d)' /\ msg'[d].src = s => msg'[d].n <= Bound(s, d)
                      /\ \A i \in 1..Len(ch'[d]): ch'[d][i].src = s => ch'[d][i].n <= Bound(s, d)
    BY <1>2, <1>6 DEF BoundInv
  <2>1. CASE d = c
    BY <1>1, <1>3, <1>4, <1>7, <1>8, <2>1
  <2>2. CASE d # c
    BY <1>1, <1>3, <2>2 DEF HubInv, BoundInv
  <2> QED BY <2>1, <2>2
<1>10. OrderInv'
  <2> SUFFICES ASSUME NEW d \in Conn
               PROVE  /\ Holding(d)' => msg'[d].n > seen[d][msg'[d].src]
                      /\ \A i \in 1..Len(ch'[d]):
                            /\ ch'[d][i].n > seen[d][ch'[d][i].src]
                            /\ Holding(d)' /\ msg'[d].src = ch'[d][i].src => msg'[d].n < ch'[d][i].n
                            /\ \A j \in 1..(i-1): ch'[d][j].src = ch'[d][i].src =>
                                                  ch'[d][j].n < ch'[d][i].n
    BY <1>2 DEF OrderInv
  <2>1. CASE d = c
    <3>1. msg'[c].n > seen[c][msg'[c].src]
      BY <1>3, <1>5, <1>7
    <3>2. ASSUME NEW i \in 1..Len(ch'[c])
          PROVE  /\ ch'[c][i].n > seen[c][ch'[c][i].src]
                 /\ msg'[c].src = ch'[c][i].src => msg'[c].n < ch'[c][i].n
                 /\ \A j \in 1..(i-1): ch'[c][j].src = ch'[c][i].src => ch'[c][j].n < ch'[c][i].n
      <4>1. /\ i + 1 \in 1..Len(q) /\ 1 \in 1..((i + 1) - 1) /\ ch'[c][i] = q[i + 1]
            /\ \A j \in 1..(i-1): j + 1 \in 1..((i + 1) - 1) /\ ch'[c][j] = q[j + 1]
        BY <1>1, <1>8
      <4> QED BY <1>3, <1>5, <4>1
    <3> QED BY <2>1, <3>1, <3>2
  <2>2. CASE d # c
    BY <1>1, <1>3, <2>2 DEF HubInv, OrderInv
  <2> QED BY <2>1, <2>2
<1> QED BY <1>9, <1>10

\* What was sent is what the writer held: older than all that is queued.
LEMMA WriteOkOrder ==
    ASSUME HubInv, NEW c \in Conn, WriteOk(c)
    PROVE  BoundInv' /\ OrderInv'
<1>1. UNCHANGED <<scan, count, todo, ch>> /\ ~Holding(c)'
      /\ \A d \in Conn: d # c => (Holding(d)' <=> Holding(d)) /\ msg'[d] = msg[d]
  BY DEF WriteOk, hubVars, WriterTo, Holding, HubInv, HubTypeOK
<1>2. CASE msg[c] = Ping
  BY <1>1, <1>2, ConnQuiet DEF WriteOk
<1>3. CASE msg[c] # Ping
  <2> DEFINE x == msg[c].src
  <2>1. Holding(c) /\ msg[c] \in Update /\ x \in Source
    BY <1>3, Typed DEF WriteOk, Holding
  <2>2. /\ seen'[c][x] = msg[c].n
        /\ \A s \in Source: s # x => seen'[c][s] = seen[c][s]
        /\ \A d \in Conn: d # c => seen'[d] = seen[d]
    BY <1>3, <2>1 DEF WriteOk, HubInv, HubTypeOK
  <2>3. msg[c].n <= Bound(x, c) /\ msg[c].n > seen[c][x]
    BY <2>1 DEF HubInv, BoundInv, OrderInv
  <2>4. \A i \in 1..Len(ch[c]): ch[c][i].src = x => msg[c].n < ch[c][i].n
    BY <2>1 DEF HubInv, OrderInv
  <2>5. BoundInv'
    <3> SUFFICES ASSUME NEW s \in Source, NEW d \in Conn
                 PROVE  /\ seen'[d][s] <= Bound(s, d)
                        /\ Holding(d)' /\ msg'[d].src = s => msg'[d].n <= Bound(s, d)
                        /\ \A i \in 1..Len(ch[d]): ch[d][i].src = s => ch[d][i].n <= Bound(s, d)
      BY <1>1 DEF BoundInv, Bound
    <3>1. /\ seen[d][s] <= Bound(s, d)
          /\ Holding(d) /\ msg[d].src = s => msg[d].n <= Bound(s, d)
          /\ \A i \in 1..Len(ch[d]): ch[d][i].src = s => ch[d][i].n <= Bound(s, d)
      BY DEF HubInv, BoundInv
    <3>2. seen'[d][s] <= Bound(s, d)
      BY <2>2, <2>3, <3>1
    <3> QED BY <1>1, <3>1, <3>2
  <2>6. OrderInv'
    <3> SUFFICES ASSUME NEW d \in Conn
                 PROVE  /\ Holding(d)' => msg'[d].n > seen'[d][msg'[d].src]
                        /\ \A i \in 1..Len(ch[d]):
                              /\ ch[d][i].n > seen'[d][ch[d][i].src]
                              /\ Holding(d)' /\ msg'[d].src = ch[d][i].src => msg'[d].n < ch[d][i].n
                              /\ \A j \in 1..(i-1): ch[d][j].src = ch[d][i].src => ch[d][j].n < ch[d][i].n
      BY <1>1 DEF OrderInv
    <3>1. /\ Holding(d) => msg[d].n > seen[d][msg[d].src]
          /\ \A i \in 1..Len(ch[d]):
                /\ ch[d][i].n > seen[d][ch[d][i].src]
                /\ Holding(d) /\ msg[d].src = ch[d][i].src => msg[d].n < ch[d][i].n
                /\ \A j \in 1..(i-1): ch[d][j].src = ch[d][i].src => ch[d][j].n < ch[d][i].n
      BY DEF HubInv, OrderInv
    <3>2. CASE d # c
      BY <1>1, <2>2, <3>1, <3>2
    <3>3. CASE d = c
      <4>1. \A i \in 1..Len(ch[c]): ch[c][i].n > seen'[c][ch[c][i].src]
        BY <2>2, <2>4, <3>1, <3>3, <2>1, Typed
      <4> QED BY <1>1, <3>1, <3>3, <4>1
    <3> QED BY <3>2, <3>3
  <2> QED BY <2>5, <2>6
<1> QED BY <1>2, <1>3

LEMMA ConnOrder ==
    ASSUME HubInv, NEW c \in Conn, Connects(c)
    PROVE  BoundInv' /\ OrderInv'
<1> USE DEF hubVars, HandlerTo, WriterTo
<1>t. writer \in [Conn -> {"none", "select", "write", "send", "gone"}]
      /\ msg \in [Conn -> Update \cup {Ping}]
  BY DEF HubInv, HubTypeOK
<1>1. CASE Accept(c) \/ AuthOk(c) \/ Stall(c) \/ Break(c) \/ AuthFail(c)
  BY <1>1, ConnQuiet DEF Accept, AuthOk, Stall, Break, AuthFail, Holding
<1>2. ASSUME NEW f \in Filter, Read(c, f) PROVE BoundInv' /\ OrderInv'
  BY <1>2, ConnQuiet DEF Read, Holding
<1>3. ASSUME NEW f \in Filter, Register(c, f) PROVE BoundInv' /\ OrderInv'
  BY <1>t, <1>3, ConnQuiet DEF Register, Holding
<1>4. CASE ReadFail(c) \/ ReplyLock(c) \/ ReplyOk(c) \/ ReplyFail(c) \/ Unregister(c)
  BY <1>4, ConnQuiet DEF ReadFail, ReplyLock, ReplyOk, ReplyFail, Unregister, Leave, Holding
<1>5. CASE WriterTake(c)
  BY <1>5, WriterTakeOrder
<1>6. CASE WriterPing(c)
  BY <1>t, <1>6, ConnQuiet DEF WriterPing, Holding
<1>7. CASE WriterExit(c)
  BY <1>t, <1>7, ConnQuiet DEF WriterExit, Holding
<1>8. CASE WriteLock(c)
  BY <1>t, <1>8, ConnQuiet DEF WriteLock, Holding
<1>9. CASE WriteOk(c)
  BY <1>9, WriteOkOrder
<1>10. CASE WriteFail(c)
  BY <1>t, <1>10, ConnQuiet DEF WriteFail, Holding
<1> QED BY <1>1, <1>2, <1>3, <1>4, <1>5, <1>6, <1>7, <1>8, <1>9, <1>10
        DEF Connects, HandlerSteps, WriterSteps

-----------------------------------------------------------------------------
LEMMA ScanStartInv ==
    ASSUME HubInv, ScanStart, \A s \in Source: todo[s] = {}
    PROVE  HubInv'
<1>1. HubTypeOK'
  BY DEF HubInv, HubTypeOK, ScanStart, connVars
<1>2. SubInv' /\ CountInv'
  BY DEF HubInv, SubInv, CountInv, ScanStart, connVars
<1>3. \A s \in Source, c \in Conn: Bound(s, c)' \in Int /\ Bound(s, c)' >= Bound(s, c)
  BY DEF ScanStart, Bound, HubInv, HubTypeOK
<1>4. BoundInv' /\ OrderInv'
  BY <1>3, BoundGrows DEF ScanStart
<1> QED BY <1>1, <1>2, <1>4 DEF HubInv

\* Every step of the hub and its connections preserves HubInv.
LEMMA HubStepInv ==
    ASSUME HubInv,
           (\E s \in Source: Scans(s)) \/ (\E c \in Conn: Connects(c))
    PROVE  HubInv'
BY ScanType, ScanSub, ScanOrder, ConnType, ConnSub, ConnOrder DEF HubInv

LEMMA HubStutter ==
    ASSUME HubInv, UNCHANGED <<hubVars, connVars>>
    PROVE  HubInv'
BY DEF HubInv, HubTypeOK, SubInv, CountInv, BoundInv, OrderInv, Bound, Holding, hubVars, connVars

-----------------------------------------------------------------------------
(* What the invariant is for. *)

LEMMA HubSafe == HubInv => NoSendOnClosedSub
BY DEF HubInv, HubTypeOK, SubInv, NoSendOnClosedSub

LEMMA HubOrdered == HubInv => DeliveredInOrder
<1> SUFFICES ASSUME HubInv, NEW c \in Conn
             PROVE  LET held == IF writer[c] \in {"write", "send"} /\ msg[c] # Ping
                                THEN <<msg[c]>> ELSE <<>>
                        q == held \o ch[c]
                    IN  \A i \in 1..Len(q):
                           /\ q[i].n > seen[c][q[i].src]
                           /\ \A j \in 1..(i-1): q[j].src = q[i].src => q[j].n < q[i].n
  BY DEF DeliveredInOrder
<1> DEFINE r == ch[c]
<1>1. r \in Seq(Update) /\ Len(r) \in Nat
  BY DEF HubInv, HubTypeOK
<1>2. \A i \in 1..Len(r):
              /\ r[i].n > seen[c][r[i].src]
              /\ \A j \in 1..(i-1): r[j].src = r[i].src => r[j].n < r[i].n
  BY DEF HubInv, OrderInv
<1>3. CASE ~Holding(c)
  <2>1. <<>> \o r = r
    BY <1>1
  <2> QED BY <1>2, <1>3, <2>1 DEF Holding
<1>4. CASE Holding(c)
  <2> DEFINE m == msg[c]
             q == <<m>> \o r
  <2>1. m \in Update
    BY <1>4, Typed
  <2>2. /\ m.n > seen[c][m.src]
        /\ \A i \in 1..Len(r): m.src = r[i].src => m.n < r[i].n
    BY <1>4 DEF HubInv, OrderInv
  <2> HIDE DEF m, r
  <2>3. /\ Len(q) = Len(r) + 1 /\ q[1] = m
        /\ \A i \in 2..(Len(r) + 1): q[i] = r[i - 1] /\ i - 1 \in 1..Len(r)
    BY <1>1, <2>1
  <2> HIDE DEF q
  <2>4. ASSUME NEW i \in 1..Len(q)
        PROVE  /\ q[i].n > seen[c][q[i].src]
               /\ \A j \in 1..(i-1): q[j].src = q[i].src => q[j].n < q[i].n
    <3>1. CASE i = 1
      BY <2>2, <2>3, <3>1
    <3>2. CASE i # 1
      <4>1. i \in 2..(Len(r) + 1)
        BY <1>1, <2>3, <3>2
      <4>2. q[i] = r[i - 1] /\ i - 1 \in 1..Len(r)
        BY <2>3, <4>1
      <4>3. ASSUME NEW j \in 1..(i-1), q[j].src = q[i].src PROVE q[j].n < q[i].n
        <5>1. CASE j = 1
          BY <2>2, <2>3, <4>2, <4>3, <5>1
        <5>2. CASE j # 1
          <6>1. j \in 2..(Len(r) + 1) /\ j - 1 \in 1..((i - 1) - 1)
            BY <1>1, <4>1, <4>3, <5>2
          <6> QED BY <1>2, <2>3, <4>2, <4>3, <6>1
        <5> QED BY <5>1, <5>2
      <4> QED BY <1>2, <4>2, <4>3
    <3> QED BY <3>1, <3>2
  <2> QED BY <1>4, <2>4 DEF Holding, q, m, r
<1> QED BY <1>3, <1>4
=============================================================================
