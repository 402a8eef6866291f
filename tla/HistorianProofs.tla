--------------------------- MODULE HistorianProofs ---------------------------
(***************************************************************************)
(* The invariants of the historian writer, for any scan goroutines, any    *)
(* buffer and batch size and any number of samples.                        *)
(***************************************************************************)
EXTENDS Historian, SequenceTheorems, TLAPS

-----------------------------------------------------------------------------
(* Prefixes. *)

LEMMA PrefixPointwise ==
    ASSUME NEW S, NEW s \in Seq(S), NEW t \in Seq(S)
    PROVE  IsPrefix(s, t) <=> Len(s) <= Len(t) /\ \A i \in 1..Len(s): s[i] = t[i]
<1>1. Len(s) \in Nat /\ Len(t) \in Nat
  OBVIOUS
<1>2. /\ SubSeq(s, 1, Len(s)) \in Seq(S) /\ Len(SubSeq(s, 1, Len(s))) = Len(s)
      /\ \A i \in 1..Len(s): SubSeq(s, 1, Len(s))[i] = s[i]
  BY SubSeqFull
<1>3. CASE Len(s) <= Len(t)
  <2>1. \A i \in 1..Len(s): t[i] \in S
    BY <1>1, <1>3, ElementOfSeq
  <2>2. /\ SubSeq(t, 1, Len(s)) \in Seq(S)
        /\ Len(SubSeq(t, 1, Len(s))) = IF 1 <= Len(s) THEN Len(s) - 1 + 1 ELSE 0
        /\ \A i \in 1..(Len(s) - 1 + 1): SubSeq(t, 1, Len(s))[i] = t[1 + i - 1]
    BY <1>1, <2>1, SubSeqProperties
  <2>3. Len(SubSeq(t, 1, Len(s))) = Len(s) /\ \A i \in 1..Len(s): SubSeq(t, 1, Len(s))[i] = t[i]
    BY <1>1, <2>2
  <2>4. (\A i \in 1..Len(s): s[i] = t[i]) => SubSeq(s, 1, Len(s)) = SubSeq(t, 1, Len(s))
    BY <1>2, <2>2, <2>3, SeqEqual
  <2>5. SubSeq(s, 1, Len(s)) = SubSeq(t, 1, Len(s)) => \A i \in 1..Len(s): s[i] = t[i]
    BY <1>2, <2>3
  <2> QED BY <1>3, <2>4, <2>5 DEF IsPrefix
<1>4. CASE ~(Len(s) <= Len(t))
  BY <1>4 DEF IsPrefix
<1> QED BY <1>3, <1>4

LEMMA PrefixLonger ==
    ASSUME NEW S, NEW s \in Seq(S), NEW t \in Seq(S), NEW u \in Seq(S), IsPrefix(s, t)
    PROVE  IsPrefix(s, t \o u)
<1>1. /\ t \o u \in Seq(S) /\ Len(t \o u) = Len(t) + Len(u)
      /\ \A i \in 1..(Len(t) + Len(u)): (t \o u)[i] = IF i <= Len(t) THEN t[i] ELSE u[i - Len(t)]
  BY ConcatProperties
<1>2. Len(s) \in Nat /\ Len(t) \in Nat /\ Len(u) \in Nat
  OBVIOUS
<1>3. Len(s) <= Len(t) /\ \A i \in 1..Len(s): s[i] = t[i]
  BY PrefixPointwise
<1>4. Len(s) <= Len(t \o u) /\ \A i \in 1..Len(s): s[i] = (t \o u)[i]
  BY <1>1, <1>2, <1>3
<1> QED BY <1>1, <1>4, PrefixPointwise

LEMMA PrefixOfConcat ==
    ASSUME NEW S, NEW s \in Seq(S), NEW t \in Seq(S), NEW u \in Seq(S)
    PROVE  IsPrefix(s, s \o t \o u)
<1>1. IsPrefix(s, s)
  BY DEF IsPrefix
<1>2. IsPrefix(s, s \o t) /\ s \o t \in Seq(S)
  BY <1>1, PrefixLonger
<1> QED BY <1>2, PrefixLonger

LEMMA PrefixAppend ==
    ASSUME NEW S, NEW s \in Seq(S), NEW t \in Seq(S), NEW e \in S, IsPrefix(s, t)
    PROVE  IsPrefix(s, Append(t, e))
<1>1. Len(s) <= Len(t) /\ \A i \in 1..Len(s): s[i] = t[i]
  BY PrefixPointwise
<1>2. /\ Append(t, e) \in Seq(S) /\ Len(Append(t, e)) = Len(t) + 1
      /\ \A i \in 1..Len(t): Append(t, e)[i] = t[i]
  BY AppendProperties
<1>3. Len(s) <= Len(Append(t, e)) /\ \A i \in 1..Len(s): s[i] = Append(t, e)[i]
  BY <1>1, <1>2
<1> QED BY <1>2, <1>3, PrefixPointwise

-----------------------------------------------------------------------------
(* What the writer does to the three places a sample can be in. *)

\* run takes the oldest sample of the channel.
LEMMA TakeKeeps ==
    ASSUME rows \in Seq(Sample), batch \in Seq(Sample), ch \in Seq(Sample), ch # <<>>
    PROVE  rows \o Append(batch, Head(ch)) \o Tail(ch) = rows \o batch \o ch
<1>1. PICK e, t: e = Head(ch) /\ t = Tail(ch)
  OBVIOUS
<1>2. e \in Sample /\ t \in Seq(Sample) /\ ch = <<e>> \o t
  BY <1>1
<1>3. Append(batch, e) = batch \o <<e>> /\ <<e>> \in Seq(Sample)
  BY <1>2
<1>4. rows \o (batch \o <<e>>) = (rows \o batch) \o <<e>> /\ rows \o batch \in Seq(Sample)
  BY <1>3, ConcatAssociative, ConcatProperties
<1>5. ((rows \o batch) \o <<e>>) \o t = (rows \o batch) \o (<<e>> \o t)
  BY <1>2, <1>3, <1>4, ConcatAssociative
<1> QED BY <1>1, <1>2, <1>3, <1>4, <1>5, Zenon

\* Enqueue adds the newest.
LEMMA SendKeeps ==
    ASSUME rows \in Seq(Sample), batch \in Seq(Sample), ch \in Seq(Sample), NEW e \in Sample
    PROVE  rows \o batch \o Append(ch, e) = Append(rows \o batch \o ch, e)
OBVIOUS

\* A flush moves the batch to the table.
LEMMA FlushKeeps ==
    ASSUME NEW S, NEW r \in Seq(S), NEW b \in Seq(S), NEW c \in Seq(S)
    PROVE  (r \o b) \o <<>> \o c = r \o b \o c
OBVIOUS

-----------------------------------------------------------------------------
(***************************************************************************)
(* The inductive invariant.  A batch in select has room for one more       *)
(* sample; a goroutine in Enqueue has emitted it; and the stages of Run    *)
(* say which scan goroutines can still be there.                           *)
(***************************************************************************)
BatchInv ==
    /\ wpc = "select" => Len(batch) < BatchSize
    /\ wpc = "none" => batch = <<>>
    /\ \A s \in Scan: spc[s] = "enqueue" => emitted[s] >= 1

\* closed is set between the last exit of a scan goroutine and the return of Run.
StageInv ==
    /\ rpc = "new" <=> wpc = "none"
    /\ rpc \notin {"new", "writer"} => \A s \in Scan \ Late: spc[s] # "none"
    /\ rpc = "stopHist" => \A s \in Scan \ Late: spc[s] = "exited"
    /\ closed => rpc \in {"waitHist", "close", "returned"}

Inv == TypeOK /\ BatchInv /\ StageInv /\ NoSendOnClosed /\ NoHole

-----------------------------------------------------------------------------
LEMMA InitInv == Init => Inv
<1> SUFFICES ASSUME Init PROVE Inv
  OBVIOUS
<1>1. TypeOK
  <2>1. <<>> \in Seq(Sample) /\ Len(<<>>) = 0 /\ 0 <= BufferSize /\ 0 <= BatchSize
    BY HistorianAssumption, EmptySeq
  <2>2. emitted \in [Scan -> 0..MaxSamples] /\ spc \in [Scan -> {"none", "scan", "enqueue", "exited"}]
    BY HistorianAssumption DEF Init
  <2>3. {closed, ctxDone, panicked, fault} \subseteq BOOLEAN
    BY DEF Init
  <2>4. ch = <<>> /\ batch = <<>> /\ rows = <<>> /\ accepted = <<>> /\ wpc = "none" /\ rpc = "new"
    BY DEF Init
  <2> QED BY <2>1, <2>2, <2>3, <2>4 DEF TypeOK
<1>2. BatchInv /\ StageInv /\ NoSendOnClosed
  BY DEF Init, BatchInv, StageInv, NoSendOnClosed
<1>3. rows \o batch \o ch = accepted
  BY DEF Init
<1>4. IsPrefix(rows, accepted)
  BY DEF Init, IsPrefix
<1> QED BY <1>1, <1>2, <1>3, <1>4 DEF Inv, NoHole

\* The writer's goroutine.
LEMMA RunInv ==
    ASSUME Inv, run
    PROVE  Inv'
<1>0. /\ ch \in Seq(Sample) /\ batch \in Seq(Sample) /\ rows \in Seq(Sample) /\ accepted \in Seq(Sample)
      /\ Len(ch) <= BufferSize /\ Len(batch) <= BatchSize /\ fault \in BOOLEAN /\ ctxDone \in BOOLEAN
      /\ BufferSize \in Nat \ {0} /\ BatchSize \in Nat \ {0}
  BY HistorianAssumption DEF Inv, TypeOK
<1>1. CASE RunCtxDone \/ RunClosed \/ RunTick
  <2>1. /\ wpc = "select" /\ wpc' \in {"final", "tick"}
        /\ UNCHANGED <<ch, closed, batch, rows, fault, spc, emitted, ctxDone, rpc, panicked, accepted>>
    BY <1>1 DEF RunCtxDone, RunClosed, RunTick, scanVars
  <2>2. TypeOK' /\ BatchInv'
    BY <2>1 DEF Inv, TypeOK, BatchInv, Flushing
  <2>3. StageInv' /\ NoSendOnClosed' /\ NoHole'
    BY <2>1 DEF Inv, StageInv, NoSendOnClosed, NoHole
  <2> QED BY <2>2, <2>3 DEF Inv
<1>2. CASE RunTake
  <2>1. /\ wpc = "select" /\ ch # <<>> /\ batch' = Append(batch, Head(ch)) /\ ch' = Tail(ch)
        /\ wpc' = IF BatchIsFull(batch') THEN "full" ELSE "select"
        /\ UNCHANGED <<closed, rows, fault, spc, emitted, ctxDone, rpc, panicked, accepted>>
    BY <1>2 DEF RunTake, scanVars
  <2>2. /\ Head(ch) \in Sample /\ batch' \in Seq(Sample) /\ Len(batch') = Len(batch) + 1
        /\ ch' \in Seq(Sample) /\ Len(ch') = Len(ch) - 1
    BY <1>0, <2>1
  <2>3. Len(batch) < BatchSize
    BY <2>1 DEF Inv, BatchInv
  <2>4. TypeOK' /\ BatchInv'
    BY <1>0, <2>1, <2>2, <2>3 DEF Inv, TypeOK, BatchInv, BatchIsFull, Flushing
  <2>5. rows' \o batch' \o ch' = rows \o batch \o ch
    <3>1. rows \o Append(batch, Head(ch)) \o Tail(ch) = rows \o batch \o ch
      <4>1. rows \in Seq(Sample) /\ batch \in Seq(Sample) /\ ch \in Seq(Sample) /\ ch # <<>>
        BY <1>0, <2>1
      <4> QED BY <4>1, TakeKeeps
    <3> QED BY <2>1, <3>1
  <2>6. NoHole'
    BY <2>1, <2>5 DEF Inv, NoHole
  <2>7. StageInv' /\ NoSendOnClosed'
    BY <2>1 DEF Inv, StageInv, NoSendOnClosed
  <2> QED BY <2>4, <2>6, <2>7 DEF Inv
<1>3. CASE FlushOk
  <2>1. /\ wpc \in Flushing /\ rows' = rows \o batch /\ batch' = <<>>
        /\ wpc' \in {"exited", "select"}
        /\ UNCHANGED <<fault, ch, closed, spc, emitted, ctxDone, rpc, panicked, accepted>>
    BY <1>3 DEF FlushOk, AfterFlush, FlushUnchanged, scanVars
  <2>2. rows' \in Seq(Sample) /\ batch' \in Seq(Sample) /\ Len(batch') = 0
    BY <1>0, <2>1
  <2>3. TypeOK' /\ BatchInv'
    BY <1>0, <2>1, <2>2 DEF Inv, TypeOK, BatchInv, Flushing
  <2>4. rows' \o batch' \o ch' = rows \o batch \o ch
    BY <1>0, <2>1, FlushKeeps
  <2>5. rows \o batch \o ch = accepted
    BY <2>1 DEF Inv, NoHole, Flushing
  <2>6. IsPrefix(rows', rows' \o batch' \o ch')
    BY <1>0, <2>1, <2>2, PrefixOfConcat
  <2>7. NoHole'
    BY <2>1, <2>4, <2>5, <2>6 DEF NoHole
  <2>8. StageInv' /\ NoSendOnClosed'
    BY <2>1 DEF Inv, StageInv, NoSendOnClosed, Flushing
  <2> QED BY <2>3, <2>7, <2>8 DEF Inv
<1>4. CASE FlushFail
  BY <1>0, <1>4 DEF FlushFail, FlushUnchanged, scanVars, Flushing, Inv, TypeOK, BatchInv,
              StageInv, NoSendOnClosed, NoHole
<1> QED BY <1>1, <1>2, <1>3, <1>4 DEF run

\* The scan goroutines.
LEMMA ScanInv ==
    ASSUME Inv, NEW s \in Scan, scan(s)
    PROVE  Inv'
<1>0. /\ ch \in Seq(Sample) /\ batch \in Seq(Sample) /\ rows \in Seq(Sample) /\ accepted \in Seq(Sample)
      /\ Len(ch) <= BufferSize /\ BufferSize \in Nat \ {0} /\ MaxSamples \in Nat
      /\ spc \in [Scan -> {"none", "scan", "enqueue", "exited"}]
      /\ emitted \in [Scan -> 0..MaxSamples]
  BY HistorianAssumption DEF Inv, TypeOK
<1>1. CASE Emit(s)
  <2>1. /\ spc[s] = "scan" /\ emitted[s] < MaxSamples
        /\ emitted' = [emitted EXCEPT ![s] = @ + 1] /\ spc' = [spc EXCEPT ![s] = "enqueue"]
        /\ UNCHANGED <<ch, closed, batch, rows, wpc, fault, ctxDone, rpc, panicked, accepted>>
    BY <1>1 DEF Emit, writerVars
  <2>2. TypeOK' /\ BatchInv'
    BY <1>0, <2>1 DEF Inv, TypeOK, BatchInv
  <2>3. StageInv' /\ NoSendOnClosed'
    BY <1>0, <2>1 DEF Inv, StageInv, NoSendOnClosed
  <2>4. NoHole'
    BY <2>1 DEF Inv, NoHole
  <2> QED BY <2>2, <2>3, <2>4 DEF Inv
<1>2. CASE EnqueueSend(s)
  <2> DEFINE x == <<s, emitted[s]>>
  <2>1. /\ spc[s] = "enqueue" /\ ~closed /\ Len(ch) < BufferSize
        /\ ch' = Append(ch, x) /\ accepted' = Append(accepted, x)
        /\ spc' = [spc EXCEPT ![s] = "scan"]
        /\ UNCHANGED <<closed, batch, rows, wpc, fault, emitted, ctxDone, rpc, panicked>>
    BY <1>2 DEF EnqueueSend, writerVars
  <2>2. x \in Sample
    BY <1>0, <2>1 DEF Inv, BatchInv, Sample
  <2> HIDE DEF x
  <2>3. ch' \in Seq(Sample) /\ Len(ch') = Len(ch) + 1 /\ accepted' \in Seq(Sample)
    BY <1>0, <2>1, <2>2
  <2>4. TypeOK' /\ BatchInv'
    BY <1>0, <2>1, <2>3 DEF Inv, TypeOK, BatchInv
  <2>5. rows \o batch \o ch' = Append(rows \o batch \o ch, x)
    <3>1. rows \o batch \o Append(ch, x) = Append(rows \o batch \o ch, x)
      BY <1>0, <2>2, SendKeeps, Zenon
    <3> QED BY <2>1, <3>1, Zenon
  <2>6. IsPrefix(rows, accepted')
    BY <1>0, <2>1, <2>2, PrefixAppend DEF Inv, NoHole
  <2>7. NoHole'
    BY <2>1, <2>5, <2>6 DEF Inv, NoHole
  <2>8. StageInv' /\ NoSendOnClosed'
    BY <1>0, <2>1 DEF Inv, StageInv, NoSendOnClosed
  <2> QED BY <2>4, <2>7, <2>8 DEF Inv
<1>3. CASE EnqueueCancelled(s) \/ ScanExit(s) \/ LateReload(s)
  <2>1. /\ spc[s] # "exited"
        /\ \/ spc' = [spc EXCEPT ![s] = "scan"] /\ spc[s] = "enqueue"
           \/ spc' = [spc EXCEPT ![s] = "exited"]
           \/ spc' = [spc EXCEPT ![s] = "scan"] /\ s \in Late
        /\ UNCHANGED <<ch, closed, batch, rows, wpc, fault, emitted, ctxDone, rpc, panicked, accepted>>
    BY <1>3 DEF EnqueueCancelled, ScanExit, LateReload, writerVars
  <2>2. TypeOK' /\ BatchInv'
    BY <1>0, <2>1 DEF Inv, TypeOK, BatchInv
  <2>3. StageInv' /\ NoSendOnClosed'
    BY <1>0, <2>1 DEF Inv, StageInv, NoSendOnClosed
  <2>4. NoHole'
    BY <2>1 DEF Inv, NoHole
  <2> QED BY <2>2, <2>3, <2>4 DEF Inv
<1>4. CASE EnqueuePanic(s)
  BY <1>4 DEF EnqueuePanic, writerVars, scanVars, Inv, TypeOK, BatchInv, StageInv,
              NoSendOnClosed, NoHole
<1> QED BY <1>1, <1>2, <1>3, <1>4 DEF scan

\* Server.Run.
LEMMA ServerInv ==
    ASSUME Inv, StartWriter \/ StartScans \/ CancelCtx \/ ServeError \/ Shutdown
    PROVE  Inv'
<1> USE DEF RunUnchanged, Inv, TypeOK, BatchInv, StageInv, NoSendOnClosed, NoHole
<1>1. CASE StartWriter
  BY <1>1, HistorianAssumption DEF StartWriter
<1>2. CASE StartScans
  BY <1>2 DEF StartScans
<1>3. CASE CancelCtx
  BY <1>3 DEF CancelCtx
<1>4. CASE ServeError
  BY <1>4 DEF ServeError
<1>5. CASE StopPLC
  BY <1>5 DEF StopPLC
<1>6. CASE StoppedPLC
  BY <1>6 DEF StoppedPLC
<1>7. CASE StopClose
  BY <1>7 DEF StopClose
<1>8. CASE StopWait
  BY <1>8 DEF StopWait
<1>9. CASE CloseStore
  BY <1>9 DEF CloseStore
<1> QED BY <1>1, <1>2, <1>3, <1>4, <1>5, <1>6, <1>7, <1>8, <1>9 DEF Shutdown

-----------------------------------------------------------------------------
\* The inductive invariant holds in every reachable state.
THEOREM HistorianInvariant == Spec => []Inv
<1>1. Init => Inv
  BY InitInv
<1>2. Inv /\ [Next]_vars => Inv'
  <2> SUFFICES ASSUME Inv, [Next]_vars PROVE Inv'
    OBVIOUS
  <2>1. CASE Ended \/ UNCHANGED vars
    <3>1. UNCHANGED <<ch, closed, batch, rows, wpc, fault, spc, emitted, ctxDone, rpc, panicked, accepted>>
      BY <2>1 DEF Ended, vars, writerVars, scanVars
    <3>2. TypeOK' /\ BatchInv'
      BY <3>1 DEF Inv, TypeOK, BatchInv
    <3>3. StageInv' /\ NoSendOnClosed' /\ NoHole'
      BY <3>1 DEF Inv, StageInv, NoSendOnClosed, NoHole
    <3> QED BY <3>2, <3>3 DEF Inv
  <2> QED BY <2>1, RunInv, ScanInv, ServerInv DEF Next
<1> QED BY <1>1, <1>2, PTL DEF Spec

\* Channel and batch stay within their capacities, and every variable keeps
\* its type.
THEOREM TypeCorrect == Spec => []TypeOK
<1>1. Inv => TypeOK
  BY DEF Inv
<1> QED BY <1>1, HistorianInvariant, PTL

\* The writer loses, repeats and reorders nothing while it runs, and whatever
\* fails, the table holds a prefix of what Enqueue accepted.
THEOREM HistoryHasNoHole == Spec => []NoHole
<1>1. Inv => NoHole
  BY DEF Inv
<1> QED BY <1>1, HistorianInvariant, PTL

\* Writer.Stop closes the channel after every scan goroutine that Run started
\* has exited.
THEOREM StopAfterScans == Spec => []NoSendOnClosed
<1>1. Inv => NoSendOnClosed
  BY DEF Inv
<1> QED BY <1>1, HistorianInvariant, PTL
=============================================================================
