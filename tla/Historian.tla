------------------------------- MODULE Historian -------------------------------
(***************************************************************************)
(* The historian writer (internal/historian/writer.go, InsertBatch of      *)
(* store.go) between its producers and its shutdown: the scan goroutines   *)
(* that call Enqueue through the callback buildTagCallback makes, and      *)
(* Server.Run, which starts the writer before the scans, stops it after    *)
(* them and leaves the store to be closed by its caller.                   *)
(*                                                                         *)
(* A sample is <<scan goroutine, number>>.  One context, the server's, is  *)
(* given to Start, Stop, Enqueue and InsertBatch alike.                    *)
(***************************************************************************)
EXTENDS Integers, Sequences, SequencesExt

CONSTANTS
    Scan,        \* scan goroutines of the PLC manager
    Late,        \* those that a Reload overlapping Stop adds (PlcManager)
    BufferSize,  \* capacity of w.ch: 1024 by default
    BatchSize,   \* samples per flush: 100 by default
    MaxSamples   \* bound: samples each scan goroutine emits

ASSUME HistorianAssumption ==
    /\ Late \subseteq Scan
    /\ BufferSize \in Nat \ {0} /\ BatchSize \in Nat \ {0}
    /\ MaxSamples \in Nat

Sample == Scan \X (1..MaxSamples)

VARIABLES
    ch,        \* the channel's content
    closed,    \* close(w.ch) has happened
    batch,     \* run's local batch
    rows,      \* tag_samples, in insertion order
    wpc,       \* the goroutine run: where it is
    spc,       \* per scan goroutine
    emitted,   \* samples each scan goroutine has begun to emit
    ctxDone,   \* the server's context is cancelled
    rpc,       \* Server.Run and its caller
    panicked,  \* the process died of a send on the closed channel
    \* ---- history
    accepted,  \* samples whose Enqueue returned nil, in order
    fault      \* an InsertBatch failed although the context was live

writerVars == <<batch, rows, wpc, fault>>
scanVars == <<spc, emitted>>
vars == <<ch, closed, writerVars, scanVars, ctxDone, rpc, panicked, accepted>>

\* Pending flushes: on a full batch, on a tick, and before run returns.
Flushing == {"full", "tick", "final"}

TypeOK ==
    /\ ch \in Seq(Sample) /\ Len(ch) <= BufferSize
    /\ batch \in Seq(Sample) /\ Len(batch) <= BatchSize
    /\ rows \in Seq(Sample) /\ accepted \in Seq(Sample)
    /\ wpc \in Flushing \cup {"none", "select", "exited"}
    /\ spc \in [Scan -> {"none", "scan", "enqueue", "exited"}]
    /\ emitted \in [Scan -> 0..MaxSamples]
    /\ rpc \in {"new", "writer", "running", "stopPLC", "stopHist", "waitHist",
                "close", "returned"}
    /\ {closed, ctxDone, panicked, fault} \subseteq BOOLEAN

-----------------------------------------------------------------------------
\* NewWriter.
Init ==
    /\ ch = <<>> /\ closed = FALSE
    /\ batch = <<>> /\ rows = <<>> /\ wpc = "none" /\ fault = FALSE
    /\ spc = [s \in Scan |-> "none"]
    /\ emitted = [s \in Scan |-> 0]
    /\ ctxDone = FALSE /\ rpc = "new" /\ panicked = FALSE
    /\ accepted = <<>>

\* The process executes: it has not died and Run's caller has not returned.
Alive == ~panicked /\ rpc # "returned"

-----------------------------------------------------------------------------
(* run. *)

\* select takes <-ctx.Done(): one flush, then return.
RunCtxDone ==
    /\ Alive /\ wpc = "select"
    /\ ctxDone
    /\ wpc' = "final"
    /\ UNCHANGED <<ch, closed, batch, rows, fault, scanVars, ctxDone, rpc,
                   panicked, accepted>>

\* Mutant: the batch is flushed when it is longer than BatchSize.
BatchIsFullLate(b) == Len(b) > BatchSize

BatchIsFull(b) == Len(b) >= BatchSize

\* select takes a sample from the channel.
RunTake ==
    /\ Alive /\ wpc = "select"
    /\ ch # <<>>
    /\ batch' = Append(batch, Head(ch))
    /\ ch' = Tail(ch)
    /\ wpc' = IF BatchIsFull(batch') THEN "full" ELSE "select"
    /\ UNCHANGED <<closed, rows, fault, scanVars, ctxDone, rpc, panicked, accepted>>

\* select finds the channel closed and empty.
RunClosed ==
    /\ Alive /\ wpc = "select"
    /\ closed /\ ch = <<>>
    /\ wpc' = "final"
    /\ UNCHANGED <<ch, closed, batch, rows, fault, scanVars, ctxDone, rpc,
                   panicked, accepted>>

\* Mutant: a tick flushes full batches only.
RunTickFull ==
    /\ Alive /\ wpc = "select"
    /\ BatchIsFull(batch)
    /\ wpc' = "tick"
    /\ UNCHANGED <<ch, closed, batch, rows, fault, scanVars, ctxDone, rpc,
                   panicked, accepted>>

\* select takes <-ticker.C; an empty batch needs no flush.
RunTick ==
    /\ Alive /\ wpc = "select"
    /\ batch # <<>>
    /\ wpc' = "tick"
    /\ UNCHANGED <<ch, closed, batch, rows, fault, scanVars, ctxDone, rpc,
                   panicked, accepted>>

FlushUnchanged == <<ch, closed, scanVars, ctxDone, rpc, panicked, accepted>>

AfterFlush == IF wpc = "final" THEN "exited" ELSE "select"

\* flush returns true: InsertBatch commits the whole batch in one
\* transaction, which needs a live context; an empty batch needs nothing.
FlushOk ==
    /\ Alive /\ wpc \in Flushing
    /\ batch # <<>> => ~ctxDone
    /\ rows' = rows \o batch
    /\ batch' = <<>>
    /\ wpc' = AfterFlush
    /\ UNCHANGED <<fault, FlushUnchanged>>

\* Mutant: a failed flush drops the batch and the goroutine goes on.
FlushFailGoesOn ==
    /\ Alive /\ wpc \in Flushing
    /\ batch # <<>>
    /\ batch' = <<>>
    /\ fault' = (fault \/ ~ctxDone)
    /\ wpc' = AfterFlush
    /\ UNCHANGED <<rows, FlushUnchanged>>

\* Mutant: errCh has no buffer, and flush blocks on it.
FlushFailBlocks ==
    /\ Alive /\ wpc \in Flushing
    /\ batch # <<>>
    /\ fault' = (fault \/ ~ctxDone)
    /\ wpc' = "blocked"
    /\ UNCHANGED <<batch, rows, FlushUnchanged>>

\* flush returns false: the transaction is rolled back and run returns; the
\* batch and the channel's content are gone with it.
FlushFail ==
    /\ Alive /\ wpc \in Flushing
    /\ batch # <<>>
    /\ fault' = (fault \/ ~ctxDone)
    /\ wpc' = "exited"
    /\ UNCHANGED <<batch, rows, FlushUnchanged>>

run == RunCtxDone \/ RunTake \/ RunClosed \/ RunTick \/ FlushOk \/ FlushFail

-----------------------------------------------------------------------------
(* Scan goroutines: the callback calls Enqueue with the server's context.  *)

Emit(s) ==
    /\ Alive /\ spc[s] = "scan"
    /\ emitted[s] < MaxSamples
    /\ emitted' = [emitted EXCEPT ![s] = @ + 1]
    /\ spc' = [spc EXCEPT ![s] = "enqueue"]
    /\ UNCHANGED <<ch, closed, writerVars, ctxDone, rpc, panicked, accepted>>

EnqueueSend(s) ==
    /\ Alive /\ spc[s] = "enqueue"
    /\ ~closed /\ Len(ch) < BufferSize
    /\ ch' = Append(ch, <<s, emitted[s]>>)
    /\ accepted' = Append(accepted, <<s, emitted[s]>>)
    /\ spc' = [spc EXCEPT ![s] = "scan"]
    /\ UNCHANGED <<closed, writerVars, emitted, ctxDone, rpc, panicked>>

\* Mutant: Enqueue does not watch its context.
EnqueueCancelledNever(s) ==
    /\ Alive /\ spc[s] = "enqueue"
    /\ FALSE
    /\ UNCHANGED vars

\* Enqueue returns ctx.Err(), which the callback logs.
EnqueueCancelled(s) ==
    /\ Alive /\ spc[s] = "enqueue"
    /\ ctxDone
    /\ spc' = [spc EXCEPT ![s] = "scan"]
    /\ UNCHANGED <<ch, closed, writerVars, emitted, ctxDone, rpc, panicked, accepted>>

\* The select of Enqueue picks the send on a closed channel.
EnqueuePanic(s) ==
    /\ Alive /\ spc[s] = "enqueue"
    /\ closed
    /\ panicked' = TRUE
    /\ UNCHANGED <<ch, closed, writerVars, scanVars, ctxDone, rpc, accepted>>

\* runWorker returns at its select.
ScanExit(s) ==
    /\ Alive /\ spc[s] = "scan"
    /\ ctxDone
    /\ spc' = [spc EXCEPT ![s] = "exited"]
    /\ UNCHANGED <<ch, closed, writerVars, emitted, ctxDone, rpc, panicked, accepted>>

\* A Reload that passed its stopped check before Stop adds its worker.
LateReload(s) ==
    /\ Alive /\ s \in Late /\ spc[s] = "none"
    /\ rpc \in {"stopPLC", "stopHist", "waitHist", "close"}
    /\ spc' = [spc EXCEPT ![s] = "scan"]
    /\ UNCHANGED <<ch, closed, writerVars, emitted, ctxDone, rpc, panicked, accepted>>

scan(s) ==
    \/ Emit(s) \/ EnqueueSend(s) \/ EnqueueCancelled(s) \/ EnqueuePanic(s)
    \/ ScanExit(s) \/ LateReload(s)

-----------------------------------------------------------------------------
(* Server.Run. *)

RunUnchanged == <<ch, batch, rows, fault, emitted, panicked, accepted>>

\* histW.Start, then plcMgr.Start.
StartWriter ==
    /\ rpc = "new"
    /\ wpc' = "select"
    /\ rpc' = "writer"
    /\ UNCHANGED <<closed, spc, ctxDone, RunUnchanged>>

StartScans ==
    /\ Alive /\ rpc = "writer"
    /\ spc' = [s \in Scan |-> IF s \in Late THEN "none" ELSE "scan"]
    /\ rpc' = "running"
    /\ UNCHANGED <<closed, wpc, ctxDone, RunUnchanged>>

\* The signal handler cancels the server's context.
CancelCtx ==
    /\ Alive /\ ~ctxDone
    /\ ctxDone' = TRUE
    /\ UNCHANGED <<closed, wpc, spc, rpc, RunUnchanged>>

\* Serve fails: Run returns without stopping anything.
ServeError ==
    /\ Alive /\ rpc = "running"
    /\ rpc' = "close"
    /\ UNCHANGED <<closed, wpc, spc, ctxDone, RunUnchanged>>

\* plcMgr.Stop begins ...
StopPLC ==
    /\ Alive /\ rpc = "running"
    /\ ctxDone
    /\ rpc' = "stopPLC"
    /\ UNCHANGED <<closed, wpc, spc, ctxDone, RunUnchanged>>

\* Mutant: plcMgr.Stop does not wait.
StoppedPLCNoWait ==
    /\ Alive /\ rpc = "stopPLC"
    /\ rpc' = "stopHist"
    /\ UNCHANGED <<closed, wpc, spc, ctxDone, RunUnchanged>>

\* ... and returns when no scan goroutine runs.
StoppedPLC ==
    /\ Alive /\ rpc = "stopPLC"
    /\ \A s \in Scan: spc[s] \in {"none", "exited"}
    /\ rpc' = "stopHist"
    /\ UNCHANGED <<closed, wpc, spc, ctxDone, RunUnchanged>>

\* Writer.Stop: close(w.ch) ...
StopClose ==
    /\ Alive /\ rpc = "stopHist"
    /\ closed' = TRUE
    /\ rpc' = "waitHist"
    /\ UNCHANGED <<wpc, spc, ctxDone, RunUnchanged>>

\* ... then it waits for done, or for the context, whichever it sees.
StopWait ==
    /\ Alive /\ rpc = "waitHist"
    /\ wpc = "exited" \/ ctxDone
    /\ rpc' = "close"
    /\ UNCHANGED <<closed, wpc, spc, ctxDone, RunUnchanged>>

\* Run has returned: the deferred histStore.Close, and the process ends.
CloseStore ==
    /\ Alive /\ rpc = "close"
    /\ rpc' = "returned"
    /\ UNCHANGED <<closed, wpc, spc, ctxDone, RunUnchanged>>

Shutdown == StopPLC \/ StoppedPLC \/ StopClose \/ StopWait \/ CloseStore

Ended == ~Alive /\ UNCHANGED vars

Next ==
    \/ run
    \/ \E s \in Scan: scan(s)
    \/ StartWriter \/ StartScans \/ CancelCtx \/ ServeError \/ Shutdown
    \/ Ended

Spec == Init /\ [][Next]_vars

(***************************************************************************)
(* Fairness: goroutines are scheduled, the ticker ticks and a transaction  *)
(* ends.  A select that keeps finding ctx.Done ready does not pass it over *)
(* for ever (SF).  The server's context need never be cancelled.           *)
(***************************************************************************)
Fairness ==
    /\ WF_vars(StartWriter) /\ WF_vars(StartScans) /\ WF_vars(Shutdown)
    /\ WF_vars(RunTake \/ RunClosed \/ RunCtxDone) /\ WF_vars(FlushOk \/ FlushFail)
    /\ SF_vars(RunTick)
    /\ \A s \in Scan:
        /\ WF_vars(EnqueueSend(s) \/ EnqueueCancelled(s) \/ EnqueuePanic(s))
        /\ SF_vars(ScanExit(s))

FairSpec == Spec /\ Fairness

-----------------------------------------------------------------------------
(* Properties. *)

\* Nothing is lost, duplicated or reordered between Enqueue and the table
\* while run is running: rows, batch and channel together are what Enqueue
\* accepted.  Whatever happens, the rows are a prefix of it: a failed batch is
\* never followed by a later one, so the history has no hole.
NoHole ==
    /\ wpc # "exited" => rows \o batch \o ch = accepted
    /\ IsPrefix(rows, accepted)

\* No sample is enqueued on a closed channel by a goroutine that Run started:
\* plcMgr.Stop has seen them all exit before Writer.Stop closes the channel.
NoSendOnClosed ==
    closed => \A s \in Scan \ Late: spc[s] = "exited"

\* A scan goroutine leaves Enqueue as long as the writer's goroutine runs or
\* the server is shutting down: a full channel delays the scan loop, and a
\* shutdown that finds it blocked frees it.
ScanGoesOn ==
    \A s \in Scan:
        spc[s] = "enqueue" ~> spc[s] # "enqueue" \/ wpc = "exited" \/ ~Alive

\* Once the context is cancelled Run's caller returns, with scan goroutines
\* blocked in Enqueue, a flush in progress or the writer long dead.
ShutdownEnds == ctxDone /\ rpc = "running" ~> ~Alive

\* An accepted sample reaches the table although it may never fill a batch,
\* unless the server shuts down or the database fails.
AcceptedIsStored ==
    \A x \in Sample:
        Contains(accepted, x) ~> Contains(rows, x) \/ fault \/ ctxDone \/ ~Alive

-----------------------------------------------------------------------------
(* What a comment says and the code does not guarantee. *)

\* "Stop historian writer (flushes pending samples)": when Writer.Stop has
\* returned and no insert failed, every accepted sample is in the table.
StopFlushes ==
    closed /\ rpc = "returned" /\ ~fault => rows = accepted
=============================================================================
