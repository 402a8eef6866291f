------------------------------- MODULE Gateway -------------------------------
(***************************************************************************)
(* The gateway process: after Boot, Server.Run (internal/server/server.go) *)
(* starts, serves and stops the components of TagHub, WriteAccess, Backup  *)
(* and OpcuaServer, and the command (cmd/server.go) closes the stores when *)
(* Run returns.  The historian writer and the edge node have modules of    *)
(* their own; here their Start and Stop are steps of Run.                  *)
(*                                                                         *)
(* Optional components are nil when they are not configured, and some      *)
(* clients never show up (deployment.load).                                *)
(***************************************************************************)
EXTENDS Boot, TagHub, WriteAccess, Backup, OpcuaServer

vars == <<runVars, hubVars, connVars, accessVars, backupVars, opcVars, deployment>>

allHub == <<hubVars, connVars>>

TypeOK ==
    /\ RunTypeOK /\ HubTypeOK /\ AccessTypeOK /\ BackupTypeOK /\ OpcTypeOK
    /\ deployment \in Deployments
    /\ (status = "running") = (manual = "restic")

Init ==
    /\ RunInit /\ HubInit /\ AccessInit /\ BackupInit /\ OpcInit
    /\ deployment \in Deployments

-----------------------------------------------------------------------------
(* Server.Run: start. *)

Goto(s) == stage' = s /\ UNCHANGED <<ctxDone, serveErr, late, cfg, open, deployment>>

\* spNode.Start and histW.Start return without waiting for their goroutines.
StartNode ==
    /\ stage = "node"
    /\ Goto("hist")
    /\ UNCHANGED <<allHub, accessVars, backupVars, opcVars>>

StartHist ==
    /\ stage = "hist"
    /\ Goto("plc")
    /\ UNCHANGED <<allHub, accessVars, backupVars, opcVars>>

\* AddTagCallback(PublishTagUpdate), then plcMgr.Start.
StartPlc ==
    /\ stage = "plc"
    /\ Goto("opcua")
    /\ ScanStart
    /\ UNCHANGED <<accessVars, backupVars, opcVars>>

StartOpcua ==
    /\ stage = "opcua"
    /\ Goto("backup")
    /\ IF cfg["opcua.enabled"] # "off" THEN OpcSpawn ELSE UNCHANGED opcVars
    /\ UNCHANGED <<allHub, accessVars, backupVars>>

StartBackup ==
    /\ stage = "backup"
    /\ Goto("serve")
    /\ IF cfg["backup.repos"] = "on" THEN SchedulerStart ELSE UNCHANGED backupVars
    /\ UNCHANGED <<allHub, accessVars, opcVars>>

\* A signal.
CancelCtx ==
    /\ Alive /\ ~ctxDone
    /\ ctxDone' = TRUE
    /\ UNCHANGED <<stage, serveErr, late, cfg, open, deployment>>
    /\ UNCHANGED <<allHub, accessVars, backupVars, opcVars>>

\* serveErr: Run returns at once and stops nothing.
ServeError ==
    /\ stage = "serve"
    /\ stage' = "returned"
    /\ serveErr' = TRUE
    /\ UNCHANGED <<ctxDone, late, cfg, open, deployment>>
    /\ UNCHANGED <<allHub, accessVars, backupVars, opcVars>>

-----------------------------------------------------------------------------
(* Server.Run: shutdown. *)

ShutdownInitiated ==
    /\ stage = "serve" /\ ctxDone
    /\ Goto("stopBackup")
    /\ UNCHANGED <<allHub, accessVars, backupVars, opcVars>>

\* Mutant: Stop does not wait for the scheduler goroutine.
StopBackupNoWait ==
    /\ stage = "stopBackup"
    /\ Goto("stopOpcua")
    /\ UNCHANGED <<allHub, accessVars, backupVars, opcVars>>

\* bkpSch.Stop: <-s.done.
StopBackup ==
    /\ stage = "stopBackup" /\ sched \in {"off", "done"}
    /\ Goto("stopOpcua")
    /\ UNCHANGED <<allHub, accessVars, backupVars, opcVars>>

StopOpcua ==
    /\ stage = "stopOpcua"
    /\ Goto("stopPlc")
    /\ IF cfg["opcua.enabled"] # "off" THEN OpcStop ELSE UNCHANGED opcVars
    /\ UNCHANGED <<allHub, accessVars, backupVars>>

\* plcMgr.Stop: wg.Wait for the scan goroutines, then Close of the drivers.
StopPlc ==
    /\ stage = "stopPlc" /\ \A s \in Source: scan[s] = "ended"
    /\ Goto("stopHist")
    /\ UNCHANGED <<allHub, accessVars, backupVars, opcVars>>

StopHist ==
    /\ stage = "stopHist"
    /\ Goto("stopNode")
    /\ UNCHANGED <<allHub, accessVars, backupVars, opcVars>>

\* spNode.Stop publishes the death certificates without a deadline.  On a link
\* that is down paho gives up on them in a clean session, and keeps them for
\* the next connection in another: then Stop may never return.
NodeStopReturns == cfg["mqtt.groupID"] # "on" \/ cfg["mqtt.cleanSession"] = "on"

StopNode ==
    /\ stage = "stopNode"
    /\ Goto("shutdown")
    /\ UNCHANGED <<allHub, accessVars, backupVars, opcVars>>

\* Handlers that Shutdown waits for; hijacked WebSockets are none of them.
Busy == ActiveHandlers # {} \/ edited

\* Mutant: Close instead of Shutdown.
ShutdownNoWait ==
    /\ stage = "shutdown"
    /\ Goto("returned")
    /\ UNCHANGED <<allHub, accessVars, backupVars, opcVars>>

\* httpx.Shutdown: the handlers are through.
Shutdown ==
    /\ stage = "shutdown" /\ ~Busy
    /\ Goto("returned")
    /\ UNCHANGED <<allHub, accessVars, backupVars, opcVars>>

\* httpx.Shutdown: the deadline passes first.
ShutdownDeadline ==
    /\ stage = "shutdown" /\ Busy
    /\ stage' = "returned"
    /\ late' = TRUE
    /\ UNCHANGED <<ctxDone, serveErr, cfg, open, deployment>>
    /\ UNCHANGED <<allHub, accessVars, backupVars, opcVars>>

\* The deferred Close calls of the command, the last one deferred first.
CloseOrder == <<"audit", "users", "acl", "plc", "hist">>

CloseNext ==
    LET rank(x) == CHOOSE i \in 1..Len(CloseOrder): CloseOrder[i] = x
    IN  CHOOSE x \in open: \A y \in open: rank(x) <= rank(y)

CloseStore ==
    /\ stage = "returned" /\ open # {}
    /\ open' = open \ {CloseNext}
    /\ UNCHANGED <<stage, ctxDone, serveErr, late, cfg, deployment>>
    /\ UNCHANGED <<allHub, accessVars, backupVars, opcVars>>

\* The command returns and the process ends with all its goroutines.
Exit ==
    /\ stage = "returned" /\ open = {}
    /\ Goto("exited")
    /\ UNCHANGED <<allHub, accessVars, backupVars, opcVars>>

Exited == ~Alive /\ UNCHANGED vars

\* The components are not there before Run starts them.
BootStep ==
    /\ BootNext
    /\ UNCHANGED <<allHub, accessVars, backupVars, opcVars>>

Run ==
    \/ BootStep
    \/ StartNode \/ StartHist \/ StartPlc \/ StartOpcua \/ StartBackup
    \/ ShutdownInitiated \/ StopBackup \/ StopOpcua \/ StopPlc \/ StopHist \/ StopNode
    \/ Shutdown \/ ShutdownDeadline \/ CloseStore \/ Exit

-----------------------------------------------------------------------------
(* The components. *)

\* (A publish without any client has no effect and is no step.)
ScanStep(s) ==
    /\ Alive
    /\ ("clients" \in deployment.load /\ Publish(s)) \/ PublishSteps(s) \/ ScanExit(s)
    /\ UNCHANGED <<runVars, accessVars, backupVars, opcVars, deployment>>

ConnStep(c) ==
    /\ Alive /\ "clients" \in deployment.load
    /\ \/ Accept(c) \/ AuthOk(c) \/ (\E f \in Filter: Read(c, f)) \/ Stall(c) \/ Break(c)
       \/ HandlerSteps(c) \/ WriterSteps(c)
    /\ UNCHANGED <<runVars, accessVars, backupVars, opcVars, deployment>>

AccessStep ==
    /\ Alive
    /\ \/ "http" \in deployment.load /\ \E w \in HttpWrite, r \in Role, t \in Tag: handleWriteTag(w, r, t)
       \/ "dcmd" \in deployment.load /\ \E w \in DcmdWrite, t \in Tag: handleDCMD(w, t)
       \/ {"http", "dcmd"} \cap deployment.load # {} /\ Administer
       \/ \E w \in Write: WriteSteps(w)
    /\ UNCHANGED <<runVars, allHub, backupVars, opcVars, deployment>>

BackupStep ==
    /\ Alive
    /\ BackupNext
    /\ UNCHANGED <<runVars, allHub, accessVars, opcVars, deployment>>

OpcStep ==
    /\ Alive
    /\ OpcNext
    /\ UNCHANGED <<runVars, allHub, accessVars, backupVars, deployment>>

Next ==
    \/ Run \/ CancelCtx \/ ServeError \/ Exited
    \/ \E s \in Source: ScanStep(s)
    \/ \E c \in Conn: ConnStep(c)
    \/ AccessStep \/ BackupStep \/ OpcStep

Spec == Init /\ [][Next]_vars

(***************************************************************************)
(* Fairness: goroutines that can run do.  Strong fairness where a select   *)
(* has ctx.Done among its cases: Go chooses among ready cases at random,   *)
(* so a cancelled context is seen although the ticker fires too.  Nothing  *)
(* is assumed of clients, nor of a broker that is gone when the session is *)
(* not a clean one, and of restic only that a run ends: the context kills  *)
(* it at the latest.  Handlers of writes need no fairness: the deadline of *)
(* Shutdown ends the wait for them.                                        *)
(***************************************************************************)
Fairness ==
    /\ WF_vars((stage = "stopNode" => NodeStopReturns) /\ Run)
    /\ \A s \in Source:
          /\ WF_vars(PublishSteps(s) /\ ScanStep(s))
          /\ SF_vars(ScanExit(s) /\ ScanStep(s))
    /\ \A c \in Conn:
          /\ WF_vars(HandlerSteps(c) /\ ConnStep(c))
          /\ WF_vars(WriterSteps(c) /\ ConnStep(c))
    /\ WF_vars(SchedulerSteps /\ BackupStep)
    /\ SF_vars(SchedulerExit /\ BackupStep)

FairSpec == Spec /\ Fairness

-----------------------------------------------------------------------------
(* Properties. *)

\* The stores outlive the requests: as long as the handler of a tag write or of
\* an ACL change is at work, also while the gateway stops, the PLC store and the
\* rules it asks and the audit log it has yet to write to are open, because the
\* deferred Close calls come after Shutdown has waited for the handlers.  Two
\* ways out of Run do not wait: a serve error, and the deadline of Shutdown.
\* (DCMD handlers are not waited for at all, and an error of Log is discarded.)
StoresOutliveHandlers == Busy => {"plc", "acl", "audit"} \subseteq open \/ serveErr \/ late

\* "Stop backup scheduler FIRST (no new backup runs)": in a shutdown no
\* scheduled snapshot or restic run is under way once the next component is
\* stopped, and none meets a closed historian store.
BackupStopsFirst ==
    sched \in {"vacuum", "restic"} =>
        \/ serveErr
        \/ /\ stage \in Starting \cup {"serve", "stopBackup"}
           /\ sched = "vacuum" => "hist" \in open

\* A signal ends the process, and so does an error at boot or of Serve: nothing
\* that Run waits for (a scheduled backup, a scan held up in publish, a handler)
\* keeps it from exiting.  The one exception is the stop of an edge node whose
\* MQTT session is not a clean one.
ShutdownEnds ==
    ctxDone \/ stage = "returned" ~>
        stage = "exited" \/ (stage = "stopNode" /\ ~NodeStopReturns)

=============================================================================
