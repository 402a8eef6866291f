---------------------------- MODULE GatewayProofs ----------------------------
(***************************************************************************)
(* The invariants of the gateway process, for every deployment and any     *)
(* number of scan goroutines, clients, writes, edits and repositories.     *)
(* TagHubProofs and WriteAccessProofs give what the steps of the two       *)
(* largest components preserve; this module adds the boot, the start and   *)
(* the shutdown, and what they owe to one another.                         *)
(***************************************************************************)
EXTENDS Gateway, TagHubProofs, WriteAccessProofs

\* Before plcMgr.Start; while handlers of requests may run.
BeforePlc == Booting \cup {"node", "hist", "plc"}
Serving == Stopping \cup {"serve", "shutdown"}

\* From the open of a store to the return of Run.
AuditOpen == {"new", "wire", "listen"} \cup Starting \cup Serving
AclOpen == {"seed", "ttl", "openUsers", "openAudit"} \cup AuditOpen
PlcOpen == {"openAcl"} \cup AclOpen
HistOpen == {"openPlc"} \cup PlcOpen

(***************************************************************************)
(* The inductive invariant, besides HubInv and AccessInv: which stores are *)
(* open at which stage, and which goroutines can be there at which stage.  *)
(***************************************************************************)
OpenInv ==
    /\ stage \in AuditOpen => "audit" \in open
    /\ stage \in AclOpen => "acl" \in open
    /\ stage \in PlcOpen => "plc" \in open
    /\ stage \in HistOpen /\ cfg["historian.retentionDays"] = "on" => "hist" \in open

ProcInv == RunTypeOK /\ deployment \in Deployments /\ OpenInv

\* No scan goroutine before plcMgr.Start.
ScanInv == stage \in BeforePlc => \A s \in Source: scan[s] = "off"

\* Outside the serving stages no handler is left, unless Run gave up on them.
IdleInv == stage \notin Serving => serveErr \/ late \/ ~Busy

\* The scheduler goroutine lives until StopBackup, or Run returned with an error.
SchedInv ==
    /\ sched \notin {"off", "done"} =>
          stage \in {"serve", "stopBackup"} \/ (serveErr /\ stage \in {"returned", "exited"})
    /\ sched = "vacuum" => cfg["historian.retentionDays"] = "on"

BackupInv == BackupTypeOK /\ (status = "running") = (manual = "restic")

GatewayInv ==
    /\ ProcInv /\ HubInv /\ AccessInv /\ BackupInv /\ OpcTypeOK
    /\ ScanInv /\ IdleInv /\ SchedInv

-----------------------------------------------------------------------------
(* The configuration. *)

LEMMA LoadType ==
    ASSUME NEW d \in Deployments
    PROVE  Load(d.file, d.env) \in [Key -> Setting]
<1> DEFINE low == Overlay(defaults, d.file)
<1>1. /\ DOMAIN d.file \subseteq Key /\ \A k \in DOMAIN d.file: d.file[k] \in Setting
      /\ \A k \in DOMAIN d.env: d.env[k] \in Setting
  BY DeploymentsAssumption
<1>2. \A k \in DOMAIN low: low[k] \in Setting
  BY <1>1 DEF Overlay, defaults, Setting
<1> HIDE DEF low
<1>3. \A k \in DOMAIN Overlay(low, d.env): Overlay(low, d.env)[k] \in Setting
  BY <1>1, <1>2 DEF Overlay
<1>4. Load(d.file, d.env)
         = [k \in Key |-> IF k \in DOMAIN Overlay(low, d.env) THEN Overlay(low, d.env)[k] ELSE "off"]
  BY DEF Load, low
<1>5. "off" \in Setting
  BY DEF Setting
<1> HIDE DEF Load
<1> QED BY <1>3, <1>4, <1>5

-----------------------------------------------------------------------------
(* The process: stages and stores. *)

LEMMA BootProc ==
    ASSUME ProcInv, BootNext
    PROVE  ProcInv'
<1> USE DEF BootTo, ProcInv, RunTypeOK, OpenInv, HistOpen, PlcOpen, AclOpen, AuditOpen, Booting, Starting, Stopping, Serving
<1>1. CASE persistentPreRun
  BY <1>1, LoadType DEF persistentPreRun
<1>2. CASE Preflight \/ SeedPlc \/ ParseTTL
  BY <1>2 DEF Preflight, SeedPlc, ParseTTL
<1>3. CASE OpenHist
  <2>1. CASE cfg["historian.retentionDays"] = "on"
    BY <1>3, <2>1 DEF OpenHist, Open
  <2>2. CASE cfg["historian.retentionDays"] # "on"
    BY <1>3, <2>2 DEF OpenHist
  <2> QED BY <2>1, <2>2
<1>4. CASE OpenPlc \/ OpenAcl \/ OpenUsers
  BY <1>4 DEF OpenPlc, OpenAcl, OpenUsers, Open
<1>5. CASE OpenAudit
  BY <1>5 DEF OpenAudit, Open
<1>6. CASE New \/ Wire \/ Listen
  BY <1>6 DEF New, Wire, Listen
<1>7. CASE BootFail
  BY <1>7 DEF BootFail
<1> QED BY <1>1, <1>2, <1>3, <1>4, <1>5, <1>6, <1>7 DEF BootNext

LEMMA RunProc ==
    ASSUME ProcInv, Run \/ CancelCtx \/ ServeError
    PROVE  ProcInv'
<1> USE DEF ProcInv, RunTypeOK, OpenInv, HistOpen, PlcOpen, AclOpen, AuditOpen, Booting, Starting, Stopping, Serving
<1>1. CASE BootStep
  BY <1>1, BootProc DEF BootStep
<1>2. CASE StartNode \/ StartHist \/ StartPlc \/ StartOpcua \/ StartBackup
  BY <1>2 DEF Goto, StartNode, StartHist, StartPlc, StartOpcua, StartBackup
<1>3. CASE ShutdownInitiated \/ StopBackup \/ StopOpcua \/ StopPlc \/ StopHist \/ StopNode
  BY <1>3 DEF Goto, ShutdownInitiated, StopBackup, StopOpcua, StopPlc, StopHist, StopNode
<1>4. CASE Shutdown \/ Exit
  BY <1>4 DEF Goto, Shutdown, Exit
<1>5. CASE ShutdownDeadline \/ CloseStore
  BY <1>5 DEF ShutdownDeadline, CloseStore
<1>6. CASE CancelCtx
  BY <1>6 DEF CancelCtx
<1>7. CASE ServeError
  BY <1>7 DEF ServeError
<1> QED BY <1>1, <1>2, <1>3, <1>4, <1>5, <1>6, <1>7 DEF Run

-----------------------------------------------------------------------------
(* What the stages owe to the goroutines of the components. *)

StageInv == ScanInv /\ IdleInv /\ SchedInv

\* Enough for a step of Run that leaves scans, writes and the scheduler alone:
\* it goes forward, and leaves a stage only when what belongs to it is over.
LEMMA StageMoves ==
    ASSUME GatewayInv, UNCHANGED <<scan, accessVars, sched>>,
           serveErr => serveErr', late => late',
           cfg' = cfg \/ stage = "load",
           stage' \in BeforePlc => stage \in BeforePlc,
           stage \in Serving /\ stage' \notin Serving =>
              serveErr' \/ late' \/ ~Busy,
           stage \in {"serve", "stopBackup"} /\ stage' \notin {"serve", "stopBackup"} =>
              sched \in {"off", "done"} \/ (serveErr' /\ stage' = "returned"),
           stage \in {"returned", "exited"} => stage' \in {"returned", "exited"}
    PROVE  StageInv'
<1>0. UNCHANGED <<step, edited>>
  BY DEF accessVars
<1>1. ScanInv'
  BY DEF GatewayInv, ScanInv
<1>2. IdleInv'
  <2>1. CASE stage \in Serving
    BY <1>0, <2>1 DEF IdleInv, Busy, ActiveHandlers
  <2>2. CASE stage \notin Serving
    BY <1>0, <2>2 DEF IdleInv, GatewayInv, Busy, ActiveHandlers
  <2> QED BY <2>1, <2>2
<1>3. SchedInv'
  BY DEF GatewayInv, SchedInv
<1> QED BY <1>1, <1>2, <1>3 DEF StageInv

LEMMA BootStage ==
    ASSUME GatewayInv, BootStep
    PROVE  StageInv'
<1>1. /\ UNCHANGED <<scan, accessVars, sched>> /\ serveErr' = serveErr /\ late' = late
      /\ cfg' = cfg \/ stage = "load"
      /\ stage \in Booting
      /\ stage' \in Booting \cup {"node", "returned"}
  <2> USE DEF BootStep, allHub, hubVars, backupVars, BootTo, Open, Booting
  <2>1. CASE persistentPreRun \/ Preflight \/ OpenHist \/ OpenPlc \/ OpenAcl
    BY <2>1 DEF persistentPreRun, Preflight, OpenHist, OpenPlc, OpenAcl
  <2>2. CASE SeedPlc \/ ParseTTL \/ OpenUsers \/ OpenAudit
    BY <2>2 DEF SeedPlc, ParseTTL, OpenUsers, OpenAudit
  <2>3. CASE New \/ Wire \/ Listen \/ BootFail
    BY <2>3 DEF New, Wire, Listen, BootFail
  <2> QED BY <2>1, <2>2, <2>3 DEF BootNext
<1>2. \A x \in Booting: x \in BeforePlc /\ x \notin Serving /\ x \notin {"serve", "stopBackup", "returned", "exited"}
  BY DEF Booting, BeforePlc, Serving, Stopping
<1> QED BY <1>1, <1>2, StageMoves

LEMMA RunStage ==
    ASSUME GatewayInv, Run \/ CancelCtx \/ ServeError
    PROVE  StageInv'
<1> USE DEF Goto, allHub, hubVars, backupVars, BeforePlc, Booting, Serving, Stopping
<1>1. CASE BootStep
  BY <1>1, BootStage
<1>2. CASE StartNode \/ StartHist
  BY <1>2, StageMoves DEF StartNode, StartHist
<1>3. CASE StartPlc
  <2>1. UNCHANGED <<accessVars, backupVars>> /\ UNCHANGED <<serveErr, late, cfg>>
        /\ stage = "plc" /\ stage' = "opcua"
    BY <1>3 DEF StartPlc
  <2>2. UNCHANGED <<step, edited, sched>>
    BY <2>1 DEF accessVars, backupVars
  <2> QED BY <2>1, <2>2 DEF StageInv, GatewayInv, ScanInv, IdleInv, SchedInv, Busy, ActiveHandlers
<1>4. CASE StartOpcua
  BY <1>4, StageMoves DEF StartOpcua
<1>5. CASE StartBackup
  <2>1. UNCHANGED <<accessVars, scan>> /\ UNCHANGED <<serveErr, late, cfg>>
        /\ stage = "backup" /\ stage' = "serve" /\ sched' \in {sched, "wait"}
    BY <1>5 DEF StartBackup, SchedulerStart
  <2>2. UNCHANGED <<step, edited>>
    BY <2>1 DEF accessVars
  <2> QED BY <2>1, <2>2 DEF StageInv, GatewayInv, ScanInv, IdleInv, SchedInv, Busy, ActiveHandlers
<1>6. CASE ShutdownInitiated
  BY <1>6, StageMoves DEF ShutdownInitiated
<1>7. CASE StopBackup
  BY <1>7, StageMoves DEF StopBackup
<1>8. CASE StopOpcua
  BY <1>8, StageMoves DEF StopOpcua
<1>9. CASE StopPlc
  BY <1>9, StageMoves DEF StopPlc
<1>10. CASE StopHist \/ StopNode
  BY <1>10, StageMoves DEF StopHist, StopNode
<1>11. CASE Shutdown
  BY <1>11, StageMoves DEF Shutdown
<1>12. CASE ShutdownDeadline
  BY <1>12, StageMoves DEF ShutdownDeadline
<1>13. CASE CloseStore
  BY <1>13, StageMoves DEF CloseStore
<1>14. CASE Exit
  BY <1>14, StageMoves DEF Exit
<1>15. CASE CancelCtx
  BY <1>15, StageMoves DEF CancelCtx
<1>16. CASE ServeError
  BY <1>16, StageMoves DEF ServeError
<1> QED BY <1>1, <1>2, <1>3, <1>4, <1>5, <1>6, <1>7, <1>8, <1>9, <1>10, <1>11, <1>12, <1>13,
           <1>14, <1>15, <1>16 DEF Run

\* The variables of the components that a step of Run changes.
LEMMA RunComponents ==
    ASSUME GatewayInv, Run \/ CancelCtx \/ ServeError
    PROVE  HubInv' /\ AccessInv' /\ BackupInv' /\ OpcTypeOK'
<1>1. UNCHANGED accessVars
  <2>1. CASE BootStep \/ StartNode \/ StartHist \/ StartPlc \/ StartOpcua \/ StartBackup
    BY <2>1 DEF BootStep, StartNode, StartHist, StartPlc, StartOpcua, StartBackup
  <2>2. CASE ShutdownInitiated \/ StopBackup \/ StopOpcua \/ StopPlc \/ StopHist \/ StopNode
    BY <2>2 DEF ShutdownInitiated, StopBackup, StopOpcua, StopPlc, StopHist, StopNode
  <2>3. CASE Shutdown \/ ShutdownDeadline \/ CloseStore \/ Exit \/ CancelCtx \/ ServeError
    BY <2>3 DEF Shutdown, ShutdownDeadline, CloseStore, Exit, CancelCtx, ServeError
  <2> QED BY <2>1, <2>2, <2>3 DEF Run
<1>2. AccessInv'
  BY <1>1, AccessStutter DEF GatewayInv
<1>3. HubInv'
  <2>1. CASE StartPlc
    <3>1. \A s \in Source: todo[s] = {}
      BY <2>1 DEF StartPlc, BeforePlc, GatewayInv, ScanInv, HubInv, SubInv
    <3> QED BY <2>1, <3>1, ScanStartInv DEF StartPlc, GatewayInv
  <2>2. CASE UNCHANGED allHub
    BY <2>2, HubStutter DEF allHub, GatewayInv
  <2>3. CASE BootStep \/ StartNode \/ StartHist \/ StartOpcua \/ StartBackup
    BY <2>2, <2>3 DEF BootStep, StartNode, StartHist, StartOpcua, StartBackup
  <2>4. CASE ShutdownInitiated \/ StopBackup \/ StopOpcua \/ StopPlc \/ StopHist \/ StopNode
    BY <2>2, <2>4 DEF ShutdownInitiated, StopBackup, StopOpcua, StopPlc, StopHist, StopNode
  <2>5. CASE Shutdown \/ ShutdownDeadline \/ CloseStore \/ Exit \/ CancelCtx \/ ServeError
    BY <2>2, <2>5 DEF Shutdown, ShutdownDeadline, CloseStore, Exit, CancelCtx, ServeError
  <2> QED BY <2>1, <2>3, <2>4, <2>5 DEF Run
<1>4. BackupInv'
  <2>1. CASE StartBackup
    BY <2>1 DEF StartBackup, SchedulerStart, manualVars, backupVars, GatewayInv, BackupInv, BackupTypeOK
  <2>2. CASE UNCHANGED backupVars
    BY <2>2 DEF backupVars, GatewayInv, BackupInv, BackupTypeOK
  <2>3. CASE BootStep \/ StartNode \/ StartHist \/ StartPlc \/ StartOpcua
    BY <2>2, <2>3 DEF BootStep, StartNode, StartHist, StartPlc, StartOpcua
  <2>4. CASE ShutdownInitiated \/ StopBackup \/ StopOpcua \/ StopPlc \/ StopHist \/ StopNode
    BY <2>2, <2>4 DEF ShutdownInitiated, StopBackup, StopOpcua, StopPlc, StopHist, StopNode
  <2>5. CASE Shutdown \/ ShutdownDeadline \/ CloseStore \/ Exit \/ CancelCtx \/ ServeError
    BY <2>2, <2>5 DEF Shutdown, ShutdownDeadline, CloseStore, Exit, CancelCtx, ServeError
  <2> QED BY <2>1, <2>3, <2>4, <2>5 DEF Run
<1>5. OpcTypeOK'
  <2>1. CASE StartOpcua
    BY <2>1 DEF StartOpcua, OpcSpawn, opcVars, GatewayInv, OpcTypeOK
  <2>2. CASE StopOpcua
    BY <2>2 DEF StopOpcua, OpcStop, opcVars, GatewayInv, OpcTypeOK
  <2>3. CASE UNCHANGED opcVars
    BY <2>3 DEF opcVars, GatewayInv, OpcTypeOK
  <2>4. CASE BootStep \/ StartNode \/ StartHist \/ StartPlc \/ StartBackup
    BY <2>3, <2>4 DEF BootStep, StartNode, StartHist, StartPlc, StartBackup
  <2>5. CASE ShutdownInitiated \/ StopBackup \/ StopPlc \/ StopHist \/ StopNode
    BY <2>3, <2>5 DEF ShutdownInitiated, StopBackup, StopPlc, StopHist, StopNode
  <2>6. CASE Shutdown \/ ShutdownDeadline \/ CloseStore \/ Exit \/ CancelCtx \/ ServeError
    BY <2>3, <2>6 DEF Shutdown, ShutdownDeadline, CloseStore, Exit, CancelCtx, ServeError
  <2> QED BY <2>1, <2>2, <2>4, <2>5, <2>6 DEF Run
<1> QED BY <1>2, <1>3, <1>4, <1>5

-----------------------------------------------------------------------------
(* The steps of the components. *)

\* Nothing that the invariants of the process speak of has changed.
LEMMA ProcStutter ==
    ASSUME ProcInv, UNCHANGED <<runVars, deployment>>
    PROVE  ProcInv'
BY DEF ProcInv, RunTypeOK, OpenInv, runVars

LEMMA ScanStepInv ==
    ASSUME GatewayInv, NEW s \in Source, ScanStep(s)
    PROVE  GatewayInv'
<1>1. Scans(s) /\ UNCHANGED <<runVars, accessVars, backupVars, opcVars, deployment>>
  BY DEF ScanStep, Scans
<1>2. ProcInv' /\ HubInv' /\ AccessInv'
  BY <1>1, ProcStutter, HubStepInv, AccessStutter DEF GatewayInv
<1>3. BackupInv' /\ OpcTypeOK'
  BY <1>1 DEF GatewayInv, BackupInv, BackupTypeOK, OpcTypeOK, backupVars, opcVars
<1>4. scan[s] # "off"
  BY <1>1 DEF Scans, PublishSteps, Publish, PublishLock, PublishTo, PublishEnd, ScanExit
<1>5. ScanInv'
  BY <1>1, <1>4 DEF runVars, GatewayInv, ScanInv
<1>6. IdleInv' /\ SchedInv'
  BY <1>1 DEF GatewayInv, IdleInv, Busy, ActiveHandlers, SchedInv, runVars, accessVars, backupVars
<1> QED BY <1>2, <1>3, <1>5, <1>6 DEF GatewayInv

LEMMA ConnScan ==
    ASSUME NEW c \in Conn, Connects(c)
    PROVE  scan' = scan
<1> USE DEF hubVars
<1>1. CASE Accept(c) \/ AuthOk(c) \/ (\E f \in Filter: Read(c, f)) \/ Stall(c) \/ Break(c)
  BY <1>1 DEF Accept, AuthOk, Read, Stall, Break
<1>2. CASE HandlerSteps(c)
  BY <1>2 DEF HandlerSteps, AuthFail, Register, ReadFail, ReplyLock, ReplyOk, ReplyFail, Unregister
<1>3. CASE WriterSteps(c)
  BY <1>3 DEF WriterSteps, WriterTake, WriterPing, WriterExit, WriteLock, WriteOk, WriteFail
<1> QED BY <1>1, <1>2, <1>3 DEF Connects

LEMMA ConnStepInv ==
    ASSUME GatewayInv, NEW c \in Conn, ConnStep(c)
    PROVE  GatewayInv'
<1>1. Connects(c) /\ UNCHANGED <<runVars, accessVars, backupVars, opcVars, deployment>>
  BY DEF ConnStep, Connects
<1>2. ProcInv' /\ HubInv' /\ AccessInv'
  BY <1>1, ProcStutter, HubStepInv, AccessStutter DEF GatewayInv
<1>3. BackupInv' /\ OpcTypeOK'
  BY <1>1 DEF GatewayInv, BackupInv, BackupTypeOK, OpcTypeOK, backupVars, opcVars
<1>4. scan' = scan
  BY <1>1, ConnScan
<1>5. ScanInv' /\ IdleInv' /\ SchedInv'
  BY <1>1, <1>4 DEF GatewayInv, ScanInv, IdleInv, Busy, ActiveHandlers, SchedInv, runVars, accessVars, backupVars
<1> QED BY <1>2, <1>3, <1>5 DEF GatewayInv

\* A handler begins while Run serves, and only then.
LEMMA HandlersServe ==
    ASSUME GatewayInv, Accesses, UNCHANGED runVars
    PROVE  IdleInv'
<1>0. /\ step \in [Write -> {"idle", "meta", "acl", "write", "audit", "done"}]
      /\ HttpWrite \subseteq Write /\ DcmdWrite \subseteq Write /\ HttpWrite \cap DcmdWrite = {}
      /\ UNCHANGED <<stage, serveErr, late>>
  BY WriteAccessAssumption DEF GatewayInv, AccessInv, AccessTypeOK, Write, runVars
<1> SUFFICES ASSUME stage \notin Serving, ~serveErr, ~late PROVE ~Busy'
  BY <1>0 DEF IdleInv
<1>1. ~edited /\ \A w \in HttpWrite: step[w] \in {"idle", "done"}
  BY DEF GatewayInv, IdleInv, Busy, ActiveHandlers
<1>2. ~Accepting
  BY DEF Accepting, Serving
<1>3. ASSUME edited' = edited, \A w \in HttpWrite: step'[w] = step[w] PROVE ~Busy'
  BY <1>1, <1>3 DEF Busy, ActiveHandlers
<1>4. ASSUME NEW w \in DcmdWrite, NEW t \in Tag, handleDCMD(w, t) PROVE ~Busy'
  BY <1>0, <1>3, <1>4 DEF handleDCMD, Begin
<1>5. ~Administer
  BY <1>1, <1>2 DEF Administer, EditTag, handleCreateACLRule, handleUpdateACLRule,
                    handleDeleteACLRule, ACLAudit
<1>6. ASSUME NEW w \in Write, WriteSteps(w) PROVE ~Busy'
  <2>1. step[w] \notin {"idle", "done"} /\ edited' = edited /\ \A x \in Write: x # w => step'[x] = step[x]
    <3>1. CASE AuthorizeHTTP(w) \/ AuthorizeACL(w) \/ AuthorizeDCMD(w)
      BY <1>0, <3>1 DEF AuthorizeHTTP, AuthorizeACL, AuthorizeDCMD, Decide
    <3>2. CASE WriteTag(w) \/ emitWriteAudit(w)
      BY <1>0, <3>2 DEF WriteTag, emitWriteAudit
    <3> QED BY <1>6, <3>1, <3>2 DEF WriteSteps
  <2> QED BY <1>0, <1>1, <1>3, <2>1
<1> QED BY <1>2, <1>4, <1>5, <1>6 DEF Accesses, handleWriteTag

LEMMA AccessStepsInv ==
    ASSUME GatewayInv, AccessStep
    PROVE  GatewayInv'
<1>1. Accesses /\ UNCHANGED <<runVars, allHub, backupVars, opcVars, deployment>>
  BY DEF AccessStep, Accesses
<1>2. ProcInv' /\ HubInv' /\ AccessInv'
  BY <1>1, ProcStutter, HubStutter, AccessStepInv DEF GatewayInv, allHub
<1>3. BackupInv' /\ OpcTypeOK'
  BY <1>1 DEF GatewayInv, BackupInv, BackupTypeOK, OpcTypeOK, backupVars, opcVars
<1>4. IdleInv'
  BY <1>1, HandlersServe
<1>5. ScanInv' /\ SchedInv'
  BY <1>1 DEF GatewayInv, ScanInv, SchedInv, runVars, allHub, hubVars, backupVars
<1> QED BY <1>2, <1>3, <1>4, <1>5 DEF GatewayInv

LEMMA BackupStepInv ==
    ASSUME GatewayInv, BackupStep
    PROVE  GatewayInv'
<1>1. BackupNext /\ UNCHANGED <<runVars, allHub, accessVars, opcVars, deployment>>
  BY DEF BackupStep
<1>2. ProcInv' /\ HubInv' /\ AccessInv'
  BY <1>1, ProcStutter, HubStutter, AccessStutter DEF GatewayInv, allHub
<1>3. OpcTypeOK'
  BY <1>1 DEF GatewayInv, OpcTypeOK, opcVars
<1>4. ScanInv' /\ IdleInv'
  BY <1>1 DEF GatewayInv, ScanInv, IdleInv, Busy, ActiveHandlers, runVars, accessVars, allHub, hubVars
<1>5. UNCHANGED <<stage, cfg, serveErr>>
  BY <1>1 DEF runVars
<1>6. BackupInv' /\ SchedInv'
  <2> USE DEF GatewayInv, BackupInv, BackupTypeOK, SchedInv, manualVars, schedVars
  <2>1. CASE SchedulerTick
    BY <1>5, <2>1, BackupAssumption DEF SchedulerTick
  <2>2. CASE VacuumOk \/ VacuumFail
    BY <1>5, <2>2 DEF VacuumOk, VacuumFail
  <2>3. CASE ResticOk \/ ResticFail
    BY <1>5, <2>3, BackupAssumption DEF ResticOk, ResticFail
  <2>4. CASE SchedulerExit
    BY <1>5, <2>4 DEF SchedulerExit
  <2>5. CASE handleBackupTrigger
    BY <1>5, <2>5, BackupAssumption DEF handleBackupTrigger
  <2>6. CASE ManualOk \/ ManualFail
    BY <1>5, <2>6, BackupAssumption DEF ManualOk, ManualFail
  <2> QED BY <1>1, <2>1, <2>2, <2>3, <2>4, <2>5, <2>6 DEF BackupNext, SchedulerSteps
<1> QED BY <1>2, <1>3, <1>4, <1>6 DEF GatewayInv

LEMMA OpcStepInv ==
    ASSUME GatewayInv, OpcStep
    PROVE  GatewayInv'
<1>1. OpcNext /\ UNCHANGED <<runVars, allHub, accessVars, backupVars, deployment>>
  BY DEF OpcStep
<1>2. ProcInv' /\ HubInv' /\ AccessInv'
  BY <1>1, ProcStutter, HubStutter, AccessStutter DEF GatewayInv, allHub
<1>3. BackupInv'
  BY <1>1 DEF GatewayInv, BackupInv, BackupTypeOK, backupVars
<1>4. ScanInv' /\ IdleInv' /\ SchedInv'
  BY <1>1 DEF GatewayInv, ScanInv, IdleInv, Busy, ActiveHandlers, SchedInv, runVars, accessVars, allHub,
              hubVars, backupVars
<1>5. OpcTypeOK'
  BY <1>1 DEF GatewayInv, OpcTypeOK, OpcNext, OpcCheck, OpcBuildFail, OpcBuild, OpcServe,
              OpcStartReturn, RefreshExit
<1> QED BY <1>2, <1>3, <1>4, <1>5 DEF GatewayInv

-----------------------------------------------------------------------------
LEMMA InitGateway == Init => GatewayInv
<1> SUFFICES ASSUME Init PROVE GatewayInv
  OBVIOUS
<1>1. HubInv /\ AccessInv
  BY InitHub, InitAccess DEF Init
<1>2. ProcInv
  BY DEF Init, RunInit, ProcInv, RunTypeOK, OpenInv, Booting, AuditOpen, AclOpen, PlcOpen, HistOpen, Starting,
         Serving, Stopping, Setting
<1>3. BackupInv /\ OpcTypeOK
  <2>1. BackupTypeOK
    BY BackupAssumption DEF Init, BackupInit, BackupTypeOK
  <2>2. (status = "running") = (manual = "restic")
    BY DEF Init, BackupInit
  <2>3. OpcTypeOK
    BY DEF Init, OpcInit, OpcTypeOK
  <2> QED BY <2>1, <2>2, <2>3 DEF BackupInv
<1>4. ScanInv /\ IdleInv /\ SchedInv
  BY DEF Init, HubInit, AccessInit, BackupInit, ScanInv, IdleInv, Busy, ActiveHandlers, SchedInv, Write
<1> QED BY <1>1, <1>2, <1>3, <1>4 DEF GatewayInv

LEMMA GatewayStutter ==
    ASSUME GatewayInv, UNCHANGED vars
    PROVE  GatewayInv'
<1>1. UNCHANGED <<runVars, deployment>> /\ UNCHANGED <<hubVars, connVars>> /\ UNCHANGED accessVars
      /\ UNCHANGED backupVars /\ UNCHANGED opcVars
  BY DEF vars
<1>2. ProcInv' /\ HubInv' /\ AccessInv'
  BY <1>1, ProcStutter, HubStutter, AccessStutter DEF GatewayInv
<1>3. BackupInv' /\ OpcTypeOK'
  BY <1>1 DEF GatewayInv, BackupInv, BackupTypeOK, OpcTypeOK, backupVars, opcVars
<1>4. ScanInv' /\ IdleInv' /\ SchedInv'
  BY <1>1 DEF GatewayInv, ScanInv, IdleInv, Busy, ActiveHandlers, SchedInv, runVars, accessVars, hubVars, backupVars
<1> QED BY <1>2, <1>3, <1>4 DEF GatewayInv

\* The inductive invariant holds in every reachable state of the gateway.
THEOREM GatewayInvariant == Spec => []GatewayInv
<1>1. Init => GatewayInv
  BY InitGateway
<1>2. GatewayInv /\ [Next]_vars => GatewayInv'
  <2> SUFFICES ASSUME GatewayInv, [Next]_vars PROVE GatewayInv'
    OBVIOUS
  <2>1. CASE Run \/ CancelCtx \/ ServeError
    <3>1. ProcInv'
      BY <2>1, RunProc DEF GatewayInv
    <3>2. StageInv' /\ HubInv' /\ AccessInv' /\ BackupInv' /\ OpcTypeOK'
      BY <2>1, RunStage, RunComponents
    <3> QED BY <3>1, <3>2 DEF GatewayInv, StageInv
  <2>2. CASE Exited \/ UNCHANGED vars
    BY <2>2, GatewayStutter DEF Exited
  <2>3. CASE \E s \in Source: ScanStep(s)
    BY <2>3, ScanStepInv
  <2>4. CASE \E c \in Conn: ConnStep(c)
    BY <2>4, ConnStepInv
  <2>5. CASE AccessStep \/ BackupStep \/ OpcStep
    BY <2>5, AccessStepsInv, BackupStepInv, OpcStepInv
  <2> QED BY <2>1, <2>2, <2>3, <2>4, <2>5 DEF Next
<1> QED BY <1>1, <1>2, PTL DEF Spec

\* Every variable of the process keeps its type, and the status that the backup
\* API shows is "running" exactly while the goroutine of a manual backup is.
THEOREM TypeCorrect == Spec => []TypeOK
<1>1. GatewayInv => TypeOK
  BY DEF GatewayInv, TypeOK, ProcInv, HubInv, AccessInv, BackupInv
<1> QED BY <1>1, GatewayInvariant, PTL

\* tagHub.publish never sends on a channel that unregister has closed.
THEOREM PublishIsSafe == Spec => []NoSendOnClosedSub
<1>1. GatewayInv => NoSendOnClosedSub
  BY HubSafe DEF GatewayInv
<1> QED BY <1>1, GatewayInvariant, PTL

\* A WebSocket client gets the updates of a PLC in the order of the scans and
\* none twice, whatever the full channel dropped.
THEOREM UpdatesInOrder == Spec => []DeliveredInOrder
<1>1. GatewayInv => DeliveredInOrder
  BY HubOrdered DEF GatewayInv
<1> QED BY <1>1, GatewayInvariant, PTL

\* The write guard admits no write by a gate that was shut all the time since
\* the request began.
THEOREM RevocationHolds == Spec => []NoWriteAfterRevocation
<1>1. GatewayInv => NoWriteAfterRevocation
  BY DEF GatewayInv, AccessInv
<1> QED BY <1>1, GatewayInvariant, PTL

\* Handlers of tag writes and ACL changes never meet a closed PLC store, ACL
\* store or audit log, unless Serve failed or the deadline of Shutdown passed.
THEOREM HandlersKeepStores == Spec => []StoresOutliveHandlers
<1>1. GatewayInv => StoresOutliveHandlers
  BY DEF GatewayInv, ProcInv, OpenInv, IdleInv, StoresOutliveHandlers, PlcOpen, AclOpen, AuditOpen
<1> QED BY <1>1, GatewayInvariant, PTL

\* In a shutdown no scheduled backup outlives the stop of the scheduler, and
\* none meets a closed historian store.
THEOREM BackupStops == Spec => []BackupStopsFirst
<1>1. GatewayInv => BackupStopsFirst
  BY DEF GatewayInv, ProcInv, OpenInv, SchedInv, BackupStopsFirst, HistOpen, PlcOpen, AclOpen, AuditOpen,
         Serving, Stopping
<1> QED BY <1>1, GatewayInvariant, PTL
=============================================================================
