-------------------------------- MODULE Backup --------------------------------
(***************************************************************************)
(* Backups: the scheduler goroutine (internal/backup/manager.go), restic   *)
(* runs (runner.go), the manual trigger (internal/server/api_backup.go)    *)
(* and the PreBackup hook of cmd/server.go, a VacuumInto of the historian  *)
(* store.                                                                  *)
(*                                                                         *)
(* The scheduler runs under the context of Server.Run, which kills restic  *)
(* (exec.CommandContext); the goroutine of a manual backup runs under      *)
(* context.Background() and nothing stops it.  restic is external: a run   *)
(* ends well or fails.                                                     *)
(***************************************************************************)
EXTENDS Integers, ServerRun

CONSTANTS
    NRepo,      \* repositories configured
    MaxBackups  \* bound: backups begun

ASSUME BackupAssumption == NRepo \in Nat \ {0} /\ MaxBackups \in Nat

VARIABLES
    sched,      \* where the scheduler goroutine is
    schedRepo,  \* repository its restic runs on
    manual,     \* where the goroutine of a manual backup is
    manualRepo,
    status,     \* bkpStatus.status
    begun       \* counter for MaxBackups

backupVars == <<sched, schedRepo, manual, manualRepo, status, begun>>
schedVars == <<sched, schedRepo>>
manualVars == <<manual, manualRepo, status>>

BackupTypeOK ==
    /\ sched \in {"off", "wait", "vacuum", "restic", "done"}
    /\ schedRepo \in 1..NRepo
    /\ manual \in {"none", "restic"}
    /\ manualRepo \in 1..NRepo
    /\ status \in {"idle", "running", "failed"}
    /\ begun \in 0..MaxBackups

BackupInit ==
    /\ sched = "off"
    /\ schedRepo = 1
    /\ manual = "none"
    /\ manualRepo = 1
    /\ status = "idle"
    /\ begun = 0

-----------------------------------------------------------------------------
(* The scheduler. *)

\* Scheduler.Start.
SchedulerStart ==
    /\ sched' = "wait"
    /\ UNCHANGED <<schedRepo, manualVars, begun>>

\* ticker.C, also when the context is done as well: runOnce; PreBackup is set
\* when there is a historian store to copy.
SchedulerTick ==
    /\ sched = "wait" /\ begun < MaxBackups
    /\ sched' = IF cfg["historian.retentionDays"] = "on" THEN "vacuum" ELSE "restic"
    /\ schedRepo' = 1
    /\ begun' = begun + 1
    /\ UNCHANGED manualVars

\* VacuumInto fails on a cancelled context and on a closed database.
VacuumOk ==
    /\ sched = "vacuum" /\ ~ctxDone /\ "hist" \in open
    /\ sched' = "restic"
    /\ UNCHANGED <<schedRepo, manualVars, begun>>

\* The hook fails: runOnce returns without a backup.
VacuumFail ==
    /\ sched = "vacuum"
    /\ sched' = "wait"
    /\ UNCHANGED <<schedRepo, manualVars, begun>>

\* restic ends well on a repository: the next one, or back to the ticker.
ResticOk ==
    /\ sched = "restic" /\ ~ctxDone
    /\ IF schedRepo < NRepo
       THEN schedRepo' = schedRepo + 1 /\ UNCHANGED sched
       ELSE sched' = "wait" /\ UNCHANGED schedRepo
    /\ UNCHANGED <<manualVars, begun>>

\* Mutant: restic is not bound to the context and hangs.
ResticFailDetached ==
    /\ sched = "restic" /\ ~ctxDone
    /\ sched' = "wait"
    /\ UNCHANGED <<schedRepo, manualVars, begun>>

\* restic fails or is killed with its context: BackupAll skips the rest.
ResticFail ==
    /\ sched = "restic"
    /\ sched' = "wait"
    /\ UNCHANGED <<schedRepo, manualVars, begun>>

\* ctx.Done: run returns and close(s.done).
SchedulerExit ==
    /\ sched = "wait" /\ ctxDone
    /\ sched' = "done"
    /\ UNCHANGED <<schedRepo, manualVars, begun>>

-----------------------------------------------------------------------------
(* The manual trigger. *)

\* handleBackupTrigger: a route only with repositories; 409 while one is running.
handleBackupTrigger ==
    /\ Accepting /\ cfg["backup.repos"] = "on" /\ status # "running" /\ begun < MaxBackups
    /\ status' = "running"
    /\ manual' = "restic"
    /\ manualRepo' = 1
    /\ begun' = begun + 1
    /\ UNCHANGED schedVars

\* Its goroutine: BackupAll over all repositories.
ManualOk ==
    /\ manual = "restic"
    /\ IF manualRepo < NRepo
       THEN manualRepo' = manualRepo + 1 /\ UNCHANGED <<manual, status>>
       ELSE manual' = "none" /\ status' = "idle" /\ UNCHANGED manualRepo
    /\ UNCHANGED <<schedVars, begun>>

\* Mutant: the error path returns before the status is set.
ManualFailSilent ==
    /\ manual = "restic"
    /\ manual' = "none"
    /\ UNCHANGED <<manualRepo, status, schedVars, begun>>

ManualFail ==
    /\ manual = "restic"
    /\ manual' = "none"
    /\ status' = "failed"
    /\ UNCHANGED <<manualRepo, schedVars, begun>>

SchedulerSteps ==
    VacuumOk \/ VacuumFail \/ ResticOk \/ ResticFail

BackupNext ==
    \/ SchedulerTick \/ SchedulerSteps \/ SchedulerExit
    \/ handleBackupTrigger \/ ManualOk \/ ManualFail
=============================================================================
