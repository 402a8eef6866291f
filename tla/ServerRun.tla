------------------------------ MODULE ServerRun ------------------------------
(***************************************************************************)
(* The state of the server process, as its components see it: how far the  *)
(* command (cmd/server.go) or Server.Run (internal/server/server.go) has   *)
(* got, whether the context is cancelled, which configuration is in effect *)
(* and which stores are open.  Modules Boot and Gateway have the actions.  *)
(***************************************************************************)
VARIABLES
    stage,      \* what the command or Run does next
    ctxDone,    \* the context of Run is cancelled (a signal)
    serveErr,   \* Run returned because Serve failed
    late,       \* http.Server.Shutdown gave up waiting for handlers
    cfg,        \* the configuration in effect, setting by setting
    open        \* stores that the command has opened and not closed

runVars == <<stage, ctxDone, serveErr, late, cfg, open>>

\* The settings that the control of the process depends on.
Key == {"auth.jwtSecret", "auth.sessionTTL", "server.tls", "historian.retentionDays",
        "mqtt.groupID", "mqtt.cleanSession", "backup.repos", "opcua.enabled"}

\* Absent or zero, present and usable, or present and refused where it is used.
Setting == {"off", "on", "bad"}

Booting == {"load", "preflight", "openHist", "openPlc", "openAcl", "seed", "ttl",
            "openUsers", "openAudit", "new", "wire", "listen"}
Starting == {"node", "hist", "plc", "opcua", "backup"}
Stopping == {"stopBackup", "stopOpcua", "stopPlc", "stopHist", "stopNode"}

RunTypeOK ==
    /\ stage \in Booting \cup Starting \cup Stopping \cup {"serve", "shutdown", "returned", "exited"}
    /\ ctxDone \in BOOLEAN
    /\ serveErr \in BOOLEAN
    /\ late \in BOOLEAN
    /\ cfg \in [Key -> Setting]
    /\ open \subseteq {"audit", "users", "acl", "plc", "hist"}

RunInit ==
    /\ stage = "load"
    /\ ctxDone = FALSE
    /\ serveErr = FALSE
    /\ late = FALSE
    /\ cfg = [k \in Key |-> "off"]
    /\ open = {}

\* Serve takes new requests until Shutdown is called.
Accepting == stage \in Stopping \cup {"serve"}

\* The edge node receives commands.
BrokerUp ==
    /\ cfg["mqtt.groupID"] = "on"
    /\ serveErr \/ stage \in (Starting \ {"node"}) \cup Stopping \cup {"serve"}

\* The process: its goroutines run until the command returns.
Alive == stage # "exited"
=============================================================================
