----------------------------- MODULE OpcuaServer -----------------------------
(***************************************************************************)
(* The lifecycle of the OPC UA server (internal/opcua/server.go).          *)
(* Server.Run calls Start in a goroutine of its own and Stop from its own, *)
(* so that the two interleave at every section of s.mu.                    *)
(*                                                                         *)
(* The gopcua server is external: its Start opens the listener and returns *)
(* at once, its Close closes what is open; whether clients are served is   *)
(* nothing that another component can tell.  The values that nodes show    *)
(* are the manager's current tags (PlcManager), read on demand.            *)
(***************************************************************************)
EXTENDS ServerRun

VARIABLES
    opcStart,   \* where the goroutine that calls Start is
    running,    \* s.running
    refresh     \* where refreshLoop is

opcVars == <<opcStart, running, refresh>>

OpcTypeOK ==
    /\ opcStart \in {"off", "check", "build", "serve", "serving", "returned"}
    /\ running \in BOOLEAN
    /\ refresh \in {"off", "loop", "gone"}

OpcInit ==
    /\ opcStart = "off"
    /\ running = FALSE
    /\ refresh = "off"

\* go s.opcuaSrv.Start(ctx).
OpcSpawn ==
    /\ opcStart' = "check"
    /\ UNCHANGED <<running, refresh>>

\* The first section: a second Start is refused.
OpcCheck ==
    /\ opcStart = "check"
    /\ opcStart' = IF running THEN "returned" ELSE "build"
    /\ UNCHANGED <<running, refresh>>

\* newOPCUAServer fails: an unknown security mode always, a certificate perhaps.
OpcBuildFail ==
    /\ opcStart = "build"
    /\ opcStart' = "returned"
    /\ UNCHANGED <<running, refresh>>

\* s.srv, populateAddressSpace, running = true, go refreshLoop.
OpcBuild ==
    /\ opcStart = "build" /\ cfg["opcua.enabled"] = "on"
    /\ opcStart' = "serve"
    /\ running' = TRUE
    /\ refresh' = "loop"

\* srv.Start: the listener is opened, or cannot be.
OpcServe ==
    /\ opcStart = "serve"
    /\ opcStart' = "serving"
    /\ UNCHANGED <<running, refresh>>

\* srv.Start has returned: running = false, Start returns.
OpcStartReturn ==
    /\ opcStart = "serving"
    /\ opcStart' = "returned"
    /\ running' = FALSE
    /\ UNCHANGED refresh

\* refreshLoop sees the context cancelled; a tick only notifies.
RefreshExit ==
    /\ refresh = "loop" /\ ctxDone
    /\ refresh' = "gone"
    /\ UNCHANGED <<opcStart, running>>

\* Stop, one section of s.mu: unless running, nothing, not even Close.
OpcStop ==
    /\ running' = FALSE
    /\ UNCHANGED <<opcStart, refresh>>

OpcNext ==
    \/ OpcCheck \/ OpcBuildFail \/ OpcBuild \/ OpcServe
    \/ OpcStartReturn \/ RefreshExit
=============================================================================
