------------------------------ MODULE PlcRegistry ------------------------------
(***************************************************************************)
(* What Manager.Reload promises its callers (internal/plc/manager.go): the *)
(* set of running PLC configurations goes from what it was to the one that *)
(* was asked for.  On the way a name shows its old configuration, none, or *)
(* the new one; a name whose configuration does not change is never        *)
(* interrupted; and Reloads take turns.  PlcManager implements this.       *)
(***************************************************************************)
CONSTANTS
    Name,         \* PLC names
    Config,       \* configurations
    None,         \* "not running"
    InitRunning   \* what runs after NewManager

VARIABLES
    running,      \* the configuration that runs under each name
    want,         \* the argument of the Reload in progress
    phase         \* "idle", or the Reload's next step: "diff" or "add"

regVars == <<running, want, phase>>

Init ==
    /\ running = InitRunning
    /\ want = InitRunning
    /\ phase = "idle"

\* Reload takes reloadMu.
Begin(cfg) ==
    /\ phase = "idle"
    /\ want' = cfg
    /\ phase' = "diff"
    /\ UNCHANGED running

\* Removed and changed names go.
Unregister ==
    /\ phase = "diff"
    /\ running' = [n \in Name |-> IF running[n] = want[n] THEN running[n] ELSE None]
    /\ phase' = "add"
    /\ UNCHANGED want

\* New and changed names come; Reload returns and releases reloadMu.  Its
\* argument is of no interest any more.
Register ==
    /\ phase = "add"
    /\ running' = want
    /\ phase' = "idle"
    /\ want' \in [Name -> Config \cup {None}]

Next ==
    \/ \E cfg \in [Name -> Config \cup {None}]: Begin(cfg)
    \/ Unregister \/ Register

Spec == Init /\ [][Next]_regVars
=============================================================================
