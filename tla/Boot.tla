-------------------------------- MODULE Boot --------------------------------
(***************************************************************************)
(* The boot of the server: config.Load and its layers                      *)
(* (internal/config/loader.go), the pre-run hook (cmd/root.go), the stores *)
(* that runServerTo opens one after the other (cmd/server.go), server.New, *)
(* and the head of Server.Run up to the bound listener.                    *)
(*                                                                         *)
(* Every step may fail; the command then returns and its deferred Close    *)
(* calls release what was opened.  The command line of the server never    *)
(* calls Config.Validate, so a bad setting is met where it is used.        *)
(***************************************************************************)
EXTENDS ServerRun

CONSTANT Deployments  \* what the operator sets up, and which clients show up

\* A setting that can come from an LGB_* variable: no list.
EnvKey == Key \ {"backup.repos"}

\* file and env give values to some of the settings each.  (envLookup finds the
\* key of an LGB_* variable in several spellings; a name that it does not know
\* sets nothing that is read, and is left out of env.)
ASSUME DeploymentsAssumption ==
    \A d \in Deployments:
        /\ DOMAIN d.file \subseteq Key /\ \A k \in DOMAIN d.file: d.file[k] \in Setting
        /\ DOMAIN d.env \subseteq EnvKey /\ \A k \in DOMAIN d.env: d.env[k] \in Setting
        /\ d.load \subseteq {"clients", "http", "dcmd"}

VARIABLE deployment

\* Compiled-in defaults of the settings modelled.
defaults == [k \in {"auth.sessionTTL", "historian.retentionDays", "mqtt.cleanSession"} |-> "on"]

\* koanf: a later layer wins, key by key.
Overlay(lower, upper) ==
    [k \in DOMAIN lower \cup DOMAIN upper |-> IF k \in DOMAIN upper THEN upper[k] ELSE lower[k]]

\* Defaults, then the YAML file, then LGB_* variables; a setting that none of
\* them has keeps its zero value.
Load(file, env) ==
    LET merged == Overlay(Overlay(defaults, file), env)
    IN  [k \in Key |-> IF k \in DOMAIN merged THEN merged[k] ELSE "off"]

-----------------------------------------------------------------------------
BootTo(s) == stage' = s /\ UNCHANGED <<ctxDone, serveErr, late, deployment>>

Open(store, s) == open' = open \cup {store} /\ BootTo(s) /\ UNCHANGED cfg

\* Load, the command-line overrides, the logger.  A number or a Boolean that
\* does not parse fails Load.
persistentPreRun ==
    /\ stage = "load"
    /\ cfg' = Load(deployment.file, deployment.env)
    /\ "bad" \notin {cfg'["historian.retentionDays"], cfg'["mqtt.cleanSession"]}
    /\ BootTo("preflight")
    /\ UNCHANGED open

\* runServerTo: the secret is required; data directory; the edge node is built.
Preflight ==
    /\ stage = "preflight" /\ cfg["auth.jwtSecret"] = "on"
    /\ BootTo("openHist")
    /\ UNCHANGED <<cfg, open>>

\* The historian store and writer, when data is to be retained; its migration
\* runs under the context of the command.
OpenHist ==
    /\ stage = "openHist"
    /\ IF cfg["historian.retentionDays"] = "on"
       THEN ~ctxDone /\ Open("hist", "openPlc")
       ELSE BootTo("openPlc") /\ UNCHANGED <<cfg, open>>

OpenPlc == stage = "openPlc" /\ Open("plc", "openAcl")

OpenAcl == stage = "openAcl" /\ Open("acl", "seed")

\* IsEmpty, Seed on first boot, List, and the PLC manager (see PlcConfigApi).
SeedPlc ==
    /\ stage = "seed"
    /\ BootTo("ttl")
    /\ UNCHANGED <<cfg, open>>

\* An empty TTL is 8h, one that does not parse is an error.
ParseTTL ==
    /\ stage = "ttl" /\ cfg["auth.sessionTTL"] # "bad"
    /\ BootTo("openUsers")
    /\ UNCHANGED <<cfg, open>>

\* OpenUserStore and EnsureAdminExists (see Accounts).
OpenUsers == stage = "openUsers" /\ Open("users", "openAudit")

OpenAudit == stage = "openAudit" /\ Open("audit", "new")

\* server.New builds the write guard from the PLC store and the ACL store.
New ==
    /\ stage = "new"
    /\ BootTo("wire")
    /\ UNCHANGED <<cfg, open>>

\* SetCommandHandler on the edge node, and the config watcher.
Wire ==
    /\ stage = "wire"
    /\ BootTo("listen")
    /\ UNCHANGED <<cfg, open>>

\* Run: TLS needs a certificate; net.Listen, the routes.
Listen ==
    /\ stage = "listen" /\ cfg["server.tls"] # "bad"
    /\ BootTo("node")
    /\ UNCHANGED <<cfg, open>>

\* A missing or unreadable file, a missing secret, a store that cannot be
\* opened, an address in use...: the command returns the error.
BootFail ==
    /\ stage \in Booting \ {"new", "wire"}
    /\ stage = "openHist" => cfg["historian.retentionDays"] = "on"
    /\ stage = "ttl" => cfg["auth.sessionTTL"] = "bad"
    /\ BootTo("returned")
    /\ UNCHANGED <<cfg, open>>

BootNext ==
    \/ persistentPreRun \/ Preflight \/ OpenHist \/ OpenPlc \/ OpenAcl \/ SeedPlc \/ ParseTTL
    \/ OpenUsers \/ OpenAudit \/ New \/ Wire \/ Listen \/ BootFail
=============================================================================
