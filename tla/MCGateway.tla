------------------------------ MODULE MCGateway ------------------------------
(* Instances of Gateway for TLC. *)
EXTENDS Gateway

\* The tags at boot: writable, not enabled for DCMD.
MCSeedMeta == [t \in Tag |-> [writable |-> TRUE, dcmd |-> FALSE]]

\* LGB_AUTH_JWT_SECRET.
Secret == [k \in {"auth.jwtSecret"} |-> "on"]
Set(on, bad) == [k \in on \cup bad |-> IF k \in bad THEN "bad" ELSE "on"]
Deployment(file, env, load) == [file |-> file, env |-> env, load |-> load]

\* The environment switches off what the file or a default switches on.
SecretWithout(k) == Overlay(Secret, [x \in {k} |-> "off"])

\* Each part with its own workload (the parts only meet in Run), a historian
\* and a clean session that the environment switches off, settings that are
\* refused, and a secret that is missing.
MCDeployments ==
    {Deployment(<<>>, SecretWithout("historian.retentionDays"), {"clients"}),
     Deployment(Set({"auth.jwtSecret"}, {}), <<>>, {"http"}),
     Deployment(Set({"mqtt.groupID"}, {}), Secret, {"dcmd"}),
     Deployment(Set({"mqtt.groupID"}, {}), SecretWithout("mqtt.cleanSession"), {}),
     Deployment(Set({"backup.repos", "opcua.enabled"}, {}), Secret, {}),
     Deployment(Set({"backup.repos", "historian.retentionDays"}, {"opcua.enabled"}),
                SecretWithout("historian.retentionDays"), {}),
     Deployment(Set({"auth.jwtSecret"}, {}), Set({}, {"auth.sessionTTL"}), {}),
     Deployment(Set({"auth.jwtSecret"}, {"server.tls"}), <<>>, {}),
     Deployment(Set({"auth.jwtSecret"}, {"historian.retentionDays"}), <<>>, {}),
     Deployment(<<>>, <<>>, {})}
=============================================================================
