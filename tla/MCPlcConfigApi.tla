----------------------------- MODULE MCPlcConfigApi -----------------------------
(* Instances of PlcConfigApi for TLC. *)
EXTENDS PlcConfigApi

CONSTANTS v1, v2

\* The YAML file configures the first PLC only.
MCYaml == [n \in Name |-> IF n = 1 THEN v1 ELSE NoPlc]
=============================================================================
