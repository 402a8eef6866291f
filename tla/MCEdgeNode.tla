------------------------------ MODULE MCEdgeNode ------------------------------
(* Instances of EdgeNode for TLC. *)
EXTENDS EdgeNode

\* One device.
OneDevice == <<"d1">>
=============================================================================
