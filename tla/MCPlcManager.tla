----------------------------- MODULE MCPlcManager -----------------------------
(* Instances of PlcManager for TLC. *)
EXTENDS PlcManager, TLC

CONSTANTS p1, p2, c1, c2, t1, t2

\* Two configurations of a PLC: the second scans one more tag.
MCTagsOf == (c1 :> <<t1>>) @@ (c2 :> <<t1, t2>>)

\* One PLC configured, the other not.
MCInitCfg == [p \in PLC |-> IF p = p1 THEN c1 ELSE NoCfg]
=============================================================================
