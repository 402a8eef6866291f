------------------------------ MODULE MCHistorian ------------------------------
(* Instances of Historian for TLC. *)
EXTENDS Historian

CONSTANTS s1, s2
=============================================================================
