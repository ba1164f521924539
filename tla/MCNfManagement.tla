---------------------------- MODULE MCNfManagement ----------------------------
(* An instance of NfManagement for TLC: two ids beyond the first, so that a  *)
(* process can retry and another one can follow it, and the two types that   *)
(* startup itself calls, in the order of conf.NF_SCOPES.                     *)
EXTENDS NfManagement

CONSTANTS u1, u2, u3

MCNfTypes == {"AMF", "UDM"}
MCRank == [n \in MCNfTypes |-> IF n = "AMF" THEN 0 ELSE 5]
=============================================================================
