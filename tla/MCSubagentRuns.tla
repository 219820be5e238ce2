---------------------------- MODULE MCSubagentRuns ----------------------------
(***************************************************************************)
(* Instances of SubagentRuns for TLC.                                      *)
(***************************************************************************)
EXTENDS SubagentRuns

CONSTANTS c1, c2

BothChildren == {{c1, c2}}
===============================================================================
