---- MODULE MCThreadTurns ----
(***************************************************************************)
(* Instances of ThreadTurns for TLC.                                       *)
(***************************************************************************)
EXTENDS ThreadTurns

CONSTANTS w1, w2
====
