---------------------------- MODULE MCPriorityQueue ----------------------------
(* PriorityQueue for TLC: constants only.                                       *)
EXTENDS PriorityQueue
==============================================================================
