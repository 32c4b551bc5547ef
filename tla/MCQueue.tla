-------------------------------- MODULE MCQueue --------------------------------
(* Queue for TLC: constants only.                                               *)
EXTENDS Queue
==============================================================================
