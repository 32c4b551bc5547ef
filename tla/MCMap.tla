---------------------------------- MODULE MCMap ----------------------------------
(* Map for TLC: constants only.                                                 *)
EXTENDS Map
==============================================================================
