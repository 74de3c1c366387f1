-------------------------------- MODULE MCBoard --------------------------------
(* Board as TLC runs it. *)
EXTENDS Board, TLC
=============================================================================
