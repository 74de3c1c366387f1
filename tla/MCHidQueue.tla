------------------------------ MODULE MCHidQueue ------------------------------
(* A small instance of HidQueue for TLC. *)
EXTENDS HidQueue, TLC
===============================================================================
