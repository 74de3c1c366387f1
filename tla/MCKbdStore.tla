----------------------------- MODULE MCKbdStore -----------------------------
(* KbdStore as TLC runs it. *)
EXTENDS KbdStore, TLC
=============================================================================
