--------------------------- MODULE MCToolSession ---------------------------
(* ToolSession as TLC runs it. *)
EXTENDS ToolSession, TLC

OpsSymmetry == Permutations(Ops)
=============================================================================
