------------------------------ MODULE MCKeyPaths ------------------------------
(* KeyPaths as TLC runs it. *)
EXTENDS KeyPaths, TLC

KeySymmetry == Permutations(Key)
=============================================================================
