------------------------------- MODULE MCLinkKbd -------------------------------
(* Small instances of LinkKbd for TLC. *)
EXTENDS LinkKbd, TLC

(* Which keyboard is which makes no difference to the safety properties. *)
KeyboardSymmetry == Permutations(Keyboard)
===============================================================================
