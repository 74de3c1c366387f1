------------------------------ MODULE MCEeprom ------------------------------
(* Eeprom as TLC runs it. *)
EXTENDS Eeprom, TLC

\* An edit of the whole keymap, across the border of its two sectors.
WholeKeymap == {<<1, 2>>}
=============================================================================
