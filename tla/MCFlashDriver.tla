----------------------------- MODULE MCFlashDriver -----------------------------
(* FlashDriver as TLC runs it. *)
EXTENDS FlashDriver, TLC

\* All bits clear, and every other byte.
TwoPatterns == {[b \in 0 .. HW_FLASH_SIZE - 1 |-> 0], [b \in 0 .. HW_FLASH_SIZE - 1 |-> b % 2]}

\* The first byte looked at is clear, the last one is not.
Count == [i \in 1 .. HW_FLASH_SECTOR_SIZE |-> (i - 1) % 2]
=============================================================================
