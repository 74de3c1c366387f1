--------------------------- MODULE KeymapProfiles ---------------------------
(***************************************************************************)
(* What the emulated EEPROM promises about keymaps: every profile has one  *)
(* of its own, in RAM and on disk, and an edit reaches the current profile *)
(* only.  No addresses, no sectors, no dirty bits.                         *)
(***************************************************************************)
CONSTANTS Profiles,     \* profile numbers, 0 among them
          Places,       \* the keys of a keymap
          Keys,         \* what a key may hold
          Blank         \* the key of an erased keymap, one of Keys

VARIABLES keymap,       \* keymap[p]: the keymap of profile p, as QMK sees it
          disk,         \* disk[p]: what of it survives the power
          current       \* the profile in use

vars == <<keymap, disk, current>>

Keymaps == [Places -> Keys]
AllBlank == [p \in Profiles |-> [i \in Places |-> Blank]]

Init ==
    /\ keymap \in [Profiles -> Keymaps]
    /\ disk = AllBlank
    /\ current = 0

\* The user edits the keymap in use.
Edit ==
    /\ UNCHANGED <<disk, current>>
    /\ keymap' \in [Profiles -> Keymaps]
    /\ \A p \in Profiles \ {current} : keymap'[p] = keymap[p]

\* A new slot inherits the keymap in use.
CopyTo(p) ==
    /\ UNCHANGED <<disk, current>>
    /\ keymap' = [keymap EXCEPT ![p] = keymap[current]]

Switch(p) ==
    /\ current' = p
    /\ UNCHANGED <<keymap, disk>>

\* A key on disk becomes what QMK sees, or is erased on the way.
Saved(d) ==
    LET old == disk
        new == keymap
    IN  \A p \in Profiles, i \in Places : d[p][i] \in {old[p][i], new[p][i], Blank}

\* Some of it is saved; at the same time every profile may be given the
\* keymap in use.
SaveAndFill ==
    /\ UNCHANGED current
    /\ keymap' \in {keymap, [p \in Profiles |-> keymap[current]]}
    /\ Saved(disk')

\* Everything is erased, in RAM and, as far as it goes, on disk.
Erase ==
    /\ UNCHANGED current
    /\ keymap' = AllBlank
    /\ \A p \in Profiles, i \in Places : disk'[p][i] \in {disk[p][i], Blank}

\* A restart: the disk is read; without a valid configuration all keymaps are
\* blank but that of profile 0, which gets the default.
Restart ==
    /\ current' = 0
    /\ \/ keymap' = disk'
       \/ \A p \in Profiles \ {0} : keymap'[p] = AllBlank[p]
    /\ Saved(disk')

Next ==
    \/ Edit
    \/ \E p \in Profiles : CopyTo(p) \/ Switch(p)
    \/ SaveAndFill
    \/ Erase
    \/ Restart

Spec == Init /\ [][Next]_vars
=============================================================================
