------------------------------- MODULE Eeprom -------------------------------
(***************************************************************************)
(* The emulated EEPROM: port/platforms/eeprom.c of the vial tree (the via  *)
(* tree's is the same but for the base address), with what qmk.c,          *)
(* link_kbd.c and link_cmd.c do with it.                                   *)
(*                                                                         *)
(* QMK reads and writes a RAM image; a sector that differs from the flash  *)
(* is marked dirty and written when all has been quiet for EE_FLUSH_MS,    *)
(* the lowest first, one per turn.  The keymap's addresses are moved to    *)
(* the profile in use.  The power may go at any time, also between the     *)
(* erase of a sector and its pages, and the flash may refuse.              *)
(*                                                                         *)
(* An address is a cell, one page of the flash; a sector is two cells.     *)
(* Cell 0 is the configuration: the set of the magic words that are valid. *)
(* The cells 1 and 2 are the keymap of profile 0, which spans two sectors, *)
(* cell 3 is unused, and from KM_EXTRA on every other profile has a sector *)
(* of its own, in the proportions of the source.                           *)
(*                                                                         *)
(* Operators that start with m_ are faulty variants of the operator that   *)
(* follows; the specification never uses them.                             *)
(***************************************************************************)
EXTENDS Integers, FiniteSets, FiniteSetsExt

CONSTANTS Codes,                \* what a key may be set to
          Default,              \* what QMK's default keymap holds, a code
          Blank,                \* an erased cell
          EEPROM_PROFILE_MAX,   \* number of profiles
          Edits,                \* bound: places <<off, len>> of the keymap QMK writes
          MAX_REFUSED           \* bound: sectors the flash refuses

ASSUME EepromAssumption ==
    /\ Default \in Codes /\ Blank \notin Codes
    /\ EEPROM_PROFILE_MAX \in Nat \ {0}

EE_SECTOR_SIZE == 2
KM_BEGIN       == 1
KM_SIZE        == 2
KM_EXTRA       == 4
EE_CELLS       == KM_EXTRA + (EEPROM_PROFILE_MAX - 1) * KM_SIZE
EE_SECTOR_CNT  == EE_CELLS \div EE_SECTOR_SIZE

Cells    == 0 .. EE_CELLS - 1
Sectors  == 0 .. EE_SECTOR_CNT - 1
Profiles == 0 .. EEPROM_PROFILE_MAX - 1
Marks    == SUBSET {"eeconfig", "profiles"}     \* magic words in cell 0

\* QMK writes keys of the keymap and nothing next to it.
ASSUME EditsAssumption ==
    \A e \in Edits : /\ e \in Nat \X (Nat \ {0})
                     /\ KM_BEGIN <= e[1] /\ e[1] + e[2] <= KM_BEGIN + KM_SIZE

VARIABLES
    eeprom_buf,     \* RAM: the image QMK works on
    flash,          \* the image in flash
    dirty_mask,     \* RAM: sectors to write
    quiet,          \* RAM: EE_FLUSH_MS have passed since dirty_time
    km_profile,     \* RAM: the profile in use
    km_need_fill,   \* RAM: the profiles must be filled
    turn_due,       \* the loop has not run qmkUpdate since the start or erase
    \* history
    refused,        \* sectors that flash refused since they were last right
    hurt            \* a fill was cut short or refused, or the console erased

vars == <<eeprom_buf, flash, dirty_mask, quiet, km_profile, km_need_fill,
          turn_due, refused, hurt>>

SectorOf(c) == c \div EE_SECTOR_SIZE
CellsOf(s)  == {c \in Cells : SectorOf(c) = s}
Erased      == [c \in Cells |-> IF c = 0 THEN {} ELSE Blank]

-----------------------------------------------------------------------------
(* Addresses. *)

kmBase(p) == IF p = 0 THEN KM_BEGIN ELSE KM_EXTRA + (p - 1) * KM_SIZE

\* Only an access that lies within the keymap is moved.
m_kmRemap(off, len) ==
    IF km_profile = 0 \/ off < KM_BEGIN \/ off + len >= KM_BEGIN + KM_SIZE
    THEN off
    ELSE kmBase(km_profile) + (off - KM_BEGIN)
kmRemap(off, len) ==
    IF km_profile = 0 \/ off < KM_BEGIN \/ off + len > KM_BEGIN + KM_SIZE
    THEN off
    ELSE kmBase(km_profile) + (off - KM_BEGIN)

\* The sectors of len cells from off: every sector step, and the last cell's.
m_kmDirty(off, len) == {SectorOf(off)}
kmDirty(off, len) ==
    {SectorOf(i) : i \in {j \in off .. off + len - 1 : (j - off) % EE_SECTOR_SIZE = 0}}
        \cup {SectorOf(off + len - 1)}

\* The keymap of profile p in an image.
Keymap(image, p) == [i \in 0 .. KM_SIZE - 1 |-> image[kmBase(p) + i]]

\* An image with the keymap of profile p replaced.
WithKeymap(image, p, m) ==
    [c \in Cells |-> IF c \in kmBase(p) .. kmBase(p) + KM_SIZE - 1
                     THEN m[c - kmBase(p)] ELSE image[c]]

-----------------------------------------------------------------------------
(* RAM operations.  dirty_time is set with every mark. *)

Mark(S) ==
    /\ dirty_mask' = dirty_mask \cup S
    /\ quiet' = (quiet /\ S = {})

\* eeprom_write_block: nothing is marked when nothing changes.
eeprom_write_block(off, len, v) ==
    LET at  == kmRemap(off, len)
        new == [c \in Cells |-> IF c \in at .. at + len - 1 THEN v ELSE eeprom_buf[c]]
    IN  /\ eeprom_buf' = new
        /\ Mark(IF new = eeprom_buf THEN {} ELSE kmDirty(at, len))

\* eepromProfileCopy(to): the keymap in use becomes that of `to` as well.
eepromProfileCopy(to) ==
    LET src == Keymap(eeprom_buf, km_profile)
    IN  IF Keymap(eeprom_buf, to) = src
        THEN UNCHANGED <<eeprom_buf, dirty_mask, quiet>>
        ELSE /\ eeprom_buf' = WithKeymap(eeprom_buf, to, src)
             /\ Mark(kmDirty(kmBase(to), KM_SIZE))

\* eepromProfileFillAll, and the magic word: image and marked sectors.
m_Filled(buf) == [c \in Cells |-> IF c = 0 THEN buf[0] \cup {"profiles"} ELSE buf[c]]
Filled(buf) ==
    [c \in Cells |->
        IF c = 0 THEN buf[0] \cup {"profiles"}
        ELSE LET own == {p \in Profiles : c \in kmBase(p) .. kmBase(p) + KM_SIZE - 1}
             IN  IF own = {} THEN buf[c]
                 ELSE LET p == CHOOSE p \in own : TRUE
                      IN  buf[kmBase(km_profile) + (c - kmBase(p))]]

FillMarks(buf) ==
    kmDirty(0, 1) \cup
    UNION {kmDirty(kmBase(p), KM_SIZE) :
             p \in {q \in Profiles : Keymap(buf, q) # Keymap(buf, km_profile)}}

NeedsFill == "profiles" \notin eeprom_buf[0] \/ km_need_fill

\* eepromProfileEnsure, with the sectors D that are dirty before it.
eepromProfileEnsure(D, q) ==
    IF NeedsFill
    THEN /\ eeprom_buf' = Filled(eeprom_buf)
         /\ dirty_mask' = D \cup FillMarks(eeprom_buf)
         /\ quiet' = FALSE
         /\ km_need_fill' = FALSE
    ELSE /\ dirty_mask' = D /\ quiet' = q
         /\ UNCHANGED <<eeprom_buf, km_need_fill>>

-----------------------------------------------------------------------------
(* Flash. *)

\* What sector s holds after each phase of writing it: as before, erased,
\* its first page written, both.
FlushPhases(s) ==
    LET With(n) == [c \in Cells |->
                      IF c \notin CellsOf(s) THEN flash[c]
                      ELSE IF c < s * EE_SECTOR_SIZE + n THEN eeprom_buf[c]
                      ELSE Erased[c]]
    IN  <<flash, With(0), With(1), With(2)>>

\* The start: the image is read, and QMK makes a new one, with the default
\* keymap in the profile in use, when the configuration is not valid.
Boot(f, h) ==
    /\ flash' = f
    /\ km_profile' = 0
    /\ turn_due' = TRUE
    /\ refused' = {}
    /\ IF "eeconfig" \in f[0]
       THEN /\ eeprom_buf' = f
            /\ dirty_mask' = {} /\ quiet' = FALSE /\ km_need_fill' = FALSE
            /\ hurt' = h
       ELSE /\ eeprom_buf' = [c \in Cells |->
                   IF c = 0 THEN {"eeconfig"}
                   ELSE IF c \in KM_BEGIN .. KM_BEGIN + KM_SIZE - 1 THEN Default
                   ELSE Blank]
            /\ dirty_mask' = Sectors /\ quiet' = FALSE /\ km_need_fill' = TRUE
            /\ hurt' = FALSE

-----------------------------------------------------------------------------
Init ==
    /\ flash = Erased
    /\ eeprom_buf = [c \in Cells |->
                   IF c = 0 THEN {"eeconfig"}
                   ELSE IF c \in KM_BEGIN .. KM_BEGIN + KM_SIZE - 1 THEN Default
                   ELSE Blank]
    /\ dirty_mask = Sectors /\ quiet = FALSE
    /\ km_profile = 0 /\ km_need_fill = TRUE
    /\ turn_due = TRUE /\ refused = {} /\ hurt = FALSE

Tick ==
    /\ dirty_mask # {} /\ ~quiet
    /\ quiet' = TRUE
    /\ UNCHANGED <<eeprom_buf, flash, dirty_mask, km_profile, km_need_fill,
                   turn_due, refused, hurt>>

\* qmkUpdate: eeprom_task, then eepromProfileEnsure.
ctz(S) == Min(S)

\* The dirty sectors after sector s was tried: its bit goes in any case, or a
\* flash that refuses would be tried in every turn.
m_LeftDirty(s, done) == IF done THEN dirty_mask \ {s} ELSE dirty_mask
LeftDirty(s, done) == dirty_mask \ {s}

MayRefuse(s) == Cardinality(refused \cup {s}) <= MAX_REFUSED

UpdateIdle ==
    /\ dirty_mask = {} \/ ~quiet
    /\ turn_due \/ NeedsFill
    /\ eepromProfileEnsure(dirty_mask, quiet)
    /\ turn_due' = FALSE
    /\ UNCHANGED <<flash, km_profile, refused, hurt>>
UpdateFlush ==
    /\ dirty_mask # {} /\ quiet
    /\ LET s  == ctz(dirty_mask)
           ph == FlushPhases(s)
       IN  \E i \in DOMAIN ph :
           \/ /\ i \in {1, 2, 4}        \* erase refused, write refused, done
              /\ i = 4 \/ MayRefuse(s)
              /\ flash' = ph[i]
              /\ eepromProfileEnsure(LeftDirty(s, i = 4), FALSE)
              /\ refused' = IF i = 4 THEN refused \ {s} ELSE refused \cup {s}
              /\ hurt' = (hurt \/ i # 4)
              /\ turn_due' = FALSE
              /\ UNCHANGED km_profile
           \/ /\ i < 4                  \* the power goes
              /\ Boot(ph[i], TRUE)

\* What QMK is told in the turn: a key or a row of keys is set, by VIA, Vial
\* or QMK's own reset of the keymap.
Edit(off, len, v) ==
    /\ ~turn_due
    /\ eeprom_write_block(off, len, v)
    /\ UNCHANGED <<flash, km_profile, km_need_fill, turn_due, refused, hurt>>

\* LINK_CMD_SLOT_COMMIT on an empty slot: qmkProfileCopyTo.
CopyTo(p) ==
    /\ ~turn_due
    /\ p # km_profile
    /\ eepromProfileCopy(p)
    /\ UNCHANGED <<flash, km_profile, km_need_fill, turn_due, refused, hurt>>

\* linkKbdApplySlot after qmkUpdate: qmkSetProfile.
SetProfile(p) ==
    /\ ~turn_due
    /\ p # km_profile
    /\ km_profile' = p
    /\ UNCHANGED <<eeprom_buf, flash, dirty_mask, quiet, km_need_fill,
                   turn_due, refused, hurt>>

\* eeprom_flush: every dirty sector, some of which are refused.
Flushed(buf, bad) ==
    [c \in Cells |-> IF SectorOf(c) \notin dirty_mask \ bad THEN flash[c] ELSE buf[c]]

\* `qmk eeprom flush`.
CliFlush ==
    /\ dirty_mask # {}
    /\ \E bad \in {{}, {ctz(dirty_mask)}} :
        /\ bad = {} \/ MayRefuse(ctz(dirty_mask))
        /\ flash' = Flushed(eeprom_buf, bad)
        /\ refused' = (refused \ dirty_mask) \cup bad
        /\ hurt' = (hurt \/ bad # {})
    /\ dirty_mask' = {} /\ quiet' = FALSE
    /\ UNCHANGED <<eeprom_buf, km_profile, km_need_fill, turn_due>>

\* `qmk eeprom erase`: eeprom_driver_erase, eeprom_flush.
CliErase ==
    /\ eeprom_buf' = Erased /\ flash' = Erased
    /\ dirty_mask' = {} /\ quiet' = FALSE
    /\ km_need_fill' = TRUE /\ turn_due' = TRUE
    /\ refused' = {} /\ hurt' = TRUE
    /\ UNCHANGED km_profile

\* bootloader_jump and mcu_reset (bootloader.c): a reset writes what is left first.  QMK may have
\* made the configuration invalid before (clear EEPROM).
Reset(clear) ==
    LET buf == IF clear THEN [eeprom_buf EXCEPT ![0] = @ \ {"eeconfig"}]
               ELSE eeprom_buf
    IN  /\ ~turn_due
        /\ Boot([c \in Cells |->
                   IF SectorOf(c) \in dirty_mask \cup (IF clear THEN {0} ELSE {})
                   THEN buf[c] ELSE flash[c]], hurt)

PowerCut == Boot(flash, hurt \/ dirty_mask # {})

Next ==
    \/ Tick \/ UpdateIdle \/ UpdateFlush
    \/ \E e \in Edits, v \in Codes : Edit(e[1], e[2], v)
    \/ \E p \in Profiles : CopyTo(p) \/ SetProfile(p)
    \/ CliFlush \/ CliErase
    \/ \E clear \in BOOLEAN : Reset(clear)
    \/ PowerCut

\* The loop goes on and time passes.
Fairness == WF_vars(Tick) /\ WF_vars(UpdateIdle) /\ WF_vars(UpdateFlush)

Spec     == Init /\ [][Next]_vars
FairSpec == Spec /\ Fairness

-----------------------------------------------------------------------------
(* Properties *)

Image(f) ==
    /\ f \in [Cells -> Marks \cup Codes \cup {Blank}]
    /\ f[0] \in Marks /\ \A c \in Cells \ {0} : f[c] \in Codes \cup {Blank}

\* Every variable has its type.
TypeOK ==
    /\ Image(eeprom_buf) /\ Image(flash)
    /\ dirty_mask \subseteq Sectors /\ refused \subseteq Sectors
    /\ quiet \in BOOLEAN /\ km_need_fill \in BOOLEAN
    /\ km_profile \in Profiles
    /\ turn_due \in BOOLEAN /\ hurt \in BOOLEAN

\* A cell that differs from the flash lies in a sector that is marked dirty,
\* whoever wrote it and across whatever sector borders, except where the flash
\* refused a sector: that is given up until it is written again.
DirtyCovers ==
    \A c \in Cells :
        eeprom_buf[c] # flash[c] => SectorOf(c) \in dirty_mask \cup refused

\* With the magic word set and no fill due, every profile has a keymap with no
\* blank key: changing the keyboard never leaves one whose keys are all dead.
\* Not so after the console's erase, and after a power cut or a refused flash
\* while sectors were still to be written: the magic word is in the lowest
\* sector and reaches the flash before the keymaps it vouches for.
NoDeadProfile ==
    "profiles" \in eeprom_buf[0] /\ ~km_need_fill /\ ~hurt =>
        \A p \in Profiles, i \in 0 .. KM_SIZE - 1 : Keymap(eeprom_buf, p)[i] # Blank

\* Profiles are kept apart: the address arithmetic implements one keymap per
\* profile, edited, copied, filled and saved each on its own.
Store == INSTANCE KeymapProfiles WITH
    Places  <- 0 .. KM_SIZE - 1,
    Keys    <- Codes \cup {Blank},
    keymap  <- [p \in Profiles |-> Keymap(eeprom_buf, p)],
    disk    <- [p \in Profiles |-> Keymap(flash, p)],
    current <- km_profile
KeepsProfilesApart == Store!Spec

\* Once nothing is changed and nothing restarts any more, all is written: a
\* flush is not put off for good, and a refused sector does not hold up others.
AllIsSaved ==
    <>[][eeprom_buf' = eeprom_buf /\ ~turn_due']_vars => <>[](dirty_mask = {})
=============================================================================
