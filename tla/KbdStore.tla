------------------------------ MODULE KbdStore ------------------------------
(***************************************************************************)
(* The layout store: ap/modules/link/kbd_store.c with the commands of      *)
(* link_cmd.c and the console that drive it.                               *)
(*                                                                         *)
(* Flash holds the slots (header and definition of a keyboard each) and    *)
(* the table of selections, an append-only log that is erased and written  *)
(* again when it is full.  RAM holds the stage buffer, which the console's *)
(* write shares, the plugged keyboard and the active slot.                 *)
(*                                                                         *)
(* Every operation runs to its end on core0.  The one that reaches into    *)
(* the flash does so in phases, the erase and then the pages one by one:   *)
(* the power may go between any two, and a flash call may be refused.      *)
(* The operation is one action with an outcome for each.  A page is taken  *)
(* to be programmed whole or not at all.                                   *)
(*                                                                         *)
(* Operators that start with m_ are faulty variants of the operator that   *)
(* follows; the specification never uses them.                             *)
(***************************************************************************)
EXTENDS Integers, Sequences, FiniteSets, FiniteSetsExt

CONSTANTS Keyboards,        \* vid/pid pairs other than 0/0
          NoKbd,            \* vid = pid = 0: nothing is plugged
          TestKbd,          \* the pair `kbd test` writes
          Data,             \* contents of a page of a definition
          Blank,            \* an erased page, the rest of a stage buffer
          NoHeader,         \* what an erased slot has for a header
          KBD_SLOT_MAX,     \* number of slots
          SEL_MAX           \* records the selection table holds

ASSUME StoreAssumption ==
    /\ NoKbd \notin Keyboards /\ TestKbd \in Keyboards
    /\ Blank \notin Data
    /\ KBD_SLOT_MAX \in Nat \ {0}
    /\ SEL_MAX \in Nat /\ SEL_MAX > KBD_SLOT_MAX

Slots        == 0 .. KBD_SLOT_MAX - 1
KBD_SEL_AUTO == KBD_SLOT_MAX     \* 0xFF, which is no slot either
Pages        == {1, 2}           \* of a slot; the header shares page 1
NoRecord     == -1               \* the keyboard has no record in the table
Headers      == [kbd : Keyboards, hash : {0, 1}]
Records      == [kbd : Keyboards, hash : {0}, slot : Slots \cup {KBD_SEL_AUTO}]
Body         == [Pages -> Data \cup {Blank}]
Slot         == [head : Headers \cup {NoHeader}, body : Body]

VARIABLES
    slot,           \* flash: the slots
    sel,            \* flash: the selection table up to its first free place
    slot_buf,       \* RAM: the slot being assembled
    stage_hdr,      \* RAM: its keyboard (NoKbd: none yet)
    stage_open,     \* RAM: between BEGIN and COMMIT
    cur,            \* RAM: cur_vid, cur_pid
    active_slot,    \* RAM: the slot in use, -1 for none
    \* history
    sent,           \* what the tool sent since its last BEGIN (not shared)
    as_sent,        \* per slot, what it should hold, {} when not known
    shared,         \* the console has used the stage buffer since BEGIN
    stale,          \* the store was changed without choosing anew
    told            \* the choice just confirmed to the user, or NoRecord

flash == <<slot, sel>>
stage == <<slot_buf, stage_hdr, stage_open, sent, shared>>
vars  == <<slot, sel, slot_buf, stage_hdr, stage_open, cur, active_slot,
           sent, as_sent, shared, stale, told>>

Empty  == [p \in Pages |-> Blank]
Erased == [head |-> NoHeader, body |-> Empty]

\* cur_hash: linkKbdUpdate always passes 0.
cur_hash == 0

-----------------------------------------------------------------------------
(* Looking things up.  f is the contents of the slots, t of the table. *)

kbdStoreGetHeader(f, s) == s \in Slots /\ f[s].head # NoHeader

\* The slots of keyboard k.
SlotsOf(f, k) == {s \in Slots : kbdStoreGetHeader(f, s) /\ f[s].head.kbd = k}

\* The first slot whose hash fits too, else the first of this keyboard.
kbdStoreFind(f, k, hash) ==
    LET exact == {s \in SlotsOf(f, k) : hash # 0 /\ f[s].head.hash = hash}
    IN  IF exact # {} THEN Min(exact)
        ELSE IF SlotsOf(f, k) # {} THEN Min(SlotsOf(f, k))
        ELSE -1

\* Position of the last record of the keyboard, 0 if it has none.
m_ScanFirst(t, k, hash) ==
    LET m == {i \in DOMAIN t : t[i].kbd = k /\ t[i].hash = hash}
    IN  IF m = {} THEN 0 ELSE Min(m)
selScan(t, k, hash) ==
    LET m == {i \in DOMAIN t : t[i].kbd = k /\ t[i].hash = hash}
    IN  IF m = {} THEN 0 ELSE Max(m)

kbdSelGet(t, k) ==
    IF selScan(t, k, cur_hash) = 0 THEN NoRecord
    ELSE t[selScan(t, k, cur_hash)].slot

\* The slot the store chooses for keyboard k: the recorded one if it still
\* holds this keyboard, else the first that does.
Chosen(f, t, k) ==
    IF k = NoKbd THEN -1
    ELSE IF kbdSelGet(t, k) \in SlotsOf(f, k) THEN kbdSelGet(t, k)
    ELSE kbdStoreFind(f, k, cur_hash)

\* The records that survive a compaction: the last one of each keyboard that
\* has a slot, found through the header (its hash included), in slot order.
selKeep(f, t) ==
    LET At(s)   == selScan(t, f[s].head.kbd, f[s].head.hash)
        Kept    == {s \in Slots : kbdStoreGetHeader(f, s) /\ At(s) # 0}
        Firsts  == {s \in Kept : \A r \in Kept : At(r) = At(s) => s <= r}
        Nth(n)  == CHOOSE s \in Firsts : Cardinality({r \in Firsts : r <= s}) = n
    IN  [n \in 1 .. Cardinality(Firsts) |-> t[At(Nth(n))]]

-----------------------------------------------------------------------------
(* What the flash holds after each phase of an operation: first what it held *)
(* before, last what the operation is for.                                   *)

\* Writing a slot: erased, then page 1 with the header, then page 2.
m_BurnNoErase(s, head, buf) ==
    << slot[s],
       slot[s],
       [head |-> head, body |-> [buf EXCEPT ![2] = slot[s].body[2]]],
       [head |-> head, body |-> [p \in Pages |-> IF buf[p] = Blank
                                                 THEN slot[s].body[p] ELSE buf[p]]] >>
BurnPhases(s, head, buf) ==
    << slot[s],
       Erased,
       [head |-> head, body |-> [buf EXCEPT ![2] = Blank]],
       [head |-> head, body |-> buf] >>

\* Appending a record; when the table is full it is erased, what is kept is
\* written, and then the record.
SelPhases(rec) ==
    IF Len(sel) < SEL_MAX THEN <<sel, Append(sel, rec)>>
    ELSE <<sel, <<>>, selKeep(slot, sel), Append(selKeep(slot, sel), rec)>>

-----------------------------------------------------------------------------
(* Steps shared by the operations. *)

\* kbdStoreSelect(k), kbdStoreReselect(): choose from what is stored now.
Select(k) ==
    /\ cur' = k
    /\ active_slot' = Chosen(slot', sel', k)
    /\ stale' = FALSE

m_NoReselect == UNCHANGED <<cur, active_slot, stale>>
kbdStoreReselect == Select(cur)

\* The command failed and changes nothing in RAM; the flash may have changed.
NotReselected ==
    /\ stale' = (stale \/ slot' # slot \/ sel' # sel)
    /\ UNCHANGED <<cur, active_slot>>

\* No stage is open.  What is left in the buffer and the header is not read
\* before BEGIN or `kbd test` fills them again: forgotten here.
StageClosed ==
    /\ stage_open' = FALSE
    /\ slot_buf' = Empty /\ stage_hdr' = NoKbd
    /\ sent' = Empty /\ shared' = FALSE

\* The power goes, and comes back: RAM is gone.
Boot ==
    /\ cur' = NoKbd
    /\ active_slot' = -1
    /\ stale' = FALSE
    /\ StageClosed
-----------------------------------------------------------------------------
Init ==
    /\ slot = [s \in Slots |-> Erased]
    /\ sel = <<>>
    /\ slot_buf = Empty /\ stage_hdr = NoKbd /\ stage_open = FALSE
    /\ cur = NoKbd /\ active_slot = -1
    /\ sent = Empty /\ as_sent = [s \in Slots |-> {}]
    /\ shared = FALSE /\ stale = FALSE /\ told = NoRecord

\* linkKbdUpdate: another keyboard, or none, is plugged.
Plug(k) ==
    /\ k # cur
    /\ UNCHANGED flash
    /\ Select(k)
    /\ UNCHANGED <<stage, as_sent>>

\* LINK_CMD_SLOT_BEGIN.  The header's hash is 0: memset, and no field for it.
StageBegin(k) ==
    /\ slot_buf' = Empty
    /\ stage_hdr' = k /\ stage_open' = TRUE
    /\ sent' = Empty /\ shared' = FALSE
    /\ UNCHANGED <<flash, cur, active_slot, as_sent, stale>>

\* LINK_CMD_SLOT_DATA.
StageData(p, d) ==
    /\ stage_open          \* otherwise refused
    /\ slot_buf' = [slot_buf EXCEPT ![p] = d]
    /\ sent' = IF shared THEN sent ELSE [sent EXCEPT ![p] = d]
    /\ UNCHANGED <<flash, stage_hdr, stage_open, shared, cur, active_slot,
                   as_sent, stale>>

\* LINK_CMD_SLOT_COMMIT.  The stage is closed before the flash is touched.
StageCommit(s) ==
    LET ph == BurnPhases(s, [kbd |-> stage_hdr, hash |-> 0], slot_buf) IN
    /\ stage_open          \* otherwise refused
    /\ \E i \in DOMAIN ph :
         /\ slot' = [slot EXCEPT ![s] = ph[i]]
         /\ UNCHANGED sel
         /\ as_sent' = [as_sent EXCEPT ![s] =
                IF i = 1 THEN @
                ELSE IF i = 4 /\ ~shared
                THEN {[head |-> [kbd |-> stage_hdr, hash |-> 0], body |-> sent]}
                ELSE {}]
         /\ \/ /\ i = 4
               /\ kbdStoreReselect /\ StageClosed
            \/ /\ i <= 2        \* flashErase or flashWrite was refused
               /\ NotReselected /\ StageClosed
            \/ /\ i < 4         \* the power goes
               /\ Boot

\* LINK_CMD_SLOT_ERASE.
SlotErase(s) ==
    \/ /\ slot' = [slot EXCEPT ![s] = Erased]
       /\ UNCHANGED sel
       /\ kbdStoreReselect
       /\ as_sent' = [as_sent EXCEPT ![s] = {}]
       /\ UNCHANGED stage
    \/ /\ UNCHANGED flash /\ NotReselected
       /\ UNCHANGED <<stage, as_sent>>

\* LINK_CMD_SEL_SET, `kbd sel`: kbdStoreSelectSlot.
SelRefused(c) ==
    \/ cur = NoKbd
    \/ c # KBD_SEL_AUTO /\ c \notin SlotsOf(slot, cur)
SelSet(c) ==
    LET ph == IF kbdSelGet(sel, cur) = c THEN <<sel>>
              ELSE SelPhases([kbd |-> cur, hash |-> cur_hash, slot |-> c])
    IN
    /\ ~SelRefused(c)
    /\ \E i \in DOMAIN ph :
         /\ sel' = ph[i]
         /\ UNCHANGED <<slot, as_sent>>
         /\ \/ /\ i = Len(ph)
               /\ kbdStoreReselect /\ told' = c
               /\ UNCHANGED stage
            \/ /\ i < Len(ph)
               /\ told' = NoRecord
               /\ \/ NotReselected /\ UNCHANGED stage
                  \/ Boot

\* `kbd erase`: kbdStoreErase from the console, which chooses nothing anew.
CliErase(s) ==
    /\ slot[s] # Erased
    /\ slot' = [slot EXCEPT ![s] = Erased]
    /\ as_sent' = [as_sent EXCEPT ![s] = {}]
    /\ stale' = TRUE
    /\ UNCHANGED <<sel, stage, cur, active_slot>>

\* `kbd test`: kbdStoreWrite, through the stage buffer; nothing chosen anew.
CliTest(s, d) ==
    LET buf == [Empty EXCEPT ![1] = d]
        ph  == BurnPhases(s, [kbd |-> TestKbd, hash |-> 1], buf)
    IN \E i \in DOMAIN ph :
         /\ slot' = [slot EXCEPT ![s] = ph[i]]
         /\ UNCHANGED sel
         /\ as_sent' = [as_sent EXCEPT ![s] = IF i = 1 THEN @
                                             ELSE IF i = 4 THEN {ph[4]} ELSE {}]
         /\ \/ /\ i \in {1, 2, 4}     \* 1, 2: flashErase or flashWrite was refused
               /\ stale' = (stale \/ i # 1)
               /\ IF stage_open
                  THEN slot_buf' = buf /\ shared' = TRUE /\ sent' = Empty
                  ELSE UNCHANGED <<slot_buf, shared, sent>>
               /\ UNCHANGED <<stage_hdr, stage_open, cur, active_slot>>
            \/ /\ i < 4
               /\ Boot

PowerCut == UNCHANGED flash /\ Boot /\ UNCHANGED as_sent

Next ==
    \/ /\ told' = NoRecord
       /\ \/ \E k \in Keyboards \cup {NoKbd} : Plug(k)
          \/ \E k \in Keyboards : StageBegin(k)
          \/ \E p \in Pages, d \in Data : StageData(p, d)
          \/ \E s \in Slots : StageCommit(s) \/ SlotErase(s) \/ CliErase(s)
          \/ \E s \in Slots, d \in Data : CliTest(s, d)
          \/ PowerCut
    \/ \E c \in Slots \cup {KBD_SEL_AUTO} : SelSet(c)

Spec == Init /\ [][Next]_vars

-----------------------------------------------------------------------------
(* Properties *)

\* Every variable has its type; the table never outgrows its sectors.
TypeOK ==
    /\ slot \in [Slots -> Slot]
    /\ sel \in Seq(Records) /\ Len(sel) <= SEL_MAX
    /\ slot_buf \in Body /\ sent \in Body
    /\ stage_hdr \in Keyboards \cup {NoKbd} /\ stage_open \in BOOLEAN
    /\ cur \in Keyboards \cup {NoKbd} /\ active_slot \in Slots \cup {-1}
    /\ as_sent \in [Slots -> SUBSET Slot]
    /\ shared \in BOOLEAN /\ stale \in BOOLEAN
    /\ told \in Slots \cup {KBD_SEL_AUTO, NoRecord}

\* Unless the store was changed behind its back (kbd erase, kbd test, a
\* command that failed half way), the active slot is the one the plugged
\* keyboard is pinned to, as long as that slot is still this keyboard's,
\* otherwise its lowest slot, and none only if it has none.
ActiveFits ==
    ~stale =>
        LET own == SlotsOf(slot, cur)
            pin == kbdSelGet(sel, cur)
        IN  active_slot = IF own = {} THEN -1
                          ELSE IF pin \in own THEN pin
                          ELSE Min(own)

\* vialServeDefinition: what Vial is given to draw, {} for the built-in one.
m_Served == IF active_slot < 0 THEN {} ELSE {slot[active_slot]}
Served ==
    IF active_slot < 0 \/ ~kbdStoreGetHeader(slot, active_slot) THEN {}
    ELSE {slot[active_slot]}

\* Vial is given a layout of the plugged keyboard, whatever command failed and
\* wherever the power went, except over a slot the console's test wrote.
ServesOwnLayout ==
    \A x \in Served : x.head # NoHeader /\ (x.head.hash = 0 => x.head.kbd = cur)

\* A slot that shows a header holds what the tool sent between BEGIN and
\* COMMIT and nothing of an earlier layout, also where it sent only a part.
\* Excepted are a slot whose burning the power cut short (its header is valid
\* and its second page is missing) and a stage buffer the console wrote over.
CommittedAsSent ==
    \A s \in Slots :
        kbdStoreGetHeader(slot, s) => \A x \in as_sent[s] : slot[s] = x

\* The table implements the promise: a confirmed choice is what the keyboard
\* is pinned to until it is pinned anew, through any number of compactions,
\* unless the power or the flash failed during one.
Promise == INSTANCE SlotChoice WITH
    Places  <- Slots \cup {KBD_SEL_AUTO},
    NoChoice <- NoRecord,
    choice   <- [k \in Keyboards |-> kbdSelGet(sel, k)],
    stored   <- {k \in Keyboards :
                   \E s \in SlotsOf(slot, k) : slot[s].head.hash = 0}
ImplementsChoice == Promise!Spec
=============================================================================
