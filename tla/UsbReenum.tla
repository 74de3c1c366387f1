------------------------------- MODULE UsbReenum -------------------------------
(***************************************************************************)
(* Which product id the PC sees: usb.c, linkKbdApplySlot (link_kbd.c) and  *)
(* willReenum (link_cmd.c).                                                *)
(*                                                                         *)
(* Each stored layout slot has a product id and a keymap profile of its    *)
(* own. When the active slot changes, the board must disconnect from the   *)
(* PC and come back under the other id, but not while the configuration    *)
(* tool is talking. Four steps of one turn of the main loop (cliLoopIdle)  *)
(* take part:                                                              *)
(*                                                                         *)
(*   usb    usbUpdate: the timed state machine, then tud_task              *)
(*   link   linkKbdUpdate: another keyboard may select another slot        *)
(*   qmk    qmkUpdate: the waiting raw HID command, then keyboard_task     *)
(*   slot   linkKbdApplySlot, unless the turn runs inside qmkUpdate        *)
(*                                                                         *)
(* keyboard_task may wait (macro delays, tap code delay); delay() then     *)
(* runs whole turns inside it, in which qmkUpdate and linkKbdApplySlot do  *)
(* nothing (is_busy).                                                      *)
(*                                                                         *)
(* Time passes in ticks, and a timestamp is an age that stops counting at  *)
(* the limit it is compared with.                                          *)
(*                                                                         *)
(* The specification is ReenumSpec, not Spec, so that a module can extend  *)
(* this one together with another.                                         *)
(***************************************************************************)
EXTENDS Integers

CONSTANTS
  KBD_SLOT_MAX,         \* number of layout slots
  LINK_PID_BASE,        \* product id of slot 0
  HW_USB_PID,           \* product id when no slot is active
  USB_REENUM_ARM_MS,    \* request -> disconnect, in ticks
  USB_REENUM_QUIET_MS,  \* silence of the tool before a disconnect, in ticks
  USB_REENUM_GAP_MS,    \* disconnect -> connect, in ticks
  USB_BOOT_HOLD_MS,     \* how long boot waits for a slot, in ticks
  BusyMax               \* bound: ticks that one call of keyboard_task may take

ASSUME LimitAssumption ==
  /\ KBD_SLOT_MAX \in Nat
  /\ USB_REENUM_ARM_MS \in Nat
  /\ USB_REENUM_QUIET_MS \in Nat
  /\ USB_REENUM_GAP_MS \in Nat
  /\ USB_BOOT_HOLD_MS \in Nat
  /\ BusyMax \in Nat
ASSUME PidAssumption ==
  /\ LINK_PID_BASE \in Nat
  /\ HW_USB_PID \in Nat
  /\ ~(LINK_PID_BASE <= HW_USB_PID /\ HW_USB_PID < LINK_PID_BASE + KBD_SLOT_MAX)

VARIABLES
  turn,          \* the step of the main loop that runs next
  is_busy,       \* qmkUpdate is waiting inside keyboard_task
  busy_age,      \* ticks since it started to
  active,        \* kbdStoreGetActive()
  slot_pre,      \* linkKbdApplySlot: the slot it applied last
  profile,       \* the keymap profile of QMK
  desc_pid,      \* idProduct in the device descriptor
  boot_hold, boot_age,
  reenum_state, reenum_pid, reenum_age,
  talk_age,      \* ticks since talk_time
  attached,      \* the pull-up: tud_connect / tud_disconnect
  host_pid,      \* the product id the PC enumerated, or NoHost
  raw,           \* a command of the tool waits in the raw HID queue
  quiet,         \* history: ticks since the tool last sent a command
  promised       \* history: byte [3] of the last answer about a slot

loop  == <<turn, is_busy, busy_age>>
slots == <<active, slot_pre, profile>>
usb   == <<desc_pid, boot_hold, boot_age, reenum_state, reenum_pid, reenum_age>>
tool  == <<talk_age, raw, quiet, promised>>
pc    == <<attached, host_pid>>
reenumVars == <<loop, slots, usb, tool, pc>>

Slot   == -1 .. KBD_SLOT_MAX - 1        \* -1: no stored slot fits
NoHost == -1
PidOf(slot) == IF slot >= 0 THEN LINK_PID_BASE + slot ELSE HW_USB_PID
Pid == {PidOf(slot) : slot \in Slot}

Older(age, limit) == IF age < limit THEN age + 1 ELSE age

(* usbInit: nothing is attached yet. *)
ReenumInit ==
  /\ turn = "usb" /\ is_busy = FALSE /\ busy_age = 0
  /\ active = -1 /\ slot_pre = -2 /\ profile = 0
  /\ desc_pid = HW_USB_PID
  /\ boot_hold = TRUE /\ boot_age = 0
  /\ reenum_state = "IDLE" /\ reenum_pid = 0 /\ reenum_age = 0
  /\ talk_age = 0 /\ raw = FALSE
  /\ quiet = USB_REENUM_QUIET_MS /\ promised = "none"
  /\ attached = FALSE /\ host_pid = NoHost

-------------------------------------------------------------------------------
(* usbUpdate. *)

BootWait ==
  /\ boot_hold /\ boot_age < USB_BOOT_HOLD_MS
  /\ UNCHANGED <<usb, pc, promised>>

BootExpire ==
  /\ boot_hold /\ boot_age >= USB_BOOT_HOLD_MS
  /\ boot_hold' = FALSE
  /\ attached' = TRUE
  /\ UNCHANGED <<desc_pid, boot_age, reenum_state, reenum_pid, reenum_age>>
  /\ UNCHANGED <<host_pid, promised>>

CanDetach ==
  /\ ~boot_hold /\ reenum_state = "ARMED"
  /\ reenum_age >= USB_REENUM_ARM_MS
  /\ talk_age >= USB_REENUM_QUIET_MS

Detach ==
  /\ CanDetach
  /\ desc_pid' = reenum_pid
  /\ attached' = FALSE
  /\ host_pid' = NoHost
  /\ reenum_age' = 0
  /\ reenum_state' = "GAP"
  /\ promised' = "none"
  /\ UNCHANGED <<boot_hold, boot_age, reenum_pid>>

CanAttach ==
  /\ ~boot_hold /\ reenum_state = "GAP"
  /\ reenum_age >= USB_REENUM_GAP_MS

Attach ==
  /\ CanAttach
  /\ attached' = TRUE
  /\ reenum_state' = "IDLE"
  /\ UNCHANGED <<desc_pid, boot_hold, boot_age, reenum_pid, reenum_age>>
  /\ UNCHANGED <<host_pid, promised>>

Linger ==
  /\ ~boot_hold /\ ~CanDetach /\ ~CanAttach
  /\ UNCHANGED <<usb, pc, promised>>

UsbUpdate ==
  /\ turn = "usb"
  /\ turn' = "link"
  /\ BootWait \/ BootExpire \/ Detach \/ Attach \/ Linger
  /\ UNCHANGED <<is_busy, busy_age, slots, talk_age, raw, quiet>>

(* The tud_task at the end of usbUpdate receives a command of the tool,    *)
(* which waits for each answer before it sends the next command.           *)
Receive ==
  /\ turn = "link"
  /\ host_pid # NoHost
  /\ ~raw
  /\ raw' = TRUE
  /\ quiet' = 0
  /\ UNCHANGED <<loop, slots, usb, pc, talk_age, promised>>

(* The same tud_task lets the PC enumerate the device. *)
Enumerate ==
  /\ turn = "link"
  /\ attached /\ host_pid = NoHost
  /\ host_pid' = desc_pid
  /\ UNCHANGED <<loop, slots, usb, tool, attached>>

-------------------------------------------------------------------------------
(* linkKbdUpdate: the connected keyboards changed and kbdStoreSelect       *)
(* decided on a slot, or nothing changed.                                  *)
LinkKbdUpdate ==
  /\ turn = "link"
  /\ turn' = "qmk"
  /\ active' \in Slot
  /\ promised' = IF active' = active THEN promised ELSE "none"
  /\ UNCHANGED <<is_busy, busy_age, slot_pre, profile, usb, pc, talk_age, raw, quiet>>

-------------------------------------------------------------------------------
(* qmkUpdate. *)

m_rewindsArmed    == talk_age' = IF reenum_state = "ARMED" THEN 0 ELSE talk_age
usbPostponeReenum   == talk_age' = 0

m_slotChanged(slot) == IF slot # active THEN "yes" ELSE "no"
willReenum(slot)    == IF PidOf(slot) # desc_pid THEN "yes" ELSE "no"

(* SLOT_COMMIT, SLOT_ERASE and SEL_SET: the slot that kbdStoreReselect     *)
(* finds afterwards, the old one if the command failed.                    *)
SlotCommand(slot) ==
  /\ active' = slot
  /\ promised' = willReenum(slot)

(* Every other command only answers. *)
PlainCommand == UNCHANGED <<active, promised>>

LinkCmdHandle ==
  /\ turn = "qmk" /\ ~is_busy
  /\ raw
  /\ raw' = FALSE
  /\ usbPostponeReenum
  /\ PlainCommand \/ \E slot \in Slot : SlotCommand(slot)
  /\ UNCHANGED <<loop, slot_pre, profile, usb, pc, quiet>>

(* The raw HID queue is empty: keyboard_task runs and does not wait. *)
QmkRun ==
  /\ turn = "qmk" /\ ~is_busy
  /\ ~raw
  /\ turn' = "slot"
  /\ UNCHANGED <<is_busy, busy_age, slots, usb, tool, pc>>

(* keyboard_task waits: the next turn is inside it. *)
QmkWait ==
  /\ turn = "qmk" /\ ~is_busy
  /\ ~raw
  /\ turn' = "usb"
  /\ is_busy' = TRUE
  /\ busy_age' = 0
  /\ UNCHANGED <<slots, usb, tool, pc>>

(* qmkUpdate inside a wait returns at once, linkKbdApplySlot is skipped,   *)
(* and the wait goes on or ends.                                           *)
QmkWaitMore ==
  /\ turn = "qmk" /\ is_busy
  /\ turn' = "usb"
  /\ UNCHANGED <<is_busy, busy_age, slots, usb, tool, pc>>

QmkWaitEnd ==
  /\ turn = "qmk" /\ is_busy
  /\ turn' = "slot"
  /\ is_busy' = FALSE
  /\ busy_age' = 0
  /\ UNCHANGED <<slots, usb, tool, pc>>

-------------------------------------------------------------------------------
(* linkKbdApplySlot and the usbSetProductId it calls. *)

SetInHold(pid) ==
  /\ boot_hold
  /\ \/ /\ desc_pid = pid
        /\ UNCHANGED <<usb, attached>>
     \/ /\ desc_pid # pid
        /\ desc_pid' = pid
        /\ boot_hold' = FALSE
        /\ attached' = TRUE
        /\ UNCHANGED <<boot_age, reenum_state, reenum_pid, reenum_age>>

Arm(pid) ==
  /\ reenum_pid' = pid
  /\ reenum_age' = 0
  /\ reenum_state' = "ARMED"
  /\ UNCHANGED <<desc_pid, boot_hold, boot_age, attached>>

SetIdle(pid) ==
  /\ reenum_state = "IDLE" /\ desc_pid = pid
  /\ UNCHANGED <<usb, attached>>

(* Faulty variants of usbSetProductId (the m_ operators are never part of  *)
(* the specification: each shows what a part of the code is for): an early *)
(* return that forgets what is armed, a descriptor that changes under the  *)
(* PC, a request that cancels the one before it.                           *)
m_forgetsArmed(pid) ==
  \/ SetInHold(pid)
  \/ ~boot_hold /\ desc_pid = pid /\ UNCHANGED <<usb, attached>>
  \/ ~boot_hold /\ desc_pid # pid /\ Arm(pid)
m_setsAtOnce(pid) ==
  \/ SetInHold(pid)
  \/ ~boot_hold /\ SetIdle(pid)
  \/ /\ ~boot_hold /\ ~(reenum_state = "IDLE" /\ desc_pid = pid)
     /\ desc_pid' = pid
     /\ reenum_pid' = pid /\ reenum_age' = 0 /\ reenum_state' = "ARMED"
     /\ UNCHANGED <<boot_hold, boot_age, attached>>
m_cancels(pid) ==
  \/ SetInHold(pid)
  \/ ~boot_hold /\ SetIdle(pid)
  \/ ~boot_hold /\ reenum_state = "IDLE" /\ desc_pid # pid /\ Arm(pid)
  \/ /\ ~boot_hold /\ reenum_state # "IDLE"
     /\ reenum_pid' = pid
     /\ reenum_state' = IF desc_pid = pid THEN "IDLE" ELSE "ARMED"
     /\ UNCHANGED <<reenum_age, desc_pid, boot_hold, boot_age, attached>>
usbSetProductId(pid) ==
  \/ SetInHold(pid)
  \/ ~boot_hold /\ SetIdle(pid)
  \/ ~boot_hold /\ ~(reenum_state = "IDLE" /\ desc_pid = pid) /\ Arm(pid)

m_ignoreNoSlot ==
  /\ turn = "slot"
  /\ turn' = "usb"
  /\ slot_pre' = IF active >= 0 THEN active ELSE slot_pre
  /\ \/ (slot_pre = active \/ active < 0) /\ UNCHANGED <<profile, usb, attached>>
     \/ slot_pre # active /\ active >= 0 /\ usbSetProductId(PidOf(active)) /\ profile' = active + 1
  /\ UNCHANGED <<is_busy, busy_age, active, tool, host_pid>>
linkKbdApplySlot ==
  /\ turn = "slot"
  /\ turn' = "usb"
  /\ slot_pre' = active
  /\ \/ slot_pre = active /\ UNCHANGED <<profile, usb, attached>>
     \/ slot_pre # active /\ usbSetProductId(PidOf(active)) /\ profile' = active + 1
  /\ UNCHANGED <<is_busy, busy_age, active, tool, host_pid>>

-------------------------------------------------------------------------------
(* A tick passes. A turn is much shorter than a tick, so ticks fall        *)
(* between turns.                                                          *)
Tick ==
  /\ turn = "usb"
  /\ is_busy => busy_age < BusyMax
  /\ busy_age'   = IF is_busy THEN busy_age + 1 ELSE busy_age
  /\ boot_age'   = Older(boot_age, USB_BOOT_HOLD_MS)
  /\ reenum_age' = Older(reenum_age,
                     IF reenum_state = "GAP" THEN USB_REENUM_GAP_MS ELSE USB_REENUM_ARM_MS)
  /\ talk_age'   = Older(talk_age, USB_REENUM_QUIET_MS)
  /\ quiet'      = Older(quiet, USB_REENUM_QUIET_MS)
  /\ UNCHANGED <<turn, is_busy, slots, desc_pid, boot_hold, reenum_state, reenum_pid>>
  /\ UNCHANGED <<raw, promised, pc>>

LoopStep == UsbUpdate \/ LinkKbdUpdate \/ LinkCmdHandle \/ QmkRun \/ QmkWait
            \/ QmkWaitMore \/ QmkWaitEnd \/ linkKbdApplySlot

ReenumNext == LoopStep \/ Receive \/ Enumerate \/ Tick

(* The main loop never stops and time passes; a wait of QMK has an end; a  *)
(* PC enumerates a device that stays attached.                             *)
ReenumFairness ==
  /\ WF_reenumVars(LoopStep)
  /\ SF_reenumVars(QmkWaitEnd)
  /\ SF_reenumVars(Tick)
  /\ SF_reenumVars(Enumerate)

ReenumSpec     == ReenumInit /\ [][ReenumNext]_reenumVars
FairReenumSpec == ReenumSpec /\ ReenumFairness

-------------------------------------------------------------------------------
FlagsOK ==
  /\ is_busy \in BOOLEAN
  /\ boot_hold \in BOOLEAN
  /\ attached \in BOOLEAN
  /\ raw \in BOOLEAN
ValuesOK ==
  /\ turn \in {"usb", "link", "qmk", "slot"}
  /\ busy_age \in 0 .. BusyMax
  /\ active \in Slot
  /\ slot_pre \in Slot \cup {-2}
  /\ profile \in 0 .. KBD_SLOT_MAX
  /\ desc_pid \in Pid
  /\ boot_age \in 0 .. USB_BOOT_HOLD_MS
  /\ reenum_state \in {"IDLE", "ARMED", "GAP"}
  /\ reenum_pid \in Pid \cup {0}
  /\ reenum_age \in Nat
  /\ talk_age \in 0 .. USB_REENUM_QUIET_MS
  /\ host_pid \in Pid \cup {NoHost}
  /\ quiet \in 0 .. USB_REENUM_QUIET_MS
  /\ promised \in {"none", "yes", "no"}
ReenumTypeOK == FlagsOK /\ ValuesOK

(* When nothing is scheduled, the descriptor and the keymap both belong to *)
(* the slot that was applied last, however often the slot changed during   *)
(* the boot hold, the arm time or the gap: VIA finds its definition by     *)
(* this id (the comment on linkKbdApplySlot).                              *)
PidFollowsSlot ==
  reenum_state = "IDLE" /\ slot_pre # -2 =>
    desc_pid = PidOf(slot_pre) /\ profile = slot_pre + 1

(* The descriptor never changes under a PC that has read it: usbUpdate     *)
(* disconnects in the same breath ("until then the old value is right").   *)
HostSeesDescriptor == host_pid # NoHost => attached /\ host_pid = desc_pid

(* The board is off the bus only before the first attach, or with the      *)
(* state machine on its way back: no order of requests leaves it detached  *)
(* with nobody due to connect it.                                          *)
DetachedOnTheWay == ~attached => boot_hold \/ reenum_state # "IDLE"

(* The board never disconnects a tool that has been silent for less than   *)
(* the quiet time, counted from what the TOOL sent: the exception is a     *)
(* command that is still waiting for a busy QMK. In particular a re-       *)
(* enumeration that a command itself causes does not cut that session.     *)
ToolKeepsLink ==
  [][attached /\ ~attached' => quiet >= USB_REENUM_QUIET_MS \/ raw]_reenumVars

(* Once the slot stays s and the tool is silent, the PC ends up seeing the *)
(* product id of s, for good.                                              *)
SettlesOnSlot ==
  \A s \in Slot :
    <>[](active = s /\ quiet = USB_REENUM_QUIET_MS) => <>[](host_pid = PidOf(s))

(* Byte [3] = 1 means "it will re-enumerate some time" (link_cmd.h:60): if *)
(* the tool then falls silent and no keyboard changes the slot, it does.   *)
YesMeansYes ==
  <>[](quiet = USB_REENUM_QUIET_MS) =>
    (promised = "yes" ~> promised # "yes")
===============================================================================
