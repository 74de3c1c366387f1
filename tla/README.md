# qmk-link: TLA+ models, model checking and proofs

qmk-link is the firmware of a USB keyboard converter (RP2350): a keyboard is
plugged into its USB-A socket, QMK processes the keys, and the board appears to
the PC as a keyboard of its own that VIA and Vial can configure. This directory
models the program's own logic: how reports travel, how the layout of the
plugged keyboard is chosen, stored and shown to the PC, how keymaps survive in
flash, how the configuration page talks to the board, and how its console works.

All paths below are relative to `firmware/qmk-link/src/`, but for `web/app.js`.

## 1. The system

    keyboards ==USB==> core1: TinyUSB host  -- report_queue -->  core0: main loop  ==USB==> PC
                       usbh_hid.c callbacks    hid_info          |                     VIA / Vial /
                                                                 |                     the web page
                                                                 flash: slots, selections, EEPROM image

core1 runs only the USB host stack; its callbacks write `hid_info` (no lock) and
`report_queue` (safe between the cores). core0 does the rest in one loop,
`apMain`; each turn is `cliLoopIdle` (ap.c:68): `usbUpdate`, `usbdHidUpdate`,
`linkKbdUpdate`, `qmkUpdate`, and, unless QMK is busy, `linkKbdApplySlot`; then
the LED and the command line. `delay()` runs `cliLoopIdle` while it spins, so a
wait inside QMK or inside a command runs whole turns *inside* a turn; the flag
`is_busy` keeps QMK from being entered twice. And `usbdHidWaitRoom` and a blocked
`uartWrite` run `tud_task`, hence any USB device callback, inside a send.

| Component | State | Operations | What makes it correct |
|---|---|---|---|
| HID report queues, `hw/driver/usb/usbd_hid.c` | two rings, the shadow of the last keyboard report, output switch, raw queue | send keyboard / extra, flush, wait for room, cut the output, mount / unmount / suspend / resume callbacks, raw requests and answers | the final key state reaches the PC; order; no loss except the named policy; nothing skipped that the PC does not know |
| Re-enumeration, `hw/driver/usb/usb.c` | boot hold, IDLE / ARMED / GAP, time stamps, descriptor's product id | request an id, postpone, update, connect / disconnect | the PC ends with the active slot's id; never detached for good; a talking tool is not cut off |
| Slot application, `ap/modules/link/link_kbd.c` | slot applied last, QMK profile, pass-through, `key sim` | apply the slot; poll keyboards; drain reports; experiment | descriptor and keymap belong to the same slot; the right keyboard chooses it; an experiment stays inside |
| USB host HID, `hw/driver/usbh/` | `hid_info`, `report_queue`, core1 runs | start of core1, mount, unmount, report | no report of one device is taken for another's; a full queue loses only new reports; core0 starts whether core1 does or not |
| Merge and matrix, `link.c`, `port/matrix.c` | one matrix per instance, change flag, QMK's matrix | set report, clear instance, scan | QMK sees the union of what is held, at the latest when all is quiet |
| Tool commands, `link_cmd.c` | one stage, one waiting raw report | slot begin / data / commit / erase / select, info | the answers say what happened and what will happen |
| Slot store, `kbd_store.c` | slots and selection log in flash, stage buffer, active slot | find, select, stage, commit, erase, compact | a confirmed selection survives what it can survive; a slot is what was sent; the active slot fits the keyboard |
| QMK glue, `qmk.c` | `is_busy`, raw command queue, protocol, pass-through | update, receive, set profile | never re-entered; no key is left down at the PC |
| Emulated EEPROM, `port/platforms/eeprom.c` | RAM image, dirty sectors, profiles | write, flush, switch, copy and fill profiles, erase | a profile is never dead or mixed with another; all is saved in the end |
| Flash driver, `hw/driver/flash.c` | the chip, pages under way | erase, write, read, `flash test` | behaves as plain memory; stays out of the firmware but for the one case of section 3 |
| Console, `hw/driver/cli.c` | line, cursor, history ring, command list, escape state | edit, recall, run | what is seen is what is run |
| Log and serial port, `log.c`, `uart.c` | two log buffers, CDC FIFO | print, keep, show | the log tells what was said; a message does not stop the board, but for the one case of section 3 |
| LED and start-up, `led_status.c`, `ws2812.c`, `hw.c`, `reset.c` | cached colour, step of the start-up | update, paint, start | dark when the PC sleeps; the start-up ends |
| Configuration page, `web/app.js` | one coroutine per action and one that polls, one `pending` answer | save, erase, apply, read back a slot, poll, recover | success is reported only for what happened |

What is hard here: callbacks in the middle of a send; the other core between any
two reads; a timed state machine that further requests, commands and waits hit
in any state; queues at their limit; flash that loses power between two pages;
two clients of one stage buffer; answers that come late or never; functions that
call each other through the loop. `PROJECT.json` lists these hazards one by one,
each at its line, with the property that would notice it or the reason why none can.

## 2. Modules

| Module | What it is |
|---|---|
| `HidOutbox` | abstract: a bounded outbox per interface. Order is kept; what is lost is the report that an overflow replaces, or everything, when the output is cut or the bus comes up again |
| `HidQueue` | the send path of usbd_hid.c; implements `HidOutbox` |
| `UsbReenum` | usb.c with the parts of link_kbd.c, link_cmd.c and qmk.c that meet it, one action per step of the main loop |
| `LinkKbd` | core1's callbacks against core0's poll, select and drain loops, the merge and the matrix |
| `KeyPaths` | the three ways of a key to the PC (matrix and QMK, pass-through, `key sim`) with everything that switches between them |
| `SlotChoice` | abstract: each keyboard's choice of a slot; what may forget it |
| `KbdStore` | kbd_store.c with the commands and the console's ways in; implements `SlotChoice` |
| `KeymapProfiles` | abstract: one keymap per profile, edited, copied, filled and saved each on its own |
| `Eeprom` | eeprom.c with what drives it; implements `KeymapProfiles` |
| `Nor` | abstract: bytes that are erased and written in place, with what a power cut leaves |
| `FlashDriver` | flash.c down to pages and bits; implements `Nor` |
| `ToolSession` | web/app.js, the raw HID queue, link_cmd.c and the loop between them |
| `LineHistory` | abstract: the list of entered lines and what UP and DOWN show of it |
| `Console` | cli.c with the terminal it is drawn on; implements `LineHistory` |
| `Board` | core0 from power on: start-up, log, serial port, LED, and the messages of the re-enumeration in between |
| `..._proofs` | the theorems about a module; `UsbDevice_proofs` is about `HidQueue` and `UsbReenum`, `Terminal_proofs` about `Console` and `Board` |
| `MC...` | the module as TLC runs it; the `.cfg` files give the constants |

Names follow the source (`shadow`, `out_enable`, `reenum_state`, `src_matrix`,
`usbSetProductId`, `kmRemap`, `flashInRange`, ...). Operators that start with `m_`
are faulty variants of the operator that follows them: a plausible bug each, used
to show that a property notices it. No specification uses them.

How they compose. A module covers one loop or one data structure whole and takes
its neighbours by what they may do to it: `UsbReenum` leaves the choice of a slot
to `KbdStore`; `KbdStore` and `Eeprom` see the flash as erase and pages that may
fail in between, which is what `FlashDriver` shows of flash.c; `KeyPaths` keeps
of a queue only the newest report, which is what `HidQueue` shows of the ring;
`ToolSession` joins page, raw queue, commands and loop and leaves flash and
re-enumeration to their modules; `Board` joins usb.c, uart.c, log.c and
led_status.c, which call each other.

### HidQueue

`queue[i]` is the ring between `rd` and `wr`; `wait` is the report a sender holds
while `usbdHidWaitRoom` makes room for it. While `wait` is not empty only the
wait's own steps and the bus (host polls, mount, reset, suspend, resume) act, as
in the code, where the loop runs `tud_task` and nothing else. A send is one
action up to the wait and a second one after it. `asked` and `muted` are history:
what was last asked for since the enumeration, and whether that was swallowed by
`usbdHidSetOutput(false)`. `tud_hid_n_report` is taken to succeed when
`tud_hid_n_ready` said so.

### UsbReenum

`turn` is the step of the loop that runs next. A time stamp is an age that stops
counting at the limit it is compared with. Ticks fall between turns (a turn is
much shorter than a tick) and within a wait of QMK, for at most `BusyMax` ticks.
The tool waits for each answer before it sends again (kbd_upload.py; for the page
see `ToolSession`), so one command is outstanding at most. Which slot a keyboard
or a command leads to is arbitrary here; deciding it is `KbdStore`'s matter. QMK
is taken to be switched on. A reset by the PC is not in this module: it changes
neither the id nor the state machine.

### LinkKbd

Each loop iteration of core0 is an action, and each callback of core1 is one,
except that `tuh_hid_mount_cb` is two: `is_connect` first, the vid/pid after.
(Its writes after the first are one step, and the copy of one `hid_info` by core0
is atomic; the states in between are intermediate states of the same window.)
A report is the set of keys it holds. History: `clean[i]`, nothing was
lost or diverted for instance i since it last reported or was cleared; `torn`, the last
selection read a half-written `hid_info`; `missed`, a device came and went between
two polls. Product strings, `usbh dump` and the LED are left out. Mouse and
consumer reports go through the queue and then straight to the PC.

### KeyPaths

One keyboard, one key of its own and the one `key sim tap` presses. The matrix has a row
per instance, as in link.c; the experiment writes the last one (`SIM_INSTANCE`), which
`instance` may give to the keyboard as well: then each overwrites what the other wrote,
and `linkClearInstance` releases both. The keyboard keeps its instance until a reset.
`SimStart` has a hold during which a turn of the loop runs, and one that is over at once,
as `delay(0)` is. `missed` is history: the experiment's key was up again before QMK
looked at the matrix. `turn` is the step of the loop; `sim` the stage of the experiment, whose delays run turns; `host`
what each interface reported last. The settings (pass-through, NKRO, protocol, the
output switch) change where the code lets them: from the console between turns, from
VIA in QMK's turn, from the PC in `usbUpdate`. `astray` remembers that the code let
a key go by for a known cause (section 3), until all keys are up again: from then on
`NoStuckKey` is owed anew. The record of reports is taken to have room
(`USBD_HID_TRACE_MAX` is 32; a tap makes two).

### KbdStore

Flash is `slot` and `sel`; RAM the rest. Every operation runs to its end on core0;
those that write flash have an outcome for each phase (`BurnPhases`, `SelPhases`): the
call is refused there, or the power goes. A page is programmed whole or not at all, so
an append to the log is atomic; a torn record would not match the magic and end the
log early. The identity of a keyboard is one value; `hash` is kept because the code
compares it (always 0 from `linkKbdUpdate`, 1 for what `kbd test` writes). History:
what was sent since BEGIN and should be in a slot (`sent`, `as_sent`), whether the
console shared the stage buffer (`shared`), whether the store was changed without
choosing anew (`stale`), and the choice just confirmed (`told`).

### Eeprom

A cell is a page, a sector two cells, in the proportions of the source: the keymap
of profile 0 spans two sectors, the others have their own. Cell 0 stands for the
configuration with the magic words. Time is one bit: `EE_FLUSH_MS` have passed since
the last mark. `usb boot` (usb.c:276), which jumps to the boot loader after 100 ms
without a flush, and the watchdog are `PowerCut`; `bootloader_jump` and
`mcu_reset` (bootloader.c), which flush, are `Reset`. The file of the VIA build differs only in the region.

### FlashDriver

`req` is the call under way, `index` its place, `pc` its phase; each page and each
sector is a step that may be refused or lose power. One bit stands for a byte, 1 for
erased; programming only clears. Callers are the stores and the command `flash`, whose
`flash erase` hands over any two numbers: `Callers` has every address and every length.
flash.c locks the other core out (external). Addresses count modulo `ADDR_MOD` as
uint32_t does. `Wraps` is an erase under way whose address and length sum to
more than that: it passes the range test, and the two properties except its steps.

### ToolSession

A coroutine of app.js is a program counter per action; `pending` is the one variable
they share. The board's side is `at` (where the loop stands: at its top,
draining, answering, in `keyboard_task`, or before `linkKbdApplySlot`), `raw_queue`, `stage`,
`slot`, `active` and `profile`. A wait of `keyboard_task` (`TaskWaits`) starts the loop
anew inside of it (`nested`), by the same actions: `Turn` runs `linkKbdUpdate`, which may
choose another slot there too, and tests and sets `is_busy`; `Apply` tests it before it
applies the slot. Nothing else keeps the nested turn from a command or a profile. Timers: a timeout comes when the request or its answer was lost or the board
is gone - the timers of the page are longer than any answer that is not lost takes -
and it may come late in any order with other steps. Requests are dropped by a full
queue, answers by a busy endpoint. An answer carries only the sub-command: which
request it belongs to is the page's guess, as in the code. A poll whose `pending` was
taken is never resumed (app.js:571, 1032).

### Console

`screen` and `column` are the terminal. A byte is chosen when the code reads it, from
the printable ones, the keys and escape sequences. Lower and upper case are one
letter. The command list is filled by `cliAdd`; a command may print, may wait for a
key (`cliKeepLoop`), and reads its words from the line buffer, which
`cliParseArgs` has cut with NULs.

### Board

`writers` is the stack of calls of `uartWrite`: each waits in `usbUpdate`, which may
say something itself. `cmd` is a command that lasts: one that prints and then delays
(`CommandWaits`), `ws2812 test`, or `usbh dump` (`cliUsbh`), which prints the reports that
wait one after the other and runs a turn of the loop only when none does. What the bus, keyboards and clock did is chosen where it is
read. Text is counted in units; the length of a line and the room kept free keep the
proportions of log.c. `lost` is the full stack; only a reset ends it. The print buffer that all
messages share (log.c:35) is left out: one is written over under way only by the message
of a re-enumeration, after which core0 is lost and the first is never continued.

## 3. Runs

| Run | Instance | Shows |
|---|---|---|
| `hid_queue` | rings of 3, two contents, one report id on IF1, fair | `KbdLastWord`, `ShadowIsLastQueued`, `ImplementsOutbox`, `KbdSettles` |
| `usb_reenum` | 2 slots, ticks of 150 ms, busy for up to one tick, fair | `PidFollowsSlot`, `HostSeesDescriptor`, `DetachedOnTheWay`, `ToolKeepsLink`, `SettlesOnSlot`, `YesMeansYes` |
| `link_kbd` | 2 instances, two keyboards and a mouse, one key, queue of 1, keyboards symmetric | `EndsAsHeld`, `MatrixIsMerge`, `SelectedIsPreferred` |
| `link_settle` | 1 instance, queue of 3, fair | `MatrixSettles` |
| `kbd_select` | 2 keyboards, 2 slots, a log of 3 records, no contents | `ActiveFits`, `ServesOwnLayout`, `ImplementsChoice` |
| `kbd_stage` | 2 keyboards, 1 slot of two pages, one content | `CommittedAsSent` |
| `eeprom` | 2 profiles, the default and one other code, edits of the whole keymap, one refused sector at a time, fair | `DirtyCovers`, `NoDeadProfile`, `KeepsProfilesApart`, `AllIsSaved` |
| `tool` | two actions of the user at once and the poll, uploads of two pieces, raw queue of 5, actions symmetric | `SavedIsWhole`, `NoFalseSuccess`, `TaskUndisturbed`, `NothingDropped` |
| `flash` | pages and sectors of 3 bytes, one sector of firmware and three others, addresses of 0 to 23 with the sum taken modulo 24, every length up to 9 | `TestTells`, `OnlyWrapsHurt`, `ImplementsNor` |
| `console` | lines of 3 characters, a letter and the space, a history of 3, one command, of whose name one character is kept, one byte waiting | `TypeOK`, `ScreenMirrors`, `RunsWhatIsSeen`, `ImplementsHistory` |
| `key_paths` | one key and that of the experiment, two instances of which the keyboard has either, queue of 1 | `NoStuckKey`, `SimStaysInside`, `SimTells` |
| `board` | FIFO of 2, messages of 2 and headers of 1, a log of two lines and a start-up log of three, stack of 3 calls, fair | `LogTells`, `OutputInOrder`, `DarkWhenAsleep`, `LoopTurns` |

Every module also has a `TypeOK`; a run checks it where `INVARIANT TypeOK` is added
to its configuration (`console` has it: there it says that no key runs the line
over its buffer). For `HidQueue`, `UsbReenum`, `LinkKbd`, `KbdStore`, `ToolSession`,
`Console` and `Board` it is proved. `UsbReenum` and `Board` are extended together with
another module by their proofs, so their `Spec`, `Init`, `TypeOK` and the like carry the
module's name: `ReenumSpec`, `BoardSpec`, `BoardTypeOK`.

The bounds. Three slots let a ring be partly sent, hold a middle report and
overflow, in every alignment of sends and flushes; a content more than "up" and
"down" would only rename states, since the code compares contents for equality.
Two slots (and "none") make every kind of change: to a slot, back, and away; the
tick of 150 ms keeps the order GAP 1 < ARM 2 < QUIET 3 < BOOT_HOLD 4, and one tick
more or less is the order of two events, not their distance. Two
instances suffice for the loops over instances to be interrupted at each place
and for one keyboard's going to touch another's keys; with one key, "held by
another keyboard too" happens as well. The queue of one overflows all the time;
the order of several reports of one keyboard is what `link_settle` adds. Three
records for two keyboards and two slots make the log fill up with records that
survive, that are superseded and that belong to nobody, so that compaction keeps, drops and
runs again; the contents of slots do not enter a selection, and `kbd_stage`, which
is about contents, needs no second slot. With two profiles one address is moved
and one is not; an edit of the whole keymap crosses a sector border, and profile 1
is edited, copied to and filled as any further one would be. Two concurrent
actions and the poll are all the page can have at a time on one slot (a third action is
another `o`); two pieces make a first and a last one. Pages of 3 bytes have a first, a middle and a last
byte; lengths of up to 9 cover a head, two whole pages and a tail, and from an address near the
end of the numbers reach round to the firmware at their start. One instance that is the
experiment's and one that is not are all the code tells apart in `KeyPaths`; its queue
of one still passes a press and its release in one turn, since a report may come while
the queue is being drained. Lines of
three have a first, a middle and a last place and a word on either side of a space; a
history of three wraps with lines of each kind in it. (In `console` the history keeps only one
line of the full length, the one with two words: `FewLong` in `MCConsole` bounds the
states; its `ASSUME`s compare the parting of all lines of up to 6 characters.)
A start-up log of three lines is filled by a start without a cause and wraps with one;
three calls on the stack tell one more from no end of them.

### Fairness

The main loop never stops (weak fairness of its steps; strong where other steps
may come between two turns, such as `Update` in `HidQueue`). A wait of QMK ends, so a
turn that is not inside one comes again and again (strong fairness of
`QmkWaitEnd`, `QmkUpdate`): every wait in keyboard_task has a deadline. Time passes
(`Tick`). A PC whose bus is up polls the endpoint, and it enumerates a device that
stays attached; a terminal that keeps the port open reads it (`Takes` in `Board`; one
that does neither is the same as a closed port only after the PC gives up). Nothing is assumed of
keyboards, the tool or unplugging; that core0 keeps up with the queue is a premise
of `MatrixSettles`, and that edits and restarts come to an end one of `AllIsSaved`,
not fairness. That core1 ever runs is not assumed either.

### Where the code and its comments disagree

What follows was met while modelling. The properties that pass name each of
these cases as an exception, so that they say exactly where the promise ends.

* **The shadow after an experiment.** The shadow takes the report before the output
  switch is tested (usbd_hid.c:290, 297), and `usbdHidSetOutput(false)` empties the
  queue but keeps it (378-389): afterwards a real report equal to the shadow is
  skipped though the PC never saw it. usbd_hid.c:36 calls the shadow the last report
  that was *queued*, link_kbd.c:307 says that the experiment restores everything.
  (`muted` in `HidQueue`, `astray` in `KeyPaths`.)
* **The last word on IF1.** A full queue overwrites its last slot whatever its report id
  (usbd_hid.c:432), so the final state of *another* id may be lost; 430 says that the
  final state survives. (`KbdLastWord` is about the keyboard alone.)
* **"No re-enumeration".** `willReenum` (link_cmd.c:27) compares with the descriptor and
  does not know of an armed request: a slot that goes A, B, A within the arm time is
  answered 0 and the board disconnects all the same (link_cmd.h:66). (`YesMeansYes` is
  about the other answer.)
* **A talking tool.** The quiet time counts from the *handling* of a command; one that
  waits for a busy QMK does not push the disconnect back (usb.c:45). (`ToolKeepsLink`
  excepts a command that waits.)
* **A report behind the unplugging.** `linkClearInstance` runs in the poll loop, before the
  drain loop applies what the keyboard left in the queue (link_kbd.c:113, 146): the
  press is put back and nothing releases it (link_kbd.c:92). (`clean`, `astray`.)
* **A half-written `hid_info`.** `tuh_hid_mount_cb` sets `is_connect` before the vid/pid
  (usbh_hid.c:194, 199); core0 that polls in between chooses a slot for 0/0 and does not
  look again (link_kbd.c:119). (`torn`.)
* **Plugged again between two polls.** Never seen as gone: its keys are not cleared and no
  slot is chosen (link_kbd.c:110). (`missed`, `astray`.)
* **Pass-through.** What it sent is not released when it ends or when the keyboard is
  unplugged (link_kbd.c:178). (`astray`.)
* **Change of protocol or NKRO.** `clear_keyboard` runs after the protocol (qmk.c:226) or the
  setting (via_port.c:229-237) changed, so its release goes to the *new* interface;
  qmk.c:216-218 says it is there to release the keys on the old one. (`astray`.)
* **The magic before the profiles.** The magic word lies in the lowest sector, which is
  written first (eeprom.c:217, `__builtin_ctz`): a power cut before the rest leaves it over
  blank profiles, whose keys are all dead. (`hurt`.)
* **Half a slot.** A slot's header is in its first page: a power cut during a commit
  leaves a valid header without the rest (kbd_store.c:395). (`as_sent` is then unknown.)
* **The message of the re-enumeration.** usb.c:146 writes it while the state is still ARMED;
  with a full FIFO `uartWrite` calls `usbUpdate`, which writes it again, until the stack
  is full. uart.c:164-166 says a log must not stop the board. (`lost`.)
* **The range test.** flash.c:159 calls its comparison a test of overflow too, and the
  comment above `FLASH_USER` (flash.c:66-75) says it keeps the firmware from being erased;
  but the sum wraps. The console hands over any two numbers (flash.c:393-401):
  `flash erase 0xFFFFF000 0x2000` is aligned, passes, and the erase runs over the
  firmware. (`Wraps`: `OnlyWrapsHurt` says that nothing but such an erase changes the firmware,
  `ImplementsNor` excepts it.) Writes come from the
  stores and `flash test`, whose sums do not wrap. flash.c:78 gives
  the start of the user region as 0x1D0000; `HW_FLASH_USER_BEGIN` is 0x1A0000.
* **`flash test`** says OK without having written anything if the pattern was there before;
  its verify reads 16 bytes. (`TestTells` is about the sector when no failure was printed.)
* **`cliKeepLoop` and `usbh dump`.** ap.c:61 says that `cliKeepLoop` calls `cliLoopIdle`; it does
  not (cli.c:712). The commands that use it call `delay`, but `usbh dump` does so only when no
  report waits (usbh.c:175-190): as long as one is there each time it looks, neither
  `linkKbdUpdate` nor `qmkUpdate` runs, though usbh.c:179 says that all stays alive and
  ap.c:63-66 that keys go on in `usbh dump`. (`LoopTurns` excepts this case, `dumps`.) It also takes its
  reports from the queue that `linkKbdUpdate` drains, so a release it takes is lost to the matrix
  until the next report.
* **The instance of `key sim`.** link_kbd.c:316 takes the last instance, "so as not to overlap
  with a real keyboard"; but TinyUSB has as many (`CFG_TUH_HID` is 4 too), and a keyboard that has
  the last one overwrites the key with its next report and releases it when it goes. And
  `key sim tap 4 0` holds the key for no turn at all (link_kbd.c:377). In both cases QMK
  may never see the press, and no tap is shown. (`missed` in `SimTells`. What the keyboard held when
  the experiment began on its own instance is gone until it reports again; that only
  releases it early.)
* **The LED's flash for a key.** `isKeyDown` keeps one `pre_data` for all keyboards
  (link_kbd.c:246): two that report at every poll look newly pressed in turn; 241-243 says
  that is what it prevents.
* **`kbd info`** says of a slot that is not the first of its keyboard that it is hidden
  (kbd_store.c:419), which a pinned selection contradicts; **`qmk eeprom`** prints "match"
  after comparing the first 32 bytes (qmk.c:289).

## 4. Proofs

Proved by TLAPS for all values of the constants under the named assumptions of
the modules:

* `UsbDevice_proofs`, of `HidQueue`: `TypeCorrect`, `KbdLastWordHolds`, `ShadowHolds`,
  `ImplementsOutboxHolds`. The inductive
  invariant is `TypeOK`, `Kept` (the last keyboard report on the line to the PC, or
  else what the PC holds, is what was asked for), `ShadowOK` and `Detached` (off the
  bus the endpoint buffer is empty and the PC holds nothing). `KbdLastWord` is not
  inductive: a mount needs to know that no report of the old enumeration is left in
  the endpoint. The proof follows the last element of the line through enqueue,
  flush and overwrite (one lemma each), and then translates "last element" into the
  `CHOOSE` of `Told`. For the refinement a line of `HidOutbox` is what is in the
  endpoint, then the ring, then the report a sender holds: a send, a move into the
  endpoint and a flush leave the line as it is or are the outbox's own steps, and only
  the overwriting of the newest report and what `Detached` covers lose anything.
* `UsbDevice_proofs`, of `UsbReenum`: `ReenumTypeCorrect`, `PidFollowsSlotHolds`,
  `HostSeesDescriptorHolds`, `DetachedOnTheWayHolds`, `ToolKeepsLinkHolds`. The inductive invariant adds what is
  scheduled when the machine is not idle (`Scheduled`: an armed request is for the
  slot applied last; `GapHasPid`: in the gap the descriptor already is that request's)
  and, for the tool, `TalkOK`: the time since the last handled command never exceeds
  the time since the tool last sent one, unless a command still waits.

* `LinkKbd_proofs`: `TypeCorrect`, `EndsAsHeldHolds`, `MatrixIsMergeHolds`,
  `SelectedIsPreferredHolds`. `EndsAsHeld` is not inductive: the callback of a report
  files it by what `hid_info` says of the instance, so the invariant adds that
  `hid_info` is what is plugged in, but for the instance whose mount is under way
  (`InfoOK`). `SelectedIsPreferred` speaks of the end of two loops that callbacks of
  core1 interrupt; the invariant says what the selection loop has found among the
  instances it has read (`Scanned`), and that its result stays right until the poll
  sees a difference (`Settled`).
* `KeyPaths_proofs`: `SimStaysInsideHolds`, `NoStuckKeyHolds`, `SimTellsHolds`,
  for every number of instances and whichever of them the keyboard has.
  The key of the experiment is still in QMK's matrix and in its report after `simRun` has let go of it; the invariant says that the
  output is on only when no experiment runs (`Gate`) and that none ends before QMK has
  seen the release (`Inside`). `NoStuckKey` speaks of a board at rest, where QMK's
  matrix, its report, the endpoint and the PC must agree; the invariant says for each of
  these lines what is still to come that will make it agree, unless `astray` names the
  cause why nothing will. `SimTells` needs where the experiment is and which of its two
  edges QMK has yet to see, or that it never will (`missed`).
* `KbdStore_proofs`: `TypeCorrect`, `ActiveFitsHolds`, `ServesOwnLayoutHolds`,
  `CommittedAsSentHolds`, `ImplementsChoiceHolds`.
  The active slot is the chosen one unless `stale` (`Chose`), and is the plugged
  keyboard's or a test's even then (`Own`); the stage buffer holds what was sent unless
  the console wrote into it (`Staged`). None of this is about what the table holds. The
  refinement is: `AppendedIs` reads a record back, `KeepIs` says what a compaction
  keeps (the survivors are numbered by how many slots come before them, so that
  `Counted`, about the ranks of a finite set, gives each of them its place and bounds
  their number by the slots), and `KeptChoice` that a keyboard with a stored slot has the
  same choice afterwards. That the table has room again (`TypeCorrect`) is the other
  half of it, and the reason for the assumption that it holds more records than there are
  slots.
* `Eeprom_proofs`: `DirtyCoversHolds`, `NoDeadProfileHolds`, `KeepsProfilesApartHolds`.
  `DirtyCovers` is inductive once it is known that the sectors `kmDirty` marks are those of
  all cells an edit wrote. `NoDeadProfile` is not: `Alive` adds that profile 0 is live from
  the start, that no other profile is in use before all of them are filled, and that a fill
  which was done is neither done again nor lost, as long as none was cut short or
  refused and the console erased nothing (`hurt`). The refinement follows from
  where a profile's cells lie (`BaseFacts`): none is another's.
* `ToolSession_proofs`: `TypeCorrect`, `SavedIsWholeHolds`, `NoFalseSuccessHolds`,
  `NothingDroppedHolds`, `TaskUndisturbedHolds`, `SafeWithRoom`. The page and the board
  share nothing but the requests and answers on the way, and an answer says which
  sub-command it is for, not whose it is. So the invariant says what each of these can
  still do: how many there are (`Count`: each coroutine has at most one); that the pieces
  of an upload follow one another in the queue, or the stage that already holds the one
  before (`Chain`, `Reached`); that a good answer to a COMMIT means that its sender's layout
  is stored (`Told`); and that somebody else's COMMIT, which may be taken for one's own, is
  so far ahead that its answer is read before one's own is awaited (`Behind`). Three of the
  theorems are of behaviours in which few actions are under way, `[]Few`: no more than the
  raw queue has places for beside the poll, the attaching page and VIA, which is five of them
  with its 8 places. `SafeWithRoom` states them without that premise for as many actions in
  all. Both bounds are needed: with one place `NothingDropped` is violated, and
  with four uploads of one piece at once and 7 places `NoFalseSuccess` is, since each
  takes the late answer of the one before. The second is why `PiecesAssumption` is made.
  `TaskUndisturbed` needs none of this: it follows from where the loop can be while
  `is_busy` is set (`Busy`: from `Turn` to `TaskEnd`, the nested turn included) and that only
  `Turn` and `Apply` run in a nested one (`Loops`).
* `FlashDriver_proofs`: `ImplementsNorHolds`, `OnlyWrapsHurtHolds`, `TestTellsHolds`,
  for every size of page, sector and flash, every address and length and all data. The
  invariant is that the call lies within the user's part unless its sum wraps (`CallOK`) and that what has
  been written of it would not change if it were written again (`Progress`), which is
  what makes each page a step of `Nor`, and the last one the end of a call that is done
  everywhere. The lemma `PageFits` is the heart of it: an image that is made up of what
  the page holds and of the next bytes of the request fits wherever the page lies. The
  other two theorems follow from `Nor`'s steps; `TestTells` also from where the test is
  (`TestErased`, `TestWritten`).

* `Terminal_proofs`, of `Console`: `TypeCorrect`, `ScreenMirrorsHolds`,
  `ImplementsHistoryHolds`, `RunsWhatIsSeenHolds`. The invariant is `ConsoleInv`: the line
  fits its buffer, the screen shows it, and the four counters of the ring hang together
  (`HistOK`: until the ring is full the next place is the count; a new line lies in the last
  place). `ScreenMirrors` needs one lemma per change that is sent: what `Delete`, `Insert`
  or `Put` make of a screen that shows a line is what `RemoveAt` and `InsertAt` make of the
  line. For the refinement, `Slot` says where the k-th line is; `SlotOnto` and `SlotOnce`
  that every place in use is that of just one k, which gives the `CHOOSE` of `Pos` its
  value; `OlderSlot`, `NewerSlot` and `NewestSlot` that one step in the ring is one step in
  the history, also across the end; and `RingAdd` that ENTER moves every line one place and
  drops the oldest only when the ring is full. `RunsWhatIsSeenHolds` has a premise,
  `ParsesWords`: that `cliParseArgs` parts every line into its words, see below. The rest is
  proved: nothing but ENTER starts a command, and what it starts is the first command of
  the name that the screen shows, with the arguments the screen shows.
* `Terminal_proofs`, of `Board`: `LogTellsHolds`, `OutputInOrderHolds`,
  `DarkWhenAsleepHolds`, `BoardTypeCorrect`. The invariant has four parts that are
  proved one by one. `PlaceOK` says where the program is. `LedOK` says that an LED the
  console has not painted shows what was sent last, or is dark since the reset; "only a
  change is sent" is then no loss. `LogsOK` says of each log that some number m of whole
  lines stands at its front, ending with the newest, of l that `len` counts, and that m is
  l until it begins anew: `LogTells` is about quotients and remainders of the
  index, which are not inductive, and m and l are what they come from. `OutOK` is about the stack of
  calls. `OutputInOrder` only speaks of the FIFO, and the next piece could continue the wrong
  message; so `ChainOK` adds where the newest unit stands against the outermost call
  (`Stands`), and `CallsOK` that the calls above it, which come about only while the FIFO is full,
  have not written anything: `usbUpdate` announces a re-enumeration before it gets to
  `tud_task`, so nothing empties the FIFO while such a call is under way, and no message
  is ever in the middle of another. (What becomes of the board then is `lost`.)

The assumptions are on constants alone. Most only say what kind of value a constant
is; these say more: `FlashAssumption` (sectors are whole pages, the flash whole sectors, two
bytes at least per sector, since `flash test` looks at both ends of what it reads),
`StoreAssumption` (the table holds more records than there are slots), `PidAssumption`
(the board's own product id is none of a slot's), `BoardAssumption` (a log has room for
a message with what log.c keeps free behind it, which is more than a header),
`ConsoleAssumption` (names of commands have no blank), `EditsAssumption` (QMK writes within
its own keymap, which is what `dynamic_keymap` gives it) and `PiecesAssumption` (an
upload has at least as many pieces as the raw queue has places, but three: 28 bytes each
of a layout of hundreds, and 8 places). `NoneAssumption` and the last conjunct of
`KeyAssumption` say that "nothing" is not a value that can be sent.

Only model-checked, because it is out of the provers' reach: liveness (`KbdSettles`,
`SettlesOnSlot`, `YesMeansYes`, `MatrixSettles`, `AllIsSaved`, `LoopTurns`). What
`cliParseArgs` does to a line is a fold over it, so what it computes for every line would
take induction over data; it is compared with another definition on lines of bounded
length (the `ASSUME`s of `MCConsole`, lines of up to six bytes), and is the premise
of the theorem about `RunsWhatIsSeen`. Every other property of the runs is proved.

## 5. Not modelled, and the plan

Not modelled:

* QMK and TinyUSB: external, taken by how the code uses them.
* Descriptors other than the product id, the keyboard's layouts and keymaps: constant tables.
* `qbuffer.c`, `swtimer.c`, `led.c`, `cli_gui.c`: linked, and never called by this
  board's loop; `suspend_wakeup_init` is never called either.
* The build and upload scripts; of the page its drawing, compression and presets.
* Product strings, slots' names and descriptions, `isKeyDown` (it flashes the LED),
  the counters the console shows.
* The duration of the gap when requests arrive in it (usb.c:199): `DetachedOnTheWay`
  and `SettlesOnSlot` say that it ends.
* The rollover report (link.c:90), which drops a keyboard's keys until its next report:
  in the models it is a report without keys.
* The wrap of the uint32 counters `kbd_wr` and `kbd_rd`, which takes 2^32 reports.
* Commands with more than 32 words (cli.c:567).
* Uploads so short that several fit into the raw queue at once (`PiecesAssumption`): an
  answer carries only the sub-command, and one upload could take the answer to
  another's COMMIT for its own.

Planned: a ring with counters that wrap, which implements the sequences of `HidQueue`.
