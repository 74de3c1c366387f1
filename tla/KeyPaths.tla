------------------------------- MODULE KeyPaths -------------------------------
(***************************************************************************)
(* The ways of a key to the PC: linkKbdUpdate and `key sim` (link_kbd.c),  *)
(* link.c, pass-through, the change of protocol and the turn of QMK        *)
(* (qmk.c), the settings of VIA (via_port.c), driver_usb.c, and what       *)
(* usbd_hid.c does to a report before it queues it.                        *)
(*                                                                         *)
(* Usually the keyboard's reports fill the matrix and QMK makes reports of *)
(* its own out of it, for IF0, or for IF1 when NKRO is on and the host has *)
(* not chosen the boot protocol.  In pass-through the keyboard's reports   *)
(* go to IF0 as they are.  `key sim` presses a key with the output cut, on *)
(* the last instance, which may be the keyboard's.  What the PC takes for  *)
(* pressed is what either interface reported last.                         *)
(*                                                                         *)
(* One keyboard (LinkKbd has several); every key means itself to QMK.  Of  *)
(* what is queued for an interface the newest report alone matters         *)
(* (HidQueue).                                                             *)
(*                                                                         *)
(* Operators that start with m_ are faulty variants of the operator that   *)
(* follows; the specification never uses them.                             *)
(***************************************************************************)
EXTENDS Naturals, Sequences

CONSTANTS Key,                  \* keys of the keyboard
          SimKey,               \* what `key sim tap` presses
          LINK_SOURCE_MAX,      \* instances
          USBH_HID_QUEUE_MAX,
          None

ASSUME KeyAssumption ==
    /\ SimKey \notin Key
    /\ LINK_SOURCE_MAX \in Nat \ {0} /\ USBH_HID_QUEUE_MAX \in Nat \ {0}
    /\ \A keys \in SUBSET (Key \cup {SimKey}) : keys # None

Itf  == {"IF0", "IF1"}
Keys == Key \cup {SimKey}
Instance     == 0 .. LINK_SOURCE_MAX - 1
SIM_INSTANCE == LINK_SOURCE_MAX - 1

VARIABLES
    held,           \* the keys that are down, None when no keyboard is plugged
    instance,       \* that TinyUSB has given to the keyboard
    queue,          \* report_queue (usbh_hid.c)
    connect_pre,    \* link_kbd.c: the keyboard is known to be there
    src,            \* link.c: src_matrix
    proto, proto_pre,   \* the boot protocol is not chosen; what qmkUpdate knows
    nkro,           \* keymap_config.nkro
    is_passthrough, \* in force, which is also cfg
    qmk,            \* the matrix as QMK saw it last
    down,           \* keys in the report QMK builds
    last,           \* per interface, the report QMK made last
    shadow,         \* kbd_shadow
    out_enable,
    wire, host,     \* per interface: queued (None: nothing), and taken by the PC
    turn,           \* where the main loop is
    sim,            \* where simRun is
    trace,          \* what its record shows of SimKey: nothing, its press, a tap
    missed,         \* history: SimKey was up again before QMK looked
    astray          \* history: the PC may hold a key that is up, for a known cause

input    == <<held, instance, queue, connect_pre>>
settings == <<proto, proto_pre, nkro, is_passthrough>>
engine   == <<qmk, down, last>>
output   == <<shadow, wire, trace>>
vars     == <<input, src, settings, engine, output, out_enable, host, turn, sim, missed, astray>>

\* linkMerge.
Merged == UNION {src[i] : i \in Instance}

\* Nothing is down and nobody thinks otherwise: what happened before is over.
Calm ==
    /\ held \in {None, {}} /\ queue = <<>> /\ Merged = {} /\ qmk = {} /\ down = {}
    /\ \A i \in Itf : wire[i] = None /\ host[i] = {} /\ last[i] = {}
Blame(cond) == astray' = IF Calm THEN cond ELSE astray \/ cond

Init ==
    /\ held \in {None, {}} /\ instance \in Instance /\ queue = <<>> /\ connect_pre = FALSE
    /\ src = [i \in Instance |-> {}]
    /\ proto = TRUE /\ proto_pre = TRUE /\ nkro \in BOOLEAN
    /\ is_passthrough \in BOOLEAN
    /\ qmk = {} /\ down = {} /\ last = [i \in Itf |-> {}]
    /\ shadow = {} /\ out_enable = TRUE
    /\ wire = [i \in Itf |-> None] /\ host = [i \in Itf |-> {}]
    /\ turn = "poll" /\ sim = "none" /\ trace = "none" /\ missed = FALSE /\ astray = FALSE

Go(from, to) == turn = from /\ turn' = to

-----------------------------------------------------------------------------
(* The keyboard and the host stack (usbh_hid.c): a full queue loses the    *)
(* new report.                                                             *)

Queued(keys)   == IF Len(queue) < USBH_HID_QUEUE_MAX THEN Append(queue, keys) ELSE queue

Report(keys) ==
    /\ held # None /\ keys # held /\ held' = keys
    /\ queue' = Queued(keys)
    /\ Blame(queue' = queue)
    /\ UNCHANGED <<instance, connect_pre, src, settings, engine, output, out_enable, host, turn, sim,
                   missed>>

\* Plugged again before the poll has seen it gone: linkClearInstance is not called.
Plug ==
    /\ held = None /\ held' = {}
    /\ Blame(connect_pre)
    /\ UNCHANGED <<instance, queue, connect_pre, src, settings, engine, output, out_enable, host,
                   turn, sim, missed>>

\* A report that still waits will be taken for one of the next keyboard.  What
\* was passed through has nobody to release it.
Unplug ==
    /\ held # None /\ held' = None
    /\ Blame(queue # <<>> \/ is_passthrough \/ ~connect_pre)
    /\ UNCHANGED <<instance, queue, connect_pre, src, settings, engine, output, out_enable, host,
                   turn, sim, missed>>

-----------------------------------------------------------------------------
(* usbd_hid.c and the interfaces.                                          *)

\* The record is kept while simRun waits, and has room (USBD_HID_TRACE_MAX).
trace_on == sim \in {"hold", "settle"}
usbdHidTraceAdd(r) ==
    IF ~trace_on THEN trace
    ELSE IF SimKey \in r THEN "press"
    ELSE IF trace = "press" THEN "tap" ELSE trace

\* usbdHidTraceSet: begun anew, the record stays to be shown when it ends.
m_usbdHidTraceSet(enable) == trace' = "none"
usbdHidTraceSet(enable)   == trace' = IF enable THEN "none" ELSE trace

\* usbdHidSendKeyboard (IF0) and usbdHidSendExtra (IF1): on IF0 not what went last.
Send(i, r) ==
    IF i = "IF0" /\ r = shadow THEN UNCHANGED output
    ELSE /\ shadow' = IF i = "IF0" THEN r ELSE shadow
         /\ trace' = usbdHidTraceAdd(r)
         /\ wire' = IF out_enable THEN [wire EXCEPT ![i] = r] ELSE wire

HostTake(i) ==
    /\ wire[i] # None
    /\ host' = [host EXCEPT ![i] = wire[i]] /\ wire' = [wire EXCEPT ![i] = None]
    /\ Blame(FALSE)
    /\ UNCHANGED <<input, src, settings, engine, shadow, trace, out_enable, turn, sim,
                   missed>>

\* usb_send_keyboard and usb_send_nkro: QMK's report d.  One that is what that
\* interface had last may go or not.
Dest(p, n) == IF p /\ n THEN "IF1" ELSE "IF0"
Emit(i, d) ==
    /\ down' = d /\ last' = [last EXCEPT ![i] = d]
    /\ \/ Send(i, d)
       \/ d = last[i] /\ UNCHANGED output

\* clear_keyboard: QMK lets go of everything, the matrix stays.
clear_keyboard(i) == Emit(i, {}) /\ UNCHANGED qmk

-----------------------------------------------------------------------------
(* linkKbdUpdate.                                                          *)

linkSetKeyboardReport(i, keys) == src' = [src EXCEPT ![i] = keys]
m_linkClearInstance(i) == src
linkClearInstance(i)   == [src EXCEPT ![i] = {}]

\* The key of `key sim` may be overwritten.
NoteMissed == missed' = (missed \/ (SimKey \in Merged \ qmk /\ SimKey \notin Merged'))

Poll ==
    /\ Go("poll", "drain")
    /\ connect_pre' = (held # None)
    /\ src' = IF connect_pre /\ held = None THEN linkClearInstance(instance) ELSE src
    /\ NoteMissed
    /\ Blame(connect_pre /\ held = None /\ (queue # <<>> \/ is_passthrough))
    /\ UNCHANGED <<held, instance, queue, settings, engine, output, out_enable, host, sim>>

Drain ==
    /\ turn = "drain" /\ queue # <<>> /\ queue' = Tail(queue)
    /\ IF is_passthrough
       THEN Send("IF0", Head(queue)) /\ UNCHANGED src
       ELSE linkSetKeyboardReport(instance, Head(queue)) /\ UNCHANGED output
    /\ NoteMissed
    /\ Blame(FALSE)
    /\ UNCHANGED <<held, instance, connect_pre, settings, engine, out_enable, host, turn, sim>>

DrainEnd ==
    /\ queue = <<>> /\ Go("drain", "via")
    /\ Blame(FALSE)
    /\ UNCHANGED <<input, src, settings, engine, output, out_enable, host, sim, missed>>

-----------------------------------------------------------------------------
(* qmkUpdate: the requests of VIA, the change of protocol, keyboard_task.  *)
(* Keys that mean themselves make QMK wait for nothing: it is never busy   *)
(* (LinkKbd has that).                                                     *)

\* qmkSetPassthrough: what went to the PC directly is not released when it ends,
\* and a key that keyboard_task has yet to see is pressed after it has begun.
qmkSetPassthrough(enable) ==
    /\ is_passthrough' = enable
    /\ IF enable # is_passthrough
       THEN /\ clear_keyboard(Dest(proto, nkro))
            /\ Blame(IF enable THEN Merged # qmk ELSE shadow' # last'["IF0"])
       ELSE UNCHANGED <<engine, output>> /\ Blame(FALSE)

\* viaSetValue of LK_PASSTHROUGH; the other settings apply what is in force.
SetPassthrough(enable) ==
    /\ turn = "via"
    /\ qmkSetPassthrough(enable)
    /\ UNCHANGED <<input, src, proto, proto_pre, nkro, out_enable, host, turn, sim, missed>>

\* viaSetValue of LK_NKRO: QMK is cleared when the setting has changed already.
SetNkro(enable) ==
    /\ turn = "via"
    /\ nkro' = enable
    /\ clear_keyboard(Dest(proto, enable))
    /\ Blame(\E i \in Itf : last'[i] # {})
    /\ UNCHANGED <<input, src, proto, proto_pre, is_passthrough, out_enable, host, turn, sim, missed>>

\* A request of VIA's custom menu that changes something.
via_custom_value_command_kb == \E b \in BOOLEAN : SetPassthrough(b) \/ SetNkro(b)

\* tud_hid_set_protocol_cb, from usbUpdate.
SetProtocol ==
    /\ turn = "poll"
    /\ proto' = ~proto
    /\ Blame(FALSE)
    /\ UNCHANGED <<input, src, proto_pre, nkro, is_passthrough, engine, output, out_enable,
                   host, turn, sim, missed>>

ProtocolCheck ==
    /\ Go("via", "task") /\ proto_pre' = proto
    /\ IF proto # proto_pre
       THEN /\ clear_keyboard(Dest(proto, nkro))
            /\ Blame(\E i \in Itf : last'[i] # {})
       ELSE UNCHANGED <<engine, output>> /\ Blame(FALSE)
    /\ UNCHANGED <<input, src, proto, nkro, is_passthrough, out_enable, host, sim, missed>>

\* keyboard_task: keys that came and went in the matrix.
KeyboardTask ==
    /\ Go("task", "poll")
    /\ qmk' = Merged
    /\ IF Merged # qmk
       THEN Emit(Dest(proto, nkro), (down \cup (Merged \ qmk)) \ (qmk \ Merged))
       ELSE UNCHANGED <<down, last, output>>
    /\ Blame(FALSE)
    /\ UNCHANGED <<input, src, settings, out_enable, host, sim, missed>>

-----------------------------------------------------------------------------
(* simRun.  Its waits run the main loop, and keyboard_task has seen the    *)
(* matrix when they end; but a hold of 0 ms, or of 1 ms at the end of a    *)
(* millisecond, is over before the loop has made a turn.                   *)

simInject(keys) == linkSetKeyboardReport(SIM_INSTANCE, keys)
SimStep(from, to) ==
    /\ turn = "poll" /\ sim = from /\ sim' = to
    /\ UNCHANGED <<input, settings, engine, host, turn>>
Seen == qmk = Merged /\ proto = proto_pre

\* usbdHidSetOutput(false) empties the queues.
SimStart(held_long) ==
    /\ SimStep("none", IF held_long THEN "hold" ELSE "settle")
    /\ out_enable' = FALSE /\ wire' = [i \in Itf |-> None]
    /\ usbdHidTraceSet(TRUE)
    /\ simInject(IF held_long THEN {SimKey} ELSE {})
    /\ missed' = ~held_long
    /\ Blame(\E i \in Itf : wire[i] # None)
    /\ UNCHANGED shadow

m_SimRelease ==
    /\ Seen /\ SimStep("hold", "settle")
    /\ out_enable' = TRUE
    /\ Blame(FALSE) /\ UNCHANGED <<output, src, missed>>
SimRelease ==
    /\ Seen /\ SimStep("hold", "settle")
    /\ simInject({})
    /\ Blame(FALSE) /\ UNCHANGED <<output, out_enable, missed>>

\* The record ends, and simDump shows it.
SimDump ==
    /\ Seen /\ SimStep("settle", "shown")
    /\ usbdHidTraceSet(FALSE)
    /\ simInject({})
    /\ Blame(FALSE) /\ UNCHANGED <<shadow, wire, out_enable, missed>>

\* What changed meanwhile was swallowed, and the shadow has it.
SimEnd ==
    /\ Seen /\ SimStep("shown", "none")
    /\ out_enable' = TRUE
    /\ trace' = "none" /\ missed' = FALSE     \* read no more
    /\ Blame(shadow # host["IF0"] \/ last["IF1"] # host["IF1"])
    /\ UNCHANGED <<src, shadow, wire>>

\* `key sim'.
cliCmd == (\E b \in BOOLEAN : SimStart(b)) \/ SimRelease \/ SimDump \/ SimEnd

\* Reset or power: via_init_kb applies what VIA saved at some time, or the default
\* when the EEPROM was empty (eeconfig_init_user).  The keyboard is found again, the
\* PC enumerates the board anew.
Reboot ==
    /\ queue' = <<>> /\ connect_pre' = FALSE /\ UNCHANGED held
    /\ instance' \in Instance
    /\ src' = [i \in Instance |-> {}]
    /\ proto' = TRUE /\ proto_pre' = TRUE /\ UNCHANGED nkro
    /\ is_passthrough' \in BOOLEAN
    /\ qmk' = {} /\ down' = {} /\ last' = [i \in Itf |-> {}]
    /\ shadow' = {} /\ out_enable' = TRUE
    /\ wire' = [i \in Itf |-> None] /\ host' = [i \in Itf |-> {}]
    /\ turn' = "poll" /\ sim' = "none" /\ trace' = "none" /\ missed' = FALSE
    /\ astray' = FALSE

Next ==
    \/ \E keys \in SUBSET Key : Report(keys)
    \/ Plug \/ Unplug \/ Poll \/ Drain \/ DrainEnd
    \/ \E i \in Itf : HostTake(i)
    \/ via_custom_value_command_kb
    \/ SetProtocol \/ ProtocolCheck \/ KeyboardTask
    \/ cliCmd
    \/ Reboot

Spec == Init /\ [][Next]_vars

-----------------------------------------------------------------------------
TypeOK ==
    /\ held \in {None} \cup SUBSET Key /\ instance \in Instance
    /\ queue \in Seq(SUBSET Key) /\ Len(queue) <= USBH_HID_QUEUE_MAX
    /\ src \in [Instance -> SUBSET Keys]
    /\ {connect_pre, proto, proto_pre, nkro, is_passthrough, out_enable} \subseteq BOOLEAN
    /\ qmk \subseteq Keys /\ down \subseteq Keys /\ shadow \subseteq Keys
    /\ last \in [Itf -> SUBSET Keys] /\ host \in [Itf -> SUBSET Keys]
    /\ wire \in [Itf -> {None} \cup SUBSET Keys]
    /\ turn \in {"poll", "drain", "via", "task"} /\ sim \in {"none", "hold", "settle", "shown"}
    /\ trace \in {"none", "press", "tap"} /\ missed \in BOOLEAN /\ astray \in BOOLEAN

\* All that the keyboard reported has reached the PC.
Rest ==
    /\ turn = "poll" /\ queue = <<>> /\ connect_pre = (held # None)
    /\ Seen /\ sim = "none"
    /\ \A i \in Itf : wire[i] = None

Stuck == {k \in host["IF0"] \cup host["IF1"] : held = None \/ k \notin held}

\* A key that is up does not stay down on the PC, whichever way its press went
\* and whichever way its release goes: pass-through may begin and QMK be cleared
\* while keys are down, keys may be pressed while `key sim` runs.  Except for what
\* astray remembers, until everything is up again.
NoStuckKey == Rest /\ ~astray => Stuck = {}

\* What link_kbd.c:250 says of `key sim`: the PC never gets to see its key,
\* however the keyboard's own keys and the settings change meanwhile.
SimStaysInside == \A i \in Itf : SimKey \notin host[i]

\* And the user gets to see it: what `key sim' shows has the press and, after it,
\* the release, though the keyboard's own reports go through the same shadow and
\* the same record, pass-through may begin or end, and QMK may be cleared.  Not when
\* the key is up again before keyboard_task has looked: after a hold that is over
\* at once, or when the keyboard has the last instance, which link_kbd.c:316 takes
\* for free, and reports or is unplugged in that turn of the loop.
SimTells == [][SimDump /\ ~astray /\ ~missed => trace' = "tap"]_vars
=============================================================================
