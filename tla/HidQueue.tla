------------------------------- MODULE HidQueue -------------------------------
(***************************************************************************)
(* The path of a HID report from core0 to the PC: hw/driver/usb/usbd_hid.c *)
(*                                                                         *)
(* QMK (or the pass-through of link_kbd.c) asks for a report with          *)
(* usbdHidSendKeyboard / usbdHidSendExtra. The report waits in a ring of   *)
(* KBD_QUEUE_MAX / EXTRA_QUEUE_MAX slots until the endpoint is free;       *)
(* usbdHidUpdate, called by every turn of the main loop, hands over one    *)
(* report per interface. When a ring is full the sender itself runs        *)
(* tud_task for up to 10 ms, and every TinyUSB callback may run inside     *)
(* that wait: those are the interleavings of this module.                  *)
(*                                                                         *)
(* A ring with its two counters is the sequence of the waiting reports:    *)
(* the slots from rd to wr. (The counters are uint32 and the ring sizes    *)
(* divide 2^32, so the difference and the slot index survive a wrap.)      *)
(* Diagnostic counters and the trace buffer change nothing that is sent    *)
(* and are left out.                                                       *)
(***************************************************************************)
EXTENDS Naturals, Sequences

CONSTANTS
  Capacity,   \* slots of a queue: USBD_HID_KBD_QUEUE_MAX = USBD_HID_EXTRA_QUEUE_MAX
  KbdId,      \* the one report id of IF0 (0 in the code: no id byte)
  ExtraId,    \* report ids that share IF1: mouse, system, consumer, NKRO
  Data,       \* report contents
  Blank,      \* the content "nothing pressed"
  NoShadow    \* kbd_shadow_valid = false

ASSUME CapacityAssumption == Capacity \in Nat \ {0}
ASSUME IdAssumption == KbdId \notin ExtraId
ASSUME DataAssumption == Blank \in Data /\ NoShadow \notin Data

VARIABLES
  queue,       \* queue[i]: kbd_queue / extra_queue between rd and wr
  shadow,      \* kbd_shadow, or NoShadow when kbd_shadow_valid is false
  out_enable,  \* usbdHidSetOutput
  wait,        \* the report usbdHidWaitRoom is making room for: <<>> or <<item>>
  ep,          \* ep[i]: the report handed to the endpoint: <<>> or <<item>>
  mounted,     \* tud_mounted()
  suspended,   \* tud_suspended()
  host,        \* host[id]: the last content the PC has read
  asked,       \* history: the last content asked for since the enumeration
  muted        \* history: that request was swallowed while the output was cut

vars == <<queue, shadow, out_enable, wait, ep, mounted, suspended, host, asked, muted>>

Itf == {"keyboard", "extra"}          \* HID_ITF_KEYBOARD, HID_ITF_EXTRA
Id  == {KbdId} \cup ExtraId

ItfOf(id) == IF id = KbdId THEN "keyboard" ELSE "extra"
IdsOf(i)  == IF i = "keyboard" THEN {KbdId} ELSE ExtraId
Item      == [id : Id, data : Data]
ItemOf(i) == [id : IdsOf(i), data : Data]

Init ==
  /\ queue = [i \in Itf |-> <<>>]
  /\ shadow = NoShadow
  /\ out_enable = TRUE
  /\ wait = <<>>
  /\ ep = [i \in Itf |-> <<>>]
  /\ mounted = FALSE
  /\ suspended = FALSE
  /\ host = [id \in Id |-> Blank]
  /\ asked = [id \in Id |-> Blank]
  /\ muted = [id \in Id |-> FALSE]

-------------------------------------------------------------------------------
(* The queue.                                                              *)

Up       == mounted /\ ~suspended
Ready(i) == Up /\ ep[i] = <<>>                    \* tud_hid_n_ready
IsIdle   == wait = <<>>                           \* core0 is not inside a send

(* The m_ operators are faulty variants of the definition below them. They *)
(* are never part of the specification: each shows what a line is for.     *)
IsFull(i)   == Len(queue[i]) >= Capacity

(* usbdHidFlushKeyboard / usbdHidFlushExtra on the ring content q: the     *)
(* oldest report goes to the endpoint if it is free.                       *)
CanFlush(i, q)  == q # <<>> /\ Ready(i)
QueueAfter(i, q) == IF CanFlush(i, q) THEN Tail(q) ELSE q
EpAfter(i, q)    == IF CanFlush(i, q) THEN <<Head(q)>> ELSE ep[i]

(* The end of a send that found room: enqueue, then flush once. *)
Enqueue(i, it) ==
  LET q == Append(queue[i], it) IN
  /\ queue' = [queue EXCEPT ![i] = QueueAfter(i, q)]
  /\ ep'    = [ep    EXCEPT ![i] = EpAfter(i, q)]

(* The end of a send that found none: the last slot is overwritten. *)
m_DropNewest(i, it) == UNCHANGED <<queue, ep>>
m_DropOldest(i, it) ==
  /\ queue' = [queue EXCEPT ![i] = [@ EXCEPT ![1] = it]]
  /\ UNCHANGED ep
Overwrite(i, it) ==
  /\ queue' = [queue EXCEPT ![i] = [@ EXCEPT ![Len(@)] = it]]
  /\ UNCHANGED ep

(* The part that usbdHidSendKeyboard and usbdHidSendExtra share. The wait  *)
(* for room returns at once unless the bus is up.                          *)
Submit(it) ==
  LET i == ItfOf(it.id) IN
  /\ asked' = [asked EXCEPT ![it.id] = it.data]
  /\ muted' = [muted EXCEPT ![it.id] = ~out_enable]
  /\ \/ /\ ~out_enable
        /\ UNCHANGED <<queue, ep, wait>>
     \/ /\ out_enable /\ ~IsFull(i)
        /\ Enqueue(i, it)
        /\ UNCHANGED wait
     \/ /\ out_enable /\ IsFull(i) /\ Up
        /\ wait' = <<it>>
        /\ UNCHANGED <<queue, ep>>
     \/ /\ out_enable /\ IsFull(i) /\ ~Up
        /\ Overwrite(i, it)
        /\ UNCHANGED wait
  /\ UNCHANGED <<out_enable, mounted, suspended, host>>

(* usbdHidSendKeyboard: a report equal to the shadow is skipped, any other *)
(* one becomes the shadow before anything else is decided.                 *)
SendKeyboard(r) ==
  /\ IsIdle
  /\ shadow # r
  /\ shadow' = r
  /\ Submit([id |-> KbdId, data |-> r])

SendKeyboardSame(r) ==
  /\ IsIdle
  /\ shadow = r
  /\ asked' = [asked EXCEPT ![KbdId] = r]
  /\ UNCHANGED <<queue, shadow, out_enable, wait, ep, mounted, suspended, host, muted>>

SendExtra(it) ==
  /\ IsIdle
  /\ Submit(it)
  /\ UNCHANGED shadow

-------------------------------------------------------------------------------
(* usbdHidWaitRoom. Its tud_task() is where the bus events below run.      *)

WaitItf == ItfOf(wait[1].id)

WaitFlush ==
  /\ wait # <<>>
  /\ IsFull(WaitItf)
  /\ CanFlush(WaitItf, queue[WaitItf])
  /\ queue' = [queue EXCEPT ![WaitItf] = QueueAfter(WaitItf, @)]
  /\ ep'    = [ep    EXCEPT ![WaitItf] = EpAfter(WaitItf, queue[WaitItf])]
  /\ UNCHANGED <<shadow, out_enable, wait, mounted, suspended, host, asked, muted>>

WaitEndRoom ==
  /\ wait # <<>>
  /\ ~IsFull(WaitItf)
  /\ Enqueue(WaitItf, wait[1])
  /\ wait' = <<>>
  /\ UNCHANGED <<shadow, out_enable, mounted, suspended, host, asked, muted>>

WaitEndTimeout ==
  /\ wait # <<>>
  /\ IsFull(WaitItf)
  /\ Overwrite(WaitItf, wait[1])
  /\ wait' = <<>>
  /\ UNCHANGED <<shadow, out_enable, mounted, suspended, host, asked, muted>>

(* usbdHidUpdate: one turn of the main loop tries both interfaces. *)
m_Update ==
  /\ IsIdle
  /\ CanFlush("extra", queue["extra"])
  /\ queue' = [queue EXCEPT !["extra"] = QueueAfter("extra", @)]
  /\ ep'    = [ep EXCEPT !["extra"] = EpAfter("extra", queue["extra"])]
  /\ UNCHANGED <<shadow, out_enable, wait, mounted, suspended, host, asked, muted>>
Update ==
  /\ IsIdle
  /\ \E i \in Itf : CanFlush(i, queue[i])
  /\ queue' = [i \in Itf |-> QueueAfter(i, queue[i])]
  /\ ep'    = [i \in Itf |-> EpAfter(i, queue[i])]
  /\ UNCHANGED <<shadow, out_enable, wait, mounted, suspended, host, asked, muted>>

(* usbdHidSetOutput: cutting the output empties both queues. *)
SetOutput(enable) ==
  /\ IsIdle
  /\ queue' = IF enable THEN queue ELSE [i \in Itf |-> <<>>]
  /\ muted' = IF enable THEN muted
              ELSE [id \in Id |-> \/ muted[id]
                                  \/ \E k \in DOMAIN queue[ItfOf(id)] :
                                       queue[ItfOf(id)][k].id = id]
  /\ out_enable' = enable
  /\ UNCHANGED <<shadow, wait, ep, mounted, suspended, host, asked>>

-------------------------------------------------------------------------------
(* What the PC and the bus do, as tud_task() reports it to core0. The      *)
(* TinyUSB callbacks run with the state change that causes them.           *)

(* The PC polls the endpoint (interval 1 ms) and takes the report. *)
HostTake(i) ==
  /\ Up
  /\ ep[i] # <<>>
  /\ host' = [host EXCEPT ![ep[i][1].id] = ep[i][1].data]
  /\ ep'   = [ep EXCEPT ![i] = <<>>]
  /\ UNCHANGED <<queue, shadow, out_enable, wait, mounted, suspended, asked, muted>>

(* The PC configures the device: tud_mount_cb. A report that a sender is   *)
(* still holding is asked of the new host.                                 *)
m_Mount ==
  /\ ~mounted
  /\ mounted' = TRUE
  /\ queue' = [i \in Itf |-> <<>>]
  /\ asked' = [id \in Id |-> IF wait # <<>> /\ wait[1].id = id THEN wait[1].data ELSE Blank]
  /\ muted' = [id \in Id |-> FALSE]
  /\ UNCHANGED <<shadow, out_enable, wait, ep, suspended, host>>
Mount ==
  /\ ~mounted
  /\ mounted' = TRUE
  /\ shadow' = NoShadow
  /\ queue' = [i \in Itf |-> <<>>]
  /\ asked' = [id \in Id |-> IF wait # <<>> /\ wait[1].id = id THEN wait[1].data ELSE Blank]
  /\ muted' = [id \in Id |-> FALSE]
  /\ UNCHANGED <<out_enable, wait, ep, suspended, host>>

(* Bus reset or unplug (tud_umount_cb touches nothing here): the stack     *)
(* closes the endpoints and the PC forgets the keys it held.               *)
BusReset ==
  /\ mounted
  /\ mounted' = FALSE
  /\ suspended' = FALSE
  /\ ep' = [i \in Itf |-> <<>>]
  /\ host' = [id \in Id |-> Blank]
  /\ UNCHANGED <<queue, shadow, out_enable, wait, asked, muted>>

Suspend ==
  /\ Up
  /\ suspended' = TRUE
  /\ UNCHANGED <<queue, shadow, out_enable, wait, ep, mounted, host, asked, muted>>

(* tud_resume_cb: the shadow is invalidated, the queues are kept. *)
Resume ==
  /\ mounted /\ suspended
  /\ suspended' = FALSE
  /\ shadow' = NoShadow
  /\ UNCHANGED <<queue, out_enable, wait, ep, mounted, host, asked, muted>>

-------------------------------------------------------------------------------
WaitStep == WaitFlush \/ WaitEndRoom \/ WaitEndTimeout

Next ==
  \/ \E r \in Data : SendKeyboard(r) \/ SendKeyboardSame(r)
  \/ \E it \in ItemOf("extra") : SendExtra(it)
  \/ WaitFlush
  \/ WaitEndRoom
  \/ WaitEndTimeout
  \/ Update
  \/ \E enable \in BOOLEAN : SetOutput(enable)
  \/ \E i \in Itf : HostTake(i)
  \/ Mount
  \/ BusReset
  \/ Suspend
  \/ Resume

(* usbdHidUpdate runs in every turn of the main loop (cliLoopIdle), and a  *)
(* turn asks for finitely many reports, so it is not overtaken for ever    *)
(* however often a sender holds core0: strong fairness. The wait for room  *)
(* is a loop with a deadline. A PC whose bus is up polls the endpoint.     *)
Fairness ==
  /\ SF_vars(Update)
  /\ WF_vars(WaitStep)
  /\ \A i \in Itf : WF_vars(HostTake(i))

Spec     == Init /\ [][Next]_vars
FairSpec == Spec /\ Fairness

-------------------------------------------------------------------------------
(* Types, and the bounds of the two rings and of the endpoint buffers: the *)
(* full test keeps wr - rd within the ring (usbdHidKbdIsFull), and IF0     *)
(* never carries a report of IF1.                                          *)
QueueOK ==
  /\ queue \in [Itf -> Seq(Item)]
  /\ \A i \in Itf : queue[i] \in Seq(ItemOf(i)) /\ Len(queue[i]) <= Capacity
EpOK ==
  /\ ep \in [Itf -> Seq(Item)]
  /\ \A i \in Itf : ep[i] = <<>> \/ \E it \in ItemOf(i) : ep[i] = <<it>>
TypeOK ==
  /\ QueueOK
  /\ EpOK
  /\ shadow \in Data \cup {NoShadow}
  /\ out_enable \in BOOLEAN
  /\ wait = <<>> \/ \E it \in Item : wait = <<it>>
  /\ mounted \in BOOLEAN
  /\ suspended \in BOOLEAN
  /\ host \in [Id -> Data]
  /\ asked \in [Id -> Data]
  /\ muted \in [Id -> BOOLEAN]

(* What is on its way to the PC on one interface, oldest first. *)
Pending(i) == IF wait # <<>> /\ WaitItf = i THEN wait ELSE <<>>
Line(i)    == ep[i] \o queue[i] \o Pending(i)

(* The content the PC ends with for one report id once the line has been   *)
(* read.                                                                   *)
Told(id) ==
  LET line == Line(ItfOf(id))
      own  == {k \in DOMAIN line : line[k].id = id}
  IN  IF own = {} THEN host[id]
      ELSE line[CHOOSE k \in own : \A j \in own : j <= k].data

(* While a PC is attached and the output was not cut, the last keyboard    *)
(* report that was asked for is the last one the PC is going to read: no   *)
(* overflow, no wait, no suspend and no repeat that the shadow swallows    *)
(* loses the final state (the "last slot is overwritten" rule of           *)
(* usbdHidSendKeyboard).                                                   *)
KbdLastWord == mounted /\ ~muted[KbdId] => Told(KbdId) = asked[KbdId]

(* The shadow only lets a report be skipped that is already the last word: *)
(* it compares with what was queued, never with what an older host was     *)
(* told (tud_mount_cb) or with what was sent.                              *)
ShadowIsLastQueued ==
  mounted /\ shadow # NoShadow /\ ~muted[KbdId] => Told(KbdId) = shadow

(* The queues implement the outbox: order, and no loss but the named ones. *)
AllLines == [i \in Itf |-> Line(i)]
Outbox == INSTANCE HidOutbox WITH line <- AllLines
ImplementsOutbox == Outbox!Spec

(* If from some time on the bus stays up and the wanted keyboard state     *)
(* stays d, the PC ends up holding d for good: nothing stays stuck in the  *)
(* queue, whatever IF1 does meanwhile.                                     *)
KbdSettles ==
  \A d \in Data :
    <>[](Up /\ asked[KbdId] = d /\ ~muted[KbdId]) => <>[](host[KbdId] = d)
===============================================================================
