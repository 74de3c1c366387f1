-------------------------------- MODULE LinkKbd --------------------------------
(***************************************************************************)
(* From the keyboards to the matrix of QMK: usbh_hid.c on core1,           *)
(* linkKbdUpdate (link_kbd.c), link.c and port/matrix.c on core0.          *)
(*                                                                         *)
(* core1 runs the TinyUSB host stack. Its callbacks write hid_info[i] with *)
(* no lock and put reports into report_queue, which is safe between the    *)
(* cores. core0 goes round: look for keyboards that came or went (poll),   *)
(* choose the layout for them (select), apply the queued reports (drain),  *)
(* let QMK read the merged matrix (qmk). Any step of core1 may fall between*)
(* two steps of core0.                                                     *)
(*                                                                         *)
(* A report is the set of keys it holds down. Mouse and consumer reports   *)
(* only travel through the queue: they go straight to usbdHidSendMouse and *)
(* usbdHidSendConsumer (see HidQueue). The product string that core1 asks  *)
(* for is not modelled.                                                    *)
(***************************************************************************)
EXTENDS Naturals, Sequences

CONSTANTS
  CFG_TUH_HID,         \* instances: interfaces the host stack can hold
  USBH_HID_QUEUE_MAX,  \* slots of report_queue
  Keyboard,            \* keyboards that can be plugged in (a vid/pid each)
  Other,               \* other HID devices
  Key,                 \* key usages
  NoDev                \* vid = pid = 0

ASSUME SizeAssumption == CFG_TUH_HID \in Nat \ {0} /\ USBH_HID_QUEUE_MAX \in Nat \ {0}
ASSUME DevAssumption  == NoDev \notin Keyboard \cup Other /\ Keyboard \cap Other = {}

VARIABLES
  plugged,       \* the device behind instance i
  held,          \* the keys that instance i reported last
  hid_info,      \* what core1 wrote: is_connect, itf_protocol, vid/pid
  in_mount,      \* the instances whose tuh_hid_mount_cb is running (at most one)
  report_queue,
  step, idx,     \* where core0 is: the step and its loop variable
  connect_pre, is_changed,      \* static and local of linkKbdUpdate
  found,         \* vid/pid that the select loop has so far
  selected,      \* the last argument of kbdStoreSelect
  is_passthrough,
  src_matrix, link_changed,     \* link.c
  matrix,        \* port/matrix.c: what QMK sees
  clean,         \* history: nothing was lost for i since it last reported or was cleared
  torn,          \* history: the last selection read a half-written hid_info
  missed         \* history: since then a device came or went unseen by the poll

core1 == <<plugged, held, hid_info, in_mount>>
scan  == <<connect_pre, is_changed, found, selected>>
link  == <<src_matrix, link_changed>>
vars  == <<core1, report_queue, step, idx, scan, is_passthrough, link, matrix,
           clean, torn, missed>>

Inst == 0 .. CFG_TUH_HID - 1
Dev  == Keyboard \cup Other
NoInfo == [is_connect |-> FALSE, is_keyboard |-> FALSE, dev |-> NoDev]
Report == [instance : Inst, is_keyboard : BOOLEAN, keys : SUBSET Key]

Init ==
  /\ plugged = [i \in Inst |-> NoDev]
  /\ held = [i \in Inst |-> {}]
  /\ hid_info = [i \in Inst |-> NoInfo]
  /\ in_mount = {}
  /\ report_queue = <<>>
  /\ step = "poll" /\ idx = 0
  /\ connect_pre = [i \in Inst |-> FALSE] /\ is_changed = FALSE
  /\ found = NoDev /\ selected = NoDev
  /\ is_passthrough = FALSE
  /\ src_matrix = [i \in Inst |-> {}] /\ link_changed = FALSE
  /\ matrix = {}
  /\ clean = [i \in Inst |-> TRUE]
  /\ torn = FALSE /\ missed = FALSE

(* The keyboard reports of instance i that wait in the queue. *)
Queued(i) == {k \in DOMAIN report_queue :
                report_queue[k].instance = i /\ report_queue[k].is_keyboard}

-------------------------------------------------------------------------------
(* core1: usbh_hid.c.                                                      *)

(* tuh_hid_mount_cb sets is_connect before anything else ...               *)
MountBegin(i, d) ==
  /\ in_mount = {}
  /\ plugged[i] = NoDev
  /\ \A j \in Inst : plugged[j] # d
  /\ plugged'  = [plugged EXCEPT ![i] = d]
  /\ hid_info' = [hid_info EXCEPT ![i].is_connect = TRUE]
  /\ in_mount' = {i}
  /\ missed'   = (missed \/ connect_pre[i])
  /\ UNCHANGED <<held, report_queue, step, idx, scan, is_passthrough, link, matrix, clean, torn>>

(* ... then the protocol and vid/pid, and asks for the first report. *)
MountEnd(i) ==
  /\ i \in in_mount
  /\ hid_info' = [hid_info EXCEPT ![i] = [is_connect  |-> TRUE,
                                          is_keyboard |-> plugged[i] \in Keyboard,
                                          dev         |-> plugged[i]]]
  /\ in_mount' = {}
  /\ UNCHANGED <<plugged, held, report_queue, step, idx, scan, is_passthrough, link, matrix,
                 clean, torn, missed>>

(* tuh_hid_umount_cb. *)
Umount(i) ==
  /\ in_mount = {}
  /\ plugged[i] # NoDev
  /\ plugged'  = [plugged EXCEPT ![i] = NoDev]
  /\ held'     = [held EXCEPT ![i] = {}]
  /\ hid_info' = [hid_info EXCEPT ![i] = NoInfo]
  /\ clean'    = [clean EXCEPT ![i] = FALSE]
  /\ missed'   = (missed \/ ~connect_pre[i])
  /\ UNCHANGED <<in_mount, report_queue, step, idx, scan, is_passthrough, link, matrix, torn>>

(* tuh_hid_report_received_cb: a full queue loses the new report. Some     *)
(* keyboards report at every poll, so keys may be what it was.             *)
(* (The m_ operators here and below are faulty variants that show what a   *)
(* line is for; they are never part of the specification.)                 *)
ReportReceived(i, keys) ==
  /\ in_mount = {}
  /\ plugged[i] # NoDev
  /\ held' = [held EXCEPT ![i] = keys]
  /\ \/ /\ Len(report_queue) < USBH_HID_QUEUE_MAX
        /\ report_queue' = Append(report_queue,
             [instance |-> i, is_keyboard |-> hid_info[i].is_keyboard, keys |-> keys])
        /\ clean' = [clean EXCEPT ![i] = @ \/ hid_info[i].is_keyboard]
     \/ /\ Len(report_queue) >= USBH_HID_QUEUE_MAX
        /\ clean' = [clean EXCEPT ![i] = @ /\ ~hid_info[i].is_keyboard]
        /\ UNCHANGED report_queue
  /\ UNCHANGED <<plugged, hid_info, in_mount, step, idx, scan, is_passthrough, link, matrix,
                 torn, missed>>

-------------------------------------------------------------------------------
(* link.c.                                                                 *)

Merged(src) == UNION {src[i] : i \in Inst}

(* linkMerge after src_matrix became src. *)
m_SetSource(src) ==
  /\ src_matrix' = src
  /\ UNCHANGED link_changed
SetSource(src) ==
  /\ src_matrix' = src
  /\ link_changed' = (link_changed \/ Merged(src) # Merged(src_matrix))

m_linkClear(i)       == SetSource([j \in Inst |-> {}])
linkClearInstance(i) == SetSource([src_matrix EXCEPT ![i] = {}])

m_addKeys(i, keys)             == SetSource([src_matrix EXCEPT ![i] = @ \cup keys])
linkSetKeyboardReport(i, keys) == SetSource([src_matrix EXCEPT ![i] = keys])

-------------------------------------------------------------------------------
(* core0: linkKbdUpdate.                                                   *)

Goto(s) == step' = s /\ idx' = 0
LastInst == CFG_TUH_HID - 1

(* After the poll loop, and with the selection loop ahead, everything the  *)
(* history variables remember will be read afresh.                         *)
AfterPoll(changed) ==
  /\ Goto(IF changed THEN "select" ELSE "drain")
  /\ is_changed' = FALSE
  /\ torn'   = (torn /\ ~changed)
  /\ missed' = (missed /\ ~changed)

(* The poll loop, one usbhHidGetInfo per step. *)
PollWith(changed) ==
  /\ step = "poll"
  /\ connect_pre' = [connect_pre EXCEPT ![idx] = hid_info[idx].is_connect]
  /\ IF connect_pre[idx] /\ ~hid_info[idx].is_connect
     THEN /\ linkClearInstance(idx)
          /\ clean' = [clean EXCEPT ![idx] = (Queued(idx) = {})]
     ELSE UNCHANGED <<link, clean>>
  /\ \/ /\ idx < LastInst
        /\ idx' = idx + 1
        /\ is_changed' = changed
        /\ UNCHANGED <<step, torn, missed>>
     \/ /\ idx = LastInst
        /\ AfterPoll(changed)
  /\ UNCHANGED <<core1, report_queue, found, selected, is_passthrough, matrix>>

m_Poll == PollWith(hid_info[idx].is_connect # connect_pre[idx])
Poll   == PollWith(is_changed \/ hid_info[idx].is_connect # connect_pre[idx])

(* The select loop, then kbdStoreSelect with what it found: the first      *)
(* keyboard, else the last device.                                         *)
Candidate == IF hid_info[idx].is_connect THEN hid_info[idx].dev ELSE found

SelectWith(stop) ==
  /\ step = "select"
  /\ torn' = (torn \/ idx \in in_mount)
  /\ \/ /\ ~stop /\ idx < LastInst
        /\ idx' = idx + 1
        /\ found' = Candidate
        /\ UNCHANGED <<step, selected>>
     \/ /\ stop \/ idx = LastInst
        /\ Goto("drain")
        /\ selected' = Candidate
        /\ found' = NoDev
  /\ UNCHANGED <<core1, report_queue, connect_pre, is_changed, is_passthrough, link, matrix,
                 clean, missed>>

Select   == SelectWith(hid_info[idx].is_keyboard)

(* The drain loop. In pass-through a keyboard report goes to the PC as it  *)
(* is, and the matrix does not learn of it.                                *)
Drain ==
  /\ step = "drain" /\ report_queue # <<>>
  /\ report_queue' = Tail(report_queue)
  /\ LET r == Head(report_queue) IN
       \/ /\ r.is_keyboard /\ ~is_passthrough
          /\ linkSetKeyboardReport(r.instance, r.keys)
          /\ UNCHANGED clean
       \/ /\ r.is_keyboard /\ is_passthrough
          /\ clean' = [clean EXCEPT ![r.instance] = FALSE]
          /\ UNCHANGED link
       \/ /\ ~r.is_keyboard
          /\ UNCHANGED <<link, clean>>
  /\ UNCHANGED <<core1, step, idx, scan, is_passthrough, matrix, torn, missed>>

DrainEnd ==
  /\ step = "drain" /\ report_queue = <<>>
  /\ Goto("qmk")
  /\ UNCHANGED <<core1, report_queue, scan, is_passthrough, link, matrix, clean, torn, missed>>

(* qmkUpdate: keyboard_task reads the matrix (matrix_scan) if it changed.  *)
QmkUpdate ==
  /\ step = "qmk"
  /\ Goto("poll")
  /\ matrix' = IF link_changed THEN Merged(src_matrix) ELSE matrix
  /\ link_changed' = FALSE
  /\ UNCHANGED <<core1, report_queue, scan, is_passthrough, src_matrix, clean, torn, missed>>

(* The turn runs inside a wait of QMK: qmkUpdate returns at once. *)
m_QmkBusy ==
  /\ step = "qmk"
  /\ Goto("poll")
  /\ link_changed' = FALSE
  /\ UNCHANGED <<core1, report_queue, scan, is_passthrough, src_matrix, matrix, clean, torn,
                 missed>>
QmkBusy ==
  /\ step = "qmk"
  /\ Goto("poll")
  /\ UNCHANGED <<core1, report_queue, scan, is_passthrough, link, matrix, clean, torn, missed>>

(* qmkSetPassthrough, a command of VIA handled by qmkUpdate. *)
SetPassthrough ==
  /\ step = "qmk"
  /\ is_passthrough' = ~is_passthrough
  /\ UNCHANGED <<core1, report_queue, step, idx, scan, link, matrix, clean, torn, missed>>

-------------------------------------------------------------------------------
Core0 == Poll \/ Select \/ Drain \/ DrainEnd \/ QmkUpdate

Next ==
  \/ \E i \in Inst, d \in Dev : MountBegin(i, d)
  \/ \E i \in Inst : MountEnd(i) \/ Umount(i)
  \/ \E i \in Inst, keys \in SUBSET Key :
       (plugged[i] \in Keyboard \/ keys = {}) /\ ReportReceived(i, keys)
  \/ Core0
  \/ QmkBusy
  \/ SetPassthrough

(* The main loop never stops; a wait of QMK ends; a callback returns.      *)
Fairness ==
  /\ WF_vars(Core0)
  /\ SF_vars(QmkUpdate)
  /\ SF_vars(DrainEnd)
  /\ \A i \in Inst : WF_vars(MountEnd(i))

Spec     == Init /\ [][Next]_vars
FairSpec == Spec /\ Fairness

-------------------------------------------------------------------------------
TypeOK ==
  /\ plugged \in [Inst -> Dev \cup {NoDev}]
  /\ held \in [Inst -> SUBSET Key]
  /\ hid_info \in [Inst -> [is_connect : BOOLEAN, is_keyboard : BOOLEAN, dev : Dev \cup {NoDev}]]
  /\ in_mount \in SUBSET Inst
  /\ report_queue \in Seq(Report) /\ Len(report_queue) <= USBH_HID_QUEUE_MAX
  /\ step \in {"poll", "select", "drain", "qmk"} /\ idx \in Inst
  /\ connect_pre \in [Inst -> BOOLEAN] /\ is_changed \in BOOLEAN
  /\ {found, selected} \subseteq Dev \cup {NoDev}
  /\ is_passthrough \in BOOLEAN
  /\ src_matrix \in [Inst -> SUBSET Key] /\ link_changed \in BOOLEAN
  /\ matrix \in SUBSET Key
  /\ clean \in [Inst -> BOOLEAN]
  /\ torn \in BOOLEAN /\ missed \in BOOLEAN

(* The keys of instance i once the queue has been drained. *)
Told(i) ==
  IF Queued(i) = {} THEN src_matrix[i]
  ELSE report_queue[CHOOSE k \in Queued(i) : \A j \in Queued(i) : j <= k].keys

(* The merged matrix never loses or keeps a key by itself: unless a report *)
(* of that keyboard was dropped or passed through, or its unplugging is    *)
(* not yet dealt with, the queue ends in what the keyboard holds - however *)
(* the other keyboards come and go (linkClearInstance, not linkClear).     *)
EndsAsHeld == \A i \in Inst : clean[i] => Told(i) = held[i]

(* When QMK has read the matrix, or nothing is flagged as changed, what it *)
(* sees is the merge of all keyboards: is_changed is never lost between    *)
(* link.c and matrix.c, not even while QMK is busy.                        *)
MatrixIsMerge == ~link_changed => matrix = Merged(src_matrix)

Preferred ==
  LET kbd  == {i \in Inst : plugged[i] \in Keyboard}
      any  == {i \in Inst : plugged[i] # NoDev}
  IN  CASE kbd # {} -> plugged[CHOOSE i \in kbd : \A j \in kbd : i <= j]
        [] kbd = {} /\ any # {} -> plugged[CHOOSE i \in any : \A j \in any : j <= i]
        [] any = {} -> NoDev

(* Between two turns every arrival and departure has been noticed. *)
Noticed ==
  /\ step = "poll" /\ idx = 0
  /\ in_mount = {}
  /\ \A i \in Inst : connect_pre[i] = hid_info[i].is_connect

(* Whatever is plugged and unplugged while the loops run, once core0 has   *)
(* noticed it the layout is that of the preferred device - if no loop read *)
(* a half-written hid_info (torn) and no device came and went, or went and *)
(* came, between two polls (missed).                                       *)
SelectedIsPreferred ==
  Noticed /\ ~torn /\ ~missed => selected = Preferred

(* If core0 keeps up with the queue and the keyboards stay as they are,    *)
(* with nothing lost, QMK ends up seeing exactly the keys that are held.   *)
MatrixSettles ==
  []<>(report_queue = <<>>) =>
    \A h \in [Inst -> SUBSET Key] :
      <>[](held = h /\ \A i \in Inst : clean[i]) => <>[](matrix = Merged(h))
===============================================================================
