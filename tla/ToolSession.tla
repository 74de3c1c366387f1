----------------------------- MODULE ToolSession -----------------------------
(***************************************************************************)
(* The configuration page (web/app.js) and the board over raw HID:         *)
(* sendReport, poll, saveSlot, eraseSlot, applySlot, loadSlotForEdit,      *)
(* recoverAfterOp, finishSlotOp, loadSlots and attach of the page;         *)
(* tud_hid_set_report_cb, usbdHidGetRaw and usbdHidSendRaw (usbd_hid.c),   *)
(* linkCmdHandle (link_cmd.c) and the turn of the loop around them (qmk.c, *)
(* ap.c) of the board.                                                     *)
(*                                                                         *)
(* The page runs a coroutine per action of the user and one that polls the *)
(* pressed keys, all with a single `pending`: whoever sends last gets the  *)
(* answer, and an answer is known by its sub-command alone.  The board     *)
(* queues what the USB callback brings, drops what does not fit, and drops *)
(* an answer that the host leaves no room for within 10 ms.                *)
(*                                                                         *)
(* One layout slot.  An upload is a header and CHUNKS pieces; `by` is the  *)
(* coroutine that sent a request, which stands for its content.  The host  *)
(* hands a report to the callback as it is sent; the way back is slower.   *)
(* Re-enumeration is left to UsbReenum, the flash to KbdStore.             *)
(*                                                                         *)
(* Operators that start with m_ are faulty variants of the operator that   *)
(* follows; the specification never uses them.                             *)
(***************************************************************************)
EXTENDS Naturals, Sequences, FiniteSets

CONSTANTS Ops,                  \* bound: the user's actions, a coroutine each
          CHUNKS,               \* SLOT_DATA requests of an upload
          HID_RAW_QUEUE_MAX,
          None

ASSUME ToolAssumption ==
    /\ CHUNKS \in Nat \ {0} /\ HID_RAW_QUEUE_MAX \in Nat \ {0}
    /\ "poll" \notin Ops /\ "attach" \notin Ops /\ "via" \notin Ops /\ None \notin Ops

Cos    == Ops \cup {"poll", "attach"}
Chunks == 1 .. CHUNKS
Query  == {"INFO", "PRESSED", "SLOT_INFO"}
Subs   == Query \cup {"BEGIN", "DATA", "COMMIT", "ERASE", "SELECT", "READ"}
Kinds  == {"save", "erase", "apply", "edit"}
Request(s, o, i) == [sub |-> s, by |-> o, chunk |-> i]
Answer == [sub : Subs \cup {"VIA"}, by : Cos \cup {"via"}, ok : BOOLEAN]

\* Nothing awaited, nothing in the endpoint.
ASSUME NoneAssumption == None \notin Answer \cup [by : Cos, sub : Subs]

\* An upload takes more pieces than the raw queue has room for: 28 bytes each of
\* a layout of several hundred, and 8 requests.
ASSUME PiecesAssumption == HID_RAW_QUEUE_MAX <= CHUNKS + 3

VARIABLES
    \* page
    device,         \* the page has the board open
    pending,        \* whose answer is awaited, and to what
    pc,             \* where each coroutine is
    sent,           \* pieces that an upload has sent
    busy, paused,
    \* board
    raw_queue,
    at,             \* where the loop is, the nested one when there is one
    nested,         \* keyboard_task waits, and a turn of the loop runs in it
    is_busy,        \* of qmk.c: qmkUpdate runs
    answer,         \* p_data of linkCmdHandle while it waits for room
    ep,             \* the IN endpoint: an answer the host has not read
    stage,          \* kbd_store.c: the staging buffer, whose pieces it holds
    slot,           \* the slot: what it held of them when it was committed
    active,         \* kbdStoreGetActive: the slot is in use
    profile,        \* what linkKbdApplySlot applied last
    \* history
    done            \* the actions that the board has carried out

page  == <<device, pending, pc, sent, busy, paused>>
turn  == <<at, nested, is_busy>>
board == <<turn, answer, ep, stage, slot, active, profile, done>>
vars  == <<page, raw_queue, board>>

Free == [open |-> FALSE, by |-> None, got |-> [i \in Chunks |-> None]]

Init ==
    /\ device = TRUE /\ pending = None
    /\ pc = [c \in Cos |-> IF c = "poll" THEN "sleep" ELSE "idle"]
    /\ sent = [o \in Ops |-> 0]
    /\ busy = FALSE /\ paused = FALSE
    /\ raw_queue = <<>> /\ at = "top" /\ nested = FALSE /\ is_busy = FALSE /\ answer = None /\ ep = None
    /\ stage = Free /\ slot = None /\ active = FALSE /\ profile = FALSE
    /\ done = {}

-----------------------------------------------------------------------------
(* The way to the board. *)

\* tud_hid_set_report_cb: what does not fit is dropped.
Received(r) == IF Len(raw_queue) < HID_RAW_QUEUE_MAX THEN Append(raw_queue, r)
               ELSE raw_queue

\* sendReport: the coroutine takes `pending` whether it is free or not.
sendReport(c, s, i) ==
    /\ pending' = [by |-> c, sub |-> s]
    /\ raw_queue' = Received(Request(s, c, i))

InFlight(c) ==
    \/ \E i \in DOMAIN raw_queue : raw_queue[i].by = c
    \/ answer # None /\ answer.by = c
    \/ ep # None /\ ep.by = c

\* The timers of the page (80 ms of rest, 1 s, 5 s for the flash) are longer
\* than any answer takes that is not lost.
m_TimeUp(c) == TRUE
TimeUp(c) == ~InFlight(c)

\* Another program (VIA) asks; it awaits its answer before it asks again.
ViaSend ==
    /\ ~InFlight("via")
    /\ raw_queue' = Received(Request("VIA", "via", 0))
    /\ UNCHANGED <<page, board>>

-----------------------------------------------------------------------------
(* The page: polling. *)

Poll ==
    /\ device /\ ~busy /\ ~paused
    /\ pc["poll"] = "sleep"
    /\ sendReport("poll", "PRESSED", 0)
    /\ pc' = [pc EXCEPT !["poll"] = "PRESSED"]
    /\ UNCHANGED <<device, sent, busy, paused, board>>

\* disconnect and afterSlotWrite have let the device go: the loop ends.
PollEnds ==
    /\ ~device
    /\ pc["poll"] = "sleep"
    /\ pc' = [pc EXCEPT !["poll"] = "idle"]
    /\ UNCHANGED <<device, pending, sent, busy, paused, raw_queue, board>>

\* visibilitychange.
Visibility ==
    /\ paused' = ~paused
    /\ UNCHANGED <<device, pending, pc, sent, busy, raw_queue, board>>

\* connect, afterSlotWrite: attach asks INFO and more, and starts a poll.
Attach ==
    /\ pc["attach"] = "idle"
    /\ ~device \/ pc["poll"] = "idle"
    /\ device' = TRUE
    /\ sendReport("attach", "INFO", 0)
    /\ pc' = [pc EXCEPT !["attach"] = "INFO"]
    /\ UNCHANGED <<sent, busy, paused, board>>

-----------------------------------------------------------------------------
(* The page: the user's actions. *)

Click(o) ==
    /\ device
    /\ pc[o] = "idle"
    /\ busy' = TRUE
    /\ \E kind \in Kinds : pc' = [pc EXCEPT ![o] = kind]
    /\ UNCHANGED <<device, pending, sent, paused, raw_queue, board>>

\* sleep(80) is over.
Begin(o) ==
    /\ pc[o] \in Kinds
    /\ TimeUp("poll")
    /\ LET s == CASE pc[o] = "save"  -> "BEGIN"
                  [] pc[o] = "erase" -> "ERASE"
                  [] pc[o] = "apply" -> "SELECT"
                  [] pc[o] = "edit"  -> "READ"
       IN  /\ sendReport(o, s, 0)
           /\ pc' = [pc EXCEPT ![o] = s]
    /\ UNCHANGED <<device, sent, busy, paused, board>>

\* What an upload sends after the answer to s.
m_NextSub(o, s) == IF s = "BEGIN" \/ (s = "DATA" /\ sent[o] + 1 < CHUNKS)
                   THEN "DATA" ELSE "COMMIT"
NextSub(o, s) == IF s = "BEGIN" \/ (s = "DATA" /\ sent[o] < CHUNKS)
                 THEN "DATA" ELSE "COMMIT"

\* The action has succeeded: finishSlotOp.
Finish(o) ==
    /\ sendReport(o, "INFO", 0)
    /\ pc' = [pc EXCEPT ![o] = "finish"]
    /\ UNCHANGED <<device, sent, busy>>

\* recoverAfterOp: polling may go on while it asks.
Recover(o) ==
    /\ busy' = FALSE
    /\ sendReport(o, "INFO", 0)
    /\ pc' = [pc EXCEPT ![o] = "recover"]
    /\ UNCHANGED <<device, sent>>

\* The end of loadSlots, with which finishSlotOp and recoverAfterOp end.
Loaded(o) ==
    /\ busy' = FALSE
    /\ pending' = None
    /\ pc' = [pc EXCEPT ![o] = IF @ \in {"finish", "finishing"} THEN "done" ELSE "failed"]
    /\ UNCHANGED <<device, sent, raw_queue>>

\* loadSlotForEdit is over; the page draws what it has read.
ReadEnds(o) ==
    /\ busy' = FALSE
    /\ pending' = None
    /\ pc' = [pc EXCEPT ![o] = "done"]
    /\ UNCHANGED <<device, sent, raw_queue>>

\* saveSlot, eraseSlot, applySlot and what ends them go on with answer a.  A
\* saved slot is pinned when none was in use, and whether that works does not
\* matter; loadSlots asks SLOT_INFO for every slot.
OpGoesOn(o, a) ==
    \/ /\ pc[o] \in {"BEGIN", "DATA"} /\ a.ok
       /\ LET s == NextSub(o, pc[o])
              n == sent[o] + (IF s = "DATA" THEN 1 ELSE 0)
          IN  /\ sendReport(o, s, n)
              /\ sent' = [sent EXCEPT ![o] = n]
              /\ pc' = [pc EXCEPT ![o] = s]
              /\ UNCHANGED <<device, busy>>
    \/ /\ pc[o] = "COMMIT" /\ a.ok
       /\ sendReport(o, "SELECT", 0)
       /\ pc' = [pc EXCEPT ![o] = "pin"]
       /\ UNCHANGED <<device, sent, busy>>
    \/ pc[o] \in {"COMMIT", "ERASE", "SELECT"} /\ a.ok /\ Finish(o)
    \/ pc[o] = "pin" /\ Finish(o)
    \/ pc[o] \in Subs \ {"READ"} /\ ~a.ok /\ Recover(o)
    \/ /\ pc[o] = "READ" /\ a.ok
       /\ sendReport(o, "READ", 0)
       /\ UNCHANGED <<device, pc, sent, busy>>
    \/ pc[o] = "READ" /\ ReadEnds(o)
    \/ /\ pc[o] \in {"finish", "recover"}
       /\ sendReport(o, "SLOT_INFO", 0)
       /\ pc' = [pc EXCEPT ![o] = IF @ = "finish" THEN "finishing" ELSE "recovering"]
       /\ UNCHANGED <<device, sent, busy>>
    \/ pc[o] \in {"finishing", "recovering"} /\ Loaded(o)

\* attach goes on: SLOT_INFO (and others that do not matter), then a poll.
AttachEnds ==
    /\ pending' = None
    /\ pc' = [pc EXCEPT !["attach"] = "idle", !["poll"] = "sleep"]
    /\ UNCHANGED raw_queue
AttachGoesOn ==
    \/ /\ pc["attach"] = "INFO"
       /\ sendReport("attach", "SLOT_INFO", 0)
       /\ pc' = [pc EXCEPT !["attach"] = "SLOT_INFO"]
    \/ pc["attach"] = "SLOT_INFO" /\ AttachEnds

\* poll and checkHost go on: INFO now and then, SLOT_INFO when it tells of a
\* change; neither looks at busy again.
PollGoesOn ==
    \/ /\ pending' = None
       /\ pc' = [pc EXCEPT !["poll"] = "sleep"]
       /\ UNCHANGED raw_queue
    \/ \E s \in Query \ {"PRESSED"} :
        /\ pc["poll"] = "PRESSED" => s = "INFO"
        /\ pc["poll"] # "PRESSED" => s = "SLOT_INFO"
        /\ sendReport("poll", s, 0)
        /\ pc' = [pc EXCEPT !["poll"] = s]

\* The inputreport handler: only the answer that is awaited, known by its
\* sub-command, is taken.
m_Wanted(a) == pending # None
Wanted(a) == pending # None /\ pending.sub = a.sub

Read ==
    /\ ep # None
    /\ ep' = None
    /\ LET c == pending.by
       IN  IF ~(device /\ Wanted(ep))
           THEN UNCHANGED <<page, raw_queue>>
           ELSE \/ c \in Ops /\ OpGoesOn(c, ep) /\ UNCHANGED paused
                \/ c = "poll" /\ PollGoesOn /\ UNCHANGED <<device, sent, busy, paused>>
                \/ c = "attach" /\ AttachGoesOn /\ UNCHANGED <<device, sent, busy, paused>>
    /\ UNCHANGED <<turn, answer, stage, slot, active, profile, done>>

\* The timer of sendReport: nothing happens when another has taken `pending`.
Timeout(c) ==
    /\ pending # None /\ pending.by = c
    /\ TimeUp(c)
    /\ \/ /\ c = "poll" \/ pc[c] = "INFO"           \* attach throws
          /\ pending' = None
          /\ pc' = [pc EXCEPT ![c] = IF c = "poll" THEN "sleep" ELSE "idle"]
          /\ UNCHANGED <<device, sent, busy, raw_queue>>
       \/ /\ c = "attach" /\ pc[c] = "SLOT_INFO"     \* loadSlots gives up
          /\ AttachEnds
          /\ UNCHANGED <<device, sent, busy>>
       \/ /\ pc[c] \in {"finish", "recover"}         \* afterSlotWrite
          /\ pending' = None
          /\ pc' = [pc EXCEPT ![c] = IF @ = "finish" THEN "done" ELSE "failed"]
          /\ device' = FALSE /\ busy' = FALSE
          /\ UNCHANGED <<sent, raw_queue>>
       \/ pc[c] \in {"finishing", "recovering"} /\ Loaded(c)
       \/ pc[c] = "pin" /\ Finish(c)
       \/ pc[c] = "READ" /\ ReadEnds(c)
       \/ c \in Ops /\ pc[c] \in Subs \ {"READ"} /\ Recover(c)
    /\ UNCHANGED <<paused, board>>

-----------------------------------------------------------------------------
(* The board. *)

\* The sub-commands of linkCmdHandle: what each changes, and its result.
SlotBegin(r) ==
    /\ stage' = [open |-> TRUE, by |-> r.by, got |-> [i \in Chunks |-> None]]
    /\ answer' = [sub |-> r.sub, by |-> r.by, ok |-> TRUE]
    /\ UNCHANGED <<slot, active, done>>

SlotData(r) ==
    /\ stage' = IF stage.open THEN [stage EXCEPT !.got[r.chunk] = r.by] ELSE stage
    /\ answer' = [sub |-> r.sub, by |-> r.by, ok |-> stage.open]
    /\ UNCHANGED <<slot, active, done>>

\* Committing closes the stage before the flash is touched; a flash that
\* refuses leaves the slot empty or as it was, and the answer says so.
SlotCommit(r) ==
    /\ stage' = [stage EXCEPT !.open = FALSE]
    /\ \/ /\ stage.open
          /\ slot' = stage /\ active' = TRUE
          /\ done' = done \cup {r.by}
          /\ answer' = [sub |-> r.sub, by |-> r.by, ok |-> TRUE]
       \/ /\ slot' \in (IF stage.open THEN {slot, None} ELSE {slot})
          /\ answer' = [sub |-> r.sub, by |-> r.by, ok |-> FALSE]
          /\ UNCHANGED <<active, done>>

SlotErase(r) ==
    /\ \/ /\ slot' = None /\ active' = FALSE
          /\ done' = done \cup {r.by}
          /\ answer' = [sub |-> r.sub, by |-> r.by, ok |-> TRUE]
       \/ /\ answer' = [sub |-> r.sub, by |-> r.by, ok |-> FALSE]
          /\ UNCHANGED <<slot, active, done>>
    /\ UNCHANGED stage

\* SEL_SET: refused for a slot that is not this keyboard's.
SlotSelect(r) ==
    /\ \/ /\ slot # None
          /\ active' = TRUE
          /\ answer' = [sub |-> r.sub, by |-> r.by, ok |-> TRUE]
       \/ /\ answer' = [sub |-> r.sub, by |-> r.by, ok |-> FALSE]
          /\ UNCHANGED active
    /\ UNCHANGED <<stage, slot, done>>

\* SLOT_READ: refused for an empty slot.
SlotRead(r) ==
    /\ answer' = [sub |-> r.sub, by |-> r.by, ok |-> slot # None]
    /\ UNCHANGED <<stage, slot, active, done>>

\* INFO, PRESSED, SLOT_INFO and what is not ours (raw_hid_receive) change
\* nothing that the page depends on.
Other(r) ==
    /\ answer' = [sub |-> r.sub, by |-> r.by, ok |-> TRUE]
    /\ UNCHANGED <<stage, slot, active, done>>

Execute(r) ==
    \/ r.sub = "BEGIN"  /\ SlotBegin(r)
    \/ r.sub = "DATA"   /\ SlotData(r)
    \/ r.sub = "COMMIT" /\ SlotCommit(r)
    \/ r.sub = "ERASE"  /\ SlotErase(r)
    \/ r.sub = "SELECT" /\ SlotSelect(r)
    \/ r.sub = "READ"   /\ SlotRead(r)
    \/ r.sub \in Query \cup {"VIA"} /\ Other(r)

\* cliLoopIdle up to the commands: linkKbdUpdate, which may see a keyboard come or
\* go and choose the slot anew, and the entry of qmkUpdate.
kbdStoreSelect == active' \in {active, FALSE, slot # None}
Turn ==
    /\ at = "top"
    /\ kbdStoreSelect
    /\ is_busy' = TRUE
    /\ at' = IF is_busy THEN "apply" ELSE "drain"
    /\ UNCHANGED <<page, raw_queue, nested, answer, ep, stage, slot, profile, done>>

\* qmkUpdate: the while loop over usbdHidGetRaw.
Handle ==
    /\ at = "drain"
    /\ raw_queue # <<>>
    /\ Execute(Head(raw_queue))
    /\ raw_queue' = Tail(raw_queue)
    /\ at' = "answer"
    /\ UNCHANGED <<page, nested, is_busy, ep, profile>>

\* usbdHidSendRaw: the answer goes out, or is dropped after 10 ms.
SendRaw ==
    /\ at = "answer"
    /\ ep' = IF ep = None THEN answer ELSE ep
    /\ answer' = None
    /\ at' = "drain"
    /\ UNCHANGED <<page, nested, is_busy, raw_queue, stage, slot, active, profile, done>>

\* The queue is empty: keyboard_task, which may wait.
m_TaskBegin ==      \* the flag is cleared too early
    /\ at = "drain"
    /\ raw_queue = <<>>
    /\ at' = "task" /\ is_busy' = FALSE
    /\ UNCHANGED <<page, raw_queue, nested, answer, ep, stage, slot, active, profile, done>>
TaskBegin ==
    /\ at = "drain"
    /\ raw_queue = <<>>
    /\ at' = "task"
    /\ UNCHANGED <<page, raw_queue, nested, is_busy, answer, ep, stage, slot, active, profile, done>>

\* wait_ms in keyboard_task: delay runs cliLoopIdle.
TaskWaits ==
    /\ at = "task" /\ ~nested
    /\ nested' = TRUE /\ at' = "top"
    /\ UNCHANGED <<page, raw_queue, is_busy, answer, ep, stage, slot, active, profile, done>>

\* keyboard_task is over, and with it qmkUpdate.
TaskEnd ==
    /\ at = "task"
    /\ at' = "apply" /\ is_busy' = FALSE
    /\ UNCHANGED <<page, raw_queue, nested, answer, ep, stage, slot, active, profile, done>>

\* The end of cliLoopIdle: linkKbdApplySlot, unless QMK is in the middle of
\* something.  The turn ends, the nested one in the wait that it began in.
Apply ==
    /\ at = "apply"
    /\ profile' = IF is_busy THEN profile ELSE active
    /\ at' = IF nested THEN "task" ELSE "top"
    /\ nested' = FALSE
    /\ UNCHANGED <<page, raw_queue, is_busy, answer, ep, stage, slot, active, done>>

-----------------------------------------------------------------------------
Next ==
    \/ ViaSend \/ Poll \/ PollEnds \/ Visibility \/ Attach
    \/ \E o \in Ops : Click(o) \/ Begin(o)
    \/ Read
    \/ \E c \in Cos : Timeout(c)
    \/ Turn \/ Handle \/ SendRaw \/ TaskBegin \/ TaskWaits \/ TaskEnd \/ Apply

Spec == Init /\ [][Next]_vars

-----------------------------------------------------------------------------
(* Properties *)

Stage  == [open : BOOLEAN, by : Ops \cup {None}, got : [Chunks -> Ops \cup {None}]]

\* Every variable has its type and the raw queue its size.
TypeOK ==
    /\ device \in BOOLEAN /\ busy \in BOOLEAN /\ paused \in BOOLEAN
    /\ pending = None \/ pending \in [by : Cos, sub : Subs]
    /\ \A c \in Cos : pc[c] \in Subs \cup Kinds \cup {"idle", "sleep", "pin", "finish", "finishing",
                                          "recover", "recovering", "done", "failed"}
    /\ \A o \in Ops : sent[o] \in 0 .. CHUNKS
    /\ Len(raw_queue) <= HID_RAW_QUEUE_MAX
    /\ \A i \in DOMAIN raw_queue : raw_queue[i].by \in Cos \cup {"via"}
    /\ at \in {"top", "drain", "answer", "task", "apply"}
    /\ nested \in BOOLEAN /\ is_busy \in BOOLEAN
    /\ answer = None \/ answer \in Answer
    /\ ep = None \/ ep \in Answer
    /\ stage \in Stage
    /\ slot = None \/ slot \in Stage
    /\ active \in BOOLEAN /\ profile \in BOOLEAN
    /\ done \subseteq Ops

\* A layout in the slot is whole: every piece was sent for the header it is
\* stored with, whatever requests and answers were lost or late, and whatever
\* else the page sent in between.
SavedIsWhole == slot # None => \A i \in Chunks : slot.got[i] = slot.by

\* The page reports an upload as saved only when the board has saved that one.
\* (Not so for two erases at the same time: the answer to the one is taken for
\* the answer to the other.)
NoFalseSuccess ==
    \A o \in Ops : pc[o] \in {"pin", "finish", "finishing", "done"} /\ sent[o] = CHUNKS => o \in done

\* Every request finds room in the raw queue: each client awaits its answer, or
\* waits long enough to know that it is lost, before it asks again.
NothingDropped ==
    [][pending' # pending /\ pending' # None =>
            \E i \in DOMAIN raw_queue' :
                raw_queue'[i].by = pending'.by /\ raw_queue'[i].sub = pending'.sub]_vars

\* While keyboard_task waits a whole turn of the loop runs inside of it, in which
\* keyboards come and go and another slot may be chosen.  Nothing that QMK works
\* with changes under it: no command is carried out, and no profile is applied
\* before the task is over; but at the end of each turn of the main loop the
\* profile is that of the active slot, whenever it was chosen.
TaskUndisturbed ==
    /\ [][nested => UNCHANGED <<stage, slot, done, profile>>]_vars
    /\ [](at = "top" /\ ~nested => profile = active)
=============================================================================
