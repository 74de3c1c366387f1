----------------------------- MODULE LinkKbd_proofs -----------------------------
(***************************************************************************)
(* Proofs about LinkKbd, for every number of instances, every size of the  *)
(* queue, every set of devices and every set of keys.                      *)
(*                                                                         *)
(* EndsAsHeld needs to know what hid_info says of a device that is not     *)
(* being mounted (InfoOK), since the callback of a report trusts it.       *)
(* SelectedIsPreferred needs to know what the selection loop has read so   *)
(* far (Scanned) and that its result is not touched until the poll sees    *)
(* another change (Settled).                                               *)
(***************************************************************************)
EXTENDS LinkKbd, TLAPS, SequenceTheorems

(* What Told says without CHOOSE: the last report of instance i in q, or   *)
(* the matrix of that instance, holds the keys ks.                         *)
Of(q, i) == {k \in DOMAIN q : q[k].instance = i /\ q[k].is_keyboard}
Ends(q, src, i, ks) ==
  \/ Of(q, i) = {} /\ src[i] = ks
  \/ \E k \in Of(q, i) : (\A j \in Of(q, i) : j <= k) /\ q[k].keys = ks
EndsOK == \A i \in Inst : clean[i] => Ends(report_queue, src_matrix, i, held[i])

(* core1 writes hid_info so that core0 reads what is plugged, but for the  *)
(* instance whose mount is under way.                                      *)
InfoOK ==
  /\ \A i \in Inst : hid_info[i].is_connect <=> plugged[i] # NoDev
  /\ \A i \in Inst : plugged[i] \notin Keyboard => held[i] = {}
  /\ \A i \in in_mount : plugged[i] # NoDev /\ \A j \in in_mount : j = i
  /\ \A i \in Inst \ in_mount :
       /\ hid_info[i].dev = plugged[i]
       /\ hid_info[i].is_keyboard <=> plugged[i] \in Keyboard

(* v is the last device among the instances below n.                       *)
LastBelow(n, v) ==
  \/ v = NoDev /\ \A j \in Inst : j < n => plugged[j] = NoDev
  \/ /\ v # NoDev
     /\ \E j \in Inst : /\ j < n /\ plugged[j] = v
                       /\ \A k \in Inst : j < k /\ k < n => plugged[k] = NoDev

(* What Preferred says without CHOOSE.                                     *)
IsPreferred(v) ==
  \/ \E i \in Inst : /\ plugged[i] \in Keyboard /\ v = plugged[i]
                    /\ \A j \in Inst : j < i => plugged[j] \notin Keyboard
  \/ (\A i \in Inst : plugged[i] \notin Keyboard) /\ LastBelow(CFG_TUH_HID, v)

Same(i) == connect_pre[i] = hid_info[i].is_connect
Quiet   == ~torn /\ ~missed

LoopOK ==
  /\ step # "select" => found = NoDev
  /\ step # "poll" \/ idx = 0 => ~is_changed
Scanned ==
  step = "select" /\ Quiet /\ (\A j \in Inst : j < idx => Same(j)) =>
    (\A j \in Inst : j < idx => plugged[j] \notin Keyboard) /\ LastBelow(idx, found)
Settled ==
  step # "select" /\ ~is_changed /\ Quiet /\ (\A j \in Inst : Same(j)) => IsPreferred(selected)
ChoiceOK == LoopOK /\ Scanned /\ Settled

IInv == TypeOK /\ InfoOK /\ EndsOK /\ MatrixIsMerge /\ ChoiceOK

-------------------------------------------------------------------------------
LEMMA InstFacts ==
  /\ Inst \subseteq Nat
  /\ LastInst \in Inst /\ 0 \in Inst
  /\ \A i \in Inst : i < LastInst => i + 1 \in Inst
  /\ \A i \in Inst : i <= LastInst
  BY SizeAssumption DEF Inst, LastInst

LEMMA TypeInit == Init => TypeOK
<1> SUFFICES ASSUME Init PROVE TypeOK
  OBVIOUS
<1>1. report_queue \in Seq(Report) /\ Len(report_queue) <= USBH_HID_QUEUE_MAX
  BY SizeAssumption DEF Init
<1>2. QED
  BY <1>1, InstFacts DEF Init, TypeOK, NoInfo, Dev

LEMMA TypeNext == TypeOK /\ [Next]_vars => TypeOK'
<1> SUFFICES ASSUME TypeOK, [Next]_vars PROVE TypeOK'
  OBVIOUS
<1> USE InstFacts DEF TypeOK
<1>1. ASSUME NEW i \in Inst, NEW d \in Dev, MountBegin(i, d) PROVE TypeOK'
  BY ZenonT(30), <1>1 DEF MountBegin, scan, link
<1>2. ASSUME NEW i \in Inst, MountEnd(i) PROVE TypeOK'
  BY <1>2 DEF MountEnd, scan, link
<1>3. ASSUME NEW i \in Inst, Umount(i) PROVE TypeOK'
  BY <1>3 DEF Umount, scan, link, NoInfo
<1>4. ASSUME NEW i \in Inst, NEW keys \in SUBSET Key, ReportReceived(i, keys) PROVE TypeOK'
  <2> DEFINE r == [instance |-> i, is_keyboard |-> hid_info[i].is_keyboard, keys |-> keys]
  <2>1. r \in Report
    BY DEF Report
  <2>2. report_queue' \in Seq(Report) /\ Len(report_queue') <= USBH_HID_QUEUE_MAX
    <3>1. CASE Len(report_queue) < USBH_HID_QUEUE_MAX
      <4>1. report_queue' = Append(report_queue, r)
        BY <1>4, <3>1, SizeAssumption, LenProperties DEF ReportReceived
      <4>2. QED
        BY <2>1, <3>1, <4>1, SizeAssumption, AppendProperties, LenProperties
    <3>2. CASE ~(Len(report_queue) < USBH_HID_QUEUE_MAX)
      BY <1>4, <3>2 DEF ReportReceived
    <3>3. QED
      BY <3>1, <3>2
  <2>3. QED
    BY <1>4, <2>2 DEF ReportReceived, scan, link
<1>5. CASE Poll
  BY <1>5 DEF Poll, PollWith, AfterPoll, Goto, core1, link, linkClearInstance, SetSource
<1>6. CASE Select
  <2>1. Candidate \in Dev \cup {NoDev}
    BY DEF Candidate
  <2>2. QED
    BY <1>6, <2>1 DEF Select, SelectWith, Goto, core1, link
<1>7. CASE Drain
  <2>1. /\ report_queue' \in Seq(Report) /\ Len(report_queue') <= USBH_HID_QUEUE_MAX
        /\ Head(report_queue) \in Report
    BY <1>7, HeadTailProperties, LenProperties, SizeAssumption DEF Drain
  <2>2. Head(report_queue).instance \in Inst /\ Head(report_queue).keys \in SUBSET Key
    BY <2>1 DEF Report
  <2>3. QED
    BY <1>7, <2>1, <2>2 DEF Drain, core1, scan, link, linkSetKeyboardReport, SetSource
<1>8. CASE DrainEnd
  BY <1>8 DEF DrainEnd, Goto, core1, scan, link
<1>9. CASE QmkUpdate
  <2>1. Merged(src_matrix) \in SUBSET Key
    BY DEF Merged
  <2>2. QED
    BY <1>9, <2>1 DEF QmkUpdate, Goto, core1, scan
<1>10. CASE QmkBusy
  BY <1>10 DEF QmkBusy, Goto, core1, scan, link
<1>11. CASE SetPassthrough
  BY <1>11 DEF SetPassthrough, core1, scan, link
<1>12. CASE UNCHANGED vars
  BY <1>12 DEF vars, core1, scan, link
<1>13. QED
  BY <1>1, <1>2, <1>3, <1>4, <1>5, <1>6, <1>7, <1>8, <1>9, <1>10, <1>11, <1>12
  DEF Next, Core0

-------------------------------------------------------------------------------
(* Merge and matrix.                                                       *)
LEMMA MergeNext == TypeOK /\ MatrixIsMerge /\ [Next]_vars => MatrixIsMerge'
<1> SUFFICES ASSUME TypeOK, MatrixIsMerge, [Next]_vars PROVE MatrixIsMerge'
  OBVIOUS
<1>0. ASSUME NEW src, SetSource(src), matrix' = matrix PROVE MatrixIsMerge'
  BY <1>0, Zenon DEF SetSource, MatrixIsMerge, Merged
<1>1. ASSUME UNCHANGED <<link, matrix>> PROVE MatrixIsMerge'
  BY <1>1 DEF link, MatrixIsMerge, Merged
<1>2. CASE Poll
  <2>1. matrix' = matrix /\ (UNCHANGED link \/ \E src : SetSource(src))
    BY <1>2 DEF Poll, PollWith, linkClearInstance
  <2>2. QED
    BY <1>0, <1>1, <2>1
<1>3. CASE Drain
  <2>1. matrix' = matrix /\ (UNCHANGED link \/ \E src : SetSource(src))
    BY <1>3 DEF Drain, linkSetKeyboardReport
  <2>2. QED
    BY <1>0, <1>1, <2>1
<1>4. CASE QmkUpdate
  BY <1>4 DEF QmkUpdate, MatrixIsMerge, Merged
<1>5. CASE UNCHANGED vars
  BY <1>1, <1>5 DEF vars
<1>6. QED
  BY <1>1, <1>2, <1>3, <1>4, <1>5
  DEF Next, Core0, MountBegin, MountEnd, Umount, ReportReceived, Select, SelectWith, DrainEnd,
      QmkBusy, SetPassthrough

-------------------------------------------------------------------------------
(* What hid_info says.                                                     *)
LEMMA InfoNext == TypeOK /\ InfoOK /\ [Next]_vars => InfoOK'
<1> SUFFICES ASSUME TypeOK, InfoOK, [Next]_vars PROVE InfoOK'
  OBVIOUS
<1> USE DEF TypeOK, InfoOK
<1>1. ASSUME NEW i \in Inst, NEW d \in Dev, MountBegin(i, d) PROVE InfoOK'
  <2>1. d # NoDev
    BY DevAssumption DEF Dev
  <2>2. held[i] = {}
    BY <1>1, DevAssumption DEF MountBegin
  <2>3. /\ plugged'[i] = d /\ hid_info'[i].is_connect /\ held' = held /\ in_mount' = {i}
        /\ \A j \in Inst \ {i} : plugged'[j] = plugged[j] /\ hid_info'[j] = hid_info[j]
    BY <1>1 DEF MountBegin
  <2>4. in_mount = {}
    BY <1>1 DEF MountBegin
  <2>5. QED
    BY <2>1, <2>2, <2>3, <2>4
<1>2. ASSUME NEW i \in Inst, MountEnd(i) PROVE InfoOK'
  <2>1. /\ plugged' = plugged /\ held' = held
        /\ hid_info'[i] = [is_connect |-> TRUE, is_keyboard |-> plugged[i] \in Keyboard,
                            dev |-> plugged[i]]
        /\ \A j \in Inst \ {i} : hid_info'[j] = hid_info[j]
    BY <1>2 DEF MountEnd
  <2>2. plugged[i] # NoDev
    BY <1>2 DEF MountEnd
  <2>3. in_mount' = {} /\ \A j \in Inst \ {i} : j \notin in_mount
    BY <1>2 DEF MountEnd
  <2>4. /\ hid_info'[i].is_connect /\ hid_info'[i].dev = plugged[i]
        /\ hid_info'[i].is_keyboard <=> plugged[i] \in Keyboard
    <3> DEFINE b == plugged[i] \in Keyboard
    <3>1. hid_info'[i] = [is_connect |-> TRUE, is_keyboard |-> b, dev |-> plugged[i]]
      BY <2>1
    <3>2. b \in BOOLEAN
      OBVIOUS
    <3> HIDE DEF b
    <3>3. /\ hid_info'[i].is_connect /\ hid_info'[i].dev = plugged[i]
          /\ hid_info'[i].is_keyboard = b
      BY <3>1
    <3>4. QED
      BY <3>2, <3>3 DEF b
  <2>5. \A j \in Inst \ {i} : /\ hid_info[j].dev = plugged[j]
                              /\ hid_info[j].is_keyboard <=> plugged[j] \in Keyboard
    BY <2>3
  <2>6. \A j \in Inst : hid_info'[j].is_connect <=> plugged'[j] # NoDev
    BY <2>1, <2>2, <2>4
  <2>7. \A j \in Inst : /\ hid_info'[j].dev = plugged'[j]
                        /\ hid_info'[j].is_keyboard <=> plugged'[j] \in Keyboard
    BY <2>1, <2>4, <2>5
  <2>8. QED
    BY <2>1, <2>3, <2>6, <2>7
<1>3. ASSUME NEW i \in Inst, Umount(i) PROVE InfoOK'
  <2>1. /\ plugged'[i] = NoDev /\ hid_info'[i] = NoInfo /\ held'[i] = {}
        /\ \A j \in Inst \ {i} : /\ plugged'[j] = plugged[j] /\ hid_info'[j] = hid_info[j]
                                  /\ held'[j] = held[j]
        /\ in_mount' = in_mount /\ in_mount = {}
    BY <1>3 DEF Umount
  <2>2. ~hid_info'[i].is_connect /\ hid_info'[i].dev = NoDev /\ ~hid_info'[i].is_keyboard
    <3>1. hid_info'[i] = [is_connect |-> FALSE, is_keyboard |-> FALSE, dev |-> NoDev]
      BY <2>1 DEF NoInfo
    <3>2. QED
      BY <3>1
  <2>3. NoDev \notin Keyboard
    BY DevAssumption
  <2>4. \A j \in Inst : hid_info'[j].is_connect <=> plugged'[j] # NoDev
    BY <2>1, <2>2
  <2>5. \A j \in Inst : /\ hid_info'[j].dev = plugged'[j]
                        /\ hid_info'[j].is_keyboard <=> plugged'[j] \in Keyboard
    BY <2>1, <2>2, <2>3
  <2>6. QED
    BY <2>1, <2>3, <2>4, <2>5
<1>4. ASSUME NEW i \in Inst, NEW keys \in SUBSET Key, ReportReceived(i, keys),
             plugged[i] \in Keyboard \/ keys = {}
      PROVE  InfoOK'
  <2>1. /\ plugged' = plugged /\ hid_info' = hid_info /\ in_mount' = in_mount
        /\ held'[i] = keys /\ \A j \in Inst \ {i} : held'[j] = held[j]
    BY <1>4 DEF ReportReceived
  <2>2. QED
    BY <1>4, <2>1
<1>5. ASSUME UNCHANGED core1 PROVE InfoOK'
  BY <1>5 DEF core1
<1>6. CASE UNCHANGED vars
  BY <1>5, <1>6 DEF vars
<1>7. QED
  BY <1>1, <1>2, <1>3, <1>4, <1>5, <1>6
  DEF Next, Core0, Poll, PollWith, Select, SelectWith, Drain, DrainEnd, QmkUpdate, QmkBusy,
      SetPassthrough

-------------------------------------------------------------------------------
(* The end of the queue: one lemma for each way it changes.                *)
LEMMA AppendFacts ==
  ASSUME NEW q \in Seq(Report), NEW r \in Report
  PROVE  /\ Len(q) \in Nat /\ DOMAIN q = 1..Len(q) /\ DOMAIN Append(q, r) = 1..(Len(q) + 1)
         /\ Append(q, r)[Len(q) + 1] = r
         /\ \A k \in 1..Len(q) : Append(q, r)[k] = q[k]
  BY AppendProperties, LenProperties

LEMMA EndsNew ==
  ASSUME NEW q \in Seq(Report), NEW r \in Report, NEW src, NEW i \in Inst,
         r.instance = i, r.is_keyboard
  PROVE  Ends(Append(q, r), src, i, r.keys)
<1> DEFINE p == Append(q, r)
<1>1. Len(q) \in Nat /\ DOMAIN p = 1..(Len(q) + 1) /\ p[Len(q) + 1] = r
  BY AppendFacts
<1> HIDE DEF p
<1>2. Len(q) + 1 \in Of(p, i) /\ \A j \in Of(p, i) : j <= Len(q) + 1
  BY <1>1 DEF Of
<1>3. QED
  BY <1>1, <1>2 DEF Ends, p

LEMMA EndsAppend ==
  ASSUME NEW q \in Seq(Report), NEW r \in Report, NEW src, NEW i \in Inst, NEW ks,
         Ends(q, src, i, ks), ~(r.instance = i /\ r.is_keyboard)
  PROVE  Ends(Append(q, r), src, i, ks)
<1> DEFINE p == Append(q, r)
<1>1. /\ Len(q) \in Nat /\ DOMAIN q = 1..Len(q) /\ DOMAIN p = 1..(Len(q) + 1)
      /\ p[Len(q) + 1] = r /\ \A k \in 1..Len(q) : p[k] = q[k]
  BY AppendFacts
<1> HIDE DEF p
<1>2. Of(p, i) = Of(q, i) /\ \A k \in Of(q, i) : p[k] = q[k]
  BY <1>1 DEF Of
<1>3. QED
  BY <1>2 DEF Ends, p

LEMMA EndsTail ==
  ASSUME NEW q \in Seq(Report), q # <<>>, NEW src \in [Inst -> SUBSET Key], NEW new,
         NEW i \in Inst, NEW ks, Ends(q, src, i, ks),
         IF Head(q).instance = i /\ Head(q).is_keyboard THEN new[i] = Head(q).keys
                                                       ELSE new[i] = src[i]
  PROVE  Ends(Tail(q), new, i, ks)
<1> DEFINE p == Tail(q)
<1>1. /\ Len(q) \in Nat /\ Len(q) >= 1 /\ DOMAIN q = 1..Len(q) /\ Head(q) = q[1]
  BY LenProperties, EmptySeq
<1>2. /\ DOMAIN p = 1..(Len(q) - 1)
      /\ \A k \in 1..(Len(q) - 1) : p[k] = q[k + 1]
  BY HeadTailProperties, LenProperties
<1> HIDE DEF p
<1>3. Of(p, i) = {k \in 1..(Len(q) - 1) : k + 1 \in Of(q, i)}
  BY <1>1, <1>2 DEF Of
<1>4. CASE Of(q, i) = {}
  <2>1. ~(Head(q).instance = i /\ Head(q).is_keyboard)
    BY <1>1, <1>4 DEF Of
  <2>2. Of(p, i) = {} /\ new[i] = ks
    BY <1>3, <1>4, <2>1 DEF Ends
  <2>3. QED
    BY <2>2 DEF Ends, p
<1>5. ASSUME NEW k \in Of(q, i), \A j \in Of(q, i) : j <= k, q[k].keys = ks
      PROVE  Ends(p, new, i, ks)
  <2>1. k \in 1..Len(q)
    BY <1>1 DEF Of
  <2>2. CASE k = 1
    <3>1. Of(p, i) = {}
      <4> SUFFICES ASSUME NEW n \in Of(p, i) PROVE FALSE
        OBVIOUS
      <4>1. n \in 1..(Len(q) - 1) /\ n + 1 \in Of(q, i)
        BY <1>3
      <4>2. n + 1 <= 1
        BY <1>5, <2>2, <4>1
      <4>3. QED
        BY <1>1, <4>1, <4>2
    <3>2. new[i] = ks
      BY <1>1, <1>5, <2>2 DEF Of
    <3>3. QED
      BY <3>1, <3>2 DEF Ends
  <2>3. CASE k # 1
    <3>1. k - 1 \in 1..(Len(q) - 1) /\ (k - 1) + 1 = k
      BY <1>1, <2>1, <2>3
    <3>2. k - 1 \in Of(p, i) /\ p[k - 1].keys = ks
      BY <1>2, <1>3, <1>5, <3>1
    <3>3. \A j \in Of(p, i) : j <= k - 1
      <4> SUFFICES ASSUME NEW j \in Of(p, i) PROVE j <= k - 1
        OBVIOUS
      <4>1. j \in 1..(Len(q) - 1) /\ j + 1 \in Of(q, i)
        BY <1>3
      <4>2. j + 1 <= k
        BY <1>5, <4>1
      <4>3. QED
        BY <1>1, <2>1, <4>1, <4>2
    <3>4. QED
      BY <3>2, <3>3 DEF Ends
  <2>4. QED
    BY <2>2, <2>3
<1>6. QED
  BY <1>4, <1>5 DEF Ends, p

(* Ends is what Told says. *)
LEMMA EndsIsTold ==
  ASSUME TypeOK, NEW i \in Inst, NEW ks, Ends(report_queue, src_matrix, i, ks)
  PROVE  Told(i) = ks
<1>1. Queued(i) = Of(report_queue, i)
  BY DEF Queued, Of
<1>2. Queued(i) \subseteq Nat
  BY LenProperties DEF Queued, TypeOK
<1>3. CASE Queued(i) = {}
  BY <1>1, <1>3 DEF Ends, Told
<1>4. ASSUME NEW k \in Queued(i), \A j \in Queued(i) : j <= k, report_queue[k].keys = ks
      PROVE  Told(i) = ks
  <2>1. (CHOOSE n \in Queued(i) : \A j \in Queued(i) : j <= n) = k
    BY <1>2, <1>4
  <2>2. QED
    BY <1>4, <2>1 DEF Told
<1>5. QED
  BY <1>1, <1>3, <1>4 DEF Ends

LEMMA EndsNext == TypeOK /\ InfoOK /\ EndsOK /\ [Next]_vars => EndsOK'
<1> SUFFICES ASSUME TypeOK, InfoOK, EndsOK, [Next]_vars, NEW n \in Inst, clean'[n]
             PROVE  Ends(report_queue, src_matrix, n, held[n])'
  BY DEF EndsOK
<1> DEFINE Goal == Ends(report_queue', src_matrix', n, held'[n])
<1>0. ASSUME report_queue' = report_queue, src_matrix'[n] = src_matrix[n], held'[n] = held[n],
             clean[n]
      PROVE  Goal
  BY <1>0 DEF EndsOK, Ends
<1>1. ASSUME UNCHANGED <<report_queue, src_matrix, held, clean>> PROVE Goal
  BY <1>0, <1>1
<1>2. ASSUME NEW i \in Inst, Umount(i) PROVE Goal
  <2>1. clean[n] /\ n # i
    BY <1>2 DEF Umount, TypeOK
  <2>2. held'[n] = held[n] /\ report_queue' = report_queue /\ src_matrix' = src_matrix
    BY <1>2, <2>1 DEF Umount, TypeOK, link
  <2>3. QED
    BY <1>0, <2>1, <2>2
<1>3. ASSUME NEW i \in Inst, NEW keys \in SUBSET Key, ReportReceived(i, keys),
             plugged[i] \in Keyboard \/ keys = {}
      PROVE  Goal
  <2>0. src_matrix' = src_matrix /\ held' = [held EXCEPT ![i] = keys]
    BY <1>3 DEF ReportReceived, link
  <2>1. hid_info[i].is_keyboard <=> plugged[i] \in Keyboard
    BY <1>3 DEF ReportReceived, InfoOK
  <2> DEFINE r == [instance |-> i, is_keyboard |-> hid_info[i].is_keyboard, keys |-> keys]
  <2>2. r \in Report
    BY DEF Report, TypeOK
  <2>3. CASE n # i
    <3>1. clean[n] /\ held'[n] = held[n]
      BY <1>3, <2>0, <2>3 DEF ReportReceived, TypeOK
    <3>2. Ends(report_queue, src_matrix, n, held[n])
      BY <3>1 DEF EndsOK
    <3>3. report_queue' = Append(report_queue, r) \/ report_queue' = report_queue
      BY <1>3 DEF ReportReceived
    <3>4. CASE report_queue' = report_queue
      BY <1>0, <2>0, <3>1, <3>4
    <3>5. CASE report_queue' = Append(report_queue, r)
      BY <2>0, <2>2, <2>3, <3>1, <3>2, <3>5, EndsAppend DEF TypeOK
    <3>6. QED
      BY <3>3, <3>4, <3>5
  <2>4. CASE n = i /\ ~hid_info[i].is_keyboard
    <3>1. keys = {} /\ held[i] = {} /\ held'[i] = {}
      BY <1>3, <2>0, <2>1, <2>4 DEF InfoOK, TypeOK
    <3>2. clean[i]
      BY <1>3, <2>4 DEF ReportReceived, TypeOK
    <3>3. report_queue' = Append(report_queue, r) \/ report_queue' = report_queue
      BY <1>3 DEF ReportReceived
    <3>4. CASE report_queue' = report_queue
      BY <1>0, <2>0, <2>4, <3>1, <3>2, <3>4
    <3>5. CASE report_queue' = Append(report_queue, r)
      <4>1. Ends(report_queue, src_matrix, n, held'[n])
        BY <2>4, <3>1, <3>2 DEF EndsOK
      <4>2. QED
        BY <2>0, <2>2, <2>4, <3>5, <4>1, EndsAppend DEF TypeOK
    <3>6. QED
      BY <3>3, <3>4, <3>5
  <2>5. CASE n = i /\ hid_info[i].is_keyboard
    <3>1. report_queue' = Append(report_queue, r) /\ held'[n] = keys
      BY <1>3, <2>0, <2>5 DEF ReportReceived, TypeOK
    <3>2. Ends(report_queue', src_matrix', n, keys)
      BY <2>0, <2>2, <2>5, <3>1, EndsNew DEF TypeOK
    <3>3. QED
      BY <3>1, <3>2
  <2>6. QED
    BY <2>3, <2>4, <2>5
<1>4. CASE Poll
  <2>0. report_queue' = report_queue /\ held' = held /\ idx \in Inst
    BY <1>4 DEF Poll, PollWith, core1, TypeOK
  <2>1. CASE connect_pre[idx] /\ ~hid_info[idx].is_connect
    <3>1. /\ src_matrix' = [src_matrix EXCEPT ![idx] = {}]
          /\ clean' = [clean EXCEPT ![idx] = (Queued(idx) = {})]
      BY <1>4, <2>1 DEF Poll, PollWith, linkClearInstance, SetSource
    <3>2. CASE n = idx
      <4>1. Of(report_queue, n) = {} /\ src_matrix'[n] = {}
        BY <2>0, <3>1, <3>2 DEF Queued, Of, TypeOK
      <4>2. held[n] = {}
        BY <2>0, <2>1, <3>2, DevAssumption DEF InfoOK
      <4>3. QED
        BY <2>0, <4>1, <4>2 DEF Ends
    <3>3. CASE n # idx
      <4>1. clean[n] /\ src_matrix'[n] = src_matrix[n]
        BY <2>0, <3>1, <3>3 DEF TypeOK
      <4>2. QED
        BY <1>0, <2>0, <4>1
    <3>4. QED
      BY <3>2, <3>3
  <2>2. CASE ~(connect_pre[idx] /\ ~hid_info[idx].is_connect)
    <3>1. src_matrix' = src_matrix /\ clean' = clean
      BY <1>4, <2>2 DEF Poll, PollWith, link
    <3>2. QED
      BY <1>1, <2>0, <3>1
  <2>3. QED
    BY <2>1, <2>2
<1>5. CASE Drain
  <2> DEFINE r == Head(report_queue)
  <2>1. /\ report_queue' = Tail(report_queue) /\ report_queue # <<>> /\ held' = held
        /\ r \in Report
    BY <1>5, HeadTailProperties DEF Drain, core1, TypeOK
  <2>2. /\ clean[n]
        /\ IF r.instance = n /\ r.is_keyboard THEN src_matrix'[n] = r.keys
                                             ELSE src_matrix'[n] = src_matrix[n]
    BY <1>5, <2>1 DEF Drain, linkSetKeyboardReport, SetSource, link, Report, TypeOK
  <2>3. Ends(report_queue, src_matrix, n, held[n])
    BY <2>2 DEF EndsOK
  <2>4. QED
    BY <2>1, <2>2, <2>3, EndsTail DEF TypeOK
<1>6. CASE UNCHANGED vars
  BY <1>1, <1>6 DEF vars, core1, link
<1>7. QED
  BY <1>1, <1>2, <1>3, <1>4, <1>5, <1>6
  DEF Next, Core0, MountBegin, MountEnd, Select, SelectWith, DrainEnd, QmkUpdate, QmkBusy,
      SetPassthrough, core1, link

-------------------------------------------------------------------------------
(* The choice of the layout.                                               *)
LEMMA PreferredIs ==
  ASSUME TypeOK, NEW v, IsPreferred(v)
  PROVE  v = Preferred
<1> DEFINE kbd == {i \in Inst : plugged[i] \in Keyboard}
           any == {i \in Inst : plugged[i] # NoDev}
<1>0. Inst \subseteq Nat /\ \A i \in Inst : i < CFG_TUH_HID
  BY SizeAssumption DEF Inst
<1>1. ASSUME NEW i \in Inst, plugged[i] \in Keyboard, v = plugged[i],
             \A j \in Inst : j < i => plugged[j] \notin Keyboard
      PROVE  v = Preferred
  <2>1. i \in kbd /\ \A j \in kbd : i <= j
    BY <1>0, <1>1
  <2>2. (CHOOSE n \in kbd : \A j \in kbd : n <= j) = i
    <3>1. kbd \subseteq Nat
      BY <1>0
    <3> HIDE DEF kbd
    <3>2. \A n \in kbd : (\A j \in kbd : n <= j) => n = i
      BY <2>1, <3>1
    <3>3. QED
      BY <2>1, <3>2
  <2>3. Preferred = plugged[CHOOSE n \in kbd : \A j \in kbd : n <= j]
    BY <2>1 DEF Preferred
  <2>4. QED
    BY <1>1, <2>2, <2>3
<1>2. ASSUME kbd = {}, v = NoDev, \A j \in Inst : plugged[j] = NoDev
      PROVE  v = Preferred
  <2>1. any = {}
    BY <1>2
  <2>2. QED
    BY <1>2, <2>1 DEF Preferred
<1>3. ASSUME kbd = {}, NEW i \in Inst, plugged[i] = v, v # NoDev,
             \A j \in Inst : i < j => plugged[j] = NoDev
      PROVE  v = Preferred
  <2>1. i \in any /\ \A j \in any : j <= i
    BY <1>0, <1>3
  <2>2. (CHOOSE n \in any : \A j \in any : j <= n) = i
    <3>1. any \subseteq Nat
      BY <1>0
    <3> HIDE DEF any
    <3>2. \A n \in any : (\A j \in any : j <= n) => n = i
      BY <2>1, <3>1
    <3>3. QED
      BY <2>1, <3>2
  <2>3. Preferred = plugged[CHOOSE n \in any : \A j \in any : j <= n]
    BY <1>3, <2>1 DEF Preferred
  <2>4. QED
    BY <1>3, <2>2, <2>3
<1>4. QED
  BY <1>0, <1>1, <1>2, <1>3 DEF IsPreferred, LastBelow

(* The part of the state that ChoiceOK depends on, unchanged. *)
LEMMA ChoiceKept ==
  ASSUME ChoiceOK, step \in {"drain", "qmk"} \/ step' = step,
         step' # "select" \/ idx' = idx, step' = "select" => step = "select",
         step' = "poll" => step # "poll" \/ idx' = idx,
         UNCHANGED <<scan, plugged, torn, missed>>,
         \A i \in Inst : hid_info'[i].is_connect = hid_info[i].is_connect
  PROVE  ChoiceOK'
<1>1. /\ connect_pre' = connect_pre /\ is_changed' = is_changed /\ found' = found
      /\ selected' = selected /\ plugged' = plugged /\ torn' = torn /\ missed' = missed
  BY DEF scan
<1>2. (\A i \in Inst : Same(i)' <=> Same(i)) /\ (Quiet' <=> Quiet)
  BY <1>1 DEF Same, Quiet
<1>3. LoopOK'
  BY <1>1 DEF ChoiceOK, LoopOK
<1>4. Scanned'
  BY <1>1, <1>2 DEF ChoiceOK, Scanned, LastBelow
<1>5. Settled'
  BY <1>1, <1>2 DEF ChoiceOK, LoopOK, Settled, IsPreferred, LastBelow
<1>6. QED
  BY <1>3, <1>4, <1>5 DEF ChoiceOK

(* A device comes or goes at instance n: the poll is going to see it, or   *)
(* missed remembers that it cannot.                                        *)
LEMMA ChoicePlug ==
  ASSUME TypeOK, ChoiceOK, NEW n \in Inst,
         UNCHANGED <<step, idx, scan, torn>>, missed => missed',
         missed' \/ connect_pre[n] # hid_info'[n].is_connect,
         \A i \in Inst \ {n} : plugged'[i] = plugged[i] /\ hid_info'[i] = hid_info[i]
  PROVE  ChoiceOK'
<1>1. /\ step' = step /\ idx' = idx /\ connect_pre' = connect_pre /\ is_changed' = is_changed
      /\ found' = found /\ selected' = selected /\ torn' = torn
  BY DEF scan
<1>2. LoopOK'
  BY <1>1 DEF ChoiceOK, LoopOK
<1>3. Settled'
  BY <1>1 DEF Settled, Same, Quiet
<1>4. Scanned'
  <2> SUFFICES ASSUME step = "select", Quiet', \A j \in Inst : j < idx => Same(j)'
               PROVE  /\ \A j \in Inst : j < idx => plugged'[j] \notin Keyboard
                      /\ LastBelow(idx, found)'
    BY <1>1, Zenon DEF Scanned
  <2>1. Quiet /\ ~missed'
    BY <1>1 DEF Quiet, TypeOK
  <2>2. ~(n < idx)
    BY <1>1, <2>1 DEF Same
  <2>3. \A j \in Inst : j < idx => plugged'[j] = plugged[j] /\ hid_info'[j] = hid_info[j]
    BY <2>2
  <2>4. \A j \in Inst : j < idx => Same(j)
    BY <1>1, <2>3 DEF Same
  <2>5. (\A j \in Inst : j < idx => plugged[j] \notin Keyboard) /\ LastBelow(idx, found)
    BY <2>1, <2>4 DEF ChoiceOK, Scanned
  <2>6. QED
    BY <1>1, <2>3, <2>5 DEF LastBelow
<1>5. QED
  BY <1>2, <1>3, <1>4 DEF ChoiceOK

LEMMA PollChoice ==
  ASSUME TypeOK, ChoiceOK, Poll
  PROVE  ChoiceOK'
<1> DEFINE changed == is_changed \/ hid_info[idx].is_connect # connect_pre[idx]
<1>0. /\ step = "poll" /\ idx \in Inst /\ found' = found /\ selected' = selected
      /\ plugged' = plugged /\ hid_info' = hid_info
      /\ connect_pre' = [connect_pre EXCEPT ![idx] = hid_info[idx].is_connect]
      /\ found = NoDev /\ connect_pre \in [Inst -> BOOLEAN]
  BY DEF Poll, PollWith, core1, ChoiceOK, LoopOK, TypeOK
<1>1. CASE idx < LastInst /\ idx' = idx + 1 /\ is_changed' = changed
           /\ UNCHANGED <<step, torn, missed>>
  <2>1. LoopOK'
    BY <1>0, <1>1, InstFacts DEF LoopOK
  <2>2. Scanned'
    BY <1>0, <1>1 DEF Scanned
  <2>3. Settled'
    <3> SUFFICES ASSUME ~changed, Quiet, \A j \in Inst : Same(j)'
                 PROVE  IsPreferred(selected)'
      BY <1>1 DEF Settled, Quiet
    <3>1. connect_pre' = connect_pre /\ ~is_changed
      BY <1>0
    <3>2. \A j \in Inst : Same(j)
      BY <1>0, <3>1 DEF Same
    <3>3. IsPreferred(selected)
      BY <1>0, <3>1, <3>2 DEF ChoiceOK, Settled
    <3>4. QED
      BY <1>0, <3>3 DEF IsPreferred, LastBelow
  <2>4. QED
    BY <2>1, <2>2, <2>3 DEF ChoiceOK
<1>2. CASE idx = LastInst /\ AfterPoll(changed) /\ changed
  <2>1. step' = "select" /\ idx' = 0 /\ ~is_changed' /\ found' = NoDev
    BY <1>0, <1>2, Zenon DEF AfterPoll, Goto
  <2>2. \A j \in Inst : ~(j < 0)
    BY InstFacts
  <2>3. QED
    BY <2>1, <2>2 DEF ChoiceOK, LoopOK, Scanned, Settled, LastBelow
<1>3. CASE idx = LastInst /\ AfterPoll(changed) /\ ~changed
  <2>1. step' = "drain" /\ ~is_changed' /\ found' = NoDev /\ (torn' <=> torn)
        /\ (missed' <=> missed)
    BY <1>0, <1>3, Zenon DEF AfterPoll, Goto
  <2>2. connect_pre' = connect_pre /\ ~is_changed
    BY <1>0, <1>3
  <2>3. Settled'
    <3> SUFFICES ASSUME Quiet, \A j \in Inst : Same(j)' PROVE IsPreferred(selected)'
      BY <2>1 DEF Settled, Quiet
    <3>1. \A j \in Inst : Same(j)
      BY <1>0, <2>2 DEF Same
    <3>2. IsPreferred(selected)
      BY <1>0, <2>2, <3>1 DEF ChoiceOK, Settled
    <3>3. QED
      BY <1>0, <3>2 DEF IsPreferred, LastBelow
  <2>4. QED
    BY <2>1, <2>3 DEF ChoiceOK, LoopOK, Scanned
<1>4. QED
  <2>1. \/ /\ idx < LastInst /\ idx' = idx + 1 /\ is_changed' = changed
           /\ UNCHANGED <<step, torn, missed>>
        \/ idx = LastInst /\ AfterPoll(changed)
    BY Zenon DEF Poll, PollWith
  <2>2. QED
    BY <1>1, <1>2, <1>3, <2>1

LEMMA SelectChoice ==
  ASSUME TypeOK, InfoOK, ChoiceOK, Select
  PROVE  ChoiceOK'
<1> DEFINE stop == hid_info[idx].is_keyboard
<1>0. /\ step = "select" /\ idx \in Inst /\ idx \in Nat /\ ~is_changed /\ ~is_changed'
      /\ plugged' = plugged /\ hid_info' = hid_info /\ connect_pre' = connect_pre
      /\ (torn' <=> torn \/ idx \in in_mount) /\ missed' = missed
  BY InstFacts DEF Select, SelectWith, core1, ChoiceOK, LoopOK, TypeOK
<1>1. \A j \in Inst : Same(j)' <=> Same(j)
  BY <1>0 DEF Same
<1>2. ASSUME Quiet', \A j \in Inst : j < idx => Same(j)
      PROVE  /\ \A j \in Inst : j < idx => plugged[j] \notin Keyboard
             /\ LastBelow(idx, found)
             /\ stop <=> plugged[idx] \in Keyboard
             /\ Candidate = IF plugged[idx] # NoDev THEN plugged[idx] ELSE found
  <2>1. Quiet /\ idx \notin in_mount
    BY <1>0, <1>2 DEF Quiet
  <2>2. (\A j \in Inst : j < idx => plugged[j] \notin Keyboard) /\ LastBelow(idx, found)
    BY <1>0, <1>2, <2>1 DEF ChoiceOK, Scanned
  <2>3. /\ hid_info[idx].is_connect <=> plugged[idx] # NoDev
        /\ hid_info[idx].dev = plugged[idx]
        /\ stop <=> plugged[idx] \in Keyboard
    BY <1>0, <2>1 DEF InfoOK
  <2>4. QED
    BY <2>2, <2>3 DEF Candidate
<1>3. ASSUME NEW n \in Nat, LastBelow(idx, found), n = idx + 1
      PROVE  LastBelow(n, IF plugged[idx] # NoDev THEN plugged[idx] ELSE found)
  <2>1. \A j \in Inst : j \in Nat /\ (j < n <=> j < idx \/ j = idx)
    BY <1>0, <1>3, InstFacts
  <2>2. CASE plugged[idx] # NoDev
    BY <1>0, <2>1, <2>2 DEF LastBelow
  <2>3. CASE plugged[idx] = NoDev
    BY <1>0, <1>3, <2>1, <2>3 DEF LastBelow
  <2>4. QED
    BY <2>2, <2>3
<1>4. CASE ~stop /\ idx < LastInst /\ idx' = idx + 1 /\ found' = Candidate
           /\ UNCHANGED <<step, selected>>
  <2>1. Scanned'
    <3> SUFFICES ASSUME Quiet', \A j \in Inst : j < idx + 1 => Same(j)
                 PROVE  /\ \A j \in Inst : j < idx + 1 => plugged[j] \notin Keyboard
                        /\ LastBelow(idx + 1, Candidate)
      BY <1>0, <1>1, <1>4 DEF Scanned, LastBelow
    <3>1. \A j \in Inst : j < idx + 1 <=> j < idx \/ j = idx
      BY <1>0, InstFacts
    <3>2. QED
      BY <1>0, <1>2, <1>3, <1>4, <3>1
  <2>2. QED
    BY <1>0, <1>4, <2>1 DEF ChoiceOK, LoopOK, Settled
<1>5. CASE (stop \/ idx = LastInst) /\ Goto("drain") /\ selected' = Candidate /\ found' = NoDev
  <2>1. Settled'
    <3> SUFFICES ASSUME Quiet', \A j \in Inst : Same(j)
                 PROVE  IsPreferred(Candidate)
      BY <1>0, <1>1, <1>5 DEF Settled, IsPreferred, LastBelow
    <3>1. CASE stop
      <4>1. plugged[idx] \in Keyboard /\ plugged[idx] # NoDev
        BY <1>2, <3>1, DevAssumption
      <4>2. QED
        BY <1>0, <1>2, <4>1 DEF IsPreferred
    <3>2. CASE ~stop
      <4>1. CFG_TUH_HID \in Nat /\ CFG_TUH_HID = idx + 1
        BY <1>0, <1>5, <3>2, SizeAssumption DEF LastInst
      <4>2. LastBelow(CFG_TUH_HID, Candidate)
        BY <1>2, <1>3, <4>1
      <4>3. \A j \in Inst : j < idx \/ j = idx
        BY <1>0, <4>1, InstFacts DEF LastInst
      <4>4. QED
        BY <1>2, <3>2, <4>2, <4>3 DEF IsPreferred
    <3>3. QED
      BY <3>1, <3>2
  <2>2. QED
    BY <1>0, <1>5, <2>1 DEF ChoiceOK, LoopOK, Scanned, Goto
<1>6. QED
  BY <1>4, <1>5 DEF Select, SelectWith

LEMMA ChoiceNext == TypeOK /\ InfoOK /\ ChoiceOK /\ [Next]_vars => ChoiceOK'
<1> SUFFICES ASSUME TypeOK, InfoOK, ChoiceOK, [Next]_vars PROVE ChoiceOK'
  OBVIOUS
<1>1. ASSUME NEW i \in Inst, NEW d \in Dev, MountBegin(i, d) PROVE ChoiceOK'
  <2>1. /\ UNCHANGED <<step, idx, scan, torn>> /\ (missed => missed')
        /\ missed' \/ connect_pre[i] # hid_info'[i].is_connect
        /\ \A j \in Inst \ {i} : plugged'[j] = plugged[j] /\ hid_info'[j] = hid_info[j]
    BY <1>1 DEF MountBegin, TypeOK
  <2>2. QED
    BY <2>1, ChoicePlug
<1>2. ASSUME NEW i \in Inst, Umount(i) PROVE ChoiceOK'
  <2>1. /\ UNCHANGED <<step, idx, scan, torn>> /\ (missed => missed')
        /\ missed' \/ connect_pre[i] # hid_info'[i].is_connect
        /\ \A j \in Inst \ {i} : plugged'[j] = plugged[j] /\ hid_info'[j] = hid_info[j]
    BY <1>2 DEF Umount, NoInfo, TypeOK
  <2>2. QED
    BY <2>1, ChoicePlug
<1>3. ASSUME NEW i \in Inst, MountEnd(i) PROVE ChoiceOK'
  <2>1. /\ plugged' = plugged /\ plugged[i] # NoDev
        /\ UNCHANGED <<step, idx, scan, torn, missed>>
        /\ hid_info'[i].is_connect = TRUE
        /\ \A j \in Inst \ {i} : hid_info'[j] = hid_info[j]
    BY <1>3 DEF MountEnd, InfoOK, TypeOK
  <2>2. hid_info[i].is_connect = TRUE
    BY <2>1 DEF InfoOK, TypeOK
  <2>3. \A j \in Inst : hid_info'[j].is_connect = hid_info[j].is_connect
    BY <2>1, <2>2
  <2>4. QED
    BY <2>1, <2>3, ChoiceKept
<1>4. ASSUME UNCHANGED <<plugged, hid_info, step, idx, scan, torn, missed>> PROVE ChoiceOK'
  BY <1>4, ChoiceKept
<1>5. CASE DrainEnd \/ QmkUpdate \/ QmkBusy
  <2>1. /\ step \in {"drain", "qmk"} /\ step' # "select" /\ idx' = 0
        /\ UNCHANGED <<scan, plugged, torn, missed, hid_info>>
    BY <1>5 DEF DrainEnd, QmkUpdate, QmkBusy, Goto, core1
  <2>2. QED
    BY <2>1, ChoiceKept
<1>6. CASE UNCHANGED vars
  BY <1>4, <1>6 DEF vars, core1
<1>7. QED
  BY <1>1, <1>2, <1>3, <1>4, <1>5, <1>6, PollChoice, SelectChoice
  DEF Next, Core0, ReportReceived, Drain, SetPassthrough, core1

-------------------------------------------------------------------------------
LEMMA InvInit == Init => IInv
<1> SUFFICES ASSUME Init PROVE IInv
  OBVIOUS
<1>1. InfoOK
  BY DevAssumption DEF Init, InfoOK, NoInfo
<1>2. EndsOK
  <2>1. DOMAIN report_queue = {}
    BY DEF Init
  <2>2. QED
    BY <2>1 DEF Init, EndsOK, Ends, Of
<1>3. MatrixIsMerge
  BY DEF Init, MatrixIsMerge, Merged
<1>4. ChoiceOK
  <2>1. \A i \in Inst : plugged[i] = NoDev /\ NoDev \notin Keyboard
    BY DevAssumption DEF Init
  <2>2. QED
    BY <2>1 DEF Init, ChoiceOK, LoopOK, Scanned, Settled, IsPreferred, LastBelow
<1>5. QED
  BY <1>1, <1>2, <1>3, <1>4, TypeInit DEF IInv

LEMMA Invariance == Spec => []IInv
<1>1. IInv /\ [Next]_vars => IInv'
  BY TypeNext, InfoNext, EndsNext, MergeNext, ChoiceNext DEF IInv
<1>2. QED
  BY <1>1, InvInit, PTL DEF Spec

(* Whatever the interleaving of the cores, no report is of an instance that*)
(* does not exist and the queue stays within its bound.                    *)
THEOREM TypeCorrect == Spec => []TypeOK
<1>1. IInv => TypeOK
  BY DEF IInv
<1>2. QED
  BY <1>1, Invariance, PTL

(* The keys of a keyboard are never lost or kept by link.c: however the    *)
(* other keyboards come and go, a keyboard none of whose reports was       *)
(* dropped or passed through ends, with the queue drained, as it is held.  *)
THEOREM EndsAsHeldHolds == Spec => []EndsAsHeld
<1>1. IInv => EndsAsHeld
  BY EndsIsTold DEF IInv, EndsOK, EndsAsHeld
<1>2. QED
  BY <1>1, Invariance, PTL

(* is_changed is never lost between link.c and matrix.c, not even while    *)
(* QMK is busy: if it is clear, QMK has the merge of all keyboards.        *)
THEOREM MatrixIsMergeHolds == Spec => []MatrixIsMerge
<1>1. IInv => MatrixIsMerge
  BY DEF IInv
<1>2. QED
  BY <1>1, Invariance, PTL

(* linkKbdUpdate chooses the layout of the first keyboard, or else of the  *)
(* last device, once its poll has seen what came and went: for any number  *)
(* of instances and any interleaving with the callbacks of core1.          *)
THEOREM SelectedIsPreferredHolds == Spec => []SelectedIsPreferred
<1>1. IInv => SelectedIsPreferred
  <2> SUFFICES ASSUME IInv, Noticed, ~torn, ~missed PROVE selected = Preferred
    BY DEF SelectedIsPreferred
  <2>1. IsPreferred(selected)
    BY DEF IInv, ChoiceOK, LoopOK, Settled, Noticed, Quiet, Same
  <2>2. QED
    BY <2>1, PreferredIs DEF IInv
<1>2. QED
  BY <1>1, Invariance, PTL
===============================================================================
