---------------------------- MODULE KeyPaths_proofs ----------------------------
(***************************************************************************)
(* Proofs about the ways of a key to the PC, for every set of keys and     *)
(* every size of the queue of reports: `key sim` stays inside, no key      *)
(* stays down, and `key sim` shows what it should.                         *)
(*                                                                         *)
(* First `key sim`.  The key of the experiment is in QMK's matrix and in   *)
(* the report QMK builds well after simRun has let go of it.  What keeps   *)
(* it from the PC is that the output is on only when no experiment runs    *)
(* (Gate), and that none ends before QMK has seen the release (Inside).    *)
(***************************************************************************)
EXTENDS KeyPaths, TLAPS, SequenceTheorems

KeyboardOK ==
  /\ held \in {None} \cup SUBSET Key /\ connect_pre \in BOOLEAN
  /\ queue \in Seq(SUBSET Key)
  /\ instance \in Instance /\ src \in [Instance -> SUBSET Keys]
  /\ \A i \in Instance : i # instance => src[i] \subseteq {SimKey}
  /\ \A i \in Instance : i # SIM_INSTANCE => SimKey \notin src[i]
  /\ down \in SUBSET Keys
  /\ wire \in [Itf -> {None} \cup SUBSET Keys]
  /\ host \in [Itf -> SUBSET Keys]

Gate == out_enable => sim = "none"
Inside ==
  /\ sim # "hold" => SimKey \notin src[SIM_INSTANCE]
  /\ SimKey \in down => SimKey \in qmk
  /\ sim = "none" => SimKey \notin qmk
Out == \A i \in Itf : SimKey \notin host[i] /\ (wire[i] # None => SimKey \notin wire[i])

IInv == KeyboardOK /\ Gate /\ Inside /\ Out

\* The keyboard's part of the row that it may share with the experiment.
Own == src[instance] \ {SimKey}

-------------------------------------------------------------------------------
(* Who writes a row of the matrix, and what the merge is.                  *)
LEMMA SimIs == SIM_INSTANCE \in Instance
BY KeyAssumption DEF SIM_INSTANCE, Instance

LEMMA MergedIs ==
  ASSUME KeyboardOK
  PROVE  /\ Merged \in SUBSET Keys /\ Own \in SUBSET Key
         /\ SimKey \in Merged <=> SimKey \in src[SIM_INSTANCE]
         /\ Merged \ {SimKey} = Own
<1>1. \A k : k \in Merged <=> \E i \in Instance : k \in src[i]
  BY DEF Merged
<1>2. SimKey \in Merged <=> SimKey \in src[SIM_INSTANCE]
  BY <1>1, SimIs DEF KeyboardOK
<1>3. Merged \in SUBSET Keys /\ Own \in SUBSET Key
  BY <1>1 DEF KeyboardOK, Own, Keys
<1>4. Merged \ {SimKey} = Own
  BY <1>1 DEF KeyboardOK, Own
<1>5. QED
  BY <1>2, <1>3, <1>4

LEMMA KeyboardWrites ==
  ASSUME KeyboardOK, NEW keys \in SUBSET Key, src' = [src EXCEPT ![instance] = keys],
         instance' = instance
  PROVE  /\ src' \in [Instance -> SUBSET Keys] /\ Own' = keys
         /\ \A i \in Instance : i # instance => src'[i] \subseteq {SimKey}
         /\ \A i \in Instance : i # SIM_INSTANCE => SimKey \notin src'[i]
         /\ SimKey \in src'[SIM_INSTANCE] => SimKey \in src[SIM_INSTANCE]
<1>1. SimKey \notin keys /\ keys \in SUBSET Keys
  BY KeyAssumption DEF Keys
<1>2. /\ src' \in [Instance -> SUBSET Keys] /\ src'[instance] = keys
      /\ \A i \in Instance : i # instance => src'[i] = src[i]
  BY <1>1 DEF KeyboardOK
<1>3. QED
  BY <1>1, <1>2, SimIs DEF KeyboardOK, Own

LEMMA SimWrites ==
  ASSUME KeyboardOK, NEW keys \in SUBSET {SimKey}, src' = [src EXCEPT ![SIM_INSTANCE] = keys],
         instance' = instance
  PROVE  /\ src' \in [Instance -> SUBSET Keys] /\ Own' \subseteq Own
         /\ \A i \in Instance : i # instance => src'[i] \subseteq {SimKey}
         /\ \A i \in Instance : i # SIM_INSTANCE => SimKey \notin src'[i]
         /\ src'[SIM_INSTANCE] = keys
<1>1. /\ src' \in [Instance -> SUBSET Keys] /\ src'[SIM_INSTANCE] = keys
      /\ \A i \in Instance : i # SIM_INSTANCE => src'[i] = src[i]
  BY SimIs DEF KeyboardOK, Keys
<1>2. QED
  BY <1>1, SimIs DEF KeyboardOK, Own

-------------------------------------------------------------------------------
(* A report that does not have the key, or goes while the output is cut,   *)
(* leaves the interfaces without it.                                       *)
LEMMA SendKeeps ==
  ASSUME KeyboardOK, Out, NEW i \in Itf, NEW r \in SUBSET Keys, Send(i, r),
         out_enable => SimKey \notin r, host' = host
  PROVE  wire' \in [Itf -> {None} \cup SUBSET Keys] /\ Out'
<1>1. CASE wire' = wire
  BY <1>1 DEF KeyboardOK, Out
<1>2. CASE wire' = [wire EXCEPT ![i] = r] /\ out_enable
  BY <1>2 DEF KeyboardOK, Out
<1>3. QED
  BY <1>1, <1>2 DEF Send, output

LEMMA EmitKeeps ==
  ASSUME KeyboardOK, Out, NEW i \in Itf, NEW d \in SUBSET Keys, Emit(i, d),
         out_enable => SimKey \notin d, host' = host
  PROVE  wire' \in [Itf -> {None} \cup SUBSET Keys] /\ Out' /\ down' = d
<1>1. CASE Send(i, d)
  BY <1>1, SendKeeps DEF Emit
<1>2. CASE UNCHANGED output
  BY <1>2 DEF Emit, output, KeyboardOK, Out
<1>3. QED
  BY <1>1, <1>2 DEF Emit

(* QMK lets go of everything: nothing of the invariant is about the rest.  *)
LEMMA ClearKeeps ==
  ASSUME IInv, NEW p, NEW n, clear_keyboard(Dest(p, n)),
         UNCHANGED <<input, src, out_enable, host, sim>>
  PROVE  IInv'
<1>1. Dest(p, n) \in Itf /\ {} \in SUBSET Keys
  BY DEF Dest, Itf
<1>2. Emit(Dest(p, n), {}) /\ qmk' = qmk
  BY DEF clear_keyboard
<1>3. wire' \in [Itf -> {None} \cup SUBSET Keys] /\ Out' /\ down' = {}
  BY <1>1, <1>2, EmitKeeps DEF IInv
<1>4. QED
  BY <1>2, <1>3 DEF IInv, KeyboardOK, Gate, Inside, input

LEMMA Same ==
  ASSUME IInv, UNCHANGED <<input, src, qmk, down, wire, out_enable, host, sim>>
  PROVE  IInv'
BY DEF IInv, KeyboardOK, Gate, Inside, Out, input

LEMMA InvInit == Init => IInv
<1> SUFFICES ASSUME Init PROVE IInv
  OBVIOUS
<1>0. connect_pre \in BOOLEAN
  BY DEF Init
<1>1. KeyboardOK
  BY <1>0 DEF Init, KeyboardOK
<1>2. Gate /\ Inside /\ Out
  BY SimIs DEF Init, Gate, Inside, Out
<1>3. QED
  BY <1>1, <1>2 DEF IInv

LEMMA InvNext == IInv /\ [Next]_vars => IInv'
<1> SUFFICES ASSUME IInv, [Next]_vars PROVE IInv'
  OBVIOUS
<1>1. ASSUME NEW keys \in SUBSET Key, Report(keys) PROVE IInv'
  <2>1. queue' \in Seq(SUBSET Key)
    BY <1>1, AppendProperties DEF Report, Queued, IInv, KeyboardOK
  <2>2. QED
    BY <1>1, <2>1 DEF Report, IInv, KeyboardOK, Gate, Inside, Out, engine, output
<1>2. CASE Plug \/ Unplug
  BY <1>2 DEF Plug, Unplug, IInv, KeyboardOK, Gate, Inside, Out, engine, output
<1>3. CASE Poll
  <2>1. src' = [src EXCEPT ![instance] = {}] \/ src' = src
    BY <1>3 DEF Poll, linkClearInstance
  <2>2. UNCHANGED <<held, instance, queue, qmk, down, wire, out_enable, host, sim>> /\ connect_pre' \in BOOLEAN
    BY <1>3 DEF Poll, engine, output
  <2>3. /\ src' \in [Instance -> SUBSET Keys]
        /\ \A i \in Instance : i # instance => src'[i] \subseteq {SimKey}
        /\ \A i \in Instance : i # SIM_INSTANCE => SimKey \notin src'[i]
        /\ SimKey \in src'[SIM_INSTANCE] => SimKey \in src[SIM_INSTANCE]
    BY <2>1, <2>2, KeyboardWrites DEF IInv, KeyboardOK
  <2>4. KeyboardOK'
    BY <2>2, <2>3 DEF IInv, KeyboardOK
  <2>5. Gate' /\ Inside' /\ Out'
    BY <2>2, <2>3 DEF IInv, Gate, Inside, Out
  <2>6. QED
    BY <2>4, <2>5 DEF IInv
<1>4. CASE Drain
  <2>1. queue' \in Seq(SUBSET Key) /\ Head(queue) \in SUBSET Key
    BY <1>4, HeadTailProperties DEF Drain, IInv, KeyboardOK
  <2>2. Head(queue) \in SUBSET Keys /\ SimKey \notin Head(queue)
    BY <2>1, KeyAssumption DEF Keys
  <2>3. UNCHANGED <<held, instance, connect_pre, qmk, down, out_enable, host, sim>> /\ down \in SUBSET Keys
    BY <1>4 DEF Drain, engine, IInv, KeyboardOK
  <2>4. CASE is_passthrough
    <3>1. Send("IF0", Head(queue)) /\ src' = src
      BY <1>4, <2>4 DEF Drain
    <3>2. wire' \in [Itf -> {None} \cup SUBSET Keys] /\ Out'
      BY <2>2, <2>3, <3>1, SendKeeps DEF IInv, Itf
    <3>3. QED
      BY <2>1, <2>3, <3>1, <3>2 DEF IInv, KeyboardOK, Gate, Inside
  <2>5. CASE ~is_passthrough
    <3>1. src' = [src EXCEPT ![instance] = Head(queue)] /\ UNCHANGED <<output, instance>>
      BY <1>4, <2>5 DEF Drain, linkSetKeyboardReport
    <3>2. /\ src' \in [Instance -> SUBSET Keys]
          /\ \A i \in Instance : i # instance => src'[i] \subseteq {SimKey}
          /\ \A i \in Instance : i # SIM_INSTANCE => SimKey \notin src'[i]
          /\ SimKey \in src'[SIM_INSTANCE] => SimKey \in src[SIM_INSTANCE]
      BY <2>1, <3>1, KeyboardWrites DEF IInv
    <3>3. KeyboardOK'
      BY <2>1, <2>3, <3>1, <3>2 DEF output, IInv, KeyboardOK
    <3>4. Gate' /\ Inside' /\ Out'
      BY <2>3, <3>1, <3>2 DEF output, IInv, Gate, Inside, Out
    <3>5. QED
      BY <3>3, <3>4 DEF IInv
  <2>6. QED
    BY <2>4, <2>5
<1>5. CASE DrainEnd \/ SetProtocol
  BY <1>5, Same DEF DrainEnd, SetProtocol, engine, output
<1>6. ASSUME NEW i \in Itf, HostTake(i) PROVE IInv'
  <2>1. /\ UNCHANGED <<input, src, qmk, down, out_enable, sim>> /\ wire[i] # None
        /\ host' = [host EXCEPT ![i] = wire[i]] /\ wire' = [wire EXCEPT ![i] = None]
    BY <1>6 DEF HostTake, engine
  <2>2. KeyboardOK' /\ Gate' /\ Inside'
    BY <2>1 DEF IInv, KeyboardOK, Gate, Inside, input
  <2>3. Out'
    BY <2>1 DEF IInv, KeyboardOK, Out
  <2>4. QED
    BY <2>2, <2>3 DEF IInv
<1>7. ASSUME NEW b \in BOOLEAN, SetPassthrough(b) PROVE IInv'
  <2>1. UNCHANGED <<input, src, out_enable, host, sim>>
    BY <1>7 DEF SetPassthrough
  <2>2. clear_keyboard(Dest(proto, nkro)) \/ UNCHANGED <<engine, output>>
    BY <1>7 DEF SetPassthrough, qmkSetPassthrough
  <2>3. QED
    BY <2>1, <2>2, ClearKeeps, Same DEF engine, output
<1>8. ASSUME NEW b \in BOOLEAN, SetNkro(b) PROVE IInv'
  BY <1>8, ClearKeeps DEF SetNkro
<1>9. CASE ProtocolCheck
  <2>1. UNCHANGED <<input, src, out_enable, host, sim>>
    BY <1>9 DEF ProtocolCheck
  <2>2. clear_keyboard(Dest(proto, nkro)) \/ UNCHANGED <<engine, output>>
    BY <1>9 DEF ProtocolCheck
  <2>3. QED
    BY <2>1, <2>2, ClearKeeps, Same DEF engine, output
<1>10. CASE KeyboardTask
  <2> DEFINE d == (down \cup (Merged \ qmk)) \ (qmk \ Merged)
  <2>1. UNCHANGED <<input, src, out_enable, host, sim>> /\ qmk' = Merged
    BY <1>10 DEF KeyboardTask
  <2>2. sim # "hold" => SimKey \notin Merged
    BY MergedIs DEF IInv, Inside
  <2>3. SimKey \in d => SimKey \in Merged
    BY DEF IInv, Inside
  <2>4. CASE Merged # qmk
    <3>1. Emit(Dest(proto, nkro), d) /\ Dest(proto, nkro) \in Itf
      BY <1>10, <2>4 DEF KeyboardTask, Dest, Itf
    <3>2. CASE d \in SUBSET Keys
      <4>1. wire' \in [Itf -> {None} \cup SUBSET Keys] /\ Out' /\ down' = d
        <5>1. out_enable => SimKey \notin d
          BY <2>2, <2>3 DEF IInv, Gate
        <5> HIDE DEF d
        <5>2. QED
          BY <2>1, <3>1, <3>2, <5>1, EmitKeeps DEF IInv
      <4>2. SimKey \in down' => SimKey \in qmk'
        BY <2>1, <2>3, <4>1
      <4>3. KeyboardOK' /\ Gate'
        BY <2>1, <3>2, <4>1 DEF IInv, KeyboardOK, Gate, input
      <4>4. src' = src /\ sim' = sim /\ qmk' = Merged
        BY <2>1
      <4>5. Inside'
        BY <2>1, <2>2, <4>2, <4>4 DEF IInv, Inside
      <4>6. QED
        BY <4>1, <4>3, <4>5 DEF IInv
    <3>3. d \in SUBSET Keys
      BY MergedIs DEF IInv, KeyboardOK
    <3>4. QED
      BY <3>2, <3>3
  <2>5. CASE Merged = qmk
    BY <1>10, <2>1, <2>5, Same DEF KeyboardTask, output
  <2>6. QED
    BY <2>4, <2>5
<1>11. ASSUME NEW b \in BOOLEAN, SimStart(b) PROVE IInv'
  <2>9. PICK keys \in SUBSET {SimKey} : keys = IF b THEN {SimKey} ELSE {}
    OBVIOUS
  <2>1. /\ UNCHANGED <<input, qmk, down, host>> /\ sim' = (IF b THEN "hold" ELSE "settle") /\ sim = "none"
        /\ ~out_enable' /\ wire' = [i \in Itf |-> None] /\ src' = [src EXCEPT ![SIM_INSTANCE] = keys]
    BY <1>11, <2>9 DEF SimStart, SimStep, simInject, linkSetKeyboardReport, engine
  <2>2. /\ src' \in [Instance -> SUBSET Keys]
        /\ \A i \in Instance : i # instance => src'[i] \subseteq {SimKey}
        /\ \A i \in Instance : i # SIM_INSTANCE => SimKey \notin src'[i]
        /\ src'[SIM_INSTANCE] = keys
    BY <2>1, SimWrites DEF IInv, input
  <2>3. KeyboardOK'
    BY <2>1, <2>2 DEF IInv, KeyboardOK, input
  <2>4. Gate' /\ Inside' /\ Out'
    BY <2>1, <2>2, <2>9 DEF IInv, Gate, Inside, Out
  <2>5. QED
    BY <2>3, <2>4 DEF IInv
<1>12. CASE SimRelease \/ SimDump
  <2>1. /\ UNCHANGED <<input, qmk, down, host, wire, out_enable>> /\ sim' # "none" /\ sim # "none"
        /\ sim' # "hold" /\ src' = [src EXCEPT ![SIM_INSTANCE] = {}]
    BY <1>12 DEF SimRelease, SimDump, SimStep, simInject, linkSetKeyboardReport, engine, output
  <2>2. /\ src' \in [Instance -> SUBSET Keys]
        /\ \A i \in Instance : i # instance => src'[i] \subseteq {SimKey}
        /\ \A i \in Instance : i # SIM_INSTANCE => SimKey \notin src'[i]
        /\ src'[SIM_INSTANCE] = {}
    BY <2>1, SimWrites DEF IInv, input
  <2>3. KeyboardOK'
    BY <2>1, <2>2 DEF IInv, KeyboardOK, input
  <2>4. Gate' /\ Inside' /\ Out'
    BY <2>1, <2>2 DEF IInv, Gate, Inside, Out
  <2>5. QED
    BY <2>3, <2>4 DEF IInv
<1>14. CASE SimEnd
  <2>1. /\ UNCHANGED <<input, src, qmk, down, wire, host>> /\ sim = "shown" /\ sim' = "none"
        /\ qmk = Merged
    BY <1>14 DEF SimEnd, SimStep, engine, Seen
  <2>2. SimKey \notin qmk
    BY <2>1, MergedIs DEF IInv, Inside
  <2>3. QED
    BY <2>1, <2>2 DEF IInv, KeyboardOK, Gate, Inside, Out, input
<1>15. CASE Reboot
  <2>0. connect_pre' \in BOOLEAN
    BY <1>15 DEF Reboot
  <2>1. KeyboardOK'
    BY <1>15, <2>0 DEF Reboot, IInv, KeyboardOK
  <2>2. QED
    BY <1>15, <2>1, SimIs DEF Reboot, IInv, Gate, Inside, Out
<1>16. CASE UNCHANGED vars
  BY <1>16, Same DEF vars, engine, output
<1>17. QED
  BY <1>1, <1>2, <1>3, <1>4, <1>5, <1>6, <1>7, <1>8, <1>9, <1>10, <1>11, <1>12, <1>14,
     <1>15, <1>16
  DEF Next, via_custom_value_command_kb, cliCmd

-------------------------------------------------------------------------------
(* The PC never sees the key of `key sim`, whatever the keyboard types,    *)
(* VIA sets or the host asks for while its delays run the main loop.       *)
THEOREM SimStaysInsideHolds == Spec => []SimStaysInside
<1>1. IInv => SimStaysInside
  BY DEF IInv, Out, SimStaysInside
<1>2. QED
  BY <1>1, InvInit, InvNext, PTL DEF Spec

-------------------------------------------------------------------------------
(* From here on: what `key sim` shows, and the keys that do not stay down. *)
(* First what holds whatever astray remembers.  Only the interface in use  *)
(* (InUse) may go on holding what QMK has down, and QMK is cleared on the  *)
(* one that comes into use (Engine).  The record is not "none" once QMK    *)
(* has seen the key, which is down until then unless missed says so, and a *)
(* press that it ends with is still in a report (Record).                  *)
InUse == Dest(proto_pre, nkro)

SettingsOK ==
  /\ proto \in BOOLEAN /\ proto_pre \in BOOLEAN /\ nkro \in BOOLEAN
  /\ qmk \in SUBSET Keys /\ shadow \in SUBSET Keys
  /\ last \in [Itf -> SUBSET Keys]
  /\ trace \in {"none", "press", "tap"} /\ missed \in BOOLEAN /\ astray \in BOOLEAN
Cut ==
  /\ out_enable \in BOOLEAN /\ out_enable = (sim = "none")
  /\ ~out_enable => \A i \in Itf : wire[i] = None
Engine ==
  /\ turn = "task" => proto = proto_pre
  /\ down \subseteq qmk
  /\ turn # "via" \/ proto = proto_pre => last[InUse] \subseteq down
Record ==
  /\ SimKey \in shadow => SimKey \in last["IF0"]
  /\ trace_on /\ ~missed => trace # "none" \/ (SimKey \in src[SIM_INSTANCE] /\ SimKey \notin qmk)
  /\ trace_on /\ trace = "press" => SimKey \in shadow \cup last["IF1"]

EInv == IInv /\ SettingsOK /\ Cut /\ Engine /\ Record

(* What a report does to the record and to what the PC is going to hold.   *)
LEMMA SendIs ==
  ASSUME IInv, SettingsOK, NEW i \in Itf, NEW r \in SUBSET Keys, Send(i, r)
  PROVE  /\ shadow' = IF i = "IF0" THEN r ELSE shadow
         /\ shadow' \in SUBSET Keys /\ trace' \in {"none", "press", "tap"}
         /\ ~out_enable => wire' = wire
         /\ trace # "none" => trace' # "none"
         /\ \/ i = "IF0" /\ r = shadow /\ wire' = wire /\ trace' = trace
            \/ /\ out_enable => wire' = [wire EXCEPT ![i] = r]
               /\ trace' = usbdHidTraceAdd(r)
<1>1. CASE i = "IF0" /\ r = shadow
  BY <1>1 DEF Send, output, SettingsOK
<1>2. CASE ~(i = "IF0" /\ r = shadow)
  BY <1>2 DEF Send, usbdHidTraceAdd, SettingsOK
<1>3. QED
  BY <1>1, <1>2

LEMMA EmitIs ==
  ASSUME EInv, NEW i \in Itf, NEW d \in SUBSET Keys, Emit(i, d), sim' = sim
  PROVE  /\ down' = d /\ last' = [last EXCEPT ![i] = d] /\ last' \in [Itf -> SUBSET Keys]
         /\ shadow' \in SUBSET Keys /\ trace' \in {"none", "press", "tap"}
         /\ ~out_enable => wire' = wire
         /\ trace # "none" => trace' # "none"
         /\ SimKey \in shadow' => SimKey \in last'["IF0"]
         /\ trace_on /\ trace' = "press" => SimKey \in shadow' \cup last'["IF1"]
         /\ trace_on /\ SimKey \in d /\ SimKey \notin last[i] => trace' # "none"
<1>1. down' = d /\ last' = [last EXCEPT ![i] = d] /\ last' \in [Itf -> SUBSET Keys]
  BY DEF Emit, EInv, SettingsOK
<1>2. CASE d = last[i] /\ UNCHANGED output
  BY <1>1, <1>2 DEF output, EInv, SettingsOK, Record
<1>3. CASE Send(i, d)
  <2>1. /\ shadow' = IF i = "IF0" THEN d ELSE shadow
        /\ shadow' \in SUBSET Keys /\ trace' \in {"none", "press", "tap"}
        /\ ~out_enable => wire' = wire
        /\ trace # "none" => trace' # "none"
        /\ \/ i = "IF0" /\ d = shadow /\ wire' = wire /\ trace' = trace
           \/ trace' = usbdHidTraceAdd(d)
    BY <1>3, SendIs DEF EInv
  <2>2. last'["IF0"] = (IF i = "IF0" THEN d ELSE last["IF0"])
        /\ last'["IF1"] = (IF i = "IF1" THEN d ELSE last["IF1"])
    BY <1>1 DEF EInv, SettingsOK, Itf
  <2>3. SimKey \in shadow' => SimKey \in last'["IF0"]
    BY <2>1, <2>2 DEF EInv, Record, Itf
  <2>4. ASSUME trace_on, trace' = "press" PROVE SimKey \in shadow' \cup last'["IF1"]
    BY <2>1, <2>2, <2>4 DEF EInv, Record, Itf, usbdHidTraceAdd
  <2>5. ASSUME trace_on, SimKey \in d, SimKey \notin last[i] PROVE trace' # "none"
    BY <2>1, <2>2, <2>5 DEF EInv, Record, Itf, usbdHidTraceAdd
  <2>6. QED
    BY <1>1, <2>1, <2>3, <2>4, <2>5
<1>4. QED
  BY <1>2, <1>3 DEF Emit

LEMMA DestIs ==
  /\ \A p, n : Dest(p, n) \in Itf
  /\ InUse \in Itf
  /\ Itf = {"IF0", "IF1"}
BY DEF Dest, InUse, Itf

(* QMK is cleared on the interface for the settings p and n.               *)
LEMMA ClearIs ==
  ASSUME EInv, NEW p \in BOOLEAN, NEW n \in BOOLEAN, clear_keyboard(Dest(p, n)),
         UNCHANGED <<src, sim, missed, out_enable>>
  PROVE  /\ qmk' = qmk /\ down' = {} /\ last' = [last EXCEPT ![Dest(p, n)] = {}]
         /\ last' \in [Itf -> SUBSET Keys]
         /\ shadow' \in SUBSET Keys /\ trace' \in {"none", "press", "tap"}
         /\ ~out_enable => wire' = wire
         /\ Cut' /\ Record'
<1>1. Emit(Dest(p, n), {}) /\ qmk' = qmk /\ Dest(p, n) \in Itf /\ {} \in SUBSET Keys
  BY DestIs DEF clear_keyboard
<1>2. /\ down' = {} /\ last' = [last EXCEPT ![Dest(p, n)] = {}]
      /\ last' \in [Itf -> SUBSET Keys]
      /\ shadow' \in SUBSET Keys /\ trace' \in {"none", "press", "tap"}
      /\ ~out_enable => wire' = wire
      /\ trace # "none" => trace' # "none"
      /\ SimKey \in shadow' => SimKey \in last'["IF0"]
      /\ trace_on /\ trace' = "press" => SimKey \in shadow' \cup last'["IF1"]
  BY <1>1, EmitIs
<1>3. Cut'
  BY <1>2 DEF EInv, Cut
<1>4. Record'
  BY <1>1, <1>2 DEF EInv, Record, trace_on
<1>5. QED
  BY <1>1, <1>2, <1>3, <1>4

LEMMA BlameType == ASSUME NEW c \in BOOLEAN, astray \in BOOLEAN, Blame(c) PROVE astray' \in BOOLEAN
BY Zenon DEF Blame

LEMMA EInvInit == Init => EInv
BY InvInit, DestIs DEF Init, EInv, SettingsOK, Cut, Engine, Record, InUse, trace_on

LEMMA ESame ==
  ASSUME EInv, IInv', UNCHANGED <<nkro, qmk, down, last, shadow, trace, src, sim, missed, out_enable, wire>>,
         UNCHANGED <<proto, proto_pre, turn>>, astray' \in BOOLEAN
  PROVE  EInv'
<1>1. SettingsOK' /\ Cut' /\ Record'
  BY DEF EInv, SettingsOK, Cut, Record, trace_on
<1>2. Engine'
  BY DEF EInv, Engine, InUse
<1>3. QED
  BY <1>1, <1>2 DEF EInv

MatrixHas == SimKey \in Merged <=> SimKey \in src[SIM_INSTANCE]
LEMMA MatrixHasIt == IInv => MatrixHas
BY MergedIs DEF IInv, MatrixHas

LEMMA MissedIs ==
  ASSUME IInv, IInv', NoteMissed, missed \in BOOLEAN
  PROVE  /\ missed' \in BOOLEAN
         /\ ~missed' => ~missed /\ (SimKey \in src[SIM_INSTANCE] \ qmk => SimKey \in src'[SIM_INSTANCE])
<1>1. SimKey \in Merged <=> SimKey \in src[SIM_INSTANCE]
  BY MergedIs DEF IInv
<1>2. SimKey \in Merged' <=> SimKey \in src'[SIM_INSTANCE]
  <2>1. MatrixHas'
    BY MatrixHasIt, PTL
  <2>2. QED
    BY <2>1 DEF MatrixHas
<1>3. QED
  BY <1>1, <1>2 DEF NoteMissed

LEMMA EInvNext == EInv /\ [Next]_vars => EInv'
<1> SUFFICES ASSUME EInv, [Next]_vars PROVE EInv'
  OBVIOUS
<1>0. IInv' /\ SettingsOK /\ astray \in BOOLEAN
  BY InvNext DEF EInv, SettingsOK
<1>1. ASSUME NEW keys \in SUBSET Key, Report(keys) PROVE EInv'
  <2>1. astray' \in BOOLEAN
    BY <1>0, <1>1, BlameType DEF Report
  <2>2. QED
    BY <1>0, <1>1, <2>1, ESame DEF Report, settings, engine, output
<1>2. CASE Plug \/ Unplug
  <2>1. astray' \in BOOLEAN
    BY <1>0, <1>2 DEF Plug, Unplug, Blame, EInv, IInv, KeyboardOK
  <2>2. QED
    BY <1>0, <1>2, <2>1, ESame DEF Plug, Unplug, settings, engine, output
<1>3. CASE Poll
  <2>1. astray' \in BOOLEAN
    BY <1>0, <1>3 DEF Poll, Blame
  <2>2. UNCHANGED <<settings, engine, shadow, wire, trace, out_enable, sim>> /\ NoteMissed
    BY <1>3 DEF Poll, output
  <2>3. missed' \in BOOLEAN
        /\ (~missed' => ~missed /\ (SimKey \in src[SIM_INSTANCE] \ qmk => SimKey \in src'[SIM_INSTANCE]))
    BY <1>0, <2>2, MissedIs DEF EInv, SettingsOK
  <2>4. SettingsOK' /\ Cut' /\ Engine'
    BY <1>3, <2>1, <2>2, <2>3 DEF Poll, Go, settings, engine, EInv, SettingsOK, Cut, Engine, InUse
  <2>5. Record'
    BY <2>2, <2>3 DEF EInv, Record, trace_on, engine
  <2>6. QED
    BY <1>0, <2>4, <2>5 DEF EInv
<1>4. CASE Drain
  <2>1. astray' \in BOOLEAN
    BY <1>0, <1>4, BlameType DEF Drain
  <2>2. UNCHANGED <<settings, engine, out_enable, turn, sim>> /\ NoteMissed
    BY <1>4 DEF Drain
  <2> missed' \in BOOLEAN
        /\ (~missed' => ~missed /\ (SimKey \in src[SIM_INSTANCE] \ qmk => SimKey \in src'[SIM_INSTANCE]))
    BY <1>0, <2>2, MissedIs DEF EInv, SettingsOK
  <2>3. Engine'
    BY <2>2 DEF EInv, Engine, settings, engine, InUse
  <2>4. CASE is_passthrough
    <3>1. Send("IF0", Head(queue)) /\ src' = src /\ queue # <<>>
      BY <1>4, <2>4 DEF Drain
    <3>2. Head(queue) \in SUBSET Key
      BY <3>1, HeadTailProperties DEF EInv, IInv, KeyboardOK
    <3>3. Head(queue) \in SUBSET Keys /\ SimKey \notin Head(queue)
      BY <3>2, KeyAssumption DEF Keys
    <3>4. /\ shadow' = Head(queue)
          /\ trace' \in {"none", "press", "tap"}
          /\ ~out_enable => wire' = wire
          /\ trace # "none" => trace' # "none"
          /\ \/ shadow' = shadow /\ trace' = trace
             \/ trace' = usbdHidTraceAdd(Head(queue))
      BY <3>1, <3>3, SendIs DEF EInv, Itf
    <3>5. Cut' /\ SettingsOK'
      BY <2>1, <2>2, <3>3, <3>4 DEF EInv, Cut, SettingsOK, settings, engine
    <3>6. trace_on /\ trace' = "press" => SimKey \in shadow' \cup last'["IF1"]
      BY <2>2, <3>3, <3>4 DEF EInv, Record, usbdHidTraceAdd, engine, SettingsOK
    <3>7. Record'
      BY <2>2, <3>1, <3>3, <3>4, <3>6 DEF EInv, Record, engine, trace_on
    <3>8. QED
      BY <1>0, <2>3, <3>5, <3>7 DEF EInv
  <2>5. CASE ~is_passthrough
    <3>1. UNCHANGED output
      BY <1>4, <2>5 DEF Drain
    <3>2. SettingsOK' /\ Cut' /\ Record'
      BY <2>1, <2>2, <3>1 DEF settings, engine, output, EInv, SettingsOK, Cut, Record, trace_on
    <3>3. QED
      BY <1>0, <2>3, <3>2 DEF EInv
  <2>6. QED
    BY <2>4, <2>5
<1>5. CASE DrainEnd \/ SetProtocol
  <2>1. astray' \in BOOLEAN
    BY <1>0, <1>5, BlameType DEF DrainEnd, SetProtocol
  <2>2. QED
    <3>1. UNCHANGED <<nkro, proto_pre, qmk, down, last, shadow, trace, src, sim, missed, out_enable, wire,
                      connect_pre>>
          /\ \/ proto' = proto /\ turn' = "via"
             \/ proto' = ~proto /\ turn = "poll" /\ turn' = turn
      BY <1>5 DEF DrainEnd, SetProtocol, Go, input, settings, engine, output
    <3>2. turn # "via" \/ proto = proto_pre
      BY <1>5 DEF DrainEnd, SetProtocol, Go
    <3>3. SettingsOK' /\ Cut' /\ Record'
      BY <2>1, <3>1 DEF EInv, SettingsOK, Cut, Record, trace_on
    <3>4. Engine'
      BY <3>1, <1>5 DEF DrainEnd, SetProtocol, Go, EInv, Engine, InUse
    <3>5. QED
      BY <1>0, <3>3, <3>4 DEF EInv
<1>6. ASSUME NEW i \in Itf, HostTake(i) PROVE EInv'
  <2>1. astray' \in BOOLEAN
    BY <1>0, <1>6, BlameType DEF HostTake
  <2>2. SettingsOK' /\ Cut' /\ Record' /\ Engine'
    BY <1>6, <2>1 DEF HostTake, settings, engine, EInv, IInv, KeyboardOK, SettingsOK, Cut, Record,
                      Engine, InUse, trace_on
  <2>3. QED
    BY <1>0, <2>2 DEF EInv
<1>7. ASSUME NEW b \in BOOLEAN, SetPassthrough(b) PROVE EInv'
  <2>1. UNCHANGED <<src, proto, proto_pre, nkro, out_enable, turn, sim, missed>> /\ turn = "via"
    BY <1>7 DEF SetPassthrough
  <2>2. CASE b # is_passthrough
    <3>1. clear_keyboard(Dest(proto, nkro))
          /\ Blame(IF b THEN Merged # qmk ELSE shadow' # last'["IF0"])
      BY <1>7, <2>2 DEF SetPassthrough, qmkSetPassthrough
    <3>2. astray' \in BOOLEAN
      BY <1>0, <3>1 DEF Blame
    <3>3. /\ qmk' = qmk /\ down' = {} /\ last' = [last EXCEPT ![Dest(proto, nkro)] = {}]
          /\ last' \in [Itf -> SUBSET Keys]
          /\ shadow' \in SUBSET Keys /\ trace' \in {"none", "press", "tap"}
          /\ Cut' /\ Record'
      BY <2>1, <3>1, ClearIs DEF EInv, SettingsOK
    <3>4. Engine'
      BY <2>1, <3>3, DestIs DEF EInv, Engine, InUse, SettingsOK
    <3>5. SettingsOK'
      BY <2>1, <3>2, <3>3 DEF EInv, SettingsOK
    <3>6. QED
      BY <1>0, <3>3, <3>4, <3>5 DEF EInv
  <2>3. CASE b = is_passthrough
    <3>1. UNCHANGED <<engine, output>> /\ Blame(FALSE)
      BY <1>7, <2>3 DEF SetPassthrough, qmkSetPassthrough
    <3>2. astray' \in BOOLEAN
      BY <1>0, <3>1, BlameType
    <3>3. QED
      BY <1>0, <2>1, <3>1, <3>2, ESame DEF engine, output
  <2>4. QED
    BY <2>2, <2>3
<1>8. ASSUME NEW b \in BOOLEAN, SetNkro(b) PROVE EInv'
  <2>1. /\ UNCHANGED <<src, proto, proto_pre, out_enable, turn, sim, missed>> /\ turn = "via" /\ nkro' = b
        /\ clear_keyboard(Dest(proto, b)) /\ Blame(\E i \in Itf : last'[i] # {})
    BY <1>8 DEF SetNkro
  <2>2. astray' \in BOOLEAN
    BY <1>0, <2>1 DEF Blame
  <2>3. /\ qmk' = qmk /\ down' = {} /\ last' = [last EXCEPT ![Dest(proto, b)] = {}]
        /\ last' \in [Itf -> SUBSET Keys]
        /\ shadow' \in SUBSET Keys /\ trace' \in {"none", "press", "tap"}
        /\ Cut' /\ Record'
    BY <2>1, ClearIs DEF EInv, SettingsOK
  <2>4. Engine'
    BY <2>1, <2>3, DestIs DEF EInv, Engine, InUse, SettingsOK
  <2>5. SettingsOK'
    BY <2>1, <2>2, <2>3 DEF EInv, SettingsOK
  <2>6. QED
    BY <1>0, <2>3, <2>4, <2>5 DEF EInv
<1>9. CASE ProtocolCheck
  <2>1. UNCHANGED <<src, proto, nkro, out_enable, sim, missed>> /\ turn' = "task" /\ proto_pre' = proto
    BY <1>9 DEF ProtocolCheck, Go
  <2>2. CASE proto # proto_pre
    <3>1. clear_keyboard(Dest(proto, nkro)) /\ Blame(\E i \in Itf : last'[i] # {})
      BY <1>9, <2>2 DEF ProtocolCheck
    <3>2. astray' \in BOOLEAN
      BY <1>0, <3>1 DEF Blame
    <3>3. /\ qmk' = qmk /\ down' = {} /\ last' = [last EXCEPT ![Dest(proto, nkro)] = {}]
          /\ last' \in [Itf -> SUBSET Keys]
          /\ shadow' \in SUBSET Keys /\ trace' \in {"none", "press", "tap"}
          /\ Cut' /\ Record'
      BY <2>1, <3>1, ClearIs DEF EInv, SettingsOK
    <3>4. Engine'
      BY <2>1, <3>3, DestIs DEF EInv, Engine, InUse, SettingsOK
    <3>5. SettingsOK'
      BY <2>1, <3>2, <3>3 DEF EInv, SettingsOK
    <3>6. QED
      BY <1>0, <3>3, <3>4, <3>5 DEF EInv
  <2>3. CASE proto = proto_pre
    <3>1. UNCHANGED <<engine, output>> /\ Blame(FALSE)
      BY <1>9, <2>3 DEF ProtocolCheck
    <3>2. astray' \in BOOLEAN
      BY <1>0, <3>1, BlameType
    <3>3. SettingsOK' /\ Cut' /\ Record' /\ Engine'
      BY <2>1, <2>3, <3>1, <3>2 DEF engine, output, EInv, SettingsOK, Cut, Record, Engine, InUse,
                                    trace_on
    <3>4. QED
      BY <1>0, <3>3 DEF EInv
  <2>4. QED
    BY <2>2, <2>3
<1>10. CASE KeyboardTask
  <2> DEFINE d == (down \cup (Merged \ qmk)) \ (qmk \ Merged)
  <2>1. UNCHANGED <<src, settings, out_enable, sim, missed>> /\ qmk' = Merged /\ turn' = "poll"
        /\ turn = "task" /\ astray' \in BOOLEAN
    BY <1>0, <1>10, BlameType DEF KeyboardTask, Go
  <2>2. Dest(proto, nkro) = InUse /\ last[InUse] \subseteq down /\ down \subseteq qmk
        /\ Merged \in SUBSET Keys
    BY <2>1, MergedIs DEF EInv, Engine, InUse, IInv
  <2>3. CASE Merged # qmk
    <3>1. Emit(InUse, d) /\ InUse \in Itf
      BY <1>10, <2>2, <2>3, DestIs DEF KeyboardTask
    <3>2. d \in SUBSET Keys /\ d \subseteq Merged
      BY <2>2 DEF EInv, SettingsOK
    <3>3. SimKey \in Merged /\ SimKey \notin qmk => SimKey \in d /\ SimKey \notin last[InUse]
      BY <2>2
    <3>4. trace_on /\ ~missed => trace # "none" \/ (SimKey \in Merged /\ SimKey \notin qmk)
      BY MergedIs DEF EInv, IInv, Record
    <3> HIDE DEF d
    <3>5. /\ down' = d /\ last' = [last EXCEPT ![InUse] = d] /\ last' \in [Itf -> SUBSET Keys]
          /\ shadow' \in SUBSET Keys /\ trace' \in {"none", "press", "tap"}
          /\ ~out_enable => wire' = wire
          /\ trace # "none" => trace' # "none"
          /\ SimKey \in shadow' => SimKey \in last'["IF0"]
          /\ trace_on /\ trace' = "press" => SimKey \in shadow' \cup last'["IF1"]
          /\ trace_on /\ SimKey \in d /\ SimKey \notin last[InUse] => trace' # "none"
      BY <2>1, <3>1, <3>2, EmitIs
    <3>6. SettingsOK' /\ Cut'
      BY <2>1, <2>2, <3>5 DEF EInv, SettingsOK, Cut, settings
    <3>7. Engine'
      BY <2>1, <2>2, <3>1, <3>2, <3>5 DEF EInv, Engine, InUse, settings, SettingsOK
    <3>8. ASSUME trace_on, ~missed PROVE trace' # "none"
      BY <3>3, <3>4, <3>5, <3>8
    <3>9. Record'
      BY <2>1, <3>5, <3>8 DEF EInv, Record, trace_on
    <3>10. QED
      BY <1>0, <3>6, <3>7, <3>9 DEF EInv
  <2>4. CASE Merged = qmk
    <3>1. UNCHANGED <<down, last, output>>
      BY <1>10, <2>4 DEF KeyboardTask
    <3>2. SettingsOK' /\ Cut' /\ Record' /\ Engine'
      BY <1>0, <2>1, <2>2, <2>4, <3>1 DEF settings, output, EInv, SettingsOK, Cut, Record, Engine,
                                         InUse, trace_on
    <3>3. QED
      BY <1>0, <3>2 DEF EInv
  <2>5. QED
    BY <2>3, <2>4
<1>11. ASSUME NEW b \in BOOLEAN, SimStart(b) PROVE EInv'
  <2>9. PICK keys \in SUBSET {SimKey} : keys = IF b THEN {SimKey} ELSE {}
    OBVIOUS
  <2>1. /\ UNCHANGED <<input, settings, engine, turn, shadow>> /\ sim' = (IF b THEN "hold" ELSE "settle")
        /\ ~out_enable' /\ out_enable' \in BOOLEAN /\ wire' = [i \in Itf |-> None] /\ trace' = "none"
        /\ src' = [src EXCEPT ![SIM_INSTANCE] = keys] /\ sim = "none" /\ missed' = ~b
    BY <1>11, <2>9 DEF SimStart, SimStep, simInject, linkSetKeyboardReport, usbdHidTraceSet
  <2>2. astray' \in BOOLEAN
    BY <1>0, <1>11 DEF SimStart, Blame
  <2>3. src'[SIM_INSTANCE] = keys
    BY <2>1, SimWrites DEF EInv, IInv, input
  <2>4. SettingsOK' /\ Cut' /\ Engine'
    BY <2>1, <2>2 DEF settings, engine, EInv, SettingsOK, Cut, Engine, InUse
  <2>5. Record'
    BY <2>1, <2>3, <2>9 DEF engine, EInv, IInv, Inside, Record, trace_on
  <2>6. QED
    BY <1>0, <2>4, <2>5 DEF EInv
<1>12. CASE SimRelease \/ SimDump
  <2>1. /\ UNCHANGED <<settings, engine, turn, shadow, wire, trace, out_enable, missed>> /\ Seen
        /\ sim \in {"hold", "settle"} /\ sim' # "none" /\ (sim' \in {"hold", "settle"} => sim = "hold")
    BY <1>12 DEF SimRelease, SimDump, SimStep, usbdHidTraceSet, output
  <2>2. astray' \in BOOLEAN
    BY <1>0, <1>12, BlameType DEF SimRelease, SimDump
  <2>3. trace_on /\ ~missed => trace # "none"
    BY <2>1, MergedIs DEF EInv, IInv, Record, Seen
  <2>4. SettingsOK' /\ Cut' /\ Engine'
    BY <2>1, <2>2 DEF settings, engine, EInv, SettingsOK, Cut, Engine, InUse
  <2>5. Record'
    BY <2>1, <2>3 DEF engine, EInv, Record, trace_on
  <2>6. QED
    BY <1>0, <2>4, <2>5 DEF EInv
<1>14. CASE SimEnd
  <2>1. astray' \in BOOLEAN
    BY <1>0, <1>14 DEF SimEnd, Blame
  <2>2. SettingsOK' /\ Cut'
    BY <1>14, <2>1 DEF SimEnd, SimStep, simInject, usbdHidTraceSet, settings, engine, output, EInv, IInv,
         KeyboardOK, SettingsOK, Cut
  <2>3. Record'
    BY <1>14, <2>1 DEF SimEnd, SimStep, simInject, usbdHidTraceSet, settings, engine, output, EInv, IInv,
         KeyboardOK, Inside, SettingsOK, Cut, Record, trace_on
  <2>4. Engine'
    BY <1>14, <2>1 DEF SimEnd, SimStep, simInject, usbdHidTraceSet, settings, engine, output, EInv, IInv,
         KeyboardOK, SettingsOK, Engine, InUse
  <2>5. QED
    BY <1>0, <2>2, <2>3, <2>4 DEF EInv
<1>15. CASE Reboot
  BY <1>0, <1>15, DestIs DEF Reboot, EInv, SettingsOK, Cut, Record, Engine, InUse, trace_on
<1>16. CASE UNCHANGED vars
  BY <1>0, <1>16, ESame DEF vars, settings, engine, output
<1>17. QED
  BY <1>1, <1>2, <1>3, <1>4, <1>5, <1>6, <1>7, <1>8, <1>9, <1>10, <1>11, <1>12, <1>14,
     <1>15, <1>16
  DEF Next, via_custom_value_command_kb, cliCmd

-------------------------------------------------------------------------------
(* What holds as long as astray does not say otherwise.  The keys of the   *)
(* last report that waits are those that are down; without one, a key in   *)
(* the matrix that is up is one that QMK has but does not report, since it *)
(* was cleared (Known).  What an interface is going to hold (Line) is in   *)
(* QMK's last report for it or, on IF0, was passed through; while the      *)
(* output is cut that is only said where nothing changed (Lines).          *)
HeldKeys == IF held = None THEN {} ELSE held
Line(i) == IF wire[i] # None THEN wire[i] ELSE host[i]

Known ==
  /\ held = None => queue = <<>> /\ (connect_pre \/ Own = {})
  /\ held # None /\ queue # <<>> => queue[Len(queue)] = held
  /\ held # None /\ queue = <<>> => Own \subseteq held \cup (qmk \ down)
  /\ is_passthrough => Own \subseteq qmk \ down
Lone == \A i \in Itf : i # InUse => last[i] = {}
Sent == out_enable => Line("IF1") \subseteq last["IF1"] /\ Line("IF0") \subseteq shadow
Known0 == IF is_passthrough
          THEN queue = <<>> => Line("IF0") \subseteq last["IF0"] \cup HeldKeys
          ELSE Line("IF0") \subseteq last["IF0"]
Lines == Lone /\ Sent /\ (out_enable \/ host["IF0"] = shadow => Known0)
Good == Known /\ Lines

GInv == EInv /\ is_passthrough \in BOOLEAN /\ (~astray => Good)

(* When all is up, nothing of what happened before matters.                *)
LEMMA CalmIsGood == EInv /\ Calm => Good
BY DestIs DEF EInv, IInv, KeyboardOK, Calm, Good, Known, Own, Lines, Lone, Sent, Known0, Line, HeldKeys, Merged

LEMMA Blamed ==
  ASSUME GInv, NEW c \in BOOLEAN, Blame(c), ~astray'
  PROVE  Good /\ ~c
<1>1. CASE Calm
  BY <1>1, CalmIsGood DEF GInv, Blame
<1>2. CASE ~Calm
  BY <1>2 DEF GInv, Blame
<1>3. QED
  BY <1>1, <1>2

LEMMA NoneIs == \A r \in SUBSET Keys : r # None
BY KeyAssumption DEF Keys

(* After a report of QMK's, what the interface is going to hold is in it.  *)
LEMMA EmitLine ==
  ASSUME EInv, Sent, NEW i \in Itf, NEW d \in SUBSET Keys, Emit(i, d),
         UNCHANGED <<host, out_enable, sim>>
  PROVE  /\ Sent'
         /\ out_enable \/ host["IF0"] = shadow' =>
              \/ Line("IF0")' \subseteq last'["IF0"]
              \/ UNCHANGED <<Line("IF0"), shadow>> /\ last'["IF0"] = last["IF0"]
<1>1. last' = [last EXCEPT ![i] = d] /\ (~out_enable => wire' = wire)
      /\ (~out_enable => \A j \in Itf : wire[j] = None)
      /\ last \in [Itf -> SUBSET Keys] /\ wire \in [Itf -> {None} \cup SUBSET Keys]
  BY EmitIs DEF EInv, Cut, SettingsOK, IInv, KeyboardOK
<1>2. CASE d = last[i] /\ UNCHANGED output
  BY <1>1, <1>2 DEF output, Sent, Line
<1>3. CASE Send(i, d)
  <2>1. /\ shadow' = IF i = "IF0" THEN d ELSE shadow
        /\ \/ i = "IF0" /\ d = shadow /\ wire' = wire
           \/ out_enable => wire' = [wire EXCEPT ![i] = d]
    BY <1>3, SendIs DEF EInv
  <2>2. d # None
    BY NoneIs
  <2>3. CASE i = "IF0"
    BY <1>1, <2>1, <2>2, <2>3 DEF Sent, Line, Itf
  <2>4. CASE i = "IF1"
    BY <1>1, <2>1, <2>2, <2>4 DEF Sent, Line, Itf
  <2>5. QED
    BY <2>3, <2>4 DEF Itf
<1>4. QED
  BY <1>2, <1>3 DEF Emit

(* Clearing QMK spoils nothing, even when pass-through begins or ends, but *)
(* for what astray remembers.                                              *)
LEMMA ClearGood ==
  ASSUME EInv, Good, NEW p \in BOOLEAN, NEW n \in BOOLEAN, clear_keyboard(Dest(p, n)),
         UNCHANGED <<input, src, host, out_enable, sim, missed>>, Lone',
         is_passthrough \in BOOLEAN, is_passthrough' \in BOOLEAN,
         is_passthrough' # is_passthrough =>
           IF is_passthrough' THEN Merged = qmk ELSE shadow' = last'["IF0"]
  PROVE  Good'
<1>1. Emit(Dest(p, n), {}) /\ qmk' = qmk /\ Dest(p, n) \in Itf /\ {} \in SUBSET Keys
  BY DestIs DEF clear_keyboard
<1>2. Sent'
      /\ (out_enable \/ host["IF0"] = shadow' =>
            \/ Line("IF0")' \subseteq last'["IF0"]
            \/ UNCHANGED <<Line("IF0"), shadow>> /\ last'["IF0"] = last["IF0"])
  BY <1>1, EmitLine DEF Good, Lines
<1>3. down' = {} /\ (~out_enable => wire' = wire) /\ (~out_enable => wire["IF0"] = None)
  BY ClearIs DEF EInv, Cut, Itf
<1>4. Known'
  <2>1. is_passthrough' => Own \subseteq qmk
    BY MergedIs DEF EInv, IInv, Good, Known
  <2>2. QED
    BY <1>1, <1>3, <2>1 DEF Good, Known, Own, input
<1>5. ASSUME out_enable \/ host["IF0"] = shadow' PROVE Known0'
  <2>1. CASE is_passthrough' = is_passthrough
    BY <1>2, <1>5, <2>1 DEF Good, Lines, Known0, HeldKeys, input
  <2>2. CASE is_passthrough' /\ ~is_passthrough
    BY <1>2, <1>5, <2>2 DEF Good, Lines, Known0
  <2>3. CASE ~is_passthrough' /\ is_passthrough
    <3>1. shadow' = last'["IF0"]
      BY <2>3
    <3>2. Line("IF0")' \subseteq shadow'
      BY <1>2, <1>3, <1>5 DEF Sent, Line
    <3>3. QED
      BY <2>3, <3>1, <3>2 DEF Known0
  <2>4. QED
    BY <2>1, <2>2, <2>3
<1>6. QED
  BY <1>2, <1>4, <1>5 DEF Good, Lines

(* What is passed through is what IF0 is going to hold.                    *)
LEMMA PassLine ==
  ASSUME EInv, Sent, NEW r \in SUBSET Keys, Send("IF0", r), UNCHANGED <<last, host, out_enable>>
  PROVE  Sent' /\ (out_enable \/ host["IF0"] = shadow' => Line("IF0")' \subseteq r)
<1>1. (~out_enable => wire' = wire) /\ (~out_enable => \A j \in Itf : wire[j] = None)
      /\ wire \in [Itf -> {None} \cup SUBSET Keys] /\ r # None
      /\ shadow' = r
      /\ \/ r = shadow /\ wire' = wire
         \/ out_enable => wire' = [wire EXCEPT !["IF0"] = r]
  BY SendIs, NoneIs DEF EInv, Cut, SettingsOK, IInv, KeyboardOK, Itf
<1>2. QED
  BY <1>1 DEF Sent, Line, Itf

LEMMA GInvInit == Init => GInv
BY EInvInit, DestIs DEF Init, GInv, Good, Known, Own, Lines, Lone, Sent, Known0, Line, HeldKeys

LEMMA GSame ==
  ASSUME Good, UNCHANGED <<held, instance, queue, connect_pre, src, proto_pre, nkro, is_passthrough, qmk, down,
                           last, shadow, out_enable, wire, host>>
  PROVE  Good'
BY DEF Good, Known, Own, Lines, Lone, Sent, Known0, Line, HeldKeys, InUse

LEMMA GInvNext == GInv /\ [Next]_vars => GInv'
<1> SUFFICES ASSUME GInv, [Next]_vars PROVE GInv'
  OBVIOUS
<1>0. EInv /\ EInv' /\ IInv /\ KeyboardOK /\ SettingsOK /\ SettingsOK' /\ is_passthrough \in BOOLEAN
  BY EInvNext DEF GInv, EInv, IInv
<1>1. ASSUME NEW keys \in SUBSET Key, Report(keys) PROVE GInv'
  <2>1. is_passthrough' \in BOOLEAN /\ keys # None
    BY <1>0, <1>1, NoneIs DEF Report, settings, Keys
  <2>2. ASSUME ~astray' PROVE Good'
    <3>1. Good /\ queue' # queue
      BY <1>1, <2>2, Blamed DEF Report
    <3>2. queue' = Append(queue, keys)
      BY <1>1, <3>1 DEF Report, Queued
    <3>3. queue' # <<>> /\ queue'[Len(queue')] = keys
      BY <1>0, <3>2, AppendProperties DEF KeyboardOK
    <3>4. held' = keys
      BY <1>1 DEF Report
    <3>5. Known'
      BY <1>1, <2>1, <3>1, <3>3, <3>4 DEF Report, settings, engine, Good, Known, Own
    <3>6. Lines'
      BY <1>1, <3>1, <3>3 DEF Report, settings, engine, output, Good, Lines, Lone, Sent, Known0, Line,
                              InUse
    <3>7. QED
      BY <3>5, <3>6 DEF Good
  <2>3. QED
    BY <1>0, <2>1, <2>2 DEF GInv
<1>2. CASE Plug
  <2>1. is_passthrough' \in BOOLEAN /\ {} # None
    BY <1>0, <1>2, NoneIs DEF Plug, settings
  <2>2. ASSUME ~astray' PROVE Good'
    <3>1. Good /\ ~connect_pre
      BY <1>0, <1>2, <2>2, Blamed DEF Plug, KeyboardOK
    <3>2. Known'
      BY <1>2, <2>1, <3>1 DEF Plug, settings, engine, Good, Known, Own
    <3>3. Lines'
      BY <1>2, <3>1 DEF Plug, settings, engine, output, Good, Lines, Lone, Sent, Known0, Line, InUse,
                        HeldKeys
    <3>4. QED
      BY <3>2, <3>3 DEF Good
  <2>3. QED
    BY <1>0, <2>1, <2>2 DEF GInv
<1>3. CASE Unplug
  <2>1. is_passthrough' \in BOOLEAN
    BY <1>0, <1>3 DEF Unplug, settings
  <2>2. ASSUME ~astray' PROVE Good'
    <3>1. Good /\ queue = <<>> /\ ~is_passthrough /\ connect_pre
      BY <1>0, <1>3, <2>2, Blamed DEF Unplug, KeyboardOK
    <3>2. Known'
      BY <1>3, <3>1 DEF Unplug, settings, engine, Good, Known, Own
    <3>3. Lines'
      BY <1>3, <3>1 DEF Unplug, settings, engine, output, Good, Lines, Lone, Sent, Known0, Line, InUse
    <3>4. QED
      BY <3>2, <3>3 DEF Good
  <2>3. QED
    BY <1>0, <2>1, <2>2 DEF GInv
<1>4. CASE Poll
  <2>1. is_passthrough' \in BOOLEAN
    BY <1>0, <1>4 DEF Poll, settings
  <2>2. ASSUME ~astray' PROVE Good'
    <3>1. Good
      BY <1>0, <1>4, <2>2, Blamed DEF Poll, KeyboardOK
    <3>2. Own' = IF connect_pre /\ held = None THEN {} ELSE Own
      <4>1. instance' = instance
        BY <1>4 DEF Poll
      <4>2. CASE connect_pre /\ held = None
        BY <1>0, <1>4, <4>1, <4>2, KeyboardWrites DEF Poll, linkClearInstance
      <4>3. CASE ~(connect_pre /\ held = None)
        BY <1>4, <4>1, <4>3 DEF Poll, Own
      <4>4. QED
        BY <4>2, <4>3
    <3>3. UNCHANGED <<held, queue, qmk, down, is_passthrough>> /\ connect_pre' = (held # None)
      BY <1>4 DEF Poll, settings, engine
    <3>4. Known'
      BY <3>1, <3>2, <3>3 DEF Good, Known, Own
    <3>5. Lines'
      BY <1>4, <3>1 DEF Poll, settings, engine, output, Good, Lines, Lone, Sent, Known0, Line, InUse,
                        HeldKeys
    <3>6. QED
      BY <3>4, <3>5 DEF Good
  <2>3. QED
    BY <1>0, <2>1, <2>2 DEF GInv
<1>5. CASE Drain
  <2>1. is_passthrough' \in BOOLEAN
    BY <1>0, <1>5 DEF Drain, settings
  <2>2. ASSUME ~astray' PROVE Good'
    <3>1. Good
      BY <1>5, <2>2, Blamed DEF Drain
    <3>2. UNCHANGED <<held, connect_pre, settings, engine, host, out_enable>> /\ queue # <<>>
          /\ queue' = Tail(queue)
      BY <1>5 DEF Drain
    <3>3. held # None /\ queue[Len(queue)] = held
      BY <3>1, <3>2 DEF Good, Known, Own
    <3>4. /\ Head(queue) \in SUBSET Key
          /\ queue' # <<>> => queue'[Len(queue')] = held
          /\ queue' = <<>> => Head(queue) = held
      <4>1. Len(queue) \in Nat /\ Len(queue) >= 1 /\ Len(Tail(queue)) = Len(queue) - 1
            /\ Head(queue) = queue[1] /\ Head(queue) \in SUBSET Key /\ Tail(queue) \in Seq(SUBSET Key)
        BY <1>0, <3>2, HeadTailProperties, EmptySeq DEF KeyboardOK
      <4>2. CASE Tail(queue) = <<>>
        <5>1. Len(queue) = 1
          BY SMTT(30), <4>1, <4>2
        <5>2. QED
          BY <3>2, <3>3, <4>1, <4>2, <5>1
      <4>3. CASE Tail(queue) # <<>>
        <5>1. Len(Tail(queue)) \in Nat /\ Len(Tail(queue)) # 0
          BY <4>1, <4>3, EmptySeq
        <5>2. Tail(queue)[Len(queue) - 1] = queue[Len(queue)]
          BY <1>0, <3>2, <4>1, <5>1 DEF KeyboardOK
        <5>3. Tail(queue)[Len(Tail(queue))] = held
          BY <3>3, <4>1, <5>2
        <5>4. QED
          BY <3>2, <4>1, <4>3, <5>3
      <4>4. QED
        BY <4>2, <4>3
    <3>5. CASE is_passthrough
      <4>1. Send("IF0", Head(queue)) /\ src' = src /\ Head(queue) \in SUBSET Keys
        BY <1>5, <3>4, <3>5 DEF Drain, Keys
      <4>2. Sent' /\ (out_enable \/ host["IF0"] = shadow' => Line("IF0")' \subseteq Head(queue))
        BY <1>0, <3>1, <3>2, <4>1, PassLine DEF Good, Lines, engine
      <4>3. Own' \subseteq qmk' \ down' /\ is_passthrough'
        BY <1>5, <3>1, <3>2, <3>5, <4>1 DEF Drain, Good, Known, Own, settings, engine
      <4>4. Known'
        BY <3>2, <3>3, <3>4, <4>3 DEF Known, Own
      <4>5. out_enable \/ host["IF0"] = shadow' => Known0'
        BY <3>2, <3>3, <3>4, <4>2, <4>3 DEF Known0, HeldKeys
      <4>6. Lone'
        BY <3>1, <3>2 DEF Good, Lines, Lone, InUse, settings, engine
      <4>7. QED
        BY <3>2, <4>2, <4>4, <4>5, <4>6 DEF Good, Lines
    <3>6. CASE ~is_passthrough
      <4>1. Own' = Head(queue) /\ UNCHANGED output
        BY <1>0, <1>5, <3>4, <3>6, KeyboardWrites DEF Drain, linkSetKeyboardReport
      <4>2. Known'
        BY <3>2, <3>3, <3>4, <3>6, <4>1 DEF Known, Own, settings
      <4>3. Lines'
        BY <3>1, <3>2, <3>6, <4>1 DEF settings, engine, output, Good, Lines, Lone, Sent, Known0, Line,
                                      InUse
      <4>4. QED
        BY <4>2, <4>3 DEF Good
    <3>7. QED
      BY <3>5, <3>6
  <2>3. QED
    BY <1>0, <2>1, <2>2 DEF GInv
<1>6. CASE DrainEnd \/ SetProtocol
  <2>1. is_passthrough' \in BOOLEAN
    BY <1>0, <1>6 DEF DrainEnd, SetProtocol, settings
  <2>2. ASSUME ~astray' PROVE Good'
    <3>1. Good
      BY <1>6, <2>2, Blamed DEF DrainEnd, SetProtocol
    <3>2. QED
      BY <1>6, <3>1, GSame DEF DrainEnd, SetProtocol, input, settings, engine, output
  <2>3. QED
    BY <1>0, <2>1, <2>2 DEF GInv
<1>7. ASSUME NEW i \in Itf, HostTake(i) PROVE GInv'
  <2>1. is_passthrough' \in BOOLEAN
    BY <1>0, <1>7 DEF HostTake, settings
  <2>2. ASSUME ~astray' PROVE Good'
    <3>1. Good
      BY <1>7, <2>2, Blamed DEF HostTake
    <3>2. out_enable /\ out_enable'
      BY <1>0, <1>7 DEF HostTake, EInv, Cut
    <3>3. UNCHANGED <<Line("IF0"), Line("IF1")>>
      BY <1>0, <1>7, NoneIs DEF HostTake, Line, KeyboardOK, Itf
    <3>4. Known'
      BY <1>7, <3>1 DEF HostTake, input, settings, engine, Good, Known, Own
    <3>5. Lone' /\ Sent'
      BY <1>7, <3>1, <3>3 DEF HostTake, settings, engine, Good, Lines, Lone, Sent, InUse
    <3>6. Known0'
      BY <1>7, <3>1, <3>2, <3>3 DEF HostTake, input, settings, engine, Good, Lines, Known0, HeldKeys
    <3>7. QED
      BY <3>4, <3>5, <3>6 DEF Good, Lines
  <2>3. QED
    BY <1>0, <2>1, <2>2 DEF GInv
<1>8. ASSUME NEW b \in BOOLEAN, SetPassthrough(b) PROVE GInv'
  <2>1. UNCHANGED <<input, src, proto, proto_pre, nkro, out_enable, host, sim, missed>> /\ turn = "via"
        /\ is_passthrough' = b
    BY <1>8 DEF SetPassthrough, qmkSetPassthrough
  <2>2. CASE b # is_passthrough
    <3>1. clear_keyboard(Dest(proto, nkro))
          /\ Blame(IF b THEN Merged # qmk ELSE shadow' # last'["IF0"])
      BY <1>8, <2>2 DEF SetPassthrough, qmkSetPassthrough
    <3>2. ASSUME ~astray' PROVE Good'
      <4>1. Good /\ ~(IF b THEN Merged # qmk ELSE shadow' # last'["IF0"])
        BY <3>1, <3>2, Blamed
      <4>2. last' = [last EXCEPT ![Dest(proto, nkro)] = {}]
        BY <1>0, <2>1, <3>1, ClearIs DEF SettingsOK
      <4>3. Lone'
        BY <1>0, <2>1, <4>1, <4>2, DestIs DEF Good, Lines, Lone, InUse, SettingsOK
      <4>4. QED
        BY <1>0, <2>1, <3>1, <4>1, <4>3, ClearGood DEF SettingsOK
    <3>3. QED
      BY <1>0, <2>1, <3>2 DEF GInv
  <2>3. CASE b = is_passthrough
    <3>1. UNCHANGED <<engine, output>> /\ Blame(FALSE)
      BY <1>8, <2>3 DEF SetPassthrough, qmkSetPassthrough
    <3>2. ASSUME ~astray' PROVE Good'
      BY <2>1, <2>3, <3>1, <3>2, Blamed, GSame DEF input, engine, output
    <3>3. QED
      BY <1>0, <2>1, <3>2 DEF GInv
  <2>4. QED
    BY <2>2, <2>3
<1>9. ASSUME NEW b \in BOOLEAN, SetNkro(b) PROVE GInv'
  <2>1. UNCHANGED <<input, src, is_passthrough, out_enable, host, sim, missed>>
        /\ clear_keyboard(Dest(proto, b)) /\ Blame(\E i \in Itf : last'[i] # {})
    BY <1>9 DEF SetNkro
  <2>2. ASSUME ~astray' PROVE Good'
    <3>1. Good /\ Lone'
      BY <2>1, <2>2, Blamed DEF Lone
    <3>2. QED
      BY <1>0, <2>1, <3>1, ClearGood DEF SettingsOK
  <2>3. QED
    BY <1>0, <2>1, <2>2 DEF GInv
<1>10. CASE ProtocolCheck
  <2>1. UNCHANGED <<input, src, nkro, is_passthrough, out_enable, host, sim, missed>> /\ proto_pre' = proto
    BY <1>10 DEF ProtocolCheck
  <2>2. CASE proto # proto_pre
    <3>1. clear_keyboard(Dest(proto, nkro)) /\ Blame(\E i \in Itf : last'[i] # {})
      BY <1>10, <2>2 DEF ProtocolCheck
    <3>2. ASSUME ~astray' PROVE Good'
      <4>1. Good /\ Lone'
        BY <3>1, <3>2, Blamed DEF Lone
      <4>2. QED
        BY <1>0, <2>1, <3>1, <4>1, ClearGood DEF SettingsOK
    <3>3. QED
      BY <1>0, <2>1, <3>2 DEF GInv
  <2>3. CASE proto = proto_pre
    <3>1. UNCHANGED <<engine, output>> /\ Blame(FALSE)
      BY <1>10, <2>3 DEF ProtocolCheck
    <3>2. ASSUME ~astray' PROVE Good'
      BY <2>1, <2>3, <3>1, <3>2, Blamed, GSame DEF input, engine, output
    <3>3. QED
      BY <1>0, <2>1, <3>2 DEF GInv
  <2>4. QED
    BY <2>2, <2>3
<1>11. CASE KeyboardTask
  <2> DEFINE d == (down \cup (Merged \ qmk)) \ (qmk \ Merged)
  <2>1. UNCHANGED <<input, src, settings, out_enable, host, sim>> /\ qmk' = Merged /\ turn = "task"
        /\ Blame(FALSE)
    BY <1>11 DEF KeyboardTask, Go
  <2>2. ASSUME ~astray' PROVE Good'
    <3>1. Good
      BY <2>1, <2>2, Blamed
    <3>2. CASE Merged # qmk
      <4>1. Dest(proto, nkro) = InUse /\ down \subseteq qmk
        BY <1>0, <2>1 DEF EInv, Engine, InUse
      <4>2. Emit(InUse, d) /\ InUse \in Itf
        BY <1>11, <3>2, <4>1, DestIs DEF KeyboardTask
      <4>3. d \in SUBSET Keys
        BY <1>0, <4>1, MergedIs DEF SettingsOK
      <4>4. Own \ (qmk \ down) = Own \ (Merged \ d)
        BY <1>0, <4>1, MergedIs
      <4> HIDE DEF d
      <4>5. down' = d /\ last' = [last EXCEPT ![InUse] = d]
        BY <1>0, <2>1, <4>2, <4>3, EmitIs
      <4>6. Sent'
            /\ (out_enable \/ host["IF0"] = shadow' =>
                  \/ Line("IF0")' \subseteq last'["IF0"]
                  \/ UNCHANGED <<Line("IF0"), shadow>> /\ last'["IF0"] = last["IF0"])
        BY <1>0, <2>1, <3>1, <4>2, <4>3, EmitLine DEF Good, Lines
      <4>7. Own \ (qmk' \ down') = Own \ (qmk \ down)
        BY <2>1, <4>4, <4>5
      <4>8. UNCHANGED <<held, queue, connect_pre, Own, is_passthrough, InUse>>
        BY <2>1 DEF input, settings, InUse, Own
      <4>9. Known'
        BY <3>1, <4>7, <4>8 DEF Good, Known, Own
      <4>10. Lone'
        BY <1>0, <3>1, <4>5, <4>8 DEF Good, Lines, Lone, SettingsOK
      <4>11. ASSUME out_enable \/ host["IF0"] = shadow' PROVE Known0'
        BY <3>1, <4>6, <4>8, <4>11 DEF Good, Lines, Known0, HeldKeys
      <4>12. QED
        BY <2>1, <4>6, <4>9, <4>10, <4>11 DEF Good, Lines
    <3>3. CASE Merged = qmk
      BY <1>11, <2>1, <3>1, <3>3, GSame DEF KeyboardTask, input, settings, output
    <3>4. QED
      BY <3>2, <3>3
  <2>3. QED
    BY <1>0, <2>1, <2>2 DEF GInv, settings
<1>12. ASSUME NEW b \in BOOLEAN, SimStart(b) PROVE GInv'
  <2>9. PICK keys \in SUBSET {SimKey} : keys = IF b THEN {SimKey} ELSE {}
    OBVIOUS
  <2>0. /\ UNCHANGED <<input, settings, engine, host, shadow>> /\ sim = "none" /\ ~out_enable'
        /\ wire' = [j \in Itf |-> None] /\ src' = [src EXCEPT ![SIM_INSTANCE] = keys]
        /\ Blame(\E i \in Itf : wire[i] # None)
    BY <1>12, <2>9 DEF SimStart, SimStep, simInject, linkSetKeyboardReport
  <2>1. /\ UNCHANGED <<input, settings, engine, host, shadow>> /\ sim = "none" /\ ~out_enable'
        /\ wire' = [j \in Itf |-> None] /\ Own' \subseteq Own
        /\ Blame(\E i \in Itf : wire[i] # None)
    BY <1>0, <2>0, SimWrites DEF input
  <2>2. ASSUME ~astray' PROVE Good'
    <3>1. Good /\ ~\E i \in Itf : wire[i] # None
      BY <2>1, <2>2, Blamed
    <3>2. out_enable
      BY <1>0, <2>1 DEF EInv, Cut
    <3>3. UNCHANGED Line("IF0")
      BY <2>1, <3>1 DEF Line, Itf
    <3>4. Known'
      BY <2>1, <3>1 DEF Good, Known, Own, input, settings, engine
    <3>5. Lone' /\ Sent'
      BY <2>1, <3>1 DEF Good, Lines, Lone, Sent, InUse, settings, engine
    <3>6. Known0'
      BY <2>1, <3>1, <3>2, <3>3 DEF Good, Lines, Known0, HeldKeys, input, settings, engine
    <3>7. QED
      BY <3>4, <3>5, <3>6 DEF Good, Lines
  <2>3. QED
    BY <1>0, <2>1, <2>2 DEF GInv, settings
<1>13. CASE SimRelease \/ SimDump
  <2>0. UNCHANGED <<input, settings, engine, host, shadow, wire, out_enable>>
        /\ src' = [src EXCEPT ![SIM_INSTANCE] = {}] /\ Blame(FALSE)
    BY <1>13 DEF SimRelease, SimDump, SimStep, simInject, linkSetKeyboardReport, output
  <2>9. {} \in SUBSET {SimKey} /\ instance' = instance
    BY <2>0 DEF input
  <2>1. UNCHANGED <<input, settings, engine, host, shadow, wire, out_enable>> /\ Own' \subseteq Own
        /\ Blame(FALSE)
    <3>1. Own' \subseteq Own
      BY <1>0, <2>0, <2>9, SimWrites
    <3>2. QED
      BY <2>0, <3>1
  <2>2. ASSUME ~astray' PROVE Good'
    <3>1. Good
      BY <2>1, <2>2, Blamed
    <3>2. Known'
      BY <2>1, <3>1 DEF Good, Known, Own, input, settings, engine
    <3>3. Lines'
      BY <2>1, <3>1 DEF Good, Lines, Lone, Sent, Known0, Line, HeldKeys, InUse, input, settings, engine
    <3>4. QED
      BY <3>2, <3>3 DEF Good
  <2>3. QED
    BY <1>0, <2>1, <2>2 DEF GInv, settings
<1>14. CASE SimEnd
  <2>1. UNCHANGED <<input, settings, engine, host, shadow, wire, src>> /\ sim = "shown"
        /\ Blame(shadow # host["IF0"] \/ last["IF1"] # host["IF1"])
    BY <1>14 DEF SimEnd, SimStep
  <2>2. ASSUME ~astray' PROVE Good'
    <3>1. Good /\ shadow = host["IF0"] /\ last["IF1"] = host["IF1"]
      BY <2>1, <2>2, Blamed
    <3>2. wire["IF0"] = None /\ wire["IF1"] = None
      BY <1>0, <2>1 DEF EInv, Cut, Itf
    <3>3. Known'
      BY <2>1, <3>1 DEF Good, Known, Own, input, settings, engine
    <3>4. Lone' /\ Sent'
      BY <2>1, <3>1, <3>2 DEF Good, Lines, Lone, Sent, Line, InUse, settings, engine
    <3>5. Known0'
      BY <2>1, <3>1 DEF Good, Lines, Known0, Line, HeldKeys, input, settings, engine
    <3>6. QED
      BY <3>3, <3>4, <3>5 DEF Good, Lines
  <2>3. QED
    BY <1>0, <2>1, <2>2 DEF GInv, settings
<1>15. CASE Reboot
  <2>1. is_passthrough' \in BOOLEAN
    BY <1>15 DEF Reboot
  <2>2. Known'
    BY <1>15 DEF Reboot, Known, Own
  <2>3. Lines'
    BY <1>15 DEF Reboot, Lines, Lone, Sent, Known0, Line, Itf
  <2>4. QED
    BY <1>0, <2>1, <2>2, <2>3 DEF GInv, Good
<1>16. CASE UNCHANGED vars
  BY <1>0, <1>16, GSame DEF GInv, vars, input, settings, engine, output
<1>17. QED
  BY <1>1, <1>2, <1>3, <1>4, <1>5, <1>6, <1>7, <1>8, <1>9, <1>10, <1>11, <1>12, <1>13, <1>14,
     <1>15, <1>16
  DEF Next, via_custom_value_command_kb, cliCmd

-------------------------------------------------------------------------------
(* A key that is up does not stay down on the PC, whichever way its press  *)
(* and its release go: at rest both interfaces hold keys of QMK's last     *)
(* report in use, whose keys are in the matrix and hence down, or what was *)
(* passed through.                                                         *)
THEOREM NoStuckKeyHolds == Spec => []NoStuckKey
<1>1. ASSUME GInv, Rest, ~astray PROVE Stuck = {}
  <2>1. Good /\ EInv
    BY <1>1 DEF GInv
  <2>2. /\ turn = "poll" /\ queue = <<>> /\ connect_pre = (held # None) /\ qmk = Merged
        /\ sim = "none" /\ wire["IF0"] = None /\ wire["IF1"] = None
    BY <1>1 DEF Rest, Seen, Itf
  <2>3. out_enable /\ SimKey \notin src[SIM_INSTANCE] /\ down \subseteq qmk /\ last[InUse] \subseteq down
    BY <2>1, <2>2 DEF EInv, Cut, Engine, IInv, Inside
  <2>4. last["IF0"] \subseteq down /\ last["IF1"] \subseteq down
    BY <2>1, <2>3, DestIs DEF Good, Lines, Lone
  <2>5. host["IF1"] \subseteq down
        /\ host["IF0"] \subseteq down \cup (IF is_passthrough THEN HeldKeys ELSE {})
    BY <2>1, <2>2, <2>3, <2>4 DEF Good, Lines, Sent, Known0, Line
  <2>6. down \subseteq Own
    BY <2>1, <2>2, <2>3, MergedIs DEF EInv, IInv
  <2>7. CASE held = None
    <3>1. Own = {} /\ HeldKeys = {}
      BY <2>1, <2>2, <2>7 DEF Good, Known, Own, HeldKeys
    <3>2. QED
      BY <2>5, <2>6, <3>1 DEF Stuck
  <2>8. CASE held # None
    <3>1. down \subseteq held /\ HeldKeys = held
      BY <2>1, <2>2, <2>6, <2>8 DEF Good, Known, Own, HeldKeys
    <3>2. QED
      BY <2>5, <2>8, <3>1 DEF Stuck
  <2>9. QED
    BY <2>7, <2>8
<1>2. GInv => NoStuckKey
  BY <1>1 DEF NoStuckKey
<1>3. QED
  BY <1>2, GInvInit, GInvNext, PTL DEF Spec

(* What `key sim` shows has the press and after it the release, though the *)
(* keyboard's reports share its record and QMK may be cleared meanwhile,   *)
(* unless the key was up again before keyboard_task had looked.            *)
THEOREM SimTellsHolds == Spec => SimTells
<1>1. ASSUME GInv, SimDump, ~astray, ~missed PROVE trace' = "tap"
  <2>1. /\ turn = "poll" /\ sim = "settle" /\ qmk = Merged /\ trace' = trace
    BY <1>1 DEF SimDump, SimStep, Seen, usbdHidTraceSet
  <2>2. EInv /\ Lone /\ trace \in {"none", "press", "tap"} /\ trace # "none"
    BY <1>1, <2>1 DEF GInv, Good, Lines, EInv, IInv, Inside, SettingsOK, Record, trace_on
  <2>3. SimKey \notin down /\ last[InUse] \subseteq down
    BY <2>1, <2>2, MergedIs DEF EInv, Engine, IInv, Inside
  <2>4. SimKey \notin last["IF0"] /\ SimKey \notin last["IF1"]
    BY <2>2, <2>3, DestIs DEF Lone
  <2>5. trace # "press"
    BY <2>1, <2>2, <2>4 DEF EInv, Record, trace_on
  <2>6. QED
    BY <2>1, <2>2, <2>5
<1>2. GInv => (SimDump /\ ~astray /\ ~missed => trace' = "tap")
  BY <1>1
<1>3. GInv /\ [Next]_vars => [SimDump /\ ~astray /\ ~missed => trace' = "tap"]_vars
  BY <1>2
<1>4. QED
  BY <1>3, GInvInit, GInvNext, PTL DEF Spec, SimTells
===============================================================================
