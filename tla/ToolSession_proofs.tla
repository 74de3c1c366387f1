-------------------------- MODULE ToolSession_proofs --------------------------
(***************************************************************************)
(* Proofs about ToolSession, for every number of actions, pieces and       *)
(* places in the raw queue.                                                *)
(*                                                                         *)
(* Types    what each variable holds, and that `pending` belongs to a      *)
(*          coroutine that awaits just that answer.  It is inductive by    *)
(*          itself.                                                        *)
(* Count    requests and answers on the way are at most as many as the     *)
(*          coroutines that may have sent them: every action under way,    *)
(*          attach, the poll and VIA have one each.  With Few the raw      *)
(*          queue therefore has room for all.                              *)
(* Chain    the pieces of an upload are in the queue in order, each after  *)
(*          the one before it or after the stage that holds it; Reached    *)
(*          says that the page sends the next one.                         *)
(* Told     an answer that says that an upload is stored is right.         *)
(* Behind   a COMMIT of another is so far ahead in the queue that its      *)
(*          answer is read before this upload awaits its own.              *)
(*                                                                         *)
(* A step of the page is one of Starts, Goes, Stops and Stays: the proofs  *)
(* of the last four parts see nothing else of it.                          *)
(***************************************************************************)
EXTENDS ToolSession, TLAPS, FiniteSetTheorems, SequenceTheorems

Upload  == {"BEGIN", "DATA", "COMMIT"}
Resting == {"idle", "sleep", "done", "failed"} \cup Kinds
Ends    == {"pin", "finish", "finishing", "recover", "recovering"}
OpPcs   == {"idle", "done", "failed"} \cup Kinds \cup Upload \cup {"ERASE", "SELECT", "READ"} \cup Ends

\* The sub-command whose answer a coroutine that is at p awaits.
SubOf(p) == CASE p = "pin" -> "SELECT"
              [] p \in {"finish", "recover"} -> "INFO"
              [] p \in {"finishing", "recovering"} -> "SLOT_INFO"
              [] OTHER -> p

PageOK ==
    /\ device \in BOOLEAN /\ busy \in BOOLEAN /\ paused \in BOOLEAN
    /\ pending = None \/ pending \in [by : Cos, sub : Subs]
    /\ pc \in [Cos -> Query \cup OpPcs \cup {"sleep"}]
    /\ pc["poll"] \in {"sleep", "idle"} \cup Query
    /\ pc["attach"] \in {"idle", "INFO", "SLOT_INFO"}
    /\ \A o \in Ops : pc[o] \in OpPcs
    /\ sent \in [Ops -> 0 .. CHUNKS]
    /\ \A o \in Ops : pc[o] \in Kinds \cup {"idle", "BEGIN", "ERASE", "SELECT", "READ"} => sent[o] = 0
    /\ \A o \in Ops : pc[o] = "DATA" => sent[o] > 0
    /\ pending # None => pc[pending.by] \notin Resting /\ pending.sub = SubOf(pc[pending.by])
    /\ ~device => pending = None \/ pending.by \in Ops

Req == {r \in [sub : Subs \cup {"VIA"}, by : Cos \cup {"via"}, chunk : 0 .. CHUNKS] :
            /\ r.sub = "VIA" <=> r.by = "via"
            /\ r.sub \in Upload => r.by \in Ops
            /\ r.sub = "DATA" => r.chunk \in Chunks
            /\ r.sub \in {"ERASE", "SELECT", "READ"} => r.by \in Ops}

QueueOK == raw_queue \in Seq(Req) /\ Len(raw_queue) <= HID_RAW_QUEUE_MAX

AnswerOK(a) == a \in Answer /\ (a.sub = "VIA" <=> a.by = "via") /\ (a.sub \notin Query \cup {"VIA"} => a.by \in Ops)

BoardOK ==
    /\ at \in {"top", "drain", "answer", "task", "apply"} /\ nested \in BOOLEAN /\ is_busy \in BOOLEAN
    /\ answer = None \/ AnswerOK(answer)
    /\ ep = None \/ AnswerOK(ep)
    /\ stage \in Stage
    /\ slot = None \/ slot \in Stage
    /\ active \in BOOLEAN /\ profile \in BOOLEAN
    /\ done \subseteq Ops
    /\ at = "answer" <=> answer # None

-----------------------------------------------------------------------------
(* What a step of the page does, told apart by who awaits an answer. *)

\* Actions that have asked something and have neither ended nor failed.
UnderWay == {o \in Ops : pc[o] \notin Resting}

StepOf(r) == IF r.sub = "BEGIN" THEN 0 ELSE IF r.sub = "DATA" THEN r.chunk ELSE CHUNKS + 1
At(o)     == IF pc[o] = "BEGIN" THEN 0 ELSE IF pc[o] = "DATA" THEN sent[o] ELSE CHUNKS + 1

Sends(c, r) ==
    /\ r \in Req /\ r.by = c
    /\ raw_queue' = Received(r)
    /\ pending' = [by |-> c, sub |-> r.sub]

\* The coroutine whose turn it is asks again, ...
Goes(c) ==
    /\ pending # None /\ pending.by = c
    /\ \E r \in Req : Sends(c, r) /\ (pc'[c] \in Upload => StepOf(r) = At(c)' /\ r.sub = pc'[c])
    /\ UnderWay' = UnderWay
    /\ pc'["attach"] = "idle" <=> pc["attach"] = "idle"
    /\ pc'[c] \in Upload => pc[c] \in Upload /\ At(c)' = At(c) + 1

\* ... or awaits nothing any more; ...
Stops(c) ==
    /\ pending # None /\ pending.by = c
    /\ pending' = None /\ raw_queue' = raw_queue
    /\ UnderWay' = UnderWay \ {c}
    /\ pc'["attach"] = "idle" <=> pc["attach"] = "idle" \/ c = "attach"

\* ... another takes the turn, the poll's only when its answer is not on the way; ...
Starts(c) ==
    /\ pending = None \/ pending.by # c
    /\ pending # None /\ pending.by = "poll" => ~InFlight("poll")
    /\ \E r \in Req : Sends(c, r) /\ (pc'[c] \in Upload => StepOf(r) = At(c)' /\ r.sub = pc'[c])
    /\ UnderWay' = UnderWay \cup ({c} \cap Ops) /\ c \notin UnderWay
    /\ c = "attach" => pc["attach"] = "idle"
    /\ pc'["attach"] = "idle" <=> pc["attach"] = "idle" /\ c # "attach"
    /\ pc'[c] \in Upload => pc'[c] = "BEGIN"

\* ... or nobody asks anything.
Stays ==
    /\ UNCHANGED <<pending, raw_queue>>
    /\ UnderWay' = UnderWay
    /\ pc'["attach"] = "idle" <=> pc["attach"] = "idle"
    /\ \A o \in Ops : pc'[o] \in Upload => pc[o] \in Upload /\ At(o)' = At(o)

\* A user, a timer or a visit to the page, ...
ActStep ==
    /\ UNCHANGED board
    /\ \/ Stays
       \/ \E c \in Cos : \/ Starts(c)
                         \/ ~InFlight(c) /\ (Stops(c) \/ (Goes(c) /\ pc'[c] \notin Upload))

\* ... and an answer, which may be somebody else's.
ReadsAnswer ==
    /\ ep # None /\ ep' = None
    /\ UNCHANGED <<turn, answer, stage, slot, active, profile, done>>
    /\ Stays \/ (ep.by # "via" /\ \E c \in Cos : Goes(c) \/ Stops(c))

-----------------------------------------------------------------------------
(* Sequences and names. *)

LEMMA Names ==
  /\ "poll" \notin Ops /\ "attach" \notin Ops /\ "via" \notin Ops
  /\ Cos = Ops \cup {"poll", "attach"} /\ "via" \notin Cos
  /\ CHUNKS \in Nat /\ CHUNKS >= 1 /\ Chunks = 1 .. CHUNKS
  /\ HID_RAW_QUEUE_MAX \in Nat /\ HID_RAW_QUEUE_MAX >= 1
BY ToolAssumption DEF Cos, Chunks

LEMMA Added ==
  ASSUME NEW T, NEW q \in Seq(T), NEW r \in T
  PROVE  /\ Append(q, r) \in Seq(T)
         /\ Len(Append(q, r)) = Len(q) + 1
         /\ \A i \in 1 .. Len(q) : Append(q, r)[i] = q[i]
         /\ Append(q, r)[Len(q) + 1] = r
BY AppendProperties

LEMMA Removed ==
  ASSUME NEW T, NEW q \in Seq(T), q # <<>>
  PROVE  /\ Tail(q) \in Seq(T) /\ Head(q) = q[1] /\ q[1] \in T
         /\ Len(q) \in Nat /\ Len(q) >= 1
         /\ Len(Tail(q)) = Len(q) - 1
         /\ \A i \in 1 .. Len(q) - 1 : Tail(q)[i] = q[i + 1]
BY HeadTailProperties, EmptySeq, LenProperties

LEMMA Moved ==
  ASSUME pc \in [Cos -> Query \cup OpPcs \cup {"sleep"}], NEW c \in Cos, NEW x,
         pc' = [pc EXCEPT ![c] = x]
  PROVE  /\ pc'[c] = x
         /\ \A d \in Cos : d # c => pc'[d] = pc[d]
         /\ \A o \in Ops : o # c => pc'[o] = pc[o]
         /\ x \in Query \cup OpPcs \cup {"sleep"} => pc' \in [Cos -> Query \cup OpPcs \cup {"sleep"}]
         /\ c \notin Ops => UnderWay' = UnderWay
         /\ c \in Ops /\ x \in Resting => UnderWay' = UnderWay \ {c}
         /\ c \in Ops /\ x \notin Resting => UnderWay' = UnderWay \cup {c}
<1>1. /\ pc'[c] = x
      /\ \A d \in Cos : d # c => pc'[d] = pc[d]
  OBVIOUS
<1>2. \A o \in Ops : o # c => pc'[o] = pc[o]
  BY <1>1, Names
<1>3. x \in Query \cup OpPcs \cup {"sleep"} => pc' \in [Cos -> Query \cup OpPcs \cup {"sleep"}]
  OBVIOUS
<1>4. UnderWay' = {o \in Ops : pc'[o] \notin Resting}
  BY DEF UnderWay
<1>5. c \notin Ops => UnderWay' = UnderWay
  BY <1>2, <1>4 DEF UnderWay
<1>6. c \in Ops /\ x \in Resting => UnderWay' = UnderWay \ {c}
  BY <1>1, <1>2, <1>4 DEF UnderWay
<1>7. c \in Ops /\ x \notin Resting => UnderWay' = UnderWay \cup {c}
  BY <1>1, <1>2, <1>4 DEF UnderWay
<1>8. QED
  BY <1>1, <1>2, <1>3, <1>5, <1>6, <1>7

LEMMA Asked ==
  ASSUME NEW c \in Cos, NEW s \in Subs, NEW i \in 0 .. CHUNKS, sendReport(c, s, i),
         s \notin Query => c \in Ops, s = "DATA" => i \in Chunks
  PROVE  /\ Request(s, c, i) \in Req /\ Sends(c, Request(s, c, i))
         /\ Request(s, c, i).sub = s /\ Request(s, c, i).chunk = i
         /\ pending' # None /\ pending' \in [by : Cos, sub : Subs]
         /\ pending'.by = c /\ pending'.sub = s
<1>1. /\ pending' = [by |-> c, sub |-> s]
      /\ raw_queue' = Received(Request(s, c, i))
  BY DEF sendReport
<1>2. pending' \in [by : Cos, sub : Subs]
  BY <1>1
<1>3. pending' # None
  BY <1>2, NoneAssumption
<1>4. Request(s, c, i) = [sub |-> s, by |-> c, chunk |-> i]
  BY DEF Request
<1>5. s # "VIA" /\ c # "via"
  BY Names DEF Subs, Query
<1>6. Request(s, c, i) \in Req
  BY <1>4, <1>5 DEF Req, Upload, Query
<1>7. QED
  BY <1>1, <1>2, <1>3, <1>4, <1>6 DEF Sends

-----------------------------------------------------------------------------
(* The page. *)

LEMMA OpAsks ==
  ASSUME PageOK, pending # None, NEW c \in Ops, pending.by = c,
         NEW s \in Subs, NEW i \in 0 .. CHUNKS, NEW x \in {"DATA", "COMMIT"} \cup Ends,
         sendReport(c, s, i), pc' = [pc EXCEPT ![c] = x], s = SubOf(x),
         x = "DATA" => /\ pc[c] \in {"BEGIN", "DATA"} /\ i = sent[c] + 1
                       /\ sent' = [sent EXCEPT ![c] = i],
         x = "COMMIT" => pc[c] = "DATA" /\ sent[c] = CHUNKS,
         x # "DATA" => sent' = sent,
         device' = device, busy' \in BOOLEAN, paused' = paused
  PROVE  PageOK' /\ Goes(c)
<1>0. c \in Cos /\ c # "poll" /\ c # "attach"
  BY Names
<1>1. pc \in [Cos -> Query \cup OpPcs \cup {"sleep"}] /\ pc[c] \notin Resting /\ sent \in [Ops -> 0 .. CHUNKS]
  BY DEF PageOK
<1>2. x \in OpPcs /\ x \notin Resting /\ x \notin Kinds \cup {"idle", "BEGIN", "ERASE", "SELECT", "READ"}
  BY DEF OpPcs, Upload, Ends, Resting, Kinds
<1>3. /\ pc'[c] = x
      /\ \A d \in Cos : d # c => pc'[d] = pc[d]
      /\ \A o \in Ops : o # c => pc'[o] = pc[o]
      /\ pc' \in [Cos -> Query \cup OpPcs \cup {"sleep"}]
      /\ UnderWay' = UnderWay \cup {c}
  BY <1>0, <1>1, <1>2, Moved
<1>4. UnderWay' = UnderWay
  BY <1>1, <1>3 DEF UnderWay
<1>5. s = "DATA" => x = "DATA" /\ i \in Chunks
  <2>1. s = "DATA" => x = "DATA"
    BY DEF SubOf, Ends
  <2>2. x = "DATA" => i \in 1 .. CHUNKS
    BY <1>1, Names
  <2>3. QED
    BY <2>1, <2>2, Names
<1>6. /\ Request(s, c, i) \in Req /\ Sends(c, Request(s, c, i))
      /\ Request(s, c, i).sub = s /\ Request(s, c, i).chunk = i
      /\ pending' # None /\ pending' \in [by : Cos, sub : Subs]
      /\ pending'.by = c /\ pending'.sub = s
  BY <1>0, <1>5, Asked
<1>7. sent' \in [Ops -> 0 .. CHUNKS] /\ (x = "DATA" => sent'[c] = i /\ i > 0)
      /\ \A o \in Ops : o # c => sent'[o] = sent[o]
  BY <1>1, <1>5, Names
<1>8. PageOK'
  <2>1. pc'["poll"] = pc["poll"] /\ pc'["attach"] = pc["attach"]
    BY <1>0, <1>3, Names
  <2>2. \A o \in Ops : pc'[o] \in OpPcs
    BY <1>2, <1>3 DEF PageOK
  <2>3. \A o \in Ops : pc'[o] \in Kinds \cup {"idle", "BEGIN", "ERASE", "SELECT", "READ"} => sent'[o] = 0
    BY <1>2, <1>3, <1>7 DEF PageOK
  <2>4. \A o \in Ops : pc'[o] = "DATA" => sent'[o] > 0
    BY <1>3, <1>7 DEF PageOK
  <2>5. pc'[pending'.by] \notin Resting /\ pending'.sub = SubOf(pc'[pending'.by])
    BY <1>2, <1>3, <1>6
  <2>6. QED
    BY <2>1, <2>2, <2>3, <2>4, <2>5, <1>3, <1>6, <1>7 DEF PageOK
<1>9. x \in Upload => /\ StepOf(Request(s, c, i)) = At(c)' /\ s = x
                      /\ pc[c] \in Upload /\ At(c)' = At(c) + 1
  <2>1. SUFFICES ASSUME x \in Upload
                 PROVE  /\ StepOf(Request(s, c, i)) = At(c)' /\ s = x
                        /\ pc[c] \in Upload /\ At(c)' = At(c) + 1
    OBVIOUS
  <2>2. x \in {"DATA", "COMMIT"} /\ s = x
    BY <2>1 DEF Ends, Upload, SubOf
  <2>3. CASE x = "DATA"
    <3>1. StepOf(Request(s, c, i)) = i
      BY <2>2, <2>3, <1>6 DEF StepOf
    <3>2. At(c)' = i
      BY <2>3, <1>3, <1>7 DEF At
    <3>3. At(c) = sent[c]
      <4>1. pc[c] = "BEGIN" => sent[c] = 0
        BY DEF PageOK
      <4>2. QED
        BY <2>3, <4>1 DEF At
    <3>4. QED
      BY <2>2, <2>3, <3>1, <3>2, <3>3 DEF Upload
  <2>4. CASE x = "COMMIT"
    <3>1. StepOf(Request(s, c, i)) = CHUNKS + 1
      BY <2>2, <2>4, <1>6 DEF StepOf
    <3>2. At(c)' = CHUNKS + 1
      BY <2>4, <1>3 DEF At
    <3>3. At(c) = CHUNKS
      BY <2>4 DEF At
    <3>4. QED
      BY <2>2, <2>4, <3>1, <3>2, <3>3 DEF Upload
  <2>5. QED
    BY <2>2, <2>3, <2>4
<1>10. Goes(c)
  <2>1. pc'["attach"] = pc["attach"]
    BY <1>0, <1>3, Names
  <2>2. \E r \in Req : Sends(c, r) /\ (pc'[c] \in Upload => StepOf(r) = At(c)' /\ r.sub = pc'[c])
    BY <1>3, <1>6, <1>9
  <2>3. QED
    BY <2>1, <2>2, <1>3, <1>4, <1>9 DEF Goes
<1>11. QED
  BY <1>8, <1>10

LEMMA OpStops ==
  ASSUME PageOK, pending # None, NEW c \in Ops, pending.by = c,
         NEW x \in {"done", "failed"},
         pc' = [pc EXCEPT ![c] = x], pending' = None, raw_queue' = raw_queue, sent' = sent,
         device' \in BOOLEAN, busy' \in BOOLEAN, paused' = paused
  PROVE  PageOK' /\ Stops(c)
<1>0. c \in Cos /\ c # "poll" /\ c # "attach"
  BY Names
<1>1. pc \in [Cos -> Query \cup OpPcs \cup {"sleep"}]
  BY DEF PageOK
<1>2. x \in OpPcs /\ x \in Resting /\ x \notin Kinds \cup {"idle", "BEGIN", "ERASE", "SELECT", "READ"}
  BY DEF OpPcs, Upload, Ends, Resting, Kinds
<1>3. /\ pc'[c] = x
      /\ \A d \in Cos : d # c => pc'[d] = pc[d]
      /\ \A o \in Ops : o # c => pc'[o] = pc[o]
      /\ pc' \in [Cos -> Query \cup OpPcs \cup {"sleep"}]
      /\ UnderWay' = UnderWay \ {c}
  BY <1>0, <1>1, <1>2, Moved
<1>4. pc'["poll"] = pc["poll"] /\ pc'["attach"] = pc["attach"]
  BY <1>0, <1>3, Names
<1>5. \A o \in Ops : pc'[o] \in OpPcs
  BY <1>2, <1>3 DEF PageOK
<1>6. \A o \in Ops : pc'[o] \in Kinds \cup {"idle", "BEGIN", "ERASE", "SELECT", "READ"} => sent'[o] = 0
  BY <1>2, <1>3 DEF PageOK
<1>7. \A o \in Ops : pc'[o] = "DATA" => sent'[o] > 0
  BY <1>3 DEF PageOK
<1>8. QED
  BY <1>0, <1>3, <1>4, <1>5, <1>6, <1>7 DEF PageOK, Stops

\* poll and attach.
LEMMA OtherAsks ==
  ASSUME PageOK, pending # None, NEW c \in {"poll", "attach"}, pending.by = c,
         NEW s \in {"INFO", "SLOT_INFO"}, sendReport(c, s, 0), pc' = [pc EXCEPT ![c] = s],
         UNCHANGED <<device, sent, busy, paused>>
  PROVE  PageOK' /\ Goes(c)
<1>0. c \in Cos /\ c \notin Ops
  BY Names
<1>1. pc \in [Cos -> Query \cup OpPcs \cup {"sleep"}]
  BY DEF PageOK
<1>2. s \in Query /\ s \in Subs /\ s \notin Resting /\ s \notin Upload /\ s = SubOf(s) /\ s # "DATA" /\ s # "idle"
  BY DEF Query, Subs, Resting, Kinds, SubOf, Upload
<1>3. /\ pc'[c] = s
      /\ \A d \in Cos : d # c => pc'[d] = pc[d]
      /\ \A o \in Ops : pc'[o] = pc[o]
      /\ pc' \in [Cos -> Query \cup OpPcs \cup {"sleep"}]
      /\ UnderWay' = UnderWay
  BY ZenonT(30), <1>0, <1>1, <1>2, Moved
<1>4. /\ Request(s, c, 0) \in Req /\ Sends(c, Request(s, c, 0))
      /\ pending' # None /\ pending' \in [by : Cos, sub : Subs]
      /\ pending'.by = c /\ pending'.sub = s
  <2>1. 0 \in 0 .. CHUNKS
    BY Names
  <2>2. QED
    BY <2>1, <1>0, <1>2, Asked
<1>5. /\ pc'["poll"] \in {"sleep", "idle"} \cup Query
      /\ pc'["attach"] \in {"idle", "INFO", "SLOT_INFO"}
  BY <1>2, <1>3, Names DEF PageOK
<1>6. pc'[pending'.by] \notin Resting /\ pending'.sub = SubOf(pc'[pending'.by])
  BY <1>2, <1>3, <1>4
<1>7. device
  BY <1>0 DEF PageOK
<1>8. PageOK'
  BY <1>3, <1>4, <1>5, <1>6, <1>7 DEF PageOK
<1>9. pc'["attach"] = "idle" <=> pc["attach"] = "idle"
  <2>1. c = "attach" => pc["attach"] # "idle"
    BY DEF PageOK, Resting
  <2>2. QED
    BY <2>1, <1>2, <1>3, Names
<1>10. Goes(c)
  BY <1>2, <1>3, <1>4, <1>9 DEF Goes
<1>11. QED
  BY <1>8, <1>10

LEMMA PollStops ==
  ASSUME PageOK, pending # None, pending.by = "poll",
         pc' = [pc EXCEPT !["poll"] = "sleep"], pending' = None, raw_queue' = raw_queue,
         UNCHANGED <<device, sent, busy, paused>>
  PROVE  PageOK' /\ Stops("poll")
<1>0. "poll" \in Cos /\ "attach" \in Cos /\ "poll" \notin Ops
  BY Names
<1>1. pc \in [Cos -> Query \cup OpPcs \cup {"sleep"}]
  BY DEF PageOK
<1>3. /\ pc'["poll"] = "sleep"
      /\ \A d \in Cos : d # "poll" => pc'[d] = pc[d]
      /\ \A o \in Ops : pc'[o] = pc[o]
      /\ pc' \in [Cos -> Query \cup OpPcs \cup {"sleep"}]
      /\ UnderWay' = UnderWay
  BY <1>0, <1>1, Moved
<1>4. UnderWay' = UnderWay \ {"poll"}
  BY <1>0, <1>3 DEF UnderWay
<1>5. pc'["attach"] = pc["attach"]
  BY <1>0, <1>3
<1>6. QED
  BY <1>3, <1>4, <1>5 DEF PageOK, Stops

LEMMA AttachStops ==
  ASSUME PageOK, pending # None, pending.by = "attach",
         NEW p \in {"sleep", pc["poll"]},
         pc' = [pc EXCEPT !["attach"] = "idle", !["poll"] = p],
         pending' = None, raw_queue' = raw_queue,
         UNCHANGED <<device, sent, busy, paused>>
  PROVE  PageOK' /\ Stops("attach")
<1>0. "poll" \in Cos /\ "attach" \in Cos /\ "poll" \notin Ops /\ "attach" \notin Ops
  BY Names
<1>1. pc \in [Cos -> Query \cup OpPcs \cup {"sleep"}]
  BY DEF PageOK
<1>2. pc["poll"] \in Query \cup OpPcs \cup {"sleep"} /\ "idle" \in OpPcs
  BY <1>0, <1>1 DEF OpPcs
<1>3. /\ pc'["poll"] = p /\ pc'["attach"] = "idle"
      /\ \A o \in Ops : pc'[o] = pc[o]
      /\ pc' \in [Cos -> Query \cup OpPcs \cup {"sleep"}]
  BY <1>0, <1>1, <1>2, Names
<1>4. UnderWay' = UnderWay \ {"attach"}
  <2>1. UnderWay' = UnderWay
    BY <1>3 DEF UnderWay
  <2>2. QED
    BY <1>0, <2>1 DEF UnderWay
<1>5. pc'["poll"] \in {"sleep", "idle"} \cup Query
  BY <1>3 DEF PageOK
<1>6. QED
  BY <1>3, <1>4, <1>5 DEF PageOK, Stops

\* The next piece of what is read.
LEMMA OpReadsOn ==
  ASSUME PageOK, pending # None, NEW c \in Ops, pending.by = c, pc[c] = "READ",
         sendReport(c, "READ", 0), UNCHANGED <<pc, device, sent, busy, paused>>
  PROVE  PageOK' /\ Goes(c)
<1>0. c \in Cos /\ "READ" \in Subs /\ 0 \in 0 .. CHUNKS /\ "READ" \notin Query
  BY Names DEF Subs, Query
<1>1. /\ Request("READ", c, 0) \in Req /\ Sends(c, Request("READ", c, 0))
      /\ pending' # None /\ pending' \in [by : Cos, sub : Subs]
      /\ pending'.by = c /\ pending'.sub = "READ"
  BY <1>0, Asked
<1>2. "READ" \notin Resting /\ "READ" \notin Upload /\ SubOf("READ") = "READ"
  BY DEF Resting, Kinds, Upload, SubOf
<1>3. PageOK'
  BY <1>1, <1>2 DEF PageOK
<1>4. UnderWay' = UnderWay
  BY DEF UnderWay
<1>5. QED
  BY <1>1, <1>2, <1>3, <1>4 DEF Goes

LEMMA OpGoesOnStep ==
  ASSUME PageOK, pending # None, NEW c \in Ops, pending.by = c, NEW a,
         OpGoesOn(c, a), paused' = paused
  PROVE  PageOK' /\ (Goes(c) \/ Stops(c))
<1>0. /\ CHUNKS \in Nat /\ CHUNKS >= 1 /\ sent[c] \in 0 .. CHUNKS /\ device \in BOOLEAN /\ busy \in BOOLEAN
      /\ 0 \in 0 .. CHUNKS
      /\ pc[c] \in OpPcs /\ pc[c] \notin Resting
      /\ pc[c] = "BEGIN" => sent[c] = 0
  BY Names DEF PageOK
<1>1. CASE /\ pc[c] \in {"BEGIN", "DATA"} /\ a.ok
           /\ LET s == NextSub(c, pc[c])
                  n == sent[c] + (IF s = "DATA" THEN 1 ELSE 0)
              IN  /\ sendReport(c, s, n)
                  /\ sent' = [sent EXCEPT ![c] = n]
                  /\ pc' = [pc EXCEPT ![c] = s]
                  /\ UNCHANGED <<device, busy>>
  <2>1. CASE pc[c] = "BEGIN" \/ sent[c] < CHUNKS
    <3>1. NextSub(c, pc[c]) = "DATA"
      BY <1>0, <1>1, <2>1 DEF NextSub
    <3>2. /\ sendReport(c, "DATA", sent[c] + 1) /\ sent' = [sent EXCEPT ![c] = sent[c] + 1]
          /\ pc' = [pc EXCEPT ![c] = "DATA"] /\ UNCHANGED <<device, busy>>
      BY <1>1, <3>1
    <3>3. sent[c] + 1 \in 0 .. CHUNKS
      BY <1>0, <2>1
    <3>4. "DATA" \in Subs /\ "DATA" = SubOf("DATA")
      BY DEF Subs, SubOf
    <3>5. PageOK' /\ Goes(c)
      BY ZenonT(30), <1>0, <1>1, <3>2, <3>3, <3>4, OpAsks
    <3>6. QED
      BY <3>5
  <2>2. CASE ~(pc[c] = "BEGIN" \/ sent[c] < CHUNKS)
    <3>1. NextSub(c, pc[c]) = "COMMIT" /\ pc[c] = "DATA" /\ sent[c] = CHUNKS
      BY <1>0, <1>1, <2>2 DEF NextSub
    <3>2. /\ sendReport(c, "COMMIT", sent[c] + 0) /\ sent' = [sent EXCEPT ![c] = sent[c] + 0]
          /\ pc' = [pc EXCEPT ![c] = "COMMIT"] /\ UNCHANGED <<device, busy>>
      BY <1>1, <3>1
    <3>3. sent[c] + 0 = sent[c] /\ sent' = sent
      <4>1. sent \in [Ops -> 0 .. CHUNKS] /\ sent[c] + 0 = sent[c]
        BY <1>0 DEF PageOK
      <4>2. QED
        BY <4>1, <3>2
    <3>4. "COMMIT" \in Subs /\ "COMMIT" = SubOf("COMMIT")
      BY DEF Subs, SubOf
    <3>5. PageOK' /\ Goes(c)
      BY <1>0, <3>1, <3>2, <3>3, <3>4, OpAsks
    <3>6. QED
      BY <3>5
  <2>3. QED
    BY <2>1, <2>2
<1>2. CASE /\ pc[c] = "COMMIT" /\ a.ok
           /\ sendReport(c, "SELECT", 0)
           /\ pc' = [pc EXCEPT ![c] = "pin"]
           /\ UNCHANGED <<device, sent, busy>>
  <2>1. "SELECT" \in Subs /\ "SELECT" = SubOf("pin") /\ "pin" \in Ends
    BY DEF Subs, SubOf, Ends
  <2>2. PageOK' /\ Goes(c)
    BY <1>0, <1>2, <2>1, OpAsks
  <2>3. QED
    BY <2>2
<1>3. CASE Finish(c)
  <2>1. "INFO" \in Subs /\ "INFO" = SubOf("finish") /\ "finish" \in Ends
    BY DEF Subs, Query, SubOf, Ends
  <2>2. PageOK' /\ Goes(c)
    BY <1>0, <1>3, <2>1, OpAsks DEF Finish
  <2>3. QED
    BY <2>2
<1>4. CASE Recover(c)
  <2>1. "INFO" \in Subs /\ "INFO" = SubOf("recover") /\ "recover" \in Ends
    BY DEF Subs, Query, SubOf, Ends
  <2>2. PageOK' /\ Goes(c)
    BY <1>0, <1>4, <2>1, OpAsks DEF Recover
  <2>3. QED
    BY <2>2
<1>5. CASE /\ pc[c] \in {"finish", "recover"}
           /\ sendReport(c, "SLOT_INFO", 0)
           /\ pc' = [pc EXCEPT ![c] = IF @ = "finish" THEN "finishing" ELSE "recovering"]
           /\ UNCHANGED <<device, sent, busy>>
  <2>1. PICK x \in {"finishing", "recovering"} : pc' = [pc EXCEPT ![c] = x]
    BY <1>5
  <2>2. "SLOT_INFO" \in Subs /\ "SLOT_INFO" = SubOf(x) /\ x \in Ends
    BY DEF Subs, Query, SubOf, Ends
  <2>3. PageOK' /\ Goes(c)
    BY <1>0, <1>5, <2>1, <2>2, OpAsks
  <2>4. QED
    BY <2>3
<1>6. CASE Loaded(c)
  <2>1. PICK x \in {"done", "failed"} : pc' = [pc EXCEPT ![c] = x]
    BY <1>6 DEF Loaded
  <2>2. PageOK' /\ Stops(c)
    BY <1>0, <1>6, <2>1, OpStops DEF Loaded
  <2>3. QED
    BY <2>2
<1>7. CASE pc[c] = "READ" /\ a.ok /\ sendReport(c, "READ", 0) /\ UNCHANGED <<device, pc, sent, busy>>
  BY <1>7, OpReadsOn
<1>8. CASE ReadEnds(c)
  BY <1>0, <1>8, OpStops DEF ReadEnds
<1>9. QED
  BY <1>1, <1>2, <1>3, <1>4, <1>5, <1>6, <1>7, <1>8 DEF OpGoesOn

LEMMA PollGoesOnStep ==
  ASSUME PageOK, pending # None, pending.by = "poll", PollGoesOn,
         UNCHANGED <<device, sent, busy, paused>>
  PROVE  PageOK' /\ (Goes("poll") \/ Stops("poll"))
<1>1. CASE /\ pending' = None
           /\ pc' = [pc EXCEPT !["poll"] = "sleep"]
           /\ UNCHANGED raw_queue
  BY <1>1, PollStops
<1>2. ASSUME NEW s \in Query \ {"PRESSED"},
             sendReport("poll", s, 0), pc' = [pc EXCEPT !["poll"] = s]
      PROVE  PageOK' /\ Goes("poll")
  <2>1. s \in {"INFO", "SLOT_INFO"}
    BY DEF Query
  <2>2. QED
    BY <1>2, <2>1, OtherAsks
<1>3. QED
  BY <1>1, <1>2 DEF PollGoesOn

LEMMA AttachEndsStep ==
  ASSUME PageOK, pending # None, pending.by = "attach", AttachEnds,
         UNCHANGED <<device, sent, busy, paused>>
  PROVE  PageOK' /\ Stops("attach")
BY AttachStops DEF AttachEnds

LEMMA AttachGoesOnStep ==
  ASSUME PageOK, pending # None, pending.by = "attach", AttachGoesOn,
         UNCHANGED <<device, sent, busy, paused>>
  PROVE  PageOK' /\ (Goes("attach") \/ Stops("attach"))
<1>1. CASE sendReport("attach", "SLOT_INFO", 0) /\ pc' = [pc EXCEPT !["attach"] = "SLOT_INFO"]
  BY <1>1, OtherAsks
<1>2. CASE AttachEnds
  BY <1>2, AttachEndsStep
<1>3. QED
  BY <1>1, <1>2 DEF AttachGoesOn

LEMMA ReadStep ==
  ASSUME PageOK, BoardOK, Read
  PROVE  PageOK' /\ ReadsAnswer
<1>0. /\ ep # None /\ ep' = None
      /\ UNCHANGED <<turn, answer, stage, slot, active, profile, done>>
  BY DEF Read
<1>1. CASE ~(device /\ Wanted(ep))
  <2>1. UNCHANGED <<page, raw_queue>>
    BY <1>1 DEF Read
  <2>2. PageOK' /\ Stays
    BY <2>1 DEF page, PageOK, Stays, UnderWay, At
  <2>3. QED
    BY <1>0, <2>2 DEF ReadsAnswer
<1>2. CASE device /\ Wanted(ep)
  <2>1. pending # None /\ pending.by \in Cos /\ pending.sub = ep.sub
    BY <1>2 DEF Wanted, PageOK
  <2>2. ep.by # "via"
    <3>1. pending.sub # "VIA"
      BY <2>1 DEF PageOK, Subs, Query
    <3>2. QED
      BY <1>0, <2>1, <3>1 DEF BoardOK, AnswerOK
  <2>3. PageOK' /\ (Goes(pending.by) \/ Stops(pending.by))
    <3>1. CASE pending.by \in Ops /\ OpGoesOn(pending.by, ep) /\ UNCHANGED paused
      BY <2>1, <3>1, OpGoesOnStep
    <3>2. CASE pending.by = "poll" /\ PollGoesOn /\ UNCHANGED <<device, sent, busy, paused>>
      BY <2>1, <3>2, PollGoesOnStep
    <3>3. CASE pending.by = "attach" /\ AttachGoesOn /\ UNCHANGED <<device, sent, busy, paused>>
      BY <2>1, <3>3, AttachGoesOnStep
    <3>4. QED
      BY <1>2, <3>1, <3>2, <3>3 DEF Read
  <2>4. QED
    BY <1>0, <2>1, <2>2, <2>3 DEF ReadsAnswer
<1>3. QED
  BY <1>1, <1>2

LEMMA TimeoutStep ==
  ASSUME PageOK, NEW c \in Cos, Timeout(c)
  PROVE  /\ PageOK' /\ UNCHANGED board /\ ~InFlight(c)
         /\ Stops(c) \/ (Goes(c) /\ pc'[c] \notin Upload)
<1>0. /\ pending # None /\ pending.by = c /\ ~InFlight(c) /\ UNCHANGED <<paused, board>>
      /\ pc[c] \notin Resting /\ 0 \in 0 .. CHUNKS /\ busy \in BOOLEAN /\ device \in BOOLEAN
      /\ c \in Ops \/ c \in {"poll", "attach"}
      /\ c # "poll" => pc[c] # "PRESSED"
      /\ c \in Ops => pc[c] \in OpPcs
  BY Names DEF Timeout, TimeUp, PageOK, OpPcs, Upload, Kinds, Ends
<1>1. CASE /\ c = "poll" \/ pc[c] = "INFO"
           /\ pending' = None
           /\ pc' = [pc EXCEPT ![c] = IF c = "poll" THEN "sleep" ELSE "idle"]
           /\ UNCHANGED <<device, sent, busy, raw_queue>>
  <2>1. c \notin Ops
    BY <1>0, <1>1, Names DEF OpPcs, Upload, Kinds, Ends
  <2>2. CASE c = "poll"
    <3>1. PageOK' /\ Stops("poll")
      BY <1>0, <1>1, <2>2, PollStops
    <3>2. QED
      BY <1>0, <2>2, <3>1
  <2>3. CASE c = "attach"
    <3>1. pc' = [pc EXCEPT !["attach"] = "idle", !["poll"] = pc["poll"]]
      <4>1. "poll" \in Cos /\ pc \in [Cos -> Query \cup OpPcs \cup {"sleep"}]
        BY Names DEF PageOK
      <4>2. QED
        BY <1>1, <2>3, <4>1
    <3>2. PageOK' /\ Stops("attach")
      BY <1>0, <1>1, <2>3, <3>1, AttachStops
    <3>3. QED
      BY <1>0, <2>3, <3>2
  <2>4. QED
    BY <1>0, <2>1, <2>2, <2>3
<1>2. CASE c = "attach" /\ AttachEnds /\ UNCHANGED <<device, sent, busy>>
  BY <1>0, <1>2, AttachEndsStep
<1>3. CASE /\ pc[c] \in {"finish", "recover"}
           /\ pending' = None
           /\ pc' = [pc EXCEPT ![c] = IF @ = "finish" THEN "done" ELSE "failed"]
           /\ device' = FALSE /\ busy' = FALSE
           /\ UNCHANGED <<sent, raw_queue>>
  <2>1. c \in Ops
    BY <1>0, <1>3 DEF PageOK, Query
  <2>2. PICK x \in {"done", "failed"} : pc' = [pc EXCEPT ![c] = x]
    BY <1>3
  <2>3. PageOK' /\ Stops(c)
    BY <1>0, <1>3, <2>1, <2>2, OpStops
  <2>4. QED
    BY <1>0, <2>3
<1>4. CASE pc[c] \in {"finishing", "recovering"} /\ Loaded(c)
  <2>1. c \in Ops
    BY <1>0, <1>4 DEF PageOK, Query
  <2>2. PICK x \in {"done", "failed"} : pc' = [pc EXCEPT ![c] = x]
    BY <1>4 DEF Loaded
  <2>3. PageOK' /\ Stops(c)
    BY <1>0, <1>4, <2>1, <2>2, OpStops DEF Loaded
  <2>4. QED
    BY <1>0, <2>3
<1>5. CASE pc[c] = "pin" /\ Finish(c)
  <2>1. c \in Ops
    BY <1>0, <1>5 DEF PageOK, Query
  <2>2. "INFO" \in Subs /\ "INFO" = SubOf("finish") /\ "finish" \in Ends
    BY DEF Subs, Query, SubOf, Ends
  <2>3. PageOK' /\ Goes(c)
    BY <1>0, <1>5, <2>1, <2>2, OpAsks DEF Finish
  <2>4. pc'[c] = "finish"
    BY <1>5 DEF Finish, PageOK
  <2>5. QED
    BY <1>0, <2>3, <2>4 DEF Upload
<1>6. CASE c \in Ops /\ pc[c] \in Subs \ {"READ"} /\ Recover(c)
  <2>1. "INFO" \in Subs /\ "INFO" = SubOf("recover") /\ "recover" \in Ends
    BY DEF Subs, Query, SubOf, Ends
  <2>2. PageOK' /\ Goes(c)
    BY <1>0, <1>6, <2>1, OpAsks DEF Recover
  <2>3. pc'[c] = "recover"
    BY <1>6 DEF Recover, PageOK
  <2>4. QED
    BY <1>0, <2>2, <2>3 DEF Upload
<1>7. CASE pc[c] = "READ" /\ ReadEnds(c)
  <2>1. c \in Ops
    BY <1>0, <1>7 DEF PageOK, Query
  <2>2. PageOK' /\ Stops(c)
    BY <1>0, <1>7, <2>1, OpStops DEF ReadEnds
  <2>3. QED
    BY <1>0, <2>2
<1>8. QED
  BY <1>1, <1>2, <1>3, <1>4, <1>5, <1>6, <1>7 DEF Timeout

\* A coroutine that awaited nothing asks.
LEMMA NewlyAsks ==
  ASSUME PageOK, NEW c \in Cos, NEW x \in Subs, sendReport(c, x, 0),
         pc' = [pc EXCEPT ![c] = x], pc[c] \in Resting,
         c = "poll" => x = "PRESSED" /\ device,
         c = "attach" => x = "INFO" /\ device' = TRUE /\ (pending # None => pending.by # "poll"),
         c = "attach" => pc["attach"] = "idle",
         c \in Ops => x \in {"BEGIN", "ERASE", "SELECT", "READ"} /\ sent[c] = 0 /\ ~InFlight("poll"),
         device' \in {device, TRUE}, UNCHANGED <<sent, busy, paused>>
  PROVE  PageOK' /\ Starts(c)
<1>0. c \in Ops \/ c \in {"poll", "attach"}
  BY Names
<1>1. pc \in [Cos -> Query \cup OpPcs \cup {"sleep"}] /\ 0 \in 0 .. CHUNKS
  BY Names DEF PageOK
<1>2. /\ x \notin Resting /\ x = SubOf(x) /\ x # "DATA"
      /\ c \in Ops => x \in OpPcs /\ x \notin Query
      /\ c \notin Ops => x \in Query /\ x \notin Upload
      /\ x \in Query \cup OpPcs \cup {"sleep"} /\ x # "idle"
      /\ x \in Upload => x = "BEGIN"
  BY <1>0, Names DEF Query, Subs, Resting, Kinds, SubOf, Upload, OpPcs
<1>3. /\ pc'[c] = x
      /\ \A d \in Cos : d # c => pc'[d] = pc[d]
      /\ \A o \in Ops : o # c => pc'[o] = pc[o]
      /\ pc' \in [Cos -> Query \cup OpPcs \cup {"sleep"}]
      /\ c \notin Ops => UnderWay' = UnderWay
      /\ c \in Ops => UnderWay' = UnderWay \cup {c}
  BY <1>1, <1>2, Moved
<1>4. /\ Request(x, c, 0) \in Req /\ Sends(c, Request(x, c, 0))
      /\ Request(x, c, 0).sub = x /\ Request(x, c, 0).chunk = 0
      /\ pending' # None /\ pending' \in [by : Cos, sub : Subs]
      /\ pending'.by = c /\ pending'.sub = x
  BY <1>1, <1>2, Asked
<1>5. /\ pc'["poll"] \in {"sleep", "idle"} \cup Query
      /\ pc'["attach"] \in {"idle", "INFO", "SLOT_INFO"}
  BY <1>2, <1>3, Names DEF PageOK
<1>6. pc'[pending'.by] \notin Resting /\ pending'.sub = SubOf(pc'[pending'.by])
  BY <1>2, <1>3, <1>4
<1>7. /\ \A o \in Ops : pc'[o] \in OpPcs
      /\ \A o \in Ops : pc'[o] \in Kinds \cup {"idle", "BEGIN", "ERASE", "SELECT", "READ"} => sent'[o] = 0
      /\ \A o \in Ops : pc'[o] = "DATA" => sent'[o] > 0
  BY <1>2, <1>3 DEF PageOK
<1>8. ~device' => pending'.by \in Ops
  BY <1>0, <1>4
<1>9. PageOK'
  BY <1>3, <1>4, <1>5, <1>6, <1>7, <1>8 DEF PageOK
<1>10. Starts(c)
  <2>1. pending = None \/ pending.by # c
    BY DEF PageOK
  <2>2. pending # None /\ pending.by = "poll" => ~InFlight("poll")
    BY <1>0, <2>1
  <2>3. x \in Upload => StepOf(Request(x, c, 0)) = At(c)'
    BY <1>2, <1>3, <1>4 DEF StepOf, At
  <2>4. \E r \in Req : Sends(c, r) /\ (pc'[c] \in Upload => StepOf(r) = At(c)' /\ r.sub = pc'[c])
    BY <1>3, <1>4, <2>3
  <2>5. UnderWay' = UnderWay \cup ({c} \cap Ops) /\ c \notin UnderWay
    BY <1>3 DEF UnderWay
  <2>6. pc'["attach"] = "idle" <=> pc["attach"] = "idle" /\ c # "attach"
    BY <1>2, <1>3, Names
  <2>7. QED
    BY <1>2, <1>3, <2>1, <2>2, <2>4, <2>5, <2>6 DEF Starts
<1>11. QED
  BY <1>9, <1>10

LEMMA ClickStep ==
  ASSUME PageOK, NEW o \in Ops, Click(o)
  PROVE  PageOK' /\ Stays /\ UNCHANGED board
<1>1. PICK x \in Kinds : pc' = [pc EXCEPT ![o] = x]
  BY DEF Click
<1>2. /\ pc \in [Cos -> Query \cup OpPcs \cup {"sleep"}] /\ o \in Cos
      /\ x \in OpPcs /\ x \in Resting /\ x \notin Upload /\ pc[o] = "idle" /\ pc[o] \in Resting
  BY Names DEF PageOK, OpPcs, Resting, Upload, Kinds, Click
<1>3. /\ pc'[o] = x
      /\ \A d \in Cos : d # o => pc'[d] = pc[d]
      /\ \A q \in Ops : q # o => pc'[q] = pc[q]
      /\ pc' \in [Cos -> Query \cup OpPcs \cup {"sleep"}]
      /\ UnderWay' = UnderWay \ {o}
  BY <1>1, <1>2, Moved
<1>4. UnderWay' = UnderWay
  BY <1>2, <1>3 DEF UnderWay
<1>5. pc'["poll"] = pc["poll"] /\ pc'["attach"] = pc["attach"]
  BY <1>3, Names
<1>6. UNCHANGED <<device, pending, sent, paused, raw_queue, board>> /\ busy' \in BOOLEAN
  BY DEF Click
<1>7. PageOK'
  <2>1. \A q \in Ops : pc'[q] \in OpPcs
    BY <1>2, <1>3 DEF PageOK
  <2>2. \A q \in Ops : pc'[q] \in Kinds \cup {"idle", "BEGIN", "ERASE", "SELECT", "READ"} => sent'[q] = 0
    BY <1>2, <1>3, <1>6 DEF PageOK
  <2>3. \A q \in Ops : pc'[q] = "DATA" => sent'[q] > 0
    <3>1. x # "DATA"
      BY DEF Kinds
    <3>2. QED
      BY <1>3, <1>6, <3>1 DEF PageOK
  <2>4. pending # None => pc'[pending.by] \notin Resting /\ pending.sub = SubOf(pc'[pending.by])
    <3>1. pending # None => pending.by \in Cos /\ pending.by # o
      BY <1>2 DEF PageOK
    <3>2. QED
      BY <1>3, <3>1 DEF PageOK
  <2>5. QED
    BY <1>3, <1>5, <1>6, <2>1, <2>2, <2>3, <2>4 DEF PageOK
<1>8. Stays
  <2>1. \A q \in Ops : pc'[q] \in Upload => pc[q] \in Upload /\ At(q)' = At(q)
    BY <1>2, <1>3, <1>6 DEF At
  <2>2. QED
    BY <1>4, <1>5, <1>6, <2>1 DEF Stays
<1>9. QED
  BY <1>6, <1>7, <1>8

LEMMA BeginStep ==
  ASSUME PageOK, NEW o \in Ops, Begin(o)
  PROVE  PageOK' /\ Starts(o) /\ UNCHANGED board
<1>1. PICK x \in {"BEGIN", "ERASE", "SELECT", "READ"} :
             sendReport(o, x, 0) /\ pc' = [pc EXCEPT ![o] = x]
  BY DEF Begin, Kinds
<1>2. /\ o \in Cos /\ x \in Subs /\ pc[o] \in Resting /\ sent[o] = 0 /\ o # "poll" /\ o # "attach"
      /\ ~InFlight("poll")
      /\ UNCHANGED <<device, sent, busy, paused, board>>
  BY Names DEF Begin, TimeUp, PageOK, Subs, Resting
<1>3. QED
  BY <1>1, <1>2, NewlyAsks

LEMMA PollStep ==
  ASSUME PageOK, Poll
  PROVE  PageOK' /\ Starts("poll") /\ UNCHANGED board
<1>1. /\ "poll" \in Cos /\ "poll" \notin Ops /\ "PRESSED" \in Subs /\ pc["poll"] \in Resting
      /\ sendReport("poll", "PRESSED", 0) /\ pc' = [pc EXCEPT !["poll"] = "PRESSED"] /\ device
      /\ UNCHANGED <<device, sent, busy, paused, board>>
  BY Names DEF Poll, Subs, Query, Resting
<1>2. QED
  BY <1>1, NewlyAsks

LEMMA AttachStep ==
  ASSUME PageOK, Attach
  PROVE  PageOK' /\ Starts("attach") /\ UNCHANGED board
<1>1. /\ "attach" \in Cos /\ "attach" \notin Ops /\ "INFO" \in Subs /\ pc["attach"] \in Resting
      /\ sendReport("attach", "INFO", 0) /\ pc' = [pc EXCEPT !["attach"] = "INFO"]
      /\ device' = TRUE /\ pc["attach"] = "idle" /\ (~device \/ pc["poll"] = "idle")
      /\ UNCHANGED <<sent, busy, paused, board>>
  BY Names DEF Attach, Subs, Query, Resting
<1>2. pending # None => pending.by # "poll"
  BY <1>1, Names DEF PageOK, Resting
<1>3. QED
  BY <1>1, <1>2, NewlyAsks

LEMMA PollEndsStep ==
  ASSUME PageOK, PollEnds
  PROVE  PageOK' /\ Stays /\ UNCHANGED board
<1>1. /\ "poll" \in Cos /\ "attach" \in Cos /\ "poll" \notin Ops /\ pc["poll"] = "sleep"
      /\ pc \in [Cos -> Query \cup OpPcs \cup {"sleep"}]
      /\ pc' = [pc EXCEPT !["poll"] = "idle"] /\ "idle" \in OpPcs
      /\ UNCHANGED <<device, pending, sent, busy, paused, raw_queue, board>>
  BY Names DEF PollEnds, OpPcs, PageOK
<1>3. /\ pc'["poll"] = "idle"
      /\ \A d \in Cos : d # "poll" => pc'[d] = pc[d]
      /\ \A o \in Ops : pc'[o] = pc[o]
      /\ pc' \in [Cos -> Query \cup OpPcs \cup {"sleep"}]
      /\ UnderWay' = UnderWay
  BY <1>1, Moved
<1>4. pending # None => pending.by \in Cos /\ pending.by # "poll"
  BY <1>1 DEF PageOK, Resting
<1>5. \A o \in Ops : At(o)' = At(o)
  BY <1>1, <1>3 DEF At
<1>6. pending # None => pc'[pending.by] \notin Resting /\ pending.sub = SubOf(pc'[pending.by])
  BY <1>3, <1>4 DEF PageOK
<1>7. PageOK'
  BY <1>1, <1>3, <1>6 DEF PageOK
<1>8. Stays
  BY <1>1, <1>3, <1>5 DEF Stays
<1>9. QED
  BY <1>1, <1>7, <1>8

LEMMA VisibilityStep ==
  ASSUME PageOK, Visibility
  PROVE  PageOK' /\ Stays /\ UNCHANGED board
<1>1. UNCHANGED <<device, pending, pc, sent, busy, raw_queue, board>> /\ paused' \in BOOLEAN
  BY DEF Visibility, PageOK
<1>2. UnderWay' = UnderWay /\ \A o \in Ops : At(o)' = At(o)
  BY <1>1 DEF UnderWay, At
<1>3. PageOK'
  BY <1>1 DEF PageOK
<1>4. QED
  BY <1>1, <1>2, <1>3 DEF Stays

-----------------------------------------------------------------------------
(* What keeps the types: the queue and the board. *)

Acts == Poll \/ PollEnds \/ Visibility \/ Attach \/ (\E o \in Ops : Click(o) \/ Begin(o))
        \/ \E c \in Cos : Timeout(c)

LEMMA ActsStep ==
  ASSUME PageOK, Acts
  PROVE  PageOK' /\ ActStep
<1>1. CASE Poll
  BY <1>1, PollStep, Names DEF ActStep
<1>2. CASE PollEnds
  BY <1>2, PollEndsStep DEF ActStep
<1>3. CASE Visibility
  BY <1>3, VisibilityStep DEF ActStep
<1>4. CASE Attach
  BY <1>4, AttachStep, Names DEF ActStep
<1>5. ASSUME NEW o \in Ops, Click(o)
      PROVE  PageOK' /\ ActStep
  BY <1>5, ClickStep DEF ActStep
<1>6. ASSUME NEW o \in Ops, Begin(o)
      PROVE  PageOK' /\ ActStep
  BY <1>6, BeginStep, Names DEF ActStep
<1>7. ASSUME NEW c \in Cos, Timeout(c)
      PROVE  PageOK' /\ ActStep
  BY <1>7, TimeoutStep DEF ActStep
<1>8. QED
  BY <1>1, <1>2, <1>3, <1>4, <1>5, <1>6, <1>7 DEF Acts

LEMMA ReceivedOK ==
  ASSUME QueueOK, NEW r \in Req, raw_queue' = Received(r)
  PROVE  QueueOK'
<1>1. Len(raw_queue) \in Nat /\ HID_RAW_QUEUE_MAX \in Nat
  BY Names, LenProperties DEF QueueOK
<1>2. Append(raw_queue, r) \in Seq(Req) /\ Len(Append(raw_queue, r)) = Len(raw_queue) + 1
  BY Added DEF QueueOK
<1>3. QED
  BY <1>1, <1>2 DEF QueueOK, Received

LEMMA PageQueue ==
  ASSUME QueueOK, ActStep \/ ReadsAnswer
  PROVE  QueueOK'
<1>1. (\E r \in Req : raw_queue' = Received(r)) \/ raw_queue' = raw_queue
  BY DEF ActStep, ReadsAnswer, Stays, Goes, Stops, Starts, Sends
<1>2. QED
  BY <1>1, ReceivedOK DEF QueueOK

LEMMA ViaSendStep ==
  ASSUME QueueOK, ViaSend
  PROVE  /\ Request("VIA", "via", 0) \in Req /\ Request("VIA", "via", 0).by = "via"
         /\ Request("VIA", "via", 0).sub = "VIA"
         /\ raw_queue' = Received(Request("VIA", "via", 0))
         /\ ~InFlight("via") /\ UNCHANGED <<page, board>> /\ QueueOK'
<1>1. Request("VIA", "via", 0) \in Req
  BY Names DEF Request, Req, Upload
<1>2. Request("VIA", "via", 0).by = "via" /\ Request("VIA", "via", 0).sub = "VIA"
  BY DEF Request
<1>3. raw_queue' = Received(Request("VIA", "via", 0)) /\ ~InFlight("via") /\ UNCHANGED <<page, board>>
  BY DEF ViaSend
<1>4. QED
  BY <1>1, <1>2, <1>3, ReceivedOK

LEMMA HandleStep ==
  ASSUME QueueOK, BoardOK, Handle
  PROVE  /\ QueueOK' /\ BoardOK'
         /\ raw_queue # <<>> /\ raw_queue' = Tail(raw_queue) /\ answer = None /\ answer' # None
         /\ answer'.by = Head(raw_queue).by /\ answer'.sub = Head(raw_queue).sub
         /\ UNCHANGED <<page, ep, profile>>
<1> DEFINE r == Head(raw_queue)
<1>1. raw_queue # <<>> /\ Tail(raw_queue) \in Seq(Req) /\ r \in Req /\ Len(Tail(raw_queue)) = Len(raw_queue) - 1
      /\ Len(raw_queue) \in Nat
  BY Removed DEF Handle, QueueOK
<1>2. /\ Execute(r) /\ raw_queue' = Tail(raw_queue) /\ at' = "answer" /\ at = "drain"
      /\ UNCHANGED <<page, nested, is_busy, ep, profile>>
  BY DEF Handle
<1>3. QueueOK'
  BY <1>1, <1>2, Names DEF QueueOK
<1> HIDE DEF r
<1>4. /\ r.by \in Cos \cup {"via"} /\ r.sub \in Subs \cup {"VIA"} /\ r.chunk \in 0 .. CHUNKS
      /\ r.sub = "VIA" <=> r.by = "via"
      /\ r.sub \in Upload \cup {"ERASE", "SELECT", "READ"} => r.by \in Ops
      /\ r.sub = "DATA" => r.chunk \in Chunks
  BY <1>1 DEF Req
<1>5. \A b \in BOOLEAN : AnswerOK([sub |-> r.sub, by |-> r.by, ok |-> b])
  BY <1>4 DEF AnswerOK, Answer, Subs, Upload
<1>6. \A b \in BOOLEAN : [sub |-> r.sub, by |-> r.by, ok |-> b] # None
  BY <1>5, NoneAssumption DEF AnswerOK
<1>7. /\ \E b \in BOOLEAN : answer' = [sub |-> r.sub, by |-> r.by, ok |-> b]
      /\ stage' \in Stage /\ (slot' = None \/ slot' \in Stage) /\ active' \in BOOLEAN /\ done' \subseteq Ops
  <2>0. stage \in Stage /\ stage.open \in BOOLEAN /\ (slot = None \/ slot \in Stage) /\ active \in BOOLEAN /\ done \subseteq Ops
    BY DEF BoardOK, Stage
  <2>1. CASE r.sub = "BEGIN" /\ SlotBegin(r)
    BY <1>4, <2>0, <2>1 DEF SlotBegin, Stage, Upload
  <2>2. CASE r.sub = "DATA" /\ SlotData(r)
    <3>1. r.by \in Ops /\ r.chunk \in Chunks
      BY <1>4, <2>2 DEF Upload
    <3>2. [stage EXCEPT !.got[r.chunk] = r.by] \in Stage
      BY <2>0, <3>1 DEF Stage
    <3>3. QED
      BY <2>0, <2>2, <3>2 DEF SlotData
  <2>3. CASE r.sub = "COMMIT" /\ SlotCommit(r)
    <3>1. [stage EXCEPT !.open = FALSE] \in Stage /\ r.by \in Ops
      BY <1>4, <2>0, <2>3 DEF Stage, Upload
    <3>2. QED
      BY <2>0, <2>3, <3>1 DEF SlotCommit
  <2>4. CASE r.sub = "ERASE" /\ SlotErase(r)
    BY <1>4, <2>0, <2>4 DEF SlotErase
  <2>5. CASE r.sub = "SELECT" /\ SlotSelect(r)
    BY <2>0, <2>5 DEF SlotSelect
  <2>6. CASE Other(r)
    BY <2>0, <2>6 DEF Other
  <2>7. CASE r.sub = "READ" /\ SlotRead(r)
    BY <2>0, <2>7 DEF SlotRead
  <2>8. QED
    BY <1>2, <2>1, <2>2, <2>3, <2>4, <2>5, <2>6, <2>7 DEF Execute, r
<1>8. answer' # None /\ AnswerOK(answer') /\ answer'.by = r.by /\ answer'.sub = r.sub
  BY <1>5, <1>6, <1>7
<1>9. answer = None
  BY <1>2 DEF BoardOK
<1>10. BoardOK'
  BY <1>2, <1>7, <1>8 DEF BoardOK
<1>11. QED
  BY <1>1, <1>2, <1>3, <1>8, <1>9, <1>10 DEF r

LEMMA SendRawStep ==
  ASSUME QueueOK, BoardOK, SendRaw
  PROVE  /\ BoardOK' /\ answer # None /\ answer' = None
         /\ ep' = IF ep = None THEN answer ELSE ep
         /\ UNCHANGED <<page, raw_queue, stage, slot, active, profile, done>>
<1>1. answer # None
  BY DEF SendRaw, BoardOK
<1>2. QED
  BY <1>1 DEF SendRaw, BoardOK

\* What a turn of the loop does besides.
Loops == Turn \/ TaskBegin \/ TaskWaits \/ TaskEnd \/ Apply

LEMMA LoopStep ==
  ASSUME BoardOK, Loops
  PROVE  /\ BoardOK'
         /\ UNCHANGED <<page, raw_queue, answer, ep, stage, slot, done>>
<1>1. /\ UNCHANGED <<page, raw_queue, answer, ep, stage, slot, done>>
      /\ at # "answer" /\ at' # "answer"
  BY DEF Loops, Turn, TaskBegin, TaskWaits, TaskEnd, Apply
<1>2. /\ at' \in {"top", "drain", "answer", "task", "apply"} /\ nested' \in BOOLEAN /\ is_busy' \in BOOLEAN
      /\ profile' \in BOOLEAN
  BY DEF Loops, Turn, TaskBegin, TaskWaits, TaskEnd, Apply, BoardOK
<1>3. active' \in BOOLEAN
  BY DEF Loops, Turn, kbdStoreSelect, TaskBegin, TaskWaits, TaskEnd, Apply, BoardOK
<1>4. QED
  BY <1>1, <1>2, <1>3 DEF BoardOK

-----------------------------------------------------------------------------
(* How many requests and answers are on the way. *)

\* No more actions are under way than the raw queue has room for, with one place
\* left for each of the poll, attach and VIA.
Few == Cardinality(UnderWay) + 3 <= HID_RAW_QUEUE_MAX

B(b) == IF b THEN 1 ELSE 0

\* What is on the way, and those who may have put it there: who awaits an answer,
\* or had the turn taken while it did.
Load   == Len(raw_queue) + B(answer # None) + B(ep # None)
Tokens == Cardinality(UnderWay) + B(pc["attach"] # "idle")
          + B(pending # None /\ pending.by = "poll") + B(InFlight("via"))

\* The one whose turn it is has lost its answer if it is not on the way.
Count ==
    /\ IsFiniteSet(UnderWay)
    /\ Load <= Tokens
    /\ pending # None /\ ~InFlight(pending.by) => Load + 1 <= Tokens

LEMMA Numbers ==
  ASSUME QueueOK, Count
  PROVE  /\ Cardinality(UnderWay) \in Nat /\ Len(raw_queue) \in Nat
         /\ Load \in Nat /\ Tokens \in Nat
         /\ B(answer # None) \in 0 .. 1 /\ B(ep # None) \in 0 .. 1 /\ B(pc["attach"] # "idle") \in 0 .. 1
         /\ B(pending # None /\ pending.by = "poll") \in 0 .. 1 /\ B(InFlight("via")) \in 0 .. 1
<1>1. Cardinality(UnderWay) \in Nat /\ Len(raw_queue) \in Nat
  BY FS_CardinalityType, LenProperties DEF Count, QueueOK
<1>2. /\ B(answer # None) \in 0 .. 1 /\ B(ep # None) \in 0 .. 1 /\ B(pc["attach"] # "idle") \in 0 .. 1
      /\ B(pending # None /\ pending.by = "poll") \in 0 .. 1 /\ B(InFlight("via")) \in 0 .. 1
  <2>1. B(pc["attach"] # "idle") \in 0 .. 1 /\ B(answer # None) \in 0 .. 1 /\ B(ep # None) \in 0 .. 1
    BY DEF B
  <2>2. B(pending # None /\ pending.by = "poll") \in 0 .. 1
    BY DEF B
  <2>3. B(InFlight("via")) \in 0 .. 1
    BY DEF B
  <2>4. QED
    BY <2>1, <2>2, <2>3
<1>3. Load \in Nat
  BY <1>1, <1>2 DEF Load
<1>4. Tokens \in Nat
  BY <1>1, <1>2 DEF Tokens
<1>5. QED
  BY <1>1, <1>2, <1>3, <1>4

LEMMA SendCount ==
  ASSUME PageOK, QueueOK, Count, Few', PageOK', NEW c \in Cos,
         \/ Starts(c) /\ UNCHANGED <<answer, ep>>
         \/ Goes(c) /\ UNCHANGED <<answer, ep>> /\ ~InFlight(c)
         \/ Goes(c) /\ ep # None /\ ep' = None /\ answer' = answer /\ ep.by # "via"
  PROVE  Len(raw_queue) < HID_RAW_QUEUE_MAX /\ Count'
<1> DEFINE U == Cardinality(UnderWay)
           V == B(InFlight("via"))
           A == B(pc["attach"] # "idle")
           P == B(pending # None /\ pending.by = "poll")
           L == Len(raw_queue)
           N == B(answer # None)
           E == B(ep # None)
<1>1. /\ U \in Nat /\ V \in 0 .. 1 /\ A \in 0 .. 1 /\ P \in 0 .. 1 /\ L \in Nat /\ N \in 0 .. 1 /\ E \in 0 .. 1
      /\ L + N + E <= U + A + P + V
      /\ IsFiniteSet(UnderWay) /\ HID_RAW_QUEUE_MAX \in Nat
  BY Numbers, Names DEF Count, Load, Tokens
<1>2. pending # None /\ ~InFlight(pending.by) => L + N + E + 1 <= U + A + P + V
  BY DEF Count, Load, Tokens
<1>3. /\ IsFiniteSet(UnderWay') /\ U' \in Nat
      /\ Starts(c) => U' = U + B(c \in Ops)
      /\ Goes(c) => U' = U
  <2>1. CASE Starts(c) /\ c \in Ops
    <3>1. UnderWay' = UnderWay \cup {c} /\ c \notin UnderWay
      BY <2>1 DEF Starts
    <3>2. IsFiniteSet(UnderWay') /\ U' = U + 1
      BY <1>1, <3>1, FS_AddElement
    <3>3. ~Goes(c)
      BY <2>1 DEF Starts, Goes
    <3>4. QED
      BY <1>1, <2>1, <3>2, <3>3 DEF B
  <2>2. CASE Starts(c) /\ c \notin Ops
    <3>1. UnderWay' = UnderWay
      BY <2>2 DEF Starts
    <3>2. QED
      BY <1>1, <2>2, <3>1 DEF B
  <2>3. CASE ~Starts(c)
    <3>1. UnderWay' = UnderWay
      BY <2>3 DEF Goes
    <3>2. QED
      BY <1>1, <2>3, <3>1
  <2>4. QED
    BY <2>1, <2>2, <2>3
<1>4. U' + 3 <= HID_RAW_QUEUE_MAX
  BY DEF Few
<1>5. /\ Goes(c) => A' = A /\ P' = P
      /\ Starts(c) => /\ A' = A + B(c = "attach") /\ P' = B(c = "poll")
                      /\ (P = 1 => L + N + E + 1 <= U + A + P + V)
  <2>1. ASSUME Goes(c) PROVE A' = A /\ P' = P
    <3>1. PICK r \in Req : Sends(c, r)
      BY <2>1 DEF Goes
    <3>2. pending' = [by |-> c, sub |-> r.sub] /\ pending'.by = c
      BY <3>1 DEF Sends
    <3>3. pending' # None
      <4>1. r.sub \in Subs
        BY <3>1, Names DEF Req, Sends
      <4>2. QED
        BY <3>2, <4>1, NoneAssumption
    <3>4. P' = P
      BY <2>1, <3>2, <3>3 DEF Goes, B
    <3>5. A' = A
      BY <2>1 DEF Goes, B
    <3>6. QED
      BY <3>4, <3>5
  <2>2. ASSUME Starts(c)
        PROVE  /\ A' = A + B(c = "attach") /\ P' = B(c = "poll")
               /\ (P = 1 => L + N + E + 1 <= U + A + P + V)
    <3>1. PICK r \in Req : Sends(c, r)
      BY <2>2 DEF Starts
    <3>2. pending' = [by |-> c, sub |-> r.sub] /\ pending'.by = c
      BY <3>1 DEF Sends
    <3>3. pending' # None
      <4>1. r.sub \in Subs
        BY <3>1, Names DEF Req, Sends
      <4>2. QED
        BY <3>2, <4>1, NoneAssumption
    <3>4. P' = B(c = "poll")
      BY <3>2, <3>3 DEF B
    <3>5. A' = A + B(c = "attach")
      BY <2>2 DEF Starts, B
    <3>6. P = 1 => L + N + E + 1 <= U + A + P + V
      <4>1. P = 1 => pending # None /\ pending.by = "poll"
        BY DEF B
      <4>2. pending # None /\ pending.by = "poll" => ~InFlight(pending.by)
        BY <2>2 DEF Starts
      <4>3. QED
        BY <4>1, <4>2, <1>2
    <3>7. QED
      BY <3>4, <3>5, <3>6
  <2>3. QED
    BY <2>1, <2>2
<1>6. /\ N' = N
      /\ \/ Starts(c) /\ E' = E
         \/ Goes(c) /\ E' = E /\ L + N + E + 1 <= U + A + P + V
         \/ Goes(c) /\ E = 1 /\ E' = 0
  <2>1. answer' = answer
    OBVIOUS
  <2>2. CASE Starts(c) /\ UNCHANGED <<answer, ep>>
    BY <2>1, <2>2
  <2>3. CASE Goes(c) /\ UNCHANGED <<answer, ep>> /\ ~InFlight(c)
    BY <1>2, <2>1, <2>3 DEF Goes
  <2>4. CASE Goes(c) /\ ep # None /\ ep' = None
    BY <2>1, <2>4 DEF B
  <2>5. QED
    BY <2>2, <2>3, <2>4
<1>7. c = "attach" => c \notin Ops
  BY Names
<1>8. Starts(c) \/ Goes(c)
  OBVIOUS
<1>9. L < HID_RAW_QUEUE_MAX
  <2> HIDE DEF U, V, A, P, L, N, E
  <2>1. CASE Starts(c)
    <3>1. /\ U' = U + B(c \in Ops) /\ A' = A + B(c = "attach")
          /\ (P = 1 => L + N + E + 1 <= U + A + P + V)
      BY <1>3, <1>5, <2>1
    <3>2. L + N + E <= U + A + V
      BY <1>1, <3>1
    <3>3. A + B(c = "attach") <= 1
      <4>1. A' \in 0 .. 1
        BY DEF A, B
      <4>2. QED
        BY <1>1, <3>1, <4>1
    <3>4. B(c \in Ops) \in 0 .. 1
      BY DEF B
    <3>5. QED
      BY <1>1, <1>4, <3>1, <3>2, <3>4
  <2>2. CASE Goes(c)
    <3>1. U' = U
      BY <1>3, <2>2
    <3>2. CASE E' = E /\ L + N + E + 1 <= U + A + P + V
      BY <1>1, <1>4, <3>1, <3>2
    <3>3. CASE E = 1
      BY <1>1, <1>4, <3>1, <3>3
    <3>4. QED
      BY <2>2, <3>2, <3>3, <1>6 DEF Starts, Goes
  <2>3. QED
    BY <1>8, <2>1, <2>2
<1>10. PICK r \in Req : Sends(c, r)
  BY <1>8 DEF Starts, Goes
<1>11. raw_queue' = Append(raw_queue, r) /\ raw_queue \in Seq(Req) /\ r.by = c
  BY <1>9, <1>10 DEF Sends, Received, QueueOK
<1>12. /\ L' = L + 1 /\ DOMAIN raw_queue' = 1 .. L + 1 /\ DOMAIN raw_queue = 1 .. L
       /\ \A i \in 1 .. L : raw_queue'[i] = raw_queue[i]
       /\ raw_queue'[L + 1].by = c
  BY <1>1, <1>11, Added, LenProperties
<1>13. InFlight(c)'
  <2>1. L + 1 \in DOMAIN raw_queue'
    BY <1>1, <1>12
  <2>2. QED
    BY <1>12, <2>1 DEF InFlight
<1>14. V' = V
  <2>1. c # "via"
    BY Names
  <2>2. (\E i \in DOMAIN raw_queue' : raw_queue'[i].by = "via") <=> (\E i \in DOMAIN raw_queue : raw_queue[i].by = "via")
    BY <1>1, <1>12, <2>1
  <2>3. (ep' # None /\ ep'.by = "via") <=> (ep # None /\ ep.by = "via")
    OBVIOUS
  <2>4. answer' = answer
    OBVIOUS
  <2>5. InFlight("via")' <=> InFlight("via")
    BY <2>2, <2>3, <2>4 DEF InFlight
  <2>6. QED
    BY <2>5 DEF B
<1>15. pending' # None => pending'.by = c
  BY <1>10 DEF Sends
<1>16. L' + N' + E' <= U' + A' + P' + V'
  <2> HIDE DEF U, V, A, P, L, N, E
  <2>1. CASE Starts(c)
    <3>1. /\ U' = U + B(c \in Ops) /\ A' = A + B(c = "attach") /\ P' = B(c = "poll")
          /\ (P = 1 => L + N + E + 1 <= U + A + P + V)
      BY <1>3, <1>5, <2>1
    <3>2. L + N + E <= U + A + V
      BY <1>1, <3>1
    <3>3. B(c \in Ops) + B(c = "attach") + B(c = "poll") = 1
      BY Names DEF B
    <3>4. E' = E
      BY <1>6, <2>1 DEF Starts, Goes
    <3>5. B(c \in Ops) \in 0 .. 1 /\ B(c = "attach") \in 0 .. 1 /\ B(c = "poll") \in 0 .. 1
      BY DEF B
    <3>6. QED
      BY SMTT(30), <1>1, <1>6, <1>12, <1>14, <3>1, <3>2, <3>3, <3>4, <3>5
  <2>2. CASE Goes(c)
    <3>1. U' = U /\ A' = A /\ P' = P
      BY <1>3, <1>5, <2>2
    <3>2. (E' = E /\ L + N + E + 1 <= U + A + P + V) \/ (E = 1 /\ E' = 0)
      BY <2>2, <1>6 DEF Starts, Goes
    <3>3. QED
      BY <1>1, <1>6, <1>12, <1>14, <3>1, <3>2
  <2>3. QED
    BY <1>8, <2>1, <2>2
<1>17. QED
  <2>1. Load' <= Tokens'
    BY <1>16 DEF Load, Tokens
  <2>2. ~(pending' # None /\ ~InFlight(pending.by)')
    BY <1>13, <1>15
  <2>3. QED
    BY <1>3, <1>9, <2>1, <2>2 DEF Count

\* Something is read, or dropped, and nothing is asked.
LEMMA StayCount ==
  ASSUME PageOK, QueueOK, Count, Stays,
         \/ UNCHANGED <<answer, ep>>
         \/ ep # None /\ ep' = None /\ answer' = answer
         \/ answer # None /\ answer' = None /\ ep # None /\ ep' = ep
  PROVE  Count'
<1> DEFINE V == B(InFlight("via"))
           A == B(pc["attach"] # "idle")
           P == B(pending # None /\ pending.by = "poll")
           L == Len(raw_queue)
           N == B(answer # None)
           E == B(ep # None)
<1> DEFINE U == Cardinality(UnderWay)
<1>1. /\ U \in Nat /\ V \in 0 .. 1 /\ A \in 0 .. 1 /\ P \in 0 .. 1 /\ L \in Nat /\ N \in 0 .. 1 /\ E \in 0 .. 1
      /\ L + N + E <= U + A + P + V
      /\ IsFiniteSet(UnderWay)
  BY Numbers DEF Count, Load, Tokens
<1>2. pending # None /\ ~InFlight(pending.by) => L + N + E + 1 <= U + A + P + V
  BY DEF Count, Load, Tokens
<1>3. /\ raw_queue' = raw_queue /\ pending' = pending /\ UnderWay' = UnderWay
      /\ U' = U /\ A' = A /\ P' = P /\ L' = L /\ IsFiniteSet(UnderWay')
  BY <1>1 DEF Stays, B
<1>4. V' \in 0 .. 1
  BY DEF B
<1>5. CASE UNCHANGED <<answer, ep>>
  <2>1. /\ InFlight("via")' <=> InFlight("via")
        /\ pending # None => (InFlight(pending.by)' <=> InFlight(pending.by))
        /\ N' = N /\ E' = E
    BY <1>3, <1>5 DEF InFlight
  <2>2. V' = V
    BY <2>1 DEF B
  <2>3. QED
    BY <1>3, <2>1, <2>2 DEF Count, Load, Tokens
<1>6. ASSUME NEW a, a # None,
             \/ a = ep /\ ep' = None /\ answer' = answer
             \/ a = answer /\ answer' = None /\ ep' = ep
      PROVE  Count'
  <2>1. Load' = Load - 1 /\ Load \in Nat
    <3>1. CASE a = ep /\ ep' = None /\ answer' = answer
      <4>1. E = 1 /\ E' = 0 /\ N' = N
        BY <1>6, <3>1 DEF B
      <4>2. Load' = L + N + 0 /\ Load = L + N + 1
        BY <1>3, <4>1 DEF Load
      <4> HIDE DEF L, N
      <4>3. QED
        BY <1>1, <4>2
    <3>2. CASE a = answer /\ answer' = None /\ ep' = ep
      <4>1. N = 1 /\ N' = 0 /\ E' = E
        BY <1>6, <3>2 DEF B
      <4>2. Load' = L + 0 + E /\ Load = L + 1 + E
        BY <1>3, <4>1 DEF Load
      <4> HIDE DEF L, E
      <4>3. QED
        BY <1>1, <4>2
    <3>3. QED
      BY <1>6, <3>1, <3>2
  <2>2. PICK l \in Int : l = Load'
    BY <2>1
  <2>3. \A c : c # a.by => (InFlight(c)' <=> InFlight(c))
    BY <1>3, <1>6 DEF InFlight
  <2>4. IsFiniteSet(UnderWay')
    BY <1>3
  <2>5. CASE a.by = "via"
    <3>1. pending # None => pending.by # "via"
      BY Names DEF PageOK
    <3>2. pending # None /\ ~InFlight(pending.by)' => ~InFlight(pending.by)
      BY <1>3, <2>3, <2>5, <3>1
    <3>3. PICK v \in 0 .. 1 : v = V'
      BY <1>4
    <3>4. PICK t \in Nat : t = Tokens' /\ Tokens - 1 <= t /\ Tokens \in Nat
      <4>1. Tokens = U + A + P + V /\ Tokens' = U + A + P + v
        BY <1>3, <3>3 DEF Tokens
      <4> HIDE DEF U, V, A, P
      <4>2. U + A + P + v \in Nat /\ (U + A + P + V) - 1 <= U + A + P + v /\ U + A + P + V \in Nat
        BY <1>1
      <4>3. QED
        BY <4>1, <4>2
    <3>5. Load <= Tokens /\ (pending # None /\ ~InFlight(pending.by) => Load + 1 <= Tokens)
      BY DEF Count
    <3>6. l <= t
      BY <2>1, <2>2, <3>4, <3>5
    <3>7. pending # None /\ ~InFlight(pending.by)' => l + 1 <= t
      BY <2>1, <2>2, <3>2, <3>4, <3>5
    <3>8. QED
      BY <1>3, <2>4, <2>2, <3>4, <3>6, <3>7 DEF Count
  <2>6. CASE a.by # "via"
    <3>1. V' = V
      <4>1. InFlight("via")' <=> InFlight("via")
        BY <2>3, <2>6
      <4>2. QED
        BY <4>1 DEF B
    <3>2. Tokens' = Tokens /\ Tokens \in Nat
      BY <1>3, <3>1, Numbers DEF Tokens
    <3>3. Load <= Tokens
      BY DEF Count
    <3>4. l <= Tokens /\ l + 1 <= Tokens
      BY <2>1, <2>2, <3>2, <3>3
    <3>5. QED
      BY <1>3, <2>4, <2>2, <3>2, <3>4 DEF Count
  <2>7. QED
    BY <2>5, <2>6
<1>7. QED
  BY <1>5, <1>6

LEMMA StopCount ==
  ASSUME PageOK, QueueOK, Count, NEW c \in Cos, Stops(c),
         \/ UNCHANGED <<answer, ep>> /\ ~InFlight(c)
         \/ ep # None /\ ep' = None /\ answer' = answer /\ ep.by # "via"
  PROVE  Count'
<1> DEFINE U == Cardinality(UnderWay)
           V == B(InFlight("via"))
           A == B(pc["attach"] # "idle")
           P == B(pending # None /\ pending.by = "poll")
           L == Len(raw_queue)
           N == B(answer # None)
           E == B(ep # None)
<1>1. /\ U \in Nat /\ V \in 0 .. 1 /\ A \in 0 .. 1 /\ P \in 0 .. 1 /\ L \in Nat /\ N \in 0 .. 1 /\ E \in 0 .. 1
      /\ L + N + E <= U + A + P + V
      /\ IsFiniteSet(UnderWay)
  BY Numbers DEF Count, Load, Tokens
<1>2. /\ pending # None /\ pending.by = c /\ pending' = None /\ raw_queue' = raw_queue
      /\ UnderWay' = UnderWay \ {c} /\ c # "via"
  BY Names DEF Stops
<1>3. ~InFlight(c) => L + N + E + 1 <= U + A + P + V
  BY <1>2 DEF Count, Load, Tokens
<1>4. /\ IsFiniteSet(UnderWay') /\ U' \in Nat /\ U' = U - B(c \in UnderWay)
  <2>1. CASE c \in UnderWay
    <3>1. IsFiniteSet(UnderWay') /\ U' = U - 1 /\ U' \in Nat
      BY <1>1, <1>2, <2>1, FS_RemoveElement, FS_CardinalityType
    <3>2. QED
      BY <2>1, <3>1 DEF B
  <2>2. CASE c \notin UnderWay
    <3>1. UnderWay' = UnderWay
      BY <1>2, <2>2
    <3>2. QED
      BY <1>1, <2>2, <3>1 DEF B
  <2>3. QED
    BY <2>1, <2>2
<1>5. /\ A' >= A - B(c = "attach") /\ A' \in 0 .. 1
      /\ P = B(c = "poll") /\ P' = 0
  BY <1>2 DEF Stops, B
<1>6. B(c \in UnderWay) + B(c = "attach") + B(c = "poll") <= 1
  BY Names DEF B, UnderWay
<1>7. V' = V
  <2>1. InFlight("via")' <=> InFlight("via")
    BY <1>2 DEF InFlight
  <2>2. QED
    BY <2>1 DEF B
<1>8. L' = L /\ N' = N
  BY <1>2
<1>9. \/ E' = E /\ L + N + E + 1 <= U + A + P + V
      \/ E = 1 /\ E' = 0
  <2>1. CASE UNCHANGED <<answer, ep>> /\ ~InFlight(c)
    BY <1>3, <2>1
  <2>2. CASE ep # None /\ ep' = None
    BY <2>2 DEF B
  <2>3. QED
    BY <2>1, <2>2
<1>10. /\ B(c \in UnderWay) \in 0 .. 1 /\ B(c = "attach") \in 0 .. 1 /\ B(c = "poll") \in 0 .. 1
  BY DEF B
<1>11. L' + N' + E' <= U' + A' + P' + V'
  <2> HIDE DEF U, V, A, P, L, N, E
  <2>1. QED
    BY <1>1, <1>4, <1>5, <1>6, <1>7, <1>8, <1>9, <1>10
<1>12. QED
  BY <1>2, <1>4, <1>11 DEF Count, Load, Tokens

LEMMA ViaSendCount ==
  ASSUME PageOK, QueueOK, Count, Few, ViaSend
  PROVE  Len(raw_queue) < HID_RAW_QUEUE_MAX /\ Count'
<1> DEFINE U == Cardinality(UnderWay)
           V == B(InFlight("via"))
           A == B(pc["attach"] # "idle")
           P == B(pending # None /\ pending.by = "poll")
           L == Len(raw_queue)
           N == B(answer # None)
           E == B(ep # None)
           r == Request("VIA", "via", 0)
<1>1. /\ U \in Nat /\ V \in 0 .. 1 /\ A \in 0 .. 1 /\ P \in 0 .. 1 /\ L \in Nat /\ N \in 0 .. 1 /\ E \in 0 .. 1
      /\ L + N + E <= U + A + P + V /\ HID_RAW_QUEUE_MAX \in Nat
      /\ IsFiniteSet(UnderWay)
  BY Numbers, Names DEF Count, Load, Tokens
<1>2. pending # None /\ ~InFlight(pending.by) => L + N + E + 1 <= U + A + P + V
  BY DEF Count, Load, Tokens
<1>3. /\ r \in Req /\ r.by = "via" /\ raw_queue' = Received(r)
      /\ ~InFlight("via") /\ UNCHANGED <<page, board>>
  BY ViaSendStep
<1>4. V = 0
  BY <1>3 DEF B
<1>5. L < HID_RAW_QUEUE_MAX
  <2>1. U + 3 <= HID_RAW_QUEUE_MAX
    BY DEF Few
  <2> HIDE DEF U, V, A, P, L, N, E
  <2>2. QED
    BY <1>1, <1>4, <2>1
<1> HIDE DEF r
<1>6. raw_queue' = Append(raw_queue, r) /\ raw_queue \in Seq(Req)
  BY <1>3, <1>5 DEF Received, QueueOK
<1>7. /\ L' = L + 1 /\ DOMAIN raw_queue' = 1 .. L + 1 /\ DOMAIN raw_queue = 1 .. L
      /\ \A i \in 1 .. L : raw_queue'[i] = raw_queue[i]
      /\ raw_queue'[L + 1].by = "via"
  BY <1>1, <1>3, <1>6, Added, LenProperties
<1>8. UNCHANGED <<pending, pc, answer, ep>>
  BY <1>3 DEF page, board
<1>9. InFlight("via")'
  <2>1. L + 1 \in DOMAIN raw_queue'
    BY <1>1, <1>7
  <2>2. QED
    BY <1>7, <2>1 DEF InFlight
<1>10. /\ V' = 1 /\ A' = A /\ P' = P /\ N' = N /\ E' = E /\ UnderWay' = UnderWay
  BY <1>8, <1>9 DEF B, UnderWay
<1>11. pending # None => (InFlight(pending.by)' <=> InFlight(pending.by))
  <2>1. pending # None => pending.by # "via"
    BY Names DEF PageOK
  <2>2. \A c : c # "via" => ((\E i \in DOMAIN raw_queue' : raw_queue'[i].by = c) <=> (\E i \in DOMAIN raw_queue : raw_queue[i].by = c))
    BY <1>1, <1>7
  <2>3. QED
    BY <1>8, <2>1, <2>2 DEF InFlight
<1>12. U' = U
  BY <1>10
<1>13. /\ L' + N' + E' <= U' + A' + P' + V'
       /\ pending' # None /\ ~InFlight(pending.by)' => L' + N' + E' + 1 <= U' + A' + P' + V'
  <2>1. pending' # None /\ ~InFlight(pending.by)' => L + N + E + 1 <= U + A + P + V
    BY <1>2, <1>8, <1>11
  <2> HIDE DEF U, V, A, P, L, N, E
  <2>2. QED
    BY <1>1, <1>4, <1>7, <1>10, <1>12, <2>1
<1>14. QED
  BY <1>1, <1>5, <1>10, <1>13 DEF Count, Load, Tokens

\* The same things are on the way, one of them further on.
LEMMA SameCount ==
  ASSUME Count, UNCHANGED <<pending, pc>>, Load' = Load, \A c : InFlight(c)' <=> InFlight(c)
  PROVE  Count'
<1>1. UnderWay' = UnderWay
  BY DEF UnderWay
<1>2. Tokens' = Tokens
  <2>1. InFlight("via")' <=> InFlight("via")
    OBVIOUS
  <2>2. B(InFlight("via"))' = B(InFlight("via"))
    BY <2>1 DEF B
  <2>3. QED
    BY <1>1, <2>2 DEF Tokens
<1>3. pending # None => (InFlight(pending.by)' <=> InFlight(pending.by))
  <2>1. PICK c : c = pending.by
    OBVIOUS
  <2>2. InFlight(c)' <=> InFlight(c)
    OBVIOUS
  <2>3. QED
    BY <2>1, <2>2 DEF InFlight
<1>4. QED
  BY <1>1, <1>2, <1>3 DEF Count

LEMMA HandleCount ==
  ASSUME QueueOK, BoardOK, Count, Handle
  PROVE  Count'
<1>1. /\ raw_queue # <<>> /\ raw_queue' = Tail(raw_queue) /\ answer = None /\ answer' # None
      /\ answer'.by = Head(raw_queue).by /\ UNCHANGED <<page, ep>>
  BY HandleStep
<1>2. /\ Head(raw_queue) = raw_queue[1]
      /\ Len(raw_queue) \in Nat /\ Len(raw_queue) >= 1
      /\ Len(Tail(raw_queue)) = Len(raw_queue) - 1
      /\ \A i \in 1 .. Len(raw_queue) - 1 : Tail(raw_queue)[i] = raw_queue[i + 1]
      /\ DOMAIN raw_queue = 1 .. Len(raw_queue)
      /\ DOMAIN Tail(raw_queue) = 1 .. Len(raw_queue) - 1
  BY <1>1, Removed, LenProperties DEF QueueOK
<1>3. \A c : (\E i \in DOMAIN raw_queue : raw_queue[i].by = c)
               <=> (\E i \in DOMAIN raw_queue' : raw_queue'[i].by = c) \/ raw_queue[1].by = c
  <2>1. ASSUME NEW c, NEW i \in DOMAIN raw_queue, raw_queue[i].by = c, i # 1
        PROVE  \E j \in DOMAIN raw_queue' : raw_queue'[j].by = c
    <3>1. i - 1 \in 1 .. Len(raw_queue) - 1 /\ (i - 1) + 1 = i
      BY <1>2, <2>1
    <3>2. raw_queue'[i - 1] = raw_queue[i]
      BY <1>1, <1>2, <3>1
    <3>3. QED
      BY <1>1, <1>2, <2>1, <3>1, <3>2
  <2>2. ASSUME NEW c, NEW j \in DOMAIN raw_queue', raw_queue'[j].by = c
        PROVE  \E i \in DOMAIN raw_queue : raw_queue[i].by = c
    <3>1. j + 1 \in DOMAIN raw_queue /\ raw_queue[j + 1] = raw_queue'[j]
      BY <1>1, <1>2
    <3>2. QED
      BY <2>2, <3>1
  <2>3. 1 \in DOMAIN raw_queue
    BY <1>2
  <2>4. QED
    BY <2>1, <2>2, <2>3
<1>4. \A c : InFlight(c)' <=> InFlight(c)
  BY <1>1, <1>2, <1>3 DEF InFlight
<1>5. Load' = Load
  <2>1. Len(raw_queue') = Len(raw_queue) - 1 /\ B(ep # None)' = B(ep # None)
    BY <1>1, <1>2
  <2>2. B(answer # None) = 0 /\ B(answer # None)' = 1 /\ B(ep # None) \in 0 .. 1
    BY <1>1 DEF B
  <2>3. QED
    BY <1>2, <2>1, <2>2 DEF Load
<1>6. UNCHANGED <<pending, pc>>
  BY <1>1 DEF page
<1>7. QED
  BY <1>4, <1>5, <1>6, SameCount

LEMMA SendRawCount ==
  ASSUME PageOK, QueueOK, BoardOK, Count, SendRaw
  PROVE  Count'
<1>1. /\ answer # None /\ answer' = None
      /\ ep' = IF ep = None THEN answer ELSE ep
      /\ UNCHANGED <<page, raw_queue>>
  BY SendRawStep
<1>2. UNCHANGED <<pending, pc, raw_queue>>
  BY <1>1 DEF page
<1>3. CASE ep = None
  <2>1. \A c : InFlight(c)' <=> InFlight(c)
    BY <1>1, <1>2, <1>3 DEF InFlight
  <2>2. Load' = Load
    <3>1. B(answer # None) = 1 /\ B(ep # None) = 0 /\ B(answer # None)' = 0 /\ B(ep # None)' = 1
      BY <1>1, <1>3 DEF B
    <3>2. QED
      BY <1>2, <3>1, Numbers DEF Load
  <2>3. QED
    BY <1>2, <2>1, <2>2, SameCount
<1>4. CASE ep # None
  <2>1. Stays
    BY <1>1 DEF Stays, page, UnderWay, At
  <2>2. QED
    BY <1>1, <1>4, <2>1, StayCount
<1>5. QED
  BY <1>3, <1>4

-----------------------------------------------------------------------------
(* Uploads: pieces follow one another, in the queue and in the stage. *)

\* Step k of the upload of o: 0 is its header, CHUNKS + 1 its end.
Is(r, o, k) == r.sub \in Upload /\ r.by = o /\ StepOf(r) = k
StageAt(o, k) == stage = [open |-> k <= CHUNKS, by |-> o,
                          got  |-> [i \in Chunks |-> IF i <= k THEN o ELSE None]]

\* Step k of o is the last one up to place n of the queue, or had been carried
\* out before all that is in the queue.
Last(n, o, k) ==
    \/ \E j \in 1 .. n : /\ Is(raw_queue[j], o, k)
                         /\ \A m \in j + 1 .. n : raw_queue[m].sub \notin Upload
    \/ (\A m \in 1 .. n : raw_queue[m].sub \notin Upload) /\ StageAt(o, k)

\* Every step follows the one before it, ...
Chain ==
    \A i \in DOMAIN raw_queue :
        raw_queue[i].sub \in Upload /\ StepOf(raw_queue[i]) # 0 =>
            Last(i - 1, raw_queue[i].by, StepOf(raw_queue[i]) - 1)

\* ... and the upload whose turn it is is as far as it thinks it is.
Speaks(o) == pending # None /\ pending.by = o /\ pc[o] \in Upload
Reached == \A o \in Ops : Speaks(o) => Last(Len(raw_queue), o, At(o))

LEMMA Steps ==
  /\ \A o \in Ops : PageOK => At(o) \in 0 .. CHUNKS + 1
  /\ \A r \in Req : StepOf(r) \in 0 .. CHUNKS + 1
<1>1. \A o \in Ops : PageOK => At(o) \in 0 .. CHUNKS + 1
  BY Names DEF PageOK, At
<1>2. \A r \in Req : StepOf(r) \in 0 .. CHUNKS + 1
  BY Names DEF Req, StepOf
<1>3. QED
  BY <1>1, <1>2

\* A request joins the queue.
LEMMA LastGrows ==
  ASSUME QueueOK, NEW r \in Req, raw_queue' = Append(raw_queue, r), stage' = stage,
         NEW o, NEW k, NEW l, l = Len(raw_queue)
  PROVE  /\ Len(raw_queue') = l + 1 /\ l \in Nat
         /\ DOMAIN raw_queue' = 1 .. l + 1 /\ DOMAIN raw_queue = 1 .. l
         /\ raw_queue'[l + 1] = r
         /\ \A i \in 1 .. l : raw_queue'[i] = raw_queue[i]
         /\ \A n \in 0 .. l : Last(n, o, k) => Last(n, o, k)'
         /\ r.sub \notin Upload /\ Last(l, o, k) => Last(l + 1, o, k)'
         /\ Is(r, o, k) => Last(l + 1, o, k)'
<1>1. /\ Len(raw_queue') = l + 1 /\ l \in Nat
      /\ DOMAIN raw_queue' = 1 .. l + 1 /\ DOMAIN raw_queue = 1 .. l
      /\ raw_queue'[l + 1] = r
      /\ \A i \in 1 .. l : raw_queue'[i] = raw_queue[i]
  BY Added, LenProperties DEF QueueOK
<1>2. \A q \in 1 .. l : (Is(raw_queue[q], o, k) <=> Is(raw_queue'[q], o, k))
  BY <1>1
<1>3. StageAt(o, k)' <=> StageAt(o, k)
  BY DEF StageAt
<1>4. ASSUME NEW n \in 0 .. l, Last(n, o, k)
      PROVE  /\ Last(n, o, k)'
             /\ n = l /\ r.sub \notin Upload => Last(l + 1, o, k)'
  <2>1. CASE (\A m \in 1 .. n : raw_queue[m].sub \notin Upload) /\ StageAt(o, k)
    <3>1. \A m \in 1 .. n : raw_queue'[m].sub \notin Upload
      BY <1>1, <2>1
    <3>2. n = l /\ r.sub \notin Upload => \A m \in 1 .. l + 1 : raw_queue'[m].sub \notin Upload
      BY <1>1, <3>1
    <3>3. QED
      BY <1>3, <2>1, <3>1, <3>2 DEF Last, StageAt
  <2>2. ASSUME NEW j \in 1 .. n, Is(raw_queue[j], o, k),
               \A m \in j + 1 .. n : raw_queue[m].sub \notin Upload
        PROVE  /\ Last(n, o, k)'
               /\ n = l /\ r.sub \notin Upload => Last(l + 1, o, k)'
    <3>1. Is(raw_queue'[j], o, k) /\ \A m \in j + 1 .. n : raw_queue'[m].sub \notin Upload
      BY <1>1, <2>2
    <3>2. j \in 1 .. l + 1
      BY <1>1
    <3>3. n = l /\ r.sub \notin Upload => \A m \in j + 1 .. l + 1 : raw_queue'[m].sub \notin Upload
      BY <1>1, <3>1
    <3>4. Last(n, o, k)' <=>
             \/ \E q \in 1 .. n : /\ Is(raw_queue'[q], o, k)
                                  /\ \A m \in q + 1 .. n : raw_queue'[m].sub \notin Upload
             \/ (\A m \in 1 .. n : raw_queue'[m].sub \notin Upload) /\ StageAt(o, k)'
      BY <1>1 DEF Last, Is, StepOf, StageAt
    <3>5. (\E q \in 1 .. l + 1 : /\ Is(raw_queue'[q], o, k)
                                 /\ \A m \in q + 1 .. l + 1 : raw_queue'[m].sub \notin Upload)
             => Last(l + 1, o, k)'
      BY <1>1 DEF Last, Is, StepOf
    <3>6. QED
      BY <3>1, <3>2, <3>3, <3>4, <3>5
  <2>3. QED
    BY <1>4, <2>1, <2>2 DEF Last
<1>5. ASSUME Is(r, o, k)
      PROVE  Last(l + 1, o, k)'
  <2>1. l + 1 \in 1 .. l + 1 /\ Is(raw_queue'[l + 1], o, k)
    BY <1>1, <1>5
  <2>2. \A m \in (l + 1) + 1 .. l + 1 : raw_queue'[m].sub \notin Upload
    BY <1>1
  <2>3. QED
    BY <2>1, <2>2 DEF Last, Is, StepOf
<1>6. l \in 0 .. l
  BY <1>1
<1>7. QED
  BY <1>1, <1>4, <1>5, <1>6

\* Carrying out step k of o, which follows what is in the stage.
LEMMA StageMoves ==
  ASSUME QueueOK, BoardOK, Chain, Handle, NEW r, r = raw_queue[1]
  PROVE  /\ r.sub \notin Upload => stage' = stage
         /\ \A o, k : Is(r, o, k) => StageAt(o, k)'
         /\ r.sub = "COMMIT" => StageAt(r.by, CHUNKS)
<1>1. /\ raw_queue # <<>> /\ r \in Req /\ Head(raw_queue) = r /\ 1 \in DOMAIN raw_queue
      /\ Execute(r) /\ CHUNKS \in Nat /\ CHUNKS >= 1 /\ Chunks = 1 .. CHUNKS
  BY Removed, LenProperties, Names DEF Handle, QueueOK
<1>2. r.sub \notin Upload => stage' = stage
  BY <1>1 DEF Execute, SlotErase, SlotSelect, SlotRead, Other, Upload
<1>3. r.sub \in Upload /\ StepOf(r) # 0 => StageAt(r.by, StepOf(r) - 1)
  <2>1. SUFFICES ASSUME r.sub \in Upload, StepOf(r) # 0
                 PROVE  StageAt(r.by, StepOf(r) - 1)
    OBVIOUS
  <2>2. Last(1 - 1, r.by, StepOf(r) - 1)
    BY <1>1, <2>1 DEF Chain
  <2>3. 1 .. (1 - 1) = {}
    OBVIOUS
  <2>4. QED
    BY <2>2, <2>3 DEF Last
<1>4. ASSUME NEW o, NEW k, Is(r, o, k)
      PROVE  StageAt(o, k)'
  <2>1. r.sub \in Upload /\ r.by = o /\ StepOf(r) = k
    BY <1>4 DEF Is
  <2>2. CASE r.sub = "BEGIN"
    <3>1. k = 0 /\ stage' = [open |-> TRUE, by |-> o, got |-> [i \in Chunks |-> None]]
      BY <1>1, <2>1, <2>2 DEF StepOf, Execute, SlotBegin, Query
    <3>2. [i \in Chunks |-> IF i <= k THEN o ELSE None] = [i \in Chunks |-> None]
      BY <1>1, <3>1
    <3>3. k <= CHUNKS
      BY <1>1, <3>1
    <3>4. QED
      BY <3>1, <3>2, <3>3 DEF StageAt
  <2>3. CASE r.sub = "DATA"
    <3>1. k = r.chunk /\ k \in Chunks
      BY <1>1, <2>1, <2>3 DEF StepOf, Req
    <3>2. StageAt(o, k - 1)
      BY <1>1, <1>3, <2>1, <3>1
    <3>3. /\ stage.open /\ stage.by = o
          /\ stage.got = [i \in Chunks |-> IF i <= k - 1 THEN o ELSE None]
          /\ stage = [open |-> TRUE, by |-> o, got |-> [i \in Chunks |-> IF i <= k - 1 THEN o ELSE None]]
      <4>1. (k - 1 <= CHUNKS) = TRUE
        BY <1>1, <3>1
      <4>2. QED
        BY <3>2, <4>1 DEF StageAt
    <3>4. stage' = [stage EXCEPT !.got[k] = o]
      BY <1>1, <2>1, <2>3, <3>1, <3>3 DEF Execute, SlotData, Query
    <3>5. [[i \in Chunks |-> IF i <= k - 1 THEN o ELSE None] EXCEPT ![k] = o]
             = [i \in Chunks |-> IF i <= k THEN o ELSE None]
      <4>1. \A i \in Chunks : i # k => (i <= k - 1 <=> i <= k)
        BY <1>1, <3>1
      <4>2. k <= k
        BY <1>1, <3>1
      <4>3. \A i \in Chunks : (IF i = k THEN o ELSE IF i <= k - 1 THEN o ELSE None)
                                 = (IF i <= k THEN o ELSE None)
        BY <4>1, <4>2
      <4>4. [[i \in Chunks |-> IF i <= k - 1 THEN o ELSE None] EXCEPT ![k] = o]
               = [i \in Chunks |-> IF i = k THEN o ELSE IF i <= k - 1 THEN o ELSE None]
        OBVIOUS
      <4>5. QED
        BY <4>3, <4>4
    <3>6. stage' = [open |-> TRUE, by |-> o, got |-> [i \in Chunks |-> IF i <= k THEN o ELSE None]]
      BY <3>3, <3>4, <3>5
    <3>7. (k <= CHUNKS) = TRUE
      BY <1>1, <3>1
    <3>8. QED
      BY <3>6, <3>7 DEF StageAt
  <2>4. CASE r.sub = "COMMIT"
    <3>1. k = CHUNKS + 1
      BY <1>1, <2>1, <2>4 DEF StepOf
    <3>2. StageAt(o, CHUNKS)
      <4>1. k # 0 /\ k - 1 = CHUNKS
        BY <1>1, <3>1
      <4>2. QED
        BY <1>3, <2>1, <4>1
    <3>3. stage = [open |-> CHUNKS <= CHUNKS, by |-> o, got |-> [i \in Chunks |-> IF i <= CHUNKS THEN o ELSE None]]
      BY <3>2 DEF StageAt
    <3>4. stage' = [stage EXCEPT !.open = FALSE]
      BY <1>1, <2>1, <2>4 DEF Execute, SlotCommit, Query
    <3>5. [i \in Chunks |-> IF i <= CHUNKS THEN o ELSE None] = [i \in Chunks |-> IF i <= k THEN o ELSE None]
      BY <1>1, <3>1
    <3>6. stage' = [open |-> FALSE, by |-> o, got |-> [i \in Chunks |-> IF i <= k THEN o ELSE None]]
      BY <3>3, <3>4, <3>5
    <3>7. (k <= CHUNKS) = FALSE
      BY <1>1, <3>1
    <3>8. QED
      BY <3>6, <3>7 DEF StageAt
  <2>5. QED
    BY <2>1, <2>2, <2>3, <2>4 DEF Upload
<1>5. r.sub = "COMMIT" => StageAt(r.by, CHUNKS)
  <2>1. ASSUME r.sub = "COMMIT"
        PROVE  StageAt(r.by, CHUNKS)
    <3>1. StepOf(r) = CHUNKS + 1 /\ r.sub \in Upload
      BY <2>1 DEF StepOf, Upload
    <3>2. StepOf(r) # 0 /\ StepOf(r) - 1 = CHUNKS
      BY <1>1, <3>1
    <3>3. QED
      BY <1>3, <3>1, <3>2
  <2>2. QED
    BY <2>1
<1>6. QED
  BY <1>2, <1>4, <1>5

\* The first request leaves the queue and is carried out.
LEMMA LastMoves ==
  ASSUME QueueOK, BoardOK, Chain, Handle, NEW l, l = Len(raw_queue)
  PROVE  /\ l \in Nat /\ l >= 1 /\ Len(raw_queue') = l - 1
         /\ DOMAIN raw_queue = 1 .. l /\ DOMAIN raw_queue' = 1 .. l - 1
         /\ \A i \in 1 .. l - 1 : raw_queue'[i] = raw_queue[i + 1]
         /\ \A n \in 1 .. l : \A o, k : Last(n, o, k) => Last(n - 1, o, k)'
<1>1. /\ l \in Nat /\ l >= 1 /\ Len(raw_queue') = l - 1
      /\ DOMAIN raw_queue = 1 .. l /\ DOMAIN raw_queue' = 1 .. l - 1
      /\ \A i \in 1 .. l - 1 : raw_queue'[i] = raw_queue[i + 1]
  <2>1. raw_queue # <<>> /\ raw_queue' = Tail(raw_queue)
    BY DEF Handle
  <2>2. QED
    BY <2>1, Removed, LenProperties DEF QueueOK
<1>2. PICK r : r = raw_queue[1]
  OBVIOUS
<1>3. /\ r.sub \notin Upload => stage' = stage
      /\ \A o, k : Is(r, o, k) => StageAt(o, k)'
  BY <1>2, StageMoves
<1>4. ASSUME NEW n \in 1 .. l, NEW o, NEW k, Last(n, o, k)
      PROVE  Last(n - 1, o, k)'
  <2>1. Last(n - 1, o, k)' <=>
             \/ \E q \in 1 .. n - 1 : /\ Is(raw_queue'[q], o, k)
                                      /\ \A m \in q + 1 .. n - 1 : raw_queue'[m].sub \notin Upload
             \/ (\A m \in 1 .. n - 1 : raw_queue'[m].sub \notin Upload) /\ StageAt(o, k)'
    BY DEF Last, Is, StepOf, StageAt
  <2>2. \A q \in 1 .. n - 1 : raw_queue'[q] = raw_queue[q + 1]
    BY <1>1
  <2>3. CASE (\A m \in 1 .. n : raw_queue[m].sub \notin Upload) /\ StageAt(o, k)
    <3>1. r.sub \notin Upload
      BY <1>1, <1>2, <2>3
    <3>2. StageAt(o, k)'
      BY <1>3, <2>3, <3>1 DEF StageAt
    <3>3. \A m \in 1 .. n - 1 : raw_queue'[m].sub \notin Upload
      BY <1>1, <2>2, <2>3
    <3>4. QED
      BY <2>1, <3>2, <3>3
  <2>4. ASSUME NEW j \in 1 .. n, Is(raw_queue[j], o, k),
               \A m \in j + 1 .. n : raw_queue[m].sub \notin Upload
        PROVE  Last(n - 1, o, k)'
    <3>1. CASE j = 1
      <4>1. StageAt(o, k)'
        BY <1>2, <1>3, <2>4, <3>1
      <4>2. \A m \in 1 .. n - 1 : raw_queue'[m].sub \notin Upload
        BY <1>1, <2>2, <2>4, <3>1
      <4>3. QED
        BY <2>1, <4>1, <4>2
    <3>2. CASE j # 1
      <4>1. j - 1 \in 1 .. n - 1 /\ (j - 1) + 1 = j
        BY <1>1, <3>2
      <4>2. Is(raw_queue'[j - 1], o, k)
        BY <2>2, <2>4, <4>1
      <4>3. \A m \in (j - 1) + 1 .. n - 1 : raw_queue'[m].sub \notin Upload
        BY <1>1, <2>2, <2>4, <4>1
      <4>4. QED
        BY <2>1, <4>1, <4>2, <4>3
    <3>3. QED
      BY <3>1, <3>2
  <2>5. QED
    BY <1>4, <2>3, <2>4 DEF Last
<1>5. QED
  BY <1>1, <1>4

LEMMA HandleChain ==
  ASSUME PageOK, QueueOK, BoardOK, Chain, Reached, Handle
  PROVE  Chain' /\ Reached'
<1>1. PICK l : l = Len(raw_queue)
  OBVIOUS
<1>2. /\ l \in Nat /\ l >= 1 /\ Len(raw_queue') = l - 1
      /\ DOMAIN raw_queue = 1 .. l /\ DOMAIN raw_queue' = 1 .. l - 1
      /\ \A i \in 1 .. l - 1 : raw_queue'[i] = raw_queue[i + 1]
      /\ \A n \in 1 .. l : \A o, k : Last(n, o, k) => Last(n - 1, o, k)'
  BY <1>1, LastMoves
<1>3. Chain'
  <2>1. SUFFICES ASSUME NEW i \in 1 .. l - 1, NEW x, x = raw_queue'[i], x.sub \in Upload, StepOf(x) # 0
                 PROVE  Last(i - 1, x.by, StepOf(x) - 1)'
    BY <1>2 DEF Chain, StepOf
  <2>3. raw_queue[i + 1] = x /\ i + 1 \in 1 .. l /\ i \in 1 .. l /\ (i + 1) - 1 = i
    BY <1>2, <2>1
  <2>4. Last((i + 1) - 1, x.by, StepOf(x) - 1)
    BY <1>2, <2>1, <2>3 DEF Chain
  <2>5. QED
    BY <1>2, <2>3, <2>4
<1>4. Reached'
  <2>1. UNCHANGED page
    BY HandleStep
  <2>2. SUFFICES ASSUME NEW o \in Ops, Speaks(o)
                 PROVE  Last(Len(raw_queue), o, At(o))'
    BY <2>1 DEF Reached, Speaks, page
  <2>3. PICK k : k = At(o)
    OBVIOUS
  <2>4. At(o)' = k
    BY <2>1, <2>3 DEF At, page
  <2>5. Last(l, o, k) /\ l \in 1 .. l
    BY <1>1, <1>2, <2>2, <2>3 DEF Reached
  <2>6. Last(l - 1, o, k)'
    BY <1>2, <2>5
  <2>7. QED
    BY <1>2, <2>4, <2>6
<1>5. QED
  BY <1>3, <1>4

\* Requests that join the queue: an upload's follow its last one.
LEMMA JoinChain ==
  ASSUME QueueOK, Chain, NEW r \in Req, raw_queue' = Append(raw_queue, r), stage' = stage,
         r.sub \in Upload /\ StepOf(r) # 0 => Last(Len(raw_queue), r.by, StepOf(r) - 1)
  PROVE  Chain'
<1>1. PICK l : l = Len(raw_queue)
  OBVIOUS
<1>2. /\ l \in Nat
      /\ DOMAIN raw_queue' = 1 .. l + 1 /\ DOMAIN raw_queue = 1 .. l
      /\ raw_queue'[l + 1] = r
      /\ \A i \in 1 .. l : raw_queue'[i] = raw_queue[i]
      /\ \A o, k : \A n \in 0 .. l : Last(n, o, k) => Last(n, o, k)'
  BY <1>1, LastGrows
<1>3. SUFFICES ASSUME NEW i \in 1 .. l + 1, NEW x, x = raw_queue'[i], x.sub \in Upload, StepOf(x) # 0
               PROVE  Last(i - 1, x.by, StepOf(x) - 1)'
  BY <1>2 DEF Chain, StepOf
<1>4. Last(i - 1, x.by, StepOf(x) - 1)
  <2>1. CASE i = l + 1
    <3>1. x = r /\ i - 1 = l
      BY <1>2, <1>3, <2>1
    <3>2. QED
      BY <1>1, <1>3, <3>1
  <2>2. CASE i # l + 1
    <3>1. i \in 1 .. l /\ x = raw_queue[i]
      BY <1>2, <1>3, <2>2
    <3>2. QED
      BY <1>2, <1>3, <3>1 DEF Chain
  <2>3. QED
    BY <2>1, <2>2
<1>5. i - 1 \in 0 .. l
  BY <1>2
<1>6. QED
  BY <1>2, <1>4, <1>5

LEMMA SubOfUpload ==
  ASSUME NEW p, SubOf(p) \in Upload
  PROVE  p = SubOf(p)
BY DEF SubOf, Upload

LEMMA AskChain ==
  ASSUME PageOK, PageOK', QueueOK, Chain, Reached, stage' = stage,
         NEW c \in Cos, Starts(c) \/ Goes(c), Len(raw_queue) < HID_RAW_QUEUE_MAX
  PROVE  Chain' /\ Reached'
<1>1. PICK r \in Req : Sends(c, r) /\ (pc'[c] \in Upload => StepOf(r) = At(c)' /\ r.sub = pc'[c])
  BY DEF Starts, Goes
<1>2. PICK l : l = Len(raw_queue)
  OBVIOUS
<1>3. raw_queue' = Append(raw_queue, r) /\ r.by = c /\ pending' = [by |-> c, sub |-> r.sub]
  BY <1>1 DEF Sends, Received
<1>4. pending' # None
  <2>1. r.sub # "VIA"
    <3>1. c # "via"
      BY Names
    <3>2. QED
      BY <1>3, <3>1 DEF Req
  <2>2. [by |-> c, sub |-> r.sub] \in [by : Cos, sub : Subs]
    BY <2>1 DEF Req
  <2>3. QED
    BY <1>3, <2>2, NoneAssumption
<1>5. r.sub \in Upload => pc'[c] = r.sub
  <2>1. r.sub = SubOf(pc'[c])
    BY <1>3, <1>4 DEF PageOK
  <2>2. QED
    BY <2>1, SubOfUpload
<1>6. PICK k : k = At(c)
  OBVIOUS
<1>7. r.sub \in Upload /\ StepOf(r) # 0 => Last(Len(raw_queue), r.by, StepOf(r) - 1)
  <2>1. SUFFICES ASSUME r.sub \in Upload, StepOf(r) # 0
                 PROVE  Last(Len(raw_queue), r.by, StepOf(r) - 1)
    OBVIOUS
  <2>2. pc'[c] = r.sub /\ StepOf(r) = At(c)' /\ c \in Ops
    BY <1>1, <1>3, <1>5, <2>1 DEF Req
  <2>3. Goes(c)
    BY <2>1, <2>2 DEF Starts, StepOf
  <2>4. pc[c] \in Upload /\ At(c)' = k + 1 /\ pending # None /\ pending.by = c
    BY <1>6, <2>1, <2>2, <2>3 DEF Goes
  <2>5. k \in 0 .. CHUNKS + 1 /\ StepOf(r) = k + 1
    BY <1>6, <2>2, <2>4, Steps
  <2>6. StepOf(r) - 1 = k
    BY <2>5
  <2>7. QED
    BY <1>3, <1>6, <2>2, <2>4, <2>6 DEF Reached, Speaks
<1>8. Chain'
  BY <1>3, <1>7, JoinChain
<1>9. Reached'
  <2>1. SUFFICES ASSUME NEW o \in Ops, Speaks(o)'
                 PROVE  Last(Len(raw_queue), o, At(o))'
    BY DEF Reached
  <2>2. o = c /\ pc'[c] \in Upload
    BY <1>3, <2>1 DEF Speaks
  <2>3. PICK s : s = StepOf(r)
    OBVIOUS
  <2>4. At(o)' = s /\ Is(r, o, s)
    BY <1>1, <1>3, <2>2, <2>3 DEF Is
  <2>5. Len(raw_queue') = l + 1 /\ Last(l + 1, o, s)'
    BY <1>2, <1>3, <2>4, LastGrows
  <2>6. QED
    BY <2>4, <2>5
<1>10. QED
  BY <1>8, <1>9

LEMMA StayChain ==
  ASSUME Chain, Reached, stage' = stage, Stays \/ \E c \in Cos : Stops(c)
  PROVE  Chain' /\ Reached'
<1>1. raw_queue' = raw_queue
  BY DEF Stays, Stops
<1>2. \A n, o, k : Last(n, o, k)' <=> Last(n, o, k)
  BY <1>1 DEF Last, Is, StepOf, StageAt
<1>3. Chain'
  BY <1>1, <1>2 DEF Chain, StepOf
<1>4. Reached'
  <2>1. SUFFICES ASSUME NEW o \in Ops, Speaks(o)'
                 PROVE  Last(Len(raw_queue), o, At(o))'
    BY DEF Reached
  <2>2. Stays
    BY <2>1 DEF Speaks, Stops
  <2>3. PICK k, l : k = At(o) /\ l = Len(raw_queue)
    OBVIOUS
  <2>4. Speaks(o) /\ At(o)' = k /\ Len(raw_queue') = l
    BY <1>1, <2>1, <2>2, <2>3 DEF Speaks, Stays
  <2>5. Last(l, o, k)'
    BY <1>2, <2>3, <2>4 DEF Reached
  <2>6. QED
    BY <2>4, <2>5
<1>5. QED
  BY <1>3, <1>4

LEMMA ViaChain ==
  ASSUME QueueOK, Chain, Reached, ViaSend, Len(raw_queue) < HID_RAW_QUEUE_MAX
  PROVE  Chain' /\ Reached'
<1>1. PICK r \in Req : /\ r.sub = "VIA" /\ raw_queue' = Received(r)
                       /\ UNCHANGED <<page, board>>
  BY ViaSendStep
<1>2. raw_queue' = Append(raw_queue, r) /\ r.sub \notin Upload /\ stage' = stage /\ UNCHANGED <<pending, pc, sent>>
  BY <1>1 DEF Received, Upload, page, board
<1>3. Chain'
  BY <1>2, JoinChain
<1>4. Reached'
  <2>1. SUFFICES ASSUME NEW o \in Ops, Speaks(o)'
                 PROVE  Last(Len(raw_queue), o, At(o))'
    BY DEF Reached
  <2>2. PICK k, l : k = At(o) /\ l = Len(raw_queue)
    OBVIOUS
  <2>3. Speaks(o) /\ At(o)' = k
    BY <1>2, <2>1, <2>2 DEF Speaks, At
  <2>4. Last(l, o, k)
    BY <2>2, <2>3 DEF Reached
  <2>5. Len(raw_queue') = l + 1 /\ Last(l + 1, o, k)'
    BY <1>2, <2>2, <2>4, LastGrows
  <2>6. QED
    BY <2>3, <2>5
<1>5. QED
  BY <1>3, <1>4

-----------------------------------------------------------------------------
(* Answers: one of another upload is read before it could be mistaken. *)

\* An answer that says that an upload is stored tells the truth, ...
Told ==
    /\ answer # None /\ answer.sub = "COMMIT" /\ answer.ok => answer.by \in done
    /\ ep # None /\ ep.sub = "COMMIT" /\ ep.ok => ep.by \in done

\* ... and an upload awaits the answer to its own end only when another's has
\* been read: those ahead of it are further from its end than the queue is long.
Behind ==
    \A o \in Ops : Speaks(o) =>
        /\ \A p \in DOMAIN raw_queue :
              raw_queue[p].sub = "COMMIT" /\ raw_queue[p].by # o => p + At(o) + 1 <= Len(raw_queue)
        /\ answer # None /\ answer.sub = "COMMIT" /\ answer.by # o => At(o) + 1 <= Len(raw_queue)
        /\ ep # None /\ ep.sub = "COMMIT" /\ ep.by # o => pc[o] # "COMMIT"

LEMMA AskBehind ==
  ASSUME PageOK, PageOK', QueueOK, Behind, answer' = answer,
         NEW c \in Cos, Len(raw_queue) < HID_RAW_QUEUE_MAX,
         \/ Starts(c) /\ ep' = ep
         \/ Goes(c) /\ (ep' = None \/ pc'[c] \notin Upload)
  PROVE  Behind'
<1>1. PICK r \in Req : Sends(c, r)
  BY DEF Starts, Goes
<1>2. PICK l : l = Len(raw_queue)
  OBVIOUS
<1>3. raw_queue' = Append(raw_queue, r) /\ r.by = c /\ pending' = [by |-> c, sub |-> r.sub]
  BY <1>1 DEF Sends, Received
<1>4. /\ l \in Nat /\ Len(raw_queue') = l + 1
      /\ DOMAIN raw_queue' = 1 .. l + 1 /\ DOMAIN raw_queue = 1 .. l
      /\ raw_queue'[l + 1] = r
      /\ \A i \in 1 .. l : raw_queue'[i] = raw_queue[i]
  BY <1>2, <1>3, Added, LenProperties DEF QueueOK
<1>5. SUFFICES ASSUME NEW o \in Ops, Speaks(o)',
                      NEW m, m = Len(raw_queue'), NEW h, h = At(o)'
               PROVE  /\ \A p \in DOMAIN raw_queue' :
                            raw_queue'[p].sub = "COMMIT" /\ raw_queue'[p].by # o => p + h + 1 <= m
                      /\ answer' # None /\ answer'.sub = "COMMIT" /\ answer'.by # o => h + 1 <= m
                      /\ ep' # None /\ ep'.sub = "COMMIT" /\ ep'.by # o => pc'[o] # "COMMIT"
  BY DEF Behind
<1>6. o = c /\ pc'[c] \in Upload /\ m = l + 1 /\ h \in 0 .. CHUNKS + 1 /\ CHUNKS \in Nat
  <2>1. At(o)' \in 0 .. CHUNKS + 1
    BY Names DEF PageOK, At
  <2>2. QED
    BY <1>3, <1>4, <1>5, <2>1, Names DEF Speaks
<1>7. CASE Starts(c)
  <2>1. pc'[c] = "BEGIN" /\ h = 0
    BY <1>5, <1>6, <1>7 DEF Starts, At
  <2>2. ASSUME NEW p \in 1 .. l + 1, raw_queue'[p].by # o
        PROVE  p + h + 1 <= m
    <3>1. p # l + 1
      BY <1>3, <1>4, <1>6, <2>2
    <3>2. QED
      BY <1>4, <1>6, <2>1, <3>1
  <2>3. h + 1 <= m
    BY <1>4, <1>6, <2>1
  <2>4. QED
    BY <1>4, <1>6, <2>1, <2>2, <2>3
<1>8. CASE Goes(c)
  <2>1. Speaks(o) /\ ep' = None
    BY <1>6, <1>8 DEF Goes, Speaks, Starts
  <2>2. PICK k \in 0 .. CHUNKS + 1 : k = At(o)
    BY Steps
  <2>3. h = k + 1
    BY <1>5, <1>6, <1>8, <2>2 DEF Goes
  <2>4. ASSUME NEW p \in 1 .. l + 1, raw_queue'[p].sub = "COMMIT", raw_queue'[p].by # o
        PROVE  p + h + 1 <= m
    <3>1. p \in 1 .. l /\ raw_queue[p].sub = "COMMIT" /\ raw_queue[p].by # o
      BY <1>3, <1>4, <1>6, <2>4
    <3>2. p + k + 1 <= l
      BY <1>2, <1>4, <2>1, <2>2, <3>1 DEF Behind
    <3>3. QED
      BY <1>4, <1>6, <2>3, <3>1, <3>2
  <2>5. ASSUME answer # None, answer.sub = "COMMIT", answer.by # o
        PROVE  h + 1 <= m
    <3>1. k + 1 <= l
      BY <1>2, <2>1, <2>2, <2>5 DEF Behind
    <3>2. QED
      BY <1>4, <1>6, <2>3, <3>1
  <2>6. QED
    BY <1>4, <2>1, <2>4, <2>5
<1>9. QED
  BY <1>7, <1>8

LEMMA StayBehind ==
  ASSUME PageOK, Behind, answer' \in {answer, None}, ep' \in {ep, None}, Stays \/ \E c \in Cos : Stops(c)
  PROVE  Behind'
<1>1. SUFFICES ASSUME NEW o \in Ops, Speaks(o)',
                      NEW m, m = Len(raw_queue'), NEW h, h = At(o)'
               PROVE  /\ \A p \in DOMAIN raw_queue' :
                            raw_queue'[p].sub = "COMMIT" /\ raw_queue'[p].by # o => p + h + 1 <= m
                      /\ answer' # None /\ answer'.sub = "COMMIT" /\ answer'.by # o => h + 1 <= m
                      /\ ep' # None /\ ep'.sub = "COMMIT" /\ ep'.by # o => pc'[o] # "COMMIT"
  BY DEF Behind
<1>2. Stays
  BY <1>1 DEF Speaks, Stops
<1>3. Speaks(o) /\ h = At(o) /\ raw_queue' = raw_queue /\ m = Len(raw_queue)
  BY <1>1, <1>2 DEF Stays, Speaks
<1>4. pc'[o] = "COMMIT" => pc[o] = "COMMIT"
  <2>1. SUFFICES ASSUME pc'[o] = "COMMIT"
                 PROVE  pc[o] = "COMMIT"
    OBVIOUS
  <2>2. CHUNKS + 1 = At(o) /\ pc[o] \in Upload
    BY <1>2, <2>1 DEF Stays, At, Upload
  <2>3. sent[o] \in 0 .. CHUNKS /\ CHUNKS \in Nat
    BY Names DEF PageOK
  <2>4. QED
    BY <2>2, <2>3 DEF At, Upload
<1>5. QED
  BY <1>1, <1>3, <1>4 DEF Behind

LEMMA ViaBehind ==
  ASSUME QueueOK, Behind, ViaSend, Len(raw_queue) < HID_RAW_QUEUE_MAX,
         \A o \in Ops : At(o) \in 0 .. CHUNKS + 1
  PROVE  Behind'
<1>1. PICK r \in Req : /\ r.sub = "VIA" /\ raw_queue' = Received(r)
                       /\ UNCHANGED <<page, board>>
  BY ViaSendStep
<1>2. raw_queue' = Append(raw_queue, r) /\ UNCHANGED <<pending, pc, sent, answer, ep>>
  BY <1>1 DEF Received, page, board
<1>3. PICK l : l = Len(raw_queue)
  OBVIOUS
<1>4. /\ l \in Nat /\ Len(raw_queue') = l + 1
      /\ DOMAIN raw_queue' = 1 .. l + 1 /\ DOMAIN raw_queue = 1 .. l
      /\ raw_queue'[l + 1] = r
      /\ \A i \in 1 .. l : raw_queue'[i] = raw_queue[i]
  BY <1>2, <1>3, Added, LenProperties DEF QueueOK
<1>5. SUFFICES ASSUME NEW o \in Ops, Speaks(o)',
                      NEW m, m = Len(raw_queue'), NEW h, h = At(o)'
               PROVE  /\ \A p \in DOMAIN raw_queue' :
                            raw_queue'[p].sub = "COMMIT" /\ raw_queue'[p].by # o => p + h + 1 <= m
                      /\ answer' # None /\ answer'.sub = "COMMIT" /\ answer'.by # o => h + 1 <= m
                      /\ ep' # None /\ ep'.sub = "COMMIT" /\ ep'.by # o => pc'[o] # "COMMIT"
  BY DEF Behind
<1>6. Speaks(o) /\ h = At(o) /\ h \in 0 .. CHUNKS + 1 /\ m = l + 1 /\ CHUNKS \in Nat
  BY <1>2, <1>4, <1>5, Names DEF Speaks, At
<1>7. ASSUME NEW p \in 1 .. l + 1, raw_queue'[p].sub = "COMMIT", raw_queue'[p].by # o
      PROVE  p + h + 1 <= m
  <2>1. p \in 1 .. l /\ raw_queue[p].sub = "COMMIT" /\ raw_queue[p].by # o
    BY <1>1, <1>4, <1>7
  <2>2. p + h + 1 <= l
    BY <1>3, <1>4, <1>6, <2>1 DEF Behind
  <2>3. QED
    BY <1>4, <1>6, <2>2
<1>8. ASSUME answer # None, answer.sub = "COMMIT", answer.by # o
      PROVE  h + 1 <= m
  <2>1. h + 1 <= l
    BY <1>3, <1>6, <1>8 DEF Behind
  <2>2. QED
    BY <1>4, <1>6, <2>1
<1>9. ep # None /\ ep.sub = "COMMIT" /\ ep.by # o => pc[o] # "COMMIT"
  BY <1>6 DEF Behind
<1>10. QED
  BY <1>2, <1>4, <1>7, <1>8, <1>9

LEMMA HandleBehind ==
  ASSUME PageOK, QueueOK, BoardOK, Behind, Handle
  PROVE  Behind'
<1>1. PICK l : l = Len(raw_queue)
  OBVIOUS
<1>2. /\ raw_queue # <<>> /\ raw_queue' = Tail(raw_queue) /\ answer' # None
      /\ answer'.by = Head(raw_queue).by /\ answer'.sub = Head(raw_queue).sub
      /\ UNCHANGED <<pending, pc, sent, ep>>
  BY HandleStep DEF page
<1>3. /\ l \in Nat /\ l >= 1 /\ Len(raw_queue') = l - 1
      /\ DOMAIN raw_queue = 1 .. l /\ DOMAIN raw_queue' = 1 .. l - 1
      /\ \A i \in 1 .. l - 1 : raw_queue'[i] = raw_queue[i + 1]
      /\ Head(raw_queue) = raw_queue[1]
  BY <1>1, <1>2, Removed, LenProperties DEF QueueOK
<1>4. SUFFICES ASSUME NEW o \in Ops, Speaks(o)',
                      NEW m, m = Len(raw_queue'), NEW h, h = At(o)'
               PROVE  /\ \A p \in DOMAIN raw_queue' :
                            raw_queue'[p].sub = "COMMIT" /\ raw_queue'[p].by # o => p + h + 1 <= m
                      /\ answer' # None /\ answer'.sub = "COMMIT" /\ answer'.by # o => h + 1 <= m
                      /\ ep' # None /\ ep'.sub = "COMMIT" /\ ep'.by # o => pc'[o] # "COMMIT"
  BY DEF Behind
<1>5. Speaks(o) /\ h = At(o) /\ h \in 0 .. CHUNKS + 1 /\ m = l - 1 /\ CHUNKS \in Nat
  BY <1>2, <1>3, <1>4, Steps, Names DEF Speaks, At
<1>6. \A q \in 1 .. l : raw_queue[q].sub = "COMMIT" /\ raw_queue[q].by # o => q + h + 1 <= l
  BY <1>1, <1>3, <1>5 DEF Behind
<1>7. ASSUME NEW p \in 1 .. l - 1, raw_queue'[p].sub = "COMMIT", raw_queue'[p].by # o
      PROVE  p + h + 1 <= m
  <2>1. p + 1 \in 1 .. l /\ raw_queue[p + 1].sub = "COMMIT" /\ raw_queue[p + 1].by # o
    BY <1>3, <1>7
  <2>2. (p + 1) + h + 1 <= l
    BY <1>6, <2>1
  <2>3. QED
    BY <1>3, <1>5, <2>2
<1>8. ASSUME answer'.sub = "COMMIT", answer'.by # o
      PROVE  h + 1 <= m
  <2>1. 1 \in 1 .. l /\ raw_queue[1].sub = "COMMIT" /\ raw_queue[1].by # o
    BY <1>2, <1>3, <1>8
  <2>2. 1 + h + 1 <= l
    BY <1>6, <2>1
  <2>3. QED
    BY <1>3, <1>5, <2>2
<1>9. ep # None /\ ep.sub = "COMMIT" /\ ep.by # o => pc[o] # "COMMIT"
  BY <1>5 DEF Behind
<1>10. QED
  BY <1>2, <1>3, <1>7, <1>8, <1>9

\* Another's COMMIT that goes out now was ahead of CHUNKS + 2 requests, for which
\* the queue has no room while a coroutine of the user has the turn.
LEMMA SendRawBehind ==
  ASSUME PageOK, QueueOK, BoardOK, Count, Few, Behind, SendRaw
  PROVE  Behind'
<1>1. /\ answer # None /\ answer' = None
      /\ ep' = IF ep = None THEN answer ELSE ep
      /\ UNCHANGED <<pending, pc, sent, raw_queue>>
  BY SendRawStep DEF page
<1>2. ASSUME NEW o \in Ops, Speaks(o), ep = None, answer.sub = "COMMIT", answer.by # o, pc[o] = "COMMIT"
      PROVE  FALSE
  <2> DEFINE U == Cardinality(UnderWay)
             L == Len(raw_queue)
             A == B(pc["attach"] # "idle")
             V == B(InFlight("via"))
  <2>1. At(o) = CHUNKS + 1
    BY <1>2 DEF At
  <2>2. CHUNKS + 1 + 1 <= L
    BY <1>1, <1>2, <2>1 DEF Behind
  <2>3. L + 1 + 0 <= U + A + 0 + V
    <3>1. pending.by # "poll"
      BY <1>2, Names DEF Speaks
    <3>2. Load = L + 1 + 0 /\ Tokens = U + A + 0 + V
      BY <1>1, <1>2, <3>1 DEF Load, Tokens, B
    <3>3. QED
      BY <3>2 DEF Count
  <2>4. U + 3 <= HID_RAW_QUEUE_MAX /\ HID_RAW_QUEUE_MAX <= CHUNKS + 3
    BY PiecesAssumption DEF Few
  <2>5. U \in Nat /\ L \in Nat /\ A \in 0 .. 1 /\ V \in 0 .. 1 /\ CHUNKS \in Nat /\ HID_RAW_QUEUE_MAX \in Nat
    BY Numbers, Names
  <2> HIDE DEF U, L, A, V
  <2>6. QED
    BY <2>2, <2>3, <2>4, <2>5
<1>3. \A o \in Ops : Speaks(o)' => Speaks(o) /\ At(o)' = At(o)
  BY <1>1 DEF Speaks, At
<1>4. \A o \in Ops : Speaks(o) /\ ep' # None /\ ep'.sub = "COMMIT" /\ ep'.by # o => pc[o] # "COMMIT"
  BY <1>1, <1>2 DEF Behind
<1>5. QED
  BY <1>1, <1>3, <1>4 DEF Behind

LEMMA HandleTold ==
  ASSUME QueueOK, BoardOK, Chain, Told, SavedIsWhole, Handle
  PROVE  Told' /\ SavedIsWhole' /\ done \subseteq done'
<1>1. PICK r : r = raw_queue[1]
  OBVIOUS
<1>2. /\ r = Head(raw_queue) /\ Execute(r) /\ ep' = ep /\ answer'.sub = r.sub /\ answer' # None
      /\ answer'.by = r.by
  BY <1>1, HandleStep, Removed DEF Handle, QueueOK
<1>3. r.sub = "COMMIT" => StageAt(r.by, CHUNKS)
  BY <1>1, StageMoves
<1>4. done \subseteq done'
  BY <1>2 DEF Execute, SlotBegin, SlotData, SlotCommit, SlotErase, SlotSelect, SlotRead, Other
<1>5. answer'.sub = "COMMIT" /\ answer'.ok => answer'.by \in done'
  BY <1>2 DEF Execute, SlotCommit, Query
<1>6. slot' = slot \/ slot' = None \/ (r.sub = "COMMIT" /\ slot' = stage)
  BY <1>2 DEF Execute, SlotBegin, SlotData, SlotCommit, SlotErase, SlotSelect, SlotRead, Other
<1>7. SavedIsWhole'
  <2>1. CASE slot' = slot
    BY <2>1 DEF SavedIsWhole
  <2>2. CASE slot' = None
    BY <2>2 DEF SavedIsWhole
  <2>3. CASE r.sub = "COMMIT" /\ slot' = stage
    <3>1. stage.by = r.by /\ stage.got = [i \in Chunks |-> IF i <= CHUNKS THEN r.by ELSE None]
      BY <1>3, <2>3 DEF StageAt
    <3>2. \A i \in Chunks : stage.got[i] = r.by
      BY <3>1, Names
    <3>3. QED
      BY <2>3, <3>1, <3>2 DEF SavedIsWhole
  <2>4. QED
    BY <1>6, <2>1, <2>2, <2>3
<1>8. QED
  BY <1>2, <1>4, <1>5, <1>7 DEF Told

\* Nothing else stores an upload, or answers.
LEMMA KeepTold ==
  ASSUME Told, SavedIsWhole, UNCHANGED <<slot, done>>, answer' \in {answer, None}, ep' \in {ep, answer, None}
  PROVE  Told' /\ SavedIsWhole'
<1>1. SavedIsWhole'
  BY DEF SavedIsWhole
<1>2. answer' # None /\ answer'.sub = "COMMIT" /\ answer'.ok => answer'.by \in done'
  BY DEF Told
<1>3. ep' # None /\ ep'.sub = "COMMIT" /\ ep'.ok => ep'.by \in done'
  BY DEF Told
<1>4. QED
  BY <1>1, <1>2, <1>3 DEF Told

-----------------------------------------------------------------------------
(* What the page reports. *)

Reports(o) == pc[o] \in {"pin", "finish", "finishing", "done"} /\ sent[o] = CHUNKS

\* A coroutine that reports its upload as saved did so before, or reads a COMMIT
\* that was carried out.
NewReport(c, a) == pc[c] = "COMMIT" /\ a.ok

LEMMA OpReports ==
  ASSUME PageOK, NEW c \in Ops, NEW a, OpGoesOn(c, a)
  PROVE  \A o \in Ops : Reports(o)' => Reports(o) \/ (o = c /\ NewReport(c, a))
<1>1. /\ pc \in [Cos -> Query \cup OpPcs \cup {"sleep"}] /\ c \in Cos /\ sent \in [Ops -> 0 .. CHUNKS]
      /\ pc[c] \in {"ERASE", "SELECT", "READ"} => sent[c] # CHUNKS
      /\ Ops \subseteq Cos
  BY Names DEF PageOK
<1>2. CASE /\ pc[c] \in {"BEGIN", "DATA"} /\ a.ok
           /\ LET s == NextSub(c, pc[c])
                  n == sent[c] + (IF s = "DATA" THEN 1 ELSE 0)
              IN  /\ sendReport(c, s, n)
                  /\ sent' = [sent EXCEPT ![c] = n]
                  /\ pc' = [pc EXCEPT ![c] = s]
                  /\ UNCHANGED <<device, busy>>
  <2>1. PICK s, n : s = NextSub(c, pc[c]) /\ sent' = [sent EXCEPT ![c] = n] /\ pc' = [pc EXCEPT ![c] = s]
    BY <1>2
  <2>2. s \in {"DATA", "COMMIT"}
    BY <2>1 DEF NextSub
  <2>3. QED
    BY <1>1, <2>1, <2>2 DEF Reports
<1>3. CASE /\ pc[c] = "COMMIT" /\ a.ok
           /\ sendReport(c, "SELECT", 0)
           /\ pc' = [pc EXCEPT ![c] = "pin"]
           /\ UNCHANGED <<device, sent, busy>>
  BY <1>1, <1>3 DEF Reports, NewReport
<1>4. CASE pc[c] \in {"COMMIT", "ERASE", "SELECT"} /\ a.ok /\ Finish(c)
  BY <1>1, <1>4 DEF Reports, NewReport, Finish
<1>5. CASE pc[c] = "pin" /\ Finish(c)
  BY <1>1, <1>5 DEF Reports, Finish
<1>6. CASE pc[c] \in Subs \ {"READ"} /\ ~a.ok /\ Recover(c)
  BY <1>1, <1>6 DEF Reports, Recover
<1>7. CASE /\ pc[c] \in {"finish", "recover"}
           /\ sendReport(c, "SLOT_INFO", 0)
           /\ pc' = [pc EXCEPT ![c] = IF @ = "finish" THEN "finishing" ELSE "recovering"]
           /\ UNCHANGED <<device, sent, busy>>
  BY <1>1, <1>7 DEF Reports
<1>8. CASE pc[c] \in {"finishing", "recovering"} /\ Loaded(c)
  BY <1>1, <1>8 DEF Reports, Loaded
<1>9. CASE pc[c] = "READ" /\ UNCHANGED <<pc, sent>>
  BY <1>9 DEF Reports
<1>10. CASE pc[c] = "READ" /\ ReadEnds(c)
  BY <1>1, <1>10 DEF Reports, ReadEnds
<1>11. QED
  BY <1>2, <1>3, <1>4, <1>5, <1>6, <1>7, <1>8, <1>9, <1>10 DEF OpGoesOn

LEMMA ActsReport ==
  ASSUME PageOK, Acts \/ UNCHANGED page
  PROVE  \A o \in Ops : Reports(o)' => Reports(o)
<1>1. /\ pc \in [Cos -> Query \cup OpPcs \cup {"sleep"}] /\ sent \in [Ops -> 0 .. CHUNKS]
      /\ \A o \in Ops : o \in Cos /\ o # "poll" /\ o # "attach"
  BY Names DEF PageOK
<1>2. CASE Poll
  BY <1>1, <1>2 DEF Poll, Reports
<1>3. CASE PollEnds
  BY <1>1, <1>3 DEF PollEnds, Reports
<1>4. CASE Visibility \/ UNCHANGED page
  BY <1>4 DEF Visibility, page, Reports
<1>5. CASE Attach
  BY <1>1, <1>5 DEF Attach, Reports
<1>6. ASSUME NEW q \in Ops, Click(q)
      PROVE  \A o \in Ops : Reports(o)' => Reports(o)
  <2>1. PICK x \in Kinds : pc' = [pc EXCEPT ![q] = x] /\ sent' = sent
    BY <1>6 DEF Click
  <2>2. x \notin {"pin", "finish", "finishing", "done"}
    BY DEF Kinds
  <2>3. QED
    BY <1>1, <2>1, <2>2 DEF Reports
<1>7. ASSUME NEW q \in Ops, Begin(q)
      PROVE  \A o \in Ops : Reports(o)' => Reports(o)
  <2>1. PICK x \in {"BEGIN", "ERASE", "SELECT", "READ"} : pc' = [pc EXCEPT ![q] = x] /\ sent' = sent
    BY <1>7 DEF Begin, Kinds
  <2>2. QED
    BY <1>1, <2>1 DEF Reports
<1>8. ASSUME NEW c \in Cos, Timeout(c)
      PROVE  \A o \in Ops : Reports(o)' => Reports(o)
  <2>1. sent' = sent
    BY <1>8 DEF Timeout, AttachEnds, Loaded, ReadEnds, Finish, Recover
  <2> SUFFICES ASSUME ~(pc[c] = "READ" /\ ReadEnds(c))
               PROVE  \A o \in Ops : Reports(o)' => Reports(o)
    <3>1. ASSUME pc[c] = "READ", ReadEnds(c)
          PROVE  \A o \in Ops : Reports(o)' => Reports(o)
      <4>1. c \in Ops => sent[c] # CHUNKS
        BY <3>1, Names DEF PageOK
      <4>2. QED
        BY <1>1, <3>1, <4>1 DEF ReadEnds, Reports
    <3>2. QED
      BY <3>1
  <2>2. \A o \in Ops : pc'[o] \in {"pin", "finish", "finishing", "done"} =>
                          pc[o] \in {"pin", "finish", "finishing", "done"}
    <3>1. CASE c = "poll" /\ pc' = [pc EXCEPT ![c] = "sleep"]
      BY <1>1, <3>1
    <3>2. CASE pc' = [pc EXCEPT ![c] = "idle"]
      BY <1>1, <3>2
    <3>3. CASE AttachEnds
      BY <1>1, <3>3 DEF AttachEnds
    <3>4. CASE /\ pc[c] \in {"finish", "recover"}
               /\ pc' = [pc EXCEPT ![c] = IF @ = "finish" THEN "done" ELSE "failed"]
      BY <1>1, <3>4
    <3>5. CASE pc[c] \in {"finishing", "recovering"} /\ Loaded(c)
      BY <1>1, <3>5 DEF Loaded
    <3>6. CASE pc[c] = "pin" /\ Finish(c)
      BY <1>1, <3>6 DEF Finish
    <3>7. CASE Recover(c)
      BY <1>1, <3>7 DEF Recover
    <3>8. QED
      BY <1>8, <3>1, <3>2, <3>3, <3>4, <3>5, <3>6, <3>7 DEF Timeout
  <2>3. QED
    BY <2>1, <2>2 DEF Reports
<1>9. QED
  BY <1>2, <1>3, <1>4, <1>5, <1>6, <1>7, <1>8 DEF Acts

LEMMA ReadReports ==
  ASSUME PageOK, BoardOK, Told, Behind, Read, NoFalseSuccess
  PROVE  NoFalseSuccess'
<1>1. done' = done
  BY DEF Read
<1>2. CASE UNCHANGED page
  BY <1>1, <1>2, ActsReport DEF NoFalseSuccess, Reports
<1>3. CASE pending.by = "poll" /\ PollGoesOn /\ sent' = sent
  <2>1. \A o \in Ops : pc'[o] = pc[o]
    BY <1>3, Names DEF PollGoesOn, PageOK
  <2>2. QED
    BY <1>1, <1>3, <2>1 DEF NoFalseSuccess
<1>4. CASE pending.by = "attach" /\ AttachGoesOn /\ sent' = sent
  <2>1. \A o \in Ops : pc'[o] = pc[o]
    BY <1>4, Names DEF AttachGoesOn, AttachEnds, PageOK
  <2>2. QED
    BY <1>1, <1>4, <2>1 DEF NoFalseSuccess
<1>5. ASSUME NEW c \in Ops, c = pending.by, OpGoesOn(c, ep), Wanted(ep), ep # None
      PROVE  NoFalseSuccess'
  <2>1. NewReport(c, ep) => c \in done
    <3>1. SUFFICES ASSUME pc[c] = "COMMIT", ep.ok
                   PROVE  c \in done
      BY DEF NewReport
    <3>2. Speaks(c) /\ ep.sub = "COMMIT"
      BY <1>5, <3>1 DEF Wanted, Speaks, Upload, PageOK, SubOf
    <3>3. ep.by = c
      BY <1>5, <3>1, <3>2 DEF Behind
    <3>4. QED
      BY <1>5, <3>1, <3>2, <3>3 DEF Told
  <2>2. \A o \in Ops : Reports(o)' => Reports(o) \/ (o = c /\ NewReport(c, ep))
    BY <1>5, OpReports
  <2>3. QED
    BY <1>1, <2>1, <2>2 DEF NoFalseSuccess, Reports
<1>6. QED
  BY <1>2, <1>3, <1>4, <1>5 DEF Read

-----------------------------------------------------------------------------
(* The theorems. *)

Types == PageOK /\ QueueOK /\ BoardOK

LEMMA TypesInit == Init => Types
<1>1. SUFFICES ASSUME Init PROVE Types
  OBVIOUS
<1>2. PageOK
  <2>1. pc = [c \in Cos |-> IF c = "poll" THEN "sleep" ELSE "idle"] /\ sent = [o \in Ops |-> 0]
        /\ pending = None /\ device = TRUE /\ busy = FALSE /\ paused = FALSE
    BY <1>1 DEF Init
  <2>2. /\ \A o \in Ops : pc[o] = "idle" /\ sent[o] = 0
        /\ pc["poll"] = "sleep" /\ pc["attach"] = "idle" /\ "idle" \in OpPcs
    BY <2>1, Names DEF OpPcs
  <2>3. pc \in [Cos -> Query \cup OpPcs \cup {"sleep"}]
    BY <2>1 DEF OpPcs
  <2>4. sent \in [Ops -> 0 .. CHUNKS]
    BY <2>1, Names
  <2>5. QED
    BY <2>1, <2>2, <2>3, <2>4 DEF PageOK
<1>3. QueueOK
  BY <1>1, Names, EmptySeq, LenProperties DEF Init, QueueOK
<1>4. BoardOK
  BY <1>1 DEF Init, BoardOK, Free, Stage
<1>5. QED
  BY <1>2, <1>3, <1>4 DEF Types

LEMMA NextCases ==
  ASSUME [Next]_vars
  PROVE  Acts \/ Read \/ ViaSend \/ Handle \/ SendRaw \/ Loops \/ UNCHANGED vars
BY DEF Next, Acts, Loops

LEMMA TypesStep ==
  ASSUME Types, [Next]_vars
  PROVE  Types'
<1>1. CASE Acts
  <2>1. PageOK' /\ ActStep
    BY <1>1, ActsStep DEF Types
  <2>2. UNCHANGED board
    BY <2>1 DEF ActStep
  <2>3. QED
    BY <2>1, <2>2, PageQueue DEF Types, BoardOK, board, turn
<1>2. CASE Read
  <2>1. PageOK' /\ ReadsAnswer
    BY <1>2, ReadStep DEF Types
  <2>2. QED
    BY <2>1, PageQueue DEF Types, BoardOK, ReadsAnswer, turn
<1>3. CASE ViaSend
  BY <1>3, ViaSendStep DEF Types, PageOK, BoardOK, page, board, turn
<1>4. CASE Handle
  BY <1>4, HandleStep DEF Types, PageOK, page
<1>5. CASE SendRaw
  BY <1>5, SendRawStep DEF Types, PageOK, QueueOK, page
<1>6. CASE Loops
  BY <1>6, LoopStep DEF Types, PageOK, QueueOK, page
<1>7. CASE UNCHANGED vars
  BY <1>7 DEF Types, PageOK, QueueOK, BoardOK, vars, page, board, turn
<1>8. QED
  BY <1>1, <1>2, <1>3, <1>4, <1>5, <1>6, <1>7, NextCases

LEMMA TypesGood == Types => TypeOK
<1>1. SUFFICES ASSUME Types PROVE TypeOK
  OBVIOUS
<1>2. \A c \in Cos : pc[c] \in Subs \cup Kinds \cup {"idle", "sleep", "pin", "finish", "finishing",
                                          "recover", "recovering", "done", "failed"}
  BY <1>1 DEF Types, PageOK, Query, OpPcs, Subs, Upload, Ends
<1>3. \A i \in DOMAIN raw_queue : raw_queue[i].by \in Cos \cup {"via"}
  BY <1>1, LenProperties DEF Types, QueueOK, Req
<1>4. QED
  BY <1>1, <1>2, <1>3 DEF Types, TypeOK, PageOK, QueueOK, BoardOK, AnswerOK

\* What is true of every state while there are few actions under way.
Whole ==
    /\ Types /\ Count
    /\ Chain /\ Reached
    /\ Told /\ Behind
    /\ SavedIsWhole /\ NoFalseSuccess

LEMMA WholeInit == Init => Whole
<1>1. SUFFICES ASSUME Init PROVE Whole
  OBVIOUS
<1>2. /\ pc = [c \in Cos |-> IF c = "poll" THEN "sleep" ELSE "idle"]
      /\ raw_queue = <<>> /\ answer = None /\ ep = None /\ pending = None /\ slot = None
  BY <1>1 DEF Init
<1>3. Types
  BY <1>1, TypesInit
<1>4. \A o \in Ops : pc[o] = "idle"
  BY <1>2, Names
<1>5. Count
  <2>1. UnderWay = {}
    BY <1>4 DEF UnderWay, Resting
  <2>2. IsFiniteSet(UnderWay) /\ Cardinality(UnderWay) = 0
    BY <2>1, FS_EmptySet
  <2>3. pc["attach"] = "idle"
    BY <1>2, Names
  <2>4. ~InFlight("via")
    BY <1>2 DEF InFlight
  <2>5. Load = 0 /\ Tokens = 0
    BY <1>2, <2>2, <2>3, <2>4 DEF Load, Tokens, B
  <2>6. QED
    BY <1>2, <2>2, <2>5 DEF Count
<1>6. Chain /\ Reached /\ Told /\ Behind
  BY <1>2 DEF Chain, Reached, Told, Behind, Speaks
<1>7. SavedIsWhole /\ NoFalseSuccess
  BY <1>2, <1>4 DEF SavedIsWhole, NoFalseSuccess
<1>8. QED
  BY <1>3, <1>5, <1>6, <1>7 DEF Whole

LEMMA ActsWhole ==
  ASSUME Whole, Few, Few', Acts
  PROVE  Whole'
<1>1. /\ PageOK /\ QueueOK /\ BoardOK /\ Count /\ Chain /\ Reached /\ Told /\ Behind
      /\ SavedIsWhole /\ NoFalseSuccess
  BY DEF Whole, Types
<1>2. PageOK' /\ ActStep
  BY <1>1, ActsStep
<1>3. UNCHANGED <<answer, ep, stage, slot, done>>
  BY <1>2 DEF ActStep, board
<1>4. Types'
  BY TypesStep DEF Whole, Next, Acts
<1>5. Count' /\ Chain' /\ Reached' /\ Behind'
  <2>1. CASE Stays
    BY <1>1, <1>3, <2>1, StayCount, StayChain, StayBehind
  <2>2. ASSUME NEW c \in Cos, Starts(c)
        PROVE  Count' /\ Chain' /\ Reached' /\ Behind'
    <3>1. Len(raw_queue) < HID_RAW_QUEUE_MAX /\ Count'
      BY <1>1, <1>2, <1>3, <2>2, SendCount
    <3>2. QED
      BY <1>1, <1>2, <1>3, <2>2, <3>1, AskChain, AskBehind
  <2>3. ASSUME NEW c \in Cos, ~InFlight(c), Stops(c)
        PROVE  Count' /\ Chain' /\ Reached' /\ Behind'
    BY <1>1, <1>3, <2>3, StopCount, StayChain, StayBehind
  <2>4. ASSUME NEW c \in Cos, ~InFlight(c), Goes(c), pc'[c] \notin Upload
        PROVE  Count' /\ Chain' /\ Reached' /\ Behind'
    <3>1. Len(raw_queue) < HID_RAW_QUEUE_MAX /\ Count'
      BY <1>1, <1>2, <1>3, <2>4, SendCount
    <3>2. QED
      BY <1>1, <1>2, <1>3, <2>4, <3>1, AskChain, AskBehind
  <2>5. QED
    BY <1>2, <2>1, <2>2, <2>3, <2>4 DEF ActStep
<1>6. Told' /\ SavedIsWhole'
  BY <1>1, <1>3, KeepTold
<1>7. NoFalseSuccess'
  BY <1>1, <1>3, ActsReport DEF NoFalseSuccess, Reports
<1>8. QED
  BY <1>4, <1>5, <1>6, <1>7 DEF Whole

LEMMA ReadWhole ==
  ASSUME Whole, Few, Few', Read
  PROVE  Whole'
<1>1. /\ PageOK /\ QueueOK /\ BoardOK /\ Count /\ Chain /\ Reached /\ Told /\ Behind
      /\ SavedIsWhole /\ NoFalseSuccess
  BY DEF Whole, Types
<1>2. PageOK' /\ ReadsAnswer
  BY <1>1, ReadStep
<1>3. ep # None /\ ep' = None /\ UNCHANGED <<answer, stage, slot, done>>
  BY <1>2 DEF ReadsAnswer
<1>4. Types'
  BY TypesStep DEF Whole, Next
<1>5. Count' /\ Chain' /\ Reached' /\ Behind'
  <2>1. CASE Stays
    BY <1>1, <1>3, <2>1, StayCount, StayChain, StayBehind
  <2>2. ASSUME NEW c \in Cos, ep.by # "via", Stops(c)
        PROVE  Count' /\ Chain' /\ Reached' /\ Behind'
    BY <1>1, <1>3, <2>2, StopCount, StayChain, StayBehind
  <2>3. ASSUME NEW c \in Cos, ep.by # "via", Goes(c)
        PROVE  Count' /\ Chain' /\ Reached' /\ Behind'
    <3>1. Len(raw_queue) < HID_RAW_QUEUE_MAX /\ Count'
      BY <1>1, <1>2, <1>3, <2>3, SendCount
    <3>2. QED
      BY <1>1, <1>2, <1>3, <2>3, <3>1, AskChain, AskBehind
  <2>4. QED
    BY <1>2, <2>1, <2>2, <2>3 DEF ReadsAnswer
<1>6. Told' /\ SavedIsWhole'
  BY <1>1, <1>3, KeepTold
<1>7. NoFalseSuccess'
  BY <1>1, ReadReports
<1>8. QED
  BY <1>4, <1>5, <1>6, <1>7 DEF Whole

LEMMA BoardWhole ==
  ASSUME Whole, Few, Handle \/ SendRaw \/ Loops \/ UNCHANGED vars
  PROVE  Whole'
<1>1. /\ PageOK /\ QueueOK /\ BoardOK /\ Count /\ Chain /\ Reached /\ Told /\ Behind
      /\ SavedIsWhole /\ NoFalseSuccess
  BY DEF Whole, Types
<1>2. Types'
  BY TypesStep DEF Whole, Next, Loops
<1>3. UNCHANGED page
  BY <1>1, HandleStep, SendRawStep, LoopStep DEF vars
<1>4. \A o \in Ops : Reports(o)' => Reports(o)
  BY <1>1, <1>3, ActsReport
<1>5. CASE Handle
  <2>1. Told' /\ SavedIsWhole' /\ done \subseteq done'
    BY <1>1, <1>5, HandleTold
  <2>2. NoFalseSuccess'
    BY <1>1, <1>4, <2>1 DEF NoFalseSuccess, Reports
  <2>3. QED
    BY <1>1, <1>2, <1>5, <2>1, <2>2, HandleCount, HandleChain, HandleBehind DEF Whole
<1>6. CASE ~Handle
  <2>1. /\ UNCHANGED <<raw_queue, stage, slot, done>>
        /\ answer' \in {answer, None} /\ ep' \in {ep, answer, None}
        /\ UNCHANGED <<answer, ep>> \/ SendRaw
    BY <1>1, <1>6, SendRawStep, LoopStep DEF vars, board
  <2>2. Stays
    BY <1>3, <2>1 DEF Stays, page, UnderWay, At
  <2>3. Told' /\ SavedIsWhole'
    BY <1>1, <2>1, KeepTold
  <2>4. NoFalseSuccess'
    BY <1>1, <1>4, <2>1 DEF NoFalseSuccess, Reports
  <2>5. Chain' /\ Reached'
    BY <1>1, <2>1, <2>2, StayChain
  <2>6. Count' /\ Behind'
    <3>1. CASE SendRaw
      BY <1>1, <3>1, SendRawCount, SendRawBehind
    <3>2. CASE UNCHANGED <<answer, ep>>
      BY <1>1, <2>2, <3>2, StayCount, StayBehind
    <3>3. QED
      BY <2>1, <3>1, <3>2
  <2>7. QED
    BY <1>2, <2>3, <2>4, <2>5, <2>6 DEF Whole
<1>7. QED
  BY <1>5, <1>6

LEMMA WholeStep ==
  ASSUME Whole, Few, Few', [Next]_vars
  PROVE  Whole'
<1>1. CASE ViaSend
  <2>1. /\ PageOK /\ QueueOK /\ BoardOK /\ Count /\ Chain /\ Reached /\ Told /\ Behind
        /\ SavedIsWhole /\ NoFalseSuccess
    BY DEF Whole, Types
  <2>2. Types'
    BY <1>1, TypesStep DEF Whole, Next
  <2>3. UNCHANGED page /\ UNCHANGED <<answer, ep, slot, done>>
    BY <1>1, <2>1, ViaSendStep DEF board
  <2>4. Len(raw_queue) < HID_RAW_QUEUE_MAX /\ Count'
    BY <1>1, <2>1, ViaSendCount
  <2>5. Chain' /\ Reached'
    BY <1>1, <2>1, <2>4, ViaChain
  <2>6. Behind'
    BY <1>1, <2>1, <2>4, ViaBehind, Steps
  <2>7. Told' /\ SavedIsWhole'
    BY <2>1, <2>3, KeepTold
  <2>8. NoFalseSuccess'
    BY <2>1, <2>3, ActsReport DEF NoFalseSuccess, Reports
  <2>9. QED
    BY <2>2, <2>4, <2>5, <2>6, <2>7, <2>8 DEF Whole
<1>2. QED
  BY <1>1, ActsWhole, ReadWhole, BoardWhole, NextCases

(* Every variable of the page and of the board keeps its type, and the raw *)
(* queue its size, whatever the user, the timers and VIA do.               *)
THEOREM TypeCorrect == Spec => []TypeOK
<1>1. Init => Types
  BY TypesInit
<1>2. Types /\ [Next]_vars => Types'
  BY TypesStep
<1>3. Types => TypeOK
  BY TypesGood
<1>4. QED
  BY <1>1, <1>2, <1>3, PTL DEF Spec

LEMMA WholeInvariant == Spec /\ []Few => []Whole
<1>1. Init => Whole
  BY WholeInit
<1>2. Whole /\ Few /\ Few' /\ [Next]_vars => Whole'
  BY WholeStep
<1>3. QED
  BY <1>1, <1>2, PTL DEF Spec

(* While there are no more actions under way than Few allows, a layout that *)
(* linkCmdHandle has stored has every piece of the upload that it is stored *)
(* under, and none of another.                                              *)
THEOREM SavedIsWholeHolds == Spec /\ []Few => []SavedIsWhole
<1>1. Whole => SavedIsWhole
  BY DEF Whole
<1>2. QED
  BY <1>1, WholeInvariant, PTL

(* Then, too, an upload that saveSlot reports as saved has been stored: the *)
(* answer it has taken for its own was its own, although the page tells     *)
(* answers apart by their sub-command alone.                                *)
THEOREM NoFalseSuccessHolds == Spec /\ []Few => []NoFalseSuccess
<1>1. Whole => NoFalseSuccess
  BY DEF Whole
<1>2. QED
  BY <1>1, WholeInvariant, PTL

LEMMA AskFindsRoom ==
  ASSUME Whole, Few, Few', [Next]_vars, pending' # pending, pending' # None
  PROVE  \E i \in DOMAIN raw_queue' :
            raw_queue'[i].by = pending'.by /\ raw_queue'[i].sub = pending'.sub
<1>1. PageOK /\ QueueOK /\ BoardOK /\ Count
  BY DEF Whole, Types
<1>2. PageOK'
  BY TypesStep DEF Whole, Types
<1>3. PICK c \in Cos :
          \/ Starts(c) /\ UNCHANGED <<answer, ep>>
          \/ Goes(c) /\ UNCHANGED <<answer, ep>> /\ ~InFlight(c)
          \/ Goes(c) /\ ep # None /\ ep' = None /\ answer' = answer /\ ep.by # "via"
  <2>1. CASE Acts
    BY <1>1, <2>1, ActsStep DEF ActStep, Stays, Stops, board
  <2>2. CASE Read
    BY <1>1, <2>2, ReadStep DEF ReadsAnswer, Stays, Stops
  <2>3. CASE ~Acts /\ ~Read
    <3>1. UNCHANGED page
      BY <1>1, <2>3, NextCases, ViaSendStep, HandleStep, SendRawStep, LoopStep DEF vars
    <3>2. QED
      BY <3>1 DEF page
  <2>4. QED
    BY <2>1, <2>2, <2>3
<1>4. Len(raw_queue) < HID_RAW_QUEUE_MAX
  BY <1>1, <1>2, <1>3, SendCount
<1>5. PICK r \in Req : Sends(c, r)
  BY <1>3 DEF Starts, Goes
<1>6. raw_queue' = Append(raw_queue, r) /\ r.by = c /\ pending' = [by |-> c, sub |-> r.sub]
  BY <1>4, <1>5 DEF Sends, Received
<1>7. /\ Len(raw_queue) + 1 \in DOMAIN raw_queue'
      /\ raw_queue'[Len(raw_queue) + 1] = r
  BY <1>1, <1>6, Added, LenProperties DEF QueueOK
<1>8. QED
  BY <1>6, <1>7

(* And every request that sendReport awaits an answer to is put into the    *)
(* raw queue: tud_hid_set_report_cb never finds it full.                    *)
THEOREM NothingDroppedHolds == Spec /\ []Few => NothingDropped
<1>1. Whole /\ Few /\ Few' /\ [Next]_vars =>
        [pending' # pending /\ pending' # None =>
            \E i \in DOMAIN raw_queue' :
                raw_queue'[i].by = pending'.by /\ raw_queue'[i].sub = pending'.sub]_vars
  BY AskFindsRoom
<1>2. QED
  BY <1>1, WholeInvariant, PTL DEF Spec, NothingDropped

\* Where a turn of the loop can be, and how it stands with is_busy.
Busy ==
    /\ is_busy <=> nested \/ at \in {"drain", "answer", "task"}
    /\ nested => at \in {"top", "apply"}
    /\ at = "top" /\ ~nested => profile = active

LEMMA BusyStep ==
  ASSUME Types, Busy, [Next]_vars
  PROVE  Busy' /\ (nested => UNCHANGED <<stage, slot, done, profile>>)
<1>1. CASE UNCHANGED <<turn, stage, slot, active, profile, done>>
  BY <1>1 DEF turn, Busy
<1>2. CASE Acts
  BY <1>1, <1>2, ActsStep DEF Types, ActStep, board
<1>3. CASE Read \/ ViaSend \/ UNCHANGED vars
  BY <1>1, <1>3 DEF Read, ViaSend, vars, board
<1>4. CASE Turn
  BY <1>4 DEF Turn, Busy, Types, BoardOK
<1>5. CASE Handle \/ SendRaw
  BY <1>5 DEF Handle, SendRaw, Busy, Types, BoardOK
<1>6. CASE TaskBegin \/ TaskWaits \/ TaskEnd
  BY <1>6 DEF TaskBegin, TaskWaits, TaskEnd, Busy, Types, BoardOK
<1>7. CASE Apply
  BY <1>7 DEF Apply, Busy, Types, BoardOK
<1>8. QED
  BY <1>2, <1>3, <1>4, <1>5, <1>6, <1>7, NextCases DEF Loops

(* The turn of the loop that runs while keyboard_task waits may choose       *)
(* another slot, but is_busy keeps it from carrying out a command and from   *)
(* applying a profile; and the profile of the slot in use has been applied   *)
(* whenever the next turn begins.                                            *)
THEOREM TaskUndisturbedHolds == Spec => TaskUndisturbed
<1>1. Types /\ Busy /\ [Next]_vars => [nested => UNCHANGED <<stage, slot, done, profile>>]_vars
  BY BusyStep
<1>2. Init => Types /\ Busy
  BY TypesInit DEF Init, Busy
<1>3. Types /\ Busy /\ [Next]_vars => (Types /\ Busy)'
  BY TypesStep, BusyStep
<1>4. Busy => (at = "top" /\ ~nested => profile = active)
  BY DEF Busy
<1>5. QED
  BY <1>1, <1>2, <1>3, <1>4, PTL DEF Spec, TaskUndisturbed

(* Few holds whatever the user does when the raw queue has three places     *)
(* more than there are actions, as in the model that TLC checks.            *)
LEMMA FewActions ==
  ASSUME IsFiniteSet(Ops), Cardinality(Ops) + 3 <= HID_RAW_QUEUE_MAX
  PROVE  Few
<1>1. UnderWay \subseteq Ops
  BY DEF UnderWay
<1>2. /\ Cardinality(UnderWay) <= Cardinality(Ops)
      /\ Cardinality(UnderWay) \in Nat /\ Cardinality(Ops) \in Nat
  BY <1>1, FS_Subset, FS_CardinalityType
<1>3. QED
  BY <1>2, Names DEF Few

(* With that much room nothing is assumed of what the user starts, or when:  *)
(* what is stored is whole, what is reported as saved is stored, and every   *)
(* request that is awaited finds a place.                                    *)
THEOREM SafeWithRoom ==
  ASSUME IsFiniteSet(Ops), Cardinality(Ops) + 3 <= HID_RAW_QUEUE_MAX
  PROVE  Spec => [](SavedIsWhole /\ NoFalseSuccess) /\ NothingDropped
<1>1. Few
  BY FewActions
<1>2. QED
  BY <1>1, SavedIsWholeHolds, NoFalseSuccessHolds, NothingDroppedHolds, PTL
=============================================================================
