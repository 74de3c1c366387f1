--------------------------- MODULE UsbDevice_proofs ---------------------------
(***************************************************************************)
(* Proofs about the two parts of the USB device: the report queues of      *)
(* usbd_hid.c (HidQueue), for every capacity, every set of report contents *)
(* and every set of report ids on IF1; and the re-enumeration state        *)
(* machine of usb.c (UsbReenum), for every number of slots and every value *)
(* of the four time limits.                                                *)
(*                                                                         *)
(* The invariant KbdLastWord looks at the whole line of reports (Told). It *)
(* is proved through KbdEnd, which names the last report of that line by   *)
(* cases: the one a sender holds, else the newest of the queue, else the   *)
(* one in the endpoint, else what the PC has read.                         *)
(***************************************************************************)
EXTENDS HidQueue, UsbReenum, TLAPS, SequenceTheorems

End(q, e, h) == IF q # <<>> THEN q[Len(q)].data
                ELSE IF e # <<>> THEN e[1].data
                ELSE h
KbdEnd == IF wait # <<>> /\ wait[1].id = KbdId THEN wait[1].data
          ELSE End(queue["keyboard"], ep["keyboard"], host[KbdId])

(* The strengthening: what the shadow means even while no PC is attached,  *)
(* and that nothing of an older enumeration is left in the endpoints.      *)
Kept     == mounted /\ ~muted[KbdId] => KbdEnd = asked[KbdId]
ShadowOK == shadow # NoShadow /\ ~muted[KbdId] => asked[KbdId] = shadow
Detached == ~mounted => /\ \A i \in Itf : ep[i] = <<>>
                        /\ \A id \in Id : host[id] = Blank
IInv     == TypeOK /\ Kept /\ ShadowOK /\ Detached

-------------------------------------------------------------------------------
(* Sequences of reports.                                                   *)

LEMMA TailType ==
  ASSUME NEW S, NEW q \in Seq(S), q # <<>>
  PROVE  /\ Tail(q) \in Seq(S)
         /\ Head(q) \in S
         /\ Len(Tail(q)) = Len(q) - 1
         /\ Tail(q) # <<>> => Tail(q)[Len(Tail(q))] = q[Len(q)]
         /\ Tail(q) = <<>> => Head(q) = q[Len(q)]
<1>1. Len(q) \in Nat /\ Len(q) >= 1 /\ Head(q) = q[1] /\ Head(q) \in S
  BY LenProperties, EmptySeq, ElementOfSeq
<1>2. /\ Tail(q) \in Seq(S)
      /\ Len(Tail(q)) = Len(q) - 1
      /\ \A k \in 1..(Len(q) - 1) : Tail(q)[k] = q[k + 1]
  BY HeadTailProperties
<1>3. Tail(q) # <<>> => Len(q) - 1 \in 1..(Len(q) - 1)
  BY <1>1, <1>2, EmptySeq
<1>4. Tail(q) = <<>> => Len(q) = 1
  BY <1>1, <1>2, EmptySeq
<1>5. QED
  BY <1>1, <1>2, <1>3, <1>4

LEMMA AppendType ==
  ASSUME NEW S, NEW q \in Seq(S), NEW x \in S
  PROVE  /\ Append(q, x) \in Seq(S)
         /\ Len(Append(q, x)) = Len(q) + 1
         /\ Append(q, x) # <<>>
         /\ Append(q, x)[Len(Append(q, x))] = x
  OBVIOUS

LEMMA ReplaceLastType ==
  ASSUME NEW S, NEW q \in Seq(S), NEW x \in S, q # <<>>
  PROVE  LET r == [q EXCEPT ![Len(q)] = x] IN
         /\ r \in Seq(S)
         /\ Len(r) = Len(q)
         /\ r # <<>>
         /\ r[Len(r)] = x
  OBVIOUS

LEMMA ItemFacts ==
  ASSUME NEW it \in Item
  PROVE  /\ it.id \in Id
         /\ it.data \in Data
         /\ ItfOf(it.id) \in Itf
         /\ it \in ItemOf(ItfOf(it.id))
         /\ ItfOf(it.id) = "keyboard" <=> it.id = KbdId
  BY IdAssumption DEF Item, Id, ItfOf, Itf, ItemOf, IdsOf

LEMMA ItemOfFacts ==
  ASSUME NEW i \in Itf
  PROVE  /\ ItemOf(i) \subseteq Item
         /\ Seq(ItemOf(i)) \subseteq Seq(Item)
         /\ \A it \in ItemOf(i) : ItfOf(it.id) = i /\ it.id \in Id /\ it.data \in Data
<1>1. ItemOf(i) \subseteq Item /\ \A it \in ItemOf(i) : it.id \in Id /\ it.data \in Data
  BY DEF Item, Id, Itf, ItemOf, IdsOf
<1>2. \A it \in ItemOf(i) : ItfOf(it.id) = i
  BY IdAssumption DEF ItfOf, Itf, ItemOf, IdsOf
<1>3. \A q \in Seq(ItemOf(i)) : q \in Seq(Item)
  BY <1>1
<1>4. QED
  BY <1>1, <1>2, <1>3

(* One flush of a ring with content q: types, and what the PC ends with.   *)
LEMMA FlushEffect ==
  ASSUME NEW i \in Itf, NEW q \in Seq(ItemOf(i)), NEW h, EpOK
  PROVE  /\ QueueAfter(i, q) \in Seq(ItemOf(i))
         /\ Len(QueueAfter(i, q)) <= Len(q)
         /\ EpAfter(i, q) = <<>> \/ \E it \in ItemOf(i) : EpAfter(i, q) = <<it>>
         /\ ~mounted => EpAfter(i, q) = ep[i]
         /\ End(QueueAfter(i, q), EpAfter(i, q), h) = End(q, ep[i], h)
<1>1. CASE CanFlush(i, q)
  <2>1. q # <<>> /\ mounted /\ ep[i] = <<>>
    BY <1>1 DEF CanFlush, Ready, Up
  <2>2. /\ Tail(q) \in Seq(ItemOf(i))
        /\ Head(q) \in ItemOf(i)
        /\ Len(Tail(q)) = Len(q) - 1
        /\ Tail(q) # <<>> => Tail(q)[Len(Tail(q))] = q[Len(q)]
        /\ Tail(q) = <<>> => Head(q) = q[Len(q)]
    BY <2>1, TailType
  <2>3. QueueAfter(i, q) = Tail(q) /\ EpAfter(i, q) = <<Head(q)>>
    BY <1>1 DEF QueueAfter, EpAfter
  <2>4. Len(QueueAfter(i, q)) <= Len(q)
    BY <2>2, <2>3, LenProperties
  <2>5. End(QueueAfter(i, q), EpAfter(i, q), h) = End(q, ep[i], h)
    BY <2>1, <2>2, <2>3 DEF End
  <2>6. QED
    BY <2>1, <2>2, <2>3, <2>4, <2>5
<1>2. CASE ~CanFlush(i, q)
  <2>1. QueueAfter(i, q) = q /\ EpAfter(i, q) = ep[i]
    BY <1>2 DEF QueueAfter, EpAfter
  <2>2. QED
    BY <2>1, LenProperties DEF EpOK
<1>3. QED
  BY <1>1, <1>2

(* The three ways a ring changes, each with its types and its effect on    *)
(* the end of the keyboard line. All three leave the other interface alone.*)
LEMMA EnqueueEffect ==
  ASSUME NEW i \in Itf, NEW it \in ItemOf(i), QueueOK, EpOK, ~IsFull(i), Enqueue(i, it)
  PROVE  /\ QueueOK' /\ EpOK'
         /\ \A j \in Itf : ~mounted => ep'[j] = ep[j]
         /\ \A j \in Itf \ {i} : queue'[j] = queue[j] /\ ep'[j] = ep[j]
         /\ \A h : End(queue'[i], ep'[i], h) = it.data
<1> DEFINE q == Append(queue[i], it)
<1>1. queue[i] \in Seq(ItemOf(i)) /\ Len(queue[i]) + 1 <= Capacity
  BY CapacityAssumption, LenProperties DEF QueueOK, IsFull
<1>2. /\ q \in Seq(ItemOf(i)) /\ Len(q) <= Capacity
      /\ q # <<>> /\ q[Len(q)] = it
  BY <1>1, AppendType
<1>3. /\ QueueAfter(i, q) \in Seq(ItemOf(i))
      /\ Len(QueueAfter(i, q)) <= Len(q)
      /\ EpAfter(i, q) = <<>> \/ \E x \in ItemOf(i) : EpAfter(i, q) = <<x>>
      /\ ~mounted => EpAfter(i, q) = ep[i]
      /\ \A h : End(QueueAfter(i, q), EpAfter(i, q), h) = End(q, ep[i], h)
  BY <1>2, FlushEffect
<1>4. /\ queue' = [queue EXCEPT ![i] = QueueAfter(i, q)]
      /\ ep' = [ep EXCEPT ![i] = EpAfter(i, q)]
  BY DEF Enqueue
<1> HIDE DEF q
<1>5. /\ queue'[i] = QueueAfter(i, q) /\ ep'[i] = EpAfter(i, q)
      /\ \A j \in Itf \ {i} : queue'[j] = queue[j] /\ ep'[j] = ep[j]
  BY <1>4 DEF QueueOK, EpOK
<1>6. QueueOK'
  <2>1. queue' \in [Itf -> Seq(Item)]
    BY <1>3, <1>4, ItemOfFacts DEF QueueOK
  <2>2. Len(queue'[i]) <= Capacity
    BY <1>2, <1>3, <1>5, LenProperties, CapacityAssumption
  <2>3. QED
    BY <1>3, <1>5, <2>1, <2>2 DEF QueueOK
<1>7. EpOK'
  <2>1. EpAfter(i, q) \in Seq(Item)
    <3>1. <<>> \in Seq(Item) /\ \A x \in Item : <<x>> \in Seq(Item)
      OBVIOUS
    <3>2. ItemOf(i) \subseteq Item
      BY ItemOfFacts
    <3>3. QED
      BY <1>3, <3>1, <3>2
  <2>2. QED
    BY <1>3, <1>4, <1>5, <2>1 DEF EpOK
<1>8. \A h : End(q, ep[i], h) = it.data
  BY <1>2 DEF End
<1>9. QED
  BY <1>3, <1>5, <1>6, <1>7, <1>8

LEMMA OverwriteEffect ==
  ASSUME NEW i \in Itf, NEW it \in ItemOf(i), QueueOK, EpOK, IsFull(i), Overwrite(i, it)
  PROVE  /\ QueueOK' /\ EpOK'
         /\ ep' = ep
         /\ \A j \in Itf \ {i} : queue'[j] = queue[j]
         /\ \A h : End(queue'[i], ep'[i], h) = it.data
<1> DEFINE r == [queue[i] EXCEPT ![Len(queue[i])] = it]
<1>1. queue[i] \in Seq(ItemOf(i)) /\ queue[i] # <<>> /\ Len(queue[i]) <= Capacity
  BY CapacityAssumption, EmptySeq DEF QueueOK, IsFull
<1>2. r \in Seq(ItemOf(i)) /\ Len(r) = Len(queue[i]) /\ r # <<>> /\ r[Len(r)] = it
  BY <1>1, ReplaceLastType
<1>3. queue' = [queue EXCEPT ![i] = r] /\ ep' = ep
  BY DEF Overwrite
<1> HIDE DEF r
<1>4. queue'[i] = r /\ \A j \in Itf \ {i} : queue'[j] = queue[j]
  BY <1>3 DEF QueueOK
<1>5. QueueOK'
  BY <1>1, <1>2, <1>3, <1>4, ItemOfFacts DEF QueueOK
<1>6. QED
  BY <1>2, <1>3, <1>4, <1>5 DEF End, EpOK

(* A request, whichever way Submit takes: the last word of the keyboard    *)
(* line becomes the report asked for, unless the output is cut, and a      *)
(* request for another report id does not touch it.                        *)
LEMMA SubmitEffect ==
  ASSUME TypeOK, IsIdle, NEW it \in Item, Submit(it)
  PROVE  /\ QueueOK' /\ EpOK'
         /\ wait' = <<>> \/ wait' = <<it>>
         /\ it.id = KbdId /\ out_enable => KbdEnd' = it.data
         /\ it.id # KbdId => KbdEnd' = KbdEnd
         /\ \A j \in Itf : ~mounted => ep'[j] = ep[j]
<1> DEFINE i == ItfOf(it.id)
<1>1. /\ i \in Itf /\ it \in ItemOf(i)
      /\ i = "keyboard" <=> it.id = KbdId
  BY ItemFacts
<1>2. QueueOK /\ EpOK /\ wait = <<>>
  BY DEF TypeOK, IsIdle
<1>3. host' = host
  BY DEF Submit
<1>4. CASE ~out_enable /\ UNCHANGED <<queue, ep, wait>>
  BY <1>2, <1>3, <1>4 DEF QueueOK, EpOK, KbdEnd, End
<1>5. CASE out_enable /\ ~IsFull(i) /\ Enqueue(i, it) /\ UNCHANGED wait
  <2>1. /\ QueueOK' /\ EpOK'
        /\ \A j \in Itf : ~mounted => ep'[j] = ep[j]
        /\ \A j \in Itf \ {i} : queue'[j] = queue[j] /\ ep'[j] = ep[j]
        /\ \A h : End(queue'[i], ep'[i], h) = it.data
    BY <1>1, <1>2, <1>5, EnqueueEffect
  <2>2. wait' = <<>>
    BY <1>2, <1>5
  <2>3. KbdEnd' = End(queue'["keyboard"], ep'["keyboard"], host'[KbdId])
    BY <2>2 DEF KbdEnd, End
  <2>4. it.id # KbdId => KbdEnd' = KbdEnd
    BY <1>1, <1>2, <1>3, <2>1, <2>3 DEF KbdEnd, Itf
  <2>5. QED
    BY <1>1, <2>1, <2>2, <2>3, <2>4
<1>6. CASE out_enable /\ IsFull(i) /\ wait' = <<it>> /\ UNCHANGED <<queue, ep>>
  BY <1>2, <1>3, <1>6 DEF QueueOK, EpOK, KbdEnd, End
<1>7. CASE out_enable /\ IsFull(i) /\ Overwrite(i, it) /\ UNCHANGED wait
  <2>1. /\ QueueOK' /\ EpOK'
        /\ ep' = ep
        /\ \A j \in Itf \ {i} : queue'[j] = queue[j]
        /\ \A h : End(queue'[i], ep'[i], h) = it.data
    BY <1>1, <1>2, <1>7, OverwriteEffect
  <2>2. wait' = <<>>
    BY <1>2, <1>7
  <2>3. KbdEnd' = End(queue'["keyboard"], ep'["keyboard"], host'[KbdId])
    BY <2>2 DEF KbdEnd, End
  <2>4. it.id # KbdId => KbdEnd' = KbdEnd
    BY <1>1, <1>2, <1>3, <2>1, <2>3 DEF KbdEnd, Itf
  <2>5. QED
    BY <1>1, <2>1, <2>2, <2>3, <2>4
<1>8. QED
  BY <1>4, <1>5, <1>6, <1>7 DEF Submit

-------------------------------------------------------------------------------
(* The invariant.                                                          *)

LEMMA InitInv == Init => IInv
<1> SUFFICES ASSUME Init PROVE IInv
  OBVIOUS
<1> USE DEF Init
<1>1. QueueOK /\ EpOK
  BY CapacityAssumption DEF QueueOK, EpOK, Itf
<1>2. TypeOK
  BY <1>1, DataAssumption DEF TypeOK
<1>3. QED
  BY <1>2 DEF IInv, Kept, ShadowOK, Detached

LEMMA StepInv == IInv /\ [Next]_vars => IInv'
<1> SUFFICES ASSUME IInv, [Next]_vars PROVE IInv'
  OBVIOUS
<1> USE DEF IInv
<1>t. /\ QueueOK /\ EpOK
      /\ shadow \in Data \cup {NoShadow} /\ out_enable \in BOOLEAN
      /\ host \in [Id -> Data] /\ asked \in [Id -> Data] /\ muted \in [Id -> BOOLEAN]
      /\ mounted \in BOOLEAN /\ suspended \in BOOLEAN
      /\ wait = <<>> \/ \E it \in Item : wait = <<it>>
  BY DEF TypeOK
<1>k. KbdId \in Id
  BY DEF Id
<1>1. ASSUME NEW r \in Data, SendKeyboard(r) PROVE IInv'
  <2> DEFINE it == [id |-> KbdId, data |-> r]
  <2>1. it \in Item /\ it.id = KbdId /\ it.data = r
    BY DEF Item, Id
  <2>2. IsIdle /\ Submit(it) /\ shadow' = r
    BY <1>1 DEF SendKeyboard
  <2>3. /\ QueueOK' /\ EpOK'
        /\ wait' = <<>> \/ wait' = <<it>>
        /\ out_enable => KbdEnd' = r
        /\ \A j \in Itf : ~mounted => ep'[j] = ep[j]
    BY <2>1, <2>2, SubmitEffect
  <2>4. /\ asked' = [asked EXCEPT ![KbdId] = r]
        /\ muted' = [muted EXCEPT ![KbdId] = ~out_enable]
        /\ UNCHANGED <<out_enable, mounted, suspended, host>>
    BY <2>1, <2>2 DEF Submit
  <2> HIDE DEF it
  <2>5. TypeOK'
    BY <1>t, <2>1, <2>2, <2>3, <2>4 DEF TypeOK
  <2>6. Kept'
    BY <1>t, <1>k, <2>3, <2>4 DEF Kept
  <2>7. ShadowOK'
    BY <1>t, <1>k, <2>2, <2>4 DEF ShadowOK
  <2>8. Detached'
    BY <2>3, <2>4 DEF Detached
  <2>9. QED
    BY <2>5, <2>6, <2>7, <2>8
<1>2. ASSUME NEW r \in Data, SendKeyboardSame(r) PROVE IInv'
  <2>1. /\ shadow = r /\ asked' = [asked EXCEPT ![KbdId] = r]
        /\ UNCHANGED <<queue, shadow, out_enable, wait, ep, mounted, suspended, host, muted>>
    BY <1>2 DEF SendKeyboardSame
  <2>2. TypeOK'
    BY <1>t, <2>1 DEF TypeOK, QueueOK, EpOK
  <2>3. KbdEnd' = KbdEnd
    BY <2>1 DEF KbdEnd, End
  <2>4. ~muted[KbdId] => asked' = asked
    BY <1>t, <1>k, <2>1, DataAssumption DEF ShadowOK
  <2>5. Kept' /\ ShadowOK' /\ Detached'
    BY <2>1, <2>3, <2>4 DEF Kept, ShadowOK, Detached
  <2>6. QED
    BY <2>2, <2>5
<1>3. ASSUME NEW it \in ItemOf("extra"), SendExtra(it) PROVE IInv'
  <2>1. it \in Item /\ it.id # KbdId /\ it.id \in Id /\ it.data \in Data
    BY IdAssumption DEF ItemOf, IdsOf, Item, Id
  <2>2. IsIdle /\ Submit(it) /\ shadow' = shadow
    BY <1>3 DEF SendExtra
  <2>3. /\ QueueOK' /\ EpOK'
        /\ wait' = <<>> \/ wait' = <<it>>
        /\ KbdEnd' = KbdEnd
        /\ \A j \in Itf : ~mounted => ep'[j] = ep[j]
    BY <2>1, <2>2, SubmitEffect
  <2>4. /\ asked' = [asked EXCEPT ![it.id] = it.data]
        /\ muted' = [muted EXCEPT ![it.id] = ~out_enable]
        /\ UNCHANGED <<out_enable, mounted, suspended, host>>
    BY <2>2 DEF Submit
  <2>5. TypeOK'
    BY <1>t, <2>1, <2>2, <2>3, <2>4 DEF TypeOK
  <2>6. asked'[KbdId] = asked[KbdId] /\ muted'[KbdId] = muted[KbdId]
    BY <1>t, <1>k, <2>1, <2>4
  <2>7. Kept' /\ ShadowOK' /\ Detached'
    BY <2>2, <2>3, <2>4, <2>6 DEF Kept, ShadowOK, Detached
  <2>8. QED
    BY <2>5, <2>7
<1>w. ASSUME wait # <<>>
      PROVE  /\ wait[1] \in Item /\ WaitItf \in Itf /\ wait[1] \in ItemOf(WaitItf)
             /\ WaitItf = "keyboard" <=> wait[1].id = KbdId
  <2>1. wait[1] \in Item
    BY <1>t, <1>w
  <2>2. QED
    BY <2>1, ItemFacts DEF WaitItf
<1>4. CASE WaitFlush
  <2> DEFINE i == WaitItf
  <2>1. /\ wait # <<>> /\ i \in Itf
        /\ queue' = [queue EXCEPT ![i] = QueueAfter(i, queue[i])]
        /\ ep' = [ep EXCEPT ![i] = EpAfter(i, queue[i])]
        /\ UNCHANGED <<shadow, out_enable, wait, mounted, suspended, host, asked, muted>>
    BY <1>4, <1>w DEF WaitFlush
  <2>2. queue[i] \in Seq(ItemOf(i)) /\ Len(queue[i]) <= Capacity
    BY <1>t, <2>1 DEF QueueOK
  <2>3. /\ QueueAfter(i, queue[i]) \in Seq(ItemOf(i))
        /\ Len(QueueAfter(i, queue[i])) <= Len(queue[i])
        /\ EpAfter(i, queue[i]) = <<>> \/ \E it \in ItemOf(i) : EpAfter(i, queue[i]) = <<it>>
        /\ ~mounted => EpAfter(i, queue[i]) = ep[i]
        /\ \A h : End(QueueAfter(i, queue[i]), EpAfter(i, queue[i]), h) = End(queue[i], ep[i], h)
    BY <1>t, <2>1, <2>2, FlushEffect
  <2> HIDE DEF i
  <2>4. /\ queue'[i] = QueueAfter(i, queue[i]) /\ ep'[i] = EpAfter(i, queue[i])
        /\ \A j \in Itf \ {i} : queue'[j] = queue[j] /\ ep'[j] = ep[j]
    BY <1>t, <2>1 DEF QueueOK, EpOK
  <2>5. QueueOK'
    <3>1. Len(queue'[i]) <= Capacity
      BY <2>2, <2>3, <2>4, LenProperties, CapacityAssumption
    <3>2. QED
      BY <1>t, <2>1, <2>3, <2>4, <3>1, ItemOfFacts DEF QueueOK
  <2>6. EpOK'
    <3>1. /\ <<>> \in Seq(Item) /\ \A x \in Item : <<x>> \in Seq(Item)
          /\ ItemOf(i) \subseteq Item
      BY <2>1, ItemOfFacts
    <3>2. EpAfter(i, queue[i]) \in Seq(Item)
      BY <2>3, <3>1
    <3>3. QED
      BY <1>t, <2>1, <2>3, <2>4, <3>2 DEF EpOK
  <2>7. TypeOK'
    BY <1>t, <2>1, <2>5, <2>6 DEF TypeOK
  <2>8. KbdEnd' = KbdEnd
    <3>1. \A h : End(queue'["keyboard"], ep'["keyboard"], h) = End(queue["keyboard"], ep["keyboard"], h)
      BY <2>3, <2>4 DEF Itf
    <3>2. KbdEnd' = IF wait # <<>> /\ wait[1].id = KbdId THEN wait[1].data
                    ELSE End(queue'["keyboard"], ep'["keyboard"], host[KbdId])
      BY <2>1 DEF KbdEnd, End
    <3>3. QED
      BY <3>1, <3>2 DEF KbdEnd
  <2>9. Kept' /\ ShadowOK' /\ Detached'
    BY <2>1, <2>3, <2>4, <2>8 DEF Kept, ShadowOK, Detached
  <2>10. QED
    BY <2>7, <2>9
<1>5. CASE WaitEndRoom \/ WaitEndTimeout
  <2> DEFINE i == WaitItf
  <2>1. /\ wait # <<>> /\ i \in Itf /\ wait[1] \in ItemOf(i) /\ wait[1] \in Item
        /\ i = "keyboard" <=> wait[1].id = KbdId
        /\ wait' = <<>>
        /\ UNCHANGED <<shadow, out_enable, mounted, suspended, host, asked, muted>>
    BY <1>5, <1>w DEF WaitEndRoom, WaitEndTimeout
  <2>2. /\ QueueOK' /\ EpOK'
        /\ \A j \in Itf : ~mounted => ep'[j] = ep[j]
        /\ \A j \in Itf \ {i} : queue'[j] = queue[j] /\ ep'[j] = ep[j]
        /\ \A h : End(queue'[i], ep'[i], h) = wait[1].data
    <3>1. CASE WaitEndRoom
      <4>1. ~IsFull(i) /\ Enqueue(i, wait[1])
        BY <3>1 DEF WaitEndRoom
      <4>2. QED
        BY <1>t, <2>1, <4>1, EnqueueEffect
    <3>2. CASE WaitEndTimeout
      <4>1. IsFull(i) /\ Overwrite(i, wait[1])
        BY <3>2 DEF WaitEndTimeout
      <4>2. QED
        BY <1>t, <2>1, <4>1, OverwriteEffect
    <3>3. QED
      BY <1>5, <3>1, <3>2
  <2> HIDE DEF i
  <2>3. TypeOK'
    BY <1>t, <2>1, <2>2 DEF TypeOK
  <2>4. KbdEnd' = KbdEnd
    <3>1. KbdEnd' = End(queue'["keyboard"], ep'["keyboard"], host[KbdId])
      BY <2>1 DEF KbdEnd, End
    <3>2. QED
      BY <2>1, <2>2, <3>1 DEF KbdEnd, Itf
  <2>5. Kept' /\ ShadowOK' /\ Detached'
    BY <2>1, <2>2, <2>4 DEF Kept, ShadowOK, Detached
  <2>6. QED
    BY <2>3, <2>5
<1>6. CASE Update
  <2>1. /\ IsIdle
        /\ queue' = [i \in Itf |-> QueueAfter(i, queue[i])]
        /\ ep' = [i \in Itf |-> EpAfter(i, queue[i])]
        /\ UNCHANGED <<shadow, out_enable, wait, mounted, suspended, host, asked, muted>>
    BY <1>6 DEF Update
  <2>2. ASSUME NEW i \in Itf
        PROVE  /\ queue'[i] \in Seq(ItemOf(i)) /\ Len(queue'[i]) <= Capacity
               /\ ep'[i] = <<>> \/ \E it \in ItemOf(i) : ep'[i] = <<it>>
               /\ ep'[i] \in Seq(Item) /\ queue'[i] \in Seq(Item)
               /\ ~mounted => ep'[i] = ep[i]
               /\ \A h : End(queue'[i], ep'[i], h) = End(queue[i], ep[i], h)
    <3>1. queue[i] \in Seq(ItemOf(i)) /\ Len(queue[i]) <= Capacity
      BY <1>t, <2>2 DEF QueueOK
    <3>2. /\ QueueAfter(i, queue[i]) \in Seq(ItemOf(i))
          /\ Len(QueueAfter(i, queue[i])) <= Len(queue[i])
          /\ EpAfter(i, queue[i]) = <<>> \/ \E it \in ItemOf(i) : EpAfter(i, queue[i]) = <<it>>
          /\ ~mounted => EpAfter(i, queue[i]) = ep[i]
          /\ \A h : End(QueueAfter(i, queue[i]), EpAfter(i, queue[i]), h) = End(queue[i], ep[i], h)
      BY <1>t, <2>2, <3>1, FlushEffect
    <3>3. queue'[i] = QueueAfter(i, queue[i]) /\ ep'[i] = EpAfter(i, queue[i])
      BY <2>1, <2>2
    <3>4. Len(queue'[i]) <= Capacity
      BY <3>1, <3>2, <3>3, LenProperties, CapacityAssumption
    <3>5. /\ <<>> \in Seq(Item) /\ \A x \in Item : <<x>> \in Seq(Item)
          /\ ItemOf(i) \subseteq Item /\ Seq(ItemOf(i)) \subseteq Seq(Item)
      BY <2>2, ItemOfFacts
    <3>6. ep'[i] \in Seq(Item) /\ queue'[i] \in Seq(Item)
      BY <3>2, <3>3, <3>5
    <3>7. QED
      BY <3>2, <3>3, <3>4, <3>6
  <2>3. QueueOK' /\ EpOK'
    BY <2>1, <2>2 DEF QueueOK, EpOK
  <2>4. TypeOK'
    BY <1>t, <2>1, <2>3 DEF TypeOK
  <2>5. KbdEnd' = KbdEnd
    <3>1. KbdEnd' = End(queue'["keyboard"], ep'["keyboard"], host[KbdId])
      BY <2>1 DEF KbdEnd, End, IsIdle
    <3>2. KbdEnd = End(queue["keyboard"], ep["keyboard"], host[KbdId])
      BY <2>1 DEF KbdEnd, IsIdle
    <3>3. QED
      BY <2>2, <3>1, <3>2 DEF Itf
  <2>6. Kept' /\ ShadowOK' /\ Detached'
    BY <2>1, <2>2, <2>5 DEF Kept, ShadowOK, Detached
  <2>7. QED
    BY <2>4, <2>6
<1>7. ASSUME NEW enable \in BOOLEAN, SetOutput(enable) PROVE IInv'
  <2>1. /\ IsIdle /\ out_enable' = enable
        /\ UNCHANGED <<shadow, wait, ep, mounted, suspended, host, asked>>
        /\ queue' = IF enable THEN queue ELSE [i \in Itf |-> <<>>]
        /\ muted' = IF enable THEN muted
                    ELSE [id \in Id |-> \/ muted[id]
                                        \/ \E k \in DOMAIN queue[ItfOf(id)] :
                                             queue[ItfOf(id)][k].id = id]
    BY <1>7 DEF SetOutput
  <2>2. QueueOK' /\ EpOK'
    BY <1>t, <2>1, CapacityAssumption DEF QueueOK, EpOK
  <2>3. muted' \in [Id -> BOOLEAN] /\ (~muted'[KbdId] => ~muted[KbdId])
    BY <1>t, <1>k, <2>1
  <2>4. TypeOK'
    BY <1>t, <1>7, <2>1, <2>2, <2>3 DEF TypeOK
  <2>5. ~muted'[KbdId] => KbdEnd' = KbdEnd
    <3>1. CASE queue' = queue
      BY <2>1, <3>1 DEF KbdEnd, End
    <3>2. CASE queue["keyboard"] # <<>> /\ ~enable
      <4>1. queue["keyboard"] \in Seq(ItemOf("keyboard"))
        BY <1>t DEF QueueOK, Itf
      <4>2. 1 \in DOMAIN queue["keyboard"] /\ queue["keyboard"][1].id = KbdId
        <5>1. Len(queue["keyboard"]) \in Nat \ {0}
          BY <3>2, <4>1, EmptySeq
        <5>2. 1 \in DOMAIN queue["keyboard"] /\ queue["keyboard"][1] \in ItemOf("keyboard")
          BY <4>1, <5>1, LenProperties
        <5>3. QED
          BY <5>2 DEF ItemOf, IdsOf
      <4>3. muted'[KbdId]
        BY <1>k, <2>1, <3>2, <4>2 DEF ItfOf
      <4>4. QED
        BY <4>3
    <3>3. CASE queue["keyboard"] = <<>> /\ ~enable
      BY <2>1, <3>3 DEF KbdEnd, End, Itf
    <3>4. QED
      BY <2>1, <3>1, <3>2, <3>3
  <2>6. Kept' /\ ShadowOK' /\ Detached'
    BY <2>1, <2>3, <2>5 DEF Kept, ShadowOK, Detached
  <2>7. QED
    BY <2>4, <2>6
<1>8. ASSUME NEW i \in Itf, HostTake(i) PROVE IInv'
  <2>1. /\ mounted /\ ep[i] # <<>>
        /\ host' = [host EXCEPT ![ep[i][1].id] = ep[i][1].data]
        /\ ep' = [ep EXCEPT ![i] = <<>>]
        /\ UNCHANGED <<queue, shadow, out_enable, wait, mounted, suspended, asked, muted>>
    BY <1>8 DEF HostTake, Up
  <2>2. PICK it \in ItemOf(i) : ep[i] = <<it>>
    BY <1>t, <2>1 DEF EpOK
  <2>3. ep[i][1] = it /\ it.id \in Id /\ it.data \in Data /\ ItfOf(it.id) = i
    BY <2>2, ItemOfFacts
  <2>4. QueueOK' /\ EpOK'
    BY <1>t, <2>1 DEF QueueOK, EpOK
  <2>5. host' \in [Id -> Data]
    BY <1>t, <2>1, <2>3
  <2>6. TypeOK'
    BY <1>t, <2>1, <2>4, <2>5 DEF TypeOK
  <2>7. KbdEnd' = KbdEnd
    <3>1. CASE i = "keyboard"
      <4>1. it.id = KbdId
        BY <2>3, <3>1 DEF ItfOf
      <4>2. ep'["keyboard"] = <<>> /\ host'[KbdId] = ep["keyboard"][1].data
        BY <1>t, <1>k, <2>1, <2>3, <3>1, <4>1 DEF EpOK
      <4>3. QED
        BY <2>1, <3>1, <4>2 DEF KbdEnd, End
    <3>2. CASE i # "keyboard"
      <4>1. it.id # KbdId
        BY <2>3, <3>2 DEF ItfOf
      <4>2. ep'["keyboard"] = ep["keyboard"] /\ host'[KbdId] = host[KbdId]
        BY <1>t, <1>k, <2>1, <2>3, <3>2, <4>1 DEF EpOK, Itf
      <4>3. QED
        BY <2>1, <4>2 DEF KbdEnd, End
    <3>3. QED
      BY <3>1, <3>2
  <2>8. Kept' /\ ShadowOK' /\ Detached'
    BY <2>1, <2>7 DEF Kept, ShadowOK, Detached
  <2>9. QED
    BY <2>6, <2>8
<1>9. CASE Mount
  <2>1. /\ ~mounted /\ mounted' = TRUE /\ shadow' = NoShadow
        /\ queue' = [i \in Itf |-> <<>>]
        /\ asked' = [id \in Id |-> IF wait # <<>> /\ wait[1].id = id THEN wait[1].data ELSE Blank]
        /\ muted' = [id \in Id |-> FALSE]
        /\ UNCHANGED <<out_enable, wait, ep, suspended, host>>
    BY <1>9 DEF Mount
  <2>2. asked' \in [Id -> Data]
    BY <1>w, <2>1, DataAssumption DEF Item
  <2>3. QueueOK' /\ EpOK'
    BY <1>t, <2>1, CapacityAssumption DEF QueueOK, EpOK
  <2>4. TypeOK'
    BY <1>t, <2>1, <2>2, <2>3 DEF TypeOK
  <2>5. ep'["keyboard"] = <<>> /\ host'[KbdId] = Blank
    BY <1>k, <2>1 DEF Detached, Itf
  <2>6. KbdEnd' = asked'[KbdId]
    BY <1>k, <2>1, <2>5 DEF KbdEnd, End, Itf
  <2>7. Kept' /\ ShadowOK' /\ Detached'
    BY <2>1, <2>6 DEF Kept, ShadowOK, Detached
  <2>8. QED
    BY <2>4, <2>7
<1>10. CASE BusReset
  <2>1. /\ mounted' = FALSE /\ suspended' = FALSE
        /\ ep' = [i \in Itf |-> <<>>] /\ host' = [id \in Id |-> Blank]
        /\ UNCHANGED <<queue, shadow, out_enable, wait, asked, muted>>
    BY <1>10 DEF BusReset
  <2>2. QueueOK' /\ EpOK'
    BY <1>t, <2>1 DEF QueueOK, EpOK
  <2>3. TypeOK'
    BY <1>t, <2>1, <2>2, DataAssumption DEF TypeOK
  <2>4. Kept' /\ ShadowOK' /\ Detached'
    BY <2>1 DEF Kept, ShadowOK, Detached
  <2>5. QED
    BY <2>3, <2>4
<1>11. CASE Suspend
  <2>1. suspended' = TRUE /\ UNCHANGED <<queue, shadow, out_enable, wait, ep, mounted, host, asked, muted>>
    BY <1>11 DEF Suspend
  <2>2. TypeOK'
    BY <1>t, <2>1 DEF TypeOK, QueueOK, EpOK
  <2>3. KbdEnd' = KbdEnd
    BY <2>1 DEF KbdEnd, End
  <2>4. QED
    BY <2>1, <2>2, <2>3 DEF Kept, ShadowOK, Detached
<1>12. CASE Resume
  <2>1. /\ suspended' = FALSE /\ shadow' = NoShadow
        /\ UNCHANGED <<queue, out_enable, wait, ep, mounted, host, asked, muted>>
    BY <1>12 DEF Resume
  <2>2. TypeOK'
    BY <1>t, <2>1 DEF TypeOK, QueueOK, EpOK
  <2>3. KbdEnd' = KbdEnd
    BY <2>1 DEF KbdEnd, End
  <2>4. QED
    BY <2>1, <2>2, <2>3 DEF Kept, ShadowOK, Detached
<1>13. CASE UNCHANGED vars
  <2>1. UNCHANGED <<queue, shadow, out_enable, wait, ep, mounted, suspended, host, asked, muted>>
    BY <1>13 DEF vars
  <2>2. TypeOK'
    BY <1>t, <2>1 DEF TypeOK, QueueOK, EpOK
  <2>3. KbdEnd' = KbdEnd
    BY <2>1 DEF KbdEnd, End
  <2>4. QED
    BY <2>1, <2>2, <2>3 DEF Kept, ShadowOK, Detached
<1>14. QED
  BY <1>1, <1>2, <1>3, <1>4, <1>5, <1>6, <1>7, <1>8, <1>9, <1>10, <1>11, <1>12, <1>13
  DEF Next

(* IInv holds in every reachable state of HidQueue. *)
LEMMA Invariance == Spec => []IInv
  BY InitInv, StepInv, PTL DEF Spec

-------------------------------------------------------------------------------
(* From the cases of KbdEnd to the whole line.                             *)

LEMMA LineType ==
  ASSUME TypeOK
  PROVE  /\ ep["keyboard"] \in Seq(ItemOf("keyboard"))
         /\ queue["keyboard"] \in Seq(ItemOf("keyboard"))
         /\ Pending("keyboard") \in Seq(ItemOf("keyboard"))
         /\ Len(ep["keyboard"]) \in {0, 1} /\ Len(Pending("keyboard")) \in {0, 1}
         /\ (wait # <<>> /\ wait[1].id = KbdId) <=> Len(Pending("keyboard")) = 1
         /\ Len(Pending("keyboard")) = 1 => Pending("keyboard")[1] = wait[1]
<1> DEFINE I == ItemOf("keyboard")
<1>1. ep["keyboard"] = <<>> \/ \E it \in I : ep["keyboard"] = <<it>>
  BY DEF TypeOK, EpOK, Itf
<1>2. wait = <<>> \/ \E it \in Item : wait = <<it>>
  BY DEF TypeOK
<1>3. queue["keyboard"] \in Seq(I)
  BY DEF TypeOK, QueueOK, Itf
<1> HIDE DEF I
<1>4. /\ <<>> \in Seq(I) /\ Len(<<>>) = 0
      /\ \A x \in I : <<x>> \in Seq(I)
      /\ \A x : Len(<<x>>) = 1 /\ <<x>>[1] = x /\ <<x>> # <<>>
  OBVIOUS
<1>5. ep["keyboard"] \in Seq(I) /\ Len(ep["keyboard"]) \in {0, 1}
  BY <1>1, <1>4
<1>6. /\ Pending("keyboard") \in Seq(I) /\ Len(Pending("keyboard")) \in {0, 1}
      /\ (wait # <<>> /\ wait[1].id = KbdId) <=> Len(Pending("keyboard")) = 1
      /\ Len(Pending("keyboard")) = 1 => Pending("keyboard")[1] = wait[1]
  <2>1. CASE wait = <<>>
    BY <1>4, <2>1 DEF Pending
  <2>2. CASE wait # <<>>
    <3>1. PICK it \in Item : wait = <<it>>
      BY <1>2, <2>2
    <3>2. wait[1] = it /\ (WaitItf = "keyboard" <=> it.id = KbdId) /\ it \in ItemOf(WaitItf)
      BY <3>1, ItemFacts DEF WaitItf
    <3>3. CASE it.id = KbdId
      <4>1. Pending("keyboard") = <<it>> /\ it \in I
        BY <2>2, <3>1, <3>2, <3>3 DEF Pending, I
      <4>2. QED
        BY <1>4, <2>2, <3>2, <3>3, <4>1
    <3>4. CASE it.id # KbdId
      <4>1. Pending("keyboard") = <<>>
        BY <3>2, <3>4 DEF Pending
      <4>2. Pending("keyboard") \in Seq(I) /\ Len(Pending("keyboard")) = 0
        BY <1>4, <4>1
      <4>3. wait[1].id # KbdId
        BY <3>2, <3>4
      <4>4. QED
        BY <4>2, <4>3
    <3>5. QED
      BY <3>3, <3>4
  <2>3. QED
    BY <2>1, <2>2
<1>7. QED
  BY <1>3, <1>5, <1>6 DEF I

LEMMA ToldIsKbdEnd == TypeOK => Told(KbdId) = KbdEnd
<1> SUFFICES ASSUME TypeOK PROVE Told(KbdId) = KbdEnd
  OBVIOUS
<1> DEFINE I == ItemOf("keyboard")
           e == ep["keyboard"]
           q == queue["keyboard"]
           w == Pending("keyboard")
           line == e \o q \o w
           own == {k \in DOMAIN line : line[k].id = KbdId}
<1>1. /\ e \in Seq(I) /\ q \in Seq(I) /\ w \in Seq(I)
      /\ Len(e) \in {0, 1} /\ Len(w) \in {0, 1}
      /\ (wait # <<>> /\ wait[1].id = KbdId) <=> Len(w) = 1
      /\ Len(w) = 1 => w[1] = wait[1]
  BY LineType
<1>2. Told(KbdId) = IF own = {} THEN host[KbdId]
                    ELSE line[CHOOSE k \in own : \A j \in own : j <= k].data
  BY DEF Told, Line, ItfOf
<1>3. KbdEnd = IF wait # <<>> /\ wait[1].id = KbdId THEN wait[1].data ELSE End(q, e, host[KbdId])
  BY DEF KbdEnd
<1> HIDE DEF e, q, w
<1>4. /\ line \in Seq(I)
      /\ Len(line) = Len(e) + Len(q) + Len(w)
      /\ \A k \in 1..Len(line) :
           line[k] = IF k <= Len(e) THEN e[k]
                     ELSE IF k <= Len(e) + Len(q) THEN q[k - Len(e)]
                     ELSE w[k - Len(e) - Len(q)]
  BY <1>1, ConcatProperties, LenProperties
<1> HIDE DEF line
<1>5. own = 1..Len(line)
  <2>1. \A k \in 1..Len(line) : line[k] \in I
    BY <1>4, ElementOfSeq
  <2>2. \A x \in I : x.id = KbdId
    BY DEF ItemOf, IdsOf
  <2>3. DOMAIN line = 1..Len(line)
    BY <1>4, LenProperties
  <2>4. QED
    BY <2>1, <2>2, <2>3
<1>6. Len(line) \in Nat /\ Len(e) \in Nat /\ Len(q) \in Nat /\ Len(w) \in Nat
  BY <1>1, <1>4, LenProperties
<1>7. CASE Len(line) = 0
  <2>1. e = <<>> /\ q = <<>> /\ Len(w) = 0
    BY <1>1, <1>4, <1>6, <1>7, EmptySeq
  <2>2. QED
    BY <1>1, <1>2, <1>3, <1>5, <1>7, <2>1 DEF End
<1>8. CASE Len(line) # 0
  <2>1. (CHOOSE k \in own : \A j \in own : j <= k) = Len(line)
    BY <1>5, <1>6, <1>8
  <2>2. Told(KbdId) = line[Len(line)].data
    BY <1>2, <1>5, <1>6, <1>8, <2>1
  <2>3. CASE Len(w) = 1
    BY <1>1, <1>3, <1>4, <1>6, <1>8, <2>2, <2>3
  <2>4. CASE Len(w) = 0 /\ Len(q) # 0
    <3>0. q # <<>>
      BY <2>4
    <3>1. line[Len(line)] = q[Len(q)]
      <4>1. Len(line) = Len(e) + Len(q) /\ Len(line) \in 1..Len(line) /\ ~(Len(line) <= Len(e))
        BY <1>4, <1>6, <1>8, <2>4
      <4>2. Len(line) - Len(e) = Len(q)
        BY <1>6, <4>1
      <4>3. QED
        BY <1>4, <4>1, <4>2
    <3>2. QED
      BY <1>1, <1>3, <2>2, <2>4, <3>0, <3>1 DEF End
  <2>5. CASE Len(w) = 0 /\ Len(q) = 0
    <3>1. Len(e) = 1 /\ line[Len(line)] = e[1] /\ e # <<>> /\ q = <<>>
      BY <1>1, <1>4, <1>6, <1>8, <2>5, EmptySeq
    <3>2. QED
      BY <1>1, <1>3, <2>2, <2>5, <3>1 DEF End
  <2>6. QED
    BY <1>1, <2>3, <2>4, <2>5
<1>9. QED
  BY <1>7, <1>8

-------------------------------------------------------------------------------
(* Every variable keeps its type, no ring holds more reports than it has   *)
(* slots, and IF0 never carries a report of IF1: usbdHidKbdIsFull guards   *)
(* every write.                                                            *)
THEOREM TypeCorrect == Spec => []TypeOK
<1>1. IInv => TypeOK
  BY DEF IInv
<1>2. QED
  BY <1>1, Invariance, PTL

(* The final keyboard state is never lost: whatever overflow, wait for     *)
(* room, suspend or repeated report occurs, an attached PC is going to end *)
(* with the last report usbdHidSendKeyboard was asked for, unless that     *)
(* report was swallowed by a cut output.                                   *)
THEOREM KbdLastWordHolds == Spec => []KbdLastWord
<1>1. IInv => KbdLastWord
  BY ToldIsKbdEnd DEF IInv, Kept, KbdLastWord
<1>2. QED
  BY <1>1, Invariance, PTL

(* The shadow with which usbdHidSendKeyboard decides to skip a report is   *)
(* what the attached PC is going to end with.                              *)
THEOREM ShadowHolds == Spec => []ShadowIsLastQueued
<1>1. IInv => ShadowIsLastQueued
  BY ToldIsKbdEnd DEF IInv, Kept, ShadowOK, ShadowIsLastQueued
<1>2. QED
  BY <1>1, Invariance, PTL

-------------------------------------------------------------------------------
(* The refinement.  First the line of an interface as a sequence: what the *)
(* endpoint holds, what waits in the ring, what a sender holds.            *)

LEMMA CatIs ==
  ASSUME NEW S, NEW e \in Seq(S), NEW q \in Seq(S), NEW p \in Seq(S)
  PROVE  /\ e \o q \o p \in Seq(S)
         /\ Len(e \o q \o p) = Len(e) + Len(q) + Len(p)
         /\ Len(e) \in Nat /\ Len(q) \in Nat /\ Len(p) \in Nat
         /\ \A k \in 1..(Len(e) + Len(q) + Len(p)) :
              (e \o q \o p)[k] = IF k <= Len(e) THEN e[k]
                                 ELSE IF k <= Len(e) + Len(q) THEN q[k - Len(e)]
                                 ELSE p[k - Len(e) - Len(q)]
BY ConcatProperties, LenProperties

(* A flush moves a report on and leaves the line as it is.                 *)
LEMMA FlushLine ==
  ASSUME NEW S, NEW q \in Seq(S), NEW p \in Seq(S), q # <<>>
  PROVE  <<Head(q)>> \o Tail(q) \o p = <<>> \o q \o p
<1>1. /\ Head(q) \in S /\ Tail(q) \in Seq(S) /\ Len(Tail(q)) = Len(q) - 1 /\ Head(q) = q[1]
      /\ \A k \in 1..(Len(q) - 1) : Tail(q)[k] = q[k + 1]
      /\ Len(q) \in Nat /\ Len(q) >= 1
  BY HeadTailProperties, EmptySeq, LenProperties
<1>2. <<>> \in Seq(S) /\ Len(<<>>) = 0 /\ <<Head(q)>> \in Seq(S) /\ Len(<<Head(q)>>) = 1
      /\ <<Head(q)>>[1] = q[1]
  BY <1>1
<1> DEFINE s == <<Head(q)>> \o Tail(q) \o p
           t == <<>> \o q \o p
<1>3. /\ s \in Seq(S) /\ Len(s) = Len(q) + Len(p) /\ Len(p) \in Nat
      /\ \A k \in 1..(Len(q) + Len(p)) :
           s[k] = IF k <= 1 THEN <<Head(q)>>[k]
                  ELSE IF k <= Len(q) THEN Tail(q)[k - 1] ELSE p[k - 1 - (Len(q) - 1)]
  BY <1>1, <1>2, CatIs
<1>4. /\ t \in Seq(S) /\ Len(t) = Len(q) + Len(p)
      /\ \A k \in 1..(Len(q) + Len(p)) :
           t[k] = IF k <= 0 THEN <<>>[k] ELSE IF k <= Len(q) THEN q[k - 0] ELSE p[k - 0 - Len(q)]
  BY <1>1, <1>2, CatIs
<1> HIDE DEF s, t
<1>5. ASSUME NEW k \in 1..(Len(q) + Len(p)) PROVE s[k] = t[k]
  <2>1. CASE k = 1
    <3>1. s[1] = q[1]
      BY <1>1, <1>2, <1>3, <2>1
    <3>2. t[1] = q[1 - 0] /\ 1 - 0 = 1
      BY <1>1, <1>4, <2>1
    <3>3. QED
      BY <2>1, <3>1, <3>2
  <2>2. CASE k > 1 /\ k <= Len(q)
    <3>1. k - 1 \in 1..(Len(q) - 1) /\ k - 1 + 1 = k /\ k - 0 = k
      BY <1>1, <2>2
    <3>2. QED
      BY <1>1, <1>3, <1>4, <2>2, <3>1
  <2>3. CASE k > Len(q)
    <3>1. k - 1 - (Len(q) - 1) = k - Len(q) /\ k - 0 - Len(q) = k - Len(q)
      BY <1>1
    <3>2. QED
      BY <1>1, <1>3, <1>4, <2>3, <3>1
  <2>4. QED
    BY <1>1, <2>1, <2>2, <2>3
<1>6. s = t
  BY <1>3, <1>4, <1>5, SeqEqual
<1>7. QED
  BY <1>6 DEF s, t

(* A report joins the ring: it joins the line, or is there as the          *)
(* sender's already.                                                       *)
LEMMA AppendLine ==
  ASSUME NEW S, NEW e \in Seq(S), NEW q \in Seq(S), NEW x \in S
  PROVE  /\ e \o Append(q, x) \o <<>> = Append(e \o q \o <<>>, x)
         /\ e \o q \o <<x>> = Append(e \o q \o <<>>, x)
<1>1. e \o q \in Seq(S) /\ Append(q, x) \in Seq(S) /\ <<x>> \in Seq(S)
  BY ConcatProperties, AppendProperties
<1>2. e \o q \o <<>> = e \o q /\ (e \o Append(q, x)) \o <<>> = e \o Append(q, x)
  BY <1>1, ConcatEmptySeq, ConcatProperties
<1>3. Append(q, x) = q \o <<x>> /\ Append(e \o q, x) = (e \o q) \o <<x>>
  BY <1>1, AppendIsConcat
<1>4. (e \o q) \o <<x>> = e \o (q \o <<x>>)
  BY <1>1, ConcatAssociative
<1>5. QED
  BY <1>2, <1>3, <1>4

(* The newest report of a ring gives way to one that is new.               *)
LEMMA ReplaceLine ==
  ASSUME NEW S, NEW e \in Seq(S), NEW q \in Seq(S), NEW x \in S, q # <<>>
  PROVE  LET line == e \o q \o <<>> IN
         /\ Len(line) = Len(e) + Len(q)
         /\ e \o [q EXCEPT ![Len(q)] = x] \o <<>> = [line EXCEPT ![Len(line)] = x]
<1> DEFINE l == e \o q \o <<>>
           r == [q EXCEPT ![Len(q)] = x]
           s == e \o r \o <<>>
           t == [l EXCEPT ![Len(l)] = x]
<1>1. Len(q) \in Nat /\ Len(q) >= 1 /\ Len(e) \in Nat /\ <<>> \in Seq(S) /\ Len(<<>>) = 0
  BY EmptySeq, LenProperties
<1>2. r \in Seq(S) /\ Len(r) = Len(q)
      /\ \A j \in 1..Len(q) : r[j] = IF j = Len(q) THEN x ELSE q[j]
  BY <1>1, ExceptSeq
<1>3. /\ l \in Seq(S) /\ Len(l) = Len(e) + Len(q)
      /\ \A k \in 1..(Len(e) + Len(q)) : l[k] = IF k <= Len(e) THEN e[k] ELSE q[k - Len(e)]
  <2>1. \A k \in 1..(Len(e) + Len(q) + 0) :
          l[k] = IF k <= Len(e) THEN e[k]
                 ELSE IF k <= Len(e) + Len(q) THEN q[k - Len(e)] ELSE <<>>[k - Len(e) - Len(q)]
    BY <1>1, CatIs
  <2>2. l \in Seq(S) /\ Len(l) = Len(e) + Len(q) + 0
    BY <1>1, CatIs
  <2> HIDE DEF l
  <2>3. QED
    BY <1>1, <2>1, <2>2
<1>4. /\ s \in Seq(S) /\ Len(s) = Len(e) + Len(q)
      /\ \A k \in 1..(Len(e) + Len(q)) : s[k] = IF k <= Len(e) THEN e[k] ELSE r[k - Len(e)]
  <2> HIDE DEF r
  <2>1. \A k \in 1..(Len(e) + Len(q) + 0) :
          s[k] = IF k <= Len(e) THEN e[k]
                 ELSE IF k <= Len(e) + Len(q) THEN r[k - Len(e)] ELSE <<>>[k - Len(e) - Len(q)]
    BY <1>1, <1>2, CatIs
  <2>2. s \in Seq(S) /\ Len(s) = Len(e) + Len(r)
    <3>1. e \o r \in Seq(S) /\ Len(e \o r) = Len(e) + Len(r)
      BY <1>2, ConcatProperties
    <3>2. s = e \o r
      BY <3>1, ConcatEmptySeq
    <3>3. QED
      BY <3>1, <3>2
  <2> HIDE DEF s
  <2>3. QED
    BY <1>1, <1>2, <2>1, <2>2
<1> HIDE DEF l, r, s
<1>5. Len(l) \in 1..Len(l)
  BY <1>1, <1>3
<1>6. t \in Seq(S) /\ Len(t) = Len(l) /\ \A j \in 1..Len(l) : t[j] = IF j = Len(l) THEN x ELSE l[j]
  BY <1>3, <1>5, ExceptSeq
<1> HIDE DEF t
<1>7. ASSUME NEW k \in 1..(Len(e) + Len(q)) PROVE s[k] = t[k]
  <2>1. CASE k <= Len(e)
    <3>1. k # Len(l)
      BY <1>1, <1>3, <2>1
    <3>2. QED
      BY <1>3, <1>4, <1>6, <2>1, <3>1
  <2>2. CASE k > Len(e)
    <3>1. k - Len(e) \in 1..Len(q) /\ (k - Len(e) = Len(q) <=> k = Len(l)) /\ ~(k <= Len(e))
      BY <1>1, <1>3, <2>2
    <3>2. QED
      BY <1>2, <1>3, <1>4, <1>6, <3>1
  <2>3. QED
    BY <1>1, <2>1, <2>2
<1>8. s = t
  BY <1>3, <1>4, <1>6, <1>7, SeqEqual
<1>9. QED
  BY <1>3, <1>8 DEF s, t, r, l

(* The wait for room ended in vain: the newest of the ring gives way.      *)
LEMMA SqueezeLine ==
  ASSUME NEW S, NEW e \in Seq(S), NEW q \in Seq(S), NEW x \in S, q # <<>>
  PROVE  LET line == e \o q \o <<x>> IN
         /\ Len(line) = Len(e) + Len(q) + 1
         /\ e \o [q EXCEPT ![Len(q)] = x] \o <<>>
              = Append(SubSeq(line, 1, Len(line) - 2), line[Len(line)])
<1> DEFINE l == e \o q \o <<x>>
           l0 == e \o q \o <<>>
           n == Len(e) + Len(q)
           s == SubSeq(l, 1, Len(l) - 2)
           t == [l0 EXCEPT ![Len(l0)] = x]
           u == Append(s, x)
<1>1. Len(q) \in Nat /\ Len(q) >= 1 /\ Len(e) \in Nat /\ <<>> \in Seq(S)
  BY EmptySeq, LenProperties
<1>2. l = Append(l0, x)
  BY AppendLine
<1>3. l0 \in Seq(S) /\ Len(l0) = n
  BY <1>1, CatIs, ReplaceLine
<1>4. e \o [q EXCEPT ![Len(q)] = x] \o <<>> = t
  BY ReplaceLine
<1> HIDE DEF l, l0
<1>5. /\ l \in Seq(S) /\ Len(l) = n + 1 /\ l[n + 1] = x
      /\ \A k \in 1..n : l[k] = l0[k]
  <2>1. /\ Append(l0, x) \in Seq(S) /\ Len(Append(l0, x)) = Len(l0) + 1
        /\ \A k \in 1..Len(l0) : Append(l0, x)[k] = l0[k]
        /\ Append(l0, x)[Len(l0) + 1] = x
    BY <1>3, AppendProperties
  <2> HIDE DEF n
  <2>2. QED
    BY <1>2, <1>3, <2>1
<1>6. n \in Nat /\ n >= 1 /\ Len(l) - 2 = n - 1 /\ n - 1 \in Int /\ 1 \in Int
  BY <1>1, <1>5
<1>7. /\ s \in Seq(S) /\ Len(s) = n - 1
      /\ \A k \in 1..(n - 1) : s[k] = l[k]
  <2>1. \A i \in 1..(n - 1) : l[i] \in S
    <3>1. \A i \in 1..(n + 1) : l[i] \in S
      BY <1>5, ElementOfSeq
    <3>2. QED
      BY <1>6, <3>1
  <2>2. /\ SubSeq(l, 1, n - 1) \in Seq(S)
        /\ Len(SubSeq(l, 1, n - 1)) = IF 1 <= n - 1 THEN (n - 1) - 1 + 1 ELSE 0
        /\ \A i \in 1..((n - 1) - 1 + 1) : SubSeq(l, 1, n - 1)[i] = l[1 + i - 1]
    BY <1>6, <2>1, SubSeqProperties
  <2> HIDE DEF n
  <2>3. QED
    BY <1>6, <2>2
<1>8. t \in Seq(S) /\ Len(t) = n /\ \A j \in 1..n : t[j] = IF j = n THEN x ELSE l0[j]
  BY <1>3, <1>6, ExceptSeq
<1> HIDE DEF s, t
<1>9. u \in Seq(S) /\ Len(u) = n /\ u[n] = x /\ \A k \in 1..(n - 1) : u[k] = s[k]
  <2>1. u \in Seq(S) /\ Len(u) = Len(s) + 1 /\ u[Len(s) + 1] = x /\ \A k \in 1..Len(s) : u[k] = s[k]
    BY <1>7, AppendProperties
  <2> HIDE DEF n, u
  <2>2. QED
    BY <1>6, <1>7, <2>1
<1> HIDE DEF n, u
<1>10. ASSUME NEW k \in 1..n PROVE t[k] = u[k]
  <2>1. CASE k = n
    BY <1>6, <1>8, <1>9, <2>1
  <2>2. CASE k # n
    <3>1. k \in 1..(n - 1)
      BY <1>6, <2>2
    <3>2. QED
      BY <1>5, <1>7, <1>8, <1>9, <2>2, <3>1
  <2>3. QED
    BY <2>1, <2>2
<1>11. t = u
  BY <1>8, <1>9, <1>10, SeqEqual
<1>12. l[Len(l)] = x /\ Len(l) = Len(e) + Len(q) + 1
  BY <1>5, <1>6 DEF n
<1>13. QED
  BY <1>4, <1>11, <1>12 DEF u, s, l

(* The same about reports, and a ring that is full.                        *)
LEMMA ReportLines ==
  \A e \in Seq(Item), q \in Seq(Item), x \in Item :
    /\ e \o Append(q, x) \o <<>> = Append(e \o q \o <<>>, x)
    /\ e \o q \o <<x>> = Append(e \o q \o <<>>, x)
<1> SUFFICES ASSUME NEW e \in Seq(Item), NEW q \in Seq(Item), NEW x \in Item
             PROVE  /\ e \o Append(q, x) \o <<>> = Append(e \o q \o <<>>, x)
                    /\ e \o q \o <<x>> = Append(e \o q \o <<>>, x)
  BY Zenon
<1>1. QED
  BY AppendLine

LEMMA FullLine ==
  ASSUME NEW e \in Seq(Item), NEW q \in Seq(Item), NEW x \in Item, q # <<>>, Len(q) >= Capacity
  PROVE  /\ Len(e \o q \o <<>>) >= Capacity
         /\ e \o [q EXCEPT ![Len(q)] = x] \o <<>>
              = [e \o q \o <<>> EXCEPT ![Len(e \o q \o <<>>)] = x]
         /\ Len(e \o q \o <<x>>) > Capacity
         /\ e \o [q EXCEPT ![Len(q)] = x] \o <<>>
              = Append(SubSeq(e \o q \o <<x>>, 1, Len(e \o q \o <<x>>) - 2),
                       (e \o q \o <<x>>)[Len(e \o q \o <<x>>)])
<1> DEFINE l0 == e \o q \o <<>>
           l1 == e \o q \o <<x>>
           r == e \o [q EXCEPT ![Len(q)] = x] \o <<>>
<1>1. Len(l0) = Len(e) + Len(q) /\ r = [l0 EXCEPT ![Len(l0)] = x]
  BY ReplaceLine
<1>2. Len(l1) = Len(e) + Len(q) + 1 /\ r = Append(SubSeq(l1, 1, Len(l1) - 2), l1[Len(l1)])
  BY SqueezeLine
<1>3. Len(e) \in Nat /\ Len(q) \in Nat /\ Capacity \in Nat
  BY CapacityAssumption, LenProperties
<1> HIDE DEF l0, l1, r
<1>4. Len(l0) >= Capacity /\ Len(l1) > Capacity
  BY <1>1, <1>2, <1>3
<1>5. QED
  BY <1>1, <1>2, <1>4, Zenon DEF l0, l1, r

LEMMA PartsIs ==
  ASSUME TypeOK, NEW i \in Itf
  PROVE  /\ ep[i] \in Seq(Item) /\ queue[i] \in Seq(Item) /\ Pending(i) \in Seq(Item)
         /\ Len(ep[i]) \in {0, 1} /\ (ep[i] = <<>> \/ \E it \in Item : ep[i] = <<it>>)
         /\ AllLines[i] = Line(i)
         /\ wait # <<>> => wait[1] \in Item /\ WaitItf \in Itf /\ wait = <<wait[1]>>
<1>1. ep[i] \in Seq(Item) /\ queue[i] \in Seq(Item)
  BY DEF TypeOK, EpOK, QueueOK
<1>2. ep[i] = <<>> \/ \E it \in Item : ep[i] = <<it>>
  BY ItemOfFacts DEF TypeOK, EpOK
<1>3. wait # <<>> => wait[1] \in Item /\ WaitItf \in Itf /\ wait = <<wait[1]>>
  BY ItemFacts DEF TypeOK, WaitItf
<1>4. Pending(i) \in Seq(Item)
  <2>1. <<>> \in Seq(Item) /\ \A x \in Item : <<x>> \in Seq(Item)
    OBVIOUS
  <2>2. wait # <<>> => wait \in Seq(Item)
    BY <1>3, <2>1
  <2>3. QED
    BY <2>1, <2>2 DEF Pending
<1>5. QED
  BY <1>1, <1>2, <1>3, <1>4 DEF AllLines

(* One line changes, the others do not.                                    *)
LEMMA OneLine ==
  ASSUME NEW i \in Itf, NEW s, Line(i)' = s, \A j \in Itf \ {i} : Line(j)' = Line(j)
  PROVE  AllLines' = [AllLines EXCEPT ![i] = s]
BY DEF AllLines

LEMMA NoLine ==
  ASSUME \A j \in Itf : Line(j)' = Line(j)
  PROVE  AllLines' = AllLines
BY DEF AllLines

(* A ring that is flushed, with whatever a sender holds.                   *)
LEMMA FlushedLine ==
  ASSUME TypeOK, NEW i \in Itf, NEW q \in Seq(Item), NEW p \in Seq(Item)
  PROVE  EpAfter(i, q) \o QueueAfter(i, q) \o p = ep[i] \o q \o p
<1>1. CASE CanFlush(i, q)
  <2>1. q # <<>> /\ ep[i] = <<>>
    BY <1>1 DEF CanFlush, Ready
  <2>2. QED
    BY <1>1, <2>1, FlushLine DEF EpAfter, QueueAfter
<1>2. CASE ~CanFlush(i, q)
  BY <1>2 DEF EpAfter, QueueAfter
<1>3. QED
  BY <1>1, <1>2

LEMMA EnqueuedLine ==
  ASSUME TypeOK, NEW i \in Itf, NEW it \in Item, Enqueue(i, it)
  PROVE  /\ ep'[i] \o queue'[i] \o <<>> = Append(ep[i] \o queue[i] \o <<>>, it)
         /\ ep'[i] \o queue'[i] \o <<>> = ep[i] \o queue[i] \o <<it>>
         /\ \A j \in Itf \ {i} : ep'[j] = ep[j] /\ queue'[j] = queue[j]
<1> DEFINE q == Append(queue[i], it)
<1>1. q \in Seq(Item) /\ <<>> \in Seq(Item)
  BY PartsIs, AppendProperties, EmptySeq
<1>2. EpAfter(i, q) \o QueueAfter(i, q) \o <<>> = ep[i] \o q \o <<>>
  <2> HIDE DEF q
  <2>1. QED
    BY <1>1, FlushedLine
<1>3. /\ ep[i] \o q \o <<>> = Append(ep[i] \o queue[i] \o <<>>, it)
      /\ ep[i] \o queue[i] \o <<it>> = Append(ep[i] \o queue[i] \o <<>>, it)
  <2>1. ep[i] \in Seq(Item) /\ queue[i] \in Seq(Item)
    BY PartsIs
  <2>2. QED
    BY <2>1, ReportLines, Zenon DEF q
<1>4. /\ queue' = [queue EXCEPT ![i] = QueueAfter(i, q)]
      /\ ep' = [ep EXCEPT ![i] = EpAfter(i, q)]
  BY DEF Enqueue
<1> HIDE DEF q
<1>5. queue'[i] = QueueAfter(i, q) /\ ep'[i] = EpAfter(i, q)
      /\ \A j \in Itf \ {i} : ep'[j] = ep[j] /\ queue'[j] = queue[j]
  BY <1>4 DEF TypeOK, QueueOK, EpOK
<1>6. QED
  BY <1>2, <1>3, <1>5

LEMMA OverwrittenLine ==
  ASSUME TypeOK, NEW i \in Itf, NEW it \in Item, IsFull(i), Overwrite(i, it)
  PROVE  LET line  == ep[i] \o queue[i] \o <<>>
             held  == ep[i] \o queue[i] \o <<it>>
             after == ep'[i] \o queue'[i] \o <<>>
         IN  /\ Len(line) >= Capacity /\ Len(held) > Capacity
             /\ after = [line EXCEPT ![Len(line)] = it]
             /\ after = Append(SubSeq(held, 1, Len(held) - 2), held[Len(held)])
             /\ \A j \in Itf \ {i} : ep'[j] = ep[j] /\ queue'[j] = queue[j]
<1>1. /\ queue[i] \in Seq(Item) /\ ep[i] \in Seq(Item) /\ queue[i] # <<>>
      /\ Len(queue[i]) >= Capacity /\ Len(queue[i]) \in Nat /\ Len(ep[i]) \in Nat
  BY PartsIs, CapacityAssumption, EmptySeq, LenProperties DEF IsFull
<1>2. queue'[i] = [queue[i] EXCEPT ![Len(queue[i])] = it] /\ ep' = ep
      /\ \A j \in Itf \ {i} : queue'[j] = queue[j]
  BY DEF Overwrite, TypeOK, QueueOK
<1> DEFINE e == ep[i]
           q == queue[i]
<1>3. queue'[i] = [q EXCEPT ![Len(q)] = it] /\ ep'[i] = e
  BY <1>2
<1>t. e \in Seq(Item) /\ q \in Seq(Item) /\ q # <<>> /\ Len(q) >= Capacity
  BY <1>1
<1> HIDE DEF e, q
<1>4. /\ Len(e \o q \o <<>>) >= Capacity
      /\ e \o [q EXCEPT ![Len(q)] = it] \o <<>>
           = [e \o q \o <<>> EXCEPT ![Len(e \o q \o <<>>)] = it]
      /\ Len(e \o q \o <<it>>) > Capacity
      /\ e \o [q EXCEPT ![Len(q)] = it] \o <<>>
           = Append(SubSeq(e \o q \o <<it>>, 1, Len(e \o q \o <<it>>) - 2),
                    (e \o q \o <<it>>)[Len(e \o q \o <<it>>)])
  BY ZenonT(30), <1>t, FullLine
<1>5. /\ Len(e \o q \o <<>>) >= Capacity /\ Len(e \o q \o <<it>>) > Capacity
      /\ ep'[i] \o queue'[i] \o <<>> = [e \o q \o <<>> EXCEPT ![Len(e \o q \o <<>>)] = it]
      /\ ep'[i] \o queue'[i] \o <<>>
           = Append(SubSeq(e \o q \o <<it>>, 1, Len(e \o q \o <<it>>) - 2),
                    (e \o q \o <<it>>)[Len(e \o q \o <<it>>)])
  BY <1>3, <1>4, Zenon
<1>6. \A j \in Itf \ {i} : ep'[j] = ep[j] /\ queue'[j] = queue[j]
  BY <1>2, Zenon
<1>7. QED
  BY <1>5, <1>6, Zenon DEF e, q

(* A request: it joins its line, takes the place of the newest, or is      *)
(* swallowed while the output is cut.                                      *)
LEMMA SubmitRefines ==
  ASSUME TypeOK, IsIdle, NEW it \in Item, Submit(it)
  PROVE  [Outbox!Next]_(Outbox!vars)
<1> DEFINE i == ItfOf(it.id)
<1>1. i \in Itf /\ wait = <<>> /\ host' = host /\ \A j \in Itf : Pending(j) = <<>>
  BY ItemFacts DEF IsIdle, Submit, Pending
<1>2. Outbox!Item = Item
  BY DEF Outbox!Item, Item
<1>3. CASE ~out_enable /\ UNCHANGED <<queue, ep, wait>>
  <2>1. \A j \in Itf : Line(j)' = Line(j)
    BY <1>3 DEF Line, Pending, WaitItf
  <2>2. QED
    BY <1>1, <2>1, NoLine DEF Outbox!vars
<1>4. CASE Enqueue(i, it) /\ UNCHANGED wait
  <2>1. /\ ep'[i] \o queue'[i] \o <<>> = Append(ep[i] \o queue[i] \o <<>>, it)
        /\ \A j \in Itf \ {i} : ep'[j] = ep[j] /\ queue'[j] = queue[j]
    BY <1>1, <1>4, EnqueuedLine
  <2>2. \A j \in Itf : Pending(j)' = <<>>
    BY <1>1, <1>4 DEF Pending
  <2>3. Line(i)' = Append(AllLines[i], it) /\ \A j \in Itf \ {i} : Line(j)' = Line(j)
    BY <1>1, <2>1, <2>2, PartsIs DEF Line
  <2> HIDE DEF i
  <2>4. AllLines' = [AllLines EXCEPT ![i] = Append(AllLines[i], it)]
    BY <1>1, <2>3, OneLine
  <2>5. Outbox!Accept(i, it)
    BY <1>1, <2>4 DEF Outbox!Accept
  <2>6. QED
    BY <1>1, <1>2, <2>5 DEF Outbox!Next
<1>5. CASE wait' = <<it>> /\ UNCHANGED <<queue, ep>>
  <2>1. Pending(i)' = <<it>> /\ \A j \in Itf \ {i} : Pending(j)' = <<>>
    BY <1>5 DEF Pending, WaitItf
  <2>2. ep[i] \o queue[i] \o <<it>> = Append(ep[i] \o queue[i] \o <<>>, it)
    <3>1. ep[i] \in Seq(Item) /\ queue[i] \in Seq(Item)
      BY <1>1, PartsIs
    <3>2. QED
      BY <3>1, ReportLines, Zenon
  <2>3. Line(i)' = Append(AllLines[i], it) /\ \A j \in Itf \ {i} : Line(j)' = Line(j)
    BY <1>1, <1>5, <2>1, <2>2, PartsIs DEF Line
  <2> HIDE DEF i
  <2>4. AllLines' = [AllLines EXCEPT ![i] = Append(AllLines[i], it)]
    BY <1>1, <2>3, OneLine
  <2>5. Outbox!Accept(i, it)
    BY <1>1, <2>4 DEF Outbox!Accept
  <2>6. QED
    BY <1>1, <1>2, <2>5 DEF Outbox!Next
<1>6. CASE IsFull(i) /\ Overwrite(i, it) /\ UNCHANGED wait
  <2>1. /\ Len(ep[i] \o queue[i] \o <<>>) >= Capacity
        /\ ep'[i] \o queue'[i] \o <<>>
             = [ep[i] \o queue[i] \o <<>> EXCEPT ![Len(ep[i] \o queue[i] \o <<>>)] = it]
        /\ \A j \in Itf \ {i} : ep'[j] = ep[j] /\ queue'[j] = queue[j]
    BY <1>1, <1>6, OverwrittenLine
  <2>2. \A j \in Itf : Pending(j)' = <<>>
    BY <1>1, <1>6 DEF Pending
  <2>3. /\ Line(i)' = [AllLines[i] EXCEPT ![Len(AllLines[i])] = it]
        /\ Len(AllLines[i]) >= Capacity
        /\ \A j \in Itf \ {i} : Line(j)' = Line(j)
    BY <1>1, <2>1, <2>2, PartsIs DEF Line
  <2> HIDE DEF i
  <2>4. AllLines' = [AllLines EXCEPT ![i] = [AllLines[i] EXCEPT ![Len(AllLines[i])] = it]]
    BY <1>1, <2>3, OneLine
  <2>5. Outbox!Replace(i, it)
    BY <1>1, <2>3, <2>4 DEF Outbox!Replace
  <2>6. QED
    BY <1>1, <1>2, <2>5 DEF Outbox!Next
<1>7. QED
  BY <1>3, <1>4, <1>5, <1>6 DEF Submit

(* The endpoint alone, the line without it, and the whole line, when       *)
(* nothing waits in the ring and no sender holds a report.                 *)
LEMMA EndpointLine ==
  ASSUME TypeOK, NEW i \in Itf
  PROVE  /\ ep[i] = <<>> => ep[i] \o <<>> \o <<>> = <<>>
         /\ ep[i] # <<>> =>
              /\ Line(i) # <<>>
              /\ ep[i] \o <<>> \o <<>> = <<Head(Line(i))>>
              /\ Head(Line(i)) = ep[i][1]
              /\ Tail(Line(i)) = <<>> \o queue[i] \o Pending(i)
<1> DEFINE q == queue[i]
           p == Pending(i)
<1>1. q \in Seq(Item) /\ p \in Seq(Item) /\ (ep[i] = <<>> \/ \E it \in Item : ep[i] = <<it>>)
  BY PartsIs
<1> HIDE DEF q, p
<1>2. CASE ep[i] = <<>>
  BY <1>2
<1>3. CASE ep[i] # <<>>
  <2>1. PICK it \in Item : ep[i] = <<it>>
    BY <1>1, <1>3
  <2> DEFINE l == <<it>> \o q \o p
             r == <<>> \o q \o p
  <2>2. Line(i) = l
    BY <2>1, Zenon DEF Line, q, p
  <2>3. <<it>> \in Seq(Item) /\ Len(<<it>>) = 1 /\ <<it>>[1] = it /\ <<>> \in Seq(Item) /\ Len(<<>>) = 0
        /\ Len(q) \in Nat /\ Len(p) \in Nat
    BY <1>1, LenProperties
  <2>4. /\ l \in Seq(Item) /\ Len(l) = 1 + Len(q) + Len(p)
        /\ \A k \in 1..(1 + Len(q) + Len(p)) :
             l[k] = IF k <= 1 THEN <<it>>[k]
                    ELSE IF k <= 1 + Len(q) THEN q[k - 1] ELSE p[k - 1 - Len(q)]
    BY <1>1, <2>3, CatIs
  <2>5. /\ r \in Seq(Item) /\ Len(r) = Len(q) + Len(p)
        /\ \A k \in 1..(Len(q) + Len(p)) :
             r[k] = IF k <= 0 THEN <<>>[k] ELSE IF k <= Len(q) THEN q[k - 0] ELSE p[k - 0 - Len(q)]
    BY <1>1, <2>3, CatIs
  <2> HIDE DEF l, r
  <2>6. l # <<>> /\ l[1] = it /\ Head(l) = l[1]
    <3>1. Len(l) \in Nat /\ Len(l) # 0 /\ 1 \in 1..(1 + Len(q) + Len(p))
      BY <2>3, <2>4
    <3>2. QED
      BY <2>3, <2>4, <3>1
  <2>7. Tail(l) \in Seq(Item) /\ Len(Tail(l)) = Len(q) + Len(p)
        /\ \A k \in 1..(Len(q) + Len(p)) : Tail(l)[k] = l[k + 1]
    <3>1. Tail(l) \in Seq(Item) /\ Len(Tail(l)) = Len(l) - 1
          /\ \A k \in 1..Len(Tail(l)) : Tail(l)[k] = l[k + 1]
      BY <2>4, <2>6, HeadTailProperties
    <3>2. Len(Tail(l)) = Len(q) + Len(p)
      BY <2>3, <2>4, <3>1
    <3>3. QED
      BY <3>1, <3>2
  <2>8. ASSUME NEW k \in 1..(Len(q) + Len(p)) PROVE Tail(l)[k] = r[k]
    <3>1. k + 1 \in 1..(1 + Len(q) + Len(p)) /\ ~(k + 1 <= 1) /\ ~(k <= 0)
          /\ (k + 1 <= 1 + Len(q) <=> k <= Len(q)) /\ k + 1 - 1 = k - 0
          /\ k + 1 - 1 - Len(q) = k - 0 - Len(q)
      BY <2>3
    <3>2. l[k + 1] = IF k <= Len(q) THEN q[k - 0] ELSE p[k - 0 - Len(q)]
      BY <2>4, <3>1
    <3>3. r[k] = IF k <= Len(q) THEN q[k - 0] ELSE p[k - 0 - Len(q)]
      BY <2>5, <3>1
    <3>4. QED
      BY <2>7, <3>2, <3>3
  <2>9. Tail(l) = r
    BY <2>5, <2>7, <2>8, SeqEqual
  <2>10. ep[i] \o <<>> \o <<>> = <<it>> /\ ep[i][1] = it
    BY <2>1, <2>3, ConcatEmptySeq
  <2>11. Head(Line(i)) = it
    BY <2>2, <2>6
  <2>12. Tail(Line(i)) = <<>> \o queue[i] \o Pending(i)
    BY <2>2, <2>9, Zenon DEF r, q, p
  <2>13. QED
    BY <1>3, <2>2, <2>6, <2>10, <2>11, <2>12
<1>4. QED
  BY <1>2, <1>3

LEMMA StepRefines == IInv /\ [Next]_vars => [Outbox!Next]_(Outbox!vars)
<1> SUFFICES ASSUME IInv, [Next]_vars PROVE [Outbox!Next]_(Outbox!vars)
  OBVIOUS
<1>t. TypeOK
  BY DEF IInv
<1>s. ASSUME \A j \in Itf : Line(j)' = Line(j), host' = host PROVE [Outbox!Next]_(Outbox!vars)
  BY <1>s, NoLine DEF Outbox!vars
<1>1. ASSUME NEW r \in Data, SendKeyboard(r) PROVE [Outbox!Next]_(Outbox!vars)
  <2>1. [id |-> KbdId, data |-> r] \in Item
    BY DEF Item, Id
  <2>2. QED
    BY <1>1, <1>t, <2>1, SubmitRefines DEF SendKeyboard
<1>2. ASSUME NEW it \in ItemOf("extra"), SendExtra(it) PROVE [Outbox!Next]_(Outbox!vars)
  <2>1. it \in Item
    BY ItemOfFacts DEF Itf
  <2>2. QED
    BY <1>2, <1>t, <2>1, SubmitRefines DEF SendExtra
<1>3. CASE WaitFlush
  <2> DEFINE i == WaitItf
  <2>1. /\ wait # <<>> /\ wait' = wait /\ host' = host
        /\ queue' = [queue EXCEPT ![i] = QueueAfter(i, queue[i])]
        /\ ep' = [ep EXCEPT ![i] = EpAfter(i, queue[i])]
    BY <1>3 DEF WaitFlush
  <2>2. i \in Itf
    BY <1>t, <2>1, PartsIs DEF Itf
  <2>3. \A j \in Itf : Pending(j)' = Pending(j)
    BY <2>1 DEF Pending, WaitItf
  <2> HIDE DEF i
  <2>4. EpAfter(i, queue[i]) \o QueueAfter(i, queue[i]) \o Pending(i) = ep[i] \o queue[i] \o Pending(i)
    <3>1. queue[i] \in Seq(Item) /\ Pending(i) \in Seq(Item)
      BY <1>t, <2>2, PartsIs
    <3>2. QED
      BY <1>t, <2>2, <3>1, FlushedLine
  <2>5. /\ ep'[i] = EpAfter(i, queue[i]) /\ queue'[i] = QueueAfter(i, queue[i])
        /\ \A j \in Itf \ {i} : ep'[j] = ep[j] /\ queue'[j] = queue[j]
    BY <1>t, <2>1, <2>2 DEF TypeOK, QueueOK, EpOK
  <2>6. \A j \in Itf : Line(j)' = Line(j)
    BY <2>3, <2>4, <2>5 DEF Line
  <2>7. QED
    BY <1>s, <2>1, <2>6
<1>w. ASSUME wait # <<>>, wait' = <<>>
      PROVE  /\ WaitItf \in Itf /\ wait[1] \in Item
             /\ Line(WaitItf) = ep[WaitItf] \o queue[WaitItf] \o <<wait[1]>>
             /\ \A j \in Itf : Line(j)' = ep'[j] \o queue'[j] \o <<>>
             /\ \A j \in Itf \ {WaitItf} : Line(j) = ep[j] \o queue[j] \o <<>>
  <2>1. WaitItf \in Itf /\ wait[1] \in Item /\ wait = <<wait[1]>>
    BY <1>t, <1>w, PartsIs DEF Itf
  <2>2. Pending(WaitItf) = <<wait[1]>> /\ \A j \in Itf \ {WaitItf} : Pending(j) = <<>>
    BY <1>w, <2>1 DEF Pending
  <2>3. \A j \in Itf : Pending(j)' = <<>>
    BY <1>w DEF Pending
  <2>4. QED
    BY <2>1, <2>2, <2>3, Zenon DEF Line
<1>4. CASE WaitEndRoom
  <2> DEFINE i == WaitItf
  <2>1. wait # <<>> /\ wait' = <<>> /\ host' = host /\ Enqueue(i, wait[1])
    BY <1>4 DEF WaitEndRoom
  <2>2. /\ i \in Itf /\ wait[1] \in Item
        /\ Line(i) = ep[i] \o queue[i] \o <<wait[1]>>
        /\ \A j \in Itf : Line(j)' = ep'[j] \o queue'[j] \o <<>>
        /\ \A j \in Itf \ {i} : Line(j) = ep[j] \o queue[j] \o <<>>
    BY <1>w, <2>1
  <2> HIDE DEF i
  <2>3. /\ ep'[i] \o queue'[i] \o <<>> = ep[i] \o queue[i] \o <<wait[1]>>
        /\ \A j \in Itf \ {i} : ep'[j] = ep[j] /\ queue'[j] = queue[j]
    BY <1>t, <2>1, <2>2, EnqueuedLine
  <2>4. \A j \in Itf : Line(j)' = Line(j)
    BY <2>2, <2>3
  <2>5. QED
    BY <1>s, <2>1, <2>4
<1>5. CASE WaitEndTimeout
  <2>0. PICK i : i = WaitItf
    OBVIOUS
  <2>1. wait # <<>> /\ wait' = <<>> /\ host' = host /\ IsFull(i) /\ Overwrite(i, wait[1])
    BY <1>5, <2>0 DEF WaitEndTimeout
  <2>2. /\ i \in Itf /\ wait[1] \in Item
        /\ Line(i) = ep[i] \o queue[i] \o <<wait[1]>>
        /\ \A j \in Itf : Line(j)' = ep'[j] \o queue'[j] \o <<>>
        /\ \A j \in Itf \ {i} : Line(j) = ep[j] \o queue[j] \o <<>>
    BY <1>w, <2>0, <2>1
  <2>3. /\ Len(Line(i)) > Capacity
        /\ Line(i)' = Append(SubSeq(Line(i), 1, Len(Line(i)) - 2), Line(i)[Len(Line(i))])
        /\ \A j \in Itf \ {i} : ep'[j] = ep[j] /\ queue'[j] = queue[j]
    <3> DEFINE held == ep[i] \o queue[i] \o <<wait[1]>>
    <3>1. /\ Len(held) > Capacity
          /\ ep'[i] \o queue'[i] \o <<>> = Append(SubSeq(held, 1, Len(held) - 2), held[Len(held)])
          /\ \A j \in Itf \ {i} : ep'[j] = ep[j] /\ queue'[j] = queue[j]
      BY <1>t, <2>1, <2>2, OverwrittenLine
    <3>2. Line(i) = held /\ Line(i)' = ep'[i] \o queue'[i] \o <<>>
      BY <2>2, Zenon
    <3> HIDE DEF held
    <3>3. QED
      BY <3>1, <3>2, Zenon
  <2>4. \A j \in Itf \ {i} : Line(j)' = Line(j)
    BY <2>2, <2>3
  <2>5. AllLines[i] = Line(i)
    BY <2>2 DEF AllLines
  <2>6. AllLines' = [AllLines EXCEPT ![i] = Append(SubSeq(AllLines[i], 1, Len(AllLines[i]) - 2),
                                                  AllLines[i][Len(AllLines[i])])]
    <3> DEFINE new == Append(SubSeq(Line(i), 1, Len(Line(i)) - 2), Line(i)[Len(Line(i))])
    <3>1. Line(i)' = new
      BY <2>3
    <3> HIDE DEF new
    <3>2. AllLines' = [AllLines EXCEPT ![i] = new]
      BY <2>2, <2>4, <3>1, OneLine
    <3>3. QED
      BY <2>5, <3>2, Zenon DEF new
  <2>7. Outbox!Squeeze(i)
    BY <2>1, <2>3, <2>5, <2>6 DEF Outbox!Squeeze
  <2>8. QED
    BY <2>2, <2>7 DEF Outbox!Next
<1>6. CASE Update
  <2>1. /\ wait = <<>> /\ wait' = wait /\ host' = host
        /\ queue' = [i \in Itf |-> QueueAfter(i, queue[i])]
        /\ ep' = [i \in Itf |-> EpAfter(i, queue[i])]
    BY <1>6 DEF Update, IsIdle
  <2>2. ASSUME NEW j \in Itf PROVE Line(j)' = Line(j)
    <3>1. queue[j] \in Seq(Item) /\ Pending(j) \in Seq(Item) /\ Pending(j)' = Pending(j)
      BY <1>t, <2>1, PartsIs DEF Pending
    <3>2. EpAfter(j, queue[j]) \o QueueAfter(j, queue[j]) \o Pending(j) = ep[j] \o queue[j] \o Pending(j)
      BY <1>t, <3>1, FlushedLine
    <3>3. QED
      BY <2>1, <3>1, <3>2 DEF Line
  <2>3. QED
    BY <1>s, <2>1, <2>2
<1>7. ASSUME NEW enable \in BOOLEAN, SetOutput(enable) PROVE [Outbox!Next]_(Outbox!vars)
  <2>1. /\ wait = <<>> /\ wait' = wait /\ host' = host /\ ep' = ep
        /\ queue' = IF enable THEN queue ELSE [i \in Itf |-> <<>>]
    BY <1>7 DEF SetOutput, IsIdle
  <2>2. CASE enable
    <3>1. \A j \in Itf : Line(j)' = Line(j)
      BY <2>1, <2>2 DEF Line, Pending
    <3>2. QED
      BY <1>s, <2>1, <3>1
  <2>3. CASE ~enable
    <3> DEFINE sent == {i \in Itf : ep[i] # <<>>}
    <3>1. \A j \in Itf : Line(j)' = ep[j] \o <<>> \o <<>>
      BY <2>1, <2>3 DEF Line, Pending
    <3>2. \A j \in Itf : Line(j)' = IF j \in sent THEN <<Head(Line(j))>> ELSE <<>>
      BY <1>t, <3>1, EndpointLine
    <3>3. \A j \in Itf : AllLines[j] = Line(j)
      BY DEF AllLines
    <3>4. \A j \in sent : AllLines[j] # <<>>
      BY <1>t, <3>3, EndpointLine
    <3>5. AllLines' = [j \in Itf |-> IF j \in sent THEN <<Head(AllLines[j])>> ELSE <<>>]
      <4> HIDE DEF sent
      <4>1. QED
        BY <3>2, <3>3 DEF AllLines
    <3>6. sent \in SUBSET Itf
      OBVIOUS
    <3> HIDE DEF sent
    <3>7. Outbox!Cut
      BY <2>1, <3>4, <3>5, <3>6 DEF Outbox!Cut
    <3>8. QED
      BY <3>7 DEF Outbox!Next
  <2>4. QED
    BY <2>2, <2>3
<1>8. ASSUME NEW i \in Itf, HostTake(i) PROVE [Outbox!Next]_(Outbox!vars)
  <2>1. /\ ep[i] # <<>> /\ host' = [host EXCEPT ![ep[i][1].id] = ep[i][1].data]
        /\ ep' = [ep EXCEPT ![i] = <<>>] /\ queue' = queue /\ wait' = wait
    BY <1>8 DEF HostTake
  <2>2. /\ Line(i) # <<>> /\ Head(Line(i)) = ep[i][1]
        /\ Tail(Line(i)) = <<>> \o queue[i] \o Pending(i)
    BY <1>t, <2>1, EndpointLine
  <2>3. ep'[i] = <<>> /\ \A j \in Itf \ {i} : ep'[j] = ep[j]
    BY <1>t, <2>1 DEF TypeOK, EpOK
  <2>4. \A j \in Itf : Pending(j)' = Pending(j)
    BY <2>1 DEF Pending, WaitItf
  <2>5. Line(i)' = Tail(Line(i)) /\ \A j \in Itf \ {i} : Line(j)' = Line(j)
    BY <2>1, <2>2, <2>3, <2>4 DEF Line
  <2>6. AllLines[i] = Line(i)
    BY DEF AllLines
  <2>7. AllLines' = [AllLines EXCEPT ![i] = Tail(AllLines[i])]
    BY <2>5, <2>6, OneLine
  <2>8. Outbox!Deliver(i)
    BY <2>1, <2>2, <2>6, <2>7 DEF Outbox!Deliver
  <2>9. QED
    BY <2>8 DEF Outbox!Next
<1>9. CASE Mount
  <2>1. /\ ~mounted /\ host' = host /\ ep' = ep /\ wait' = wait /\ queue' = [i \in Itf |-> <<>>]
    BY <1>9 DEF Mount
  <2>2. \A j \in Itf : ep[j] = <<>>
    BY <2>1 DEF IInv, Detached
  <2> DEFINE fresh == {j \in Itf : Pending(j) # <<>>}
  <2>3. ASSUME NEW j \in Itf
        PROVE  /\ Line(j)' = IF j \in fresh THEN <<Line(j)[Len(Line(j))]>> ELSE <<>>
               /\ j \in fresh => Line(j) # <<>>
    <3>1. Line(j)' = <<>> \o <<>> \o Pending(j)
      BY <2>1, <2>2 DEF Line, Pending, WaitItf
    <3>2. CASE Pending(j) = <<>>
      <4>1. Line(j)' = <<>>
        BY <3>1, <3>2
      <4>2. QED
        BY <3>2, <4>1
    <3>3. CASE Pending(j) # <<>>
      <4>1. PICK it \in Item : Pending(j) = <<it>>
        BY <1>t, <3>3, PartsIs DEF Pending
      <4>2. <<>> \in Seq(Item) /\ <<it>> \in Seq(Item) /\ queue[j] \in Seq(Item)
        BY <1>t, PartsIs
      <4>3. Line(j)' = <<it>>
        BY <3>1, <4>1, <4>2, ConcatEmptySeq
      <4>4. Line(j) = <<>> \o queue[j] \o <<it>>
        BY <2>2, <4>1 DEF Line
      <4>5. <<>> \o queue[j] \o <<it>> = Append(<<>> \o queue[j] \o <<>>, it)
        BY <4>2, ReportLines
      <4>6. <<>> \o queue[j] \o <<>> \in Seq(Item)
        BY <4>2, CatIs
      <4>7. Line(j) # <<>> /\ Line(j)[Len(Line(j))] = it
        BY <4>4, <4>5, <4>6, AppendType
      <4>8. QED
        BY <3>3, <4>3, <4>7
    <3>4. QED
      BY <3>2, <3>3
  <2>4. fresh \in SUBSET Itf
    OBVIOUS
  <2> HIDE DEF fresh
  <2>5. \A j \in Itf : AllLines[j] = Line(j)
    BY DEF AllLines
  <2>6. AllLines' = [j \in Itf |-> IF j \in fresh THEN <<AllLines[j][Len(AllLines[j])]>> ELSE <<>>]
    BY <2>3, <2>5 DEF AllLines
  <2>7. \A j \in fresh : AllLines[j] # <<>>
    BY <2>3, <2>4, <2>5
  <2>8. Outbox!Enumerated
    BY <2>1, <2>4, <2>6, <2>7 DEF Outbox!Enumerated
  <2>9. QED
    BY <2>8 DEF Outbox!Next
<1>10. CASE BusReset
  <2>1. /\ host' = [id \in Id |-> Blank] /\ ep' = [i \in Itf |-> <<>>] /\ queue' = queue
        /\ wait' = wait
    BY <1>10 DEF BusReset
  <2> DEFINE sent == {j \in Itf : ep[j] # <<>>}
  <2>2. \A j \in Itf : Line(j)' = <<>> \o queue[j] \o Pending(j)
    BY <2>1 DEF Line, Pending, WaitItf
  <2>3. \A j \in Itf : /\ Line(j)' = IF j \in sent THEN Tail(Line(j)) ELSE Line(j)
                       /\ j \in sent => Line(j) # <<>>
    <3>1. \A j \in Itf : ep[j] = <<>> => Line(j) = <<>> \o queue[j] \o Pending(j)
      BY DEF Line
    <3>2. QED
      BY <1>t, <2>2, <3>1, EndpointLine
  <2>4. sent \in SUBSET Itf
    OBVIOUS
  <2> HIDE DEF sent
  <2>5. \A j \in Itf : AllLines[j] = Line(j)
    BY DEF AllLines
  <2>6. AllLines' = [j \in Itf |-> IF j \in sent THEN Tail(AllLines[j]) ELSE AllLines[j]]
    BY <2>3, <2>5 DEF AllLines
  <2>7. \A j \in sent : AllLines[j] # <<>>
    BY <2>3, <2>4, <2>5
  <2>8. Outbox!BusLost
    BY <2>1, <2>4, <2>6, <2>7 DEF Outbox!BusLost
  <2>9. QED
    BY <2>8 DEF Outbox!Next
<1>11. CASE UNCHANGED <<queue, ep, wait, host>>
  <2>1. \A j \in Itf : Line(j)' = Line(j)
    BY <1>11 DEF Line, Pending, WaitItf
  <2>2. QED
    BY <1>11, <1>s, <2>1
<1>12. QED
  BY <1>1, <1>2, <1>3, <1>4, <1>5, <1>6, <1>7, <1>8, <1>9, <1>10, <1>11
  DEF Next, SendKeyboardSame, Suspend, Resume, vars

(* The queues of usbd_hid.c keep what the outbox promises: reports reach   *)
(* the PC in the order in which they were asked for, and are lost only     *)
(* where HidOutbox names it, whatever the endpoint, the wait for room, a   *)
(* suspend or a cut of the output do.                                      *)
THEOREM ImplementsOutboxHolds == Spec => ImplementsOutbox
<1>1. Init => Outbox!Init
  <2>1. Init => \A i \in Itf : Line(i) = <<>>
    BY DEF Init, Line, Pending
  <2>2. QED
    BY <2>1 DEF Init, Outbox!Init, AllLines
<1>2. QED
  BY <1>1, StepRefines, Invariance, PTL DEF Spec, ImplementsOutbox, Outbox!Spec

-------------------------------------------------------------------------------
(* usb.c: the re-enumeration state machine.  The inductive invariant: a    *)
(* scheduled id is always the one of the slot that was applied last, in    *)
(* the gap the descriptor already has it or a newer request is armed, and  *)
(* the clock that usbPostponeReenum restarts is never ahead of the silence *)
(* of the tool unless a command waits.                                     *)

Scheduled ==
  reenum_state # "IDLE" => slot_pre # -2 /\ reenum_pid = PidOf(slot_pre)
GapHasPid == reenum_state = "GAP" => desc_pid = reenum_pid
Applied   == slot_pre # -2 => profile = slot_pre + 1
IdlePid   == reenum_state = "IDLE" /\ slot_pre # -2 => desc_pid = PidOf(slot_pre)
Held      == boot_hold => ~attached /\ reenum_state = "IDLE"
TalkOK    == raw \/ talk_age <= quiet

ReenumInv ==
  /\ ReenumTypeOK
  /\ Scheduled /\ GapHasPid /\ Applied /\ IdlePid
  /\ Held /\ HostSeesDescriptor /\ DetachedOnTheWay
  /\ TalkOK

-------------------------------------------------------------------------------
(* A product id is a natural number, so it is neither NoHost nor -2.       *)
LEMMA PidType == \A s \in Slot : PidOf(s) \in Pid /\ PidOf(s) \in Nat
  BY LimitAssumption, PidAssumption DEF Slot, Pid, PidOf

LEMMA OlderType ==
  ASSUME NEW limit \in Nat, NEW age \in 0 .. limit
  PROVE  Older(age, limit) \in 0 .. limit
  BY DEF Older

(* Two clocks with one limit stay in order.                                *)
LEMMA OlderOrder ==
  ASSUME NEW limit \in Nat, NEW a \in 0 .. limit, NEW b \in 0 .. limit, a <= b
  PROVE  Older(a, limit) <= Older(b, limit)
  BY DEF Older

LEMMA ReenumInitInv == ReenumInit => ReenumInv
  <1> SUFFICES ASSUME ReenumInit PROVE ReenumInv
    OBVIOUS
  <1>1. -1 \in Slot /\ PidOf(-1) = HW_USB_PID
    BY LimitAssumption DEF Slot, PidOf
  <1>2. HW_USB_PID \in Pid
    BY <1>1, PidType
  <1>3. ReenumTypeOK
    <2>1. FlagsOK
      BY DEF ReenumInit, FlagsOK
    <2>2. ValuesOK
      BY <1>1, <1>2, LimitAssumption DEF ReenumInit, ValuesOK
    <2> QED
      BY <2>1, <2>2 DEF ReenumTypeOK
  <1> QED
    BY <1>3, LimitAssumption DEF ReenumInit, ReenumInv, Scheduled, GapHasPid, Applied, IdlePid,
       Held, HostSeesDescriptor, DetachedOnTheWay, TalkOK

-------------------------------------------------------------------------------
(* The invariant is preserved, one lemma per step of the turn.             *)

LEMMA UsbUpdateInv == ReenumInv /\ UsbUpdate => ReenumInv'
  <1> SUFFICES ASSUME ReenumInv, UsbUpdate PROVE ReenumInv'
    OBVIOUS
  <1> USE DEF ReenumInv, UsbUpdate, slots
  <1>1. CASE BootWait
    BY <1>1 DEF BootWait, usb, pc, ReenumTypeOK, FlagsOK, ValuesOK, Scheduled, GapHasPid, Applied, IdlePid,
       Held, HostSeesDescriptor, DetachedOnTheWay, TalkOK
  <1>2. CASE BootExpire
    BY <1>2 DEF BootExpire, ReenumTypeOK, FlagsOK, ValuesOK, Scheduled, GapHasPid, Applied, IdlePid,
       Held, HostSeesDescriptor, DetachedOnTheWay, TalkOK
  <1>3. CASE Detach
    <2>1. slot_pre \in Slot /\ reenum_pid = PidOf(slot_pre)
      BY <1>3 DEF Detach, CanDetach, Scheduled, ReenumTypeOK, FlagsOK, ValuesOK
    <2>2. ReenumTypeOK'
      BY <1>3, <2>1, PidType DEF Detach, CanDetach, ReenumTypeOK, FlagsOK, ValuesOK
    <2> QED
      BY <1>3, <2>2 DEF Detach, CanDetach, Scheduled, GapHasPid, Applied, IdlePid,
         Held, HostSeesDescriptor, DetachedOnTheWay, TalkOK
  <1>4. CASE Attach
    BY <1>4 DEF Attach, CanAttach, ReenumTypeOK, FlagsOK, ValuesOK, Scheduled, GapHasPid, Applied, IdlePid,
       Held, HostSeesDescriptor, DetachedOnTheWay, TalkOK
  <1>5. CASE Linger
    BY <1>5 DEF Linger, usb, pc, ReenumTypeOK, FlagsOK, ValuesOK, Scheduled, GapHasPid, Applied, IdlePid,
       Held, HostSeesDescriptor, DetachedOnTheWay, TalkOK
  <1> QED
    BY <1>1, <1>2, <1>3, <1>4, <1>5

LEMMA ApplySlotInv == ReenumInv /\ linkKbdApplySlot => ReenumInv'
  <1> SUFFICES ASSUME ReenumInv, linkKbdApplySlot PROVE ReenumInv'
    OBVIOUS
  <1> USE DEF ReenumInv, linkKbdApplySlot, tool
  <1>1. active \in Slot /\ PidOf(active) \in Pid /\ active + 1 \in 0 .. KBD_SLOT_MAX
    BY PidType, LimitAssumption DEF ReenumTypeOK, FlagsOK, ValuesOK, Slot
  <1>2. active # -2
    BY LimitAssumption DEF ReenumTypeOK, FlagsOK, ValuesOK, Slot
  <1>3. CASE slot_pre = active /\ UNCHANGED <<profile, usb, attached>>
    BY <1>3, <1>2 DEF usb, ReenumTypeOK, FlagsOK, ValuesOK, Scheduled, GapHasPid, Applied, IdlePid,
       Held, HostSeesDescriptor, DetachedOnTheWay, TalkOK
  <1>4. CASE profile' = active + 1 /\ SetInHold(PidOf(active))
    <2>1. host_pid = NoHost
      BY <1>4 DEF SetInHold, Held, HostSeesDescriptor
    <2>2. ReenumTypeOK'
      <3>1. FlagsOK'
        BY <1>4 DEF SetInHold, usb, ReenumTypeOK, FlagsOK
      <3>2. ValuesOK'
        BY <1>1, <1>4 DEF SetInHold, usb, ReenumTypeOK, ValuesOK
      <3> QED
        BY <3>1, <3>2 DEF ReenumTypeOK
    <2>3. reenum_state' = "IDLE" /\ desc_pid' = PidOf(active) /\ slot_pre' = active
      BY <1>4 DEF SetInHold, usb, Held
    <2>4. (Scheduled /\ GapHasPid /\ Applied /\ IdlePid)'
      BY <1>4, <2>3 DEF Scheduled, GapHasPid, Applied, IdlePid
    <2>5. Held' /\ DetachedOnTheWay' /\ HostSeesDescriptor'
      <3>1. CASE UNCHANGED <<usb, attached>>
        BY <1>4, <2>1, <3>1 DEF SetInHold, usb, Held, DetachedOnTheWay, HostSeesDescriptor
      <3>2. CASE ~boot_hold' /\ attached'
        BY <2>1, <3>2 DEF Held, DetachedOnTheWay, HostSeesDescriptor
      <3> QED
        BY <1>4, <3>1, <3>2 DEF SetInHold
    <2>6. TalkOK'
      BY DEF TalkOK
    <2> QED
      BY <2>2, <2>4, <2>5, <2>6
  <1>5. CASE profile' = active + 1 /\ ~boot_hold /\ SetIdle(PidOf(active))
    <2>1. ReenumTypeOK'
      BY <1>1, <1>5 DEF SetIdle, usb, ReenumTypeOK, FlagsOK, ValuesOK
    <2> QED
      BY <1>2, <1>5, <2>1 DEF SetIdle, usb, Scheduled, GapHasPid, Applied,
         IdlePid, Held, HostSeesDescriptor, DetachedOnTheWay, TalkOK
  <1>6. CASE profile' = active + 1 /\ ~boot_hold /\ Arm(PidOf(active))
    <2>1. ReenumTypeOK'
      BY <1>1, <1>6 DEF Arm, ReenumTypeOK, FlagsOK, ValuesOK
    <2> QED
      BY <1>2, <1>6, <2>1 DEF Arm, Scheduled, GapHasPid, Applied,
         IdlePid, Held, HostSeesDescriptor, DetachedOnTheWay, TalkOK
  <1> QED
    BY <1>3, <1>4, <1>5, <1>6 DEF usbSetProductId

LEMMA TickInv == ReenumInv /\ Tick => ReenumInv'
  <1> SUFFICES ASSUME ReenumInv, Tick PROVE ReenumInv'
    OBVIOUS
  <1> USE DEF ReenumInv, Tick, slots, pc
  <1>1. /\ boot_age' \in 0 .. USB_BOOT_HOLD_MS
        /\ talk_age' \in 0 .. USB_REENUM_QUIET_MS
        /\ quiet' \in 0 .. USB_REENUM_QUIET_MS
    BY OlderType, LimitAssumption DEF ReenumTypeOK, FlagsOK, ValuesOK
  <1>2. reenum_age' \in Nat
    BY DEF ReenumTypeOK, FlagsOK, ValuesOK, Older
  <1>3. busy_age' \in 0 .. BusyMax
    BY LimitAssumption DEF ReenumTypeOK, FlagsOK, ValuesOK
  <1>4. ReenumTypeOK'
    BY <1>1, <1>2, <1>3 DEF ReenumTypeOK, FlagsOK, ValuesOK
  <1>5. TalkOK'
    BY OlderOrder, LimitAssumption DEF TalkOK, ReenumTypeOK, FlagsOK, ValuesOK
  <1> QED
    BY <1>4, <1>5 DEF Scheduled, GapHasPid, Applied, IdlePid, Held,
       HostSeesDescriptor, DetachedOnTheWay

LEMMA CommandInv == ReenumInv /\ LinkCmdHandle => ReenumInv'
  <1> SUFFICES ASSUME ReenumInv, LinkCmdHandle PROVE ReenumInv'
    OBVIOUS
  <1> USE DEF ReenumInv, LinkCmdHandle, loop, usb, pc
  <1>1. active' \in Slot /\ promised' \in {"none", "yes", "no"}
    BY DEF PlainCommand, SlotCommand, willReenum, ReenumTypeOK, FlagsOK, ValuesOK
  <1>2. talk_age' = 0 /\ ReenumTypeOK'
    <2>1. FlagsOK'
      BY DEF ReenumTypeOK, FlagsOK
    <2>2. talk_age' = 0 /\ ValuesOK'
      BY <1>1, LimitAssumption DEF usbPostponeReenum, ReenumTypeOK, ValuesOK
    <2> QED
      BY <2>1, <2>2 DEF ReenumTypeOK
  <1>3. TalkOK'
    BY <1>2 DEF TalkOK, ReenumTypeOK, FlagsOK, ValuesOK
  <1> QED
    BY <1>2, <1>3 DEF Scheduled, GapHasPid, Applied, IdlePid, Held,
       HostSeesDescriptor, DetachedOnTheWay

LEMMA ReenumNextInv == ReenumInv /\ [ReenumNext]_reenumVars => ReenumInv'
  <1> SUFFICES ASSUME ReenumInv, [ReenumNext]_reenumVars PROVE ReenumInv'
    OBVIOUS
  <1> USE DEF ReenumInv, loop, slots, usb, tool, pc
  <1>1. CASE Receive
    BY <1>1, LimitAssumption DEF Receive, ReenumTypeOK, FlagsOK, ValuesOK, Scheduled, GapHasPid, Applied, IdlePid,
       Held, HostSeesDescriptor, DetachedOnTheWay, TalkOK
  <1>2. CASE Enumerate
    BY <1>2 DEF Enumerate, ReenumTypeOK, FlagsOK, ValuesOK, Scheduled, GapHasPid, Applied, IdlePid,
       Held, HostSeesDescriptor, DetachedOnTheWay, TalkOK
  <1>3. CASE LinkKbdUpdate
    BY <1>3 DEF LinkKbdUpdate, ReenumTypeOK, FlagsOK, ValuesOK, Scheduled, GapHasPid, Applied, IdlePid,
       Held, HostSeesDescriptor, DetachedOnTheWay, TalkOK
  <1>4. CASE QmkRun \/ QmkWait \/ QmkWaitMore \/ QmkWaitEnd
    <2>1. FlagsOK'
      BY <1>4 DEF QmkRun, QmkWait, QmkWaitMore, QmkWaitEnd, ReenumTypeOK, FlagsOK
    <2>2. ValuesOK'
      BY <1>4, LimitAssumption DEF QmkRun, QmkWait, QmkWaitMore, QmkWaitEnd, ReenumTypeOK, ValuesOK
    <2> QED
      BY <1>4, <2>1, <2>2 DEF QmkRun, QmkWait, QmkWaitMore, QmkWaitEnd, ReenumTypeOK, FlagsOK, ValuesOK,
       Scheduled, GapHasPid, Applied, IdlePid,
       Held, HostSeesDescriptor, DetachedOnTheWay, TalkOK
  <1>5. CASE UNCHANGED reenumVars
    BY <1>5 DEF reenumVars, ReenumTypeOK, FlagsOK, ValuesOK, Scheduled, GapHasPid, Applied, IdlePid,
       Held, HostSeesDescriptor, DetachedOnTheWay, TalkOK
  <1> QED
    BY <1>1, <1>2, <1>3, <1>4, <1>5, UsbUpdateInv, ApplySlotInv, TickInv, CommandInv
       DEF ReenumNext, LoopStep

LEMMA ReenumInvariance == ReenumSpec => []ReenumInv
  BY ReenumInitInv, ReenumNextInv, PTL DEF ReenumSpec

-------------------------------------------------------------------------------
(* The state of usb.c and of the slot bookkeeping keeps its types.         *)
THEOREM ReenumTypeCorrect == ReenumSpec => []ReenumTypeOK
  <1>1. ReenumInv => ReenumTypeOK
    BY DEF ReenumInv
  <1> QED
    BY <1>1, ReenumInvariance, PTL

(* With nothing scheduled, descriptor and keymap are those of the slot     *)
(* that was applied last.                                                  *)
THEOREM PidFollowsSlotHolds == ReenumSpec => []PidFollowsSlot
  <1>1. ReenumInv => PidFollowsSlot
    BY DEF ReenumInv, IdlePid, Applied, PidFollowsSlot
  <1> QED
    BY <1>1, ReenumInvariance, PTL

(* The PC never has an id that differs from the descriptor.                *)
THEOREM HostSeesDescriptorHolds == ReenumSpec => []HostSeesDescriptor
  <1>1. ReenumInv => HostSeesDescriptor
    BY DEF ReenumInv
  <1> QED
    BY <1>1, ReenumInvariance, PTL

(* The board is never left detached with nothing due to attach it.         *)
THEOREM DetachedOnTheWayHolds == ReenumSpec => []DetachedOnTheWay
  <1>1. ReenumInv => DetachedOnTheWay
    BY DEF ReenumInv
  <1> QED
    BY <1>1, ReenumInvariance, PTL

(* No disconnect within the quiet time of what the tool sent last, for any *)
(* arm and quiet time and however long QMK waits.                          *)
THEOREM ToolKeepsLinkHolds == ReenumSpec => ToolKeepsLink
  <1> DEFINE Cut == attached /\ ~attached' => quiet >= USB_REENUM_QUIET_MS \/ raw
  <1>1. ReenumInv /\ [ReenumNext]_reenumVars => [Cut]_reenumVars
    <2> SUFFICES ASSUME ReenumInv, ReenumNext, attached, ~attached'
                 PROVE  quiet >= USB_REENUM_QUIET_MS \/ raw
      OBVIOUS
    <2>1. CASE UsbUpdate
      <3>1. Detach
        BY <2>1 DEF UsbUpdate, BootWait, BootExpire, Attach, Linger, pc
      <3> QED
        BY <3>1, LimitAssumption DEF Detach, CanDetach, ReenumInv, TalkOK, ReenumTypeOK, FlagsOK, ValuesOK
    <2>2. CASE linkKbdApplySlot
      BY <2>2 DEF linkKbdApplySlot, usbSetProductId, SetInHold, SetIdle, Arm, ReenumInv, Held
    <2>3. CASE ReenumNext /\ ~UsbUpdate /\ ~linkKbdApplySlot
      BY <2>3 DEF ReenumNext, LoopStep, Receive, Enumerate, Tick, LinkKbdUpdate, LinkCmdHandle,
         QmkRun, QmkWait, QmkWaitMore, QmkWaitEnd, pc
    <2> QED
      BY <2>1, <2>2, <2>3
  <1> QED
    BY <1>1, ReenumInvariance, PTL DEF ReenumSpec, ToolKeepsLink
===============================================================================
