---------------------------- MODULE KbdStore_proofs ----------------------------
(***************************************************************************)
(* Proofs about KbdStore, for every number of slots, every size of the     *)
(* table of selections and every set of keyboards and contents.            *)
(*                                                                         *)
(* The first part does not depend on what the table holds: whatever a      *)
(* compaction keeps or a power cut leaves of it, the store chooses by it   *)
(* again, or stale tells that it did not.  The second part is about what   *)
(* the table keeps (KeepIs, KeptChoice), and shows with it that the table  *)
(* implements SlotChoice.                                                  *)
(***************************************************************************)
EXTENDS KbdStore, TLAPS, FiniteSetTheorems, FunctionTheorems, SequenceTheorems

StoreOK ==
    /\ slot \in [Slots -> Slot]
    /\ slot_buf \in Body /\ sent \in Body
    /\ stage_hdr \in Keyboards \cup {NoKbd}
    /\ stage_open \in BOOLEAN /\ (stage_open => stage_hdr \in Keyboards)
    /\ cur \in Keyboards \cup {NoKbd}
    /\ as_sent \in [Slots -> SUBSET Slot]

\* The active slot is the chosen one, unless stale tells that it may not be ...
Chose == ~stale => active_slot = Chosen(slot, sel, cur)

\* ... and even then it is empty, or the plugged keyboard's, or a test's.
OwnOf(f, s) == f[s].head # NoHeader /\ f[s].head.hash = 0 => f[s].head.kbd = cur
Own == active_slot = -1 \/ (active_slot \in Slots /\ OwnOf(slot, active_slot))

\* The stage buffer holds what was sent, unless the console wrote into it.
Staged == stage_open /\ ~shared => slot_buf = sent

IInv == StoreOK /\ Chose /\ Own /\ Staged /\ CommittedAsSent

-----------------------------------------------------------------------------
(* Every set of naturals that is not empty has a least element.  Induction *)
(* enters through the library's theorem on finite subsets.                 *)
LEMMA LeastIs ==
  ASSUME NEW S, S \subseteq Nat, S # {}
  PROVE  Min(S) \in S /\ \A x \in S : Min(S) <= x
<1> DEFINE Below(x) == 0 .. x
           T == {Below(x) : x \in S}
<1>1. T # {} /\ T \subseteq FiniteSubsetsOf(Nat)
  <2>1. \A x \in S : Below(x) \subseteq Nat /\ IsFiniteSet(Below(x))
    BY FS_Interval
  <2>2. QED
    BY <2>1 DEF FiniteSubsetsOf
<1>2. PICK u \in T : \A v \in T : ~ (<<v, u>> \in StrictSubsetOrdering(Nat))
  <2> HIDE DEF T
  <2>1. QED
    BY <1>1, FS_StrictSubsetOrderingWellFounded, WFMin
<1>3. PICK m \in S : u = Below(m)
  OBVIOUS
<1>4. ASSUME NEW x \in S PROVE m <= x
  <2>1. ~(Below(x) \subseteq Below(m) /\ Below(x) # Below(m))
    <3>1. <<Below(x), Below(m)>> \notin StrictSubsetOrdering(Nat)
      BY <1>2, <1>3
    <3>2. Below(x) \in SUBSET Nat /\ Below(m) \in SUBSET Nat
      OBVIOUS
    <3> HIDE DEF Below
    <3>3. QED
      BY <3>1, <3>2 DEF StrictSubsetOrdering
  <2>2. CASE x < m
    <3>1. m \in Below(m) /\ m \notin Below(x) /\ \A y \in Below(x) : y \in Below(m)
      BY <2>2
    <3>2. QED
      BY <2>1, <3>1
  <2>3. QED
    BY <2>2
<1>5. QED
  BY <1>4 DEF Min

-----------------------------------------------------------------------------
(* What is chosen. *)

LEMMA SlotsFacts == Slots \subseteq Nat /\ -1 \notin Slots
BY StoreAssumption DEF Slots

\* The hash looked for is always 0, which matches no slot by itself.
LEMMA FindIs ==
  ASSUME NEW f, NEW k
  PROVE  kbdStoreFind(f, k, cur_hash) = IF SlotsOf(f, k) # {} THEN Min(SlotsOf(f, k)) ELSE -1
BY DEF kbdStoreFind, cur_hash

LEMMA ChosenFits ==
  ASSUME NEW f \in [Slots -> Slot], NEW t, NEW k \in Keyboards \cup {NoKbd}
  PROVE  /\ Chosen(f, t, k) = -1 \/ Chosen(f, t, k) \in SlotsOf(f, k)
         /\ Chosen(f, t, k) = IF SlotsOf(f, k) = {} THEN -1
                              ELSE IF kbdSelGet(t, k) \in SlotsOf(f, k) THEN kbdSelGet(t, k)
                              ELSE Min(SlotsOf(f, k))
<1>1. SlotsOf(f, k) \subseteq Slots
  BY DEF SlotsOf
<1>2. SlotsOf(f, k) # {} => Min(SlotsOf(f, k)) \in SlotsOf(f, k)
  BY <1>1, SlotsFacts, LeastIs
<1>3. k = NoKbd => SlotsOf(f, k) = {}
  BY StoreAssumption DEF SlotsOf, kbdStoreGetHeader, Slot, Headers
<1>4. QED
  BY <1>2, <1>3, FindIs DEF Chosen

(* The three ways an operation ends. *)
LEMMA SelectKeeps ==
  ASSUME NEW k \in Keyboards \cup {NoKbd}, Select(k), slot' \in [Slots -> Slot]
  PROVE  Chose' /\ Own' /\ cur' \in Keyboards \cup {NoKbd}
<1>1. cur' = k /\ active_slot' = Chosen(slot', sel', k)
  BY DEF Select
<1>2. active_slot' = -1 \/ active_slot' \in SlotsOf(slot', k)
  BY <1>1, ChosenFits
<1>3. QED
  BY <1>1, <1>2 DEF Chose, Own, OwnOf, SlotsOf, kbdStoreGetHeader

LEMMA BootKeeps ==
  ASSUME Boot
  PROVE  /\ Chose' /\ Own' /\ Staged'
         /\ (slot' \in [Slots -> Slot] /\ as_sent' \in [Slots -> SUBSET Slot] => StoreOK')
BY DEF Boot, StageClosed, Chose, Own, Staged, StoreOK, Chosen, Body, Empty

\* What may happen to slots without choosing anew.
Harmless(s) == slot'[s].head = slot[s].head \/ slot'[s].head = NoHeader \/ slot'[s].head.hash = 1

LEMMA OwnKept ==
  ASSUME Own, UNCHANGED <<cur, active_slot>>, \A s \in Slots : Harmless(s)
  PROVE  Own'
<1>1. CASE active_slot = -1
  BY <1>1 DEF Own
<1>2. CASE active_slot \in Slots /\ OwnOf(slot, active_slot)
  <2>1. Harmless(active_slot)
    BY <1>2
  <2>2. OwnOf(slot', active_slot)
    BY <1>2, <2>1 DEF OwnOf, Harmless
  <2>3. QED
    BY <1>2, <2>2 DEF Own, OwnOf
<1>3. QED
  BY <1>1, <1>2 DEF Own

LEMMA NotReselectedKeeps ==
  ASSUME Chose, Own, NotReselected, \A s \in Slots : Harmless(s)
  PROVE  Chose' /\ Own'
<1>1. Own'
  BY OwnKept DEF NotReselected
<1>2. Chose'
  BY DEF NotReselected, Chose
<1>3. QED
  BY <1>1, <1>2

LEMMA ClosedKeeps ==
  ASSUME StageClosed
  PROVE  /\ Staged' /\ slot_buf' \in Body /\ sent' \in Body
         /\ stage_hdr' \in Keyboards \cup {NoKbd} /\ stage_open' \in BOOLEAN /\ ~stage_open'
BY DEF StageClosed, Staged, Body, Empty

LEMMA BurnFacts ==
  ASSUME NEW s \in Slots, NEW head \in Headers, NEW buf \in Body, slot \in [Slots -> Slot]
  PROVE  /\ DOMAIN BurnPhases(s, head, buf) = 1 .. 4
         /\ BurnPhases(s, head, buf)[1] = slot[s]
         /\ BurnPhases(s, head, buf)[2] = Erased
         /\ BurnPhases(s, head, buf)[4] = [head |-> head, body |-> buf]
         /\ \A i \in 1 .. 4 : BurnPhases(s, head, buf)[i] \in Slot
<1>1. Erased \in Slot /\ [buf EXCEPT ![2] = Blank] \in Body
  BY DEF Erased, Slot, Empty, Body, Pages
<1>2. /\ [head |-> head, body |-> [buf EXCEPT ![2] = Blank]] \in Slot
      /\ [head |-> head, body |-> buf] \in Slot
  BY <1>1 DEF Slot
<1>3. DOMAIN BurnPhases(s, head, buf) = 1 .. 4
  BY DEF BurnPhases
<1>4. /\ BurnPhases(s, head, buf)[1] = slot[s]
      /\ BurnPhases(s, head, buf)[2] = Erased
      /\ BurnPhases(s, head, buf)[3] = [head |-> head, body |-> [buf EXCEPT ![2] = Blank]]
      /\ BurnPhases(s, head, buf)[4] = [head |-> head, body |-> buf]
  BY DEF BurnPhases
<1>5. \A i \in 1 .. 4 : i = 1 \/ i = 2 \/ i = 3 \/ i = 4
  OBVIOUS
<1>6. QED
  BY <1>1, <1>2, <1>3, <1>4, <1>5

\* What slot s is known to hold, after it was written with v.
LEMMA SentKept ==
  ASSUME StoreOK, CommittedAsSent, NEW s \in Slots, NEW v, NEW k \in SUBSET Slot,
         slot' = [slot EXCEPT ![s] = v], as_sent' = [as_sent EXCEPT ![s] = k],
         \A x \in k : v.head # NoHeader => v = x
  PROVE  CommittedAsSent' /\ as_sent' \in [Slots -> SUBSET Slot]
BY DEF StoreOK, CommittedAsSent, kbdStoreGetHeader

LEMMA SentSame ==
  ASSUME CommittedAsSent, UNCHANGED <<slot, as_sent>>
  PROVE  CommittedAsSent'
BY DEF CommittedAsSent, kbdStoreGetHeader

-----------------------------------------------------------------------------
LEMMA InvInit == Init => IInv
<1> SUFFICES ASSUME Init PROVE IInv
  OBVIOUS
<1>1. Empty \in Body /\ Erased \in Slot
  BY DEF Erased, Slot, Empty, Body
<1>2. QED
  BY <1>1 DEF Init, IInv, StoreOK, Chose, Chosen, Own, Staged, CommittedAsSent

LEMMA CommitKeeps ==
  ASSUME IInv, NEW s \in Slots, StageCommit(s)
  PROVE  IInv'
<1> DEFINE head == [kbd |-> stage_hdr, hash |-> 0]
           ph   == BurnPhases(s, head, slot_buf)
<1> USE DEF IInv
<1>1. stage_open /\ head \in Headers
  BY DEF StageCommit, StoreOK, Headers
<1>2. /\ DOMAIN ph = 1 .. 4 /\ ph[1] = slot[s] /\ ph[2] = Erased
      /\ ph[4] = [head |-> head, body |-> slot_buf] /\ \A i \in 1 .. 4 : ph[i] \in Slot
  BY <1>1, BurnFacts DEF StoreOK
<1> DEFINE known(i) == IF i = 1 THEN as_sent[s]
                       ELSE IF i = 4 /\ ~shared THEN {[head |-> head, body |-> sent]} ELSE {}
<1>3. PICK i \in 1 .. 4 :
        /\ slot' = [slot EXCEPT ![s] = ph[i]]
        /\ as_sent' = [as_sent EXCEPT ![s] = known(i)]
        /\ \/ i = 4 /\ kbdStoreReselect /\ StageClosed
           \/ i <= 2 /\ NotReselected /\ StageClosed
           \/ i < 4 /\ Boot
  BY <1>2 DEF StageCommit
<1>4. known(i) \in SUBSET Slot /\ \A x \in known(i) : ph[i].head # NoHeader => ph[i] = x
  <2>1. CASE i = 1
    BY <1>2, <2>1 DEF StoreOK, CommittedAsSent, kbdStoreGetHeader
  <2>2. CASE i = 4 /\ ~shared
    <3>1. slot_buf = sent
      BY <1>1, <2>2 DEF Staged
    <3>2. QED
      BY <1>2, <2>2, <3>1
  <2>3. CASE i # 1 /\ ~(i = 4 /\ ~shared)
    BY <2>3
  <2>4. QED
    BY <2>1, <2>2, <2>3
<1>5. ph[i] \in Slot
  BY <1>2
<1> HIDE DEF ph, head, known
<1>6. slot' \in [Slots -> Slot]
  BY <1>3, <1>5 DEF StoreOK
<1>7. CommittedAsSent' /\ as_sent' \in [Slots -> SUBSET Slot]
  BY <1>3, <1>4, SentKept
<1>8. CASE i = 4 /\ kbdStoreReselect /\ StageClosed
  <2>1. Chose' /\ Own' /\ cur' \in Keyboards \cup {NoKbd}
    BY <1>6, <1>8, SelectKeeps DEF kbdStoreReselect, StoreOK
  <2>2. QED
    BY <1>6, <1>7, <1>8, <2>1, ClosedKeeps DEF StoreOK
<1>9. CASE i <= 2 /\ NotReselected /\ StageClosed
  <2>1. ph[i] = slot[s] \/ ph[i].head = NoHeader
    <3>1. i = 1 \/ i = 2
      BY <1>9
    <3>2. QED
      BY <1>2, <3>1 DEF Erased
  <2>2. \A r \in Slots : Harmless(r)
    BY <1>3, <2>1 DEF Harmless, StoreOK
  <2>3. Chose' /\ Own' /\ cur' = cur
    BY <1>9, <2>2, NotReselectedKeeps DEF NotReselected
  <2>4. QED
    BY <1>6, <1>7, <1>9, <2>3, ClosedKeeps DEF StoreOK
<1>10. CASE Boot
  BY <1>6, <1>7, <1>10, BootKeeps
<1>11. QED
  BY <1>3, <1>8, <1>9, <1>10

LEMMA TestKeeps ==
  ASSUME IInv, NEW s \in Slots, NEW d \in Data, CliTest(s, d)
  PROVE  IInv'
<1> DEFINE head == [kbd |-> TestKbd, hash |-> 1]
           buf  == [Empty EXCEPT ![1] = d]
           ph   == BurnPhases(s, head, buf)
<1> USE DEF IInv
<1>1. head \in Headers /\ buf \in Body
  BY StoreAssumption DEF Headers, Body, Empty, Pages
<1>2. /\ DOMAIN ph = 1 .. 4 /\ ph[2] = Erased
      /\ ph[4] = [head |-> head, body |-> buf] /\ \A i \in 1 .. 4 : ph[i] \in Slot
      /\ ph[1] = slot[s]
  <2> HIDE DEF head, buf
  <2>1. QED
    BY <1>1, BurnFacts DEF StoreOK
<1>3. PICK i \in 1 .. 4 :
        /\ slot' = [slot EXCEPT ![s] = ph[i]]
        /\ as_sent' = [as_sent EXCEPT ![s] = IF i = 1 THEN @
                                            ELSE IF i = 4 THEN {ph[4]} ELSE {}]
        /\ \/ /\ i \in {1, 2, 4} /\ stale' = (stale \/ i # 1)
              /\ IF stage_open THEN slot_buf' = buf /\ shared' = TRUE /\ sent' = Empty
                               ELSE UNCHANGED <<slot_buf, shared, sent>>
              /\ UNCHANGED <<stage_hdr, stage_open, cur, active_slot>>
           \/ i < 4 /\ Boot
  <2> HIDE DEF ph
  <2>1. \E i \in DOMAIN ph :
        /\ slot' = [slot EXCEPT ![s] = ph[i]]
        /\ as_sent' = [as_sent EXCEPT ![s] = IF i = 1 THEN @
                                            ELSE IF i = 4 THEN {ph[4]} ELSE {}]
        /\ \/ /\ i \in {1, 2, 4} /\ stale' = (stale \/ i # 1)
              /\ IF stage_open THEN slot_buf' = buf /\ shared' = TRUE /\ sent' = Empty
                               ELSE UNCHANGED <<slot_buf, shared, sent>>
              /\ UNCHANGED <<stage_hdr, stage_open, cur, active_slot>>
           \/ i < 4 /\ Boot
    BY DEF CliTest, ph
  <2>2. QED
    BY <1>2, <2>1
<1>4. ph[i] \in Slot /\ (i = 1 => ph[i] = slot[s]) /\ (i = 2 => ph[i].head = NoHeader) /\ (i = 4 => ph[i].head.hash = 1)
  BY <1>2 DEF Erased
<1> HIDE DEF ph, head
<1>5. slot' \in [Slots -> Slot]
  BY <1>3, <1>4 DEF StoreOK
<1>6. CommittedAsSent' /\ as_sent' \in [Slots -> SUBSET Slot]
  <2>1. CASE i = 4
    <3>1. {ph[4]} \in SUBSET Slot /\ \A x \in {ph[4]} : ph[i].head # NoHeader => ph[i] = x
      BY <1>4, <2>1
    <3>2. slot' = [slot EXCEPT ![s] = ph[i]] /\ as_sent' = [as_sent EXCEPT ![s] = {ph[4]}]
      BY <1>3, <2>1
    <3>3. QED
      BY <3>1, <3>2, SentKept
  <2>3. CASE i = 1
    <3>1. slot' = slot /\ as_sent' = as_sent
      BY <1>3, <1>4, <2>3 DEF StoreOK
    <3>2. QED
      BY <3>1, SentSame DEF StoreOK
  <2>2. CASE i # 4 /\ i # 1
    <3>1. slot' = [slot EXCEPT ![s] = ph[i]] /\ as_sent' = [as_sent EXCEPT ![s] = {}]
      BY <1>3, <2>2
    <3>2. QED
      BY <3>1, SentKept
  <2>4. QED
    BY <2>1, <2>2, <2>3
<1>7. CASE /\ i \in {1, 2, 4} /\ stale' = (stale \/ i # 1)
           /\ IF stage_open THEN slot_buf' = buf /\ shared' = TRUE /\ sent' = Empty
                            ELSE UNCHANGED <<slot_buf, shared, sent>>
           /\ UNCHANGED <<stage_hdr, stage_open, cur, active_slot>>
  <2>1. \A r \in Slots : Harmless(r)
    <3>1. ph[i] = slot[s] \/ ph[i].head = NoHeader \/ ph[i].head.hash = 1
      BY <1>4, <1>7
    <3>2. slot'[s] = ph[i] /\ \A r \in Slots \ {s} : slot'[r] = slot[r]
      BY <1>3 DEF StoreOK
    <3>3. QED
      BY <3>1, <3>2 DEF Harmless
  <2>2. Own'
    BY <1>7, <2>1, OwnKept
  <2>3. slot_buf' \in Body /\ sent' \in Body /\ Staged'
    <3>1. Empty \in Body
      BY DEF Empty, Body
    <3> HIDE DEF buf
    <3>2. QED
      BY <1>1, <1>7, <3>1 DEF StoreOK, Staged
  <2>4. Chose'
    <3>1. CASE i = 1
      <4>1. slot' = slot /\ (stale => stale')
        BY <1>3, <1>4, <1>7, <3>1 DEF StoreOK
      <4>2. sel' = sel
        BY DEF CliTest
      <4>3. QED
        BY <1>7, <4>1, <4>2 DEF Chose
    <3>2. CASE i # 1
      BY <1>7, <3>2 DEF Chose
    <3>3. QED
      BY <3>1, <3>2
  <2>5. QED
    BY <1>5, <1>6, <1>7, <2>2, <2>3, <2>4 DEF StoreOK
<1>8. CASE Boot
  BY <1>5, <1>6, <1>8, BootKeeps
<1>9. QED
  BY <1>3, <1>7, <1>8

LEMMA InvNext == IInv /\ [Next]_vars => IInv'
<1> SUFFICES ASSUME IInv, [Next]_vars PROVE IInv'
  OBVIOUS
<1> USE DEF IInv
<1>0. Erased \in Slot /\ Erased.head = NoHeader /\ {} \in SUBSET Slot /\ Empty \in Body
  BY DEF Erased, Slot, Empty, Body
<1>1. ASSUME NEW k \in Keyboards \cup {NoKbd}, Plug(k) PROVE IInv'
  BY <1>1, SelectKeeps, SentSame DEF Plug, flash, stage, StoreOK, Staged
<1>2. ASSUME NEW k \in Keyboards, StageBegin(k) PROVE IInv'
  BY <1>0, <1>2, SentSame DEF StageBegin, flash, StoreOK, Chose, Own, OwnOf, Staged
<1>3. ASSUME NEW p \in Pages, NEW d \in Data, StageData(p, d) PROVE IInv'
  <2>1. slot_buf' \in Body /\ sent' \in Body
    BY <1>3 DEF StageData, StoreOK, Body
  <2>2. Staged'
    BY <1>3 DEF StageData, Staged
  <2>3. UNCHANGED <<slot, sel, stage_hdr, stage_open, cur, active_slot, as_sent, stale>>
    BY <1>3 DEF StageData, flash
  <2>4. QED
    BY <2>1, <2>2, <2>3, SentSame DEF StoreOK, Chose, Own, OwnOf
<1>4. ASSUME NEW s \in Slots, StageCommit(s) PROVE IInv'
  BY <1>4, CommitKeeps
<1>5. ASSUME NEW s \in Slots, SlotErase(s) PROVE IInv'
  <2>1. CASE /\ slot' = [slot EXCEPT ![s] = Erased]
             /\ as_sent' = [as_sent EXCEPT ![s] = {}]
             /\ kbdStoreReselect /\ UNCHANGED stage
    <3>1. slot' \in [Slots -> Slot]
      BY <1>0, <2>1 DEF StoreOK
    <3>2. CommittedAsSent' /\ as_sent' \in [Slots -> SUBSET Slot]
      BY <1>0, <2>1, SentKept
    <3>3. Chose' /\ Own' /\ cur' \in Keyboards \cup {NoKbd}
      BY <2>1, <3>1, SelectKeeps DEF kbdStoreReselect, StoreOK
    <3>4. QED
      BY <2>1, <3>1, <3>2, <3>3 DEF stage, StoreOK, Staged
  <2>2. CASE UNCHANGED flash /\ NotReselected /\ UNCHANGED <<stage, as_sent>>
    <3>1. slot' = slot /\ sel' = sel /\ \A r \in Slots : Harmless(r)
      BY <2>2 DEF flash, Harmless
    <3>2. Chose' /\ Own' /\ cur' = cur
      BY <2>2, <3>1, NotReselectedKeeps DEF NotReselected
    <3>3. QED
      BY <2>2, <3>1, <3>2, SentSame DEF stage, StoreOK, Staged
  <2>3. QED
    BY <1>5, <2>1, <2>2 DEF SlotErase
<1>6. ASSUME NEW c, SelSet(c) PROVE IInv'
  <2>1. slot' = slot /\ as_sent' = as_sent /\ \A r \in Slots : Harmless(r)
    BY <1>6 DEF SelSet, Harmless
  <2>2. \/ kbdStoreReselect /\ UNCHANGED stage
        \/ NotReselected /\ UNCHANGED stage
        \/ Boot
    BY <1>6 DEF SelSet
  <2>3. CASE kbdStoreReselect /\ UNCHANGED stage
    <3>1. Chose' /\ Own' /\ cur' \in Keyboards \cup {NoKbd}
      BY <2>1, <2>3, SelectKeeps DEF kbdStoreReselect, StoreOK
    <3>2. QED
      BY <2>1, <2>3, <3>1, SentSame DEF stage, StoreOK, Staged
  <2>4. CASE NotReselected /\ UNCHANGED stage
    <3>1. Chose' /\ Own' /\ cur' = cur
      BY <2>1, <2>4, NotReselectedKeeps DEF NotReselected
    <3>2. QED
      BY <2>1, <2>4, <3>1, SentSame DEF stage, StoreOK, Staged
  <2>5. CASE Boot
    BY <2>1, <2>5, BootKeeps, SentSame DEF StoreOK
  <2>6. QED
    BY <2>2, <2>3, <2>4, <2>5
<1>7. ASSUME NEW s \in Slots, CliErase(s) PROVE IInv'
  <2>1. /\ slot' = [slot EXCEPT ![s] = Erased] /\ as_sent' = [as_sent EXCEPT ![s] = {}]
        /\ stale' = TRUE /\ UNCHANGED <<slot_buf, stage_hdr, stage_open, sent, shared>>
        /\ UNCHANGED <<cur, active_slot>>
    BY <1>7 DEF CliErase, stage
  <2>2. slot' \in [Slots -> Slot] /\ \A r \in Slots : Harmless(r)
    BY <1>0, <2>1 DEF StoreOK, Harmless
  <2>3. CommittedAsSent' /\ as_sent' \in [Slots -> SUBSET Slot]
    BY <1>0, <2>1, SentKept
  <2>4. Own' /\ Chose'
    BY <2>1, <2>2, OwnKept DEF Chose
  <2>5. QED
    BY <2>1, <2>2, <2>3, <2>4 DEF StoreOK, Staged
<1>8. ASSUME NEW s \in Slots, NEW d \in Data, CliTest(s, d) PROVE IInv'
  BY <1>8, TestKeeps
<1>9. CASE PowerCut
  BY <1>9, BootKeeps, SentSame DEF PowerCut, flash, StoreOK
<1>10. CASE UNCHANGED vars
  BY <1>10, SentSame DEF vars, StoreOK, Chose, Own, OwnOf, Staged
<1>11. QED
  BY <1>1, <1>2, <1>3, <1>4, <1>5, <1>6, <1>7, <1>8, <1>9, <1>10 DEF Next

LEMMA Invariance == Spec => []IInv
BY InvInit, InvNext, PTL DEF Spec

-----------------------------------------------------------------------------
\* The layout in use is the one kbdStoreSelect would choose from what is stored
\* now, through any compaction of the table and any power cut, unless a command
\* failed half way or the console changed the store.
THEOREM ActiveFitsHolds == Spec => []ActiveFits
<1>1. IInv => ActiveFits
  BY ChosenFits DEF IInv, StoreOK, Chose, ActiveFits
<1>2. QED
  BY <1>1, Invariance, PTL

\* Vial is never served another keyboard's layout, not even then.
THEOREM ServesOwnLayoutHolds == Spec => []ServesOwnLayout
<1>1. IInv => ServesOwnLayout
  BY SlotsFacts DEF IInv, Own, OwnOf, ServesOwnLayout, Served, kbdStoreGetHeader
<1>2. QED
  BY <1>1, Invariance, PTL

\* A slot that shows a header holds the layout that was sent for it and nothing
\* of the one before, whoever else staged something and whatever failed.
THEOREM CommittedAsSentHolds == Spec => []CommittedAsSent
<1>1. IInv => CommittedAsSent
  BY DEF IInv
<1>2. QED
  BY <1>1, Invariance, PTL

-----------------------------------------------------------------------------
(* What the table tells, and what a compaction keeps of it. *)

LEMMA GreatestIs ==
  ASSUME NEW n \in Nat, NEW S, S \subseteq 1 .. n, S # {}
  PROVE  Max(S) \in S /\ \A x \in S : x <= Max(S)
<1> DEFINE R == {n - x : x \in S}
<1>1. R \subseteq Nat /\ R # {}
  <2>1. \A x \in 1 .. n : n - x \in Nat
    OBVIOUS
  <2>2. \A x \in S : n - x \in Nat
    BY <2>1
  <2>3. QED
    BY <2>2
<1>2. Min(R) \in R /\ \A y \in R : Min(R) <= y
  <2> HIDE DEF R
  <2>1. QED
    BY <1>1, LeastIs
<1>3. PICK m \in S : Min(R) = n - m
  BY <1>2
<1>4. \A x \in S : m >= x
  <2>1. \A x \in S : n - m <= n - x
    BY <1>2, <1>3
  <2>2. QED
    BY <2>1
<1>5. QED
  BY <1>4 DEF Max

\* The place of the last record of keyboard k, if there is one.
LEMMA ScanIs ==
  ASSUME NEW t \in Seq(Records), NEW k, NEW h
  PROVE  LET a == selScan(t, k, h)
         IN  \/ a = 0 /\ \A i \in DOMAIN t : ~(t[i].kbd = k /\ t[i].hash = h)
             \/ /\ a \in DOMAIN t /\ a # 0 /\ t[a].kbd = k /\ t[a].hash = h
                /\ \A i \in DOMAIN t : t[i].kbd = k /\ t[i].hash = h => i <= a
<1> DEFINE m == {i \in DOMAIN t : t[i].kbd = k /\ t[i].hash = h}
<1>1. m \subseteq 1 .. Len(t) /\ Len(t) \in Nat /\ DOMAIN t = 1 .. Len(t)
  BY LenProperties
<1>2. selScan(t, k, h) = IF m = {} THEN 0 ELSE Max(m)
  BY DEF selScan
<1>3. m # {} => Max(m) \in m /\ \A x \in m : x <= Max(m)
  <2> HIDE DEF m
  <2>1. QED
    BY <1>1, GreatestIs
<1>4. QED
  BY <1>1, <1>2, <1>3

\* kbdSelAppend, read back.
LEMMA AppendedIs ==
  ASSUME NEW t \in Seq(Records), NEW r \in Records, NEW k
  PROVE  kbdSelGet(Append(t, r), k) = IF k = r.kbd THEN r.slot ELSE kbdSelGet(t, k)
<1> DEFINE u == Append(t, r)
           l == Len(t)
<1>1. /\ u \in Seq(Records) /\ l \in Nat /\ DOMAIN t = 1 .. l /\ DOMAIN u = 1 .. l + 1
      /\ u[l + 1] = r /\ \A i \in 1 .. l : u[i] = t[i]
      /\ r.hash = 0 /\ cur_hash = 0
  BY AppendProperties, LenProperties DEF Records, cur_hash
<1> HIDE DEF u, l
<1>2. PICK a : a = selScan(t, k, 0)
  OBVIOUS
<1>3. PICK b : b = selScan(u, k, 0)
  OBVIOUS
<1>4. \/ a = 0 /\ \A i \in 1 .. l : ~(t[i].kbd = k /\ t[i].hash = 0)
      \/ /\ a \in 1 .. l /\ t[a].kbd = k /\ t[a].hash = 0
         /\ \A i \in 1 .. l : t[i].kbd = k /\ t[i].hash = 0 => i <= a
  BY <1>1, <1>2, ScanIs
<1>5. \/ b = 0 /\ \A i \in 1 .. l + 1 : ~(u[i].kbd = k /\ u[i].hash = 0)
      \/ /\ b \in 1 .. l + 1 /\ u[b].kbd = k /\ u[b].hash = 0
         /\ \A i \in 1 .. l + 1 : u[i].kbd = k /\ u[i].hash = 0 => i <= b
  BY <1>1, <1>3, ScanIs
<1>6. CASE k = r.kbd
  <2>1. b = l + 1
    BY <1>1, <1>5, <1>6
  <2>2. QED
    BY <1>1, <1>3, <1>6, <2>1 DEF kbdSelGet, u
<1>7. CASE k # r.kbd
  <2>1. a = b /\ (b # 0 => u[b] = t[b])
    BY <1>1, <1>4, <1>5, <1>7
  <2>2. QED
    BY <1>1, <1>2, <1>3, <1>7, <2>1 DEF kbdSelGet, u
<1>8. QED
  BY <1>6, <1>7

\* Counting a set of numbers from its least: every count is of one of them, and
\* of only one.
Upto(S, s) == {r \in S : r <= s}

LEMMA Counted ==
  ASSUME NEW S, S \subseteq Nat, IsFiniteSet(S)
  PROVE  /\ Cardinality(S) \in Nat
         /\ \A s \in S : Cardinality(Upto(S, s)) \in 1 .. Cardinality(S)
         /\ \A s, z \in S : Cardinality(Upto(S, s)) = Cardinality(Upto(S, z)) => s = z
         /\ \A n \in 1 .. Cardinality(S) : \E s \in S : Cardinality(Upto(S, s)) = n
<1> DEFINE count == [s \in S |-> Cardinality(Upto(S, s))]
           N == Cardinality(S)
<1>1. N \in Nat
  BY FS_CardinalityType
<1>2. ASSUME NEW s \in S
      PROVE  IsFiniteSet(Upto(S, s)) /\ Cardinality(Upto(S, s)) \in 1 .. N
  <2>1. Upto(S, s) \in SUBSET S /\ s \in Upto(S, s)
    BY DEF Upto
  <2>2. /\ IsFiniteSet(Upto(S, s)) /\ Cardinality(Upto(S, s)) <= N /\ Cardinality(Upto(S, s)) \in Nat
    BY <2>1, FS_Subset, FS_CardinalityType
  <2>3. Cardinality(Upto(S, s)) # 0
    BY <2>1, <2>2, FS_EmptySet
  <2>4. QED
    BY <1>1, <2>2, <2>3
<1>3. ASSUME NEW s \in S, NEW z \in S, s < z
      PROVE  Cardinality(Upto(S, s)) # Cardinality(Upto(S, z))
  <2>1. Upto(S, s) \in SUBSET Upto(S, z) /\ z \in Upto(S, z) /\ z \notin Upto(S, s)
    <3>1. \A r \in S : r <= s => r <= z
      BY <1>3
    <3>2. z <= z /\ ~(z <= s)
      BY <1>3
    <3>3. QED
      BY <3>1, <3>2 DEF Upto
  <2>2. IsFiniteSet(Upto(S, z))
    BY <1>2
  <2>3. QED
    BY <2>1, <2>2, FS_Subset
<1>4. \A s, z \in S : Cardinality(Upto(S, s)) = Cardinality(Upto(S, z)) => s = z
  <2>1. \A s, z \in S : s < z \/ z < s \/ s = z
    OBVIOUS
  <2>2. QED
    BY <1>3, <2>1
<1>5. count \in Injection(S, 1 .. N)
  BY <1>2, <1>4 DEF Injection, IsInjective
<1>6. IsFiniteSet(1 .. N) /\ Cardinality(1 .. N) = N
  BY <1>1, FS_Interval
<1>7. count \in Surjection(S, 1 .. N)
  <2> HIDE DEF count
  <2>1. QED
    BY <1>5, <1>6, FS_Injection
<1>8. \A n \in 1 .. N : \E s \in S : Cardinality(Upto(S, s)) = n
  BY <1>7 DEF Surjection
<1>9. QED
  BY <1>1, <1>2, <1>4, <1>8

\* What a compaction keeps: the last record of each keyboard that has a slot, one
\* record for each of some slots.
LEMMA KeepIs ==
  ASSUME NEW f \in [Slots -> Slot], NEW t \in Seq(Records)
  PROVE  /\ selKeep(f, t) \in Seq(Records)
         /\ Len(selKeep(f, t)) <= KBD_SLOT_MAX
         /\ \A i \in DOMAIN selKeep(f, t) : \E k :
               /\ selScan(t, k, 0) # 0 /\ selKeep(f, t)[i] = t[selScan(t, k, 0)]
         /\ \A k : \A s \in Slots :
               kbdStoreGetHeader(f, s) /\ f[s].head = [kbd |-> k, hash |-> 0] /\ selScan(t, k, 0) # 0 =>
                  \E i \in DOMAIN selKeep(f, t) : selKeep(f, t)[i] = t[selScan(t, k, 0)]
<1> DEFINE At(s)  == selScan(t, f[s].head.kbd, f[s].head.hash)
           Kept   == {s \in Slots : kbdStoreGetHeader(f, s) /\ At(s) # 0}
           Firsts == {s \in Kept : \A r \in Kept : At(r) = At(s) => s <= r}
           Nth(n) == CHOOSE s \in Firsts : Cardinality(Upto(Firsts, s)) = n
           N      == Cardinality(Firsts)
           keep   == [n \in 1 .. N |-> t[At(Nth(n))]]
<1>1. selKeep(f, t) = keep
  BY DEF selKeep, Upto
<1>2. Firsts \in SUBSET Slots /\ Firsts \subseteq Kept
  OBVIOUS
<1>3. /\ IsFiniteSet(Firsts) /\ N \in Nat /\ N <= KBD_SLOT_MAX
      /\ Firsts \subseteq Nat
  <2> HIDE DEF Firsts
  <2>1. IsFiniteSet(Slots) /\ Cardinality(Slots) = KBD_SLOT_MAX
    BY StoreAssumption, FS_Interval DEF Slots
  <2>2. IsFiniteSet(Firsts) /\ Cardinality(Firsts) <= Cardinality(Slots)
    BY <1>2, <2>1, FS_Subset
  <2>3. QED
    BY <1>2, <2>1, <2>2, FS_CardinalityType, SlotsFacts
<1>4. ASSUME NEW n \in 1 .. N
      PROVE  Nth(n) \in Firsts /\ Cardinality(Upto(Firsts, Nth(n))) = n
  <2> HIDE DEF Firsts
  <2>1. \E s \in Firsts : Cardinality(Upto(Firsts, s)) = n
    BY ZenonT(30), <1>3, Counted
  <2>2. QED
    BY <2>1
<1>5. \A s \in Firsts : \E n \in 1 .. N : Nth(n) = s
  <2>1. SUFFICES ASSUME NEW s \in Firsts
                 PROVE  \E n \in 1 .. N : Nth(n) = s
    OBVIOUS
  <2>2. PICK n \in 1 .. N : n = Cardinality(Upto(Firsts, s))
    <3> HIDE DEF Firsts
    <3>1. QED
      BY <1>3, Counted
  <2>3. Nth(n) \in Firsts /\ Cardinality(Upto(Firsts, Nth(n))) = Cardinality(Upto(Firsts, s))
    BY <1>4, <2>2
  <2> HIDE DEF Firsts, Nth
  <2>4. Nth(n) = s
    BY <1>3, <2>3, Counted
  <2>5. QED
    BY <2>4
<1> HIDE DEF Nth
<1>6. ASSUME NEW s \in Kept
      PROVE  /\ f[s].head \in Headers /\ At(s) \in DOMAIN t /\ At(s) # 0
             /\ t[At(s)] \in Records
             /\ t[At(s)].kbd = f[s].head.kbd /\ t[At(s)].hash = f[s].head.hash
             /\ f[s].head.hash = 0 /\ At(s) = selScan(t, f[s].head.kbd, 0)
  <2>1. At(s) # 0 /\ f[s].head \in Headers
    BY DEF kbdStoreGetHeader, Slot
  <2>2. /\ At(s) \in DOMAIN t /\ t[At(s)].kbd = f[s].head.kbd /\ t[At(s)].hash = f[s].head.hash
    BY <2>1, ScanIs
  <2>3. t[At(s)] \in Records
    BY <2>2, LenProperties
  <2>4. t[At(s)].hash = 0
    BY <2>3 DEF Records
  <2>5. QED
    BY <2>1, <2>2, <2>3, <2>4
<1>7. ASSUME NEW n \in 1 .. N
      PROVE  /\ keep[n] \in Records
             /\ \E k : selScan(t, k, 0) # 0 /\ keep[n] = t[selScan(t, k, 0)]
  <2>1. PICK s \in Kept : s = Nth(n)
    BY <1>2, <1>4
  <2>2. keep[n] = t[At(s)]
    BY <2>1
  <2> HIDE DEF keep, Kept
  <2>3. QED
    BY <1>6, <2>2
<1>8. keep \in Seq(Records) /\ Len(keep) = N /\ DOMAIN keep = 1 .. N
  <2>1. keep \in [1 .. N -> Records]
    BY <1>7
  <2>2. DOMAIN keep = 1 .. N
    OBVIOUS
  <2> HIDE DEF keep, N
  <2>3. keep \in Seq(Records)
    BY <1>3, <2>1, SeqDef
  <2>4. QED
    BY <1>3, <2>2, <2>3, LenProperties
<1>9. ASSUME NEW k, NEW s \in Slots,
             kbdStoreGetHeader(f, s), f[s].head = [kbd |-> k, hash |-> 0], selScan(t, k, 0) # 0
      PROVE  \E i \in 1 .. N : keep[i] = t[selScan(t, k, 0)]
  <2>1. s \in Kept /\ At(s) = selScan(t, k, 0)
    BY <1>9
  <2> DEFINE Same == {r \in Kept : At(r) = At(s)}
  <2>2. Same \subseteq Nat /\ s \in Same
    BY <2>1, SlotsFacts
  <2>3. PICK z \in Same : \A x \in Same : z <= x
    <3> HIDE DEF Same
    <3>1. QED
      BY <2>2, LeastIs
  <2>4. z \in Firsts
    BY <2>3
  <2>5. PICK n \in 1 .. N : Nth(n) = z
    BY <1>5, <2>4
  <2>6. keep[n] = t[At(z)] /\ At(z) = At(s)
    BY <2>3, <2>5
  <2>7. QED
    BY <2>1, <2>6
<1>10. QED
  <2>1. Len(selKeep(f, t)) <= KBD_SLOT_MAX
    BY <1>1, <1>3, <1>8
  <2> HIDE DEF keep, N, Firsts
  <2>2. QED
    BY <1>1, <1>7, <1>8, <1>9, <2>1

\* A compaction may forget a keyboard's choice, never change it, and forgets none
\* of a keyboard that a slot is stored for.
LEMMA KeptChoice ==
  ASSUME NEW f \in [Slots -> Slot], NEW t \in Seq(Records), NEW k
  PROVE  /\ kbdSelGet(selKeep(f, t), k) \in {NoRecord, kbdSelGet(t, k)}
         /\ (\E s \in SlotsOf(f, k) : f[s].head.hash = 0) =>
               kbdSelGet(selKeep(f, t), k) = kbdSelGet(t, k)
<1> DEFINE u == selKeep(f, t)
<1>1. /\ u \in Seq(Records)
      /\ \A i \in DOMAIN u : \E d : selScan(t, d, 0) # 0 /\ u[i] = t[selScan(t, d, 0)]
      /\ \A s \in Slots :
            kbdStoreGetHeader(f, s) /\ f[s].head = [kbd |-> k, hash |-> 0] /\ selScan(t, k, 0) # 0 =>
               \E i \in DOMAIN u : u[i] = t[selScan(t, k, 0)]
  BY KeepIs
<1> HIDE DEF u
<1>2. PICK a : a = selScan(t, k, 0)
  OBVIOUS
<1>3. PICK b : b = selScan(u, k, 0)
  OBVIOUS
<1>4. \/ b = 0 /\ \A i \in DOMAIN u : ~(u[i].kbd = k /\ u[i].hash = 0)
      \/ b \in DOMAIN u /\ b # 0 /\ u[b].kbd = k /\ u[b].hash = 0
  BY <1>1, <1>3, ScanIs
<1>5. b # 0 => a # 0 /\ u[b] = t[a]
  <2>1. SUFFICES ASSUME b # 0
                 PROVE  a # 0 /\ u[b] = t[a]
    OBVIOUS
  <2>2. PICK d : selScan(t, d, 0) # 0 /\ u[b] = t[selScan(t, d, 0)]
    BY <1>1, <1>4, <2>1
  <2>3. t[selScan(t, d, 0)].kbd = d
    BY <2>2, ScanIs
  <2>4. d = k
    BY <1>4, <2>1, <2>2, <2>3
  <2>5. QED
    BY <1>2, <2>2, <2>4
<1>6. kbdSelGet(t, k) = IF a = 0 THEN NoRecord ELSE t[a].slot
  BY <1>2 DEF kbdSelGet, cur_hash
<1>7. kbdSelGet(u, k) = IF b = 0 THEN NoRecord ELSE u[b].slot
  BY <1>3 DEF kbdSelGet, cur_hash
<1>8. (\E s \in SlotsOf(f, k) : f[s].head.hash = 0) /\ a # 0 => b # 0
  <2>1. SUFFICES ASSUME NEW s \in SlotsOf(f, k), f[s].head.hash = 0, a # 0
                 PROVE  b # 0
    OBVIOUS
  <2>2. /\ s \in Slots /\ kbdStoreGetHeader(f, s) /\ f[s].head.kbd = k
        /\ f[s].head \in Headers
    BY DEF SlotsOf, kbdStoreGetHeader, Slot
  <2>3. f[s].head = [kbd |-> k, hash |-> 0]
    BY <2>1, <2>2 DEF Headers
  <2>4. PICK i \in DOMAIN u : u[i] = t[a]
    BY <1>1, <1>2, <2>1, <2>2, <2>3
  <2>5. t[a].kbd = k /\ t[a].hash = 0
    BY <1>2, <2>1, ScanIs
  <2>6. QED
    BY <1>4, <2>4, <2>5
<1>9. QED
  BY <1>5, <1>6, <1>7, <1>8 DEF u

-----------------------------------------------------------------------------
(* The table implements the promise. *)

TableOK ==
    /\ sel \in Seq(Records) /\ Len(sel) <= SEL_MAX
    /\ stale \in BOOLEAN /\ shared \in BOOLEAN
    /\ told \in Slots \cup {KBD_SEL_AUTO, NoRecord}

Choice == [k \in Keyboards |-> kbdSelGet(sel, k)]
StoredFor == {k \in Keyboards : \E s \in SlotsOf(slot, k) : slot[s].head.hash = 0}

\* Operations that leave the table alone.
LEMMA StoreRefines ==
  ASSUME UNCHANGED <<sel, cur>>, told' = NoRecord, stale' \in BOOLEAN
  PROVE  Promise!Next
<1>1. Choice' = Choice
  BY DEF Choice
<1>2. PICK K \in SUBSET Keyboards : K = StoredFor'
  BY DEF StoredFor
<1>3. Promise!Store(K)
  BY <1>1, <1>2 DEF Promise!Store, Choice, StoredFor
<1>4. QED
  BY <1>2, <1>3 DEF Promise!Next

\* The power goes, and some choices with it.
LEMMA BootRefines ==
  ASSUME Boot, told' = NoRecord, NEW F \in SUBSET Keyboards,
         \A k \in Keyboards : kbdSelGet(sel', k) = IF k \in F THEN NoRecord ELSE kbdSelGet(sel, k)
  PROVE  Promise!Next
<1>1. Choice' = [k \in Keyboards |-> IF k \in F THEN NoRecord ELSE Choice[k]]
  BY DEF Choice
<1>2. Promise!Forget(Keyboards)
  BY <1>1 DEF Promise!Forget, Choice
<1>3. StoredFor' \in SUBSET Keyboards
  BY DEF StoredFor
<1>4. Promise!PowerCut
  BY <1>2, <1>3 DEF Promise!PowerCut, Boot, StoredFor
<1>5. QED
  BY <1>4 DEF Promise!Next

\* What a phase of an append leaves of the choices, until the last one.
LEMMA PhaseForgets ==
  ASSUME slot \in [Slots -> Slot], sel \in Seq(Records), NEW t \in {sel, <<>>, selKeep(slot, sel)}
  PROVE  /\ t \in Seq(Records)
         /\ \E F \in SUBSET Keyboards : \A k \in Keyboards :
               kbdSelGet(t, k) = IF k \in F THEN NoRecord ELSE kbdSelGet(sel, k)
<1>1. t \in Seq(Records)
  BY KeepIs, EmptySeq
<1>2. \A k : kbdSelGet(t, k) \in {NoRecord, kbdSelGet(sel, k)}
  <2>1. CASE t = <<>>
    BY <2>1 DEF kbdSelGet, selScan
  <2>2. CASE t # <<>>
    BY <2>2, KeptChoice
  <2>3. QED
    BY <2>1, <2>2
<1>3. \A k \in Keyboards : kbdSelGet(t, k) =
         IF k \in {d \in Keyboards : kbdSelGet(t, d) = NoRecord} THEN NoRecord ELSE kbdSelGet(sel, k)
  BY <1>2
<1>4. QED
  BY <1>1, <1>3

\* The record is there, and the choice confirmed.
LEMMA ChooseRefines ==
  ASSUME slot \in [Slots -> Slot], slot' = slot, cur \in Keyboards,
         NEW c \in Slots \cup {KBD_SEL_AUTO}, cur' = cur, told' = c, stale' = FALSE,
         kbdSelGet(sel', cur) = c,
         \A k \in Keyboards \ {cur} : kbdSelGet(sel', k) \in {NoRecord, kbdSelGet(sel, k)},
         \A k \in StoredFor \ {cur} : kbdSelGet(sel', k) = kbdSelGet(sel, k)
  PROVE  Promise!Next
<1> DEFINE F == {k \in Keyboards \ {cur} : kbdSelGet(sel', k) # kbdSelGet(sel, k)}
<1>1. F \in SUBSET (Keyboards \ StoredFor)
  OBVIOUS
<1>2. \A k \in Keyboards : kbdSelGet(sel', k) =
         IF k = cur THEN c ELSE IF k \in F THEN NoRecord ELSE kbdSelGet(sel, k)
  OBVIOUS
<1> HIDE DEF F
<1>3. Choice' = [k \in Keyboards |-> IF k = cur THEN c ELSE IF k \in F THEN NoRecord ELSE Choice[k]]
  BY <1>2 DEF Choice
<1>4. StoredFor' = StoredFor
  BY DEF StoredFor
<1>5. Promise!Choose(c)
  BY <1>1, <1>3, <1>4 DEF Promise!Choose, Choice, StoredFor
<1>6. QED
  BY <1>5 DEF Promise!Next

LEMMA SelPhaseIs ==
  ASSUME StoreOK, TableOK, cur \in Keyboards, NEW c \in Slots \cup {KBD_SEL_AUTO}, SelSet(c)
  PROVE  /\ UNCHANGED slot
         /\ \/ /\ kbdStoreReselect /\ told' = c
               /\ \/ sel' = sel /\ kbdSelGet(sel, cur) = c
                  \/ \E t \in {sel, selKeep(slot, sel)} :
                        /\ Len(t) < SEL_MAX
                        /\ sel' = Append(t, [kbd |-> cur, hash |-> 0, slot |-> c])
            \/ /\ told' = NoRecord
               /\ NotReselected \/ Boot
               /\ sel' \in {sel, <<>>, selKeep(slot, sel)}
<1> DEFINE rec == [kbd |-> cur, hash |-> 0, slot |-> c]
           ph  == IF kbdSelGet(sel, cur) = c THEN <<sel>> ELSE SelPhases(rec)
<1>1. UNCHANGED slot
  BY DEF SelSet
<1>2. PICK i \in DOMAIN ph :
         /\ sel' = ph[i]
         /\ \/ i = Len(ph) /\ kbdStoreReselect /\ told' = c
            \/ i < Len(ph) /\ told' = NoRecord /\ (NotReselected \/ Boot)
  BY DEF SelSet, cur_hash
<1>3. CASE kbdSelGet(sel, cur) = c
  <2>1. ph = <<sel>> /\ Len(ph) = 1 /\ i = 1 /\ sel' = sel
    BY <1>2, <1>3
  <2> HIDE DEF ph
  <2>2. QED
    BY <1>1, <1>2, <1>3, <2>1
<1>4. CASE kbdSelGet(sel, cur) # c /\ Len(sel) < SEL_MAX
  <2>1. ph = <<sel, Append(sel, rec)>>
    BY <1>4 DEF SelPhases
  <2> HIDE DEF ph
  <2>2. Len(ph) = 2 /\ DOMAIN ph = 1 .. 2 /\ ph[1] = sel /\ ph[2] = Append(sel, rec)
    BY <2>1
  <2>3. i = 1 \/ i = 2
    BY <2>2
  <2>4. QED
    BY <1>1, <1>2, <1>4, <2>2, <2>3
<1>5. CASE kbdSelGet(sel, cur) # c /\ ~(Len(sel) < SEL_MAX)
  <2>1. ph = <<sel, <<>>, selKeep(slot, sel), Append(selKeep(slot, sel), rec)>>
    BY <1>5 DEF SelPhases
  <2>2. Len(selKeep(slot, sel)) < SEL_MAX
    <3>1. Len(selKeep(slot, sel)) <= KBD_SLOT_MAX /\ Len(selKeep(slot, sel)) \in Nat
      BY KeepIs, LenProperties DEF StoreOK, TableOK
    <3>2. QED
      BY <3>1, StoreAssumption
  <2> HIDE DEF ph
  <2>3. /\ Len(ph) = 4 /\ DOMAIN ph = 1 .. 4 /\ ph[1] = sel /\ ph[2] = <<>>
        /\ ph[3] = selKeep(slot, sel) /\ ph[4] = Append(selKeep(slot, sel), rec)
    BY <2>1
  <2>4. i = 1 \/ i = 2 \/ i = 3 \/ i = 4
    BY <2>3
  <2>5. QED
    BY <1>1, <1>2, <2>2, <2>3, <2>4
<1>6. QED
  BY <1>3, <1>4, <1>5

\* Every operation but the one that records a choice.
Others ==
    /\ told' = NoRecord
    /\ \/ \E k \in Keyboards \cup {NoKbd} : Plug(k)
       \/ \E k \in Keyboards : StageBegin(k)
       \/ \E p \in Pages, d \in Data : StageData(p, d)
       \/ \E s \in Slots : StageCommit(s) \/ SlotErase(s) \/ CliErase(s)
       \/ \E s \in Slots, d \in Data : CliTest(s, d)
       \/ PowerCut

LEMMA TableKept == IInv /\ TableOK /\ [Next]_vars => TableOK'
<1> SUFFICES ASSUME IInv, TableOK, [Next]_vars PROVE TableOK'
  OBVIOUS
<1>1. SEL_MAX \in Nat /\ SEL_MAX > 0 /\ SEL_MAX > KBD_SLOT_MAX /\ KBD_SLOT_MAX \in Nat
  BY StoreAssumption
<1>2. ASSUME NEW c \in Slots \cup {KBD_SEL_AUTO}, SelSet(c)
      PROVE  TableOK'
  <2>1. cur \in Keyboards
    BY <1>2 DEF SelSet, SelRefused, IInv, StoreOK
  <2>2. \A t \in {sel, <<>>, selKeep(slot, sel)} : t \in Seq(Records) /\ Len(t) <= SEL_MAX
    <3>1. selKeep(slot, sel) \in Seq(Records) /\ Len(selKeep(slot, sel)) <= KBD_SLOT_MAX
      BY KeepIs DEF IInv, StoreOK, TableOK
    <3>2. Len(selKeep(slot, sel)) \in Nat
      BY <3>1, LenProperties
    <3>3. Len(selKeep(slot, sel)) <= SEL_MAX
      <4> DEFINE l == Len(selKeep(slot, sel))
      <4>1. l \in Nat /\ l <= KBD_SLOT_MAX
        BY <3>1, <3>2
      <4> HIDE DEF l
      <4>2. l <= SEL_MAX
        BY <1>1, <4>1
      <4>3. QED
        BY <4>2 DEF l
    <3>4. <<>> \in Seq(Records) /\ Len(<<>>) <= SEL_MAX
      BY <1>1
    <3>5. sel \in Seq(Records) /\ Len(sel) <= SEL_MAX
      BY DEF TableOK
    <3>6. QED
      BY <3>1, <3>3, <3>4, <3>5, Zenon
  <2>3. [kbd |-> cur, hash |-> 0, slot |-> c] \in Records
    BY <2>1 DEF Records
  <2>4. \A t \in {sel, selKeep(slot, sel)} : Len(t) < SEL_MAX =>
           LET u == Append(t, [kbd |-> cur, hash |-> 0, slot |-> c])
           IN  u \in Seq(Records) /\ Len(u) <= SEL_MAX
    BY <1>1, <2>2, <2>3, AppendProperties, LenProperties
  <2>5. sel' \in Seq(Records) /\ Len(sel') <= SEL_MAX
    BY <1>2, <2>1, <2>2, <2>4, SelPhaseIs DEF IInv
  <2>6. /\ stale' \in BOOLEAN /\ shared' \in BOOLEAN
        /\ told' \in Slots \cup {KBD_SEL_AUTO, NoRecord}
    BY <1>2 DEF SelSet, kbdStoreReselect, Select, NotReselected, Boot, StageClosed, stage, TableOK
  <2>7. QED
    BY <2>5, <2>6 DEF TableOK
<1>3. CASE Others \/ UNCHANGED vars
  <2>1. sel' = sel
    BY <1>3 DEF Others, Plug, StageBegin, StageData, StageCommit, SlotErase, CliErase, CliTest,
                PowerCut, flash, vars
  <2>2. /\ stale' \in BOOLEAN /\ shared' \in BOOLEAN
        /\ told' \in Slots \cup {KBD_SEL_AUTO, NoRecord}
    BY <1>3 DEF Others, Plug, StageBegin, StageData, StageCommit, SlotErase, CliErase, CliTest,
                PowerCut, vars, stage,
                kbdStoreReselect, Select, NotReselected, Boot, StageClosed, TableOK
  <2>3. QED
    BY <2>1, <2>2 DEF TableOK
<1>4. QED
  BY <1>2, <1>3 DEF Next, Others

LEMMA SelSetRefines ==
  ASSUME IInv, TableOK, TableOK', NEW c \in Slots \cup {KBD_SEL_AUTO}, SelSet(c)
  PROVE  Promise!Next
<1>1. /\ cur \in Keyboards /\ slot \in [Slots -> Slot] /\ sel \in Seq(Records)
      /\ StoreOK /\ stale' \in BOOLEAN
  BY DEF SelSet, SelRefused, IInv, StoreOK, TableOK
<1>2. slot' = slot
  BY <1>1, SelPhaseIs
<1>3. ASSUME kbdStoreReselect, told' = c, sel' = sel, kbdSelGet(sel, cur) = c
      PROVE  Promise!Next
  <2>1. cur' = cur /\ stale' = FALSE
    BY <1>3 DEF kbdStoreReselect, Select
  <2>2. QED
    BY <1>1, <1>2, <1>3, <2>1, ChooseRefines
<1>4. ASSUME kbdStoreReselect, told' = c, NEW t \in {sel, selKeep(slot, sel)},
             sel' = Append(t, [kbd |-> cur, hash |-> 0, slot |-> c])
      PROVE  Promise!Next
  <2>1. cur' = cur /\ stale' = FALSE
    BY <1>4 DEF kbdStoreReselect, Select
  <2>2. t \in Seq(Records) /\ [kbd |-> cur, hash |-> 0, slot |-> c] \in Records
    BY <1>1, PhaseForgets DEF Records
  <2>3. \A k : kbdSelGet(sel', k) = IF k = cur THEN c ELSE kbdSelGet(t, k)
    BY <1>4, <2>2, AppendedIs
  <2>4. \A k \in Keyboards : kbdSelGet(t, k) \in {NoRecord, kbdSelGet(sel, k)}
    BY <1>1, KeptChoice
  <2>5. \A k \in StoredFor : kbdSelGet(t, k) = kbdSelGet(sel, k)
    BY <1>1, KeptChoice DEF StoredFor
  <2>6. QED
    BY <1>1, <1>2, <1>4, <2>1, <2>3, <2>4, <2>5, ChooseRefines
<1>5. ASSUME told' = NoRecord, NotReselected \/ Boot, sel' \in {sel, <<>>, selKeep(slot, sel)}
      PROVE  Promise!Next
  <2>1. PICK F \in SUBSET Keyboards : \A k \in Keyboards :
               kbdSelGet(sel', k) = IF k \in F THEN NoRecord ELSE kbdSelGet(sel, k)
    BY <1>1, <1>5, PhaseForgets
  <2>2. CASE Boot
    BY <1>5, <2>1, <2>2, BootRefines
  <2>3. CASE NotReselected /\ sel' = sel
    BY <1>1, <1>5, <2>3, StoreRefines DEF NotReselected
  <2>4. CASE NotReselected /\ sel' # sel
    <3>1. cur' = cur /\ stale' = TRUE
      BY <2>4 DEF NotReselected
    <3>2. Choice' = [k \in Keyboards |-> IF k \in F THEN NoRecord ELSE Choice[k]]
      BY <2>1 DEF Choice
    <3>3. Promise!Forget(Keyboards)
      BY <3>2 DEF Promise!Forget, Choice
    <3>4. StoredFor' = StoredFor
      BY <1>2 DEF StoredFor
    <3>5. Promise!ChooseFails
      BY <1>5, <3>1, <3>3, <3>4 DEF Promise!ChooseFails, StoredFor
    <3>6. QED
      BY <3>5 DEF Promise!Next
  <2>5. QED
    BY <1>5, <2>2, <2>3, <2>4
<1>6. QED
  BY <1>1, <1>3, <1>4, <1>5, SelPhaseIs

\* What the operations that leave the table alone do, as the promise sees it.
LEMMA OthersAre ==
  ASSUME TableOK, Others
  PROVE  /\ told' = NoRecord /\ sel' = sel /\ stale' \in BOOLEAN
         /\ \/ cur' = cur
            \/ Boot
            \/ \E k \in Keyboards \cup {NoKbd} : Plug(k)
BY DEF Others, Plug, StageBegin, StageData, StageCommit, SlotErase, CliErase, CliTest, PowerCut,
       flash, kbdStoreReselect, Select, NotReselected, Boot, TableOK

LEMMA PlugRefines ==
  ASSUME told' = NoRecord, NEW k \in Keyboards \cup {NoKbd}, Plug(k)
  PROVE  Promise!Next
<1>1. UNCHANGED <<slot, sel>> /\ cur' = k /\ stale' = FALSE
  BY DEF Plug, Select, flash
<1>2. Choice' = Choice /\ StoredFor' = StoredFor
  BY <1>1 DEF Choice, StoredFor
<1>3. Promise!Plug(k)
  BY <1>1, <1>2 DEF Promise!Plug, Choice, StoredFor
<1>4. QED
  BY <1>3 DEF Promise!Next

LEMMA StepRefines ==
  ASSUME IInv, TableOK, TableOK', [Next]_vars
  PROVE  [Promise!Next]_(Promise!vars)
<1>1. CASE UNCHANGED vars
  BY <1>1 DEF vars, Promise!vars
<1>2. ASSUME NEW c \in Slots \cup {KBD_SEL_AUTO}, SelSet(c)
      PROVE  Promise!Next
  BY <1>2, SelSetRefines
<1>3. CASE Others
  <2>1. CASE cur' = cur
    BY <1>3, <2>1, OthersAre, StoreRefines
  <2>2. CASE Boot
    <3>1. PICK F \in SUBSET Keyboards : F = {}
      OBVIOUS
    <3>2. \A k \in Keyboards : kbdSelGet(sel', k) = IF k \in F THEN NoRecord ELSE kbdSelGet(sel, k)
      BY <1>3, <3>1, OthersAre
    <3>3. told' = NoRecord
      BY <1>3, OthersAre
    <3>4. QED
      BY <2>2, <3>2, <3>3, BootRefines
  <2>3. ASSUME NEW k \in Keyboards \cup {NoKbd}, Plug(k)
        PROVE  Promise!Next
    BY <1>3, <2>3, OthersAre, PlugRefines
  <2>4. QED
    BY <1>3, <2>1, <2>2, <2>3, OthersAre
<1>4. UNCHANGED vars \/ Others \/ \E c \in Slots \cup {KBD_SEL_AUTO} : SelSet(c)
  BY DEF Next, Others
<1>5. QED
  BY <1>1, <1>2, <1>3, <1>4, Zenon

LEMMA TableInit == Init => TableOK /\ Promise!Init
<1> SUFFICES ASSUME Init PROVE TableOK /\ Promise!Init
  OBVIOUS
<1>1. TableOK
  <2>1. sel \in Seq(Records) /\ Len(sel) = 0
    BY EmptySeq DEF Init
  <2>2. 0 <= SEL_MAX
    BY StoreAssumption
  <2>3. QED
    BY <2>1, <2>2 DEF Init, TableOK
<1>2. \A k : kbdSelGet(sel, k) = NoRecord
  BY DEF Init, kbdSelGet, selScan
<1>3. \A k : SlotsOf(slot, k) = {}
  BY DEF Init, SlotsOf, kbdStoreGetHeader, Erased
<1>4. Promise!Init
  BY <1>2, <1>3 DEF Init, Promise!Init
<1>5. QED
  BY <1>1, <1>4

LEMMA TableInvariance == Spec => []TableOK
<1>1. Init => TableOK
  BY TableInit
<1>2. IInv /\ TableOK /\ [Next]_vars => TableOK'
  BY TableKept
<1>3. QED
  BY <1>1, <1>2, Invariance, PTL DEF Spec

-----------------------------------------------------------------------------
\* Every variable has its type, and the table of selections never outgrows its
\* two sectors: a compaction leaves at most one record for each slot, which is
\* room for the record that asked for it.
THEOREM TypeCorrect == Spec => []TypeOK
<1>1. IInv /\ TableOK => TypeOK
  BY SlotsFacts DEF IInv, StoreOK, TableOK, Own, TypeOK
<1>2. QED
  BY <1>1, Invariance, TableInvariance, PTL

\* The append-only table with its compaction does what a map from keyboards to
\* slots would: a confirmed choice stays until that keyboard is pinned anew,
\* as long as a slot is stored for it, unless the power or the flash fails.
THEOREM ImplementsChoiceHolds == Spec => ImplementsChoice
<1>1. Init => Promise!Init
  BY TableInit
<1>2. IInv /\ TableOK /\ TableOK' /\ [Next]_vars => [Promise!Next]_(Promise!vars)
  BY StepRefines
<1>3. QED
  BY <1>1, <1>2, Invariance, TableInvariance, PTL DEF Spec, ImplementsChoice, Promise!Spec
===============================================================================
