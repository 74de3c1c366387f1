---------------------------- MODULE Terminal_proofs ----------------------------
(***************************************************************************)
(* Proofs about what the user of a terminal meets: the command line of     *)
(* Console, and the log, the serial port and the LED of Board.  The two    *)
(* specifications share no variable, and each is proved by itself.         *)
(*                                                                         *)
(* Console.  ConsoleInv says that the line fits its buffer with the cursor *)
(* in it, that the screen shows the line, and how the ring's four counters *)
(* hang together (HistOK).  The ring is then the history that LineHistory  *)
(* promises: the places of the lines in it are told apart by Slot.         *)
(*                                                                         *)
(* Board.  BoardInv says of each log that its newest lines stand whole at  *)
(* the front (LogOK), of the FIFO that it goes on where the host stopped   *)
(* reading (ChainOK), and of the calls of uartWrite that only the          *)
(* outermost has ever written anything (CallsOK).                          *)
(***************************************************************************)
EXTENDS Console, Board, TLAPS, SequenceTheorems, FiniteSetTheorems, WellFoundedInduction

(* What a state of the line editor is made of.                             *)
InputOK ==
  /\ state \in {"IDLE", "SP2", "SP3", "SP4"}
  /\ running = None => line \in Lines
  /\ cursor \in 0 .. Len(line)
  /\ rx \in 0 .. RX_MAX /\ keeps \in BOOLEAN
  /\ running # None => running.index \in DOMAIN cmd_list
RingType ==
  /\ line_buf \in [Ring -> Lines]
  /\ hist_line_i \in Ring /\ hist_line_last \in Ring
  /\ hist_line_count \in 0 .. CLI_LINE_HIS_MAX /\ hist_line_new \in BOOLEAN

HistOK ==
  /\ hist_line_count = 0 => ~hist_line_new
  /\ hist_line_count > 0 => hist_line_i < hist_line_count
  /\ hist_line_count < CLI_LINE_HIS_MAX => hist_line_last = hist_line_count
  /\ hist_line_new => hist_line_i = Place(hist_line_count)

ConsoleInv ==
  /\ InputOK /\ off \in BOOLEAN
  /\ RingType /\ HistOK
  /\ ScreenMirrors

LEMMA LeastIs ==
  ASSUME NEW S, S \subseteq Nat, S # {}
  PROVE  Min(S) \in S /\ \A x \in S : Min(S) <= x
<1> DEFINE Below(x) == 0 .. x
           T == {Below(x) : x \in S}
<1>1. T # {} /\ T \subseteq FiniteSubsetsOf(Nat)
  <2>1. \A x \in S : Below(x) \subseteq Nat /\ IsFiniteSet(Below(x))
    BY FS_Interval
  <2>2. QED
    BY <2>1 DEF FiniteSubsetsOf
<1>2. PICK u \in T : \A v \in T : ~ (<<v, u>> \in StrictSubsetOrdering(Nat))
  <2> HIDE DEF T
  <2>1. QED
    BY <1>1, FS_StrictSubsetOrderingWellFounded, WFMin
<1>3. PICK m \in S : u = Below(m)
  OBVIOUS
<1>4. ASSUME NEW x \in S PROVE m <= x
  <2>1. ~(Below(x) \subseteq Below(m) /\ Below(x) # Below(m))
    <3>1. <<Below(x), Below(m)>> \notin StrictSubsetOrdering(Nat)
      BY <1>2, <1>3
    <3>2. Below(x) \in SUBSET Nat /\ Below(m) \in SUBSET Nat
      OBVIOUS
    <3> HIDE DEF Below
    <3>3. QED
      BY <3>1, <3>2 DEF StrictSubsetOrdering
  <2>2. CASE x < m
    <3>1. x \in Nat /\ m \in Nat /\ m \notin Below(x) /\ m \in Below(m)
      BY <2>2, <1>3
    <3>2. Below(x) \subseteq Below(m)
      BY <2>2
    <3>3. QED
      BY <3>1, <3>2, <2>1
  <2>3. QED
    BY <2>2
<1>5. QED
  BY <1>3, <1>4 DEF Min

-----------------------------------------------------------------------------
(* Lines.                                                                  *)
LEMMA LineIs == \A s : s \in Lines <=> s \in Seq(Chars) /\ Len(s) <= buf_len - 1
<1>1. buf_len - 1 \in Nat
  BY ConsoleAssumption DEF buf_len
<1>2. ASSUME NEW s \in Lines PROVE s \in Seq(Chars) /\ Len(s) <= buf_len - 1
  <2>1. PICK m \in 0 .. buf_len - 1 : s \in [1 .. m -> Chars]
    BY DEF Lines, BoundedSeq, SeqOf
  <2>2. m \in Nat
    BY <1>1, <2>1
  <2>3. s \in Seq(Chars)
    BY <2>1, <2>2, SeqDef
  <2>4. Len(s) = m
    BY <2>1, <2>2, <2>3
  <2>5. QED
    BY <2>1, <2>3, <2>4, <1>1
<1>3. ASSUME NEW s \in Seq(Chars), Len(s) <= buf_len - 1 PROVE s \in Lines
  <2>1. Len(s) \in 0 .. buf_len - 1 /\ s \in [1 .. Len(s) -> Chars]
    BY <1>1, <1>3, LenProperties
  <2>2. QED
    BY <2>1 DEF Lines, BoundedSeq, SeqOf
<1>4. QED
  BY <1>2, <1>3

LEMMA JoinIs ==
  ASSUME NEW S, NEW s \in Seq(S), NEW t \in Seq(S), NEW n \in Nat, Len(s) + Len(t) = n
  PROVE  s \o t \in Seq(S) /\ Len(s \o t) = n
  BY ConcatProperties

LEMMA SliceIs ==
  ASSUME NEW S, NEW s \in Seq(S), NEW m \in Nat \ {0}, NEW n \in Nat, n <= Len(s), m <= n + 1
  PROVE  SubSeq(s, m, n) \in Seq(S) /\ Len(SubSeq(s, m, n)) = (n + 1) - m
<1>1. \A i \in m .. n : s[i] \in S
  BY ElementOfSeq
<1>2. (IF m <= n THEN n - m + 1 ELSE 0) = (n + 1) - m
  OBVIOUS
<1>3. QED
  BY <1>1, <1>2, SubSeqProperties

LEMMA InsertIs ==
  ASSUME NEW S, NEW s \in Seq(S), NEW c \in S, NEW n \in 0 .. Len(s)
  PROVE  InsertAt(s, n + 1, c) \in Seq(S) /\ Len(InsertAt(s, n + 1, c)) = Len(s) + 1
<1>1. PICK L \in Nat : L = Len(s)
  BY LenProperties
<1>2. SubSeq(s, 1, n) \in Seq(S) /\ Len(SubSeq(s, 1, n)) = n
  BY <1>1, SliceIs
<1>3. SubSeq(s, n + 1, L) \in Seq(S) /\ Len(SubSeq(s, n + 1, L)) = L - n
  BY <1>1, SliceIs
<1>4. PICK u \in Seq(S) : u = SubSeq(s, 1, n)
  BY <1>2
<1>5. PICK v \in Seq(S) : v = SubSeq(s, n + 1, L)
  BY <1>3
<1>6. <<c>> \in Seq(S) /\ Len(<<c>>) = 1
  OBVIOUS
<1>7. u \o <<c>> \in Seq(S) /\ Len(u \o <<c>>) = n + 1
  BY <1>2, <1>4, <1>6, JoinIs
<1>8. Len(u \o <<c>>) + Len(v) = L + 1
  <2>1. \A x, y : x = n + 1 /\ y = L - n => x + y = L + 1
    BY <1>1
  <2>2. QED
    BY <2>1, <1>3, <1>5, <1>7, Zenon
<1>9. u \o <<c>> \o v \in Seq(S) /\ Len(u \o <<c>> \o v) = L + 1
  BY <1>7, <1>8, JoinIs
<1>10. (n + 1) - 1 = n
  OBVIOUS
<1>11. QED
  BY <1>1, <1>4, <1>5, <1>9, <1>10 DEF InsertAt

(* Behind the next byte to insert is to append. *)
LEMMA InsertLast ==
  ASSUME NEW S, NEW s \in Seq(S), NEW c \in S
  PROVE  InsertAt(s, Len(s) + 1, c) = Append(s, c)
<1>1. SubSeq(s, 1, (Len(s) + 1) - 1) = s
  BY SubSeqFull
<1>2. SubSeq(s, Len(s) + 1, Len(s)) = <<>>
  BY SubSeqEmpty
<1>3. s \o <<c>> \in Seq(S) /\ Append(s, c) = s \o <<c>>
  BY AppendIsConcat, AppendProperties
<1>4. (s \o <<c>>) \o <<>> = s \o <<c>>
  BY <1>3, ConcatEmptySeq
<1>5. QED
  BY <1>1, <1>2, <1>3, <1>4 DEF InsertAt

LEMMA RemoveIs ==
  ASSUME NEW S, NEW s \in Seq(S), NEW n \in 1 .. Len(s)
  PROVE  RemoveAt(s, n) \in Seq(S) /\ Len(RemoveAt(s, n)) = Len(s) - 1
<1>1. PICK L \in Nat : L = Len(s)
  BY LenProperties
<1>2. SubSeq(s, 1, n - 1) \in Seq(S) /\ Len(SubSeq(s, 1, n - 1)) = n - 1
  BY <1>1, SliceIs
<1>3. SubSeq(s, n + 1, L) \in Seq(S) /\ Len(SubSeq(s, n + 1, L)) = L - n
  BY <1>1, SliceIs
<1>4. PICK u \in Seq(S) : u = SubSeq(s, 1, n - 1)
  BY <1>2
<1>5. PICK v \in Seq(S) : v = SubSeq(s, n + 1, L)
  BY <1>3
<1>6. Len(u) + Len(v) = L - 1 /\ L - 1 \in Nat
  <2>1. L - 1 \in Nat /\ \A x, y : x = n - 1 /\ y = L - n => x + y = L - 1
    BY <1>1
  <2>2. QED
    BY <2>1, <1>2, <1>3, <1>4, <1>5, Zenon
<1>7. u \o v \in Seq(S) /\ Len(u \o v) = L - 1
  BY <1>6, JoinIs
<1>8. QED
  BY <1>1, <1>4, <1>5, <1>7 DEF RemoveAt

-----------------------------------------------------------------------------
(* What the terminal shows after each change, if it showed the line s with the *)
(* cursor in column n.                                                     *)
At(s, n) == [text |-> s, col |-> n]

LEMMA LeftIs   == \A s, n, m : Left(At(s, n), m) = At(s, n - m)
  BY DEF Left, At
LEMMA DeleteIs ==
  \A s, n, m : Delete(At(s, n), m) = At(SubSeq(s, 1, n) \o SubSeq(s, n + m + 1, Len(s)), n)
<1>1. \A s, n : At(s, n).text = s /\ At(s, n).col = n
  BY DEF At
<1>2. \A s, n, t : [At(s, n) EXCEPT !.text = t] = At(t, n)
  BY DEF At
<1>3. QED
  BY <1>1, <1>2, ZenonT(30) DEF Delete

LEMMA DeleteShown ==
  ASSUME NEW S, NEW s \in Seq(S), NEW n \in 0 .. Len(s) - 1
  PROVE  Delete(At(s, n), 1) = At(RemoveAt(s, n + 1), n)
<1>1. (n + 1) - 1 = n
  OBVIOUS
<1>2. QED
  BY <1>1, DeleteIs DEF RemoveAt

LEMMA TypeShown ==
  ASSUME NEW S, NEW s \in Seq(S), NEW c \in S, NEW n \in 0 .. Len(s)
  PROVE  (IF n = Len(s) THEN Put(At(s, n), c) ELSE Insert(At(s, n), c))
            = At(InsertAt(s, n + 1, c), n + 1)
<1>1. CASE n = Len(s)
  <2>1. Put(At(s, n), c) = At(Append(s, c), n + 1)
    BY <1>1 DEF Put, At
  <2>2. QED
    BY <1>1, <2>1, InsertLast
<1>2. CASE n # Len(s)
  <2>1. Insert(At(s, n), c) = At(InsertAt(s, n + 1, c), n + 1)
    BY DEF Insert, At
  <2>2. QED
    BY <1>2, <2>1
<1>3. QED
  BY <1>1, <1>2

(* A byte that is written over another makes no difference to the rest.    *)
LEMMA RestIs ==
  ASSUME NEW T, NEW s \in Seq(T), NEW n \in 1 .. Len(s), NEW c \in T
  PROVE  RemoveAt([s EXCEPT ![n] = c], n) = RemoveAt(s, n)
<1> DEFINE R == [s EXCEPT ![n] = c]
<1>1. R \in Seq(T) /\ Len(R) = Len(s) /\ \A j \in 1 .. Len(s) : R[j] = IF j = n THEN c ELSE s[j]
  BY ExceptSeq
<1> HIDE DEF R
<1>2. SubSeq(R, 1, n - 1) = SubSeq(s, 1, n - 1)
  <2> DEFINE a == SubSeq(R, 1, n - 1)
             b == SubSeq(s, 1, n - 1)
  <2>1. \A i \in 1 .. n - 1 : R[i] = s[i] /\ R[i] \in T /\ s[i] \in T
    BY <1>1, ElementOfSeq
  <2>2. a \in Seq(T) /\ Len(a) = n - 1 /\ \A i \in 1 .. n - 1 : a[i] = R[i]
    BY <2>1, SubSeqProperties
  <2>3. b \in Seq(T) /\ Len(b) = n - 1 /\ \A i \in 1 .. n - 1 : b[i] = s[i]
    BY <2>1, SubSeqProperties
  <2> HIDE DEF a, b
  <2>4. Len(a) = Len(b) /\ \A i \in 1 .. Len(a) : a[i] = b[i]
    BY <2>1, <2>2, <2>3
  <2>5. a = b
    BY <2>2, <2>3, <2>4, SeqEqual
  <2>6. QED
    BY <2>5 DEF a, b
<1>3. SubSeq(R, n + 1, Len(s)) = SubSeq(s, n + 1, Len(s))
  <2> DEFINE a == SubSeq(R, n + 1, Len(s))
             b == SubSeq(s, n + 1, Len(s))
  <2>1. \A i \in n + 1 .. Len(s) : R[i] = s[i] /\ R[i] \in T /\ s[i] \in T
    BY <1>1, ElementOfSeq
  <2>2. a \in Seq(T) /\ Len(a) = Len(s) - n /\ \A i \in 1 .. Len(s) - n : a[i] = R[i + n]
    BY <2>1, SubSeqProperties
  <2>3. b \in Seq(T) /\ Len(b) = Len(s) - n /\ \A i \in 1 .. Len(s) - n : b[i] = s[i + n]
    BY <2>1, SubSeqProperties
  <2> HIDE DEF a, b
  <2>4. Len(a) = Len(b) /\ \A i \in 1 .. Len(a) : a[i] = b[i]
    <3>1. PICK L \in Nat : L = Len(s)
      BY LenProperties
    <3>2. \A i \in 1 .. L - n : i + n \in n + 1 .. L
      BY <3>1
    <3>3. \A i \in 1 .. L - n : a[i] = b[i]
      BY <2>1, <2>2, <2>3, <3>1, <3>2
    <3>4. QED
      BY <2>2, <2>3, <3>1, <3>3
  <2>5. a = b
    BY <2>2, <2>3, <2>4, SeqEqual
  <2>6. QED
    BY <2>5 DEF a, b
<1>4. QED
  BY <1>1, <1>2, <1>3 DEF RemoveAt, R

LEMMA OverwrittenShown ==
  ASSUME NEW T, NEW s \in Seq(T), NEW n \in 1 .. Len(s), NEW c \in T
  PROVE  Delete(Left(Put(Left(At(s, n), 1), c), 1), 1) = At(RemoveAt(s, n), n - 1)
<1> DEFINE R == [s EXCEPT ![n] = c]
<1>1. Len(R) = Len(s) /\ RemoveAt(R, n) = RemoveAt(s, n)
  BY ExceptSeq, RestIs
<1>2. Put(At(s, n - 1), c) = At(R, n)
  <2>1. n - 1 < Len(s) /\ (n - 1) + 1 = n
    OBVIOUS
  <2>2. QED
    BY <2>1 DEF Put, At, ReplaceAt
<1> HIDE DEF R
<1>3. Delete(At(R, n - 1), 1) = At(RemoveAt(R, n), n - 1)
  <2>1. (n - 1) + 1 + 1 = n + 1
    OBVIOUS
  <2>2. QED
    BY <2>1, DeleteIs DEF RemoveAt
<1>4. QED
  BY <1>1, <1>2, <1>3, LeftIs

LEMMA CellDroppedShown ==
  ASSUME NEW S, NEW s \in Seq(S), NEW n \in 1 .. Len(s)
  PROVE  CellDropped(At(s, n)) = At(RemoveAt(s, n), n - 1)
<1>1. PICK b : b = " "
  OBVIOUS
<1>2. PICK T : T = S \cup {b}
  OBVIOUS
<1>3. s \in Seq(T) /\ b \in T
  BY <1>2, SeqMonotonic
<1>4. QED
  BY <1>1, <1>3, OverwrittenShown DEF CellDropped

LEMMA RecallShown ==
  ASSUME NEW S, NEW s \in Seq(S), NEW n \in 0 .. Len(s), NEW t \in Seq(S)
  PROVE  PutAll(Delete(Left(At(s, n), n), Len(s)), t) = At(t, Len(t))
<1>1. Left(At(s, n), n) = At(s, 0)
  BY DEF Left, At
<1>2. SubSeq(s, 1, 0) = <<>> /\ SubSeq(s, 0 + Len(s) + 1, Len(s)) = <<>>
  BY SubSeqEmpty
<1>3. Delete(At(s, 0), Len(s)) = At(<<>>, 0)
  <2>1. <<>> \o <<>> = <<>>
    OBVIOUS
  <2>2. QED
    BY <1>2, <2>1 DEF Delete, At
<1>4. SubSeq(<<>>, 1, 0) = <<>> /\ SubSeq(<<>>, 0 + Len(t) + 1, Len(<<>>)) = <<>>
  BY SubSeqEmpty
<1>5. <<>> \o t = t /\ t \o <<>> = t
  BY ConcatEmptySeq
<1>6. PutAll(At(<<>>, 0), t) = At(t, Len(t))
  BY <1>4, <1>5 DEF PutAll, At
<1>7. QED
  BY <1>1, <1>3, <1>6

-----------------------------------------------------------------------------
(* The ring.  Where the k-th line of count lines is, if the next goes to next. *)
Slot(next, count, k) == (next - count + k - 1 + CLI_LINE_HIS_MAX) % CLI_LINE_HIS_MAX
RingOK(next, count) ==
  /\ next \in Ring /\ count \in 0 .. CLI_LINE_HIS_MAX
  /\ count < CLI_LINE_HIS_MAX => next = count

LEMMA Wraps ==
  ASSUME NEW n \in Nat \ {0}, NEW a \in 0 .. 2 * n - 1
  PROVE  a % n = IF a < n THEN a ELSE a - n
<1>1. CASE a < n
  <2>1. a \in 0 .. n - 1
    BY <1>1
  <2>2. QED
    BY <2>1, <1>1
<1>2. CASE a >= n
  <2>1. a \in n .. 2 * n - 1
    BY <1>2
  <2>2. a % n = a - n
    BY <2>1
  <2>3. QED
    BY <2>2, <1>2
<1>3. QED
  BY <1>1, <1>2

LEMMA SlotIs ==
  ASSUME NEW next, NEW count, RingOK(next, count), NEW k \in 1 .. count
  PROVE  Slot(next, count, k) = IF next - count + k - 1 < 0
                                THEN next - count + k - 1 + CLI_LINE_HIS_MAX
                                ELSE next - count + k - 1
<1>1. PICK H \in Nat \ {0} : H = CLI_LINE_HIS_MAX
  BY ConsoleAssumption
<1>2. next \in 0 .. H - 1 /\ count \in 0 .. H
  BY <1>1 DEF RingOK, Ring
<1>3. PICK a \in Int : a = next - count + k - 1
  BY <1>2
<1>4. a + H \in 0 .. 2 * H - 1
  BY <1>2, <1>3
<1>5. (a + H) % H = IF a + H < H THEN a + H ELSE (a + H) - H
  BY <1>4, Wraps
<1>6. (a + H) % H = IF a < 0 THEN a + H ELSE a
  BY <1>3, <1>5
<1>7. QED
  BY <1>1, <1>3, <1>6 DEF Slot

(* While the ring fills, the k-th line is in place k - 1.                  *)
LEMMA SlotFilling ==
  ASSUME NEW next, NEW count, RingOK(next, count), count < CLI_LINE_HIS_MAX, NEW k \in 1 .. count
  PROVE  Slot(next, count, k) = k - 1
<1>1. next = count /\ count \in Nat
  BY ConsoleAssumption DEF RingOK
<1>2. next - count + k - 1 = k - 1 /\ k - 1 >= 0
  BY <1>1
<1>3. QED
  BY <1>2, SlotIs

(* When it is full, the oldest line is where the next goes.                *)
LEMMA SlotFull ==
  ASSUME NEW next \in Ring, NEW k \in 1 .. CLI_LINE_HIS_MAX
  PROVE  Slot(next, CLI_LINE_HIS_MAX, k) = IF next + k - 1 < CLI_LINE_HIS_MAX
                                           THEN next + k - 1
                                           ELSE next + k - 1 - CLI_LINE_HIS_MAX
<1>1. PICK H \in Nat \ {0} : H = CLI_LINE_HIS_MAX
  BY ConsoleAssumption
<1>2. RingOK(next, CLI_LINE_HIS_MAX)
  BY ConsoleAssumption DEF RingOK
<1>3. Slot(next, H, k) = IF next - H + k - 1 < 0 THEN next - H + k - 1 + H ELSE next - H + k - 1
  BY <1>1, <1>2, SlotIs
<1>4. next \in 0 .. H - 1
  BY <1>1 DEF Ring
<1>5. QED
  BY <1>1, <1>3, <1>4

LEMMA SlotType ==
  ASSUME NEW next, NEW count, RingOK(next, count), NEW k \in 1 .. count
  PROVE  Slot(next, count, k) \in 0 .. count - 1 /\ Slot(next, count, k) \in Ring
<1>1. PICK H \in Nat \ {0} : H = CLI_LINE_HIS_MAX
  BY ConsoleAssumption
<1>2. count \in 0 .. H
  BY <1>1 DEF RingOK
<1>3. CASE count < H
  <2>1. Slot(next, count, k) = k - 1
    BY <1>1, <1>3, SlotFilling
  <2>2. QED
    BY <2>1, <1>1, <1>2 DEF Ring
<1>4. CASE count = H
  <2>1. next \in 0 .. H - 1
    BY <1>1 DEF RingOK, Ring
  <2>2. Slot(next, count, k) = IF next + k - 1 < H THEN next + k - 1 ELSE next + k - 1 - H
    BY <1>1, <1>4, SlotFull DEF RingOK
  <2>3. QED
    BY <2>1, <2>2, <1>1, <1>4 DEF Ring
<1>5. QED
  BY <1>2, <1>3, <1>4

(* Every place below count holds one of the lines, and only one.           *)
LEMMA SlotOnto ==
  ASSUME NEW next, NEW count, RingOK(next, count), NEW i \in 0 .. count - 1
  PROVE  \E k \in 1 .. count : Slot(next, count, k) = i
<1>1. PICK H \in Nat \ {0} : H = CLI_LINE_HIS_MAX
  BY ConsoleAssumption
<1>2. count \in 0 .. H /\ next \in 0 .. H - 1
  BY <1>1 DEF RingOK, Ring
<1>3. CASE count < H
  <2>1. Slot(next, count, i + 1) = i /\ i + 1 \in 1 .. count
    BY <1>1, <1>2, <1>3, SlotFilling
  <2>2. QED
    BY <2>1
<1>4. CASE count = H
  <2>1. PICK k \in 1 .. H : k = IF i >= next THEN i - next + 1 ELSE i - next + 1 + H
    <3>1. (IF i >= next THEN i - next + 1 ELSE i - next + 1 + H) \in 1 .. H
      BY <1>2, <1>4
    <3>2. QED
      BY <3>1
  <2>2. Slot(next, H, k) = IF next + k - 1 < H THEN next + k - 1 ELSE next + k - 1 - H
    BY <1>1, SlotFull DEF RingOK
  <2>3. QED
    BY <2>1, <2>2, <1>2, <1>4
<1>5. QED
  BY <1>2, <1>3, <1>4

LEMMA SlotOnce ==
  ASSUME NEW next, NEW count, RingOK(next, count), NEW j \in 1 .. count, NEW k \in 1 .. count,
         Slot(next, count, j) = Slot(next, count, k)
  PROVE  j = k
<1>1. PICK H \in Nat \ {0} : H = CLI_LINE_HIS_MAX
  BY ConsoleAssumption
<1>2. count \in 0 .. H /\ next \in 0 .. H - 1
  BY <1>1 DEF RingOK, Ring
<1>3. CASE count < H
  <2>1. Slot(next, count, j) = j - 1 /\ Slot(next, count, k) = k - 1
    BY <1>1, <1>3, SlotFilling
  <2>2. j - 1 = k - 1
    BY <2>1, Zenon
  <2>3. j \in Nat /\ k \in Nat
    BY <1>2
  <2>4. QED
    BY <2>2, <2>3
<1>4. CASE count = H
  <2>1. Slot(next, H, j) = IF next + j - 1 < H THEN next + j - 1 ELSE next + j - 1 - H
    BY <1>1, <1>4, SlotFull DEF RingOK
  <2>2. Slot(next, H, k) = IF next + k - 1 < H THEN next + k - 1 ELSE next + k - 1 - H
    BY <1>1, <1>4, SlotFull DEF RingOK
  <2>3. QED
    BY <2>1, <2>2, <1>2, <1>4
<1>5. QED
  BY <1>2, <1>3, <1>4

(* One place down, or up, is the line before, or after, in a circle.       *)
LEMMA OlderSlot ==
  ASSUME NEW next, NEW count, RingOK(next, count), NEW k \in 1 .. count
  PROVE  (Slot(next, count, k) + count - 1) % count
            = Slot(next, count, IF k <= 1 THEN count ELSE k - 1)
<1>1. PICK H \in Nat \ {0} : H = CLI_LINE_HIS_MAX
  BY ConsoleAssumption
<1>2. count \in 1 .. H /\ next \in 0 .. H - 1
  BY <1>1 DEF RingOK, Ring
<1>3. PICK s \in 0 .. count - 1 : s = Slot(next, count, k)
  BY SlotType
<1>4. PICK q \in 1 .. count : q = IF k <= 1 THEN count ELSE k - 1
  BY <1>2
<1>5. (s + count - 1) % count = IF s + count - 1 < count THEN s + count - 1 ELSE s + count - 1 - count
  <2>1. count \in Nat \ {0} /\ s + count - 1 \in 0 .. 2 * count - 1
    BY <1>2
  <2>2. PICK x \in 0 .. 2 * count - 1 : x = s + count - 1
    BY <2>1
  <2>3. x % count = IF x < count THEN x ELSE x - count
    BY <2>1, Wraps
  <2>4. QED
    BY <2>2, <2>3, <1>2
<1>6. CASE count < H
  <2>1. s = k - 1 /\ Slot(next, count, q) = q - 1
    BY <1>1, <1>3, <1>6, SlotFilling
  <2>2. QED
    BY <2>1, <1>2, <1>3, <1>4, <1>5
<1>7. CASE count = H
  <2>1. s = IF next + k - 1 < H THEN next + k - 1 ELSE next + k - 1 - H
    BY <1>1, <1>3, <1>7, SlotFull DEF RingOK
  <2>2. Slot(next, count, q) = IF next + q - 1 < H THEN next + q - 1 ELSE next + q - 1 - H
    BY <1>1, <1>7, SlotFull DEF RingOK
  <2>3. (s + count - 1) % count = Slot(next, count, q)
    BY <2>1, <2>2, <1>2, <1>4, <1>5, <1>7
  <2>4. QED
    BY <2>3, <1>3, <1>4
<1>8. QED
  BY <1>2, <1>6, <1>7

LEMMA NewerSlot ==
  ASSUME NEW next, NEW count, RingOK(next, count), NEW k \in 1 .. count
  PROVE  (Slot(next, count, k) + 1) % count
            = Slot(next, count, IF k = count THEN 1 ELSE k + 1)
<1>1. PICK H \in Nat \ {0} : H = CLI_LINE_HIS_MAX
  BY ConsoleAssumption
<1>2. count \in 1 .. H /\ next \in 0 .. H - 1
  BY <1>1 DEF RingOK, Ring
<1>3. PICK s \in 0 .. count - 1 : s = Slot(next, count, k)
  BY SlotType
<1>4. PICK q \in 1 .. count : q = IF k = count THEN 1 ELSE k + 1
  BY <1>2
<1>5. (s + 1) % count = IF s + 1 < count THEN s + 1 ELSE s + 1 - count
  <2>1. count \in Nat \ {0} /\ s + 1 \in 0 .. 2 * count - 1
    BY <1>2
  <2>2. PICK x \in 0 .. 2 * count - 1 : x = s + 1
    BY <2>1
  <2>3. x % count = IF x < count THEN x ELSE x - count
    BY <2>1, Wraps
  <2>4. QED
    BY <2>2, <2>3, <1>2
<1>6. CASE count < H
  <2>1. s = k - 1 /\ Slot(next, count, q) = q - 1
    BY <1>1, <1>3, <1>6, SlotFilling
  <2>2. QED
    BY <2>1, <1>2, <1>3, <1>4, <1>5
<1>7. CASE count = H
  <2>1. s = IF next + k - 1 < H THEN next + k - 1 ELSE next + k - 1 - H
    BY <1>1, <1>3, <1>7, SlotFull DEF RingOK
  <2>2. Slot(next, count, q) = IF next + q - 1 < H THEN next + q - 1 ELSE next + q - 1 - H
    BY <1>1, <1>7, SlotFull DEF RingOK
  <2>3. (s + 1) % count = Slot(next, count, q)
    BY <2>1, <2>2, <1>2, <1>4, <1>5, <1>7
  <2>4. QED
    BY <2>3, <1>3, <1>4
<1>8. QED
  BY <1>2, <1>6, <1>7

(* From where the next line goes, one place down is the newest.            *)
LEMMA NewestSlot ==
  ASSUME NEW next, NEW count, RingOK(next, count), count > 0
  PROVE  (next + count - 1) % count = Slot(next, count, count)
<1>1. PICK H \in Nat \ {0} : H = CLI_LINE_HIS_MAX
  BY ConsoleAssumption
<1>2. count \in 1 .. H /\ next \in 0 .. H - 1
  BY <1>1 DEF RingOK, Ring
<1>3. CASE count < H
  <2>1. next = count /\ Slot(next, count, count) = count - 1
    <3>1. next = count /\ count \in 1 .. count
      BY <1>1, <1>2, <1>3 DEF RingOK
    <3>2. QED
      BY <3>1, <1>1, <1>3, SlotFilling
  <2>2. (count + count - 1) % count = IF count + count - 1 < count THEN count + count - 1
                                      ELSE count + count - 1 - count
    <3>1. count \in Nat \ {0} /\ count + count - 1 \in 0 .. 2 * count - 1
      BY <1>2
    <3>2. PICK x \in 0 .. 2 * count - 1 : x = count + count - 1
      BY <3>1
    <3>3. x % count = IF x < count THEN x ELSE x - count
      BY <3>1, Wraps
    <3>4. QED
      BY <3>2, <3>3, <1>2
  <2>3. QED
    BY <2>1, <2>2, <1>2
<1>4. CASE count = H
  <2>1. Slot(next, count, count) = IF next + count - 1 < H THEN next + count - 1 ELSE next + count - 1 - H
    BY <1>1, <1>2, <1>4, SlotFull DEF RingOK
  <2>2. (next + count - 1) % count = IF next + count - 1 < count THEN next + count - 1
                                      ELSE next + count - 1 - count
    <3>1. count \in Nat \ {0} /\ next + count - 1 \in 0 .. 2 * count - 1
      BY <1>2, <1>4
    <3>2. PICK x \in 0 .. 2 * count - 1 : x = next + count - 1
      BY <3>1
    <3>3. x % count = IF x < count THEN x ELSE x - count
      BY <3>1, Wraps
    <3>4. QED
      BY <3>2, <3>3, <1>2
  <2>3. QED
    BY <2>1, <2>2, <1>4
<1>5. QED
  BY <1>2, <1>3, <1>4

(* A line joins: those before it stay, but the oldest of a full ring.      *)
LEMMA RingAdd ==
  ASSUME NEW next, NEW count, RingOK(next, count), NEW next2, NEW count2,
         next2 = (next + 1) % CLI_LINE_HIS_MAX,
         count2 = count + (IF count < CLI_LINE_HIS_MAX THEN 1 ELSE 0)
  PROVE  /\ RingOK(next2, count2) /\ count2 > 0
         /\ Slot(next2, count2, count2) = next /\ next < count2
         /\ count < CLI_LINE_HIS_MAX =>
              \A k \in 1 .. count : Slot(next2, count2, k) = Slot(next, count, k) /\ Slot(next, count, k) # next
         /\ count = CLI_LINE_HIS_MAX =>
              \A k \in 1 .. count - 1 : Slot(next2, count2, k) = Slot(next, count, k + 1)
                                       /\ Slot(next2, count2, k) # next
<1>1. PICK H \in Nat \ {0} : H = CLI_LINE_HIS_MAX
  BY ConsoleAssumption
<1>2. count \in 0 .. H /\ next \in 0 .. H - 1
  BY <1>1 DEF RingOK, Ring
<1>3. next2 = IF next + 1 < H THEN next + 1 ELSE next + 1 - H
  <2>1. next + 1 \in 0 .. 2 * H - 1
    BY <1>2
  <2>2. PICK x \in 0 .. 2 * H - 1 : x = next + 1
    BY <2>1
  <2>3. x % H = IF x < H THEN x ELSE x - H
    BY Wraps
  <2>4. QED
    BY <1>1, <1>2, <2>2, <2>3
<1>4. next2 \in 0 .. H - 1
  BY <1>2, <1>3
<1>5. CASE count < H
  <2>1. next = count /\ count2 = count + 1
    BY <1>1, <1>5 DEF RingOK
  <2>2. RingOK(next2, count2)
    BY <2>1, <1>1, <1>2, <1>3, <1>4, <1>5 DEF RingOK, Ring
  <2>3. ASSUME NEW k \in 1 .. count2 PROVE Slot(next2, count2, k) = k - 1
    <3>1. Slot(next2, count2, k) = IF next2 - count2 + k - 1 < 0 THEN next2 - count2 + k - 1 + H
                                   ELSE next2 - count2 + k - 1
      BY <1>1, <2>2, SlotIs
    <3>2. QED
      BY <3>1, <2>1, <1>2, <1>3, <1>5
  <2>4. \A k \in 1 .. count : Slot(next, count, k) = k - 1
    BY <1>1, <1>5, SlotFilling
  <2>5. QED
    BY <2>1, <2>2, <2>3, <2>4, <1>1, <1>2, <1>5
<1>6. CASE count = H
  <2>1. count2 = H
    BY <1>1, <1>6
  <2>2. RingOK(next2, count2)
    BY <2>1, <1>1, <1>4 DEF RingOK, Ring
  <2>3. \A k \in 1 .. H : Slot(next2, H, k) = IF next2 + k - 1 < H THEN next2 + k - 1 ELSE next2 + k - 1 - H
    BY <1>1, <1>4, SlotFull DEF Ring
  <2>4. \A k \in 1 .. H : Slot(next, H, k) = IF next + k - 1 < H THEN next + k - 1 ELSE next + k - 1 - H
    BY <1>1, <1>2, SlotFull DEF Ring
  <2>5. Slot(next2, H, H) = next /\ next < H
    BY <2>3, <1>2, <1>3
  <2>6. ASSUME NEW k \in 1 .. H - 1
        PROVE  Slot(next2, H, k) = Slot(next, H, k + 1) /\ Slot(next2, H, k) # next
    <3>1. k \in 1 .. H /\ k + 1 \in 1 .. H
      BY <1>2
    <3>2. Slot(next2, H, k) = IF next2 + k - 1 < H THEN next2 + k - 1 ELSE next2 + k - 1 - H
      BY <3>1, <2>3
    <3>3. Slot(next, H, k + 1) = IF next + (k + 1) - 1 < H THEN next + (k + 1) - 1 ELSE next + (k + 1) - 1 - H
      BY <3>1, <2>4
    <3>4. QED
      BY <3>2, <3>3, <1>2, <1>3
  <2>7. QED
    BY <2>1, <2>2, <2>5, <2>6, <1>1, <1>6
<1>7. QED
  BY <1>2, <1>5, <1>6

-----------------------------------------------------------------------------
(* The state.                                                              *)
LEMMA TypeIs == TypeOK <=> InputOK /\ RingType /\ off \in BOOLEAN
  BY DEF TypeOK, InputOK, RingType

LEMMA EmptyLine == <<>> \in Lines /\ Len(<<>>) = 0
<1>1. buf_len - 1 >= 0
  BY ConsoleAssumption DEF buf_len
<1>2. <<>> \in Seq(Chars) /\ Len(<<>>) = 0
  BY EmptySeq
<1>3. QED
  BY <1>1, <1>2, LineIs

LEMMA PlaceIs == \A k : Place(k) = Slot(hist_line_last, hist_line_count, k)
  BY DEF Place, Slot

LEMMA RingIs == RingType /\ HistOK => RingOK(hist_line_last, hist_line_count)
  BY DEF RingType, HistOK, RingOK

LEMMA AddKeeps ==
  ASSUME RingType, HistOK, cliLineAdd, line \in Lines
  PROVE  RingType' /\ HistOK'
<1>1. PICK next2, count2 : next2 = hist_line_last' /\ count2 = hist_line_count'
  OBVIOUS
<1>2. next2 = (hist_line_last + 1) % CLI_LINE_HIS_MAX
      /\ count2 = hist_line_count + (IF hist_line_count < CLI_LINE_HIS_MAX THEN 1 ELSE 0)
  BY <1>1 DEF cliLineAdd
<1>3. RingOK(hist_line_last, hist_line_count)
  BY RingIs
<1>4. /\ RingOK(next2, count2) /\ count2 > 0
      /\ Slot(next2, count2, count2) = hist_line_last /\ hist_line_last < count2
  BY <1>2, <1>3, RingAdd
<1>5. Place(hist_line_count)' = Slot(next2, count2, count2)
  BY <1>1 DEF Place, Slot
<1>6. hist_line_i' = hist_line_last /\ hist_line_new' = TRUE
  BY DEF cliLineAdd
<1>7. HistOK'
  <2>1. next2 \in Ring /\ count2 \in 0 .. CLI_LINE_HIS_MAX
        /\ (count2 < CLI_LINE_HIS_MAX => next2 = count2)
    BY <1>4 DEF RingOK
  <2>2. count2 # 0
    BY <1>4, <2>1, ConsoleAssumption
  <2>3. QED
    BY <1>1, <1>4, <1>5, <1>6, <2>1, <2>2 DEF HistOK
<1>8. RingType'
  <2>1. line_buf' \in [Ring -> Lines]
    BY DEF RingType, cliLineAdd
  <2>2. hist_line_i' \in Ring /\ hist_line_new' \in BOOLEAN
    BY <1>6 DEF RingType
  <2>3. QED
    BY <2>1, <2>2, <1>1, <1>4 DEF RingType, RingOK
<1>9. QED
  BY <1>7, <1>8

LEMMA DrawKeeps ==
  ASSUME NEW t, Draw(t), off \in BOOLEAN, ~off => t = At(line', cursor')
  PROVE  off' \in BOOLEAN /\ (~off' => screen' = At(line', cursor'))
  BY DEF Draw

LEMMA OffKeeps ==
  ASSUME DrawOff
  PROVE  off' \in BOOLEAN /\ off'
  BY DEF DrawOff

(* UP and DOWN land on one of the places that hold a line.                 *)
LEMMA RecallPlaces ==
  ASSUME RingType, HistOK, hist_line_count > 0
  PROVE  Older \in 0 .. hist_line_count - 1 /\ Newer \in 0 .. hist_line_count - 1
<1>1. hist_line_count \in Nat \ {0} /\ hist_line_i \in Nat /\ hist_line_last \in Nat
  BY ConsoleAssumption DEF RingType, Ring
<1>2. PICK from \in Nat : from = IF hist_line_new THEN hist_line_last ELSE hist_line_i
  BY <1>1
<1>3. (from + hist_line_count - 1) \in Int /\ hist_line_i + 1 \in Int
  BY <1>1, <1>2
<1>4. (from + hist_line_count - 1) % hist_line_count \in 0 .. hist_line_count - 1
  BY <1>1, <1>3
<1>5. (hist_line_i + 1) % hist_line_count \in 0 .. hist_line_count - 1
  BY <1>1, <1>3
<1>6. QED
  BY <1>2, <1>4, <1>5 DEF Older, Newer

LEMMA RecallKeeps ==
  ASSUME ConsoleInv, running = None, NEW i \in 0 .. hist_line_count - 1, Recall(i)
  PROVE  /\ RingType' /\ HistOK'
         /\ line' \in Lines /\ cursor' \in 0 .. Len(line')
         /\ off' \in BOOLEAN /\ (~off' => screen' = At(line', cursor'))
<1> USE DEF ConsoleInv
<1>1. hist_line_count \in 0 .. CLI_LINE_HIS_MAX /\ i \in Ring
  BY ConsoleAssumption DEF RingType, Ring
<1>2. line_buf[i] \in Lines
  BY <1>1 DEF RingType
<1>3. line_buf[i] \in Seq(Chars) /\ line \in Seq(Chars) /\ cursor \in 0 .. Len(line)
  BY <1>2, LineIs DEF InputOK
<1>4. line' = line_buf[i] /\ cursor' = Len(line_buf[i])
  BY DEF Recall
<1>5. line' \in Lines /\ cursor' \in 0 .. Len(line')
  BY <1>2, <1>3, <1>4, LenProperties
<1>6. RingType'
  BY <1>1 DEF Recall, RingType
<1>7. HistOK'
  BY <1>1 DEF Recall, HistOK
<1>8. off' \in BOOLEAN /\ (~off' => screen' = At(line', cursor'))
  <2>1. CASE Draw(PutAll(Delete(Left(screen, cursor), Len(line)), line_buf[i]))
    <3>1. ASSUME ~off
          PROVE  PutAll(Delete(Left(screen, cursor), Len(line)), line_buf[i]) = At(line', cursor')
      <4>1. screen = At(line, cursor)
        BY <3>1 DEF ScreenMirrors, At
      <4>2. QED
        BY <4>1, <1>3, <1>4, RecallShown
    <3>2. QED
      BY <2>1, <3>1, DrawKeeps
  <2>2. CASE DrawOff
    BY <2>2, OffKeeps
  <2>3. QED
    BY <2>1, <2>2 DEF Recall
<1>9. QED
  BY <1>5, <1>6, <1>7, <1>8

LEMMA PartedLen ==
  ASSUME NEW s \in Seq(Chars)
  PROVE  Len(Parted(s)) = Len(s)
<1>1. DOMAIN s = 1 .. Len(s) /\ Len(s) \in Nat
  BY LenProperties
<1>2. PICK T : T = Chars \cup {Nul}
  OBVIOUS
<1>3. \A i \in 1 .. Len(s) : s[i] \in T /\ Nul \in T
  BY <1>2, ElementOfSeq
<1>4. Parted(s) \in [1 .. Len(s) -> T]
  BY <1>1, <1>3 DEF Parted
<1>5. Parted(s) \in Seq(T)
  BY <1>1, <1>4, SeqDef
<1>6. Len(Parted(s)) \in Nat /\ 1 .. Len(Parted(s)) = 1 .. Len(s)
  BY <1>4, <1>5, LenProperties
<1>7. QED
  BY <1>1, <1>6

(* What runs is in the list.                                               *)
LEMMA RunsListed ==
  ASSUME NEW s, cliRunCmd(s) # None
  PROVE  cliRunCmd(s).index \in DOMAIN cmd_list
<1> DEFINE w == cliToUpper(cliParseArgs(s)[1])
           found == {i \in DOMAIN cmd_list : cmd_list[i] = w}
<1>1. found # {} /\ cliRunCmd(s).index = Min(found)
  BY DEF cliRunCmd
<1>2. DOMAIN cmd_list \subseteq Nat
  <2>1. DOMAIN Names \subseteq Nat
    BY ConsoleAssumption, LenProperties
  <2>2. QED
    BY <2>1 DEF cmd_list
<1>3. Min(found) \in found
  BY <1>1, <1>2, LeastIs
<1>4. QED
  BY <1>1, <1>3

-----------------------------------------------------------------------------
LEMMA ConsoleInitInv == Init => ConsoleInv
<1> SUFFICES ASSUME Init PROVE ConsoleInv
  OBVIOUS
<1> USE DEF Init
<1>1. InputOK /\ off \in BOOLEAN
  <2>1. cursor \in 0 .. Len(line)
    BY EmptyLine
  <2>2. rx \in 0 .. RX_MAX
    BY ConsoleAssumption
  <2>3. QED
    BY <2>1, <2>2, EmptyLine DEF InputOK
<1>2. RingType
  BY EmptyLine, ConsoleAssumption DEF RingType, Ring
<1>3. HistOK
  BY ConsoleAssumption DEF HistOK
<1>4. ScreenMirrors
  BY DEF ScreenMirrors, Fresh
<1>5. QED
  BY <1>1, <1>2, <1>3, <1>4 DEF ConsoleInv

(* Steps that leave the ring alone, and those that only read a byte.       *)
LEMMA RingKept == RingType /\ HistOK /\ UNCHANGED hist => RingType' /\ HistOK'
  BY DEF RingType, HistOK, hist, Place

LEMMA ReadKeeps ==
  ASSUME InputOK, cliMain, UNCHANGED commands, state' \in {"IDLE", "SP2", "SP3", "SP4"},
         line' \in Lines, cursor' \in 0 .. Len(line')
  PROVE  InputOK'
<1>1. rx' \in 0 .. RX_MAX
  BY ConsoleAssumption DEF InputOK, cliMain
<1>2. running' = running /\ keeps' = keeps /\ running = None /\ keeps \in BOOLEAN
  BY DEF InputOK, cliMain, commands
<1>3. QED
  BY <1>1, <1>2 DEF InputOK

LEMMA EditKeeps ==
  ASSUME ConsoleInv, UNCHANGED <<hist, commands>>, cliMain,
         state' \in {"IDLE", "SP2", "SP3", "SP4"},
         line' \in Lines, cursor' \in 0 .. Len(line'),
         off' \in BOOLEAN, ~off' => screen' = At(line', cursor')
  PROVE  ConsoleInv'
<1>1. RingType' /\ HistOK'
  BY RingKept DEF ConsoleInv
<1>2. InputOK'
  BY ReadKeeps DEF ConsoleInv
<1>3. ScreenMirrors'
  BY DEF ScreenMirrors, At
<1>4. QED
  BY <1>1, <1>2, <1>3 DEF ConsoleInv

LEMMA LineNow ==
  ASSUME ConsoleInv, cliMain
  PROVE  /\ line \in Seq(Chars) /\ line \in Lines /\ Len(line) \in Nat /\ cursor \in 0 .. Len(line)
         /\ off \in BOOLEAN /\ (~off => screen = At(line, cursor))
  BY LineIs, LenProperties DEF ConsoleInv, InputOK, cliMain, ScreenMirrors, At

LEMMA DelInv ==
  ASSUME ConsoleInv, Del PROVE ConsoleInv'
<1>1. line \in Seq(Chars) /\ line \in Lines /\ Len(line) \in Nat /\ cursor \in 0 .. Len(line)
      /\ off \in BOOLEAN /\ (~off => screen = At(line, cursor))
  BY LineNow DEF Del, Key
<1>2. cursor + 1 \in 1 .. Len(line) /\ cursor \in 0 .. Len(line) - 1
  BY <1>1 DEF Del
<1>3. RemoveAt(line, cursor + 1) \in Seq(Chars) /\ Len(RemoveAt(line, cursor + 1)) = Len(line) - 1
  BY <1>1, <1>2, RemoveIs
<1>4. RemoveAt(line, cursor + 1) \in Lines
  <2>1. Len(line) <= buf_len - 1 /\ buf_len - 1 \in Int
    BY <1>1, LineIs, ConsoleAssumption DEF buf_len
  <2>2. Len(line) - 1 <= buf_len - 1
    BY <1>1, <2>1
  <2>3. QED
    BY <1>3, <2>2, LineIs
<1>5. line' = RemoveAt(line, cursor + 1) /\ cursor' = cursor
  BY DEF Del
<1>6. cursor' \in 0 .. Len(line')
  BY <1>1, <1>2, <1>3, <1>5
<1>7. ~off => Delete(screen, 1) = At(line', cursor')
  BY <1>1, <1>2, <1>5, DeleteShown
<1>8. off' \in BOOLEAN /\ (~off' => screen' = At(line', cursor'))
  BY <1>1, <1>7, DrawKeeps DEF Del
<1>9. QED
  BY <1>4, <1>5, <1>6, <1>8, EditKeeps DEF Del, Key

LEMMA BackInv ==
  ASSUME ConsoleInv, Back PROVE ConsoleInv'
<1>1. line \in Seq(Chars) /\ line \in Lines /\ Len(line) \in Nat /\ cursor \in 0 .. Len(line)
      /\ off \in BOOLEAN /\ (~off => screen = At(line, cursor))
  BY LineNow DEF Back, Key
<1>2. cursor \in 1 .. Len(line)
  BY <1>1 DEF Back
<1>3. RemoveAt(line, cursor) \in Seq(Chars) /\ Len(RemoveAt(line, cursor)) = Len(line) - 1
  BY <1>1, <1>2, RemoveIs
<1>4. RemoveAt(line, cursor) \in Lines
  <2>1. Len(line) <= buf_len - 1 /\ buf_len - 1 \in Int
    BY <1>1, LineIs, ConsoleAssumption DEF buf_len
  <2>2. Len(line) - 1 <= buf_len - 1
    BY <1>1, <2>1
  <2>3. QED
    BY <1>3, <2>2, LineIs
<1>5. line' = RemoveAt(line, cursor) /\ cursor' = cursor - 1
  BY DEF Back
<1>6. cursor' \in 0 .. Len(line')
  BY <1>1, <1>2, <1>3, <1>5
<1>7. ~off => CellDropped(screen) = At(line', cursor')
  BY <1>1, <1>2, <1>5, CellDroppedShown
<1>8. off' \in BOOLEAN /\ (~off' => screen' = At(line', cursor'))
  BY <1>1, <1>7, DrawKeeps DEF Back
<1>9. QED
  BY <1>4, <1>5, <1>6, <1>8, EditKeeps DEF Back, Key

LEMMA TypeInv ==
  ASSUME ConsoleInv, NEW c \in Chars, Type(c) PROVE ConsoleInv'
<1>1. line \in Seq(Chars) /\ line \in Lines /\ Len(line) \in Nat /\ cursor \in 0 .. Len(line)
      /\ off \in BOOLEAN /\ (~off => screen = At(line, cursor))
  BY LineNow DEF Type, Key
<1>2. InsertAt(line, cursor + 1, c) \in Seq(Chars) /\ Len(InsertAt(line, cursor + 1, c)) = Len(line) + 1
  BY <1>1, InsertIs
<1>3. InsertAt(line, cursor + 1, c) \in Lines
  <2>1. Len(line) + 1 < buf_len /\ buf_len \in Int
    BY ConsoleAssumption DEF buf_len, Type, HasRoom
  <2>2. Len(line) + 1 <= buf_len - 1
    BY <1>1, <2>1
  <2>3. QED
    BY <1>2, <2>2, LineIs
<1>4. line' = InsertAt(line, cursor + 1, c) /\ cursor' = cursor + 1
  BY DEF Type
<1>5. cursor' \in 0 .. Len(line')
  BY <1>1, <1>2, <1>4
<1>6. PICK t : t = IF cursor = Len(line) THEN Put(screen, c) ELSE Insert(screen, c)
  OBVIOUS
<1>7. ~off => t = At(line', cursor')
  BY <1>1, <1>4, <1>6, TypeShown
<1>8. off' \in BOOLEAN /\ (~off' => screen' = At(line', cursor'))
  BY <1>1, <1>6, <1>7, DrawKeeps DEF Type
<1>9. QED
  BY <1>3, <1>4, <1>5, <1>8, EditKeeps DEF Type, Key

(* Bytes that change nothing but the state of the sequence.                *)
LEMMA StillKeeps ==
  ASSUME ConsoleInv, cliMain, state' \in {"IDLE", "SP2", "SP3", "SP4"},
         UNCHANGED <<line, cursor, hist, commands, screen, off>>
  PROVE  ConsoleInv'
<1>1. line \in Lines /\ cursor \in 0 .. Len(line) /\ off \in BOOLEAN /\ (~off => screen = At(line, cursor))
  BY LineNow
<1>2. QED
  BY <1>1, EditKeeps

LEMMA MovesInv ==
  ASSUME ConsoleInv, KeyLeft \/ KeyRight \/ KeyHome \/ KeyEnd PROVE ConsoleInv'
<1>1. line \in Seq(Chars) /\ line \in Lines /\ Len(line) \in Nat /\ cursor \in 0 .. Len(line)
      /\ off \in BOOLEAN /\ (~off => screen = At(line, cursor))
  BY LineNow DEF KeyLeft, KeyRight, KeyHome, KeyEnd, Third
<1>2. line' = line
  BY DEF KeyLeft, KeyRight, KeyHome, KeyEnd
<1>3. cursor' \in 0 .. Len(line)
  BY <1>1 DEF KeyLeft, KeyRight, KeyHome, KeyEnd
<1>4. off' \in BOOLEAN /\ (~off' => screen' = At(line', cursor'))
  <2>1. CASE KeyLeft
    <3>1. ~off => Left(screen, 1) = At(line', cursor')
      BY <2>1, <1>1, <1>2, LeftIs DEF KeyLeft
    <3>2. QED
      BY <2>1, <3>1, <1>1, DrawKeeps DEF KeyLeft
  <2>2. CASE KeyRight
    <3>1. ~off => Right(screen, 1) = At(line', cursor')
      BY <2>2, <1>1, <1>2 DEF KeyRight, Right, At
    <3>2. QED
      BY <2>2, <3>1, <1>1, DrawKeeps DEF KeyRight
  <2>3. CASE KeyHome /\ cursor > 0
    <3>1. ~off => Left(screen, cursor) = At(line', cursor')
      <4>1. cursor - cursor = 0
        BY <1>1
      <4>2. QED
        BY <2>3, <4>1, <1>1, <1>2, LeftIs DEF KeyHome
    <3>2. QED
      BY <2>3, <3>1, <1>1, DrawKeeps DEF KeyHome
  <2>4. CASE KeyHome /\ ~(cursor > 0)
    BY <2>4, OffKeeps DEF KeyHome
  <2>5. CASE KeyEnd
    <3>1. ~off => Right(screen, Len(line) - cursor) = At(line', cursor')
      <4>1. cursor + (Len(line) - cursor) = Len(line)
        BY <1>1
      <4>2. QED
        BY <2>5, <4>1, <1>1, <1>2 DEF KeyEnd, Right, At
    <3>2. QED
      BY <2>5, <3>1, <1>1, DrawKeeps DEF KeyEnd
  <2>6. QED
    BY <2>1, <2>2, <2>3, <2>4, <2>5
<1>5. QED
  BY <1>1, <1>2, <1>3, <1>4, EditKeeps DEF KeyLeft, KeyRight, KeyHome, KeyEnd, Third

LEMMA UpDownInv ==
  ASSUME ConsoleInv, KeyUpDown PROVE ConsoleInv'
<1>1. running = None /\ hist_line_count > 0 /\ hist_line_count \in 0 .. CLI_LINE_HIS_MAX
  BY DEF KeyUpDown, Third, cliMain, ConsoleInv, RingType
<1>2. PICK i \in 0 .. hist_line_count - 1 : Recall(i)
  BY <1>1, RecallPlaces DEF KeyUpDown, ConsoleInv
<1>3. /\ RingType' /\ HistOK'
      /\ line' \in Lines /\ cursor' \in 0 .. Len(line')
      /\ off' \in BOOLEAN /\ (~off' => screen' = At(line', cursor'))
  BY <1>1, <1>2, RecallKeeps
<1>4. InputOK'
  BY <1>3, ReadKeeps DEF ConsoleInv, KeyUpDown, Third
<1>5. ScreenMirrors'
  BY <1>3 DEF ScreenMirrors, At
<1>6. QED
  BY <1>3, <1>4, <1>5 DEF ConsoleInv

LEMMA UpDownEmptyInv ==
  ASSUME ConsoleInv, KeyUpDownEmpty PROVE ConsoleInv'
<1>1. line \in Lines /\ cursor \in 0 .. Len(line) /\ off \in BOOLEAN /\ (~off => screen = At(line, cursor))
  BY LineNow DEF KeyUpDownEmpty, Third
<1>2. line' = line /\ cursor' = cursor
  BY DEF KeyUpDownEmpty
<1>3. off' \in BOOLEAN /\ (~off' => screen' = At(line', cursor'))
  BY <1>1, <1>2, DrawKeeps, OffKeeps DEF KeyUpDownEmpty
<1>4. QED
  BY <1>1, <1>2, <1>3, EditKeeps DEF KeyUpDownEmpty, Third

LEMMA EnterCommandInv ==
  ASSUME ConsoleInv, EnterCommand PROVE ConsoleInv'
<1>1. line \in Seq(Chars) /\ line \in Lines /\ cursor \in 0 .. Len(line) /\ off \in BOOLEAN
  BY LineNow DEF EnterCommand
<1>2. RingType' /\ HistOK'
  BY <1>1, AddKeeps DEF EnterCommand, ConsoleInv
<1>3. line' = Parted(line) /\ cursor' = cursor /\ running' = cliRunCmd(line) /\ running' # None
  BY DEF EnterCommand
<1>4. Len(line') = Len(line)
  BY <1>1, <1>3, PartedLen
<1>5. running'.index \in DOMAIN cmd_list
  BY <1>3, RunsListed
<1>6. InputOK'
  <2>1. state' \in {"IDLE", "SP2", "SP3", "SP4"} /\ rx' \in 0 .. RX_MAX /\ keeps' \in BOOLEAN
    BY ConsoleAssumption DEF EnterCommand, cliMain, ConsoleInv, InputOK
  <2>2. cursor' \in 0 .. Len(line')
    BY <1>1, <1>3, <1>4
  <2>3. QED
    BY <2>1, <2>2, <1>3, <1>5 DEF InputOK
<1>7. ScreenMirrors'
  BY <1>3 DEF ScreenMirrors
<1>8. QED
  BY <1>1, <1>2, <1>6, <1>7 DEF EnterCommand, ConsoleInv

(* Behind a prompt, nothing is typed yet.                                  *)
LEMMA PromptKeeps ==
  ASSUME Prompt, line' = <<>>, cursor' = 0
  PROVE  ScreenMirrors' /\ off' \in BOOLEAN /\ line' \in Lines /\ cursor' \in 0 .. Len(line')
<1>1. line' \in Lines /\ cursor' \in 0 .. Len(line')
  BY EmptyLine
<1>2. QED
  BY <1>1 DEF Prompt, Fresh, ScreenMirrors

LEMMA EnterNothingInv ==
  ASSUME ConsoleInv, EnterNothing PROVE ConsoleInv'
<1>1. ScreenMirrors' /\ off' \in BOOLEAN /\ line' \in Lines /\ cursor' \in 0 .. Len(line')
  BY PromptKeeps DEF EnterNothing
<1>2. line \in Lines
  BY LineNow DEF EnterNothing, Key
<1>3. RingType' /\ HistOK'
  <2>1. CASE UNCHANGED hist
    BY <2>1, RingKept DEF ConsoleInv
  <2>2. CASE cliLineAdd
    BY <2>2, <1>2, AddKeeps DEF ConsoleInv
  <2>3. QED
    BY <2>1, <2>2 DEF EnterNothing
<1>4. InputOK'
  BY <1>1, ReadKeeps DEF EnterNothing, Key, ConsoleInv, InputOK
<1>5. QED
  BY <1>1, <1>3, <1>4 DEF ConsoleInv

LEMMA EndsInv ==
  ASSUME ConsoleInv, Ends PROVE ConsoleInv'
<1>1. ScreenMirrors' /\ off' \in BOOLEAN /\ line' \in Lines /\ cursor' \in 0 .. Len(line')
  BY PromptKeeps DEF Ends
<1>2. RingType' /\ HistOK'
  BY RingKept DEF ConsoleInv, Ends
<1>3. InputOK'
  BY <1>1 DEF Ends, ConsoleInv, InputOK
<1>4. QED
  BY <1>1, <1>2, <1>3 DEF ConsoleInv

LEMMA ArrivesInv ==
  ASSUME ConsoleInv, Arrives PROVE ConsoleInv'
<1>1. RingType' /\ HistOK'
  BY RingKept DEF ConsoleInv, Arrives
<1>2. InputOK'
  BY ConsoleAssumption DEF Arrives, ConsoleInv, InputOK, commands
<1>3. QED
  BY <1>1, <1>2 DEF Arrives, ConsoleInv, ScreenMirrors, commands

LEMMA LogInv ==
  ASSUME ConsoleInv, LogLine PROVE ConsoleInv'
<1>1. RingType' /\ HistOK'
  BY RingKept DEF ConsoleInv, LogLine
<1>2. InputOK'
  BY DEF LogLine, ConsoleInv, InputOK, commands
<1>3. QED
  BY <1>1, <1>2 DEF LogLine, DrawOff, ConsoleInv, ScreenMirrors, commands

LEMMA StillInv ==
  ASSUME ConsoleInv, Esc \/ Skip \/ Other PROVE ConsoleInv'
  BY StillKeeps DEF Esc, Skip, Other, Third, Key

LEMMA StutterInv ==
  ASSUME ConsoleInv, UNCHANGED vars PROVE ConsoleInv'
<1>1. RingType' /\ HistOK'
  BY RingKept DEF ConsoleInv, vars
<1>2. QED
  BY <1>1 DEF ConsoleInv, InputOK, ScreenMirrors, vars, commands

LEMMA ConsoleNextInv == ConsoleInv /\ [Next]_vars => ConsoleInv'
  BY ArrivesInv, LogInv, EnterCommandInv, EndsInv, EnterNothingInv, DelInv, BackInv, TypeInv, StillInv,
     MovesInv, UpDownInv, UpDownEmptyInv, StutterInv DEF Next

LEMMA ConsoleInvariance == Spec => []ConsoleInv
  BY ConsoleInitInv, ConsoleNextInv, PTL DEF Spec

(* Every variable has its type: the line and its terminator fit line.buf,  *)
(* the cursor stays within the line, the ring's indices within the ring,   *)
(* and what runs is in the list of commands (cliAdd, cliMain).             *)
THEOREM TypeCorrect == Spec => []TypeOK
<1>1. ConsoleInv => TypeOK
  BY TypeIs DEF ConsoleInv
<1>2. QED
  BY <1>1, ConsoleInvariance, PTL

(* The terminal shows the line, with the cursor where the next key acts,   *)
(* however it was typed, recalled and cut: cliMain sends the change of     *)
(* each key and never draws the line anew.                                 *)
THEOREM ScreenMirrorsHolds == Spec => []ScreenMirrors
<1>1. ConsoleInv => ScreenMirrors
  BY DEF ConsoleInv
<1>2. QED
  BY <1>1, ConsoleInvariance, PTL

-----------------------------------------------------------------------------
(* The ring is the history.                                                *)
LEMMA PastIs ==
  ASSUME RingType, HistOK
  PROVE  Past \in Seq(Lines) /\ Len(Past) = hist_line_count
<1>1. hist_line_count \in Nat
  BY ConsoleAssumption DEF RingType
<1>2. RingOK(hist_line_last, hist_line_count)
  BY RingIs
<1>3. \A k \in 1 .. hist_line_count : Place(k) \in Ring
  BY <1>2, SlotType, PlaceIs
<1>4. \A k \in 1 .. hist_line_count : line_buf[Place(k)] \in Lines
  BY <1>3 DEF RingType
<1>5. Past \in [1 .. hist_line_count -> Lines]
  BY <1>4 DEF Past
<1>6. Past \in Seq(Lines)
  BY <1>1, <1>5, SeqDef
<1>7. Len(Past) \in Nat /\ 1 .. Len(Past) = 1 .. hist_line_count
  BY <1>5, <1>6, LenProperties
<1>8. QED
  BY <1>1, <1>6, <1>7

LEMMA PosIs ==
  ASSUME RingType, HistOK, hist_line_count > 0, ~hist_line_new
  PROVE  /\ Pos \in 1 .. hist_line_count /\ Place(Pos) = hist_line_i
         /\ \A k \in 1 .. hist_line_count : Place(k) = hist_line_i => Pos = k
<1>1. RingOK(hist_line_last, hist_line_count)
  BY RingIs
<1>2. hist_line_count \in Nat /\ hist_line_i \in 0 .. hist_line_count - 1
  BY ConsoleAssumption DEF RingType, HistOK, Ring
<1>3. \E k \in 1 .. hist_line_count : Place(k) = hist_line_i
  BY <1>1, <1>2, SlotOnto, PlaceIs
<1>4. \A j, k \in 1 .. hist_line_count : Place(j) = Place(k) => j = k
  BY <1>1, SlotOnce, PlaceIs
<1>5. Pos = CHOOSE k \in 1 .. hist_line_count : Place(k) = hist_line_i
  BY <1>2 DEF Pos
<1>6. Pos \in 1 .. hist_line_count /\ Place(Pos) = hist_line_i
  BY <1>3, <1>5, Zenon
<1>7. QED
  BY <1>4, <1>6, Zenon

LEMMA PosNone ==
  ASSUME hist_line_new \/ hist_line_count = 0
  PROVE  Pos = 0
  BY DEF Pos

LEMMA AddRefines ==
  ASSUME RingType, HistOK, cliLineAdd, line \in Lines
  PROVE  Past' = Promise!LastOf(Append(Past, line)) /\ Pos' = 0
<1>1. PICK H \in Nat \ {0} : H = CLI_LINE_HIS_MAX
  BY ConsoleAssumption
<1>2. PICK next, count, buf : next = hist_line_last /\ count = hist_line_count /\ buf = line_buf
  OBVIOUS
<1>3. PICK next2, count2, buf2 : next2 = hist_line_last' /\ count2 = hist_line_count' /\ buf2 = line_buf'
  OBVIOUS
<1>4. /\ next2 = (next + 1) % CLI_LINE_HIS_MAX
      /\ count2 = count + (IF count < CLI_LINE_HIS_MAX THEN 1 ELSE 0)
      /\ buf2 = [buf EXCEPT ![next] = line]
  BY <1>2, <1>3 DEF cliLineAdd
<1>5. RingOK(next, count) /\ count \in 0 .. H /\ next \in Ring /\ buf \in [Ring -> Lines]
  BY <1>1, <1>2, RingIs DEF RingType
<1>6. /\ RingOK(next2, count2) /\ count2 > 0 /\ Slot(next2, count2, count2) = next
      /\ count < H => \A k \in 1 .. count : Slot(next2, count2, k) = Slot(next, count, k) /\ Slot(next, count, k) # next
      /\ count = H => \A k \in 1 .. count - 1 : Slot(next2, count2, k) = Slot(next, count, k + 1)
                                              /\ Slot(next2, count2, k) # next
  BY <1>1, <1>4, <1>5, RingAdd
<1>7. PICK P \in Seq(Lines) : P = Past /\ Len(P) = count
  BY <1>2, PastIs
<1>8. \A k \in 1 .. count : P[k] = buf[Slot(next, count, k)] /\ Slot(next, count, k) \in Ring
  BY <1>2, <1>5, <1>7, PlaceIs, SlotType DEF Past
<1>9. PICK P2 : P2 = Past'
  OBVIOUS
<1>10. P2 \in Seq(Lines) /\ Len(P2) = count2
  <2>1. RingType' /\ HistOK'
    BY AddKeeps
  <2>2. (Past \in Seq(Lines) /\ Len(Past) = hist_line_count)'
    BY <2>1, PastIs, PTL
  <2>3. QED
    BY <2>2, <1>3, <1>9
<1>11. \A k \in 1 .. count2 : P2[k] = buf2[Slot(next2, count2, k)]
  BY <1>3, <1>9 DEF Past, Place, Slot
<1>12. P2[count2] = line
  <2>1. count2 \in 1 .. count2
    BY <1>1, <1>4, <1>5, <1>6
  <2>2. QED
    BY <2>1, <1>4, <1>5, <1>6, <1>11
<1>13. /\ Append(P, line) \in Seq(Lines) /\ Append(P, line) # <<>> /\ Len(Append(P, line)) = count + 1
       /\ \A k \in 1 .. count : Append(P, line)[k] = P[k]
       /\ Append(P, line)[count + 1] = line
  BY <1>7, AppendProperties
<1>14. PICK A \in Seq(Lines) : A = Append(P, line)
  BY <1>13
<1>15. Pos' = 0
  BY DEF Pos, cliLineAdd
<1>16. CASE count < H
  <2>1. count2 = count + 1
    BY <1>1, <1>4, <1>16
  <2>2. Promise!LastOf(A) = A
    BY <1>1, <1>5, <1>13, <1>14, <1>16 DEF Promise!LastOf
  <2>3. ASSUME NEW k \in 1 .. count PROVE P2[k] = A[k]
    <3>1. k \in 1 .. count2 /\ Slot(next2, count2, k) = Slot(next, count, k) /\ Slot(next, count, k) # next
      BY <2>1, <1>5, <1>6, <1>16
    <3>2. P2[k] = buf[Slot(next, count, k)]
      BY <3>1, <1>4, <1>5, <1>8, <1>11
    <3>3. QED
      BY <3>2, <1>8, <1>13, <1>14
  <2>4. Len(P2) = Len(A) /\ \A k \in 1 .. Len(P2) : P2[k] = A[k]
    <3>1. Len(P2) = count + 1 /\ Len(A) = count + 1
      BY <2>1, <1>10, <1>13, <1>14
    <3>2. A[count + 1] = line /\ P2[count + 1] = line
      BY <2>1, <1>12, <1>13, <1>14
    <3>3. \A k \in 1 .. count + 1 : k \in 1 .. count \/ k = count + 1
      BY <1>5
    <3>4. QED
      BY <3>1, <3>2, <3>3, <2>3
  <2>5. P2 = A
    BY <2>4, <1>10, SeqEqual
  <2>6. QED
    BY <2>2, <2>5, <1>7, <1>9, <1>14, <1>15, Zenon
<1>17. CASE count = H
  <2>1. count2 = H
    BY <1>1, <1>4, <1>17
  <2>2. Promise!LastOf(A) = Tail(A)
    BY <1>1, <1>5, <1>13, <1>14, <1>17 DEF Promise!LastOf
  <2>3. Tail(A) \in Seq(Lines) /\ Len(Tail(A)) = H /\ \A k \in 1 .. H : Tail(A)[k] = A[k + 1]
    <3>1. A # <<>> /\ Len(A) = H + 1 /\ (H + 1) - 1 = H
      BY <1>13, <1>14, <1>17
    <3>2. QED
      BY <3>1, HeadTailProperties
  <2>4. ASSUME NEW k \in 1 .. H - 1 PROVE P2[k] = Tail(A)[k]
    <3>1. k \in 1 .. H /\ k + 1 \in 1 .. H
      OBVIOUS
    <3>2. Slot(next2, count2, k) = Slot(next, count, k + 1) /\ Slot(next2, count2, k) # next
      BY <1>6, <1>17
    <3>3. P2[k] = buf[Slot(next, count, k + 1)]
      BY <3>1, <3>2, <2>1, <1>4, <1>5, <1>8, <1>11, <1>17
    <3>4. A[k + 1] = buf[Slot(next, count, k + 1)]
      BY <3>1, <1>8, <1>13, <1>14, <1>17
    <3>5. QED
      BY <3>1, <3>3, <3>4, <2>3
  <2>5. P2[H] = Tail(A)[H]
    BY <2>1, <2>3, <1>12, <1>13, <1>14, <1>17
  <2>6. Len(P2) = Len(Tail(A)) /\ \A k \in 1 .. Len(P2) : P2[k] = Tail(A)[k]
    <3>1. \A k \in 1 .. H : k \in 1 .. H - 1 \/ k = H
      OBVIOUS
    <3>2. QED
      BY <3>1, <2>1, <2>3, <2>4, <2>5, <1>10
  <2>7. P2 = Tail(A)
    BY <2>3, <2>6, <1>10, SeqEqual
  <2>8. QED
    BY <2>2, <2>7, <1>7, <1>9, <1>14, <1>15, Zenon
<1>18. QED
  BY <1>5, <1>16, <1>17

LEMMA RecallRefines ==
  ASSUME ConsoleInv, hist_line_count > 0, running = None, running' = None,
         Recall(Older) \/ Recall(Newer)
  PROVE  Promise!Older \/ Promise!Newer
<1>1. RingType /\ HistOK /\ RingOK(hist_line_last, hist_line_count)
  BY RingIs DEF ConsoleInv
<1>2. PICK next, count : next = hist_line_last /\ count = hist_line_count
  OBVIOUS
<1>3. PICK P \in Seq(Lines) : P = Past /\ Len(P) = count
  BY <1>1, <1>2, PastIs
<1>4. count \in Nat \ {0} /\ RingOK(next, count)
  BY <1>1, <1>2, ConsoleAssumption DEF RingType
<1>5. P # <<>>
  BY <1>3, <1>4
<1>6. Past' = Past
  BY DEF Recall, Past, Place
<1>7. PICK p : p = Pos
  OBVIOUS
<1>8. p \in 0 .. count
  BY <1>1, <1>2, <1>4, <1>7, PosIs, PosNone
(* A place that is recalled is where the user is now.                      *)
<1>9. ASSUME NEW q \in 1 .. count, Recall(Slot(next, count, q))
      PROVE  Pos' = q /\ line' = P[q]
  <2>1. Slot(next, count, q) \in 0 .. count - 1
    BY <1>4, SlotType
  <2>2. RingType' /\ HistOK'
    BY <1>2, <1>9, <2>1, RecallKeeps
  <2>3. hist_line_count' = count /\ hist_line_last' = next /\ hist_line_new' = FALSE
        /\ hist_line_i' = Slot(next, count, q)
    BY <1>2, <1>9 DEF Recall
  <2>4. (hist_line_count > 0 /\ ~hist_line_new =>
          \A k \in 1 .. hist_line_count : Place(k) = hist_line_i => Pos = k)'
    BY <2>2, PosIs, PTL
  <2>5. Place(q)' = Slot(next, count, q)
    BY <2>3 DEF Place, Slot
  <2>6. Pos' = q
    <3>1. PICK c : c = hist_line_count'
      OBVIOUS
    <3>2. \A k \in 1 .. c : Place(k)' = hist_line_i' => Pos' = k
      BY <2>3, <2>4, <3>1, <1>4
    <3>3. QED
      BY <2>3, <2>5, <3>1, <3>2
  <2>7. P[q] = line_buf[Slot(next, count, q)]
    BY <1>2, <1>3, PlaceIs DEF Past
  <2>8. QED
    BY <2>6, <2>7, <1>9 DEF Recall
<1>10. CASE Recall(Older)
  <2>1. PICK q \in 1 .. count : q = IF p <= 1 THEN count ELSE p - 1
    <3>1. (IF p <= 1 THEN count ELSE p - 1) \in 1 .. count
      BY <1>4, <1>8
    <3>2. QED
      BY <3>1
  <2>2. Older = Slot(next, count, q)
    <3>1. CASE hist_line_new
      <4>1. p = 0
        BY <3>1, <1>7, PosNone
      <4>2. q = count
        BY <4>1, <2>1
      <4>3. QED
        BY <3>1, <4>2, <1>2, <1>4, NewestSlot DEF Older
    <3>2. CASE ~hist_line_new
      <4>1. p \in 1 .. count /\ Slot(next, count, p) = hist_line_i
        BY <3>2, <1>1, <1>2, <1>7, PosIs, PlaceIs
      <4>2. (Slot(next, count, p) + count - 1) % count = Slot(next, count, q)
        BY <4>1, <2>1, <1>4, OlderSlot
      <4>3. QED
        BY <3>2, <4>1, <4>2, <1>2 DEF Older
    <3>3. QED
      BY <3>1, <3>2
  <2>3. Pos' = q /\ line' = P[q]
    BY <2>2, <1>9, <1>10
  <2>4. Promise!Older
    <3>1. Pos' = IF Pos <= 1 THEN Len(Past) ELSE Pos - 1
      BY <2>1, <2>3, <1>3, <1>7
    <3>2. (IF running = None THEN line ELSE <<>>)' = Past[Pos']
      BY <2>3, <1>3
    <3>3. QED
      BY <3>1, <3>2, <1>3, <1>5, <1>6 DEF Promise!Older
  <2>5. QED
    BY <2>4
<1>11. CASE Recall(Newer)
  <2>1. PICK q \in 1 .. count : q = IF p = count THEN 1 ELSE p + 1
    <3>1. (IF p = count THEN 1 ELSE p + 1) \in 1 .. count
      BY <1>4, <1>8
    <3>2. QED
      BY <3>1
  <2>2. Newer = Slot(next, count, q)
    <3>1. CASE hist_line_new
      <4>1. p = 0 /\ hist_line_i = Slot(next, count, count)
        BY <3>1, <1>1, <1>2, <1>7, PosNone, PlaceIs DEF HistOK
      <4>2. q = 1
        BY <4>1, <2>1, <1>4
      <4>3. count \in 1 .. count
        BY <1>4
      <4>4. (Slot(next, count, count) + 1) % count = Slot(next, count, 1)
        BY <4>3, <1>4, NewerSlot
      <4>5. QED
        BY <4>1, <4>2, <4>4, <1>2 DEF Newer
    <3>2. CASE ~hist_line_new
      <4>1. p \in 1 .. count /\ Slot(next, count, p) = hist_line_i
        BY <3>2, <1>1, <1>2, <1>7, PosIs, PlaceIs
      <4>2. (Slot(next, count, p) + 1) % count = Slot(next, count, q)
        BY <4>1, <2>1, <1>4, NewerSlot
      <4>3. QED
        BY <4>1, <4>2, <1>2 DEF Newer
    <3>3. QED
      BY <3>1, <3>2
  <2>3. Pos' = q /\ line' = P[q]
    BY <2>2, <1>9, <1>11
  <2>4. Promise!Newer
    <3>1. Pos' = IF Pos = Len(Past) THEN 1 ELSE Pos + 1
      BY <2>1, <2>3, <1>3, <1>7
    <3>2. (IF running = None THEN line ELSE <<>>)' = Past[Pos']
      BY <2>3, <1>3
    <3>3. QED
      BY <3>1, <3>2, <1>3, <1>5, <1>6 DEF Promise!Newer
  <2>5. QED
    BY <2>4
<1>12. QED
  BY <1>10, <1>11

LEMMA InitRefines == Init => Promise!Init
<1> SUFFICES ASSUME Init PROVE Promise!Init
  OBVIOUS
<1>1. hist_line_count = 0 /\ line = <<>>
  BY DEF Init
<1>2. Past = <<>>
  <2>1. RingType /\ HistOK
    BY ConsoleInitInv DEF ConsoleInv
  <2>2. Past \in Seq(Lines) /\ Len(Past) = 0
    BY <2>1, <1>1, PastIs
  <2>3. QED
    BY <2>2, EmptySeq
<1>3. Pos = 0
  BY <1>1, PosNone
<1>4. QED
  BY <1>1, <1>2, <1>3 DEF Promise!Init

(* Steps that leave the ring alone edit the line, if they do anything.     *)
LEMMA EditRefines ==
  ASSUME ConsoleInv, ConsoleInv', UNCHANGED hist
  PROVE  Promise!Edit
<1>1. Past' = Past /\ Pos' = Pos
  BY DEF Past, Pos, Place, hist
<1>2. (IF running = None THEN line ELSE <<>>)' \in Lines
  BY EmptyLine DEF ConsoleInv, InputOK
<1>3. QED
  BY <1>1, <1>2 DEF Promise!Edit

LEMMA EnterRefines ==
  ASSUME ConsoleInv, cliMain, cliLineAdd, line # <<>>, running' # None \/ line' = <<>>
  PROVE  Promise!Enter
<1>1. RingType /\ HistOK /\ line \in Lines /\ running = None
  BY LineNow DEF ConsoleInv, cliMain
<1>2. Past' = Promise!LastOf(Append(Past, line)) /\ Pos' = 0
  BY <1>1, AddRefines
<1>3. (IF running = None THEN line ELSE <<>>)' = <<>>
  OBVIOUS
<1>4. QED
  BY <1>1, <1>2, <1>3 DEF Promise!Enter

LEMMA StepRefines == ConsoleInv /\ ConsoleInv' /\ [Next]_vars => [Promise!Next]_(Promise!vars)
<1> SUFFICES ASSUME ConsoleInv, ConsoleInv', [Next]_vars PROVE Promise!Next
  OBVIOUS
<1>1. CASE UNCHANGED hist
  BY <1>1, EditRefines DEF Promise!Next
<1>2. CASE EnterCommand
  BY <1>2, EnterRefines DEF EnterCommand, Promise!Next
<1>3. CASE EnterNothing
  <2>1. CASE UNCHANGED hist
    BY <2>1, EditRefines DEF Promise!Next
  <2>2. CASE line # <<>> /\ cliLineAdd
    BY <1>3, <2>2, EnterRefines DEF EnterNothing, Key, Promise!Next
  <2>3. QED
    BY <1>3, <2>1, <2>2 DEF EnterNothing
<1>4. CASE KeyUpDown
  <2>1. running = None /\ running' = None /\ hist_line_count > 0 /\ (Recall(Older) \/ Recall(Newer))
    BY <1>4 DEF KeyUpDown, Third, cliMain, commands
  <2>2. QED
    BY <2>1, RecallRefines DEF Promise!Next
<1>5. CASE UNCHANGED vars
  BY <1>5, <1>1 DEF vars
<1>6. CASE Arrives \/ LogLine \/ Ends \/ Del \/ Back \/ (\E c \in Chars : Type(c)) \/ Esc \/ Skip
           \/ Other \/ KeyLeft \/ KeyRight \/ KeyHome \/ KeyEnd \/ KeyUpDownEmpty
  <2>1. UNCHANGED hist
    BY <1>6 DEF Arrives, LogLine, Ends, Del, Back, Type, Esc, Skip, Other, KeyLeft, KeyRight, KeyHome,
       KeyEnd, KeyUpDownEmpty
  <2>2. QED
    BY <2>1, <1>1
<1>7. QED
  BY <1>2, <1>3, <1>4, <1>5, <1>6 DEF Next

(* The ring of lines with its counters implements the history that         *)
(* LineHistory promises: UP and DOWN bring the line entered before or      *)
(* after, also when the ring has wrapped (cliLineAdd, cliLineChange).      *)
THEOREM ImplementsHistoryHolds == Spec => ImplementsHistory
<1>1. ConsoleInv /\ ConsoleInv' /\ [Next]_vars => [Promise!Next]_(Promise!vars)
  BY StepRefines
<1>2. QED
  BY <1>1, InitRefines, ConsoleInvariance, PTL DEF Spec, ImplementsHistory, Promise!Spec

-----------------------------------------------------------------------------
(* What runs.                                                              *)

(* What cliParseArgs computes, which is an induction over the bytes of the *)
(* line: its words are the words a reader sees.                            *)
ParsesWords ==
  \A s \in Lines : cliParseArgs(s) = Words(s) /\ Words(s) \in Seq(Seq(Chars))

(* The command that is found, and what it gets.                            *)
LEMMA RunsFirst ==
  ASSUME NEW s, NEW w \in Seq(Seq(Chars)), cliParseArgs(s) = w, cliRunCmd(s) # None
  PROVE  /\ w # <<>> /\ cliRunCmd(s).args = Tail(w)
         /\ cmd_list[cliRunCmd(s).index] = cliToUpper(Head(w))
         /\ \A c \in DOMAIN cmd_list :
              cmd_list[c] = cmd_list[cliRunCmd(s).index] => cliRunCmd(s).index <= c
<1> DEFINE name == cliToUpper(w[1])
           found == {i \in DOMAIN cmd_list : cmd_list[i] = name}
<1>1. w # <<>> /\ found # {} /\ cliRunCmd(s) = [index |-> Min(found), args |-> Tail(w)]
  BY DEF cliRunCmd
<1>2. DOMAIN cmd_list \subseteq Nat
  <2>1. DOMAIN Names \subseteq Nat
    BY ConsoleAssumption, LenProperties
  <2>2. QED
    BY <2>1 DEF cmd_list
<1>3. Min(found) \in found /\ \A c \in found : Min(found) <= c
  BY <1>1, <1>2, LeastIs
<1>4. Head(w) = w[1]
  BY <1>1
<1>5. cliRunCmd(s).index = Min(found) /\ cliRunCmd(s).args = Tail(w)
  BY <1>1
<1>6. cmd_list[Min(found)] = name /\ \A c \in DOMAIN cmd_list : cmd_list[c] = name => c \in found
  BY <1>3
<1>7. QED
  BY <1>1, <1>3, <1>4, <1>5, <1>6

LEMMA ArgsShown ==
  ASSUME NEW w \in Seq(Seq(Chars)), w # <<>>, NEW command, command.args = Tail(w), NEW i \in Nat
  PROVE  cliArgsGetStr(command, i) = IF i + 2 \in DOMAIN w THEN w[i + 2] ELSE None
<1>1. PICK L \in Nat \ {0} : L = Len(w)
  BY EmptySeq, LenProperties
<1>2. Len(Tail(w)) = L - 1 /\ \A k \in 1 .. L - 1 : Tail(w)[k] = w[k + 1]
  BY <1>1, HeadTailProperties
<1>3. DOMAIN w = 1 .. L
  BY <1>1, LenProperties
<1>4. CASE i >= L - 1
  <2>1. i + 2 \notin 1 .. L
    BY <1>4
  <2>2. QED
    BY <1>2, <1>3, <1>4, <2>1 DEF cliArgsGetStr
<1>5. CASE i < L - 1
  <2>1. i + 2 \in 1 .. L /\ i + 1 \in 1 .. L - 1 /\ (i + 1) + 1 = i + 2 /\ ~ i >= L - 1
    BY <1>5
  <2>2. Tail(w)[i + 1] = w[i + 2]
    BY <1>2, <2>1
  <2>3. QED
    BY <1>2, <1>3, <2>1, <2>2 DEF cliArgsGetStr
<1>6. QED
  BY <1>4, <1>5

(* What runs at ENTER is what the screen shows (cliRunCmd, cliArgsGetStr): *)
(* the first command of the name that is the first word, with the other    *)
(* words for its arguments, once for one ENTER - given that cliParseArgs   *)
(* parts a line into its words.                                            *)
THEOREM RunsWhatIsSeenHolds == ASSUME ParsesWords PROVE Spec => RunsWhatIsSeen
<1> DEFINE Seen ==
      running # running' /\ running' # None /\ ~off =>
         /\ running = None
         /\ cmd_list[running'.index] = cliToUpper(Head(Words(screen.text)))
         /\ \A i \in 0 .. CLI_LINE_BUF_MAX :
               cliArgsGetStr(running', i) = IF i + 2 \in DOMAIN Words(screen.text)
                                            THEN Words(screen.text)[i + 2] ELSE None
         /\ \A c \in DOMAIN cmd_list :
               cmd_list[c] = cmd_list[running'.index] => running'.index <= c
<1>1. ConsoleInv /\ [Next]_vars => Seen
  <2> SUFFICES ASSUME ConsoleInv, [Next]_vars, running # running', running' # None, ~off
               PROVE  Seen
    OBVIOUS
  <2>1. EnterCommand
    <3>1. [Next]_vars /\ running # running' /\ running' # None
      OBVIOUS
    <3>2. ASSUME UNCHANGED running \/ running' = None PROVE FALSE
      BY <3>1, <3>2
    <3>3. QED
      BY <3>1, <3>2 DEF Next, vars, commands, Arrives, LogLine, Ends, EnterNothing, Del, Back, Type,
         Esc, Skip, Other, KeyLeft, KeyRight, KeyHome, KeyEnd, KeyUpDown, KeyUpDownEmpty, Key, Third
  <2>2. running = None /\ running' = cliRunCmd(line) /\ cliRunCmd(line) # None
    BY <2>1 DEF EnterCommand, cliMain
  <2>3. line \in Lines /\ screen.text = line
    BY <2>2 DEF ConsoleInv, InputOK, ScreenMirrors
  <2>4. PICK w \in Seq(Seq(Chars)) : w = Words(screen.text) /\ w = cliParseArgs(line)
    BY <2>3 DEF ParsesWords
  <2>5. /\ w # <<>> /\ running'.args = Tail(w)
        /\ cmd_list[running'.index] = cliToUpper(Head(w))
        /\ \A c \in DOMAIN cmd_list :
             cmd_list[c] = cmd_list[running'.index] => running'.index <= c
    BY <2>2, <2>4, RunsFirst
  <2>6. \A i \in 0 .. CLI_LINE_BUF_MAX :
          cliArgsGetStr(running', i) = IF i + 2 \in DOMAIN w THEN w[i + 2] ELSE None
    <3>1. PICK command : command = running'
      OBVIOUS
    <3>2. \A i \in 0 .. CLI_LINE_BUF_MAX : i \in Nat
      BY ConsoleAssumption
    <3>3. \A i \in Nat : cliArgsGetStr(command, i) = IF i + 2 \in DOMAIN w THEN w[i + 2] ELSE None
      BY <2>5, <3>1, ArgsShown
    <3>4. QED
      BY <3>1, <3>2, <3>3
  <2>7. QED
    BY <2>2, <2>4, <2>5, <2>6
<1>2. QED
  BY <1>1, ConsoleInvariance, PTL DEF Spec, RunsWhatIsSeen

-----------------------------------------------------------------------------
(* The board.                                                              *)

(* Where the program is. *)
StepSet == {"hello", "reset", "drivers", "launch", "wait", "usbh", "logBoot", "ap", "qmk", "main"}
PlaceOK ==
  /\ step \in StepSet
  /\ is_running \in BOOLEAN /\ tries \in 0 .. TRIES /\ causes \in 0 .. RESET_BIT_MAX
  /\ turn \in {"none", "usb", "link", "apply", "profile", "rest", "led", "cli", "cmd"}
  /\ cmd \in {"no", "waits", "dump", "dumps", "paints", "reset"}
  /\ reenum_state \in {"HOLD", "IDLE", "ARMED", "GAP"}
  /\ moved \in BOOLEAN /\ lost \in BOOLEAN

(* The LED shows what ledStatusUpdate sent last, or is still dark after a  *)
(* reset, unless the console painted it; and asleep means that what was    *)
(* sent last is "off".                                                     *)
LedOK ==
  /\ asleep \in BOOLEAN /\ painted \in BOOLEAN
  /\ asleep => color_pre = "off"
  /\ ~painted => led = color_pre \/ (led = "off" /\ color_pre = "unset")

(* A log: m lines from the front are the newest, of l that were written;   *)
(* until it begins anew they are the same.                                 *)
LogType(max) == [line : 0 .. LINE_MOD - 1, len : 0 .. max, max : {max}, index : 0 .. max,
                 anew : BOOLEAN, buf : [0 .. max - 1 -> [line : Int, k : Int]]]
Holds(r, m) ==
  \A q \in 0 .. m - 1, j \in 0 .. size - 1 :
     r.buf[size * q + j] = [line |-> (r.line - m + q) % LINE_MOD, k |-> j]
InLines(r, m, l) ==
  /\ r.index = size * m /\ r.len = size * l /\ m <= l
  /\ ~r.anew => m = l
  /\ Holds(r, m)
LogOK(r, max) == r \in LogType(max) /\ \E m, l \in Nat : InLines(r, m, l)

(* The start-up log takes the messages of the start-up and no others.      *)
BootOK ==
  /\ is_boot_log \in BOOLEAN /\ said \in Nat
  /\ is_boot_log <=> step \notin {"ap", "qmk", "main"}
  /\ boot.line = said % LINE_MOD
  /\ said * size + SLACK - HEAD <= LOG_BOOT_BUF_MAX =>
       boot.index = said * size /\ boot.len = said * size

(* The calls of uartWrite: only the outermost has ever written anything.   *)
Calls == [what : {"log", "out", "reenum"}, n : {TEXT, OUTPUT}, ret : Nat]
CallsOK ==
  /\ writers \in Seq(Calls) /\ Len(writers) <= MAX_NEST
  /\ \A i \in DOMAIN writers : writers[i].ret <= writers[i].n
  /\ \A i \in 2 .. Len(writers) : writers[i].what = "reenum"
  /\ Len(writers) > 1 => Full /\ port /\ top.ret = 0

(* The FIFO, with what the host read before it.                            *)
Written == UNION {[n : {n}, k : 1 .. n] : n \in {TEXT, OUTPUT}}
FifoOK ==
  /\ fifo \in Seq(Written) /\ Len(fifo) <= CFG_TUD_CDC_TX_BUFSIZE
  /\ last \in Written \cup {NoUnit}
  /\ port \in BOOLEAN /\ attached \in BOOLEAN /\ cut \in BOOLEAN
  /\ port => attached
InChain(a, f) ==
  /\ f # <<>> => Follows(a, f[1])
  /\ \A i \in 1 .. Len(f) - 1 : Follows(f[i], f[i + 1])
Newest(a, f) == IF f = <<>> THEN a ELSE f[Len(f)]
Stands(z) ==
  /\ writers = <<>> => z.k = z.n
  /\ Len(writers) = 1 => IF top.ret = 0 THEN z.k = z.n ELSE z = [n |-> top.n, k |-> top.ret]
ChainOK ==
  ~cut => /\ InChain(last, fifo)
          /\ Stands(Newest(last, fifo))
          /\ ~port => fifo = <<>> /\ last = NoUnit


-----------------------------------------------------------------------------
(* Numbers. *)

LEMMA SizeIs == /\ size \in Nat \ {0} /\ size = HEAD + TEXT /\ LINE_MOD \in Nat \ {0}
             /\ HEAD \in Nat /\ TEXT \in Nat /\ SLACK \in Nat /\ HEAD < SLACK
  BY BoardAssumption DEF size

LEMMA ModIs ==
  ASSUME NEW M \in Nat \ {0}, NEW q \in Int, NEW r \in 0 .. M - 1, NEW a \in Int, a = M * q + r
  PROVE  a % M = r
  OBVIOUS

(* What was reduced once may be reduced with what is added.                *)
LEMMA ModShift ==
  ASSUME NEW M \in Nat \ {0}, NEW x \in Int, NEW y \in Int
  PROVE  ((x % M) + y) % M = (x + y) % M
  <1>1. PICK q \in Int, r \in 0 .. M - 1 : x = M * q + r
    <2>1. x = M * (x \div M) + (x % M) /\ x \div M \in Int /\ x % M \in 0 .. M - 1
      OBVIOUS
    <2> QED
      BY <2>1
  <1>2. x % M = r
    BY <1>1, ModIs
  <1>3. \A z \in Int : \E p \in Int, s \in 0 .. M - 1 : z = M * p + s
    <2> SUFFICES ASSUME NEW z \in Int PROVE \E p \in Int, s \in 0 .. M - 1 : z = M * p + s
      OBVIOUS
    <2>1. z = M * (z \div M) + (z % M) /\ z \div M \in Int /\ z % M \in 0 .. M - 1
      OBVIOUS
    <2> QED
      BY <2>1
  <1>4. PICK z \in Int : z = r + y
    OBVIOUS
  <1>5. PICK p \in Int, s \in 0 .. M - 1 : z = M * p + s
    BY <1>3
  <1>6. z % M = s
    BY <1>5, ModIs
  <1>7. PICK w \in Int : w = x + y
    OBVIOUS
  <1>8. PICK k \in Int : k = q + p
    OBVIOUS
  <1>9. w = M * k + s
    <2>1. M * k = M * q + M * p
      BY <1>8
    <2> QED
      BY <1>1, <1>4, <1>5, <1>7, <2>1
  <1>10. w % M = s
    BY <1>9, ModIs
  <1> QED
    BY <1>2, <1>4, <1>6, <1>7, <1>10

LEMMA ModOf ==
  ASSUME NEW M \in Nat \ {0}, NEW x \in 0 .. M - 1
  PROVE  x % M = x
  OBVIOUS

LEMMA ModType ==
  ASSUME NEW M \in Nat \ {0}, NEW x \in Int
  PROVE  x % M \in 0 .. M - 1
  OBVIOUS

(* A message later or earlier.                                             *)
LEMMA Times ==
  ASSUME NEW s \in Nat, NEW a \in Nat, NEW b \in Nat
  PROVE  /\ s * a \in Nat /\ s * (a + 1) = s * a + s
         /\ a <= b => s * a <= s * b
         /\ s * a < s * b => a < b
  <1>1. s * a \in Nat /\ s * b \in Nat /\ s * (a + 1) = s * a + s
    OBVIOUS
  <1>2. ASSUME a <= b PROVE s * a <= s * b
    <2>1. PICK d \in Nat : b = a + d
      BY <1>2
    <2>2. s * b = s * a + s * d /\ s * d \in Nat
      BY <2>1
    <2> QED
      BY <1>1, <2>2
  <1>3. ASSUME b <= a PROVE s * b <= s * a
    <2>1. PICK d \in Nat : a = b + d
      BY <1>3
    <2>2. s * a = s * b + s * d /\ s * d \in Nat
      BY <2>1
    <2> QED
      BY <1>1, <2>2
  <1> QED
    BY <1>1, <1>2, <1>3

(* Where a unit of a line stands.                                          *)
LEMMA CellAt ==
  ASSUME NEW s \in Nat \ {0}, NEW m \in Nat, NEW q \in 0 .. m - 1, NEW j \in 0 .. s - 1
  PROVE  s * q + j \in 0 .. s * m - 1
  <1>1. q \in Nat /\ q + 1 \in Nat /\ q + 1 <= m
    OBVIOUS
  <1>2. s * (q + 1) <= s * m /\ s * (q + 1) = s * q + s /\ s * q \in Nat /\ s * m \in Nat
    BY <1>1, Times
  <1> QED
    BY <1>2

LEMMA Split ==
  ASSUME NEW s \in Nat \ {0}, NEW m \in Nat, NEW i \in 0 .. s * m - 1
  PROVE  i \div s \in 0 .. m - 1 /\ i % s \in 0 .. s - 1 /\ i = s * (i \div s) + (i % s)
  <1>0. s * m \in Nat
    BY Times
  <1>1. i \in Nat
    BY <1>0
  <1>2. i = s * (i \div s) + (i % s) /\ i \div s \in Nat /\ i % s \in 0 .. s - 1
    BY <1>1
  <1>3. s * (i \div s) < s * m
    BY <1>0, <1>1, <1>2, Times
  <1>4. i \div s < m
    BY <1>2, <1>3, Times
  <1> QED
    BY <1>2, <1>4

-----------------------------------------------------------------------------
(* A message joins a log. *)

\* The buffer with the message.
Joined(r, max) == [i \in 0 .. max - 1 |-> IF i \in StartOf(r) .. StartOf(r) + size - 1
                                          THEN [line |-> r.line, k |-> i - StartOf(r)] ELSE r.buf[i]]

LEMMA LogFields ==
  ASSUME NEW max \in Nat, NEW r \in LogType(max), NEW s, s = logBufPrintf(r)
  PROVE  /\ s.line = (r.line + 1) % LINE_MOD
         /\ s.len = IF r.len + size <= max THEN r.len + size ELSE r.len
         /\ s.index = StartOf(r) + size
         /\ s.anew = (r.anew \/ StartOf(r) # r.index)
         /\ s.buf = Joined(r, max)
         /\ /\ s.line \in 0 .. LINE_MOD - 1 /\ s.len \in 0 .. max /\ s.index \in 0 .. max
               /\ s.anew \in BOOLEAN /\ s.buf \in [0 .. max - 1 -> [line : Int, k : Int]]
            => s \in LogType(max)
  <1>1. DOMAIN r.buf = 0 .. max - 1 /\ r.max = max
    BY DEF LogType
  <1>2. s = [r EXCEPT !.line = (r.line + 1) % LINE_MOD, !.index = StartOf(r) + size,
                      !.anew = r.anew \/ StartOf(r) # r.index,
                      !.len = IF r.len + size <= max THEN r.len + size ELSE r.len,
                      !.buf = Joined(r, max)]
    BY <1>1, Zenon DEF logBufPrintf, size, Joined
  <1> DEFINE a == (r.line + 1) % LINE_MOD
             b == StartOf(r) + size
             c == r.anew \/ StartOf(r) # r.index
             d == IF r.len + size <= max THEN r.len + size ELSE r.len
             e == Joined(r, max)
  <1>3. s = [r EXCEPT !.line = a, !.index = b, !.anew = c, !.len = d, !.buf = e]
    BY <1>2
  <1> HIDE DEF a, b, c, d, e
  <1>4. /\ s.line = a /\ s.index = b /\ s.anew = c /\ s.len = d /\ s.buf = e
        /\ a \in 0 .. LINE_MOD - 1 /\ b \in 0 .. max /\ c \in BOOLEAN /\ d \in 0 .. max
            /\ e \in [0 .. max - 1 -> [line : Int, k : Int]] => s \in LogType(max)
    <2> DEFINE L == 0 .. LINE_MOD - 1
               N == 0 .. max
               F == [0 .. max - 1 -> [line : Int, k : Int]]
    <2>1. r \in [line : L, len : N, max : {max}, index : N, anew : BOOLEAN, buf : F]
      BY DEF LogType
    <2> HIDE DEF L, N, F
    <2>2. /\ s.line = a /\ s.index = b /\ s.anew = c /\ s.len = d /\ s.buf = e
          /\ a \in L /\ b \in N /\ c \in BOOLEAN /\ d \in N /\ e \in F
               => s \in [line : L, len : N, max : {max}, index : N, anew : BOOLEAN, buf : F]
      BY <1>3, <2>1
    <2> QED
      BY <2>2, Zenon DEF LogType, L, N, F
  <1> QED
    BY <1>4, Zenon DEF a, b, c, d, e

LEMMA LogStart ==
  ASSUME NEW max \in Nat, max >= TEXT + SLACK, NEW r \in LogType(max)
  PROVE  /\ StartOf(r) = 0 \/ StartOf(r) = r.index
         /\ StartOf(r) \in Nat /\ StartOf(r) + size <= max
         /\ r.index + TEXT + SLACK <= max => StartOf(r) = r.index
         /\ StartOf(r) # r.index => r.index > 0
  <1>1. PICK x \in 0 .. max : x = r.index
    BY DEF LogType
  <1>2. r.max = max
    BY DEF LogType
  <1>3. PICK n \in Nat : n = size
    BY SizeIs
  <1>4. StartOf(r) = IF x + TEXT + SLACK > max THEN 0 ELSE x
    BY <1>1, <1>2 DEF StartOf
  <1>5. n = HEAD + TEXT
    BY <1>3, SizeIs
  <1> QED
    BY <1>1, <1>3, <1>4, <1>5, SizeIs

LEMMA LogFieldsType ==
  ASSUME NEW max \in Nat, max >= TEXT + SLACK, NEW r \in LogType(max)
  PROVE  logBufPrintf(r) \in LogType(max)
  <1>1. PICK a \in Nat : a = StartOf(r) /\ a + size <= max
    BY LogStart
  <1>2. /\ r.line \in 0 .. LINE_MOD - 1 /\ r.len \in 0 .. max /\ r.anew \in BOOLEAN
        /\ r.buf \in [0 .. max - 1 -> [line : Int, k : Int]]
    BY DEF LogType
  <1>3. (r.line + 1) % LINE_MOD \in 0 .. LINE_MOD - 1
    <2>1. PICK x \in Int : x = r.line + 1
      BY <1>2
    <2> QED
      BY <2>1, SizeIs, ModType
  <1>4. (IF r.len + size <= max THEN r.len + size ELSE r.len) \in 0 .. max
    BY <1>2, SizeIs
  <1>5. a + size \in 0 .. max
    BY <1>1, SizeIs
  <1>6. (r.anew \/ a # r.index) \in BOOLEAN
    OBVIOUS
  <1>7. Joined(r, max) \in [0 .. max - 1 -> [line : Int, k : Int]]
    <2>1. ASSUME NEW i \in 0 .. max - 1
          PROVE  /\ [line |-> r.line, k |-> i - a] \in [line : Int, k : Int]
                 /\ r.buf[i] \in [line : Int, k : Int]
      BY <1>2, <2>1
    <2>2. ASSUME NEW i \in 0 .. max - 1
          PROVE  (IF i \in a .. a + size - 1 THEN [line |-> r.line, k |-> i - a] ELSE r.buf[i])
                    \in [line : Int, k : Int]
      BY <2>1, Zenon
    <2> QED
      BY <1>1, <2>2, Zenon DEF Joined
  <1> QED
    BY <1>1, <1>3, <1>4, <1>5, <1>6, <1>7, LogFields

(* What it holds: m lines before, and one more or only the new one after.  *)
LEMMA LogHolds ==
  ASSUME NEW max \in Nat, max >= TEXT + SLACK, NEW r \in LogType(max),
         NEW m \in Nat, Holds(r, m), StartOf(r) = size * m, size * m <= max
  PROVE  Holds(logBufPrintf(r), m + 1)
  <1> DEFINE s == logBufPrintf(r)
  <1>1. /\ s.line = (r.line + 1) % LINE_MOD
        /\ s.buf = Joined(r, max)
    BY LogFields
  <1>2. size * m \in Nat /\ size * (m + 1) = size * m + size /\ size * m + size <= max
    BY SizeIs, Times, LogStart
  <1>3. r.line \in 0 .. LINE_MOD - 1
    BY DEF LogType
  <1> HIDE DEF s
  <1> SUFFICES ASSUME NEW q \in 0 .. m, NEW j \in 0 .. size - 1
               PROVE  s.buf[size * q + j] = [line |-> (s.line - (m + 1) + q) % LINE_MOD, k |-> j]
    BY DEF Holds, s
  <1>4. (s.line - (m + 1) + q) % LINE_MOD = (r.line - m + q) % LINE_MOD
    <2>1. PICK x \in Int, y \in Int : x = r.line + 1 /\ y = q - (m + 1)
      BY <1>3
    <2>6. PICK z \in Int : z = x % LINE_MOD
      BY SizeIs
    <2>2. ((x % LINE_MOD) + y) % LINE_MOD = (x + y) % LINE_MOD
      BY ModShift, SizeIs
    <2>3. x % LINE_MOD \in Int /\ s.line = x % LINE_MOD
      BY <1>1, <2>1, <2>6
    <2>4. s.line - (m + 1) + q = (x % LINE_MOD) + y
      BY <2>1, <2>3
    <2>5. x + y = r.line - m + q
      BY <1>3, <2>1
    <2> QED
      BY <2>2, <2>4, <2>5
  <1>5. CASE q = m
    <2>1. PICK p \in Nat : p = size * m /\ p = StartOf(r) /\ p + size <= max
      BY <1>2
    <2>2. PICK i \in Nat : i = size * q + j /\ i = p + j
      BY <1>5, <2>1, SizeIs
    <2>3. s.buf[size * q + j] = [line |-> r.line, k |-> j]
      <3>1. i \in 0 .. max - 1 /\ i \in p .. p + size - 1 /\ i - p = j
        BY <2>1, <2>2, SizeIs
      <3>2. s.buf[i] = [line |-> r.line, k |-> i - p]
        BY <1>1, <2>1, <3>1, Zenon DEF Joined
      <3> QED
        BY <2>2, <3>1, <3>2, Zenon
    <2>4. r.line - m + q = r.line
      BY <1>3, <1>5
    <2>5. (r.line - m + q) % LINE_MOD = r.line
      BY <1>3, <2>4, SizeIs, ModOf
    <2> QED
      BY <1>4, <2>3, <2>5
  <1>6. CASE q # m
    <2>1. q \in 0 .. m - 1
      BY <1>6
    <2>2. size * q + j \in 0 .. size * m - 1
      BY <2>1, SizeIs, CellAt
    <2>3. size * q + j \in 0 .. max - 1 /\ size * q + j \notin size * m .. size * m + size - 1
      BY <1>2, <2>2, SizeIs
    <2>4. s.buf[size * q + j] = r.buf[size * q + j]
      BY <1>1, <2>3, Zenon DEF Joined
    <2> QED
      BY <1>4, <2>1, <2>4 DEF Holds
  <1> QED
    BY <1>5, <1>6

LEMMA LogAppend ==
  ASSUME NEW max \in Nat, max >= TEXT + SLACK, NEW r, LogOK(r, max)
  PROVE  LogOK(logBufPrintf(r), max)
  <1> DEFINE s == logBufPrintf(r)
  <1>1. r \in LogType(max) /\ s \in LogType(max)
    BY LogFieldsType DEF LogOK
  <1>2. PICK m \in Nat, l \in Nat : InLines(r, m, l)
    BY DEF LogOK
  <1>3. /\ r.index = size * m /\ r.len = size * l /\ m <= l
        /\ ~r.anew => m = l
        /\ Holds(r, m)
    BY <1>2 DEF InLines
  <1>4. /\ s.len = IF r.len + size <= max THEN r.len + size ELSE r.len
        /\ s.index = StartOf(r) + size
        /\ s.anew = (r.anew \/ StartOf(r) # r.index)
    BY <1>1, LogFields
  <1>5. r.index \in 0 .. max /\ r.len \in 0 .. max
    BY <1>1 DEF LogType
  <1> HIDE DEF s
  <1>6. PICK k \in Nat : s.len = size * k /\ l <= k /\ (r.len + size <= max => k = l + 1)
                         /\ (~(r.len + size <= max) => k = l)
    <2>1. size * (l + 1) = size * l + size
      BY SizeIs, Times
    <2>2. CASE r.len + size <= max
      BY <1>3, <1>4, <2>1, <2>2
    <2>3. CASE ~(r.len + size <= max)
      BY <1>3, <1>4, <2>3
    <2> QED
      BY <2>2, <2>3
  <1>7. CASE StartOf(r) = r.index
    <2>1. s.index = size * (m + 1)
      <3>1. size * (m + 1) = size * m + size
        BY SizeIs, Times
      <3> QED
        BY <1>3, <1>4, <1>7, <3>1
    <2>2. r.index + size <= max
      BY <1>1, <1>7, LogStart
    <2>3. m + 1 <= k
      <3>1. CASE r.len + size <= max
        BY <1>3, <1>6, <3>1
      <3>2. CASE ~(r.len + size <= max)
        <4>1. size * m < size * l
          BY <1>3, <1>5, <2>2, <3>2, SizeIs
        <4>2. m < l
          BY <4>1, SizeIs, Times
        <4> QED
          BY <1>6, <4>2
      <3> QED
        BY <3>1, <3>2
    <2>4. ~s.anew => m + 1 = k
      <3>1. ASSUME ~s.anew PROVE m = l
        BY <1>3, <1>4, <3>1
      <3>2. m = l => r.len + size <= max
        BY <1>3, <2>2
      <3> QED
        BY <1>6, <3>1, <3>2
    <2>5. Holds(s, m + 1)
      BY <1>1, <1>3, <1>5, <1>7, LogHolds DEF s
    <2>6. InLines(s, m + 1, k)
      BY <1>6, <2>1, <2>3, <2>4, <2>5 DEF InLines
    <2> QED
      BY <1>1, <2>6 DEF LogOK, s
  <1>8. CASE StartOf(r) # r.index
    <2>1. StartOf(r) = 0 /\ r.index > 0
      BY <1>1, <1>8, LogStart
    <2>2. m > 0
      BY <1>3, <2>1, SizeIs
    <2>3. size * 0 = 0 /\ size * 1 = size
      BY SizeIs
    <2>4. Holds(r, 0)
      BY DEF Holds
    <2>5. Holds(s, 0 + 1)
      BY <1>1, <2>1, <2>3, <2>4, LogHolds DEF s
    <2>6. s.index = size * 1
      BY <1>4, <2>1, <2>3, SizeIs
    <2>7. Holds(s, 1) /\ 1 <= k /\ s.anew
      <3>1. 0 + 1 = 1
        OBVIOUS
      <3>2. Holds(s, 1)
        BY <2>5, <3>1, Zenon
      <3>3. 1 <= k
        BY <1>3, <1>6, <2>2
      <3>4. s.anew
        BY <1>4, <1>8, Zenon
      <3> QED
        BY <3>2, <3>3, <3>4
    <2>8. InLines(s, 1, k)
      BY <1>6, <2>6, <2>7 DEF InLines
    <2> QED
      BY <1>1, <2>8 DEF LogOK, s
  <1> QED
    BY <1>7, <1>8

LEMMA LogEmpty ==
  ASSUME NEW max \in Nat
  PROVE  LogOK(logInit(max), max)
  <1>1. logInit(max) \in LogType(max)
    BY SizeIs DEF logInit, LogType, Unwritten
  <1>2. InLines(logInit(max), 0, 0)
    BY SizeIs DEF InLines, Holds, logInit
  <1> QED
    BY <1>1, <1>2 DEF LogOK

(* And with it the promise of the module Board.                            *)
LEMMA LogPrints ==
  ASSUME NEW max \in Nat, NEW r, LogOK(r, max)
  PROVE  IsBuffer(r, max) /\ PrintsWhatWasSaid(r)
  <1>1. r \in LogType(max)
    BY DEF LogOK
  <1>2. PICK m \in Nat, l \in Nat : InLines(r, m, l)
    BY DEF LogOK
  <1>3. /\ r.index = size * m /\ r.len = size * l /\ m <= l
        /\ ~r.anew => m = l
        /\ Holds(r, m)
    BY <1>2 DEF InLines
  <1>4. IsBuffer(r, max)
    BY <1>1 DEF IsBuffer, LogType
  <1>5. size * m <= size * l /\ size * m \in Nat /\ size * l \in Nat
    BY <1>3, SizeIs, Times
  <1>6. ASSUME NEW i \in 0 .. r.index - 1
        PROVE  Shown(r)[i] = [line |-> (r.line - r.index \div size + i \div size) % LINE_MOD,
                              k    |-> i % size]
    <2>1. /\ i \div size \in 0 .. m - 1 /\ i % size \in 0 .. size - 1
          /\ i = size * (i \div size) + (i % size)
      <3>1. i \in 0 .. size * m - 1
        BY <1>3
      <3> QED
        BY <3>1, SizeIs, Split
    <2>2. r.buf[i] = [line |-> (r.line - m + i \div size) % LINE_MOD, k |-> i % size]
      BY <1>3, <2>1 DEF Holds
    <2>3. r.index \div size = m
      BY <1>3, SizeIs
    <2>4. Shown(r)[i] = r.buf[i]
      BY <1>3, <1>5 DEF Shown
    <2> QED
      BY <2>2, <2>3, <2>4
  <1>7. r.len = r.index \/ r.anew
    BY <1>3
  <1> QED
    BY <1>4, <1>6, <1>7 DEF PrintsWhatWasSaid

-----------------------------------------------------------------------------
(* Where the program is. *)

LEMMA StepsAre ==
  /\ DOMAIN Steps = 1 .. 10 /\ Len(Steps) = 10
  /\ Steps[1] = "hello" /\ Steps[2] = "reset" /\ Steps[3] = "drivers" /\ Steps[4] = "launch"
  /\ Steps[5] = "wait" /\ Steps[6] = "usbh" /\ Steps[7] = "logBoot" /\ Steps[8] = "ap"
  /\ Steps[9] = "qmk" /\ Steps[10] = "main"
  BY DEF Steps

LEMMA NextStepIs ==
  /\ NextStep("hello") = "reset" /\ NextStep("reset") = "drivers" /\ NextStep("drivers") = "launch"
  /\ NextStep("launch") = "wait" /\ NextStep("wait") = "usbh" /\ NextStep("usbh") = "logBoot"
  /\ NextStep("logBoot") = "ap" /\ NextStep("ap") = "qmk" /\ NextStep("qmk") = "main"
  <1>1. ASSUME NEW n \in 2 .. 10 PROVE NextStep(Steps[n - 1]) = Steps[n]
    <2>1. ASSUME NEW i \in 2 .. 10, Steps[i - 1] = Steps[n - 1] PROVE i = n
      <3>1. PICK a \in 1 .. 9, b \in 1 .. 9 : a = i - 1 /\ b = n - 1
        OBVIOUS
      <3>2. Steps[a] = Steps[b]
        BY <2>1, <3>1
      <3>3. a = b
        BY <3>2, StepsAre
      <3> QED
        BY <3>1, <3>3
    <2>2. \E i \in 2 .. Len(Steps) : Steps[i - 1] = Steps[n - 1]
      BY StepsAre
    <2>3. (CHOOSE i \in 2 .. Len(Steps) : Steps[i - 1] = Steps[n - 1]) = n
      BY <2>1, <2>2, StepsAre
    <2> QED
      BY <2>3 DEF NextStep
  <1>2. ASSUME NEW a, NEW b, NEW n \in 2 .. 10, Steps[n - 1] = a, Steps[n] = b
        PROVE  NextStep(a) = b
    BY <1>1, <1>2
  <1>3. /\ Steps[2 - 1] = "hello" /\ Steps[3 - 1] = "reset" /\ Steps[4 - 1] = "drivers"
        /\ Steps[5 - 1] = "launch" /\ Steps[6 - 1] = "wait" /\ Steps[7 - 1] = "usbh"
        /\ Steps[8 - 1] = "logBoot" /\ Steps[9 - 1] = "ap" /\ Steps[10 - 1] = "qmk"
    BY StepsAre
  <1>4. /\ 2 \in 2 .. 10 /\ 3 \in 2 .. 10 /\ 4 \in 2 .. 10 /\ 5 \in 2 .. 10 /\ 6 \in 2 .. 10
        /\ 7 \in 2 .. 10 /\ 8 \in 2 .. 10 /\ 9 \in 2 .. 10 /\ 10 \in 2 .. 10
    OBVIOUS
  <1> QED
    BY <1>2, <1>3, <1>4, StepsAre

LEMMA PlaceInv ==
  ASSUME PlaceOK, [BoardNext]_boardVars
  PROVE  PlaceOK'
  <1> USE DEF PlaceOK, StepSet
  <1>1. CASE Says
    BY <1>1, NextStepIs DEF Says, usb, reenum, log, leds
  <1>2. CASE resetLog
    <2>1. causes' \in 0 .. RESET_BIT_MAX
      BY <1>2, BoardAssumption DEF resetLog
    <2> QED
      BY <1>2, <2>1, NextStepIs DEF resetLog, usb, reenum, log, leds
  <1>3. CASE Does
    BY <1>3, NextStepIs DEF Does, usb, reenum, log, leds
  <1>4. CASE usbhInit
    <2>1. tries' \in 0 .. TRIES
      BY <1>4, BoardAssumption DEF usbhInit
    <2> QED
      BY <1>4, <2>1, NextStepIs DEF usbhInit, usb, reenum, log, leds
  <1>5. CASE usbUpdate
    BY <1>5, ZenonT(60) DEF usbUpdate, Announce, usb, reenum, log, leds
  <1>6. CASE linkKbdUpdate \/ linkKbdApplySlot \/ qmkSetProfile \/ IdleDone
    BY <1>6 DEF linkKbdUpdate, linkKbdApplySlot, qmkSetProfile, IdleDone, usb, reenum, log, leds
  <1>7. CASE ledStatusUpdate \/ Command \/ CommandWaits \/ cliUsbh \/ cliWs2812
    BY <1>7 DEF ledStatusUpdate, Command, CommandWaits, cliUsbh, cliWs2812, usb, reenum, log, leds
  <1>8. CASE usbhCore1Main
    BY <1>8 DEF usbhCore1Main, usb, reenum, log, leds
  <1>9. CASE uartWrite \/ (\E j \in 0 .. Len(fifo) : WaitsForHost(j)) \/ Recurses \/ Return
    BY <1>9, ZenonT(60)
    DEF uartWrite, WaitsForHost, Recurses, Announce, Return, core, usb, reenum, log, leds
  <1>10. CASE Reset
    <2>1. /\ step' = "hello" /\ turn' = "none" /\ cmd' = "no" /\ is_running' = FALSE /\ tries' = 0
          /\ causes' \in 0 .. RESET_BIT_MAX /\ reenum_state' = "HOLD"
          /\ moved' = FALSE /\ lost' = FALSE
      BY <1>10 DEF Reset
    <2>2. tries' \in 0 .. TRIES
      BY <2>1, BoardAssumption
    <2> QED
      BY <2>1, <2>2, Zenon
  <1>11. CASE UNCHANGED boardVars
    BY <1>11 DEF boardVars, core, usb, reenum, log, leds
  <1>12. Takes \/ WaitsForHost(0) => \E j \in 0 .. Len(fifo) : WaitsForHost(j)
    BY DEF Takes
  <1> QED
    BY <1>1, <1>2, <1>3, <1>4, <1>5, <1>6, <1>7, <1>8, <1>9, <1>10, <1>11, <1>12
       DEF BoardNext, Loop, Start

-----------------------------------------------------------------------------
(* The LED. *)

LEMMA LedInv ==
  ASSUME LedOK, [BoardNext]_boardVars
  PROVE  LedOK'
  <1> USE DEF LedOK
  <1>0. /\ UNCHANGED leds => LedOK'
        /\ painted' = TRUE /\ UNCHANGED <<color_pre, asleep>> => LedOK'
    <2>1. ASSUME UNCHANGED leds PROVE LedOK'
      BY <2>1 DEF leds
    <2>2. ASSUME painted' = TRUE, UNCHANGED <<color_pre, asleep>> PROVE LedOK'
      BY <2>2, Zenon
    <2> QED
      BY <2>1, <2>2
  <1>1. CASE ledStatusUpdate
    <2>0. PICK s \in Statuses :
            /\ asleep' = (s.st = "SUSPEND")
            /\ \E color \in Colors(s) :
                  IF color = color_pre THEN UNCHANGED <<color_pre, led, painted>>
                  ELSE color_pre' = color /\ SetColor(color) /\ painted' = FALSE
      BY <1>1 DEF ledStatusUpdate
    <2>1. PICK color \in Colors(s) :
            IF color = color_pre THEN UNCHANGED <<color_pre, led, painted>>
            ELSE color_pre' = color /\ SetColor(color) /\ painted' = FALSE
      BY <2>0
    <2>2. asleep' => color = "off"
      BY <2>0, <2>1 DEF Colors
    <2>3. asleep' \in BOOLEAN /\ painted' \in BOOLEAN
      BY <2>0, <2>1
    <2>4. color_pre' = color
      BY <2>1
    <2>5. ~painted' => led' = color_pre' \/ (led' = "off" /\ color_pre' = "unset")
      BY <2>1 DEF SetColor
    <2> QED
      BY <2>2, <2>3, <2>4, <2>5
  <1>2. CASE Command
    <2>1. UNCHANGED leds \/ (painted' = TRUE /\ UNCHANGED <<color_pre, asleep>>)
      BY <1>2 DEF Command, Paint
    <2> QED
      BY <1>0, <2>1
  <1>3. CASE cliWs2812
    <2>1. UNCHANGED leds \/ (painted' = TRUE /\ UNCHANGED <<color_pre, asleep>>)
      BY <1>3 DEF cliWs2812, Paint
    <2> QED
      BY <1>0, <2>1
  <1>4. CASE Reset
    BY <1>4 DEF Reset
  <1>5. CASE Start
    BY <1>5 DEF Start, Says, resetLog, Does, usbhInit, leds
  <1>6. CASE usbUpdate \/ linkKbdUpdate \/ linkKbdApplySlot \/ qmkSetProfile \/ IdleDone \/ CommandWaits
            \/ cliUsbh
    BY <1>6 DEF usbUpdate, linkKbdUpdate, linkKbdApplySlot, qmkSetProfile, IdleDone, CommandWaits, cliUsbh, leds
  <1>7. CASE usbhCore1Main \/ uartWrite \/ Takes \/ WaitsForHost(0) \/ Recurses \/ Return
    BY <1>7 DEF usbhCore1Main, uartWrite, Takes, WaitsForHost, Recurses, Return, leds
  <1>8. CASE UNCHANGED boardVars
    BY <1>8 DEF boardVars, leds
  <1> QED
    BY <1>1, <1>2, <1>3, <1>4, <1>5, <1>6, <1>7, <1>8 DEF BoardNext, Loop

-----------------------------------------------------------------------------
(* The logs. *)

LogsOK == LogOK(boot, LOG_BOOT_BUF_MAX) /\ LogOK(list, LOG_LIST_BUF_MAX) /\ BootOK

LEMMA LogKept ==
  ASSUME LogsOK, UNCHANGED log, step' \in {"ap", "qmk", "main"} <=> step \in {"ap", "qmk", "main"}
  PROVE  LogsOK'
  BY DEF LogsOK, BootOK, log, LogOK, InLines, Holds

LEMMA KeepInv ==
  ASSUME LogsOK, Keep, UNCHANGED step
  PROVE  LogsOK'
  <1>1. LogOK(boot', LOG_BOOT_BUF_MAX) /\ LogOK(list', LOG_LIST_BUF_MAX)
    BY LogAppend, BoardAssumption DEF Keep, LogsOK
  <1>2. CASE ~is_boot_log
    BY <1>1, <1>2 DEF LogsOK, BootOK, Keep, LogOK, InLines, Holds
  <1>3. CASE is_boot_log
    <2>1. boot' = logBufPrintf(boot) /\ said' = said + 1 /\ is_boot_log' = is_boot_log /\ said \in Nat
      BY <1>3 DEF Keep, LogsOK, BootOK
    <2>2. boot \in LogType(LOG_BOOT_BUF_MAX) /\ LOG_BOOT_BUF_MAX \in Nat
           /\ LOG_BOOT_BUF_MAX >= TEXT + SLACK
      BY BoardAssumption DEF LogsOK, LogOK
    <2>3. /\ boot'.line = (boot.line + 1) % LINE_MOD
          /\ boot'.len = IF boot.len + size <= LOG_BOOT_BUF_MAX THEN boot.len + size ELSE boot.len
          /\ boot'.index = StartOf(boot) + size
      BY <2>1, <2>2, LogFields, ZenonT(30)
    <2>4. boot'.line = said' % LINE_MOD
      <3>1. boot.line = said % LINE_MOD
        BY DEF LogsOK, BootOK
      <3>2. ((said % LINE_MOD) + 1) % LINE_MOD = (said + 1) % LINE_MOD
        <4>1. said \in Int /\ 1 \in Int /\ LINE_MOD \in Nat \ {0}
          BY <2>1, SizeIs
        <4> QED
          BY <4>1, ModShift, Zenon
      <3> QED
        BY <2>1, <2>3, <3>1, <3>2
    <2>5. ASSUME said' * size + SLACK - HEAD <= LOG_BOOT_BUF_MAX
          PROVE  boot'.index = said' * size /\ boot'.len = said' * size
      <3>1. PICK a \in Nat : a = said * size
        BY <2>1, SizeIs
      <3>2. said' * size = a + size
        BY <2>1, <3>1, SizeIs
      <3>3. PICK z \in Nat : z = a + size /\ z = said' * size
        BY <3>1, <3>2, SizeIs
      <3>4. z + SLACK - HEAD <= LOG_BOOT_BUF_MAX
        BY <2>5, <3>3
      <3>5. a + SLACK - HEAD <= LOG_BOOT_BUF_MAX
        BY <3>1, <3>3, <3>4, <2>2, SizeIs
      <3>6. boot.index = a /\ boot.len = a
        BY <3>1, <3>5 DEF LogsOK, BootOK
      <3>7. a + TEXT + SLACK <= LOG_BOOT_BUF_MAX /\ a + size <= LOG_BOOT_BUF_MAX
        BY <3>1, <3>3, <3>4, <2>2, SizeIs
      <3>8. StartOf(boot) = a
        BY <2>2, <3>6, <3>7, LogStart
      <3> QED
        BY <2>3, <3>3, <3>6, <3>7, <3>8
    <2>6. BootOK'
      BY <2>1, <2>4, <2>5 DEF BootOK, LogsOK
    <2> QED
      BY <1>1, <2>6 DEF LogsOK, LogOK, InLines, Holds
  <1> QED
    BY <1>2, <1>3 DEF LogsOK, BootOK

NothingSaid ==
  /\ is_boot_log = TRUE /\ boot = logInit(LOG_BOOT_BUF_MAX) /\ list = logInit(LOG_LIST_BUF_MAX)
  /\ said = 0 /\ step = "hello"

LEMMA LogsInit == NothingSaid => LogsOK
  <1> SUFFICES ASSUME NothingSaid PROVE LogsOK
    OBVIOUS
  <1> USE DEF NothingSaid
  <1>1. LogOK(boot, LOG_BOOT_BUF_MAX) /\ LogOK(list, LOG_LIST_BUF_MAX)
    BY LogEmpty, BoardAssumption
  <1>2. boot.line = 0 /\ boot.index = 0 /\ boot.len = 0
    BY DEF logInit
  <1>3. 0 % LINE_MOD = 0 /\ 0 * size = 0
    BY SizeIs
  <1> QED
    BY <1>1, <1>2, <1>3 DEF LogsOK, BootOK

LEMMA LogsInv ==
  ASSUME LogsOK, PlaceOK, [BoardNext]_boardVars
  PROVE  LogsOK'
  <1>1. CASE Return
    <2>1. UNCHANGED step
      BY <1>1 DEF Return, core
    <2>2. CASE Keep
      BY <2>1, <2>2, KeepInv
    <2>3. CASE UNCHANGED log
      BY <2>1, <2>3, LogKept
    <2> QED
      BY <1>1, <2>2, <2>3 DEF Return
  <1>2. CASE Does
    <2>1. /\ step \in {"drivers", "launch", "logBoot", "ap"} /\ step' = NextStep(step)
          /\ is_boot_log' = (is_boot_log /\ step # "logBoot") /\ UNCHANGED <<boot, list, said>>
      BY <1>2 DEF Does
    <2>2. step' \in {"ap", "qmk", "main"} <=> step \in {"logBoot", "ap"}
      BY <2>1, NextStepIs
    <2>3. BootOK'
      BY <2>1, <2>2 DEF LogsOK, BootOK
    <2> QED
      BY <2>1, <2>3 DEF LogsOK, LogOK, InLines, Holds
  <1>3. CASE Reset
    <2>1. NothingSaid'
      BY <1>3 DEF Reset, NothingSaid, logInit
    <2> QED
      BY <2>1, LogsInit, PTL
  <1>4. CASE Says \/ resetLog \/ usbhInit
    <2>1. UNCHANGED log
      BY <1>4 DEF Says, resetLog, usbhInit
    <2>2. step' \in {"ap", "qmk", "main"} <=> step \in {"ap", "qmk", "main"}
      BY <1>4, NextStepIs DEF Says, resetLog, usbhInit
    <2> QED
      BY <2>1, <2>2, LogKept
  <1>5. CASE Loop
    <2>1. UNCHANGED log /\ UNCHANGED step
      BY <1>5 DEF Loop, usbUpdate, linkKbdUpdate, linkKbdApplySlot, qmkSetProfile, IdleDone,
         ledStatusUpdate, Command, CommandWaits, cliUsbh, cliWs2812
    <2> QED
      BY <2>1, LogKept
  <1>6. CASE usbhCore1Main \/ uartWrite \/ Takes \/ WaitsForHost(0) \/ Recurses
    <2>1. UNCHANGED log /\ UNCHANGED step
      BY <1>6 DEF usbhCore1Main, uartWrite, Takes, WaitsForHost, Recurses, core
    <2> QED
      BY <2>1, LogKept
  <1>7. CASE UNCHANGED boardVars
    <2>1. UNCHANGED log /\ UNCHANGED step
      BY <1>7 DEF boardVars, core
    <2> QED
      BY <2>1, LogKept
  <1> QED
    BY <1>1, <1>2, <1>3, <1>4, <1>5, <1>6, <1>7 DEF BoardNext, Start

-----------------------------------------------------------------------------
(* What was written, and its order. *)

LEMMA Lengths == /\ TEXT \in Nat \ {0} /\ OUTPUT \in Nat \ {0}
                 /\ CFG_TUD_CDC_TX_BUFSIZE \in Nat \ {0} /\ MAX_NEST \in Nat \ {0}
                 /\ \A n \in {TEXT, OUTPUT} : n \in Nat \ {0}
  BY BoardAssumption

LEMMA WrittenIs ==
  /\ \A u \in Written : /\ u = [n |-> u.n, k |-> u.k] /\ u.n \in {TEXT, OUTPUT}
                        /\ u.k \in 1 .. u.n /\ u # NoUnit
  /\ \A n \in {TEXT, OUTPUT} : \A k \in 1 .. n : [n |-> n, k |-> k] \in Written
  /\ NoUnit.n = 0 /\ NoUnit.k = 0
  <1>1. ASSUME NEW u \in Written
        PROVE  /\ u = [n |-> u.n, k |-> u.k] /\ u.n \in {TEXT, OUTPUT}
               /\ u.k \in 1 .. u.n /\ u # NoUnit
    <2>1. PICK n \in {TEXT, OUTPUT} : u \in [n : {n}, k : 1 .. n]
      BY DEF Written
    <2>2. u = [n |-> u.n, k |-> u.k] /\ u.n = n /\ u.k \in 1 .. n
      BY <2>1
    <2> QED
      BY <2>2, Lengths DEF NoUnit
  <1>2. ASSUME NEW n \in {TEXT, OUTPUT}, NEW k \in 1 .. n
        PROVE  [n |-> n, k |-> k] \in Written
    BY DEF Written
  <1> QED
    BY <1>1, <1>2 DEF NoUnit

(* The host takes j units.                                                 *)
LEMMA ChainShift ==
  ASSUME NEW a, NEW f \in Seq(Written), InChain(a, f), NEW j \in 0 .. Len(f)
  PROVE  LET g == SubSeq(f, j + 1, Len(f))
             b == IF j > 0 THEN f[j] ELSE a
         IN  InChain(b, g) /\ Newest(b, g) = Newest(a, f)
  <1> DEFINE g == SubSeq(f, j + 1, Len(f))
             b == IF j > 0 THEN f[j] ELSE a
  <1>1. PICK L \in Nat : L = Len(f)
    OBVIOUS
  <1>0. j \in 0 .. L
    BY <1>1, Zenon
  <1>2. PICK G \in Nat : G = L - j
    BY <1>0
  <1>3. Len(g) = G /\ g \in Seq(Written) /\ \A i \in 1 .. G : g[i] = f[i + j]
    BY <1>1, <1>2
  <1> HIDE DEF g
  <1>4. g # <<>> => Follows(b, g[1])
    <2> SUFFICES ASSUME g # <<>> PROVE Follows(b, g[1])
      OBVIOUS
    <2>1. G > 0
      BY <1>3
    <2>2. g[1] = f[1 + j]
      BY <1>3, <2>1
    <2>3. CASE j = 0
      BY <1>1, <1>2, <2>1, <2>2, <2>3 DEF InChain
    <2>4. CASE j > 0
      <3>1. j \in 1 .. Len(f) - 1
        BY <1>1, <1>2, <2>1, <2>4
      <3>2. Follows(f[j], f[j + 1])
        BY <3>1 DEF InChain
      <3>3. j + 1 = 1 + j
        OBVIOUS
      <3> QED
        BY <2>2, <2>4, <3>2, <3>3
    <2> QED
      BY <2>3, <2>4
  <1>5. ASSUME NEW i \in 1 .. Len(g) - 1 PROVE Follows(g[i], g[i + 1])
    <2>1. i \in 1 .. G /\ i + 1 \in 1 .. G /\ i + j \in 1 .. Len(f) - 1
      BY <1>1, <1>2, <1>3
    <2>2. g[i] = f[i + j] /\ g[i + 1] = f[(i + 1) + j] /\ (i + 1) + j = (i + j) + 1
      BY <1>3, <2>1
    <2>3. Follows(f[i + j], f[(i + j) + 1])
      BY <2>1 DEF InChain
    <2> QED
      BY <2>2, <2>3
  <1>6. Newest(b, g) = Newest(a, f)
    <2>1. CASE G = 0
      <3>1. g = <<>> /\ j = L
        BY <1>2, <1>3, <2>1
      <3>2. CASE L = 0
        <4>1. b = a
          BY <3>1, <3>2
        <4>2. Len(f) = 0
          BY <1>1, <3>2
        <4>3. f = <<>>
          BY <4>2, EmptySeq
        <4> QED
          BY <3>1, <4>1, <4>3, Zenon DEF Newest
      <3>3. CASE L > 0
        <4>1. b = f[L] /\ f # <<>>
          BY <1>1, <3>1, <3>3
        <4> QED
          BY <1>1, <3>1, <4>1, Zenon DEF Newest
      <3> QED
        BY <3>2, <3>3
    <2>2. CASE G > 0
      <3>1. g # <<>> /\ f # <<>> /\ G \in 1 .. G /\ G + j = L
        BY <1>1, <1>2, <1>3, <2>2
      <3>2. g[G] = f[L]
        BY <1>3, <3>1
      <3> QED
        BY <1>1, <1>3, <3>1, <3>2 DEF Newest
    <2> QED
      BY <2>1, <2>2
  <1>7. InChain(b, g)
    BY <1>4, <1>5 DEF InChain
  <1> QED
    BY <1>6, <1>7 DEF g

(* A piece of a message joins the FIFO.                                    *)
LEMMA ChainCat ==
  ASSUME NEW a, NEW f \in Seq(Written), NEW t \in Seq(Written),
         InChain(a, f), InChain(Newest(a, f), t)
  PROVE  InChain(a, f \o t) /\ Newest(a, f \o t) = Newest(Newest(a, f), t)
  <1> DEFINE h == f \o t
  <1>1. PICK L \in Nat, T \in Nat : L = Len(f) /\ T = Len(t)
    OBVIOUS
  <1>2. /\ h \in Seq(Written) /\ Len(h) = L + T
        /\ \A i \in 1 .. L : h[i] = f[i]
        /\ \A i \in 1 .. T : h[L + i] = t[i]
    <2>1. Len(f \o t) = Len(f) + Len(t)
      OBVIOUS
    <2>2. \A i \in 1 .. Len(f) + Len(t) :
             (f \o t)[i] = IF i <= Len(f) THEN f[i] ELSE t[i - Len(f)]
      OBVIOUS
    <2>3. ASSUME NEW i \in 1 .. L PROVE h[i] = f[i]
      BY <1>1, <2>2
    <2>4. ASSUME NEW i \in 1 .. T PROVE h[L + i] = t[i]
      <3>1. PICK x \in 1 .. L + T : x = L + i /\ ~(x <= L) /\ x - L = i
        BY <1>1
      <3> QED
        BY <1>1, <2>2, <3>1
    <2> QED
      BY <1>1, <2>1, <2>3, <2>4
  <1> HIDE DEF h
  <1>3. h # <<>> => Follows(a, h[1])
    <2>1. CASE L > 0
      BY <1>1, <1>2, <2>1 DEF InChain
    <2>2. CASE L = 0
      <3>1. f = <<>> /\ Newest(a, f) = a
        BY <1>1, <2>2, EmptySeq DEF Newest
      <3>2. ASSUME h # <<>> PROVE T > 0
        BY <1>2, <2>2, <3>2
      <3>3. T > 0 => h[1] = t[1] /\ t # <<>>
        <4>1. ASSUME T > 0 PROVE h[L + 1] = t[1] /\ t # <<>>
          BY <1>1, <1>2, <4>1
        <4>2. L + 1 = 1
          BY <2>2
        <4> QED
          BY <4>1, <4>2
      <3> QED
        BY <3>1, <3>2, <3>3 DEF InChain
    <2> QED
      BY <2>1, <2>2
  <1>4. ASSUME NEW i \in 1 .. Len(h) - 1 PROVE Follows(h[i], h[i + 1])
    <2>1. CASE i < L
      <3>1. h[i] = f[i] /\ h[i + 1] = f[i + 1] /\ i \in 1 .. Len(f) - 1
        BY <1>1, <1>2, <2>1
      <3> QED
        BY <3>1 DEF InChain
    <2>2. CASE i = L
      <3>1. L > 0 /\ T > 0
        BY <1>2, <2>2
      <3>2. h[i] = f[L] /\ h[i + 1] = t[1]
        BY <1>2, <2>2, <3>1
      <3>3. Newest(a, f) = f[L] /\ t # <<>>
        BY <1>1, <3>1 DEF Newest
      <3> QED
        BY <3>2, <3>3 DEF InChain
    <2>3. CASE i > L
      <3>1. PICK x \in 1 .. T - 1 : i = L + x /\ i + 1 = L + (x + 1) /\ x + 1 \in 1 .. T
        <4>1. i - L \in 1 .. T - 1
          BY <1>2, <2>3
        <4> QED
          BY <4>1
      <3>2. h[i] = t[x] /\ h[i + 1] = t[x + 1] /\ x \in 1 .. Len(t) - 1
        BY <1>1, <1>2, <3>1
      <3> QED
        BY <3>2 DEF InChain
    <2> QED
      BY <2>1, <2>2, <2>3
  <1>5. Newest(a, h) = Newest(Newest(a, f), t)
    <2>1. CASE T = 0
      <3>1. t = <<>> /\ h = f
        BY <1>1, <2>1, EmptySeq, ConcatEmptySeq DEF h
      <3> QED
        BY <3>1 DEF Newest
    <2>2. CASE T > 0
      <3>1. h # <<>> /\ t # <<>> /\ h[L + T] = t[T]
        BY <1>1, <1>2, <2>2
      <3> QED
        BY <1>1, <1>2, <3>1 DEF Newest
    <2> QED
      BY <2>1, <2>2
  <1>6. InChain(a, h)
    BY <1>3, <1>4 DEF InChain
  <1> QED
    BY <1>5, <1>6 DEF h

LEMMA LesserIs ==
  ASSUME NEW x \in Int, NEW y \in Int
  PROVE  Min({x, y}) = IF x <= y THEN x ELSE y
  <1>1. \E m \in {x, y} : \A z \in {x, y} : m <= z
    OBVIOUS
  <1>2. Min({x, y}) \in {x, y} /\ \A z \in {x, y} : Min({x, y}) <= z
    BY <1>1 DEF Min
  <1> QED
    BY <1>2

(* What fits is the next piece of the message.                             *)
LEMMA TakenIs ==
  ASSUME NEW c \in Calls, c.ret < c.n, Len(fifo) < CFG_TUD_CDC_TX_BUFSIZE, fifo \in Seq(Written)
  PROVE  \E m \in Nat \ {0} :
           /\ m <= c.n - c.ret /\ m <= CFG_TUD_CDC_TX_BUFSIZE - Len(fifo)
           /\ Taken(c) \in Seq(Written) /\ Len(Taken(c)) = m
           /\ \A i \in 1 .. m : Taken(c)[i] = [n |-> c.n, k |-> c.ret + i]
  <1>1. c.n \in {TEXT, OUTPUT} /\ c.n \in Nat /\ c.ret \in Nat
    BY Lengths DEF Calls
  <1>2. PICK x \in Nat \ {0}, y \in Nat \ {0} : x = c.n - c.ret /\ y = CFG_TUD_CDC_TX_BUFSIZE - Len(fifo)
    <2>1. PICK l \in Nat : l = Len(fifo)
      OBVIOUS
    <2>2. PICK n \in Nat, r \in Nat : n = c.n /\ r = c.ret
      BY <1>1
    <2>3. n - r \in Nat \ {0} /\ CFG_TUD_CDC_TX_BUFSIZE - l \in Nat \ {0}
      BY <2>1, <2>2, Lengths
    <2> QED
      BY <2>1, <2>2, <2>3
  <1>3. PICK m \in Nat \ {0} : m = Min({x, y}) /\ m <= x /\ m <= y
    BY <1>2, LesserIs
  <1>4. Taken(c) = [i \in 1 .. m |-> [n |-> c.n, k |-> c.ret + i]]
    BY <1>2, <1>3 DEF Taken
  <1>5. ASSUME NEW i \in 1 .. m PROVE [n |-> c.n, k |-> c.ret + i] \in Written
    <2>1. c.ret + i \in 1 .. c.n
      BY <1>1, <1>2, <1>3
    <2> QED
      BY <1>1, <2>1, WrittenIs
  <1>6. Taken(c) \in Seq(Written) /\ Len(Taken(c)) = m
    BY <1>4, <1>5
  <1> QED
    BY <1>2, <1>3, <1>4, <1>6

-----------------------------------------------------------------------------
(* The steps of uartWrite, of tud_task and of those who write. *)

OutOK == CallsOK /\ FifoOK /\ ChainOK

(* Nothing is written and nothing read.                                    *)
LEMMA OutStays ==
  ASSUME OutOK, UNCHANGED <<writers, usb>>, attached' \in BOOLEAN, attached => attached'
  PROVE  OutOK'
  <1>1. UNCHANGED <<writers, fifo, port, last, cut>>
    BY DEF usb
  <1>2. CallsOK'
    BY <1>1 DEF OutOK, CallsOK, Full, top
  <1>3. FifoOK'
    BY <1>1 DEF OutOK, FifoOK
  <1>4. ChainOK'
    BY <1>1 DEF OutOK, ChainOK, InChain, Newest, Stands, Follows, top
  <1> QED
    BY <1>2, <1>3, <1>4 DEF OutOK

(* A call of uartWrite begins, at the outermost level.                     *)
LEMMA OutBegins ==
  ASSUME OutOK, writers = <<>>, NEW what \in {"log", "out", "reenum"}, NEW n \in {TEXT, OUTPUT},
         Write(what, n), UNCHANGED usb, attached' \in BOOLEAN, attached => attached'
  PROVE  OutOK'
  <1>1. UNCHANGED <<fifo, port, last, cut>>
    BY DEF usb
  <1>2. Call(what, n) \in Calls /\ Call(what, n).ret = 0 /\ Call(what, n).n = n
    BY DEF Call, Calls
  <1>3. PICK c \in Calls : c = Call(what, n) /\ c.ret = 0 /\ c.n \in Nat
    BY <1>2, Lengths
  <1>4. writers' = <<c>>
    BY <1>3 DEF Write
  <1>5. writers' \in Seq(Calls) /\ Len(writers') = 1 /\ writers'[1] = c /\ top' = c
    BY <1>3, <1>4 DEF top
  <1>6. CallsOK'
    BY <1>3, <1>5, Lengths DEF CallsOK
  <1>7. FifoOK'
    BY <1>1 DEF OutOK, FifoOK
  <1>8. ASSUME ~cut' PROVE Newest(last, fifo).k = Newest(last, fifo).n
    BY <1>1, <1>8 DEF OutOK, ChainOK, Stands
  <1>9. ChainOK'
    <2>1. Stands(Newest(last, fifo))' <=> Newest(last, fifo).k = Newest(last, fifo).n
      BY <1>1, <1>3, <1>5 DEF Stands, Newest
    <2>2. InChain(last, fifo) => InChain(last, fifo)'
      BY <1>1 DEF InChain, Follows
    <2> QED
      BY <1>1, <1>8, <2>1, <2>2 DEF OutOK, ChainOK
  <1> QED
    BY <1>6, <1>7, <1>9 DEF OutOK

(* tud_task, with at most one call under way.                              *)
LEMMA OutTaken ==
  ASSUME OutOK, NEW j \in 0 .. Len(fifo), tud_task(j), UNCHANGED writers, Len(writers) <= 1,
         attached' \in BOOLEAN, attached => attached'
  PROVE  OutOK'
  <1>1. /\ fifo \in Seq(Written) /\ Len(fifo) <= CFG_TUD_CDC_TX_BUFSIZE
        /\ last \in Written \cup {NoUnit} /\ port \in BOOLEAN /\ attached \in BOOLEAN
        /\ cut \in BOOLEAN /\ port => attached
    BY DEF OutOK, FifoOK
  <1>2. /\ j > 0 => port
        /\ fifo' = SubSeq(fifo, j + 1, Len(fifo))
        /\ port' \in (IF attached THEN BOOLEAN ELSE {FALSE})
        /\ cut'  = IF fifo' = <<>> /\ writers = <<>> THEN FALSE ELSE cut \/ port' # port
        /\ last' = IF port' # port \/ (cut /\ ~cut') THEN NoUnit
                   ELSE IF j > 0 THEN fifo[j] ELSE last
    BY DEF tud_task
  <1>3. PICK b : b = IF j > 0 THEN fifo[j] ELSE last
    OBVIOUS
  <1>4. b \in Written \cup {NoUnit}
    BY <1>1, <1>3
  <1>5. fifo' \in Seq(Written) /\ Len(fifo') <= CFG_TUD_CDC_TX_BUFSIZE
    <2>1. PICK L \in Nat : L = Len(fifo)
      BY <1>1
    <2>2. j \in 0 .. L
      BY <2>1, Zenon
    <2>3. fifo' \in Seq(Written) /\ Len(fifo') = L - j
      BY <1>1, <1>2, <2>1, <2>2
    <2> QED
      BY <1>1, <2>1, <2>2, <2>3, Lengths
  <1>6. FifoOK'
    <2>1. port' \in BOOLEAN /\ (port' => attached')
      BY <1>1, <1>2, Zenon
    <2>2. cut' \in BOOLEAN
      BY <1>1, <1>2, Zenon
    <2>3. last' \in Written \cup {NoUnit}
      BY <1>2, <1>3, <1>4, Zenon
    <2> QED
      BY <1>5, <2>1, <2>2, <2>3 DEF FifoOK
  <1>7. CallsOK'
    <2>1. \A i \in 1 .. Len(writers) : writers[i].ret <= writers[i].n
      BY DEF OutOK, CallsOK
    <2>2. ~(Len(writers) > 1)
      BY DEF OutOK, CallsOK
    <2> QED
      BY <2>2 DEF OutOK, CallsOK
  <1>8. ChainOK'
    <2> SUFFICES ASSUME ~cut'
                 PROVE  /\ InChain(last, fifo)' /\ Stands(Newest(last, fifo))'
                        /\ ~port' => fifo' = <<>> /\ last' = NoUnit
      BY DEF ChainOK
    <2>1. PICK f : f = fifo'
      OBVIOUS
    <2>2. PICK a : a = last'
      OBVIOUS
    <2>3. ASSUME InChain(a, f) PROVE InChain(last, fifo)'
      BY <2>1, <2>2, <2>3 DEF InChain, Follows
    <2>4. ASSUME Stands(Newest(a, f)) PROVE Stands(Newest(last, fifo))'
      BY <2>1, <2>2, <2>4 DEF Stands, Newest, top
    <2>5. CASE ~cut /\ port' = port
      <3>1. a = b /\ f = SubSeq(fifo, j + 1, Len(fifo))
        BY <1>2, <1>3, <2>1, <2>2, <2>5
      <3>2. InChain(last, fifo) /\ Stands(Newest(last, fifo)) /\ (~port => fifo = <<>> /\ last = NoUnit)
        BY <2>5 DEF OutOK, ChainOK
      <3>3. InChain(b, f) /\ Newest(b, f) = Newest(last, fifo)
        BY <1>1, <1>3, <3>1, <3>2, ChainShift
      <3>4. ~port => j = 0 /\ b = last
        BY <1>2, <1>3
      <3>5. ~port => f = <<>>
        <4> SUFFICES ASSUME ~port PROVE f = <<>>
          OBVIOUS
        <4>1. fifo = <<>> /\ j = 0
          BY <3>2, <3>4
        <4> QED
          BY <3>1, <4>1
      <3> QED
        BY <2>1, <2>2, <2>3, <2>4, <2>5, <3>1, <3>2, <3>3, <3>4, <3>5
    <2>6. CASE cut \/ port' # port
      <3>1. fifo' = <<>> /\ writers = <<>> /\ last' = NoUnit
        BY <1>2, <2>6
      <3>2. f = <<>> /\ a = NoUnit
        BY <2>1, <2>2, <3>1
      <3>3. InChain(a, f) /\ Newest(a, f) = NoUnit
        BY <3>2 DEF InChain, Newest
      <3>4. Stands(NoUnit)
        BY <3>1, WrittenIs DEF Stands
      <3> QED
        BY <2>3, <2>4, <3>1, <3>3, <3>4
    <2> QED
      BY <2>5, <2>6
  <1> QED
    BY <1>6, <1>7, <1>8 DEF OutOK

(* tud_cdc_write takes a piece.                                            *)
LEMMA OutWrites ==
  ASSUME OutOK, uartWrite
  PROVE  OutOK'
  <1>1. /\ writers # <<>> /\ port /\ top.ret < top.n /\ ~Full
        /\ fifo' = fifo \o Taken(top)
        /\ writers' = [writers EXCEPT ![Len(writers)].ret = @ + Len(Taken(top))]
        /\ UNCHANGED <<port, last, cut, attached>>
    BY DEF uartWrite, reenum
  <1>2. /\ writers \in Seq(Calls) /\ Len(writers) <= MAX_NEST
        /\ \A i \in DOMAIN writers : writers[i].ret <= writers[i].n
        /\ Len(writers) > 1 => Full
    BY DEF OutOK, CallsOK
  <1>3. Len(writers) = 1
    <2>1. PICK L \in Nat \ {0} : L = Len(writers)
      BY <1>1, <1>2, EmptySeq
    <2>2. ~(L > 1)
      BY <1>1, <1>2, <2>1
    <2> QED
      BY <2>1, <2>2
  <1>4. PICK c \in Calls : c = writers[1] /\ c = top /\ writers = <<c>>
    BY <1>2, <1>3 DEF top
  <1>5. /\ fifo \in Seq(Written) /\ Len(fifo) < CFG_TUD_CDC_TX_BUFSIZE
        /\ Len(fifo) \in Nat
    BY <1>1, Lengths DEF Full, OutOK, FifoOK
  <1>6. PICK m \in Nat \ {0} :
           /\ m <= c.n - c.ret /\ m <= CFG_TUD_CDC_TX_BUFSIZE - Len(fifo)
           /\ Taken(c) \in Seq(Written) /\ Len(Taken(c)) = m
           /\ \A i \in 1 .. m : Taken(c)[i] = [n |-> c.n, k |-> c.ret + i]
    BY <1>1, <1>4, <1>5, TakenIs
  <1>7. PICK t \in Seq(Written) : t = Taken(c)
    BY <1>6
  <1>8. PICK d : d = [c EXCEPT !.ret = @ + m]
    OBVIOUS
  <1>9. c.n \in {TEXT, OUTPUT} /\ c.n \in Nat /\ c.ret \in Nat
    BY Lengths DEF Calls
  <1>10. d \in Calls /\ d.n = c.n /\ d.ret = c.ret + m /\ d.ret <= d.n /\ d.ret > 0
    <2>1. PICK n \in {TEXT, OUTPUT}, r \in Nat, w \in {"log", "out", "reenum"} :
            c = [what |-> w, n |-> n, ret |-> r]
      BY DEF Calls
    <2>2. d = [what |-> w, n |-> n, ret |-> r + m]
      BY <1>8, <2>1
    <2>3. r + m \in Nat /\ r + m > 0 /\ r + m <= n
      BY <1>6, <1>9, <2>1
    <2> QED
      BY <2>1, <2>2, <2>3 DEF Calls
  <1>11. writers' = <<d>>
    <2>1. [<<c>> EXCEPT ![1].ret = @ + m] = <<[c EXCEPT !.ret = @ + m]>>
      OBVIOUS
    <2>2. writers' = [<<c>> EXCEPT ![1].ret = @ + m]
      BY <1>1, <1>3, <1>4, <1>6, Zenon
    <2> QED
      BY <1>8, <2>1, <2>2
  <1>12. Len(writers') = 1 /\ writers'[1] = d /\ top' = d /\ writers' # <<>>
    BY <1>11 DEF top
  <1>13. CallsOK'
    BY <1>10, <1>11, <1>12, Lengths DEF CallsOK
  <1>14. PICK f : f = fifo'
    OBVIOUS
  <1>15. f = fifo \o t /\ f \in Seq(Written) /\ Len(f) = Len(fifo) + m
    BY <1>1, <1>4, <1>5, <1>6, <1>7, <1>14
  <1>16. Len(f) <= CFG_TUD_CDC_TX_BUFSIZE
    <2>1. PICK l \in Nat : l = Len(fifo)
      BY <1>5
    <2> QED
      BY <1>6, <1>15, <2>1, Lengths
  <1>17. FifoOK'
    BY <1>1, <1>14, <1>15, <1>16 DEF OutOK, FifoOK
  <1>18. ChainOK'
    <2> SUFFICES ASSUME ~cut
                 PROVE  InChain(last, fifo)' /\ Stands(Newest(last, fifo))'
      BY <1>1 DEF ChainOK
    <2>1. InChain(last, fifo) /\ Stands(Newest(last, fifo))
      BY DEF OutOK, ChainOK
    <2>2. PICK z : z = Newest(last, fifo)
      OBVIOUS
    <2>3. t # <<>> /\ t[1] = [n |-> c.n, k |-> c.ret + 1] /\ t[m] = [n |-> c.n, k |-> c.ret + m]
      BY <1>6, <1>7
    <2>4. Follows(z, t[1])
      <3>1. CASE c.ret = 0
        <4>1. z.k = z.n
          BY <1>3, <1>4, <2>1, <2>2, <3>1 DEF Stands
        <4>2. ~(z.k < z.n)
          <5>1. z \in Written \cup {NoUnit}
            BY <1>5, <2>2 DEF Newest, OutOK, FifoOK
          <5>2. z.n \in Nat
            BY <5>1, WrittenIs, Lengths
          <5> QED
            BY <4>1, <5>2
        <4>3. t[1].k = 1
          BY <2>3, <3>1
        <4> QED
          BY <4>2, <4>3 DEF Follows
      <3>2. CASE c.ret # 0
        <4>1. z = [n |-> c.n, k |-> c.ret]
          BY <1>3, <1>4, <2>1, <2>2, <3>2 DEF Stands
        <4>2. z.k < z.n
          BY <1>1, <1>4, <4>1
        <4>3. [z EXCEPT !.k = @ + 1] = [n |-> c.n, k |-> c.ret + 1]
          BY <4>1
        <4> QED
          BY <2>3, <4>2, <4>3 DEF Follows
      <3> QED
        BY <3>1, <3>2
    <2>5. ASSUME NEW i \in 1 .. m - 1 PROVE Follows(t[i], t[i + 1])
      <3>1. t[i] = [n |-> c.n, k |-> c.ret + i] /\ t[i + 1] = [n |-> c.n, k |-> c.ret + (i + 1)]
        BY <1>6, <1>7
      <3>2. c.ret + i < c.n /\ c.ret + (i + 1) = (c.ret + i) + 1
        BY <1>6, <1>9
      <3>3. [t[i] EXCEPT !.k = @ + 1] = [n |-> c.n, k |-> (c.ret + i) + 1]
        BY <3>1
      <3>4. t[i].k < t[i].n
        BY <3>1, <3>2
      <3> QED
        BY <3>1, <3>2, <3>3, <3>4 DEF Follows
    <2>6. InChain(z, t) /\ Newest(z, t) = t[m]
      <3>1. Len(t) = m
        BY <1>6, <1>7
      <3> QED
        BY <2>3, <2>4, <2>5, <3>1 DEF InChain, Newest
    <2>7. InChain(last, f) /\ Newest(last, f) = t[m]
      BY <1>5, <1>15, <2>1, <2>2, <2>6, ChainCat
    <2>8. InChain(last, fifo)'
      BY <1>1, <1>14, <2>7 DEF InChain, Follows
    <2>9. Newest(last, fifo)' = [n |-> d.n, k |-> d.ret]
      BY <1>1, <1>10, <1>14, <2>3, <2>7 DEF Newest
    <2>10. Stands(Newest(last, fifo))'
      <3>1. /\ writers' # <<>> /\ Len(writers') = 1 /\ top'.ret # 0
            /\ Newest(last, fifo)' = [n |-> top'.n, k |-> top'.ret]
        BY <1>9, <1>10, <1>12, <2>9
      <3> QED
        BY <3>1 DEF Stands
    <2> QED
      BY <2>8, <2>10
  <1> QED
    BY <1>13, <1>17, <1>18 DEF OutOK

(* usbUpdate calls uartWrite from within uartWrite.                        *)
LEMMA OutNests ==
  ASSUME OutOK, Recurses
  PROVE  OutOK'
  <1>1. /\ writers # <<>> /\ port /\ Full /\ Announce /\ UNCHANGED <<usb, reenum>>
      BY DEF Recurses, Blocked
  <1>2. UNCHANGED <<fifo, port, last, cut, attached>>
    BY <1>1 DEF usb, reenum
  <1>3. CASE UNCHANGED writers
    <2>1. attached \in BOOLEAN
      BY DEF OutOK, FifoOK
    <2> QED
      BY <1>1, <1>2, <1>3, <2>1, OutStays
  <1>4. CASE Len(writers) < MAX_NEST /\ Write("reenum", TEXT)
    <2>1. writers \in Seq(Calls) /\ \A i \in 1 .. Len(writers) : writers[i].ret <= writers[i].n
      BY DEF OutOK, CallsOK
    <2>2. PICK L \in Nat : L = Len(writers) /\ L > 0
      BY <1>1, <2>1, EmptySeq
    <2>3. PICK c \in Calls : c = [what |-> "reenum", n |-> TEXT, ret |-> 0]
      BY DEF Calls
    <2>4. writers' = Append(writers, c)
      BY <1>4, <2>3 DEF Write, Call
    <2>5. /\ writers' \in Seq(Calls) /\ Len(writers') = L + 1
          /\ \A i \in 1 .. L : writers'[i] = writers[i]
          /\ writers'[L + 1] = c
      BY <2>1, <2>2, <2>4
    <2>6. top' = c
      BY <2>5 DEF top
    <2>7. L + 1 <= MAX_NEST
      BY <1>4, <2>2, Lengths
    <2>8. \A i \in 1 .. L + 1 : writers'[i].ret <= writers'[i].n
      <3> SUFFICES ASSUME NEW i \in 1 .. L + 1 PROVE writers'[i].ret <= writers'[i].n
        OBVIOUS
      <3>1. CASE i \in 1 .. L
        BY <2>1, <2>2, <2>5, <3>1
      <3>2. CASE i = L + 1
        BY <2>3, <2>5, <3>2, Lengths
      <3> QED
        BY <3>1, <3>2
    <2>9. \A i \in 2 .. L + 1 : writers'[i].what = "reenum"
      <3> SUFFICES ASSUME NEW i \in 2 .. L + 1 PROVE writers'[i].what = "reenum"
        OBVIOUS
      <3>1. CASE i \in 2 .. L
        <4>1. writers[i].what = "reenum"
          BY <2>2, <3>1 DEF OutOK, CallsOK
        <4> QED
          BY <2>5, <3>1, <4>1
      <3>2. CASE i = L + 1
        BY <2>3, <2>5, <3>2
      <3> QED
        BY <3>1, <3>2
    <2>10. Full' /\ port'
      BY <1>1, <1>2 DEF Full
    <2>11. DOMAIN writers' = 1 .. L + 1
      BY <2>5
    <2>12. CallsOK'
      BY <2>3, <2>5, <2>6, <2>7, <2>8, <2>9, <2>10, <2>11 DEF CallsOK
    <2>13. FifoOK'
      BY <1>2 DEF OutOK, FifoOK
    <2>14. ChainOK'
      <3>1. writers' # <<>> /\ Len(writers') # 1
        BY <2>2, <2>5
      <3>2. Stands(Newest(last, fifo))'
        BY <3>1 DEF Stands
      <3>3. InChain(last, fifo) => InChain(last, fifo)'
        BY <1>2 DEF InChain, Follows
      <3> QED
        BY <1>1, <1>2, <3>2, <3>3 DEF OutOK, ChainOK
    <2> QED
      BY <2>12, <2>13, <2>14 DEF OutOK
  <1> QED
    BY <1>1, <1>3, <1>4 DEF Announce

NothingWritten ==
  /\ writers = <<>> /\ fifo = <<>> /\ last = NoUnit
  /\ port \in BOOLEAN /\ attached \in BOOLEAN /\ cut \in BOOLEAN /\ (port => attached)

LEMMA OutInit == NothingWritten => OutOK
  <1> SUFFICES ASSUME NothingWritten PROVE OutOK
    OBVIOUS
  <1> USE DEF NothingWritten
  <1>1. <<>> \in Seq(Calls) /\ <<>> \in Seq(Written) /\ Len(<<>>) = 0
    OBVIOUS
  <1>2. CallsOK
    BY <1>1, Lengths DEF CallsOK
  <1>3. FifoOK
    BY <1>1, Lengths DEF FifoOK
  <1>4. ChainOK
    BY <1>1, WrittenIs DEF ChainOK, InChain, Newest, Stands
  <1> QED
    BY <1>2, <1>3, <1>4 DEF OutOK

(* A call ends.                                                            *)
LEMMA OutEnds ==
  ASSUME OutOK, Return
  PROVE  OutOK'
  <1>1. /\ writers # <<>> /\ (~port \/ top.ret = top.n) /\ writers' = Front(writers)
        /\ IF top.what = "reenum"
           THEN attached' = FALSE /\ fifo' = <<>> /\ port' = FALSE /\ last' = NoUnit /\ cut' = FALSE
           ELSE UNCHANGED <<reenum, usb>>
    BY DEF Return
  <1>2. /\ writers \in Seq(Calls)
        /\ Len(writers) > 1 => port /\ top.ret = 0
    BY DEF OutOK, CallsOK
  <1>3. PICK L \in Nat \ {0} : L = Len(writers)
    BY <1>1, <1>2, EmptySeq
  <1>4. top \in Calls /\ top.n \in Nat \ {0}
    <2>1. top \in Calls
      BY <1>2, <1>3 DEF top
    <2> QED
      BY <2>1, Lengths DEF Calls
  <1>5. L = 1
    <2>1. ~(L > 1)
      BY <1>1, <1>2, <1>3, <1>4
    <2> QED
      BY <2>1
  <1>6. writers' = <<>>
    BY <1>1, <1>2, <1>3, <1>5 DEF Front
  <1>7. CASE top.what = "reenum"
    <2>1. NothingWritten'
      BY <1>1, <1>6, <1>7 DEF NothingWritten
    <2> QED
      BY <2>1, OutInit, PTL
  <1>8. CASE top.what # "reenum"
    <2>1. UNCHANGED <<fifo, port, last, cut, attached>>
      BY <1>1, <1>8 DEF reenum, usb
    <2>2. <<>> \in Seq(Calls) /\ Len(<<>>) = 0
      OBVIOUS
    <2>3. CallsOK'
      BY <1>6, <2>2, Lengths DEF CallsOK
    <2>4. FifoOK'
      BY <2>1 DEF OutOK, FifoOK
    <2>5. ASSUME ~cut PROVE Newest(last, fifo).k = Newest(last, fifo).n
      <3>1. Stands(Newest(last, fifo)) /\ (~port => fifo = <<>> /\ last = NoUnit)
        BY <2>5 DEF OutOK, ChainOK
      <3>2. CASE ~port
        BY <3>1, <3>2, WrittenIs DEF Newest
      <3>3. CASE port
        <4>1. top.ret = top.n /\ top.ret # 0
          BY <1>1, <1>4, <3>3
        <4>2. Newest(last, fifo) = [n |-> top.n, k |-> top.ret]
          BY <1>3, <1>5, <3>1, <4>1 DEF Stands
        <4> QED
          BY <4>1, <4>2
      <3> QED
        BY <3>2, <3>3
    <2>6. ChainOK'
      <3>1. Stands(Newest(last, fifo))' <=> Newest(last, fifo).k = Newest(last, fifo).n
        BY <1>6, <2>1, <2>2 DEF Stands, Newest
      <3>2. InChain(last, fifo) => InChain(last, fifo)'
        BY <2>1 DEF InChain, Follows
      <3> QED
        BY <2>1, <2>5, <3>1, <3>2 DEF OutOK, ChainOK
    <2> QED
      BY <2>3, <2>4, <2>6 DEF OutOK
  <1> QED
    BY <1>7, <1>8

LEMMA OutInv ==
  ASSUME OutOK, [BoardNext]_boardVars
  PROVE  OutOK'
  <1>0. attached \in BOOLEAN
    BY DEF OutOK, FifoOK
  <1>1. ASSUME writers = <<>>, UNCHANGED usb, attached' \in BOOLEAN, attached => attached',
               logPrintf \/ Write("out", OUTPUT) \/ Announce \/ UNCHANGED writers
        PROVE  OutOK'
    <2>1. CASE logPrintf
      BY <1>1, <2>1, OutBegins DEF logPrintf
    <2>2. CASE Write("out", OUTPUT)
      BY <1>1, <2>2, OutBegins
    <2>3. CASE UNCHANGED writers
      BY <1>1, <2>3, OutStays
    <2>4. CASE Write("reenum", TEXT)
      BY <1>1, <2>4, OutBegins
    <2> QED
      BY <1>1, <2>1, <2>2, <2>3, <2>4 DEF Announce
  <1>2. CASE usbUpdate
    <2>1. writers = <<>>
      BY <1>2 DEF usbUpdate, Quiet
    <2>2. attached' \in BOOLEAN /\ (attached => attached')
      <3>1. attached' = TRUE \/ attached' = attached
        BY <1>2 DEF usbUpdate, reenum
      <3> QED
        BY <1>0, <3>1
    <2>3. CASE \E j \in 0 .. Len(fifo) : tud_task(j) /\ UNCHANGED writers
      <3>1. Len(writers) <= 1
        BY <2>1
      <3> QED
        BY <2>2, <2>3, <3>1, OutTaken
    <2>4. CASE UNCHANGED usb /\ (logPrintf \/ Announce \/ UNCHANGED writers)
      BY <1>1, <2>1, <2>2, <2>4
    <2> QED
      BY <1>2, <2>3, <2>4 DEF usbUpdate
  <1>3. CASE linkKbdUpdate \/ qmkSetProfile \/ IdleDone
    <2>1. writers = <<>> /\ UNCHANGED usb /\ attached' = attached /\ (logPrintf \/ UNCHANGED writers)
      BY <1>3 DEF linkKbdUpdate, qmkSetProfile, IdleDone, Quiet, reenum
    <2> QED
      BY <1>0, <1>1, <2>1
  <1>4. CASE linkKbdApplySlot
    <2>1. writers = <<>> /\ UNCHANGED usb /\ (logPrintf \/ UNCHANGED writers)
      BY <1>4 DEF linkKbdApplySlot, Quiet
    <2>2. attached' = TRUE \/ attached' = attached
      BY <1>4 DEF linkKbdApplySlot, reenum
    <2> QED
      BY <1>0, <1>1, <2>1, <2>2
  <1>5. CASE ledStatusUpdate \/ Command \/ CommandWaits \/ cliUsbh \/ cliWs2812
    <2>1. /\ writers = <<>> /\ UNCHANGED usb /\ attached' = attached
          /\ Write("out", OUTPUT) \/ UNCHANGED writers
      BY <1>5 DEF ledStatusUpdate, Command, CommandWaits, cliUsbh, cliWs2812, Quiet, reenum
    <2> QED
      BY <1>0, <1>1, <2>1
  <1>6. CASE Start
    <2>1. writers = <<>> /\ UNCHANGED usb /\ attached' = attached /\ (logPrintf \/ UNCHANGED writers)
      BY <1>6 DEF Start, Says, resetLog, Does, usbhInit, Quiet, reenum
    <2> QED
      BY <1>0, <1>1, <2>1
  <1>7. CASE uartWrite
    BY <1>7, OutWrites
  <1>8. ASSUME NEW j \in 0 .. Len(fifo), WaitsForHost(j)
        PROVE  OutOK'
    <2>1. tud_task(j) /\ UNCHANGED writers /\ attached' = attached /\ writers # <<>> /\ ~Nested
      BY <1>8 DEF WaitsForHost, Blocked, reenum
    <2>2. Len(writers) <= 1
      <3>1. PICK L \in Nat : L = Len(writers)
        BY DEF OutOK, CallsOK
      <3>2. ASSUME L > 1 PROVE FALSE
        <4>1. 2 \in 2 .. Len(writers) /\ 2 \in DOMAIN writers
          <5>1. DOMAIN writers = 1 .. Len(writers)
            BY DEF OutOK, CallsOK
          <5> QED
            BY <3>1, <3>2, <5>1
        <4>2. writers[2].what = "reenum"
          BY <4>1 DEF OutOK, CallsOK
        <4> QED
          BY <2>1, <4>1, <4>2 DEF Nested
      <3> QED
        BY <3>1, <3>2
    <2> QED
      BY <1>0, <2>1, <2>2, OutTaken
  <1>9. CASE Takes \/ WaitsForHost(0)
    <2>1. Len(fifo) \in Nat
      BY DEF OutOK, FifoOK
    <2>2. 1 .. Len(fifo) \subseteq 0 .. Len(fifo) /\ 0 \in 0 .. Len(fifo)
      BY <2>1
    <2> QED
      BY <1>8, <1>9, <2>2 DEF Takes
  <1>10. CASE Recurses
    BY <1>10, OutNests
  <1>11. CASE Return
    BY <1>11, OutEnds
  <1>12. CASE Reset
    <2>1. NothingWritten'
      BY <1>12 DEF Reset, NothingWritten
    <2> QED
      BY <2>1, OutInit, PTL
  <1>13. CASE usbhCore1Main \/ UNCHANGED boardVars
    <2>1. UNCHANGED <<writers, usb>> /\ attached' = attached
      BY <1>13 DEF usbhCore1Main, boardVars, reenum
    <2> QED
      BY <1>0, <2>1, OutStays
  <1> QED
    BY <1>2, <1>3, <1>4, <1>5, <1>6, <1>7, <1>9, <1>10, <1>11, <1>12, <1>13 DEF BoardNext, Loop

-----------------------------------------------------------------------------
(* Together. *)

(* What every state of the board satisfies.                                *)
BoardInv == PlaceOK /\ LedOK /\ LogsOK /\ OutOK

LEMMA BoardInitInv == BoardInit => BoardInv
<1> SUFFICES ASSUME BoardInit PROVE BoardInv
  OBVIOUS
<1>1. PlaceOK
  <2>1. 0 \in 0 .. TRIES /\ causes \in 0 .. RESET_BIT_MAX /\ step = "hello"
    BY BoardAssumption DEF BoardInit
  <2>2. /\ is_running \in BOOLEAN /\ moved \in BOOLEAN /\ lost \in BOOLEAN
        /\ tries = 0 /\ turn = "none" /\ cmd = "no" /\ reenum_state = "HOLD"
    BY DEF BoardInit
  <2> QED
    BY <2>1, <2>2, Zenon DEF PlaceOK, StepSet
<1>2. LedOK
  BY DEF BoardInit, LedOK
<1>3. LogsOK
  BY LogsInit DEF BoardInit, NothingSaid
<1>4. OutOK
  BY OutInit DEF BoardInit, NothingWritten
<1> QED
  BY <1>1, <1>2, <1>3, <1>4 DEF BoardInv

LEMMA BoardInvariance == BoardSpec => []BoardInv
<1>1. ASSUME BoardInv, [BoardNext]_boardVars
      PROVE  BoardInv'
  <2>1. PlaceOK /\ LedOK /\ LogsOK /\ OutOK
    BY <1>1 DEF BoardInv
  <2>2. PlaceOK' /\ LedOK'
    BY <1>1, <2>1, PlaceInv, LedInv
  <2>3. LogsOK'
    BY <1>1, <2>1, LogsInv
  <2>4. OutOK'
    BY <1>1, <2>1, OutInv
  <2> QED
    BY <2>2, <2>3, <2>4 DEF BoardInv
<1> QED
  BY <1>1, BoardInitInv, PTL DEF BoardSpec

(* While the PC sleeps the LED is dark, whatever was struck, blinked or    *)
(* sent before, unless the console painted it (ledStatusUpdate sends a     *)
(* colour only when it changes).                                           *)
THEOREM DarkWhenAsleepHolds == BoardSpec => []DarkWhenAsleep
<1>1. BoardInv => DarkWhenAsleep
  BY DEF BoardInv, LedOK, DarkWhenAsleep
<1> QED
  BY <1>1, BoardInvariance, PTL

(* `log boot' and `log list' tell what the program said: no line goes past *)
(* the end of its buffer, what is printed are whole messages with their    *)
(* numbers up to the newest, and the start-up is kept (logBufPrintf,       *)
(* logPrintf, logBoot).                                                    *)
THEOREM LogTellsHolds == BoardSpec => []LogTells
<1>1. BoardInv => LogTells
  <2> SUFFICES ASSUME BoardInv PROVE LogTells
    OBVIOUS
  <2>1. LogOK(boot, LOG_BOOT_BUF_MAX) /\ LogOK(list, LOG_LIST_BUF_MAX) /\ BootOK
    BY DEF BoardInv, LogsOK
  <2>2. /\ LOG_BOOT_BUF_MAX \in Nat /\ LOG_BOOT_BUF_MAX >= TEXT + SLACK
        /\ LOG_LIST_BUF_MAX \in Nat /\ LOG_LIST_BUF_MAX >= TEXT + SLACK
    BY BoardAssumption
  <2>3. IsBuffer(boot, LOG_BOOT_BUF_MAX) /\ PrintsWhatWasSaid(boot)
    BY <2>1, <2>2, LogPrints
  <2>4. IsBuffer(list, LOG_LIST_BUF_MAX) /\ PrintsWhatWasSaid(list)
    BY <2>1, <2>2, LogPrints
  <2>5. BootLogKept
    BY <2>1 DEF BootOK, BootLogKept
  <2> QED
    BY <2>3, <2>4, <2>5 DEF LogTells
<1> QED
  BY <1>1, BoardInvariance, PTL

(* What a terminal reads is what was written: each message whole and in    *)
(* order, nothing twice and none in the middle of another, although        *)
(* uartWrite lets usbUpdate run, and write, while the FIFO is full -       *)
(* unless the port was closed on the way.                                  *)
THEOREM OutputInOrderHolds == BoardSpec => []OutputInOrder
<1>1. BoardInv => OutputInOrder
  <2> SUFFICES ASSUME BoardInv PROVE OutputInOrder
    OBVIOUS
  <2>1. /\ fifo \in Seq(Written) /\ last \in Written \cup {NoUnit}
        /\ ~cut => InChain(last, fifo)
    BY DEF BoardInv, OutOK, FifoOK, ChainOK
  <2>2. CASE last = NoUnit
    <3>1. <<>> \o fifo = fifo
      BY <2>1
    <3> QED
      BY <2>1, <2>2, <3>1 DEF OutputInOrder, InChain
  <2>3. CASE last # NoUnit
    <3>1. PICK L \in Nat : L = Len(fifo)
      BY <2>1
    <3>2. PICK on \in Seq(Written) : on = <<last>> \o fifo
      <4>1. <<last>> \in Seq(Written)
        BY <2>1, <2>3
      <4>2. <<last>> \o fifo \in Seq(Written)
        BY <2>1, <4>1, ConcatProperties
      <4> QED
        BY <4>2
    <3>3. /\ Len(on) = L + 1 /\ on[1] = last
          /\ \A i \in 1 .. L : on[i + 1] = fifo[i]
      BY <2>1, <2>3, <3>1, <3>2
    <3>4. ASSUME ~cut, NEW i \in 1 .. L
          PROVE  Follows(on[i], on[i + 1])
      <4>1. fifo # <<>>
        BY <3>1
      <4>2. CASE i = 1
        <5>1. Follows(last, fifo[1])
          BY <2>1, <3>4, <4>1 DEF InChain
        <5>2. on[1] = last /\ on[1 + 1] = fifo[1]
          BY <3>3, <3>4, <4>2
        <5> QED
          BY <4>2, <5>1, <5>2
      <4>3. CASE i # 1
        <5>1. PICK q \in 1 .. L - 1 : q + 1 = i
          BY <3>4, <4>3
        <5>2. Follows(fifo[q], fifo[q + 1])
          BY <2>1, <3>1, <3>4 DEF InChain
        <5>3. on[i] = fifo[q] /\ on[i + 1] = fifo[q + 1]
          BY <3>3, <5>1
        <5> QED
          BY <5>2, <5>3
      <4> QED
        BY <4>2, <4>3
    <3>5. Len(on) - 1 = L
      BY <3>3
    <3> QED
      BY <2>3, <3>2, <3>4, <3>5 DEF OutputInOrder
  <2> QED
    BY <2>2, <2>3
<1> QED
  BY <1>1, BoardInvariance, PTL

(* Every variable has its type: the buffers and the FIFO are never         *)
(* overfilled, and no more than MAX_NEST calls of uartWrite are under way. *)
THEOREM BoardTypeCorrect == BoardSpec => []BoardTypeOK
<1>1. BoardInv => BoardTypeOK
  <2> SUFFICES ASSUME BoardInv PROVE BoardTypeOK
    OBVIOUS
  <2>1. PlaceOK /\ LedOK /\ CallsOK /\ FifoOK
    BY DEF BoardInv, OutOK
  <2>2. LogOK(boot, LOG_BOOT_BUF_MAX) /\ LogOK(list, LOG_LIST_BUF_MAX) /\ is_boot_log \in BOOLEAN
    BY DEF BoardInv, LogsOK, BootOK
  <2>3. step \in ToSet(Steps)
    <3>1. \A i \in 1 .. 10 : Steps[i] \in ToSet(Steps)
      BY StepsAre DEF ToSet
    <3>2. step \in {Steps[i] : i \in 1 .. 10}
      BY <2>1, StepsAre DEF PlaceOK, StepSet
    <3> QED
      BY <3>1, <3>2
  <2>4. \A i \in DOMAIN writers : writers[i].ret \in 0 .. writers[i].n
    <3> SUFFICES ASSUME NEW i \in DOMAIN writers PROVE writers[i].ret \in 0 .. writers[i].n
      OBVIOUS
    <3>1. PICK c \in Calls : c = writers[i]
      BY <2>1 DEF CallsOK
    <3>2. c.ret \in Nat /\ c.n \in Nat /\ c.ret <= c.n
      BY <2>1, <3>1, Lengths DEF Calls, CallsOK
    <3> QED
      BY <3>1, <3>2
  <2>5. Written = Units \ {NoUnit}
    BY WrittenIs DEF Written, Units
  <2>6. fifo \in BoundedSeq(Written, CFG_TUD_CDC_TX_BUFSIZE)
    <3>1. PICK L \in Nat : L = Len(fifo)
      BY <2>1 DEF FifoOK
    <3>2. L \in 0 .. CFG_TUD_CDC_TX_BUFSIZE /\ fifo \in [1 .. L -> Written]
      BY <2>1, <3>1, BoardAssumption, LenProperties DEF FifoOK
    <3> QED
      BY <3>2 DEF BoundedSeq, SeqOf
  <2>7. last \in Units
    BY <2>1 DEF FifoOK, Written, Units
  <2>8. IsBuffer(boot, LOG_BOOT_BUF_MAX) /\ IsBuffer(list, LOG_LIST_BUF_MAX)
    <3>1. /\ LOG_BOOT_BUF_MAX \in Nat /\ LOG_BOOT_BUF_MAX >= TEXT + SLACK
          /\ LOG_LIST_BUF_MAX \in Nat /\ LOG_LIST_BUF_MAX >= TEXT + SLACK
      BY BoardAssumption
    <3> QED
      BY <2>2, <3>1, LogPrints
  <2>9. {moved, cut, lost, asleep, painted, is_boot_log} \subseteq BOOLEAN
    BY <2>1, <2>2, Zenon DEF PlaceOK, LedOK, FifoOK
  <2>10. Len(writers) <= MAX_NEST /\ (port => attached) /\ port \in BOOLEAN /\ attached \in BOOLEAN
    BY <2>1 DEF CallsOK, FifoOK
  <2> QED
    BY <2>1, <2>3, <2>4, <2>5, <2>6, <2>7, <2>8, <2>9, <2>10, Zenon DEF BoardTypeOK, PlaceOK
<1> QED
  BY <1>1, BoardInvariance, PTL
=============================================================================
