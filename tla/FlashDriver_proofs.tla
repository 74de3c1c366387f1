-------------------------- MODULE FlashDriver_proofs --------------------------
(***************************************************************************)
(* Proofs about FlashDriver, for every size of pages, sectors and flash,   *)
(* every address and length, and all data.                                 *)
(*                                                                         *)
(* The steps of the driver are steps of Nor once two things are known: the *)
(* call under way lies within the user's part, or is an erase whose sum    *)
(* wraps (CallOK), and what has been written of it would not change if it  *)
(* were written again (Progress).  That the firmware stays but for such an *)
(* erase, and that flash test tells what it did, follows from Nor's steps  *)
(* alone.                                                                  *)
(***************************************************************************)
EXTENDS FlashDriver, TLAPS, SequenceTheorems

Job == [addr : Nat, data : Seq({0, 1}), erases : BOOLEAN]

Writing == pc \in {"front", "mid", "tail"}

CallOK ==
    /\ mem \in [Bytes -> {0, 1}]
    /\ pc \in {"idle", "erase", "front", "mid", "tail"}
    /\ pc = "idle" <=> req = None
    /\ pc \in {"idle", "front"} => index = 0
    /\ pc # "idle" =>
          /\ req \in Job /\ (req.erases <=> pc = "erase")
          /\ HW_FLASH_USER_BEGIN <= req.addr
          /\ req.addr + Length <= HW_FLASH_SIZE \/ (pc = "erase" /\ Wraps)
          /\ index \in Nat /\ index < Length
    /\ pc = "erase" => Aligned(req.addr, Length)
    /\ pc = "tail" => Length - index < HW_FLASH_PAGE_SIZE

\* The byte of the request that goes to b.
Wish(b) == req.data[b - req.addr + 1]

Progress ==
    Writing => \A b \in Bytes : b >= req.addr /\ b < req.addr + index => mem[b] * Wish(b) = mem[b]

IInv == CallOK /\ Progress

-----------------------------------------------------------------------------
(* Arithmetic. *)

LEMMA DivMod ==
  ASSUME NEW S \in Nat \ {0}, NEW a \in Nat
  PROVE  \E q \in Nat : a = S * q + (a % S)
<1>1. a = S * (a \div S) + (a % S) /\ a \div S \in Nat
  OBVIOUS
<1>2. QED
  BY <1>1

LEMMA MultipleOf ==
  ASSUME NEW S \in Nat \ {0}, NEW a \in Nat, a % S = 0
  PROVE  \E q \in Nat : a = S * q
<1>1. PICK q \in Nat : a = S * q + (a % S)
  BY DivMod
<1>2. S * q \in Int
  OBVIOUS
<1>3. a = S * q
  BY <1>1, <1>2
<1>4. QED
  BY <1>3

LEMMA ModRange ==
  ASSUME NEW S \in Nat \ {0}, NEW a \in Nat
  PROVE  a % S \in 0 .. S - 1
OBVIOUS

LEMMA MultLess ==
  ASSUME NEW S \in Nat \ {0}, NEW x \in Int, NEW y \in Int, S * x < S * y
  PROVE  x < y
OBVIOUS

LEMMA MultMono ==
  ASSUME NEW S \in Nat \ {0}, NEW x \in Int, NEW y \in Int, x <= y
  PROVE  S * x <= S * y
OBVIOUS

\* Two numbers less than S apart with the same remainder are the same.
LEMMA ModInjective ==
  ASSUME NEW S \in Nat \ {0}, NEW a \in Nat, NEW b \in Nat, a % S = b % S, a <= b, b - a < S
  PROVE  a = b
<1>1. PICK q \in Nat : a = S * q + (a % S)
  BY DivMod
<1>2. PICK r \in Nat : b = S * r + (b % S)
  BY DivMod
<1>3. a % S \in 0 .. S - 1
  BY ModRange
<1>4. r - q < 1
  <2>1. S * (r - q) < S * 1
    BY <1>1, <1>2, <1>3
  <2>2. QED
    BY <2>1, MultLess
<1>5. q < r + 1
  <2>1. S * q < S * (r + 1)
    BY <1>1, <1>2, <1>3
  <2>2. QED
    BY <2>1, MultLess
<1>6. QED
  BY <1>1, <1>2, <1>4, <1>5

\* A multiple is at least as large as what it is a multiple of.
LEMMA MultipleLarge ==
  ASSUME NEW S \in Nat \ {0}, NEW a \in Nat \ {0}, a % S = 0
  PROVE  S <= a
<1>1. PICK q \in Nat : a = S * q
  BY MultipleOf
<1>2. S * 0 < S * q
  BY <1>1
<1>3. 1 <= q
  BY <1>2, MultLess
<1>4. S * 1 <= S * q
  BY <1>3, MultMono
<1>5. QED
  BY <1>1, <1>4

\* A sector of S bytes that touches an aligned span lies in it.
LEMMA SectorInside ==
  ASSUME NEW S \in Nat \ {0}, NEW a \in Nat, NEW n \in Nat, NEW c \in Nat, NEW b \in Nat,
         a % S = 0, n % S = 0, a <= c, c < a + n, b - (b % S) = c - (c % S)
  PROVE  a <= b /\ b < a + n
<1>1. PICK qa \in Nat : a = S * qa
  BY MultipleOf
<1>2. PICK qn \in Nat : n = S * qn
  BY MultipleOf
<1>3. PICK qc \in Nat : c = S * qc + (c % S)
  BY DivMod
<1>4. c % S \in 0 .. S - 1 /\ b % S \in 0 .. S - 1
  BY ModRange
<1>5. b = S * qc + (b % S)
  BY <1>3, <1>4
<1>6. qa <= qc
  <2>1. S * qa < S * (qc + 1)
    BY <1>1, <1>3, <1>4
  <2>2. QED
    BY <2>1, MultLess
<1>7. qc + 1 <= qa + qn
  <2>1. S * qc < S * (qa + qn)
    BY <1>1, <1>2, <1>3, <1>4
  <2>2. QED
    BY <2>1, MultLess
<1>8. S * qa <= S * qc /\ S * (qc + 1) <= S * (qa + qn)
  BY <1>6, <1>7, MultMono
<1>9. QED
  BY <1>1, <1>2, <1>4, <1>5, <1>8

LEMMA Sizes ==
  /\ HW_FLASH_SIZE \in Nat \ {0} /\ HW_FLASH_PAGE_SIZE \in Nat \ {0}
  /\ HW_FLASH_SECTOR_SIZE \in Nat \ {0} /\ HW_FLASH_USER_BEGIN \in Nat
  /\ HW_FLASH_PAGE_SIZE <= HW_FLASH_SIZE
  /\ Bytes \subseteq Nat /\ \A b \in Bytes : b < HW_FLASH_SIZE
<1>1. /\ HW_FLASH_SIZE \in Nat \ {0} /\ HW_FLASH_PAGE_SIZE \in Nat \ {0}
      /\ HW_FLASH_SECTOR_SIZE \in Nat \ {0} /\ HW_FLASH_USER_BEGIN \in Nat
      /\ HW_FLASH_SECTOR_SIZE % HW_FLASH_PAGE_SIZE = 0
      /\ HW_FLASH_SIZE % HW_FLASH_SECTOR_SIZE = 0
  BY FlashAssumption
<1>2. HW_FLASH_PAGE_SIZE <= HW_FLASH_SECTOR_SIZE /\ HW_FLASH_SECTOR_SIZE <= HW_FLASH_SIZE
  BY <1>1, MultipleLarge
<1>3. QED
  BY <1>1, <1>2 DEF Bytes

LEMMA CellSmall ==
  ASSUME NEW a \in Nat, a < HW_FLASH_SIZE
  PROVE  Cell(a) = a /\ a \in Bytes
BY Sizes DEF Cell, Bytes

LEMMA CellByte ==
  ASSUME NEW a \in Nat
  PROVE  Cell(a) \in Bytes
BY Sizes, ModRange DEF Cell, Bytes

-----------------------------------------------------------------------------
(* Sequences. *)

LEMMA FunctionIsSeq ==
  ASSUME NEW n \in Nat, NEW f \in [1 .. n -> {0, 1}]
  PROVE  f \in Seq({0, 1}) /\ Len(f) = n /\ DOMAIN f = 1 .. n
<1>1. f \in Seq({0, 1})
  BY SeqDef
<1>2. QED
  BY <1>1, LenProperties

LEMMA PartIsSeq ==
  ASSUME NEW s \in Seq({0, 1}), NEW m \in Nat, NEW k \in Nat, m + k <= Len(s)
  PROVE  /\ SubSeq(s, m + 1, m + k) \in Seq({0, 1})
         /\ Len(SubSeq(s, m + 1, m + k)) = k
         /\ DOMAIN SubSeq(s, m + 1, m + k) = 1 .. k
         /\ \A i \in 1 .. k : SubSeq(s, m + 1, m + k)[i] = s[m + i]
<1>1. Len(s) \in Nat /\ DOMAIN s = 1 .. Len(s) /\ \A i \in 1 .. Len(s) : s[i] \in {0, 1}
  BY LenProperties, ElementOfSeq
<1>2. SubSeq(s, m + 1, m + k) = [i \in 1 .. k |-> s[m + i]]
  BY <1>1
<1>3. \A i \in 1 .. k : m + i \in 1 .. Len(s)
  BY <1>1
<1>4. [i \in 1 .. k |-> s[m + i]] \in [1 .. k -> {0, 1}]
  BY <1>1, <1>3
<1>5. QED
  BY <1>2, <1>4, FunctionIsSeq

LEMMA Bits ==
  /\ \A x, y \in {0, 1} : x * y \in {0, 1} /\ (x * y) * y = x * y
  /\ \A x \in {0, 1} : x * x = x /\ 1 * x = x
OBVIOUS

-----------------------------------------------------------------------------
(* The chip. *)

\* An erase of whole sectors sets the bytes of its span and no others.
LEMMA EraseSpan ==
  ASSUME NEW a \in Nat, NEW n \in Nat, a + n <= HW_FLASH_SIZE,
         a % HW_FLASH_SECTOR_SIZE = 0, n % HW_FLASH_SECTOR_SIZE = 0
  PROVE  \A b \in Bytes : Erased(a, n)[b] = IF a <= b /\ b < a + n THEN 1 ELSE mem[b]
<1> SUFFICES ASSUME NEW b \in Bytes
             PROVE  Erased(a, n)[b] = IF a <= b /\ b < a + n THEN 1 ELSE mem[b]
  OBVIOUS
<1>1. b \in Nat
  BY Sizes
<1>2. ASSUME NEW i \in 0 .. n - 1
      PROVE  Cell(a + i) = a + i /\ a + i \in Nat
  BY Sizes, CellSmall
<1>3. CASE a <= b /\ b < a + n
  <2>1. b - a \in 0 .. n - 1 /\ a + (b - a) = b
    BY <1>1, <1>3
  <2>2. SectorOf(b) = SectorOf(Cell(a + (b - a)))
    BY <1>2, <2>1
  <2>3. QED
    BY <1>3, <2>1, <2>2 DEF Erased
<1>4. CASE ~(a <= b /\ b < a + n)
  <2>1. ASSUME NEW i \in 0 .. n - 1, SectorOf(b) = SectorOf(Cell(a + i))
        PROVE  FALSE
    <3>1. b - (b % HW_FLASH_SECTOR_SIZE) = (a + i) - ((a + i) % HW_FLASH_SECTOR_SIZE)
      BY <1>2, <2>1 DEF SectorOf
    <3>2. a + i \in Nat /\ a <= a + i /\ a + i < a + n
      BY <1>2
    <3>3. a <= b /\ b < a + n
      BY <1>1, <3>1, <3>2, Sizes, SectorInside
    <3>4. QED
      BY <1>4, <3>3
  <2>2. QED
    BY <1>4, <2>1 DEF Erased
<1>5. QED
  BY <1>3, <1>4

\* The bytes of the request that the next n are.
NewBytes(n) == {b \in Bytes : b >= req.addr + index /\ b < req.addr + index + n}

\* Wherever the image goes it holds the byte that is wished there or the one that
\* is there.
Fits(a, image, n) ==
    \A i \in DOMAIN image :
        /\ Cell(a + i - 1) \in Bytes
        /\ image[i] = IF Cell(a + i - 1) \in NewBytes(n) THEN Wish(Cell(a + i - 1))
                      ELSE mem[Cell(a + i - 1)]

Covers(a, image, n) == \A b \in NewBytes(n) : \E i \in DOMAIN image : b = Cell(a + i - 1)

LEMMA ProgrammedIs ==
  ASSUME NEW a, NEW image, NEW n, Fits(a, image, n), mem \in [Bytes -> {0, 1}]
  PROVE  /\ DOMAIN Programmed(a, image) = Bytes
         /\ \A b \in Bytes : \/ Programmed(a, image)[b] = mem[b]
                             \/ b \in NewBytes(n) /\ Programmed(a, image)[b] = mem[b] * Wish(b)
         /\ Covers(a, image, n) =>
               \A b \in NewBytes(n) : Programmed(a, image)[b] = mem[b] * Wish(b)
<1>1. DOMAIN Programmed(a, image) = Bytes
  BY DEF Programmed
<1>2. ASSUME NEW b \in Bytes, ~\E i \in DOMAIN image : b = Cell(a + i - 1)
      PROVE  Programmed(a, image)[b] = mem[b]
  BY <1>2 DEF Programmed
<1>3. ASSUME NEW b \in Bytes, \E i \in DOMAIN image : b = Cell(a + i - 1)
      PROVE  Programmed(a, image)[b] = IF b \in NewBytes(n) THEN mem[b] * Wish(b) ELSE mem[b]
  <2> DEFINE j == CHOOSE i \in DOMAIN image : b = Cell(a + i - 1)
  <2>1. j \in DOMAIN image /\ b = Cell(a + j - 1)
    BY <1>3
  <2>2. Programmed(a, image)[b] = mem[b] * image[j]
    BY <1>3 DEF Programmed
  <2>3. image[j] = IF b \in NewBytes(n) THEN Wish(b) ELSE mem[b]
    BY <2>1 DEF Fits
  <2>4. mem[b] * mem[b] = mem[b]
    BY Bits
  <2>5. QED
    BY <2>2, <2>3, <2>4
<1>4. QED
  BY <1>1, <1>2, <1>3 DEF Covers, NewBytes

\* A part of an image that fits fits.
LEMMA PartFits ==
  ASSUME NEW a \in Nat, NEW n, NEW image \in Seq({0, 1}), NEW k \in 0 .. Len(image), Fits(a, image, n)
  PROVE  Fits(a, SubSeq(image, 1, k), n)
<1>1. Len(image) \in Nat /\ DOMAIN image = 1 .. Len(image)
  BY LenProperties
<1>2. /\ DOMAIN SubSeq(image, 0 + 1, 0 + k) = 1 .. k
      /\ \A i \in 1 .. k : SubSeq(image, 0 + 1, 0 + k)[i] = image[0 + i]
  BY <1>1, PartIsSeq
<1>3. DOMAIN SubSeq(image, 1, k) = 1 .. k /\ \A i \in 1 .. k : SubSeq(image, 1, k)[i] = image[i]
  BY <1>1, <1>2
<1>4. 1 .. k \subseteq DOMAIN image
  BY <1>1
<1>5. QED
  BY <1>3, <1>4 DEF Fits

-----------------------------------------------------------------------------
(* The images of flashWrite. *)

LEMMA WriteFacts ==
  ASSUME CallOK, Writing
  PROVE  /\ req \in Job /\ req.addr \in Nat /\ req.data \in Seq({0, 1}) /\ Length \in Nat
         /\ ~req.erases /\ req # None
         /\ HW_FLASH_USER_BEGIN <= req.addr /\ req.addr + Length <= HW_FLASH_SIZE
         /\ index \in Nat /\ index < Length
         /\ DOMAIN req.data = 1 .. Length
         /\ \A b \in Bytes : b >= req.addr /\ b < req.addr + Length =>
               b \in Nat /\ b - req.addr + 1 \in 1 .. Length /\ Wish(b) \in {0, 1}
<1>1. req \in Job /\ req.addr \in Nat /\ req.data \in Seq({0, 1})
  BY DEF CallOK, Writing, Job
<1>2. /\ ~req.erases /\ req # None
      /\ HW_FLASH_USER_BEGIN <= req.addr /\ req.addr + Length <= HW_FLASH_SIZE
      /\ index \in Nat /\ index < Length
  BY DEF CallOK, Writing
<1>3. Length \in Nat /\ DOMAIN req.data = 1 .. Length
  BY <1>1, LenProperties DEF Length
<1>4. \A i \in 1 .. Length : req.data[i] \in {0, 1}
  BY <1>1, <1>3, ElementOfSeq DEF Length
<1>5. ASSUME NEW b \in Bytes, b >= req.addr, b < req.addr + Length
      PROVE  b \in Nat /\ b - req.addr + 1 \in 1 .. Length /\ Wish(b) \in {0, 1}
  BY <1>1, <1>3, <1>4, <1>5, Sizes DEF Wish
<1>6. QED
  BY <1>1, <1>2, <1>3, <1>5

\* A page made up from what it holds, with n bytes of the request from offset on.
LEMMA PageFits ==
  ASSUME CallOK, Writing, NEW offset \in Nat, NEW n \in Nat, offset <= req.addr + index,
         offset + n <= HW_FLASH_PAGE_SIZE, index + n <= Length
  PROVE  LET a == req.addr + index - offset
         IN  /\ a \in Nat
             /\ PageImage(a, offset, n) \in Seq({0, 1})
             /\ Fits(a, PageImage(a, offset, n), n)
             /\ Covers(a, PageImage(a, offset, n), n)
<1> DEFINE P == HW_FLASH_PAGE_SIZE
           a == req.addr + index - offset
           image == PageImage(a, offset, n)
<1>1. a \in Nat /\ req.addr \in Nat /\ index \in Nat /\ Length \in Nat /\ P \in Nat
  BY WriteFacts, Sizes
<1>. req.addr + index + n <= HW_FLASH_SIZE /\ HW_FLASH_SIZE \in Nat
  BY <1>1, WriteFacts, Sizes
<1>2. \A i \in 1 .. P : a + i - 1 \in Nat /\ Cell(a + i - 1) \in Bytes
  BY <1>1, CellByte
<1>3. ASSUME NEW i \in 1 .. P, i > offset, i <= offset + n
      PROVE  /\ Cell(a + i - 1) = a + i - 1 /\ Cell(a + i - 1) \in NewBytes(n)
             /\ req.data[index + i - offset] = Wish(Cell(a + i - 1))
             /\ req.data[index + i - offset] \in {0, 1}
  <2>1. a + i - 1 \in Nat /\ a + i - 1 < HW_FLASH_SIZE
    BY <1>1, <1>3
  <2>2. Cell(a + i - 1) = a + i - 1 /\ a + i - 1 \in Bytes
    BY <2>1, CellSmall
  <2>3. a + i - 1 >= req.addr + index /\ a + i - 1 < req.addr + index + n
    BY <1>1, <1>3
  <2>4. a + i - 1 \in NewBytes(n)
    BY <2>2, <2>3 DEF NewBytes
  <2>5. (a + i - 1) - req.addr + 1 = index + i - offset
    BY <1>1
  <2>6. Wish(a + i - 1) \in {0, 1}
    BY SMTT(30), <1>1, <2>2, <2>3, WriteFacts
  <2>7. QED
    BY <2>2, <2>4, <2>5, <2>6 DEF Wish
<1>4. ASSUME NEW i \in 1 .. P, ~(i > offset /\ i <= offset + n)
      PROVE  Cell(a + i - 1) \notin NewBytes(n)
  <2> SUFFICES ASSUME Cell(a + i - 1) \in NewBytes(n) PROVE FALSE
    OBVIOUS
  <2> DEFINE b == Cell(a + i - 1)
  <2>1. b \in Nat /\ b < HW_FLASH_SIZE /\ b >= req.addr + index /\ b < req.addr + index + n
    BY <1>2, Sizes DEF NewBytes
  <2>2. b % HW_FLASH_SIZE = (a + i - 1) % HW_FLASH_SIZE
    BY <2>1, CellSmall DEF Cell
  <2>3. a + i - 1 \in Nat /\ (a + i - 1) - b < P /\ b - (a + i - 1) < P
    BY <1>1, <1>2, <2>1
  <2>4. P <= HW_FLASH_SIZE /\ HW_FLASH_SIZE \in Nat \ {0}
    BY Sizes
  <2> HIDE DEF b
  <2>5. b = a + i - 1
    <3>1. CASE b <= a + i - 1
      BY <2>1, <2>2, <2>3, <2>4, <1>1, <3>1, ModInjective
    <3>2. CASE a + i - 1 <= b
      BY <2>1, <2>2, <2>3, <2>4, <1>1, <3>2, ModInjective
    <3>3. QED
      BY <2>1, <2>3, <3>1, <3>2
  <2>6. QED
    BY <1>1, <1>4, <2>1, <2>5
<1>5. ASSUME NEW i \in 1 .. P
      PROVE  image[i] = IF i > offset /\ i <= offset + n THEN req.data[index + i - offset]
                        ELSE mem[Cell(a + i - 1)]
  BY DEF PageImage
<1>6. image \in Seq({0, 1}) /\ DOMAIN image = 1 .. P
  <2>1. \A i \in 1 .. P : mem[Cell(a + i - 1)] \in {0, 1}
    BY <1>2 DEF CallOK
  <2>2. image \in [1 .. P -> {0, 1}]
    BY <1>3, <1>5, <2>1 DEF PageImage
  <2>3. QED
    BY <1>1, <2>2, FunctionIsSeq
<1>7. Fits(a, image, n)
  BY <1>2, <1>3, <1>4, <1>5, <1>6 DEF Fits
<1>8. Covers(a, image, n)
  <2> SUFFICES ASSUME NEW b \in NewBytes(n)
               PROVE  \E i \in DOMAIN image : b = Cell(a + i - 1)
    BY DEF Covers
  <2>1. b \in Bytes /\ b \in Nat /\ b >= req.addr + index /\ b < req.addr + index + n
    BY Sizes DEF NewBytes
  <2>2. b - a + 1 \in 1 .. P /\ a + (b - a + 1) - 1 = b
    BY <1>1, <2>1
  <2>3. Cell(b) = b
    BY <2>1, Sizes, CellSmall
  <2>4. QED
    BY <1>6, <2>2, <2>3
<1>9. QED
  BY <1>1, <1>6, <1>7, <1>8

\* The whole pages between them go as they are.
LEMMA PagesFit ==
  ASSUME CallOK, Writing, NEW n \in Nat, index + n <= Length
  PROVE  LET image == SubSeq(req.data, index + 1, index + n)
         IN  /\ req.addr + index \in Nat
             /\ image \in Seq({0, 1})
             /\ Fits(req.addr + index, image, n)
             /\ Covers(req.addr + index, image, n)
<1> DEFINE image == SubSeq(req.data, index + 1, index + n)
           a == req.addr + index
<1>1. a \in Nat /\ req.addr \in Nat /\ index \in Nat /\ Length \in Nat
  BY WriteFacts
<1>. req.addr + index + n <= HW_FLASH_SIZE /\ HW_FLASH_SIZE \in Nat
  BY <1>1, WriteFacts, Sizes
<1>2. /\ image \in Seq({0, 1}) /\ DOMAIN image = 1 .. n
      /\ \A i \in 1 .. n : image[i] = req.data[index + i]
  BY <1>1, WriteFacts, PartIsSeq DEF Length
<1>3. ASSUME NEW i \in 1 .. n
      PROVE  /\ Cell(a + i - 1) = a + i - 1 /\ Cell(a + i - 1) \in NewBytes(n)
             /\ Cell(a + i - 1) \in Bytes /\ image[i] = Wish(Cell(a + i - 1))
  <2>1. a + i - 1 \in Nat /\ a + i - 1 < HW_FLASH_SIZE
    BY <1>1
  <2>2. Cell(a + i - 1) = a + i - 1 /\ a + i - 1 \in Bytes
    BY <2>1, CellSmall
  <2>3. a + i - 1 >= req.addr + index /\ a + i - 1 < req.addr + index + n
    BY <1>1
  <2>4. (a + i - 1) - req.addr + 1 = index + i
    BY <1>1
  <2>5. QED
    BY <1>2, <2>2, <2>3, <2>4 DEF Wish, NewBytes
<1>4. Fits(a, image, n)
  BY <1>2, <1>3 DEF Fits
<1>5. Covers(a, image, n)
  <2> SUFFICES ASSUME NEW b \in NewBytes(n)
               PROVE  \E i \in DOMAIN image : b = Cell(a + i - 1)
    BY DEF Covers
  <2>1. b \in Bytes /\ b \in Nat /\ b >= a /\ b < a + n
    BY Sizes DEF NewBytes
  <2>2. b - a + 1 \in 1 .. n /\ a + (b - a + 1) - 1 = b
    BY <1>1, <2>1
  <2>3. QED
    BY <1>2, <1>3, <2>2
<1>6. QED
  BY <1>1, <1>2, <1>4, <1>5

-----------------------------------------------------------------------------
(* Every step is a step of Nor, but for those of an erase whose sum wraps. *)

NorStep == [Wraps \/ Promise!Next]_(Promise!vars)

\* Each byte of the call is left as it is or done.
Reaches(m) ==
    /\ m \in [Bytes -> {0, 1}]
    /\ \A b \in Bytes : m[b] = mem[b] \/ (b \in Promise!Span(req) /\ m[b] = Promise!Done(req, b))

LEMMA EndIsFinish ==
  ASSUME CallOK, pc # "idle", NEW m, mem' = m, Reaches(m),
         NEW a \in {"ok", "failed", "off"}, End(a),
         a = "ok" => \A b \in Promise!Span(req) : m[b] = Promise!Done(req, b)
  PROVE  IInv' /\ NorStep
<1>1. CallOK'
  BY DEF CallOK, End, Reaches
<1>2. Progress'
  BY DEF Progress, Writing, End
<1>3. Promise!Finish
  BY DEF CallOK, End, Reaches, Promise!Finish, Promise!Reach
<1>4. QED
  BY <1>1, <1>2, <1>3 DEF IInv, NorStep, Promise!Next

LEMMA StaysReaches ==
  ASSUME CallOK
  PROVE  Reaches(mem)
BY DEF Reaches, CallOK

LEMMA ProgramReaches ==
  ASSUME CallOK, Writing, NEW a, NEW image, NEW n \in Nat, index + n <= Length, Fits(a, image, n)
  PROVE  /\ Reaches(Programmed(a, image))
         /\ \A b \in NewBytes(n) : b \in Promise!Span(req) /\ Promise!Done(req, b) = mem[b] * Wish(b)
<1> DEFINE m == Programmed(a, image)
<1>1. mem \in [Bytes -> {0, 1}]
  BY DEF CallOK
<1>2. ASSUME NEW b \in NewBytes(n)
      PROVE  /\ b \in Promise!Span(req) /\ Promise!Done(req, b) = mem[b] * Wish(b)
             /\ mem[b] * Wish(b) \in {0, 1}
  <2>1. b \in Bytes /\ b \in Nat /\ b >= req.addr /\ b < req.addr + Length
    BY WriteFacts, Sizes DEF NewBytes
  <2>2. b \in Promise!Span(req)
    BY <2>1 DEF Promise!Span, Length
  <2>3. Promise!Done(req, b) = mem[b] * Wish(b)
    BY WriteFacts DEF Promise!Done, Wish
  <2>4. mem[b] * Wish(b) \in {0, 1}
    BY <1>1, <2>1, WriteFacts, Bits
  <2>5. QED
    BY <2>2, <2>3, <2>4
<1>3. /\ DOMAIN m = Bytes
      /\ \A b \in Bytes : m[b] = mem[b] \/ (b \in NewBytes(n) /\ m[b] = mem[b] * Wish(b))
  BY <1>1, ProgrammedIs
<1>4. m = [b \in Bytes |-> m[b]]
  BY DEF Programmed
<1> HIDE DEF m
<1>5. \A b \in Bytes : m[b] \in {0, 1}
  BY <1>1, <1>2, <1>3
<1>6. m \in [Bytes -> {0, 1}]
  BY <1>4, <1>5
<1>7. QED
  BY <1>2, <1>3, <1>6 DEF Reaches, m

LEMMA WriteStep ==
  ASSUME IInv, Writing, NEW a \in Nat, NEW image \in Seq({0, 1}), NEW n \in Nat,
         index + n <= Length, Fits(a, image, n), Covers(a, image, n),
         NEW next \in {"mid", "tail", "idle"},
         next = "tail" => Length - (index + n) < HW_FLASH_PAGE_SIZE,
         next = "idle" => index + n = Length,
         flashProgram(a, image, n, next)
  PROVE  IInv' /\ NorStep
<1>1. CallOK /\ Progress /\ pc # "idle" /\ mem \in [Bytes -> {0, 1}]
  BY DEF IInv, Writing, CallOK
<1> DEFINE m == Programmed(a, image)
<1>2. Reaches(m)
  BY <1>1, ProgramReaches
<1>3. /\ \A b \in Bytes : m[b] = mem[b] \/ (b \in NewBytes(n) /\ m[b] = mem[b] * Wish(b))
      /\ \A b \in NewBytes(n) : m[b] = mem[b] * Wish(b)
  BY <1>1, ProgrammedIs
<1>4. \A b \in NewBytes(n) : b \in Promise!Span(req) /\ Promise!Done(req, b) = mem[b] * Wish(b)
  BY <1>1, ProgramReaches
<1>5. /\ req.addr \in Nat /\ index \in Nat /\ Length \in Nat /\ ~req.erases /\ req # None
      /\ \A b \in Bytes : b \in Nat
  BY <1>1, WriteFacts, Sizes
\* What is written of the span would not change if it were written again.
<1>6. ASSUME NEW b \in Bytes, b >= req.addr, b < req.addr + (index + n)
      PROVE  m[b] = mem[b] * Wish(b) /\ m[b] * Wish(b) = m[b]
  <2>1. Wish(b) \in {0, 1} /\ mem[b] \in {0, 1}
    BY <1>1, <1>5, <1>6, WriteFacts
  <2>2. CASE b < req.addr + index
    <3>1. mem[b] * Wish(b) = mem[b]
      BY <1>1, <1>6, <2>2 DEF Progress
    <3>2. b \notin NewBytes(n)
      BY <1>5, <2>2 DEF NewBytes
    <3>3. QED
      BY <1>3, <3>1, <3>2
  <2>3. CASE b >= req.addr + index
    <3>1. b \in NewBytes(n)
      BY <1>5, <1>6, <2>3 DEF NewBytes
    <3>2. m[b] = mem[b] * Wish(b)
      BY <1>3, <3>1
    <3>3. QED
      BY <2>1, <3>2, Bits
  <2>4. QED
    BY <1>5, <2>2, <2>3
<1> HIDE DEF m
<1>7. CASE mem' = m /\ GoOn(n, next)
  <2>1. CASE index + n = Length
    <3>1. End("ok")
      BY <1>7, <2>1 DEF GoOn
    <3>2. \A b \in Promise!Span(req) : m[b] = Promise!Done(req, b)
      <4> SUFFICES ASSUME NEW b \in Promise!Span(req) PROVE m[b] = Promise!Done(req, b)
        OBVIOUS
      <4>1. b \in Bytes /\ b >= req.addr /\ b < req.addr + (index + n)
        BY <2>1 DEF Promise!Span, Length
      <4>2. Promise!Done(req, b) = mem[b] * Wish(b)
        BY <1>5 DEF Promise!Done, Wish
      <4>3. QED
        BY <1>6, <4>1, <4>2
    <3>3. QED
      BY <1>1, <1>2, <1>7, <3>1, <3>2, EndIsFinish
  <2>2. CASE index + n # Length
    <3>1. index' = index + n /\ pc' = next /\ UNCHANGED <<req, answer>> /\ next \in {"mid", "tail"}
      BY <1>7, <2>2 DEF GoOn
    <3>2. index' \in Nat /\ index' < Length /\ Length' = Length
      BY <1>5, <2>2, <3>1 DEF Length
    <3>3. CallOK'
      <4>1. mem' \in [Bytes -> {0, 1}]
        BY <1>2, <1>7 DEF Reaches
      <4>2. pc' \in {"mid", "tail"} /\ req' # None /\ req' \in Job /\ ~req'.erases
        BY <1>1, <1>5, <3>1, WriteFacts
      <4>3. HW_FLASH_USER_BEGIN <= req'.addr /\ req'.addr + Length' <= HW_FLASH_SIZE
        BY <1>1, <3>1, <3>2, WriteFacts
      <4>4. pc' = "tail" => Length' - index' < HW_FLASH_PAGE_SIZE
        BY <3>1, <3>2
      <4>5. QED
        BY <3>2, <4>1, <4>2, <4>3, <4>4 DEF CallOK
    <3>4. Progress'
      <4>1. \A b : Wish(b)' = Wish(b)
        BY <3>1 DEF Wish
      <4>2. QED
        BY <1>6, <1>7, <3>1, <4>1 DEF Progress
    <3>5. Promise!Step
      BY <1>2, <1>5, <1>7, <3>1 DEF Reaches, Promise!Step, Promise!Reach
    <3>6. QED
      BY <3>3, <3>4, <3>5 DEF IInv, NorStep, Promise!Next
  <2>3. QED
    BY <2>1, <2>2
<1>8. CASE Refused(3)
  BY <1>1, <1>8, StaysReaches, EndIsFinish DEF Refused
<1>9. ASSUME NEW k \in 0 .. Len(image), PowerOff(Programmed(a, SubSeq(image, 1, k)))
      PROVE  IInv' /\ NorStep
  <2>1. Reaches(Programmed(a, SubSeq(image, 1, k)))
    BY <1>1, PartFits, ProgramReaches
  <2>2. QED
    BY <1>1, <1>9, <2>1, EndIsFinish DEF PowerOff
<1>10. QED
  BY <1>7, <1>8, <1>9 DEF flashProgram, m

-----------------------------------------------------------------------------
(* The actions. *)

\* flashInRange means what it says as long as the sum does not wrap.
LEMMA InRange ==
  ASSUME NEW a \in Nat, NEW n \in Nat, flashInRange(a, n)
  PROVE  n # 0 /\ HW_FLASH_USER_BEGIN <= a /\ (a + n <= HW_FLASH_SIZE \/ a + n >= ADDR_MOD)
<1>1. ADDR_MOD \in Nat \ {0}
  BY FlashAssumption
<1>2. a + n < ADDR_MOD => (a + n) % ADDR_MOD = a + n
  BY <1>1
<1>3. CASE a + n < ADDR_MOD
  BY <1>2, <1>3, Sizes DEF flashInRange
<1>4. CASE a + n >= ADDR_MOD
  BY <1>4, Sizes DEF flashInRange
<1>5. QED
  BY <1>1, <1>3, <1>4

LEMMA SameCall ==
  ASSUME IInv, UNCHANGED <<mem, call>>
  PROVE  IInv'
<1>1. mem' = mem /\ req' = req /\ pc' = pc /\ index' = index
  BY DEF call
<1>2. CallOK'
  BY <1>1 DEF IInv, CallOK, Length, Aligned, Wraps
<1>3. Progress'
  BY <1>1 DEF IInv, Progress, Writing, Wish
<1>4. QED
  BY <1>2, <1>3 DEF IInv

LEMMA RefuseStep ==
  ASSUME IInv, pc = "idle", NEW s, Fail(s)
  PROVE  IInv' /\ NorStep
<1>1. IInv'
  BY SameCall DEF Fail
<1>2. Promise!Refuse
  BY DEF IInv, CallOK, Fail, call, Promise!Refuse
<1>3. QED
  BY <1>1, <1>2 DEF NorStep, Promise!Next

LEMMA StartStep ==
  ASSUME IInv, pc = "idle", NEW a \in Nat, NEW data \in Seq({0, 1}), NEW e \in BOOLEAN,
         e \/ a + Len(data) < ADDR_MOD, flashInRange(a, Len(data)), e => Aligned(a, Len(data)),
         req' = [addr |-> a, data |-> data, erases |-> e],
         pc' = IF e THEN "erase" ELSE "front", UNCHANGED <<mem, index, answer>>
  PROVE  IInv' /\ NorStep
<1>1. Len(data) \in Nat /\ index = 0 /\ req = None /\ mem' \in [Bytes -> {0, 1}] /\ index' = 0
  BY LenProperties DEF IInv, CallOK
<1>2. /\ Len(data) # 0 /\ HW_FLASH_USER_BEGIN <= a
      /\ a + Len(data) <= HW_FLASH_SIZE \/ (e /\ a + Len(data) >= ADDR_MOD)
  <2>1. ADDR_MOD \in Nat
    BY FlashAssumption
  <2>2. QED
    BY <1>1, <2>1, InRange
<1>3. /\ req' \in Job /\ req'.addr = a /\ req'.data = data /\ req'.erases = e
      /\ Length' = Len(data)
  BY DEF Job, Length
<1>4. req' # None
  BY <1>3, NoneAssumption DEF Job
<1>5. CallOK'
  <2>1. pc' \in {"erase", "front"} /\ (pc' = "erase" <=> e)
    OBVIOUS
  <2>2. Aligned(a, Len(data)) => Aligned(req.addr, Length)'
    BY <1>3 DEF Aligned
  <2>3. a + Len(data) >= ADDR_MOD => Wraps'
    BY <1>3, <1>4 DEF Wraps
  <2>4. QED
    BY <1>1, <1>2, <1>3, <1>4, <2>1, <2>2, <2>3 DEF CallOK
<1>6. Progress'
  <2>1. \A b \in Bytes : b \in Int
    BY Sizes
  <2>2. QED
    BY <1>1, <1>3, <2>1 DEF Progress
<1>7. Promise!Start
  BY <1>1, <1>4 DEF Promise!Start
<1>8. QED
  BY <1>5, <1>6, <1>7 DEF IInv, NorStep, Promise!Next

LEMMA EraseCall ==
  ASSUME IInv, NEW a \in Nat, NEW n \in Nat, flashErase(a, n)
  PROVE  IInv' /\ NorStep
<1>1. pc = "idle"
  BY DEF flashErase
<1>2. CASE \E s : Fail(s)
  BY <1>1, <1>2, RefuseStep
<1>3. CASE /\ Aligned(a, n) /\ flashInRange(a, n)
           /\ req' = [addr |-> a, data |-> [i \in 1 .. n |-> 1], erases |-> TRUE]
           /\ pc' = "erase" /\ UNCHANGED <<mem, index, err_step, answer>>
  <2> DEFINE data == [i \in 1 .. n |-> 1]
  <2>1. data \in [1 .. n -> {0, 1}]
    OBVIOUS
  <2>2. data \in Seq({0, 1}) /\ Len(data) = n
    BY <2>1, FunctionIsSeq
  <2> HIDE DEF data
  <2>3. req' = [addr |-> a, data |-> data, erases |-> TRUE]
    BY <1>3 DEF data
  <2>4. pc' = IF TRUE THEN "erase" ELSE "front"
    BY <1>3
  <2>5. QED
    BY <1>1, <1>3, <2>2, <2>3, <2>4, StartStep
<1>4. QED
  BY <1>2, <1>3 DEF flashErase

LEMMA WriteCall ==
  ASSUME IInv, NEW a \in Nat, NEW data \in Seq({0, 1}), NEW xip, a + Len(data) < ADDR_MOD,
         flashWrite(a, data, xip)
  PROVE  IInv' /\ NorStep
<1>1. pc = "idle"
  BY DEF flashWrite
<1>2. CASE Fail(1)
  BY <1>1, <1>2, RefuseStep
<1>3. CASE /\ flashInRange(a, Len(data))
           /\ req' = [addr |-> a, data |-> data, erases |-> FALSE]
           /\ pc' = "front" /\ UNCHANGED <<mem, index, err_step, answer>>
  <2>1. pc' = IF FALSE THEN "erase" ELSE "front"
    BY <1>3
  <2>2. QED
    BY <1>1, <1>3, <2>1, StartStep
<1>4. QED
  BY <1>2, <1>3 DEF flashWrite

\* What flash test asks for does not wrap.
LEMMA TestSum ==
  /\ HW_FLASH_TEST_BEGIN \in Nat /\ HW_FLASH_TEST_BEGIN + HW_FLASH_SECTOR_SIZE < ADDR_MOD
<1>1. /\ ADDR_MOD \in Nat /\ ADDR_MOD > HW_FLASH_SIZE
      /\ HW_FLASH_TEST_BEGIN \in HW_FLASH_USER_BEGIN .. HW_FLASH_SIZE - HW_FLASH_SECTOR_SIZE
  BY FlashAssumption
<1>2. QED
  BY <1>1, Sizes

LEMMA DataIsSeq ==
  ASSUME NEW p \in Patterns, NEW a \in Nat, NEW n \in Nat
  PROVE  DataAt(p, a, n) \in Seq({0, 1}) /\ Len(DataAt(p, a, n)) = n
<1>1. p \in [Bytes -> {0, 1}]
  BY FlashAssumption DEF Bytes
<1>2. \A i \in 1 .. n : Cell(a + i - 1) \in Bytes
  <2>1. \A i \in 1 .. n : a + i - 1 \in Nat
    OBVIOUS
  <2>2. QED
    BY <2>1, CellByte
<1>3. DataAt(p, a, n) \in [1 .. n -> {0, 1}]
  BY <1>1, <1>2 DEF DataAt
<1>4. QED
  BY <1>3, FunctionIsSeq

\* An erase reaches, and one of the whole span sets all of it.
LEMMA EraseReaches ==
  ASSUME CallOK, pc = "erase", ~Wraps, NEW n \in 0 .. Length, n % HW_FLASH_SECTOR_SIZE = 0
  PROVE  /\ Reaches(Erased(req.addr, n))
         /\ \A b \in Promise!Span(req) : Promise!Done(req, b) = 1
         /\ n = Length => \A b \in Promise!Span(req) : Erased(req.addr, n)[b] = 1
<1>1. /\ req.addr \in Nat /\ req.data \in Seq({0, 1}) /\ req.erases
      /\ req.addr + Length <= HW_FLASH_SIZE
      /\ req.addr % HW_FLASH_SECTOR_SIZE = 0 /\ mem \in [Bytes -> {0, 1}]
  BY DEF CallOK, Job, Aligned
<1>2. Length \in Nat
  BY <1>1, LenProperties DEF Length
<1>3. \A b \in Bytes : Erased(req.addr, n)[b] = IF req.addr <= b /\ b < req.addr + n THEN 1 ELSE mem[b]
  BY <1>1, <1>2, Sizes, EraseSpan
<1>4. \A b \in Promise!Span(req) : Promise!Done(req, b) = 1
  BY <1>1 DEF Promise!Done
<1> DEFINE m == Erased(req.addr, n)
<1>5. m = [b \in Bytes |-> m[b]]
  BY DEF Erased
<1> HIDE DEF m
<1>6. \A b \in Bytes : b \in Nat
  BY Sizes
<1>7. \A b \in Bytes : m[b] = mem[b] \/ (b \in Promise!Span(req) /\ m[b] = 1)
  BY <1>1, <1>2, <1>3, <1>6 DEF Promise!Span, Length, m
<1>8. m \in [Bytes -> {0, 1}]
  <2>1. \A b \in Bytes : m[b] \in {0, 1}
    BY <1>1, <1>7
  <2>2. QED
    BY <1>5, <2>1
<1>9. n = Length => \A b \in Promise!Span(req) : m[b] = 1
  BY <1>3, <1>6 DEF Promise!Span, Length, m
<1>10. QED
  BY <1>4, <1>7, <1>8, <1>9 DEF Reaches, m

\* Whatever an erase that wraps hits, the call ends and the flash holds bits.
LEMMA WrapStep ==
  ASSUME CallOK, Wraps, NEW n, mem' = Erased(req.addr, n), NEW a, End(a)
  PROVE  IInv' /\ NorStep
<1>1. mem' \in [Bytes -> {0, 1}]
  BY DEF CallOK, Erased
<1>2. CallOK' /\ Progress'
  BY <1>1 DEF CallOK, End, Progress, Writing
<1>3. QED
  BY <1>2 DEF IInv, NorStep

LEMMA EraseStep ==
  ASSUME IInv, flashDoErase
  PROVE  IInv' /\ NorStep
<1>1. CallOK /\ pc = "erase" /\ pc # "idle"
  BY DEF IInv, flashDoErase
<1>2. Length \in 0 .. Length /\ Length % HW_FLASH_SECTOR_SIZE = 0
  <2>1. req.data \in Seq({0, 1})
    BY <1>1 DEF CallOK, Job
  <2>2. Length \in Nat
    BY <2>1, LenProperties DEF Length
  <2>3. QED
    BY <1>1, <2>2 DEF CallOK, Aligned
<1>3. ASSUME NEW n \in 0 .. Length, n = Length \/ Wraps, mem' = Erased(req.addr, n), End("ok")
      PROVE  IInv' /\ NorStep
  <2>1. CASE Wraps
    BY <1>1, <1>3, <2>1, WrapStep
  <2>2. CASE ~Wraps
    BY <1>1, <1>2, <1>3, <2>2, EraseReaches, EndIsFinish
  <2>3. QED
    BY <2>1, <2>2
<1>4. CASE Refused(2)
  BY <1>1, <1>4, StaysReaches, EndIsFinish DEF Refused
<1>5. ASSUME NEW n \in 0 .. Length, n % HW_FLASH_SECTOR_SIZE = 0, PowerOff(Erased(req.addr, n))
      PROVE  IInv' /\ NorStep
  <2>1. CASE Wraps
    BY <1>1, <1>5, <2>1, WrapStep DEF PowerOff
  <2>2. CASE ~Wraps
    BY <1>1, <1>5, <2>2, EraseReaches, EndIsFinish DEF PowerOff
  <2>3. QED
    BY <2>1, <2>2
<1>6. QED
  BY <1>3, <1>4, <1>5 DEF flashDoErase

\* A part that is empty is passed over.
LEMMA SkipStep ==
  ASSUME IInv, Writing, NEW next \in {"mid", "tail"}, pc' = next,
         next = "tail" => Length - index < HW_FLASH_PAGE_SIZE,
         UNCHANGED <<mem, req, index, err_step, answer>>
  PROVE  IInv' /\ NorStep
<1>1. CallOK /\ Progress /\ Length' = Length
  BY DEF IInv, Length
<1>2. CallOK'
  BY <1>1, WriteFacts DEF CallOK
<1>3. Progress'
  BY <1>1 DEF Progress, Wish
<1>4. UNCHANGED Promise!vars
  BY DEF Promise!vars
<1>5. QED
  BY <1>2, <1>3, <1>4 DEF IInv, NorStep

LEMMA FrontStep ==
  ASSUME IInv, FrontPage
  PROVE  IInv' /\ NorStep
<1>1. CallOK /\ Writing /\ index = 0
  BY DEF IInv, FrontPage, Writing, CallOK
<1> DEFINE offset == req.addr % HW_FLASH_PAGE_SIZE
           n == AtMost(HW_FLASH_PAGE_SIZE - offset, Length)
<1>2. req.addr \in Nat /\ Length \in Nat /\ HW_FLASH_PAGE_SIZE \in Nat \ {0}
  BY <1>1, WriteFacts, Sizes
<1>3. offset \in 0 .. HW_FLASH_PAGE_SIZE - 1 /\ offset <= req.addr
  BY <1>2
<1> HIDE DEF offset
<1>4. n \in Nat /\ offset + n <= HW_FLASH_PAGE_SIZE /\ index + n <= Length
  BY <1>1, <1>2, <1>3 DEF AtMost
<1> HIDE DEF n
<1>5. CASE pc' = "mid" /\ UNCHANGED <<mem, req, index, err_step, answer, test>>
  BY <1>1, <1>5, SkipStep
<1>6. CASE flashProgram(req.addr - offset, PageImage(req.addr - offset, offset, n), n, "mid")
  <2>1. req.addr + index - offset = req.addr - offset /\ offset \in Nat /\ offset <= req.addr + index
    BY <1>1, <1>2, <1>3
  <2> DEFINE a == req.addr - offset
             image == PageImage(a, offset, n)
  <2>2. /\ a \in Nat /\ image \in Seq({0, 1})
        /\ Fits(a, image, n) /\ Covers(a, image, n)
    BY <1>1, <1>4, <2>1, PageFits
  <2> HIDE DEF a, image
  <2>3. flashProgram(a, image, n, "mid")
    BY <1>6 DEF a, image
  <2>4. QED
    BY <1>1, <1>4, <2>2, <2>3, WriteStep
<1>7. QED
  BY <1>5, <1>6 DEF FrontPage, offset, n

LEMMA MiddleStep ==
  ASSUME IInv, MiddlePages
  PROVE  IInv' /\ NorStep
<1>1. CallOK /\ Writing
  BY DEF IInv, MiddlePages, Writing
<1>2. index \in Nat /\ Length \in Nat /\ index < Length /\ HW_FLASH_PAGE_SIZE \in Nat \ {0}
  BY <1>1, WriteFacts, Sizes
<1> DEFINE rest == Length - index
<1>3. rest \in Nat /\ rest % HW_FLASH_PAGE_SIZE \in 0 .. HW_FLASH_PAGE_SIZE - 1
      /\ rest % HW_FLASH_PAGE_SIZE <= rest
  BY <1>2
<1>4. Middle = rest - (rest % HW_FLASH_PAGE_SIZE)
  BY DEF Middle
<1> HIDE DEF rest
<1>5. Middle \in Nat /\ Middle <= rest /\ rest - Middle < HW_FLASH_PAGE_SIZE
  BY <1>2, <1>3, <1>4
<1>6. index + Middle <= Length /\ Length - (index + Middle) < HW_FLASH_PAGE_SIZE
  BY <1>2, <1>5 DEF rest
<1>7. CASE Middle = 0 /\ pc' = "tail" /\ UNCHANGED <<mem, req, index, err_step, answer, test>>
  BY <1>1, <1>2, <1>6, <1>7, SkipStep
<1>8. CASE flashProgram(req.addr + index, SubSeq(req.data, index + 1, index + Middle), Middle, "tail")
  <2> DEFINE a == req.addr + index
             image == SubSeq(req.data, index + 1, index + Middle)
  <2>1. /\ a \in Nat /\ image \in Seq({0, 1})
        /\ Fits(a, image, Middle) /\ Covers(a, image, Middle)
    BY <1>1, <1>5, <1>6, PagesFit
  <2> HIDE DEF a, image
  <2>2. flashProgram(a, image, Middle, "tail")
    BY <1>8 DEF a, image
  <2>3. QED
    BY <1>1, <1>5, <1>6, <2>1, <2>2, WriteStep
<1>9. QED
  BY <1>7, <1>8 DEF MiddlePages

LEMMA TailStep ==
  ASSUME IInv, TailPage
  PROVE  IInv' /\ NorStep
<1>1. CallOK /\ Writing /\ Length - index < HW_FLASH_PAGE_SIZE
  BY DEF IInv, TailPage, Writing, CallOK
<1> DEFINE n == Length - index
           a == req.addr + index
           image == PageImage(a, 0, n)
<1>2. /\ req.addr \in Nat /\ index \in Nat /\ Length \in Nat /\ index < Length
      /\ HW_FLASH_PAGE_SIZE \in Nat
  BY <1>1, WriteFacts, Sizes
<1>3. n \in Nat /\ 0 + n <= HW_FLASH_PAGE_SIZE /\ index + n = Length /\ index + n <= Length
  BY <1>1, <1>2
<1>4. req.addr + index - 0 = a /\ 0 <= req.addr + index
  BY <1>2
<1>5. flashProgram(a, image, n, "idle")
  BY DEF TailPage
<1> HIDE DEF n
<1>6. /\ a \in Nat /\ image \in Seq({0, 1})
      /\ Fits(a, image, n) /\ Covers(a, image, n)
  BY <1>1, <1>3, <1>4, PageFits
<1> HIDE DEF a, image
<1>7. QED
  BY <1>1, <1>3, <1>5, <1>6, WriteStep

LEMMA NextKeeps ==
  ASSUME IInv, [Next]_vars
  PROVE  IInv' /\ NorStep
<1>1. CASE Callers
  <2>1. PICK a \in 0 .. MAX_ADDR, n \in 0 .. MAX_LEN :
            \/ flashErase(a, n)
            \/ a + n < ADDR_MOD /\ \E p \in Patterns, xip \in BOOLEAN : flashWrite(a, DataAt(p, a, n), xip)
    BY <1>1 DEF Callers
  <2>2. a \in Nat /\ n \in Nat
    BY FlashAssumption
  <2>3. CASE flashErase(a, n)
    BY <2>2, <2>3, EraseCall
  <2>4. ASSUME NEW p \in Patterns, NEW xip \in BOOLEAN, a + n < ADDR_MOD,
               flashWrite(a, DataAt(p, a, n), xip)
        PROVE  IInv' /\ NorStep
    BY <2>2, <2>4, DataIsSeq, WriteCall
  <2>5. QED
    BY <2>1, <2>3, <2>4
<1>2. CASE TestErase
  BY <1>2, Sizes, TestSum, EraseCall DEF TestErase
<1>3. CASE TestWrite
  <2>1. TestPattern \in Seq({0, 1}) /\ Len(TestPattern) = HW_FLASH_SECTOR_SIZE
    BY FlashAssumption
  <2>2. QED
    BY <1>3, <2>1, TestSum, WriteCall DEF TestWrite
<1>4. CASE TestEnd
  <2>1. UNCHANGED <<mem, call, answer>>
    BY <1>4 DEF TestEnd
  <2>2. UNCHANGED Promise!vars
    BY <2>1 DEF Promise!vars, call
  <2>3. QED
    BY <2>1, <2>2, SameCall DEF NorStep
<1>5. CASE flashDoErase
  BY <1>5, EraseStep
<1>6. CASE FrontPage
  BY <1>6, FrontStep
<1>7. CASE MiddlePages
  BY <1>7, MiddleStep
<1>8. CASE TailPage
  BY <1>8, TailStep
<1>9. CASE UNCHANGED vars
  BY <1>9, SameCall DEF vars, call, NorStep, Promise!vars
<1>10. QED
  BY <1>1, <1>2, <1>3, <1>4, <1>5, <1>6, <1>7, <1>8, <1>9 DEF Next

LEMMA InitIInv == Init => IInv
<1> SUFFICES ASSUME Init PROVE IInv
  OBVIOUS
<1>1. mem \in [Bytes -> {0, 1}]
  <2>1. \A b \in Bytes : Firmware(b) \in {0, 1}
    BY Sizes DEF Firmware
  <2>2. QED
    BY <2>1 DEF Init
<1>2. QED
  BY <1>1 DEF Init, IInv, CallOK, Progress, Writing

LEMMA SpecIInv == Spec => []IInv
<1>1. IInv /\ [Next]_vars => IInv'
  BY NextKeeps
<1>2. QED
  BY InitIInv, <1>1, PTL DEF Spec

-----------------------------------------------------------------------------
(* Theorems. *)

\* Unless the sum of the address and the length wraps, every step of flashErase and
\* flashWrite, cut short or refused or not, is one of a flash addressed byte by byte:
\* no byte outside of the span changes, all of it is done at the answer OK, and none
\* of it is left half way when the call fails.
THEOREM ImplementsNorHolds == Spec => ImplementsNor
<1>1. Init => Promise!Init
  <2>1. Init => mem \in [Bytes -> {0, 1}]
    BY InitIInv DEF IInv, CallOK
  <2>2. QED
    BY <2>1 DEF Init, Promise!Init
<1>2. IInv /\ [Next]_vars => [Wraps \/ Promise!Next]_(Promise!vars)
  BY NextKeeps DEF NorStep
<1>3. QED
  BY <1>1, <1>2, SpecIInv, PTL DEF Spec, ImplementsNor

\* flash.c:66: whatever a caller asks for, refused, cut short or done, no step changes
\* a byte of the firmware, but those of an erase whose sum wraps.
THEOREM OnlyWrapsHurtHolds == Spec => OnlyWrapsHurt
<1>1. ASSUME IInv, [Next]_vars, ~Wraps
      PROVE  \A b \in Bytes \ User : mem'[b] = mem[b]
  <2>1. NorStep
    BY <1>1, NextKeeps
  <2>2. ASSUME Promise!Reach, req # None, NEW b \in Bytes \ User
        PROVE  mem'[b] = mem[b]
    <3>1. HW_FLASH_USER_BEGIN <= req.addr /\ req.addr \in Nat
      BY <1>1, <2>2 DEF IInv, CallOK, Job
    <3>2. b \notin Promise!Span(req)
      BY <2>2, <3>1, Sizes, FlashAssumption DEF Promise!Span, User, Bytes
    <3>3. QED
      BY <2>2, <3>2 DEF Promise!Reach
  <2>3. QED
    BY <1>1, <2>1, <2>2 DEF NorStep, Promise!Next, Promise!vars, Promise!Start, Promise!Refuse,
                      Promise!Step, Promise!Finish
<1>2. IInv /\ [Next]_vars => [Wraps \/ \A b \in Bytes \ User : mem'[b] = mem[b]]_vars
  BY <1>1
<1>3. QED
  BY <1>2, SpecIInv, PTL DEF Spec, OnlyWrapsHurt

-----------------------------------------------------------------------------
(* flash test. *)

TestBytes == {b \in Bytes : b >= HW_FLASH_TEST_BEGIN /\ b < HW_FLASH_TEST_BEGIN + HW_FLASH_SECTOR_SIZE}

Pat(b) == TestPattern[b - HW_FLASH_TEST_BEGIN + 1]

\* Where the test is in a call it is the test's own call.  Between its calls, when
\* the last one did not fail, the sector is erased, and then holds the pattern; in
\* its write the pattern can still be had as long as the erase did not fail.
TestErased ==
    test.step = "erase" =>
        /\ pc \in {"idle", "erase"}
        /\ pc = "erase" => req.addr = HW_FLASH_TEST_BEGIN /\ Length = HW_FLASH_SECTOR_SIZE
        /\ pc = "idle" /\ answer # "failed" => \A b \in TestBytes : mem[b] = 1
TestWritten ==
    test.step = "write" =>
        /\ pc # "erase"
        /\ Writing => req.addr = HW_FLASH_TEST_BEGIN /\ req.data = TestPattern
        /\ Writing /\ ~test.failed => \A b \in TestBytes : mem[b] * Pat(b) = Pat(b)
        /\ pc = "idle" /\ ~Told => \A b \in TestBytes : mem[b] = Pat(b)

TestOK == TestErased /\ TestWritten

LEMMA TestFacts ==
  /\ HW_FLASH_TEST_BEGIN \in Nat /\ HW_FLASH_SECTOR_SIZE \in Nat
  /\ HW_FLASH_TEST_BEGIN + HW_FLASH_SECTOR_SIZE <= HW_FLASH_SIZE
  /\ TestPattern \in Seq({0, 1}) /\ Len(TestPattern) = HW_FLASH_SECTOR_SIZE
  /\ \A b \in TestBytes : b \in Bytes /\ b \in Nat /\ Pat(b) \in {0, 1}
<1>1. /\ HW_FLASH_TEST_BEGIN \in HW_FLASH_USER_BEGIN .. HW_FLASH_SIZE - HW_FLASH_SECTOR_SIZE
      /\ TestPattern \in Seq({0, 1}) /\ Len(TestPattern) = HW_FLASH_SECTOR_SIZE
  BY FlashAssumption
<1>2. /\ HW_FLASH_TEST_BEGIN \in Nat /\ HW_FLASH_SECTOR_SIZE \in Nat
      /\ HW_FLASH_TEST_BEGIN + HW_FLASH_SECTOR_SIZE <= HW_FLASH_SIZE
  BY <1>1, Sizes
<1>3. \A i \in 1 .. HW_FLASH_SECTOR_SIZE : TestPattern[i] \in {0, 1}
  BY <1>1, ElementOfSeq
<1>4. ASSUME NEW b \in TestBytes
      PROVE  b \in Bytes /\ b \in Nat /\ Pat(b) \in {0, 1}
  <2>1. b \in Bytes /\ b \in Nat
    BY Sizes DEF TestBytes
  <2>2. b - HW_FLASH_TEST_BEGIN + 1 \in 1 .. HW_FLASH_SECTOR_SIZE
    BY <1>2, <2>1 DEF TestBytes
  <2>3. QED
    BY <1>3, <2>1, <2>2 DEF Pat
<1>5. QED
  BY <1>1, <1>2, <1>4

\* The span of the test's calls is its sector.
LEMMA TestSpan ==
  ASSUME req.addr = HW_FLASH_TEST_BEGIN, Len(req.data) = HW_FLASH_SECTOR_SIZE
  PROVE  TestBytes = Promise!Span(req)
BY DEF TestBytes, Promise!Span

LEMMA NoTestOK ==
  ASSUME test' = NoTest
  PROVE  TestOK'
BY DEF NoTest, TestOK, TestErased, TestWritten

\* The steps of flashWrite: the power takes the test away, and no other step ends
\* a call in any way but these two.
LEMMA WriteAnswers ==
  ASSUME FrontPage \/ MiddlePages \/ TailPage
  PROVE  /\ Writing
         /\ \/ test' = NoTest
            \/ test' = test /\ (req' = req \/ answer' \in {"ok", "failed"})
<1>1. ASSUME NEW a, NEW image, NEW n, NEW next, flashProgram(a, image, n, next)
      PROVE  \/ test' = NoTest
             \/ test' = test /\ (req' = req \/ answer' \in {"ok", "failed"})
  BY <1>1 DEF flashProgram, GoOn, Refused, PowerOff, End
<1>2. CASE FrontPage
  BY <1>1, <1>2 DEF FrontPage, Writing
<1>3. CASE MiddlePages
  BY <1>1, <1>3 DEF MiddlePages, Writing
<1>4. CASE TailPage
  BY <1>1, <1>4 DEF TailPage, Writing
<1>5. QED
  BY <1>2, <1>3, <1>4

LEMMA WriteKeepsTest ==
  ASSUME IInv, IInv', TestOK, NorStep, FrontPage \/ MiddlePages \/ TailPage
  PROVE  TestOK'
<1>1. Writing /\ CallOK /\ CallOK' /\ req # None /\ ~req.erases
  BY WriteAnswers DEF IInv, CallOK, Writing
<1>2. CASE test' = NoTest
  BY <1>2, NoTestOK
<1>3. CASE test' = test /\ test.step = "write" /\ (req' = req \/ answer' \in {"ok", "failed"})
  <2>1. /\ req.addr = HW_FLASH_TEST_BEGIN /\ req.data = TestPattern
        /\ ~test.failed => \A b \in TestBytes : mem[b] * Pat(b) = Pat(b)
    BY <1>1, <1>3 DEF TestOK, TestWritten
  <2>2. /\ TestBytes = Promise!Span(req)
        /\ \A b \in TestBytes : Promise!Done(req, b) = mem[b] * Pat(b) /\ mem[b] \in {0, 1}
    BY <1>1, <2>1, TestSpan, TestFacts DEF Promise!Done, Pat, CallOK
  <2>3. CASE UNCHANGED Promise!vars \/ Promise!Step
    <3>1. req' = req
      BY <2>3 DEF Promise!vars, Promise!Step
    <3>2. Writing'
      BY <1>1, <3>1 DEF CallOK, Writing
    <3>3. \A b \in TestBytes : mem'[b] = mem[b] \/ mem'[b] = mem[b] * Pat(b)
      BY <2>2, <2>3, TestFacts DEF Promise!vars, Promise!Step, Promise!Reach
    <3>4. ~test.failed => \A b \in TestBytes : mem'[b] * Pat(b) = Pat(b)
      BY <2>1, <2>2, <3>3, TestFacts, Bits
    <3>5. QED
      BY <1>3, <2>1, <3>1, <3>2, <3>4
         DEF TestOK, TestErased, TestWritten, Writing, TestBytes, Pat
  <2>4. CASE Promise!Finish
    <3>1. req' = None /\ answer' \in {"ok", "failed"}
      BY <1>1, <1>3, <2>4 DEF Promise!Finish
    <3>2. pc' = "idle" /\ ~Writing'
      BY <1>1, <3>1 DEF CallOK, Writing
    <3>3. answer' = "ok" /\ ~test.failed => \A b \in TestBytes : mem'[b] = Pat(b)
      BY <2>1, <2>2, <2>4 DEF Promise!Finish
    <3>4. QED
      BY <1>3, <3>1, <3>2, <3>3 DEF TestOK, TestErased, TestWritten, Told, TestBytes, Pat
  <2>5. ~Wraps
    <3>1. ADDR_MOD > HW_FLASH_SIZE /\ ADDR_MOD \in Nat
      BY FlashAssumption
    <3>2. /\ req.addr + Length <= HW_FLASH_SIZE
          /\ req.addr \in Nat /\ Length \in Nat /\ HW_FLASH_SIZE \in Nat
      BY <1>1, WriteFacts, Sizes
    <3>3. QED
      BY <3>1, <3>2 DEF Wraps
  <2>6. QED
    BY <1>1, <2>3, <2>4, <2>5 DEF NorStep, Promise!Next, Promise!Start, Promise!Refuse
<1>4. CASE test' = test /\ test.step # "write"
  <2>1. test.step # "erase"
    BY <1>1 DEF TestOK, TestErased, Writing
  <2>2. QED
    BY <1>4, <2>1 DEF TestOK, TestErased, TestWritten
<1>5. QED
  BY <1>2, <1>3, <1>4, WriteAnswers

LEMMA EraseKeepsTest ==
  ASSUME IInv, TestOK, flashDoErase
  PROVE  TestOK'
<1>1. CallOK /\ pc = "erase" /\ test.step # "write"
  BY DEF IInv, flashDoErase, TestOK, TestWritten
<1>2. ASSUME NEW a, End(a), test' = test, test.step = "erase",
             a # "failed" => \A b \in TestBytes : mem'[b] = 1
      PROVE  TestOK'
  BY <1>2 DEF End, TestOK, TestErased, TestWritten, TestBytes
<1>3. ASSUME test' = test, test.step # "erase"
      PROVE  TestOK'
  BY <1>1, <1>3 DEF TestOK, TestErased, TestWritten
<1>4. ASSUME NEW n \in 0 .. Length, n = Length \/ Wraps, mem' = Erased(req.addr, n), End("ok"),
             UNCHANGED <<err_step, test>>
      PROVE  TestOK'
  <2>1. CASE test.step = "erase"
    <3>1. req.addr = HW_FLASH_TEST_BEGIN /\ Length = HW_FLASH_SECTOR_SIZE
      BY <1>1, <2>1 DEF TestOK, TestErased
    <3>2. TestBytes = Promise!Span(req) /\ ~Wraps
      BY <3>1, TestSpan, TestSum, TestFacts, FlashAssumption DEF Length, Wraps
    <3>3. Length \in 0 .. Length /\ Length % HW_FLASH_SECTOR_SIZE = 0
      BY <1>1, <3>1, TestFacts DEF CallOK, Aligned
    <3>4. \A b \in TestBytes : mem'[b] = 1
      BY <1>1, <1>4, <3>2, <3>3, EraseReaches
    <3>5. QED
      BY <1>2, <1>4, <2>1, <3>4
  <2>2. QED
    BY <1>3, <1>4, <2>1
<1>5. CASE Refused(2) /\ UNCHANGED test
  BY <1>2, <1>3, <1>5 DEF Refused
<1>6. ASSUME NEW m, PowerOff(m)
      PROVE  TestOK'
  BY <1>6, NoTestOK DEF PowerOff
<1>7. QED
  BY <1>4, <1>5, <1>6 DEF flashDoErase

LEMMA TestEraseOK ==
  ASSUME IInv, TestErase
  PROVE  TestOK'
<1>1. pc = "idle" /\ test'.step = "erase"
  BY DEF TestErase, flashErase
<1>2. CASE \E s : Fail(s)
  BY <1>1, <1>2 DEF Fail, call, TestOK, TestErased, TestWritten
<1>3. CASE /\ req' = [addr |-> HW_FLASH_TEST_BEGIN, data |-> [i \in 1 .. HW_FLASH_SECTOR_SIZE |-> 1],
                      erases |-> TRUE]
           /\ pc' = "erase"
  <2>1. [i \in 1 .. HW_FLASH_SECTOR_SIZE |-> 1] \in [1 .. HW_FLASH_SECTOR_SIZE -> {0, 1}]
    OBVIOUS
  <2>2. Len([i \in 1 .. HW_FLASH_SECTOR_SIZE |-> 1]) = HW_FLASH_SECTOR_SIZE
    BY <2>1, TestFacts, FunctionIsSeq
  <2>3. req'.addr = HW_FLASH_TEST_BEGIN /\ Length' = HW_FLASH_SECTOR_SIZE
    BY <1>3, <2>2 DEF Length
  <2>4. QED
    BY <1>1, <1>3, <2>3 DEF TestOK, TestErased, TestWritten
<1>4. QED
  BY <1>2, <1>3 DEF TestErase, flashErase

LEMMA TestWriteOK ==
  ASSUME IInv, TestOK, TestWrite
  PROVE  TestOK'
<1>1. pc = "idle" /\ test.step = "erase" /\ test' = [step |-> "write", failed |-> Told]
  BY DEF TestWrite, flashWrite
<1>2. CASE Fail(1)
  <2>1. pc' = "idle" /\ Told'
    BY <1>1, <1>2 DEF Fail, call, Told
  <2>2. QED
    BY <1>1, <2>1 DEF TestOK, TestErased, TestWritten, Writing
<1>3. CASE /\ req' = [addr |-> HW_FLASH_TEST_BEGIN, data |-> TestPattern, erases |-> FALSE]
           /\ pc' = "front" /\ UNCHANGED <<mem, index, err_step, answer>>
  <2>1. ~Told => \A b \in TestBytes : mem[b] * Pat(b) = Pat(b)
    <3> SUFFICES ASSUME ~Told, NEW b \in TestBytes
                 PROVE  mem[b] * Pat(b) = Pat(b)
      OBVIOUS
    <3>1. mem[b] = 1
      BY <1>1 DEF TestOK, TestErased, Told
    <3>2. QED
      BY <3>1, TestFacts, Bits
  <2>2. req'.addr = HW_FLASH_TEST_BEGIN /\ req'.data = TestPattern /\ test'.failed = Told
    BY <1>1, <1>3
  <2>3. QED
    BY <1>1, <1>3, <2>1, <2>2 DEF TestOK, TestErased, TestWritten, Writing, TestBytes, Pat
<1>4. QED
  BY <1>2, <1>3 DEF TestWrite, flashWrite

LEMMA NextKeepsTest ==
  ASSUME IInv, TestOK, [Next]_vars
  PROVE  TestOK'
<1>1. IInv' /\ NorStep
  BY NextKeeps
<1>2. CASE Callers
  BY <1>2, NoTestOK DEF Callers
<1>3. CASE TestErase
  BY <1>3, TestEraseOK
<1>4. CASE TestWrite
  BY <1>4, TestWriteOK
<1>5. CASE TestEnd
  BY <1>5, NoTestOK DEF TestEnd
<1>6. CASE flashDoErase
  BY <1>6, EraseKeepsTest
<1>7. CASE FrontPage \/ MiddlePages \/ TailPage
  BY <1>1, <1>7, WriteKeepsTest
<1>8. CASE UNCHANGED vars
  BY <1>8 DEF vars, call, TestOK, TestErased, TestWritten, Told, Writing, Length, TestBytes, Pat
<1>9. QED
  BY <1>2, <1>3, <1>4, <1>5, <1>6, <1>7, <1>8 DEF Next

LEMMA PatternIsRead ==
  ASSUME \A b \in TestBytes : mem[b] = Pat(b)
  PROVE  /\ Verified
         /\ flashRead(HW_FLASH_TEST_BEGIN, HW_FLASH_SECTOR_SIZE) = TestPattern
<1> DEFINE T == HW_FLASH_TEST_BEGIN
           S == HW_FLASH_SECTOR_SIZE
<1>1. T \in Nat /\ S \in Nat /\ S > 1 /\ T + S <= HW_FLASH_SIZE
  BY TestFacts, FlashAssumption
<1>2. ASSUME NEW i \in 1 .. S
      PROVE  mem[T + i - 1] = TestPattern[i]
  <2>1. T + i - 1 \in TestBytes
    BY <1>1, Sizes, CellSmall DEF TestBytes
  <2>2. (T + i - 1) - T + 1 = i
    BY <1>1
  <2>3. QED
    BY <2>1, <2>2 DEF Pat
<1>3. flashRead(T, S) = TestPattern
  <2>1. TestPattern = [i \in 1 .. S |-> TestPattern[i]]
    BY TestFacts, SeqDef
  <2>2. QED
    BY <1>2, <2>1 DEF flashRead
<1>4. Verified
  <2> DEFINE rd == flashRead(T, S - 1)
  <2>1. rd = [i \in 1 .. S - 1 |-> mem[T + i - 1]]
    BY DEF flashRead
  <2>2. ASSUME NEW i \in 1 .. S - 1
        PROVE  rd[i] = TestPattern[i]
    BY <1>1, <1>2, <2>1
  <2>3. Len(rd) = S - 1
    BY <1>1, <2>1
  <2>4. {1, Len(rd)} \subseteq 1 .. S - 1
    BY <1>1, <2>3
  <2> HIDE DEF rd
  <2>5. \A i \in {1, Len(rd)} : rd[i] = TestPattern[i]
    BY <2>2, <2>4
  <2>6. QED
    BY <2>5 DEF Verified, rd
<1>5. QED
  BY <1>3, <1>4

\* Whatever is refused and whenever the power goes, flash test never says OK and
\* has not printed a failure while a byte of its sector is not the pattern's.
THEOREM TestTellsHolds == Spec => []TestTells
<1>1. Init => TestOK
  BY DEF Init, NoTest, TestOK, TestErased, TestWritten
<1>2. IInv /\ TestOK /\ [Next]_vars => TestOK'
  BY NextKeepsTest
<1>3. TestOK => TestTells
  BY PatternIsRead DEF TestOK, TestWritten, TestTells
<1>4. QED
  BY <1>1, <1>2, <1>3, SpecIInv, PTL DEF Spec
===============================================================================
