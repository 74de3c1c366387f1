---------------------------- MODULE Eeprom_proofs ----------------------------
(***************************************************************************)
(* Proofs about Eeprom, for every number of profiles, every set of codes   *)
(* and every stretch of the keymap that QMK writes.                        *)
(*                                                                         *)
(* DirtyCovers is inductive once the address arithmetic is known: the      *)
(* sectors that kmDirty marks are those of all cells that were written.    *)
(* NoDeadProfile needs to know where live keys come from (Alive): while    *)
(* nothing has gone wrong, profile 0 is live from the start, no other      *)
(* profile is in use before all are filled, and what was filled is         *)
(* neither filled again nor lost at a restart.                             *)
(***************************************************************************)
EXTENDS Eeprom, TLAPS, FiniteSetTheorems

Live(image, p) == \A i \in 0 .. KM_SIZE - 1 : image[kmBase(p) + i] # Blank

Alive ==
    /\ ~turn_due => "profiles" \in eeprom_buf[0] /\ ~km_need_fill
    /\ ~hurt =>
          /\ refused = {} /\ Live(eeprom_buf, 0)
          /\ km_need_fill => "profiles" \notin eeprom_buf[0]
          /\ km_profile # 0 => "profiles" \in eeprom_buf[0] /\ ~km_need_fill

IInv == TypeOK /\ DirtyCovers /\ Alive /\ NoDeadProfile

-----------------------------------------------------------------------------
(* Addresses. *)

LEMMA Counts ==
  /\ EEPROM_PROFILE_MAX \in Nat /\ EEPROM_PROFILE_MAX >= 1
  /\ EE_SECTOR_SIZE = 2 /\ KM_SIZE = 2 /\ KM_BEGIN = 1
  /\ EE_CELLS = 2 * EEPROM_PROFILE_MAX + 2
  /\ EE_SECTOR_CNT = EEPROM_PROFILE_MAX + 1
  /\ Cells = 0 .. 2 * EEPROM_PROFILE_MAX + 1
  /\ Sectors = 0 .. EEPROM_PROFILE_MAX
  /\ Profiles = 0 .. EEPROM_PROFILE_MAX - 1
  /\ 0 \in Cells /\ 0 \in Profiles /\ 0 \in Sectors
<1>1. EEPROM_PROFILE_MAX \in Nat /\ EEPROM_PROFILE_MAX >= 1
  BY EepromAssumption
<1>2. EE_CELLS = 2 * EEPROM_PROFILE_MAX + 2
  BY <1>1 DEF EE_CELLS, KM_EXTRA, KM_SIZE
<1>3. EE_SECTOR_CNT = EEPROM_PROFILE_MAX + 1
  BY <1>1, <1>2 DEF EE_SECTOR_CNT, EE_SECTOR_SIZE
<1>4. QED
  BY <1>1, <1>2, <1>3 DEF EE_SECTOR_SIZE, KM_SIZE, KM_BEGIN, Cells, Sectors, Profiles

LEMMA SectorFacts ==
  ASSUME NEW c \in Cells
  PROVE  SectorOf(c) \in Sectors
BY Counts DEF SectorOf

\* The keymap of a profile lies within the image and past the magic words.
LEMMA BaseFacts ==
  ASSUME NEW p \in Profiles
  PROVE  /\ kmBase(p) \in Nat
         /\ \A i \in 0 .. KM_SIZE - 1 : kmBase(p) + i \in Cells \ {0}
         /\ kmBase(0) = KM_BEGIN
<1>1. kmBase(p) = IF p = 0 THEN 1 ELSE 2 * p + 2
  BY Counts DEF kmBase, KM_EXTRA, KM_BEGIN, KM_SIZE
<1>2. QED
  BY <1>1, Counts DEF kmBase

\* No two profiles share a cell.
LEMMA Apart ==
  ASSUME NEW p \in Profiles, NEW q \in Profiles, NEW i \in 0 .. KM_SIZE - 1,
         kmBase(p) + i \in kmBase(q) .. kmBase(q) + KM_SIZE - 1
  PROVE  p = q
<1>1. \A r \in Profiles : kmBase(r) = IF r = 0 THEN 1 ELSE 2 * r + 2
  BY Counts DEF kmBase, KM_EXTRA, KM_BEGIN, KM_SIZE
<1>2. kmBase(p) = (IF p = 0 THEN 1 ELSE 2 * p + 2) /\ kmBase(q) = IF q = 0 THEN 1 ELSE 2 * q + 2
  BY <1>1
<1>3. QED
  BY <1>2, Counts

\* kmDirty marks the sector of every cell of the stretch.
LEMMA DirtyAll ==
  ASSUME NEW off \in Nat, NEW len \in Nat \ {0}, NEW c \in off .. off + len - 1
  PROVE  SectorOf(c) \in kmDirty(off, len)
<1> DEFINE J == {j \in off .. off + len - 1 : (j - off) % 2 = 0}
<1>1. kmDirty(off, len) = {c2 \div 2 : c2 \in J} \cup {(off + len - 1) \div 2}
  BY DEF kmDirty, SectorOf, EE_SECTOR_SIZE
<1>2. CASE c \in J
  BY <1>1, <1>2 DEF SectorOf, EE_SECTOR_SIZE
<1>3. CASE c = off + len - 1
  BY <1>1, <1>3 DEF SectorOf, EE_SECTOR_SIZE
<1>4. CASE c \notin J /\ c # off + len - 1
  <2>1. (c - off) % 2 = 1 /\ c - 1 \in J /\ c + 1 \in J
    BY <1>4
  <2>2. c \div 2 = (c - 1) \div 2 \/ c \div 2 = (c + 1) \div 2
    OBVIOUS
  <2>3. QED
    BY <1>1, <2>1, <2>2 DEF SectorOf, EE_SECTOR_SIZE
<1>5. QED
  BY <1>2, <1>3, <1>4

\* The sectors it marks exist.
LEMMA DirtySectors ==
  ASSUME NEW off \in Nat, NEW len \in Nat \ {0}, off + len - 1 \in Cells
  PROVE  kmDirty(off, len) \subseteq Sectors
<1>1. \A j \in off .. off + len - 1 : j \in Cells
  BY Counts
<1>2. \A j \in off .. off + len - 1 : SectorOf(j) \in Sectors
  BY <1>1, SectorFacts
<1>3. off + len - 1 \in off .. off + len - 1
  OBVIOUS
<1>4. QED
  BY <1>2, <1>3 DEF kmDirty

\* Where an edit goes: a stretch of the keymap in use.
LEMMA EditPlace ==
  ASSUME NEW e \in Edits, km_profile \in Profiles
  PROVE  /\ e[1] \in Nat /\ e[2] \in Nat \ {0}
         /\ kmRemap(e[1], e[2]) \in Nat
         /\ kmBase(km_profile) <= kmRemap(e[1], e[2])
         /\ kmRemap(e[1], e[2]) + e[2] <= kmBase(km_profile) + KM_SIZE
<1>1. e[1] \in Nat /\ e[2] \in Nat \ {0} /\ KM_BEGIN <= e[1] /\ e[1] + e[2] <= KM_BEGIN + KM_SIZE
  BY EditsAssumption
<1>2. kmBase(km_profile) \in Nat /\ kmBase(0) = KM_BEGIN
  BY BaseFacts
<1>3. kmRemap(e[1], e[2]) = IF km_profile = 0 THEN e[1]
                            ELSE kmBase(km_profile) + (e[1] - KM_BEGIN)
  BY <1>1, Counts DEF kmRemap
<1>4. QED
  BY SMTT(30), <1>1, <1>2, <1>3, Counts

-----------------------------------------------------------------------------
(* Operations on images. *)

LEMMA KeymapAt ==
  ASSUME NEW image, NEW p, NEW i \in 0 .. KM_SIZE - 1
  PROVE  Keymap(image, p)[i] = image[kmBase(p) + i]
BY DEF Keymap

LEMMA KeymapSame ==
  ASSUME NEW f, NEW g, NEW p, \A i \in 0 .. KM_SIZE - 1 : f[kmBase(p) + i] = g[kmBase(p) + i]
  PROVE  Keymap(f, p) = Keymap(g, p)
BY DEF Keymap

\* What eepromProfileFillAll leaves.
LEMMA FilledIs ==
  ASSUME Image(eeprom_buf), km_profile \in Profiles
  PROVE  /\ Image(Filled(eeprom_buf))
         /\ Filled(eeprom_buf)[0] = eeprom_buf[0] \cup {"profiles"}
         /\ \A p \in Profiles, i \in 0 .. KM_SIZE - 1 :
               Filled(eeprom_buf)[kmBase(p) + i] = eeprom_buf[kmBase(km_profile) + i]
         /\ FillMarks(eeprom_buf) \subseteq Sectors
         /\ \A c \in Cells : Filled(eeprom_buf)[c] # eeprom_buf[c] =>
               SectorOf(c) \in FillMarks(eeprom_buf)
<1> DEFINE F == Filled(eeprom_buf)
           Own(c) == {p \in Profiles : c \in kmBase(p) .. kmBase(p) + KM_SIZE - 1}
           To(c) == CHOOSE p \in Own(c) : TRUE
<1>1. \A c \in Cells : F[c] = IF c = 0 THEN eeprom_buf[0] \cup {"profiles"}
                              ELSE IF Own(c) = {} THEN eeprom_buf[c]
                              ELSE eeprom_buf[kmBase(km_profile) + (c - kmBase(To(c)))]
  BY DEF Filled
<1>2. ASSUME NEW p \in Profiles, NEW i \in 0 .. KM_SIZE - 1
      PROVE  F[kmBase(p) + i] = eeprom_buf[kmBase(km_profile) + i]
  <2> DEFINE c == kmBase(p) + i
  <2>1. c \in Cells \ {0} /\ kmBase(p) \in Nat
    BY BaseFacts
  <2>2. c \in kmBase(p) .. kmBase(p) + KM_SIZE - 1
    BY <2>1, Counts
  <2>3. Own(c) = {p}
    <3>1. \A q \in Own(c) : q = p
      BY Apart
    <3>2. QED
      BY <2>2, <3>1
  <2>4. To(c) = p
    BY <2>3
  <2>5. c - kmBase(To(c)) = i
    <3>1. c - kmBase(p) = i
      BY <2>1, Counts
    <3> HIDE DEF To, c
    <3>2. QED
      BY <2>4, <3>1
  <2>6. QED
    BY <1>1, <2>1, <2>3, <2>5
<1>3. ASSUME NEW c \in Cells \ {0}
      PROVE  \/ F[c] = eeprom_buf[c]
             \/ \E p \in Profiles, i \in 0 .. KM_SIZE - 1 : c = kmBase(p) + i
  <2>1. CASE Own(c) = {}
    BY <1>1, <2>1
  <2>2. ASSUME NEW p \in Own(c)
        PROVE  \E i \in 0 .. KM_SIZE - 1 : c = kmBase(p) + i
    <3>1. kmBase(p) \in Nat /\ c \in Nat
      BY BaseFacts, Counts
    <3>2. c - kmBase(p) \in 0 .. KM_SIZE - 1 /\ c = kmBase(p) + (c - kmBase(p))
      BY <3>1, Counts
    <3>3. QED
      BY <3>2
  <2>3. QED
    BY <2>1, <2>2
<1>4. F[0] = eeprom_buf[0] \cup {"profiles"}
  BY <1>1, Counts
<1>5. \A c \in Cells \ {0} : F[c] \in Codes \cup {Blank}
  BY <1>2, <1>3, BaseFacts DEF Image
<1>6. F[0] \in Marks
  BY <1>4 DEF Image, Marks
<1>7. F = [c \in Cells |-> F[c]]
  BY DEF Filled
<1>8. FillMarks(eeprom_buf) \subseteq Sectors
  <2>1. kmDirty(0, 1) \subseteq Sectors
    BY DirtySectors, Counts
  <2>2. \A p \in Profiles : kmDirty(kmBase(p), KM_SIZE) \subseteq Sectors
    <3> TAKE p \in Profiles
    <3>1. kmBase(p) \in Nat /\ KM_SIZE \in Nat \ {0} /\ kmBase(p) + KM_SIZE - 1 \in Cells
      <4>1. kmBase(p) + 1 \in Cells /\ kmBase(p) \in Nat
        BY BaseFacts, Counts
      <4>2. QED
        BY <4>1, Counts
    <3>2. QED
      BY <3>1, DirtySectors
  <2>3. QED
    BY <2>1, <2>2 DEF FillMarks
<1>9. ASSUME NEW c \in Cells, F[c] # eeprom_buf[c]
      PROVE  SectorOf(c) \in FillMarks(eeprom_buf)
  <2>1. CASE c = 0
    <3>1. SectorOf(0) \in kmDirty(0, 1)
      BY DirtyAll
    <3>2. QED
      BY <2>1, <3>1 DEF FillMarks
  <2>2. CASE c # 0
    <3>1. PICK p \in Profiles, i \in 0 .. KM_SIZE - 1 : c = kmBase(p) + i
      BY <1>3, <1>9, <2>2
    <3>2. Keymap(eeprom_buf, p)[i] # Keymap(eeprom_buf, km_profile)[i]
      BY <1>2, <1>9, <3>1, KeymapAt
    <3>3. SectorOf(c) \in kmDirty(kmBase(p), KM_SIZE)
      <4>1. PICK b \in Nat : b = kmBase(p)
        BY BaseFacts
      <4>2. i \in {0, 1} /\ c = b + i /\ KM_SIZE = 2
        BY <3>1, <4>1, Counts
      <4>3. c \in b .. b + KM_SIZE - 1 /\ KM_SIZE \in Nat \ {0}
        BY <4>1, <4>2
      <4>4. QED
        BY <4>1, <4>3, DirtyAll
    <3>4. QED
      BY <3>2, <3>3 DEF FillMarks
  <2>3. QED
    BY <2>1, <2>2
<1> HIDE DEF F
<1>10. Image(F)
  <2>1. \A c \in Cells : F[c] \in Marks \cup Codes \cup {Blank}
    BY <1>5, <1>6
  <2>2. QED
    BY <1>5, <1>6, <1>7, <2>1 DEF Image
<1>11. QED
  BY <1>2, <1>4, <1>8, <1>9, <1>10 DEF F

\* A keymap copied into profile p goes there and nowhere else.
LEMMA WithKeymapIs ==
  ASSUME Image(eeprom_buf), NEW p \in Profiles, NEW q \in Profiles
  PROVE  LET g == WithKeymap(eeprom_buf, p, Keymap(eeprom_buf, q))
         IN  /\ Image(g) /\ g[0] = eeprom_buf[0]
             /\ Keymap(g, p) = Keymap(eeprom_buf, q)
             /\ \A r \in Profiles \ {p} : Keymap(g, r) = Keymap(eeprom_buf, r)
             /\ kmDirty(kmBase(p), KM_SIZE) \subseteq Sectors
             /\ \A c \in Cells : g[c] # eeprom_buf[c] =>
                   SectorOf(c) \in kmDirty(kmBase(p), KM_SIZE)
<1> DEFINE g == WithKeymap(eeprom_buf, p, Keymap(eeprom_buf, q))
           B == kmBase(p)
<1>1. B \in Nat /\ KM_SIZE = 2 /\ B + 1 \in Cells /\ B # 0
  <2>1. B + 0 \in Cells \ {0} /\ B + 1 \in Cells
    BY BaseFacts, Counts
  <2>2. QED
    BY <2>1, BaseFacts, Counts
<1>2. \A c \in Cells : g[c] = IF c \in B .. B + KM_SIZE - 1 THEN Keymap(eeprom_buf, q)[c - B]
                              ELSE eeprom_buf[c]
  BY DEF WithKeymap
<1>3. \A i \in 0 .. KM_SIZE - 1 : g[B + i] = eeprom_buf[kmBase(q) + i]
  <2> TAKE i \in 0 .. KM_SIZE - 1
  <2>1. B + i \in Cells /\ B + i \in B .. B + KM_SIZE - 1 /\ B + i - B = i
    BY <1>1, BaseFacts
  <2>2. g[B + i] = Keymap(eeprom_buf, q)[i]
    <3> HIDE DEF g, B
    <3>1. ASSUME NEW c \in Cells, c = B + i
          PROVE  g[c] = Keymap(eeprom_buf, q)[c - B]
      BY <1>2, <2>1, <3>1, Zenon
    <3>2. PICK c \in Cells : c = B + i
      BY <2>1
    <3>3. g[c] = Keymap(eeprom_buf, q)[c - B]
      BY <3>1, <3>2
    <3>4. c - B = i
      BY <1>1, <3>2
    <3>5. QED
      BY <3>2, <3>3, <3>4
  <2>3. QED
    BY <2>2, KeymapAt
<1>4. \A c \in Cells : c \notin B .. B + KM_SIZE - 1 => g[c] = eeprom_buf[c]
  BY <1>2
<1>5. \A c \in Cells : c \in B .. B + KM_SIZE - 1 => \E i \in 0 .. KM_SIZE - 1 : c = B + i
  <2> SUFFICES ASSUME NEW c \in Cells, c \in B .. B + KM_SIZE - 1
               PROVE  \E i \in 0 .. KM_SIZE - 1 : c = B + i
    OBVIOUS
  <2>1. c - B \in 0 .. KM_SIZE - 1 /\ c = B + (c - B)
    BY <1>1
  <2>2. QED
    BY <2>1
<1>6. \A r \in Profiles \ {p}, i \in 0 .. KM_SIZE - 1 : g[kmBase(r) + i] = eeprom_buf[kmBase(r) + i]
  <2> TAKE r \in Profiles \ {p}, i \in 0 .. KM_SIZE - 1
  <2>1. kmBase(r) + i \in Cells /\ kmBase(r) + i \notin B .. B + KM_SIZE - 1
    BY BaseFacts, Apart
  <2>2. QED
    BY <1>4, <2>1
<1>7. g[0] = eeprom_buf[0]
  <2>1. 0 \in Cells /\ 0 \notin B .. B + KM_SIZE - 1
    BY <1>1, Counts
  <2>2. QED
    BY <1>4, <2>1
<1>8. g = [c \in Cells |-> g[c]]
  BY DEF WithKeymap
<1>9. kmDirty(B, KM_SIZE) \subseteq Sectors
  <2>1. B + KM_SIZE - 1 \in Cells /\ KM_SIZE \in Nat \ {0}
    BY <1>1
  <2>2. QED
    BY <1>1, <2>1, DirtySectors
<1>10. \A c \in Cells : g[c] # eeprom_buf[c] => SectorOf(c) \in kmDirty(B, KM_SIZE)
  <2>1. KM_SIZE \in Nat \ {0}
    BY <1>1
  <2>2. QED
    BY <1>1, <1>4, <2>1, DirtyAll
<1> HIDE DEF g
<1>11. Image(g)
  <2>1. \A c \in Cells \ {0} : g[c] \in Codes \cup {Blank}
    BY <1>3, <1>4, <1>5, BaseFacts DEF Image
  <2>2. \A c \in Cells : g[c] \in Marks \cup Codes \cup {Blank}
    BY <1>7, <2>1 DEF Image
  <2>3. QED
    BY <1>7, <1>8, <2>1, <2>2 DEF Image
<1>12. Keymap(g, p) = Keymap(eeprom_buf, q)
  BY <1>3 DEF Keymap
<1>13. \A r \in Profiles \ {p} : Keymap(g, r) = Keymap(eeprom_buf, r)
  BY <1>6, KeymapSame
<1>14. QED
  BY <1>7, <1>9, <1>10, <1>11, <1>12, <1>13 DEF g

\* What an edit leaves: the keymap in use changed in places, to a code.
LEMMA EditIs ==
  ASSUME Image(eeprom_buf), km_profile \in Profiles, NEW e \in Edits, NEW v \in Codes
  PROVE  LET at == kmRemap(e[1], e[2])
             g  == [c \in Cells |-> IF c \in at .. at + e[2] - 1 THEN v ELSE eeprom_buf[c]]
         IN  /\ Image(g) /\ g[0] = eeprom_buf[0]
             /\ \A r \in Profiles \ {km_profile} : Keymap(g, r) = Keymap(eeprom_buf, r)
             /\ \A c \in Cells : g[c] = eeprom_buf[c] \/ g[c] = v
             /\ kmDirty(at, e[2]) \subseteq Sectors
             /\ \A c \in Cells : g[c] # eeprom_buf[c] => SectorOf(c) \in kmDirty(at, e[2])
<1> DEFINE at == kmRemap(e[1], e[2])
           n == e[2]
           g == [c \in Cells |-> IF c \in at .. at + n - 1 THEN v ELSE eeprom_buf[c]]
           B == kmBase(km_profile)
<1>1. at \in Nat /\ n \in Nat \ {0} /\ B <= at /\ at + n <= B + KM_SIZE
  BY EditPlace
<1>2. B \in Nat /\ KM_SIZE = 2 /\ B + 1 \in Cells /\ B # 0
  <2>1. B + 0 \in Cells \ {0} /\ B + 1 \in Cells
    BY BaseFacts, Counts
  <2>2. QED
    BY <2>1, BaseFacts, Counts
<1> HIDE DEF at, n, B
<1>3. \A c \in Cells : g[c] = eeprom_buf[c] \/ (g[c] = v /\ c \in at .. at + n - 1)
  OBVIOUS
<1>4. \A c \in at .. at + n - 1 : c \in B .. B + KM_SIZE - 1 /\ c # 0
  BY <1>1, <1>2
<1>5. g[0] = eeprom_buf[0]
  BY <1>3, <1>4, Counts
<1>6. \A r \in Profiles \ {km_profile}, i \in 0 .. KM_SIZE - 1 : g[kmBase(r) + i] = eeprom_buf[kmBase(r) + i]
  <2> TAKE r \in Profiles \ {km_profile}, i \in 0 .. KM_SIZE - 1
  <2>1. kmBase(r) + i \in Cells /\ kmBase(r) + i \notin B .. B + KM_SIZE - 1
    BY BaseFacts, Apart DEF B
  <2>2. QED
    BY <1>3, <1>4, <2>1
<1>7. \A r \in Profiles \ {km_profile} : Keymap(g, r) = Keymap(eeprom_buf, r)
  <2> HIDE DEF g
  <2>1. QED
    BY <1>6, KeymapSame
<1>8. kmDirty(at, n) \subseteq Sectors
  <2>1. at + n - 1 \in Cells
    BY <1>1, <1>2, Counts
  <2>2. QED
    BY <1>1, <2>1, DirtySectors
<1>9. \A c \in Cells : g[c] # eeprom_buf[c] => SectorOf(c) \in kmDirty(at, n)
  BY <1>1, <1>3, DirtyAll
<1>10. Image(g)
  <2>1. \A c \in Cells \ {0} : g[c] \in Codes \cup {Blank}
    BY <1>3 DEF Image
  <2>2. \A c \in Cells : g[c] \in Marks \cup Codes \cup {Blank}
    BY <1>5, <2>1 DEF Image
  <2>3. QED
    BY <1>5, <2>1, <2>2 DEF Image
<1>11. QED
  BY <1>3, <1>5, <1>7, <1>8, <1>9, <1>10 DEF at, n

\* eepromProfileEnsure with the sectors D that are dirty before it.
LEMMA EnsureIs ==
  ASSUME TypeOK, NEW D \in SUBSET Sectors, NEW q \in BOOLEAN, eepromProfileEnsure(D, q)
  PROVE  /\ Image(eeprom_buf') /\ D \subseteq dirty_mask' /\ dirty_mask' \subseteq Sectors
         /\ quiet' \in BOOLEAN
         /\ "profiles" \in eeprom_buf'[0] /\ ~km_need_fill' /\ km_need_fill' \in BOOLEAN
         /\ \A c \in Cells : eeprom_buf'[c] # eeprom_buf[c] => SectorOf(c) \in dirty_mask'
         /\ \/ eeprom_buf' = eeprom_buf /\ "profiles" \in eeprom_buf[0] /\ ~km_need_fill
            \/ \A p \in Profiles, i \in 0 .. KM_SIZE - 1 :
                  eeprom_buf'[kmBase(p) + i] = eeprom_buf[kmBase(km_profile) + i]
<1>1. Image(eeprom_buf) /\ km_profile \in Profiles /\ km_need_fill \in BOOLEAN
  BY DEF TypeOK
<1>2. CASE NeedsFill
  <2>1. /\ eeprom_buf' = Filled(eeprom_buf) /\ dirty_mask' = D \cup FillMarks(eeprom_buf)
        /\ quiet' = FALSE /\ km_need_fill' = FALSE
    BY <1>2 DEF eepromProfileEnsure
  <2>2. QED
    BY <1>1, <2>1, FilledIs
<1>3. CASE ~NeedsFill
  <2>1. UNCHANGED <<eeprom_buf, km_need_fill>> /\ dirty_mask' = D /\ quiet' = q
    BY <1>3 DEF eepromProfileEnsure
  <2>2. "profiles" \in eeprom_buf[0] /\ ~km_need_fill
    BY <1>3 DEF NeedsFill
  <2>3. QED
    BY <1>1, <2>1, <2>2
<1>4. QED
  BY <1>2, <1>3

\* What the sector s holds after each phase of writing it.
LEMMA PhaseIs ==
  ASSUME TypeOK, NEW s \in Sectors, NEW i \in DOMAIN FlushPhases(s)
  PROVE  LET f == FlushPhases(s)[i]
         IN  /\ Image(f)
             /\ \A c \in Cells \ CellsOf(s) : f[c] = flash[c]
             /\ \A c \in Cells \ {0} : f[c] \in {flash[c], eeprom_buf[c], Blank}
             /\ i = 1 => f = flash
             /\ i = 4 => \A c \in CellsOf(s) : f[c] = eeprom_buf[c]
<1> DEFINE With(n) == [c \in Cells |->
                      IF c \notin CellsOf(s) THEN flash[c]
                      ELSE IF c < s * EE_SECTOR_SIZE + n THEN eeprom_buf[c]
                      ELSE Erased[c]]
<1>1. FlushPhases(s) = <<flash, With(0), With(1), With(2)>>
  BY DEF FlushPhases
<1>2. i \in 1 .. 4
  BY <1>1
<1>3. FlushPhases(s)[1] = flash /\ \A n \in 0 .. 2 : FlushPhases(s)[n + 2] = With(n)
  BY <1>1
<1>4. Image(flash) /\ Image(eeprom_buf)
  BY DEF TypeOK
<1>5. \A c \in Cells : Erased[c] = IF c = 0 THEN {} ELSE Blank
  BY DEF Erased
<1>6. ASSUME NEW n \in 0 .. 2
      PROVE  /\ Image(With(n))
             /\ \A c \in Cells \ CellsOf(s) : With(n)[c] = flash[c]
             /\ \A c \in Cells \ {0} : With(n)[c] \in {flash[c], eeprom_buf[c], Blank}
             /\ n = 2 => \A c \in CellsOf(s) : With(n)[c] = eeprom_buf[c]
  <2>1. \A c \in Cells \ CellsOf(s) : With(n)[c] = flash[c]
    OBVIOUS
  <2>2. \A c \in Cells : With(n)[c] \in {flash[c], eeprom_buf[c], Erased[c]}
    OBVIOUS
  <2>3. \A c \in Cells \ {0} : With(n)[c] \in {flash[c], eeprom_buf[c], Blank}
    BY <1>5, <2>2
  <2>4. ASSUME n = 2, NEW c \in CellsOf(s)
        PROVE  With(n)[c] = eeprom_buf[c]
    <3>1. c \in Cells /\ c < s * EE_SECTOR_SIZE + n
      BY <2>4, Counts DEF CellsOf, SectorOf
    <3>2. QED
      BY <3>1
  <2>5. With(n) = [c \in Cells |-> With(n)[c]]
    OBVIOUS
  <2>6. With(n)[0] \in Marks
    BY <1>4, <1>5, <2>2, Counts DEF Image, Marks
  <2>7. \A c \in Cells \ {0} : With(n)[c] \in Codes \cup {Blank}
    BY <1>4, <2>3 DEF Image
  <2> HIDE DEF With
  <2>8. \A c \in Cells : With(n)[c] \in Marks \cup Codes \cup {Blank}
    BY <2>6, <2>7
  <2>9. Image(With(n))
    BY <2>5, <2>6, <2>7, <2>8 DEF Image
  <2>10. QED
    BY <2>1, <2>3, <2>4, <2>9
<1> HIDE DEF With
<1>7. CASE i = 1
  BY <1>3, <1>4, <1>7
<1>8. CASE i # 1
  <2>1. i - 2 \in 0 .. 2 /\ (i - 2) + 2 = i /\ (i = 4 => i - 2 = 2)
    BY <1>2, <1>8
  <2>2. FlushPhases(s)[i] = With(i - 2)
    BY <1>3, <2>1
  <2>3. QED
    BY <1>6, <1>8, <2>1, <2>2
<1>9. QED
  BY <1>7, <1>8

-----------------------------------------------------------------------------
(* Every set of naturals that is not empty has a least element.            *)
LEMMA LeastIs ==
  ASSUME NEW S, S \subseteq Nat, S # {}
  PROVE  Min(S) \in S
<1> DEFINE Below(x) == 0 .. x
           T == {Below(x) : x \in S}
<1>1. T # {} /\ T \subseteq FiniteSubsetsOf(Nat)
  <2>1. \A x \in S : Below(x) \subseteq Nat /\ IsFiniteSet(Below(x))
    BY FS_Interval
  <2>2. QED
    BY <2>1 DEF FiniteSubsetsOf
<1>2. PICK u \in T : \A v \in T : ~ (<<v, u>> \in StrictSubsetOrdering(Nat))
  <2> HIDE DEF T
  <2>1. QED
    BY <1>1, FS_StrictSubsetOrderingWellFounded, WFMin
<1>3. PICK m \in S : u = Below(m)
  OBVIOUS
<1>4. ASSUME NEW x \in S PROVE m <= x
  <2>1. ~(Below(x) \subseteq Below(m) /\ Below(x) # Below(m))
    <3>1. <<Below(x), Below(m)>> \notin StrictSubsetOrdering(Nat)
      BY <1>2, <1>3
    <3>2. Below(x) \in SUBSET Nat /\ Below(m) \in SUBSET Nat
      OBVIOUS
    <3> HIDE DEF Below
    <3>3. QED
      BY <3>1, <3>2 DEF StrictSubsetOrdering
  <2>2. CASE x < m
    <3>1. m \in Below(m) /\ m \notin Below(x) /\ \A y \in Below(x) : y \in Below(m)
      BY <2>2
    <3>2. QED
      BY <2>1, <3>1
  <2>3. QED
    BY <2>2
<1>5. QED
  BY <1>4 DEF Min

LEMMA LowestDirty ==
  ASSUME TypeOK, dirty_mask # {}
  PROVE  ctz(dirty_mask) \in dirty_mask /\ ctz(dirty_mask) \in Sectors
<1>1. dirty_mask \subseteq Sectors /\ dirty_mask \subseteq Nat
  BY Counts DEF TypeOK
<1>2. QED
  BY <1>1, LeastIs DEF ctz

-----------------------------------------------------------------------------
(* Every action, with the step of KeymapProfiles that it is. *)

StoreStep == [Store!Next]_(Store!vars)

\* Each key on disk becomes what QMK sees, or is erased on the way, or stays.
SavedTo(f) == \A c \in Cells \ {0} : f[c] \in {flash[c], eeprom_buf[c], Blank}

LEMMA KeymapsTyped ==
  ASSUME NEW f, Image(f)
  PROVE  [p \in Profiles |-> Keymap(f, p)] \in [Profiles -> [0 .. KM_SIZE - 1 -> Codes \cup {Blank}]]
<1>1. \A p \in Profiles, i \in 0 .. KM_SIZE - 1 : f[kmBase(p) + i] \in Codes \cup {Blank}
  BY BaseFacts DEF Image
<1>2. QED
  BY <1>1 DEF Keymap

LEMMA SavedIsSaved ==
  ASSUME SavedTo(flash')
  PROVE  Store!Saved([p \in Profiles |-> Keymap(flash, p)]')
<1>1. \A p \in Profiles, i \in 0 .. KM_SIZE - 1 :
          Keymap(flash, p)'[i] \in {Keymap(flash, p)[i], Keymap(eeprom_buf, p)[i], Blank}
  BY BaseFacts DEF Keymap, SavedTo, kmBase
<1>2. QED
  BY <1>1 DEF Store!Saved

\* A start from an image, which reads it or makes a new one.
LEMMA BootIs ==
  ASSUME NEW f, Image(f), SavedTo(f), NEW h \in BOOLEAN, Boot(f, h),
         ~h => /\ Live(f, 0)
               /\ "profiles" \in f[0] => \A p \in Profiles : Live(f, p)
  PROVE  IInv' /\ StoreStep
<1>1. flash' = f /\ km_profile' = 0 /\ turn_due' = TRUE /\ refused' = {}
  BY DEF Boot
<1>2. SavedTo(flash')
  BY <1>1
<1>3. CASE "eeconfig" \in f[0]
  <2>1. eeprom_buf' = f /\ dirty_mask' = {} /\ quiet' = FALSE /\ km_need_fill' = FALSE /\ hurt' = h
    BY <1>3 DEF Boot
  <2>2. TypeOK'
    BY <1>1, <2>1, Counts DEF TypeOK, Image
  <2>3. DirtyCovers'
    BY <1>1, <2>1 DEF DirtyCovers
  <2>4. Alive'
    BY <1>1, <2>1 DEF Alive, Live, kmBase
  <2>5. NoDeadProfile'
    BY <2>1 DEF NoDeadProfile, Live, Keymap, kmBase
  <2>6. Store!Restart
    <3>1. [p \in Profiles |-> Keymap(eeprom_buf, p)]' = [p \in Profiles |-> Keymap(flash, p)]'
      BY <1>1, <2>1
    <3>2. QED
      BY <1>1, <1>2, <3>1, SavedIsSaved DEF Store!Restart
  <2>7. QED
    BY <2>2, <2>3, <2>4, <2>5, <2>6 DEF IInv, StoreStep, Store!Next
<1>4. CASE "eeconfig" \notin f[0]
  <2> DEFINE g == [c \in Cells |->
                   IF c = 0 THEN {"eeconfig"}
                   ELSE IF c \in KM_BEGIN .. KM_BEGIN + KM_SIZE - 1 THEN Default
                   ELSE Blank]
  <2>1. eeprom_buf' = g /\ dirty_mask' = Sectors /\ quiet' = FALSE /\ km_need_fill' = TRUE /\ hurt' = FALSE
    BY <1>4 DEF Boot
  <2>2. g[0] = {"eeconfig"} /\ \A c \in Cells \ {0} : g[c] \in {Default, Blank}
    BY Counts
  <2>3. \A c \in Cells \ {0} : c \in KM_BEGIN .. KM_BEGIN + KM_SIZE - 1 => g[c] = Default
    OBVIOUS
  <2>4. \A c \in Cells \ {0} : c \notin KM_BEGIN .. KM_BEGIN + KM_SIZE - 1 => g[c] = Blank
    OBVIOUS
  <2>5. g = [c \in Cells |-> g[c]]
    OBVIOUS
  <2> HIDE DEF g
  <2>6. Image(g)
    <3>1. g[0] \in Marks /\ \A c \in Cells \ {0} : g[c] \in Codes \cup {Blank}
      BY <2>2, EepromAssumption DEF Marks
    <3>2. \A c \in Cells : g[c] \in Marks \cup Codes \cup {Blank}
      BY <3>1
    <3>3. QED
      BY <2>5, <3>1, <3>2 DEF Image
  <2>7. TypeOK'
    BY <1>1, <2>1, <2>6, Counts DEF TypeOK, Image
  <2>8. DirtyCovers'
    BY <2>1, SectorFacts DEF DirtyCovers, SectorOf
  <2>9. Live(g, 0)
    <3> SUFFICES ASSUME NEW i \in 0 .. KM_SIZE - 1
                 PROVE  g[kmBase(0) + i] # Blank
      BY DEF Live
    <3>1. kmBase(0) + i \in Cells \ {0} /\ kmBase(0) + i \in KM_BEGIN .. KM_BEGIN + KM_SIZE - 1
      BY Counts, BaseFacts DEF KM_BEGIN
    <3>2. QED
      BY <2>3, <3>1, EepromAssumption
  <2>10. Alive'
    BY <1>1, <2>1, <2>2, <2>9 DEF Alive, Live, kmBase
  <2>11. NoDeadProfile'
    BY <2>1 DEF NoDeadProfile
  <2>12. Store!Restart
    <3>1. ASSUME NEW p \in Profiles \ {0}, NEW i \in 0 .. KM_SIZE - 1
          PROVE  g[kmBase(p) + i] = Blank
      <4>1. kmBase(p) + i \in Cells \ {0}
        BY BaseFacts
      <4>2. kmBase(p) + i \notin kmBase(0) .. kmBase(0) + KM_SIZE - 1
        BY Apart, Counts
      <4>3. kmBase(0) = KM_BEGIN
        BY BaseFacts
      <4>4. QED
        BY <2>4, <4>1, <4>2, <4>3
    <3>2. \A p \in Profiles \ {0} : Keymap(g, p) = [i \in 0 .. KM_SIZE - 1 |-> Blank]
      BY <3>1 DEF Keymap
    <3>3. \A p \in Profiles \ {0} : [q \in Profiles |-> Keymap(eeprom_buf, q)]'[p] = Store!AllBlank[p]
      BY <2>1, <3>2 DEF Store!AllBlank
    <3>4. QED
      BY <1>1, <1>2, <3>3, SavedIsSaved DEF Store!Restart
  <2>13. QED
    BY <2>7, <2>8, <2>10, <2>11, <2>12 DEF IInv, StoreStep, Store!Next
<1>5. QED
  BY <1>3, <1>4

\* With no fault before, the image in flash is what QMK sees wherever it is clean.
LEMMA CleanIsSame ==
  ASSUME DirtyCovers, Alive, ~hurt, NEW c \in Cells, SectorOf(c) \notin dirty_mask
  PROVE  flash[c] = eeprom_buf[c]
BY DEF DirtyCovers, Alive

\* What a restart needs of the image when nothing has gone wrong.
LEMMA LiveImage ==
  ASSUME IInv, ~hurt, ~km_need_fill \/ "profiles" \notin eeprom_buf[0]
  PROVE  /\ Live(eeprom_buf, 0)
         /\ "profiles" \in eeprom_buf[0] => \A p \in Profiles : Live(eeprom_buf, p)
BY KeymapAt DEF IInv, Alive, NoDeadProfile, Live

\* A turn of qmkUpdate that saves the image f of the flash and fills what is to be
\* filled; it ends what is due.
LEMMA TurnIs ==
  ASSUME IInv, NEW D \in SUBSET Sectors, NEW q \in BOOLEAN, eepromProfileEnsure(D, q),
         NEW f, Image(f), SavedTo(f), flash' = f,
         \A c \in Cells : eeprom_buf[c] # f[c] => SectorOf(c) \in D \cup refused',
         refused' \subseteq Sectors, hurt' \in BOOLEAN, ~hurt' => ~hurt /\ refused' = {},
         turn_due' = FALSE, km_profile' = km_profile
  PROVE  IInv' /\ StoreStep
<1>1. /\ Image(eeprom_buf') /\ D \subseteq dirty_mask' /\ dirty_mask' \subseteq Sectors
      /\ quiet' \in BOOLEAN
      /\ "profiles" \in eeprom_buf'[0] /\ ~km_need_fill' /\ km_need_fill' \in BOOLEAN
      /\ \A c \in Cells : eeprom_buf'[c] # eeprom_buf[c] => SectorOf(c) \in dirty_mask'
      /\ \/ eeprom_buf' = eeprom_buf /\ "profiles" \in eeprom_buf[0] /\ ~km_need_fill
         \/ \A p \in Profiles, i \in 0 .. KM_SIZE - 1 :
               eeprom_buf'[kmBase(p) + i] = eeprom_buf[kmBase(km_profile) + i]
  BY EnsureIs DEF IInv
<1>2. km_profile \in Profiles /\ Image(eeprom_buf)
  BY DEF IInv, TypeOK
<1>3. TypeOK'
  BY <1>1, <1>2 DEF TypeOK, Image
<1>4. DirtyCovers'
  BY <1>1 DEF DirtyCovers, SectorOf
<1>5. ASSUME ~hurt'
      PROVE  \A p \in Profiles : Live(eeprom_buf', p)
  <2>1. CASE eeprom_buf' = eeprom_buf /\ "profiles" \in eeprom_buf[0] /\ ~km_need_fill
    BY <1>5, <2>1, LiveImage
  <2>2. CASE \A p \in Profiles, i \in 0 .. KM_SIZE - 1 :
                eeprom_buf'[kmBase(p) + i] = eeprom_buf[kmBase(km_profile) + i]
    <3>1. Live(eeprom_buf, km_profile)
      BY <1>2, <1>5, LiveImage DEF IInv, Alive
    <3>2. QED
      BY <2>2, <3>1 DEF Live
  <2>3. QED
    BY <1>1, <2>1, <2>2
<1>6. Alive'
  BY <1>1, <1>5, Counts DEF Alive, Live, kmBase
<1>7. NoDeadProfile'
  BY <1>5 DEF NoDeadProfile, Live, Keymap, kmBase
<1>8. Store!SaveAndFill
  <2>1. SavedTo(flash')
    OBVIOUS
  <2>2. \/ [p \in Profiles |-> Keymap(eeprom_buf, p)]' = [p \in Profiles |-> Keymap(eeprom_buf, p)]
        \/ [p \in Profiles |-> Keymap(eeprom_buf, p)]' = [p \in Profiles |-> Keymap(eeprom_buf, km_profile)]
    <3>1. CASE eeprom_buf' = eeprom_buf
      BY <3>1
    <3>2. CASE \A p \in Profiles, i \in 0 .. KM_SIZE - 1 :
                  eeprom_buf'[kmBase(p) + i] = eeprom_buf[kmBase(km_profile) + i]
      <4>1. \A p \in Profiles : Keymap(eeprom_buf, p)' = Keymap(eeprom_buf, km_profile)
        BY <3>2 DEF Keymap, kmBase
      <4>2. QED
        BY <4>1
    <3>3. QED
      BY <1>1, <3>1, <3>2
  <2>3. [p \in Profiles |-> [p2 \in Profiles |-> Keymap(eeprom_buf, p2)][km_profile]]
          = [p \in Profiles |-> Keymap(eeprom_buf, km_profile)]
    BY <1>2
  <2>4. QED
    BY <2>1, <2>2, <2>3, SavedIsSaved DEF Store!SaveAndFill
<1>9. QED
  BY <1>3, <1>4, <1>6, <1>7, <1>8 DEF IInv, StoreStep, Store!Next

LEMMA UpdateIdleStep ==
  ASSUME IInv, UpdateIdle
  PROVE  IInv' /\ StoreStep
<1>1. /\ eepromProfileEnsure(dirty_mask, quiet) /\ turn_due' = FALSE
      /\ flash' = flash /\ km_profile' = km_profile /\ refused' = refused /\ hurt' = hurt
  BY DEF UpdateIdle
<1>2. /\ dirty_mask \in SUBSET Sectors /\ quiet \in BOOLEAN /\ Image(flash)
      /\ refused \subseteq Sectors /\ hurt \in BOOLEAN
  BY DEF IInv, TypeOK
<1>3. SavedTo(flash)
  BY DEF SavedTo
<1>4. \A c \in Cells : eeprom_buf[c] # flash[c] => SectorOf(c) \in dirty_mask \cup refused
  BY DEF IInv, DirtyCovers
<1>5. ~hurt => refused = {}
  BY DEF IInv, Alive
<1>6. QED
  BY <1>1, <1>2, <1>3, <1>4, <1>5, TurnIs

LEMMA UpdateFlushStep ==
  ASSUME IInv, UpdateFlush
  PROVE  IInv' /\ StoreStep
<1> DEFINE s == ctz(dirty_mask)
           ph == FlushPhases(s)
<1>1. /\ dirty_mask \in SUBSET Sectors /\ refused \subseteq Sectors /\ hurt \in BOOLEAN
      /\ TypeOK /\ DirtyCovers
  BY DEF IInv, TypeOK
<1>2. s \in dirty_mask /\ s \in Sectors
  BY <1>1, LowestDirty DEF UpdateFlush
<1> HIDE DEF s
<1>3. \A i \in DOMAIN ph :
        /\ Image(ph[i]) /\ SavedTo(ph[i])
        /\ \A c \in Cells \ CellsOf(s) : ph[i][c] = flash[c]
        /\ i = 1 => ph[i] = flash
        /\ i = 4 => \A c \in CellsOf(s) : ph[i][c] = eeprom_buf[c]
  BY <1>1, <1>2, PhaseIs DEF SavedTo
<1> HIDE DEF ph
<1>4. PICK i \in DOMAIN ph :
           \/ /\ i \in {1, 2, 4} /\ (i = 4 \/ MayRefuse(s))
              /\ flash' = ph[i]
              /\ eepromProfileEnsure(LeftDirty(s, i = 4), FALSE)
              /\ refused' = IF i = 4 THEN refused \ {s} ELSE refused \cup {s}
              /\ hurt' = (hurt \/ i # 4)
              /\ turn_due' = FALSE
              /\ UNCHANGED km_profile
           \/ i < 4 /\ Boot(ph[i], TRUE)
  BY DEF UpdateFlush, s, ph
<1>5. CASE /\ i \in {1, 2, 4}
           /\ flash' = ph[i]
           /\ eepromProfileEnsure(LeftDirty(s, i = 4), FALSE)
           /\ refused' = IF i = 4 THEN refused \ {s} ELSE refused \cup {s}
           /\ hurt' = (hurt \/ i # 4)
           /\ turn_due' = FALSE
           /\ UNCHANGED km_profile
  <2>1. LeftDirty(s, i = 4) = dirty_mask \ {s}
    BY DEF LeftDirty
  <2>2. ASSUME NEW c \in Cells, eeprom_buf[c] # ph[i][c]
        PROVE  SectorOf(c) \in (dirty_mask \ {s}) \cup refused'
    <3>1. CASE c \in CellsOf(s)
      <4>1. i # 4 /\ SectorOf(c) = s
        BY <1>3, <2>2, <3>1 DEF CellsOf
      <4>2. QED
        BY <1>5, <4>1
    <3>2. CASE c \notin CellsOf(s)
      <4>1. ph[i][c] = flash[c] /\ SectorOf(c) # s
        BY <1>3, <3>2 DEF CellsOf
      <4>2. SectorOf(c) \in dirty_mask \cup refused
        BY <1>1, <2>2, <4>1 DEF DirtyCovers
      <4>3. QED
        BY <1>5, <4>1, <4>2
    <3>3. QED
      BY <3>1, <3>2
  <2>3. refused' \subseteq Sectors /\ hurt' \in BOOLEAN
    BY <1>1, <1>2, <1>5
  <2>4. ~hurt' => ~hurt /\ refused' = {}
    BY <1>5 DEF IInv, Alive
  <2>5. dirty_mask \ {s} \in SUBSET Sectors
    BY <1>1
  <2>6. QED
    BY <1>3, <1>5, <2>1, <2>2, <2>3, <2>4, <2>5, TurnIs
<1>6. CASE i < 4 /\ Boot(ph[i], TRUE)
  BY <1>3, <1>6, BootIs
<1>7. QED
  BY <1>4, <1>5, <1>6

LEMMA PowerCutStep ==
  ASSUME IInv, PowerCut
  PROVE  IInv' /\ StoreStep
<1>1. /\ Image(flash) /\ SavedTo(flash) /\ (hurt \/ dirty_mask # {}) \in BOOLEAN
      /\ Boot(flash, hurt \/ dirty_mask # {})
  BY DEF IInv, TypeOK, PowerCut, SavedTo
<1>2. ASSUME ~(hurt \/ dirty_mask # {})
      PROVE  /\ Live(flash, 0)
             /\ "profiles" \in flash[0] => \A p \in Profiles : Live(flash, p)
  <2>1. \A c \in Cells : flash[c] = eeprom_buf[c]
    BY <1>2, CleanIsSame DEF IInv
  <2>2. /\ Live(eeprom_buf, 0)
        /\ "profiles" \in eeprom_buf[0] => \A p \in Profiles : Live(eeprom_buf, p)
    BY <1>2, LiveImage DEF IInv, Alive
  <2>3. QED
    BY <2>1, <2>2, BaseFacts, Counts DEF Live
<1>3. QED
  BY <1>1, <1>2, BootIs

LEMMA ResetStep ==
  ASSUME IInv, NEW clear \in BOOLEAN, Reset(clear)
  PROVE  IInv' /\ StoreStep
<1> DEFINE buf == IF clear THEN [eeprom_buf EXCEPT ![0] = @ \ {"eeconfig"}] ELSE eeprom_buf
           f == [c \in Cells |->
                   IF SectorOf(c) \in dirty_mask \cup (IF clear THEN {0} ELSE {})
                   THEN buf[c] ELSE flash[c]]
<1>1. Image(flash) /\ Image(eeprom_buf) /\ hurt \in BOOLEAN /\ DirtyCovers /\ Alive
  BY DEF IInv, TypeOK
<1>2. ~turn_due /\ Boot(f, hurt)
  BY DEF Reset
<1>3. /\ buf[0] \in Marks /\ buf[0] \subseteq eeprom_buf[0]
      /\ \A c \in Cells \ {0} : buf[c] = eeprom_buf[c]
  BY <1>1, Counts DEF Image, Marks
<1>4. f = [c \in Cells |-> f[c]] /\ \A c \in Cells : f[c] \in {flash[c], buf[c]}
  OBVIOUS
<1>6. \A c \in Cells : SectorOf(c) \in dirty_mask => f[c] = buf[c]
  OBVIOUS
<1>7. \A c \in Cells : SectorOf(c) \notin dirty_mask => f[c] \in {flash[c], buf[c]}
  BY <1>4
<1> HIDE DEF buf, f
<1>8. SavedTo(f)
  BY <1>3, <1>4 DEF SavedTo
<1>9. Image(f)
  <2>1. f[0] \in Marks
    BY <1>1, <1>3, <1>4, Counts DEF Image
  <2>2. \A c \in Cells \ {0} : f[c] \in Codes \cup {Blank}
    BY <1>1, <1>8 DEF Image, SavedTo
  <2>3. \A c \in Cells : f[c] \in Marks \cup Codes \cup {Blank}
    BY <2>1, <2>2
  <2>4. QED
    BY <1>4, <2>1, <2>2, <2>3 DEF Image
<1>10. ASSUME ~hurt
       PROVE  /\ Live(f, 0)
              /\ "profiles" \in f[0] => \A p \in Profiles : Live(f, p)
  <2>1. \A c \in Cells : f[c] = eeprom_buf[c] \/ f[c] = buf[c]
    BY <1>1, <1>6, <1>7, <1>10, CleanIsSame
  <2>2. \A c \in Cells \ {0} : f[c] = eeprom_buf[c]
    BY <1>3, <2>1
  <2>3. Live(eeprom_buf, 0) /\ \A p \in Profiles : Live(eeprom_buf, p)
    BY <1>1, <1>2, <1>10, LiveImage DEF Alive
  <2>4. QED
    BY <2>2, <2>3, BaseFacts, Counts DEF Live
<1>11. QED
  BY <1>1, <1>2, <1>8, <1>9, <1>10, BootIs

\* A change of the image g between turns: it marks what it changes, leaves the
\* magic words alone, and no key is blank after it that the image had not blank.
LEMMA ChangeIs ==
  ASSUME IInv, ~turn_due, NEW g, eeprom_buf' = g, Image(g), g[0] = eeprom_buf[0],
         dirty_mask \subseteq dirty_mask', dirty_mask' \subseteq Sectors, quiet' \in BOOLEAN,
         \A c \in Cells : g[c] # eeprom_buf[c] => SectorOf(c) \in dirty_mask',
         (\A p \in Profiles : Live(eeprom_buf, p)) => \A p \in Profiles : Live(g, p),
         UNCHANGED <<flash, km_profile, km_need_fill, turn_due, refused, hurt>>
  PROVE  IInv'
<1>1. TypeOK'
  BY DEF IInv, TypeOK, Image
<1>2. DirtyCovers'
  BY DEF IInv, DirtyCovers, SectorOf
<1>3. "profiles" \in eeprom_buf[0] /\ ~km_need_fill
  BY DEF IInv, Alive
<1>4. ~hurt => \A p \in Profiles : Live(g, p)
  BY <1>3, LiveImage
<1>5. Alive'
  BY <1>3, <1>4, Counts DEF IInv, Alive, Live, kmBase
<1>6. NoDeadProfile'
  BY <1>4 DEF NoDeadProfile, Live, Keymap, kmBase
<1>7. QED
  BY <1>1, <1>2, <1>5, <1>6 DEF IInv

LEMMA EditStep ==
  ASSUME IInv, NEW e \in Edits, NEW v \in Codes, Edit(e[1], e[2], v)
  PROVE  IInv' /\ StoreStep
<1> DEFINE at == kmRemap(e[1], e[2])
           g  == [c \in Cells |-> IF c \in at .. at + e[2] - 1 THEN v ELSE eeprom_buf[c]]
<1>1. /\ Image(eeprom_buf) /\ Image(flash) /\ km_profile \in Profiles
      /\ dirty_mask \subseteq Sectors /\ quiet \in BOOLEAN
  BY DEF IInv, TypeOK
<1>2. /\ Image(g) /\ g[0] = eeprom_buf[0]
      /\ \A r \in Profiles \ {km_profile} : Keymap(g, r) = Keymap(eeprom_buf, r)
      /\ \A c \in Cells : g[c] = eeprom_buf[c] \/ g[c] = v
      /\ kmDirty(at, e[2]) \subseteq Sectors
      /\ \A c \in Cells : g[c] # eeprom_buf[c] => SectorOf(c) \in kmDirty(at, e[2])
  BY <1>1, EditIs
<1>3. /\ eeprom_buf' = g /\ Mark(IF g = eeprom_buf THEN {} ELSE kmDirty(at, e[2]))
      /\ ~turn_due /\ UNCHANGED <<flash, km_profile, km_need_fill, turn_due, refused, hurt>>
  BY DEF Edit, eeprom_write_block
<1> HIDE DEF at, g
<1>4. /\ dirty_mask \subseteq dirty_mask' /\ dirty_mask' \subseteq Sectors /\ quiet' \in BOOLEAN
      /\ \A c \in Cells : g[c] # eeprom_buf[c] => SectorOf(c) \in dirty_mask'
  BY <1>1, <1>2, <1>3 DEF Mark
<1>5. \A p \in Profiles : Live(eeprom_buf, p) => Live(g, p)
  BY <1>2, BaseFacts, EepromAssumption DEF Live
<1>6. IInv'
  BY <1>2, <1>3, <1>4, <1>5, ChangeIs
<1>7. Store!Edit
  <2>1. [p \in Profiles |-> Keymap(eeprom_buf, p)]' = [p \in Profiles |-> Keymap(g, p)]
    BY <1>3
  <2>2. [p \in Profiles |-> Keymap(g, p)] \in [Profiles -> Store!Keymaps]
    BY <1>2, KeymapsTyped DEF Store!Keymaps
  <2>3. [p \in Profiles |-> Keymap(flash, p)]' = [p \in Profiles |-> Keymap(flash, p)]
    BY <1>3
  <2>4. QED
    BY <1>2, <1>3, <2>1, <2>2, <2>3 DEF Store!Edit
<1>8. QED
  BY <1>6, <1>7 DEF StoreStep, Store!Next

LEMMA CopyToStep ==
  ASSUME IInv, NEW p \in Profiles, CopyTo(p)
  PROVE  IInv' /\ StoreStep
<1> DEFINE src == Keymap(eeprom_buf, km_profile)
           g == WithKeymap(eeprom_buf, p, src)
<1>1. /\ Image(eeprom_buf) /\ Image(flash) /\ km_profile \in Profiles
      /\ dirty_mask \subseteq Sectors /\ quiet \in BOOLEAN
  BY DEF IInv, TypeOK
<1>2. /\ Image(g) /\ g[0] = eeprom_buf[0]
      /\ Keymap(g, p) = src
      /\ \A r \in Profiles \ {p} : Keymap(g, r) = Keymap(eeprom_buf, r)
      /\ kmDirty(kmBase(p), KM_SIZE) \subseteq Sectors
      /\ \A c \in Cells : g[c] # eeprom_buf[c] => SectorOf(c) \in kmDirty(kmBase(p), KM_SIZE)
  BY <1>1, WithKeymapIs
<1>3. /\ ~turn_due /\ UNCHANGED <<flash, km_profile, km_need_fill, turn_due, refused, hurt>>
      /\ eepromProfileCopy(p)
  BY DEF CopyTo
<1>4. CASE Keymap(eeprom_buf, p) = src
  <2>1. UNCHANGED <<eeprom_buf, dirty_mask, quiet>>
    BY <1>3, <1>4 DEF eepromProfileCopy
  <2>2. \A c \in Cells : eeprom_buf[c] # eeprom_buf[c] => SectorOf(c) \in dirty_mask
    OBVIOUS
  <2>3. IInv'
    BY <1>1, <1>3, <2>1, <2>2, ChangeIs
  <2>4. UNCHANGED Store!vars
    BY <1>3, <2>1 DEF Store!vars
  <2>5. QED
    BY <2>3, <2>4 DEF StoreStep
<1>5. CASE Keymap(eeprom_buf, p) # src
  <2>1. eeprom_buf' = g /\ Mark(kmDirty(kmBase(p), KM_SIZE))
    BY <1>3, <1>5 DEF eepromProfileCopy
  <2> HIDE DEF g, src
  <2>2. /\ dirty_mask \subseteq dirty_mask' /\ dirty_mask' \subseteq Sectors /\ quiet' \in BOOLEAN
        /\ \A c \in Cells : g[c] # eeprom_buf[c] => SectorOf(c) \in dirty_mask'
    BY <1>1, <1>2, <2>1 DEF Mark
  <2>3. ASSUME \A r \in Profiles : Live(eeprom_buf, r), NEW r \in Profiles
        PROVE  Live(g, r)
    <3>1. \E q \in Profiles : Keymap(g, r) = Keymap(eeprom_buf, q)
      BY <1>1, <1>2 DEF src
    <3>2. QED
      BY <2>3, <3>1, KeymapAt DEF Live
  <2>4. IInv'
    BY <1>2, <1>3, <2>1, <2>2, <2>3, ChangeIs
  <2>5. Store!CopyTo(p)
    <3>1. [r \in Profiles |-> Keymap(eeprom_buf, r)]' = [r \in Profiles |-> Keymap(g, r)]
      BY <2>1
    <3>2. [r \in Profiles |-> Keymap(g, r)]
            = [[r \in Profiles |-> Keymap(eeprom_buf, r)] EXCEPT ![p] =
                 [r \in Profiles |-> Keymap(eeprom_buf, r)][km_profile]]
      BY <1>1, <1>2 DEF src
    <3>3. [r \in Profiles |-> Keymap(flash, r)]' = [r \in Profiles |-> Keymap(flash, r)]
      BY <1>3
    <3>4. QED
      BY <1>3, <3>1, <3>2, <3>3 DEF Store!CopyTo
  <2>6. QED
    BY <2>4, <2>5 DEF StoreStep, Store!Next
<1>6. QED
  BY <1>4, <1>5

LEMMA SetProfileStep ==
  ASSUME IInv, NEW p \in Profiles, SetProfile(p)
  PROVE  IInv' /\ StoreStep
<1>1. /\ ~turn_due /\ km_profile' = p
      /\ UNCHANGED <<eeprom_buf, flash, dirty_mask, quiet, km_need_fill, turn_due, refused, hurt>>
  BY DEF SetProfile
<1>2. TypeOK' /\ DirtyCovers' /\ Alive' /\ NoDeadProfile'
  <2>1. TypeOK'
    BY <1>1 DEF IInv, TypeOK, Image
  <2>2. DirtyCovers'
    BY <1>1 DEF IInv, DirtyCovers, SectorOf
  <2>3. Alive'
    BY <1>1 DEF IInv, Alive, Live, kmBase
  <2>4. NoDeadProfile'
    BY <1>1 DEF IInv, NoDeadProfile, Keymap, kmBase
  <2>5. QED
    BY <2>1, <2>2, <2>3, <2>4
<1>3. Store!Switch(p)
  BY <1>1 DEF Store!Switch
<1>4. QED
  BY <1>2, <1>3 DEF IInv, StoreStep, Store!Next

LEMMA CliFlushStep ==
  ASSUME IInv, CliFlush
  PROVE  IInv' /\ StoreStep
<1>1. PICK bad \in {{}, {ctz(dirty_mask)}} :
           /\ flash' = Flushed(eeprom_buf, bad)
           /\ refused' = (refused \ dirty_mask) \cup bad
           /\ hurt' = (hurt \/ bad # {})
  BY DEF CliFlush
<1>2. /\ dirty_mask # {} /\ dirty_mask' = {} /\ quiet' = FALSE
      /\ UNCHANGED <<eeprom_buf, km_profile, km_need_fill, turn_due>>
  BY DEF CliFlush
<1>3. /\ Image(eeprom_buf) /\ Image(flash) /\ hurt \in BOOLEAN /\ refused \subseteq Sectors
      /\ TypeOK /\ DirtyCovers /\ Alive /\ NoDeadProfile
  BY DEF IInv, TypeOK
<1>4. bad \subseteq Sectors /\ bad \subseteq dirty_mask
  BY <1>2, <1>3, LowestDirty
<1> DEFINE f == Flushed(eeprom_buf, bad)
<1>5. \A c \in Cells : f[c] = IF SectorOf(c) \notin dirty_mask \ bad THEN flash[c] ELSE eeprom_buf[c]
  BY DEF Flushed
<1>6. f = [c \in Cells |-> f[c]]
  BY DEF Flushed
<1> HIDE DEF f
<1>7. Image(f)
  <2>1. f[0] \in Marks /\ \A c \in Cells \ {0} : f[c] \in Codes \cup {Blank}
    BY <1>3, <1>5, Counts DEF Image
  <2>2. \A c \in Cells : f[c] \in Marks \cup Codes \cup {Blank}
    BY <2>1
  <2>3. QED
    BY <1>6, <2>1, <2>2 DEF Image
<1>8. flash' = f
  BY <1>1 DEF f
<1>9. TypeOK'
  BY <1>1, <1>2, <1>3, <1>4, <1>7, <1>8 DEF TypeOK, Image
<1>10. DirtyCovers'
  <2> SUFFICES ASSUME NEW c \in Cells, eeprom_buf[c] # f[c]
               PROVE  SectorOf(c) \in refused'
    BY <1>2, <1>8 DEF DirtyCovers, SectorOf
  <2>1. SectorOf(c) \notin dirty_mask \ bad /\ eeprom_buf[c] # flash[c]
    BY <1>5
  <2>2. SectorOf(c) \in dirty_mask \cup refused
    BY <1>3, <2>1 DEF DirtyCovers
  <2>3. QED
    BY <1>1, <2>1, <2>2
<1>11. Alive'
  BY <1>1, <1>2, <1>3 DEF Alive, Live, kmBase
<1>12. NoDeadProfile'
  BY <1>1, <1>2, <1>3 DEF NoDeadProfile, Keymap, kmBase
<1>13. Store!SaveAndFill
  <2>1. SavedTo(flash')
    BY <1>5, <1>8 DEF SavedTo
  <2>2. [p \in Profiles |-> Keymap(eeprom_buf, p)]' = [p \in Profiles |-> Keymap(eeprom_buf, p)]
    BY <1>2
  <2>3. QED
    BY <1>2, <2>1, <2>2, SavedIsSaved DEF Store!SaveAndFill
<1>14. QED
  BY <1>9, <1>10, <1>11, <1>12, <1>13 DEF IInv, StoreStep, Store!Next

LEMMA CliEraseStep ==
  ASSUME IInv, CliErase
  PROVE  IInv' /\ StoreStep
<1>1. /\ eeprom_buf' = Erased /\ flash' = Erased /\ dirty_mask' = {} /\ quiet' = FALSE
      /\ km_need_fill' = TRUE /\ turn_due' = TRUE /\ refused' = {} /\ hurt' = TRUE
      /\ km_profile' = km_profile
  BY DEF CliErase
<1>2. Erased[0] = {} /\ \A c \in Cells \ {0} : Erased[c] = Blank
  BY Counts DEF Erased
<1>3. Image(Erased)
  <2>1. Erased = [c \in Cells |-> Erased[c]]
    BY DEF Erased
  <2>2. \A c \in Cells : Erased[c] \in Marks \cup Codes \cup {Blank}
    BY <1>2 DEF Marks
  <2>3. QED
    BY <1>2, <2>1, <2>2 DEF Image, Marks
<1>4. TypeOK'
  BY <1>1, <1>3 DEF IInv, TypeOK, Image
<1>5. DirtyCovers' /\ Alive' /\ NoDeadProfile'
  BY <1>1 DEF DirtyCovers, Alive, NoDeadProfile
<1>6. Store!Erase
  <2>1. [p \in Profiles |-> Keymap(Erased, p)] = Store!AllBlank
    BY <1>2, BaseFacts DEF Keymap, Store!AllBlank
  <2>2. [p \in Profiles |-> Keymap(eeprom_buf, p)]' = Store!AllBlank
    BY <1>1, <2>1
  <2>3. [p \in Profiles |-> Keymap(flash, p)]' = Store!AllBlank
    BY <1>1, <2>1
  <2>4. \A p \in Profiles, i \in 0 .. KM_SIZE - 1 : Store!AllBlank[p][i] = Blank
    BY DEF Store!AllBlank
  <2>5. QED
    BY <1>1, <2>2, <2>3, <2>4 DEF Store!Erase
<1>7. QED
  BY <1>4, <1>5, <1>6 DEF IInv, StoreStep, Store!Next

LEMMA NextKeeps ==
  ASSUME IInv, [Next]_vars
  PROVE  IInv' /\ StoreStep
<1>1. ASSUME UNCHANGED <<eeprom_buf, flash, dirty_mask, km_profile, km_need_fill,
                         turn_due, refused, hurt>>, quiet' \in BOOLEAN
      PROVE  IInv' /\ StoreStep
  <2>1. IInv'
    BY <1>1 DEF IInv, TypeOK, Image, DirtyCovers, Alive, NoDeadProfile, Live, SectorOf, Keymap, kmBase
  <2>2. UNCHANGED Store!vars
    BY <1>1 DEF Store!vars
  <2>3. QED
    BY <2>1, <2>2 DEF StoreStep
<1>2. CASE Tick
  BY <1>1, <1>2 DEF Tick
<1>3. CASE UpdateIdle
  BY <1>3, UpdateIdleStep
<1>4. CASE UpdateFlush
  BY <1>4, UpdateFlushStep
<1>5. ASSUME NEW e \in Edits, NEW v \in Codes, Edit(e[1], e[2], v)
      PROVE  IInv' /\ StoreStep
  BY <1>5, EditStep
<1>6. ASSUME NEW p \in Profiles, CopyTo(p) \/ SetProfile(p)
      PROVE  IInv' /\ StoreStep
  BY <1>6, CopyToStep, SetProfileStep
<1>7. CASE CliFlush
  BY <1>7, CliFlushStep
<1>8. CASE CliErase
  BY <1>8, CliEraseStep
<1>9. ASSUME NEW clear \in BOOLEAN, Reset(clear)
      PROVE  IInv' /\ StoreStep
  BY <1>9, ResetStep
<1>10. CASE PowerCut
  BY <1>10, PowerCutStep
<1>11. CASE UNCHANGED vars
  BY <1>1, <1>11 DEF vars, IInv, TypeOK
<1>12. QED
  BY <1>2, <1>3, <1>4, <1>5, <1>6, <1>7, <1>8, <1>9, <1>10, <1>11 DEF Next

LEMMA InitIs == Init => IInv /\ Store!Init
<1> SUFFICES ASSUME Init PROVE IInv /\ Store!Init
  OBVIOUS
<1> DEFINE g == [c \in Cells |->
                   IF c = 0 THEN {"eeconfig"}
                   ELSE IF c \in KM_BEGIN .. KM_BEGIN + KM_SIZE - 1 THEN Default
                   ELSE Blank]
<1>1. /\ flash = Erased /\ eeprom_buf = g /\ dirty_mask = Sectors /\ quiet = FALSE
      /\ km_profile = 0 /\ km_need_fill = TRUE /\ turn_due = TRUE /\ refused = {} /\ hurt = FALSE
  BY DEF Init
<1>2. g[0] = {"eeconfig"} /\ \A c \in Cells \ {0} : g[c] \in {Default, Blank}
  BY Counts
<1>3. \A c \in Cells \ {0} : c \in KM_BEGIN .. KM_BEGIN + KM_SIZE - 1 => g[c] = Default
  OBVIOUS
<1>4. g = [c \in Cells |-> g[c]]
  OBVIOUS
<1> HIDE DEF g
<1>5. Image(g)
  <2>1. g[0] \in Marks /\ \A c \in Cells \ {0} : g[c] \in Codes \cup {Blank}
    BY <1>2, EepromAssumption DEF Marks
  <2>2. \A c \in Cells : g[c] \in Marks \cup Codes \cup {Blank}
    BY <2>1
  <2>3. QED
    BY <1>4, <2>1, <2>2 DEF Image
<1>6. Erased[0] = {} /\ \A c \in Cells \ {0} : Erased[c] = Blank
  BY Counts DEF Erased
<1>7. Image(Erased)
  <2>1. Erased = [c \in Cells |-> Erased[c]]
    BY DEF Erased
  <2>2. \A c \in Cells : Erased[c] \in Marks \cup Codes \cup {Blank}
    BY <1>6 DEF Marks
  <2>3. QED
    BY <1>6, <2>1, <2>2 DEF Image, Marks
<1>8. TypeOK
  BY <1>1, <1>5, <1>7, Counts DEF TypeOK
<1>9. DirtyCovers
  BY <1>1, SectorFacts DEF DirtyCovers
<1>10. Live(g, 0)
  <2> SUFFICES ASSUME NEW i \in 0 .. KM_SIZE - 1
               PROVE  g[kmBase(0) + i] # Blank
    BY DEF Live
  <2>1. kmBase(0) + i \in Cells \ {0} /\ kmBase(0) + i \in KM_BEGIN .. KM_BEGIN + KM_SIZE - 1
    BY Counts, BaseFacts DEF KM_BEGIN
  <2>2. QED
    BY <1>3, <2>1, EepromAssumption
<1>11. Alive /\ NoDeadProfile
  BY <1>1, <1>2, <1>10 DEF Alive, NoDeadProfile
<1>12. Store!Init
  <2>1. [p \in Profiles |-> Keymap(eeprom_buf, p)] \in [Profiles -> Store!Keymaps]
    BY <1>1, <1>5, KeymapsTyped DEF Store!Keymaps
  <2>2. [p \in Profiles |-> Keymap(flash, p)] = Store!AllBlank
    BY <1>1, <1>6, BaseFacts DEF Keymap, Store!AllBlank
  <2>3. QED
    BY <1>1, <2>1, <2>2 DEF Store!Init
<1>13. QED
  BY <1>8, <1>9, <1>11, <1>12 DEF IInv

LEMMA Invariance == Spec => []IInv
<1>1. IInv /\ [Next]_vars => IInv'
  BY NextKeeps
<1>2. QED
  BY InitIs, <1>1, PTL DEF Spec

-----------------------------------------------------------------------------
(* Theorems. *)

\* Nothing QMK was told is forgotten: a cell that the flash does not have lies in
\* a sector that will be written, or in one the flash refused, whatever stretch
\* was written and in whichever profile.
THEOREM DirtyCoversHolds == Spec => []DirtyCovers
<1>1. IInv => DirtyCovers
  BY DEF IInv
<1>2. QED
  BY <1>1, Invariance, PTL

\* No change of the keyboard brings up a keymap that was never filled, through
\* resets and power cuts, unless the flash refused or lost the power in a fill.
THEOREM NoDeadProfileHolds == Spec => []NoDeadProfile
<1>1. IInv => NoDeadProfile
  BY DEF IInv
<1>2. QED
  BY <1>1, Invariance, PTL

\* eeprom.c keeps one keymap per profile: every operation of it, and every way in
\* which it can be cut short, is one of KeymapProfiles.
THEOREM KeepsProfilesApartHolds == Spec => KeepsProfilesApart
<1>1. Init => Store!Init
  BY InitIs
<1>2. IInv /\ [Next]_vars => [Store!Next]_(Store!vars)
  BY NextKeeps DEF StoreStep
<1>3. QED
  BY <1>1, <1>2, Invariance, PTL DEF Spec, KeepsProfilesApart, Store!Spec
=============================================================================
