------------------------------ MODULE FlashDriver ------------------------------
(***************************************************************************)
(* The flash driver: hw/driver/flash.c.                                    *)
(*                                                                         *)
(* The chip erases whole sectors and programs whole pages, and programming *)
(* can only clear bits.  flashWrite takes any address and length: it makes *)
(* the pages at both ends up from what they hold, and programs the pages   *)
(* between in one go.  Each program and each erase is a call of            *)
(* flash_safe_execute, which may be refused; the power may go in the       *)
(* middle of one, between two pages or two sectors.                        *)
(*                                                                         *)
(* One bit stands for a byte: 1 is erased.  Addresses are uint32_t, kept   *)
(* here modulo ADDR_MOD; the chip looks at the low bits alone, so that     *)
(* they count modulo FLASH_SIZE there.                                     *)
(*                                                                         *)
(* Operators that start with m_ are faulty variants of the operator that   *)
(* follows; the specification never uses them.                             *)
(***************************************************************************)
EXTENDS Integers, Sequences

CONSTANTS HW_FLASH_PAGE_SIZE, HW_FLASH_SECTOR_SIZE, HW_FLASH_SIZE,
          HW_FLASH_USER_BEGIN,  \* what is below is the firmware
          HW_FLASH_TEST_BEGIN,  \* the sector of the command flash test
          TestPattern,          \* what it writes there
          ADDR_MOD,             \* 2^32
          MAX_ADDR, MAX_LEN,    \* bounds: what callers ask for
          Patterns,             \* the data they write, byte by address
          None

ASSUME FlashAssumption ==
    /\ {HW_FLASH_PAGE_SIZE, HW_FLASH_SECTOR_SIZE, HW_FLASH_SIZE} \subseteq Nat \ {0}
    /\ HW_FLASH_SECTOR_SIZE % HW_FLASH_PAGE_SIZE = 0
    /\ HW_FLASH_SIZE % HW_FLASH_SECTOR_SIZE = 0 /\ HW_FLASH_SECTOR_SIZE > 1
    /\ HW_FLASH_USER_BEGIN \in 0 .. HW_FLASH_SIZE
    /\ HW_FLASH_USER_BEGIN % HW_FLASH_SECTOR_SIZE = 0
    /\ HW_FLASH_TEST_BEGIN \in HW_FLASH_USER_BEGIN .. HW_FLASH_SIZE - HW_FLASH_SECTOR_SIZE
    /\ HW_FLASH_TEST_BEGIN % HW_FLASH_SECTOR_SIZE = 0
    /\ TestPattern \in Seq({0, 1}) /\ Len(TestPattern) = HW_FLASH_SECTOR_SIZE
    /\ ADDR_MOD \in Nat /\ ADDR_MOD % HW_FLASH_SIZE = 0 /\ ADDR_MOD > HW_FLASH_SIZE
    /\ MAX_ADDR \in 0 .. ADDR_MOD - 1 /\ MAX_LEN \in Nat /\ MAX_LEN < ADDR_MOD
    /\ Patterns \subseteq [0 .. HW_FLASH_SIZE - 1 -> {0, 1}]
ASSUME NoneAssumption   == None \notin [addr : Nat, data : Seq({0, 1}), erases : BOOLEAN]

Bytes == 0 .. HW_FLASH_SIZE - 1
User  == HW_FLASH_USER_BEGIN .. HW_FLASH_SIZE - 1

VARIABLES
    mem,        \* the flash
    req,        \* the call being carried out: addr, data, erases
    pc,         \* where it is
    index,      \* bytes written so far
    err_step,   \* 1 = range, 2 = erase, 3 = program
    answer,     \* what the last call returned, "off" when the power went
    test        \* flash test: its last call, and whether it printed a failure

call == <<req, pc, index>>
vars == <<mem, call, err_step, answer, test>>

Length == Len(req.data)

\* The address and the length of the call under way have a sum of 2^32 or more.
Wraps == req # None /\ req.addr + Length >= ADDR_MOD

Firmware(b) == b % 2
NoTest == [step |-> "none", failed |-> FALSE]

Init ==
    /\ mem = [b \in Bytes |-> IF b \in User THEN 1 ELSE Firmware(b)]
    /\ req = None /\ pc = "idle" /\ index = 0
    /\ err_step = 0 /\ answer = "ok"
    /\ test = NoTest

-----------------------------------------------------------------------------
(* The chip. *)

Cell(a) == a % HW_FLASH_SIZE

SectorOf(b) == b - (b % HW_FLASH_SECTOR_SIZE)

\* flash_range_erase of n bytes from a, and flash_range_program of an image at a.
Erased(a, n) ==
    [b \in Bytes |->
        IF \E i \in 0 .. n - 1 : SectorOf(b) = SectorOf(Cell(a + i)) THEN 1 ELSE mem[b]]
Programmed(a, image) ==
    [b \in Bytes |->
        IF \E i \in DOMAIN image : b = Cell(a + i - 1)
        THEN mem[b] * image[CHOOSE i \in DOMAIN image : b = Cell(a + i - 1)]
        ELSE mem[b]]

-----------------------------------------------------------------------------
(* A call and its end. *)

\* flashInRange, the sums in uint32_t.
m_flashInRange(addr, length) ==
    /\ length # 0
    /\ (addr + length) % ADDR_MOD <= HW_FLASH_SIZE
    /\ (addr + length) % ADDR_MOD > HW_FLASH_USER_BEGIN
flashInRange(addr, length) ==
    /\ length # 0
    /\ (addr + length) % ADDR_MOD <= HW_FLASH_SIZE
    /\ addr >= HW_FLASH_USER_BEGIN

Aligned(addr, length) ==
    addr % HW_FLASH_SECTOR_SIZE = 0 /\ length % HW_FLASH_SECTOR_SIZE = 0

Fail(step) ==
    /\ answer' = "failed" /\ err_step' = step
    /\ UNCHANGED <<mem, call>>

End(a) == req' = None /\ pc' = "idle" /\ index' = 0 /\ answer' = a

\* flashErase up to the request: an unaligned one leaves err_step alone.
flashErase(addr, length) ==
    /\ pc = "idle"
    /\ \/ ~Aligned(addr, length) /\ Fail(err_step)
       \/ Aligned(addr, length) /\ ~flashInRange(addr, length) /\ Fail(1)
       \/ /\ Aligned(addr, length) /\ flashInRange(addr, length)
          /\ req' = [addr |-> addr, data |-> [i \in 1 .. length |-> 1], erases |-> TRUE]
          /\ pc' = "erase"
          /\ UNCHANGED <<mem, index, err_step, answer>>

\* flashWrite up to the first page. xip: p_data points into the flash.
flashWrite(addr, data, xip) ==
    /\ pc = "idle"
    /\ \/ (~flashInRange(addr, Len(data)) \/ xip) /\ Fail(1)
       \/ /\ flashInRange(addr, Len(data)) /\ ~xip
          /\ req' = [addr |-> addr, data |-> data, erases |-> FALSE]
          /\ pc' = "front"
          /\ UNCHANGED <<mem, index, err_step, answer>>

\* flashExecute is refused before it touches the flash.
Refused(step) == End("failed") /\ err_step' = step /\ UNCHANGED mem

PowerOff(m) == End("off") /\ err_step' = 0 /\ mem' = m /\ test' = NoTest

\* The boot ROM erases sector by sector; how far it goes when its own sum wraps is
\* not known here.
flashDoErase ==
    /\ pc = "erase"
    /\ \/ \E n \in 0 .. Length :
             /\ n = Length \/ (Wraps /\ n % HW_FLASH_SECTOR_SIZE = 0)
             /\ mem' = Erased(req.addr, n) /\ End("ok") /\ UNCHANGED <<err_step, test>>
       \/ Refused(2) /\ UNCHANGED test
       \/ \E n \in 0 .. Length : n % HW_FLASH_SECTOR_SIZE = 0 /\ PowerOff(Erased(req.addr, n))

-----------------------------------------------------------------------------
(* flashWrite, one flashProgram after the other. *)

\* The next part, or the end of the call when it was the last.
GoOn(n, next) ==
    /\ UNCHANGED err_step
    /\ IF index + n = Length THEN End("ok")
       ELSE index' = index + n /\ pc' = next /\ UNCHANGED <<req, answer>>

\* flashProgram: n bytes of the request go with the image.
flashProgram(addr, image, n, next) ==
    \/ mem' = Programmed(addr, image) /\ GoOn(n, next) /\ UNCHANGED test
    \/ Refused(3) /\ UNCHANGED test
    \/ \E k \in 0 .. Len(image) :
          k % HW_FLASH_PAGE_SIZE = 0 /\ PowerOff(Programmed(addr, SubSeq(image, 1, k)))

\* page_buf: the page at page_addr with n bytes of the request from offset on.
m_PageImage(page_addr, offset, n) ==
    [i \in 1 .. HW_FLASH_PAGE_SIZE |->
        IF i > offset /\ i <= offset + n THEN req.data[index + i - offset] ELSE 0]
PageImage(page_addr, offset, n) ==
    [i \in 1 .. HW_FLASH_PAGE_SIZE |->
        IF i > offset /\ i <= offset + n THEN req.data[index + i - offset]
        ELSE mem[Cell(page_addr + i - 1)]]

AtMost(a, b) == IF a < b THEN a ELSE b

FrontPage ==
    /\ pc = "front"
    /\ LET offset == req.addr % HW_FLASH_PAGE_SIZE
           n      == AtMost(HW_FLASH_PAGE_SIZE - offset, Length)
       IN \/ /\ offset = 0
             /\ pc' = "mid" /\ UNCHANGED <<mem, req, index, err_step, answer, test>>
          \/ /\ offset # 0
             /\ flashProgram(req.addr - offset, PageImage(req.addr - offset, offset, n), n, "mid")

\* mid_len: the whole pages of what is left.
Middle == (Length - index) - ((Length - index) % HW_FLASH_PAGE_SIZE)

MiddlePages ==
    /\ pc = "mid"
    /\ \/ /\ Middle = 0
          /\ pc' = "tail" /\ UNCHANGED <<mem, req, index, err_step, answer, test>>
       \/ /\ Middle > 0
          /\ flashProgram(req.addr + index, SubSeq(req.data, index + 1, index + Middle), Middle,
                          "tail")

TailPage ==
    /\ pc = "tail"
    /\ LET n == Length - index
       IN  flashProgram(req.addr + index, PageImage(req.addr + index, 0, n), n, "idle")

\* What a caller hands over: a stretch of a pattern.
DataAt(p, addr, n) == [i \in 1 .. n |-> p[Cell(addr + i - 1)]]

\* The callers, one at a time.  The command flash erase hands over what is typed;
\* the addresses that the stores work out never wrap.
Callers ==
    /\ pc = "idle" /\ test = NoTest /\ UNCHANGED test
    /\ \E addr \in 0 .. MAX_ADDR, n \in 0 .. MAX_LEN :
          \/ flashErase(addr, n)
          \/ /\ addr + n < ADDR_MOD
             /\ \E p \in Patterns, xip \in BOOLEAN : flashWrite(addr, DataAt(p, addr, n), xip)

-----------------------------------------------------------------------------
(* The command flash test: it erases its sector, writes it and reads from it, *)
(* and goes on when a call fails, saying so.                                  *)

\* It tells what failed of the call before.
m_Told == test.failed \/ (test.step = "write" /\ answer = "failed")
Told   == test.failed \/ answer = "failed"

TestErase ==
    /\ test = NoTest
    /\ flashErase(HW_FLASH_TEST_BEGIN, HW_FLASH_SECTOR_SIZE)
    /\ test' = [step |-> "erase", failed |-> FALSE]

TestWrite ==
    /\ test.step = "erase"
    /\ flashWrite(HW_FLASH_TEST_BEGIN, TestPattern, FALSE)
    /\ test' = [step |-> "write", failed |-> Told]

\* flashRead of the part that is looked at: its ends are what they should be.
flashRead(addr, n) == [i \in 1 .. n |-> mem[addr + i - 1]]
Verified ==
    LET rd == flashRead(HW_FLASH_TEST_BEGIN, HW_FLASH_SECTOR_SIZE - 1)
    IN  \A i \in {1, Len(rd)} : rd[i] = TestPattern[i]

TestEnd ==
    /\ test.step = "write" /\ pc = "idle"
    /\ test' = NoTest
    /\ UNCHANGED <<mem, call, err_step, answer>>

Next ==
    \/ Callers
    \/ TestErase \/ TestWrite \/ TestEnd
    \/ flashDoErase \/ FrontPage \/ MiddlePages \/ TailPage

Spec == Init /\ [][Next]_vars

-----------------------------------------------------------------------------
TypeOK ==
    /\ mem \in [Bytes -> {0, 1}]
    /\ pc \in {"idle", "erase", "front", "mid", "tail"}
    /\ pc = "idle" <=> req = None
    /\ pc # "idle" =>
          /\ req.addr \in 0 .. MAX_ADDR /\ req.erases = (pc = "erase")
          /\ Length \in 1 .. MAX_LEN /\ DOMAIN req.data = 1 .. Length
          /\ index \in 0 .. Length - 1
    /\ test \in [step : {"none", "erase", "write"}, failed : BOOLEAN]
    /\ err_step \in 0 .. 3 /\ answer \in {"ok", "failed", "off"}

\* What flash.c:66 is there for: whatever a caller asks for, and whatever is
\* refused or cut short, no step touches the firmware - but for an erase whose sum
\* wraps, which the range test lets through although flash.c:159 says that it does
\* not: `flash erase 0xFFFFF000 0x2000' is one.
OnlyWrapsHurt == [][Wraps \/ \A b \in Bytes \ User : mem'[b] = mem[b]]_vars

\* What flash test is for: when it has printed no failure the whole sector holds
\* the pattern and it says OK, though it looks at the first bytes alone; so a FAIL
\* comes with the call that failed.  (Alone the OK means nothing: the pattern may
\* be there from an earlier test.)
TestTells ==
    test.step = "write" /\ pc = "idle" /\ ~Told =>
        /\ Verified
        /\ flashRead(HW_FLASH_TEST_BEGIN, HW_FLASH_SECTOR_SIZE) = TestPattern

\* What every caller relies on: unless the sum of the address and the length wraps,
\* a call changes nothing but the bytes it was asked to change, has changed all of
\* them when it says so, and leaves none of them half way when it fails.
Promise == INSTANCE Nor WITH job <- req
ImplementsNor == Promise!Init /\ [][Wraps \/ Promise!Next]_(Promise!vars)
=============================================================================
