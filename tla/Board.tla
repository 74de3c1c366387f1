-------------------------------- MODULE Board --------------------------------
(***************************************************************************)
(* core0 from power on, as the terminal and the LED see it: hw.c, ap.c,    *)
(* log.c, uart.c, led_status.c, the messages of usb.c and link_kbd.c, and  *)
(* the start of core1 in usbh.c.                                           *)
(*                                                                         *)
(* There is no interrupt behind the serial port: what the program writes   *)
(* goes into a FIFO that only tud_task empties, so a writer that finds it  *)
(* full calls usbUpdate, and usbUpdate writes messages of its own.         *)
(* `writers' is that stack of calls of uartWrite, the innermost last.      *)
(*                                                                         *)
(* Text is counted in units; a line of the log is a header (its number and *)
(* a tab) and a message.  What the bus, the keyboards and the clock did is *)
(* chosen at the place where the code reads it.                            *)
(*                                                                         *)
(* The specification is BoardSpec, not Spec, so that a module can extend   *)
(* this one together with another.                                         *)
(*                                                                         *)
(* Operators that start with m_ are faulty variants of the operator that   *)
(* follows; the specification never uses them.                             *)
(***************************************************************************)
EXTENDS Integers, Sequences, SequencesExt, FiniteSetsExt

CONSTANTS CFG_TUD_CDC_TX_BUFSIZE,
          LOG_BOOT_BUF_MAX, LOG_LIST_BUF_MAX,
          HEAD, SLACK,      \* of a line of the log: header, and what is kept free
          TEXT,             \* length of a message
          OUTPUT,           \* length of what a command prints
          LINE_MOD,         \* line_index is counted modulo this
          RESET_BIT_MAX,    \* causes of a reset, of which several may hold
          TRIES,            \* how often usbhInit looks whether core1 runs
          MAX_NEST          \* bound: calls of uartWrite the stack has room for

ASSUME BoardAssumption ==
    /\ CFG_TUD_CDC_TX_BUFSIZE \in Nat \ {0} /\ MAX_NEST \in Nat \ {0}
    /\ TEXT \in Nat \ {0} /\ OUTPUT \in Nat \ {0}
    /\ HEAD \in Nat \ {0} /\ SLACK \in Nat /\ SLACK > HEAD
    /\ LOG_BOOT_BUF_MAX \in Nat /\ LOG_BOOT_BUF_MAX >= TEXT + SLACK
    /\ LOG_LIST_BUF_MAX \in Nat /\ LOG_LIST_BUF_MAX >= TEXT + SLACK
    /\ LINE_MOD \in Nat \ {0} /\ TRIES \in Nat /\ RESET_BIT_MAX \in Nat

VARIABLES
    step, turn,         \* of the start-up; of the loop, "none" outside it
    causes,             \* of the last reset, those resetLog has yet to write
    cmd,                \* a command that runs turns of the loop itself, or "no"
    is_running, tries,  \* core1 runs; usbhInit's count
    writers,            \* calls of uartWrite under way
    fifo, port,         \* the CDC's FIFO; tud_cdc_connected()
    reenum_state,       \* and HOLD: boot_hold
    attached,           \* tud_connect, tud_disconnect
    moved,              \* the active slot is not the one applied last
    is_boot_log, boot, list,    \* log_buf_boot, log_buf_list
    color_pre, led,     \* what ledStatusUpdate sent last, what the LED shows
    \* history
    last,               \* what the host read last of this opening of the port
    cut,                \* the port was closed on something under way
    lost,               \* the stack is full: core0 is gone
    said,               \* messages of the start-up
    asleep, painted     \* ledStatusUpdate saw the PC asleep; the console set the LED

reenum == <<reenum_state, attached>>
core == <<step, causes, turn, cmd, is_running, tries>>
usb  == <<fifo, port, last, cut>>
log  == <<is_boot_log, boot, list, said>>
leds == <<color_pre, led, asleep, painted>>
boardVars == <<core, writers, usb, reenum, moved, log, leds, lost>>

Steps == <<"hello", "reset", "drivers", "launch", "wait", "usbh", "logBoot", "ap", "qmk", "main">>
NextStep(s) == Steps[CHOOSE i \in 2 .. Len(Steps) : Steps[i - 1] = s]
NoUnit == [n |-> 0, k |-> 0]

-----------------------------------------------------------------------------
(* The log. *)

Unwritten == [line |-> -1, k |-> 0]
logInit(max) == [line |-> 0, len |-> 0, max |-> max, index |-> 0,
                 anew |-> FALSE,    \* history: it has begun anew
                 buf |-> [i \in 0 .. max - 1 |-> Unwritten]]

\* A message joins the buffer, which begins anew when the end is near.
StartOf(r)   == IF r.index + TEXT + SLACK > r.max THEN 0 ELSE r.index

m_logBufPrintf(r) ==
    LET at == StartOf(r)
        n  == HEAD + TEXT
    IN  [r EXCEPT !.line = (@ + 1) % LINE_MOD, !.index = at + n,
                  !.anew = @ \/ at # r.index,
                  !.len = IF @ + n <= r.max THEN @ + n ELSE @,
                  !.buf = [i \in DOMAIN @ |-> IF i \in r.index .. r.index + n - 1
                                              THEN [line |-> r.line, k |-> i - r.index] ELSE @[i]]]
logBufPrintf(r) ==
    LET at == StartOf(r)
        n  == HEAD + TEXT
    IN  [r EXCEPT !.line = (@ + 1) % LINE_MOD, !.index = at + n,
                  !.anew = @ \/ at # r.index,
                  !.len = IF @ + n <= r.max THEN @ + n ELSE @,
                  !.buf = [i \in DOMAIN @ |-> IF i \in at .. at + n - 1
                                              THEN [line |-> r.line, k |-> i - at] ELSE @[i]]]

\* After uartWrite, the message is kept, and in the start-up in both buffers.
Keep ==
    /\ boot' = IF is_boot_log THEN logBufPrintf(boot) ELSE boot
    /\ list' = logBufPrintf(list)
    /\ said' = IF step \in {"ap", "qmk", "main"} THEN said ELSE said + 1
    /\ UNCHANGED is_boot_log

\* What `log boot' and `log list' print, in pieces that no turn of the loop parts.
Shown(r) == [i \in 0 .. r.len - 1 |-> r.buf[i]]

-----------------------------------------------------------------------------
(* The serial port. *)

Call(what, n)   == [what |-> what, n |-> n, ret |-> 0]
Write(what, n)  == writers' = Append(writers, Call(what, n))
logPrintf       == Write("log", TEXT)
Quiet           == writers = <<>> /\ ~lost

top     == writers[Len(writers)]
Full    == Len(fifo) = CFG_TUD_CDC_TX_BUFSIZE
Blocked == writers # <<>> /\ ~lost /\ port /\ top.ret < top.n /\ Full

\* As much as fits of what is left of the message.
m_Taken(c) == [i \in 1 .. Min({c.n - c.ret, CFG_TUD_CDC_TX_BUFSIZE - Len(fifo)}) |->
                 [n |-> c.n, k |-> i]]
Taken(c)   == [i \in 1 .. Min({c.n - c.ret, CFG_TUD_CDC_TX_BUFSIZE - Len(fifo)}) |->
                 [n |-> c.n, k |-> c.ret + i]]

\* uartWrite: tud_cdc_write takes something.
uartWrite ==
    /\ writers # <<>> /\ ~lost /\ port /\ top.ret < top.n /\ ~Full
    /\ fifo' = fifo \o Taken(top)
    /\ writers' = [writers EXCEPT ![Len(writers)].ret = @ + Len(Taken(top))]
    /\ UNCHANGED <<core, port, last, cut, reenum, moved, log, leds, lost>>

\* tud_task: the host took j units, and may have closed or opened the port.
tud_task(j) ==
    /\ j > 0 => port
    /\ fifo' = SubSeq(fifo, j + 1, Len(fifo))
    /\ port' \in (IF attached THEN BOOLEAN ELSE {FALSE})
    /\ cut'  = IF fifo' = <<>> /\ writers = <<>> THEN FALSE ELSE cut \/ port' # port
    /\ last' = IF port' # port \/ (cut /\ ~cut') THEN NoUnit
               ELSE IF j > 0 THEN fifo[j] ELSE last

\* usbUpdate with nothing due, from a turn of the loop or from uartWrite.
Nested == \E i \in DOMAIN writers : writers[i].what = "reenum"
m_WaitsForHost(j) ==    \* only usbdHidUpdate, no tud_task
    /\ Blocked /\ ~Nested /\ j = 0
    /\ UNCHANGED boardVars
WaitsForHost(j) ==
    /\ Blocked /\ ~Nested
    /\ tud_task(j)
    /\ UNCHANGED <<core, writers, reenum, moved, log, leds, lost>>

\* usbUpdate when an armed re-enumeration is due.  It says so before it leaves
\* ARMED: called from a blocked uartWrite it calls uartWrite, which is blocked.
Announce == IF Len(writers) < MAX_NEST
            THEN Write("reenum", TEXT) /\ UNCHANGED lost
            ELSE lost' = TRUE /\ UNCHANGED writers
Recurses ==
    /\ Blocked /\ reenum_state = "ARMED"
    /\ Announce
    /\ UNCHANGED <<core, usb, reenum, moved, log, leds>>

\* The call is over, or the port is closed and the rest is dropped.
Return ==
    /\ writers # <<>> /\ ~lost /\ (~port \/ top.ret = top.n)
    /\ writers' = Front(writers)
    /\ IF top.what = "out" THEN UNCHANGED log ELSE Keep
    /\ IF top.what = "reenum"   \* tud_disconnect
       THEN /\ reenum_state' = "GAP" /\ attached' = FALSE
            /\ fifo' = <<>> /\ port' = FALSE /\ last' = NoUnit /\ cut' = FALSE
       ELSE UNCHANGED <<reenum, usb>>
    /\ UNCHANGED <<core, moved, leds, lost>>

-----------------------------------------------------------------------------
(* A turn of the loop: cliLoopIdle, then in apMain the LED and the command line. *)

BoardInit ==
    /\ step = "hello" /\ turn = "none" /\ cmd = "no" /\ is_running = FALSE /\ tries = 0
    /\ causes \in 0 .. RESET_BIT_MAX
    /\ writers = <<>> /\ fifo = <<>> /\ port = FALSE
    /\ reenum_state = "HOLD" /\ attached = FALSE /\ moved = FALSE
    /\ is_boot_log = TRUE /\ boot = logInit(LOG_BOOT_BUF_MAX) /\ list = logInit(LOG_LIST_BUF_MAX)
    /\ color_pre = "unset" /\ led = "off"
    /\ last = NoUnit /\ cut = FALSE /\ lost = FALSE /\ said = 0
    /\ asleep = FALSE /\ painted = FALSE

usbUpdate ==
    /\ Quiet /\ turn = "usb"
    /\ \/ /\ reenum_state = "HOLD"          \* the time is over, or not yet
          /\ \/ reenum_state' = "IDLE" /\ attached' = TRUE /\ logPrintf
             \/ UNCHANGED <<reenum, writers>>
          /\ turn' = "link"
          /\ UNCHANGED <<usb, lost>>
       \/ /\ reenum_state = "ARMED" /\ Announce
          /\ turn' = "link"
          /\ UNCHANGED <<usb, reenum>>
       \/ /\ reenum_state # "HOLD"
          /\ \/ UNCHANGED reenum
             \/ reenum_state = "GAP" /\ reenum_state' = "IDLE" /\ attached' = TRUE
          /\ \E j \in 0 .. Len(fifo) : tud_task(j)
          /\ turn' = "link"
          /\ UNCHANGED <<writers, lost>>
    /\ UNCHANGED <<step, causes, cmd, is_running, tries, moved, log, leds>>

\* A keyboard came or went; if that changes the slot, kbdStoreSelect says so.
linkKbdUpdate ==
    /\ Quiet /\ turn = "link"
    /\ turn' = "apply"
    /\ \/ is_running /\ moved' = TRUE /\ logPrintf
       \/ UNCHANGED <<moved, writers>>
    /\ UNCHANGED <<step, causes, cmd, is_running, tries, usb, reenum, log, leds, lost>>

\* The product id first: it is asked for, or attaches the board.
linkKbdApplySlot ==
    /\ Quiet /\ turn = "apply"
    /\ turn' = IF moved THEN "profile" ELSE "rest"
    /\ IF ~moved THEN UNCHANGED <<reenum, writers>>
       ELSE \/ reenum_state = "HOLD" /\ reenum_state' = "IDLE" /\ attached' = TRUE /\ logPrintf
            \/ reenum_state # "HOLD" /\ reenum_state' = "ARMED" /\ UNCHANGED <<attached, writers>>
            \/ reenum_state \in {"HOLD", "IDLE"} /\ UNCHANGED <<reenum, writers>>
    /\ moved' = FALSE
    /\ UNCHANGED <<step, causes, cmd, is_running, tries, usb, log, leds, lost>>

qmkSetProfile ==
    /\ Quiet /\ turn = "profile"
    /\ turn' = "rest"
    /\ logPrintf
    /\ UNCHANGED <<step, causes, cmd, is_running, tries, usb, reenum, moved, log, leds, lost>>

\* Back in the delay of usbhInit or of a command, or in apMain.
IdleDone ==
    /\ Quiet /\ turn = "rest"
    /\ turn' = IF step # "main" THEN "none" ELSE IF cmd = "no" THEN "led" ELSE "cmd"
    /\ UNCHANGED <<step, causes, cmd, is_running, tries, writers, usb, reenum, moved, log, leds, lost>>

Statuses == [st : {"SUSPEND", "NO_PC", "NO_KBD", "READY"}, caps : BOOLEAN, key : BOOLEAN]
ledStatusGet(s) ==
    /\ port => s.st \in {"NO_KBD", "READY"}
    /\ ~attached => s.st = "NO_PC"
    /\ ~is_running => s.st # "READY"

m_Colors(s) ==
    IF s.key THEN {"white"}
    ELSE CASE s.st = "SUSPEND" -> {"off"}
           [] s.st = "NO_PC"   -> {"red", "off"}
           [] s.st = "NO_KBD"  -> {"orange", "off"}
           [] s.st = "READY"   -> IF s.caps THEN {"purple"} ELSE {"green"}
Colors(s) ==
    IF s.key /\ s.st # "SUSPEND" THEN {"white"}
    ELSE CASE s.st = "SUSPEND" -> {"off"}
           [] s.st = "NO_PC"   -> {"red", "off"}     \* it blinks
           [] s.st = "NO_KBD"  -> {"orange", "off"}
           [] s.st = "READY"   -> IF s.caps THEN {"purple"} ELSE {"green"}

\* ws2812SetColor and ws2812Refresh.
SetColor(color) == led' = color

ledStatusUpdate ==
    /\ Quiet /\ turn = "led"
    /\ turn' = "cli"
    /\ \E s \in Statuses :
         /\ ledStatusGet(s) /\ asleep' = (s.st = "SUSPEND")
         /\ \E color \in Colors(s) :
              IF color = color_pre THEN UNCHANGED <<color_pre, led, painted>>
              ELSE color_pre' = color /\ SetColor(color) /\ painted' = FALSE
    /\ UNCHANGED <<step, causes, cmd, is_running, tries, writers, usb, reenum, moved, log, lost>>

\* The console sets the LED behind ledStatusUpdate's back.
Paint(color) == SetColor(color) /\ painted' = TRUE /\ UNCHANGED <<color_pre, asleep>>

\* A command prints something; those of ws2812 paint the LED too.  One that waits
\* (`qmk matrix', `key watch', `ws2812 test', `reset reset') goes through turns of
\* its own, in delay; `usbh dump' first looks for a report.
Command ==
    /\ Quiet /\ turn = "cli"
    /\ \/ Write("out", OUTPUT) /\ UNCHANGED leds /\ cmd' \in {"no", "waits", "dump", "reset"}
       \/ Write("out", OUTPUT) /\ Paint("user") /\ cmd' \in {"no", "paints"}
       \/ UNCHANGED <<writers, leds, cmd>>
    /\ turn' = IF cmd' = "dump" THEN "cmd" ELSE "usb"
    /\ UNCHANGED <<step, causes, is_running, tries, usb, reenum, moved, log, lost>>

\* It goes on until a key is typed, and prints something before each delay.
CommandWaits ==
    /\ Quiet /\ turn = "cmd" /\ cmd \in {"waits", "reset"}
    /\ turn' = "usb"
    /\ \/ cmd = "waits" /\ cmd' = "no" /\ UNCHANGED writers
       \/ cmd = "waits" /\ Write("out", OUTPUT) /\ UNCHANGED cmd
       \/ UNCHANGED <<cmd, writers>>
    /\ UNCHANGED <<step, causes, is_running, tries, usb, reenum, moved, log, leds, lost>>

\* `usbh dump': a turn only when no report waits; otherwise it prints the report
\* ("dumps") and looks for the next, as cliKeepLoop runs none.
cliUsbh ==
    /\ Quiet /\ turn = "cmd" /\ cmd \in {"dump", "dumps"}
    /\ \/ cmd' = "dumps" /\ Write("out", OUTPUT) /\ UNCHANGED turn
       \/ cmd' \in {"dump", "no"} /\ turn' = "usb" /\ UNCHANGED writers
    /\ UNCHANGED <<step, causes, is_running, tries, usb, reenum, moved, log, leds, lost>>

\* `ws2812 test': one colour after the other, with delays, and dark at the end.
cliWs2812 ==
    /\ Quiet /\ turn = "cmd" /\ cmd = "paints"
    /\ turn' = "usb"
    /\ \/ Write("out", OUTPUT) /\ Paint("user") /\ UNCHANGED cmd
       \/ Paint("off") /\ cmd' = "no" /\ UNCHANGED writers
       \/ UNCHANGED <<writers, leds, cmd>>
    /\ UNCHANGED <<step, causes, is_running, tries, usb, reenum, moved, log, lost>>

-----------------------------------------------------------------------------
(* The start-up. *)

\* Steps of hwInit and apInit that log a line: the greeting, usbhInit, qmkInit.
Says ==
    /\ Quiet /\ turn = "none" /\ step \in {"hello", "usbh", "qmk"}
    /\ step' = NextStep(step)
    /\ turn' = IF step' = "main" THEN "usb" ELSE "none"
    /\ logPrintf
    /\ UNCHANGED <<causes, cmd, is_running, tries, usb, reenum, moved, log, leds, lost>>

\* resetLog: a line for the register, and one for each cause that is set in it.
resetLog ==
    /\ Quiet /\ turn = "none" /\ step = "reset"
    /\ IF causes = 0 THEN step' = NextStep(step) /\ UNCHANGED causes
                     ELSE causes' = causes - 1 /\ UNCHANGED step
    /\ logPrintf
    /\ UNCHANGED <<turn, cmd, is_running, tries, usb, reenum, moved, log, leds, lost>>

\* Steps that do not: the drivers, multicore_launch_core1, logBoot, cliOpen.
Does ==
    /\ Quiet /\ turn = "none" /\ step \in {"drivers", "launch", "logBoot", "ap"}
    /\ step' = NextStep(step)
    /\ is_boot_log' = (is_boot_log /\ step # "logBoot")
    /\ UNCHANGED <<causes, turn, cmd, is_running, tries, writers, usb, reenum, moved, boot, list, said, leds, lost>>

\* usbhCore1Main has set up the host stack - if it ever does.
usbhCore1Main ==
    /\ ~lost /\ ~is_running /\ step \notin {"hello", "reset", "drivers", "launch"}
    /\ is_running' = TRUE
    /\ UNCHANGED <<step, causes, turn, cmd, tries, writers, usb, reenum, moved, log, leds, lost>>

\* usbhInit looks, and if it does not run yet waits: delay runs cliLoopIdle.
GiveUp   == is_running \/ tries = TRIES
usbhInit ==
    /\ Quiet /\ turn = "none" /\ step = "wait"
    /\ IF GiveUp THEN step' = NextStep(step) /\ UNCHANGED <<turn, tries>>
       ELSE turn' = "usb" /\ tries' = tries + (IF tries < TRIES THEN 1 ELSE 0) /\ UNCHANGED step
    /\ UNCHANGED <<causes, cmd, is_running, writers, usb, reenum, moved, log, leds, lost>>

\* `reset reset'.  And nothing but a reset brings core0 back once it is lost.
Reset ==
    /\ lost \/ (Quiet /\ turn = "cmd" /\ cmd = "reset")
    /\ step' = "hello" /\ turn' = "none" /\ cmd' = "no" /\ is_running' = FALSE /\ tries' = 0
    /\ causes' \in 0 .. RESET_BIT_MAX
    /\ writers' = <<>> /\ fifo' = <<>> /\ port' = FALSE
    /\ reenum_state' = "HOLD" /\ attached' = FALSE /\ moved' = FALSE
    /\ is_boot_log' = TRUE /\ boot' = logInit(LOG_BOOT_BUF_MAX) /\ list' = logInit(LOG_LIST_BUF_MAX)
    /\ color_pre' = "unset" /\ led' = "off"
    /\ last' = NoUnit /\ cut' = FALSE /\ lost' = FALSE /\ said' = 0
    /\ asleep' = FALSE /\ painted' = FALSE

Loop == \/ usbUpdate \/ linkKbdUpdate \/ linkKbdApplySlot \/ qmkSetProfile \/ IdleDone
        \/ ledStatusUpdate \/ Command \/ CommandWaits \/ cliUsbh \/ cliWs2812
Start == Says \/ resetLog \/ Does \/ usbhInit
Takes == \E j \in 1 .. Len(fifo) : WaitsForHost(j)

BoardNext == \/ Start \/ Loop \/ usbhCore1Main
             \/ uartWrite \/ Takes \/ WaitsForHost(0) \/ Recurses \/ Return
             \/ Reset

\* core0 goes on; a host that keeps the port open reads it.
BoardFairness ==
    /\ WF_boardVars(Start) /\ WF_boardVars(Loop) /\ WF_boardVars(uartWrite)
    /\ WF_boardVars(Return) /\ WF_boardVars(Takes) /\ WF_boardVars(Recurses)

BoardSpec     == BoardInit /\ [][BoardNext]_boardVars
FairBoardSpec == BoardSpec /\ BoardFairness

-----------------------------------------------------------------------------
(* Properties *)

size  == HEAD + TEXT
Units == {NoUnit} \cup UNION {[n : {n}, k : 1 .. n] : n \in {TEXT, OUTPUT}}
IsBuffer(r, max) ==
    /\ r.line \in 0 .. LINE_MOD - 1 /\ r.len \in 0 .. max /\ r.index \in 0 .. max
    /\ DOMAIN r.buf = 0 .. max - 1

\* Every variable has its type: in particular no line is written past the end of
\* a buffer, and the FIFO is never overfilled.
BoardTypeOK ==
    /\ step \in ToSet(Steps) /\ is_running \in BOOLEAN /\ tries \in 0 .. TRIES
    /\ causes \in 0 .. RESET_BIT_MAX
    /\ turn \in {"none", "usb", "link", "apply", "profile", "rest", "led", "cli", "cmd"}
    /\ cmd \in {"no", "waits", "dump", "dumps", "paints", "reset"}
    /\ \A i \in DOMAIN writers : writers[i].ret \in 0 .. writers[i].n
    /\ Len(writers) <= MAX_NEST
    /\ fifo \in BoundedSeq(Units \ {NoUnit}, CFG_TUD_CDC_TX_BUFSIZE) /\ last \in Units
    /\ port \in BOOLEAN /\ attached \in BOOLEAN /\ port => attached
    /\ reenum_state \in {"HOLD", "IDLE", "ARMED", "GAP"}
    /\ IsBuffer(boot, LOG_BOOT_BUF_MAX) /\ IsBuffer(list, LOG_LIST_BUF_MAX)
    /\ {moved, cut, lost, asleep, painted, is_boot_log} \subseteq BOOLEAN

\* What a log prints from the front is the messages since its buffer began anew,
\* whole, in order and with their numbers, up to the newest; and until it wraps
\* it prints these and nothing more.
PrintsWhatWasSaid(r) ==
    /\ \A i \in 0 .. r.index - 1 :
          Shown(r)[i] = [line |-> (r.line - r.index \div size + i \div size) % LINE_MOD,
                         k    |-> i % size]
    /\ r.len = r.index \/ r.anew

\* The port opens long after the start-up: whatever it logged can be had from
\* `log boot' later, and nothing else gets in there.
BootLogKept ==
    writers = <<>> =>
        /\ boot.line = said % LINE_MOD
        /\ said * size + SLACK - HEAD <= LOG_BOOT_BUF_MAX => boot.len = said * size

\* `log boot' and `log list' tell what the program said: no line is written past
\* the end of its buffer, what is printed was said, and the start-up is kept.
LogTells ==
    /\ IsBuffer(boot, LOG_BOOT_BUF_MAX) /\ PrintsWhatWasSaid(boot)
    /\ IsBuffer(list, LOG_LIST_BUF_MAX) /\ PrintsWhatWasSaid(list)
    /\ BootLogKept

\* What a terminal reads is what was written: each message whole and in order,
\* nothing twice, no message in the middle of another, however small the pieces
\* are in which the FIFO takes it - unless the port was closed on the way.
Follows(a, b) == IF a.k < a.n THEN b = [a EXCEPT !.k = @ + 1] ELSE b.k = 1
OutputInOrder ==
    LET on == (IF last = NoUnit THEN <<>> ELSE <<last>>) \o fifo
    IN  ~cut => \A i \in 1 .. Len(on) - 1 : Follows(on[i], on[i + 1])

\* While the PC sleeps the LED is dark: a key that was hit before does not flash,
\* and "dark" is sent although only a change is.  Unless the console painted it.
DarkWhenAsleep == asleep /\ ~painted => led = "off"

\* The start-up comes to its end whether core1 starts or not, and from then on
\* keys and USB are served for ever, whatever is written to a terminal ("a message
\* must not stop the board", uartWrite) and whatever command runs, with two
\* exceptions.  The host has to read or to close the port, and then:
\*  - when a re-enumeration falls due while the FIFO is full, usbUpdate and uartWrite
\*    call each other until the stack is full;
\*  - `usbh dump' serves nobody as long as it finds a report waiting each time.
LoopTurns == []<>((step = "main" /\ turn = "usb") \/ lost) \/ <>[](cmd = "dumps")
=============================================================================
