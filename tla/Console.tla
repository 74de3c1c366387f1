-------------------------------- MODULE Console --------------------------------
(***************************************************************************)
(* The command line of the console: hw/driver/cli.c, from the byte that    *)
(* arrives to the command that runs, with the terminal it is drawn on.     *)
(*                                                                         *)
(* The code keeps a line with a cursor and a ring of the lines entered     *)
(* before; it never draws the line anew but sends the terminal the one     *)
(* change that should bring it to the same place.  A byte that is none of  *)
(* the keys is a cell of the screen.  Which byte it was that came is       *)
(* chosen when the code reads it; letters are the same in either case.     *)
(*                                                                         *)
(* Operators that start with m_ are faulty variants of the operator that   *)
(* follows; the specification never uses them.                             *)
(***************************************************************************)
EXTENDS Integers, Sequences, SequencesExt, FiniteSetsExt

CONSTANTS Chars,                \* the bytes that can be typed
          Space,                \* the one of them that parts words
          Nul,                  \* what cliParseArgs puts behind a word
          Names,                \* what the drivers give to cliAdd
          CLI_CMD_LIST_MAX, CLI_CMD_NAME_MAX,
          CLI_LINE_BUF_MAX, CLI_LINE_HIS_MAX,
          RX_MAX,               \* bound: bytes that wait
          None

ASSUME ConsoleAssumption ==
    /\ Space \in Chars /\ Nul \notin Chars
    /\ Names \in Seq(Seq(Chars \ {Space}))
    /\ CLI_CMD_LIST_MAX \in Nat /\ CLI_CMD_NAME_MAX \in Nat \ {0} /\ RX_MAX \in Nat \ {0}
    /\ CLI_LINE_BUF_MAX \in Nat /\ CLI_LINE_BUF_MAX > 2
    /\ CLI_LINE_HIS_MAX \in Nat \ {0}

VARIABLES
    state,              \* of an escape sequence: CLI_RX_*
    line, cursor,       \* line.buf up to its count, line.cursor
    line_buf,           \* the ring of lines
    hist_line_i, hist_line_last, hist_line_count, hist_line_new,
    rx,                 \* bytes the port has for the console
    running,            \* the command that runs and its arguments, or None
    keeps,              \* it goes on until a key is hit
    screen,             \* the terminal, after the prompt
    off                 \* history: something was drawn that is not the line

hist == <<line_buf, hist_line_i, hist_line_last, hist_line_count, hist_line_new>>
commands == <<running, keeps>>
vars     == <<state, line, cursor, hist, rx, commands, screen, off>>

buf_len == CLI_LINE_BUF_MAX - 1
Lines   == BoundedSeq(Chars, buf_len - 1)
Ring    == 0 .. CLI_LINE_HIS_MAX - 1

-----------------------------------------------------------------------------
(* The terminal. *)

Fresh        == [text |-> <<>>, col |-> 0]
Left(t, n)   == [t EXCEPT !.col = @ - n]
Right(t, n)  == [t EXCEPT !.col = @ + n]
Insert(t, c) == [text |-> InsertAt(t.text, t.col + 1, c), col |-> t.col + 1]
Delete(t, n) == [t EXCEPT !.text = SubSeq(@, 1, t.col) \o SubSeq(@, t.col + n + 1, Len(@))]
Put(t, c)    == [text |-> IF t.col < Len(t.text) THEN ReplaceAt(t.text, t.col + 1, c)
                          ELSE Append(t.text, c),
                 col  |-> t.col + 1]
PutAll(t, s) == [text |-> SubSeq(t.text, 1, t.col) \o s \o SubSeq(t.text, t.col + Len(s) + 1, Len(t.text)),
                 col  |-> t.col + Len(s)]

\* What is sent shows the terminal t; once off it is not followed further.
Draw(t) == off' = off /\ screen' = IF off THEN Fresh ELSE t
DrawOff == off' = TRUE /\ screen' = Fresh

Prompt  == screen' = Fresh /\ off' = FALSE

-----------------------------------------------------------------------------
(* The commands. *)

\* A name longer than its place is cut.
cliToUpper(w) == IF Len(w) < CLI_CMD_NAME_MAX THEN w ELSE SubSeq(w, 1, CLI_CMD_NAME_MAX - 1)

\* The i-th cliAdd finds i - 1 commands in the list, or finds it full.
cliAdd(i) == i - 1 < CLI_CMD_LIST_MAX
cmd_list  == [i \in {n \in DOMAIN Names : cliAdd(n)} |-> cliToUpper(Names[i])]

\* The words of a line, and what it leaves of the line: the blank behind each is
\* written over.
cliParseArgs(s) ==
    LET Next(i) == [argv |-> Append(i.argv, <<>>), in |-> TRUE]
        Add(i, c) == IF c = Space THEN [i EXCEPT !.in = FALSE]
                     ELSE LET j == IF i.in THEN i ELSE Next(i)
                          IN  [j EXCEPT !.argv[Len(j.argv)] = Append(@, c)]
    IN  FoldLeft(Add, [argv |-> <<>>, in |-> FALSE], s).argv
Parted(s) ==
    [i \in DOMAIN s |-> IF s[i] = Space /\ i > 1 /\ s[i - 1] # Space THEN Nul ELSE s[i]]

\* The command a line is for: the first of that name.
m_cliRunCmd(s) ==           \* the command's own name is its first argument
    LET argv  == cliParseArgs(s)
        found == {i \in DOMAIN cmd_list : cmd_list[i] = cliToUpper(argv[1])}
    IN  IF argv = <<>> \/ found = {} THEN None
        ELSE [index |-> Min(found), args |-> argv]
cliRunCmd(s) ==
    LET argv  == cliParseArgs(s)
        found == {i \in DOMAIN cmd_list : cmd_list[i] = cliToUpper(argv[1])}
    IN  IF argv = <<>> \/ found = {} THEN None
        ELSE [index |-> Min(found), args |-> Tail(argv)]

\* What a command gets for an argument: nothing for one that is not there.
cliArgsGetStr(command, index) ==
    IF index >= Len(command.args) THEN None ELSE command.args[index + 1]

\* uartAvailable of a command that waits for a key, which it does not read.
cliKeepLoop == rx = 0

\* The command comes back, and cliUpdate cleans up behind it.
Ends ==
    /\ running # None
    /\ keeps => ~cliKeepLoop
    /\ running' = None /\ keeps' = FALSE
    /\ line' = <<>> /\ cursor' = 0
    /\ Prompt
    /\ UNCHANGED <<state, hist, rx>>

-----------------------------------------------------------------------------
(* The keys outside an escape sequence. *)

Arrives ==
    /\ rx < RX_MAX /\ rx' = rx + 1
    /\ UNCHANGED <<state, line, cursor, hist, commands, screen, off>>

\* cliMain reads one byte, and not while a command runs: it is called by it.
cliMain == running = None /\ rx > 0 /\ rx' = rx - 1
Key     == cliMain /\ state = "IDLE" /\ UNCHANGED commands

Init ==
    /\ state = "IDLE"
    /\ line = <<>> /\ cursor = 0
    /\ line_buf = [i \in Ring |-> <<>>]
    /\ hist_line_i = 0 /\ hist_line_last = 0 /\ hist_line_count = 0
    /\ hist_line_new = FALSE
    /\ rx = 0 /\ running = None /\ keeps = FALSE
    /\ screen = Fresh /\ off = FALSE

cliLineAdd ==
    /\ line_buf' = [line_buf EXCEPT ![hist_line_last] = line]
    /\ hist_line_count' = hist_line_count + (IF hist_line_count < CLI_LINE_HIS_MAX THEN 1 ELSE 0)
    /\ hist_line_i' = hist_line_last
    /\ hist_line_last' = (hist_line_last + 1) % CLI_LINE_HIS_MAX
    /\ hist_line_new' = TRUE

\* The line joins the history as it is, before it is parted.  Whether the command
\* waits for a key is its own affair.
EnterCommand ==
    /\ cliMain /\ state = "IDLE" /\ line # <<>>
    /\ cliLineAdd
    /\ line' = Parted(line)
    /\ running' = cliRunCmd(line) /\ running' # None
    /\ keeps' \in BOOLEAN
    /\ UNCHANGED <<state, cursor, screen, off>>

\* Nothing is typed, or nothing that is a command.
EnterNothing ==
    /\ Key
    /\ \/ line = <<>> /\ UNCHANGED hist
       \/ line # <<>> /\ cliRunCmd(line) = None /\ cliLineAdd
    /\ line' = <<>> /\ cursor' = 0
    /\ Prompt
    /\ UNCHANGED state

Del ==
    /\ Key /\ cursor < Len(line)
    /\ line' = RemoveAt(line, cursor + 1)
    /\ Draw(Delete(screen, 1))
    /\ UNCHANGED <<state, cursor, hist>>

\* One cell back, a blank over what is there, and that cell is deleted.
m_CellDropped(t) == Left(Put(Left(t, 1), " "), 1)
CellDropped(t)   == Delete(Left(Put(Left(t, 1), " "), 1), 1)

Back ==
    /\ Key /\ cursor > 0
    /\ line' = RemoveAt(line, cursor)
    /\ cursor' = cursor - 1
    /\ Draw(CellDropped(screen))
    /\ UNCHANGED <<state, hist>>

m_HasRoom == Len(line) < buf_len
HasRoom   == Len(line) + 1 < buf_len

\* At the end of the line the byte is echoed, within it it is inserted.
Type(c) ==
    /\ Key /\ HasRoom
    /\ line' = InsertAt(line, cursor + 1, c)
    /\ cursor' = cursor + 1
    /\ Draw(IF cursor = Len(line) THEN Put(screen, c) ELSE Insert(screen, c))
    /\ UNCHANGED <<state, hist>>

-----------------------------------------------------------------------------
(* Escape sequences.  ESC goes through SP1 at once. *)

Esc ==
    /\ Key /\ state' = "SP2"
    /\ UNCHANGED <<line, cursor, hist, screen, off>>

\* The second byte of a sequence, and the one after HOME and END.
Skip ==
    /\ cliMain
    /\ \/ state = "SP2" /\ state' = "SP3"
       \/ state = "SP4" /\ state' = "IDLE"
    /\ UNCHANGED <<line, cursor, hist, commands, screen, off>>

Third(next) == cliMain /\ state = "SP3" /\ state' = next /\ UNCHANGED commands

\* A third byte with no meaning, or a key that has nothing to do.
Other ==
    /\ Third("IDLE")
    /\ UNCHANGED <<line, cursor, hist, screen, off>>

KeyLeft ==
    /\ Third("IDLE") /\ cursor > 0
    /\ cursor' = cursor - 1 /\ Draw(Left(screen, 1))
    /\ UNCHANGED <<line, hist>>

KeyRight ==
    /\ Third("IDLE") /\ cursor < Len(line)
    /\ cursor' = cursor + 1 /\ Draw(Right(screen, 1))
    /\ UNCHANGED <<line, hist>>

\* From the first column the terminal takes "0 to the left" as one, and goes
\* into the prompt.
KeyHome ==
    /\ Third("SP4")
    /\ cursor' = 0
    /\ IF cursor > 0 THEN Draw(Left(screen, cursor)) ELSE DrawOff
    /\ UNCHANGED <<line, hist>>

KeyEnd ==
    /\ Third("SP4")
    /\ cursor' = Len(line)
    /\ Draw(Right(screen, Len(line) - cursor))
    /\ UNCHANGED <<line, hist>>

-----------------------------------------------------------------------------
(* The history. *)

\* cliLineChange and the print of the line, which takes it for a format: any
\* letter may be a percent sign.
Recall(i) ==
    /\ line' = line_buf[i]
    /\ hist_line_i' = i /\ hist_line_new' = FALSE
    /\ cursor' = Len(line_buf[i])
    /\ \/ Draw(PutAll(Delete(Left(screen, cursor), Len(line)), line_buf[i]))
       \/ ToSet(line_buf[i]) # {Space} /\ DrawOff
    /\ UNCHANGED <<line_buf, hist_line_last, hist_line_count>>

m_Older == (hist_line_i + hist_line_count - 1) % hist_line_count
Older   == LET from == IF hist_line_new THEN hist_line_last ELSE hist_line_i
           IN  (from + hist_line_count - 1) % hist_line_count

Newer   == (hist_line_i + 1) % hist_line_count

KeyUpDown ==
    /\ Third("IDLE") /\ hist_line_count > 0
    /\ Recall(Older) \/ Recall(Newer)

\* Nothing to recall: the line is printed once more where the cursor is.
KeyUpDownEmpty ==
    /\ Third("IDLE") /\ hist_line_count = 0
    /\ IF line = <<>> THEN Draw(screen) ELSE DrawOff
    /\ UNCHANGED <<line, cursor, hist>>

-----------------------------------------------------------------------------
\* logPrintf writes to the same terminal, wherever its cursor is.
LogLine ==
    /\ running = None /\ DrawOff
    /\ UNCHANGED <<state, line, cursor, hist, rx, commands>>

Next ==
    \/ Arrives \/ LogLine
    \/ EnterCommand \/ Ends \/ EnterNothing \/ Del \/ Back \/ \E c \in Chars : Type(c)
    \/ Esc \/ Skip \/ Other
    \/ KeyLeft \/ KeyRight \/ KeyHome \/ KeyEnd \/ KeyUpDown \/ KeyUpDownEmpty

Spec == Init /\ [][Next]_vars

-----------------------------------------------------------------------------
TypeOK ==
    /\ state \in {"IDLE", "SP2", "SP3", "SP4"}
    /\ running = None => line \in Lines
    /\ cursor \in 0 .. Len(line)
    /\ rx \in 0 .. RX_MAX /\ keeps \in BOOLEAN
    /\ running # None => running.index \in DOMAIN cmd_list
    /\ line_buf \in [Ring -> Lines]
    /\ hist_line_i \in Ring /\ hist_line_last \in Ring
    /\ hist_line_count \in 0 .. CLI_LINE_HIS_MAX /\ hist_line_new \in BOOLEAN
    /\ off \in BOOLEAN

\* The line that ENTER will run is the one the user sees, with the cursor where
\* the next key acts: the changes sent to the terminal add up, whatever is typed,
\* recalled and cut in whatever order - except after HOME in the first column, a
\* recall with nothing to recall, a recalled percent sign or a message of the log,
\* up to the next prompt.
ScreenMirrors == running = None /\ ~off => screen = [text |-> line, col |-> cursor]

\* What runs is what the user sees at ENTER: the first word is the command's name
\* (of a long one, as much as is kept), the others are its arguments, wherever the blanks are and however the line came
\* about; nothing runs that is not there, and nothing twice for one ENTER.
Words(s) ==
    LET Begin == {i \in DOMAIN s : s[i] # Space /\ (i = 1 \/ s[i - 1] = Space)}
        Ends_(i) == Min({j \in i .. Len(s) : j = Len(s) \/ s[j + 1] = Space})
        From  == SetToSortSeq(Begin, <)
    IN  [k \in DOMAIN From |-> SubSeq(s, From[k], Ends_(From[k]))]
RunsWhatIsSeen ==
    [][running # running' /\ running' # None /\ ~off =>
         /\ running = None
         /\ cmd_list[running'.index] = cliToUpper(Head(Words(screen.text)))
         /\ \A i \in 0 .. CLI_LINE_BUF_MAX :
               cliArgsGetStr(running', i) = IF i + 2 \in DOMAIN Words(screen.text)
                                            THEN Words(screen.text)[i + 2] ELSE None
         /\ \A c \in DOMAIN cmd_list :
               cmd_list[c] = cmd_list[running'.index] => running'.index <= c]_vars

\* The ring with its four counters is the history one expects: what UP and DOWN
\* bring is the line entered before or after, also when the ring has wrapped.
Place(k) == (hist_line_last - hist_line_count + k - 1 + CLI_LINE_HIS_MAX) % CLI_LINE_HIS_MAX
Past     == [k \in 1 .. hist_line_count |-> line_buf[Place(k)]]
Pos      == IF hist_line_new \/ hist_line_count = 0 THEN 0
            ELSE CHOOSE k \in 1 .. hist_line_count : Place(k) = hist_line_i

\* To the user a line that runs is no longer one that is edited.
Promise == INSTANCE LineHistory WITH
    MAX <- CLI_LINE_HIS_MAX, past <- Past, pos <- Pos,
    line <- IF running = None THEN line ELSE <<>>
ImplementsHistory == Promise!Spec
=============================================================================
