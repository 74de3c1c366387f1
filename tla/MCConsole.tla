------------------------------- MODULE MCConsole -------------------------------
(* Console as TLC runs it. *)
EXTENDS Console, TLC

CONSTANT a
OneName == << <<a>> >>

\* Bound: of the lines of three bytes the history holds only the one of two words.
TwoWords == <<a, Space, a>>
FewLong  == \A i \in Ring : Len(line_buf[i]) > 2 => line_buf[i] = TwoWords

\* Lines of the run hold two words at most; this is the parting of longer ones.
ASSUME \A s \in BoundedSeq(Chars, 6) : cliParseArgs(s) = Words(s) /\ Words(s) \in Seq(Seq(Chars))

\* A line that was parted has the same words, seen as C strings: up to the Nul.
ASSUME \A s \in BoundedSeq(Chars, 6) :
    cliParseArgs(s) = cliParseArgs([i \in DOMAIN s |-> IF Parted(s)[i] = Nul THEN Space ELSE s[i]])
=============================================================================
