------------------------------ MODULE LineHistory ------------------------------
(***************************************************************************)
(* What the history of the console promises: the last MAX lines that were  *)
(* entered, which the up and down keys go through in a circle.             *)
(***************************************************************************)
EXTENDS Integers, Sequences

CONSTANTS Lines,    \* what can be typed
          MAX       \* lines that are remembered

VARIABLES past,     \* the lines remembered, the newest last
          pos,      \* the one recalled last, 0 since a line was entered
          line      \* the line being edited

vars == <<past, pos, line>>

Init == past = <<>> /\ pos = 0 /\ line = <<>>

LastOf(s) == IF Len(s) > MAX THEN Tail(s) ELSE s

Edit ==
    /\ line' \in Lines
    /\ UNCHANGED <<past, pos>>

Enter ==
    /\ line # <<>>
    /\ past' = LastOf(Append(past, line)) /\ pos' = 0
    /\ line' = <<>>

\* The newest line comes first, and after the oldest one again.
Older ==
    /\ past # <<>>
    /\ pos' = IF pos <= 1 THEN Len(past) ELSE pos - 1
    /\ line' = past[pos']
    /\ UNCHANGED past

\* The oldest line comes first, and after the newest one again.
Newer ==
    /\ past # <<>>
    /\ pos' = IF pos = Len(past) THEN 1 ELSE pos + 1
    /\ line' = past[pos']
    /\ UNCHANGED past

Next == Edit \/ Enter \/ Older \/ Newer

Spec == Init /\ [][Next]_vars
=============================================================================
