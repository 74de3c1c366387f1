----------------------------- MODULE SlotChoice -----------------------------
(***************************************************************************)
(* What the layout store promises about the slot a keyboard was pinned to  *)
(* (kbd_store.h, "remember, for every keyboard, which SLOT to use"), with  *)
(* no table and no flash: a map from keyboards to slots.                   *)
(*                                                                         *)
(* A choice that was confirmed is replaced only by a later choice of the   *)
(* same keyboard.  It may be dropped when no slot is stored for that       *)
(* keyboard any more, and any of them may be lost when the power goes or   *)
(* the flash refuses in the middle of a choice.                            *)
(***************************************************************************)
CONSTANTS Keyboards,    \* the keyboards (vid/pid) there are
          NoKbd,        \* no keyboard is plugged
          Places,       \* slot numbers, and "automatic"
          NoChoice      \* nothing was ever chosen

VARIABLES cur,          \* the plugged keyboard
          choice,       \* what each keyboard is pinned to
          stored,       \* the keyboards some slot is stored for
          stale,        \* the store was left in doubt by a change
          told          \* the choice just confirmed, NoChoice after anything else

vars == <<cur, choice, stored, stale, told>>

Init ==
    /\ cur = NoKbd
    /\ choice = [k \in Keyboards |-> NoChoice]
    /\ stored = {}
    /\ stale = FALSE
    /\ told = NoChoice

\* Some choices are forgotten, only those of the keyboards in K.
Forget(K) ==
    \E F \in SUBSET K :
        choice' = [k \in Keyboards |-> IF k \in F THEN NoChoice ELSE choice[k]]

Plug(k) ==
    /\ told' = NoChoice
    /\ cur' = k
    /\ stale' = FALSE
    /\ UNCHANGED <<choice, stored>>

\* The plugged keyboard is pinned to c.
Choose(c) ==
    /\ cur \in Keyboards
    /\ told' = c
    /\ stale' = FALSE
    /\ \E F \in SUBSET (Keyboards \ stored) :
           choice' = [k \in Keyboards |-> IF k = cur THEN c
                                          ELSE IF k \in F THEN NoChoice
                                          ELSE choice[k]]
    /\ UNCHANGED <<cur, stored>>

\* The choice was not taken: nothing new is recorded, old ones may be lost.
ChooseFails ==
    /\ told' = NoChoice
    /\ stale' = TRUE
    /\ Forget(Keyboards)
    /\ UNCHANGED <<cur, stored>>

\* Slots come and go; no choice is touched.
Store(K) ==
    /\ told' = NoChoice
    /\ stored' = K
    /\ stale' \in BOOLEAN
    /\ UNCHANGED <<cur, choice>>

PowerCut ==
    /\ told' = NoChoice
    /\ cur' = NoKbd
    /\ stored' \in SUBSET Keyboards
    /\ stale' = FALSE
    /\ Forget(Keyboards)

Next ==
    \/ \E k \in Keyboards \cup {NoKbd} : Plug(k)
    \/ \E c \in Places : Choose(c)
    \/ ChooseFails
    \/ \E K \in SUBSET Keyboards : Store(K)
    \/ PowerCut

Spec == Init /\ [][Next]_vars
=============================================================================
