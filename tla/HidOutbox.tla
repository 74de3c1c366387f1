------------------------------ MODULE HidOutbox ------------------------------
(***************************************************************************)
(* What the report queues of usbd_hid.c promise, with no mechanism: for    *)
(* every interface one line of reports between the firmware that asks and  *)
(* the PC that reads.                                                      *)
(*                                                                         *)
(*   - reports reach the PC in the order in which they were asked for;     *)
(*   - a report is dropped for lack of room only when a whole queue of     *)
(*     older ones is still waiting, and then the NEWEST one is kept;       *)
(*   - the other losses are a bus reset, a new enumeration and a deliberate*)
(*     cut of the output, and none of them reorders what is left.          *)
(*                                                                         *)
(* HidQueue implements this specification: its shadow, its endpoint buffer,*)
(* its 10 ms wait and its suspend flag are not visible here.               *)
(***************************************************************************)
EXTENDS Naturals, Sequences

CONSTANTS Itf,       \* the interfaces that have a queue
          Capacity,  \* slots of one queue
          Id,        \* report ids
          Data,      \* report contents
          Blank      \* what the PC assumes before it has read anything

VARIABLES line,      \* line[i]: asked for, not yet read by the PC
          host       \* host[id]: the last content the PC has read for that id

vars == <<line, host>>

Item == [id : Id, data : Data]

Init == /\ line = [i \in Itf |-> <<>>]
        /\ host = [id \in Id |-> Blank]

(* A report joins the end of its line. *)
Accept(i, it) ==
  /\ line' = [line EXCEPT ![i] = Append(@, it)]
  /\ UNCHANGED host

(* No room and nobody reading: the newest waiting report gives way.        *)
Replace(i, it) ==
  /\ Len(line[i]) >= Capacity
  /\ line' = [line EXCEPT ![i] = [@ EXCEPT ![Len(@)] = it]]
  /\ UNCHANGED host

(* No room although the PC was given time: the report just accepted stays, *)
(* the one before it gives way.                                            *)
Squeeze(i) ==
  /\ Len(line[i]) > Capacity
  /\ line' = [line EXCEPT ![i] = Append(SubSeq(@, 1, Len(@) - 2), @[Len(@)])]
  /\ UNCHANGED host

(* The PC reads the oldest report of a line. *)
Deliver(i) ==
  /\ line[i] # <<>>
  /\ line' = [line EXCEPT ![i] = Tail(@)]
  /\ host' = [host EXCEPT ![Head(line[i]).id] = Head(line[i]).data]

(* The bus went away: the reports that were on their way to the PC are     *)
(* lost, at most one per line, and the PC forgets what it held.            *)
BusLost ==
  /\ \E sent \in SUBSET Itf :
       /\ \A i \in sent : line[i] # <<>>
       /\ line' = [i \in Itf |-> IF i \in sent THEN Tail(line[i]) ELSE line[i]]
  /\ host' = [id \in Id |-> Blank]

(* A PC enumerates the device: what was meant for the previous one is not  *)
(* sent to it. Only a report being asked for at that moment is kept.       *)
Enumerated ==
  /\ \E fresh \in SUBSET Itf :
       /\ \A i \in fresh : line[i] # <<>>
       /\ line' = [i \in Itf |-> IF i \in fresh THEN <<line[i][Len(line[i])]>> ELSE <<>>]
  /\ UNCHANGED host

(* The output is cut on purpose: only reports that were already on their   *)
(* way are still read.                                                     *)
Cut ==
  /\ \E sent \in SUBSET Itf :
       /\ \A i \in sent : line[i] # <<>>
       /\ line' = [i \in Itf |-> IF i \in sent THEN <<Head(line[i])>> ELSE <<>>]
  /\ UNCHANGED host

Next == \/ \E i \in Itf, it \in Item : Accept(i, it) \/ Replace(i, it)
        \/ \E i \in Itf : Squeeze(i) \/ Deliver(i)
        \/ BusLost
        \/ Enumerated
        \/ Cut

Spec == Init /\ [][Next]_vars
==============================================================================
