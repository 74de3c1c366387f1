--------------------------------- MODULE Nor ---------------------------------
(***************************************************************************)
(* What the flash driver promises to those that call it: a NOR flash that  *)
(* is addressed byte by byte.                                              *)
(*                                                                         *)
(* An erase sets the bytes of its span; a write clears in them the bits    *)
(* that its data has clear.  Neither touches a byte outside the span.      *)
(* When the call says it is done, every byte of the span is; when it fails *)
(* or the power goes, each of them is either as it was or done.            *)
(*                                                                         *)
(* One bit stands for a byte: 1 is erased.                                 *)
(***************************************************************************)
EXTENDS Integers, Sequences

CONSTANTS Bytes,        \* the addresses of the flash
          None

VARIABLES mem,          \* Bytes -> {0, 1}
          job,          \* what is being carried out, or None
          answer        \* of the last call: "ok", "failed", or "off"

vars == <<mem, job, answer>>

Span(j) == {b \in Bytes : b >= j.addr /\ b < j.addr + Len(j.data)}

\* What a byte of the span is once the job has been through it.
Done(j, b) == IF j.erases THEN 1 ELSE mem[b] * j.data[b - j.addr + 1]

\* Each byte of the span is left as it is or done.
Reach == mem' \in [Bytes -> {0, 1}] /\
    \A b \in Bytes : mem'[b] = mem[b] \/ (b \in Span(job) /\ mem'[b] = Done(job, b))

Init ==
    /\ mem \in [Bytes -> {0, 1}]
    /\ job = None /\ answer = "ok"

Start ==
    /\ job = None /\ job' # None
    /\ UNCHANGED <<mem, answer>>

Refuse ==
    /\ job = None /\ answer' = "failed"
    /\ UNCHANGED <<mem, job>>

Step == job # None /\ Reach /\ UNCHANGED <<job, answer>>

Finish ==
    /\ job # None /\ job' = None
    /\ Reach
    /\ answer' \in {"ok", "failed", "off"}
    /\ (answer' = "ok" => \A b \in Span(job) : mem'[b] = Done(job, b))

Next == Start \/ Refuse \/ Step \/ Finish

Spec == Init /\ [][Next]_vars
=============================================================================
