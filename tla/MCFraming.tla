-------------------------------- MODULE MCFraming --------------------------------
(***************************************************************************)
(* Framing for TLC: frames of the lengths at which the header changes.      *)
(***************************************************************************)
EXTENDS Framing

TwoThreads == {"own", "other"}
Job(o, n) == [op |-> o, len |-> n]
Lengths == {125, 126, 65535, 65536}

\* Two frames of one thread and one of the other, the first of a critical length.
Writes(first, second, third) ==
  [t \in TwoThreads |-> IF t = "own" THEN <<first, second>> ELSE <<third>>]
Critical == {[first |-> n, op |-> "ping"] : n \in Lengths} \cup {[first |-> 126, op |-> "close"]}
SomeJobs ==
  {[d \in Dirs |-> Writes(Job("text", c.first), Job(c.op, 0), Job("text", 1))] : c \in Critical}
===============================================================================
