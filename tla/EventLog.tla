------------------------------- MODULE EventLog -------------------------------
(***************************************************************************)
(* What the relay's event storage promises, without saying how: a bounded  *)
(* log of entries that carry ever-growing arrival numbers.  An entry is    *)
(* appended once, with the next number.  To make room, and only when the   *)
(* log is full, the oldest entry is given up.  Entries may be removed, for *)
(* good.                                                                   *)
(***************************************************************************)
EXTENDS Integers, FiniteSets

CONSTANT Capacity

VARIABLES log,      \* the set of entries held, records with a field seq
          next      \* the arrival number of the next entry

logVars == <<log, next>>

Init == log = {} /\ next = 0

\* The whole log if there is room for one more entry, otherwise all but one of
\* its entries, the one given up being older than every entry kept.
MakesRoom(kept) ==
  \/ /\ Cardinality(log) < Capacity
     /\ kept = log
  \/ /\ Cardinality(log) = Capacity
     /\ \E oldest \in log : /\ kept = log \ {oldest}
                            /\ \A e \in kept : oldest.seq < e.seq

AppendEntry ==
  \E e \in log' :
    /\ e.seq = next
    /\ \E kept \in SUBSET log : MakesRoom(kept) /\ log' = kept \cup {e}
    /\ next' = next + 1

Remove == log' \subseteq log /\ next' = next

Next == AppendEntry \/ Remove

Spec == Init /\ [][Next]_logVars
===============================================================================
