--------------------------------- MODULE MCChat ---------------------------------
(***************************************************************************)
(* Chat for TLC: one node that names a relay and one that names none.       *)
(***************************************************************************)
EXTENDS Chat

CONSTANTS u1, u2

OneOfTwo == <<u1, NoUrl>>

-------------------------------------------------------------------------------
(* The VIEW leaves out what neither a property nor a later step can read.     *)

\* The view is drawn again, by the handler under way or by a queued refresh_chat, before
\* anything is Quiet; both end with the program.
Redrawn == refreshes > 0 \/ gpc \notin {"idle", "drop", "dial", "saveNodes"}

\* Every dial sets strayed, or follows a start; where a strayed link leads is not asked.
LinkView ==
  IF ~connected /\ gpc \notin {"drop", "dial"} THEN <<url # NoUrl>>
  ELSE <<strayed, IF strayed THEN <<url # NoUrl>> ELSE <<url, want>> >>

\* A connection is asked about the open node only; opening a node that names a relay
\* makes another one.
Asked == connected /\ current \in subs /\ Home[current] # NoUrl

InUse == UNION {Elements(messages), Elements(rest), UNION {Elements(Loaded(files[n])) : n \in Ids}}

StateView ==
  <<gpc, nodes, nodeFile, nodesStale, made, nodesLost, current, messages, rest, files, harm,
    rpc, inhand, arrivals, connected, dials, statuses, refreshes, sends, faults,
    LinkView, Asked,
    IF Redrawn THEN <<>> ELSE shown,
    stale /\ current \notin harm,
    {m \in said : m.node \notin harm},
    late \cap InUse,
    IF nodesLost THEN {} ELSE owned>>
===============================================================================
