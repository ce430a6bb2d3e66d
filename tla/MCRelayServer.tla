---------------------------- MODULE MCRelayServer ----------------------------
(***************************************************************************)
(* Small instances of RelayServer for TLC.  Kinds 1 and 2 are allowed;     *)
(* events of kind 2 are kept for ever.  The moduli are 2^4 and 2^3, so     *)
(* kind -7 is stored as kind 1 and an event from the future has a large age.*)
(***************************************************************************)
EXTENDS RelayServer, TLC

TwoKeys == {"alice", "bob"}
TwoIds == {"i1", "i2"}
Ttls == (1 :> 2) @@ (2 :> 0)

Event(id, pk, kind, created) ==
  [id |-> id, pubkey |-> pk, kind |-> kind, created_at |-> created, size |-> 1,
   form |-> "ok"]

Note == Event("i1", "alice", 1, 2)
WrappedKind == Event("i2", "alice", -7, 3)
OldNote == Event("i2", "bob", 1, 0)
Badge == Event("i2", "alice", 2, 2)
BobsBadge == Event("i2", "bob", 2, 2)
Forbidden == Event("i2", "bob", 3, 2)
Huge == [Note EXCEPT !.size = 9]
IllTypedId == [Note EXCEPT !.form = "badBody"]
IllTypedKind == [Note EXCEPT !.form = "badHead"]

Everything == [kinds |-> 0..7, authors |-> TwoKeys, ids |-> TwoIds, form |-> "ok"]
NotesOnly == [Everything EXCEPT !.kinds = {1}]
IllTypedFilter == [Everything EXCEPT !.form = "badBody"]
IllTypedSubId == [Everything EXCEPT !.form = "badHead"]

\* Submissions, filters and budgets of the runs
Racing == {Note, WrappedKind, BobsBadge}
Aging == {OldNote, Badge, IllTypedId}
ByTwoKeys == {Note, Badge, Forbidden}
HugeOnly == {Huge}
NoFilters == {}
NotesFilter == {NotesOnly}
IllTypedFilters == {Everything, IllTypedFilter, IllTypedSubId}
Once == [s \in Sessions |-> 1]
FirstOnlyTwice == [s \in Sessions |-> IF s = 1 THEN 2 ELSE 0]
TwiceThenOnce == [s \in Sessions |-> IF s = 1 THEN 2 ELSE 1]
==============================================================================
