------------------------------ MODULE RelayServer ------------------------------
(***************************************************************************)
(* The relay (cpp/lili-relay/src/relay_server.cpp): one thread per client  *)
(* session runs handle_client_message, a thread prunes, an operator may    *)
(* call the public ban / allow / delete operations.  The threads share the *)
(* event deque (storage_mutex_), the rate-limit map (rate_mutex_), the     *)
(* configuration (no lock) and each other's sockets (no lock).             *)
(*                                                                         *)
(* A step is what a thread does between two points where another thread    *)
(* can see or disturb it: one critical section, or one frame written.  The *)
(* deque is a set of events numbered in order of arrival.                  *)
(***************************************************************************)
EXTENDS Integers, FiniteSets, Sequences

CONSTANTS
  NumSessions,    \* client sessions; their number is their place in sessions_
  Pubkeys, Ids,   \* author keys and event ids that occur in messages
  Submissions,    \* the events clients may send in an EVENT message
  Filters,        \* the filters clients may send in a REQ message
  Budget,         \* bound: how many messages each session's client sends
  SendBuf,        \* frames a socket buffers before send() blocks
  MayClose,       \* sessions whose client may hang up
  StartTime, MaxTime,           \* the clock's first value; bound: its last
  RateLimit, Window,            \* rate_limit_events, rate_limit_window_seconds
  MaxPerPubkey, MaxPerKind, MaxTotal, MaxSize,
  KindTtl, DefaultTtl,          \* kind_ttl, event_ttl_seconds
  AllowedKinds, BannedPubkeys,  \* the configuration's initial sets
  OpAllow, OpBan, OpPurge, OpDelete,  \* arguments of the operator's calls
  U64, U16        \* 2^64 and 2^16, the moduli of uint64_t and uint16_t

Sessions == 1..NumSessions

Forms == {"ok", "badHead", "badBody"}

SubmissionType ==
  [id : Ids, pubkey : Pubkeys, kind : Int, created_at : Int, size : Nat,
   form : Forms]

ASSUME ConstantsAssumption ==
  /\ NumSessions \in Nat \ {0}
  /\ Submissions \subseteq SubmissionType
  /\ Budget \in [Sessions -> Nat]
  /\ SendBuf \in Nat \ {0}
  /\ MayClose \subseteq Sessions
  /\ {StartTime, MaxTime, RateLimit, Window} \subseteq Nat
  /\ {MaxPerPubkey, MaxPerKind, MaxTotal, MaxSize} \subseteq Nat
  /\ Window <= StartTime
  /\ DOMAIN KindTtl \subseteq Nat /\ \A k \in DOMAIN KindTtl : KindTtl[k] \in Int
  /\ DefaultTtl \in Int
  /\ {U64, U16} \subseteq Nat \ {0}
  /\ MaxTime < U64
  /\ OpBan \subseteq Pubkeys /\ OpPurge \subseteq Pubkeys
  /\ OpDelete \subseteq Ids
  /\ BannedPubkeys \subseteq Pubkeys
  /\ AllowedKinds \cup OpAllow \subseteq 0..U16 - 1

\* A filter is the predicate it denotes: an absent field accepts everything.
ASSUME FiltersAssumption ==
  \A f \in Filters :
    /\ f = [kinds |-> f.kinds, authors |-> f.authors, ids |-> f.ids,
            form |-> f.form]
    /\ \A k \in f.kinds : k \in Int
    /\ f.authors \subseteq Pubkeys /\ f.ids \subseteq Ids /\ f.form \in Forms

VARIABLES
  events,     \* events_: the stored events, numbered by arrival
  nextSeq,    \* the number the next stored event gets
  stamps,     \* rate_limit_map_: per pubkey, the times of recorded events
  now,        \* time(nullptr)
  lock,       \* the session whose handler holds storage_mutex_ across steps, or 0
  banned,     \* config_.banned_pubkeys
  allowed,    \* config_.allowed_kinds
  pc,         \* where each session's thread is in handle_client_message
  job,        \* the message it handles
  cursor,     \* its loop index: next session to relay to, or next seq to examine
  handled,    \* how many messages it has taken up (numbers the requests)
  conn,       \* "up", "gone" (the peer hung up), "ended" (running_ is false)
  wire,       \* all frames the relay put on each session's socket
  read,       \* how many of them the peer has read
  crashed     \* an exception left a thread: std::terminate

store == <<events, nextSeq>>
config == <<banned, allowed>>
thread == <<pc, job, cursor, handled>>
net == <<conn, wire, read>>
vars == <<store, stamps, now, lock, config, thread, net, crashed>>

NoJob == [form |-> "none"]

StoredEvents ==
  [seq : Nat, id : Ids, pubkey : Pubkeys, kind : Nat, created_at : Nat]

Frames ==
  [type : {"ok", "live", "stored", "eose"}, from : Sessions, req : Nat,
   seq : Nat, id : Ids \cup {""}, pubkey : Pubkeys \cup {""}, at : Nat]

EventPcs == {"rate", "check", "store", "record", "ok", "cast"}
ReqPcs == {"lock", "stream"}

StorageTypeOK ==
  /\ events \subseteq StoredEvents /\ IsFiniteSet(events)
  /\ nextSeq \in Nat
  /\ stamps \in [Pubkeys -> Seq(Nat)]
  /\ now \in Nat /\ now >= StartTime
  /\ lock \in Sessions \cup {0}
  /\ banned \subseteq Pubkeys
  /\ allowed \subseteq AllowedKinds \cup OpAllow
  /\ crashed \in BOOLEAN

ThreadTypeOK ==
  /\ pc \in [Sessions -> {"idle"} \cup EventPcs \cup ReqPcs]
  /\ job \in [Sessions -> Submissions \cup Filters \cup {NoJob}]
  /\ cursor \in [Sessions -> Nat]
  /\ handled \in [Sessions -> Nat]
  /\ \A s \in Sessions : /\ pc[s] \in EventPcs => job[s] \in Submissions
                         /\ pc[s] \in ReqPcs => job[s] \in Filters
                         /\ pc[s] = "cast" => cursor[s] >= 1

NetTypeOK ==
  /\ conn \in [Sessions -> {"up", "gone", "ended"}]
  /\ wire \in [Sessions -> Seq(Frames)]
  /\ read \in [Sessions -> Nat]

TypeOK == StorageTypeOK /\ ThreadTypeOK /\ NetTypeOK

-------------------------------------------------------------------------------
(* The rules, as operators on values.  A name with an underscore is the rule  *)
(* below it with a plausible fault, which the properties must notice.         *)

Of(evs, pk) == {e \in evs : e.pubkey = pk}
OfKind(evs, k) == {e \in evs : e.kind = k}

\* What the handler keeps of an EVENT message: kind is narrowed to uint16_t, the
\* int created_at is widened to uint64_t.
Stored_Raw(m, seq) ==
  [seq |-> seq, id |-> m.id, pubkey |-> m.pubkey, kind |-> m.kind,
   created_at |-> m.created_at]
Stored(m, seq) ==
  [seq |-> seq, id |-> m.id, pubkey |-> m.pubkey, kind |-> m.kind % U16,
   created_at |-> m.created_at % U64]

TtlOf(kind) == IF kind \in DOMAIN KindTtl THEN KindTtl[kind] ELSE DefaultTtl

\* now - created_at is computed in uint64_t.
Age(e) == (now - e.created_at) % U64

IsOverAge_ZeroExpires(e) == Age(e) > TtlOf(e.kind)
IsOverAge_Never(e) == FALSE
IsOverAge(e) == TtlOf(e.kind) > 0 /\ Age(e) > TtlOf(e.kind)

Admissible_IgnoreBan(m) == m.kind % U16 \in allowed
Admissible(m) == m.pubkey \notin banned /\ m.kind % U16 \in allowed

CanStoreEvent_OffByOne(evs, m) ==
  /\ m.size <= MaxSize
  /\ Cardinality(evs) <= MaxTotal
  /\ Cardinality(OfKind(evs, m.kind % U16)) <= MaxPerKind
  /\ Cardinality(Of(evs, m.pubkey)) <= MaxPerPubkey
CanStoreEvent(evs, m) ==
  /\ m.size <= MaxSize
  /\ Cardinality(evs) < MaxTotal
  /\ Cardinality(OfKind(evs, m.kind % U16)) < MaxPerKind
  /\ Cardinality(Of(evs, m.pubkey)) < MaxPerPubkey

\* store_event pops the front while the deque is full: the newest MaxTotal - 1
\* events stay.
Newer(evs, e) == {f \in evs : f.seq > e.seq}
Evict_DropNewest(evs) ==
  {e \in evs : Cardinality({f \in evs : f.seq < e.seq}) < MaxTotal - 1}
Evict(evs) == {e \in evs : Cardinality(Newer(evs, e)) < MaxTotal - 1}

\* REQ: every field of the filter that is present accepts the event.
Matches(f, e) == e.kind \in f.kinds /\ e.pubkey \in f.authors /\ e.id \in f.ids
Selected(f, evs) == {e \in evs : Matches(f, e)}

-------------------------------------------------------------------------------
(* Sockets.  send() blocks while the buffer of a live peer is full; to a peer *)
(* that hung up it fails at once, and nobody looks at the result.            *)

CanSend_EvenGone(t) == Len(wire[t]) - read[t] < SendBuf
CanSend(t) == conn[t] = "up" => Len(wire[t]) - read[t] < SendBuf

Put(t, f) ==
  wire' = IF conn[t] = "up" THEN [wire EXCEPT ![t] = Append(@, f)] ELSE wire

Frame(type, s, seq, id, pk) ==
  [type |-> type, from |-> s, req |-> handled[s], seq |-> seq, id |-> id,
   pubkey |-> pk, at |-> now]

\* The threads of a process that std::terminate ended take no step.
In(s, label) == pc[s] = label /\ ~crashed
StorageFree == lock = 0 /\ ~crashed

-------------------------------------------------------------------------------
Init ==
  /\ events = {} /\ nextSeq = 0
  /\ stamps = [pk \in Pubkeys |-> <<>>]
  /\ now = StartTime
  /\ lock = 0
  /\ banned = BannedPubkeys /\ allowed = AllowedKinds
  /\ pc = [s \in Sessions |-> "idle"]
  /\ job = [s \in Sessions |-> NoJob]
  /\ cursor = [s \in Sessions |-> 0]
  /\ handled = [s \in Sessions |-> 0]
  /\ conn = [s \in Sessions |-> "up"]
  /\ wire = [s \in Sessions |-> <<>>]
  /\ read = [s \in Sessions |-> 0]
  /\ crashed = FALSE

Goto(s, label) == pc' = [pc EXCEPT ![s] = label]
Return(s) == Goto(s, "idle") /\ job' = [job EXCEPT ![s] = NoJob]
Terminate == crashed' = TRUE

\* The session thread hands the next message to handle_client_message.
TakeUp(s, m) ==
  /\ In(s, "idle") /\ conn[s] # "ended" /\ handled[s] < Budget[s]
  /\ handled' = [handled EXCEPT ![s] = @ + 1]
  /\ cursor' = [cursor EXCEPT ![s] = 0]

\* EVENT, up to the ban and kind checks; a refused event is dropped silently.
\* Reading pubkey or kind from an ill-typed event throws, and nothing catches.
HandleEvent(s) ==
  \E m \in Submissions :
    /\ TakeUp(s, m)
    /\ IF m.form = "badHead" THEN Terminate /\ UNCHANGED <<pc, job>>
       ELSE /\ IF Admissible(m)
                 THEN Goto(s, "rate") /\ job' = [job EXCEPT ![s] = m]
                 ELSE UNCHANGED <<pc, job>>
            /\ UNCHANGED crashed
    /\ UNCHANGED <<store, stamps, now, lock, config, net>>

\* Stamps older than the window leave the front of the deque: the first k of ts.
ExpiredPrefix(ts, k) ==
  /\ \A i \in 1..k : ts[i] < now - Window
  /\ k < Len(ts) => ts[k + 1] >= now - Window

WithinRate_OffByOne(ts) == Len(ts) <= RateLimit
WithinRate(ts) == Len(ts) < RateLimit

CheckRateLimit(s) ==
  LET m == job[s]
  IN /\ In(s, "rate")
     /\ \E k \in 0..Len(stamps[m.pubkey]) :
          /\ ExpiredPrefix(stamps[m.pubkey], k)
          /\ stamps' = [stamps EXCEPT ![m.pubkey] = SubSeq(@, k + 1, Len(@))]
     /\ IF ~WithinRate(stamps'[m.pubkey]) THEN Return(s) /\ UNCHANGED crashed
        ELSE IF m.form = "badBody" THEN Terminate /\ UNCHANGED <<pc, job>>
        ELSE Goto(s, "check") /\ UNCHANGED <<job, crashed>>
     /\ UNCHANGED <<store, now, lock, config, cursor, handled, net>>

\* can_store_event locks storage_mutex_, decides, and unlocks ...
CanStore(s) ==
  /\ In(s, "check") /\ StorageFree
  /\ Goto(s, IF CanStoreEvent(events, job[s]) THEN "store" ELSE "ok")
  /\ UNCHANGED <<store, stamps, now, lock, config, job, cursor, handled, net,
                 crashed>>

\* ... and store_event locks it again: the decision may be stale by then.
StoreEvent(s) ==
  /\ In(s, "store") /\ StorageFree
  /\ events' = Evict(events) \cup {Stored(job[s], nextSeq)}
  /\ nextSeq' = nextSeq + 1
  /\ Goto(s, "record")
  /\ UNCHANGED <<stamps, now, lock, config, job, cursor, handled, net, crashed>>

RecordEvent(s) ==
  /\ In(s, "record")
  /\ stamps' = [stamps EXCEPT ![job[s].pubkey] = Append(@, now)]
  /\ Goto(s, "ok")
  /\ UNCHANGED <<store, now, lock, config, job, cursor, handled, net, crashed>>

\* OK true goes back to the sender whether or not the event was stored.
ReplyOk(s) ==
  /\ In(s, "ok") /\ CanSend(s)
  /\ Put(s, Frame("ok", s, 0, job[s].id, job[s].pubkey))
  /\ Goto(s, "cast")
  /\ cursor' = [cursor EXCEPT ![s] = 1]
  /\ UNCHANGED <<store, stamps, now, lock, config, job, handled, conn, read,
                 crashed>>

\* One turn of the loop over sessions_: relay to a running session other than
\* the sender, skip the others.
IsTarget_Everyone(s, t) == conn[t] # "ended"
IsTarget(s, t) == t # s /\ conn[t] # "ended"

Broadcast(s) ==
  LET t == cursor[s]
  IN /\ In(s, "cast") /\ t <= NumSessions
     /\ cursor' = [cursor EXCEPT ![s] = t + 1]
     /\ IF IsTarget(s, t)
          THEN CanSend(t) /\ Put(t, Frame("live", s, 0, job[s].id, job[s].pubkey))
          ELSE UNCHANGED wire
     /\ UNCHANGED <<store, stamps, now, lock, config, pc, job, handled, conn,
                    read, crashed>>

FinishEvent(s) ==
  /\ In(s, "cast") /\ cursor[s] > NumSessions
  /\ Return(s)
  /\ UNCHANGED <<store, stamps, now, lock, config, cursor, handled, net, crashed>>

HandleReq(s) ==
  \E f \in Filters :
    /\ TakeUp(s, f)
    /\ IF f.form = "badHead" THEN Terminate /\ UNCHANGED <<pc, job>>
       ELSE /\ Goto(s, "lock") /\ job' = [job EXCEPT ![s] = f]
            /\ UNCHANGED crashed
    /\ UNCHANGED <<store, stamps, now, lock, config, net>>

\* The lock_guard of the REQ branch.  A filter with an ill-typed field throws
\* when the first event is held against it.
AcquireLock_NoLock(s) ==
  /\ In(s, "lock") /\ StorageFree
  /\ Goto(s, "stream")
  /\ UNCHANGED <<lock, store, stamps, now, config, job, cursor, handled, net, crashed>>
AcquireLock(s) ==
  /\ In(s, "lock") /\ StorageFree
  /\ lock' = s
  /\ Goto(s, "stream")
  /\ crashed' = (job[s].form = "badBody" /\ events # {})
  /\ UNCHANGED <<store, stamps, now, config, job, cursor, handled, net>>

Unsent(s) == {e \in Selected(job[s], events) : e.seq >= cursor[s]}

\* The loop over events_ finds its next match and sends it, under the lock.
StreamMatch(s) ==
  /\ In(s, "stream") /\ CanSend(s)
  /\ \E e \in Unsent(s) :
       /\ \A f \in Unsent(s) : e.seq <= f.seq
       /\ Put(s, Frame("stored", s, e.seq, e.id, e.pubkey))
       /\ cursor' = [cursor EXCEPT ![s] = e.seq + 1]
  /\ UNCHANGED <<store, stamps, now, lock, config, pc, job, handled, conn, read,
                 crashed>>

SendEose(s) ==
  /\ In(s, "stream") /\ Unsent(s) = {} /\ CanSend(s)
  /\ Put(s, Frame("eose", s, 0, "", ""))
  /\ lock' = 0
  /\ Return(s)
  /\ UNCHANGED <<store, stamps, now, config, cursor, handled, conn, read, crashed>>

\* The read loop of a session whose peer hung up sees it once the handler has
\* returned; messages that were already in the socket may come first.
EndSession(s) ==
  /\ In(s, "idle") /\ conn[s] = "gone"
  /\ conn' = [conn EXCEPT ![s] = "ended"]
  /\ UNCHANGED <<store, stamps, now, lock, config, thread, wire, read, crashed>>

-------------------------------------------------------------------------------
\* prune_old_events, run by the prune thread between sleeps.
Prune ==
  /\ StorageFree
  /\ events' = {e \in events : ~IsOverAge(e)}
  /\ UNCHANGED <<nextSeq, stamps, now, lock, config, thread, net, crashed>>

\* The public operations.
BanPubkey(pk) ==
  /\ ~crashed
  /\ banned' = banned \cup {pk}
  /\ UNCHANGED <<store, stamps, now, lock, allowed, thread, net, crashed>>

AllowEventKind(k) ==
  /\ ~crashed
  /\ allowed' = allowed \cup {k}
  /\ UNCHANGED <<store, stamps, now, lock, banned, thread, net, crashed>>

DeleteEventsByPubkey(pk) ==
  /\ StorageFree
  /\ events' = events \ Of(events, pk)
  /\ UNCHANGED <<nextSeq, stamps, now, lock, config, thread, net, crashed>>

DeleteEventById(id) ==
  /\ StorageFree
  /\ events' = {e \in events : e.id # id}
  /\ UNCHANGED <<nextSeq, stamps, now, lock, config, thread, net, crashed>>

\* The environment: clients read and hang up, time passes.
ClientRead(s) ==
  /\ ~crashed /\ conn[s] = "up" /\ read[s] < Len(wire[s])
  /\ read' = [read EXCEPT ![s] = @ + 1]
  /\ UNCHANGED <<store, stamps, now, lock, config, thread, conn, wire, crashed>>

PeerClose(s) ==
  /\ ~crashed /\ s \in MayClose /\ conn[s] = "up"
  /\ conn' = [conn EXCEPT ![s] = "gone"]
  /\ UNCHANGED <<store, stamps, now, lock, config, thread, wire, read, crashed>>

Tick ==
  /\ now < MaxTime /\ ~crashed
  /\ now' = now + 1
  /\ UNCHANGED <<store, stamps, lock, config, thread, net, crashed>>

-------------------------------------------------------------------------------
\* The steps of a handler that has taken up a message.
Handler(s) ==
  \/ CheckRateLimit(s) \/ CanStore(s) \/ StoreEvent(s) \/ RecordEvent(s)
  \/ ReplyOk(s) \/ Broadcast(s) \/ FinishEvent(s)
  \/ AcquireLock(s) \/ StreamMatch(s) \/ SendEose(s)

Operator ==
  \/ \E pk \in OpBan : BanPubkey(pk)
  \/ \E k \in OpAllow : AllowEventKind(k)
  \/ \E pk \in OpPurge : DeleteEventsByPubkey(pk)
  \/ \E id \in OpDelete : DeleteEventById(id)

Next ==
  \/ \E s \in Sessions :
       \/ HandleEvent(s) \/ HandleReq(s) \/ Handler(s) \/ EndSession(s)
       \/ ClientRead(s) \/ PeerClose(s)
  \/ Prune \/ Operator \/ Tick

Spec == Init /\ [][Next]_vars

\* Threads that can run do run; the peers' receive threads keep reading; the
\* prune thread comes round again.
Fairness ==
  /\ \A s \in Sessions : WF_vars(Handler(s))
  /\ \A s \in Sessions : WF_vars(ClientRead(s))
  /\ WF_vars(Prune)

FairSpec == Spec /\ Fairness

-------------------------------------------------------------------------------
(* Safety.                                                                   *)

At(pcs, pk) == {s \in Sessions : pc[s] \in pcs /\ job[s].pubkey = pk}

\* -m: the deque never holds more than max_total_events, however can_store_event
\* and store_event of several sessions interleave (relay_server.cpp:130).
TotalBound == Cardinality(events) <= MaxTotal

\* -k: max_events_per_pubkey is checked in one critical section and used in
\* another (lines 106 and 127), so each further session that passed the check in
\* between can add one event too many, and no more than one.
PubkeyQuota ==
  \A pk \in Pubkeys :
    Cardinality(Of(events, pk)) <= MaxPerPubkey + (NumSessions - 1)

\* -s: the same for max_events_per_kind.
KindQuota ==
  \A k \in allowed :
    Cardinality(OfKind(events, k)) <= MaxPerKind + (NumSessions - 1)

\* Both quotas of can_store_event, up to the race between the check and its use
\* (relay_server.cpp:106-125, 260).
Quotas == PubkeyQuota /\ KindQuota

\* -r, -w: check_rate_limit and record_event are separate critical sections
\* (lines 84 and 101): the events recorded for a pubkey and not yet out of the
\* window exceed the limit by at most one for each further session.
RateBound ==
  \A pk \in Pubkeys : Len(stamps[pk]) <= RateLimit + (NumSessions - 1)

\* The inductive invariant behind the four bounds: what is stored or charged
\* and what the handlers past the check may still add stay together within the
\* bound.
ChargePcs == {"check", "store", "record"}
StoringKind(k) == {s \in Sessions : pc[s] = "store" /\ job[s].kind % U16 = k}

NumberedOnce ==
  /\ \A e \in events : e.seq < nextSeq
  /\ \A e, f \in events : e.seq = f.seq => e = f

RoomInv == \A s \in Sessions : pc[s] = "store" => MaxTotal >= 1

PubkeyInv ==
  \A pk \in Pubkeys :
    Cardinality(Of(events, pk)) + Cardinality(At({"store"}, pk))
      <= MaxPerPubkey + (NumSessions - 1)

KindInv ==
  \A k \in 0..U16 - 1 :
    Cardinality(OfKind(events, k)) + Cardinality(StoringKind(k))
      <= MaxPerKind + (NumSessions - 1)

RateInv ==
  \A pk \in Pubkeys :
    Len(stamps[pk]) + Cardinality(At(ChargePcs, pk))
      <= RateLimit + (NumSessions - 1)

IInv ==
  /\ TypeOK /\ NumberedOnce /\ TotalBound /\ RoomInv
  /\ PubkeyInv /\ KindInv /\ RateInv

\* What the help text says of -r (main.cpp:24), of the events that reach the
\* other clients: no client is relayed more than the limit of one pubkey's
\* events within a window.
RelayedWithinRate ==
  \A t \in Sessions, pk \in Pubkeys :
    Cardinality({i \in DOMAIN wire[t] :
                   /\ wire[t][i].type = "live" /\ wire[t][i].pubkey = pk
                   /\ wire[t][i].at >= now - Window}) <= RateLimit

-------------------------------------------------------------------------------
(* Action properties.                                                        *)

\* A REQ is answered from one state of the storage although other threads keep
\* storing and pruning while its frames are written one by one: when EOSE is
\* sent, the frames sent for this request are the matching events stored at
\* that moment, each once, in order of arrival (relay_server.cpp:281-330).
SnapshotExact ==
  [][\A s \in Sessions :
       (pc[s] = "stream" /\ pc'[s] = "idle" /\ conn[s] = "up") =>
         LET reply == {i \in DOMAIN wire'[s] : /\ wire'[s][i].type = "stored"
                                               /\ wire'[s][i].req = handled[s]}
         IN /\ {wire'[s][i].seq : i \in reply} =
                 {e.seq : e \in Selected(job[s], events')}
            /\ \A i, j \in reply : i < j => wire'[s][i].seq < wire'[s][j].seq]_vars

\* When the handler of an EVENT returns after relaying it, every other client
\* that is still connected got the event exactly once, and the sender did not
\* (relay_server.cpp:271-275).
BroadcastExactlyOnce ==
  [][\A s \in Sessions :
       (pc[s] = "cast" /\ pc'[s] = "idle") =>
         \A t \in Sessions :
           LET copies == {i \in DOMAIN wire'[t] :
                            /\ wire'[t][i].type = "live" /\ wire'[t][i].from = s
                            /\ wire'[t][i].req = handled[s]}
           IN conn'[t] = "up" =>
                Cardinality(copies) = (IF t = s THEN 0 ELSE 1)]_vars

\* A pubkey that is banned, has no event in the storage and none in a handler
\* past the ban check.
Purged(pk) ==
  /\ pk \in banned
  /\ Of(events, pk) = {}
  /\ At(EventPcs, pk) = {}

\* --ban, ban_pubkey and delete_events_by_pubkey: once a banned pubkey is
\* purged and the handlers that had already passed the ban check have returned,
\* none of its events is ever handled or stored again.
PurgedStaysPurged == [][\A pk \in Pubkeys : Purged(pk) => Purged(pk)']_vars

\* The TTLs (main.cpp:30-39): an event stays until it is older than its TTL, for
\* ever if the TTL is 0.  Ages are those of the clock, without wrap-around.
Expired(e) == TtlOf(e.kind) > 0 /\ now - e.created_at > TtlOf(e.kind)
KeptUntilExpired == [][\A e \in events : e \in events' \/ Expired(e)]_vars

\* The storage is a bounded log: numbered arrivals, the oldest given up first and
\* only when full, and what is gone does not come back.
Log == INSTANCE EventLog WITH log <- events, next <- nextSeq, Capacity <- MaxTotal
ImplementsLog == Log!Spec

-------------------------------------------------------------------------------
(* Liveness, under FairSpec.                                                 *)

\* Every message that is taken up is handled to the end, although handlers wait
\* for the storage mutex and for each other's clients to read.
Served == \A s \in Sessions : pc[s] # "idle" ~> (pc[s] = "idle" \/ crashed)

\* Every stored event that is over age is removed at last.
OverAgeGone ==
  \A seq \in 0..MaxTime :
    (\E e \in events : e.seq = seq /\ Expired(e)) ~>
      (crashed \/ \A e \in events : e.seq # seq)
===============================================================================
