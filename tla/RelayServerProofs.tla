--------------------------- MODULE RelayServerProofs ---------------------------
(***************************************************************************)
(* Theorems about RelayServer, for any number of sessions and any limits.  *)
(***************************************************************************)
EXTENDS RelayServer, FiniteSetTheorems, WellFoundedInduction, TLAPS

-------------------------------------------------------------------------------
(* Types.                                                                    *)

\* Writing a frame keeps the wires sequences of frames.
LEMMA PutType ==
  ASSUME NetTypeOK, NEW t \in Sessions, NEW f \in Frames, Put(t, f)
  PROVE  wire' \in [Sessions -> Seq(Frames)]
BY DEF NetTypeOK, Put

\* The frames the handlers build are frames.
LEMMA FrameType ==
  ASSUME TypeOK, NEW s \in Sessions,
         NEW type \in {"ok", "live", "stored", "eose"}, NEW seq \in Nat,
         NEW id \in Ids \cup {""}, NEW pk \in Pubkeys \cup {""}
  PROVE  Frame(type, s, seq, id, pk) \in Frames
BY DEF TypeOK, StorageTypeOK, ThreadTypeOK, Frame, Frames

\* A message in a handler of EVENT has the fields of a submission.
LEMMA JobType ==
  ASSUME ThreadTypeOK, NEW s \in Sessions, pc[s] \in EventPcs
  PROVE  /\ job[s] \in Submissions
         /\ job[s].id \in Ids /\ job[s].pubkey \in Pubkeys
         /\ job[s].kind \in Int /\ job[s].created_at \in Int
BY ConstantsAssumption DEF ThreadTypeOK, SubmissionType

\* The event built from a submission is a stored event.
LEMMA StoredType ==
  ASSUME NEW m \in Submissions, NEW seq \in Nat
  PROVE  Stored(m, seq) \in StoredEvents
<1>1. m.kind % U16 \in Nat /\ m.created_at % U64 \in Nat
  BY ConstantsAssumption DEF SubmissionType
<1> QED BY <1>1, ConstantsAssumption DEF Stored, StoredEvents, SubmissionType

\* A thread that goes to another place with a message that belongs there keeps
\* the threads well typed.
LEMMA GotoType ==
  ASSUME ThreadTypeOK, NEW s \in Sessions,
         NEW l \in {"idle"} \cup EventPcs \cup ReqPcs,
         NEW j \in Submissions \cup Filters \cup {NoJob}, NEW c \in Nat,
         l \in EventPcs => j \in Submissions,
         l \in ReqPcs => j \in Filters,
         l = "cast" => c >= 1,
         pc' = [pc EXCEPT ![s] = l],
         job' = [job EXCEPT ![s] = j],
         cursor' = [cursor EXCEPT ![s] = c],
         handled' \in [Sessions -> Nat]
  PROVE  ThreadTypeOK'
BY DEF ThreadTypeOK

\* What a thread holds when it does not move.
LEMMA StayType ==
  ASSUME ThreadTypeOK, NEW s \in Sessions
  PROVE  /\ [pc EXCEPT ![s] = pc[s]] = pc
         /\ [job EXCEPT ![s] = job[s]] = job
         /\ [cursor EXCEPT ![s] = cursor[s]] = cursor
         /\ pc[s] \in {"idle"} \cup EventPcs \cup ReqPcs
         /\ job[s] \in Submissions \cup Filters \cup {NoJob}
         /\ cursor[s] \in Nat
         /\ pc[s] = "cast" => cursor[s] >= 1
BY DEF ThreadTypeOK

\* A message that is refused or ignored: the thread stays idle.
LEMMA IdleType ==
  ASSUME ThreadTypeOK, NEW s \in Sessions, pc[s] = "idle",
         UNCHANGED <<pc, job>>, cursor' = [cursor EXCEPT ![s] = 0],
         handled' \in [Sessions -> Nat]
  PROVE  ThreadTypeOK'
BY DEF ThreadTypeOK

\* A step that leaves the storage alone.
LEMMA StorageStays ==
  ASSUME StorageTypeOK, UNCHANGED <<store, stamps, now, lock, config, crashed>>
  PROVE  StorageTypeOK'
BY DEF StorageTypeOK, store, config

\* Removing events keeps the storage well typed.
LEMMA FewerEvents ==
  ASSUME StorageTypeOK, events' \subseteq events
  PROVE  events' \subseteq StoredEvents /\ IsFiniteSet(events')
BY FS_Subset DEF StorageTypeOK

\* The relay starts well typed.
LEMMA InitType == Init => TypeOK
<1> SUFFICES ASSUME Init PROVE TypeOK
  OBVIOUS
<1>1. StorageTypeOK
  <2>1. IsFiniteSet(events) /\ events \subseteq StoredEvents
    BY FS_EmptySet DEF Init
  <2>2. StartTime \in Nat /\ BannedPubkeys \subseteq Pubkeys
    BY ConstantsAssumption
  <2>3. stamps \in [Pubkeys -> Seq(Nat)]
    BY DEF Init
  <2>4. now \in Nat /\ now >= StartTime
    BY <2>2 DEF Init
  <2> QED BY <2>1, <2>2, <2>3, <2>4 DEF Init, StorageTypeOK
<1>2. ThreadTypeOK
  BY DEF Init, ThreadTypeOK, EventPcs, ReqPcs
<1>3. NetTypeOK
  BY DEF Init, NetTypeOK
<1> QED BY <1>1, <1>2, <1>3 DEF TypeOK

\* Every step of a handler, of the prune thread, of the operator and of the
\* environment keeps the state well typed: one step of the proof per action.
LEMMA NextType == TypeOK /\ [Next]_vars => TypeOK'
<1> SUFFICES ASSUME TypeOK, [Next]_vars PROVE TypeOK'
  OBVIOUS
<1> USE DEF store, config, thread, net, TypeOK
<1>1. ASSUME NEW s \in Sessions, HandleEvent(s) PROVE TypeOK'
  <2>1. PICK m \in Submissions :
          /\ TakeUp(s, m)
          /\ \/ UNCHANGED <<pc, job>>
             \/ pc' = [pc EXCEPT ![s] = "rate"] /\ job' = [job EXCEPT ![s] = m]
          /\ crashed' \in BOOLEAN
    BY <1>1 DEF HandleEvent, Goto, Terminate, StorageTypeOK
  <2>2. UNCHANGED <<store, stamps, now, lock, config, net>>
    BY <1>1 DEF HandleEvent
  <2>3. pc[s] = "idle" /\ handled' \in [Sessions -> Nat]
        /\ cursor' = [cursor EXCEPT ![s] = 0]
    BY <2>1 DEF TakeUp, In, ThreadTypeOK
  <2>4. CASE UNCHANGED <<pc, job>>
    <3>1. ThreadTypeOK'
      BY <2>3, <2>4, IdleType
    <3> QED BY <2>1, <2>2, <3>1 DEF StorageTypeOK, NetTypeOK
  <2>5. CASE pc' = [pc EXCEPT ![s] = "rate"] /\ job' = [job EXCEPT ![s] = m]
    <3>1. ThreadTypeOK'
      BY <2>3, <2>5, GotoType DEF EventPcs, ReqPcs
    <3> QED BY <2>1, <2>2, <3>1 DEF StorageTypeOK, NetTypeOK
  <2> QED BY <2>1, <2>4, <2>5
<1>2. ASSUME NEW s \in Sessions, HandleReq(s) PROVE TypeOK'
  <2>1. PICK f \in Filters :
          /\ TakeUp(s, f)
          /\ \/ UNCHANGED <<pc, job>>
             \/ pc' = [pc EXCEPT ![s] = "lock"] /\ job' = [job EXCEPT ![s] = f]
          /\ crashed' \in BOOLEAN
    BY <1>2 DEF HandleReq, Goto, Terminate, StorageTypeOK
  <2>2. UNCHANGED <<store, stamps, now, lock, config, net>>
    BY <1>2 DEF HandleReq
  <2>3. pc[s] = "idle" /\ handled' \in [Sessions -> Nat]
        /\ cursor' = [cursor EXCEPT ![s] = 0]
    BY <2>1 DEF TakeUp, In, ThreadTypeOK
  <2>4. CASE UNCHANGED <<pc, job>>
    <3>1. ThreadTypeOK'
      BY <2>3, <2>4, IdleType
    <3> QED BY <2>1, <2>2, <3>1 DEF StorageTypeOK, NetTypeOK
  <2>5. CASE pc' = [pc EXCEPT ![s] = "lock"] /\ job' = [job EXCEPT ![s] = f]
    <3>1. ThreadTypeOK'
      BY <2>3, <2>5, GotoType DEF EventPcs, ReqPcs
    <3> QED BY <2>1, <2>2, <3>1 DEF StorageTypeOK, NetTypeOK
  <2> QED BY <2>1, <2>4, <2>5
<1>3. ASSUME NEW s \in Sessions, CheckRateLimit(s) PROVE TypeOK'
  <2>1. /\ job[s] \in Submissions /\ job[s].pubkey \in Pubkeys
        /\ pc[s] = "rate"
    BY <1>3, JobType DEF CheckRateLimit, In, EventPcs
  <2>2. stamps' \in [Pubkeys -> Seq(Nat)]
    <3> DEFINE ts == stamps[job[s].pubkey]
    <3>1. ts \in Seq(Nat)
      BY <2>1 DEF StorageTypeOK
    <3>2. PICK k \in 0..Len(ts) :
            stamps' = [stamps EXCEPT ![job[s].pubkey] = SubSeq(ts, k + 1, Len(ts))]
      BY <1>3 DEF CheckRateLimit
    <3>3. SubSeq(ts, k + 1, Len(ts)) \in Seq(Nat)
      BY <3>1
    <3> QED BY <3>2, <3>3 DEF StorageTypeOK
  <2>3. /\ \/ UNCHANGED <<pc, job>>
           \/ pc' = [pc EXCEPT ![s] = "idle"] /\ job' = [job EXCEPT ![s] = NoJob]
           \/ pc' = [pc EXCEPT ![s] = "check"] /\ job' = job
        /\ crashed' \in BOOLEAN
    BY <1>3 DEF CheckRateLimit, Return, Terminate, Goto, StorageTypeOK
  <2>4. UNCHANGED <<store, now, lock, config, cursor, handled, net>>
    BY <1>3 DEF CheckRateLimit
  <2>5. ThreadTypeOK'
    BY <2>1, <2>3, <2>4 DEF ThreadTypeOK, EventPcs, ReqPcs
  <2> QED BY <2>2, <2>3, <2>4, <2>5 DEF StorageTypeOK, NetTypeOK
<1>4. ASSUME NEW s \in Sessions, CanStore(s) PROVE TypeOK'
  <2>1. ThreadTypeOK'
    BY <1>4 DEF CanStore, In, Goto, ThreadTypeOK, EventPcs, ReqPcs
  <2> QED BY <1>4, <2>1 DEF CanStore, StorageTypeOK, NetTypeOK
<1>5. ASSUME NEW s \in Sessions, StoreEvent(s) PROVE TypeOK'
  <2>1. job[s] \in Submissions
    BY <1>5, JobType DEF StoreEvent, In, EventPcs
  <2>2. events' \subseteq StoredEvents
    BY <1>5, <2>1, StoredType DEF StoreEvent, Evict, StorageTypeOK
  <2>3. IsFiniteSet(events')
    BY <1>5, FS_Subset, FS_AddElement DEF StoreEvent, Evict, StorageTypeOK
  <2>4. ThreadTypeOK'
    BY <1>5 DEF StoreEvent, In, Goto, ThreadTypeOK, EventPcs, ReqPcs
  <2> QED BY <1>5, <2>2, <2>3, <2>4 DEF StoreEvent, StorageTypeOK, NetTypeOK
<1>6. ASSUME NEW s \in Sessions, RecordEvent(s) PROVE TypeOK'
  <2>1. job[s].pubkey \in Pubkeys
    BY <1>6, JobType DEF RecordEvent, In, EventPcs
  <2>2. stamps' \in [Pubkeys -> Seq(Nat)]
    BY <1>6, <2>1 DEF RecordEvent, StorageTypeOK
  <2>3. ThreadTypeOK'
    BY <1>6 DEF RecordEvent, In, Goto, ThreadTypeOK, EventPcs, ReqPcs
  <2> QED BY <1>6, <2>2, <2>3 DEF RecordEvent, StorageTypeOK, NetTypeOK
<1>7. ASSUME NEW s \in Sessions, ReplyOk(s) PROVE TypeOK'
  <2>1. wire' \in [Sessions -> Seq(Frames)]
    BY <1>7, JobType, FrameType, PutType DEF ReplyOk, In, EventPcs
  <2>2. ThreadTypeOK'
    BY <1>7
    DEF ReplyOk, In, Goto, ThreadTypeOK, EventPcs, ReqPcs
  <2> QED BY <1>7, <2>1, <2>2 DEF ReplyOk, StorageTypeOK, NetTypeOK
<1>8. ASSUME NEW s \in Sessions, Broadcast(s) PROVE TypeOK'
  <2>0. /\ pc[s] = "cast" /\ cursor[s] <= NumSessions
        /\ cursor' = [cursor EXCEPT ![s] = @ + 1]
    BY <1>8 DEF Broadcast, In
  <2>1. /\ pc[s] = "cast" /\ cursor[s] \in Sessions
        /\ cursor' = [cursor EXCEPT ![s] = @ + 1]
    <3>1. cursor[s] \in Nat /\ cursor[s] >= 1
      BY <2>0 DEF ThreadTypeOK
    <3> QED BY <2>0, <3>1, ConstantsAssumption DEF Sessions
  <2>2. wire' \in [Sessions -> Seq(Frames)]
    <3>1. CASE ~IsTarget(s, cursor[s])
      BY <1>8, <3>1 DEF Broadcast, NetTypeOK
    <3>2. CASE IsTarget(s, cursor[s])
      BY <1>8, <2>1, <3>2, JobType, FrameType, PutType
      DEF Broadcast, EventPcs
    <3> QED BY <3>1, <3>2
  <2>3. ThreadTypeOK'
    BY <1>8, <2>1 DEF Broadcast, ThreadTypeOK, EventPcs, ReqPcs
  <2> QED BY <1>8, <2>2, <2>3 DEF Broadcast, StorageTypeOK, NetTypeOK
<1>9. ASSUME NEW s \in Sessions, FinishEvent(s) PROVE TypeOK'
  <2>1. ThreadTypeOK'
    BY <1>9 DEF FinishEvent, Return, Goto, ThreadTypeOK, EventPcs, ReqPcs
  <2> QED BY <1>9, <2>1 DEF FinishEvent, StorageTypeOK, NetTypeOK
<1>10. ASSUME NEW s \in Sessions, AcquireLock(s) PROVE TypeOK'
  <2>1. ThreadTypeOK'
    BY <1>10 DEF AcquireLock, In, Goto, ThreadTypeOK, EventPcs, ReqPcs
  <2> QED BY <1>10, <2>1 DEF AcquireLock, StorageTypeOK, NetTypeOK
<1>11. ASSUME NEW s \in Sessions, StreamMatch(s) PROVE TypeOK'
  <2>1. PICK e \in Unsent(s) :
          /\ Put(s, Frame("stored", s, e.seq, e.id, e.pubkey))
          /\ cursor' = [cursor EXCEPT ![s] = e.seq + 1]
    BY <1>11 DEF StreamMatch
  <2>2. e.seq \in Nat /\ e.id \in Ids /\ e.pubkey \in Pubkeys
    BY DEF Unsent, Selected, StoredEvents, StorageTypeOK
  <2>3. wire' \in [Sessions -> Seq(Frames)]
    BY <2>1, <2>2, FrameType, PutType
  <2>4. ThreadTypeOK'
    BY <1>11, <2>1, <2>2 DEF StreamMatch, ThreadTypeOK, EventPcs, ReqPcs
  <2> QED BY <1>11, <2>3, <2>4 DEF StreamMatch, StorageTypeOK, NetTypeOK
<1>12. ASSUME NEW s \in Sessions, SendEose(s) PROVE TypeOK'
  <2>1. wire' \in [Sessions -> Seq(Frames)]
    BY <1>12, FrameType, PutType DEF SendEose
  <2>2. ThreadTypeOK'
    BY <1>12 DEF SendEose, Return, Goto, ThreadTypeOK, EventPcs, ReqPcs
  <2> QED BY <1>12, <2>1, <2>2 DEF SendEose, StorageTypeOK, NetTypeOK
<1>13. ASSUME NEW s \in Sessions, EndSession(s) PROVE TypeOK'
  <2>1. NetTypeOK'
    BY <1>13 DEF EndSession, NetTypeOK
  <2>2. ThreadTypeOK'
    BY <1>13 DEF EndSession, ThreadTypeOK
  <2>3. StorageTypeOK'
    BY <1>13, StorageStays DEF EndSession
  <2> QED BY <2>1, <2>2, <2>3
<1>14. ASSUME NEW s \in Sessions, ClientRead(s) PROVE TypeOK'
  <2>1. NetTypeOK'
    BY <1>14 DEF ClientRead, NetTypeOK
  <2>2. ThreadTypeOK'
    BY <1>14 DEF ClientRead, ThreadTypeOK
  <2>3. StorageTypeOK'
    BY <1>14, StorageStays DEF ClientRead
  <2> QED BY <2>1, <2>2, <2>3
<1>15. ASSUME NEW s \in Sessions, PeerClose(s) PROVE TypeOK'
  <2>1. NetTypeOK'
    BY <1>15 DEF PeerClose, NetTypeOK
  <2>2. ThreadTypeOK'
    BY <1>15 DEF PeerClose, ThreadTypeOK
  <2>3. StorageTypeOK'
    BY <1>15, StorageStays DEF PeerClose
  <2> QED BY <2>1, <2>2, <2>3
<1>16. CASE Prune
  BY <1>16, FewerEvents DEF Prune, StorageTypeOK, ThreadTypeOK, NetTypeOK
<1>17. ASSUME NEW pk \in OpBan, BanPubkey(pk) PROVE TypeOK'
  BY <1>17, ConstantsAssumption
  DEF BanPubkey, StorageTypeOK, ThreadTypeOK, NetTypeOK
<1>18. ASSUME NEW k \in OpAllow, AllowEventKind(k) PROVE TypeOK'
  BY <1>18 DEF AllowEventKind, StorageTypeOK, ThreadTypeOK, NetTypeOK
<1>19. ASSUME NEW pk \in OpPurge, DeleteEventsByPubkey(pk) PROVE TypeOK'
  BY <1>19, FewerEvents
  DEF DeleteEventsByPubkey, StorageTypeOK, ThreadTypeOK, NetTypeOK
<1>20. ASSUME NEW id \in OpDelete, DeleteEventById(id) PROVE TypeOK'
  BY <1>20, FewerEvents
  DEF DeleteEventById, StorageTypeOK, ThreadTypeOK, NetTypeOK
<1>21. CASE Tick
  <2>1. StartTime \in Nat
    BY ConstantsAssumption
  <2> QED BY <1>21, <2>1 DEF Tick, StorageTypeOK, ThreadTypeOK, NetTypeOK
<1>22. CASE UNCHANGED vars
  BY <1>22 DEF vars, StorageTypeOK, ThreadTypeOK, NetTypeOK
<1> QED BY <1>1, <1>2, <1>3, <1>4, <1>5, <1>6, <1>7, <1>8, <1>9, <1>10, <1>11,
           <1>12, <1>13, <1>14, <1>15, <1>16, <1>17, <1>18, <1>19, <1>20,
           <1>21, <1>22 DEF Next, Handler, Operator

\* Every reachable state is well typed: in particular a handler past the checks
\* of EVENT always holds a submission.
THEOREM TypeCorrect == Spec => []TypeOK
BY InitType, NextType, PTL DEF Spec

-------------------------------------------------------------------------------
(* Eviction.                                                                 *)

\* The events older than e.
Older(S, e) == {f \in S : f.seq < e.seq}

\* A finite set of stored events that is not empty has an oldest element: one
\* for which the set of older events is minimal.
LEMMA OldestExists ==
  ASSUME NEW S \in SUBSET StoredEvents, IsFiniteSet(S), S # {}
  PROVE  \E e \in S : \A f \in S : e.seq <= f.seq
<1> DEFINE T == {Older(S, e) : e \in S}
<1>1. \A e \in S : e.seq \in Nat
  BY DEF StoredEvents
<1>2. \A e \in S : Older(S, e) \in SUBSET S
  BY DEF Older
<1>3. T \subseteq FiniteSubsetsOf(S) /\ T # {}
  BY <1>2, FS_Subset DEF FiniteSubsetsOf
<1>4. PICK x \in T : \A y \in T : <<y, x>> \notin StrictSubsetOrdering(S)
  BY <1>3, FS_StrictSubsetOrderingWellFounded, WFMin
<1>5. PICK e \in S : x = Older(S, e)
  OBVIOUS
<1>6. SUFFICES ASSUME NEW f \in S, ~(e.seq <= f.seq) PROVE FALSE
  OBVIOUS
<1>7. f.seq < e.seq /\ f \in Older(S, e) /\ f \notin Older(S, f)
  BY <1>1, <1>6 DEF Older
<1>8. Older(S, f) \subseteq Older(S, e)
  BY <1>1, <1>7 DEF Older
<1>9. <<Older(S, f), Older(S, e)>> \in StrictSubsetOrdering(S)
  BY <1>2, <1>7, <1>8 DEF StrictSubsetOrdering
<1> QED BY <1>4, <1>5, <1>9

\* store_event's eviction: nothing when there is room, the oldest event when the
\* storage is full.
LEMMA EvictOne ==
  ASSUME StorageTypeOK, NumberedOnce, TotalBound, MaxTotal >= 1
  PROVE  \/ /\ Cardinality(events) < MaxTotal
            /\ Evict(events) = events
         \/ /\ Cardinality(events) = MaxTotal
            /\ \E oldest \in events :
                 /\ Evict(events) = events \ {oldest}
                 /\ \A e \in events \ {oldest} : oldest.seq < e.seq
<1> DEFINE n == Cardinality(events)
<1>1. n \in Nat /\ MaxTotal \in Nat /\ n <= MaxTotal
  BY FS_CardinalityType, ConstantsAssumption DEF StorageTypeOK, TotalBound
<1>2. \A e \in events : e.seq \in Nat
  BY DEF StorageTypeOK, StoredEvents
<1>6. \A e \in events : /\ IsFiniteSet(events \ {e})
                        /\ Cardinality(events \ {e}) = n - 1
  BY FS_RemoveElement DEF StorageTypeOK
<1>3. \A e \in events : /\ Cardinality(Newer(events, e)) \in Nat
                        /\ Cardinality(Newer(events, e)) <= n - 1
  <2> SUFFICES ASSUME NEW e \in events
               PROVE  /\ Cardinality(Newer(events, e)) \in Nat
                      /\ Cardinality(Newer(events, e)) <= n - 1
    OBVIOUS
  <2>1. Newer(events, e) \in SUBSET (events \ {e})
    BY <1>2 DEF Newer
  <2>2. IsFiniteSet(events \ {e}) /\ Cardinality(events \ {e}) = n - 1
    BY <1>6
  <2>3. /\ IsFiniteSet(Newer(events, e))
        /\ Cardinality(Newer(events, e)) <= Cardinality(events \ {e})
    BY <2>1, <2>2, FS_Subset
  <2>4. Cardinality(Newer(events, e)) \in Nat
    BY <2>3, FS_CardinalityType
  <2> QED BY <2>2, <2>3, <2>4
<1>4. CASE n < MaxTotal
  <2>1. Evict(events) = events
    BY <1>1, <1>3, <1>4 DEF Evict
  <2> QED BY <1>4, <2>1
<1>5. CASE n = MaxTotal
  <2>1. events # {}
    BY <1>1, <1>5, FS_EmptySet
  <2>2. PICK o \in events : \A f \in events : o.seq <= f.seq
    BY <2>1, OldestExists DEF StorageTypeOK
  <2>3. \A e \in events \ {o} : o.seq < e.seq
    BY <1>2, <2>2 DEF NumberedOnce
  <2>4. Newer(events, o) = events \ {o}
    BY <1>2, <2>3 DEF Newer
  <2>5. o \notin Evict(events)
    BY <1>1, <1>5, <1>6, <2>4 DEF Evict
  <2>6. ASSUME NEW e \in events \ {o} PROVE e \in Evict(events)
    <3>1. Newer(events, e) \in SUBSET (events \ {o})
      BY <1>2, <2>3 DEF Newer
    <3>2. Newer(events, e) # events \ {o}
      BY <1>2 DEF Newer
    <3>3. Cardinality(Newer(events, e)) < n - 1
      <4>1. IsFiniteSet(events \ {o}) /\ Cardinality(events \ {o}) = n - 1
        BY <1>6
      <4>2. Cardinality(Newer(events, e)) # n - 1
        BY <3>1, <3>2, <4>1, FS_Subset
      <4> QED BY <1>1, <1>3, <4>2
    <3> QED BY <1>1, <1>5, <3>3 DEF Evict
  <2>7. Evict(events) = events \ {o}
    BY <2>5, <2>6 DEF Evict
  <2> QED BY <1>5, <2>3, <2>7
<1> QED BY <1>1, <1>4, <1>5

-------------------------------------------------------------------------------
(* What steps do to the storage and to the handlers about to store.          *)

\* No thread comes to the store or leaves it with another message.
NobodyArrives(pcs) ==
  \A s \in Sessions : pc'[s] \in pcs => pc[s] \in pcs /\ job'[s] = job[s]

\* Only can_store_event lets a handler through to store_event, and only
\* store_event adds an event.
LEMMA StorageSteps ==
  ASSUME TypeOK, [Next]_vars
  PROVE  \/ /\ events' \subseteq events /\ nextSeq' = nextSeq
            /\ NobodyArrives({"store"})
         \/ \E s \in Sessions : CanStore(s) \/ StoreEvent(s)
<1> DEFINE Calm == /\ events' \subseteq events /\ nextSeq' = nextSeq
                   /\ NobodyArrives({"store"})
<1> USE DEF store, config, thread, net, NobodyArrives, TypeOK, ThreadTypeOK
<1>1. ASSUME NEW s \in Sessions, HandleEvent(s) PROVE Calm
  BY <1>1 DEF HandleEvent, TakeUp, In, Goto
<1>2. ASSUME NEW s \in Sessions, HandleReq(s) PROVE Calm
  BY <1>2 DEF HandleReq, TakeUp, In, Goto
<1>3. ASSUME NEW s \in Sessions, CheckRateLimit(s) PROVE Calm
  BY <1>3 DEF CheckRateLimit, In, Return, Goto
<1>4. ASSUME NEW s \in Sessions, RecordEvent(s) \/ ReplyOk(s) PROVE Calm
  BY <1>4 DEF RecordEvent, ReplyOk, In, Goto
<1>5. ASSUME NEW s \in Sessions, Broadcast(s) \/ FinishEvent(s) PROVE Calm
  BY <1>5 DEF Broadcast, FinishEvent, Return, In, Goto
<1>6. ASSUME NEW s \in Sessions, AcquireLock(s) \/ StreamMatch(s) PROVE Calm
  BY <1>6 DEF AcquireLock, StreamMatch, In, Goto
<1>7. ASSUME NEW s \in Sessions, SendEose(s) PROVE Calm
  BY <1>7 DEF SendEose, Return, In, Goto
<1>8. ASSUME NEW s \in Sessions, EndSession(s) \/ ClientRead(s) \/ PeerClose(s)
      PROVE  Calm
  BY <1>8 DEF EndSession, ClientRead, PeerClose
<1>9. CASE Prune \/ Operator \/ Tick \/ UNCHANGED vars
  BY <1>9 DEF Prune, Operator, BanPubkey, AllowEventKind, DeleteEventsByPubkey,
              DeleteEventById, Tick, vars
<1> QED BY <1>1, <1>2, <1>3, <1>4, <1>5, <1>6, <1>7, <1>8, <1>9 DEF Next, Handler

\* Only check_rate_limit lets a handler through to be charged, and only
\* record_event charges.
LEMMA ChargeSteps ==
  ASSUME TypeOK, [Next]_vars
  PROVE  \/ stamps' = stamps /\ NobodyArrives(ChargePcs)
         \/ \E s \in Sessions : CheckRateLimit(s) \/ RecordEvent(s)
<1> DEFINE Calm == stamps' = stamps /\ NobodyArrives(ChargePcs)
<1> USE DEF store, config, thread, net, NobodyArrives, TypeOK, ThreadTypeOK,
            ChargePcs
<1>1. ASSUME NEW s \in Sessions, HandleEvent(s) PROVE Calm
  BY <1>1 DEF HandleEvent, TakeUp, In, Goto
<1>2. ASSUME NEW s \in Sessions, HandleReq(s) PROVE Calm
  BY <1>2 DEF HandleReq, TakeUp, In, Goto
<1>3. ASSUME NEW s \in Sessions, CanStore(s) \/ StoreEvent(s) PROVE Calm
  BY <1>3 DEF CanStore, StoreEvent, In, Goto
<1>4. ASSUME NEW s \in Sessions, ReplyOk(s) PROVE Calm
  BY <1>4 DEF ReplyOk, In, Goto
<1>5. ASSUME NEW s \in Sessions, Broadcast(s) \/ FinishEvent(s) PROVE Calm
  BY <1>5 DEF Broadcast, FinishEvent, Return, In, Goto
<1>6. ASSUME NEW s \in Sessions, AcquireLock(s) \/ StreamMatch(s) PROVE Calm
  BY <1>6 DEF AcquireLock, StreamMatch, In, Goto
<1>7. ASSUME NEW s \in Sessions, SendEose(s) PROVE Calm
  BY <1>7 DEF SendEose, Return, In, Goto
<1>8. ASSUME NEW s \in Sessions, EndSession(s) \/ ClientRead(s) \/ PeerClose(s)
      PROVE  Calm
  BY <1>8 DEF EndSession, ClientRead, PeerClose
<1>9. CASE Prune \/ Operator \/ Tick \/ UNCHANGED vars
  BY <1>9 DEF Prune, Operator, BanPubkey, AllowEventKind, DeleteEventsByPubkey,
              DeleteEventById, Tick, vars
<1> QED BY <1>1, <1>2, <1>3, <1>4, <1>5, <1>6, <1>7, <1>8, <1>9 DEF Next, Handler

-------------------------------------------------------------------------------
(* Counting.                                                                 *)

\* Any set of sessions is finite and has at most NumSessions members.
LEMMA SessionsCount ==
  ASSUME NEW A \in SUBSET Sessions
  PROVE  /\ IsFiniteSet(A)
         /\ Cardinality(A) \in Nat /\ Cardinality(A) <= NumSessions
<1>1. NumSessions \in Nat /\ NumSessions >= 1
  BY ConstantsAssumption
<1>2. IsFiniteSet(Sessions) /\ Cardinality(Sessions) = NumSessions
  BY <1>1, FS_Interval DEF Sessions
<1>3. IsFiniteSet(A) /\ Cardinality(A) <= Cardinality(Sessions)
  BY <1>2, FS_Subset
<1> QED BY <1>2, <1>3, FS_CardinalityType

\* Fewer events and fewer sessions about to add one.
LEMMA SumShrinks ==
  ASSUME NEW E, IsFiniteSet(E), NEW A, IsFiniteSet(A),
         NEW E2 \in SUBSET E, NEW A2 \in SUBSET A, NEW b \in Int,
         Cardinality(E) + Cardinality(A) <= b
  PROVE  Cardinality(E2) + Cardinality(A2) <= b
<1>1. /\ Cardinality(E) \in Nat /\ Cardinality(A) \in Nat
  BY FS_CardinalityType
<1>2. IsFiniteSet(E2) /\ Cardinality(E2) <= Cardinality(E)
  BY FS_Subset
<1>3. IsFiniteSet(A2) /\ Cardinality(A2) <= Cardinality(A)
  BY FS_Subset
<1>4. Cardinality(E2) \in Nat /\ Cardinality(A2) \in Nat
  BY <1>2, <1>3, FS_CardinalityType
<1> QED BY <1>1, <1>2, <1>3, <1>4

\* One of the sessions adds its event.
LEMMA SumMoves ==
  ASSUME NEW E, IsFiniteSet(E), NEW A, IsFiniteSet(A), NEW x, NEW s \in A,
         NEW E2 \in SUBSET (E \cup {x}), NEW A2 \in SUBSET (A \ {s}),
         NEW b \in Int, Cardinality(E) + Cardinality(A) <= b
  PROVE  Cardinality(E2) + Cardinality(A2) <= b
<1>1. Cardinality(E) \in Nat /\ Cardinality(A) \in Nat
  BY FS_CardinalityType
<1>2. /\ IsFiniteSet(E \cup {x}) /\ Cardinality(E \cup {x}) \in Nat
      /\ Cardinality(E \cup {x}) <= Cardinality(E) + 1
  <2>1. IsFiniteSet(E \cup {x})
    BY FS_AddElement
  <2>2. \/ Cardinality(E \cup {x}) = Cardinality(E)
        \/ Cardinality(E \cup {x}) = Cardinality(E) + 1
    BY FS_AddElement
  <2> QED BY <1>1, <2>1, <2>2
<1>3. /\ IsFiniteSet(A \ {s}) /\ Cardinality(A \ {s}) = Cardinality(A) - 1
  BY FS_RemoveElement
<1>4. Cardinality(E \cup {x}) + Cardinality(A \ {s}) <= b
  BY <1>1, <1>2, <1>3
<1> QED BY <1>2, <1>3, <1>4, SumShrinks

\* The stored events of a pubkey, and those of a kind, are finitely many.
LEMMA StoredFinite ==
  ASSUME StorageTypeOK
  PROVE  /\ \A pk : IsFiniteSet(Of(events, pk))
         /\ \A k : IsFiniteSet(OfKind(events, k))
<1>1. \A pk : Of(events, pk) \in SUBSET events
  BY DEF Of
<1>2. \A k : OfKind(events, k) \in SUBSET events
  BY DEF OfKind
<1> QED BY <1>1, <1>2, FS_Subset DEF StorageTypeOK

\* What store_event does to the storage.
LEMMA StoreAdds ==
  ASSUME NEW s \in Sessions, StoreEvent(s)
  PROVE  /\ events' \subseteq events \cup {Stored(job[s], nextSeq)}
         /\ Evict(events) \subseteq events
         /\ nextSeq' = nextSeq + 1
BY DEF StoreEvent, Evict

\* The limits are natural numbers, and there is a session.
LEMMA LimitTypes ==
  /\ MaxPerPubkey \in Nat /\ MaxPerKind \in Nat /\ MaxTotal \in Nat
  /\ RateLimit \in Nat /\ NumSessions \in Nat /\ NumSessions >= 1
BY ConstantsAssumption

-------------------------------------------------------------------------------
(* The parts of the inductive invariant.                                     *)

\* An empty storage and idle sessions satisfy the inductive invariant.
LEMMA InitIInv == Init => IInv
<1> SUFFICES ASSUME Init PROVE IInv
  OBVIOUS
<1>1. TypeOK
  BY InitType
<1>2. \A pk \in Pubkeys : At({"store"}, pk) = {} /\ At(ChargePcs, pk) = {}
  BY DEF Init, At, ChargePcs
<1>3. \A k \in 0..U16 - 1 : StoringKind(k) = {}
  BY DEF Init, StoringKind
<1>4. (\A pk : Of(events, pk) = {}) /\ (\A k : OfKind(events, k) = {})
  BY DEF Init, Of, OfKind
<1>5. Cardinality({}) = 0
  BY FS_EmptySet
<1>6. NumberedOnce /\ TotalBound /\ RoomInv
  BY <1>5, LimitTypes DEF Init, NumberedOnce, TotalBound, RoomInv
<1>7. PubkeyInv
  <2> SUFFICES ASSUME NEW pk \in Pubkeys
               PROVE  Cardinality(Of(events, pk)) + Cardinality(At({"store"}, pk))
                        <= MaxPerPubkey + (NumSessions - 1)
    BY DEF PubkeyInv
  <2>1. Cardinality(Of(events, pk)) = 0 /\ Cardinality(At({"store"}, pk)) = 0
    BY <1>2, <1>4, <1>5
  <2> QED BY <2>1, LimitTypes
<1>8. KindInv
  <2> SUFFICES ASSUME NEW k \in 0..U16 - 1
               PROVE  Cardinality(OfKind(events, k)) + Cardinality(StoringKind(k))
                        <= MaxPerKind + (NumSessions - 1)
    BY DEF KindInv
  <2>1. Cardinality(OfKind(events, k)) = 0 /\ Cardinality(StoringKind(k)) = 0
    BY <1>3, <1>4, <1>5
  <2> QED BY <2>1, LimitTypes
<1>9. RateInv
  <2> SUFFICES ASSUME NEW pk \in Pubkeys
               PROVE  Len(stamps[pk]) + Cardinality(At(ChargePcs, pk))
                        <= RateLimit + (NumSessions - 1)
    BY DEF RateInv
  <2>1. Len(stamps[pk]) = 0 /\ Cardinality(At(ChargePcs, pk)) = 0
    BY <1>2, <1>5 DEF Init
  <2> QED BY <2>1, LimitTypes
<1> QED BY <1>1, <1>6, <1>7, <1>8, <1>9 DEF IInv

\* store_event gives every event a number of its own.
LEMMA NumberedStep ==
  ASSUME TypeOK, NumberedOnce, [Next]_vars PROVE NumberedOnce'
<1> USE DEF store
<1>1. CASE events' \subseteq events /\ nextSeq' = nextSeq
  BY <1>1 DEF NumberedOnce
<1>2. ASSUME NEW s \in Sessions, CanStore(s) PROVE NumberedOnce'
  BY <1>2 DEF CanStore, NumberedOnce
<1>3. ASSUME NEW s \in Sessions, StoreEvent(s) PROVE NumberedOnce'
  <2>1. Stored(job[s], nextSeq).seq = nextSeq
    BY DEF Stored
  <2>2. nextSeq \in Nat /\ \A e \in events : e.seq \in Nat
    BY DEF TypeOK, StorageTypeOK, StoredEvents
  <2> QED BY <1>3, <2>1, <2>2, StoreAdds DEF NumberedOnce
<1> QED BY <1>1, <1>2, <1>3, StorageSteps

\* A handler on its way to store_event has seen room for an event.
LEMMA RoomStep ==
  ASSUME TypeOK, RoomInv, [Next]_vars PROVE RoomInv'
<1> USE DEF TypeOK, ThreadTypeOK
<1>1. CASE NobodyArrives({"store"})
  BY <1>1 DEF RoomInv, NobodyArrives
<1>2. ASSUME NEW s \in Sessions, CanStore(s) PROVE RoomInv'
  <2>1. Cardinality(events) \in Nat
    BY FS_CardinalityType DEF StorageTypeOK
  <2>2. pc'[s] = "store" => MaxTotal >= 1
    BY <1>2, <2>1, LimitTypes DEF CanStore, CanStoreEvent, Goto
  <2> QED BY <1>2, <2>2 DEF CanStore, Goto, RoomInv
<1>3. ASSUME NEW s \in Sessions, StoreEvent(s) PROVE RoomInv'
  BY <1>3 DEF StoreEvent, Goto, RoomInv
<1> QED BY <1>1, <1>2, <1>3, StorageSteps

\* store_event evicts before it adds, so the storage stays within its limit.
LEMMA TotalStep ==
  ASSUME TypeOK, NumberedOnce, TotalBound, RoomInv, [Next]_vars
  PROVE  TotalBound'
<1> USE DEF store
<1>0. IsFiniteSet(events) /\ Cardinality(events) \in Nat
  BY FS_CardinalityType DEF TypeOK, StorageTypeOK
<1>1. CASE events' \subseteq events
  <2>1. IsFiniteSet(events') /\ Cardinality(events') <= Cardinality(events)
    BY <1>0, <1>1, FS_Subset
  <2>2. Cardinality(events') \in Nat
    BY <2>1, FS_CardinalityType
  <2> QED BY <1>0, <2>1, <2>2, LimitTypes DEF TotalBound
<1>2. ASSUME NEW s \in Sessions, CanStore(s) PROVE TotalBound'
  BY <1>2 DEF CanStore, TotalBound
<1>3. ASSUME NEW s \in Sessions, StoreEvent(s) PROVE TotalBound'
  <2> DEFINE kept == Evict(events)
  <2>1. events' = kept \cup {Stored(job[s], nextSeq)}
    BY <1>3 DEF StoreEvent
  <2>2. MaxTotal >= 1
    BY <1>3 DEF StoreEvent, In, RoomInv
  <2>3. IsFiniteSet(kept) /\ Cardinality(kept) \in Nat
        /\ Cardinality(kept) <= MaxTotal - 1
    <3>1. CASE Cardinality(events) < MaxTotal /\ kept = events
      BY <1>0, <3>1, LimitTypes
    <3>2. ASSUME NEW oldest \in events, Cardinality(events) = MaxTotal,
                 kept = events \ {oldest}
          PROVE  /\ IsFiniteSet(kept) /\ Cardinality(kept) \in Nat
                 /\ Cardinality(kept) <= MaxTotal - 1
      BY <1>0, <2>2, <3>2, FS_RemoveElement, LimitTypes
    <3> QED BY <2>2, <3>1, <3>2, EvictOne DEF TypeOK
  <2> DEFINE new == Stored(job[s], nextSeq)
  <2> HIDE DEF kept, new
  <2>4. Cardinality(kept \cup {new}) <= Cardinality(kept) + 1
        /\ Cardinality(kept \cup {new}) \in Nat
    <3>1. Cardinality(kept \cup {new})
            = IF new \in kept THEN Cardinality(kept) ELSE Cardinality(kept) + 1
      BY <2>3, FS_AddElement
    <3> QED BY <2>3, <3>1
  <2>5. events' = kept \cup {new}
    BY <2>1 DEF new
  <2>6. Cardinality(events') <= MaxTotal
    BY <2>3, <2>4, <2>5, LimitTypes
  <2> QED BY <2>6 DEF TotalBound
<1> QED BY <1>1, <1>2, <1>3, StorageSteps

\* What is stored of a pubkey, and what the handlers that passed can_store_event
\* may add, stay together within the bound: a handler is let through only while the
\* quota is not reached, and every other session adds at most one.
LEMMA PubkeyStep ==
  ASSUME TypeOK, PubkeyInv, [Next]_vars PROVE PubkeyInv'
<1> USE DEF store, TypeOK, ThreadTypeOK
<1> DEFINE bound == MaxPerPubkey + (NumSessions - 1)
<1> SUFFICES ASSUME NEW pk \in Pubkeys
             PROVE  (Cardinality(Of(events, pk)) + Cardinality(At({"store"}, pk))
                       <= bound)'
  BY DEF PubkeyInv
<1> DEFINE E == Of(events, pk)
           A == At({"store"}, pk)
<1>1. IsFiniteSet(E) /\ Cardinality(E) \in Nat /\ bound \in Int
  BY StoredFinite, FS_CardinalityType, LimitTypes
<1>2. A \in SUBSET Sessions /\ A' \in SUBSET Sessions
  BY DEF At
<1>3. /\ IsFiniteSet(A)
      /\ Cardinality(A') \in Nat /\ Cardinality(A') <= NumSessions
  BY <1>2, SessionsCount
<1>4. Cardinality(E) + Cardinality(A) <= bound
  BY DEF PubkeyInv
<1>5. ASSUME E' \subseteq E, A' \subseteq A
      PROVE  Cardinality(E') + Cardinality(A') <= bound
  BY <1>1, <1>3, <1>4, <1>5, SumShrinks
<1>6. CASE events' \subseteq events /\ NobodyArrives({"store"})
  BY <1>5, <1>6 DEF Of, At, NobodyArrives
<1>7. ASSUME NEW s \in Sessions, CanStore(s)
      PROVE  Cardinality(E') + Cardinality(A') <= bound
  <2>1. E' = E /\ job' = job
    BY <1>7 DEF CanStore, Of
  <2>2. CASE job[s].pubkey = pk /\ CanStoreEvent(events, job[s])
    <3>1. Cardinality(E) < MaxPerPubkey
      BY <2>2 DEF CanStoreEvent
    <3> QED BY <1>1, <1>3, <2>1, <3>1, LimitTypes
  <2>3. CASE ~(job[s].pubkey = pk /\ CanStoreEvent(events, job[s]))
    <3>1. A' \subseteq A
      BY <1>7, <2>1, <2>3 DEF CanStore, Goto, At
    <3> QED BY <1>5, <2>1, <3>1
  <2> QED BY <2>2, <2>3
<1>8. ASSUME NEW s \in Sessions, StoreEvent(s)
      PROVE  Cardinality(E') + Cardinality(A') <= bound
  <2>1. /\ job' = job /\ pc' = [pc EXCEPT ![s] = "record"] /\ pc[s] = "store"
    BY <1>8 DEF StoreEvent, Goto, In
  <2>2. Stored(job[s], nextSeq).pubkey = job[s].pubkey
    BY DEF Stored
  <2>3. A' \subseteq A \ {s}
    BY <2>1 DEF At
  <2>4. CASE job[s].pubkey = pk
    <3>1. E' \subseteq E \cup {Stored(job[s], nextSeq)}
      BY <1>8, StoreAdds DEF Of
    <3>2. s \in A
      BY <2>1, <2>4 DEF At
    <3>3. /\ E' \in SUBSET (E \cup {Stored(job[s], nextSeq)})
          /\ A' \in SUBSET (A \ {s})
      BY <2>3, <3>1
    <3> HIDE DEF E, A, bound
    <3> QED BY <1>1, <1>3, <1>4, <3>2, <3>3, SumMoves
  <2>5. CASE job[s].pubkey # pk
    <3>1. E' \subseteq E
      BY <1>8, <2>2, <2>5, StoreAdds DEF Of
    <3> QED BY <1>5, <2>3, <3>1
  <2> QED BY <2>4, <2>5
<1> QED BY <1>6, <1>7, <1>8, StorageSteps

\* The same for the events of a kind.
LEMMA KindStep ==
  ASSUME TypeOK, KindInv, [Next]_vars PROVE KindInv'
<1> USE DEF store, TypeOK, ThreadTypeOK
<1> DEFINE bound == MaxPerKind + (NumSessions - 1)
<1> SUFFICES ASSUME NEW k \in 0..U16 - 1
             PROVE  (Cardinality(OfKind(events, k)) + Cardinality(StoringKind(k))
                       <= bound)'
  BY DEF KindInv
<1> DEFINE E == OfKind(events, k)
           A == StoringKind(k)
<1>1. IsFiniteSet(E) /\ Cardinality(E) \in Nat /\ bound \in Int
  BY StoredFinite, FS_CardinalityType, LimitTypes
<1>2. A \in SUBSET Sessions /\ A' \in SUBSET Sessions
  BY DEF StoringKind
<1>3. /\ IsFiniteSet(A)
      /\ Cardinality(A') \in Nat /\ Cardinality(A') <= NumSessions
  BY <1>2, SessionsCount
<1>4. Cardinality(E) + Cardinality(A) <= bound
  BY DEF KindInv
<1>5. ASSUME E' \subseteq E, A' \subseteq A
      PROVE  Cardinality(E') + Cardinality(A') <= bound
  BY <1>1, <1>3, <1>4, <1>5, SumShrinks
<1>6. CASE events' \subseteq events /\ NobodyArrives({"store"})
  BY <1>5, <1>6 DEF OfKind, StoringKind, NobodyArrives
<1>7. ASSUME NEW s \in Sessions, CanStore(s)
      PROVE  Cardinality(E') + Cardinality(A') <= bound
  <2>1. E' = E /\ job' = job
    BY <1>7 DEF CanStore, OfKind
  <2>2. CASE job[s].kind % U16 = k /\ CanStoreEvent(events, job[s])
    <3>1. Cardinality(E) < MaxPerKind
      BY <2>2 DEF CanStoreEvent
    <3> QED BY <1>1, <1>3, <2>1, <3>1, LimitTypes
  <2>3. CASE ~(job[s].kind % U16 = k /\ CanStoreEvent(events, job[s]))
    <3>1. A' \subseteq A
      BY <1>7, <2>1, <2>3 DEF CanStore, Goto, StoringKind
    <3> QED BY <1>5, <2>1, <3>1
  <2> QED BY <2>2, <2>3
<1>8. ASSUME NEW s \in Sessions, StoreEvent(s)
      PROVE  Cardinality(E') + Cardinality(A') <= bound
  <2>1. /\ job' = job /\ pc' = [pc EXCEPT ![s] = "record"] /\ pc[s] = "store"
    BY <1>8 DEF StoreEvent, Goto, In
  <2>2. Stored(job[s], nextSeq).kind = job[s].kind % U16
    BY DEF Stored
  <2>3. A' \subseteq A \ {s}
    BY <2>1 DEF StoringKind
  <2>4. CASE job[s].kind % U16 = k
    <3>1. E' \subseteq E \cup {Stored(job[s], nextSeq)}
      BY <1>8, StoreAdds DEF OfKind
    <3>2. s \in A
      BY <2>1, <2>4 DEF StoringKind
    <3>3. /\ E' \in SUBSET (E \cup {Stored(job[s], nextSeq)})
          /\ A' \in SUBSET (A \ {s})
      BY <2>3, <3>1
    <3> HIDE DEF E, A, bound
    <3> QED BY <1>1, <1>3, <1>4, <3>2, <3>3, SumMoves
  <2>5. CASE job[s].kind % U16 # k
    <3>1. E' \subseteq E
      BY <1>8, <2>2, <2>5, StoreAdds DEF OfKind
    <3> QED BY <1>5, <2>3, <3>1
  <2> QED BY <2>4, <2>5
<1> QED BY <1>6, <1>7, <1>8, StorageSteps

\* The same for the events charged to a pubkey.
LEMMA RateStep ==
  ASSUME TypeOK, RateInv, [Next]_vars PROVE RateInv'
<1> USE DEF TypeOK, ThreadTypeOK, StorageTypeOK
<1> DEFINE bound == RateLimit + (NumSessions - 1)
<1> SUFFICES ASSUME NEW pk \in Pubkeys
             PROVE  (Len(stamps[pk]) + Cardinality(At(ChargePcs, pk)) <= bound)'
  BY DEF RateInv
<1> DEFINE n == Len(stamps[pk])
           A == At(ChargePcs, pk)
<1>1. n \in Nat /\ bound \in Int
  BY LimitTypes
<1>2. A \in SUBSET Sessions /\ A' \in SUBSET Sessions
  BY DEF At
<1>3. /\ IsFiniteSet(A) /\ Cardinality(A) \in Nat
      /\ Cardinality(A') \in Nat /\ Cardinality(A') <= NumSessions
  BY <1>2, SessionsCount
<1>4. n + Cardinality(A) <= bound
  BY DEF RateInv
<1>5. ASSUME n' \in Nat, n' <= n, A' \subseteq A
      PROVE  n' + Cardinality(A') <= bound
  <2>1. Cardinality(A') <= Cardinality(A)
    BY <1>3, <1>5, FS_Subset
  <2> QED BY <1>1, <1>3, <1>4, <1>5, <2>1
<1>6. CASE stamps' = stamps /\ NobodyArrives(ChargePcs)
  <2>1. A' \subseteq A
    BY <1>6 DEF At, NobodyArrives
  <2> QED BY <1>1, <1>5, <1>6, <2>1
<1>7. ASSUME NEW s \in Sessions, CheckRateLimit(s)
      PROVE  n' + Cardinality(A') <= bound
  <2> DEFINE me == job[s].pubkey
  <2>1. me \in Pubkeys /\ pc[s] = "rate"
    BY <1>7, JobType DEF CheckRateLimit, In, EventPcs
  <2>2. PICK j \in 0..Len(stamps[me]) :
          stamps' = [stamps EXCEPT ![me] = SubSeq(@, j + 1, Len(@))]
    BY <1>7 DEF CheckRateLimit
  <2>3. n' \in Nat /\ n' <= n
    BY <2>1, <2>2
  <2>4. \/ pc' = [pc EXCEPT ![s] = "idle"] /\ job' = [job EXCEPT ![s] = NoJob]
        \/ UNCHANGED <<pc, job>>
        \/ /\ WithinRate(stamps'[me])
           /\ pc' = [pc EXCEPT ![s] = "check"] /\ job' = job
    BY <1>7 DEF CheckRateLimit, Return, Goto
  <2>5. CASE me = pk /\ WithinRate(stamps'[me])
    BY <1>3, <2>3, <2>5, LimitTypes DEF WithinRate
  <2>6. CASE ~(me = pk /\ WithinRate(stamps'[me]))
    <3>1. A' \subseteq A
      BY <2>1, <2>4, <2>6 DEF At, ChargePcs
    <3> QED BY <1>5, <2>3, <3>1
  <2> QED BY <2>5, <2>6
<1>8. ASSUME NEW s \in Sessions, RecordEvent(s)
      PROVE  n' + Cardinality(A') <= bound
  <2>1. /\ job' = job /\ pc' = [pc EXCEPT ![s] = "ok"] /\ pc[s] = "record"
        /\ stamps' = [stamps EXCEPT ![job[s].pubkey] = Append(@, now)]
    BY <1>8 DEF RecordEvent, Goto, In
  <2>2. A' \subseteq A \ {s}
    BY <2>1 DEF At, ChargePcs
  <2>3. CASE job[s].pubkey = pk
    <3>1. n' = n + 1
      BY <2>1, <2>3
    <3>2. s \in A
      BY <2>1, <2>3 DEF At, ChargePcs
    <3>3. IsFiniteSet(A \ {s}) /\ Cardinality(A \ {s}) = Cardinality(A) - 1
      BY <1>3, <3>2, FS_RemoveElement
    <3>4. Cardinality(A') <= Cardinality(A) - 1
      BY <2>2, <3>3, FS_Subset
    <3> QED BY <1>1, <1>3, <1>4, <3>1, <3>4
  <2>4. CASE job[s].pubkey # pk
    <3>1. n' = n
      BY <2>1, <2>4
    <3> QED BY <1>1, <1>5, <2>2, <3>1
  <2> QED BY <2>3, <2>4
<1> QED BY <1>6, <1>7, <1>8, ChargeSteps

\* Every step keeps the inductive invariant.
LEMMA NextIInv == IInv /\ [Next]_vars => IInv'
BY NextType, NumberedStep, RoomStep, TotalStep, PubkeyStep, KindStep, RateStep
   DEF IInv

\* The inductive invariant holds in every reachable state.
THEOREM Inductive == Spec => []IInv
BY InitIInv, NextIInv, PTL DEF Spec

-------------------------------------------------------------------------------
(* The bounds.                                                               *)

\* The storage never exceeds max_total_events.
THEOREM TotalBounded == Spec => []TotalBound
<1>1. IInv => TotalBound
  BY DEF IInv
<1> QED BY <1>1, Inductive, PTL

\* No pubkey exceeds its storage quota by more than the number of sessions that
\* can race with the one that fills it.
THEOREM PubkeysBounded == Spec => []PubkeyQuota
<1>1. IInv => PubkeyQuota
  <2> SUFFICES ASSUME IInv, NEW pk \in Pubkeys
               PROVE  Cardinality(Of(events, pk)) <= MaxPerPubkey + (NumSessions - 1)
    BY DEF PubkeyQuota
  <2>1. Cardinality(Of(events, pk)) \in Nat
    BY StoredFinite, FS_CardinalityType DEF IInv, TypeOK
  <2>2. Cardinality(At({"store"}, pk)) \in Nat
    <3>1. At({"store"}, pk) \in SUBSET Sessions
      BY DEF At
    <3> QED BY <3>1, SessionsCount
  <2> QED BY <2>1, <2>2, LimitTypes DEF IInv, PubkeyInv
<1> QED BY <1>1, Inductive, PTL

\* The same for the kinds.
THEOREM KindsBounded == Spec => []KindQuota
<1>1. IInv => KindQuota
  <2> SUFFICES ASSUME IInv, NEW k \in allowed
               PROVE  Cardinality(OfKind(events, k)) <= MaxPerKind + (NumSessions - 1)
    BY DEF KindQuota
  <2>1. Cardinality(OfKind(events, k)) \in Nat
    BY StoredFinite, FS_CardinalityType DEF IInv, TypeOK
  <2>2. Cardinality(StoringKind(k)) \in Nat
    <3>1. StoringKind(k) \in SUBSET Sessions
      BY DEF StoringKind
    <3> QED BY <3>1, SessionsCount
  <2>3. k \in 0..U16 - 1
    BY ConstantsAssumption DEF IInv, TypeOK, StorageTypeOK
  <2> QED BY <2>1, <2>2, <2>3, LimitTypes DEF IInv, KindInv
<1> QED BY <1>1, Inductive, PTL

\* Both quotas hold, up to the sessions that can race.
THEOREM QuotasKept == Spec => []Quotas
BY PubkeysBounded, KindsBounded, PTL DEF Quotas

\* The same for the rate limit.
THEOREM RatesBounded == Spec => []RateBound
<1>1. IInv => RateBound
  <2> SUFFICES ASSUME IInv, NEW pk \in Pubkeys
               PROVE  Len(stamps[pk]) <= RateLimit + (NumSessions - 1)
    BY DEF RateBound
  <2>1. Len(stamps[pk]) \in Nat
    BY DEF IInv, TypeOK, StorageTypeOK
  <2>2. Cardinality(At(ChargePcs, pk)) \in Nat
    <3>1. At(ChargePcs, pk) \in SUBSET Sessions
      BY DEF At
    <3> QED BY <3>1, SessionsCount
  <2> QED BY <2>1, <2>2, LimitTypes DEF IInv, RateInv
<1> QED BY <1>1, Inductive, PTL

-------------------------------------------------------------------------------
(* Purged pubkeys.                                                           *)

\* Nobody is ever unbanned, and a handler gets past the ban check only in
\* HandleEvent.
LEMMA BanSteps ==
  ASSUME TypeOK, [Next]_vars
  PROVE  /\ banned \subseteq banned'
         /\ NobodyArrives(EventPcs) \/ \E s \in Sessions : HandleEvent(s)
<1> DEFINE Calm == banned \subseteq banned' /\ NobodyArrives(EventPcs)
<1> USE DEF store, config, thread, net, NobodyArrives, TypeOK, ThreadTypeOK,
            EventPcs
<1>1. ASSUME NEW s \in Sessions, HandleEvent(s) PROVE banned \subseteq banned'
  BY <1>1 DEF HandleEvent
<1>2. ASSUME NEW s \in Sessions, HandleReq(s) PROVE Calm
  BY <1>2 DEF HandleReq, TakeUp, In, Goto
<1>3. ASSUME NEW s \in Sessions, CheckRateLimit(s) PROVE Calm
  BY <1>3 DEF CheckRateLimit, In, Return, Goto
<1>4. ASSUME NEW s \in Sessions,
             CanStore(s) \/ StoreEvent(s) \/ RecordEvent(s) \/ ReplyOk(s)
      PROVE  Calm
  BY <1>4 DEF CanStore, StoreEvent, RecordEvent, ReplyOk, In, Goto
<1>5. ASSUME NEW s \in Sessions, Broadcast(s) \/ FinishEvent(s) PROVE Calm
  BY <1>5 DEF Broadcast, FinishEvent, Return, In, Goto
<1>6. ASSUME NEW s \in Sessions, AcquireLock(s) \/ StreamMatch(s) PROVE Calm
  BY <1>6 DEF AcquireLock, StreamMatch, In, Goto
<1>7. ASSUME NEW s \in Sessions, SendEose(s) PROVE Calm
  BY <1>7 DEF SendEose, Return, In, Goto
<1>8. ASSUME NEW s \in Sessions, EndSession(s) \/ ClientRead(s) \/ PeerClose(s)
      PROVE  Calm
  BY <1>8 DEF EndSession, ClientRead, PeerClose
<1>9. CASE Prune \/ Operator \/ Tick \/ UNCHANGED vars
  BY <1>9 DEF Prune, Operator, BanPubkey, AllowEventKind, DeleteEventsByPubkey,
              DeleteEventById, Tick, vars
<1> QED BY <1>1, <1>2, <1>3, <1>4, <1>5, <1>6, <1>7, <1>8, <1>9 DEF Next, Handler

\* No step brings back a pubkey that is banned, purged and in no handler.
LEMMA PurgedStep ==
  ASSUME TypeOK, [Next]_vars, NEW pk \in Pubkeys, Purged(pk)
  PROVE  Purged(pk)'
<1>1. pk \in banned'
  BY BanSteps DEF Purged
<1>2. \A s \in Sessions : pc[s] \in EventPcs => job[s].pubkey # pk
  BY DEF Purged, At
<1>3. At(EventPcs, pk)' = {}
  <2>1. CASE NobodyArrives(EventPcs)
    BY <1>2, <2>1 DEF NobodyArrives, At
  <2>2. ASSUME NEW s \in Sessions, HandleEvent(s)
        PROVE  At(EventPcs, pk)' = {}
    <3>1. PICK m \in Submissions :
            \/ UNCHANGED <<pc, job>>
            \/ /\ Admissible(m)
               /\ pc' = [pc EXCEPT ![s] = "rate"]
               /\ job' = [job EXCEPT ![s] = m]
      BY <2>2 DEF HandleEvent, Goto
    <3>2. Admissible(m) => m.pubkey # pk
      BY DEF Admissible, Purged
    <3> QED BY <1>2, <3>1, <3>2 DEF At, TypeOK, ThreadTypeOK
  <2> QED BY <2>1, <2>2, BanSteps
<1>4. Of(events, pk)' = {}
  <2> USE DEF store
  <2>1. CASE events' \subseteq events
    BY <2>1 DEF Purged, Of
  <2>2. ASSUME NEW s \in Sessions, CanStore(s) PROVE Of(events, pk)' = {}
    BY <2>2 DEF CanStore, Purged, Of
  <2>3. ASSUME NEW s \in Sessions, StoreEvent(s) PROVE Of(events, pk)' = {}
    <3>1. job[s].pubkey # pk
      BY <1>2, <2>3 DEF StoreEvent, In, EventPcs
    <3>2. Stored(job[s], nextSeq).pubkey = job[s].pubkey
      BY DEF Stored
    <3> QED BY <2>3, <3>1, <3>2, StoreAdds DEF Purged, Of
  <2> QED BY <2>1, <2>2, <2>3, StorageSteps
<1> QED BY <1>1, <1>3, <1>4 DEF Purged

\* Once a banned pubkey is purged and the handlers that had passed the ban check
\* have returned, no event of it is handled or stored again.
THEOREM PurgedForGood == Spec => PurgedStaysPurged
<1>1. TypeOK /\ [Next]_vars
        => [\A pk \in Pubkeys : Purged(pk) => Purged(pk)']_vars
  BY PurgedStep
<1> QED BY <1>1, TypeCorrect, PTL DEF Spec, PurgedStaysPurged

-------------------------------------------------------------------------------
(* The storage implements EventLog.                                          *)

\* The relay starts as an empty log.
LEMMA InitLog == Init => Log!Init
BY DEF Init, Log!Init

\* Every step of the relay is a step of the log, or leaves it alone.
LEMMA NextLog == IInv /\ [Next]_vars => [Log!Next]_<<events, nextSeq>>
<1> SUFFICES ASSUME IInv, [Next]_vars
             PROVE  Log!Next \/ UNCHANGED <<events, nextSeq>>
  OBVIOUS
<1> USE DEF store
<1>1. CASE events' \subseteq events /\ nextSeq' = nextSeq
  BY <1>1 DEF Log!Next, Log!Remove
<1>2. ASSUME NEW s \in Sessions, CanStore(s) PROVE UNCHANGED <<events, nextSeq>>
  BY <1>2 DEF CanStore
<1>3. ASSUME NEW s \in Sessions, StoreEvent(s) PROVE Log!Next
  <2> DEFINE e == Stored(job[s], nextSeq)
             kept == Evict(events)
  <2>1. events' = kept \cup {e} /\ nextSeq' = nextSeq + 1 /\ e.seq = nextSeq
    BY <1>3 DEF StoreEvent, Stored
  <2>2. MaxTotal >= 1
    BY <1>3 DEF StoreEvent, In, IInv, RoomInv
  <2>3. Log!MakesRoom(kept)
    <3>1. \/ Cardinality(events) < MaxTotal /\ kept = events
          \/ /\ Cardinality(events) = MaxTotal
             /\ \E oldest \in events :
                  /\ kept = events \ {oldest}
                  /\ \A f \in events \ {oldest} : oldest.seq < f.seq
      BY <2>2, EvictOne DEF IInv, TypeOK
    <3>2. Log!Cardinality(events) = Cardinality(events)
      BY DEF Log!Cardinality, Cardinality
    <3> HIDE DEF kept
    <3> QED BY <3>1, <3>2 DEF Log!MakesRoom
  <2>4. kept \in SUBSET events
    BY <1>3, StoreAdds
  <2> QED BY <2>1, <2>3, <2>4 DEF Log!Next, Log!AppendEntry
<1> QED BY <1>1, <1>2, <1>3, StorageSteps DEF IInv

\* Whatever the sessions, the pruning and the operator do, the storage behaves
\* as a bounded log: it implements EventLog.
THEOREM RelayImplementsLog == Spec => ImplementsLog
BY InitLog, NextLog, Inductive, PTL
   DEF Spec, ImplementsLog, Log!Spec, Log!logVars

-------------------------------------------------------------------------------
(* The frames of one request.  A wire keeps all its frames, so an invariant   *)
(* can speak of those that belong to the message now being handled.           *)

\* The places on wire w of the frames that relay the nth message of session s.
LiveOf(w, s, n) ==
  {i \in 1..Len(w) : w[i].type = "live" /\ w[i].from = s /\ w[i].req = n}

\* The places on wire w of the events sent in answer to the nth message.
Replies(w, n) == {i \in 1..Len(w) : w[i].type = "stored" /\ w[i].req = n}

\* A frame on the wire of session t belongs to a message that was taken up, and
\* if it is a stored event, to one of t itself.
OfPast(f, t) ==
  /\ f.req <= handled[f.from]
  /\ f.type = "stored" => f.from = t

RequestsInv ==
  \A t \in Sessions : \A i \in 1..Len(wire[t]) : OfPast(wire[t][i], t)

\* The loop over sessions_ in the handler of s has passed session t.
Reached(s, t) == pc[s] = "cast" /\ t # s /\ t < cursor[s]

\* The copies of the event s handles on the wire of t: one if the loop has passed
\* t, none if not.
RelayedTo(s, t) ==
  IF Reached(s, t) THEN \E i : LiveOf(wire[t], s, handled[s]) = {i}
  ELSE LiveOf(wire[t], s, handled[s]) = {}

RelayedInv ==
  \A s, t \in Sessions : pc[s] \in EventPcs /\ conn[t] = "up" => RelayedTo(s, t)

\* What a wire says of a REQ in progress: the stored events sent so far are the
\* matches before the cursor, in order.
SentBefore(f, evs, c) == {x \in Selected(f, evs) : x.seq < c}

InOrderOn(w, n) == \A i, j \in Replies(w, n) : i < j => w[i].seq < w[j].seq

SeqsOn(w, n) == {w[i].seq : i \in Replies(w, n)}

Answered(s) ==
  /\ SeqsOn(wire[s], handled[s]) =
       {x.seq : x \in SentBefore(job[s], events, cursor[s])}
  /\ InOrderOn(wire[s], handled[s])

Unanswered(s) == cursor[s] = 0 /\ Replies(wire[s], handled[s]) = {}

ReplyInv ==
  \A s \in Sessions :
    /\ pc[s] = "lock" => Unanswered(s)
    /\ pc[s] = "stream" => lock = s
    /\ pc[s] = "stream" /\ conn[s] = "up" => Answered(s)

-------------------------------------------------------------------------------
(* What steps do to the wires.                                               *)

\* The frame f, written to t in the name of s.
Written(f, s, t) ==
  /\ f \in Frames /\ f.from = s /\ f.req = handled[s]
  /\ f.type = "stored" => s = t
  /\ Put(t, f)

\* What session s may see on the wire of t of the steps of the others.
NotFrom(s, t) ==
  \/ wire'[t] = wire[t]
  \/ \E f \in Frames : /\ f.from # s
                       /\ f.type = "stored" => f.from = t
                       /\ wire'[t] = Append(wire[t], f)

\* Session s itself does not move and nothing is written in its name.
Aside(s) ==
  /\ pc'[s] = pc[s] /\ job'[s] = job[s] /\ cursor'[s] = cursor[s]
  /\ handled'[s] = handled[s]
  /\ \A t \in Sessions : NotFrom(s, t)

\* A handler's frame has the number of the message it handles.
LEMMA FrameFields ==
  ASSUME NEW type, NEW s, NEW seq, NEW id, NEW pk
  PROVE  /\ Frame(type, s, seq, id, pk).type = type
         /\ Frame(type, s, seq, id, pk).from = s
         /\ Frame(type, s, seq, id, pk).req = handled[s]
         /\ Frame(type, s, seq, id, pk).seq = seq
BY DEF Frame

\* Each kind of frame the handlers write is Written.
LEMMA OkWritten ==
  ASSUME TypeOK, NEW s \in Sessions, ReplyOk(s)
  PROVE  Written(Frame("ok", s, 0, job[s].id, job[s].pubkey), s, s)
<1>1. pc[s] \in EventPcs
  BY DEF ReplyOk, In, EventPcs
<1>2. Frame("ok", s, 0, job[s].id, job[s].pubkey) \in Frames
  BY <1>1, JobType, FrameType DEF TypeOK
<1> QED BY <1>2, FrameFields DEF ReplyOk, Written

\* The event is relayed to the session the cursor is at, if that is running.
LEMMA LiveWritten ==
  ASSUME TypeOK, NEW s \in Sessions, Broadcast(s)
  PROVE  /\ cursor[s] \in Sessions
         /\ IF IsTarget(s, cursor[s])
              THEN Written(Frame("live", s, 0, job[s].id, job[s].pubkey), s, cursor[s])
              ELSE wire' = wire
<1>1. pc[s] = "cast" /\ cursor[s] <= NumSessions
  BY DEF Broadcast, In
<1>2. cursor[s] \in Nat /\ cursor[s] >= 1
  BY <1>1 DEF TypeOK, ThreadTypeOK
<1>3. cursor[s] \in Sessions
  BY <1>1, <1>2, ConstantsAssumption DEF Sessions
<1>4. Frame("live", s, 0, job[s].id, job[s].pubkey) \in Frames
  BY <1>1, JobType, FrameType DEF TypeOK, EventPcs
<1>5. CASE IsTarget(s, cursor[s])
  <2>1. Put(cursor[s], Frame("live", s, 0, job[s].id, job[s].pubkey))
    BY <1>5 DEF Broadcast
  <2> QED BY <1>3, <1>4, <1>5, <2>1, FrameFields DEF Written
<1>6. CASE ~IsTarget(s, cursor[s])
  BY <1>3, <1>6 DEF Broadcast
<1> QED BY <1>5, <1>6

\* The next match and the number it leaves in the cursor.
NextMatch(s, e) ==
  /\ e \in Unsent(s) /\ \A f \in Unsent(s) : e.seq <= f.seq
  /\ cursor' = [cursor EXCEPT ![s] = e.seq + 1]

\* StreamMatch sends the first match that is not sent.
LEMMA StoredWritten ==
  ASSUME TypeOK, NEW s \in Sessions, StreamMatch(s)
  PROVE  \E e \in events : /\ NextMatch(s, e)
                           /\ Written(Frame("stored", s, e.seq, e.id, e.pubkey), s, s)
<1>1. PICK e \in Unsent(s) :
        /\ \A f \in Unsent(s) : e.seq <= f.seq
        /\ Put(s, Frame("stored", s, e.seq, e.id, e.pubkey))
        /\ cursor' = [cursor EXCEPT ![s] = e.seq + 1]
  BY DEF StreamMatch
<1>2. e \in events
  BY DEF Unsent, Selected
<1>3. e.seq \in Nat /\ e.id \in Ids /\ e.pubkey \in Pubkeys
  BY <1>2 DEF TypeOK, StorageTypeOK, StoredEvents
<1>4. Frame("stored", s, e.seq, e.id, e.pubkey) \in Frames
  BY <1>3, FrameType
<1>5. Written(Frame("stored", s, e.seq, e.id, e.pubkey), s, s)
  BY <1>1, <1>4, FrameFields DEF Written
<1> QED BY <1>1, <1>2, <1>5 DEF NextMatch

\* SendEose ends the answer.
LEMMA EoseWritten ==
  ASSUME TypeOK, NEW s \in Sessions, SendEose(s)
  PROVE  Written(Frame("eose", s, 0, "", ""), s, s)
<1>1. Frame("eose", s, 0, "", "") \in Frames
  BY FrameType
<1>2. Put(s, Frame("eose", s, 0, "", ""))
  BY DEF SendEose
<1>3. /\ Frame("eose", s, 0, "", "").type = "eose"
      /\ Frame("eose", s, 0, "", "").from = s
      /\ Frame("eose", s, 0, "", "").req = handled[s]
  BY DEF Frame
<1> QED BY <1>1, <1>2, <1>3 DEF Written

\* A frame written appears on one wire, if that session is up.
LEMMA WrittenWire ==
  ASSUME TypeOK, NEW s \in Sessions, NEW t \in Sessions, NEW f, Written(f, s, t),
         NEW u \in Sessions
  PROVE  wire'[u] = IF u = t /\ conn[t] = "up" THEN Append(wire[u], f) ELSE wire[u]
BY DEF Written, Put, TypeOK, NetTypeOK

\* To the other sessions it is a frame of somebody else.
LEMMA WrittenAside ==
  ASSUME TypeOK, NEW s \in Sessions, NEW t \in Sessions, NEW f, Written(f, s, t),
         NEW o \in Sessions, o # s
  PROVE  \A u \in Sessions : NotFrom(o, u)
<1> SUFFICES ASSUME NEW u \in Sessions PROVE NotFrom(o, u)
  OBVIOUS
<1>1. f \in Frames /\ f.from = s /\ (f.type = "stored" => s = t)
  BY DEF Written
<1>2. CASE u = t /\ conn[t] = "up"
  <2>1. wire'[u] = Append(wire[u], f)
    BY <1>2, WrittenWire
  <2> QED BY <1>1, <1>2, <2>1 DEF NotFrom
<1>3. CASE ~(u = t /\ conn[t] = "up")
  BY <1>3, WrittenWire DEF NotFrom
<1> QED BY <1>2, <1>3

\* A step is one of the session's own or leaves it aside.
LEMMA SessionSteps ==
  ASSUME TypeOK, [Next]_vars, NEW o \in Sessions
  PROVE  Aside(o) \/ HandleEvent(o) \/ HandleReq(o) \/ Handler(o)
<1> USE DEF store, config, thread, net, TypeOK, ThreadTypeOK
<1>1. ASSUME NEW s \in Sessions, HandleEvent(s), s # o PROVE Aside(o)
  BY <1>1 DEF HandleEvent, TakeUp, Goto, Aside, NotFrom
<1>2. ASSUME NEW s \in Sessions, HandleReq(s), s # o PROVE Aside(o)
  BY <1>2 DEF HandleReq, TakeUp, Goto, Aside, NotFrom
<1>3. ASSUME NEW s \in Sessions, s # o, CheckRateLimit(s) PROVE Aside(o)
  BY <1>3 DEF CheckRateLimit, Return, Goto, Aside, NotFrom
<1>4. ASSUME NEW s \in Sessions, s # o, CanStore(s) \/ StoreEvent(s) \/ RecordEvent(s)
      PROVE  Aside(o)
  BY <1>4 DEF CanStore, StoreEvent, RecordEvent, Goto, Aside, NotFrom
<1>5. ASSUME NEW s \in Sessions, s # o, ReplyOk(s) PROVE Aside(o)
  <2>1. \A u \in Sessions : NotFrom(o, u)
    BY <1>5, OkWritten, WrittenAside
  <2> QED BY <1>5, <2>1 DEF ReplyOk, Goto, Aside
<1>6. ASSUME NEW s \in Sessions, s # o, Broadcast(s) PROVE Aside(o)
  <2>1. \A u \in Sessions : NotFrom(o, u)
    <3>1. CASE IsTarget(s, cursor[s])
      BY <1>6, <3>1, LiveWritten, WrittenAside
    <3>2. CASE ~IsTarget(s, cursor[s])
      BY <1>6, <3>2, LiveWritten DEF NotFrom
    <3> QED BY <3>1, <3>2
  <2> QED BY <1>6, <2>1 DEF Broadcast, Aside
<1>7. ASSUME NEW s \in Sessions, s # o, FinishEvent(s) \/ AcquireLock(s) PROVE Aside(o)
  BY <1>7 DEF FinishEvent, AcquireLock, Return, Goto, Aside, NotFrom
<1>8. ASSUME NEW s \in Sessions, s # o, StreamMatch(s) PROVE Aside(o)
  <2>1. PICK e \in events :
          /\ NextMatch(s, e)
          /\ Written(Frame("stored", s, e.seq, e.id, e.pubkey), s, s)
    BY <1>8, StoredWritten
  <2>2. \A u \in Sessions : NotFrom(o, u)
    BY <1>8, <2>1, WrittenAside
  <2> QED BY <1>8, <2>1, <2>2 DEF StreamMatch, NextMatch, Aside
<1>9. ASSUME NEW s \in Sessions, s # o, SendEose(s) PROVE Aside(o)
  <2>1. \A u \in Sessions : NotFrom(o, u)
    BY <1>9, EoseWritten, WrittenAside
  <2> QED BY <1>9, <2>1 DEF SendEose, Return, Goto, Aside
<1>10. ASSUME NEW s \in Sessions, EndSession(s) \/ ClientRead(s) \/ PeerClose(s)
       PROVE  Aside(o)
  BY <1>10 DEF EndSession, ClientRead, PeerClose, Aside, NotFrom
<1>11. CASE Prune \/ Operator \/ Tick \/ UNCHANGED vars
  BY <1>11 DEF Prune, Operator, BanPubkey, AllowEventKind, DeleteEventsByPubkey,
               DeleteEventById, Tick, vars, Aside, NotFrom
<1>12. ASSUME NEW s \in Sessions, Handler(s), s # o PROVE Aside(o)
  BY <1>3, <1>4, <1>5, <1>6, <1>7, <1>8, <1>9, <1>12 DEF Handler
<1> QED BY <1>1, <1>2, <1>10, <1>11, <1>12 DEF Next

-------------------------------------------------------------------------------
(* The frames of the message being handled.                                  *)

\* Appending a frame adds its place if it relays that message, and nothing else.
LEMMA LiveOfAppend ==
  ASSUME NEW w \in Seq(Frames), NEW f \in Frames, NEW s, NEW n
  PROVE  IF f.type = "live" /\ f.from = s /\ f.req = n
           THEN LiveOf(Append(w, f), s, n) = LiveOf(w, s, n) \cup {Len(w) + 1}
           ELSE LiveOf(Append(w, f), s, n) = LiveOf(w, s, n)
<1>1. Len(w) \in Nat
  OBVIOUS
<1>2. Len(Append(w, f)) = Len(w) + 1 /\ Append(w, f)[Len(w) + 1] = f
  OBVIOUS
<1>3. \A i \in 1..Len(w) : Append(w, f)[i] = w[i]
  OBVIOUS
<1>4. 1..(Len(w) + 1) = 1..Len(w) \cup {Len(w) + 1}
  BY <1>1
<1>5. Len(w) + 1 \notin 1..Len(w)
  BY <1>1
<1> QED BY <1>2, <1>3, <1>4, <1>5 DEF LiveOf

\* The same for the events sent in answer to it.
LEMMA RepliesAppend ==
  ASSUME NEW w \in Seq(Frames), NEW f \in Frames, NEW n
  PROVE  IF f.type = "stored" /\ f.req = n
           THEN Replies(Append(w, f), n) = Replies(w, n) \cup {Len(w) + 1}
           ELSE Replies(Append(w, f), n) = Replies(w, n)
<1>1. Len(w) \in Nat
  OBVIOUS
<1>2. Len(Append(w, f)) = Len(w) + 1 /\ Append(w, f)[Len(w) + 1] = f
  OBVIOUS
<1>3. \A i \in 1..Len(w) : Append(w, f)[i] = w[i]
  OBVIOUS
<1>4. 1..(Len(w) + 1) = 1..Len(w) \cup {Len(w) + 1}
  BY <1>1
<1>5. Len(w) + 1 \notin 1..Len(w)
  BY <1>1
<1> QED BY <1>2, <1>3, <1>4, <1>5 DEF Replies

\* Message numbers only grow.
LEMMA HandledGrows ==
  ASSUME TypeOK, [Next]_vars, NEW o \in Sessions
  PROVE  handled[o] \in Nat /\ handled'[o] \in Nat /\ handled'[o] >= handled[o]
<1> USE DEF thread, TypeOK, ThreadTypeOK
<1>1. handled'[o] \in Nat
  BY NextType
<1>2. ASSUME NEW s \in Sessions, HandleEvent(s) \/ HandleReq(s)
      PROVE  handled' = [handled EXCEPT ![s] = @ + 1]
  BY <1>2 DEF HandleEvent, HandleReq, TakeUp
<1>3. ASSUME HandleEvent(o) \/ HandleReq(o) PROVE handled'[o] = handled[o] + 1
  BY <1>2, <1>3
<1>4. ASSUME Handler(o) PROVE handled'[o] = handled[o]
  BY <1>4 DEF Handler, CheckRateLimit, CanStore, StoreEvent, RecordEvent, ReplyOk,
              Broadcast, FinishEvent, AcquireLock, StreamMatch, SendEose
<1> QED BY <1>1, <1>3, <1>4, SessionSteps DEF Aside

\* Every step leaves the wires alone or writes one frame.
LEMMA WireSteps ==
  ASSUME TypeOK, [Next]_vars
  PROVE  wire' = wire \/ \E s, t \in Sessions : \E f \in Frames : Written(f, s, t)
<1> DEFINE Calm == wire' = wire \/ \E s, t \in Sessions : \E f \in Frames : Written(f, s, t)
<1> USE DEF net
<1>1. ASSUME NEW s \in Sessions, HandleEvent(s) \/ HandleReq(s) PROVE Calm
  BY <1>1 DEF HandleEvent, HandleReq
<1>2. ASSUME NEW s \in Sessions,
             CheckRateLimit(s) \/ CanStore(s) \/ StoreEvent(s) \/ RecordEvent(s)
      PROVE  Calm
  BY <1>2 DEF CheckRateLimit, CanStore, StoreEvent, RecordEvent
<1>3. ASSUME NEW s \in Sessions, ReplyOk(s) PROVE Calm
  <2>1. Written(Frame("ok", s, 0, job[s].id, job[s].pubkey), s, s)
    BY <1>3, OkWritten
  <2> QED BY <2>1 DEF Written
<1>4. ASSUME NEW s \in Sessions, Broadcast(s) PROVE Calm
  <2>1. CASE IsTarget(s, cursor[s])
    <3>1. Written(Frame("live", s, 0, job[s].id, job[s].pubkey), s, cursor[s])
      BY <1>4, <2>1, LiveWritten
    <3> QED BY <1>4, <3>1, LiveWritten DEF Written
  <2>2. CASE ~IsTarget(s, cursor[s])
    BY <1>4, <2>2, LiveWritten
  <2> QED BY <2>1, <2>2
<1>5. ASSUME NEW s \in Sessions, FinishEvent(s) \/ AcquireLock(s) PROVE Calm
  BY <1>5 DEF FinishEvent, AcquireLock
<1>6. ASSUME NEW s \in Sessions, StreamMatch(s) PROVE Calm
  <2>1. PICK e \in events : Written(Frame("stored", s, e.seq, e.id, e.pubkey), s, s)
    BY <1>6, StoredWritten
  <2> QED BY <2>1 DEF Written
<1>7. ASSUME NEW s \in Sessions, SendEose(s) PROVE Calm
  <2>1. Written(Frame("eose", s, 0, "", ""), s, s)
    BY <1>7, EoseWritten
  <2> QED BY <2>1 DEF Written
<1>8. ASSUME NEW s \in Sessions, EndSession(s) \/ ClientRead(s) \/ PeerClose(s)
      PROVE  Calm
  BY <1>8 DEF EndSession, ClientRead, PeerClose
<1>9. CASE Prune \/ Operator \/ Tick \/ UNCHANGED vars
  BY <1>9 DEF Prune, Operator, BanPubkey, AllowEventKind, DeleteEventsByPubkey,
              DeleteEventById, Tick, vars
<1> QED BY <1>1, <1>2, <1>3, <1>4, <1>5, <1>6, <1>7, <1>8, <1>9 DEF Next, Handler

\* A session that is up after a step was up before it.
LEMMA StillUp ==
  ASSUME TypeOK, [Next]_vars, NEW t \in Sessions, conn'[t] = "up"
  PROVE  conn[t] = "up"
<1> USE DEF net, TypeOK, NetTypeOK
<1>1. ASSUME NEW s \in Sessions, HandleEvent(s) \/ HandleReq(s) PROVE conn' = conn
  BY <1>1 DEF HandleEvent, HandleReq
<1>2. ASSUME NEW s \in Sessions, Handler(s) PROVE conn' = conn
  BY <1>2 DEF Handler, CheckRateLimit, CanStore, StoreEvent, RecordEvent, ReplyOk,
              Broadcast, FinishEvent, AcquireLock, StreamMatch, SendEose
<1>3. ASSUME NEW s \in Sessions, EndSession(s) \/ ClientRead(s) \/ PeerClose(s)
      PROVE  conn[t] = "up"
  BY <1>3 DEF EndSession, ClientRead, PeerClose
<1>4. CASE Prune \/ Operator \/ Tick \/ UNCHANGED vars
  BY <1>4 DEF Prune, Operator, BanPubkey, AllowEventKind, DeleteEventsByPubkey,
              DeleteEventById, Tick, vars
<1> QED BY <1>1, <1>2, <1>3, <1>4 DEF Next

\* No frame ever belongs to a message not taken up, and stored events stay with
\* the session that asked for them.
LEMMA RequestsStep ==
  ASSUME TypeOK, RequestsInv, [Next]_vars
  PROVE  RequestsInv'
<1> SUFFICES ASSUME NEW t \in Sessions, NEW i \in 1..Len(wire'[t])
             PROVE  OfPast(wire[t][i], t)'
  BY DEF RequestsInv
<1>1. wire[t] \in Seq(Frames) /\ wire'[t] \in Seq(Frames)
  BY NextType DEF TypeOK, NetTypeOK
<1>2. wire'[t][i] \in Frames
  BY <1>1
<1>3. wire'[t][i].from \in Sessions
  BY <1>2 DEF Frames
<1>4. wire'[t][i].req \in Nat
  BY <1>2 DEF Frames
<1>5. ASSUME OfPast(wire'[t][i], t) PROVE OfPast(wire[t][i], t)'
  <2>1. wire'[t][i].req <= handled[wire'[t][i].from]
    BY <1>5 DEF OfPast
  <2>2. wire'[t][i].req <= handled'[wire'[t][i].from]
    BY <2>1, <1>3, <1>4, HandledGrows
  <2> QED BY <1>5, <2>2 DEF OfPast
<1>6. ASSUME wire'[t] = wire[t] PROVE OfPast(wire'[t][i], t)
  BY <1>6 DEF RequestsInv
<1>7. ASSUME NEW s \in Sessions, NEW u \in Sessions, NEW f \in Frames, Written(f, s, u)
      PROVE  OfPast(wire'[t][i], t)
  <2>1. CASE u = t /\ conn[t] = "up"
    <3>1. wire'[t] = Append(wire[t], f)
      BY <1>7, <2>1, WrittenWire
    <3>2. OfPast(f, t)
      BY <1>7, <2>1 DEF OfPast, Written, TypeOK, ThreadTypeOK
    <3>3. Len(wire[t]) \in Nat
      BY <1>1
    <3>4. i \in 1..Len(wire[t]) \/ i = Len(wire[t]) + 1
      BY <1>1, <3>1, <3>3
    <3>5. CASE i \in 1..Len(wire[t])
      BY <1>1, <3>1, <3>5 DEF RequestsInv
    <3>6. CASE i = Len(wire[t]) + 1
      BY <1>1, <3>1, <3>2, <3>6
    <3> QED BY <3>4, <3>5, <3>6
  <2>2. CASE ~(u = t /\ conn[t] = "up")
    BY <1>6, <1>7, <2>2, WrittenWire
  <2> QED BY <2>1, <2>2
<1> QED BY <1>5, <1>6, <1>7, WireSteps

\* No frame has the number of the message a session takes up next.
LEMMA NoneYet ==
  ASSUME TypeOK, RequestsInv, NEW s \in Sessions, NEW t \in Sessions
  PROVE  /\ LiveOf(wire[t], s, handled[s] + 1) = {}
         /\ Replies(wire[s], handled[s] + 1) = {}
<1>1. handled[s] \in Nat
  BY DEF TypeOK, ThreadTypeOK
<1>2. ASSUME NEW i \in LiveOf(wire[t], s, handled[s] + 1) PROVE FALSE
  <2>1. wire[t][i].req <= handled[wire[t][i].from]
    BY <1>2 DEF RequestsInv, OfPast, LiveOf
  <2>2. wire[t][i].from = s /\ wire[t][i].req = handled[s] + 1
    BY <1>2 DEF LiveOf
  <2> QED BY <1>1, <2>1, <2>2
<1>3. ASSUME NEW i \in Replies(wire[s], handled[s] + 1) PROVE FALSE
  <2>1. OfPast(wire[s][i], s)
    BY <1>3 DEF RequestsInv, Replies
  <2>2. wire[s][i].type = "stored" /\ wire[s][i].req = handled[s] + 1
    BY <1>3 DEF Replies
  <2>3. handled[s] + 1 <= handled[s]
    BY <2>1, <2>2 DEF OfPast
  <2> QED BY <1>1, <2>3
<1> QED BY <1>2, <1>3

\* The steps of the others do not change what a wire says of a session's message.
LEMMA AsideWires ==
  ASSUME TypeOK, NEW s \in Sessions, Aside(s), NEW t \in Sessions, NEW n
  PROVE  /\ LiveOf(wire'[t], s, n) = LiveOf(wire[t], s, n)
         /\ Replies(wire'[s], n) = Replies(wire[s], n)
<1>1. \A u \in Sessions : wire[u] \in Seq(Frames)
  BY DEF TypeOK, NetTypeOK
<1>2. LiveOf(wire'[t], s, n) = LiveOf(wire[t], s, n)
  <2>1. CASE wire'[t] = wire[t]
    BY <2>1
  <2>2. ASSUME NEW f \in Frames, f.from # s, wire'[t] = Append(wire[t], f)
        PROVE  LiveOf(wire'[t], s, n) = LiveOf(wire[t], s, n)
    BY <1>1, <2>2, LiveOfAppend
  <2> QED BY <2>1, <2>2 DEF Aside, NotFrom
<1>3. Replies(wire'[s], n) = Replies(wire[s], n)
  <2>1. CASE wire'[s] = wire[s]
    BY <2>1
  <2>2. ASSUME NEW f \in Frames, f.type # "stored", wire'[s] = Append(wire[s], f)
        PROVE  Replies(wire'[s], n) = Replies(wire[s], n)
    BY <1>1, <2>2, RepliesAppend
  <2> QED BY <2>1, <2>2 DEF Aside, NotFrom
<1> QED BY <1>2, <1>3

\* A frame of another kind than "live" leaves the copies alone.
LEMMA OtherFrame ==
  ASSUME TypeOK, NEW s \in Sessions, NEW u \in Sessions, NEW f, Written(f, s, u),
         f.type # "live", NEW t \in Sessions, NEW n
  PROVE  LiveOf(wire'[t], s, n) = LiveOf(wire[t], s, n)
<1>1. wire[t] \in Seq(Frames) /\ f \in Frames
  BY DEF TypeOK, NetTypeOK, Written
<1>2. wire'[t] = wire[t] \/ wire'[t] = Append(wire[t], f)
  <2>1. CASE t = u /\ conn[u] = "up"
    BY <2>1, WrittenWire
  <2>2. CASE ~(t = u /\ conn[u] = "up")
    BY <2>2, WrittenWire
  <2> QED BY <2>1, <2>2
<1>3. LiveOf(Append(wire[t], f), s, n) = LiveOf(wire[t], s, n)
  BY <1>1, LiveOfAppend
<1> QED BY <1>2, <1>3

-------------------------------------------------------------------------------
(* Every client gets an event once.                                          *)

\* Passing session u, the loop leaves one copy there if it is up and not the
\* sender.
LEMMA BroadcastStep ==
  ASSUME TypeOK, RelayedInv, NEW s \in Sessions, Broadcast(s),
         NEW t \in Sessions, conn[t] = "up"
  PROVE  RelayedTo(s, t)'
<1> DEFINE u == cursor[s]
           f == Frame("live", s, 0, job[s].id, job[s].pubkey)
           old == LiveOf(wire[t], s, handled[s])
<1>1. /\ pc[s] = "cast" /\ pc'[s] = "cast" /\ handled'[s] = handled[s]
      /\ cursor'[s] = u + 1
  BY DEF Broadcast, In, TypeOK, ThreadTypeOK
<1>2. u \in Nat /\ t \in Nat
  BY ConstantsAssumption DEF TypeOK, ThreadTypeOK, Sessions
<1>3. RelayedTo(s, t)
  BY <1>1 DEF RelayedInv, EventPcs
<1>4. wire[t] \in Seq(Frames)
  BY DEF TypeOK, NetTypeOK
<1>5. CASE t = u /\ t # s
  <2>1. ~Reached(s, t) /\ Reached(s, t)'
    BY <1>1, <1>2, <1>5 DEF Reached
  <2>2. old = {}
    BY <1>3, <2>1 DEF RelayedTo
  <2>3. Written(f, s, t)
    <3>1. IsTarget(s, u)
      BY <1>5 DEF IsTarget
    <3> QED BY <1>5, <3>1, LiveWritten
  <2>4. wire'[t] = Append(wire[t], f)
    BY <2>3, WrittenWire
  <2>5. f \in Frames /\ f.type = "live" /\ f.from = s /\ f.req = handled[s]
    BY <2>3, FrameFields DEF Written
  <2>6. LiveOf(wire'[t], s, handled[s]) = {Len(wire[t]) + 1}
    BY <1>4, <2>2, <2>4, <2>5, LiveOfAppend
  <2> QED BY <1>1, <2>1, <2>6 DEF RelayedTo
<1>6. CASE ~(t = u /\ t # s)
  <2>1. wire'[t] = wire[t]
    <3>1. CASE ~IsTarget(s, u)
      BY <3>1, LiveWritten
    <3>2. CASE IsTarget(s, u)
      <4>1. Written(f, s, u) /\ u \in Sessions
        BY <3>2, LiveWritten
      <4>2. t # u
        BY <1>6, <3>2 DEF IsTarget
      <4> QED BY <4>1, <4>2, WrittenWire
    <3> QED BY <3>1, <3>2
  <2>2. Reached(s, t)' <=> Reached(s, t)
    BY <1>1, <1>2, <1>6 DEF Reached
  <2> QED BY <1>1, <1>3, <2>1, <2>2 DEF RelayedTo
<1> QED BY <1>5, <1>6

\* Every step keeps the copies of each event in progress at one or none.
LEMMA RelayedStep ==
  ASSUME TypeOK, RequestsInv, RelayedInv, [Next]_vars
  PROVE  RelayedInv'
<1> SUFFICES ASSUME NEW s \in Sessions, NEW t \in Sessions,
                    pc'[s] \in EventPcs, conn'[t] = "up"
             PROVE  RelayedTo(s, t)'
  BY DEF RelayedInv
<1>1. conn[t] = "up"
  BY StillUp
<1>2. pc[s] \in EventPcs => RelayedTo(s, t)
  BY <1>1 DEF RelayedInv
<1>3. CASE Aside(s)
  <2>1. LiveOf(wire'[t], s, handled[s]) = LiveOf(wire[t], s, handled[s])
    BY <1>3, AsideWires
  <2>2. RelayedTo(s, t)
    BY <1>2, <1>3 DEF Aside
  <2> QED BY <1>3, <2>1, <2>2 DEF RelayedTo, Reached, Aside
<1>4. CASE HandleEvent(s) \/ HandleReq(s)
  <2>1. wire' = wire /\ handled'[s] = handled[s] + 1 /\ pc'[s] # "cast"
    BY <1>4 DEF HandleEvent, HandleReq, TakeUp, In, Goto, net, TypeOK, ThreadTypeOK
  <2> QED BY <2>1, NoneYet DEF RelayedTo, Reached
<1>5. CASE CheckRateLimit(s) \/ CanStore(s) \/ StoreEvent(s) \/ RecordEvent(s)
  <2>1. /\ wire' = wire /\ handled'[s] = handled[s]
        /\ pc[s] \in EventPcs /\ pc[s] # "cast" /\ pc'[s] # "cast"
    BY <1>5 DEF CheckRateLimit, CanStore, StoreEvent, RecordEvent, In, Return, Goto,
                net, TypeOK, ThreadTypeOK, EventPcs
  <2> QED BY <1>2, <2>1 DEF RelayedTo, Reached
<1>6. CASE ReplyOk(s)
  <2>1. /\ pc[s] \in EventPcs /\ pc[s] # "cast" /\ cursor'[s] = 1
        /\ handled'[s] = handled[s]
    BY <1>6 DEF ReplyOk, In, Goto, TypeOK, ThreadTypeOK, EventPcs
  <2>2. Frame("ok", s, 0, job[s].id, job[s].pubkey).type # "live"
    BY FrameFields
  <2>3. LiveOf(wire'[t], s, handled[s]) = LiveOf(wire[t], s, handled[s])
    BY <1>6, <2>2, OkWritten, OtherFrame
  <2>4. ~Reached(s, t) /\ ~Reached(s, t)'
    <3>1. ~(t < 1)
      BY ConstantsAssumption DEF Sessions
    <3> QED BY <2>1, <3>1 DEF Reached
  <2> QED BY <1>2, <2>1, <2>3, <2>4 DEF RelayedTo
<1>7. CASE Broadcast(s)
  BY <1>1, <1>7, BroadcastStep
<1>8. CASE FinishEvent(s) \/ AcquireLock(s) \/ StreamMatch(s) \/ SendEose(s)
  <2>1. pc'[s] \notin EventPcs
    BY <1>8 DEF FinishEvent, AcquireLock, StreamMatch, SendEose, In, Return, Goto,
                TypeOK, ThreadTypeOK, EventPcs
  <2> QED BY <2>1
<1> QED BY <1>3, <1>4, <1>5, <1>6, <1>7, <1>8, SessionSteps DEF Handler

-------------------------------------------------------------------------------
(* A REQ is answered from one state of the storage.                          *)

\* While a session answers a REQ the storage stands still.
LEMMA LockedStorage ==
  ASSUME TypeOK, [Next]_vars, lock # 0
  PROVE  events' = events
<1> USE DEF store, StorageFree
<1>1. ASSUME NEW s \in Sessions, HandleEvent(s) \/ HandleReq(s) PROVE events' = events
  BY <1>1 DEF HandleEvent, HandleReq
<1>2. ASSUME NEW s \in Sessions, Handler(s) PROVE events' = events
  BY <1>2 DEF Handler, CheckRateLimit, CanStore, StoreEvent, RecordEvent, ReplyOk,
              Broadcast, FinishEvent, AcquireLock, StreamMatch, SendEose
<1>3. ASSUME NEW s \in Sessions, EndSession(s) \/ ClientRead(s) \/ PeerClose(s)
      PROVE  events' = events
  BY <1>3 DEF EndSession, ClientRead, PeerClose
<1>4. CASE Prune \/ Operator \/ Tick \/ UNCHANGED vars
  BY <1>4 DEF Prune, Operator, BanPubkey, AllowEventKind, DeleteEventsByPubkey,
              DeleteEventById, Tick, vars
<1> QED BY <1>1, <1>2, <1>3, <1>4 DEF Next

\* Nobody takes the lock from the session that answers a REQ.
LEMMA LockKept ==
  ASSUME TypeOK, ReplyInv, [Next]_vars, NEW o \in Sessions, pc'[o] = "stream"
  PROVE  lock' = o
<1> USE DEF StorageFree, TypeOK, ThreadTypeOK
<1>1. o # 0
  BY ConstantsAssumption DEF Sessions
<1>2. \A s \in Sessions : pc[s] = "stream" => lock = s
  BY DEF ReplyInv
<1>3. ASSUME NEW s \in Sessions, HandleEvent(s) \/ HandleReq(s) PROVE lock' = o
  BY <1>2, <1>3 DEF HandleEvent, HandleReq, TakeUp, In, Goto
<1>4. ASSUME NEW s \in Sessions,
             CheckRateLimit(s) \/ CanStore(s) \/ StoreEvent(s) \/ RecordEvent(s)
      PROVE  lock' = o
  BY <1>2, <1>4 DEF CheckRateLimit, CanStore, StoreEvent, RecordEvent, In, Return, Goto
<1>5. ASSUME NEW s \in Sessions, ReplyOk(s) \/ Broadcast(s) \/ FinishEvent(s)
      PROVE  lock' = o
  BY <1>2, <1>5 DEF ReplyOk, Broadcast, FinishEvent, In, Return, Goto
<1>6. ASSUME NEW s \in Sessions, AcquireLock(s) PROVE lock' = o
  BY <1>1, <1>2, <1>6 DEF AcquireLock, In, Goto
<1>7. ASSUME NEW s \in Sessions, StreamMatch(s) PROVE lock' = o
  BY <1>2, <1>7 DEF StreamMatch, In, Goto
<1>8. ASSUME NEW s \in Sessions, SendEose(s) PROVE lock' = o
  BY <1>2, <1>8 DEF SendEose, In, Return, Goto
<1>9. ASSUME NEW s \in Sessions, EndSession(s) \/ ClientRead(s) \/ PeerClose(s)
      PROVE  lock' = o
  BY <1>2, <1>9 DEF EndSession, ClientRead, PeerClose, thread
<1>10. CASE Prune \/ Operator \/ Tick \/ UNCHANGED vars
  BY <1>2, <1>10 DEF Prune, Operator, BanPubkey, AllowEventKind, DeleteEventsByPubkey,
              DeleteEventById, Tick, vars, thread
<1> QED BY <1>3, <1>4, <1>5, <1>6, <1>7, <1>8, <1>9, <1>10 DEF Next, Handler

\* A frame that answers nothing leaves the answer as it is.
LEMMA NoAnswer ==
  ASSUME NEW w \in Seq(Frames), NEW f \in Frames, NEW n,
         ~(f.type = "stored" /\ f.req = n)
  PROVE  /\ SeqsOn(Append(w, f), n) = SeqsOn(w, n)
         /\ InOrderOn(Append(w, f), n) <=> InOrderOn(w, n)
<1> DEFINE v == Append(w, f)
<1>1. Replies(v, n) = Replies(w, n)
  BY RepliesAppend
<1>2. \A i \in Replies(w, n) : v[i] = w[i]
  BY DEF Replies
<1> HIDE DEF v
<1>3. SeqsOn(v, n) = SeqsOn(w, n)
  BY <1>1, <1>2 DEF SeqsOn
<1>4. InOrderOn(v, n) <=> InOrderOn(w, n)
  BY <1>1, <1>2 DEF InOrderOn
<1> QED BY <1>3, <1>4 DEF v

\* A stored event with a greater number than those sent extends the answer.
LEMMA NextAnswer ==
  ASSUME NEW w \in Seq(Frames), NEW f \in Frames, NEW n,
         f.type = "stored", f.req = n, InOrderOn(w, n),
         \A q \in SeqsOn(w, n) : q < f.seq
  PROVE  /\ SeqsOn(Append(w, f), n) = SeqsOn(w, n) \cup {f.seq}
         /\ InOrderOn(Append(w, f), n)
<1> DEFINE v == Append(w, f)
           last == Len(w) + 1
<1>1. Replies(v, n) = Replies(w, n) \cup {last}
  BY RepliesAppend
<1>2. \A i \in Replies(w, n) : v[i] = w[i]
  BY DEF Replies
<1>3. v[last] = f
  OBVIOUS
<1>4. \A i \in Replies(w, n) : i \in Nat /\ i < last
  BY DEF Replies
<1>5. \A i \in Replies(w, n) : w[i].seq < f.seq
  BY DEF SeqsOn
<1>6. SeqsOn(v, n) = SeqsOn(w, n) \cup {f.seq}
  <2> HIDE DEF v, last
  <2> QED BY <1>1, <1>2, <1>3 DEF SeqsOn
<1>7. InOrderOn(v, n)
  <2> SUFFICES ASSUME NEW i \in Replies(v, n), NEW j \in Replies(v, n), i < j
               PROVE  v[i].seq < v[j].seq
    BY DEF InOrderOn
  <2>1. last \in Nat
    OBVIOUS
  <2> HIDE DEF v, last
  <2>2. i \in Replies(w, n)
    BY <1>1, <1>4, <2>1
  <2>3. CASE j = last
    BY <1>2, <1>3, <1>5, <2>2, <2>3
  <2>4. CASE j \in Replies(w, n)
    BY <1>2, <2>2, <2>4 DEF InOrderOn
  <2> QED BY <1>1, <2>3, <2>4
<1> QED BY <1>6, <1>7

\* The next match extends the events sent, and comes after all of them.
LEMMA NextSent ==
  ASSUME TypeOK, NEW s \in Sessions, NEW e \in events, NextMatch(s, e)
  PROVE  /\ {x.seq : x \in SentBefore(job[s], events, e.seq + 1)} =
              {x.seq : x \in SentBefore(job[s], events, cursor[s])} \cup {e.seq}
         /\ \A x \in SentBefore(job[s], events, cursor[s]) : x.seq < e.seq
<1> DEFINE M == Selected(job[s], events)
           c == cursor[s]
<1>1. c \in Nat /\ \A x \in M : x.seq \in Nat
  BY DEF TypeOK, ThreadTypeOK, StorageTypeOK, StoredEvents, Selected
<1>2. e \in M /\ e.seq >= c
  BY DEF NextMatch, Unsent
<1>3. \A x \in M : x.seq >= c => e.seq <= x.seq
  BY DEF NextMatch, Unsent
<1> HIDE DEF M, c
<1>4. \A x \in M : x.seq < e.seq + 1 <=> x.seq < c \/ x.seq = e.seq
  BY <1>1, <1>2, <1>3
<1>5. \A x \in M : x.seq < c => x.seq < e.seq
  BY <1>1, <1>2
<1> QED BY <1>2, <1>4, <1>5 DEF SentBefore, M, c

\* Sending the next match keeps the answer exact.
LEMMA StreamStep ==
  ASSUME TypeOK, NEW s \in Sessions, StreamMatch(s), conn[s] = "up", Answered(s)
  PROVE  Answered(s)'
<1>1. PICK e \in events :
        /\ NextMatch(s, e)
        /\ Written(Frame("stored", s, e.seq, e.id, e.pubkey), s, s)
  BY StoredWritten
<1> DEFINE f == Frame("stored", s, e.seq, e.id, e.pubkey)
           n == handled[s]
<1>2. wire[s] \in Seq(Frames) /\ f \in Frames
  BY <1>1 DEF TypeOK, NetTypeOK, Written
<1>3. f.type = "stored" /\ f.req = n /\ f.seq = e.seq
  BY FrameFields
<1>4. wire'[s] = Append(wire[s], f)
  BY <1>1, WrittenWire
<1>5. /\ events' = events /\ job'[s] = job[s] /\ handled'[s] = n
      /\ cursor'[s] = e.seq + 1
  BY <1>1 DEF StreamMatch, NextMatch, store, TypeOK, ThreadTypeOK
<1>6. SeqsOn(wire[s], n) = {x.seq : x \in SentBefore(job[s], events, cursor[s])}
  BY DEF Answered
<1>7. \A q \in SeqsOn(wire[s], n) : q < f.seq
  BY <1>1, <1>3, <1>6, NextSent
<1>8. InOrderOn(wire[s], n)
  BY DEF Answered
<1> HIDE DEF f
<1>9. /\ SeqsOn(Append(wire[s], f), n) = SeqsOn(wire[s], n) \cup {f.seq}
      /\ InOrderOn(Append(wire[s], f), n)
  BY <1>2, <1>3, <1>7, <1>8, NextAnswer
<1>10. {x.seq : x \in SentBefore(job[s], events, e.seq + 1)} =
         SeqsOn(wire[s], n) \cup {e.seq}
  BY <1>1, <1>6, NextSent
<1> QED BY <1>3, <1>4, <1>5, <1>9, <1>10 DEF Answered

\* Every step keeps the answers in progress exact.
LEMMA ReplyStep ==
  ASSUME TypeOK, RequestsInv, ReplyInv, [Next]_vars
  PROVE  ReplyInv'
<1> USE DEF TypeOK, ThreadTypeOK
<1>1. ASSUME NEW s \in Sessions, pc'[s] = "lock" PROVE Unanswered(s)'
  <2>1. CASE Aside(s)
    <3>1. Unanswered(s)
      BY <1>1, <2>1 DEF ReplyInv, Aside
    <3>2. Replies(wire'[s], handled[s]) = Replies(wire[s], handled[s])
      BY <2>1, AsideWires
    <3> QED BY <2>1, <3>1, <3>2 DEF Unanswered, Aside
  <2>2. CASE HandleEvent(s) \/ HandleReq(s)
    <3>1. wire' = wire /\ handled'[s] = handled[s] + 1 /\ cursor'[s] = 0
      BY <2>2 DEF HandleEvent, HandleReq, TakeUp, net
    <3> QED BY <3>1, NoneYet DEF Unanswered
  <2>3. CASE Handler(s)
    BY <1>1, <2>3 DEF Handler, CheckRateLimit, CanStore, StoreEvent, RecordEvent,
       ReplyOk, Broadcast, FinishEvent, AcquireLock, StreamMatch, SendEose, In, Return,
       Goto
  <2> QED BY <2>1, <2>2, <2>3, SessionSteps
<1>2. ASSUME NEW s \in Sessions, pc'[s] = "stream", conn'[s] = "up"
      PROVE  Answered(s)'
  <2>1. conn[s] = "up"
    BY <1>2, StillUp
  <2>2. wire[s] \in Seq(Frames)
    BY DEF NetTypeOK
  <2>3. CASE Aside(s)
    <3>1. pc[s] = "stream"
      BY <1>2, <2>3 DEF Aside
    <3>2. Answered(s) /\ lock = s
      BY <2>1, <3>1 DEF ReplyInv
    <3>3. events' = events
      <4>1. s # 0
        BY ConstantsAssumption DEF Sessions
      <4> QED BY <3>2, <4>1, LockedStorage
    <3>4. /\ SeqsOn(wire'[s], handled[s]) = SeqsOn(wire[s], handled[s])
          /\ InOrderOn(wire'[s], handled[s]) <=> InOrderOn(wire[s], handled[s])
      <4>1. CASE wire'[s] = wire[s]
        BY <4>1
      <4>2. ASSUME NEW f \in Frames, f.type # "stored", wire'[s] = Append(wire[s], f)
            PROVE  /\ SeqsOn(wire'[s], handled[s]) = SeqsOn(wire[s], handled[s])
                   /\ InOrderOn(wire'[s], handled[s]) <=> InOrderOn(wire[s], handled[s])
        BY <2>2, <4>2, NoAnswer
      <4> QED BY <2>3, <4>1, <4>2 DEF Aside, NotFrom
    <3> QED BY <2>3, <3>2, <3>3, <3>4 DEF Answered, Aside
  <2>4. CASE HandleEvent(s) \/ HandleReq(s)
    BY <1>2, <2>4 DEF HandleEvent, HandleReq, TakeUp, In, Goto
  <2>5. CASE CheckRateLimit(s) \/ CanStore(s) \/ StoreEvent(s) \/ RecordEvent(s)
    BY <1>2, <2>5 DEF CheckRateLimit, CanStore, StoreEvent, RecordEvent, In, Return, Goto
  <2>6. CASE ReplyOk(s) \/ Broadcast(s) \/ FinishEvent(s) \/ SendEose(s)
    BY <1>2, <2>6 DEF ReplyOk, Broadcast, FinishEvent, SendEose, In, Return, Goto
  <2>7. CASE AcquireLock(s)
    <3>1. /\ pc[s] = "lock" /\ wire' = wire /\ events' = events /\ cursor' = cursor
          /\ handled' = handled /\ job' = job
      BY <2>7 DEF AcquireLock, In, net, store
    <3>2. Unanswered(s)
      BY <3>1 DEF ReplyInv
    <3>3. SentBefore(job[s], events, 0) = {}
      BY DEF SentBefore, Selected, StorageTypeOK, StoredEvents
    <3>4. SeqsOn(wire[s], handled[s]) = {} /\ InOrderOn(wire[s], handled[s])
      BY <3>2 DEF Unanswered, SeqsOn, InOrderOn
    <3> QED BY <3>1, <3>2, <3>3, <3>4 DEF Answered, Unanswered
  <2>8. CASE StreamMatch(s)
    <3>1. Answered(s)
      BY <2>1, <2>8 DEF ReplyInv, StreamMatch, In
    <3> QED BY <2>1, <2>8, <3>1, StreamStep
  <2> QED BY <2>3, <2>4, <2>5, <2>6, <2>7, <2>8, SessionSteps DEF Handler
<1>3. ASSUME NEW s \in Sessions, pc'[s] = "stream" PROVE lock' = s
  BY <1>3, LockKept
<1> QED BY <1>1, <1>2, <1>3 DEF ReplyInv

-------------------------------------------------------------------------------
(* The two action properties.                                                *)

HistoryInv == TypeOK /\ RequestsInv /\ RelayedInv /\ ReplyInv

\* No frame is written and no message handled when the relay starts.
LEMMA InitHistory == Init => HistoryInv
<1> SUFFICES ASSUME Init PROVE HistoryInv
  OBVIOUS
<1>1. \A s \in Sessions : pc[s] = "idle" /\ wire[s] = <<>>
  BY DEF Init
<1>2. RequestsInv
  BY <1>1 DEF RequestsInv
<1>3. RelayedInv
  BY <1>1 DEF RelayedInv, EventPcs
<1>4. ReplyInv
  BY <1>1 DEF ReplyInv
<1> QED BY <1>2, <1>3, <1>4, InitType DEF HistoryInv

\* What the wires say of the messages in progress holds in every reachable state.
THEOREM HistoryKept == Spec => []HistoryInv
<1>1. HistoryInv /\ [Next]_vars => HistoryInv'
  BY NextType, RequestsStep, RelayedStep, ReplyStep DEF HistoryInv
<1> QED BY <1>1, InitHistory, PTL DEF Spec

\* When the handler of an EVENT returns, every other client that is still
\* connected has got the event exactly once and the sender has not.
THEOREM RelayedOnce == Spec => BroadcastExactlyOnce
<1> DEFINE Copies(s, t) == {i \in DOMAIN wire'[t] : /\ wire'[t][i].type = "live"
                                                   /\ wire'[t][i].from = s
                                                   /\ wire'[t][i].req = handled[s]}
<1>1. ASSUME HistoryInv, [Next]_vars, NEW s \in Sessions, pc[s] = "cast",
             pc'[s] = "idle", NEW t \in Sessions, conn'[t] = "up"
      PROVE  Cardinality(Copies(s, t)) = (IF t = s THEN 0 ELSE 1)
  <2> USE DEF HistoryInv, TypeOK
  <2>1. FinishEvent(s)
    <3>1. ~Aside(s) /\ ~HandleEvent(s) /\ ~HandleReq(s)
      BY <1>1 DEF Aside, HandleEvent, HandleReq, TakeUp, In
    <3>2. Handler(s)
      BY <1>1, <3>1, SessionSteps
    <3> QED BY <1>1, <3>2 DEF Handler, CheckRateLimit, CanStore, StoreEvent, RecordEvent,
               ReplyOk, Broadcast, AcquireLock, StreamMatch, SendEose, In
  <2>2. wire' = wire /\ cursor[s] > NumSessions
    BY <2>1 DEF FinishEvent, net
  <2>3. RelayedTo(s, t)
    BY <1>1, StillUp DEF RelayedInv, EventPcs
  <2>4. wire'[t] \in Seq(Frames)
    BY <1>1, <2>2 DEF NetTypeOK
  <2>5. Copies(s, t) = LiveOf(wire[t], s, handled[s])
    BY <2>2, <2>4 DEF LiveOf
  <2>6. Reached(s, t) <=> t # s
    <3>1. cursor[s] \in Nat /\ NumSessions \in Nat
      BY <1>1, ConstantsAssumption DEF ThreadTypeOK
    <3>2. t < cursor[s]
      BY <2>2, <3>1 DEF Sessions
    <3> QED BY <1>1, <3>2 DEF Reached
  <2>7. CASE t = s
    <3>1. Copies(s, t) = {}
      BY <2>3, <2>5, <2>6, <2>7 DEF RelayedTo
    <3> QED BY <2>7, <3>1, FS_EmptySet
  <2>8. CASE t # s
    <3>1. PICK i : Copies(s, t) = {i}
      BY <2>3, <2>5, <2>6, <2>8 DEF RelayedTo
    <3> QED BY <2>8, <3>1, FS_Singleton
  <2> QED BY <2>7, <2>8
<1>2. HistoryInv /\ [Next]_vars =>
        [\A s \in Sessions :
           (pc[s] = "cast" /\ pc'[s] = "idle") =>
             \A t \in Sessions :
               LET copies == {i \in DOMAIN wire'[t] :
                                /\ wire'[t][i].type = "live" /\ wire'[t][i].from = s
                                /\ wire'[t][i].req = handled[s]}
               IN conn'[t] = "up" =>
                    Cardinality(copies) = (IF t = s THEN 0 ELSE 1)]_vars
  BY <1>1
<1> QED BY <1>2, HistoryKept, PTL DEF Spec, BroadcastExactlyOnce

\* When EOSE is sent, the stored events sent for this request are the matching
\* events of the storage at that moment, in order of arrival.
THEOREM AnsweredExactly == Spec => SnapshotExact
<1> DEFINE Reply(s) == {i \in DOMAIN wire'[s] : /\ wire'[s][i].type = "stored"
                                               /\ wire'[s][i].req = handled[s]}
<1>1. ASSUME HistoryInv, [Next]_vars, NEW s \in Sessions, pc[s] = "stream",
             pc'[s] = "idle", conn[s] = "up"
      PROVE  /\ {wire'[s][i].seq : i \in Reply(s)} =
                  {e.seq : e \in Selected(job[s], events')}
             /\ \A i, j \in Reply(s) : i < j => wire'[s][i].seq < wire'[s][j].seq
  <2> USE DEF HistoryInv, TypeOK
  <2>1. SendEose(s)
    <3>1. ~Aside(s) /\ ~HandleEvent(s) /\ ~HandleReq(s)
      BY <1>1 DEF Aside, HandleEvent, HandleReq, TakeUp, In
    <3>2. Handler(s)
      BY <1>1, <3>1, SessionSteps
    <3> QED BY <1>1, <3>2 DEF Handler, CheckRateLimit, CanStore, StoreEvent, RecordEvent,
               ReplyOk, Broadcast, FinishEvent, AcquireLock, StreamMatch, In
  <2> DEFINE f == Frame("eose", s, 0, "", "")
             n == handled[s]
  <2>2. Written(f, s, s)
    BY <1>1, <2>1, EoseWritten
  <2>3. f \in Frames /\ wire[s] \in Seq(Frames)
    BY <1>1, <2>2 DEF Written, NetTypeOK
  <2>4. f.type # "stored"
    BY DEF Frame
  <2>5. wire'[s] = Append(wire[s], f)
    BY <1>1, <2>2, WrittenWire
  <2>6. Answered(s)
    BY <1>1 DEF ReplyInv
  <2> HIDE DEF f
  <2>7. /\ SeqsOn(wire'[s], n) = {x.seq : x \in SentBefore(job[s], events, cursor[s])}
        /\ InOrderOn(wire'[s], n)
    BY <2>3, <2>4, <2>5, <2>6, NoAnswer DEF Answered
  <2>8. SentBefore(job[s], events, cursor[s]) = Selected(job[s], events')
    <3>1. Unsent(s) = {} /\ events' = events
      BY <2>1 DEF SendEose, store
    <3>2. \A x \in Selected(job[s], events) : x.seq \in Nat
      BY <1>1 DEF Selected, StorageTypeOK, StoredEvents
    <3>3. cursor[s] \in Nat
      BY <1>1 DEF ThreadTypeOK
    <3> QED BY <3>1, <3>2, <3>3 DEF SentBefore, Unsent
  <2>9. Reply(s) = Replies(wire'[s], n)
    BY <2>3, <2>5 DEF Replies
  <2> QED BY <2>7, <2>8, <2>9 DEF SeqsOn, InOrderOn
<1>2. HistoryInv /\ [Next]_vars =>
        [\A s \in Sessions :
           (pc[s] = "stream" /\ pc'[s] = "idle" /\ conn[s] = "up") =>
             LET reply == {i \in DOMAIN wire'[s] : /\ wire'[s][i].type = "stored"
                                                   /\ wire'[s][i].req = handled[s]}
             IN /\ {wire'[s][i].seq : i \in reply} =
                     {e.seq : e \in Selected(job[s], events')}
                /\ \A i, j \in reply : i < j => wire'[s][i].seq < wire'[s][j].seq]_vars
  BY <1>1
<1> QED BY <1>2, HistoryKept, PTL DEF Spec, SnapshotExact

-------------------------------------------------------------------------------
(* Why events go.                                                            *)

\* What lets the relay give up a stored event: its age, a clock behind its
\* created_at (the age is then near 2^64), a full storage, or the operator.
MayGo(e) ==
  \/ Expired(e) \/ e.created_at > now
  \/ Cardinality(events) >= MaxTotal
  \/ e.pubkey \in OpPurge \/ e.id \in OpDelete

GoneForAReason == [][\A e \in events : e \in events' \/ MayGo(e)]_vars

\* A remainder is no greater than the number.
LEMMA ModAtMost ==
  ASSUME NEW x \in Nat, NEW m \in Nat \ {0}
  PROVE  x % m \in Nat /\ x % m <= x
<1>1. x % m \in 0..m - 1
  OBVIOUS
<1>2. CASE x >= m
  BY <1>1, <1>2
<1>3. CASE x < m
  <2>1. x % m = x
    BY <1>3
  <2> QED BY <2>1
<1> QED BY <1>1, <1>2, <1>3

\* prune_old_events gives up nothing younger than its TTL, unless it comes from
\* the future.
LEMMA PrunedForAge ==
  ASSUME TypeOK, NEW e \in events, IsOverAge(e)
  PROVE  Expired(e) \/ e.created_at > now
<1> SUFFICES ASSUME ~(e.created_at > now) PROVE Expired(e)
  OBVIOUS
<1>1. e.created_at \in Nat /\ e.kind \in Nat /\ now \in Nat
  BY DEF TypeOK, StorageTypeOK, StoredEvents
<1>2. now - e.created_at \in Nat
  BY <1>1
<1>3. Age(e) \in Nat /\ Age(e) <= now - e.created_at
  BY <1>2, ModAtMost, ConstantsAssumption DEF Age
<1>4. TtlOf(e.kind) \in Int
  BY ConstantsAssumption DEF TtlOf
<1>5. TtlOf(e.kind) > 0 /\ Age(e) > TtlOf(e.kind)
  BY DEF IsOverAge
<1> QED BY <1>2, <1>3, <1>4, <1>5 DEF Expired

\* store_event gives up an event only when the storage is full.
LEMMA EvictedForRoom ==
  ASSUME TypeOK, NEW e \in events, e \notin Evict(events)
  PROVE  Cardinality(events) >= MaxTotal
<1>1. IsFiniteSet(events) /\ \A f \in events : f.seq \in Nat
  BY DEF TypeOK, StorageTypeOK, StoredEvents
<1>2. Newer(events, e) \subseteq events \ {e}
  BY <1>1 DEF Newer
<1>3. /\ IsFiniteSet(events \ {e})
      /\ Cardinality(events \ {e}) = Cardinality(events) - 1
  BY <1>1, FS_RemoveElement
<1>4. /\ IsFiniteSet(Newer(events, e))
      /\ Cardinality(Newer(events, e)) <= Cardinality(events) - 1
  BY <1>2, <1>3, FS_Subset
<1>5. Cardinality(Newer(events, e)) \in Nat /\ Cardinality(events) \in Nat
  BY <1>1, <1>4, FS_CardinalityType
<1>6. ~(Cardinality(Newer(events, e)) < MaxTotal - 1)
  BY DEF Evict
<1> QED BY <1>4, <1>5, <1>6, LimitTypes

\* Every step gives up events for a reason only.
LEMMA GoneStep ==
  ASSUME TypeOK, [Next]_vars, NEW e \in events, e \notin events'
  PROVE  MayGo(e)
<1> USE DEF store
<1>1. ASSUME NEW s \in Sessions, HandleEvent(s) \/ HandleReq(s) PROVE events' = events
  BY <1>1 DEF HandleEvent, HandleReq
<1>2. ASSUME NEW s \in Sessions, Handler(s), ~StoreEvent(s) PROVE events' = events
  BY <1>2 DEF Handler, CheckRateLimit, CanStore, RecordEvent, ReplyOk,
              Broadcast, FinishEvent, AcquireLock, StreamMatch, SendEose
<1>3. ASSUME NEW s \in Sessions, StoreEvent(s) PROVE MayGo(e)
  <2>1. e \notin Evict(events)
    BY <1>3 DEF StoreEvent
  <2> QED BY <2>1, EvictedForRoom DEF MayGo
<1>4. ASSUME NEW s \in Sessions, EndSession(s) \/ ClientRead(s) \/ PeerClose(s)
      PROVE  events' = events
  BY <1>4 DEF EndSession, ClientRead, PeerClose
<1>5. CASE Prune
  <2>1. IsOverAge(e)
    BY <1>5 DEF Prune
  <2> QED BY <2>1, PrunedForAge DEF MayGo
<1>6. CASE Operator
  BY <1>6 DEF Operator, BanPubkey, AllowEventKind, DeleteEventsByPubkey,
              DeleteEventById, Of, MayGo
<1>7. CASE Tick \/ UNCHANGED vars
  BY <1>7 DEF Tick, vars
<1> QED BY <1>1, <1>2, <1>3, <1>4, <1>5, <1>6, <1>7 DEF Next

\* A stored event goes only when its TTL has passed, when it is stamped ahead of
\* the clock, when the storage is full or when the operator deletes it.
THEOREM EventsGoForAReason == Spec => GoneForAReason
<1>1. TypeOK /\ [Next]_vars => [\A e \in events : e \in events' \/ MayGo(e)]_vars
  BY GoneStep
<1> QED BY <1>1, TypeCorrect, PTL DEF Spec, GoneForAReason

\* The storage has room and holds nothing from the future.
RoomyAndPast ==
  Cardinality(events) < MaxTotal /\ \A e \in events : e.created_at <= now

\* So where the operator deletes nothing, an event stays until its TTL has passed
\* as long as the storage has room and no event is stamped ahead of the clock.
THEOREM KeptForItsTtl ==
  ASSUME OpPurge = {}, OpDelete = {}
  PROVE  Spec /\ []RoomyAndPast => KeptUntilExpired
<1>1. ASSUME TypeOK, RoomyAndPast, [Next]_vars, NEW e \in events, e \notin events'
      PROVE  Expired(e)
  <2>1. MayGo(e)
    BY <1>1, GoneStep
  <2>2. e.created_at <= now /\ Cardinality(events) < MaxTotal
    BY <1>1 DEF RoomyAndPast
  <2>3. e.created_at \in Nat /\ now \in Nat /\ Cardinality(events) \in Nat
    BY <1>1, FS_CardinalityType DEF TypeOK, StorageTypeOK, StoredEvents
  <2> QED BY <2>1, <2>2, <2>3, LimitTypes DEF MayGo
<1>2. TypeOK /\ RoomyAndPast /\ [Next]_vars
        => [\A e \in events : e \in events' \/ Expired(e)]_vars
  BY <1>1
<1> QED BY <1>2, TypeCorrect, PTL DEF Spec, KeptUntilExpired
===============================================================================
