--------------------------- MODULE RelayStopProofs ---------------------------
(***************************************************************************)
(* How the relay starts and stops, for any number of clients, descriptors,  *)
(* signals and messages: every variable keeps its type, nobody uses a       *)
(* descriptor that has become somebody else's, and when main() returns      *)
(* nothing handles messages any more.                                       *)
(*                                                                          *)
(* The argument.  Once running_ is cleared and the listener is shut down,   *)
(* the relay is sealed: no client is accepted again, so no number that is   *)
(* closed is given to anybody else (Sealed, Holds).  A stop() closes a      *)
(* session only when the relay is sealed, unless it interrupts another      *)
(* stop() that has taken the listener and not shut it down (Cut): then one  *)
(* more client may get a number that is closed (Loose).  And a session that *)
(* was registered in time is quiet, in the vector, or still to be joined by *)
(* a stop() in progress (Awaited), so that the last one leaves none behind. *)
(***************************************************************************)
EXTENDS RelayProcess, SequenceTheorems, FiniteSetTheorems, WellFoundedInduction, TLAPS

-------------------------------------------------------------------------------
(* What holds all along.                                                     *)

Members(list) == {list[i] : i \in DOMAIN list}
MainAts == {"parse", "start", "spawnAccept", "spawnPrune", "wait", "poll", "stop",
            "destroy", "exit"}
AcceptAts == {"unborn", "socket", "publish", "bind", "loop", "accept", "push", "spawn",
              "erase", "close", "done"}
SessionAts == {"unborn", "handshake", "greet", "reject", "hangup", "forget", "loop",
               "recv", "handle", "stream", "cast", "send", "done"}
MaybeFd == Fds \cup {0}

\* The parts of the type that steps of different kinds change.
MainType ==
  /\ argv \in Argvs /\ status \in {0, 1} /\ mpc \in MainAts /\ next \in Nat
  /\ polls \in 0..Polls /\ signals \in 0..Signals
FrameShape == [at : FrameAt, fd : MaybeFd, seen : Seq(Clients), i : Nat \ {0}]
Frames ==
  {f \in FrameShape :
     /\ f.i <= Len(f.seen) + 1
     /\ f.at \in {"mark", "close", "forget", "join"} => f.i <= Len(f.seen)
     /\ f.fd # 0 => f.at \in {"shut", "close"}}
StackType == frames \in Seq(Frames)
FlagType ==
  running \in BOOLEAN /\ listening \in BOOLEAN /\ shut \in BOOLEAN /\ listenFd \in MaybeFd
AcceptType == apc \in AcceptAts /\ serverFd \in MaybeFd /\ newest \in Clients \cup {0}
PruneType == ppc \in {"unborn", "sleep", "wait", "done"}
ListType == sessions \in Seq(Clients)
TableType == table \in [Fds -> Clients \cup {"free", "listener"}]
SessionType ==
  /\ fd \in [Clients -> MaybeFd] /\ live \in [Clients -> BOOLEAN]
  /\ spc \in [Clients -> SessionAts]
  /\ aim \in [Clients -> [fd : MaybeFd, of : Clients \cup {0}]]
  /\ idx \in [Clients -> Nat] /\ upto \in [Clients -> Nat]
PeerType == client \in [Clients -> {"away", "up", "gone"}] /\ words \in [Clients -> Nat]
RestType ==
  storage \in Clients \cup {"free", "main"} /\ late \subseteq Clients /\ crashed \in BOOLEAN
Types ==
  /\ MainType /\ StackType /\ FlagType /\ AcceptType /\ PruneType /\ ListType /\ TableType
  /\ SessionType /\ PeerType /\ RestType

\* Who is where: the accept thread and the prune thread are started once, after running_
\* has been set; a client that has not connected has no session.
Away(c) == client[c] = "away"
MainPlace ==
  /\ mpc \in {"parse", "start", "spawnAccept"} => apc = "unborn"
  /\ mpc \in {"parse", "start", "spawnAccept", "spawnPrune"} => ppc = "unborn"
  /\ mpc \in {"wait", "poll", "stop", "destroy"} => apc # "unborn" /\ ppc # "unborn"
  /\ mpc = "spawnPrune" => apc # "unborn"
  /\ mpc \in {"parse", "exit"} => frames = <<>>
AcceptPlace ==
  /\ apc \in {"unborn", "socket", "done"} <=> serverFd = 0
  /\ apc \in {"push", "spawn", "erase"} => newest \in Clients /\ ~Away(newest)
  /\ apc \in {"push", "spawn"} => spc[newest] = "unborn"
  /\ apc \in {"unborn", "socket", "publish", "bind"} =>
       sessions = <<>> /\ \A c \in Clients : Away(c)
SessionPlace(c) ==
  /\ Away(c) => fd[c] = 0 /\ spc[c] = "unborn" /\ c \notin Members(sessions)
  /\ (spc[c] = "unborn" /\ ~Away(c)) => apc \in {"push", "spawn"} /\ newest = c
  /\ spc[c] \in {"cast", "send"} => idx[c] > 0
  /\ spc[c] \in {"hangup", "forget"} => ~live[c]
ThreadInv == MainPlace /\ AcceptPlace /\ \A c \in Clients : SessionPlace(c)

\* No client is accepted any more, and no descriptor given to anybody.
Sealed == ~running /\ apc \notin {"unborn", "socket"} /\ (apc = "accept" => shut)

\* The number n is that of c, or it has been closed for good.
Holds(n, c) ==
  n # 0 => (fd[c] = n /\ table[n] = c) \/ (table[n] = "free" /\ Sealed)

\* A session has had one number at most.
Agrees(n, c) == (n # 0 /\ fd[c] # 0) => fd[c] = n

\* The stop() call j interrupts one that has taken the listener and not shut it down.
Cut(j) == \E m \in 1..(j - 1) : frames[m].at = "shut" /\ frames[m].fd # 0
\* A number that such a call has closed: one more client may have got it since.
Loose(n) ==
  /\ n # 0 /\ ~running /\ apc \notin {"unborn", "socket"}
  /\ table[n] # "listener" /\ (table[n] = "free" \/ Sealed)

\* The call f has still to join the session of c.
Joining(f) == f.at \in {"mark", "close", "forget", "join"}
Joins(f, c) == Joining(f) /\ \E k \in f.i..Len(f.seen) : f.seen[k] = c
CutJoins(c) == \E j \in DOMAIN frames : Cut(j) /\ Joins(frames[j], c)
Pending(c) == \E j \in DOMAIN frames : Joins(frames[j], c)
Current(f) == f.seen[f.i]

\* A thread that has been accepted, and has not ended in its handshake.
Past(label) ==
  label \notin {"unborn", "handshake", "greet", "reject", "hangup", "forget"}

\* The number of c is no longer that of c.
Lost(c) == fd[c] # 0 => table[fd[c]] # c
\* A stop() that such a call has started has closed it, and not forgotten it yet.
CutForgets(c) ==
  \E j \in DOMAIN frames :
    frames[j].at = "forget" /\ Current(frames[j]) = c /\ Cut(j)
Stale(c) == Loose(fd[c]) /\ CutForgets(c) /\ spc[c] # "unborn" /\ ~live[c]
\* A session that hung up in its handshake has closed its number and not forgotten it.
\* While a stop() may still find it there, nobody else has the number, or the relay is
\* sealed: the accept thread drops the sessions that ended before it accepts again.
Forgets(c) ==
  (spc[c] = "forget" /\ fd[c] # 0) =>
    /\ table[fd[c]] # "listener" /\ apc \notin {"unborn", "socket"}
    /\ c \in Members(sessions) \/ Pending(c) =>
         table[fd[c]] = "free" \/ apc \in {"push", "spawn", "erase"} \/ Sealed

\* Whose the numbers in use are.
OwnServer == serverFd # 0 => table[serverFd] = "listener"
AimOwned(c) ==
  /\ spc[c] = "hangup" => aim[c].of = c
  /\ spc[c] = "send" => aim[c].of \in Clients /\ Past(spc[aim[c].of])
  /\ spc[c] \in {"hangup", "send"} =>
       /\ Agrees(aim[c].fd, aim[c].of)
       /\ Holds(aim[c].fd, aim[c].of) \/ (Loose(aim[c].fd) /\ CutJoins(c))
CloseOwned(j) ==
  frames[j].at = "close" =>
    /\ Agrees(frames[j].fd, Current(frames[j]))
    /\ \/ Holds(frames[j].fd, Current(frames[j]))
       \/ /\ Loose(frames[j].fd)
          /\ Cut(j) \/ spc[Current(frames[j])] \in {"forget", "done"}
FdOwned(c) ==
  /\ Holds(fd[c], c) \/ spc[c] = "forget" \/ Stale(c)
  /\ spc[c] = "forget" => Lost(c)
  /\ Forgets(c)
Silenced(j) ==
  /\ frames[j].at \in {"close", "forget"} => ~live[Current(frames[j])] \/ Sealed
  /\ frames[j].at = "forget" => Lost(Current(frames[j]))
FdInv ==
  /\ OwnServer
  /\ \A c \in Clients : FdOwned(c) /\ AimOwned(c)
  /\ \A j \in DOMAIN frames : CloseOwned(j) /\ Silenced(j)

\* Past its first step a stop() has cleared running_, and before it closes a session it
\* has shut the listener down.
Serving == {"bind", "loop", "accept", "push", "spawn", "erase", "close"}
Taken(n) == (apc = "done" /\ table[n] = "free") \/ (n = serverFd /\ apc \in Serving)
StopPlace(j) ==
  LET f == frames[j]
  IN /\ f.at \notin {"stats", "print", "flag"} => ~running
     /\ (f.at = "shut" /\ f.fd = 0 /\ apc = "accept") => shut \/ Cut(j)
     /\ (f.at = "shut" /\ f.fd # 0) => Taken(f.fd)
     /\ Joining(f) => Sealed \/ Cut(j)
ListenerKnown ==
  /\ apc \in Serving =>
       \/ listenFd = serverFd \/ Sealed
       \/ \E j \in DOMAIN frames : frames[j].at = "shut" /\ frames[j].fd = serverFd
  /\ apc \in {"unborn", "socket", "publish"} => listenFd = 0
  /\ listenFd # 0 => Taken(listenFd)
StopInv ==
  /\ \A j \in DOMAIN frames : StopPlace(j)
  /\ ListenerKnown
  /\ late # {} => Sealed

\* A session that handles no message any more: its thread has ended or is about to, or
\* finds its descriptor closed before its first recv().
Quiet(c) ==
  \/ spc[c] \in {"reject", "hangup", "forget", "done"}
  \/ spc[c] \in {"unborn", "handshake"} /\ fd[c] = 0 /\ ~Away(c)

Marked(c) ==
  \E j \in DOMAIN frames :
    frames[j].at \in {"close", "forget", "join"} /\ Current(frames[j]) = c
Registered(c) == ~Away(c) /\ ~(apc = "push" /\ newest = c)
Awaited(c) ==
  /\ (Registered(c) /\ c \notin late) => Quiet(c) \/ c \in Members(sessions) \/ Pending(c)
  /\ (spc[c] # "unborn" /\ ~live[c]) => Quiet(c) \/ Marked(c)

\* What a stop() call knows of the sessions.
AllLate == Members(sessions) \subseteq late
Sweep(f) ==
  /\ \A k \in DOMAIN f.seen : ~Away(f.seen[k])
  /\ Joining(f) \/ f.at = "clear" =>
       /\ Members(sessions) \subseteq late \cup Members(f.seen)
       /\ \A k \in 1..(f.i - 1) : Quiet(f.seen[k])
  /\ (f.at = "close" /\ f.fd = 0) \/ f.at = "join" => fd[Current(f)] = 0
  /\ f.at = "clear" => f.i = Len(f.seen) + 1
  /\ f.at = "joinPrune" => apc \in {"unborn", "done"}
  /\ f.at \in {"joinAccept", "joinPrune"} => AllLate
Over == ~running /\ apc = "done" /\ ppc = "done" /\ AllLate
Ended ==
  /\ mpc = "stop" /\ frames = <<>> => Over
  /\ mpc = "destroy" /\ frames = <<>> => Over
  /\ mpc = "exit" =>
       Over \/ (apc = "unborn" /\ ppc = "unborn" /\ \A c \in Clients : Away(c))
QuietInv ==
  /\ \A c \in Clients : Awaited(c)
  /\ \A j \in DOMAIN frames : Sweep(frames[j])
  /\ Ended

Inv == ThreadInv /\ FdInv /\ StopInv /\ QuietInv
IInv == Types /\ Inv

\* What Append adds is the one element.
LEMMA MembersAppend ==
  ASSUME NEW S, NEW list \in Seq(S), NEW e \in S
  PROVE  Members(Append(list, e)) = Members(list) \cup {e}
<1> DEFINE n == Len(list)
           longer == Append(list, e)
<1>1. /\ n \in Nat /\ DOMAIN list = 1..n /\ DOMAIN longer = 1..(n + 1)
      /\ \A i \in 1..n : longer[i] = list[i]
      /\ longer[n + 1] = e
  OBVIOUS
<1>2. ASSUME NEW x \in Members(longer)
      PROVE  x \in Members(list) \cup {e}
  <2>1. PICK i \in 1..(n + 1) : x = longer[i]
    BY DEF Members
  <2>2. CASE i \in 1..n
    BY <2>1, <2>2 DEF Members
  <2>3. CASE i = n + 1
    BY <2>1, <2>3
  <2> QED BY <1>1, <2>1, <2>2, <2>3
<1>3. ASSUME NEW x \in Members(list) \cup {e}
      PROVE  x \in Members(longer)
  <2>1. CASE x \in Members(list)
    <3>1. PICK i \in 1..n : x = list[i]
      BY <2>1 DEF Members
    <3>2. i \in 1..(n + 1) /\ longer[i] = x
      BY <1>1, <3>1
    <3> QED BY <1>1, <3>2 DEF Members
  <2>2. CASE x = e
    <3>1. n + 1 \in 1..(n + 1)
      BY <1>1
    <3> QED BY <1>1, <2>2, <3>1 DEF Members
  <2> QED BY <1>3, <2>1, <2>2
<1> QED BY <1>2, <1>3

-------------------------------------------------------------------------------
(* Numbers and lists.                                                        *)

\* A set of natural numbers has a least one.
LEMMA LeastExists ==
  ASSUME NEW S \in SUBSET Nat, S # {}
  PROVE  \E n \in S : \A m \in S : n <= m
<1> DEFINE T == {0..n : n \in S}
<1>1. T \subseteq FiniteSubsetsOf(Nat) /\ T # {}
  <2>1. \A n \in S : IsFiniteSet(0..n) /\ 0..n \subseteq Nat
    BY FS_Interval
  <2> QED BY <2>1 DEF FiniteSubsetsOf
<1>2. PICK x \in T : \A y \in T : <<y, x>> \notin StrictSubsetOrdering(Nat)
  BY <1>1, FS_StrictSubsetOrderingWellFounded, WFMin
<1>3. PICK n \in S : x = 0..n
  OBVIOUS
<1>4. SUFFICES ASSUME NEW m \in S, ~(n <= m) PROVE FALSE
  OBVIOUS
<1>5. 0..m \subseteq 0..n /\ 0..m # 0..n /\ 0..m \in T
  <2>1. n \in 0..n /\ n \notin 0..m
    BY <1>4
  <2>2. 0..m \subseteq 0..n
    BY <1>4
  <2> QED BY <2>1, <2>2
<1>6. <<0..m, 0..n>> \in StrictSubsetOrdering(Nat)
  <2>1. 0..m \in SUBSET Nat /\ 0..n \in SUBSET Nat
    OBVIOUS
  <2> QED BY <1>5, <2>1 DEF StrictSubsetOrdering
<1> QED BY <1>2, <1>3, <1>5, <1>6

\* The lowest free descriptor is free.
LEMMA LowestIs ==
  ASSUME NEW S \in SUBSET Nat, S # {}
  PROVE  Lowest(S) \in S
<1>1. \E n \in S : \A m \in S : n <= m
  BY LeastExists
<1> QED BY <1>1 DEF Lowest

\* Induction up to n, on a set of numbers.
LEMMA UpTo ==
  ASSUME NEW n \in Nat, NEW I, 0 \in I, \A k \in 1..n : k - 1 \in I => k \in I
  PROVE  0..n \subseteq I
<1> SUFFICES ASSUME ~(0..n \subseteq I) PROVE FALSE
  OBVIOUS
<1> DEFINE S == (0..n) \ I
<1>1. S \in SUBSET Nat /\ S # {}
  OBVIOUS
<1>2. PICK k \in S : \A m \in S : k <= m
  BY <1>1, LeastExists
<1>3. k \in 1..n /\ k - 1 \in 0..n
  OBVIOUS
<1>4. k - 1 \in I
  BY <1>1, <1>2, <1>3
<1> QED BY <1>3, <1>4

\* What the sequence kept of remove_if is, one element after the other.
Step(list, on, f, i) ==
  IF i = 0 THEN <<>> ELSE IF on[list[i]] THEN Append(f[i - 1], list[i]) ELSE f[i - 1]
Goes(list, on, n, f) == f = [i \in 0..n |-> Step(list, on, f, i)]

\* There is such a sequence: the recursion of the model has a value.
LEMMA KeptExists ==
  ASSUME NEW list, NEW on, NEW n \in Nat
  PROVE  \E f : Goes(list, on, n, f)
<1> DEFINE I == {k \in 0..n : \E f : Goes(list, on, k, f)}
<1>1. 0 \in I
  <2> DEFINE g == [i \in 0..0 |-> <<>>]
  <2>1. g = [i \in 0..0 |-> Step(list, on, g, i)]
    BY DEF Step
  <2>2. Goes(list, on, 0, g)
    BY <2>1 DEF Goes
  <2> QED BY <2>2
<1>2. ASSUME NEW k \in 1..n, k - 1 \in I
      PROVE  k \in I
  <2>1. PICK f : Goes(list, on, k - 1, f)
    BY <1>2
  <2> DEFINE g == [i \in 0..k |-> IF i = k THEN Step(list, on, f, k) ELSE f[i]]
  <2>2. ASSUME NEW i \in 0..k
        PROVE  g[i] = Step(list, on, g, i)
    <3>1. CASE i = k
      <4>1. k - 1 \in 0..k /\ k - 1 # k /\ k # 0
        OBVIOUS
      <4>2. g[k - 1] = f[k - 1]
        BY <4>1
      <4> QED BY <3>1, <4>1, <4>2 DEF Step
    <3>2. CASE i # k /\ i # 0
      <4>1. i \in 0..(k - 1) /\ i - 1 \in 0..k /\ i - 1 # k
        BY <3>2
      <4>2. f[i] = Step(list, on, f, i)
        BY <2>1, <4>1 DEF Goes
      <4>3. g[i] = f[i] /\ g[i - 1] = f[i - 1]
        BY <3>2, <4>1
      <4> QED BY <3>2, <4>2, <4>3 DEF Step
    <3>3. CASE i # k /\ i = 0
      <4>1. f[0] = Step(list, on, f, 0)
        BY <2>1, <3>3 DEF Goes
      <4> QED BY <3>3, <4>1 DEF Step
    <3> QED BY <3>1, <3>2, <3>3
  <2>3. g = [i \in 0..k |-> Step(list, on, g, i)]
    <3> HIDE DEF g
    <3>1. g = [i \in 0..k |-> g[i]]
      BY DEF g
    <3> QED BY <2>2, <3>1
  <2>4. Goes(list, on, k, g)
    BY <2>3 DEF Goes
  <2> QED BY <2>4
<1> HIDE DEF I
<1>3. 0..n \subseteq I
  BY <1>1, <1>2, UpTo
<1> QED BY <1>3 DEF I

\* What is kept of a list: those that run.
LEMMA RemainingIs ==
  ASSUME NEW S, NEW list \in Seq(S), NEW on \in [S -> BOOLEAN]
  PROVE  /\ Remaining(list, on) \in Seq(S)
         /\ Members(Remaining(list, on)) = {c \in Members(list) : on[c]}
<1> DEFINE n == Len(list)
           kept == CHOOSE f : Goes(list, on, n, f)
           First(i) == {list[j] : j \in {j \in 1..i : on[list[j]]}}
           I == {i \in 0..n : kept[i] \in Seq(S) /\ Members(kept[i]) = First(i)}
<1>1. n \in Nat /\ DOMAIN list = 1..n /\ \A i \in 1..n : list[i] \in S
  OBVIOUS
<1>2. Goes(list, on, n, kept)
  BY <1>1, KeptExists
<1>3. Remaining(list, on) = kept[n]
  BY DEF Remaining, Goes, Step
<1> HIDE DEF kept, n
<1>4. \A i \in 0..n : kept[i] = Step(list, on, kept, i)
  BY <1>2 DEF Goes
<1>5. 0 \in I
  <2>1. kept[0] = <<>>
    BY <1>1, <1>4 DEF Step
  <2>2. Members(<<>>) = {} /\ First(0) = {} /\ <<>> \in Seq(S)
    BY DEF Members
  <2>3. 0 \in 0..n
    BY <1>1
  <2> HIDE DEF First
  <2>4. kept[0] \in Seq(S) /\ Members(kept[0]) = First(0)
    BY <2>1, <2>2
  <2> QED BY <2>3, <2>4
<1>6. ASSUME NEW k \in 1..n, k - 1 \in I
      PROVE  k \in I
  <2>1. kept[k] = IF on[list[k]] THEN Append(kept[k - 1], list[k]) ELSE kept[k - 1]
    BY <1>1, <1>4 DEF Step
  <2>2. First(k) = IF on[list[k]] THEN First(k - 1) \cup {list[k]} ELSE First(k - 1)
    BY <1>1
  <2>3. kept[k - 1] \in Seq(S) /\ Members(kept[k - 1]) = First(k - 1) /\ list[k] \in S
    BY <1>1, <1>6
  <2> HIDE DEF First
  <2>4. CASE on[list[k]]
    <3>1. Members(Append(kept[k - 1], list[k])) = Members(kept[k - 1]) \cup {list[k]}
      BY <2>3, MembersAppend
    <3>2. Append(kept[k - 1], list[k]) \in Seq(S)
      BY <2>3
    <3>3. kept[k] \in Seq(S) /\ Members(kept[k]) = First(k)
      BY <2>1, <2>2, <2>3, <2>4, <3>1, <3>2
    <3> QED BY <1>1, <3>3
  <2>5. CASE ~on[list[k]]
    BY <1>1, <2>1, <2>2, <2>3, <2>5
  <2> QED BY <2>4, <2>5
<1> HIDE DEF I
<1>7. 0..n \subseteq I
  BY <1>1, <1>5, <1>6, UpTo
<1>8. n \in I
  BY <1>1, <1>7
<1>9. First(n) = {c \in Members(list) : on[c]}
  BY <1>1 DEF Members
<1> QED BY <1>3, <1>8, <1>9 DEF I

-------------------------------------------------------------------------------
(* Descriptor numbers and the stack of stop() calls.                         *)

\* 0 is no descriptor and no client, and a client is no other use of a descriptor.
LEMMA Ranges ==
  /\ Fds \subseteq Nat /\ 0 \notin Fds
  /\ 0 \notin Clients /\ "free" \notin Clients /\ "listener" \notin Clients
<1>1. Fds \subseteq Nat /\ 0 \notin Fds
  <2>1. PICK n : Fds = 1..n
    BY ProcessAssumption
  <2> QED BY <2>1
<1> QED BY <1>1, ProcessAssumption

\* The fields of a call.
LEMMA FrameFields ==
  ASSUME NEW f \in Frames
  PROVE  /\ f.at \in FrameAt /\ f.fd \in MaybeFd /\ f.i \in Nat /\ f.i > 0
         /\ f.seen \in Seq(Clients) /\ Len(f.seen) \in Nat
         /\ DOMAIN f.seen = 1..Len(f.seen)
         /\ \A k \in DOMAIN f.seen : f.seen[k] \in Clients
         /\ f.i <= Len(f.seen) + 1
         /\ f.at \in {"mark", "close", "forget", "join"} => f.i \in DOMAIN f.seen
         /\ f.fd # 0 => f.at \in {"shut", "close"}
<1>1. f.seen \in Seq(Clients) /\ f.i \in Nat /\ f.i > 0 /\ f.at \in FrameAt /\ f.fd \in MaybeFd
  BY DEF Frames, FrameShape
<1>2. Len(f.seen) \in Nat /\ DOMAIN f.seen = 1..Len(f.seen)
      /\ \A k \in DOMAIN f.seen : f.seen[k] \in Clients
  BY <1>1
<1>3. /\ f.i <= Len(f.seen) + 1
      /\ f.at \in {"mark", "close", "forget", "join"} => f.i <= Len(f.seen)
      /\ f.fd # 0 => f.at \in {"shut", "close"}
  BY DEF Frames, FrameShape
<1> QED BY <1>1, <1>2, <1>3

\* The calls are numbered from the bottom.
LEMMA StackShape ==
  ASSUME StackType
  PROVE  /\ Len(frames) \in Nat /\ DOMAIN frames = 1..Len(frames)
         /\ \A j \in DOMAIN frames : frames[j] \in Frames
         /\ frames # <<>> => Len(frames) > 0 /\ Top \in Frames
         /\ frames = <<>> => DOMAIN frames = {}
<1>1. /\ Len(frames) \in Nat /\ DOMAIN frames = 1..Len(frames)
      /\ \A j \in DOMAIN frames : frames[j] \in Frames
  BY DEF StackType
<1>2. frames # <<>> => Len(frames) > 0
  BY <1>1, EmptySeq DEF StackType
<1>3. frames # <<>> => Top \in Frames
  BY <1>1, <1>2 DEF Top
<1> QED BY <1>1, <1>2, <1>3

\* A call of stop() goes on top of the others.
LEMMA CallIs ==
  ASSUME StackType, NEW label \in {"stats", "flag"}, Call(label)
  PROVE  /\ StackType' /\ frames' # <<>>
         /\ DOMAIN frames' = 1..(Len(frames) + 1)
         /\ \A j \in 1..Len(frames) : frames'[j] = frames[j]
         /\ frames'[Len(frames) + 1] = [at |-> label, fd |-> 0, seen |-> <<>>, i |-> 1]
<1> DEFINE f == [at |-> label, fd |-> 0, seen |-> <<>>, i |-> 1]
<1>1. f \in Frames
  <2>1. <<>> \in Seq(Clients) /\ Len(<<>>) = 0
    OBVIOUS
  <2> QED BY <2>1 DEF Frames, FrameShape, FrameAt, MaybeFd
<1> HIDE DEF f
<1>2. frames \in Seq(Frames) /\ frames' = Append(frames, f)
  BY DEF StackType, Call, f
<1>3. /\ frames' \in Seq(Frames) /\ Len(frames') = Len(frames) + 1
      /\ DOMAIN frames' = 1..(Len(frames) + 1)
      /\ \A j \in 1..Len(frames) : frames'[j] = frames[j]
      /\ frames'[Len(frames) + 1] = f
  BY <1>1, <1>2
<1>4. Len(frames) \in Nat /\ 1 \in DOMAIN frames'
  BY <1>2, <1>3
<1> QED BY <1>3, <1>4 DEF StackType, f

\* The topmost call goes on.
LEMMA TopIs ==
  ASSUME StackType, frames # <<>>, NEW f \in Frames, SetTop(f)
  PROVE  /\ StackType' /\ frames' # <<>>
         /\ DOMAIN frames' = DOMAIN frames /\ DOMAIN frames = 1..Len(frames)
         /\ Len(frames) \in Nat /\ Len(frames) > 0
         /\ \A j \in 1..(Len(frames) - 1) : frames'[j] = frames[j]
         /\ frames'[Len(frames)] = f
<1> DEFINE n == Len(frames)
<1>1. frames \in Seq(Frames) /\ n \in Nat /\ n > 0 /\ DOMAIN frames = 1..n
  BY StackShape DEF StackType
<1>2. Below \in Seq(Frames) /\ Len(Below) = n - 1
      /\ \A j \in 1..(n - 1) : Below[j] = frames[j]
  BY <1>1 DEF Below
<1>3. frames' = Append(Below, f)
  BY DEF SetTop
<1> HIDE DEF n
<1>4. /\ frames' \in Seq(Frames) /\ Len(frames') = n
      /\ DOMAIN frames' = 1..n
      /\ \A j \in 1..(n - 1) : frames'[j] = frames[j]
      /\ frames'[n] = f
  BY <1>1, <1>2, <1>3
<1>5. n \in DOMAIN frames'
  BY <1>1, <1>4
<1> QED BY <1>1, <1>4, <1>5 DEF StackType, n

\* The topmost call returns.
LEMMA PopIs ==
  ASSUME StackType, frames # <<>>, frames' = Below
  PROVE  /\ StackType'
         /\ Len(frames) \in Nat /\ Len(frames) > 0 /\ DOMAIN frames = 1..Len(frames)
         /\ DOMAIN frames' = 1..(Len(frames) - 1)
         /\ \A j \in 1..(Len(frames) - 1) : frames'[j] = frames[j]
<1> DEFINE n == Len(frames)
<1>1. frames \in Seq(Frames) /\ n \in Nat /\ n > 0 /\ DOMAIN frames = 1..n
  BY StackShape DEF StackType
<1>2. Below \in Seq(Frames) /\ Len(Below) = n - 1 /\ DOMAIN Below = 1..(n - 1)
      /\ \A j \in 1..(n - 1) : Below[j] = frames[j]
  BY <1>1 DEF Below
<1> QED BY <1>1, <1>2 DEF StackType

\* What lies below a call does not change while it is there.
LEMMA CutStays ==
  ASSUME NEW j, \A m \in 1..(j - 1) : frames'[m] = frames[m]
  PROVE  Cut(j)' <=> Cut(j)
BY DEF Cut

\* The call on top goes to a place, with what it holds and where it is in its loop.
Becomes(at, n, seen, i) ==
  /\ StackType' /\ frames # <<>> /\ frames' # <<>>
  /\ DOMAIN frames' = DOMAIN frames /\ DOMAIN frames = 1..Len(frames)
  /\ Len(frames) \in Nat /\ Len(frames) > 0
  /\ \A j \in 1..(Len(frames) - 1) : frames'[j] = frames[j]
  /\ LET f == frames'[Len(frames)]
     IN f.at = at /\ f.fd = n /\ f.seen = seen /\ f.i = i

\* What a step of stop() makes of the call on top.
LEMMA StopSteps ==
  ASSUME Types
  PROVE  /\ LockStorage =>
              Becomes("print", 0, Top.seen, Top.i)
         /\ PrintStats =>
              Becomes("flag", 0, Top.seen, Top.i)
         /\ ClearRunning =>
              Becomes("exchange", 0, Top.seen, Top.i)
         /\ TakeListener =>
              Becomes("shut", listenFd, Top.seen, Top.i)
         /\ ShutListener =>
              Becomes(IF sessions = <<>> THEN "clear" ELSE "mark", 0, sessions, 1)
         /\ MarkSession =>
              Becomes("close", fd[Current(Top)], Top.seen, Top.i)
         /\ CloseSession =>
              Becomes(IF Top.fd = 0 THEN "join" ELSE "forget", 0, Top.seen, Top.i)
         /\ ForgetSession =>
              Becomes("join", 0, Top.seen, Top.i)
         /\ (JoinSession /\ frames' # frames) =>
              Becomes(IF Top.i < Len(Top.seen) THEN "mark" ELSE "clear", 0, Top.seen, Top.i + 1)
         /\ ClearSessions =>
              Becomes("joinAccept", 0, Top.seen, Top.i)
         /\ (JoinAccept /\ frames' # frames) =>
              Becomes("joinPrune", 0, Top.seen, Top.i)
<1>1. frames # <<>> => Top \in Frames /\ Top \in FrameShape
  BY StackShape DEF Types, Frames
<1>2. ASSUME NEW f \in Frames, frames # <<>>, SetTop(f)
      PROVE  Becomes(f.at, f.fd, f.seen, f.i)
  BY <1>2, TopIs DEF Types, Becomes
<1>3. ASSUME PrintStats
      PROVE  Becomes("flag", 0, Top.seen, Top.i)
  <2> DEFINE f == [Top EXCEPT !.at = "flag"]
  <2>1. frames # <<>> /\ SetTop(f)
    BY <1>3 DEF PrintStats, StopAt, StopGoto, Current
  <2>2. f.at = "flag" /\ f.fd = 0 /\ f.seen = Top.seen /\ f.i = Top.i
    BY <1>1, <1>3, <2>1, FrameFields DEF PrintStats, StopAt
  <2>3. f \in FrameShape
    BY <1>1, <1>3, <2>1, FrameFields DEF PrintStats, StopAt, FrameShape, FrameAt, MaybeFd,
       Current, Types, FlagType, ListType, SessionType
  <2> HIDE DEF f
  <2>4. f \in Frames
    BY <1>1, <2>1, <2>2, <2>3 DEF Frames
  <2> QED BY <1>2, <2>1, <2>2, <2>4
<1>4. ASSUME ClearRunning
      PROVE  Becomes("exchange", 0, Top.seen, Top.i)
  <2> DEFINE f == [Top EXCEPT !.at = "exchange"]
  <2>1. frames # <<>> /\ SetTop(f)
    BY <1>4 DEF ClearRunning, StopAt, StopGoto, Current
  <2>2. f.at = "exchange" /\ f.fd = 0 /\ f.seen = Top.seen /\ f.i = Top.i
    BY <1>1, <1>4, <2>1, FrameFields DEF ClearRunning, StopAt
  <2>3. f \in FrameShape
    BY <1>1, <1>4, <2>1, FrameFields DEF ClearRunning, StopAt, FrameShape, FrameAt, MaybeFd,
       Current, Types, FlagType, ListType, SessionType
  <2> HIDE DEF f
  <2>4. f \in Frames
    BY <1>1, <2>1, <2>2, <2>3 DEF Frames
  <2> QED BY <1>2, <2>1, <2>2, <2>4
<1>5. ASSUME TakeListener
      PROVE  Becomes("shut", listenFd, Top.seen, Top.i)
  <2> DEFINE f == [Top EXCEPT !.at = "shut", !.fd = listenFd]
  <2>1. frames # <<>> /\ SetTop(f)
    BY <1>5 DEF TakeListener, StopAt, Current
  <2>2. f.at = "shut" /\ f.fd = listenFd /\ f.seen = Top.seen /\ f.i = Top.i
    BY <1>1, <1>5, <2>1, FrameFields DEF TakeListener, StopAt
  <2>3. f \in FrameShape
    BY <1>1, <1>5, <2>1, FrameFields DEF TakeListener, StopAt, FrameShape, FrameAt, MaybeFd,
       Current, Types, FlagType, ListType, SessionType
  <2> HIDE DEF f
  <2>4. f \in Frames
    BY <1>1, <2>1, <2>2, <2>3 DEF Frames
  <2> QED BY <1>2, <2>1, <2>2, <2>4
<1>6. ASSUME ShutListener
      PROVE  Becomes(IF sessions = <<>> THEN "clear" ELSE "mark", 0, sessions, 1)
  <2> DEFINE f == [Top EXCEPT !.at = IF sessions = <<>> THEN "clear" ELSE "mark",
                         !.fd = 0, !.seen = sessions, !.i = 1]
  <2>1. frames # <<>> /\ SetTop(f)
    BY <1>6 DEF ShutListener, StopAt, Current
  <2>2. /\ f.at = (IF sessions = <<>> THEN "clear" ELSE "mark")
        /\ f.fd = 0 /\ f.seen = sessions /\ f.i = 1
    BY <1>1, <1>6, <2>1, FrameFields DEF ShutListener, StopAt
  <2>3. f \in FrameShape
    <3>1. PICK a \in FrameAt : a = IF sessions = <<>> THEN "clear" ELSE "mark"
      BY DEF FrameAt
    <3>2. 1 \in Nat \ {0} /\ 0 \in MaybeFd /\ sessions \in Seq(Clients)
      BY <1>1, <2>1 DEF MaybeFd, Types, ListType
    <3>3. [Top EXCEPT !.at = a, !.fd = 0, !.seen = sessions, !.i = 1] \in FrameShape
      BY <1>1, <2>1, <3>2 DEF FrameShape
    <3> QED BY <3>1, <3>3
  <2> HIDE DEF f
  <2>4. f \in Frames
    BY <2>2, <2>3 DEF Frames
  <2> QED BY <1>2, <2>1, <2>2, <2>4
<1>7. ASSUME MarkSession
      PROVE  Becomes("close", fd[Current(Top)], Top.seen, Top.i)
  <2> DEFINE f == [Top EXCEPT !.at = "close", !.fd = fd[Current(Top)]]
  <2>1. frames # <<>> /\ SetTop(f)
    BY <1>7 DEF MarkSession, StopAt, Current
  <2>2. f.at = "close" /\ f.fd = fd[Current(Top)] /\ f.seen = Top.seen /\ f.i = Top.i
    BY <1>1, <1>7, <2>1, FrameFields DEF MarkSession, StopAt
  <2>3. f \in FrameShape
    BY <1>1, <1>7, <2>1, FrameFields DEF MarkSession, StopAt, FrameShape, FrameAt, MaybeFd,
       Current, Types, FlagType, ListType, SessionType
  <2> HIDE DEF f
  <2>4. f \in Frames
    BY <1>1, <1>7, <2>2, <2>3 DEF MarkSession, StopAt, Frames
  <2> QED BY <1>2, <2>1, <2>2, <2>4
<1>8. ASSUME CloseSession
      PROVE  Becomes(IF Top.fd = 0 THEN "join" ELSE "forget", 0, Top.seen, Top.i)
  <2>0. PICK a \in {"join", "forget"} : a = IF Top.fd = 0 THEN "join" ELSE "forget"
    OBVIOUS
  <2> DEFINE f == [Top EXCEPT !.at = a, !.fd = 0]
  <2>1. frames # <<>> /\ SetTop(f)
    <3>1. frames # <<>> /\ Top \in FrameShape
      BY <1>1, <1>8 DEF CloseSession, StopAt
    <3>2. CASE Top.fd = 0
      <4>1. f = [Top EXCEPT !.at = "join"]
        BY <2>0, <3>1, <3>2 DEF FrameShape
      <4> QED BY <1>8, <3>1, <3>2, <4>1 DEF CloseSession, StopGoto
    <3>3. CASE Top.fd # 0
      BY <1>8, <2>0, <3>1, <3>3 DEF CloseSession
    <3> QED BY <3>2, <3>3
  <2>2. f.at = a /\ f.fd = 0 /\ f.seen = Top.seen /\ f.i = Top.i
    BY <1>1, <2>1 DEF FrameShape
  <2>3. f \in FrameShape
    BY <1>1, <2>0, <2>1 DEF FrameShape, FrameAt, MaybeFd
  <2> HIDE DEF f
  <2>4. f \in Frames
    BY <1>1, <1>8, <2>0, <2>2, <2>3 DEF CloseSession, StopAt, Frames
  <2> QED BY <1>2, <2>0, <2>1, <2>2, <2>4
<1>9. ASSUME JoinSession, frames' # frames
      PROVE  Becomes(IF Top.i < Len(Top.seen) THEN "mark" ELSE "clear", 0, Top.seen, Top.i + 1)
  <2> DEFINE f == [Top EXCEPT !.i = @ + 1, !.at = IF Top.i < Len(Top.seen) THEN "mark" ELSE "clear"]
  <2>1. frames # <<>> /\ SetTop(f)
    BY <1>9 DEF JoinSession, StopAt, Current
  <2>2. /\ f.at = (IF Top.i < Len(Top.seen) THEN "mark" ELSE "clear")
        /\ f.fd = 0 /\ f.seen = Top.seen /\ f.i = Top.i + 1
    BY <1>1, <1>9, <2>1, FrameFields DEF JoinSession, StopAt
  <2>3. f \in FrameShape
    <3>1. PICK a \in FrameAt : a = IF Top.i < Len(Top.seen) THEN "mark" ELSE "clear"
      BY DEF FrameAt
    <3>2. Top.i + 1 \in Nat \ {0}
      BY <1>1, <2>1 DEF FrameShape
    <3>3. [Top EXCEPT !.i = @ + 1, !.at = a] \in FrameShape
      BY <1>1, <2>1, <3>2 DEF FrameShape
    <3> QED BY <3>1, <3>3
  <2> HIDE DEF f
  <2>4. f \in Frames
    BY <1>1, <1>9, <2>2, <2>3, FrameFields DEF JoinSession, StopAt, Frames
  <2> QED BY <1>2, <2>1, <2>2, <2>4
<1>10. ASSUME ClearSessions
      PROVE  Becomes("joinAccept", 0, Top.seen, Top.i)
  <2> DEFINE f == [Top EXCEPT !.at = "joinAccept"]
  <2>1. frames # <<>> /\ SetTop(f)
    BY <1>10 DEF ClearSessions, StopAt, StopGoto, Current
  <2>2. f.at = "joinAccept" /\ f.fd = 0 /\ f.seen = Top.seen /\ f.i = Top.i
    BY <1>1, <1>10, <2>1, FrameFields DEF ClearSessions, StopAt
  <2>3. f \in FrameShape
    BY <1>1, <1>10, <2>1, FrameFields DEF ClearSessions, StopAt, FrameShape, FrameAt,
       MaybeFd, Current, Types, FlagType, ListType, SessionType
  <2> HIDE DEF f
  <2>4. f \in Frames
    BY <1>1, <2>1, <2>2, <2>3 DEF Frames
  <2> QED BY <1>2, <2>1, <2>2, <2>4
<1>11. ASSUME JoinAccept, frames' # frames
      PROVE  Becomes("joinPrune", 0, Top.seen, Top.i)
  <2> DEFINE f == [Top EXCEPT !.at = "joinPrune"]
  <2>1. frames # <<>> /\ SetTop(f)
    BY <1>11 DEF JoinAccept, StopAt, StopGoto, Current
  <2>2. f.at = "joinPrune" /\ f.fd = 0 /\ f.seen = Top.seen /\ f.i = Top.i
    BY <1>1, <1>11, <2>1, FrameFields DEF JoinAccept, StopAt
  <2>3. f \in FrameShape
    BY <1>1, <1>11, <2>1, FrameFields DEF JoinAccept, StopAt, FrameShape, FrameAt, MaybeFd,
       Current, Types, FlagType, ListType, SessionType
  <2> HIDE DEF f
  <2>4. f \in Frames
    BY <1>1, <2>1, <2>2, <2>3 DEF Frames
  <2> QED BY <1>2, <2>1, <2>2, <2>4
<1>12. ASSUME LockStorage
      PROVE  Becomes("print", 0, Top.seen, Top.i)
  <2> DEFINE f == [Top EXCEPT !.at = "print"]
  <2>1. frames # <<>> /\ SetTop(f)
    BY <1>12 DEF LockStorage, StopAt, StopGoto, Current
  <2>2. f.at = "print" /\ f.fd = 0 /\ f.seen = Top.seen /\ f.i = Top.i
    BY <1>1, <1>12, <2>1, FrameFields DEF LockStorage, StopAt
  <2>3. f \in FrameShape
    BY <1>1, <1>12, <2>1, FrameFields DEF LockStorage, StopAt, FrameShape, FrameAt, MaybeFd,
       Current, Types, FlagType, ListType, SessionType
  <2> HIDE DEF f
  <2>4. f \in Frames
    BY <1>1, <2>1, <2>2, <2>3 DEF Frames
  <2> QED BY <1>2, <2>1, <2>2, <2>4
<1>13. ASSUME ForgetSession
      PROVE  Becomes("join", 0, Top.seen, Top.i)
  <2> DEFINE f == [Top EXCEPT !.at = "join"]
  <2>1. frames # <<>> /\ SetTop(f)
    BY <1>13 DEF ForgetSession, StopAt, StopGoto, Current
  <2>2. f.at = "join" /\ f.fd = 0 /\ f.seen = Top.seen /\ f.i = Top.i
    BY <1>1, <1>13, <2>1, FrameFields DEF ForgetSession, StopAt
  <2>3. f \in FrameShape
    BY <1>1, <1>13, <2>1, FrameFields DEF ForgetSession, StopAt, FrameShape, FrameAt, MaybeFd,
       Current, Types, FlagType, ListType, SessionType
  <2> HIDE DEF f
  <2>4. f \in Frames
    BY <1>1, <1>13, <2>1, <2>2, <2>3 DEF ForgetSession, StopAt, Frames
  <2> QED BY <1>2, <2>1, <2>2, <2>4
<1> QED BY <1>3, <1>4, <1>5, <1>6, <1>7, <1>8, <1>9, <1>10, <1>11, <1>12, <1>13

-------------------------------------------------------------------------------
(* Types.                                                                    *)

\* The number that a new socket gets is a free one.
LEMMA FreeIs ==
  ASSUME FreeFds # {}
  PROVE  Lowest(FreeFds) \in Fds /\ Lowest(FreeFds) # 0 /\ table[Lowest(FreeFds)] = "free"
<1>1. FreeFds \in SUBSET Nat
  BY Ranges DEF FreeFds
<1>2. Lowest(FreeFds) \in FreeFds
  BY <1>1, LowestIs
<1> QED BY <1>2, Ranges DEF FreeFds

\* What a step leaves alone keeps its type.
LEMMA SameTypes ==
  ASSUME Types
  PROVE  /\ UNCHANGED <<argv, status, mpc, next, polls, signals>> => MainType'
         /\ UNCHANGED frames => StackType'
         /\ UNCHANGED serverVars => FlagType'
         /\ UNCHANGED acceptVars => AcceptType'
         /\ UNCHANGED ppc => PruneType'
         /\ UNCHANGED sessions => ListType'
         /\ UNCHANGED table => TableType'
         /\ UNCHANGED sessionVars => SessionType'
         /\ UNCHANGED clientVars => PeerType'
         /\ UNCHANGED <<storage, late, crashed>> => RestType'
         /\ UNCHANGED mainVars => MainType'
BY DEF Types, MainType, StackType, FlagType, AcceptType, PruneType, ListType, TableType,
   SessionType, PeerType, RestType, mainVars, serverVars, acceptVars, sessionVars,
   clientVars

\* The steps of main() keep the types.
LEMMA MainTypes ==
  ASSUME IInv, MainStep \/ Signal
  PROVE  Types'
<1>1. CASE ParseOption
  <2>1. MainType'
    BY <1>1 DEF IInv, Types, MainType, ParseOption, MainAts
  <2>2. RestType'
    BY <1>1 DEF IInv, Types, RestType, ParseOption, MainAt, MainAts, serverVars, acceptVars,
       sessionVars, clientVars
  <2> QED BY <1>1, <2>1, <2>2, SameTypes DEF IInv, Types, ParseOption
<1>2. CASE Configured
  <2>1. MainType'
    BY <1>2 DEF IInv, Types, MainType, Configured, MainAts
  <2> QED BY <1>2, <2>1, SameTypes DEF IInv, Types, Configured
<1>3. CASE SetRunning
  <2>1. MainType'
    BY <1>3 DEF IInv, Types, MainType, SetRunning, MainAts
  <2>2. FlagType'
    BY <1>3 DEF IInv, Types, FlagType, SetRunning
  <2> QED BY <1>3, <2>1, <2>2, SameTypes DEF IInv, Types, SetRunning
<1>4. CASE SpawnAccept
  <2>1. MainType'
    BY <1>4 DEF IInv, Types, MainType, SpawnAccept, MainAts
  <2>2. AcceptType'
    BY <1>4 DEF IInv, Types, AcceptType, SpawnAccept, AcceptAts
  <2> QED BY <1>4, <2>1, <2>2, SameTypes DEF IInv, Types, SpawnAccept
<1>5. CASE SpawnPrune
  <2>1. MainType'
    BY <1>5 DEF IInv, Types, MainType, SpawnPrune, MainAts
  <2>2. PruneType'
    BY <1>5 DEF PruneType, SpawnPrune
  <2> QED BY <1>5, <2>1, <2>2, SameTypes DEF IInv, Types, SpawnPrune
<1>6. CASE AwaitListening
  <2>1. MainType'
    <3>1. polls \in Nat /\ Polls \in Nat /\ polls <= Polls
      BY ProcessAssumption DEF IInv, Types, MainType
    <3>2. polls' \in 0..Polls
      BY <1>6, <3>1 DEF AwaitListening, MorePolls
    <3>3. mpc' \in MainAts /\ status' \in {0, 1}
      BY <1>6 DEF IInv, Types, MainType, AwaitListening, MainAts
    <3> QED BY <1>6, <3>2, <3>3 DEF IInv, Types, MainType, AwaitListening
  <2>2. StackType'
    BY <1>6, CallIs, SameTypes DEF IInv, Types, AwaitListening
  <2> QED BY <1>6, <2>1, <2>2, SameTypes DEF IInv, Types, AwaitListening
<1>7. CASE PollRunning
  <2>1. MainType'
    BY <1>7 DEF IInv, Types, MainType, PollRunning, MainAts
  <2>2. StackType'
    BY <1>7, CallIs, SameTypes DEF IInv, Types, PollRunning
  <2> QED BY <1>7, <2>1, <2>2, SameTypes DEF IInv, Types, PollRunning
<1>8. CASE Destroy
  <2>1. MainType'
    BY <1>8 DEF IInv, Types, MainType, Destroy, MainAts
  <2>2. StackType'
    BY <1>8, CallIs, SameTypes DEF IInv, Types, Destroy
  <2> QED BY <1>8, <2>1, <2>2, SameTypes DEF IInv, Types, Destroy
<1>9. CASE Exit
  <2>1. MainType'
    BY <1>9 DEF IInv, Types, MainType, Exit, MainAts
  <2> QED BY <1>9, <2>1, SameTypes DEF IInv, Types, Exit
<1>10. CASE Signal
  <2>1. MainType'
    <3>1. signals' \in 0..Signals
      BY <1>10, ProcessAssumption DEF IInv, Types, MainType, Signal
    <3> QED BY <1>10, <3>1 DEF IInv, Types, MainType, Signal
  <2>2. StackType'
    BY <1>10, CallIs, SameTypes DEF IInv, Types, Signal
  <2> QED BY <1>10, <2>1, <2>2, SameTypes DEF IInv, Types, Signal
<1> QED BY <1>1, <1>2, <1>3, <1>4, <1>5, <1>6, <1>7, <1>8, <1>9, <1>10 DEF MainStep

\* Those of stop().
LEMMA StopTypes ==
  ASSUME IInv, StopStep
  PROVE  Types'
<1>1. CASE PrintStats
  <2>1. StackType'
    BY <1>1, StopSteps, SameTypes DEF IInv, Types, Becomes
  <2>2. RestType'
    BY <1>1 DEF IInv, Types, RestType, PrintStats
  <2> QED BY <1>1, <2>1, <2>2, SameTypes DEF IInv, Types, PrintStats
<1>2. CASE ClearRunning
  <2>1. StackType'
    BY <1>2, StopSteps, SameTypes DEF IInv, Types, Becomes
  <2>2. FlagType'
    BY <1>2 DEF IInv, Types, FlagType, ClearRunning, StopAt, MaybeFd, mainVars, acceptVars,
       sessionVars, clientVars
  <2> QED BY <1>2, <2>1, <2>2, SameTypes DEF IInv, Types, ClearRunning
<1>3. CASE TakeListener
  <2>1. StackType'
    BY <1>3, StopSteps, SameTypes DEF IInv, Types, Becomes
  <2>2. FlagType'
    BY <1>3 DEF IInv, Types, FlagType, TakeListener, MaybeFd
  <2> QED BY <1>3, <2>1, <2>2, SameTypes DEF IInv, Types, TakeListener
<1>4. CASE ShutListener
  <2>1. StackType'
    BY <1>4, StopSteps, SameTypes DEF IInv, Types, Becomes
  <2>2. FlagType'
    BY <1>4 DEF IInv, Types, FlagType, ShutListener
  <2> QED BY <1>4, <2>1, <2>2, SameTypes DEF IInv, Types, ShutListener
<1>5. CASE MarkSession
  <2>1. StackType'
    BY <1>5, StopSteps, SameTypes DEF IInv, Types, Becomes
  <2>2. SessionType'
    BY <1>5 DEF IInv, Types, SessionType, MarkSession, StopAt, MaybeFd, mainVars,
       serverVars, acceptVars, clientVars
  <2> QED BY <1>5, <2>1, <2>2, SameTypes DEF IInv, Types, MarkSession
<1>6. CASE CloseSession
  <2>1. StackType'
    BY <1>6, StopSteps, SameTypes DEF IInv, Types, Becomes
  <2>2. TableType'
    <3>1. PICK m : table' = Freed(m)
      BY <1>6 DEF CloseSession, Freed
    <3> QED BY <3>1 DEF IInv, Types, TableType, Freed
  <2> QED BY <1>6, <2>1, <2>2, SameTypes DEF IInv, Types, CloseSession
<1>7. CASE JoinSession
  <2>1. StackType'
    BY <1>7, StopSteps, SameTypes DEF IInv, Types, Becomes
  <2>2. RestType'
    BY <1>7 DEF IInv, Types, RestType, JoinSession, StopAt, mainVars, serverVars,
       acceptVars, sessionVars, clientVars
  <2> QED BY <1>7, <2>1, <2>2, SameTypes DEF IInv, Types, JoinSession
<1>8. CASE ClearSessions
  <2>1. StackType'
    BY <1>8, StopSteps, SameTypes DEF IInv, Types, Becomes
  <2>2. ListType'
    BY <1>8 DEF ListType, ClearSessions
  <2> QED BY <1>8, <2>1, <2>2, SameTypes DEF IInv, Types, ClearSessions
<1>9. CASE JoinAccept
  <2>1. StackType'
    BY <1>9, StopSteps, SameTypes DEF IInv, Types, Becomes
  <2>2. RestType'
    BY <1>9 DEF IInv, Types, RestType, JoinAccept, StopAt, mainVars, serverVars, acceptVars,
       sessionVars, clientVars
  <2> QED BY <1>9, <2>1, <2>2, SameTypes DEF IInv, Types, JoinAccept
<1>10. CASE JoinPrune
  <2>1. StackType'
    BY <1>10, PopIs, SameTypes DEF IInv, Types, StopAt, JoinPrune
  <2>2. RestType'
    BY <1>10 DEF IInv, Types, RestType, JoinPrune, StopAt, mainVars, serverVars, acceptVars,
       sessionVars, clientVars
  <2> QED BY <1>10, <2>1, <2>2, SameTypes DEF IInv, Types, JoinPrune
<1>11. CASE LockStorage
  <2>1. StackType'
    BY <1>11, StopSteps, SameTypes DEF IInv, Types, Becomes
  <2>2. RestType'
    BY <1>11 DEF IInv, Types, RestType, LockStorage
  <2> QED BY <1>11, <2>1, <2>2, SameTypes DEF IInv, Types, LockStorage
<1>12. CASE ForgetSession
  <2>1. StackType'
    BY <1>12, StopSteps, SameTypes DEF IInv, Types, Becomes
  <2>2. SessionType'
    BY <1>12 DEF IInv, Types, SessionType, ForgetSession, MaybeFd
  <2> QED BY <1>12, <2>1, <2>2, SameTypes DEF IInv, Types, ForgetSession
<1> QED BY <1>1, <1>2, <1>3, <1>4, <1>5, <1>6, <1>7, <1>8, <1>9, <1>10, <1>11, <1>12
   DEF StopStep

\* Those of the accept thread.
LEMMA AcceptTypes ==
  ASSUME IInv, AcceptStep \/ AcceptClient
  PROVE  Types'
<1>1. CASE OpenSocket
  <2>1. TableType'
    BY <1>1, FreeIs DEF IInv, Types, TableType, OpenSocket
  <2>2. AcceptType'
    BY <1>1, FreeIs DEF IInv, Types, AcceptType, OpenSocket, AcceptAts, MaybeFd
  <2> QED BY <1>1, <2>1, <2>2, SameTypes DEF IInv, Types, OpenSocket
<1>2. CASE PublishListener
  <2>1. FlagType'
    BY <1>2 DEF IInv, Types, FlagType, AcceptType, PublishListener
  <2>2. AcceptType'
    BY <1>2 DEF IInv, Types, AcceptType, PublishListener, AcceptAts
  <2> QED BY <1>2, <2>1, <2>2, SameTypes DEF IInv, Types, PublishListener
<1>3. CASE Listen
  <2>1. FlagType'
    BY <1>3 DEF IInv, Types, FlagType, Listen
  <2>2. AcceptType'
    BY <1>3 DEF IInv, Types, AcceptType, Listen, AcceptAts
  <2> QED BY <1>3, <2>1, <2>2, SameTypes DEF IInv, Types, Listen
<1>4. CASE CannotListen
  <2>1. TableType'
    BY <1>4, FreeIs DEF IInv, Types, TableType, CannotListen, AcceptAt, Freed, mainVars,
       sessionVars, clientVars
  <2>2. FlagType'
    BY <1>4, FreeIs DEF IInv, Types, FlagType, CannotListen, AcceptAt, MaybeFd, Freed,
       mainVars, sessionVars, clientVars
  <2>3. AcceptType'
    BY <1>4 DEF IInv, Types, AcceptType, CannotListen, AcceptAts, MaybeFd
  <2> QED BY <1>4, <2>1, <2>2, <2>3, SameTypes DEF IInv, Types, CannotListen
<1>5. CASE AcceptLoop
  <2>1. AcceptType'
    BY <1>5 DEF IInv, Types, AcceptType, AcceptLoop, AcceptAts
  <2> QED BY <1>5, <2>1, SameTypes DEF IInv, Types, AcceptLoop
<1>6. CASE AcceptClient
  <2>1. AcceptType'
    BY <1>6 DEF IInv, Types, AcceptType, AcceptClient, AcceptAts
  <2>2. PeerType'
    BY <1>6 DEF IInv, Types, PeerType, AcceptClient
  <2>3. SessionType'
    BY <1>6, FreeIs DEF IInv, Types, SessionType, AcceptClient, MaybeFd
  <2>4. TableType'
    BY <1>6, FreeIs DEF IInv, Types, TableType, AcceptClient
  <2> QED BY <1>6, <2>1, <2>2, <2>3, <2>4, SameTypes DEF IInv, Types, AcceptClient
<1>7. CASE AcceptFails
  <2>1. AcceptType'
    BY <1>7 DEF IInv, Types, AcceptType, AcceptFails, AcceptAts
  <2> QED BY <1>7, <2>1, SameTypes DEF IInv, Types, AcceptFails
<1>8. CASE PushSession
  <2>1. ListType'
    BY <1>8 DEF IInv, Types, ListType, Inv, ThreadInv, AcceptPlace, PushSession, AcceptAt
  <2>2. RestType'
    <3>1. newest \in Clients
      BY <1>8 DEF IInv, Inv, ThreadInv, AcceptPlace, PushSession, AcceptAt
    <3>2. crashed' \in BOOLEAN
      BY <1>8, Zenon DEF PushSession, Iterating
    <3> QED BY <1>8, <3>1, <3>2 DEF IInv, Types, RestType, PushSession
  <2>3. AcceptType'
    BY <1>8 DEF IInv, Types, AcceptType, PushSession, AcceptAts
  <2> QED BY <1>8, <2>1, <2>2, <2>3, SameTypes DEF IInv, Types, PushSession
<1>9. CASE StartSession
  <2>1. SessionType'
    BY <1>9, FreeIs DEF IInv, Types, SessionType, StartSession, AcceptAt, MaybeFd,
       SessionAts, mainVars, serverVars, clientVars
  <2>2. AcceptType'
    BY <1>9 DEF IInv, Types, AcceptType, StartSession, AcceptAts
  <2> QED BY <1>9, <2>1, <2>2, SameTypes DEF IInv, Types, StartSession
<1>10. CASE EraseEnded
  <2>1. ListType'
    BY <1>10, RemainingIs DEF IInv, Types, ListType, SessionType, EraseEnded
  <2>2. RestType'
    <3>1. crashed' \in BOOLEAN
      BY <1>10, Zenon DEF EraseEnded, Iterating
    <3> QED BY <1>10, <3>1 DEF IInv, Types, RestType, EraseEnded
  <2>3. AcceptType'
    BY <1>10 DEF IInv, Types, AcceptType, EraseEnded, AcceptAts
  <2> QED BY <1>10, <2>1, <2>2, <2>3, SameTypes DEF IInv, Types, EraseEnded
<1>11. CASE CloseListener
  <2>1. TableType'
    BY <1>11, FreeIs DEF IInv, Types, TableType, CloseListener, AcceptAt, Freed, mainVars,
       serverVars, sessionVars, clientVars
  <2>2. AcceptType'
    BY <1>11 DEF IInv, Types, AcceptType, CloseListener, AcceptAts, MaybeFd
  <2> QED BY <1>11, <2>1, <2>2, SameTypes DEF IInv, Types, CloseListener
<1> QED BY <1>1, <1>2, <1>3, <1>4, <1>5, <1>6, <1>7, <1>8, <1>9, <1>10, <1>11 DEF AcceptStep

\* Those of the prune thread.
LEMMA PruneTypes ==
  ASSUME IInv, Prune
  PROVE  Types'
<1>1. CASE PruneWaits
  <2>1. PruneType'
    BY <1>1 DEF PruneType, PruneWaits
  <2> QED BY <1>1, <2>1, SameTypes DEF IInv, Types, PruneWaits
<1>2. CASE PruneEnds
  <2>1. PruneType'
    BY <1>2 DEF PruneType, PruneEnds
  <2> QED BY <1>2, <2>1, SameTypes DEF IInv, Types, PruneEnds
<1>3. CASE PruneSleeps
  <2>1. PruneType'
    BY <1>3 DEF PruneType, PruneSleeps
  <2> QED BY <1>3, <2>1, SameTypes DEF IInv, Types, PruneSleeps
<1> QED BY <1>1, <1>2, <1>3 DEF Prune

\* Those of a session.
LEMMA SessionTypes ==
  ASSUME IInv, NEW c \in Clients,
         SessionStep(c) \/ SendingStep(c) \/ Request(c) \/ Message(c) \/ Leave(c)
  PROVE  Types'
<1>1. CASE EnterHandshake(c)
  <2>1. SessionType'
    BY <1>1 DEF IInv, Types, SessionType, EnterHandshake, SessionAts, SessionGoto
  <2> QED BY <1>1, <2>1, SameTypes DEF IInv, Types, EnterHandshake, Elsewhere
<1>2. CASE Request(c)
  <2>1. SessionType'
    BY <1>2 DEF IInv, Types, SessionType, Request, SessionAts, SessionGoto
  <2>2. PeerType'
    BY <1>2 DEF IInv, Types, PeerType, Request, Speaks
  <2> QED BY <1>2, <2>1, <2>2, SameTypes DEF IInv, Types, Request, Elsewhere
<1>3. CASE Reject(c)
  <2>1. SessionType'
    BY <1>3 DEF IInv, Types, SessionType, Reject, SessionAts, SessionGoto
  <2> QED BY <1>3, <2>1, SameTypes DEF IInv, Types, Reject, Elsewhere
<1>4. CASE HangUpOn(c)
  <2>1. TableType'
    <3>1. PICK m : table' = Freed(m)
      BY <1>4 DEF HangUpOn, Freed
    <3> QED BY <3>1 DEF IInv, Types, TableType, Freed
  <2>2. SessionType'
    BY <1>4 DEF IInv, Types, SessionType, HangUpOn, SessionAts, SessionGoto, NoAim, MaybeFd
  <2> QED BY <1>4, <2>1, <2>2, SameTypes DEF IInv, Types, HangUpOn, Elsewhere
<1>5. CASE ReadLoop(c)
  <2>1. SessionType'
    BY <1>5 DEF IInv, Types, SessionType, ReadLoop, SessionAt, SessionAts, SessionGoto,
       Elsewhere, Finish, MaybeFd, mainVars, serverVars, acceptVars, clientVars
  <2> QED BY <1>5, <2>1, SameTypes DEF IInv, Types, ReadLoop, Elsewhere
<1>6. CASE Message(c)
  <2>1. SessionType'
    BY <1>6 DEF IInv, Types, SessionType, Message, SessionAt, SessionAts, SessionGoto,
       Elsewhere, Finish, Speaks, MaybeFd, mainVars, serverVars, acceptVars
  <2>2. PeerType'
    BY <1>6 DEF IInv, Types, PeerType, Message, Speaks
  <2> QED BY <1>6, <2>1, <2>2, SameTypes DEF IInv, Types, Message, Elsewhere
<1>7. CASE Leave(c)
  <2>1. SessionType'
    BY <1>7 DEF IInv, Types, SessionType, Leave, SessionAt, SessionAts, SessionGoto,
       Elsewhere, Finish, MaybeFd, mainVars, serverVars, acceptVars
  <2>2. PeerType'
    BY <1>7 DEF IInv, Types, PeerType, Leave
  <2> QED BY <1>7, <2>1, <2>2, SameTypes DEF IInv, Types, Leave, Elsewhere
<1>8. CASE HandleMessage(c)
  <2>1. RestType'
    BY <1>8 DEF IInv, Types, RestType, HandleMessage, Elsewhere
  <2>2. SessionType'
    <3>1. Len(sessions) \in Nat
      BY DEF IInv, Types, ListType
    <3>2. spc' \in [Clients -> SessionAts]
      BY <1>8 DEF IInv, Types, SessionType, HandleMessage, SessionGoto, SessionAts
    <3>3. idx' \in [Clients -> Nat] /\ upto' \in [Clients -> Nat]
      <4>1. /\ idx' \in {idx, [idx EXCEPT ![c] = 1]}
            /\ upto' \in {upto, [upto EXCEPT ![c] = Len(sessions)]}
        BY <1>8 DEF HandleMessage
      <4>2. idx \in [Clients -> Nat] /\ upto \in [Clients -> Nat]
        BY DEF IInv, Types, SessionType
      <4> QED BY <3>1, <4>1, <4>2
    <3> QED BY <1>8, <3>2, <3>3 DEF IInv, Types, SessionType, HandleMessage
  <2> QED BY <1>8, <2>1, <2>2, SameTypes DEF IInv, Types, HandleMessage, Elsewhere
<1>9. CASE StreamEnds(c)
  <2>1. RestType'
    BY <1>9 DEF IInv, Types, RestType, StreamEnds, Elsewhere
  <2>2. SessionType'
    BY <1>9 DEF IInv, Types, SessionType, StreamEnds, SessionAts, SessionGoto
  <2> QED BY <1>9, <2>1, <2>2, SameTypes DEF IInv, Types, StreamEnds, Elsewhere
<1>10. CASE RelayTo(c)
  <2>1. SessionType'
    <3>1. (idx[c] <= upto[c] /\ idx[c] <= Len(sessions)) => sessions[idx[c]] \in Clients
      <4>1. SessionAt(c, "cast")
        BY <1>10 DEF RelayTo
      <4>2. idx[c] \in Nat /\ idx[c] > 0 /\ sessions \in Seq(Clients)
        BY <4>1 DEF IInv, Types, ListType, SessionType, Inv, ThreadInv, SessionPlace,
           SessionAt
      <4> QED BY <4>2
    <3>2. spc' \in [Clients -> SessionAts]
      BY <1>10 DEF IInv, Types, SessionType, RelayTo, SessionGoto, SessionAts
    <3>3. idx' \in [Clients -> Nat] /\ upto' \in [Clients -> Nat]
      <4>1. /\ idx' \in {idx, [idx EXCEPT ![c] = 0], [idx EXCEPT ![c] = @ + 1]}
            /\ upto' \in {upto, [upto EXCEPT ![c] = 0]}
        BY <1>10 DEF RelayTo
      <4>2. idx \in [Clients -> Nat] /\ idx[c] \in Nat /\ upto \in [Clients -> Nat]
        BY DEF IInv, Types, SessionType
      <4> QED BY <4>1, <4>2
    <3>4. aim' \in [Clients -> [fd : MaybeFd, of : Clients \cup {0}]]
      <4> DEFINE t == sessions[idx[c]]
      <4>1. CASE aim' = aim
        BY <4>1 DEF IInv, Types, SessionType
      <4>2. CASE aim' # aim
        <5>1. t \in Clients /\ aim' = [aim EXCEPT ![c] = [fd |-> fd[t], of |-> t]]
          BY <1>10, <3>1, <4>2 DEF RelayTo
        <5> HIDE DEF t
        <5> QED BY <5>1 DEF IInv, Types, SessionType
      <4> QED BY <4>1, <4>2
    <3> QED BY <1>10, <3>2, <3>3, <3>4 DEF IInv, Types, SessionType, RelayTo
  <2> QED BY <1>10, <2>1, SameTypes DEF IInv, Types, RelayTo, Elsewhere
<1>11. CASE SendTo(c)
  <2>1. SessionType'
    BY <1>11 DEF IInv, Types, SessionType, SendTo, SessionAts, SessionGoto, NoAim, MaybeFd
  <2> QED BY <1>11, <2>1, SameTypes DEF IInv, Types, SendTo, Elsewhere
<1>12. CASE ForgetFd(c)
  <2>1. SessionType'
    BY <1>12 DEF IInv, Types, SessionType, ForgetFd, SessionAts, SessionGoto, MaybeFd
  <2> QED BY <1>12, <2>1, SameTypes DEF IInv, Types, ForgetFd, Elsewhere
<1> QED BY <1>1, <1>2, <1>3, <1>4, <1>5, <1>6, <1>7, <1>8, <1>9, <1>10, <1>11, <1>12
   DEF SessionStep, SendingStep

-------------------------------------------------------------------------------
(* What changes, and what never turns back.                                  *)

\* Which step changes which variable.
OfSession(c) == SessionStep(c) \/ SendingStep(c) \/ Request(c) \/ Message(c) \/ Leave(c)
Changes ==
  /\ mpc' # mpc => MainStep
  /\ frames' # frames => MainStep \/ StopStep \/ Signal
  /\ running' # running => SetRunning \/ ClearRunning \/ CannotListen
  /\ listenFd' # listenFd => TakeListener \/ PublishListener \/ CannotListen
  /\ shut' # shut => ShutListener
  /\ apc' # apc => SpawnAccept \/ AcceptStep \/ AcceptClient
  /\ serverFd' # serverFd => OpenSocket \/ CannotListen \/ CloseListener
  /\ newest' # newest => AcceptClient \/ EraseEnded
  /\ ppc' # ppc => SpawnPrune \/ Prune
  /\ sessions' # sessions => ClearSessions \/ PushSession \/ EraseEnded
  /\ table' # table =>
       \/ OpenSocket \/ CannotListen \/ AcceptClient \/ CloseListener \/ CloseSession
       \/ \E c \in Clients : HangUpOn(c)
  /\ fd' # fd => AcceptClient \/ ForgetSession \/ \E c \in Clients : ForgetFd(c)
  /\ live' # live =>
       \/ MarkSession \/ StartSession
       \/ \E c \in Clients : Reject(c) \/ ReadLoop(c) \/ Message(c) \/ Leave(c)
  /\ spc' # spc => StartSession \/ \E c \in Clients : OfSession(c)
  /\ aim' # aim => \E c \in Clients : Reject(c) \/ HangUpOn(c) \/ RelayTo(c) \/ SendTo(c)
  /\ idx' # idx => \E c \in Clients : HandleMessage(c) \/ RelayTo(c) \/ SendTo(c)
  /\ client' # client => AcceptClient \/ \E c \in Clients : Leave(c)
  /\ late' # late => PushSession

\* What main() changes.
LEMMA MainChanges ==
  ASSUME MainStep
  PROVE  Changes
<1>1. CASE ParseOption
  BY <1>1 DEF Changes, ParseOption, serverVars, acceptVars, sessionVars, clientVars
<1>2. CASE Configured
  BY <1>2 DEF Changes, Configured, serverVars, acceptVars, sessionVars, clientVars
<1>3. CASE SetRunning
  BY <1>3 DEF Changes, SetRunning, acceptVars, sessionVars, clientVars
<1>4. CASE SpawnAccept
  BY <1>4 DEF Changes, SpawnAccept, serverVars, sessionVars, clientVars
<1>5. CASE SpawnPrune
  BY <1>5 DEF Changes, SpawnPrune, serverVars, acceptVars, sessionVars, clientVars
<1>6. CASE AwaitListening
  BY <1>6 DEF Changes, AwaitListening, serverVars, acceptVars, sessionVars, clientVars
<1>7. CASE PollRunning
  BY <1>7 DEF Changes, PollRunning, serverVars, acceptVars, sessionVars, clientVars
<1>8. CASE Destroy
  BY <1>8 DEF Changes, Destroy, serverVars, acceptVars, sessionVars, clientVars
<1>9. CASE Exit
  BY <1>9 DEF Changes, Exit, serverVars, acceptVars, sessionVars, clientVars
<1> QED BY <1>1, <1>2, <1>3, <1>4, <1>5, <1>6, <1>7, <1>8, <1>9 DEF MainStep

\* What a signal changes.
LEMMA SignalChanges ==
  ASSUME Signal
  PROVE  Changes
BY DEF Changes, Signal, serverVars, acceptVars, sessionVars, clientVars

\* What stop() changes.
LEMMA StopChanges ==
  ASSUME StopStep
  PROVE  Changes
<1>1. CASE PrintStats
  BY <1>1 DEF Changes, PrintStats, mainVars, serverVars, acceptVars, sessionVars, clientVars
<1>2. CASE ClearRunning
  BY <1>2 DEF Changes, ClearRunning, mainVars, acceptVars, sessionVars, clientVars
<1>3. CASE TakeListener
  BY <1>3 DEF Changes, TakeListener, mainVars, acceptVars, sessionVars, clientVars
<1>4. CASE ShutListener
  BY <1>4 DEF Changes, ShutListener, mainVars, acceptVars, sessionVars, clientVars
<1>5. CASE MarkSession
  BY <1>5 DEF Changes, MarkSession, mainVars, serverVars, acceptVars, clientVars
<1>6. CASE CloseSession
  BY <1>6 DEF Changes, CloseSession, mainVars, serverVars, acceptVars, sessionVars, clientVars
<1>7. CASE JoinSession
  BY <1>7 DEF Changes, JoinSession, mainVars, serverVars, acceptVars, sessionVars,
     clientVars
<1>8. CASE ClearSessions
  BY <1>8 DEF Changes, ClearSessions, mainVars, serverVars, acceptVars, sessionVars,
     clientVars
<1>9. CASE JoinAccept
  BY <1>9 DEF Changes, JoinAccept, mainVars, serverVars, acceptVars, sessionVars, clientVars
<1>10. CASE JoinPrune
  BY <1>10 DEF Changes, JoinPrune, mainVars, serverVars, acceptVars, sessionVars, clientVars
<1>11. CASE LockStorage
  BY <1>11 DEF Changes, LockStorage, mainVars, serverVars, acceptVars, sessionVars, clientVars
<1>12. CASE ForgetSession
  BY <1>12 DEF Changes, ForgetSession, mainVars, serverVars, acceptVars, clientVars
<1> QED BY <1>1, <1>2, <1>3, <1>4, <1>5, <1>6, <1>7, <1>8, <1>9, <1>10, <1>11, <1>12
   DEF StopStep

\* What the accept thread changes.
LEMMA AcceptChanges ==
  ASSUME AcceptStep \/ AcceptClient
  PROVE  Changes
<1>1. CASE OpenSocket
  BY <1>1 DEF Changes, OpenSocket, mainVars, serverVars, sessionVars, clientVars
<1>2. CASE PublishListener
  BY <1>2 DEF Changes, PublishListener, mainVars, sessionVars, clientVars
<1>3. CASE Listen
  BY <1>3 DEF Changes, Listen, mainVars, sessionVars, clientVars
<1>4. CASE CannotListen
  BY <1>4 DEF Changes, CannotListen, mainVars, sessionVars, clientVars
<1>5. CASE AcceptLoop
  BY <1>5 DEF Changes, AcceptLoop, mainVars, serverVars, sessionVars, clientVars
<1>6. CASE AcceptClient
  BY <1>6 DEF Changes, AcceptClient, mainVars, serverVars
<1>7. CASE AcceptFails
  BY <1>7 DEF Changes, AcceptFails, mainVars, serverVars, sessionVars, clientVars
<1>8. CASE PushSession
  BY <1>8 DEF Changes, PushSession, mainVars, serverVars, sessionVars, clientVars
<1>9. CASE StartSession
  BY <1>9 DEF Changes, StartSession, mainVars, serverVars, clientVars
<1>10. CASE EraseEnded
  BY <1>10 DEF Changes, EraseEnded, mainVars, serverVars, sessionVars, clientVars
<1>11. CASE CloseListener
  BY <1>11 DEF Changes, CloseListener, mainVars, serverVars, sessionVars, clientVars
<1> QED BY <1>1, <1>2, <1>3, <1>4, <1>5, <1>6, <1>7, <1>8, <1>9, <1>10, <1>11 DEF AcceptStep

\* What the prune thread changes.
LEMMA PruneChanges ==
  ASSUME Prune
  PROVE  Changes
<1>1. CASE PruneWaits
  BY <1>1 DEF Changes, PruneWaits, mainVars, serverVars, acceptVars, sessionVars, clientVars
<1>2. CASE PruneEnds
  BY <1>2 DEF Changes, PruneEnds, mainVars, serverVars, acceptVars, sessionVars, clientVars
<1>3. CASE PruneSleeps
  BY <1>3 DEF Changes, PruneSleeps, mainVars, serverVars, acceptVars, sessionVars,
     clientVars
<1> QED BY <1>1, <1>2, <1>3 DEF Prune

\* What a session changes.
LEMMA SessionChanges ==
  ASSUME NEW c \in Clients, OfSession(c)
  PROVE  Changes
<1>1. CASE EnterHandshake(c)
  BY <1>1 DEF Changes, EnterHandshake, mainVars, serverVars, acceptVars, clientVars,
     Elsewhere
<1>2. CASE Request(c)
  BY <1>2 DEF Changes, Request, mainVars, serverVars, acceptVars, Elsewhere
<1>3. CASE Reject(c)
  BY <1>3 DEF Changes, Reject, mainVars, serverVars, acceptVars, clientVars, Elsewhere
<1>4. CASE HangUpOn(c)
  BY <1>4 DEF Changes, HangUpOn, mainVars, serverVars, acceptVars, clientVars, Elsewhere
<1>5. CASE ReadLoop(c)
  BY <1>5 DEF Changes, ReadLoop, mainVars, serverVars, acceptVars, clientVars, Elsewhere
<1>6. CASE Message(c)
  BY <1>6 DEF Changes, Message, mainVars, serverVars, acceptVars, Elsewhere
<1>7. CASE Leave(c)
  BY <1>7 DEF Changes, Leave, mainVars, serverVars, acceptVars, Elsewhere
<1>8. CASE HandleMessage(c)
  BY <1>8 DEF Changes, HandleMessage, mainVars, serverVars, acceptVars, clientVars,
     Elsewhere
<1>9. CASE StreamEnds(c)
  BY <1>9 DEF Changes, StreamEnds, mainVars, serverVars, acceptVars, clientVars, Elsewhere
<1>10. CASE RelayTo(c)
  BY <1>10 DEF Changes, RelayTo, mainVars, serverVars, acceptVars, clientVars, Elsewhere
<1>11. CASE SendTo(c)
  BY <1>11 DEF Changes, SendTo, mainVars, serverVars, acceptVars, clientVars, Elsewhere
<1>12. CASE ForgetFd(c)
  BY <1>12 DEF Changes, ForgetFd, mainVars, serverVars, acceptVars, clientVars, Elsewhere
<1> QED BY <1>1, <1>2, <1>3, <1>4, <1>5, <1>6, <1>7, <1>8, <1>9, <1>10, <1>11, <1>12
   DEF OfSession, SessionStep, SendingStep

\* What any step changes.
LEMMA StepChanges ==
  ASSUME Next
  PROVE  Changes
BY MainChanges, SignalChanges, StopChanges, AcceptChanges, PruneChanges, SessionChanges
   DEF Next, OfSession

\* The relay never opens again: who has stopped, been shut or got a client stays so.
ServerOnward ==
  /\ Sealed => Sealed'
  /\ (~running /\ (apc # "unborn" \/ frames # <<>>)) => ~running'
  /\ apc \notin {"unborn", "socket"} => apc' \notin {"unborn", "socket"}
  /\ shut => shut'
  /\ apc' = "accept" => apc = "accept" \/ running
  /\ apc = "done" => apc' = "done"
  /\ \A n \in Fds : Taken(n) => Taken(n)'
SessionOnward(c) ==
  /\ ~Away(c) => ~Away(c)'
  /\ (~Away(c) /\ fd[c] = 0) => fd'[c] = 0
  /\ Quiet(c) => Quiet(c)'
  /\ Past(spc[c]) => Past(spc'[c])
  /\ spc[c] \in {"forget", "done"} => spc'[c] \in {"forget", "done"}
  /\ c \in late => c \in late'

\* A number that is closed is free, and the others stay as they are.
LEMMA FreedIs ==
  ASSUME TableType, NEW m \in MaybeFd, table' = Freed(m), NEW n \in Fds
  PROVE  table'[n] = IF n = m THEN "free" ELSE table[n]
BY Ranges DEF Freed, TableType, MaybeFd

\* What goes on from the server's flags and the accept thread.
LEMMA ServerOnwards ==
  ASSUME IInv, Next
  PROVE  ServerOnward
<1>1. (~running /\ (apc # "unborn" \/ frames # <<>>)) => ~running'
  <2>1. SetRunning => apc = "unborn" /\ frames = <<>>
    BY DEF SetRunning, MainAt, IInv, Inv, ThreadInv, MainPlace
  <2>2. ClearRunning \/ CannotListen => ~running'
    BY DEF ClearRunning, CannotListen
  <2> QED BY <2>1, <2>2, StepChanges DEF Changes
<1>2. shut => shut'
  <2>1. ShutListener /\ shut => shut'
    BY DEF ShutListener
  <2> QED BY <2>1, StepChanges DEF Changes
<1>3. /\ apc \notin {"unborn", "socket"} => apc' \notin {"unborn", "socket"}
      /\ apc' = "accept" => apc = "accept" \/ running
      /\ apc = "done" => apc' = "done"
      /\ apc \in Serving /\ apc' # apc => apc' \in Serving \/ CannotListen \/ CloseListener
  <2>1. SpawnAccept => apc = "unborn" /\ apc' = "socket"
    BY DEF SpawnAccept, MainAt, IInv, Inv, ThreadInv, MainPlace
  <2>2. CASE AcceptStep \/ AcceptClient
    BY <2>2 DEF AcceptStep, OpenSocket, PublishListener, Listen, CannotListen, AcceptLoop,
       AcceptFails, PushSession, StartSession, EraseEnded, CloseListener, AcceptClient,
       AcceptAt, Serving
  <2> QED BY <2>1, <2>2, StepChanges DEF Changes, Serving
<1>4. ASSUME NEW n \in Fds, Taken(n)
      PROVE  Taken(n)'
  <2>1. CASE apc = "done" /\ table[n] = "free"
    <3>1. ~OpenSocket /\ ~CannotListen /\ ~AcceptClient /\ ~CloseListener
      BY <2>1 DEF OpenSocket, CannotListen, AcceptClient, CloseListener, AcceptAt
    <3>2. table'[n] = "free"
      <4>1. ASSUME CloseSession PROVE table'[n] = "free"
        <5>1. PICK m : table' = Freed(m)
          BY <4>1 DEF CloseSession, Freed
        <5> QED BY <2>1, <5>1 DEF Freed, IInv, Types, TableType
      <4>2. ASSUME NEW c \in Clients, HangUpOn(c) PROVE table'[n] = "free"
        <5>1. PICK m : table' = Freed(m)
          BY <4>2 DEF HangUpOn, Freed
        <5> QED BY <2>1, <5>1 DEF Freed, IInv, Types, TableType
      <4> QED BY <2>1, <3>1, <4>1, <4>2, StepChanges DEF Changes
    <3> QED BY <1>3, <2>1, <3>2 DEF Taken
  <2>2. CASE n = serverFd /\ apc \in Serving
    <3>1. CASE CannotListen \/ CloseListener
      <4>1. serverFd \in MaybeFd /\ table' = Freed(serverFd) /\ apc' = "done"
        BY <3>1 DEF CannotListen, CloseListener, IInv, Types, AcceptType
      <4> QED BY <2>2, <4>1, FreedIs DEF IInv, Types, Taken
    <3>2. CASE ~CannotListen /\ ~CloseListener
      <4>1. ~OpenSocket
        BY <2>2 DEF OpenSocket, AcceptAt, Serving
      <4> QED BY <1>3, <2>2, <3>2, <4>1, StepChanges DEF Changes, Taken
    <3> QED BY <3>1, <3>2
  <2> QED BY <1>4, <2>1, <2>2 DEF Taken
<1>5. Sealed => Sealed'
  BY <1>1, <1>2, <1>3 DEF Sealed
<1> QED BY <1>1, <1>2, <1>3, <1>4, <1>5 DEF ServerOnward

\* What goes on from a session.
LEMMA SessionOnwards ==
  ASSUME IInv, Next, NEW c \in Clients
  PROVE  SessionOnward(c)
<1> USE DEF IInv, Types, SessionType, PeerType
<1>1. ~Away(c) => ~Away(c)'
  <2>1. ASSUME NEW d \in Clients, Leave(d) PROVE ~Away(c) => ~Away(c)'
    BY <2>1 DEF Leave, Away
  <2>2. AcceptClient => (~Away(c) => ~Away(c)')
    BY DEF AcceptClient, Away
  <2> QED BY <2>1, <2>2, StepChanges DEF Changes, Away
<1>2. (~Away(c) /\ fd[c] = 0) => fd'[c] = 0
  <2>1. ASSUME NEW d \in Clients, ForgetFd(d) PROVE fd[c] = 0 => fd'[c] = 0
    BY <2>1 DEF ForgetFd
  <2>2. AcceptClient => (~Away(c) => fd'[c] = fd[c])
    BY DEF AcceptClient, Away
  <2>3. ForgetSession => (fd[c] = 0 => fd'[c] = 0)
    BY DEF ForgetSession
  <2> QED BY <2>1, <2>2, <2>3, StepChanges DEF Changes
<1> DEFINE On ==
             /\ Past(spc[c]) => Past(spc'[c])
             /\ spc[c] \in {"forget", "done"} => spc'[c] \in {"forget", "done"}
             /\ spc[c] \in {"reject", "hangup"} =>
                  spc'[c] \in {"reject", "hangup", "forget", "done"}
             /\ (spc[c] \in {"unborn", "handshake"} /\ fd[c] = 0 /\ ~Away(c)) =>
                  spc'[c] \in {"unborn", "handshake", "reject"}
<1>3. On
  <2>1. ASSUME StartSession PROVE On
    <3>1. /\ newest \in Clients /\ spc[newest] = "unborn"
          /\ spc' = [spc EXCEPT ![newest] = "handshake"]
      BY <2>1 DEF StartSession, AcceptAt, Inv, ThreadInv, AcceptPlace
    <3> QED BY <3>1 DEF Past
  <2>2. ASSUME NEW d \in Clients, OfSession(d) PROVE On
    <3>1. CASE d # c
      <4>1. spc'[c] = spc[c]
        BY <2>2, <3>1 DEF OfSession, SessionStep, SendingStep, EnterHandshake, Request,
           Reject, HangUpOn, ForgetFd, ReadLoop, Message, Leave, HandleMessage, StreamEnds, RelayTo,
           SendTo, SessionGoto, Finish
      <4> QED BY <4>1
    <3>2. CASE d = c
      BY <2>2 DEF Past, OfSession, SessionStep, SendingStep, EnterHandshake, Request,
         Reject, HangUpOn, ForgetFd, ReadLoop, Message, Leave, HandleMessage, StreamEnds, RelayTo,
         SendTo, SessionGoto, SessionAt, Finish
    <3> QED BY <3>1, <3>2
  <2> QED BY <2>1, <2>2, StepChanges DEF Changes
<1>4. late \subseteq late'
  BY StepChanges DEF Changes, PushSession
<1>5. Quiet(c) => Quiet(c)'
  BY <1>1, <1>2, <1>3 DEF Quiet
<1> QED BY <1>1, <1>2, <1>3, <1>4, <1>5 DEF SessionOnward

-------------------------------------------------------------------------------
(* Who is where.                                                             *)

\* A step of a session's thread is one of a session that has started.
LEMMA SessionMoves ==
  ASSUME IInv, NEW c \in Clients, OfSession(c)
  PROVE  /\ spc[c] # "unborn" /\ ~Away(c)
         /\ spc'[c] # "unborn" /\ \A d \in Clients \ {c} : spc'[d] = spc[d]
         /\ idx'[c] = idx[c] \/ HandleMessage(c) \/ RelayTo(c) \/ SendTo(c)
         /\ \A d \in Clients \ {c} : idx'[d] = idx[d] /\ live'[d] = live[d] /\ fd'[d] = fd[d]
                                     /\ aim'[d] = aim[d] /\ client'[d] = client[d]
<1> USE DEF OfSession, SessionStep, SendingStep, EnterHandshake, Request, Reject, HangUpOn,
         ForgetFd, ReadLoop, Message, Leave, HandleMessage, StreamEnds, RelayTo, SendTo,
         SessionGoto, SessionAt, Finish, sessionVars, clientVars, Speaks
<1>1. spc[c] # "unborn"
  OBVIOUS
<1>2. ~Away(c)
  BY <1>1 DEF IInv, Inv, ThreadInv, SessionPlace
<1>3. spc'[c] # "unborn" /\ \A d \in Clients \ {c} : spc'[d] = spc[d]
  BY DEF IInv, Types, SessionType
<1>4. \A d \in Clients \ {c} : idx'[d] = idx[d] /\ live'[d] = live[d] /\ fd'[d] = fd[d]
  BY DEF IInv, Types, SessionType
<1>5. \A d \in Clients \ {c} : aim'[d] = aim[d] /\ client'[d] = client[d]
  BY DEF IInv, Types, SessionType, PeerType
<1>6. idx'[c] = idx[c] \/ HandleMessage(c) \/ RelayTo(c) \/ SendTo(c)
  OBVIOUS
<1> QED BY <1>1, <1>2, <1>3, <1>4, <1>5, <1>6

\* Main's place.
LEMMA MainPlaces ==
  ASSUME IInv, Next
  PROVE  MainPlace'
<1> USE DEF MainPlace
<1>0. MainPlace /\ mpc \in MainAts
  BY DEF IInv, Inv, ThreadInv, Types, MainType
<1>1. CASE MainStep
  <2> USE DEF MainAt, acceptVars
  <2>1. CASE ParseOption \/ Configured \/ SetRunning
    BY <1>0, <2>1 DEF ParseOption, Configured, SetRunning
  <2>2. CASE SpawnAccept
    BY <1>0, <2>2 DEF SpawnAccept
  <2>3. CASE SpawnPrune
    <3>1. apc # "unborn"
      BY <1>0, <2>3 DEF SpawnPrune
    <3> QED BY <1>0, <2>3, <3>1 DEF SpawnPrune
  <2>4. CASE AwaitListening
    BY <1>0, <2>4 DEF AwaitListening
  <2>5. CASE PollRunning \/ Destroy \/ Exit
    BY <1>0, <2>5 DEF PollRunning, Destroy, Exit
  <2> QED BY <1>1, <2>1, <2>2, <2>3, <2>4, <2>5 DEF MainStep
<1>2. CASE Signal
  BY <1>0, <1>2 DEF Signal, acceptVars
<1>3. CASE StopStep
  <2>1. UNCHANGED <<mpc, apc, ppc>> /\ frames # <<>>
    BY <1>3 DEF StopStep, LockStorage, PrintStats, ClearRunning, TakeListener, ShutListener,
       MarkSession, CloseSession, ForgetSession, JoinSession, ClearSessions, JoinAccept,
       JoinPrune, StopAt, mainVars, acceptVars
  <2> QED BY <1>0, <2>1
<1>4. CASE AcceptStep \/ AcceptClient
  <2>1. UNCHANGED <<mpc, frames, ppc>> /\ apc # "unborn" /\ apc' # "unborn"
    BY <1>4 DEF AcceptStep, OpenSocket, PublishListener, Listen, CannotListen, AcceptLoop,
       AcceptFails, PushSession, StartSession, EraseEnded, CloseListener, AcceptClient,
       AcceptAt, mainVars
  <2> QED BY <1>0, <2>1
<1>5. CASE Prune
  <2>1. UNCHANGED <<mpc, frames, apc>> /\ ppc # "unborn" /\ ppc' # "unborn"
    BY <1>5 DEF Prune, PruneWaits, PruneEnds, PruneSleeps, mainVars, acceptVars
  <2> QED BY <1>0, <2>1
<1>6. ASSUME NEW c \in Clients, OfSession(c)
      PROVE  MainPlace'
  <2>1. UNCHANGED <<mpc, frames, apc, ppc>>
    BY <1>6 DEF OfSession, SessionStep, SendingStep, EnterHandshake, Request, Reject,
       HangUpOn, ForgetFd, ReadLoop, Message, Leave, HandleMessage, StreamEnds, RelayTo, SendTo,
       Elsewhere, mainVars, acceptVars
  <2> QED BY <1>0, <2>1
<1> QED BY <1>1, <1>2, <1>3, <1>4, <1>5, <1>6 DEF Next, OfSession

\* The accept thread's place.
LEMMA AcceptPlaces ==
  ASSUME IInv, Next
  PROVE  AcceptPlace'
<1> USE DEF AcceptPlace
<1>0. AcceptPlace /\ Types
  BY DEF IInv, Inv, ThreadInv
<1>1. CASE MainStep \/ Signal \/ Prune
  <2>1. UNCHANGED <<serverFd, newest, client, spc, sessions>>
    BY <1>1 DEF MainStep, ParseOption, Configured, SetRunning, SpawnAccept, SpawnPrune,
       AwaitListening, PollRunning, Destroy, Exit, Signal, Prune, PruneWaits, PruneEnds,
       PruneSleeps, acceptVars, sessionVars, clientVars
  <2>2. apc' = apc \/ (apc = "unborn" /\ apc' = "socket")
    <3>1. SpawnAccept => apc = "unborn" /\ apc' = "socket"
      BY DEF SpawnAccept, MainAt, IInv, Inv, ThreadInv, MainPlace
    <3> QED BY <1>1, <3>1 DEF MainStep, ParseOption, Configured, SetRunning, SpawnPrune,
       AwaitListening, PollRunning, Destroy, Exit, Signal, Prune, PruneWaits, PruneEnds,
       PruneSleeps, acceptVars
  <2> QED BY <1>0, <2>1, <2>2 DEF Away
<1>2. CASE StopStep
  <2>1. /\ UNCHANGED <<apc, serverFd, newest, client, spc>>
        /\ sessions' = sessions \/ sessions' = <<>>
    BY <1>2 DEF StopStep, LockStorage, PrintStats, ClearRunning, TakeListener, ShutListener,
       MarkSession, CloseSession, ForgetSession, JoinSession, ClearSessions, JoinAccept,
       JoinPrune, sessionVars, acceptVars, clientVars
  <2> QED BY <1>0, <2>1 DEF Away
<1>3. ASSUME NEW c \in Clients, OfSession(c)
      PROVE  AcceptPlace'
  <2>1. UNCHANGED <<apc, serverFd, newest, sessions>>
    BY <1>3 DEF OfSession, SessionStep, SendingStep, EnterHandshake, Request, Reject,
       HangUpOn, ForgetFd, ReadLoop, Message, Leave, HandleMessage, StreamEnds, RelayTo, SendTo,
       Elsewhere, acceptVars
  <2>2. ~Away(c)' /\ ~Away(c) /\ \A d \in Clients \ {c} : Away(d)' = Away(d) /\ spc'[d] = spc[d]
    BY <1>3, SessionMoves, SessionOnwards DEF SessionOnward, Away
  <2>3. spc[c] # "unborn"
    BY <1>3, SessionMoves
  <2> QED BY <1>0, <2>1, <2>2, <2>3
<1>4. CASE AcceptStep \/ AcceptClient
  <2> USE DEF AcceptAt, Away
  <2>1. CASE OpenSocket
    BY <1>0, <2>1, FreeIs DEF OpenSocket, sessionVars, clientVars
  <2>2. CASE PublishListener \/ Listen \/ CannotListen \/ AcceptLoop \/ AcceptFails
    BY <1>0, <2>2 DEF PublishListener, Listen, CannotListen, AcceptLoop, AcceptFails,
       clientVars
  <2>3. CASE AcceptClient
    <3>1. PICK c \in Clients :
            client[c] = "away" /\ client' = [client EXCEPT ![c] = "up"] /\ newest' = c
      BY <2>3 DEF AcceptClient
    <3>2. client'[c] = "up" /\ spc[c] = "unborn"
      BY <3>1 DEF IInv, Inv, ThreadInv, SessionPlace, Types, PeerType
    <3>3. apc = "accept" /\ apc' = "push" /\ serverFd' = serverFd /\ spc' = spc
      BY <2>3 DEF AcceptClient
    <3> QED BY <1>0, <3>1, <3>2, <3>3
  <2>4. CASE PushSession \/ EraseEnded \/ CloseListener
    BY <1>0, <2>4 DEF PushSession, EraseEnded, CloseListener, sessionVars, clientVars
  <2>5. CASE StartSession
    BY <1>0, <2>5 DEF StartSession, clientVars
  <2> QED BY <1>4, <2>1, <2>2, <2>3, <2>4, <2>5 DEF AcceptStep
<1> QED BY <1>1, <1>2, <1>3, <1>4 DEF Next, OfSession

\* The place of a session.
LEMMA SessionPlaces ==
  ASSUME IInv, Next, NEW c \in Clients
  PROVE  SessionPlace(c)'
<1>0. SessionPlace(c) /\ Types /\ AcceptPlace
  BY DEF IInv, Inv, ThreadInv
<1>1. Away(c)' => c \notin Members(sessions') /\ fd'[c] = 0 /\ spc'[c] = "unborn"
  <2> SUFFICES ASSUME Away(c)' PROVE c \notin Members(sessions') /\ fd'[c] = 0 /\ spc'[c] = "unborn"
    OBVIOUS
  <2>1. Away(c) /\ fd[c] = 0 /\ spc[c] = "unborn" /\ c \notin Members(sessions)
    BY <1>0, SessionOnwards DEF SessionOnward, SessionPlace
  <2>2. c \notin Members(sessions')
    <3>1. ClearSessions => c \notin Members(sessions')
      BY DEF ClearSessions, Members
    <3>2. ASSUME PushSession PROVE c \notin Members(sessions')
      <4>1. newest \in Clients /\ newest # c /\ sessions' = Append(sessions, newest)
        BY <1>0, <2>1, <3>2 DEF PushSession, AcceptPlace, AcceptAt
      <4>2. Members(sessions') = Members(sessions) \cup {newest}
        BY <1>0, <4>1, MembersAppend DEF Types, ListType
      <4> QED BY <2>1, <4>1, <4>2
    <3>3. EraseEnded => c \notin Members(sessions')
      <4>1. sessions \in Seq(Clients) /\ live \in [Clients -> BOOLEAN]
        BY <1>0 DEF Types, ListType, SessionType
      <4>2. Members(Remaining(sessions, live)) = {d \in Members(sessions) : live[d]}
        BY <4>1, RemainingIs
      <4> QED BY <2>1, <4>2 DEF EraseEnded
    <3> QED BY <2>1, <3>1, <3>2, <3>3, StepChanges DEF Changes
  <2>3. fd'[c] = 0
    <3>1. ForgetSession => fd'[c] = 0
      BY <1>0, <2>1 DEF ForgetSession, Types, SessionType
    <3>2. AcceptClient => fd'[c] = 0
      <4>1. ASSUME AcceptClient
            PROVE  \E d \in Clients \ {c} : fd' = [fd EXCEPT ![d] = Lowest(FreeFds)]
        BY <1>0, <4>1, (Away(c))' DEF AcceptClient, Away, Types, PeerType
      <4> QED BY <1>0, <2>1, <4>1 DEF Types, SessionType
    <3>3. ASSUME NEW d \in Clients, ForgetFd(d) PROVE fd'[c] = 0
      BY <1>0, <2>1, <3>3 DEF ForgetFd, Types, SessionType
    <3> QED BY <2>1, <3>1, <3>2, <3>3, StepChanges DEF Changes
  <2>4. spc'[c] = "unborn"
    <3>1. StartSession => spc'[c] = "unborn"
      BY <1>0, <2>1 DEF StartSession, AcceptPlace, AcceptAt
    <3>2. ASSUME NEW d \in Clients, OfSession(d) PROVE spc'[c] = "unborn"
      BY <2>1, <3>2, SessionMoves
    <3> QED BY <2>1, <3>1, <3>2, StepChanges DEF Changes
  <2> QED BY <2>2, <2>3, <2>4
<1>2. (spc'[c] = "unborn" /\ ~Away(c)') => apc' \in {"push", "spawn"} /\ newest' = c
  <2> SUFFICES ASSUME spc'[c] = "unborn", ~Away(c)' PROVE apc' \in {"push", "spawn"} /\ newest' = c
    OBVIOUS
  <2>1. spc[c] = "unborn"
    <3>1. StartSession => spc[c] = "unborn"
      BY <1>0 DEF StartSession, Types, SessionType
    <3>2. ASSUME NEW d \in Clients, OfSession(d) PROVE spc[c] = "unborn"
      BY <3>2, SessionMoves
    <3> QED BY <3>1, <3>2, StepChanges DEF Changes
  <2>2. CASE Away(c)
    <3>1. AcceptClient
      <4>1. ASSUME NEW d \in Clients, Leave(d) PROVE FALSE
        BY <2>2, <4>1 DEF Leave, Away
      <4> QED BY <2>2, <4>1, StepChanges DEF Changes, Away
    <3> QED BY <2>2, <3>1 DEF AcceptClient, Away
  <2>3. CASE ~Away(c)
    <3>1. apc \in {"push", "spawn"} /\ newest = c
      BY <1>0, <2>1, <2>3 DEF SessionPlace
    <3>2. ~StartSession
      BY <1>0, <3>1 DEF StartSession, Types, SessionType
    <3>3. newest' = newest
      BY <3>1, StepChanges DEF Changes, AcceptClient, EraseEnded, AcceptAt
    <3>4. apc' \in {"push", "spawn"}
      <4>1. AcceptStep \/ AcceptClient => apc' \in {"push", "spawn"}
        BY <3>1, <3>2 DEF AcceptStep, OpenSocket, PublishListener, Listen, CannotListen,
           AcceptLoop, AcceptFails, PushSession, EraseEnded, CloseListener, AcceptClient,
           AcceptAt
      <4>2. ~SpawnAccept
        BY <3>1 DEF SpawnAccept, MainAt, IInv, Inv, ThreadInv, MainPlace
      <4> QED BY <3>1, <4>1, <4>2, StepChanges DEF Changes
    <3> QED BY <3>1, <3>3, <3>4
  <2> QED BY <2>2, <2>3
<1>3. spc'[c] \in {"cast", "send"} => idx'[c] > 0
  <2>1. StartSession => (spc'[c] \in {"cast", "send"} => spc[c] = spc'[c])
    BY <1>0 DEF StartSession, Types, SessionType
  <2>2. ASSUME NEW d \in Clients, OfSession(d) PROVE spc'[c] \in {"cast", "send"} => idx'[c] > 0
    <3>1. CASE d # c
      BY <1>0, <2>2, <3>1, SessionMoves DEF SessionPlace
    <3>2. CASE d = c
      BY <1>0, <2>2 DEF SessionPlace, Types, SessionType, OfSession, SessionStep,
         SendingStep, EnterHandshake, Request, Reject, HangUpOn, ForgetFd, ReadLoop, Message, Leave,
         HandleMessage, StreamEnds, RelayTo, SendTo, SessionGoto, SessionAt, Finish
    <3> QED BY <3>1, <3>2
  <2>3. ASSUME ~\E d \in Clients : OfSession(d) PROVE idx' = idx
    BY <2>3, StepChanges DEF Changes, OfSession, SessionStep, SendingStep
  <2> QED BY <1>0, <2>1, <2>2, <2>3, StepChanges DEF Changes, SessionPlace
<1>4. spc'[c] \in {"hangup", "forget"} => ~live'[c]
  <2> SUFFICES ASSUME spc'[c] \in {"hangup", "forget"} PROVE ~live'[c]
    OBVIOUS
  <2>1. StartSession => spc[c] \in {"hangup", "forget"} /\ newest # c
    BY <1>0 DEF StartSession, AcceptPlace, AcceptAt, Types, SessionType
  <2>2. ASSUME NEW d \in Clients, OfSession(d) PROVE ~live'[c]
    <3>1. CASE d # c
      BY <1>0, <2>2, <3>1, SessionMoves DEF SessionPlace
    <3>2. CASE d = c
      <4>1. CASE Reject(c) \/ Leave(c)
        BY <1>0, <4>1 DEF Reject, Leave, SessionGoto, Finish, Types, SessionType
      <4>2. CASE HangUpOn(c) \/ ForgetFd(c)
        BY <1>0, <4>2 DEF HangUpOn, ForgetFd, SessionAt, SessionPlace
      <4>3. CASE HandleMessage(c) \/ RelayTo(c) \/ SendingStep(c)
        BY <1>0, <4>3 DEF SendingStep, HandleMessage, StreamEnds, RelayTo, SendTo, SessionGoto,
           SessionAt, Types, SessionType
      <4>4. CASE EnterHandshake(c) \/ Request(c) \/ ReadLoop(c) \/ Message(c)
        BY <1>0, <4>4 DEF EnterHandshake, Request, ReadLoop, Message, SessionGoto, Finish,
           Types, SessionType
      <4>5. OfSession(c)
        BY <2>2, <3>2
      <4> QED BY <4>1, <4>2, <4>3, <4>4, <4>5 DEF OfSession, SessionStep
    <3> QED BY <3>1, <3>2
  <2>3. ASSUME ~\E d \in Clients : OfSession(d) PROVE ~live'[c]
    <3>1. spc[c] \in {"hangup", "forget"} /\ ~live[c]
      BY <1>0, <2>1, <2>3, StepChanges DEF Changes, SessionPlace
    <3>2. MarkSession => ~live'[c]
      BY <1>0, <3>1 DEF MarkSession, Types, SessionType
    <3>3. StartSession => ~live'[c]
      BY <1>0, <2>1, <3>1 DEF StartSession, Types, SessionType
    <3> QED BY <2>3, <3>1, <3>2, <3>3, StepChanges DEF Changes, OfSession, SessionStep
  <2> QED BY <2>2, <2>3
<1> QED BY <1>1, <1>2, <1>3, <1>4 DEF SessionPlace

-------------------------------------------------------------------------------
(* How the stack moves.                                                      *)

\* A step touches the call on top alone, or adds one.
LEMMA StackMoves ==
  ASSUME IInv, Next
  PROVE  /\ \A j \in DOMAIN frames : Cut(j)' <=> Cut(j)
         /\ \A j \in DOMAIN frames \ {Len(frames)} : j \in DOMAIN frames' /\ frames'[j] = frames[j]
         /\ ~StopStep => \A j \in DOMAIN frames : j \in DOMAIN frames' /\ frames'[j] = frames[j]
         /\ \A j \in DOMAIN frames' \ DOMAIN frames :
              /\ frames'[j].at \in {"stats", "flag"} /\ frames'[j].fd = 0
              /\ frames'[j].seen = <<>> /\ frames'[j].i = 1
         /\ DOMAIN frames' # {} => frames' # <<>>
<1>0. StackType /\ Len(frames) \in Nat /\ DOMAIN frames = 1..Len(frames)
  BY StackShape DEF IInv, Types
<1> DEFINE n == Len(frames)
           Above(j) == /\ frames'[j].at \in {"stats", "flag"} /\ frames'[j].fd = 0
                       /\ frames'[j].seen = <<>> /\ frames'[j].i = 1
<1>1. \/ frames' = frames
      \/ \E label \in {"stats", "flag"} : Call(label)
      \/ StopStep
  <2>1. MainStep => frames' = frames \/ Call("flag")
    BY DEF MainStep, ParseOption, Configured, SetRunning, SpawnAccept, SpawnPrune,
       AwaitListening, PollRunning, Destroy, Exit
  <2>2. Signal => Call("stats")
    BY DEF Signal
  <2> QED BY <2>1, <2>2, StepChanges DEF Changes
<1>2. ASSUME NEW label \in {"stats", "flag"}, Call(label)
      PROVE  /\ \A j \in 1..n : j \in DOMAIN frames' /\ frames'[j] = frames[j]
             /\ \A j \in DOMAIN frames' \ DOMAIN frames : Above(j)
  <2>1. DOMAIN frames' = 1..(n + 1) /\ \A j \in 1..n : frames'[j] = frames[j]
    BY <1>0, <1>2, CallIs
  <2>2. frames'[n + 1] = [at |-> label, fd |-> 0, seen |-> <<>>, i |-> 1]
    BY <1>0, <1>2, CallIs
  <2>3. Above(n + 1)
    BY <2>2
  <2>4. DOMAIN frames' \ DOMAIN frames = {n + 1}
    BY <1>0, <2>1
  <2> QED BY <1>0, <2>1, <2>3, <2>4
<1> DEFINE Lower == /\ \A j \in 1..(n - 1) : j \in DOMAIN frames' /\ frames'[j] = frames[j]
                    /\ DOMAIN frames' \subseteq DOMAIN frames
<1>3. ASSUME StopStep
      PROVE  Lower
  <2>1. CASE frames' = frames
    BY <1>0, <2>1
  <2>2. CASE JoinPrune /\ frames' # frames
    <3>1. frames # <<>> /\ frames' = Below
      BY <2>2 DEF JoinPrune, StopAt
    <3> QED BY <1>0, <3>1, PopIs
  <2>3. ASSUME NEW at, NEW m, NEW seen, NEW i, Becomes(at, m, seen, i)
        PROVE  Lower
    BY <2>3 DEF Becomes
  <2> HIDE DEF Lower
  <2>4. CASE StopStep /\ ~JoinPrune /\ frames' # frames
    <3>1. \E at, m, seen, i : Becomes(at, m, seen, i)
      BY <2>4, StopSteps DEF StopStep, IInv
    <3> QED BY <2>3, <3>1
  <2> QED BY <1>3, <2>1, <2>2, <2>4
<1>4. \A j \in DOMAIN frames \ {n} : j \in DOMAIN frames' /\ frames'[j] = frames[j]
  BY <1>0, <1>1, <1>2, <1>3
<1>5. \A j \in DOMAIN frames : Cut(j)' <=> Cut(j)
  <2>1. ASSUME NEW j \in DOMAIN frames PROVE Cut(j)' <=> Cut(j)
    <3>1. \A m \in 1..(j - 1) : frames'[m] = frames[m]
      BY <1>0, <1>4
    <3> QED BY <3>1, CutStays
  <2> QED BY <2>1
<1>6. ~StopStep => \A j \in DOMAIN frames : j \in DOMAIN frames' /\ frames'[j] = frames[j]
  BY <1>0, <1>1, <1>2
<1>7. \A j \in DOMAIN frames' \ DOMAIN frames : Above(j)
  BY <1>0, <1>1, <1>2, <1>3
<1>8. DOMAIN frames' # {} => frames' # <<>>
  OBVIOUS
<1> QED BY <1>4, <1>5, <1>6, <1>7, <1>8

\* A call that is to join a session still is, unless it has just joined that session's
\* thread, or found that it never started.
LEMMA JoinsStay ==
  ASSUME IInv, Next, NEW c \in Clients, NEW j \in DOMAIN frames, Joins(frames[j], c)
  PROVE  \/ j \in DOMAIN frames' /\ Joins(frames'[j], c)
         \/ spc[c] \in {"unborn", "done"} /\ Quiet(c)
<1>0. frames[j] \in Frames /\ frames # <<>> /\ Top \in Frames /\ DOMAIN frames = 1..Len(frames)
      /\ Len(frames) \in Nat
  BY StackShape DEF IInv, Types
<1>1. CASE ~StopStep \/ j # Len(frames) \/ frames' = frames
  BY <1>1, StackMoves
<1>2. CASE StopStep /\ j = Len(frames) /\ frames' # frames
  <2>1. Top = frames[j] /\ Joining(Top)
    BY <1>2 DEF Top, Joins
  <2>2. PICK k \in Top.i..Len(Top.seen) : Top.seen[k] = c
    BY <2>1 DEF Joins
  <2>3. MarkSession \/ CloseSession \/ ForgetSession \/ JoinSession
    BY <1>2, <2>1 DEF Joining, StopStep, LockStorage, PrintStats, ClearRunning, TakeListener,
       ShutListener, ClearSessions, JoinAccept, JoinPrune, StopAt
  <2>4. CASE MarkSession \/ CloseSession \/ ForgetSession
    <3>1. \E at \in {"close", "forget", "join"} : \E n : Becomes(at, n, Top.seen, Top.i)
      BY <2>4, StopSteps DEF IInv
    <3> QED BY <2>1, <3>1 DEF Becomes, Joins, Joining
  <2>5. CASE JoinSession
    <3>1. /\ Becomes(IF Top.i < Len(Top.seen) THEN "mark" ELSE "clear", 0, Top.seen, Top.i + 1)
          /\ spc[Current(Top)] \in {"unborn", "done"} /\ Top.at = "join"
      BY <1>2, <2>5, StopSteps DEF IInv, JoinSession, Current, StopAt
    <3>2. Top.i \in Nat /\ Len(Top.seen) \in Nat /\ DOMAIN Top.seen = 1..Len(Top.seen)
          /\ Top.i \in DOMAIN Top.seen
      BY <1>0, <3>1, FrameFields
    <3>3. CASE k = Top.i
      <4>1. spc[c] \in {"unborn", "done"} /\ fd[c] = 0 /\ ~Away(c)
        BY <2>1, <2>2, <3>1, <3>2, <3>3 DEF IInv, Inv, QuietInv, Sweep, Current
      <4> QED BY <4>1 DEF Quiet
    <3>4. CASE k # Top.i
      <4>1. Top.i < Len(Top.seen) /\ k \in (Top.i + 1)..Len(Top.seen)
        BY <2>2, <3>2, <3>4
      <4> QED BY <1>2, <2>2, <3>1, <4>1 DEF Becomes, Joins, Joining
    <3> QED BY <3>3, <3>4
  <2> QED BY <2>3, <2>4, <2>5
<1> QED BY <1>1, <1>2

\* The call on top, and what it makes of itself.
LEMMA TopIsLast ==
  ASSUME IInv, frames # <<>>
  PROVE  /\ Len(frames) \in DOMAIN frames /\ Top = frames[Len(frames)] /\ Top \in Frames
         /\ StopPlace(Len(frames)) /\ Sweep(Top)
BY StackShape DEF IInv, Types, Top, Inv, StopInv, QuietInv

\* A step that changes the call on top is one of stop().
LEMMA TopSteps ==
  ASSUME IInv, Next, NEW j \in DOMAIN frames', j \in DOMAIN frames, frames'[j] # frames[j]
  PROVE  /\ j = Len(frames) /\ frames # <<>> /\ StopStep /\ frames' # frames /\ ~JoinPrune
         /\ Top = frames[j]
<1>1. j = Len(frames) /\ StopStep /\ frames' # frames /\ frames # <<>>
  BY StackMoves, StackShape DEF IInv, Types
<1>2. ~JoinPrune
  BY <1>1, PopIs DEF JoinPrune, IInv, Types
<1> QED BY <1>1, <1>2 DEF Top

\* A session that is being closed or joined is still to be joined.
LEMMA CurrentIsPending ==
  ASSUME IInv, NEW j \in DOMAIN frames, Joining(frames[j])
  PROVE  /\ Current(frames[j]) \in Clients /\ ~Away(Current(frames[j]))
         /\ Joins(frames[j], Current(frames[j]))
<1>1. frames[j] \in Frames /\ Sweep(frames[j])
  BY StackShape DEF IInv, Types, Inv, QuietInv
<1>2. frames[j].i \in frames[j].i..Len(frames[j].seen) /\ frames[j].i \in DOMAIN frames[j].seen
  BY <1>1, FrameFields DEF Joining
<1> QED BY <1>1, <1>2, FrameFields DEF Joins, Current, Sweep

\* A call of stop() finds the sessions that it is to join in the vector.
LEMMA JoinsBegin ==
  ASSUME IInv, Next, NEW c \in Clients, Pending(c)'
  PROVE  Pending(c) \/ c \in Members(sessions)
<1>1. PICK j \in DOMAIN frames' : Joins(frames'[j], c)
  BY DEF Pending
<1>2. CASE j \notin DOMAIN frames
  BY <1>1, <1>2, StackMoves DEF Joins, Joining
<1>3. CASE j \in DOMAIN frames /\ frames'[j] = frames[j]
  BY <1>1, <1>3 DEF Pending
<1>4. CASE j \in DOMAIN frames /\ frames'[j] # frames[j]
  <2>1. /\ j = Len(frames) /\ frames # <<>> /\ StopStep /\ frames' # frames /\ ~JoinPrune
        /\ Top = frames[j] /\ Top \in Frames
    BY <1>4, TopSteps, TopIsLast
  <2>2. CASE ShutListener
    <3>1. frames'[j].seen = sessions /\ frames'[j].i = 1
      BY <2>1, <2>2, StopSteps DEF IInv, Becomes
    <3>2. PICK k \in 1..Len(sessions) : sessions[k] = c
      BY <1>1, <3>1 DEF Joins
    <3>3. k \in DOMAIN sessions
      BY DEF IInv, Types, ListType
    <3> QED BY <3>2, <3>3 DEF Members
  <2>3. CASE MarkSession \/ CloseSession \/ ForgetSession \/ JoinSession
    <3>1. /\ frames'[j].seen = Top.seen /\ frames'[j].i \in {Top.i, Top.i + 1}
          /\ Joining(Top)
      BY <2>1, <2>3, StopSteps DEF IInv, Becomes, Joining, MarkSession, CloseSession,
         ForgetSession, JoinSession, StopAt
    <3>2. Top.i \in Nat /\ Len(Top.seen) \in Nat
      BY <2>1, FrameFields
    <3>3. PICK k \in frames'[j].i..Len(Top.seen) : Top.seen[k] = c
      BY <1>1, <3>1 DEF Joins
    <3>4. k \in Top.i..Len(Top.seen)
      BY <3>1, <3>2
    <3>5. Joins(Top, c)
      BY <3>1, <3>3, <3>4 DEF Joins
    <3> QED BY <1>4, <2>1, <3>5 DEF Pending
  <2>4. CASE ~(ShutListener \/ MarkSession \/ CloseSession \/ ForgetSession \/ JoinSession)
    <3>1. frames'[j].at \in {"print", "flag", "exchange", "shut", "joinAccept", "joinPrune"}
      BY <2>1, <2>4, StopSteps DEF IInv, Becomes, StopStep
    <3> QED BY <1>1, <3>1 DEF Joins, Joining
  <2> QED BY <2>2, <2>3, <2>4
<1> QED BY <1>2, <1>3, <1>4

\* Only a new session joins the vector, and one that has ended does not stay in it.
LEMMA MembersBegin ==
  ASSUME IInv, Next, NEW c \in Clients, spc[c] # "unborn", c \in Members(sessions')
  PROVE  c \in Members(sessions) /\ (EraseEnded => live[c])
<1>0. sessions \in Seq(Clients) /\ live \in [Clients -> BOOLEAN]
  BY DEF IInv, Types, ListType, SessionType
<1>1. CASE PushSession
  <2>1. newest \in Clients /\ spc[newest] = "unborn" /\ sessions' = Append(sessions, newest)
        /\ apc # "erase"
    BY <1>1 DEF PushSession, AcceptAt, IInv, Inv, ThreadInv, AcceptPlace
  <2> QED BY <1>0, <2>1, MembersAppend DEF EraseEnded, AcceptAt
<1>2. CASE EraseEnded
  BY <1>0, <1>2, RemainingIs DEF EraseEnded
<1>3. ~ClearSessions
  BY DEF ClearSessions, Members
<1> QED BY <1>1, <1>2, <1>3, StepChanges DEF Changes

-------------------------------------------------------------------------------
(* Whose a descriptor is.                                                    *)

\* A stop() closes the number it has read, although it reads the session's again: that
\* one is still the same, or there is none any more.
LEMMA ClosesOne ==
  ASSUME IInv, CloseSession
  PROVE  table' = table \/ table' = Freed(Top.fd)
<1>1. /\ frames # <<>> /\ Len(frames) \in DOMAIN frames /\ Top = frames[Len(frames)]
      /\ Top.at = "close"
  BY StackShape DEF IInv, Types, Top, CloseSession, StopAt
<1>2. Agrees(Top.fd, Current(Top))
  BY <1>1 DEF IInv, Inv, FdInv, CloseOwned
<1>3. CASE Top.fd = 0
  BY <1>3 DEF CloseSession
<1>4. CASE Top.fd # 0
  <2>1. PICK m \in {Top.fd, fd[Current(Top)]} : table' = Freed(m)
    BY <1>4 DEF CloseSession, Current
  <2>2. CASE m = 0
    BY <2>1, <2>2 DEF Freed
  <2>3. CASE m # 0
    BY <1>2, <1>4, <2>1, <2>3 DEF Agrees
  <2> QED BY <2>2, <2>3
<1> QED BY <1>3, <1>4

\* So does a session that hangs up.
LEMMA HangsUpOne ==
  ASSUME IInv, NEW c \in Clients, HangUpOn(c)
  PROVE  table' = table \/ table' = Freed(aim[c].fd)
<1>1. Agrees(aim[c].fd, c)
  BY DEF IInv, Inv, FdInv, AimOwned, HangUpOn, SessionAt
<1>2. CASE aim[c].fd = 0
  BY <1>2 DEF HangUpOn
<1>3. CASE aim[c].fd # 0
  <2>1. PICK m \in {aim[c].fd, fd[c]} : table' = Freed(m)
    BY <1>3 DEF HangUpOn
  <2>2. CASE m = 0
    BY <2>1, <2>2 DEF Freed
  <2>3. CASE m # 0
    BY <1>1, <1>3, <2>1, <2>3 DEF Agrees
  <2> QED BY <2>2, <2>3
<1> QED BY <1>2, <1>3

\* Who closes a number, and who gets one.
LEMMA TableMoves ==
  ASSUME IInv, Next, NEW n \in Fds, table'[n] # table[n]
  PROVE  \/ /\ table'[n] = "free" /\ n = serverFd /\ table[n] = "listener"
            /\ CannotListen \/ CloseListener
         \/ table'[n] = "free" /\ CloseSession /\ Top.fd = n /\ Top.at = "close" /\ frames # <<>>
         \/ \E c \in Clients : /\ table'[n] = "free" /\ HangUpOn(c) /\ aim[c].fd = n
                               /\ spc[c] = "hangup"
         \/ table[n] = "free" /\ OpenSocket /\ table'[n] = "listener" /\ serverFd' = n
         \/ /\ table[n] = "free" /\ AcceptClient
            /\ table'[n] = newest' /\ newest' \in Clients /\ Away(newest')
<1>0. TableType /\ serverFd \in MaybeFd
  BY DEF IInv, Types, AcceptType
<1>1. CASE CannotListen \/ CloseListener
  <2>1. table' = Freed(serverFd) /\ apc # "unborn"
    BY <1>1 DEF CannotListen, CloseListener, AcceptAt
  <2>2. serverFd = n /\ table'[n] = "free"
    BY <1>0, <2>1, FreedIs
  <2>3. table[n] = "listener"
    BY <2>2, Ranges DEF IInv, Inv, FdInv, OwnServer
  <2> QED BY <1>1, <2>2, <2>3
<1>2. CASE CloseSession
  <2>1. frames # <<>> /\ Top.fd \in MaybeFd /\ Top.at = "close"
    BY <1>2, StackShape, FrameFields DEF CloseSession, StopAt, IInv, Types
  <2>2. table' = table \/ table' = Freed(Top.fd)
    BY <1>2, ClosesOne
  <2> QED BY <1>0, <1>2, <2>1, <2>2, FreedIs
<1>3. ASSUME NEW c \in Clients, HangUpOn(c)
      PROVE  table'[n] = "free" /\ aim[c].fd = n /\ spc[c] = "hangup"
  <2>1. aim[c].fd \in MaybeFd /\ spc[c] = "hangup"
    BY <1>3 DEF HangUpOn, SessionAt, IInv, Types, SessionType
  <2>2. table' = table \/ table' = Freed(aim[c].fd)
    BY <1>3, HangsUpOne
  <2> QED BY <1>0, <2>1, <2>2, FreedIs
<1>4. CASE OpenSocket
  <2>1. serverFd' = Lowest(FreeFds) /\ table' = [table EXCEPT ![Lowest(FreeFds)] = "listener"]
        /\ FreeFds # {}
    BY <1>4 DEF OpenSocket
  <2> QED BY <1>0, <1>4, <2>1, FreeIs DEF TableType
<1>5. CASE AcceptClient
  <2>1. PICK c \in Clients : /\ newest' = c /\ Away(c)
                             /\ table' = [table EXCEPT ![Lowest(FreeFds)] = c]
    BY <1>5 DEF AcceptClient, Away
  <2>2. FreeFds # {}
    BY <1>5 DEF AcceptClient
  <2> QED BY <1>0, <1>5, <2>1, <2>2, FreeIs DEF TableType
<1> QED BY <1>1, <1>2, <1>3, <1>4, <1>5, StepChanges DEF Changes

\* A session gets its number when it is accepted, and forgets it after it has been closed.
LEMMA FdMoves ==
  ASSUME IInv, Next, NEW c \in Clients, fd'[c] # fd[c]
  PROVE  \/ /\ AcceptClient /\ newest' = c /\ Away(c) /\ fd[c] = 0
            /\ fd'[c] \in Fds /\ table'[fd'[c]] = c
         \/ fd'[c] = 0 /\ Lost(c) /\ table' = table
<1>1. CASE AcceptClient
  <2>1. PICK d \in Clients : /\ newest' = d /\ fd' = [fd EXCEPT ![d] = Lowest(FreeFds)]
                             /\ table' = [table EXCEPT ![Lowest(FreeFds)] = d] /\ Away(d)
    BY <1>1 DEF AcceptClient, Away
  <2>2. FreeFds # {}
    BY <1>1 DEF AcceptClient
  <2>3. c = d /\ fd'[c] = Lowest(FreeFds)
    BY <2>1 DEF IInv, Types, SessionType
  <2>4. table'[fd'[c]] = c /\ fd'[c] \in Fds
    BY <2>1, <2>2, <2>3, FreeIs DEF IInv, Types, TableType
  <2> QED BY <1>1, <2>1, <2>3, <2>4 DEF IInv, Inv, ThreadInv, SessionPlace
<1>2. CASE ForgetSession
  <2>1. /\ fd' = [fd EXCEPT ![Current(Top)] = 0] /\ frames # <<>> /\ Top.at = "forget"
        /\ table' = table
    BY <1>2 DEF ForgetSession, Current, StopAt
  <2>2. c = Current(Top) /\ fd'[c] = 0
    BY <2>1 DEF IInv, Types, SessionType
  <2>3. Len(frames) \in DOMAIN frames /\ Top = frames[Len(frames)]
    BY <2>1, StackShape DEF IInv, Types, Top
  <2>4. Silenced(Len(frames))
    BY <2>3 DEF IInv, Inv, FdInv
  <2> QED BY <2>1, <2>2, <2>3, <2>4 DEF Silenced
<1>3. ASSUME NEW d \in Clients, ForgetFd(d)
      PROVE  fd'[c] = 0 /\ Lost(c) /\ table' = table
  <2>1. d = c /\ fd'[c] = 0 /\ table' = table /\ spc[c] = "forget"
    BY <1>3 DEF ForgetFd, SessionAt, IInv, Types, SessionType
  <2> QED BY <2>1 DEF IInv, Inv, FdInv, FdOwned
<1> QED BY <1>1, <1>2, <1>3, StepChanges DEF Changes

\* Who has lost its number does not get it back.
LEMMA LostStays ==
  ASSUME IInv, Next, NEW c \in Clients, ~Away(c), Lost(c)
  PROVE  Lost(c)'
<1>1. CASE fd'[c] # fd[c]
  BY <1>1, FdMoves DEF Lost
<1>2. CASE fd'[c] = fd[c]
  <2>1. fd[c] \in MaybeFd
    BY DEF IInv, Types, SessionType
  <2>2. ASSUME NEW n \in Fds, table[n] # c PROVE table'[n] # c
    BY <2>2, TableMoves, Ranges
  <2> QED BY <1>2, <2>1, <2>2 DEF Lost, MaybeFd
<1> QED BY <1>1, <1>2

\* Nothing is given out once the listener is shut down.
LEMMA SealedGivesNothing ==
  ASSUME Sealed
  PROVE  ~OpenSocket /\ ~AcceptClient
BY DEF Sealed, OpenSocket, AcceptClient, AcceptAt

\* A number stays with its session until it is closed; after that it may be reused only
\* while the listener is open.
LEMMA HoldsStays ==
  ASSUME IInv, Next, NEW c \in Clients, NEW n \in MaybeFd, Holds(n, c), Agrees(n, c)
  PROVE  \/ Holds(n, c)'
         \/ /\ n # 0 /\ ~Sealed /\ table'[n] = "free"
            /\ \/ CloseSession /\ Top.fd = n /\ Current(Top) = c /\ Top.at = "close"
                  /\ frames # <<>>
               \/ HangUpOn(c) /\ aim[c].fd = n /\ spc[c] = "hangup"
<1>0. /\ TableType /\ (Sealed => Sealed')
      /\ Top.at = "close" /\ frames # <<>> =>
           /\ Len(frames) \in DOMAIN frames /\ Top = frames[Len(frames)]
           /\ Top \in Frames /\ Current(Top) \in Clients
  <2>1. Sealed => Sealed'
    BY ServerOnwards DEF ServerOnward
  <2>2. frames # <<>> =>
          Len(frames) \in DOMAIN frames /\ Top = frames[Len(frames)] /\ Top \in Frames
    BY StackShape DEF IInv, Types, Top
  <2>3. Top \in Frames /\ Top.at = "close" => Current(Top) \in Clients
    BY FrameFields DEF Current
  <2> QED BY <2>1, <2>2, <2>3 DEF IInv, Types
<1>1. CASE n = 0
  BY <1>1 DEF Holds
<1>2. CASE n \in Fds /\ table[n] = "free" /\ Sealed
  <2>1. table'[n] = "free"
    BY <1>2, TableMoves, SealedGivesNothing
  <2> QED BY <1>0, <1>2, <2>1 DEF Holds
<1>3. CASE n \in Fds /\ fd[c] = n /\ table[n] = c
  <2>0. n # 0 /\ c # "free" /\ c # "listener" /\ ~Away(c)
    BY <1>3, Ranges DEF IInv, Inv, ThreadInv, SessionPlace
  <2>1. CASE table'[n] # table[n]
    <3>1. CASE CloseSession /\ Top.fd = n /\ Top.at = "close" /\ frames # <<>>
      <4>1. CloseOwned(Len(frames)) /\ table'[n] = "free"
        BY <2>0, <2>1, <3>1, <1>3, TableMoves DEF IInv, Inv, FdInv
      <4>2. Current(Top) = c \/ Sealed
        BY <1>0, <2>0, <3>1, <4>1 DEF CloseOwned, Holds, Loose
      <4> QED BY <1>0, <2>0, <3>1, <4>1, <4>2 DEF Holds
    <3>2. ASSUME NEW d \in Clients, HangUpOn(d), aim[d].fd = n, spc[d] = "hangup",
                 table'[n] = "free"
          PROVE  d = c \/ Sealed
      <4>1. AimOwned(d)
        BY DEF IInv, Inv, FdInv
      <4> QED BY <2>0, <3>2, <4>1 DEF AimOwned, Holds, Loose
    <3> QED BY <1>0, <1>3, <2>0, <2>1, <3>1, <3>2, TableMoves DEF Holds
  <2>2. CASE table'[n] = table[n]
    <3>1. fd'[c] = fd[c]
      BY <1>3, <2>0, FdMoves DEF Lost
    <3> QED BY <1>3, <2>2, <3>1 DEF Holds
  <2> QED BY <2>1, <2>2
<1> QED BY <1>1, <1>2, <1>3 DEF Holds, MaybeFd

\* A session that has had a number gets no other.
LEMMA AgreesStays ==
  ASSUME IInv, Next, NEW c \in Clients, ~Away(c), NEW n, Agrees(n, c)
  PROVE  Agrees(n, c)'
BY FdMoves DEF Agrees

\* A number that was closed too early is that of one client at most.
LEMMA LooseStays ==
  ASSUME IInv, Next, NEW n \in Fds, Loose(n)
  PROVE  Loose(n)'
<1>0. /\ n # 0 /\ ~running' /\ apc' \notin {"unborn", "socket"} /\ (Sealed => Sealed')
      /\ "listener" \notin Clients
  BY ServerOnwards, Ranges DEF ServerOnward, Loose
<1>1. CASE table'[n] = table[n] \/ table'[n] = "free"
  BY <1>0, <1>1 DEF Loose
<1>2. CASE AcceptClient /\ table'[n] = newest'
  <2>1. newest' \in Clients /\ apc' = "push"
    BY <1>2 DEF AcceptClient
  <2> QED BY <1>0, <1>2, <2>1 DEF Loose, Sealed
<1>3. ~OpenSocket
  BY DEF Loose, OpenSocket, AcceptAt
<1> QED BY <1>1, <1>2, <1>3, TableMoves

\* A number closed while a call that joins is in progress has been closed too early.
LEMMA ClosedIsLoose ==
  ASSUME IInv, Next, NEW j \in DOMAIN frames, Joining(frames[j]), ~Sealed,
         NEW n \in Fds, table'[n] = "free"
  PROVE  Cut(j) /\ Loose(n)'
<1>1. StopPlace(j) /\ frames[j].at \notin {"stats", "print", "flag"} /\ frames # <<>>
  BY DEF IInv, Inv, StopInv, Joining
<1>2. Cut(j) /\ ~running
  BY <1>1 DEF StopPlace
<1>3. PICK m \in 1..(j - 1) : frames[m].at = "shut" /\ frames[m].fd # 0
  BY <1>2 DEF Cut
<1>4. m \in DOMAIN frames
  BY StackShape DEF IInv, Types
<1>5. Taken(frames[m].fd)
  BY <1>3, <1>4 DEF IInv, Inv, StopInv, StopPlace
<1>6. apc \notin {"unborn", "socket"}
  BY <1>5 DEF Taken, Serving
<1>7. ~running' /\ apc' \notin {"unborn", "socket"}
  BY <1>1, <1>2, <1>6, ServerOnwards DEF ServerOnward
<1> QED BY <1>2, <1>7, Ranges DEF Loose

\* The descriptors stay with those they belong to.
LEMMA OwnServerStays ==
  ASSUME IInv, Next
  PROVE  OwnServer'
<1>0. OwnServer /\ TableType /\ serverFd \in MaybeFd
  BY DEF IInv, Inv, FdInv, Types, AcceptType
<1>1. SUFFICES ASSUME serverFd' # 0 PROVE table'[serverFd'] = "listener"
  BY DEF OwnServer
<1>2. CASE OpenSocket
  <2>1. /\ FreeFds # {} /\ serverFd' = Lowest(FreeFds)
        /\ table' = [table EXCEPT ![serverFd'] = "listener"]
    BY <1>2 DEF OpenSocket
  <2> QED BY <1>0, <2>1, FreeIs DEF TableType
<1>3. CASE ~OpenSocket
  <2>1. ~CannotListen /\ ~CloseListener
    BY <1>1 DEF CannotListen, CloseListener
  <2>2. serverFd' = serverFd
    BY <1>3, <2>1, StepChanges DEF Changes
  <2>3. serverFd \in Fds /\ table[serverFd] = "listener"
    BY <1>0, <1>1, <2>2 DEF OwnServer, MaybeFd
  <2>4. ASSUME table'[serverFd] # table[serverFd] PROVE FALSE
    <3>1. CASE CloseSession /\ Top.fd = serverFd /\ Top.at = "close" /\ frames # <<>>
      <4>1. Len(frames) \in DOMAIN frames /\ Top = frames[Len(frames)] /\ Top \in Frames
        BY <3>1, StackShape DEF IInv, Types, Top
      <4>2. CloseOwned(Len(frames)) /\ Current(Top) \in Clients
        BY <3>1, <4>1, FrameFields DEF IInv, Inv, FdInv, Current
      <4> QED BY <2>3, <3>1, <4>1, <4>2, Ranges DEF CloseOwned, Holds, Loose
    <3>2. ASSUME NEW c \in Clients, aim[c].fd = serverFd, spc[c] = "hangup" PROVE FALSE
      <4>1. AimOwned(c)
        BY DEF IInv, Inv, FdInv
      <4> QED BY <2>3, <3>2, <4>1, Ranges DEF AimOwned, Holds, Loose
    <3> QED BY <2>1, <2>3, <2>4, <3>1, <3>2, TableMoves
  <2> QED BY <2>2, <2>3, <2>4
<1> QED BY <1>2, <1>3

\* A session that hung up keeps a number that is not its own until it forgets it.
LEMMA ForgetsStays ==
  ASSUME IInv, Next, NEW c \in Clients
  PROVE  (spc[c] = "forget" => Lost(c))' /\ Forgets(c)'
<1>0. AcceptPlace /\ SessionPlace(c) /\ FdOwned(c) /\ TableType /\ fd[c] \in MaybeFd
  BY DEF IInv, Inv, ThreadInv, FdInv, Types, SessionType
<1>1. CASE spc'[c] # "forget"
  BY <1>1 DEF Forgets
<1>2. CASE HangUpOn(c) /\ spc'[c] = "forget"
  <2>1. /\ spc[c] = "hangup" /\ fd' = fd /\ apc' = apc
        /\ aim[c].fd # 0 /\ \E m \in {aim[c].fd, fd[c]} : table' = Freed(m)
    BY <1>2 DEF HangUpOn, SessionAt, SessionGoto, Elsewhere, acceptVars, IInv, Types,
       SessionType
  <2>2. Agrees(aim[c].fd, c)
    BY <2>1 DEF IInv, Inv, FdInv, AimOwned
  <2>3. fd[c] # 0 => table' = Freed(fd[c])
    BY <2>1, <2>2 DEF Agrees
  <2>4. fd[c] # 0 => table'[fd[c]] = "free"
    BY <1>0, <2>3, FreedIs DEF MaybeFd
  <2>5. apc \notin {"unborn", "socket"}
    BY <1>0, <2>1 DEF SessionPlace, AcceptPlace
  <2> QED BY <2>1, <2>4, <2>5, Ranges DEF Forgets, Lost
<1>3. CASE ~HangUpOn(c) /\ spc'[c] = "forget"
  <2>1. spc[c] = "forget"
    <3>1. ASSUME NEW d \in Clients, OfSession(d) PROVE spc[c] = "forget"
      <4>1. CASE d # c
        BY <1>3, <3>1, <4>1, SessionMoves
      <4>2. CASE d = c
        BY <1>3, <3>1, <4>2 DEF OfSession, SessionStep, SendingStep, EnterHandshake,
           Request, Reject, ForgetFd, ReadLoop, Message, Leave, HandleMessage,
           StreamEnds, RelayTo, SendTo, SessionGoto, Finish, IInv, Types, SessionType
      <4> QED BY <4>1, <4>2
    <3>2. StartSession => spc[c] = "forget"
      BY <1>3 DEF StartSession, IInv, Types, SessionType
    <3> QED BY <1>3, <3>1, <3>2, StepChanges DEF Changes
  <2>2. ~Away(c) /\ ~live[c] /\ Lost(c) /\ Forgets(c)
    BY <1>0, <2>1 DEF SessionPlace, FdOwned
  <2>3. Lost(c)'
    BY <2>2, LostStays
  <2>4. SUFFICES ASSUME fd'[c] # 0
                 PROVE  /\ table'[fd'[c]] # "listener" /\ apc' \notin {"unborn", "socket"}
                        /\ c \in Members(sessions') \/ Pending(c)' =>
                             \/ table'[fd'[c]] = "free" \/ apc' \in {"push", "spawn", "erase"}
                             \/ Sealed'
    BY <2>3 DEF Forgets
  <2>5. PICK n \in Fds : n = fd[c] /\ n = fd'[c]
    BY <1>0, <2>2, <2>4, FdMoves DEF MaybeFd
  <2>6. /\ table[n] # "listener" /\ apc \notin {"unborn", "socket"}
        /\ c \in Members(sessions) \/ Pending(c) =>
             table[n] = "free" \/ apc \in {"push", "spawn", "erase"} \/ Sealed
    BY <2>1, <2>2, <2>4, <2>5 DEF Forgets
  <2>7. table'[n] # "listener" /\ (table[n] = "free" => table'[n] = "free" \/ apc' = "push")
    <3>1. ~OpenSocket
      BY <2>6 DEF OpenSocket, AcceptAt
    <3>2. AcceptClient => apc' = "push"
      BY DEF AcceptClient
    <3> QED BY <2>6, <3>1, <3>2, TableMoves, Ranges
  <2>8. apc' \notin {"unborn", "socket"} /\ (Sealed => Sealed')
    BY <2>6, ServerOnwards DEF ServerOnward
  <2>9. ASSUME c \in Members(sessions') \/ Pending(c)'
        PROVE  table'[n] = "free" \/ apc' \in {"push", "spawn", "erase"} \/ Sealed'
    <3>1. c \in Members(sessions) \/ Pending(c)
      BY <2>1, <2>9, JoinsBegin, MembersBegin
    <3>2. CASE EraseEnded
      <4>1. Pending(c)'
        BY <2>1, <2>2, <2>9, <3>2, MembersBegin
      <4>2. frames' = frames /\ running' = running /\ apc' = "loop"
        BY <3>2 DEF EraseEnded, serverVars
      <4>3. PICK j \in DOMAIN frames : Joining(frames[j])
        BY <4>1, <4>2 DEF Pending, Joins
      <4>4. ~running
        BY <4>3 DEF IInv, Inv, StopInv, StopPlace, Joining
      <4> QED BY <4>2, <4>4 DEF Sealed
    <3>3. CASE apc \in {"push", "spawn", "erase"} /\ ~EraseEnded
      <4>1. AcceptStep \/ AcceptClient => apc' \in {"push", "spawn", "erase"}
        BY <3>3 DEF AcceptStep, OpenSocket, PublishListener, Listen, CannotListen,
           AcceptLoop, AcceptFails, PushSession, StartSession, CloseListener,
           AcceptClient, AcceptAt
      <4>2. ~SpawnAccept
        BY <3>3 DEF SpawnAccept, MainAt, IInv, Inv, ThreadInv, MainPlace
      <4> QED BY <3>3, <4>1, <4>2, StepChanges DEF Changes
    <3> QED BY <2>6, <2>7, <2>8, <3>1, <3>2, <3>3
  <2> QED BY <2>5, <2>7, <2>8, <2>9
<1> QED BY <1>1, <1>2, <1>3

\* A number that an interrupted stop() has closed early goes on being so until the
\* stop() forgets it.
LEMMA StaleStays ==
  ASSUME IInv, Next, NEW c \in Clients, Stale(c), fd'[c] = fd[c]
  PROVE  Holds(fd[c], c)' \/ Stale(c)'
<1>1. PICK n \in Fds : n = fd[c]
  BY DEF Stale, Loose, IInv, Types, SessionType, MaybeFd
<1>2. Loose(n)'
  BY <1>1, LooseStays DEF Stale
<1>3. spc'[c] # "unborn" /\ ~live'[c]
  <2>1. StartSession => newest # c /\ newest \in Clients
    BY DEF Stale, StartSession, AcceptAt, IInv, Inv, ThreadInv, AcceptPlace
  <2>2. spc'[c] # "unborn"
    <3>1. StartSession => spc'[c] # "unborn"
      BY <2>1 DEF StartSession, Stale, IInv, Types, SessionType
    <3>2. ASSUME NEW d \in Clients, OfSession(d) PROVE spc'[c] # "unborn"
      BY <3>2, SessionMoves DEF Stale
    <3> QED BY <3>1, <3>2, StepChanges DEF Changes, Stale
  <2>3. ~live'[c]
    <3>1. StartSession => ~live'[c]
      BY <2>1 DEF StartSession, Stale, IInv, Types, SessionType
    <3>2. MarkSession => ~live'[c]
      BY DEF MarkSession, Stale, IInv, Types, SessionType
    <3>3. ASSUME NEW d \in Clients, Reject(d) \/ ReadLoop(d) \/ Message(d) \/ Leave(d)
          PROVE  ~live'[c]
      BY <3>3 DEF Reject, ReadLoop, Message, Leave, Finish, Stale, IInv, Types, SessionType
    <3> QED BY <3>1, <3>2, <3>3, StepChanges DEF Changes, Stale
  <2> QED BY <2>2, <2>3
<1>4. PICK j \in DOMAIN frames : frames[j].at = "forget" /\ Current(frames[j]) = c /\ Cut(j)
  BY DEF Stale, CutForgets
<1>5. Cut(j)'
  BY <1>4, StackMoves
<1>6. CASE j \in DOMAIN frames' /\ frames'[j] = frames[j]
  <2>1. CutForgets(c)'
    BY <1>4, <1>5, <1>6 DEF CutForgets
  <2> QED BY <1>1, <1>2, <1>3, <2>1 DEF Stale, Loose, Sealed
<1>7. CASE j \notin DOMAIN frames' \/ frames'[j] # frames[j]
  <2>1. StopStep /\ j = Len(frames) /\ frames # <<>> /\ Top = frames[j]
    BY <1>7, StackMoves, TopIsLast, StackShape DEF IInv, Types
  <2>2. ForgetSession
    BY <1>4, <2>1 DEF StopStep, LockStorage, PrintStats, ClearRunning, TakeListener,
       ShutListener, MarkSession, CloseSession, JoinSession, ClearSessions, JoinAccept,
       JoinPrune, StopAt
  <2>3. fd'[c] = 0
    BY <1>4, <2>1, <2>2 DEF ForgetSession, Current, IInv, Types, SessionType
  <2> QED BY <2>3 DEF Holds
<1> QED BY <1>6, <1>7

\* A session's descriptor is its own, or has been closed for good, or is about to be
\* forgotten.
LEMMA SessionFdStays ==
  ASSUME IInv, Next, NEW c \in Clients
  PROVE  (Holds(fd[c], c) \/ spc[c] = "forget" \/ Stale(c))'
<1>0. FdOwned(c) /\ Agrees(fd[c], c) /\ TableType
  BY DEF IInv, Inv, FdInv, Agrees, Types
<1>1. CASE fd'[c] # fd[c]
  BY <1>1, FdMoves DEF Holds
<1>2. CASE fd'[c] = fd[c]
  <2>1. PICK n \in MaybeFd : n = fd[c]
    BY DEF IInv, Types, SessionType
  <2>2. CASE Stale(c)
    BY <1>2, <2>2, StaleStays DEF Holds
  <2>3. CASE spc[c] = "forget" /\ spc'[c] # "forget"
    <3>1. ~StartSession \/ newest # c
      BY <2>3 DEF StartSession, AcceptAt, IInv, Inv, ThreadInv, AcceptPlace
    <3>2. StartSession => FALSE
      BY <2>3, <3>1 DEF StartSession, IInv, Types, SessionType
    <3>3. ASSUME NEW d \in Clients, OfSession(d) PROVE d = c
      BY <2>3, <3>3, SessionMoves
    <3>4. OfSession(c)
      BY <2>3, <3>2, <3>3, StepChanges DEF Changes
    <3>5. fd'[c] = 0
      BY <2>3, <3>4 DEF OfSession, SessionStep, SendingStep, EnterHandshake, Request,
         Reject, HangUpOn, ForgetFd, ReadLoop, Message, Leave, HandleMessage, StreamEnds,
         RelayTo, SendTo, SessionAt, IInv, Types, SessionType
    <3> QED BY <3>5 DEF Holds
  <2>4. CASE Holds(n, c) /\ ~Holds(n, c)'
    <3>1. CASE /\ n # 0 /\ ~Sealed /\ table'[n] = "free" /\ CloseSession /\ Top.fd = n
               /\ Current(Top) = c /\ Top.at = "close" /\ frames # <<>>
      <4>0. PICK j \in DOMAIN frames : j = Len(frames)
        BY <3>1, TopIsLast
      <4>1. /\ j \in DOMAIN frames /\ Top = frames[j] /\ StopPlace(j) /\ Silenced(j)
            /\ Joining(frames[j])
        BY <3>1, <4>0, TopIsLast DEF IInv, Inv, FdInv, Joining
      <4>2. Cut(j) /\ Loose(n)'
        BY <3>1, <4>0, <4>1, ClosedIsLoose DEF MaybeFd
      <4>3. Becomes("forget", 0, Top.seen, Top.i)
        BY <3>1, StopSteps DEF IInv
      <4>4. j \in DOMAIN frames' /\ frames'[j].at = "forget" /\ Current(frames'[j]) = c
        BY <3>1, <4>0, <4>1, <4>3 DEF Becomes, Current
      <4>5. Cut(j)'
        BY <4>1, <4>2, StackMoves
      <4>6. CutForgets(c)'
        BY <4>4, <4>5 DEF CutForgets
      <4>7. UNCHANGED <<apc, spc, live, running>>
        BY <3>1 DEF CloseSession, acceptVars, sessionVars, serverVars
      <4>8. spc[c] # "unborn"
        <5>1. ~running /\ apc \notin {"unborn", "socket"}
          BY <4>2, <4>7 DEF Loose
        <5>2. apc = "accept"
          BY <3>1, <5>1 DEF Sealed
        <5>3. ~Away(c)
          BY <3>1, <4>1, CurrentIsPending
        <5> QED BY <5>2, <5>3 DEF IInv, Inv, ThreadInv, SessionPlace
      <4>9. ~live[c]
        BY <3>1, <4>1 DEF Silenced
      <4> QED BY <1>2, <2>1, <4>2, <4>6, <4>7, <4>8, <4>9 DEF Stale, Loose, Sealed
    <3>2. CASE HangUpOn(c) /\ aim[c].fd = n /\ n # 0
      <4>1. spc'[c] = "forget"
        BY <3>2 DEF HangUpOn, SessionGoto, IInv, Types, SessionType
      <4> QED BY <4>1
    <3> QED BY <1>0, <2>1, <2>4, <3>1, <3>2, HoldsStays
  <2> QED BY <1>0, <1>2, <2>1, <2>2, <2>3, <2>4 DEF FdOwned, Holds
<1> QED BY <1>1, <1>2

\* A session that a stop() is closing reads nothing more, and has lost its number
\* before the stop() forgets it.
LEMMA SilencedStays ==
  ASSUME IInv, Next, NEW j \in DOMAIN frames'
  PROVE  Silenced(j)'
<1>0. Sealed => Sealed'
  BY ServerOnwards DEF ServerOnward
<1>1. CASE j \notin DOMAIN frames
  BY <1>1, StackMoves DEF Silenced
<1>2. CASE j \in DOMAIN frames /\ frames'[j] = frames[j]
  <2>1. SUFFICES ASSUME frames[j].at \in {"close", "forget"} PROVE Silenced(j)'
    BY <1>2 DEF Silenced
  <2>2. PICK c \in Clients : c = Current(frames[j]) /\ ~Away(c)
    BY <1>2, <2>1, CurrentIsPending DEF Joining
  <2>3. ~live'[c] \/ Sealed'
    <3>1. CASE Sealed
      BY <1>0, <3>1
    <3>2. CASE ~Sealed
      <4>1. ~live[c] /\ ~running
        BY <1>2, <2>1, <2>2, <3>2 DEF IInv, Inv, FdInv, Silenced, StopInv, StopPlace
      <4>2. ~StartSession
        BY <3>2, <4>1 DEF StartSession, AcceptAt, Sealed
      <4>3. MarkSession => ~live'[c]
        BY <4>1 DEF MarkSession, IInv, Types, SessionType
      <4>4. ASSUME NEW d \in Clients, Reject(d) \/ ReadLoop(d) \/ Message(d) \/ Leave(d)
            PROVE  ~live'[c]
        BY <4>1, <4>4 DEF Reject, ReadLoop, Message, Leave, Finish, IInv, Types, SessionType
      <4> QED BY <4>1, <4>2, <4>3, <4>4, StepChanges DEF Changes
    <3> QED BY <3>1, <3>2
  <2>4. frames[j].at = "forget" => Lost(c)'
    BY <1>2, <2>2, LostStays DEF IInv, Inv, FdInv, Silenced
  <2> QED BY <1>2, <2>2, <2>3, <2>4 DEF Silenced, Lost, Current
<1>3. CASE j \in DOMAIN frames /\ frames'[j] # frames[j]
  <2>1. /\ j = Len(frames) /\ frames # <<>> /\ StopStep /\ frames' # frames /\ ~JoinPrune
        /\ Top = frames[j]
    BY <1>3, TopSteps
  <2>2. CASE MarkSession
    <3>1. Top.at = "mark" /\ live' = [live EXCEPT ![Current(Top)] = FALSE]
      BY <2>2 DEF MarkSession, StopAt, Current
    <3>2. Current(Top) \in Clients
      BY <1>3, <2>1, <3>1, CurrentIsPending DEF Joining
    <3>3. frames'[j].at = "close" /\ Current(frames'[j]) = Current(Top)
      BY <2>1, <2>2, StopSteps DEF IInv, Becomes, Current
    <3>4. ~live'[Current(frames'[j])]
      BY <3>1, <3>2, <3>3 DEF IInv, Types, SessionType
    <3> QED BY <3>3, <3>4 DEF Silenced
  <2>3. CASE CloseSession
    <3>1. Top.at = "close" /\ UNCHANGED <<live, fd>>
      BY <2>3 DEF CloseSession, StopAt, sessionVars
    <3>2. PICK c \in Clients : c = Current(Top)
      BY <1>3, <2>1, <3>1, CurrentIsPending DEF Joining
    <3>3. /\ frames'[j].at = (IF Top.fd = 0 THEN "join" ELSE "forget")
          /\ Current(frames'[j]) = c
      BY <2>1, <2>3, <3>2, StopSteps DEF IInv, Becomes, Current
    <3>4. Agrees(Top.fd, c) /\ (~live[c] \/ Sealed)
      BY <1>3, <2>1, <3>1, <3>2 DEF IInv, Inv, FdInv, CloseOwned, Silenced
    <3>5. ASSUME Top.fd # 0 PROVE Lost(c)'
      <4>1. PICK m \in {Top.fd, fd[c]} : table' = Freed(m)
        BY <2>3, <3>2, <3>5 DEF CloseSession, Current
      <4>2. fd[c] # 0 => m = fd[c]
        BY <3>4, <3>5, <4>1 DEF Agrees
      <4>3. fd[c] # 0 => table'[fd[c]] = "free"
        BY <4>1, <4>2, FreedIs DEF IInv, Types, SessionType, MaybeFd
      <4> QED BY <3>1, <4>3, Ranges DEF Lost
    <3> QED BY <1>0, <3>1, <3>3, <3>4, <3>5 DEF Silenced, Lost
  <2>4. CASE ~MarkSession /\ ~CloseSession
    <3>1. frames'[j].at \notin {"close", "forget"}
      BY <2>1, <2>4, StopSteps DEF IInv, Becomes, StopStep
    <3> QED BY <3>1 DEF Silenced
  <2> QED BY <2>2, <2>3, <2>4
<1> QED BY <1>1, <1>2, <1>3

\* The number a session's thread is about to use.
LEMMA AimStays ==
  ASSUME IInv, Next, NEW c \in Clients
  PROVE  AimOwned(c)'
<1>0. AimOwned(c) /\ Types /\ spc[c] \in SessionAts
  BY DEF IInv, Inv, FdInv, Types, SessionType
<1>1. CASE Reject(c)
  <2>1. /\ spc'[c] = "hangup" /\ aim'[c] = [fd |-> fd[c], of |-> c]
        /\ UNCHANGED <<fd, table, running, apc, shut>>
    BY <1>0, <1>1 DEF Reject, SessionGoto, Types, SessionType, Elsewhere, serverVars,
       acceptVars
  <2>2. Holds(fd[c], c) \/ (Loose(fd[c]) /\ CutForgets(c))
    BY <1>1 DEF IInv, Inv, FdInv, FdOwned, Stale, Reject, SessionAt
  <2>3. ASSUME CutForgets(c) PROVE CutJoins(c)'
    <3>1. PICK j \in DOMAIN frames :
            frames[j].at = "forget" /\ Current(frames[j]) = c /\ Cut(j)
      BY <2>3 DEF CutForgets
    <3>2. Joins(frames[j], c)
      BY <3>1, CurrentIsPending DEF Joining
    <3>3. frames' = frames
      BY <1>1 DEF Reject, Elsewhere
    <3> QED BY <3>1, <3>2, <3>3 DEF CutJoins, Cut
  <2> QED BY <2>1, <2>2, <2>3 DEF AimOwned, Agrees, Holds, Loose, Sealed
<1>2. CASE RelayTo(c) /\ spc'[c] = "send"
  <2> DEFINE t == sessions[idx[c]]
  <2>1. /\ idx[c] <= Len(sessions) /\ aim'[c] = [fd |-> fd[t], of |-> t]
        /\ spc[c] = "cast" /\ spc[t] \notin {"unborn", "handshake", "greet", "reject"} /\ live[t]
        /\ t # c /\ spc' = [spc EXCEPT ![c] = "send"]
        /\ UNCHANGED <<fd, table, running, apc, shut>>
    BY <1>0, <1>2 DEF RelayTo, SessionGoto, SessionAt, Types, SessionType, Elsewhere,
       serverVars, acceptVars
  <2>2. t \in Clients
    BY <2>1 DEF IInv, Inv, ThreadInv, SessionPlace, Types, ListType, SessionType
  <2>3. Holds(fd[t], t) /\ SessionPlace(t)
    BY <2>1, <2>2 DEF IInv, Inv, FdInv, FdOwned, Stale, ThreadInv, SessionPlace
  <2>4. Past(spc'[t])
    BY <2>1, <2>3 DEF Past, SessionPlace
  <2> HIDE DEF t
  <2> QED BY <2>1, <2>2, <2>3, <2>4 DEF AimOwned, Agrees, Holds, Sealed
<1>3. CASE spc'[c] \in {"hangup", "send"} /\ ~Reject(c) /\ ~(RelayTo(c) /\ spc'[c] = "send")
  <2>1. spc[c] = spc'[c] /\ aim'[c] = aim[c] /\ ~HangUpOn(c)
    <3>1. ~OfSession(c)
      BY <1>0, <1>3 DEF OfSession, SessionStep, SendingStep, EnterHandshake, Request,
         HangUpOn, ForgetFd, ReadLoop, Message, Leave, HandleMessage, StreamEnds, RelayTo, SendTo,
         SessionGoto, SessionAt, Finish, Types, SessionType
    <3>2. ASSUME NEW d \in Clients, OfSession(d) PROVE spc'[c] = spc[c] /\ aim'[c] = aim[c]
      BY <3>1, <3>2, SessionMoves
    <3>3. StartSession => spc'[c] = spc[c]
      BY <1>0, <1>3 DEF StartSession, Types, SessionType
    <3>4. (\E d \in Clients : Reject(d) \/ HangUpOn(d) \/ RelayTo(d) \/ SendTo(d))
            => \E d \in Clients : OfSession(d)
      BY DEF OfSession, SessionStep, SendingStep
    <3> QED BY <3>1, <3>2, <3>3, <3>4, StepChanges DEF Changes, OfSession, SessionStep
  <2>2. PICK n \in MaybeFd, o \in Clients : n = aim[c].fd /\ o = aim[c].of
    BY <1>0, <1>3, <2>1 DEF AimOwned, Types, SessionType
  <2>3. spc'[c] = "send" => Past(spc[o]) /\ Past(spc'[o])
    BY <1>0, <2>1, <2>2, SessionOnwards DEF AimOwned, SessionOnward
  <2>4. ~Away(o) /\ Agrees(n, o)
    <3>1. SessionPlace(o)
      BY DEF IInv, Inv, ThreadInv
    <3> QED BY <1>0, <1>3, <2>1, <2>2, <3>1 DEF AimOwned, SessionPlace, Past
  <2>5. Agrees(n, o)'
    BY <2>4, AgreesStays
  <2>6. ASSUME CutJoins(c) PROVE CutJoins(c)'
    <3>1. PICK j \in DOMAIN frames : Cut(j) /\ Joins(frames[j], c)
      BY <2>6 DEF CutJoins
    <3>2. j \in DOMAIN frames' /\ Joins(frames'[j], c)
      BY <1>3, <2>1, <3>1, JoinsStay
    <3>3. Cut(j)'
      BY <3>1, StackMoves
    <3> QED BY <3>2, <3>3 DEF CutJoins
  <2>7. Holds(n, o)' \/ (Loose(n)' /\ CutJoins(c)')
    <3>1. CASE Loose(n) /\ CutJoins(c)
      BY <2>6, <3>1, LooseStays DEF Loose, MaybeFd
    <3>2. CASE Holds(n, o) /\ CloseSession /\ Top.fd = n /\ Current(Top) = o /\ Top.at = "close"
               /\ frames # <<>> /\ n # 0 /\ ~Sealed /\ table'[n] = "free"
      <4>1. Len(frames) \in DOMAIN frames /\ Top = frames[Len(frames)] /\ Top \in Frames
        BY <3>2, StackShape DEF IInv, Types, Top
      <4>2. \E j \in DOMAIN frames : Joins(frames[j], c)
        <5>1. CASE spc[c] = "hangup"
          <6>1. o = c /\ Top.i \in Top.i..Len(Top.seen)
            BY <1>0, <2>2, <3>2, <4>1, <5>1, FrameFields DEF AimOwned
          <6> QED BY <3>2, <4>1, <6>1 DEF Joins, Joining, Current
        <5>2. CASE spc[c] = "send"
          <6>1. c \notin late /\ Awaited(c) /\ Sweep(Top) /\ SessionPlace(c) /\ AcceptPlace
            BY <3>2, <4>1 DEF IInv, Inv, StopInv, QuietInv, ThreadInv
          <6>2. Registered(c) /\ ~Quiet(c)
            BY <5>2, <6>1 DEF Registered, Quiet, SessionPlace, AcceptPlace
          <6>3. CASE c \in Members(sessions)
            <7>1. c \in Members(Top.seen)
              BY <3>2, <6>1, <6>3 DEF Sweep, Joining
            <7>2. PICK k \in DOMAIN Top.seen : c = Top.seen[k]
              BY <7>1 DEF Members
            <7>3. k \notin 1..(Top.i - 1)
              BY <3>2, <6>1, <6>2, <7>2 DEF Sweep, Joining
            <7>4. k \in Top.i..Len(Top.seen)
              BY <4>1, <7>2, <7>3, FrameFields
            <7> QED BY <3>2, <4>1, <7>2, <7>4 DEF Joins, Joining
          <6>4. CASE Pending(c)
            BY <6>4 DEF Pending
          <6> QED BY <6>1, <6>2, <6>3, <6>4 DEF Awaited
        <5> QED BY <1>3, <2>1, <5>1, <5>2
      <4>3. PICK j \in DOMAIN frames : Joins(frames[j], c)
        BY <4>2
      <4>4. Cut(j) /\ Loose(n)'
        BY <3>2, <4>3, ClosedIsLoose DEF Joins, MaybeFd
      <4>5. CutJoins(c)
        BY <4>3, <4>4 DEF CutJoins
      <4> QED BY <2>6, <4>4, <4>5
    <3>3. ~HangUpOn(o) \/ ~(spc[o] = "hangup")
      BY <1>0, <1>3, <2>1, <2>2 DEF AimOwned, Past
    <3> QED BY <1>0, <1>3, <2>1, <2>2, <3>1, <3>2, <3>3, HoldsStays DEF AimOwned
  <2> QED BY <1>0, <2>1, <2>2, <2>3, <2>5, <2>7 DEF AimOwned
<1>4. CASE spc'[c] \notin {"hangup", "send"}
  BY <1>4 DEF AimOwned
<1> QED BY <1>1, <1>2, <1>3, <1>4

\* The number a call of stop() is about to close.
LEMMA CloseStays ==
  ASSUME IInv, Next, NEW j \in DOMAIN frames'
  PROVE  CloseOwned(j)'
<1>0. /\ DOMAIN frames = 1..Len(frames) /\ Len(frames) \in Nat
      /\ frames # <<>> => Top = frames[Len(frames)] /\ Top \in Frames
  BY StackShape DEF IInv, Types, Top
<1>1. SUFFICES ASSUME frames'[j].at = "close"
               PROVE  (/\ Agrees(frames[j].fd, Current(frames[j]))
                       /\ \/ Holds(frames[j].fd, Current(frames[j]))
                          \/ /\ Loose(frames[j].fd)
                             /\ Cut(j) \/ spc[Current(frames[j])] \in {"forget", "done"})'
  BY DEF CloseOwned
<1>2. j \in DOMAIN frames
  BY <1>1, StackMoves
<1>3. CASE frames'[j] # frames[j]
  <2>1. StopStep /\ j = Len(frames) /\ frames # <<>> /\ frames' # frames
    BY <1>0, <1>2, <1>3, StackMoves
  <2>2. MarkSession
    <3>1. ~JoinPrune
      BY <2>1, PopIs DEF JoinPrune, IInv, Types
    <3> QED BY <1>1, <2>1, <3>1, StopSteps DEF StopStep, Becomes, IInv
  <2>3. Current(Top) \in Clients /\ Top.at = "mark"
    BY <1>0, <2>2, FrameFields DEF MarkSession, StopAt, Current
  <2>4. /\ frames'[j].fd = fd[Current(Top)] /\ Current(frames'[j]) = Current(Top)
        /\ UNCHANGED <<fd, table, running, apc, shut>>
    BY <2>1, <2>2, StopSteps DEF IInv, Becomes, Current, MarkSession, serverVars, acceptVars
  <2>5. PICK c \in Clients : c = Current(Top)
    BY <2>3
  <2>6. Holds(fd[c], c) \/ (Loose(fd[c]) /\ (Cut(j) \/ spc[c] = "forget"))
    <3>1. FdOwned(c) /\ StopPlace(j) /\ Top = frames[j] /\ Joining(Top)
      BY <1>0, <1>2, <2>1, <2>3 DEF IInv, Inv, FdInv, StopInv, Joining
    <3>2. CASE spc[c] = "forget" /\ fd[c] # 0
      <4>1. Pending(c)
        BY <1>2, <2>5, <3>1, CurrentIsPending DEF Pending
      <4> QED BY <3>1, <3>2, <4>1 DEF FdOwned, Forgets, StopPlace, Joining, Loose, Sealed
    <3>3. CASE Stale(c)
      <4>1. PICK m \in DOMAIN frames : frames[m].at = "forget" /\ Cut(m)
        BY <3>3 DEF Stale, CutForgets
      <4>2. m # j
        BY <2>3, <3>1, <4>1
      <4>3. m \in 1..(j - 1)
        BY <1>0, <2>1, <4>1, <4>2
      <4>4. Cut(j)
        BY <1>0, <1>2, <4>1, <4>3 DEF Cut
      <4> QED BY <3>3, <4>4 DEF Stale
    <3> QED BY <3>1, <3>2, <3>3 DEF FdOwned, Holds
  <2>7. Cut(j)' <=> Cut(j)
    BY <1>2, StackMoves
  <2>8. spc' = spc
    BY <2>2 DEF MarkSession
  <2> QED BY <2>4, <2>5, <2>6, <2>7, <2>8 DEF Holds, Agrees, Loose, Sealed
<1>4. CASE frames'[j] = frames[j]
  <2>1. frames[j] \in Frames /\ frames[j].at = "close"
    BY <1>1, <1>2, <1>4, StackShape DEF IInv, Types
  <2>2. PICK n \in MaybeFd, o \in Clients : n = frames[j].fd /\ o = Current(frames[j])
    BY <2>1, FrameFields DEF Current
  <2> DEFINE Known == Cut(j) \/ spc[o] \in {"forget", "done"}
  <2>3. Agrees(n, o) /\ (Holds(n, o) \/ (Loose(n) /\ Known)) /\ ~Away(o)
    BY <1>2, <2>1, <2>2, FrameFields DEF IInv, Inv, FdInv, CloseOwned, QuietInv, Sweep,
       Current
  <2>4. Agrees(n, o)'
    BY <2>3, AgreesStays
  <2>5. Cut(j)' <=> Cut(j)
    BY <1>2, StackMoves
  <2>6. ASSUME n # 0, ~Sealed, table'[n] = "free" PROVE Loose(n)' /\ Cut(j)'
    BY <1>2, <2>1, <2>5, <2>6, ClosedIsLoose DEF Joining, MaybeFd
  <2>7. ASSUME Loose(n), Known PROVE Loose(n)' /\ Known'
    BY <2>5, <2>7, LooseStays, SessionOnwards DEF Loose, MaybeFd, SessionOnward
  <2>8. Holds(n, o)' \/ (Loose(n)' /\ Known')
    BY <2>3, <2>6, <2>7, HoldsStays
  <2> QED BY <1>4, <2>2, <2>4, <2>8
<1> QED BY <1>3, <1>4

-------------------------------------------------------------------------------
(* How far a stop() call has got.                                            *)

\* Shutting the listener down seals the relay.
LEMMA ShutSeals ==
  ASSUME IInv, Next, ShutListener, Top.fd # 0 \/ ~Cut(Len(frames)),
         apc \notin {"unborn", "socket"}
  PROVE  Sealed'
<1>1. /\ frames # <<>> /\ Top.at = "shut" /\ UNCHANGED <<running, apc>>
      /\ shut' = (shut \/ (Top.fd # 0 /\ table[Top.fd] = "listener" /\ apc \in
                             {"loop", "accept", "push", "spawn", "erase", "close"}))
  BY DEF ShutListener, StopAt, acceptVars
<1>2. StopPlace(Len(frames)) /\ Top = frames[Len(frames)] /\ OwnServer
  BY <1>1, TopIsLast DEF IInv, Inv, FdInv
<1>3. ~running
  BY <1>1, <1>2 DEF StopPlace
<1>4. apc = "accept" => shut'
  <2>1. CASE Top.fd = 0
    BY <1>1, <1>2, <2>1 DEF StopPlace
  <2>2. CASE Top.fd # 0
    <3>1. Taken(Top.fd)
      BY <1>1, <1>2, <2>2 DEF StopPlace
    <3>2. apc = "accept" => table[Top.fd] = "listener"
      BY <1>2, <2>2, <3>1 DEF Taken, OwnServer
    <3> QED BY <1>1, <2>2, <3>2
  <2> QED BY <2>1, <2>2
<1> QED BY <1>1, <1>3, <1>4 DEF Sealed

\* Where a stop() call has got to, and what it has done by then.
LEMMA StopPlaces ==
  ASSUME IInv, Next, NEW j \in DOMAIN frames'
  PROVE  StopPlace(j)'
<1>0. ServerOnward /\ ListenerKnown /\ AcceptPlace
  BY ServerOnwards DEF IInv, Inv, StopInv, ThreadInv
<1>1. CASE j \notin DOMAIN frames
  <2>1. frames'[j].at \in {"stats", "flag"}
    BY <1>1, StackMoves
  <2> QED BY <2>1 DEF StopPlace, Joining
<1>2. CASE j \in DOMAIN frames /\ frames'[j] = frames[j]
  <2>1. frames # <<>> /\ StopPlace(j) /\ frames[j] \in Frames /\ (Cut(j)' <=> Cut(j))
    BY <1>2, StackShape, StackMoves DEF IInv, Types, Inv, StopInv
  <2>2. frames[j].fd \in MaybeFd
    BY <2>1, FrameFields
  <2>3. (frames[j].at = "shut" /\ frames[j].fd # 0) => Taken(frames[j].fd)'
    <3>1. PICK n \in MaybeFd : n = frames[j].fd
      BY <2>2
    <3>2. (frames[j].at = "shut" /\ n # 0) => Taken(n)'
      BY <1>0, <2>1, <3>1 DEF StopPlace, ServerOnward, MaybeFd
    <3> QED BY <1>2, <3>1, <3>2 DEF Taken
  <2>4. (frames[j].at = "shut" /\ frames[j].fd = 0 /\ apc' = "accept") => shut' \/ Cut(j)'
    BY <1>0, <2>1 DEF StopPlace, ServerOnward
  <2>5. Joining(frames[j]) => Sealed' \/ Cut(j)'
    BY <1>0, <2>1 DEF StopPlace, ServerOnward
  <2>6. frames[j].at \notin {"stats", "print", "flag"} => ~running'
    BY <1>0, <2>1 DEF StopPlace, ServerOnward
  <2> QED BY <1>2, <2>3, <2>4, <2>5, <2>6 DEF StopPlace
<1>3. CASE j \in DOMAIN frames /\ frames'[j] # frames[j]
  <2>1. /\ j = Len(frames) /\ frames # <<>> /\ StopStep /\ frames' # frames /\ ~JoinPrune
        /\ Top = frames[j] /\ StopPlace(j) /\ (Cut(j)' <=> Cut(j))
    BY <1>3, TopSteps, TopIsLast, StackMoves
  <2>2. CASE LockStorage \/ PrintStats
    <3>1. frames'[j].at \in {"print", "flag"}
      BY <2>1, <2>2, StopSteps DEF IInv, Becomes
    <3> QED BY <3>1 DEF StopPlace, Joining
  <2>3. CASE ClearRunning
    <3>1. frames'[j].at = "exchange" /\ ~running'
      BY <2>1, <2>3, StopSteps DEF IInv, Becomes, ClearRunning
    <3> QED BY <3>1 DEF StopPlace, Joining
  <2>4. CASE TakeListener
    <3>1. /\ frames'[j].at = "shut" /\ frames'[j].fd = listenFd /\ Top.at = "exchange"
          /\ UNCHANGED <<running, shut, apc, serverFd, table>>
      BY <2>1, <2>4, StopSteps DEF IInv, Becomes, TakeListener, StopAt, acceptVars
    <3>2. ~running
      BY <2>1, <3>1 DEF StopPlace
    <3>3. (listenFd = 0 /\ apc = "accept") => shut \/ Cut(j)
      <4>1. SUFFICES ASSUME listenFd = 0, apc = "accept", ~shut PROVE Cut(j)
        OBVIOUS
      <4>2. serverFd # 0 /\ ~Sealed
        BY <1>0, <4>1 DEF AcceptPlace, Sealed
      <4>3. PICK m \in DOMAIN frames : frames[m].at = "shut" /\ frames[m].fd = serverFd
        BY <1>0, <4>1, <4>2 DEF ListenerKnown, Serving
      <4>4. m \in 1..(j - 1)
        BY <2>1, <3>1, <4>3, StackShape DEF IInv, Types
      <4> QED BY <4>2, <4>3, <4>4 DEF Cut
    <3>4. listenFd # 0 => Taken(listenFd)
      BY <1>0 DEF ListenerKnown
    <3> QED BY <2>1, <3>1, <3>3, <3>4 DEF StopPlace, Taken, Joining
  <2>5. CASE ShutListener
    <3>1. /\ frames'[j].at = (IF sessions = <<>> THEN "clear" ELSE "mark") /\ frames'[j].fd = 0
          /\ Top.at = "shut"
          /\ UNCHANGED <<running, apc>>
      BY <2>1, <2>5, StopSteps DEF IInv, Becomes, ShutListener, StopAt, acceptVars
    <3>2. ~running
      BY <2>1, <3>1 DEF StopPlace
    <3>3. sessions # <<>> => Sealed' \/ Cut(j)'
      <4>1. sessions # <<>> => apc \notin {"unborn", "socket"}
        BY <1>0 DEF AcceptPlace
      <4> QED BY <2>1, <2>5, <4>1, ShutSeals
    <3> QED BY <3>1, <3>2, <3>3 DEF StopPlace, Joining
  <2>6. CASE MarkSession \/ CloseSession \/ ForgetSession \/ JoinSession
    <3>1. /\ frames'[j].at \in {"close", "forget", "join", "mark", "clear"}
          /\ Joining(Top)
      BY <2>1, <2>6, StopSteps DEF IInv, Becomes, MarkSession, CloseSession, ForgetSession,
         JoinSession, StopAt, Joining
    <3>2. ~running /\ (Sealed \/ Cut(j))
      BY <2>1, <3>1 DEF StopPlace, Joining
    <3>3. ~running' /\ (Sealed' \/ Cut(j)')
      BY <1>0, <2>1, <3>2 DEF ServerOnward
    <3> QED BY <3>1, <3>3 DEF StopPlace
  <2>7. CASE ClearSessions \/ JoinAccept
    <3>1. /\ frames'[j].at \in {"joinAccept", "joinPrune"} /\ Top.at \in {"clear", "joinAccept"}
      BY <2>1, <2>7, StopSteps DEF IInv, Becomes, ClearSessions, JoinAccept, StopAt
    <3>2. ~running'
      BY <1>0, <2>1, <3>1 DEF StopPlace, ServerOnward
    <3> QED BY <3>1, <3>2 DEF StopPlace, Joining
  <2> QED BY <2>1, <2>2, <2>3, <2>4, <2>5, <2>6, <2>7 DEF StopStep
<1> QED BY <1>1, <1>2, <1>3

\* Who knows the listener's number.
LEMMA ListenerStaysKnown ==
  ASSUME IInv, Next
  PROVE  ListenerKnown'
<1>0. ServerOnward /\ ListenerKnown /\ AcceptPlace /\ serverFd \in MaybeFd /\ listenFd \in MaybeFd
  BY ServerOnwards DEF IInv, Inv, StopInv, ThreadInv, Types, AcceptType, FlagType
<1>1. CASE PublishListener
  BY <1>0, <1>1 DEF PublishListener, ListenerKnown, Taken, Serving
<1>2. CASE CannotListen
  BY <1>2 DEF CannotListen, ListenerKnown, Serving
<1>3. CASE ~PublishListener /\ ~CannotListen
  <2>1. apc' \in Serving => apc \in Serving /\ serverFd' = serverFd
    <3>1. AcceptStep \/ AcceptClient => (apc' \in Serving => apc \in Serving)
      BY <1>3 DEF AcceptStep, OpenSocket, Listen, AcceptLoop, AcceptFails, PushSession,
         StartSession, EraseEnded, CloseListener, AcceptClient, AcceptAt, Serving
    <3>2. SpawnAccept => apc' \notin Serving
      BY DEF SpawnAccept, Serving
    <3>3. OpenSocket \/ CloseListener => apc' \notin Serving
      BY DEF OpenSocket, CloseListener, Serving
    <3> QED BY <1>3, <3>1, <3>2, <3>3, StepChanges DEF Changes
  <2>2. apc' \in {"unborn", "socket", "publish"} => apc \in {"unborn", "socket", "publish"}
    <3>1. AcceptStep \/ AcceptClient =>
            (apc' \in {"unborn", "socket", "publish"} => apc \in {"unborn", "socket", "publish"})
      BY <1>3 DEF AcceptStep, OpenSocket, Listen, AcceptLoop, AcceptFails, PushSession,
         StartSession, EraseEnded, CloseListener, AcceptClient, AcceptAt
    <3>2. SpawnAccept => apc = "unborn"
      BY DEF SpawnAccept, MainAt, IInv, Inv, ThreadInv, MainPlace
    <3> QED BY <1>3, <3>1, <3>2, StepChanges DEF Changes
  <2>3. listenFd' = listenFd \/ (TakeListener /\ listenFd' = 0)
    BY <1>3, StepChanges DEF Changes, TakeListener
  <2>4. (listenFd # 0 => Taken(listenFd))'
    <3>1. PICK n \in MaybeFd : n = listenFd
      BY <1>0
    <3>2. n # 0 => Taken(n)'
      BY <1>0, <3>1 DEF ListenerKnown, ServerOnward, MaybeFd
    <3> QED BY <2>3, <3>1, <3>2 DEF Taken
  <2>5. ASSUME apc' \in Serving
        PROVE  \/ listenFd' = serverFd' \/ Sealed'
               \/ \E j \in DOMAIN frames' : frames'[j].at = "shut" /\ frames'[j].fd = serverFd'
    <3>1. apc \in Serving /\ serverFd' = serverFd /\ serverFd # 0 /\ apc \notin {"unborn", "socket"}
      BY <1>0, <2>1, <2>5 DEF AcceptPlace, Serving
    <3>2. CASE Sealed
      BY <1>0, <3>2 DEF ServerOnward
    <3>3. CASE listenFd = serverFd
      <4>1. CASE TakeListener
        <5>1. frames # <<>> /\ Becomes("shut", listenFd, Top.seen, Top.i)
          BY <4>1, StopSteps DEF IInv, TakeListener, StopAt
        <5>2. /\ Len(frames) \in DOMAIN frames' /\ frames'[Len(frames)].at = "shut"
              /\ frames'[Len(frames)].fd = listenFd
          BY <5>1, TopIsLast DEF Becomes
        <5> QED BY <3>1, <3>3, <5>2
      <4>2. CASE ~TakeListener
        BY <2>3, <3>1, <3>3, <4>2
      <4> QED BY <4>1, <4>2
    <3>4. CASE \E j \in DOMAIN frames : frames[j].at = "shut" /\ frames[j].fd = serverFd
      <4>1. PICK j \in DOMAIN frames : frames[j].at = "shut" /\ frames[j].fd = serverFd
        BY <3>4
      <4>2. CASE j \in DOMAIN frames' /\ frames'[j] = frames[j]
        BY <3>1, <4>1, <4>2
      <4>3. CASE j \notin DOMAIN frames' \/ frames'[j] # frames[j]
        <5>1. StopStep /\ j = Len(frames) /\ frames # <<>> /\ Top = frames[j]
          BY <4>3, StackMoves, TopIsLast, StackShape DEF IInv, Types
        <5>2. ShutListener
          BY <4>1, <5>1 DEF StopStep, LockStorage, PrintStats, ClearRunning, TakeListener,
             MarkSession, CloseSession, ForgetSession, JoinSession, ClearSessions, JoinAccept,
             JoinPrune, StopAt
        <5> QED BY <3>1, <4>1, <5>1, <5>2, ShutSeals
      <4> QED BY <4>2, <4>3
    <3> QED BY <1>0, <3>1, <3>2, <3>3, <3>4 DEF ListenerKnown
  <2>6. apc' \in {"unborn", "socket", "publish"} => listenFd' = 0
    BY <1>0, <2>2, <2>3 DEF ListenerKnown
  <2> QED BY <2>4, <2>5, <2>6 DEF ListenerKnown
<1> QED BY <1>1, <1>2, <1>3

\* Sessions come late only when the relay takes no more clients.
LEMMA LateIsSealed ==
  ASSUME IInv, Next, late' # {}
  PROVE  Sealed'
<1>1. CASE late' = late
  BY <1>1, ServerOnwards DEF IInv, Inv, StopInv, ServerOnward
<1>2. CASE late' # late
  <2>1. PushSession /\ (~running \/ late' = late)
    BY <1>2, StepChanges DEF Changes, PushSession
  <2> QED BY <1>2, <2>1 DEF PushSession, Sealed, serverVars
<1> QED BY <1>1, <1>2

-------------------------------------------------------------------------------
(* What becomes of the sessions.                                             *)

\* Once running_ is cleared, only late sessions are added.
LEMMA NoneAdded ==
  ASSUME IInv, Next
  PROVE  /\ ~running => Members(sessions') \subseteq Members(sessions) \cup late'
         /\ late \subseteq late'
         /\ ~EraseEnded /\ ~ClearSessions => Members(sessions) \subseteq Members(sessions')
         /\ PushSession => newest \in Members(sessions')
<1>0. sessions \in Seq(Clients) /\ live \in [Clients -> BOOLEAN]
  BY DEF IInv, Types, ListType, SessionType
<1>1. ASSUME PushSession
      PROVE  /\ Members(sessions') = Members(sessions) \cup {newest}
             /\ ~running => newest \in late'
  <2>1. newest \in Clients /\ sessions' = Append(sessions, newest)
    BY <1>1 DEF PushSession, AcceptAt, IInv, Inv, ThreadInv, AcceptPlace
  <2> QED BY <1>0, <1>1, <2>1, MembersAppend DEF PushSession
<1>2. EraseEnded => Members(sessions') \subseteq Members(sessions)
  BY <1>0, RemainingIs DEF EraseEnded
<1>3. ClearSessions => Members(sessions') = {}
  BY DEF ClearSessions, Members
<1>4. late \subseteq late'
  BY StepChanges DEF Changes, PushSession
<1>5. sessions' = sessions \/ PushSession \/ EraseEnded \/ ClearSessions
  BY StepChanges DEF Changes
<1> QED BY <1>1, <1>2, <1>3, <1>4, <1>5

\* A session that was registered in time is waited for until it is quiet.
LEMMA AwaitedStays ==
  ASSUME IInv, Next, NEW c \in Clients
  PROVE  Awaited(c)'
<1>0. /\ Awaited(c) /\ SessionPlace(c) /\ AcceptPlace /\ SessionOnward(c)
      /\ live \in [Clients -> BOOLEAN]
  BY SessionOnwards DEF IInv, Inv, QuietInv, ThreadInv, Types, SessionType
<1>1. ASSUME Pending(c) PROVE Pending(c)' \/ Quiet(c)'
  <2>1. PICK j \in DOMAIN frames : Joins(frames[j], c)
    BY <1>1 DEF Pending
  <2>2. (j \in DOMAIN frames' /\ Joins(frames'[j], c)) \/ Quiet(c)
    BY <2>1, JoinsStay
  <2> QED BY <1>0, <2>2 DEF Pending, SessionOnward
<1>2. Marked(c) => Pending(c)
  BY CurrentIsPending DEF Marked, Pending, Joining
<1>3. ASSUME Registered(c)', c \notin late'
      PROVE  Quiet(c)' \/ c \in Members(sessions') \/ Pending(c)'
  <2>1. c \notin late
    BY <1>0, <1>3 DEF SessionOnward
  <2>2. CASE Registered(c)
    <3>1. CASE Quiet(c)
      BY <1>0, <3>1 DEF SessionOnward
    <3>2. CASE Pending(c)
      BY <1>1, <3>2
    <3>3. CASE c \in Members(sessions)
      <4>1. CASE ClearSessions
        <5>1. frames # <<>> /\ Top.at = "clear"
          BY <4>1 DEF ClearSessions, StopAt
        <5>2. Sweep(Top) /\ Top \in Frames
          BY <5>1, TopIsLast
        <5>3. PICK k \in DOMAIN Top.seen : Top.seen[k] = c
          BY <2>1, <3>3, <5>1, <5>2 DEF Sweep, Members
        <5>4. k \in 1..(Top.i - 1)
          BY <5>1, <5>2, <5>3, FrameFields DEF Sweep
        <5> QED BY <1>0, <5>1, <5>2, <5>3, <5>4 DEF Sweep, SessionOnward
      <4>2. CASE EraseEnded
        <5>1. CASE live[c]
          <6>1. sessions' = Remaining(sessions, live)
            BY <4>2 DEF EraseEnded
          <6> QED BY <1>0, <3>3, <5>1, <6>1, RemainingIs DEF IInv, Types, ListType
        <5>2. CASE ~live[c]
          <6>1. spc[c] # "unborn"
            BY <1>0, <2>2, <4>2 DEF SessionPlace, Registered, EraseEnded, AcceptAt
          <6>2. Quiet(c) \/ Pending(c)
            BY <1>0, <1>2, <5>2, <6>1 DEF Awaited
          <6> QED BY <3>1, <3>2, <6>2
        <5> QED BY <5>1, <5>2
      <4>3. CASE ~ClearSessions /\ ~EraseEnded
        BY <3>3, <4>3, NoneAdded
      <4> QED BY <4>1, <4>2, <4>3
    <3> QED BY <1>0, <2>1, <2>2, <3>1, <3>2, <3>3 DEF Awaited
  <2>3. CASE ~Registered(c)
    <3>1. CASE Away(c)
      <4>1. AcceptClient \/ \E d \in Clients : Leave(d)
        BY <1>3, <3>1, StepChanges DEF Changes, Registered, Away
      <4>2. ASSUME NEW d \in Clients, Leave(d) PROVE Away(c)'
        BY <3>1, <4>2 DEF Leave, Away
      <4>3. ASSUME AcceptClient PROVE Away(c)' \/ (apc' = "push" /\ newest' = c)
        BY <3>1, <4>3 DEF AcceptClient, Away
      <4> QED BY <1>3, <4>1, <4>2, <4>3 DEF Registered
    <3>2. CASE apc = "push" /\ newest = c
      <4>1. newest' = newest
        BY <3>2, StepChanges DEF Changes, AcceptClient, EraseEnded, AcceptAt
      <4>2. apc' # "push"
        BY <1>3, <3>2, <4>1 DEF Registered
      <4>3. ~SpawnAccept
        BY <3>2 DEF SpawnAccept, MainAt, IInv, Inv, ThreadInv, MainPlace
      <4>4. PushSession
        BY <3>2, <4>2, <4>3, StepChanges DEF Changes, AcceptStep, OpenSocket,
           PublishListener, Listen, CannotListen, AcceptLoop, AcceptFails, StartSession,
           EraseEnded, CloseListener, AcceptClient, AcceptAt
      <4> QED BY <3>2, <4>4, NoneAdded
    <3> QED BY <2>3, <3>1, <3>2 DEF Registered
  <2> QED BY <2>2, <2>3
<1>4. ASSUME spc'[c] # "unborn", ~live'[c]
      PROVE  Quiet(c)' \/ Marked(c)'
  <2>1. CASE StartSession
    <3>1. newest \in Clients /\ spc' = [spc EXCEPT ![newest] = "handshake"]
          /\ live' = [live EXCEPT ![newest] = TRUE]
      BY <1>0, <2>1 DEF StartSession, AcceptPlace, AcceptAt
    <3>2. c # newest
      BY <1>0, <1>4, <3>1
    <3>3. spc[c] # "unborn" /\ ~live[c]
      BY <1>0, <1>4, <3>1
    <3>4. frames' = frames
      BY <2>1 DEF StartSession
    <3> QED BY <1>0, <3>3, <3>4 DEF Awaited, SessionOnward, Marked
  <2>2. CASE ~StartSession
    <3>1. spc[c] # "unborn"
      <4>1. ASSUME NEW d \in Clients, OfSession(d) PROVE spc[c] # "unborn"
        BY <1>4, <4>1, SessionMoves
      <4> QED BY <1>4, <2>2, <4>1, StepChanges DEF Changes
    <3>2. CASE live[c]
      <4>1. CASE MarkSession
        <5>1. /\ frames # <<>> /\ Current(Top) = c
              /\ Becomes("close", fd[Current(Top)], Top.seen, Top.i)
          BY <1>4, <3>2, <4>1, StopSteps DEF IInv, MarkSession, StopAt, Current
        <5> QED BY <5>1, TopIsLast DEF Becomes, Marked, Current
      <4>2. ASSUME NEW d \in Clients, Reject(d) \/ ReadLoop(d) \/ Message(d) \/ Leave(d)
            PROVE  Quiet(c)'
        <5>1. d = c
          <6>1. OfSession(d)
            BY <4>2 DEF OfSession, SessionStep
          <6> QED BY <1>4, <3>2, <6>1, SessionMoves
        <5>2. spc'[c] \in {"hangup", "done"}
          BY <1>4, <3>2, <4>2 DEF Reject, ReadLoop, Message, Leave, Finish, SessionGoto,
             IInv, Types, SessionType
        <5> QED BY <5>2 DEF Quiet
      <4> QED BY <1>4, <2>2, <3>2, <4>1, <4>2, StepChanges DEF Changes
    <3>3. CASE ~live[c]
      <4>1. CASE Quiet(c)
        BY <1>0, <4>1 DEF SessionOnward
      <4>2. CASE Marked(c)
        <5>1. PICK j \in DOMAIN frames :
                frames[j].at \in {"close", "forget", "join"} /\ Current(frames[j]) = c
          BY <4>2 DEF Marked
        <5>2. CASE j \in DOMAIN frames' /\ frames'[j] = frames[j]
          BY <5>1, <5>2 DEF Marked
        <5>3. CASE j \notin DOMAIN frames' \/ frames'[j] # frames[j]
          <6>1. StopStep /\ j = Len(frames) /\ frames # <<>> /\ Top = frames[j]
                /\ frames' # frames
            BY <5>3, StackMoves, TopIsLast, StackShape DEF IInv, Types
          <6>2. CloseSession \/ ForgetSession \/ JoinSession
            BY <5>1, <6>1 DEF StopStep, LockStorage, PrintStats, ClearRunning, TakeListener,
               ShutListener, MarkSession, ClearSessions, JoinAccept, JoinPrune, StopAt
          <6>3. CASE CloseSession \/ ForgetSession
            <7>1. PICK at \in {"forget", "join"} : Becomes(at, 0, Top.seen, Top.i)
              BY <6>3, StopSteps DEF IInv
            <7> QED BY <5>1, <6>1, <7>1 DEF Becomes, Marked, Current
          <6>4. CASE JoinSession
            <7>1. spc[c] \in {"unborn", "done"}
              BY <5>1, <6>1, <6>4 DEF JoinSession, Current
            <7> QED BY <1>0, <3>1, <7>1 DEF Quiet, SessionOnward
          <6> QED BY <6>2, <6>3, <6>4
        <5> QED BY <5>2, <5>3
      <4> QED BY <1>0, <3>1, <3>3, <4>1, <4>2 DEF Awaited
    <3> QED BY <3>2, <3>3
  <2> QED BY <2>1, <2>2
<1> QED BY <1>3, <1>4 DEF Awaited

\* What a call of stop() knows of the sessions goes on being true.
LEMMA SweepStays ==
  ASSUME IInv, Next, NEW j \in DOMAIN frames'
  PROVE  Sweep(frames[j])'
<1>0. ServerOnward /\ \A c \in Clients : SessionOnward(c)
  BY ServerOnwards, SessionOnwards
<1>1. CASE j \notin DOMAIN frames
  <2>1. frames'[j].at \in {"stats", "flag"} /\ frames'[j].seen = <<>>
    BY <1>1, StackMoves
  <2> QED BY <2>1 DEF Sweep, Joining
<1>2. CASE j \in DOMAIN frames /\ frames'[j] = frames[j]
  <2>1. PICK f \in Frames : f = frames[j] /\ Sweep(f) /\ StopPlace(j)
    BY <1>2, StackShape DEF IInv, Types, Inv, StopInv, QuietInv
  <2>2. frames # <<>>
    BY <1>2, StackShape DEF IInv, Types
  <2>3. \A k \in DOMAIN f.seen : ~Away(f.seen[k])'
    BY <1>0, <2>1, FrameFields DEF Sweep, SessionOnward
  <2>4. Joining(f) \/ f.at = "clear" =>
          /\ Members(sessions') \subseteq late' \cup Members(f.seen)
          /\ \A k \in 1..(f.i - 1) : Quiet(f.seen[k])'
    <3> SUFFICES ASSUME Joining(f) \/ f.at = "clear"
                 PROVE  /\ Members(sessions') \subseteq late' \cup Members(f.seen)
                        /\ \A k \in 1..(f.i - 1) : Quiet(f.seen[k])'
      OBVIOUS
    <3>1. ~running
      BY <2>1 DEF StopPlace, Joining
    <3>2. Members(sessions') \subseteq late' \cup Members(f.seen)
      BY <2>1, <3>1, NoneAdded DEF Sweep
    <3>3. ASSUME NEW k \in 1..(f.i - 1) PROVE Quiet(f.seen[k])'
      <4>1. k \in DOMAIN f.seen /\ f.seen[k] \in Clients
        BY <2>1, <3>3, FrameFields
      <4> QED BY <1>0, <2>1, <3>3, <4>1 DEF Sweep, SessionOnward
    <3> QED BY <3>2, <3>3
  <2>5. (f.at = "close" /\ f.fd = 0) \/ f.at = "join" => fd'[Current(f)] = 0
    <3> SUFFICES ASSUME (f.at = "close" /\ f.fd = 0) \/ f.at = "join" PROVE fd'[Current(f)] = 0
      OBVIOUS
    <3>1. Current(f) \in Clients /\ ~Away(Current(f)) /\ fd[Current(f)] = 0
      BY <2>1, FrameFields DEF Sweep, Current
    <3> QED BY <1>0, <3>1 DEF SessionOnward
  <2>6. f.at = "joinPrune" => apc' \in {"unborn", "done"}
    <3>1. ~SpawnAccept
      BY <2>2 DEF SpawnAccept, MainAt
    <3>2. apc = "unborn" => apc' = "unborn"
      BY <3>1, StepChanges DEF Changes, AcceptStep, OpenSocket, PublishListener, Listen,
         CannotListen, AcceptLoop, AcceptFails, PushSession, StartSession, EraseEnded,
         CloseListener, AcceptClient, AcceptAt
    <3> QED BY <1>0, <2>1, <3>2 DEF Sweep, ServerOnward
  <2>7. f.at \in {"joinAccept", "joinPrune"} => AllLate'
    BY <2>1, NoneAdded DEF Sweep, StopPlace, AllLate
  <2> QED BY <1>2, <2>1, <2>3, <2>4, <2>5, <2>6, <2>7 DEF Sweep
<1>3. CASE j \in DOMAIN frames /\ frames'[j] # frames[j]
  <2>1. PICK t \in Frames :
             /\ j = Len(frames) /\ frames # <<>> /\ StopStep /\ frames' # frames /\ ~JoinPrune
             /\ t = Top /\ t = frames[j] /\ Sweep(t) /\ StopPlace(j)
    BY <1>3, TopSteps, TopIsLast
  <2>2. \A k \in DOMAIN t.seen : t.seen[k] \in Clients /\ ~Away(t.seen[k])'
    BY <1>0, <2>1, FrameFields DEF Sweep, SessionOnward
  <2>3. CASE LockStorage \/ PrintStats \/ ClearRunning \/ TakeListener
    <3>1. /\ frames'[j].at \in {"print", "flag", "exchange", "shut"}
          /\ frames'[j].seen = t.seen
      BY <2>1, <2>3, StopSteps DEF IInv, Becomes
    <3> QED BY <2>2, <3>1 DEF Sweep, Joining
  <2>4. CASE ShutListener
    <3>1. /\ frames'[j].at = (IF sessions = <<>> THEN "clear" ELSE "mark")
          /\ frames'[j].seen = sessions /\ frames'[j].i = 1
          /\ UNCHANGED <<sessions, client>>
      BY <2>1, <2>4, StopSteps DEF IInv, Becomes, ShutListener, clientVars
    <3>2. \A k \in DOMAIN sessions : sessions[k] \in Clients /\ ~Away(sessions[k])
      <4>1. ASSUME NEW k \in DOMAIN sessions PROVE sessions[k] \in Clients /\ ~Away(sessions[k])
        <5>1. sessions[k] \in Clients /\ sessions[k] \in Members(sessions)
          BY DEF IInv, Types, ListType, Members
        <5> QED BY <5>1 DEF IInv, Inv, ThreadInv, SessionPlace
      <4> QED BY <4>1
    <3>3. sessions = <<>> => Len(sessions) = 0
      OBVIOUS
    <3> QED BY <3>1, <3>2, <3>3 DEF Sweep, Joining, Away
  <2>5. CASE MarkSession
    <3>1. /\ frames'[j].at = "close" /\ frames'[j].seen = t.seen /\ frames'[j].i = t.i
          /\ frames'[j].fd = fd[Current(t)] /\ t.at = "mark"
          /\ UNCHANGED <<sessions, late, fd>>
      BY <2>1, <2>5, StopSteps DEF IInv, Becomes, MarkSession, StopAt
    <3>2. ASSUME NEW k \in 1..(t.i - 1) PROVE Quiet(t.seen[k])'
      <4>1. t.seen[k] \in Clients
        BY <2>1, <3>2, FrameFields
      <4> QED BY <1>0, <2>1, <3>1, <4>1 DEF Sweep, SessionOnward, Joining
    <3> QED BY <2>1, <2>2, <3>1, <3>2 DEF Sweep, Joining, Current
  <2>6. CASE CloseSession
    <3>1. /\ frames'[j].at = (IF t.fd = 0 THEN "join" ELSE "forget") /\ t.at = "close"
          /\ frames'[j].seen = t.seen /\ frames'[j].i = t.i /\ frames'[j].fd = 0
          /\ UNCHANGED <<sessions, late, fd>>
      BY <2>1, <2>6, StopSteps DEF IInv, Becomes, CloseSession, StopAt, sessionVars
    <3>2. ASSUME NEW k \in 1..(t.i - 1) PROVE Quiet(t.seen[k])'
      <4>1. t.seen[k] \in Clients
        BY <2>1, <3>2, FrameFields
      <4> QED BY <1>0, <2>1, <3>1, <4>1 DEF Sweep, SessionOnward, Joining
    <3>3. t.fd = 0 => fd'[Current(t)] = 0
      BY <2>1, <3>1 DEF Sweep
    <3> QED BY <2>1, <2>2, <3>1, <3>2, <3>3 DEF Sweep, Joining, Current
  <2>7. CASE JoinSession
    <3>1. /\ frames'[j].at = (IF t.i < Len(t.seen) THEN "mark" ELSE "clear")
          /\ frames'[j].seen = t.seen /\ frames'[j].i = t.i + 1
          /\ frames'[j].fd = 0 /\ t.at = "join" /\ spc[Current(t)] \in {"unborn", "done"}
          /\ UNCHANGED <<sessions, late>>
      BY <2>1, <2>7, StopSteps DEF IInv, Becomes, JoinSession, StopAt, Current
    <3>2. /\ t.i \in DOMAIN t.seen /\ DOMAIN t.seen = 1..Len(t.seen)
          /\ Len(t.seen) \in Nat /\ t.i \in Nat
      BY <2>1, <3>1, FrameFields
    <3>3. ASSUME NEW k \in 1..t.i PROVE Quiet(t.seen[k])'
      <4>1. t.seen[k] \in Clients
        BY <2>1, <3>2, <3>3, FrameFields
      <4>2. CASE k = t.i
        <5>1. Current(t) \in Clients /\ ~Away(Current(t)) /\ fd[Current(t)] = 0
          BY <2>1, <3>1, <3>2, <4>1, <4>2 DEF Sweep, Current
        <5>2. Quiet(Current(t))
          BY <3>1, <5>1 DEF Quiet
        <5> QED BY <1>0, <4>2, <5>1, <5>2 DEF SessionOnward, Current
      <4>3. CASE k # t.i
        <5>1. k \in 1..(t.i - 1)
          BY <3>2, <3>3, <4>3
        <5> QED BY <1>0, <2>1, <3>1, <4>1, <5>1 DEF Sweep, SessionOnward, Joining
      <4> QED BY <4>2, <4>3
    <3>4. 1..((t.i + 1) - 1) = 1..t.i /\ (~(t.i < Len(t.seen)) => t.i + 1 = Len(t.seen) + 1)
      BY <3>2
    <3>5. Members(sessions') \subseteq late' \cup Members(t.seen)
      BY <2>1, <3>1 DEF Sweep, Joining
    <3> QED BY <2>2, <3>1, <3>3, <3>4, <3>5 DEF Sweep, Joining
  <2>8. CASE ClearSessions
    <3>1. frames'[j].at = "joinAccept" /\ frames'[j].seen = t.seen /\ sessions' = <<>>
      BY <2>1, <2>8, StopSteps DEF IInv, Becomes, ClearSessions
    <3>2. Members(sessions') = {}
      BY <3>1 DEF Members
    <3> QED BY <2>2, <3>1, <3>2 DEF Sweep, Joining, AllLate
  <2>9. CASE JoinAccept
    <3>1. /\ frames'[j].at = "joinPrune" /\ frames'[j].seen = t.seen
          /\ UNCHANGED <<sessions, late, apc>> /\ apc \in {"unborn", "done"} /\ t.at = "joinAccept"
      BY <2>1, <2>9, StopSteps DEF IInv, Becomes, JoinAccept, StopAt, acceptVars
    <3> QED BY <2>1, <2>2, <3>1 DEF Sweep, Joining, AllLate
  <2>10. CASE ForgetSession
    <3>1. /\ frames'[j].at = "join" /\ frames'[j].seen = t.seen /\ frames'[j].i = t.i
          /\ frames'[j].fd = 0 /\ t.at = "forget"
          /\ UNCHANGED <<sessions, late>>
          /\ fd' = [fd EXCEPT ![Current(t)] = 0]
      BY <2>1, <2>10, StopSteps DEF IInv, Becomes, ForgetSession, StopAt, Current
    <3>2. ASSUME NEW k \in 1..(t.i - 1) PROVE Quiet(t.seen[k])'
      <4>1. t.seen[k] \in Clients
        BY <2>1, <3>2, FrameFields
      <4> QED BY <1>0, <2>1, <3>1, <4>1 DEF Sweep, SessionOnward, Joining
    <3>3. fd'[Current(t)] = 0
      <4>1. Current(t) \in Clients
        BY <2>1, <3>1, FrameFields DEF Current
      <4> QED BY <2>1, <3>1, <4>1 DEF Sweep, IInv, Types, SessionType
    <3> QED BY <2>1, <2>2, <3>1, <3>2, <3>3 DEF Sweep, Joining, Current
  <2> QED BY <2>1, <2>3, <2>4, <2>5, <2>6, <2>7, <2>8, <2>9, <2>10 DEF StopStep
<1> QED BY <1>1, <1>2, <1>3

\* When main returns, everything is over.
LEMMA OverStays ==
  ASSUME IInv, Next, Over, mpc \in {"stop", "destroy", "exit"}
  PROVE  Over'
<1>1. ~running' /\ apc' = "done"
  BY ServerOnwards DEF ServerOnward, Over
<1>2. ppc' = "done"
  BY StepChanges DEF Changes, SpawnPrune, MainAt, Prune, PruneWaits, PruneEnds, PruneSleeps,
     Over
<1>3. AllLate'
  BY NoneAdded DEF AllLate, Over
<1> QED BY <1>1, <1>2, <1>3 DEF Over

\* main() waits for the outermost stop(), so by then everything is over.
LEMMA EndedStays ==
  ASSUME IInv, Next
  PROVE  Ended'
<1>0. Ended /\ MainPlace /\ AcceptPlace /\ PruneType
  BY DEF IInv, Inv, QuietInv, ThreadInv, Types
<1>1. ASSUME mpc \in {"stop", "destroy"}, mpc' = mpc, frames' = <<>>
      PROVE  Over'
  <2>1. CASE frames = <<>>
    BY <1>0, <1>1, <2>1, OverStays DEF Ended
  <2>2. CASE frames # <<>>
    <3>1. JoinPrune
      <4>1. StopStep /\ frames' # frames
        <5>1. ~StopStep => DOMAIN frames \subseteq DOMAIN frames'
          BY StackMoves
        <5>2. DOMAIN frames' = {} /\ DOMAIN frames # {}
          BY <1>1, <2>2, StackShape DEF IInv, Types
        <5> QED BY <1>1, <2>2, <5>1, <5>2
      <4>2. \A at, n, seen, i : ~Becomes(at, n, seen, i)
        BY <1>1 DEF Becomes
      <4> QED BY <4>1, <4>2, StopSteps DEF StopStep, IInv
    <3>2. /\ Top.at = "joinPrune" /\ ppc \in {"unborn", "done"}
          /\ UNCHANGED <<running, apc, ppc, sessions, late>>
      BY <1>1, <3>1 DEF JoinPrune, StopAt, serverVars, acceptVars
    <3>3. ~running /\ apc \in {"unborn", "done"} /\ AllLate
      BY <2>2, <3>2, TopIsLast DEF StopPlace, Sweep
    <3> QED BY <1>0, <1>1, <3>2, <3>3 DEF MainPlace, Over, AllLate
  <2> QED BY <2>1, <2>2
<1>2. ASSUME mpc' # mpc, mpc' \in {"stop", "destroy"}
      PROVE  frames' # <<>>
  <2>1. MainStep
    BY <1>2, StepChanges DEF Changes
  <2>2. Call("flag")
    BY <1>2, <2>1 DEF MainStep, ParseOption, Configured, SetRunning, SpawnAccept,
       SpawnPrune, AwaitListening, PollRunning, Destroy, Exit
  <2> QED BY <2>2, CallIs DEF IInv, Types
<1>3. ASSUME mpc' = "exit"
      PROVE  Over' \/ (apc' = "unborn" /\ ppc' = "unborn" /\ \A c \in Clients : Away(c)')
  <2>1. CASE Exit
    BY <1>0, <2>1, OverStays DEF Exit, MainAt, Ended
  <2>2. CASE ParseOption
    <3>1. mpc = "parse" /\ UNCHANGED <<apc, ppc, client>>
      BY <2>2 DEF ParseOption, MainAt, acceptVars, clientVars
    <3> QED BY <1>0, <3>1 DEF MainPlace, AcceptPlace, Away
  <2>3. CASE mpc = "exit"
    <3>1. CASE Over
      BY <2>3, <3>1, OverStays
    <3>2. CASE apc = "unborn" /\ ppc = "unborn" /\ \A c \in Clients : Away(c)
      <4>1. apc' = "unborn" /\ ~AcceptClient
        BY <2>3, <3>2, StepChanges DEF Changes, SpawnAccept, MainAt, AcceptStep, OpenSocket,
           PublishListener, Listen, CannotListen, AcceptLoop, AcceptFails, PushSession,
           StartSession, EraseEnded, CloseListener, AcceptClient, AcceptAt
      <4>2. ppc' = "unborn"
        BY <2>3, <3>2, StepChanges DEF Changes, SpawnPrune, MainAt, Prune, PruneWaits,
           PruneEnds, PruneSleeps
      <4>3. client' = client
        BY <3>2, <4>1, StepChanges DEF Changes, Leave, Away
      <4> QED BY <3>2, <4>1, <4>2, <4>3 DEF Away
    <3> QED BY <1>0, <2>3, <3>1, <3>2 DEF Ended
  <2>4. CASE mpc # "exit" /\ ~Exit /\ ~ParseOption
    <3>1. MainStep
      BY <1>3, <2>4, StepChanges DEF Changes
    <3> QED BY <1>3, <2>4, <3>1 DEF MainStep, Configured, SetRunning, SpawnAccept,
       SpawnPrune, AwaitListening, PollRunning, Destroy
  <2> QED BY <2>1, <2>2, <2>3, <2>4
<1> QED BY <1>1, <1>2, <1>3 DEF Ended, Over, AllLate

-------------------------------------------------------------------------------
(* The theorems.                                                             *)

\* At first nothing has been started.
LEMMA InitHolds == Init => IInv
<1> SUFFICES ASSUME Init PROVE IInv
  OBVIOUS
<1> USE DEF Init
<1>1. /\ frames = <<>> /\ frames \in Seq(Frames) /\ DOMAIN frames = {} /\ sessions \in Seq(Clients)
      /\ Members(sessions) = {}
  BY DEF Members
<1>2. Types
  <2>1. MainType
    BY ProcessAssumption DEF MainType, MainAts
  <2>2. SessionType
    BY DEF SessionType, MaybeFd, SessionAts, NoAim
  <2> QED BY <1>1, <2>1, <2>2 DEF Types, StackType, FlagType, AcceptType, AcceptAts,
     PruneType, ListType, TableType, PeerType, RestType, MaybeFd
<1>3. ThreadInv
  BY <1>1 DEF ThreadInv, MainPlace, AcceptPlace, SessionPlace, Away
<1>4. FdInv
  BY <1>1 DEF FdInv, OwnServer, FdOwned, Holds, Forgets, AimOwned
<1>5. StopInv
  BY <1>1 DEF StopInv, ListenerKnown, Serving
<1>6. QuietInv
  BY <1>1 DEF QuietInv, Awaited, Registered, Away, Ended
<1> QED BY <1>2, <1>3, <1>4, <1>5, <1>6 DEF IInv, Inv

\* Every step keeps the invariant.
LEMMA StepKeeps ==
  ASSUME IInv, Next
  PROVE  IInv'
<1>1. Types'
  BY MainTypes, StopTypes, AcceptTypes, PruneTypes, SessionTypes DEF Next
<1>2. ThreadInv'
  BY MainPlaces, AcceptPlaces, SessionPlaces DEF ThreadInv
<1>3. FdInv'
  <2>1. \A c \in Clients : (FdOwned(c) /\ AimOwned(c))'
    BY SessionFdStays, ForgetsStays, AimStays DEF FdOwned
  <2>2. \A j \in DOMAIN frames' : (CloseOwned(j) /\ Silenced(j))'
    BY CloseStays, SilencedStays
  <2>3. OwnServer'
    BY OwnServerStays
  <2> QED BY <2>1, <2>2, <2>3 DEF FdInv
<1>4. StopInv'
  BY StopPlaces, ListenerStaysKnown, LateIsSealed DEF StopInv
<1>5. QuietInv'
  <2>1. \A c \in Clients : Awaited(c)'
    BY AwaitedStays
  <2>2. \A j \in DOMAIN frames' : Sweep(frames[j])'
    BY SweepStays
  <2>3. Ended'
    BY EndedStays
  <2> QED BY <2>1, <2>2, <2>3 DEF QuietInv
<1> QED BY <1>1, <1>2, <1>3, <1>4, <1>5 DEF IInv, Inv

\* So does a step that changes nothing.
LEMMA StutterKeeps ==
  ASSUME IInv, UNCHANGED vars
  PROVE  IInv'
<1> USE DEF vars, mainVars, serverVars, acceptVars, sessionVars, clientVars, IInv, Inv
<1>1. Types'
  BY SameTypes DEF Types
<1>2. ThreadInv'
  BY DEF ThreadInv, MainPlace, AcceptPlace, SessionPlace, Away
<1>3. FdInv'
  BY DEF FdInv, OwnServer, FdOwned, Holds, Sealed, Lost, Stale, Forgets, CutForgets,
     Pending, AimOwned, Agrees, Loose, CutJoins, Cut, CloseOwned, Silenced
<1>4. StopInv'
  BY DEF StopInv, StopPlace, ListenerKnown, Sealed, Cut, Taken
<1>5. QuietInv'
  BY DEF QuietInv, Awaited, Registered, Away, Quiet, Pending, Marked, Sweep, Ended, Over,
     AllLate
<1> QED BY <1>1, <1>2, <1>3, <1>4, <1>5

\* The invariant holds all along.
LEMMA Invariance == Spec => []IInv
<1>1. IInv /\ [Next]_vars => IInv'
  BY StepKeeps, StutterKeeps
<1> QED BY <1>1, InitHolds, PTL DEF Spec

\* The variables of the relay process keep their types.
THEOREM ProcessTypeCorrect == Spec => []TypeOK
<1>1. IInv => TypeOK
  <2> SUFFICES ASSUME IInv PROVE TypeOK
    OBVIOUS
  <2>1. \A j \in DOMAIN frames :
          /\ frames[j].at \in FrameAt /\ frames[j].fd \in Fds \cup {0}
          /\ frames[j].seen \in Seq(Clients) /\ frames[j].i \in 1..Len(frames[j].seen) + 1
    <3>1. ASSUME NEW f \in Frames
          PROVE  /\ f.at \in FrameAt /\ f.fd \in Fds \cup {0}
                 /\ f.seen \in Seq(Clients) /\ f.i \in 1..Len(f.seen) + 1
      BY FrameFields DEF MaybeFd
    <3> QED BY <3>1, StackShape DEF IInv, Types
  <2>2. SessionType /\ MainType /\ AcceptType
    BY DEF IInv, Types
  <2> QED BY <2>1 DEF TypeOK, IInv, Types, MainType, MainAts, FlagType, AcceptType,
     AcceptAts, PruneType, ListType, TableType, SessionType, SessionAts, PeerType, RestType,
     MaybeFd
<1> QED BY <1>1, Invariance, PTL

\* Nobody uses a descriptor that has become somebody else's, unless a stop() has been
\* interrupted between taking the listener and shutting it down.
THEOREM DescriptorsAreOwn == Spec => []OwnDescriptors
<1>1. IInv => OwnDescriptors
  <2> SUFFICES ASSUME IInv, ~Interrupted PROVE DescriptorsOwned
    BY DEF OwnDescriptors
  <2>1. \A j \in DOMAIN frames : ~Cut(j)
    <3>1. SUFFICES ASSUME NEW j \in DOMAIN frames, Cut(j) PROVE FALSE
      OBVIOUS
    <3>2. PICK m \in 1..(j - 1) : frames[m].at = "shut" /\ frames[m].fd # 0
      BY <3>1 DEF Cut
    <3>3. m \in 1..Len(frames) - 1
      BY <3>1, StackShape DEF IInv, Types
    <3> QED BY <3>2, <3>3 DEF Interrupted
  <2>2. ASSUME NEW c \in Clients
        PROVE  /\ OwnOf(fd[c], c) \/ (spc[c] = "forget" /\ table[fd[c]] # "listener")
               /\ spc[c] \in {"send", "hangup"} => OwnOf(aim[c].fd, aim[c].of)
    <3>1. FdOwned(c) /\ AimOwned(c) /\ ~CutJoins(c) /\ ~CutForgets(c)
      BY <2>1 DEF IInv, Inv, FdInv, CutJoins, CutForgets
    <3> QED BY <3>1 DEF FdOwned, Forgets, Stale, Holds, AimOwned, OwnOf
  <2>3. ASSUME NEW j \in DOMAIN frames
        PROVE  /\ frames[j].at = "shut" => OwnOf(frames[j].fd, "listener")
               /\ frames[j].at = "close" =>
                    \/ OwnOf(frames[j].fd, Current(frames[j]))
                    \/ /\ spc[Current(frames[j])] \in {"forget", "done"}
                       /\ table[frames[j].fd] # "listener"
    <3>1. CASE frames[j].at = "shut"
      BY <3>1 DEF IInv, Inv, StopInv, StopPlace, Taken, FdInv, OwnServer, OwnOf, Serving,
         ThreadInv, AcceptPlace
    <3>2. CASE frames[j].at = "close"
      BY <2>1, <3>2 DEF IInv, Inv, FdInv, CloseOwned, Holds, Loose, OwnOf
    <3> QED BY <3>1, <3>2
  <2>4. serverFd # 0 => table[serverFd] = "listener"
    BY DEF IInv, Inv, FdInv, OwnServer
  <2> QED BY <2>2, <2>3, <2>4 DEF DescriptorsOwned, Current
<1> QED BY <1>1, Invariance, PTL

\* When main returns, nothing handles messages on the server any more, but for sessions
\* that were accepted while it stopped.
THEOREM ExitIsQuiet == Spec => []QuietAtExit
<1>1. IInv => QuietAtExit
  <2> SUFFICES ASSUME IInv, mpc = "exit"
               PROVE  /\ apc \in {"unborn", "done"} /\ ppc \in {"unborn", "done"}
                      /\ \A c \in Clients :
                           \/ spc[c] \in {"unborn", "reject", "hangup", "forget", "done"}
                           \/ spc[c] = "handshake" /\ fd[c] = 0
                           \/ c \in late
    BY DEF QuietAtExit
  <2>1. frames = <<>> /\ Ended
    BY DEF IInv, Inv, ThreadInv, MainPlace, QuietInv
  <2>2. ASSUME NEW c \in Clients, Away(c) PROVE spc[c] = "unborn"
    BY <2>2 DEF IInv, Inv, ThreadInv, SessionPlace
  <2>3. CASE Over
    <3>1. ASSUME NEW c \in Clients, ~Away(c), c \notin late PROVE Quiet(c)
      <4>1. Registered(c) /\ Awaited(c)
        BY <2>3, <3>1 DEF Registered, Over, IInv, Inv, QuietInv
      <4>2. ~Pending(c)
        BY <2>1, StackShape DEF Pending, IInv, Types
      <4>3. c \notin Members(sessions)
        BY <2>3, <3>1 DEF Over, AllLate
      <4> QED BY <3>1, <4>1, <4>2, <4>3 DEF Awaited
    <3> QED BY <2>2, <2>3, <3>1 DEF Over, Quiet
  <2> QED BY <2>1, <2>2, <2>3 DEF Ended
<1> QED BY <1>1, Invariance, PTL

==============================================================================
