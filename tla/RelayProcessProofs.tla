--------------------------- MODULE RelayProcessProofs ---------------------------
(***************************************************************************)
(* What the relay is configured with, for any command line: main's loop     *)
(* over argv and the constructor amount to what the options mean.           *)
(***************************************************************************)
EXTENDS RelayProcess, TLAPS

\* The options read so far.
GivenBefore(name) == {i \in Given(argv, name) : i < next}
TtlBefore(k) == {i \in GivenTtl(argv, k) : i < next}

\* What main has made of them.
LimitSoFar ==
  [name \in LimitNames |->
     IF GivenBefore(name) = {} THEN DefaultLimits[name]
     ELSE Narrowed(name, argv[LastOf(GivenBefore(name))].value)]
TtlSoFar ==
  [k \in {argv[i].kind % U16 : i \in GivenBefore("kindTtl")} |->
     argv[LastOf(TtlBefore(k))].value]
BannedSoFar == {argv[i].pubkey : i \in GivenBefore("ban")}

ReadSoFar ==
  /\ next \in 1..Len(argv) + 1
  /\ config = [limit |-> LimitSoFar, kind_ttl |-> TtlSoFar, banned |-> BannedSoFar,
               allowed |-> {}]

ConfigInv ==
  /\ argv \in Argvs
  /\ (mpc = "parse" /\ ~crashed) => ReadSoFar
  /\ ConfigAsMeant

-------------------------------------------------------------------------------
(* The options of a command line.                                            *)

\* A command line is a sequence.
LEMMA ArgvShape ==
  ASSUME NEW a \in Argvs
  PROVE  Len(a) \in Nat /\ DOMAIN a = 1..Len(a)
BY ArgvAssumption

\* The last option is the one with the greatest index.
LEMMA LastIsLast ==
  ASSUME NEW S \in SUBSET Nat, NEW n \in S, \A i \in S : i <= n
  PROVE  LastOf(S) = n
<1>1. \A i \in S : (\A j \in S : j <= i) => i = n
  OBVIOUS
<1> QED BY <1>1 DEF LastOf

\* One more option of a name is the last of that name; other names keep theirs.
LEMMA OneMoreGiven ==
  ASSUME argv \in Argvs, next \in 1..Len(argv), argv' = argv, next' = next + 1, NEW name
  PROVE  /\ argv[next].name = name =>
              /\ GivenBefore(name)' = GivenBefore(name) \cup {next}
              /\ GivenBefore(name)' # {} /\ LastOf(GivenBefore(name)') = next
         /\ argv[next].name # name => GivenBefore(name)' = GivenBefore(name)
<1>1. Len(argv) \in Nat /\ DOMAIN argv = 1..Len(argv) /\ next \in DOMAIN argv
  BY ArgvShape
<1>2. GivenBefore(name)' = {i \in Given(argv, name) : i < next + 1}
  BY DEF GivenBefore, Given
<1>3. GivenBefore(name)' = {i \in Given(argv, name) : i < next}
        \cup (IF argv[next].name = name THEN {next} ELSE {})
  BY <1>1, <1>2 DEF Given
<1>4. CASE argv[next].name = name
  <2>1. GivenBefore(name)' = GivenBefore(name) \cup {next}
    BY <1>3, <1>4 DEF GivenBefore
  <2>2. GivenBefore(name)' \in SUBSET Nat /\ \A i \in GivenBefore(name)' : i <= next
    BY <2>1, <1>1 DEF GivenBefore, Given
  <2>3. LastOf(GivenBefore(name)') = next
    BY <2>1, <2>2, LastIsLast
  <2> QED BY <1>4, <2>1, <2>3
<1>5. CASE argv[next].name # name
  BY <1>3, <1>5 DEF GivenBefore
<1> QED BY <1>4, <1>5

\* Likewise for the TTLs of a kind.
LEMMA OneMoreTtl ==
  ASSUME argv \in Argvs, next \in 1..Len(argv), argv' = argv, next' = next + 1, NEW k
  PROVE  IF argv[next].name = "kindTtl" /\ argv[next].kind % U16 = k
         THEN LastOf(TtlBefore(k)') = next
         ELSE TtlBefore(k)' = TtlBefore(k)
<1>1. Len(argv) \in Nat /\ DOMAIN argv = 1..Len(argv) /\ next \in DOMAIN argv
  BY ArgvShape
<1>2. TtlBefore(k)' = {i \in GivenTtl(argv, k) : i < next + 1}
  BY DEF TtlBefore, GivenTtl, Given
<1>3. CASE argv[next].name = "kindTtl" /\ argv[next].kind % U16 = k
  <2>1. next \in TtlBefore(k)'
    BY <1>1, <1>2, <1>3 DEF GivenTtl, Given
  <2>2. TtlBefore(k)' \in SUBSET Nat /\ \A i \in TtlBefore(k)' : i <= next
    BY <1>1, <1>2 DEF GivenTtl, Given
  <2> QED BY <1>3, <2>1, <2>2, LastIsLast
<1>4. CASE ~(argv[next].name = "kindTtl" /\ argv[next].kind % U16 = k)
  BY <1>1, <1>2, <1>4 DEF TtlBefore, GivenTtl, Given
<1> QED BY <1>3, <1>4

-------------------------------------------------------------------------------
(* main's loop.                                                              *)

\* Before the first option the configuration is the default one.
LEMMA InitReads == Init => ConfigInv
<1> SUFFICES ASSUME Init PROVE ConfigInv
  OBVIOUS
<1>1. argv \in Argvs /\ next = 1 /\ mpc = "parse" /\ config = Defaults
  BY DEF Init
<1>2. Len(argv) \in Nat /\ DOMAIN argv = 1..Len(argv)
  BY <1>1, ArgvShape
<1>3. \A name : GivenBefore(name) = {}
  BY <1>1, <1>2 DEF GivenBefore, Given
<1>4. LimitSoFar = DefaultLimits /\ BannedSoFar = {} /\ TtlSoFar = EmptyTtl
  <2>1. LimitSoFar = DefaultLimits
    BY <1>3, ArgvAssumption DEF LimitSoFar
  <2>2. BannedSoFar = {}
    BY <1>3 DEF BannedSoFar
  <2>3. TtlSoFar = EmptyTtl
    BY <1>3 DEF TtlSoFar, EmptyTtl
  <2> QED BY <2>1, <2>2, <2>3
<1>5. ReadSoFar
  BY <1>1, <1>2, <1>4 DEF ReadSoFar, Defaults
<1> QED BY <1>1, <1>5 DEF ConfigInv, ConfigAsMeant

\* A number option replaces that number.
LEMMA LimitRead ==
  ASSUME ReadSoFar, argv \in Argvs, next \in 1..Len(argv), argv' = argv, next' = next + 1
  PROVE  LimitSoFar' = Apply(config, argv[next]).limit
<1> DEFINE o == argv[next]
           value(name) == IF GivenBefore(name) = {} THEN DefaultLimits[name]
                          ELSE Narrowed(name, argv[LastOf(GivenBefore(name))].value)
<1>1. config.limit = LimitSoFar
  BY DEF ReadSoFar
<1>2. LimitSoFar' = [name \in LimitNames |-> value(name)']
  BY DEF LimitSoFar
<1>3. ASSUME NEW name \in LimitNames
      PROVE  value(name)' = IF o.name = name THEN Narrowed(name, o.value) ELSE LimitSoFar[name]
  <2>1. CASE o.name = name
    BY <2>1, OneMoreGiven
  <2>2. CASE o.name # name
    BY <2>2, OneMoreGiven DEF LimitSoFar
  <2> QED BY <2>1, <2>2
<1>4. CASE o.name \in LimitNames
  <2>1. Apply(config, o).limit = [LimitSoFar EXCEPT ![o.name] = Narrowed(o.name, o.value)]
    BY <1>1, <1>4 DEF Apply, ReadSoFar
  <2>2. [LimitSoFar EXCEPT ![o.name] = Narrowed(o.name, o.value)]
          = [name \in LimitNames |-> IF o.name = name THEN Narrowed(name, o.value)
                                     ELSE LimitSoFar[name]]
    BY DEF LimitSoFar
  <2> QED BY <1>2, <1>3, <2>1, <2>2
<1>5. CASE o.name \notin LimitNames
  <2>1. Apply(config, o).limit = LimitSoFar
    BY <1>5 DEF Apply, ReadSoFar
  <2>2. \A name \in LimitNames : value(name)' = LimitSoFar[name]
    BY <1>3, <1>5
  <2>3. LimitSoFar = [name \in LimitNames |-> LimitSoFar[name]]
    BY DEF LimitSoFar
  <2> QED BY <1>2, <2>1, <2>2, <2>3
<1> QED BY <1>4, <1>5

\* A TTL for a kind replaces the one given before for that kind.
LEMMA TtlRead ==
  ASSUME ReadSoFar, argv \in Argvs, next \in 1..Len(argv), argv' = argv, next' = next + 1
  PROVE  TtlSoFar' = Apply(config, argv[next]).kind_ttl
<1> DEFINE o == argv[next]
           kinds == {argv[i].kind % U16 : i \in GivenBefore("kindTtl")}
<1>1. config.kind_ttl = TtlSoFar /\ DOMAIN TtlSoFar = kinds
  BY DEF ReadSoFar, TtlSoFar
<1>2. TtlSoFar' = [k \in kinds' |-> argv[LastOf(TtlBefore(k)')].value]
  BY DEF TtlSoFar
<1>3. CASE o.name = "kindTtl"
  <2>1. Apply(config, o).kind_ttl = SetTtl(TtlSoFar, o.kind % U16, o.value)
    BY <1>1, <1>3 DEF Apply, ReadSoFar, LimitNames, Signed, Unsigned
  <2>2. kinds' = kinds \cup {o.kind % U16}
    BY <1>3, OneMoreGiven
  <2>3. ASSUME NEW k \in kinds'
        PROVE  argv[LastOf(TtlBefore(k)')].value
                 = IF k = o.kind % U16 THEN o.value ELSE TtlSoFar[k]
    <3>1. CASE k = o.kind % U16
      BY <1>3, <3>1, OneMoreTtl
    <3>2. CASE k # o.kind % U16
      BY <2>2, <2>3, <3>2, OneMoreTtl DEF TtlSoFar
    <3> QED BY <3>1, <3>2
  <2> QED BY <1>1, <1>2, <2>1, <2>2, <2>3 DEF SetTtl
<1>4. CASE o.name # "kindTtl"
  <2>1. Apply(config, o).kind_ttl = TtlSoFar
    BY <1>4 DEF Apply, ReadSoFar
  <2>2. kinds' = kinds
    BY <1>4, OneMoreGiven
  <2>3. \A k : TtlBefore(k)' = TtlBefore(k)
    BY <1>4, OneMoreTtl
  <2> QED BY <1>2, <2>1, <2>2, <2>3 DEF TtlSoFar
<1> QED BY <1>3, <1>4

\* A ban adds to those before it.
LEMMA BanRead ==
  ASSUME ReadSoFar, argv \in Argvs, next \in 1..Len(argv), argv' = argv, next' = next + 1
  PROVE  BannedSoFar' = Apply(config, argv[next]).banned
<1>1. BannedSoFar' = {argv[i].pubkey : i \in GivenBefore("ban")'}
  BY DEF BannedSoFar
<1>2. CASE argv[next].name = "ban"
  <2>1. Apply(config, argv[next]).banned = BannedSoFar \cup {argv[next].pubkey}
    BY <1>2 DEF Apply, ReadSoFar, LimitNames, Signed, Unsigned
  <2>2. GivenBefore("ban")' = GivenBefore("ban") \cup {next}
    BY <1>2, OneMoreGiven
  <2> QED BY <1>1, <2>1, <2>2 DEF BannedSoFar
<1>3. CASE argv[next].name # "ban"
  BY <1>1, <1>3, OneMoreGiven DEF Apply, ReadSoFar, BannedSoFar
<1> QED BY <1>2, <1>3

\* One turn of the loop.
LEMMA ParseOptionStep == ASSUME ConfigInv, ParseOption PROVE ConfigInv'
<1>1. /\ argv \in Argvs /\ argv' = argv /\ next' = next + 1
      /\ mpc = "parse" /\ ReadSoFar
  BY DEF ConfigInv, ParseOption, MainAt
<1>2. Len(argv) \in Nat /\ next \in 1..Len(argv)
  BY <1>1, ArgvShape DEF ReadSoFar, ParseOption
<1>3. next' \in 1..Len(argv') + 1
  BY <1>1, <1>2
<1>4. CASE argv[next].name \in {"help", "bad"}
  BY <1>1, <1>4 DEF ConfigInv, ParseOption, ConfigAsMeant
<1>5. CASE argv[next].name \notin {"help", "bad"}
  <2>1. config' = Apply(config, argv[next]) /\ mpc' = "parse"
    BY <1>1, <1>5 DEF ParseOption
  <2>2. Apply(config, argv[next])
          = [limit |-> LimitSoFar', kind_ttl |-> TtlSoFar', banned |-> BannedSoFar', allowed |-> {}]
    <3>1. Apply(config, argv[next])
            = [limit |-> Apply(config, argv[next]).limit,
               kind_ttl |-> Apply(config, argv[next]).kind_ttl,
               banned |-> Apply(config, argv[next]).banned, allowed |-> {}]
      BY <1>1 DEF Apply, ReadSoFar
    <3> QED BY <1>1, <1>2, <3>1, LimitRead, TtlRead, BanRead
  <2>3. ReadSoFar'
    BY <1>3, <2>1, <2>2 DEF ReadSoFar
  <2> QED BY <1>1, <2>1, <2>3 DEF ConfigInv, ConfigAsMeant
<1> QED BY <1>4, <1>5

\* After the last option every option has been read, and the constructor runs.
LEMMA ConfiguredStep == ASSUME ConfigInv, Configured PROVE ConfigInv'
<1>1. argv \in Argvs /\ argv' = argv /\ ReadSoFar /\ mpc' = "start"
  BY DEF ConfigInv, Configured, MainAt
<1>2. Len(argv) \in Nat /\ DOMAIN argv = 1..Len(argv) /\ next = Len(argv) + 1
  BY <1>1, ArgvShape DEF ReadSoFar, Configured
<1>3. \A name : GivenBefore(name) = Given(argv, name)
  BY <1>2 DEF GivenBefore, Given
<1>4. \A k : TtlBefore(k) = GivenTtl(argv, k)
  BY <1>2 DEF TtlBefore, GivenTtl, Given
<1>5. /\ config'.limit = LimitSoFar /\ config'.banned = BannedSoFar
      /\ config'.allowed = DefaultAllowed
      /\ config'.kind_ttl = IF DOMAIN TtlSoFar = {} THEN DefaultKindTtl ELSE TtlSoFar
  BY <1>1 DEF Configured, Construct, ReadSoFar
<1>6. \A name \in LimitNames : config'.limit[name] = MeantLimit(argv, name)
  BY <1>3, <1>5 DEF LimitSoFar, MeantLimit
<1>7. config'.banned = {argv[i].pubkey : i \in Given(argv, "ban")}
  BY <1>3, <1>5 DEF BannedSoFar
<1>8. DOMAIN TtlSoFar = KindsGiven(argv)
  BY <1>3 DEF TtlSoFar, KindsGiven
<1>9. \A k \in KindsGiven(argv) : TtlSoFar[k] = argv[LastOf(GivenTtl(argv, k))].value
  BY <1>4, <1>8 DEF TtlSoFar
<1>10. MeantBy(config', argv)
  BY <1>5, <1>6, <1>7, <1>8, <1>9 DEF MeantBy
<1> QED BY <1>1, <1>10 DEF ConfigInv, ConfigAsMeant

\* A step that leaves command line and configuration alone, and main outside its loop
\* or what it has read as it was.
LEMMA ConfigKept ==
  ASSUME ConfigInv, UNCHANGED <<argv, config>>,
         mpc' # "start" \/ mpc = "start",
         mpc' # "parse" \/ (mpc = "parse" /\ next' = next /\ (crashed => crashed'))
  PROVE  ConfigInv'
<1>1. ConfigAsMeant'
  BY DEF ConfigInv, ConfigAsMeant
<1>2. (mpc' = "parse" /\ ~crashed') => ReadSoFar'
  BY DEF ConfigInv, ReadSoFar, LimitSoFar, TtlSoFar, BannedSoFar, GivenBefore, TtlBefore
<1> QED BY <1>1, <1>2 DEF ConfigInv

\* What main does besides parsing and configuring leaves the configuration alone.
LEMMA OtherMainStep ==
  ASSUME ConfigInv,
         \/ SetRunning \/ SpawnAccept \/ SpawnPrune \/ AwaitListening \/ PollRunning
         \/ Destroy \/ Exit
  PROVE  ConfigInv'
<1>1. UNCHANGED <<argv, config>>
  BY DEF SetRunning, SpawnAccept, SpawnPrune, AwaitListening, PollRunning, Destroy, Exit
<1>2. mpc \notin {"parse"} /\ mpc' \notin {"parse", "start"}
  BY DEF SetRunning, SpawnAccept, SpawnPrune, AwaitListening, PollRunning, Destroy, Exit,
         MainAt
<1> QED BY <1>1, <1>2, ConfigKept

\* Nothing else touches main's variables, and nothing runs once the process has crashed.
LEMMA OthersStep ==
  ASSUME ConfigInv,
         \/ Signal \/ StopStep \/ AcceptStep \/ AcceptClient \/ Prune
         \/ \E c \in Clients : \/ SessionStep(c) \/ SendingStep(c) \/ Request(c)
                              \/ Message(c) \/ Leave(c)
  PROVE  ConfigInv'
<1>1. CASE Signal
  BY <1>1, ConfigKept DEF Signal
<1>2. CASE StopStep
  <2>1. UNCHANGED mainVars /\ ~crashed
    BY <1>2 DEF StopStep, LockStorage, PrintStats, ClearRunning, TakeListener, ShutListener,
                MarkSession, CloseSession, ForgetSession, JoinSession, ClearSessions,
                JoinAccept, JoinPrune, StopAt
  <2> QED BY <2>1, ConfigKept DEF mainVars
<1>3. CASE AcceptStep \/ AcceptClient
  <2>1. UNCHANGED mainVars /\ ~crashed
    BY <1>3 DEF AcceptStep, OpenSocket, PublishListener, Listen, CannotListen, AcceptLoop,
                AcceptFails, PushSession, StartSession, EraseEnded, CloseListener,
                AcceptClient, AcceptAt
  <2> QED BY <2>1, ConfigKept DEF mainVars
<1>4. CASE Prune
  BY <1>4, ConfigKept DEF Prune, PruneWaits, PruneEnds, PruneSleeps, mainVars
<1>5. ASSUME NEW c \in Clients, SessionStep(c) \/ SendingStep(c) \/ Request(c)
                                \/ Message(c) \/ Leave(c)
      PROVE  ConfigInv'
  <2>1. UNCHANGED Elsewhere
    BY <1>5 DEF SessionStep, EnterHandshake, Reject, HangUpOn, ForgetFd, ReadLoop, HandleMessage,
                RelayTo, SendingStep, StreamEnds, SendTo, Request, Message, Leave
  <2> QED BY <2>1, ConfigKept DEF Elsewhere, mainVars
<1> QED BY <1>1, <1>2, <1>3, <1>4, <1>5

\* For every set of command lines and every default: while main reads the command line,
\* the configuration is what the options read so far amount to, and when it starts the
\* relay, what all of them mean (main.cpp:46-79, the constructor of RelayServer).
THEOREM ConfigInvariant == Spec => []ConfigInv
<1>1. Init => ConfigInv
  BY InitReads
<1>2. ConfigInv /\ [Next]_vars => ConfigInv'
  <2> SUFFICES ASSUME ConfigInv, [Next]_vars PROVE ConfigInv'
    OBVIOUS
  <2>1. CASE MainStep
    BY <2>1, ParseOptionStep, ConfiguredStep, OtherMainStep DEF MainStep
  <2>2. CASE UNCHANGED vars
    BY <2>2, ConfigKept DEF vars, mainVars
  <2> QED BY <2>1, <2>2, OthersStep DEF Next
<1> QED BY <1>1, <1>2, PTL DEF Spec

\* So the relay always starts with what its command line means.
THEOREM StartsAsMeant == Spec => []ConfigAsMeant
<1>1. ConfigInv => ConfigAsMeant
  BY DEF ConfigInv
<1> QED BY <1>1, ConfigInvariant, PTL
===============================================================================
