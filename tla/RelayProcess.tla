----------------------------- MODULE RelayProcess -----------------------------
(***************************************************************************)
(* The life of the relay process (main.cpp, start, stop and                *)
(* accept_connection of relay_server.cpp, client_session.cpp): main reads   *)
(* the command line, starts the accept and the prune thread and waits for a *)
(* signal; the accept thread makes a session with a thread of its own for   *)
(* every client; stop() ends them all.  stop() runs on the main thread:     *)
(* called by main, by the destructor, or by a signal handler that           *)
(* interrupts main, possibly inside another stop().                         *)
(*                                                                         *)
(* Descriptors are numbers that are used again once closed, sessions_ is    *)
(* not protected by a lock, and recv() on a descriptor that another thread  *)
(* closes goes on waiting for the peer.                                     *)
(***************************************************************************)
EXTENDS RelayConfig, FiniteSets

CONSTANTS
  Clients,      \* clients that may connect, one session each
  Fds,          \* descriptor numbers: 1..FdLimit; 0 stands for -1
  Polls,        \* how often main looks whether the relay listens (20)
  Signals,      \* bound: how many signals may arrive (SIGINT, SIGTERM: one handler)
  Calls,        \* bound: how many stop() calls may be nested by signals
  Words         \* bound: how many messages each client sends, the handshake included

ASSUME ProcessAssumption ==
  /\ Fds = 1..Cardinality(Fds) /\ Fds # {}
  /\ {Polls, Calls} \subseteq Nat \ {0} /\ Signals \in Nat /\ Words \in [Clients -> Nat]
  /\ {0, "free", "listener", "main"} \cap Clients = {}

VARIABLES
  argv, config, status,     \* command line, configuration, exit status
  mpc, next, polls, frames, \* main thread: place, option or poll, stop() calls
  signals,                  \* signals still to come
  running, listening, listenFd, shut,    \* atomics of the server; shutdown done
  apc, serverFd, newest,    \* accept thread: place, its socket, the new session
  ppc,                      \* prune thread
  storage,                  \* who holds storage_mutex_, or "free"
  sessions,                 \* sessions_
  table,                    \* what each descriptor number stands for
  fd, live, spc,            \* sessions: socket_fd_, running_, their thread
  aim, idx, upto,           \* its locals: a descriptor in use, a loop over sessions_
  client, words,            \* peers, and how many messages they have sent
  late,                     \* sessions registered after running_ was cleared
  crashed                   \* undefined behaviour or an exception ended it

mainVars == <<argv, config, status, mpc, next, polls, signals>>
serverVars == <<running, listening, listenFd, shut>>
acceptVars == <<apc, serverFd, newest>>
sessionVars == <<fd, live, spc, aim, idx, upto>>
clientVars == <<client, words>>
vars == <<mainVars, frames, serverVars, acceptVars, ppc, storage, sessions, table,
          sessionVars, clientVars, late, crashed>>

NoAim == [fd |-> 0, of |-> 0]
FrameAt == {"stats", "print", "flag", "exchange", "shut", "mark", "close", "forget",
            "join", "clear", "joinAccept", "joinPrune"}

TypeOK ==
  /\ argv \in Argvs /\ status \in {0, 1}
  /\ mpc \in {"parse", "start", "spawnAccept", "spawnPrune",
              "wait", "poll", "stop", "destroy", "exit"}
  /\ next \in Nat /\ polls \in 0..Polls /\ signals \in 0..Signals
  /\ \A j \in DOMAIN frames :
       /\ frames[j].at \in FrameAt /\ frames[j].fd \in Fds \cup {0}
       /\ frames[j].seen \in Seq(Clients) /\ frames[j].i \in 1..Len(frames[j].seen) + 1
  /\ {running, listening, shut, crashed} \subseteq BOOLEAN
  /\ {listenFd, serverFd} \subseteq Fds \cup {0}
  /\ apc \in {"unborn", "socket", "publish", "bind", "listen", "loop", "accept",
              "push", "spawn", "erase", "close", "done"}
  /\ newest \in Clients \cup {0}
  /\ ppc \in {"unborn", "sleep", "wait", "done"}
  /\ storage \in Clients \cup {"free", "main"}
  /\ sessions \in Seq(Clients)
  /\ table \in [Fds -> Clients \cup {"free", "listener"}]
  /\ fd \in [Clients -> Fds \cup {0}]
  /\ live \in [Clients -> BOOLEAN]
  /\ spc \in [Clients -> {"unborn", "handshake", "greet", "reject", "hangup", "forget",
                          "loop", "recv", "handle", "stream", "cast", "send", "done"}]
  /\ aim \in [Clients -> [fd : Fds \cup {0}, of : Clients \cup {0}]]
  /\ {idx, upto} \subseteq [Clients -> Nat]
  /\ client \in [Clients -> {"away", "up", "gone"}] /\ words \in [Clients -> Nat]
  /\ late \subseteq Clients

Init ==
  /\ argv \in Argvs /\ config = Defaults /\ status = 0
  /\ mpc = "parse" /\ next = 1 /\ polls = 0 /\ frames = <<>> /\ signals = Signals
  /\ running = FALSE /\ listening = FALSE /\ listenFd = 0 /\ shut = FALSE
  /\ apc = "unborn" /\ serverFd = 0 /\ newest = 0
  /\ ppc = "unborn" /\ storage = "free" /\ sessions = <<>>
  /\ table = [n \in Fds |-> "free"]
  /\ fd = [c \in Clients |-> 0] /\ live = [c \in Clients |-> FALSE]
  /\ spc = [c \in Clients |-> "unborn"]
  /\ aim = [c \in Clients |-> NoAim] /\ idx = fd /\ upto = fd
  /\ client = [c \in Clients |-> "away"]
  /\ words = [c \in Clients |-> 0]
  /\ late = {} /\ crashed = FALSE

-------------------------------------------------------------------------------
(* Descriptors, threads and the calls of stop().                             *)

FreeFds == {n \in Fds : table[n] = "free"}
Lowest(S) == CHOOSE n \in S : \A m \in S : n <= m

Freed(n) == IF n = 0 THEN table ELSE [table EXCEPT ![n] = "free"]

\* Main itself runs only while no stop() call is in progress on its thread.
MainAt(label) == mpc = label /\ frames = <<>> /\ ~crashed
AcceptAt(label) == apc = label /\ ~crashed
SessionAt(c, label) == spc[c] = label /\ ~crashed

Top == frames[Len(frames)]
StopAt(label) == frames # <<>> /\ ~crashed /\ Top.at = label
Below == SubSeq(frames, 1, Len(frames) - 1)
SetTop(f) == frames' = Append(Below, f)
StopGoto(label) == SetTop([Top EXCEPT !.at = label])

Call(label) ==
  frames' = Append(frames, [at |-> label, fd |-> 0, seen |-> <<>>, i |-> 1])

\* A stop() call further down has reached the join of the same thread: if it is
\* inside join(), a second join() throws.
JoinedTwice(label, c) ==
  \E j \in 1..Len(frames) - 1 :
    /\ frames[j].at = label
    /\ label = "join" => frames[j].seen[frames[j].i] = c

\* Somebody iterates over sessions_ and has elements in front of it.
Iterating ==
  \/ \E j \in DOMAIN frames :
       \/ frames[j].at = "mark"
       \/ frames[j].at \in {"close", "forget", "join"} /\ frames[j].i < Len(frames[j].seen)
  \/ \E c \in Clients :
       \/ spc[c] = "cast" /\ idx[c] <= upto[c]
       \/ spc[c] = "send" /\ idx[c] < upto[c]

-------------------------------------------------------------------------------
(* main()                                                                    *)

ParseOption ==
  /\ MainAt("parse") /\ next <= Len(argv)
  /\ next' = next + 1
  /\ CASE argv[next].name = "help" -> mpc' = "exit" /\ UNCHANGED <<config, crashed>>
       [] argv[next].name = "bad" -> crashed' = TRUE /\ UNCHANGED <<config, mpc>>
       [] OTHER -> config' = Apply(config, argv[next]) /\ UNCHANGED <<mpc, crashed>>
  /\ UNCHANGED <<argv, status, polls, frames, signals, serverVars, acceptVars, ppc,
                 storage, sessions, table, sessionVars, clientVars, late>>

Configured ==
  /\ MainAt("parse") /\ next > Len(argv)
  /\ config' = Construct(config)
  /\ mpc' = "start"
  /\ UNCHANGED <<argv, status, next, polls, frames, signals, serverVars, acceptVars,
                 ppc, storage, sessions, table, sessionVars, clientVars, late, crashed>>

\* server.start(): the flag, the accept thread, the prune thread.
SetRunning ==
  /\ MainAt("start")
  /\ running' = TRUE /\ mpc' = "spawnAccept"
  /\ UNCHANGED <<argv, config, status, next, polls, signals, frames, listening,
                 listenFd, shut, acceptVars, ppc, storage, sessions, table,
                 sessionVars, clientVars, late, crashed>>

SpawnAccept ==
  /\ MainAt("spawnAccept")
  /\ apc' = "socket" /\ mpc' = "spawnPrune"
  /\ UNCHANGED <<argv, config, status, next, polls, signals, frames, serverVars,
                 serverFd, newest, ppc, storage, sessions, table, sessionVars,
                 clientVars, late, crashed>>

SpawnPrune ==
  /\ MainAt("spawnPrune")
  /\ ppc' = "sleep" /\ mpc' = "wait"
  /\ UNCHANGED <<argv, config, status, next, polls, signals, frames, serverVars,
                 acceptVars, storage, sessions, table, sessionVars, clientVars, late,
                 crashed>>

MorePolls_OneMore(n) == n <= Polls
MorePolls(n) == n < Polls

\* Twenty polls, 100 ms apart, for the accept thread to listen; then give up.
AwaitListening_Forever ==
  /\ MainAt("wait") /\ listening
  /\ mpc' = "poll"
  /\ UNCHANGED <<argv, config, status, next, polls, signals, frames, serverVars,
                 acceptVars, ppc, storage, sessions, table, sessionVars, clientVars,
                 late, crashed>>
AwaitListening ==
  /\ MainAt("wait")
  /\ IF listening THEN mpc' = "poll" /\ polls' = 0 /\ UNCHANGED <<status, frames>>
     ELSE IF MorePolls(polls)
       THEN polls' = polls + 1 /\ UNCHANGED <<mpc, status, frames>>
       ELSE mpc' = "stop" /\ status' = 1 /\ Call("flag") /\ polls' = 0
  /\ UNCHANGED <<argv, config, next, signals, serverVars, acceptVars, ppc, storage,
                 sessions, table, sessionVars, clientVars, late, crashed>>

\* The last loop of main, and its own stop().
PollRunning ==
  /\ MainAt("poll") /\ ~running
  /\ mpc' = "stop" /\ Call("flag")
  /\ UNCHANGED <<argv, config, status, next, polls, signals, serverVars, acceptVars,
                 ppc, storage, sessions, table, sessionVars, clientVars, late, crashed>>

\* main returns: the destructor stops once more.
Destroy ==
  /\ MainAt("stop")
  /\ mpc' = "destroy" /\ Call("flag")
  /\ UNCHANGED <<argv, config, status, next, polls, signals, serverVars, acceptVars,
                 ppc, storage, sessions, table, sessionVars, clientVars, late, crashed>>

Exit ==
  /\ MainAt("destroy")
  /\ mpc' = "exit"
  /\ UNCHANGED <<argv, config, status, next, polls, signals, frames, serverVars,
                 acceptVars, ppc, storage, sessions, table, sessionVars, clientVars,
                 late, crashed>>

\* signal_handler, on the main thread: print_stats, then stop.  It is installed
\* before start() and stays so; a signal that arrives after the destructor's
\* stop() finds an object that is being destroyed, and is left out.
Signal ==
  /\ signals > 0 /\ ~crashed /\ Len(frames) < Calls
  /\ mpc \notin {"parse", "exit"} /\ ~MainAt("destroy")
  /\ signals' = signals - 1
  /\ Call("stats")
  /\ UNCHANGED <<argv, config, status, mpc, next, polls, serverVars, acceptVars, ppc,
                 storage, sessions, table, sessionVars, clientVars, late, crashed>>

-------------------------------------------------------------------------------
(* stop(), the topmost call.                                                 *)

\* print_stats holds storage_mutex_ while it counts and prints.  The mutex is not
\* recursive: a signal that comes meanwhile waits for the call it interrupts.
LockStorage ==
  /\ StopAt("stats") /\ storage = "free"
  /\ storage' = "main"
  /\ StopGoto("print")
  /\ UNCHANGED <<mainVars, serverVars, acceptVars, ppc, sessions, table,
                 sessionVars, clientVars, late, crashed>>

PrintStats ==
  /\ StopAt("print")
  /\ storage' = "free"
  /\ StopGoto("flag")
  /\ UNCHANGED <<mainVars, serverVars, acceptVars, ppc, sessions, table,
                 sessionVars, clientVars, late, crashed>>

ClearRunning ==
  /\ StopAt("flag")
  /\ running' = FALSE
  /\ StopGoto("exchange")
  /\ UNCHANGED <<mainVars, listening, listenFd, shut, acceptVars, ppc, storage,
                 sessions, table, sessionVars, clientVars, late, crashed>>

TakeListener ==
  /\ StopAt("exchange")
  /\ SetTop([Top EXCEPT !.at = "shut", !.fd = listenFd])
  /\ listenFd' = 0
  /\ UNCHANGED <<mainVars, running, listening, shut, acceptVars, ppc, storage,
                 sessions, table, sessionVars, clientVars, late, crashed>>

\* shutdown() wakes the accept thread, now or when it next calls accept().
ShutListener_NoWake ==
  /\ StopAt("shut")
  /\ SetTop([Top EXCEPT !.at = IF sessions = <<>> THEN "clear" ELSE "mark",
                        !.fd = 0, !.seen = sessions, !.i = 1])
  /\ UNCHANGED <<mainVars, running, listening, listenFd, shut, acceptVars, ppc, storage,
                 sessions, table, sessionVars, clientVars, late, crashed>>
ShutListener ==
  /\ StopAt("shut")
  /\ shut' = (shut \/ (Top.fd # 0 /\ table[Top.fd] = "listener" /\ apc \in
                         {"loop", "accept", "push", "spawn", "erase", "close"}))
  /\ SetTop([Top EXCEPT !.at = IF sessions = <<>> THEN "clear" ELSE "mark",
                        !.fd = 0, !.seen = sessions, !.i = 1])
  /\ UNCHANGED <<mainVars, running, listening, listenFd, acceptVars, ppc, storage,
                 sessions, table, sessionVars, clientVars, late, crashed>>

\* ClientSession::stop of the next element: the flag, the descriptor if it finds
\* one (it reads socket_fd_ again to close it), socket_fd_ = -1, the thread.
MarkSession ==
  LET c == Top.seen[Top.i]
  IN /\ StopAt("mark")
     /\ live' = [live EXCEPT ![c] = FALSE]
     /\ SetTop([Top EXCEPT !.at = "close", !.fd = fd[c]])
     /\ UNCHANGED <<mainVars, serverVars, acceptVars, ppc, storage, sessions, table,
                    fd, spc, aim, idx, upto, clientVars, late, crashed>>

CloseSession ==
  LET c == Top.seen[Top.i]
  IN /\ StopAt("close")
     /\ IF Top.fd = 0 THEN StopGoto("join") /\ UNCHANGED table
        ELSE /\ \E n \in {Top.fd, fd[c]} : table' = Freed(n)
             /\ SetTop([Top EXCEPT !.at = "forget", !.fd = 0])
     /\ UNCHANGED <<mainVars, serverVars, acceptVars, ppc, storage, sessions,
                    sessionVars, clientVars, late, crashed>>

ForgetSession ==
  LET c == Top.seen[Top.i]
  IN /\ StopAt("forget")
     /\ fd' = [fd EXCEPT ![c] = 0]
     /\ StopGoto("join")
     /\ UNCHANGED <<mainVars, serverVars, acceptVars, ppc, storage, sessions, table,
                    live, spc, aim, idx, upto, clientVars, late, crashed>>

\* A thread that never started, or was joined, is not joinable: nothing to do.
JoinSession_Detach ==
  /\ StopAt("join")
  /\ SetTop([Top EXCEPT !.i = @ + 1,
               !.at = IF Top.i < Len(Top.seen) THEN "mark" ELSE "clear"])
  /\ UNCHANGED <<mainVars, serverVars, acceptVars, ppc, storage, sessions, table,
                 sessionVars, clientVars, late, crashed>>
JoinSession ==
  LET c == Top.seen[Top.i]
  IN /\ StopAt("join")
     /\ \/ JoinedTwice("join", c) /\ crashed' = TRUE /\ UNCHANGED frames
        \/ /\ spc[c] \in {"unborn", "done"}
           /\ SetTop([Top EXCEPT !.i = @ + 1,
                        !.at = IF Top.i < Len(Top.seen) THEN "mark" ELSE "clear"])
           /\ UNCHANGED crashed
     /\ UNCHANGED <<mainVars, serverVars, acceptVars, ppc, storage, sessions, table,
                    sessionVars, clientVars, late>>

ClearSessions ==
  /\ StopAt("clear")
  /\ sessions' = <<>>
  /\ StopGoto("joinAccept")
  /\ UNCHANGED <<mainVars, serverVars, acceptVars, ppc, storage, table, sessionVars,
                 clientVars, late, crashed>>

JoinAccept ==
  /\ StopAt("joinAccept")
  /\ \/ JoinedTwice("joinAccept", 0) /\ crashed' = TRUE /\ UNCHANGED frames
     \/ apc \in {"unborn", "done"} /\ StopGoto("joinPrune") /\ UNCHANGED crashed
  /\ UNCHANGED <<mainVars, serverVars, acceptVars, ppc, storage, sessions, table,
                 sessionVars, clientVars, late>>

JoinPrune ==
  /\ StopAt("joinPrune")
  /\ \/ JoinedTwice("joinPrune", 0) /\ crashed' = TRUE /\ UNCHANGED frames
     \/ ppc \in {"unborn", "done"} /\ frames' = Below /\ UNCHANGED crashed
  /\ UNCHANGED <<mainVars, serverVars, acceptVars, ppc, storage, sessions, table,
                 sessionVars, clientVars, late>>

StopStep ==
  \/ LockStorage \/ PrintStats \/ ClearRunning \/ TakeListener \/ ShutListener
  \/ MarkSession \/ CloseSession \/ ForgetSession \/ JoinSession \/ ClearSessions
  \/ JoinAccept \/ JoinPrune

-------------------------------------------------------------------------------
(* The accept thread.                                                        *)

\* socket() and the store to listen_fd_ are two steps: stop() may come between.
OpenSocket ==
  /\ AcceptAt("socket") /\ FreeFds # {}
  /\ serverFd' = Lowest(FreeFds)
  /\ table' = [table EXCEPT ![serverFd'] = "listener"]
  /\ apc' = "publish"
  /\ UNCHANGED <<mainVars, frames, serverVars, newest, ppc, storage, sessions,
                 sessionVars, clientVars, late, crashed>>

PublishListener ==
  /\ AcceptAt("publish")
  /\ listenFd' = serverFd
  /\ apc' = "bind"
  /\ UNCHANGED <<mainVars, frames, running, listening, shut, serverFd, newest, ppc,
                 storage, sessions, table, sessionVars, clientVars, late, crashed>>

\* bind() and listen(), or the failure of either: close, reset, give up.
Listen ==
  /\ AcceptAt("bind")
  /\ listening' = TRUE
  /\ apc' = "loop"
  /\ UNCHANGED <<mainVars, frames, running, listenFd, shut, serverFd, newest, ppc,
                 storage, sessions, table, sessionVars, clientVars, late, crashed>>

CannotListen ==
  /\ AcceptAt("bind")
  /\ table' = Freed(serverFd)
  /\ listenFd' = 0 /\ running' = FALSE
  /\ apc' = "done" /\ serverFd' = 0
  /\ UNCHANGED <<mainVars, frames, listening, shut, newest, ppc, storage, sessions,
                 sessionVars, clientVars, late, crashed>>

AcceptLoop ==
  /\ AcceptAt("loop")
  /\ apc' = IF running THEN "accept" ELSE "close"
  /\ UNCHANGED <<mainVars, frames, serverVars, serverFd, newest, ppc, storage,
                 sessions, table, sessionVars, clientVars, late, crashed>>

\* A client connects: accept() returns it on the lowest free descriptor ...
AcceptClient ==
  /\ AcceptAt("accept") /\ ~shut /\ FreeFds # {}
  /\ \E c \in Clients :
       /\ client[c] = "away"
       /\ client' = [client EXCEPT ![c] = "up"]
       /\ fd' = [fd EXCEPT ![c] = Lowest(FreeFds)]
       /\ table' = [table EXCEPT ![Lowest(FreeFds)] = c]
       /\ newest' = c
  /\ apc' = "push"
  /\ UNCHANGED <<mainVars, frames, serverVars, serverFd, ppc, storage, sessions, live,
                 spc, aim, idx, upto, words, late, crashed>>

\* ... or fails: the socket is shut down, or no descriptor is left.
AcceptFails ==
  /\ AcceptAt("accept")
  /\ shut \/ (FreeFds = {} /\ \E c \in Clients : client[c] = "away")
  /\ apc' = "loop"
  /\ UNCHANGED <<mainVars, frames, serverVars, serverFd, newest, ppc, storage,
                 sessions, table, sessionVars, clientVars, late, crashed>>

\* push_back may move the vector away under a loop over it.
PushSession ==
  /\ AcceptAt("push")
  /\ sessions' = Append(sessions, newest)
  /\ late' = IF running THEN late ELSE late \cup {newest}
  /\ apc' = "spawn"
  /\ crashed' \in {FALSE, Iterating}
  /\ UNCHANGED <<mainVars, frames, serverVars, serverFd, newest, ppc, storage, table,
                 sessionVars, clientVars>>

StartSession ==
  /\ AcceptAt("spawn")
  /\ live' = [live EXCEPT ![newest] = TRUE]
  /\ spc' = [spc EXCEPT ![newest] = "handshake"]
  /\ apc' = "erase"
  /\ UNCHANGED <<mainVars, frames, serverVars, serverFd, newest, ppc, storage,
                 sessions, table, fd, aim, idx, upto, clientVars, late, crashed>>

\* remove_if goes through the vector and keeps the sessions that run, in their order.
Remaining(list, running_) ==
  LET kept[i \in 0..Len(list)] ==
        IF i = 0 THEN <<>>
        ELSE IF running_[list[i]] THEN Append(kept[i - 1], list[i]) ELSE kept[i - 1]
  IN kept[Len(list)]

\* The sessions that ended leave the vector, and stay allocated: their callback
\* holds them.  Under a loop that still has elements in front of it that is undefined:
\* it meets a null one where others have moved up; where the last ones go, it may
\* still find them.
EraseEnded ==
  /\ AcceptAt("erase")
  /\ sessions' = Remaining(sessions, live)
  /\ \/ crashed' = (sessions' # sessions /\ Iterating)
     \/ sessions' = SubSeq(sessions, 1, Len(sessions')) /\ crashed' = FALSE
  /\ apc' = "loop" /\ newest' = 0
  /\ UNCHANGED <<mainVars, frames, serverVars, serverFd, ppc, storage, table,
                 sessionVars, clientVars, late>>

CloseListener ==
  /\ AcceptAt("close")
  /\ table' = Freed(serverFd)
  /\ serverFd' = 0 /\ apc' = "done"
  /\ UNCHANGED <<mainVars, frames, serverVars, newest, ppc, storage, sessions,
                 sessionVars, clientVars, late, crashed>>

AcceptStep ==
  \/ OpenSocket \/ PublishListener \/ Listen \/ CannotListen \/ AcceptLoop
  \/ AcceptFails \/ PushSession \/ StartSession \/ EraseEnded \/ CloseListener

-------------------------------------------------------------------------------
(* The prune thread sleeps in slices while running, then prunes, which leaves no *)
(* trace here but that it waits for storage_mutex_.                              *)

PruneWaits ==
  /\ ppc = "sleep" /\ ~crashed /\ storage # "free"
  /\ ppc' = "wait"
  /\ UNCHANGED <<mainVars, frames, serverVars, acceptVars, storage, sessions, table,
                 sessionVars, clientVars, late, crashed>>

PruneEnds ==
  /\ ~crashed /\ ~running
  /\ ppc = "sleep" \/ (ppc = "wait" /\ storage = "free")
  /\ ppc' = "done"
  /\ UNCHANGED <<mainVars, frames, serverVars, acceptVars, storage, sessions, table,
                 sessionVars, clientVars, late, crashed>>

PruneSleeps ==
  /\ ~crashed /\ running /\ ppc = "wait" /\ storage = "free"
  /\ ppc' = "sleep"
  /\ UNCHANGED <<mainVars, frames, serverVars, acceptVars, storage, sessions, table,
                 sessionVars, clientVars, late, crashed>>

-------------------------------------------------------------------------------
(* A session's thread.                                                       *)

SessionGoto(c, label) == spc' = [spc EXCEPT ![c] = label]

\* The fields of a session thread's step that most steps leave alone.
Elsewhere == <<mainVars, frames, serverVars, acceptVars, ppc, sessions, late, crashed>>

\* do_ws_handshake: recv() on the descriptor, if stop() has left one.
EnterHandshake(c) ==
  /\ SessionAt(c, "handshake")
  /\ SessionGoto(c, IF fd[c] = 0 THEN "reject" ELSE "greet")
  /\ UNCHANGED <<Elsewhere, storage, table, fd, live, aim, idx, upto, clientVars>>

\* The client sends something while the session waits for it in recv().
Speaks(c) ==
  /\ client[c] = "up" /\ words[c] < Words[c]
  /\ words' = [words EXCEPT ![c] = @ + 1]

\* The request arrives and is good, or it is not.  A descriptor closed meanwhile
\* stops the exchange at its next byte.
Request(c) ==
  /\ SessionAt(c, "greet") /\ Speaks(c)
  /\ SessionGoto(c, "reject") \/ (fd[c] # 0 /\ SessionGoto(c, "loop"))
  /\ UNCHANGED <<Elsewhere, storage, table, fd, live, aim, idx, upto, client>>

Reject(c) ==
  /\ SessionAt(c, "reject")
  /\ live' = [live EXCEPT ![c] = FALSE]
  /\ aim' = [aim EXCEPT ![c] = [fd |-> fd[c], of |-> c]]
  /\ SessionGoto(c, "hangup")
  /\ UNCHANGED <<Elsewhere, storage, table, fd, idx, upto, clientVars>>

\* close(socket_fd_), read again, and after it socket_fd_ = -1: in between accept()
\* may give the number out.
HangUpOn(c) ==
  /\ SessionAt(c, "hangup")
  /\ IF aim[c].fd = 0 THEN SessionGoto(c, "done") /\ UNCHANGED table
     ELSE /\ \E n \in {aim[c].fd, fd[c]} : table' = Freed(n)
          /\ SessionGoto(c, "forget")
  /\ aim' = [aim EXCEPT ![c] = NoAim]
  /\ UNCHANGED <<Elsewhere, storage, fd, live, idx, upto, clientVars>>

ForgetFd_Keep(c) ==
  /\ SessionAt(c, "forget")
  /\ SessionGoto(c, "done")
  /\ UNCHANGED <<Elsewhere, storage, table, fd, live, aim, idx, upto, clientVars>>
ForgetFd(c) ==
  /\ SessionAt(c, "forget")
  /\ fd' = [fd EXCEPT ![c] = 0]
  /\ SessionGoto(c, "done")
  /\ UNCHANGED <<Elsewhere, storage, table, live, aim, idx, upto, clientVars>>

\* ws_read_loop; when it ends, running_ is cleared and the descriptor stays open.
Finish(c) == live' = [live EXCEPT ![c] = FALSE] /\ SessionGoto(c, "done")

ReadLoop(c) ==
  /\ SessionAt(c, "loop")
  /\ IF live[c] /\ fd[c] # 0 THEN SessionGoto(c, "recv") /\ UNCHANGED live
     ELSE Finish(c)
  /\ UNCHANGED <<Elsewhere, storage, table, fd, aim, idx, upto, clientVars>>

\* recv() returns a message, or the end of the connection.  Closing the
\* descriptor under it does not wake it; the rest of the frame then fails.
Message(c) ==
  /\ SessionAt(c, "recv") /\ Speaks(c)
  /\ IF fd[c] = 0 THEN Finish(c) ELSE SessionGoto(c, "handle") /\ UNCHANGED live
  /\ UNCHANGED <<Elsewhere, storage, table, fd, aim, idx, upto, client>>

\* The client hangs up: the session sees it when it next waits for the client.
Leave(c) ==
  /\ client[c] = "up" /\ ~crashed
  /\ client' = [client EXCEPT ![c] = "gone"]
  /\ \/ spc[c] = "greet" /\ SessionGoto(c, "reject") /\ UNCHANGED live
     \/ spc[c] = "recv" /\ Finish(c)
  /\ UNCHANGED <<Elsewhere, storage, table, fd, aim, idx, upto, words>>

\* handle_client_message, as far as the process's life goes: a REQ is answered
\* under storage_mutex_, an EVENT is relayed to the other sessions, the rest
\* returns at once.
HandleMessage(c) ==
  /\ SessionAt(c, "handle")
  /\ \/ /\ storage = "free" /\ storage' = c
        /\ SessionGoto(c, "stream")
        /\ UNCHANGED <<idx, upto>>
     \/ /\ SessionGoto(c, "cast")
        /\ idx' = [idx EXCEPT ![c] = 1] /\ upto' = [upto EXCEPT ![c] = Len(sessions)]
        /\ UNCHANGED storage
     \/ SessionGoto(c, "loop") /\ UNCHANGED <<storage, idx, upto>>
  /\ UNCHANGED <<Elsewhere, table, fd, live, aim, clientVars>>

StreamEnds(c) ==
  /\ SessionAt(c, "stream")
  /\ storage' = "free"
  /\ SessionGoto(c, "loop")
  /\ UNCHANGED <<Elsewhere, table, fd, live, aim, idx, upto, clientVars>>

\* One turn of the loop over sessions_ (stop() may have cleared it).
RelayTo(c) ==
  LET there == idx[c] <= upto[c] /\ idx[c] <= Len(sessions)
      t == sessions[idx[c]]
      target == /\ t # c /\ live[t]
                /\ spc[t] \notin {"unborn", "handshake", "greet", "reject"}
  IN /\ SessionAt(c, "cast")
     /\ IF ~there
          THEN /\ idx' = [idx EXCEPT ![c] = 0] /\ upto' = [upto EXCEPT ![c] = 0]
               /\ SessionGoto(c, "loop") /\ UNCHANGED aim
        ELSE IF target
          THEN /\ aim' = [aim EXCEPT ![c] = [fd |-> fd[t], of |-> t]]
               /\ SessionGoto(c, "send") /\ UNCHANGED <<idx, upto>>
          ELSE idx' = [idx EXCEPT ![c] = @ + 1] /\ UNCHANGED <<aim, spc, upto>>
     /\ UNCHANGED <<Elsewhere, storage, table, fd, live, clientVars>>

SendTo(c) ==
  /\ SessionAt(c, "send")
  /\ idx' = [idx EXCEPT ![c] = @ + 1] /\ aim' = [aim EXCEPT ![c] = NoAim]
  /\ SessionGoto(c, "cast")
  /\ UNCHANGED <<Elsewhere, storage, table, fd, live, upto, clientVars>>

\* The steps of a session thread that wait for no peer, and those that need one to
\* read what it is sent.
SessionStep(c) ==
  \/ EnterHandshake(c) \/ Reject(c) \/ HangUpOn(c) \/ ForgetFd(c) \/ ReadLoop(c)
  \/ HandleMessage(c) \/ RelayTo(c)
SendingStep(c) == StreamEnds(c) \/ SendTo(c)

-------------------------------------------------------------------------------
MainStep ==
  \/ ParseOption \/ Configured \/ SetRunning \/ SpawnAccept \/ SpawnPrune
  \/ AwaitListening \/ PollRunning \/ Destroy \/ Exit

Prune == PruneWaits \/ PruneEnds \/ PruneSleeps

Next ==
  \/ MainStep \/ Signal \/ StopStep
  \/ AcceptStep \/ AcceptClient \/ Prune
  \/ \E c \in Clients :
       SessionStep(c) \/ SendingStep(c) \/ Request(c) \/ Message(c) \/ Leave(c)

Spec == Init /\ [][Next]_vars

\* The scheduler runs every thread that can run.
ThreadFairness ==
  /\ WF_vars(MainStep \/ StopStep) /\ WF_vars(AcceptStep) /\ WF_vars(PruneEnds)
  /\ \A c \in Clients : WF_vars(SessionStep(c))

\* Clients read what they are sent, and hang up in the end.
ClientFairness ==
  \A c \in Clients : WF_vars(SendingStep(c)) /\ WF_vars(Leave(c))

ThreadFairSpec == Spec /\ ThreadFairness
FairSpec == ThreadFairSpec /\ ClientFairness

-------------------------------------------------------------------------------
(* Properties.                                                               *)

\* A descriptor that a thread holds to write to, close or shut down is that of
\* the session or listener it means, or already closed, although stop() and a
\* session's own thread close the same socket without a lock (client_session.cpp:42,
\* 52-54) and other sessions write to it (line 64): never one that accept() or
\* socket() has given to somebody else.  But a session that hangs up in its handshake
\* closes its number while socket_fd_ still holds it: until it is forgotten another
\* client may get it, and a stop() that has read it closes that client's connection.
\* All this rests on stop() shutting the listener down before it closes any session: a
\* signal that arrives between taking listen_fd_ and shutting it down starts a stop()
\* that does not.
Interrupted ==
  \E j \in 1..Len(frames) - 1 : frames[j].at = "shut" /\ frames[j].fd # 0
OwnOf(n, who) == n # 0 => table[n] \in {who, "free"}
DescriptorsOwned ==
  /\ \A c \in Clients :
       /\ OwnOf(fd[c], c) \/ (spc[c] = "forget" /\ table[fd[c]] # "listener")
       /\ spc[c] \in {"send", "hangup"} => OwnOf(aim[c].fd, aim[c].of)
  /\ \A j \in DOMAIN frames :
       LET f == frames[j]
       IN /\ f.at = "shut" => OwnOf(f.fd, "listener")
          /\ f.at = "close" => \/ OwnOf(f.fd, f.seen[f.i])
                               \/ /\ spc[f.seen[f.i]] \in {"forget", "done"}
                                  /\ table[f.fd] # "listener"
  /\ serverFd # 0 => table[serverFd] = "listener"
OwnDescriptors == Interrupted \/ DescriptorsOwned

\* When main returns, the accept and the prune thread have ended, and so has every
\* session that was registered while the relay ran: nothing handles messages on
\* the destroyed server.  Sessions registered while stop() runs may escape it.
\* (A thread that found its descriptor closed handles nothing any more.)
QuietAtExit ==
  (mpc = "exit" /\ ~crashed) =>
    /\ apc \in {"unborn", "done"} /\ ppc \in {"unborn", "done"}
    /\ \A c \in Clients :
         \/ spc[c] \in {"unborn", "reject", "hangup", "forget", "done"}
         \/ spc[c] = "handshake" /\ fd[c] = 0
         \/ c \in late

\* The relay starts with what its command line means (main.cpp:46-79, the constructor).
ConfigAsMeant ==
  mpc = "start" => MeantBy(config, argv)

\* A signal interrupts print_stats inside another signal's call: it waits for
\* storage_mutex_, which the thread it runs on holds, for ever.
LockedOut ==
  \E i, j \in DOMAIN frames : i < j /\ frames[i].at = "print" /\ frames[j].at = "stats"

\* A signal interrupts a stop() that has taken listen_fd_ and not shut it down: its own
\* stop() waits for the accept thread, which nobody wakes until a client connects.
Unwoken == Interrupted /\ StopAt("joinAccept") /\ apc = "accept" /\ ~shut

\* A stop() in progress, with whatever other stop() a signal starts inside it, ends the
\* relay: main returns, or an exception ends it (a signal inside a join).  It may hang in
\* two ways only, both of a signal that comes while another one is handled, or while main
\* stops.  (A signal that comes before start() sets running_ is forgotten.)
Stopping == frames # <<>> /\ mpc # "start"
StopReturns == Stopping ~> (mpc = "exit" \/ crashed \/ LockedOut \/ Unwoken)

\* If the port cannot be bound, main says so with its exit status, although only
\* the accept thread knows (main.cpp:94-104).
BusyPortReported ==
  (apc = "done" /\ ~listening) ~> ((mpc = "exit" /\ status = 1) \/ crashed \/ LockedOut)
===============================================================================
