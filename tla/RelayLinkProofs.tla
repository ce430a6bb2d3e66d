--------------------------- MODULE RelayLinkProofs ---------------------------
(***************************************************************************)
(* For any relays and numbers of clicks and frames: the state is well typed, *)
(* one receive thread serves the relay that is shown, and once nothing is   *)
(* queued the status line is true.                                          *)
(***************************************************************************)
EXTENDS RelayLink, SequenceTheorems, TLAPS

-------------------------------------------------------------------------------
(* The inductive invariant.                                                  *)

\* A receive thread that has been started and has not ended.
Alive(c) == reader[c].at \notin {"unborn", "ended"}

\* One receive thread, for the connection fd_ stands for while there is one.  The flags
\* are its flags, the url is its relay's, and it holds frames of its own connection.
ThreadInv ==
  /\ gpc \in {"join", "told", "dial", "ended"} => fd = 0
  /\ gpc \in {"told", "dial", "handshake", "up", "ended"} => thread = 0
  /\ gpc \in {"handshake", "up"} => fd = clicks
  /\ gpc \in {"idle", "greet", "drop", "close", "tell", "show"} => fd = thread
  /\ gpc \notin {"idle", "greet"} => clicks > 0
  /\ gpc = "greet" => thread # 0
  /\ gpc = "tell" => (ok <=> thread # 0)
  /\ running <=> (thread # 0 /\ gpc \in {"idle", "greet", "drop", "tell", "show"})
  /\ connected => running
  /\ \A c \in Conns :
       /\ Alive(c) => thread = c
       /\ c \in {fd, thread} => relay[c] = url
       /\ reader[c].at \in Kinds => reader[c].of = c
       /\ reader[c].at = "lost" => ~connected

\* What is answered, held or under way has been sent.
Held(c) == IF reader[c].at \in {"ping", "close"} THEN 1 ELSE 0
FrameInv == \A c \in Conns : answers[c] + Len(wire[c]) + Held(c) <= pushed[c]

\* Every click makes at most three reports: that the old link is gone, how the connect
\* went, and that the link was lost.  Those still to come, those queued and the greetings
\* that queued ones have led to are no more than that.
Due ==
  IF gpc \in {"drop", "close", "join", "told"} THEN 3
  ELSE IF gpc \in {"dial", "handshake", "up"} THEN 2
  ELSE IF gpc \in {"tell", "greet"} THEN 1 ELSE 0
Telling == IF thread # 0 /\ Alive(thread) THEN 1 ELSE 0
ReportInv ==
  \A c \in Conns : profiles[c] <= subs[c] /\ subs[c] + idles + Due + Telling <= 3 * clicks

\* A report that changes the flag is still queued, or has been shown.  While the client
\* is connected the flag is up, and the callback that shows it greets the relay.
LightInv ==
  /\ gpc = "show" => idles > 0
  /\ idles = 0 => label.on = flag
  /\ (connected /\ gpc \in {"idle", "greet", "show"}) => flag
  /\ (connected /\ gpc = "greet") => label = [on |-> TRUE, url |-> url]
  /\ (connected /\ gpc = "idle" /\ idles = 0) =>
       label = [on |-> TRUE, url |-> url] /\ profiles[fd] > 0 /\ subs[fd] > 0

\* The types, with natural numbers for what only the invariants above bound.
Places == {"unborn", "loop", "header", "lost", "ended"} \cup Kinds
Readers == [Conns -> [at : Places, of : Conns \cup {0}]]
GuiType ==
  /\ gpc \in {"idle", "greet", "drop", "close", "join", "told", "dial", "handshake",
              "up", "tell", "show", "ended"}
  /\ want \in Urls \cup {NoUrl} /\ ok \in BOOLEAN /\ clicks \in 0..Clicks
AppType ==
  /\ url \in Urls \cup {NoUrl} /\ flag \in BOOLEAN /\ idles \in Nat
  /\ label \in [on : BOOLEAN, url : Urls \cup {NoUrl}]
WsType ==
  /\ fd \in Conns \cup {0} /\ thread \in Conns \cup {0}
  /\ connected \in BOOLEAN /\ running \in BOOLEAN
PeerType ==
  /\ peer \in [Conns -> {"none", "asked", "accepted", "refused"}]
  /\ relay \in [Conns -> Urls \cup {NoUrl}]
  /\ wire \in [Conns -> Seq(Kinds)] /\ pushed \in [Conns -> 0..Frames]
  /\ eof \in [Conns -> {"no", "clean", "cut"}]
GotType == profiles \in [Conns -> Nat] /\ subs \in [Conns -> Nat] /\ answers \in [Conns -> Nat]
Types == GuiType /\ AppType /\ WsType /\ reader \in Readers /\ PeerType /\ GotType

IInv == Types /\ ThreadInv /\ FrameInv /\ ReportInv /\ LightInv

-------------------------------------------------------------------------------
(* Constants, types, and the count of the reports.                           *)

USE DEF GoTo, Report, ReaderAt

\* The bounds of the constants.
LEMMA Bounds ==
  /\ Clicks \in Nat /\ Clicks > 0 /\ Frames \in Nat
  /\ 1 \in Conns /\ 0 \notin Conns /\ \A n \in 0..Clicks : n > 0 => n \in Conns
BY LinkAssumption DEF Conns

\* What an action leaves alone keeps its type.
LEMMA SameTypes ==
  /\ GuiType /\ UNCHANGED guiVars => GuiType'
  /\ AppType /\ UNCHANGED appVars => AppType'
  /\ WsType /\ UNCHANGED wsVars => WsType'
  /\ PeerType /\ UNCHANGED peerVars => PeerType'
  /\ GotType /\ UNCHANGED gotVars => GotType'
  /\ reader \in Readers /\ UNCHANGED reader => reader' \in Readers
<1>1. GuiType /\ UNCHANGED guiVars => GuiType'
  BY DEF guiVars, GuiType
<1>2. AppType /\ UNCHANGED appVars => AppType'
  BY DEF appVars, AppType
<1>3. WsType /\ UNCHANGED wsVars => WsType'
  BY DEF wsVars, WsType
<1>4. PeerType /\ UNCHANGED peerVars => PeerType'
  BY DEF peerVars, PeerType
<1>5. GotType /\ UNCHANGED gotVars => GotType'
  BY DEF gotVars, GotType
<1> QED BY <1>1, <1>2, <1>3, <1>4, <1>5

\* The invariant bounds every counter that the type bounds.
LEMMA TypesImply == IInv => TypeOK
<1> SUFFICES ASSUME IInv PROVE TypeOK
  OBVIOUS
<1>1. clicks \in 0..Clicks /\ idles \in Nat /\ Clicks \in Nat /\ Frames \in Nat
  BY Bounds DEF IInv, Types, GuiType, AppType
<1>2. Due \in Nat /\ Telling \in Nat
  BY DEF Due, Telling
<1>3. ASSUME NEW c \in Conns
      PROVE  {profiles[c], subs[c], idles} \subseteq 0..3 * Clicks
  <2>1. profiles[c] \in Nat /\ subs[c] \in Nat
    BY DEF IInv, Types, GotType
  <2>2. profiles[c] <= subs[c] /\ subs[c] + idles + Due + Telling <= 3 * clicks
    BY DEF IInv, ReportInv
  <2> QED BY <1>1, <1>2, <2>1, <2>2
<1>4. ASSUME NEW c \in Conns
      PROVE  answers[c] \in 0..Frames
  <2>1. answers[c] \in Nat /\ Len(wire[c]) \in Nat /\ pushed[c] \in 0..Frames /\ Held(c) \in Nat
    BY DEF IInv, Types, GotType, PeerType, Held
  <2>2. answers[c] + Len(wire[c]) + Held(c) <= pushed[c]
    BY DEF IInv, FrameInv
  <2> QED BY <1>1, <2>1, <2>2
<1>5. idles \in 0..3 * Clicks
  BY <1>3, Bounds
<1>6. {profiles, subs} \subseteq [Conns -> 0..3 * Clicks] /\ answers \in [Conns -> 0..Frames]
  BY <1>3, <1>4 DEF IInv, Types, GotType
<1> QED BY <1>5, <1>6 DEF IInv, Types, GuiType, AppType, WsType, PeerType, Readers, Places,
   TypeOK

\* A receive thread that moves on leaves the others, and what each holds, alone.
LEMMA ReaderMoves ==
  ASSUME reader \in Readers, NEW c \in Conns, NEW place \in Places, ReaderGoTo(c, place)
  PROVE  /\ reader' \in Readers
         /\ \A d \in Conns : /\ reader'[d].at = (IF d = c THEN place ELSE reader[d].at)
                             /\ reader'[d].of = reader[d].of
BY DEF Readers, ReaderGoTo

\* One more of something is counted for one connection, or for none.
LEMMA OneMore ==
  ASSUME NEW f \in [Conns -> Nat], NEW n, NEW g, g = [f EXCEPT ![n] = @ + 1]
  PROVE  g \in [Conns -> Nat] /\ \A d \in Conns : g[d] = IF d = n THEN f[d] + 1 ELSE f[d]
<1>2. ASSUME NEW d \in Conns
      PROVE  g[d] = (IF d = n THEN f[d] + 1 ELSE f[d]) /\ g[d] \in Nat
  <2> QED OBVIOUS
<1> QED BY <1>2

\* What bounds the sum of the reports bounds it after reports have been traded.
LEMMA Sums ==
  ASSUME NEW n \in Nat, NEW x \in Nat, NEW y \in Nat, NEW k \in Nat, NEW l \in Nat,
         n + y <= 3 * k, x + 3 * k <= y + 3 * l
  PROVE  n + x <= 3 * l
OBVIOUS

\* The reports still to come and those made are as many as before.
LEMMA ReportsLeft ==
  ASSUME Types, Types', ReportInv, UNCHANGED <<profiles, subs>>,
         idles' + Due' + Telling' + 3 * clicks <= idles + Due + Telling + 3 * clicks'
  PROVE  ReportInv'
<1>1. Due \in Nat /\ Telling \in Nat /\ Due' \in Nat /\ Telling' \in Nat
  BY DEF Due, Telling
<1>2. clicks \in Nat /\ clicks' \in Nat /\ idles \in Nat /\ idles' \in Nat
  BY DEF Types, GuiType, AppType
<1> SUFFICES ASSUME NEW c \in Conns
             PROVE  profiles'[c] <= subs'[c] /\ subs'[c] + idles' + Due' + Telling' <= 3 * clicks'
  BY DEF ReportInv
<1>3. profiles'[c] = profiles[c] /\ subs'[c] = subs[c] /\ subs[c] \in Nat
  BY DEF Types, GotType
<1>4. profiles[c] <= subs[c] /\ subs[c] + idles + Due + Telling <= 3 * clicks
  BY DEF ReportInv
<1>5. subs[c] + idles' + Due' + Telling' <= 3 * clicks'
  <2> DEFINE y == idles + Due + Telling
             x == idles' + Due' + Telling'
  <2>1. x \in Nat /\ y \in Nat
    <3>1. ASSUME NEW i \in Nat, NEW d \in Nat, NEW t \in Nat PROVE i + d + t \in Nat
      OBVIOUS
    <3> QED BY <1>1, <1>2, <3>1
  <2>2. subs[c] + y <= 3 * clicks
    BY <1>1, <1>2, <1>3, <1>4
  <2>3. x + 3 * clicks <= y + 3 * clicks'
    OBVIOUS
  <2> HIDE DEF x, y
  <2>4. subs[c] + x <= 3 * clicks'
    BY <1>2, <1>3, <2>1, <2>2, <2>3, Sums
  <2> QED BY <1>1, <1>2, <1>3, <2>4 DEF x
<1> QED BY <1>4, <1>5

-------------------------------------------------------------------------------
(* The GUI thread.                                                           *)

\* A click begins a disconnect and a connect: three reports may follow.
LEMMA ConnectStep == ASSUME IInv, NEW u \in Urls, Connect(u) PROVE IInv'
<1>1. Types'
  <2>1. GuiType'
    BY Bounds DEF Connect, IInv, Types, GuiType
  <2> QED BY <2>1, SameTypes DEF Connect, IInv, Types
<1>2. ThreadInv'
  BY DEF Connect, appVars, wsVars, peerVars, IInv, Types, GuiType, ThreadInv, Alive
<1>3. FrameInv'
  BY DEF Connect, peerVars, gotVars, IInv, FrameInv, Held
<1>4. ReportInv'
  <2>2. Telling' <= Telling
    BY DEF Connect, wsVars, Telling, Alive
  <2> QED BY <1>1, <2>2, ReportsLeft DEF Connect, appVars, gotVars, IInv, Types, GuiType,
     AppType, Due, Telling
<1>5. LightInv'
  BY DEF Connect, appVars, IInv, LightInv
<1> QED BY <1>1, <1>2, <1>3, <1>4, <1>5 DEF IInv

\* disconnect() clears the flags; the receive thread, if there is one, is still alive.
LEMMA ClearFlagsStep == ASSUME IInv, ClearFlags PROVE IInv'
<1>1. Types'
  <2>1. GuiType'
    BY DEF ClearFlags, IInv, Types, GuiType
  <2>2. WsType'
    BY DEF ClearFlags, IInv, Types, WsType
  <2> QED BY <2>1, <2>2, SameTypes DEF ClearFlags, IInv, Types
<1>2. ThreadInv'
  BY DEF ClearFlags, appVars, peerVars, IInv, ThreadInv, Alive
<1>3. FrameInv'
  BY DEF ClearFlags, peerVars, gotVars, IInv, FrameInv, Held
<1>4. ReportInv'
  <2>2. Telling' <= Telling
    BY DEF ClearFlags, Telling, Alive
  <2> QED BY <1>1, <2>2, ReportsLeft DEF ClearFlags, appVars, gotVars, IInv, Types, GuiType,
     AppType, Due, Telling
<1>5. LightInv'
  BY DEF ClearFlags, appVars, IInv, LightInv
<1> QED BY <1>1, <1>2, <1>3, <1>4, <1>5 DEF IInv

\* disconnect() closes the socket, so no thread is left with an open one.
LEMMA CloseSocketStep == ASSUME IInv, CloseSocket PROVE IInv'
<1>1. Types'
  <2>1. GuiType'
    BY DEF CloseSocket, IInv, Types, GuiType
  <2>2. WsType'
    BY DEF CloseSocket, IInv, Types, WsType
  <2> QED BY <2>1, <2>2, SameTypes DEF CloseSocket, IInv, Types
<1>2. ThreadInv'
  BY Bounds DEF CloseSocket, appVars, peerVars, IInv, ThreadInv, Alive
<1>3. FrameInv'
  BY DEF CloseSocket, peerVars, gotVars, IInv, FrameInv, Held
<1>4. ReportInv'
  <2>2. Telling' <= Telling
    BY DEF CloseSocket, Telling, Alive
  <2> QED BY <1>1, <2>2, ReportsLeft DEF CloseSocket, appVars, gotVars, IInv, Types,
     GuiType, AppType, Due, Telling
<1>5. LightInv'
  BY DEF CloseSocket, appVars, IInv, LightInv
<1> QED BY <1>1, <1>2, <1>3, <1>4, <1>5 DEF IInv

\* disconnect() joins the thread, which has ended.
LEMMA JoinReaderStep == ASSUME IInv, JoinReader PROVE IInv'
<1>1. Types'
  <2>1. GuiType'
    BY DEF JoinReader, IInv, Types, GuiType
  <2>2. WsType'
    BY DEF JoinReader, IInv, Types, WsType
  <2> QED BY <2>1, <2>2, SameTypes DEF JoinReader, IInv, Types
<1>2. ThreadInv'
  BY Bounds DEF JoinReader, IInv, ThreadInv, Alive
<1>3. FrameInv'
  BY DEF JoinReader, peerVars, gotVars, IInv, FrameInv, Held
<1>4. ReportInv'
  <2> QED BY <1>1, ReportsLeft DEF JoinReader, appVars, gotVars, IInv, Types, GuiType,
     AppType, Due, Telling
<1>5. LightInv'
  BY DEF JoinReader, appVars, IInv, LightInv
<1> QED BY <1>1, <1>2, <1>3, <1>4, <1>5 DEF IInv

\* on_connection(false) of disconnect() lowers the flag and queues a refresh.
LEMMA TellGoneStep == ASSUME IInv, TellGone PROVE IInv'
<1>1. Types'
  <2>1. GuiType'
    BY DEF TellGone, IInv, Types, GuiType
  <2>2. AppType'
    <3>1. flag' \in BOOLEAN
      BY Zenon DEF TellGone, IInv, Types, AppType
    <3>2. idles' \in Nat
      BY DEF TellGone, IInv, Types, AppType
    <3>3. url' \in Urls \cup {NoUrl} /\ label' \in [on : BOOLEAN, url : Urls \cup {NoUrl}]
      BY DEF TellGone, IInv, Types, GuiType, AppType
    <3> QED BY <3>1, <3>2, <3>3 DEF AppType
  <2> QED BY <2>1, <2>2, SameTypes DEF TellGone, IInv, Types
<1>2. ThreadInv'
  BY Bounds DEF TellGone, wsVars, IInv, ThreadInv, Alive
<1>3. FrameInv'
  BY DEF TellGone, peerVars, gotVars, IInv, FrameInv, Held
<1>4. ReportInv'
  <2>1. clicks' = clicks /\ clicks \in Nat /\ idles \in Nat /\ idles' <= idles + 1 /\ idles' \in Nat
    BY DEF TellGone, IInv, Types, AppType, GuiType
  <2>2. Due = 3 /\ Due' = 2
    BY DEF TellGone, Due
  <2>3. Telling = 0 /\ Telling' = 0
    BY DEF TellGone, wsVars, IInv, ThreadInv, Telling
  <2>4. idles' + 2 + 0 + 3 * clicks <= idles + 3 + 0 + 3 * clicks'
    <3>1. ASSUME NEW a \in Nat, NEW b \in Nat, NEW n \in Nat, b <= a + 1
          PROVE  b + 2 + 0 + n <= a + 3 + 0 + n
      BY <3>1
    <3>2. 3 * clicks \in Nat /\ 3 * clicks' = 3 * clicks
      BY <2>1
    <3> HIDE DEF GoTo, Report, ReaderAt
    <3> QED BY <2>1, <3>1, <3>2
  <2>5. idles' + Due' + Telling' + 3 * clicks <= idles + Due + Telling + 3 * clicks'
    BY <2>2, <2>3, <2>4
  <2> QED BY <1>1, <2>5, ReportsLeft DEF TellGone, gotVars, IInv
<1>5. LightInv'
  BY DEF TellGone, IInv, Types, AppType, LightInv
<1> QED BY <1>1, <1>2, <1>3, <1>4, <1>5 DEF IInv

\* tcp_connect() has a socket of its own, to the relay of the url.
LEMMA DialStep == ASSUME IInv, Dial PROVE IInv'
<1>1. Types'
  <2>1. GuiType'
    BY DEF Dial, IInv, Types, GuiType
  <2>2. WsType'
    BY Bounds DEF Dial, IInv, Types, WsType, GuiType
  <2>3. PeerType'
    BY DEF Dial, IInv, Types, PeerType, AppType
  <2> QED BY <2>1, <2>2, <2>3, SameTypes DEF Dial, IInv, Types
<1>2. ThreadInv'
  BY DEF Dial, appVars, IInv, Types, PeerType, ThreadInv, Alive
<1>3. FrameInv'
  BY DEF Dial, gotVars, IInv, FrameInv, Held
<1>4. ReportInv'
  <2>2. Telling' <= Telling
    BY DEF Dial, Telling, Alive
  <2> QED BY <1>1, <2>2, ReportsLeft DEF Dial, guiVars, appVars, wsVars, peerVars, gotVars,
     IInv, Types, GuiType, AppType, Due, Telling
<1>5. LightInv'
  BY DEF Dial, appVars, IInv, LightInv
<1> QED BY <1>1, <1>2, <1>3, <1>4, <1>5 DEF IInv

\* A connect that fails leaves no socket.
LEMMA DialFailsStep == ASSUME IInv, DialFails PROVE IInv'
<1>1. Types'
  <2>1. GuiType'
    BY DEF DialFails, IInv, Types, GuiType
  <2> QED BY <2>1, SameTypes DEF DialFails, IInv, Types
<1>2. ThreadInv'
  BY Bounds DEF DialFails, wsVars, IInv, ThreadInv, Alive
<1>3. FrameInv'
  BY DEF DialFails, peerVars, gotVars, IInv, FrameInv, Held
<1>4. ReportInv'
  <2> QED BY <1>1, ReportsLeft DEF DialFails, appVars, gotVars, IInv, Types, GuiType,
     AppType, Due, Telling
<1>5. LightInv'
  BY DEF DialFails, appVars, IInv, LightInv
<1> QED BY <1>1, <1>2, <1>3, <1>4, <1>5 DEF IInv

\* A port that is no number ends the program, with no connection open.
LEMMA DialThrowsStep == ASSUME IInv, DialThrows PROVE IInv'
<1>1. Types'
  <2>1. GuiType'
    BY DEF DialThrows, IInv, Types, GuiType
  <2> QED BY <2>1, SameTypes DEF DialThrows, IInv, Types
<1>2. ThreadInv'
  BY Bounds DEF DialThrows, wsVars, IInv, ThreadInv, Alive
<1>3. FrameInv'
  BY DEF DialThrows, peerVars, gotVars, IInv, FrameInv, Held
<1>4. ReportInv'
  <2> QED BY <1>1, ReportsLeft DEF DialThrows, appVars, gotVars, IInv, Types, GuiType,
     AppType, Due, Telling
<1>5. LightInv'
  BY DEF DialThrows, appVars, IInv, LightInv
<1> QED BY <1>1, <1>2, <1>3, <1>4, <1>5 DEF IInv

\* The relay accepts the upgrade; nothing is shown yet.
LEMMA UpgradedStep == ASSUME IInv, Upgraded PROVE IInv'
<1>1. Types'
  <2>1. GuiType'
    BY DEF Upgraded, IInv, Types, GuiType
  <2> QED BY <2>1, SameTypes DEF Upgraded, IInv, Types
<1>2. ThreadInv'
  BY DEF Upgraded, appVars, wsVars, peerVars, IInv, ThreadInv, Alive
<1>3. FrameInv'
  BY DEF Upgraded, peerVars, gotVars, IInv, FrameInv, Held
<1>4. ReportInv'
  <2>2. Telling' <= Telling
    BY DEF Upgraded, wsVars, Telling, Alive
  <2> QED BY <1>1, <2>2, ReportsLeft DEF Upgraded, appVars, gotVars, IInv, Types, GuiType,
     AppType, Due, Telling
<1>5. LightInv'
  BY DEF Upgraded, appVars, IInv, LightInv
<1> QED BY <1>1, <1>2, <1>3, <1>4, <1>5 DEF IInv

\* A refused upgrade closes the socket.
LEMMA HandshakeFailsStep == ASSUME IInv, HandshakeFails PROVE IInv'
<1>1. Types'
  <2>1. GuiType'
    BY DEF HandshakeFails, IInv, Types, GuiType
  <2>2. WsType'
    BY DEF HandshakeFails, IInv, Types, WsType
  <2> QED BY <2>1, <2>2, SameTypes DEF HandshakeFails, IInv, Types
<1>2. ThreadInv'
  BY Bounds DEF HandshakeFails, IInv, ThreadInv, Alive
<1>3. FrameInv'
  BY DEF HandshakeFails, peerVars, gotVars, IInv, FrameInv, Held
<1>4. ReportInv'
  <2> QED BY <1>1, ReportsLeft DEF HandshakeFails, appVars, gotVars, IInv, Types, GuiType,
     AppType, Due, Telling
<1>5. LightInv'
  BY DEF HandshakeFails, appVars, IInv, LightInv
<1> QED BY <1>1, <1>2, <1>3, <1>4, <1>5 DEF IInv

\* connect() starts the thread of its socket: it is the only one that is alive.
LEMMA StartReaderStep == ASSUME IInv, StartReader PROVE IInv'
<1>0. fd \in Conns /\ fd = clicks /\ thread = 0 /\ fd' = fd /\ thread' = fd
  BY Bounds DEF StartReader, IInv, Types, GuiType, ThreadInv
<1>9. /\ reader' \in Readers
      /\ \A d \in Conns : /\ reader'[d].at = (IF d = fd THEN "loop" ELSE reader[d].at)
                          /\ reader'[d].of = reader[d].of
  <2>1. ReaderGoTo(fd, "loop") /\ "loop" \in Places
    BY DEF StartReader, ReaderGoTo, Places
  <2> QED BY <1>0, <2>1, ReaderMoves DEF IInv, Types
<1>1. Types'
  <2>1. GuiType'
    BY DEF StartReader, IInv, Types, GuiType
  <2>2. WsType'
    BY <1>0 DEF StartReader, WsType
  <2> QED BY <1>9, <2>1, <2>2, SameTypes DEF StartReader, IInv, Types
<1>2. ThreadInv'
  BY Bounds DEF StartReader, appVars, peerVars, IInv, ThreadInv, Alive, Kinds
<1>3. FrameInv'
  <2>1. \A d \in Conns : Held(d)' \in Nat /\ Held(d)' <= Held(d)
    BY <1>9 DEF Held
  <2>2. \A d \in Conns : answers[d] \in Nat /\ Len(wire[d]) \in Nat /\ pushed[d] \in Nat
                        /\ Held(d) \in Nat
    BY DEF IInv, Types, GotType, PeerType, Held
  <2> QED BY <2>1, <2>2 DEF StartReader, peerVars, gotVars, IInv, FrameInv
<1>4. ReportInv'
  <2>1. clicks' = clicks /\ clicks \in Nat /\ idles \in Nat /\ idles' = idles
    BY DEF StartReader, appVars, IInv, Types, AppType, GuiType
  <2>2. Due = 2 /\ Due' = 1
    BY DEF StartReader, Due
  <2>3. Telling = 0 /\ Telling' \in {0, 1}
    BY <1>0 DEF Telling
  <2> QED BY <1>1, <2>1, <2>2, <2>3, ReportsLeft DEF StartReader, gotVars, IInv
<1>5. LightInv'
  BY DEF StartReader, appVars, IInv, LightInv
<1> QED BY <1>1, <1>2, <1>3, <1>4, <1>5 DEF IInv

\* connect_to_relay() reports how the connect went and queues a refresh.
LEMMA TellOutcomeStep == ASSUME IInv, TellOutcome PROVE IInv'
<1>1. Types'
  <2>1. GuiType'
    BY DEF TellOutcome, IInv, Types, GuiType
  <2>2. AppType'
    BY DEF TellOutcome, IInv, Types, GuiType, AppType
  <2> QED BY <2>1, <2>2, SameTypes DEF TellOutcome, IInv, Types
<1>2. ThreadInv'
  BY DEF TellOutcome, wsVars, peerVars, IInv, ThreadInv, Alive
<1>3. FrameInv'
  BY DEF TellOutcome, peerVars, gotVars, IInv, FrameInv, Held
<1>4. ReportInv'
  <2>2. Telling' <= Telling
    BY DEF TellOutcome, wsVars, Telling, Alive
  <2> QED BY <1>1, <2>2, ReportsLeft DEF TellOutcome, gotVars, IInv, Types, GuiType, Due,
     Telling
<1>5. LightInv'
  BY DEF TellOutcome, wsVars, IInv, Types, AppType, ThreadInv, LightInv
<1> QED BY <1>1, <1>2, <1>3, <1>4, <1>5 DEF IInv

\* The page shows how the connect went, before the queued refreshes do.
LEMMA ShowOutcomeStep == ASSUME IInv, ShowOutcome PROVE IInv'
<1>1. Types'
  <2>1. GuiType'
    BY DEF ShowOutcome, IInv, Types, GuiType
  <2>2. AppType'
    BY DEF ShowOutcome, IInv, Types, GuiType, AppType
  <2> QED BY <2>1, <2>2, SameTypes DEF ShowOutcome, IInv, Types
<1>2. ThreadInv'
  BY DEF ShowOutcome, wsVars, peerVars, IInv, ThreadInv, Alive
<1>3. FrameInv'
  BY DEF ShowOutcome, peerVars, gotVars, IInv, FrameInv, Held
<1>4. ReportInv'
  <2>2. Telling' <= Telling
    BY DEF ShowOutcome, wsVars, Telling, Alive
  <2> QED BY <1>1, <2>2, ReportsLeft DEF ShowOutcome, gotVars, IInv, Types, GuiType,
     AppType, Due, Telling
<1>5. LightInv'
  BY DEF ShowOutcome, wsVars, IInv, LightInv
<1> QED BY <1>1, <1>2, <1>3, <1>4, <1>5 DEF IInv

\* A queued refresh shows the flag; if it is up, the relay is greeted.
LEMMA RunIdleStep == ASSUME IInv, RunIdle PROVE IInv'
<1>1. Types'
  <2>1. GuiType'
    BY DEF RunIdle, IInv, Types, GuiType
  <2>2. AppType'
    BY DEF RunIdle, IInv, Types, AppType
  <2> QED BY <2>1, <2>2, SameTypes DEF RunIdle, IInv, Types
<1>2. ThreadInv'
  BY DEF RunIdle, wsVars, peerVars, IInv, ThreadInv, Alive
<1>3. FrameInv'
  BY DEF RunIdle, peerVars, gotVars, IInv, FrameInv, Held
<1>4. ReportInv'
  <2>2. Telling' <= Telling
    BY DEF RunIdle, wsVars, Telling, Alive
  <2> QED BY <1>1, <2>2, ReportsLeft DEF RunIdle, gotVars, IInv, Types, GuiType, AppType,
     Due, Telling
<1>5. LightInv'
  BY DEF RunIdle, wsVars, IInv, LightInv
<1> QED BY <1>1, <1>2, <1>3, <1>4, <1>5 DEF IInv

\* The callback asks for the profile and subscribes, on the socket there is.
LEMMA GreetStep == ASSUME IInv, Greet PROVE IInv'
<1>0. fd \in Conns
  BY DEF Greet, IInv, Types, WsType, ThreadInv
<1>9. /\ subs' \in [Conns -> Nat] /\ profiles' \in [Conns -> Nat]
      /\ \A d \in Conns : /\ subs'[d] = IF d = fd THEN subs[d] + 1 ELSE subs[d]
                          /\ profiles'[d] = IF d = fd /\ connected THEN profiles[d] + 1
                                            ELSE profiles[d]
  <2>1. profiles \in [Conns -> Nat] /\ subs \in [Conns -> Nat]
    BY DEF IInv, Types, GotType
  <2>2. subs' = [subs EXCEPT ![fd] = @ + 1]
    BY DEF Greet
  <2>3. CASE connected
    <3>1. profiles' = [profiles EXCEPT ![fd] = @ + 1]
      BY <2>3 DEF Greet
    <3> QED BY <2>1, <2>2, <2>3, <3>1, OneMore
  <2>4. CASE ~connected
    <3>1. profiles' = profiles
      BY <2>1, <2>4 DEF Greet
    <3> QED BY <2>1, <2>2, <2>4, <3>1, OneMore
  <2> QED BY <2>3, <2>4
<1>1. Types'
  <2>1. GuiType'
    BY DEF Greet, IInv, Types, GuiType
  <2>2. GotType'
    BY <1>9 DEF Greet, IInv, Types, GotType
  <2> QED BY <2>1, <2>2, SameTypes DEF Greet, IInv, Types
<1>2. ThreadInv'
  BY DEF Greet, appVars, wsVars, peerVars, IInv, ThreadInv, Alive
<1>3. FrameInv'
  BY DEF Greet, peerVars, IInv, FrameInv, Held
<1>4. ReportInv'
  <2>1. clicks' = clicks /\ clicks \in Nat /\ idles \in Nat /\ idles' = idles
    BY DEF Greet, appVars, IInv, Types, AppType, GuiType
  <2>2. Due = 1 /\ Due' = 0
    BY DEF Greet, Due
  <2>3. Telling \in Nat /\ Telling' = Telling
    BY DEF Greet, wsVars, Telling, Alive
  <2>4. ASSUME NEW d \in Conns
        PROVE  profiles'[d] <= subs'[d] /\ subs'[d] + idles' + Due' + Telling' <= 3 * clicks'
    <3>1. profiles[d] \in Nat /\ subs[d] \in Nat
      BY DEF IInv, Types, GotType
    <3>2. profiles[d] <= subs[d] /\ subs[d] + idles + Due + Telling <= 3 * clicks
      BY DEF IInv, ReportInv
    <3>3. profiles'[d] <= subs'[d] /\ subs'[d] \in {subs[d], subs[d] + 1}
      BY <1>9, <3>1, <3>2
    <3> QED BY <2>1, <2>2, <2>3, <3>1, <3>2, <3>3
  <2> QED BY <2>4 DEF ReportInv
<1>5. LightInv'
  BY <1>0 DEF Greet, appVars, wsVars, IInv, Types, GotType, LightInv
<1> QED BY <1>1, <1>2, <1>3, <1>4, <1>5 DEF IInv

-------------------------------------------------------------------------------
(* Receive threads.                                                          *)

\* The receive thread goes round, if it is to run.
LEMMA ReadOnStep == ASSUME IInv, NEW c \in Conns, ReadOn(c) PROVE IInv'
<1>0. /\ reader' \in Readers
      /\ \A d \in Conns : /\ reader'[d].at = (IF d = c THEN (IF running THEN "header" ELSE "ended")
                                              ELSE reader[d].at)
                          /\ reader'[d].of = reader[d].of
  BY ReaderMoves DEF ReadOn, IInv, Types, Places
<1>1. Types'
  <2> QED BY <1>0, SameTypes DEF ReadOn, IInv, Types
<1>2. ThreadInv'
  BY <1>0 DEF ReadOn, guiVars, appVars, wsVars, peerVars, IInv, ThreadInv, Alive, Kinds
<1>3. FrameInv'
  BY <1>0 DEF ReadOn, peerVars, gotVars, IInv, FrameInv, Held
<1>4. ReportInv'
  <2>1. Due' + idles' + 3 * clicks <= Due + idles + 3 * clicks'
    BY <1>1 DEF ReadOn, guiVars, appVars, Types, GuiType, AppType, Due
  <2>2. Telling' <= Telling
    BY <1>0, <1>1 DEF ReadOn, wsVars, Types, WsType, Telling, Alive
  <2> QED BY <1>1, <2>1, <2>2, ReportsLeft, Bounds DEF ReadOn, appVars, gotVars, IInv,
     Types, GuiType, AppType, Due, Telling
<1>5. LightInv'
  BY DEF ReadOn, guiVars, appVars, wsVars, gotVars, IInv, LightInv
<1> QED BY <1>1, <1>2, <1>3, <1>4, <1>5 DEF IInv

\* A header is read: the frame is taken off the wire and held.
LEMMA ReadFrameStep == ASSUME IInv, NEW c \in Conns, ReadFrame(c) PROVE IInv'
<1>0. /\ fd = c /\ thread = c
      /\ Head(wire[c]) \in Kinds /\ Tail(wire[c]) \in Seq(Kinds)
      /\ Len(wire[c]) \in Nat /\ Len(wire[c]) = Len(Tail(wire[c])) + 1
  <2>1. thread = c /\ fd = c
    BY Bounds DEF ReadFrame, IInv, Types, GuiType, ThreadInv, Alive
  <2>2. wire[c] \in Seq(Kinds) /\ wire[c] # <<>>
    BY <2>1 DEF ReadFrame, IInv, Types, PeerType
  <2> QED BY <2>1, <2>2
<1>9. \A d \in Conns : /\ reader'[d] = IF d = c THEN [at |-> Head(wire[c]), of |-> c] ELSE reader[d]
                     /\ wire'[d] = IF d = c THEN Tail(wire[c]) ELSE wire[d]
  BY <1>0 DEF ReadFrame, IInv, Types, Readers, PeerType
<1>1. Types'
  <2>1. reader' \in Readers
    BY <1>0 DEF ReadFrame, IInv, Types, Readers, Places
  <2>2. wire' \in [Conns -> Seq(Kinds)]
    BY <1>0 DEF ReadFrame, IInv, Types, PeerType
  <2>3. PeerType'
    BY <2>2 DEF ReadFrame, IInv, Types, PeerType
  <2> QED BY <2>1, <2>3, SameTypes DEF ReadFrame, IInv, Types
<1>2. ThreadInv'
  <2>1. \A d \in Conns : /\ Alive(d)' => (Alive(d) \/ d = c)
                         /\ reader'[d].at \in Kinds => reader'[d].of = d
                         /\ reader'[d].at = "lost" => reader[d].at = "lost"
    BY <1>0, <1>9 DEF IInv, ThreadInv, Alive, Kinds
  <2>2. ASSUME NEW d \in Conns, Alive(d)'
        PROVE  thread = d
    <3>1. Alive(d) \/ d = c
      BY <2>2, <1>9 DEF Alive
    <3> QED BY <1>0, <3>1 DEF IInv, ThreadInv
  <2> QED BY <1>0, <2>1, <2>2 DEF ReadFrame, guiVars, appVars, wsVars, IInv, ThreadInv
<1>3. FrameInv'
  <2>1. ASSUME NEW d \in Conns
        PROVE  answers'[d] + Len(wire'[d]) + Held(d)' <= pushed'[d]
    <3>1. /\ answers[d] \in Nat /\ Len(wire[d]) \in Nat /\ pushed[d] \in Nat /\ Held(d) \in Nat
          /\ answers[d] + Len(wire[d]) + Held(d) <= pushed[d]
      BY DEF IInv, Types, GotType, PeerType, Held, FrameInv
    <3>2. answers'[d] = answers[d] /\ pushed'[d] = pushed[d]
      BY DEF ReadFrame, gotVars
    <3>3. d # c => wire'[d] = wire[d] /\ Held(d)' = Held(d)
      BY <1>9 DEF Held
    <3>4. d = c => Len(wire'[d]) + 1 = Len(wire[d]) /\ Held(d) = 0 /\ Held(d)' \in {0, 1}
      BY <1>0, <1>9 DEF ReadFrame, Held
    <3> QED BY <3>1, <3>2, <3>3, <3>4
  <2> QED BY <2>1 DEF FrameInv
<1>4. ReportInv'
  <2>2. Telling' <= Telling
    BY DEF ReadFrame, wsVars, Telling, Alive
  <2> QED BY <1>1, <2>2, ReportsLeft DEF ReadFrame, guiVars, appVars, peerVars, gotVars,
     IInv, Types, GuiType, AppType, Due, Telling
<1>5. LightInv'
  BY DEF ReadFrame, guiVars, appVars, wsVars, gotVars, IInv, LightInv
<1> QED BY <1>1, <1>2, <1>3, <1>4, <1>5 DEF IInv

\* The relay has hung up: the thread lowers the flag and is about to report.
LEMMA LoseLinkStep == ASSUME IInv, NEW c \in Conns, LoseLink(c) PROVE IInv'
<1>0. /\ reader' \in Readers
      /\ \A d \in Conns : /\ reader'[d].at = (IF d = c THEN (IF connected THEN "lost" ELSE "ended")
                                              ELSE reader[d].at)
                          /\ reader'[d].of = reader[d].of
  BY ReaderMoves DEF LoseLink, IInv, Types, Places
<1>1. Types'
  <2>1. WsType'
    BY DEF LoseLink, IInv, Types, WsType
  <2> QED BY <1>0, <2>1, SameTypes DEF LoseLink, IInv, Types
<1>2. ThreadInv'
  BY <1>0 DEF LoseLink, guiVars, appVars, peerVars, IInv, ThreadInv, Alive, Kinds
<1>3. FrameInv'
  BY <1>0 DEF LoseLink, peerVars, gotVars, IInv, FrameInv, Held
<1>4. ReportInv'
  <2>2. Telling' <= Telling
    BY <1>0, <1>1 DEF LoseLink, Types, WsType, Telling, Alive
  <2> QED BY <1>1, <2>2, ReportsLeft DEF LoseLink, guiVars, appVars, gotVars, IInv, Types,
     GuiType, AppType, Due, Telling
<1>5. LightInv'
  BY DEF LoseLink, guiVars, appVars, IInv, LightInv
<1> QED BY <1>1, <1>2, <1>3, <1>4, <1>5 DEF IInv

\* A receive thread that is to stop ends without a report.
LEMMA BreakOffStep == ASSUME IInv, NEW c \in Conns, BreakOff(c) PROVE IInv'
<1>0. /\ reader' \in Readers
      /\ \A d \in Conns : /\ reader'[d].at = (IF d = c THEN "ended" ELSE reader[d].at)
                          /\ reader'[d].of = reader[d].of
  BY ReaderMoves DEF BreakOff, IInv, Types, Places
<1>1. Types'
  <2> QED BY <1>0, SameTypes DEF BreakOff, IInv, Types
<1>2. ThreadInv'
  BY <1>0 DEF BreakOff, guiVars, appVars, wsVars, peerVars, IInv, ThreadInv, Alive, Kinds
<1>3. FrameInv'
  BY <1>0 DEF BreakOff, peerVars, gotVars, IInv, FrameInv, Held
<1>4. ReportInv'
  <2>2. Telling' <= Telling
    BY <1>0, <1>1 DEF BreakOff, wsVars, Types, WsType, Telling, Alive
  <2> QED BY <1>1, <2>2, ReportsLeft DEF BreakOff, guiVars, appVars, gotVars, IInv, Types,
     GuiType, AppType, Due, Telling
<1>5. LightInv'
  BY DEF BreakOff, guiVars, appVars, wsVars, gotVars, IInv, LightInv
<1> QED BY <1>1, <1>2, <1>3, <1>4, <1>5 DEF IInv

\* A text frame is handed on.
LEMMA DeliverStep == ASSUME IInv, NEW c \in Conns, Deliver(c) PROVE IInv'
<1>0. /\ reader' \in Readers
      /\ \A d \in Conns : /\ reader'[d].at = (IF d = c THEN "loop" ELSE reader[d].at)
                          /\ reader'[d].of = reader[d].of
  BY ReaderMoves DEF Deliver, IInv, Types, Places
<1>1. Types'
  <2> QED BY <1>0, SameTypes DEF Deliver, IInv, Types
<1>2. ThreadInv'
  BY <1>0 DEF Deliver, guiVars, appVars, wsVars, peerVars, IInv, ThreadInv, Alive, Kinds
<1>3. FrameInv'
  BY <1>0 DEF Deliver, peerVars, gotVars, IInv, FrameInv, Held
<1>4. ReportInv'
  <2>1. UNCHANGED <<idles, clicks, Due, profiles, subs>>
    BY DEF Deliver, guiVars, appVars, gotVars, Due
  <2>2. Telling' <= Telling
    BY <1>0, <1>1 DEF Deliver, wsVars, Types, WsType, Telling, Alive
  <2>3. idles \in Nat /\ clicks \in Nat /\ Due \in Nat /\ Telling \in Nat /\ Telling' \in Nat
    BY Bounds DEF IInv, Types, GuiType, AppType, Due, Telling
  <2>4. idles' + Due' + Telling' + 3 * clicks <= idles + Due + Telling + 3 * clicks'
    <3>1. ASSUME NEW i \in Nat, NEW d \in Nat, NEW t \in Nat, NEW u \in Nat, NEW n \in Nat,
                 u <= t
          PROVE  i + d + u + n <= i + d + t + n
      BY <3>1
    <3>2. 3 * clicks \in Nat
      BY <2>3
    <3>3. idles + Due + Telling' + 3 * clicks <= idles + Due + Telling + 3 * clicks
      BY <2>2, <2>3, <3>1, <3>2
    <3> QED BY <2>1, <3>3
  <2> QED BY <1>1, <2>1, <2>4, ReportsLeft DEF IInv
<1>5. LightInv'
  BY DEF Deliver, guiVars, appVars, wsVars, gotVars, IInv, LightInv
<1> QED BY <1>1, <1>2, <1>3, <1>4, <1>5 DEF IInv

\* A ping is answered: the frame held is counted as answered.
LEMMA AnswerStep == ASSUME IInv, NEW c \in Conns, Answer(c) PROVE IInv'
<1>0. /\ reader' \in Readers
      /\ \A d \in Conns : /\ reader'[d].at = (IF d = c THEN "loop" ELSE reader[d].at)
                          /\ reader'[d].of = reader[d].of
  BY ReaderMoves DEF Answer, IInv, Types, Places
<1>1. Types'
  <2>1. GotType'
    BY OneMore DEF Answer, IInv, Types, GotType
  <2> QED BY <1>0, <2>1, SameTypes DEF Answer, IInv, Types
<1>2. ThreadInv'
  BY <1>0 DEF Answer, guiVars, appVars, wsVars, peerVars, IInv, ThreadInv, Alive, Kinds
<1>3. FrameInv'
  <2>1. fd \in {0, c} /\ Held(c) = 1 /\ Held(c)' = 0
    <3>1. Held(c) = 1 /\ Held(c)' = 0
      BY <1>0 DEF Answer, Held
    <3>2. thread = c
      BY DEF Answer, IInv, ThreadInv, Alive
    <3>3. fd \in {0, c}
      BY <3>2, Bounds DEF IInv, Types, GuiType, ThreadInv
    <3> QED BY <3>1, <3>3
  <2>2. ASSUME NEW d \in Conns
        PROVE  answers'[d] + Len(wire'[d]) + Held(d)' <= pushed'[d]
    <3>1. /\ answers[d] \in Nat /\ Len(wire[d]) \in Nat /\ pushed[d] \in Nat /\ Held(d) \in Nat
          /\ answers[d] + Len(wire[d]) + Held(d) <= pushed[d]
      BY DEF IInv, Types, GotType, PeerType, Held, FrameInv
    <3>2. answers'[d] = (IF d = fd THEN answers[d] + 1 ELSE answers[d])
      BY DEF Answer, IInv, Types, GotType
    <3>3. wire'[d] = wire[d] /\ pushed'[d] = pushed[d]
      BY DEF Answer, peerVars
    <3>4. d # c => Held(d)' = Held(d)
      BY <1>0 DEF Held
    <3> QED BY <2>1, <3>1, <3>2, <3>3, <3>4, Bounds
  <2> QED BY <2>2 DEF FrameInv
<1>4. ReportInv'
  <2>2. Telling' <= Telling
    BY <1>0, <1>1 DEF Answer, wsVars, Types, WsType, Telling, Alive
  <2> QED BY <1>1, <2>2, ReportsLeft DEF Answer, guiVars, appVars, gotVars, IInv, Types,
     GuiType, AppType, Due, Telling
<1>5. LightInv'
  BY DEF Answer, guiVars, appVars, wsVars, IInv, LightInv
<1> QED BY <1>1, <1>2, <1>3, <1>4, <1>5 DEF IInv

\* A close frame is answered, and the link is lost.
LEMMA AnswerCloseStep == ASSUME IInv, NEW c \in Conns, AnswerClose(c) PROVE IInv'
<1>0. /\ reader' \in Readers
      /\ \A d \in Conns : /\ reader'[d].at = (IF d = c THEN "lost" ELSE reader[d].at)
                          /\ reader'[d].of = reader[d].of
  BY ReaderMoves DEF AnswerClose, IInv, Types, Places
<1>1. Types'
  <2>1. WsType'
    BY DEF AnswerClose, IInv, Types, WsType
  <2>2. GotType'
    BY OneMore DEF AnswerClose, IInv, Types, GotType
  <2> QED BY <1>0, <2>1, <2>2, SameTypes DEF AnswerClose, IInv, Types
<1>2. ThreadInv'
  BY <1>0 DEF AnswerClose, guiVars, appVars, peerVars, IInv, ThreadInv, Alive, Kinds
<1>3. FrameInv'
  <2>1. fd \in {0, c} /\ Held(c) = 1 /\ Held(c)' = 0
    <3>1. Held(c) = 1 /\ Held(c)' = 0
      BY <1>0 DEF AnswerClose, Held
    <3>2. thread = c
      BY DEF AnswerClose, IInv, ThreadInv, Alive
    <3>3. fd \in {0, c}
      BY <3>2, Bounds DEF IInv, Types, GuiType, ThreadInv
    <3> QED BY <3>1, <3>3
  <2>2. ASSUME NEW d \in Conns
        PROVE  answers'[d] + Len(wire'[d]) + Held(d)' <= pushed'[d]
    <3>1. /\ answers[d] \in Nat /\ Len(wire[d]) \in Nat /\ pushed[d] \in Nat /\ Held(d) \in Nat
          /\ answers[d] + Len(wire[d]) + Held(d) <= pushed[d]
      BY DEF IInv, Types, GotType, PeerType, Held, FrameInv
    <3>2. answers'[d] = (IF d = fd THEN answers[d] + 1 ELSE answers[d])
      BY DEF AnswerClose, IInv, Types, GotType
    <3>3. wire'[d] = wire[d] /\ pushed'[d] = pushed[d]
      BY DEF AnswerClose, peerVars
    <3>4. d # c => Held(d)' = Held(d)
      BY <1>0 DEF Held
    <3> QED BY <2>1, <3>1, <3>2, <3>3, <3>4, Bounds
  <2> QED BY <2>2 DEF FrameInv
<1>4. ReportInv'
  <2>2. Telling' <= Telling
    BY <1>0, <1>1 DEF AnswerClose, Types, WsType, Telling, Alive
  <2> QED BY <1>1, <2>2, ReportsLeft DEF AnswerClose, guiVars, appVars, gotVars, IInv,
     Types, GuiType, AppType, Due, Telling
<1>5. LightInv'
  BY DEF AnswerClose, guiVars, appVars, IInv, LightInv
<1> QED BY <1>1, <1>2, <1>3, <1>4, <1>5 DEF IInv

\* on_connection(false) of the receive thread: its one report.
LEMMA TellLostStep == ASSUME IInv, NEW c \in Conns, TellLost(c) PROVE IInv'
<1>0. /\ reader' \in Readers
      /\ \A d \in Conns : /\ reader'[d].at = (IF d = c THEN "ended" ELSE reader[d].at)
                          /\ reader'[d].of = reader[d].of
  BY ReaderMoves DEF TellLost, IInv, Types, Places
<1>1. Types'
  <2>1. AppType'
    <3>1. flag' \in BOOLEAN
      BY Zenon DEF TellLost
    <3>2. idles' \in Nat
      BY DEF TellLost, IInv, Types, AppType
    <3>3. url' \in Urls \cup {NoUrl} /\ label' \in [on : BOOLEAN, url : Urls \cup {NoUrl}]
      BY DEF TellLost, IInv, Types, AppType
    <3> QED BY <3>1, <3>2, <3>3 DEF AppType
  <2> QED BY <1>0, <2>1, SameTypes DEF TellLost, IInv, Types
<1>2. ThreadInv'
  BY <1>0 DEF TellLost, guiVars, wsVars, peerVars, IInv, ThreadInv, Alive, Kinds
<1>3. FrameInv'
  BY <1>0 DEF TellLost, peerVars, gotVars, IInv, FrameInv, Held
<1>4. ReportInv'
  <2>1. clicks' = clicks /\ clicks \in Nat /\ idles \in Nat /\ idles' = idles + 1
    BY DEF TellLost, guiVars, IInv, Types, AppType, GuiType
  <2>2. Due' = Due /\ Due \in Nat
    BY DEF TellLost, guiVars, Due
  <2>3. thread = c /\ thread' = c /\ c # 0
    BY Bounds DEF TellLost, wsVars, IInv, ThreadInv, Alive
  <2>4. Telling = 1 /\ Telling' = 0
    BY <1>0, <2>3 DEF TellLost, Alive, Telling
  <2> QED BY <1>1, <2>1, <2>2, <2>4, ReportsLeft DEF TellLost, gotVars, IInv
<1>5. LightInv'
  BY DEF TellLost, wsVars, IInv, Types, AppType, ThreadInv, LightInv
<1> QED BY <1>1, <1>2, <1>3, <1>4, <1>5 DEF IInv

-------------------------------------------------------------------------------
(* The relay.                                                                *)

\* A relay answers the upgrade request.
LEMMA ReplyStep ==
  ASSUME IInv, NEW c \in Conns, NEW verdict \in {"accepted", "refused"}, Reply(c, verdict)
  PROVE  IInv'
<1>1. Types'
  <2>1. PeerType'
    BY DEF Reply, IInv, Types, PeerType
  <2> QED BY <2>1, SameTypes DEF Reply, IInv, Types
<1>2. ThreadInv'
  BY DEF Reply, guiVars, appVars, wsVars, IInv, ThreadInv, Alive
<1>3. FrameInv'
  BY DEF Reply, gotVars, IInv, FrameInv, Held
<1>4. ReportInv'
  <2>2. Telling' <= Telling
    BY DEF Reply, wsVars, Telling, Alive
  <2> QED BY <1>1, <2>2, ReportsLeft DEF Reply, guiVars, appVars, peerVars, gotVars, IInv,
     Types, GuiType, AppType, Due, Telling
<1>5. LightInv'
  BY DEF Reply, guiVars, appVars, wsVars, gotVars, IInv, LightInv
<1> QED BY <1>1, <1>2, <1>3, <1>4, <1>5 DEF IInv

\* A relay sends a frame: one more was pushed and is on the wire.
LEMMA PushStep == ASSUME IInv, NEW c \in Conns, NEW kind \in Kinds, Push(c, kind) PROVE IInv'
<1>1. Types'
  <2>1. PeerType'
    BY Bounds DEF Push, IInv, Types, PeerType
  <2> QED BY <2>1, SameTypes DEF Push, IInv, Types
<1>2. ThreadInv'
  BY DEF Push, guiVars, appVars, wsVars, IInv, ThreadInv, Alive
<1>3. FrameInv'
  <2>1. ASSUME NEW d \in Conns
        PROVE  answers'[d] + Len(wire'[d]) + Held(d)' <= pushed'[d]
    <3>1. /\ answers[d] \in Nat /\ Len(wire[d]) \in Nat /\ pushed[d] \in Nat /\ Held(d) \in Nat
          /\ answers[d] + Len(wire[d]) + Held(d) <= pushed[d] /\ wire[d] \in Seq(Kinds)
      BY DEF IInv, Types, GotType, PeerType, Held, FrameInv
    <3>2. answers'[d] = answers[d] /\ Held(d)' = Held(d)
      BY DEF Push, gotVars, Held
    <3>3. /\ d # c => wire'[d] = wire[d] /\ pushed'[d] = pushed[d]
          /\ d = c => wire'[d] = Append(wire[d], kind) /\ pushed'[d] = pushed[d] + 1
      BY DEF Push, IInv, Types, PeerType
    <3>4. d = c => Len(wire'[d]) = Len(wire[d]) + 1
      BY <3>3
    <3> QED BY <3>1, <3>2, <3>3, <3>4
  <2> QED BY <2>1 DEF FrameInv
<1>4. ReportInv'
  <2>2. Telling' <= Telling
    BY DEF Push, wsVars, Telling, Alive
  <2> QED BY <1>1, <2>2, ReportsLeft DEF Push, guiVars, appVars, peerVars, gotVars, IInv,
     Types, GuiType, AppType, Due, Telling
<1>5. LightInv'
  BY DEF Push, guiVars, appVars, wsVars, gotVars, IInv, LightInv
<1> QED BY <1>1, <1>2, <1>3, <1>4, <1>5 DEF IInv

\* A relay hangs up.
LEMMA HangUpStep ==
  ASSUME IInv, NEW c \in Conns, NEW how \in {"clean", "cut"}, HangUp(c, how)
  PROVE  IInv'
<1>1. Types'
  <2>1. PeerType'
    BY DEF HangUp, IInv, Types, PeerType
  <2> QED BY <2>1, SameTypes DEF HangUp, IInv, Types
<1>2. ThreadInv'
  BY DEF HangUp, guiVars, appVars, wsVars, IInv, ThreadInv, Alive
<1>3. FrameInv'
  BY DEF HangUp, gotVars, IInv, FrameInv, Held
<1>4. ReportInv'
  <2>2. Telling' <= Telling
    BY DEF HangUp, wsVars, Telling, Alive
  <2> QED BY <1>1, <2>2, ReportsLeft DEF HangUp, guiVars, appVars, peerVars, gotVars, IInv,
     Types, GuiType, AppType, Due, Telling
<1>5. LightInv'
  BY DEF HangUp, guiVars, appVars, wsVars, gotVars, IInv, LightInv
<1> QED BY <1>1, <1>2, <1>3, <1>4, <1>5 DEF IInv

-------------------------------------------------------------------------------
(* The whole next-state relation.                                            *)

\* At the start there is no connection and nothing to report.
LEMMA InitIInv == Init => IInv
<1> SUFFICES ASSUME Init PROVE IInv
  OBVIOUS
<1>1. Types
  <2>1. GuiType /\ AppType
    <3>1. 0 \in 0..Clicks
      BY Bounds
    <3> QED BY <3>1 DEF Init, GuiType, AppType
  <2>2. WsType /\ reader \in Readers
    BY DEF Init, WsType, Readers, Places
  <2>3. PeerType /\ GotType
    BY Bounds DEF Init, PeerType, GotType
  <2> QED BY <2>1, <2>2, <2>3 DEF Types
<1>2. ThreadInv
  BY DEF Init, ThreadInv, Alive, Kinds
<1>3. FrameInv
  BY DEF Init, FrameInv, Held
<1>4. ReportInv
  BY DEF Init, ReportInv, Due, Telling
<1>5. LightInv
  BY DEF Init, LightInv
<1> QED BY <1>1, <1>2, <1>3, <1>4, <1>5 DEF IInv

\* Nothing in the invariant looks at anything but the variables.
LEMMA StutterStep == ASSUME IInv, UNCHANGED vars PROVE IInv'
<1>1. Types'
  BY SameTypes DEF IInv, Types, vars
<1>2. ThreadInv'
  BY DEF IInv, ThreadInv, Alive, vars, guiVars, appVars, wsVars, peerVars
<1>3. FrameInv'
  BY DEF IInv, FrameInv, Held, vars, peerVars, gotVars
<1>4. ReportInv'
  BY DEF IInv, ReportInv, Due, Telling, Alive, vars, guiVars, appVars, wsVars, gotVars
<1>5. LightInv'
  BY DEF IInv, LightInv, vars, guiVars, appVars, wsVars, gotVars
<1> QED BY <1>1, <1>2, <1>3, <1>4, <1>5 DEF IInv

\* One case for each action of Next.
LEMMA NextIInv == IInv /\ [Next]_vars => IInv'
<1> SUFFICES ASSUME IInv, [Next]_vars PROVE IInv'
  OBVIOUS
<1>1. CASE \E u \in Urls : Connect(u)
  BY <1>1, ConnectStep
<1>2. CASE Gui
  <2>1. CASE ClearFlags \/ CloseSocket \/ JoinReader \/ TellGone
    BY <2>1, ClearFlagsStep, CloseSocketStep, JoinReaderStep, TellGoneStep
  <2>2. CASE Dial \/ DialFails \/ DialThrows \/ Upgraded \/ HandshakeFails \/ StartReader
    BY <2>2, DialStep, DialFailsStep, DialThrowsStep, UpgradedStep,
       HandshakeFailsStep, StartReaderStep
  <2>3. CASE TellOutcome \/ ShowOutcome \/ RunIdle \/ Greet
    BY <2>3, TellOutcomeStep, ShowOutcomeStep, RunIdleStep, GreetStep
  <2> QED BY <1>2, <2>1, <2>2, <2>3 DEF Gui
<1>3. CASE \E c \in Conns : ReaderStep(c)
  <2>1. PICK c \in Conns : ReaderStep(c)
    BY <1>3
  <2>2. CASE ReadOn(c) \/ ReadFrame(c) \/ LoseLink(c) \/ BreakOff(c)
    BY <2>2, ReadOnStep, ReadFrameStep, LoseLinkStep, BreakOffStep
  <2>3. CASE Deliver(c) \/ Answer(c) \/ AnswerClose(c) \/ TellLost(c)
    BY <2>3, DeliverStep, AnswerStep, AnswerCloseStep, TellLostStep
  <2> QED BY <2>1, <2>2, <2>3 DEF ReaderStep
<1>4. CASE \E c \in Conns : Peer(c)
  BY <1>4, ReplyStep, PushStep, HangUpStep DEF Peer
<1>5. CASE UNCHANGED vars
  BY <1>5, StutterStep
<1> QED BY <1>1, <1>2, <1>3, <1>4, <1>5 DEF Next

-------------------------------------------------------------------------------
(* The theorems.                                                             *)

\* Whatever the order in which the GUI thread, the receive threads and the relays take
\* their steps, and however often the user connects, the invariant holds.
THEOREM LinkInvariant == Spec => []IInv
BY InitIInv, NextIInv, PTL DEF Spec

\* Every variable keeps its type; in particular a click leads to at most three reports,
\* and a relay gets at most one answer for each frame it sent.
THEOREM LinkTypeCorrect == Spec => []TypeOK
BY TypesImply, LinkInvariant, PTL

\* No two receive threads run at a time, and what the one that runs hands on or answers
\* is of the connection the client shows, although it reads fd_ afresh at every frame.
THEOREM OneRelay == Spec => []OwnRelay
<1>1. IInv => OwnRelay
  <2> SUFFICES ASSUME IInv, NEW c \in Conns, Alive(c)
               PROVE  /\ thread = c /\ fd \in {0, c}
                      /\ reader[c].at \in Kinds => (reader[c].of = c /\ relay[c] = url)
    BY DEF OwnRelay, Alive
  <2>1. thread = c
    BY DEF IInv, ThreadInv
  <2>2. fd \in {0, c}
    BY Bounds DEF IInv, Types, GuiType, ThreadInv
  <2>3. reader[c].at \in Kinds => (reader[c].of = c /\ relay[c] = url)
    BY DEF IInv, ThreadInv
  <2> QED BY <2>1, <2>2, <2>3
<1> QED BY <1>1, LinkInvariant, PTL

\* A status that is not about to change tells the truth, and the relay it names has been
\* greeted, although a callback looks at the flag when it runs and not at the one it was
\* queued for.
THEOREM StatusTrue == Spec => []StatusSettles
<1>1. IInv => StatusSettles
  <2> SUFFICES ASSUME IInv, Settled
               PROVE  /\ label.on = flag
                      /\ connected => /\ label = [on |-> TRUE, url |-> relay[fd]]
                                      /\ profiles[fd] > 0 /\ subs[fd] > 0
    BY DEF StatusSettles
  <2>2. ASSUME connected
        PROVE  fd \in Conns /\ relay[fd] = url
    BY <2>2 DEF IInv, Types, WsType, ThreadInv
  <2> QED BY <2>2 DEF Settled, IInv, LightInv
<1> QED BY <1>1, LinkInvariant, PTL

===============================================================================
