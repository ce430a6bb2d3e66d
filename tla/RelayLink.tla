------------------------------- MODULE RelayLink -------------------------------
(***************************************************************************)
(* The desktop client's link to a relay: connect_to_relay of app.cpp,      *)
(* RelayClient and WsClient.  The GUI thread drops the old connection,      *)
(* dials the new one and shows the outcome; a receive thread reads the      *)
(* connection, answers pings and reports its end through a flag on the      *)
(* window and a callback queued with g_idle_add, which the GUI thread runs  *)
(* when it is idle.  The threads share fd_, connected_ and running_, without *)
(* a lock.                                                                  *)
(*                                                                         *)
(* Connections are plain ws:// ones (reads poll, and look at running_ every *)
(* 5 s), and the relay reads what it is sent.  A connection is the number   *)
(* of the dialling attempt that opened it.                                  *)
(***************************************************************************)
EXTENDS Naturals, Sequences

CONSTANTS
  Urls,         \* the relays the user may connect to
  BadPorts,     \* those of them whose port stoi() cannot read
  NoUrl,        \* current_relay_url_ before the first connect
  Clicks,       \* bound: how often the user connects
  Frames        \* bound: how many frames each relay sends on a connection

ASSUME LinkAssumption ==
  Clicks \in Nat \ {0} /\ Frames \in Nat /\ Urls # {} /\ NoUrl \notin Urls
  /\ BadPorts \subseteq Urls

Conns == 1..Clicks

VARIABLES
  gpc, want, ok, clicks,   \* GUI thread: place, url to connect to, outcome, clicks so far
  url, flag, idles, label, \* current_relay_url_, "_relay_connected", queued callbacks, the status shown
  fd, connected, running,  \* WsClient: the connection fd_ stands for (0: -1), its flags
  thread,                  \* recv_thread_: the connection it was started for, or 0
  reader,                  \* every receive thread: place, and connection of the frame it holds
  peer, relay, wire, pushed, eof,  \* relay's end of a connection: handshake, its url, bytes under way
  profiles, subs, answers  \* what the relay got: profiles, subscriptions, answers to its frames

guiVars == <<gpc, want, ok, clicks>>
appVars == <<url, flag, idles, label>>
wsVars == <<fd, connected, running, thread>>
peerVars == <<peer, relay, wire, pushed, eof>>
gotVars == <<profiles, subs, answers>>
vars == <<guiVars, appVars, wsVars, reader, peerVars, gotVars>>

Kinds == {"text", "ping", "close"}

TypeOK ==
  /\ gpc \in {"idle", "greet", "drop", "close", "join", "told", "dial", "handshake",
              "up", "tell", "show", "ended"}
  /\ want \in Urls \cup {NoUrl} /\ ok \in BOOLEAN /\ clicks \in 0..Clicks
  /\ url \in Urls \cup {NoUrl} /\ flag \in BOOLEAN /\ idles \in 0..3 * Clicks
  /\ label \in [on : BOOLEAN, url : Urls \cup {NoUrl}]
  /\ {fd, thread} \subseteq Conns \cup {0} /\ {connected, running} \subseteq BOOLEAN
  /\ reader \in [Conns -> [at : {"unborn", "loop", "header", "lost", "ended"} \cup Kinds,
                           of : Conns \cup {0}]]
  /\ peer \in [Conns -> {"none", "asked", "accepted", "refused"}]
  /\ relay \in [Conns -> Urls \cup {NoUrl}]
  /\ wire \in [Conns -> Seq(Kinds)] /\ pushed \in [Conns -> 0..Frames]
  /\ eof \in [Conns -> {"no", "clean", "cut"}]
  /\ {profiles, subs} \subseteq [Conns -> 0..3 * Clicks] /\ answers \in [Conns -> 0..Frames]

Init ==
  /\ gpc = "idle" /\ want = NoUrl /\ ok = FALSE /\ clicks = 0
  /\ url = NoUrl /\ flag = FALSE /\ idles = 0 /\ label = [on |-> FALSE, url |-> NoUrl]
  /\ fd = 0 /\ connected = FALSE /\ running = FALSE /\ thread = 0
  /\ reader = [c \in Conns |-> [at |-> "unborn", of |-> 0]]
  /\ peer = [c \in Conns |-> "none"] /\ relay = [c \in Conns |-> NoUrl]
  /\ wire = [c \in Conns |-> <<>>] /\ pushed = [c \in Conns |-> 0]
  /\ eof = [c \in Conns |-> "no"]
  /\ profiles = [c \in Conns |-> 0] /\ subs = [c \in Conns |-> 0]
  /\ answers = [c \in Conns |-> 0]

-------------------------------------------------------------------------------
(* GUI thread.                                                               *)

GoTo(place) == gpc' = place

\* The connect callback: it sets the flag and queues a callback for the GUI thread,
\* which will look at the flag as it is then.
Report(up) == flag' = up /\ idles' = idles + 1

\* A click on Connect: connect_to_relay(u).
Connect(u) ==
  /\ gpc = "idle" /\ clicks < Clicks
  /\ want' = u /\ clicks' = clicks + 1 /\ GoTo("drop")
  /\ UNCHANGED <<ok, appVars, wsVars, reader, peerVars, gotVars>>

\* WsClient::disconnect.
ClearFlags ==
  /\ gpc = "drop" /\ running' = FALSE /\ connected' = FALSE /\ GoTo("close")
  /\ UNCHANGED <<want, ok, clicks, appVars, fd, thread, reader, peerVars, gotVars>>

CloseSocket ==
  /\ gpc = "close" /\ fd' = 0 /\ GoTo("join")
  /\ UNCHANGED <<want, ok, clicks, appVars, connected, running, thread, reader,
                 peerVars, gotVars>>

JoinReader_Detach ==
  /\ gpc = "join" /\ thread' = 0 /\ GoTo("told")
  /\ UNCHANGED <<want, ok, clicks, appVars, fd, connected, running, reader, peerVars, gotVars>>

JoinReader ==
  /\ gpc = "join" /\ (thread # 0 => reader[thread].at = "ended")
  /\ thread' = 0 /\ GoTo("told")
  /\ UNCHANGED <<want, ok, clicks, appVars, fd, connected, running, reader, peerVars, gotVars>>

\* RelayClient::disconnect calls the callback of the last connect_to_relay, if any.
TellGone ==
  /\ gpc = "told" /\ url' = want /\ GoTo("dial")
  /\ IF url = NoUrl THEN UNCHANGED <<flag, idles>> ELSE Report(FALSE)
  /\ UNCHANGED <<want, ok, clicks, label, wsVars, reader, peerVars, gotVars>>

\* WsClient::connect: its own disconnect() has nothing left to do.
Dial ==
  /\ gpc = "dial" /\ url \notin BadPorts /\ fd' = clicks /\ GoTo("handshake")
  /\ peer' = [peer EXCEPT ![clicks] = "asked"]
  /\ relay' = [relay EXCEPT ![clicks] = url]
  /\ UNCHANGED <<want, ok, clicks, appVars, connected, running, thread, reader, wire,
                 pushed, eof, gotVars>>

\* No such host, connection refused, or a url with another scheme or no host.
DialFails ==
  /\ gpc = "dial" /\ url \notin BadPorts /\ ok' = FALSE /\ GoTo("tell")
  /\ UNCHANGED <<want, clicks, appVars, wsVars, reader, peerVars, gotVars>>

\* parse_ws_url throws at a port that is no number; nobody catches it up to the
\* click's handler, and the process ends.
DialThrows ==
  /\ gpc = "dial" /\ url \in BadPorts /\ GoTo("ended")
  /\ UNCHANGED <<want, ok, clicks, appVars, wsVars, reader, peerVars, gotVars>>

Upgraded ==
  /\ gpc = "handshake" /\ peer[fd] = "accepted" /\ GoTo("up")
  /\ UNCHANGED <<want, ok, clicks, appVars, wsVars, reader, peerVars, gotVars>>

\* The relay refuses, hangs up, or is silent for 5 s: running_ is not set yet, so a
\* read of the handshake ends with the first poll() that times out.
HandshakeFails ==
  /\ gpc = "handshake" /\ peer[fd] # "accepted"
  /\ fd' = 0 /\ ok' = FALSE /\ GoTo("tell")
  /\ UNCHANGED <<want, clicks, appVars, connected, running, thread, reader, peerVars, gotVars>>

StartReader ==
  /\ gpc = "up" /\ connected' = TRUE /\ running' = TRUE /\ thread' = fd
  /\ reader' = [reader EXCEPT ![fd].at = "loop"]
  /\ ok' = TRUE /\ GoTo("tell")
  /\ UNCHANGED <<want, clicks, appVars, fd, peerVars, gotVars>>

\* The last callback of RelayClient::connect is left out.
TellOutcome_Forgotten ==
  /\ gpc = "tell" /\ GoTo("show")
  /\ UNCHANGED <<want, ok, clicks, appVars, wsVars, reader, peerVars, gotVars>>

TellOutcome ==
  /\ gpc = "tell" /\ Report(ok) /\ GoTo("show")
  /\ UNCHANGED <<want, ok, clicks, url, label, wsVars, reader, peerVars, gotVars>>

ShowOutcome ==
  /\ gpc = "show" /\ label' = [on |-> ok, url |-> url] /\ GoTo("idle")
  /\ UNCHANGED <<want, ok, clicks, url, flag, idles, wsVars, reader, peerVars, gotVars>>

\* A queued callback shows the flag as it is now, not as it was when queued, and
\* greets the relay if it is there.
RunIdle ==
  /\ gpc = "idle" /\ idles > 0
  /\ idles' = idles - 1 /\ label' = [on |-> flag, url |-> url]
  /\ GoTo(IF flag /\ connected THEN "greet" ELSE "idle")
  /\ UNCHANGED <<want, ok, clicks, url, flag, wsVars, reader, peerVars, gotVars>>

\* publish_profile, which looks at connected_ again, and the subscriptions.
Greet ==
  /\ gpc = "greet" /\ GoTo("idle")
  /\ profiles' = [profiles EXCEPT ![fd] = IF connected THEN @ + 1 ELSE @]
  /\ subs' = [subs EXCEPT ![fd] = @ + 1]
  /\ UNCHANGED <<want, ok, clicks, appVars, wsVars, reader, peerVars, answers>>

Gui ==
  \/ ClearFlags \/ CloseSocket \/ JoinReader \/ TellGone \/ Dial \/ DialFails
  \/ DialThrows \/ Upgraded \/ HandshakeFails \/ StartReader \/ TellOutcome \/ ShowOutcome
  \/ RunIdle \/ Greet

-------------------------------------------------------------------------------
(* Receive threads: recv_loop.  A thread reads what fd_ stands for when it    *)
(* reads, which need not be what it was when it was started.                  *)

ReaderAt(c, place) == reader[c].at = place
ReaderGoTo(c, place) == reader' = [reader EXCEPT ![c].at = place]

ReadOn(c) ==
  /\ ReaderAt(c, "loop") /\ ReaderGoTo(c, IF running THEN "header" ELSE "ended")
  /\ UNCHANGED <<guiVars, appVars, wsVars, peerVars, gotVars>>

\* A whole frame is there.
ReadFrame_Peek(c) ==
  /\ ReaderAt(c, "header") /\ fd # 0 /\ wire[fd] # <<>>
  /\ reader' = [reader EXCEPT ![c] = [at |-> Head(wire[fd]), of |-> fd]]
  /\ UNCHANGED <<guiVars, appVars, wsVars, peerVars, gotVars>>

ReadFrame(c) ==
  /\ ReaderAt(c, "header") /\ fd # 0 /\ wire[fd] # <<>>
  /\ reader' = [reader EXCEPT ![c] = [at |-> Head(wire[fd]), of |-> fd]]
  /\ wire' = [wire EXCEPT ![fd] = Tail(@)]
  /\ UNCHANGED <<guiVars, appVars, wsVars, peer, relay, pushed, eof, gotVars>>

\* raw_recv fails: at the end of the stream, or when poll() has timed out and
\* running_ is off.
Nothing == fd # 0 => wire[fd] = <<>>
EndOfStream == fd # 0 /\ wire[fd] = <<>> /\ eof[fd] = "clean"
TimedOut_Forever == FALSE
TimedOut == ~running /\ Nothing

\* The header cannot be read: on_close_ is called unless somebody cleared connected_.
LoseLink_Silently(c) ==
  /\ ReaderAt(c, "header") /\ (EndOfStream \/ TimedOut)
  /\ ReaderGoTo(c, "ended") /\ connected' = FALSE
  /\ UNCHANGED <<guiVars, appVars, fd, running, thread, peerVars, gotVars>>

LoseLink(c) ==
  /\ ReaderAt(c, "header") /\ (EndOfStream \/ TimedOut)
  /\ ReaderGoTo(c, IF connected THEN "lost" ELSE "ended") /\ connected' = FALSE
  /\ UNCHANGED <<guiVars, appVars, fd, running, thread, peerVars, gotVars>>

\* The stream ends inside a frame's header: the thread ends and tells nobody.
BreakOff(c) ==
  /\ ReaderAt(c, "header") /\ fd # 0 /\ wire[fd] = <<>> /\ eof[fd] = "cut"
  /\ ReaderGoTo(c, "ended")
  /\ UNCHANGED <<guiVars, appVars, wsVars, peerVars, gotVars>>

\* A text frame goes to the message callback.
Deliver(c) ==
  /\ ReaderAt(c, "text") /\ ReaderGoTo(c, "loop")
  /\ UNCHANGED <<guiVars, appVars, wsVars, peerVars, gotVars>>

\* A ping is answered on what fd_ is now (if it is closed, to nobody); so is a close
\* frame, which ends the link.
Answer(c) ==
  /\ ReaderAt(c, "ping") /\ ReaderGoTo(c, "loop")
  /\ answers' = [answers EXCEPT ![fd] = @ + 1]
  /\ UNCHANGED <<guiVars, appVars, wsVars, peerVars, profiles, subs>>

AnswerClose(c) ==
  /\ ReaderAt(c, "close") /\ ReaderGoTo(c, "lost") /\ connected' = FALSE
  /\ answers' = [answers EXCEPT ![fd] = @ + 1]
  /\ UNCHANGED <<guiVars, appVars, fd, running, thread, peerVars, profiles, subs>>

\* on_close_, on this thread.
TellLost(c) ==
  /\ ReaderAt(c, "lost") /\ ReaderGoTo(c, "ended") /\ Report(FALSE)
  /\ UNCHANGED <<guiVars, url, label, wsVars, peerVars, gotVars>>

ReaderStep(c) ==
  \/ ReadOn(c) \/ ReadFrame(c) \/ LoseLink(c) \/ BreakOff(c) \/ Deliver(c)
  \/ Answer(c) \/ AnswerClose(c) \/ TellLost(c)

-------------------------------------------------------------------------------
(* The relay, while the client has the connection open (what comes later is   *)
(* lost): it answers the handshake, sends frames, closes its end.             *)

Reply(c, verdict) ==
  /\ fd = c /\ peer[c] = "asked" /\ eof[c] = "no"
  /\ peer' = [peer EXCEPT ![c] = verdict]
  /\ UNCHANGED <<guiVars, appVars, wsVars, reader, relay, wire, pushed, eof, gotVars>>

Push(c, kind) ==
  /\ fd = c /\ peer[c] = "accepted" /\ eof[c] = "no" /\ pushed[c] < Frames
  /\ wire' = [wire EXCEPT ![c] = Append(@, kind)]
  /\ pushed' = [pushed EXCEPT ![c] = @ + 1]
  /\ UNCHANGED <<guiVars, appVars, wsVars, reader, peer, relay, eof, gotVars>>

HangUp(c, how) ==
  /\ fd = c /\ eof[c] = "no" /\ (how = "cut" => peer[c] = "accepted")
  /\ eof' = [eof EXCEPT ![c] = how]
  /\ UNCHANGED <<guiVars, appVars, wsVars, reader, peer, relay, wire, pushed, gotVars>>

Peer(c) ==
  \/ \E verdict \in {"accepted", "refused"} : Reply(c, verdict)
  \/ \E kind \in Kinds : Push(c, kind)
  \/ \E how \in {"clean", "cut"} : HangUp(c, how)

Next == (\E u \in Urls : Connect(u)) \/ Gui \/ (\E c \in Conns : ReaderStep(c) \/ Peer(c))

Spec == Init /\ [][Next]_vars

\* The GUI thread and the receive threads run whenever they can; the user need not
\* connect and the relay need not do anything.
FairSpec == Spec /\ WF_vars(Gui) /\ \A c \in Conns : WF_vars(ReaderStep(c))

-------------------------------------------------------------------------------
(* Properties.                                                               *)

\* One receive thread at a time, and what it handles is the current relay's: a text
\* frame comes from the relay whose url the client shows, and a ping or close frame
\* is answered to the relay that sent it, although a thread uses whatever fd_ is
\* when it reads or writes (ws_client.cpp:36-44, 224-259).
OwnRelay ==
  \A c \in Conns : reader[c].at \notin {"unborn", "ended"} =>
    /\ thread = c /\ fd \in {0, c}
    /\ reader[c].at \in Kinds => (reader[c].of = c /\ relay[c] = url)

\* When the GUI thread has nothing left to do and no thread is about to report, the
\* status shown is the flag; it is never red, or another relay's, while the client
\* is connected (app.cpp:200-231, 265-266), and that relay has been sent its profile
\* and subscriptions (lines 211-227), although the callback that does so looks at the
\* latest flag and not at the one it was queued for.  The converse does not hold: a
\* link that ends before connect() has reported it, or inside a frame's header, leaves
\* a green light.
Settled == gpc = "idle" /\ idles = 0 /\ \A c \in Conns : reader[c].at # "lost"
StatusSettles ==
  Settled => /\ label.on = flag
             /\ connected =>
                  /\ label = [on |-> TRUE, url |-> relay[fd]]
                  /\ profiles[fd] > 0 /\ subs[fd] > 0

\* A click on Connect returns to the main loop even if the old relay, or the new
\* one, says nothing (ws_client.cpp:241-259); the one exception is a url whose port
\* stoi() cannot read, which ends the program (line 70).
ConnectReturns ==
  (gpc # "idle") ~> (gpc = "idle" \/ (gpc = "ended" /\ want \in BadPorts))

\* A relay that closes its end between frames, once connect() has reported it, gets
\* a red light unless the user connects again (ws_client.cpp:304-307, 348-352).
Dropped == gpc \in {"idle", "greet"} /\ connected /\ eof[fd] = "clean"
LossShown == Dropped ~> (~label.on \/ gpc \notin {"idle", "greet"})
===============================================================================
