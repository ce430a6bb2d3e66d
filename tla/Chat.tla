---------------------------------- MODULE Chat ----------------------------------
(***************************************************************************)
(* The chat page of the desktop client (app.cpp): the user's nodes, the     *)
(* list of messages of the node that is open, the files both are kept in,   *)
(* and the receive thread that appends to the list while the GUI thread     *)
(* reads and replaces it, without a lock.                                   *)
(*                                                                         *)
(* The link to the relay is RelayLink's, reduced to what the chat sees of   *)
(* it: dropping the old connection waits for the receive thread, dialling   *)
(* succeeds or not, the thread ends when the relay does.  A save may fail:  *)
(* a file that cannot be opened keeps its old text, one that was opened and *)
(* not written to the end is Cut: it does not parse and loads as nothing.   *)
(* So does a file that cannot be opened to be read.                         *)
(***************************************************************************)
EXTENDS Naturals, Sequences, FiniteSets

CONSTANTS
  Urls, NoUrl,   \* relays; a node created without a default relay url
  Cut,           \* a file that was truncated and not written to the end
  Home,          \* the default relay url when a node is created, for each node
  Sends,         \* bound: how many messages the user sends
  Arrivals,      \* bound: how many events arrive
  Dials,         \* bound: how often the client connects
  Faults         \* bound: kills, and files that could not be opened or written

ASSUME ChatAssumption ==
  /\ {Sends, Arrivals, Dials, Faults} \subseteq Nat
  /\ NoUrl \notin Urls
  /\ Home \in Seq(Urls \cup {NoUrl})

Ids == DOMAIN Home   \* nodes are numbered in the order they are created; Home bounds them

VARIABLES
  gpc, want,                   \* GUI thread: place, url to connect to
  nodes, current,              \* nodes_ and current_node_id_ (0: none)
  messages, shown,             \* messages_ and what the chat view shows
  rest,                        \* what on_chat_node_clicked has read and not yet appended
  nodeFile, files,             \* nodes.json and messages/<id>.json
  rpc, inhand,                 \* receive thread: place, the message it is about to append
  url, connected, subs,        \* the link: relay, state, nodes subscribed to on it
  statuses, refreshes,         \* queued callbacks: any of the connection's, those of refresh_chat
  made, sends, arrivals, dials, faults,       \* counters
  stale, nodesStale,           \* the last save of the open chat, of the nodes, has failed
  said, late, owned, harm, nodesLost, strayed    \* history, see the properties

guiVars == <<gpc, want>>
nodeVars == <<nodes, nodeFile, nodesStale, made, owned, nodesLost>>
chatVars == <<current, messages, shown, rest, files, stale, said, late, harm>>
threadVars == <<rpc, inhand, arrivals>>
linkVars == <<url, connected, subs, dials, strayed>>
queueVars == <<statuses, refreshes>>
tally == <<sends, faults>>
vars == <<guiVars, nodeVars, chatVars, threadVars, linkVars, queueVars, tally>>

Message == [by : {"me", "them"}, no : Nat, node : Ids \cup {0}]
Elements(list) == {list[i] : i \in DOMAIN list}
NoMessage == [by |-> "them", no |-> 0, node |-> 0]

ASSUME CutAssumption == Cut \notin Seq(Ids) \cup Seq(Message)

TypeOK ==
  /\ gpc \in {"down", "idle", "saveNodes", "saveStopped", "leave",
              "clear", "clearDeleted", "switched", "load", "drop", "dial", "save",
              "publish", "show"}
  /\ want \in Urls \cup {NoUrl}
  /\ nodes \in Seq(Ids) /\ (nodeFile = Cut \/ nodeFile \in Seq(Ids))
  /\ current \in {0} \cup Elements(nodes)
  /\ {messages, shown, rest} \subseteq Seq(Message) /\ {stale, nodesStale} \subseteq BOOLEAN
  /\ \A n \in Ids : files[n] = Cut \/ files[n] \in Seq(Message)
  /\ rpc \in {"off", "loop", "push", "cache", "queue"}
  /\ connected => rpc # "off"
  /\ rpc = "push" => inhand.by = "them"
  /\ statuses \in BOOLEAN /\ refreshes \in 0..Arrivals

\* What load_messages and load_nodes make of a file.
Loaded(file) == IF file = Cut THEN <<>> ELSE file

Init ==
  /\ gpc = "down" /\ want = NoUrl
  /\ nodes = <<>> /\ nodeFile = <<>> /\ made = 0 /\ owned = {} /\ nodesLost = FALSE
  /\ nodesStale = FALSE /\ stale = FALSE /\ rest = <<>>
  /\ current = 0 /\ messages = <<>> /\ shown = <<>> /\ files = [n \in Ids |-> <<>>]
  /\ said = {} /\ late = {} /\ harm = {}
  /\ rpc = "off" /\ inhand = NoMessage /\ arrivals = 0
  /\ url = NoUrl /\ connected = FALSE /\ subs = {} /\ dials = 0 /\ strayed = FALSE
  /\ statuses = FALSE /\ refreshes = 0
  /\ sends = 0 /\ faults = 0
-------------------------------------------------------------------------------
(* The list of nodes.  Buttons carry an index into nodes_, and refresh_nodes  *)
(* draws them anew in the handler that changes it, so an index is a row's.    *)

GoTo(place) == gpc' = place

\* Messages of the open node that are only in memory are forgotten.
Forget == harm' = harm \cup {n \in {current} : stale} /\ stale' = FALSE

CreateNode ==
  /\ gpc = "idle" /\ made < Len(Home)
  /\ made' = made + 1 /\ owned' = owned \cup {made'}
  /\ nodes' = Append(nodes, made')
  /\ GoTo("saveNodes")
  /\ UNCHANGED <<want, nodeFile, nodesStale, nodesLost, chatVars, threadVars, linkVars,
                 queueVars, tally>>

\* Start or stop; whether a node runs is not kept here.
ToggleNode(i, running) ==
  /\ gpc = "idle"
  /\ GoTo(IF ~running /\ nodes[i] = current THEN "saveStopped" ELSE "saveNodes")
  /\ UNCHANGED <<want, nodeVars, chatVars, threadVars, linkVars, queueVars, tally>>

Without(list, i) == SubSeq(list, 1, i - 1) \o SubSeq(list, i + 1, Len(list))

\* The open chat stays open.
DeleteNode_StayOpen(i) ==
  /\ gpc = "idle"
  /\ nodes' = Without(nodes, i) /\ owned' = owned \ {nodes[i]} /\ GoTo("saveNodes")
  /\ UNCHANGED <<want, nodeFile, nodesStale, made, nodesLost, chatVars, threadVars, linkVars,
                 queueVars, tally>>

DeleteNode_Unsaved(i) ==
  /\ gpc = "idle"
  /\ nodes' = Without(nodes, i) /\ owned' = owned \ {nodes[i]}
  /\ IF nodes[i] = current
       THEN current' = 0 /\ Forget /\ GoTo("clear")
       ELSE UNCHANGED <<gpc, current, stale, harm>>
  /\ UNCHANGED <<want, nodeFile, nodesStale, made, nodesLost, messages, shown, rest, files,
                 said, late, threadVars, linkVars, queueVars, tally>>

DeleteNode(i) ==
  /\ gpc = "idle"
  /\ nodes' = Without(nodes, i) /\ owned' = owned \ {nodes[i]}
  /\ IF nodes[i] = current
       THEN current' = 0 /\ Forget /\ GoTo("clearDeleted")
       ELSE UNCHANGED <<current, stale, harm>> /\ GoTo("saveNodes")
  /\ UNCHANGED <<want, nodeFile, nodesStale, made, nodesLost, messages, shown, rest, files,
                 said, late, threadVars, linkVars, queueVars, tally>>

\* A save that fails, before it has opened the file or after, is a fault; nobody looks at
\* its result.
SaveNodes ==
  /\ \/ gpc = "saveNodes" /\ GoTo("idle")
     \/ gpc = "saveStopped" /\ GoTo("leave")
  /\ \/ nodeFile' = nodes /\ nodesStale' = FALSE /\ UNCHANGED faults
     \/ /\ faults < Faults /\ faults' = faults + 1 /\ nodesStale' = TRUE
        /\ nodeFile' = Cut \/ UNCHANGED nodeFile
  /\ UNCHANGED <<want, nodes, made, owned, nodesLost, chatVars, threadVars, linkVars,
                 queueVars, sends>>

\* Stopping the open node closes its chat.
LeaveNode ==
  /\ gpc = "leave" /\ current' = 0 /\ Forget /\ GoTo("clear")
  /\ UNCHANGED <<want, nodeVars, messages, shown, rest, files, said, late, threadVars,
                 linkVars, queueVars, tally>>

ClearChat ==
  /\ gpc \in {"clear", "clearDeleted"} /\ messages' = <<>> /\ shown' = <<>>
  /\ GoTo(IF gpc = "clear" THEN "idle" ELSE "saveNodes")
  /\ UNCHANGED <<want, nodeVars, current, rest, files, stale, said, late, harm, threadVars,
                 linkVars, queueVars, tally>>

-------------------------------------------------------------------------------
(* The chat of a node: open, load, show, connect to its relay; say something. *)

OpenChat(i) ==
  /\ gpc = "idle" /\ (Home[nodes[i]] # NoUrl => dials < Dials)
  /\ current' = nodes[i] /\ Forget /\ GoTo("switched")
  /\ UNCHANGED <<want, nodeVars, messages, shown, rest, files, said, late, threadVars,
                 linkVars, queueVars, tally>>

\* Nothing is loaded.
LoadChat_Fresh ==
  /\ gpc = "switched" /\ messages' = <<>> /\ rest' = <<>> /\ GoTo("load")
  /\ UNCHANGED <<want, nodeVars, current, shown, files, stale, said, late, harm, threadVars,
                 linkVars, queueVars, tally>>

\* The list is not cleared first.
LoadChat_Onto ==
  /\ gpc = "switched" /\ rest' = Loaded(files[current]) /\ GoTo("load")
  /\ UNCHANGED <<want, nodeVars, current, messages, shown, files, stale, said, late, harm,
                 threadVars, linkVars, queueVars, tally>>

LoadChat ==
  /\ gpc = "switched" /\ messages' = <<>> /\ GoTo("load")
  /\ \/ rest' = Loaded(files[current]) /\ UNCHANGED <<faults, harm>>
     \/ /\ faults < Faults /\ faults' = faults + 1
        /\ rest' = <<>> /\ harm' = harm \cup {current}
  /\ UNCHANGED <<want, nodeVars, current, shown, files, stale, said, late, threadVars,
                 linkVars, queueVars, sends>>

\* The message in hand is appended; it came while another node was open.
Mark == late' = late \cup {m \in {inhand} : m.node # current}

\* The GUI thread appends m.  If the receive thread appends at the same time, one of the
\* two may be lost.
Add(m) ==
  \/ messages' = Append(messages, m) /\ UNCHANGED <<harm, rpc, inhand, late>>
  \/ /\ rpc = "push" /\ rpc' = "queue" /\ inhand' = NoMessage
     /\ \/ messages' = Append(messages, m) /\ UNCHANGED <<harm, late>>
        \/ /\ messages' = Append(messages, inhand) /\ Mark
           /\ harm' = harm \cup {x.node : x \in {y \in {m} : y.by = "me"}}

LoadMessage ==
  /\ gpc = "load" /\ rest # <<>>
  /\ rest' = Tail(rest) /\ Add(Head(rest))
  /\ UNCHANGED <<guiVars, nodeVars, current, shown, files, stale, said, arrivals, linkVars,
                 queueVars, tally>>

\* A client that is connected stays where it is.
ShowChat_StayConnected ==
  /\ gpc = "load" /\ rest = <<>> /\ shown' = messages
  /\ IF Home[current] = NoUrl \/ connected
       THEN GoTo("idle") /\ UNCHANGED <<want, strayed>>
       ELSE want' = Home[current] /\ strayed' = FALSE /\ GoTo("drop")
  /\ UNCHANGED <<nodeVars, current, messages, rest, files, stale, said, late, harm, threadVars,
                 url, connected, subs, dials, queueVars, tally>>

ShowChat ==
  /\ gpc = "load" /\ rest = <<>> /\ shown' = messages
  /\ IF Home[current] = NoUrl
       THEN GoTo("idle") /\ UNCHANGED <<want, strayed>>
       ELSE want' = Home[current] /\ strayed' = FALSE /\ GoTo("drop")
  /\ UNCHANGED <<nodeVars, current, messages, rest, files, stale, said, late, harm, threadVars,
                 url, connected, subs, dials, queueVars, tally>>

\* What is said is appended to the list.
Own == [by |-> "me", no |-> sends + 1, node |-> current]
Say ==
  /\ gpc = "idle" /\ current # 0 /\ sends < Sends
  /\ sends' = sends + 1 /\ said' = said \cup {Own} /\ GoTo("save")
  /\ Add(Own)
  /\ UNCHANGED <<want, nodeVars, current, shown, rest, files, stale, arrivals, linkVars,
                 queueVars, faults>>

SaveMessages ==
  /\ gpc = "save" /\ GoTo("publish")
  /\ \/ files' = [files EXCEPT ![current] = messages] /\ stale' = FALSE /\ UNCHANGED faults
     \/ /\ faults < Faults /\ faults' = faults + 1 /\ stale' = TRUE
        /\ files' = [files EXCEPT ![current] = Cut] \/ UNCHANGED files
  /\ UNCHANGED <<want, nodeVars, current, messages, shown, rest, said, late, harm, threadVars,
                 linkVars, queueVars, sends>>

\* The message goes to the relay the client is connected to, if any.
Publish ==
  /\ gpc = "publish" /\ GoTo("show")
  /\ UNCHANGED <<want, nodeVars, chatVars, threadVars, linkVars, queueVars, sends, faults>>

ShowSent ==
  /\ gpc = "show" /\ shown' = messages /\ GoTo("idle")
  /\ UNCHANGED <<want, nodeVars, current, messages, rest, files, stale, said, late, harm,
                 threadVars, linkVars, queueVars, tally>>

-------------------------------------------------------------------------------
(* The link, as far as the chat sees it.                                      *)

\* Connect, in the list of relays.
ConnectRow(u) ==
  /\ gpc = "idle" /\ dials < Dials
  /\ want' = u /\ strayed' = (current # 0) /\ GoTo("drop")
  /\ UNCHANGED <<nodeVars, chatVars, threadVars, url, connected, subs, dials, queueVars, tally>>

\* disconnect() waits for the receive thread, which finishes the event it handles.
Drop ==
  /\ gpc = "drop" /\ rpc \in {"off", "loop"}
  /\ rpc' = "off" /\ connected' = FALSE /\ subs' = {}
  /\ url' = want /\ want' = NoUrl /\ dials' = dials + 1
  /\ statuses' = (statuses \/ url # NoUrl)
  /\ GoTo("dial")
  /\ UNCHANGED <<nodeVars, chatVars, inhand, arrivals, strayed, refreshes, tally>>

\* connect() does not report a success.
Dialled_Unreported(ok) ==
  /\ gpc = "dial" /\ connected' = ok /\ rpc' = IF ok THEN "loop" ELSE "off"
  /\ statuses' = (statuses \/ ~ok) /\ GoTo("idle")
  /\ UNCHANGED <<want, nodeVars, chatVars, inhand, arrivals, url, subs, dials, strayed,
                 refreshes, tally>>

Dialled(ok) ==
  /\ gpc = "dial" /\ connected' = ok /\ rpc' = IF ok THEN "loop" ELSE "off"
  /\ statuses' = TRUE /\ GoTo("idle")
  /\ UNCHANGED <<want, nodeVars, chatVars, inhand, arrivals, url, subs, dials, strayed,
                 refreshes, tally>>

\* A callback of the connection, perhaps the last one queued: it greets a relay that is
\* there, and subscribes to the node that is open now.
RunStatus ==
  /\ gpc = "idle" /\ statuses /\ statuses' \in BOOLEAN
  /\ subs' = IF connected THEN subs \cup ({current} \ {0}) ELSE subs
  /\ UNCHANGED <<guiVars, nodeVars, chatVars, threadVars, url, connected, dials, strayed,
                 refreshes, tally>>

\* The callback of the receive thread: refresh_chat.
RunRefresh ==
  /\ gpc = "idle" /\ refreshes > 0 /\ refreshes' = refreshes - 1 /\ shown' = messages
  /\ UNCHANGED <<guiVars, nodeVars, current, messages, rest, files, stale, said, late, harm,
                 threadVars, linkVars, statuses, tally>>

-------------------------------------------------------------------------------
(* The receive thread: the event callback of connect_to_relay.                *)

\* A channel message: of whatever channel it is, it is for the node open now.
Receive ==
  /\ rpc = "loop" /\ arrivals < Arrivals /\ arrivals' = arrivals + 1
  /\ IF current = 0 THEN UNCHANGED <<rpc, inhand>>
     ELSE rpc' = "push" /\ inhand' = [by |-> "them", no |-> arrivals', node |-> current]
  /\ UNCHANGED <<guiVars, nodeVars, chatVars, linkVars, queueVars, tally>>

AppendArrived ==
  /\ rpc = "push" /\ rpc' = "queue" /\ messages' = Append(messages, inhand) /\ Mark
  /\ inhand' = NoMessage
  /\ UNCHANGED <<guiVars, nodeVars, current, shown, rest, files, stale, said, harm, arrivals,
                 linkVars, queueVars, tally>>

\* A profile: its name goes to the name cache, and the chat is drawn anew.
ReceiveName ==
  /\ rpc = "loop" /\ arrivals < Arrivals /\ arrivals' = arrivals + 1 /\ rpc' = "cache"
  /\ UNCHANGED <<guiVars, nodeVars, chatVars, inhand, linkVars, queueVars, tally>>

CacheName ==
  /\ rpc = "cache" /\ rpc' = "queue"
  /\ UNCHANGED <<guiVars, nodeVars, chatVars, inhand, arrivals, linkVars, queueVars, tally>>

QueueRefresh_Forgotten ==
  /\ rpc = "queue" /\ rpc' = "loop"
  /\ UNCHANGED <<guiVars, nodeVars, chatVars, inhand, arrivals, linkVars, queueVars, tally>>

QueueRefresh ==
  /\ rpc = "queue" /\ rpc' = "loop" /\ refreshes' = refreshes + 1
  /\ UNCHANGED <<guiVars, nodeVars, chatVars, inhand, arrivals, linkVars, statuses, tally>>

\* The relay is gone.
Lose ==
  /\ rpc = "loop" /\ rpc' = "off" /\ connected' = FALSE /\ statuses' = TRUE
  /\ UNCHANGED <<guiVars, nodeVars, chatVars, inhand, arrivals, url, subs, dials, strayed,
                 refreshes, tally>>

-------------------------------------------------------------------------------
(* The program ends and starts again.                                        *)

Saving == gpc \in {"saveNodes", "saveStopped", "clearDeleted"}

Died ==
  /\ gpc' = "down" /\ want' = NoUrl
  /\ nodes' = <<>> /\ current' = 0 /\ messages' = <<>> /\ shown' = <<>>
  /\ rest' = <<>> /\ stale' = FALSE /\ nodesStale' = FALSE
  /\ rpc' = "off" /\ inhand' = NoMessage
  /\ url' = NoUrl /\ connected' = FALSE /\ subs' = {} /\ strayed' = FALSE
  /\ statuses' = FALSE /\ refreshes' = 0
  /\ harm' = harm \cup {n \in {current} : stale \/ gpc = "save"}
  /\ nodesLost' = (nodesLost \/ nodesStale \/ Saving)
  /\ UNCHANGED <<made, owned, said, late, arrivals, dials, sends>>

\* ~App joins the receive thread.
Quit ==
  /\ gpc = "idle" /\ rpc \in {"off", "loop"}
  /\ UNCHANGED <<nodeFile, files, faults>> /\ Died

\* A kill while a file is being written may leave it cut.
Kill ==
  /\ gpc # "down" /\ faults < Faults /\ faults' = faults + 1
  /\ \/ UNCHANGED <<nodeFile, files>>
     \/ Saving /\ nodeFile' = Cut /\ UNCHANGED files
     \/ gpc = "save" /\ files' = [files EXCEPT ![current] = Cut] /\ UNCHANGED nodeFile
  /\ Died

\* Both threads are at messages_, or at the name cache: the process may end.
Touching ==
  \/ gpc \in {"clear", "clearDeleted", "switched", "load", "save", "show"}
  \/ gpc = "idle" /\ (refreshes > 0 \/ (current # 0 /\ sends < Sends))
Greeting == gpc = "idle" /\ statuses /\ connected
Collide ==
  /\ (rpc = "push" /\ Touching) \/ (rpc = "cache" /\ Greeting)
  /\ UNCHANGED <<nodeFile, files, faults>> /\ Died

\* init_session: the nodes are read, and the first relay of the list is dialled.  A list
\* that cannot be read is lost for this session, and for good with the next save.
Start ==
  /\ gpc = "down" /\ nodesLost' = FALSE
  /\ \/ /\ nodes' = Loaded(nodeFile) /\ UNCHANGED <<nodesStale, faults>>
        /\ owned' = IF nodesLost THEN Elements(nodes') ELSE owned
     \/ /\ faults < Faults /\ faults' = faults + 1
        /\ nodes' = <<>> /\ nodesStale' = TRUE /\ owned' = {}
  /\ \/ GoTo("idle") /\ UNCHANGED want
     \/ dials < Dials /\ GoTo("drop") /\ want' \in Urls
  /\ UNCHANGED <<nodeFile, made, chatVars, threadVars, linkVars, queueVars, sends>>

User ==
  \/ CreateNode
  \/ \E i \in DOMAIN nodes :
       (\E running \in BOOLEAN : ToggleNode(i, running)) \/ DeleteNode(i) \/ OpenChat(i)
  \/ Say \/ (\E u \in Urls : ConnectRow(u)) \/ Quit \/ Start
Gui ==
  \/ SaveNodes \/ LeaveNode \/ ClearChat \/ LoadChat \/ LoadMessage \/ ShowChat
  \/ SaveMessages \/ Publish \/ ShowSent
  \/ Drop \/ (\E ok \in BOOLEAN : Dialled(ok)) \/ RunStatus \/ RunRefresh
Thread ==
  Receive \/ AppendArrived \/ ReceiveName \/ CacheName \/ QueueRefresh \/ Lose

Next == User \/ Gui \/ Thread \/ Kill \/ Collide

Spec == Init /\ [][Next]_vars

-------------------------------------------------------------------------------
(* Properties.                                                               *)

\* What the user has said stays: it is in its node's file, or, while a save has failed or
\* is still to come, in the list of the open node.  It is lost only with a node in harm:
\* the program left the node, or ended, after its last save had failed; ended before the
\* message was saved; could not open the file to load it; or both threads appended at once,
\* to say it or to load it again (app.cpp:256, 877-883, 1159-1168, persistence.cpp:82-103).
SentKept ==
  \A m \in said :
    \/ m \in Elements(Loaded(files[m.node]))
    \/ m.node = current /\ m \in Elements(messages)
    \/ m.node \in harm

\* save_messages writes the whole list under the open node's id: what it writes was
\* said in that node, or arrived while it was open.  The exception are messages the
\* receive thread had in hand when the user changed to another node (app.cpp:250-262,
\* 879-883): they are shown, and kept, there.
RightFile ==
  \A n \in Ids : \A m \in Elements(Loaded(files[n])) : m.node = n \/ m \in late

\* When nothing is queued or under way, the chat view shows the list, although two
\* threads change it (app.cpp:256-261, 1257-1264).
Quiet == gpc = "idle" /\ refreshes = 0 /\ rpc \notin {"push", "queue"}
ShownSettles == Quiet => shown = messages

\* By then a relay the client is connected to has been asked for the open node's
\* messages, unless that node names no relay of its own: the callback that asks runs
\* later than the connect, and for whatever node is open then (app.cpp:223-227).
Subscribed ==
  (gpc = "idle" /\ ~statuses /\ connected /\ current # 0 /\ Home[current] # NoUrl)
    => current \in subs

\* "Your node's relay is used when you open chat." (app.cpp:922): what is said in a
\* node that names a relay is sent there or nowhere, until the user connects to
\* another one by hand.
RightRelay ==
  (gpc = "publish" /\ connected /\ Home[current] # NoUrl /\ ~strayed) => url = Home[current]

\* Nodes the user has created and not deleted are there, in memory, and in the file after
\* every save that has not failed, also after a restart, unless the program ended while
\* the last save of the list had failed or was under way, or could not open the file when
\* it started (app.cpp:177-194, 844-846, 1131-1132, 1252-1253, persistence.cpp:121-145).
NodesKept ==
  (gpc = "idle" /\ ~nodesLost) =>
    Elements(nodes) = owned /\ (~nodesStale => Loaded(nodeFile) = nodes)
===============================================================================
