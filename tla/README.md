# LinuxLive: verification of the relay and of the desktop client

LinuxLive is a desktop client (GTK), a relay server, and the libraries between
them. This directory holds TLA+ models of its concurrent parts, TLC
configurations that check them on small instances, and TLAPS proofs about the
relay's core. Paths below are relative to `src/cpp/`.

## 1. The system

| part | state it keeps | operations | what makes it hard | what makes it correct |
|---|---|---|---|---|
| Relay: messages and storage (`lili-relay/src/relay_server.cpp`) | the event deque, the rate map, allowed kinds and banned pubkeys, each session's socket | `handle_client_message` (EVENT, REQ), `check_rate_limit`, `record_event`, `can_store_event`, `store_event`, `prune_old_events`, ban, allow, delete | one thread per client; checks and updates in separate critical sections; frames written to clients that may not read, some of it under the storage mutex | limits and quotas; a REQ is one state of the storage; everyone else gets an event once; bans and TTLs hold; no handler is stuck |
| Relay: process (`main.cpp`, `start`, `stop`, `accept_connection`, `client_session.cpp`) | `running_`, `listening_`, `listen_fd_`, `sessions_`, one `socket_fd_` per session, threads | start, signal handler, stop, destructor, accept, handshake, read loop | `stop()` runs in a signal handler and may be nested; `sessions_` and `socket_fd_` have no lock; descriptor numbers are used again | nobody uses another's descriptor; a signal ends the relay; nothing runs on a destroyed server; a busy port is reported |
| Relay: configuration (`main.cpp:42-79`, constructor) | `RelayConfig` | one turn per option, the constructor's defaults | narrowing conversions, "only if empty" defaults | the relay runs with what its command line means |
| Client: link to the relay (`ws_client.cpp`, `relay_client.cpp`, `app.cpp:196-293`) | `fd_`, `connected_`, `running_`, the receive thread, the flag on the window, queued idle callbacks, the status light | connect, disconnect, receive loop, send, greeting | GUI and receive thread share `fd_` and flags; callbacks read the newest flag, not their own | one receive thread, for the current relay; the light tells the truth; the GUI does not freeze |
| Client: scanner and achievements file (`passive_scanner.cpp`, `persistence.cpp`) | definitions, unlocked achievements, `achievements.json` | load, scan, save, import, export | scan thread, GUI thread and import write one file; `load_definitions` takes no mutex | an unlocked achievement is never lost |
| Client: nodes and chat (`app.cpp`, `persistence.cpp`) | `nodes_`, `messages_`, `current_node_id_`, `display_name_cache_`, `nodes.json`, `messages/<id>.json` | create, toggle, delete, open a node; send; receive; connect | the receive thread appends to what the GUI iterates over and saves; one list for whatever node is current; files rewritten in place | what is said stays, in its node's file, is shown, and goes to the node's relay |
| Client: identity and relay list (`identity.cpp`, login, profile and settings pages) | `identity.json`, `current_privkey_hex_`, `current_pubkey_hex_`, `relay_list.json`, `relay.json`, the rows drawn | generate, back up, log in, set name, add, remove, connect, edit url | one key file for every identity, written in place and read again by every handler; rows carry indexes into a list that is read again; activating the program again builds a second window beside the first | the key a user logs in with is the one that signs; a row's button acts on its relay |
| Framing (`client_session.cpp:61-213`, `ws_client.cpp:224-357`) | bytes under way, the reader's place | `ws_send_frame`, `send_raw`, `recv_raw`, the two read loops | lengths at which the header changes; writes and reads in parts; the relay's threads share a socket without a lock | what one side frames the other reads, in order, to the end |
| Protocol, SDK, encryption | none | pure functions | widths | the id covers the event |

The parts meet as follows. A client's `RelayClient` sends EVENT and REQ frames
over its `WsClient`; on the relay a `ClientSession` thread reads them and calls
`handle_client_message`, which answers on the session's socket and, for an EVENT,
writes to every other session's socket from the same thread. The prune thread
and the operator's calls touch the storage under the same mutex. In the client,
the receive thread calls back into `App`, which sets a flag and queues work for
the GUI thread.

The hazards of all of this, each at its line, are listed in `PROJECT.json`.

## 2. Modules

| module | models | extends |
|---|---|---|
| `RelayServer` | messages and storage of the relay | |
| `EventLog` | abstract: what the event storage promises | (instantiated by `RelayServer`) |
| `RelayServerProofs` | theorems about `RelayServer` | `RelayServer`, `TLAPS` |
| `RelayConfig` | options and defaults, as operators | |
| `RelayProcess` | life of the relay process | `RelayConfig` |
| `RelayProcessProofs` | theorems about the configuration it starts with | `RelayProcess`, `TLAPS` |
| `RelayStopProofs` | theorems about starting, serving and stopping | `RelayProcess`, `TLAPS` |
| `RelayLink` | the client's link to a relay | |
| `RelayLinkProofs` | theorems about `RelayLink` | `RelayLink`, `TLAPS` |
| `Achievements` | the client's scanner and its file | |
| `AchievementsProofs` | theorems about `Achievements` | `Achievements`, `TLAPS` |
| `Chat` | nodes and messages of the client, its receive thread | |
| `ChatProofs` | theorems about `Chat` | `Chat`, `TLAPS` |
| `Session` | key file, login page, relay list | |
| `SessionProofs` | theorems about `Session` | `Session`, `TLAPS` |
| `Framing` | frames on one connection, written and read in parts | |
| `FramingProofs` | theorems about `Framing` | `Framing`, `TLAPS` |
| `MCRelayServer`, `MCRelayProcess`, `MCRelayLink`, `MCAchievements`, `MCChat`, `MCSession`, `MCFraming` | values for TLC | the above |

A name with an underscore (`InitSession_StillShown`) is the definition below it with a
plausible fault. It is used nowhere in the specification; it shows that a
property notices the fault.

### RelayServer

Each session has a place `pc[s]` in `handle_client_message`. A step is what a
thread does between two points where another thread can see or disturb it: one
critical section, or one frame written. So `CheckRateLimit`, `CanStore`,
`StoreEvent` and `RecordEvent` are four steps, and every `send_ws_text` is one.
The deque is a set of events numbered by arrival, which makes the order explicit
and eviction a comparison of numbers. `lock` is the session that holds
`storage_mutex_` across steps: only a REQ does. A frame waits while the buffer
of a client that is up is full (`CanSend`), and is thrown away if the client has
gone, as `send()` fails and nobody looks at the result.

Conversions keep their effect: `kind % U16`, `created_at % U64`, and the age in
`uint64_t`. Ill-typed messages are those in which reading a field throws, before
(`badHead`) or after (`badBody`) the rate limit; nothing catches, so `crashed`
is set and every thread stops. Content, tags and signature are left out: the
relay carries them and never looks at them.

`IsOverAge`, `CanStoreEvent`, `Evict`, `Admissible` and `Matches` are the code's
rules as operators on values; the actions use them and nothing else.

### RelayProcess

`mpc` is main's place, `frames` the stack of `stop()` calls on main's thread: the
bottom one is called by main or the destructor, the others by signal handlers
that interrupted main or each other. Each of a call's steps is an action, and
only the topmost call moves. A signal's call begins with `print_stats`, which holds
`storage_mutex_` from `LockStorage` to `PrintStats`. SIGINT and SIGTERM have one
handler and do not block each other, so `signals` only counts those that may still
come; they come at any moment from the installation of the handler on, also inside
the destructor's `stop()`. The accept thread (`apc`), the prune thread (`ppc`)
and each session's thread (`spc`) have places of their own. `table` says what
each descriptor number stands for; `accept()` and `socket()` take the lowest free
one, so a number that is closed comes back as something else. A thread that read
`socket_fd_` and has not used it yet keeps it in `aim` (sessions) or in its frame
(`stop()`). `socket_fd_ >= 0`, `close(socket_fd_)` and `socket_fd_ = -1` are three
steps on either side (`MarkSession` or `Reject`, `CloseSession` or `HangUpOn`,
`ForgetSession` or `ForgetFd`); the second reads the member again, so it closes the
number seen first or the one found now, and between it and the third `accept()` may
give the number to somebody else.

Undefined behaviour is a choice: when the accept thread changes `sessions_` under
a loop over it, or a thread is joined twice, the process may end (`crashed`).
`late` remembers sessions registered after `running_` was cleared.

### RelayLink

`gpc` is the GUI thread's place in `connect_to_relay`; `reader[c]` the place of
the receive thread started for connection `c`. A thread reads and writes what
`fd` stands for at that moment, not the connection it was started for: that it is
always the same one is a property (`OwnRelay`). `idles` counts the callbacks
queued with `g_idle_add`; they are all the same, since each reads the flag when it
runs. The relay is the environment: it accepts, refuses or says nothing, pushes
text, ping and close frames, and closes its end between frames (`clean`) or
inside a frame's header (`cut`). For a url in `BadPorts` `std::stoi` throws out of
`connect()`, after the old connection was dropped; nothing up to the GTK handler
catches it, and the program ends (`DialThrows`).

### Achievements

A list of achievements is a function from ids to the time of unlocking, 0 if
locked. `pc["gui"]` and `pc["scan"]` are the two threads' places: `scan_now` is the
same steps on either (`ScanLock`, `Scan`, `Truncate`, `WriteFile`), under the mutex
`lock`; an import uses the last two without it. `buf` is the JSON a thread has put
together before it opens the file. `load_definitions` clears the list, reads the
file and appends one definition after the other, without the mutex: in a program
that is activated a second time this happens under the scan thread, and where that
thread iterates over the list the process may end (`Died`, as for `Kill`).

`WriteFile` says what `ofstream` does with two writers: each truncates when it
opens, and each writes from the start, so a second text over a longer first one
leaves a tail and does not parse. A file that does not parse loads as nothing.
`earned` is history: what a scan has saved as unlocked, with the time. `harm`
records which of the four events that can cost it have happened.

### Chat

`gpc` is the GUI thread's place, `rpc` that of the receive thread in the event
callback. A handler of the GUI is as many steps as it touches what the receive
thread reads or writes: opening a node sets `current` (`OpenChat`), clears `messages` and
reads the file into `rest` (`LoadChat`), appends what was read one message after the
other (`LoadMessage`), draws the list and turns to the link (`ShowChat`). A message
of a node is `[by, no, node]`, where `node` is the node that was open when it was
said or received; the code keeps no such thing, it is there for the properties.
The link is reduced to what the chat sees of it: `Drop` waits for the receive
thread, `Dialled` starts another, `statuses` says whether one of the connection's
callbacks is queued, and all of them do the same (`RunStatus`).

Two threads at one vector is undefined behaviour. Two concurrent appends may lose
one (`Add`, of what is said or loaded, together with `push`), and wherever one thread touches the list or the
name cache while the other writes, the process may end (`Collide`). A save either
writes the whole list or, as a fault, leaves the file `Cut`, which loads as
nothing, or cannot open it and leaves its old text (`stale`, `nodesStale`: the last
save of the open chat, of the nodes, has failed). A file that cannot be opened to be
read loads as nothing, too. Nodes are numbered by creation; the buttons' indexes are the rows'
positions, because every change of `nodes_` draws the rows anew in its handler.

### Session

Everything here runs on the GUI thread, one handler after the other, so a handler
is a step. The key file is a text of four fields, written up to the `upto`-th:
`Identity` says what `load()` makes of each prefix. The secret is stored masked
with a pad; if the file ends before the pad, the masked secret is read back as
the secret (`depth` counts that). Names lose what follows a quotation mark
(`ReadBack`). The other two files are whole or do not parse. `Stored` is
`load_relay_list()`: without a list file, the default url alone, which is why a row
may show one relay and its button act on another after the url was edited.

`build_ui` makes a new window each time the program is activated, and the members of
`App` then point to the widgets of the newest: `page`, `entry`, `rows` are that one's.
`older` holds the others as they were left, and their buttons still work: the handlers
they call read, show and draw in the newest window (`BackupDoneOlder`, `LoginOlder`,
`SetDisplayNameOlder`, the rows in `Click`). What the user means is what the window
clicked in shows, so `owner` and `named` are set from there, and `astray` remembers
that a key or a name was given in a window that is not the newest (`key`, `name`),
or a pair generated in one while another was logged in (`shown`). A row of an
older window knows whether the list (`missed`) or the default url (`edited`) has
changed since it was drawn.

### Framing

The stream is a sequence of cells: header bytes with their values, and runs of
payload of which the number matters. `Begin` encodes a frame, `WritePart` lets any
part of it arrive, so that it is both the partial `send()` (or a `send()` that
waits for buffer space while another thread's gets in) and the network's cutting
of the stream. The client's threads hold `send_mutex_` from the first byte to the
last, the relay's have no lock. The reader takes what it finds for the part of a
header it expects; if it is something else (`Aligned` fails), it is `garbled` from
there on. The relay gives up on a short header (`ShortRead`), the client waits. A
length is a `size_t` (`LengthAssumption` says so byte by byte: TLC's integers end
before 2^64), and the eight bytes `Length` writes are all of it.

## 3. What the runs check

| run | instance | shows |
|---|---|---|
| `RelayStore` | 2 sessions, 3 EVENTs (one with a kind that wraps), 2 pubkeys, limits 1 to 2, clock 1 to 2 | `TypeOK`, `RateBound`, `BroadcastExactlyOnce`, `ImplementsLog` |
| `RelayQuery` | 2 sessions, EVENTs and REQs, quotas 1, the operator bans, allows, purges, deletes | `Quotas`, `PurgedStaysPurged`, `SnapshotExact` |
| `RelayLive` | 2 sessions, 3 messages, one of them ill-typed, a client that may hang up, clock 2 to 3, fair | `KeptUntilExpired`, `Served`, `OverAgeGone` |
| `RelayProcess` | 2 clients, 3 descriptors, 1 signal, four command lines | `TypeOK`, `OwnDescriptors`, `QuietAtExit`, `ConfigAsMeant` |
| `RelayStop` | 1 client that connects and hangs up, 2 descriptors, 2 signals, each at any moment and inside another `stop()`, fair | `StopReturns`, `BusyPortReported` |
| `RelayLink` | 2 connects to 2 relays or a url with a bad port, 1 frame per connection, fair | `TypeOK`, `OwnRelay`, `StatusSettles`, `ConnectReturns`, `LossShown` |
| `Achievements` | 2 ids, 2 launches or activations, 1 kill or failed write, clock 1 to 2, a foreign and the exported file, fair | `TypeOK`, `NothingLost`, `GuiReturns`, `DueIsEarned` |
| `Chat` | 2 nodes, one with a relay; 2 messages said, 1 received, 2 connects, 1 kill, failed save or unreadable file | `TypeOK`, `NodesKept`, `SentKept`, `RightFile`, `ShownSettles`, `Subscribed`, `RightRelay` |
| `Session` | 2 keys (interchangeable), 3 names, 2 relays, 2 windows, 1 failed save | `TypeOK`, `SignedInAsOwner` (`FileIsUser` and `ShownKey`), `RowActsOnShown` |
| `Framing` | 2 threads, 3 frames: 125, 126, 65535 or 65536 bytes, none, and 1; either direction, fair | `TypeOK`, `Framed`, `InOrder`, `StopsForReason`, `AllHandled` |
| `RelayUncharged`, `RelayIdle` | small | the findings of section 5 |

No run checks for deadlock: clients may stop sending, the relay ends, the user
may do nothing, so the systems really may stop. That nothing is stuck is what
`Served`, `StopReturns` and `ConnectReturns` say.

**Properties with named slack.** Two of the code's promises hold only up to a
race, and the properties say how far. `Quotas` and `RateBound`
allow one event more for each *other* session, because check and update are
separate critical sections. `OwnDescriptors` excludes a signal that interrupts
a `stop()` that has taken a descriptor from `listen_fd_` and not yet shut it down
(`Interrupted`), and the number of a session that has hung up in its handshake: it is
closed before `socket_fd_` is -1, the relay may still be accepting, and a `stop()`
that has read the member may close another client's number (section 5). Everybody
else's numbers are their own, that session's included until it closes it and once it
has forgotten it; the listener's is never closed by another. `StopReturns` names the
two ways in which a signal can hang the relay: inside another one's `print_stats`
(`LockedOut`), and between another `stop()`'s taking the listener and shutting it down
(`Unwoken`); `BusyPortReported` the first of them.
`QuietAtExit` excludes sessions that were registered while `stop()` ran.
`StatusSettles` says the light is never red while connected, not that green means
connected: a link that ends before `connect()` has reported it, or inside a
frame's header, leaves a green light. `NothingLost` lists in `harm` the events after
which an unlocked achievement may be gone: a second activation while the scan
thread runs (`reload`), a kill or failed write between truncating and writing
(`cut`), a directory that no longer defines it (`undefined`), an import that meets a
scan's save (`overlap`). Each of the four is needed: with any one of them allowed,
TLC finds the property violated. Everything else (two scanning threads, imports,
quits, restarts, kills at any other step) is harmless. `DueIsEarned` leaves out a
save that an import disturbs: a user who imports again and again at the moment of
each save keeps the file unreadable. `SentKept` names the nodes in `harm`: left, or
the program ended, while their file was cut or old or before the message was saved,
their file not read although it was there, or a message said or loaded in them lost
when both threads appended at once. `RightFile` excepts messages the receive thread had
in hand when the user opened another node (`late`). `NodesKept` says the file
has the nodes unless its last save failed (`nodesStale`), and leaves out what a program
that ends then leaves (`nodesLost`); `RightRelay` a user who connects elsewhere by
hand. `FileIsUser` excepts a save cut before the pad (`pad`), for the name alone one
that failed otherwise, and a key or name given in an older window; `ShownKey` a pair
generated in one window while another was logged in; `RowActsOnShown` the one row that
is the default url, after that url changed, and an older window's rows once the list
has changed. `ConnectReturns` lets a url with a bad port end the program. `Framed` lets the client lose its place when frames of two threads mix;
`StopsForReason` lets the relay stop at a header that arrives in parts. Each of
these is needed too: without it TLC finds the property violated.

**Bounds, and why they are enough.** Two sessions race for every check-then-act
pair, and the third would only add to the slack the theorems prove for any
number. Limits of 1 to 3 are reached and exceeded within the budgets. `SendBuf`
of 1 makes every second frame wait. `U16` is 8 and `U64` is 16 so that wrapping
happens within the values used. The clock moves far enough to pass the smallest
TTL; in `RelayQuery`, whose properties do not depend on it, it stands still. In
`RelayProcess` the listener and two sessions use all three descriptors, so every
number that is closed can come back; `Calls` bounds nested `stop()` calls: 2 in
`RelayStop`, where they matter, 1 in the larger `RelayProcess`, in which a signal
inside another `stop()` is thus left out (the proofs of section 4 are for any number).
Two calls and two signals in `RelayStop` nest every pair: a signal in main's, the
destructor's or another signal's call, at each of its steps. There the
client connects and hangs up and sends nothing: what a session does with a message
takes the mutex as `print_stats` does, and is in `RelayProcess`. `Polls` is 1 instead
of 20: the loop's turns are alike. In `RelayLink` the second connect meets every
state the first can leave behind. In `Achievements` the two launches are a restart
or a second activation, and one fault is enough to meet either at every step. In `Chat` the two nodes are
the two cases of `relay_url`, the two connects a reconnect under the old thread's
last event, and the one received message meets every step of a send or a switch.
The one fault of `Chat` is a
kill, a save that fails in either way, or a file not read. In `Session` two windows are enough, since the older
ones differ in nothing but what they were left with, and the one failed save meets
every handler; that masks add up is proved for any number. In `Framing` the lengths are
those at which the header changes, the empty frame is the one that must not be
waited for, and two frames of one thread and one of another are the least that
can be mixed and put out of order; a payload is cut in two at most.

`RelayProcess` and `Chat`, which state invariants only, tell states apart by a VIEW
(`StateView` of the MC modules). It leaves out what neither a property nor a later
step can read: the command line once the relay runs, clients whose session is over,
a chat view about to be drawn again, the url of a link that is down, what is known of
nodes already in `harm`. The proofs of section 4 do not use it.

**Fairness.** Threads that can run do run: handlers and session threads, the
accept, prune and main threads (main with whatever handler runs on it), the GUI and
the receive thread, each weakly fair.
`RelayLive` also assumes clients that read what they are sent, because a handler
that writes to one that does not waits for ever, and that the prune thread comes
round again. `RelayStop` assumes in addition that clients hang up in the end;
`RelayIdle` is the same property without that assumption, and it fails. `RelayLink`
assumes nothing of the user or the relay, and `Achievements` nothing of the user;
there the GUI thread gets the scanner's mutex in the end (strong fairness of
`GuiLocks`), because the scan thread sleeps up to 60 s between scans. In `RelayLink`
the 5 s timeouts of `poll()` are what make `ConnectReturns` hold. `Framing` assumes that
threads write on and the reader reads on. `Chat` and `Session` state safety only.

## 4. What is proved

`RelayServerProofs` proves, for every number of sessions, all submissions,
filters and limits that satisfy `ConstantsAssumption` and `FiltersAssumption`
(the limits and the clock are natural numbers, `kind_ttl` maps kinds to integers,
there is at least one session, the allowed kinds fit `uint16_t`):

| theorem | states |
|---|---|
| `TypeCorrect` | `Spec => []TypeOK` |
| `Inductive` | `Spec => []IInv` |
| `TotalBounded`, `PubkeysBounded`, `KindsBounded`, `RatesBounded` | the four bounds, as invariants (`QuotasKept`: those of pubkeys and kinds, as the run checks them) |
| `PurgedForGood` | `Spec => PurgedStaysPurged` |
| `RelayImplementsLog` | `Spec => ImplementsLog`: the storage refines `EventLog` |
| `HistoryKept` | `Spec => []HistoryInv` |
| `RelayedOnce`, `AnsweredExactly` | `Spec => BroadcastExactlyOnce`, `Spec => SnapshotExact` |
| `EventsGoForAReason` | `Spec => GoneForAReason`: expired, stamped ahead of the clock, no room, or deleted |
| `KeptForItsTtl` | `Spec /\ []RoomyAndPast => KeptUntilExpired`, if the operator deletes nothing |

None of the quotas is inductive: a state may meet the quota with a handler
already past the check, and the next step breaks it. `IInv` therefore counts both:
what is stored plus the sessions at `store` that will add to it
(`PubkeyInv`, `KindInv`), what is charged plus the sessions between the rate check
and `record_event` (`RateInv`). A handler passes the check only while the count
of what is stored is below the limit, so at that moment the sum is at most limit
minus one plus the number of sessions; storing moves one unit from the second
summand to the first; everything else only removes. `TotalBound` needs no slack,
because `store_event` evicts in the section that adds; it needs `NumberedOnce`
(arrival numbers are unique, so exactly one event is the oldest) and `RoomInv`
(a handler at `store` has seen a limit of at least 1: with a limit of 0 an
eviction would leave the new event above it). The lemmas `StorageSteps` and
`ChargeSteps` say which actions can move either summand, `SumShrinks` and
`SumMoves` do the counting, and each part of `IInv` has a lemma that it is kept.
`OldestExists` (a finite set of numbered events has an oldest) and `EvictOne`
carry the refinement: what `Evict` removes is what `EventLog` allows.

The two properties about frames speak of the last step of a handler, so `HistoryInv`
says what the wires hold while it is on its way; a wire keeps all its frames, each with
the number of the message it belongs to. `RelayedInv`: a connected session has one copy
of the event in progress if the loop over `sessions_` has passed it and none if not.
`ReplyInv`: a session that answers a REQ holds the lock, and the stored events on its
wire for this request are the matches before its cursor, in order; nobody changes the
storage under the lock (`LockedStorage`). `RequestsInv` makes both start empty: no
frame has the number of a message not yet taken up, and stored events go only to the
session that asked. `SessionSteps` divides the work: a step is one of the session's
own, or it leaves its place, its message and its frames alone (`Aside`).

`KeptUntilExpired` is false in general (section 5, the first item without a run), so
`KeptForItsTtl` names what it needs, and `EventsGoForAReason` needs nothing.

`SessionProofs` proves, for all keys, names, urls and numbers of failed saves that
satisfy `SessionAssumption` (a name is read back as a name, no key or url is the
empty one):

| theorem | states |
|---|---|
| `SessionInvariant` | `Spec => []IInv` |
| `SessionTypeCorrect` | `Spec => []TypeOK` |
| `SignedIn` | `Spec => []SignedInAsOwner` |
| `RowsAct` | `Spec => []RowActsOnShown` |

`SignedInAsOwner` speaks of a user who is logged in and is not inductive: a start
reads what the last run left. `KeyInv` therefore says the same of the file on
every page, and when the program is down; `PageInv` adds that the newest window shows
the login page only when the file cannot be read, so that a save there that fails to
open it (`FailedKey`) leaves nobody else's key to be read, that the key offered there
for backup is the key shown, and that an older window shows no key to be backed up
without one having been generated. `KeyInv` also counts: each pad lost has cost a
fault, which keeps the depth of the mask in its type. `RowInv` relates the rows of
each window to the list of the file: they are equal, or the default url was edited and
no list was ever saved, or the window is an older one and has missed a change. The
number of windows is not bounded by the proof. The one lemma with work in it is `KeySaved`: whatever part of the
new text a save leaves, what can be read is the owner's.

`RelayLinkProofs` proves, for all urls and numbers of clicks and frames:

| theorem | states |
|---|---|
| `LinkInvariant` | `Spec => []IInv` |
| `LinkTypeCorrect` | `Spec => []TypeOK` |
| `OneRelay` | `Spec => []OwnRelay` |
| `StatusTrue` | `Spec => []StatusSettles` |

`OwnRelay` needs to know where the GUI thread is: `ThreadInv` says that from
the join to the next connection there is neither socket nor thread, that otherwise
`fd` and `thread` are the same connection, and that a frame in hand was read from
it. `TypeOK` bounds counters that no single step bounds. A click may lead to three
reports (the old link is gone, the outcome, the link is lost), so `ReportInv` counts
those made, those queued and those still `Due` from where the GUI thread is, or
from the receive thread (`Telling`), and every step trades one for another;
`FrameInv` does the same for frames pushed, on the wire, in hand and answered.
`LightInv` is `StatusSettles` at every place of the GUI thread: a flag that
differs from the label has a callback queued, and a connected client has its flag up
before the greeting.

`AchievementsProofs` proves, for all achievements, installed directories, imported
files and numbers of launches and faults:

| theorem | states |
|---|---|
| `AchievementsInvariant` | `Spec => []IInv` |
| `AchievementsTypeCorrect` | `Spec => []TypeOK` |
| `EarnedIsKept` | `Spec => []NothingLost` |

`NothingLost` speaks of the list and of the file where they are complete. `KeepInv`
says where everything earned is in between: in the file unless it is truncated,
then in the buffer of the thread that truncated it; in the list, or while it is
loaded in what was read of the file and not yet appended. It holds while `harm` is
empty, and `Apart` says what the absence of harm means for the threads: a load has
the scanner to itself, and no import meets a save. `LockInv` makes the scan the only
writer under the mutex. The proof showed the old assumption on `MaxTime` too weak:
with no time at all `Init` is ill typed, so it is now at least 1.

`ChatProofs` proves, for all nodes with or without a relay, urls and numbers of
messages, connects and faults:

| theorem | states |
|---|---|
| `ChatInvariant` | `Spec => []IInv` |
| `ChatTypeCorrect` | `Spec => []TypeOK` |
| `NodesAreKept`, `SaidIsKept` | `Spec => []NodesKept`, `Spec => []SentKept` |
| `FilesAreRight` | `Spec => []RightFile` |
| `ViewSettles`, `OpenIsSubscribed`, `SaidToRightRelay` | `Spec => []ShownSettles`, `Spec => []Subscribed`, `Spec => []RightRelay` |

What a node's file holds depends on what is in the list when it is written: so
`ListInv` says whose messages are in the list and in what is still to be appended to it
(`rest`), except between the change of the open node and the load (`switched`), when
it still has the old node's; the code never saves there. `SentInv` follows what is said
from the list (`Unsaved`, until a save succeeds) to the file (`Kept`) and back, message
by message, when the node is opened (`Held`): the open node's list and `rest` have
everything, so that writing the list loses nothing. `NodeInv` relates the list of nodes,
the file and what the user has, at every place of a handler that is about to save, and
while the last save has failed. The three
properties about the settled program become invariants by naming who will still act:
the GUI thread by its place, a queued refresh or status, or the receive thread at
`queue` (`ShownInv`, `SubsInv`, `HomeInv`).

`RelayProcessProofs` proves `ConfigInvariant` and `StartsAsMeant`
(`Spec => []ConfigAsMeant`) for any set of command lines and any default limits:
`ReadSoFar` says that after each option the configuration is what the options read so
far mean, which is an induction over the steps of main's loop and not over the
command line.

`RelayStopProofs` proves, for any number of clients, messages, polls, signals and
nested calls of `stop()`, and any number of descriptors, under `ProcessAssumption`
(descriptors are numbered from 1; 0 and the marks of a descriptor that is free or
the listener's are no clients):

| theorem | states |
|---|---|
| `ProcessTypeCorrect` | `Spec => []TypeOK` |
| `DescriptorsAreOwn` | `Spec => []OwnDescriptors` |
| `ExitIsQuiet` | `Spec => []QuietAtExit` |

A descriptor is used without a lock, so a thread may hold one that another thread has
closed. What keeps it from writing to a stranger is that no number is given out any
more: `stop()` closes a session only after `running_` is cleared and the listener shut
down (`Sealed`), so a number is its owner's, or closed for good (`Holds`). Two cases
remain. A session that hangs up in its handshake closes its number while the relay
accepts; from there until `socket_fd_` is -1 the number may be anybody's (`Lost`), and
a `stop()` that saw it may close it. `Forgets` says when not: while the session is in
`sessions_` or in a loop over it, the number is free, or the relay is sealed, or the
accept thread is about to drop the session, which has ended for it. A `stop()`
that interrupts another one between taking `listen_fd_` and `shutdown()` finds 0 there
and closes sessions although the accept thread may still return one client more
(`Cut`, `Loose`). The invariant therefore follows the numbers through that case too:
it ends when the interrupted call shuts the listener down, and only threads that the
interrupting calls still join may hold such a number (`CutJoins`); the session the
number was of still names it until that call has forgotten it (`Stale`), and reads
nothing by then (`Silenced`). `ListenerKnown`
says who knows the listener: `listen_fd_`, a `stop()` in progress, or nobody any
more because the relay is sealed.

`QuietAtExit` speaks of the end of `main()`. `Awaited` says of every moment before it
that a session registered in time is quiet, in `sessions_`, or among those a `stop()`
in progress has still to join (`Pending`), however the calls are nested; `Sweep` says
what each call has done so far, and `Over` what is left when the outermost one
returns. Two groups of lemmas carry the rest: `StepChanges` (which steps change which
variable) and `ServerOnwards`, `SessionOnwards` (what never turns back). The sequence
that `remove_if` keeps is a recursive function; `RemainingIs` finds its value by
an induction over a set of numbers (`UpTo`), which needs the least element of a set of
naturals (`LeastExists`).

`FramingProofs` proves, for any threads, any frames with lengths below 2^64 and any
way to cut the stream, under `FramingAssumption` and `LengthAssumption`:

| theorem | states |
|---|---|
| `FramingTypeCorrect` | `Spec => []TypeOK` |
| `BoundariesAgree` | `Spec => []Framed` |
| `HandledInOrder` | `Spec => []InOrder` |
| `StopsForAReason` | `Spec => []StopsForReason` |

Three groups of lemmas carry `BoundariesAgree`. First the frame: `EncodeIs` says that
`Encode` writes the cells `CellAt(f, 1)`, `CellAt(f, 2)`, ... up to `Size(f)`, and
`HeaderMeans` and `ExtMeans` that the reader makes of their bytes the opcode, the flag and
the length they were made of; `BigEndianValue` is the arithmetic, for two and for eight
bytes. Then the stream (`StreamInv`): what has arrived and is not yet read is a `Path`
of places, each a frame and a cell of it, from the reader's place (`NextNo`,
`Before`) to where the writing thread is (`AtHead`). A part that is written makes the
path longer (`PathOn`), a part that is read makes it shorter (`PathRest`). Last, two
threads: a thread that is within a frame is alone there and its frame is the last that
was begun (`WriterInv`); at the client because of `send_mutex_`, at the relay until
`mixed`. From then on the path ends at a first cell where another one is due (`Torn`),
so the reader is right up to there and then garbled, and no later. `InOrder` follows
because the frame a reader is in is `sent[Len(got) + 1]` (`FrameInv`).

Only model-checked: the liveness properties (`Served`, `OverAgeGone`, `StopReturns`,
`BusyPortReported`, `ConnectReturns`, `LossShown`, `GuiReturns`, `DueIsEarned`,
`AllHandled`), which are out of the prover's reach. Every invariant and action property
the passing runs check is also stated by a theorem; `KeptUntilExpired` alone under a
hypothesis about the behaviour.

## 5. Findings

- **Events that are not stored are relayed without limit** (`relay_server.cpp:260-275`,
  run `RelayUncharged`).
- **`stop()` waits for ever for an idle client** (`client_session.cpp:52-57`, run
  `RelayIdle`).

Seen while modelling, without a run of their own:

- An event stamped ahead of the relay's clock has an age near 2^64
  (`relay_server.cpp:151`) and is pruned at once, although its TTL has not passed.
- The help text lists a default TTL for each of five kinds, next to the example
  `--kind-ttl KIND:SEC ... (e.g. 30079:0 for achievements = forever)` (`main.cpp:31-39`).
  The constructor sets the table only if no `--kind-ttl` was given
  (`relay_server.cpp:24`): with that example achievement proofs, nodes and profiles fall
  back to the general TTL of seven days. `MeantBy` claims neither: a kind that was
  given a TTL has the last one, any other has its documented default or none, and
  without a `--kind-ttl` the whole table is there.
- A session that hangs up in its handshake closes its descriptor and only then sets
  `socket_fd_` to -1 (`client_session.cpp:42`). The relay may still be accepting, so the
  number may be another client's before a `stop()` on the main thread, which tested it
  (line 52), closes it (line 53). `OwnDescriptors` names the case.
- SIGTERM inside SIGINT's `print_stats` (or the other way round): `storage_mutex_` is
  not recursive and its holder is the thread the handler runs on
  (`main.cpp:14`, `relay_server.cpp:197`), so the relay hangs (`LockedOut`). A signal
  between `listen_fd_.exchange(-1)` and `shutdown()` (lines 58-59) finds no listener to
  shut down, and its `stop()` joins an accept thread that only the next client wakes
  (`Unwoken`). A signal inside a join ends the process with `std::system_error`. A
  signal after the handlers are installed and before `start()` sets `running_` is
  forgotten (`main.cpp:88-92`).
- A url whose port is no number, or too large a one, ends the desktop client:
  `std::stoi` throws (`ws_client.cpp:70`) and no handler catches (`DialThrows`).
- A second activation builds a second window beside the first. A click on Generate in
  one that shows the login page, while the user is logged in in the other, makes
  `current_pubkey_hex_` a key nobody is logged in with (`app.cpp:355-362`), shown at once
  where it is copied; "Continue" in an older window saves the pair generated last,
  whichever window shows another; and a relay row of an older window acts on another
  relay after a removal (`app.cpp:331-353`), since only the newest window is drawn
  again.
- A node's file that cannot be opened to be read, or a message appended by the receive
  thread while the file is loaded (`app.cpp:1161-1168`, 256), loses what was said there
  with the next save. A save that cannot open its file is silent: what was said
  since is gone when the node is left.
- The relay takes a header that arrives in parts for a client that has gone, and
  both sides deliver a text message whose payload was cut off by the end of the
  stream, filled up (`InOrder`).
- A channel message is appended to the open node's list whatever channel it names
  (`app.cpp:250`), and saved under that node by the next send. The client asks for a
  channel's messages by event id (`app.cpp:224`, `relay_client.cpp:85`), which the
  relay compares with the id of the event and not with its `e` tag.
- A display name with a quotation mark is read back up to it; a key file cut before
  the pad yields a masked secret from then on; `login()` keeps a stored name only if
  the file holds the same key, which the login page, shown only without a readable
  file, sees only in an older window.

## 6. Not modelled

TLS and Tor paths of the client (`RelayLink` is about plain connections: with TLS,
reads have no timeout, and an object is freed under a read, which no model of this
code can give a meaning to). Continuation frames and reserved bits, which neither
reader looks at. The contents of messages; what the scanner's checks ask the
system; event signing, DM encryption, the SDK and the unused `message_handler.cpp`;
widgets. The profile file, which is never read, the friends file and
`on_connect_relay`, which nothing calls. CLOSE, which the relay ignores. A second
window after another activation is in `Session`, with the buttons of the older one, and
in `Achievements` as far as the scanner goes; `Chat` and `RelayLink` have one window.
Closing the newest of two windows is left out everywhere: it frees widgets that the
members of `App` still point to, and any handler then uses them. A signal that comes
after the destructor's `stop()` finds an object whose members are being destroyed, and
is left out. So is what `std::cout` and the allocation inside `print_stats` do in a signal
handler, which may be running inside the same calls of main: neither is
async-signal-safe. Sends of the client do not block in `RelayLink` and `Chat`: the relay is assumed to read what
it is sent. In `Chat` the scanner, and in `Session` the link, are left out.

## 7. Plan

`Event` is left to be modelled: which fields of an event its id covers, and what
`verify` accepts, with the hash as an injective function.

Every safety property the passing runs check is proved; what `verify` accepts would be
the next thing to prove.
