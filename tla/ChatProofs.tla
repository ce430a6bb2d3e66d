------------------------------- MODULE ChatProofs -------------------------------
(***************************************************************************)
(* For any nodes, relays and numbers of messages, connects and faults: the  *)
(* state is well typed, nodes and messages are kept, the chat view and the  *)
(* subscriptions settle, and what is said goes to the node's relay.         *)
(***************************************************************************)
EXTENDS Chat, SequenceTheorems, TLAPS

-------------------------------------------------------------------------------
(* The inductive invariant.                                                  *)

\* The parts of the type that steps of different kinds change.
GuiType ==
  /\ gpc \in {"down", "idle", "saveNodes", "saveStopped", "leave",
              "clear", "clearDeleted", "switched", "load", "drop", "dial", "save",
              "publish", "show"}
  /\ want \in Urls \cup {NoUrl}
ListType ==
  /\ messages \in Seq(Message) /\ shown \in Seq(Message) /\ rest \in Seq(Message)
FileType == files \in [Ids -> Seq(Message) \cup {Cut}] /\ stale \in BOOLEAN
SaidType == said \subseteq [by : {"me"}, no : Nat, node : Ids] /\ sends \in Nat
ThreadType ==
  /\ rpc \in {"off", "loop", "push", "cache", "queue"} /\ inhand \in Message
  /\ rpc = "push" => inhand.by = "them" /\ inhand.node \in Ids
LinkType == connected \in BOOLEAN /\ (connected => rpc # "off") /\ statuses \in BOOLEAN

\* An event that is handled, or whose refresh is queued, has arrived.
Handled == IF rpc \in {"push", "cache", "queue"} THEN 1 ELSE 0
CountInv ==
  arrivals \in 0..Arrivals /\ refreshes \in Nat /\ refreshes + Handled <= arrivals

\* Which node is open where; a program that has ended has nothing in memory.
PlaceInv ==
  /\ current \in {0} \cup Elements(nodes)
  /\ gpc \in {"switched", "load", "save", "publish", "show"} => current # 0
  /\ gpc \in {"down", "clear", "clearDeleted"} => current = 0
  /\ gpc = "dial" => rpc = "off"
  /\ gpc = "down" => nodes = <<>> /\ messages = <<>> /\ shown = <<>> /\ rpc = "off"
  /\ gpc # "load" => rest = <<>>
  /\ stale => current # 0 /\ gpc \notin {"switched", "load"}
  /\ gpc = "down" => ~nodesStale

\* Nodes are listed once, and were created.
Listed(list) ==
  /\ list \in Seq(Ids)
  /\ \A i \in DOMAIN list : list[i] <= made
  /\ \A i, j \in DOMAIN list : list[i] = list[j] => i = j

\* The list in memory is what the user has; so is what the file loads as, unless the last
\* save failed or the handler under way is about to save.  What a program that has ended
\* leaves is the file.
NodeInv ==
  /\ made \in 0..Len(Home) /\ nodesStale \in BOOLEAN
  /\ Listed(nodes) /\ (nodeFile # Cut => Listed(nodeFile))
  /\ nodesLost => gpc = "down"
  /\ gpc # "down" => Elements(nodes) = owned /\ (Saving \/ nodesStale \/ Loaded(nodeFile) = nodes)
  /\ gpc = "down" /\ ~nodesLost => Elements(Loaded(nodeFile)) = owned

\* What has been said in the open node is in the list, or about to be read of its file
\* into it, or the node is in harm; it is in the file unless the last save failed or is
\* still to come.
Kept(m) == m.node \in harm \/ m \in Elements(Loaded(files[m.node]))
Held(m) == m \in Elements(messages) \cup Elements(rest)
Unsaved(m) ==
  /\ m.node = current /\ m \in Elements(messages)
  /\ gpc \notin {"switched", "load"} /\ (gpc = "save" \/ stale)
SentInv ==
  \A m \in said :
    /\ (m.node = current /\ gpc # "switched") => m.node \in harm \/ Held(m)
    /\ Kept(m) \/ Unsaved(m)

\* Where the list may be saved, nothing of another node is in it, unless it came late.
ListInv ==
  gpc \notin {"switched", "clear", "clearDeleted"} =>
    \A m \in Elements(messages) \cup Elements(rest) : m.node = current \/ m \in late

\* Where the GUI thread will not draw the list by itself, it is drawn or will be.
ShownInv ==
  gpc \in {"down", "idle", "saveNodes", "drop", "dial"} =>
    shown = messages \/ refreshes > 0 \/ rpc = "queue"

\* Where the GUI thread will not dial by itself, the relay is the open node's, and has
\* been asked for its messages or will be.
Named == current # 0 /\ Home[current] # NoUrl
SubsInv ==
  (Named /\ connected /\ gpc \notin {"switched", "load", "drop", "dial"}) =>
    statuses \/ current \in subs
HomeInv ==
  (Named /\ ~strayed) =>
    /\ gpc = "drop" => want = Home[current]
    /\ gpc \notin {"switched", "load", "drop"} => url = Home[current]

Types == GuiType /\ ListType /\ FileType /\ SaidType /\ ThreadType /\ LinkType /\ CountInv
IInv ==
  /\ Types /\ PlaceInv /\ NodeInv /\ SentInv /\ ListInv /\ RightFile
  /\ ShownInv /\ SubsInv /\ HomeInv

-------------------------------------------------------------------------------
(* Lists.                                                                    *)

\* What Append adds is the one element.
LEMMA ElementsAppend ==
  ASSUME NEW S, NEW list \in Seq(S), NEW e \in S
  PROVE  Elements(Append(list, e)) = Elements(list) \cup {e}
<1> DEFINE n == Len(list)
           longer == Append(list, e)
<1>1. /\ n \in Nat /\ DOMAIN list = 1..n /\ DOMAIN longer = 1..(n + 1)
      /\ \A i \in 1..n : longer[i] = list[i]
      /\ longer[n + 1] = e
  OBVIOUS
<1>2. ASSUME NEW x \in Elements(longer)
      PROVE  x \in Elements(list) \cup {e}
  <2>1. PICK i \in 1..(n + 1) : x = longer[i]
    BY DEF Elements
  <2>2. CASE i \in 1..n
    BY DEF Elements
  <2> QED BY <2>1, <2>2
<1>3. ASSUME NEW x \in Elements(list) \cup {e}
      PROVE  x \in Elements(longer)
  <2>1. CASE x \in Elements(list)
    <3>1. PICK i \in 1..n : x = list[i]
      BY <2>1 DEF Elements
    <3> QED BY <1>1 DEF Elements
  <2>2. CASE x = e
    <3> QED BY <1>1 DEF Elements
  <2> QED BY <2>1, <2>2
<1> QED BY <1>2, <1>3

\* The empty list has no elements.
LEMMA ElementsEmpty == Elements(<<>>) = {}
BY DEF Elements

\* The head and the tail have what a list has.
LEMMA ElementsTail ==
  ASSUME NEW S, NEW list \in Seq(S), list # <<>>
  PROVE  /\ Head(list) \in S /\ Tail(list) \in Seq(S)
         /\ Elements(list) = {Head(list)} \cup Elements(Tail(list))
<1> DEFINE n == Len(list)
           t == Tail(list)
<1>1. /\ n \in Nat /\ n > 0 /\ DOMAIN list = 1..n /\ t \in Seq(S) /\ DOMAIN t = 1..(n - 1)
      /\ \A i \in 1..(n - 1) : t[i] = list[i + 1]
      /\ Head(list) = list[1] /\ list[1] \in S
  OBVIOUS
<1> HIDE DEF n, t
<1>2. ASSUME NEW x \in Elements(list)
      PROVE  x = Head(list) \/ x \in Elements(t)
  <2>1. PICK i \in 1..n : x = list[i]
    BY <1>1 DEF Elements
  <2>2. CASE i # 1
    <3>1. i - 1 \in 1..(n - 1) /\ (i - 1) + 1 = i
      BY <1>1, <2>2
    <3>2. t[i - 1] = x
      BY <1>1, <2>1, <3>1
    <3> QED BY <1>1, <3>1, <3>2 DEF Elements
  <2> QED BY <1>1, <2>1, <2>2
<1>3. ASSUME NEW x, x = Head(list) \/ x \in Elements(t)
      PROVE  x \in Elements(list)
  <2>1. CASE x = Head(list)
    BY <1>1, <2>1 DEF Elements
  <2>2. CASE x \in Elements(t)
    <3>1. PICK i \in 1..(n - 1) : x = t[i]
      BY <1>1, <2>2 DEF Elements
    <3>2. i + 1 \in 1..n /\ x = list[i + 1]
      BY <1>1, <3>1
    <3> QED BY <1>1, <3>2 DEF Elements
  <2> QED BY <1>3, <2>1, <2>2
<1> QED BY <1>1, <1>2, <1>3 DEF t

\* Elements are what a list is made of.
LEMMA ElementsIn ==
  ASSUME NEW S, NEW list \in Seq(S)
  PROVE  /\ Elements(list) \subseteq S
         /\ \A i \in DOMAIN list : list[i] \in Elements(list)
BY DEF Elements

\* What a list is without its i-th element.
LEMMA WithoutIs ==
  ASSUME NEW S, NEW list \in Seq(S), NEW i \in DOMAIN list
  PROVE  /\ Without(list, i) \in Seq(S)
         /\ DOMAIN Without(list, i) = 1..(Len(list) - 1)
         /\ \A k \in 1..(Len(list) - 1) :
              Without(list, i)[k] = IF k < i THEN list[k] ELSE list[k + 1]
<1> DEFINE n == Len(list)
           a == SubSeq(list, 1, i - 1)
           b == SubSeq(list, i + 1, n)
<1>1. n \in Nat /\ i \in 1..n /\ \A k \in 1..n : list[k] \in S
  OBVIOUS
<1>2. a \in Seq(S) /\ Len(a) = i - 1 /\ \A k \in 1..(i - 1) : a[k] = list[k]
  <2>2. /\ a \in Seq(S)
        /\ Len(a) = IF 1 <= i - 1 THEN (i - 1) - 1 + 1 ELSE 0
        /\ \A k \in 1..((i - 1) - 1 + 1) : a[k] = list[1 + k - 1]
    OBVIOUS
  <2> HIDE DEF a
  <2> QED BY <2>2
<1>3. b \in Seq(S) /\ Len(b) = n - i /\ \A k \in 1..(n - i) : b[k] = list[k + i]
  <2>2. /\ b \in Seq(S)
        /\ Len(b) = IF i + 1 <= n THEN n - (i + 1) + 1 ELSE 0
        /\ \A k \in 1..(n - (i + 1) + 1) : b[k] = list[(i + 1) + k - 1]
    OBVIOUS
  <2> HIDE DEF b
  <2> QED BY <2>2
<1>4. /\ a \o b \in Seq(S) /\ Len(a \o b) = n - 1
      /\ \A k \in 1..(n - 1) : (a \o b)[k] = IF k < i THEN a[k] ELSE b[k - (i - 1)]
  <2>1. /\ a \o b \in Seq(S) /\ Len(a \o b) = Len(a) + Len(b)
        /\ \A k \in 1..(Len(a) + Len(b)) : (a \o b)[k] = IF k <= Len(a) THEN a[k] ELSE b[k - Len(a)]
    BY <1>2, <1>3, ConcatProperties
  <2> HIDE DEF a, b, n
  <2>2. Len(a) + Len(b) = n - 1
    BY <1>1, <1>2, <1>3
  <2>3. ASSUME NEW k \in 1..(n - 1)
        PROVE  (a \o b)[k] = IF k < i THEN a[k] ELSE b[k - (i - 1)]
    <3>1. (a \o b)[k] = IF k <= Len(a) THEN a[k] ELSE b[k - Len(a)]
      BY <2>2
    <3> QED BY <1>2, <3>1
  <2> QED BY <2>1, <2>2, <2>3
<1>5. Without(list, i) = a \o b
  BY DEF Without
<1> HIDE DEF a, b
<1>7. ASSUME NEW k \in 1..(n - 1)
      PROVE  (a \o b)[k] = IF k < i THEN list[k] ELSE list[k + 1]
  <2> HIDE DEF n
  <2>1. CASE k < i
    <3> QED BY <1>2, <2>1
  <2>2. CASE ~(k < i)
    <3>1. k - (i - 1) \in 1..(n - i) /\ (k - (i - 1)) + i = k + 1
      BY <1>1, <2>2
    <3>2. (a \o b)[k] = b[k - (i - 1)]
      BY <1>4, <2>2
    <3> QED BY <1>3, <3>1, <3>2
  <2> QED BY <2>1, <2>2
<1> QED BY <1>4, <1>5, <1>7

\* Deleting a node takes it out of the list, once and for all.
LEMMA DeletedListed ==
  ASSUME NEW list, Listed(list), NEW i \in DOMAIN list, made \in Nat
  PROVE  /\ Listed(Without(list, i))
         /\ Elements(Without(list, i)) = Elements(list) \ {list[i]}
<1> DEFINE n == Len(list)
           w == Without(list, i)
<1>1. /\ n \in Nat /\ i \in 1..n /\ DOMAIN list = 1..n /\ list \in Seq(Ids)
      /\ w \in Seq(Ids) /\ DOMAIN w = 1..(n - 1)
      /\ \A k \in 1..(n - 1) : w[k] = IF k < i THEN list[k] ELSE list[k + 1]
  BY WithoutIs DEF Listed
<1> HIDE DEF w, n
<1>2. \A k \in 1..(n - 1) : k \in 1..n /\ k + 1 \in 1..n
  BY <1>1
<1>3. ASSUME NEW j \in 1..(n - 1), NEW k \in 1..(n - 1), w[j] = w[k]
      PROVE  j = k
  <2>1. PICK x \in 1..n : w[j] = list[x] /\ x = IF j < i THEN j ELSE j + 1
    BY <1>1
  <2>2. PICK y \in 1..n : w[k] = list[y] /\ y = IF k < i THEN k ELSE k + 1
    BY <1>1
  <2>3. x = y
    BY <1>1, <1>3, <2>1, <2>2 DEF Listed
  <2> QED BY <1>1, <2>1, <2>2, <2>3
<1>4. Listed(w)
  BY <1>1, <1>2, <1>3 DEF Listed
<1>5. ASSUME NEW x \in Elements(w)
      PROVE  x \in Elements(list) \ {list[i]}
  <2>1. PICK k \in 1..(n - 1) : x = w[k]
    BY <1>1 DEF Elements
  <2>2. PICK y \in 1..n : x = list[y] /\ y # i
    BY <1>1, <2>1
  <2> QED BY <1>1, <2>2 DEF Elements, Listed
<1>6. ASSUME NEW x \in Elements(list) \ {list[i]}
      PROVE  x \in Elements(w)
  <2>1. PICK y \in 1..n : x = list[y] /\ y # i
    BY <1>1 DEF Elements
  <2>2. CASE y < i
    <3>1. y \in 1..(n - 1) /\ w[y] = x
      BY <1>1, <2>1, <2>2
    <3> QED BY <1>1, <3>1 DEF Elements
  <2>3. CASE y > i
    <3>1. y - 1 \in 1..(n - 1) /\ w[y - 1] = x
      BY <1>1, <2>1, <2>3
    <3> QED BY <1>1, <3>1 DEF Elements
  <2> QED BY <1>1, <2>1, <2>2, <2>3
<1> QED BY <1>4, <1>5, <1>6 DEF w

\* No message in hand is a message.
LEMMA NoMessageIs == NoMessage \in Message
BY DEF NoMessage, Message

\* The open node is one of the ids.
LEMMA CurrentId == IInv /\ current # 0 => current \in Ids
BY ElementsIn DEF IInv, PlaceInv, NodeInv, Listed

-------------------------------------------------------------------------------
(* What an action leaves alone.                                              *)

\* Types of variables that do not change.
LEMMA SameTypes ==
  /\ GuiType /\ UNCHANGED guiVars => GuiType'
  /\ ListType /\ UNCHANGED <<messages, shown, rest>> => ListType'
  /\ FileType /\ UNCHANGED <<files, stale>> => FileType'
  /\ SaidType /\ UNCHANGED <<said, sends>> => SaidType'
  /\ ThreadType /\ UNCHANGED <<rpc, inhand>> => ThreadType'
  /\ LinkType /\ UNCHANGED <<connected, rpc, statuses>> => LinkType'
  /\ CountInv /\ UNCHANGED <<arrivals, refreshes, rpc>> => CountInv'
<1>1. GuiType /\ UNCHANGED guiVars => GuiType'
  BY DEF guiVars, GuiType
<1>2. ListType /\ UNCHANGED <<messages, shown, rest>> => ListType'
  BY DEF ListType
<1>3. FileType /\ UNCHANGED <<files, stale>> => FileType'
  BY DEF FileType
<1>4. SaidType /\ UNCHANGED <<said, sends>> => SaidType'
  BY DEF SaidType
<1>5. ThreadType /\ UNCHANGED <<rpc, inhand>> => ThreadType'
  BY DEF ThreadType
<1>6. LinkType /\ UNCHANGED <<connected, rpc, statuses>> => LinkType'
  BY DEF LinkType
<1>7. CountInv /\ UNCHANGED <<arrivals, refreshes, rpc>> => CountInv'
  BY DEF CountInv, Handled
<1> QED BY <1>1, <1>2, <1>3, <1>4, <1>5, <1>6, <1>7

\* Nodes, when they stay as they are and the program goes on, or begins, to save them.
LEMMA SameNodes ==
  ASSUME IInv, UNCHANGED nodeVars, (gpc' = "down" <=> gpc = "down"), (Saving => Saving')
  PROVE  NodeInv'
BY DEF IInv, NodeInv, Listed, nodeVars

\* Messages, when neither they nor the node that is open changes, and the GUI thread is
\* neither where it saves them nor where it changes them.
LEMMA SameMessages ==
  ASSUME IInv, UNCHANGED <<current, messages, rest, files, stale, said, late, harm>>,
         \/ gpc' = gpc
         \/ /\ gpc \notin {"switched", "save"} /\ gpc' \notin {"switched", "load", "save"}
            /\ gpc \in {"clear", "clearDeleted"} => gpc' \in {"clear", "clearDeleted"}
  PROVE  SentInv' /\ ListInv' /\ RightFile'
<1>1. ListInv' /\ RightFile'
  BY DEF IInv, ListInv, RightFile
<1>2. ASSUME NEW m \in said
      PROVE  (Kept(m) <=> Kept(m)') /\ (Held(m) <=> Held(m)') /\ (Unsaved(m) => Unsaved(m)')
  BY DEF Kept, Held, Unsaved
<1>3. SentInv'
  BY <1>2 DEF IInv, SentInv
<1> QED BY <1>1, <1>3

\* Nodes are numbered from 1.
LEMMA ZeroNoId == 0 \notin Ids
BY ChatAssumption DEF Ids

\* When the open node is left, what has been said there is in its file or given up.
LEMMA ForgetKeeps ==
  ASSUME IInv, Forget, UNCHANGED <<messages, rest, files, said, late>>, gpc # "save",
         gpc' \in {"switched", "clear", "clearDeleted"}, gpc' = "switched" \/ current' = 0
  PROVE  SentInv' /\ ListInv' /\ RightFile'
<1>1. ASSUME NEW m \in said
      PROVE  Kept(m)'
  <2>1. CASE Kept(m)
    BY <2>1 DEF Kept, Forget
  <2>2. CASE Unsaved(m)
    <3>1. m.node = current /\ stale
      BY <2>2 DEF Unsaved
    <3> QED BY <3>1 DEF Forget, Kept
  <2> QED BY <2>1, <2>2 DEF IInv, SentInv
<1>2. \A m \in said : (m.node = current' /\ gpc' # "switched") => FALSE
  BY ZeroNoId DEF IInv, Types, SaidType
<1> QED BY <1>1, <1>2 DEF SentInv, ListInv, RightFile, IInv

\* Whether the last save failed is no longer of interest then.
LEMMA ForgetTypes == ASSUME FileType, Forget, files' = files PROVE FileType'
BY DEF FileType, Forget

\* The link, while its thread runs.
LEMMA SameLink ==
  ASSUME LinkType, UNCHANGED <<connected, statuses>>, rpc' # "off"
  PROVE  LinkType'
<1> QED BY DEF LinkType

\* The refreshes, when one is queued for an event that has been handled, or one has run.
LEMMA SameCount ==
  ASSUME CountInv, arrivals' = arrivals, refreshes' \in Nat,
         refreshes' + Handled' <= refreshes + Handled
  PROVE  CountInv'
<1>1. ASSUME NEW a \in Nat, NEW b \in Nat, NEW c \in Nat, NEW d \in Nat, NEW n \in Nat,
             a + b <= c + d, c + d <= n
      PROVE  a + b <= n
  BY <1>1
<1>2. arrivals \in Nat /\ Handled \in Nat /\ Handled' \in Nat /\ refreshes \in Nat
  BY DEF CountInv, Handled
<1>3. refreshes + Handled <= arrivals
  BY DEF CountInv
<1>4. refreshes' + Handled' <= arrivals
  BY <1>1, <1>2, <1>3
<1> QED BY <1>4 DEF CountInv

\* One more event has arrived, which may need a refresh.
LEMMA OneArrived ==
  ASSUME CountInv, arrivals' = arrivals + 1, arrivals < Arrivals, refreshes' = refreshes,
         Handled = 0
  PROVE  CountInv'
<1>1. arrivals \in 0..Arrivals /\ Arrivals \in Nat /\ refreshes \in Nat /\ Handled' \in {0, 1}
  BY ChatAssumption DEF CountInv, Handled
<1>2. refreshes + 0 <= arrivals
  BY DEF CountInv
<1>3. ASSUME NEW a \in {0, 1}
      PROVE  refreshes' + a <= arrivals'
  BY <1>1, <1>2
<1>4. arrivals' \in 0..Arrivals /\ refreshes' \in Nat
  BY <1>1
<1> QED BY <1>1, <1>3, <1>4 DEF CountInv

\* A node is created: the list in memory is ahead of the file until it is saved.
LEMMA CreateNodeStep == ASSUME IInv, CreateNode PROVE IInv'
<1>1. Types'
  <2>1. GuiType'
    BY DEF CreateNode, GoTo, IInv, Types, GuiType
  <2> QED BY <2>1, SameTypes DEF CreateNode, IInv, Types, chatVars, threadVars, linkVars,
     queueVars, tally
<1>2. PlaceInv'
  <2>1. made' \in Ids /\ nodes \in Seq(Ids)
    BY DEF CreateNode, IInv, NodeInv, Listed, Ids
  <2>2. Elements(nodes) \subseteq Elements(nodes')
    BY <2>1, ElementsAppend DEF CreateNode
  <2> QED BY <2>2 DEF CreateNode, GoTo, IInv, PlaceInv, chatVars
<1>3. NodeInv'
  <2>1. /\ made \in Nat /\ made' = made + 1 /\ made' \in 0..Len(Home) /\ made' \in Ids
        /\ nodes \in Seq(Ids) /\ nodes' = Append(nodes, made')
    BY DEF CreateNode, IInv, NodeInv, Listed, Ids
  <2>2. Elements(nodes') = Elements(nodes) \cup {made'}
    BY <2>1, ElementsAppend
  <2>3. Listed(nodes)'
    <3>1. /\ nodes' \in Seq(Ids) /\ DOMAIN nodes' = 1..(Len(nodes) + 1) /\ Len(nodes) \in Nat
          /\ \A k \in 1..Len(nodes) : nodes'[k] = nodes[k] /\ nodes'[k] <= made /\ nodes'[k] \in Nat
          /\ nodes'[Len(nodes) + 1] = made + 1
      BY <2>1 DEF IInv, NodeInv, Listed, Ids
    <3>2. \A k \in DOMAIN nodes' : nodes'[k] <= made'
      BY <2>1, <3>1
    <3>3. ASSUME NEW j \in DOMAIN nodes', NEW k \in DOMAIN nodes', nodes'[j] = nodes'[k]
          PROVE  j = k
      <4>1. CASE j \in 1..Len(nodes) /\ k \in 1..Len(nodes)
        BY <3>1, <3>3, <4>1 DEF IInv, NodeInv, Listed
      <4>2. CASE j = Len(nodes) + 1 \/ k = Len(nodes) + 1
        BY <2>1, <3>1, <3>3, <4>2
      <4> QED BY <3>1, <4>1, <4>2
    <3> QED BY <3>1, <3>2, <3>3 DEF Listed
  <2>4. (nodeFile # Cut => Listed(nodeFile))'
    <3> SUFFICES ASSUME nodeFile # Cut PROVE Listed(nodeFile)'
      BY DEF CreateNode
    <3>1. Listed(nodeFile) /\ nodeFile' = nodeFile
      BY DEF CreateNode, IInv, NodeInv
    <3>2. \A k \in DOMAIN nodeFile : nodeFile[k] <= made'
      BY <2>1, <3>1 DEF Listed, Ids
    <3> QED BY <3>1, <3>2 DEF Listed
  <2> QED BY <2>2, <2>3, <2>4 DEF CreateNode, GoTo, IInv, NodeInv, Saving
<1>4. SentInv' /\ ListInv' /\ RightFile'
  BY SameMessages DEF CreateNode, GoTo, chatVars
<1>5. ShownInv'
  BY DEF CreateNode, chatVars, threadVars, queueVars, IInv, ShownInv
<1>6. SubsInv'
  BY DEF CreateNode, chatVars, linkVars, queueVars, IInv, SubsInv, Named
<1>7. HomeInv'
  BY DEF CreateNode, GoTo, chatVars, linkVars, IInv, HomeInv, Named
<1> QED BY <1>1, <1>2, <1>3, <1>4, <1>5, <1>6, <1>7 DEF IInv

\* Starting and stopping a node saves the list.
LEMMA ToggleNodeStep ==
  ASSUME IInv, NEW i \in DOMAIN nodes, NEW running \in BOOLEAN, ToggleNode(i, running)
  PROVE  IInv'
<1>1. Types'
  <2>1. GuiType'
    BY DEF ToggleNode, GoTo, IInv, Types, GuiType
  <2> QED BY <2>1, SameTypes DEF ToggleNode, IInv, Types, chatVars, threadVars, linkVars,
     queueVars, tally
<1>2. PlaceInv'
  BY DEF ToggleNode, GoTo, nodeVars, chatVars, IInv, PlaceInv
<1>3. NodeInv'
  BY SameNodes DEF ToggleNode, GoTo, Saving
<1>4. SentInv' /\ ListInv' /\ RightFile'
  BY SameMessages DEF ToggleNode, GoTo, chatVars
<1>5. ShownInv'
  BY DEF ToggleNode, chatVars, threadVars, queueVars, IInv, ShownInv
<1>6. SubsInv'
  BY DEF ToggleNode, chatVars, linkVars, queueVars, IInv, SubsInv, Named
<1>7. HomeInv'
  BY DEF ToggleNode, GoTo, chatVars, linkVars, IInv, HomeInv, Named
<1> QED BY <1>1, <1>2, <1>3, <1>4, <1>5, <1>6, <1>7 DEF IInv

\* A node is deleted: it leaves the list with all its entries.
LEMMA DeleteNodeStep == ASSUME IInv, NEW i \in DOMAIN nodes, DeleteNode(i) PROVE IInv'
<1>1. Types'
  <2>1. GuiType'
    BY DEF DeleteNode, GoTo, IInv, Types, GuiType
  <2>2. FileType'
    BY SameTypes, ForgetTypes DEF DeleteNode, IInv, Types
  <2> QED BY <2>1, <2>2, SameTypes DEF DeleteNode, IInv, Types, threadVars, linkVars,
     queueVars, tally
<1>8. /\ Listed(nodes') /\ Elements(nodes') = Elements(nodes) \ {nodes[i]}
      /\ nodes[i] \in Ids /\ made' = made
  <2>1. made \in Nat /\ Listed(nodes) /\ nodes[i] \in Ids
    BY DEF IInv, NodeInv, Listed
  <2> QED BY <2>1, DeletedListed DEF DeleteNode
<1>2. PlaceInv'
  <2>1. current' \in {0} \cup Elements(nodes')
    BY <1>8 DEF DeleteNode, IInv, PlaceInv
  <2> QED BY <2>1 DEF DeleteNode, Forget, GoTo, IInv, PlaceInv
<1>3. NodeInv'
  BY <1>8 DEF DeleteNode, GoTo, IInv, NodeInv, Listed, Saving
<1>4. SentInv' /\ ListInv' /\ RightFile'
  <2>1. CASE nodes[i] = current
    BY <2>1, ForgetKeeps DEF DeleteNode, GoTo
  <2>2. CASE nodes[i] # current
    BY <2>2, SameMessages DEF DeleteNode, GoTo
  <2> QED BY <2>1, <2>2
<1>5. ShownInv'
  BY DEF DeleteNode, threadVars, queueVars, IInv, ShownInv
<1>6. SubsInv'
  BY DEF DeleteNode, linkVars, queueVars, IInv, SubsInv, Named
<1>7. HomeInv'
  BY DEF DeleteNode, GoTo, linkVars, IInv, HomeInv, Named
<1> QED BY <1>1, <1>2, <1>3, <1>4, <1>5, <1>6, <1>7 DEF IInv

\* The list of nodes is written, unless the write fails.
LEMMA SaveNodesStep == ASSUME IInv, SaveNodes PROVE IInv'
<1>1. Types'
  <2>1. GuiType'
    BY DEF SaveNodes, GoTo, IInv, Types, GuiType
  <2> QED BY <2>1, SameTypes DEF SaveNodes, IInv, Types, chatVars, threadVars, linkVars,
     queueVars
<1>2. PlaceInv'
  BY DEF SaveNodes, GoTo, chatVars, IInv, PlaceInv
<1>3. NodeInv'
  <2>1. /\ Listed(nodes)' /\ (nodeFile # Cut => Listed(nodeFile))' /\ nodesStale' \in BOOLEAN
        /\ nodesStale' \/ nodeFile' = nodes'
    BY DEF SaveNodes, IInv, NodeInv, Listed
  <2>2. nodesStale' \/ Loaded(nodeFile)' = nodes'
    BY <2>1, CutAssumption DEF Loaded, SaveNodes, Listed
  <2> QED BY <2>1, <2>2 DEF SaveNodes, GoTo, IInv, NodeInv
<1>4. SentInv' /\ ListInv' /\ RightFile'
  BY SameMessages DEF SaveNodes, GoTo, chatVars
<1>5. ShownInv'
  BY DEF SaveNodes, GoTo, chatVars, threadVars, queueVars, IInv, ShownInv
<1>6. SubsInv'
  BY DEF SaveNodes, chatVars, linkVars, queueVars, IInv, SubsInv, Named
<1>7. HomeInv'
  BY DEF SaveNodes, GoTo, chatVars, linkVars, IInv, HomeInv, Named
<1> QED BY <1>1, <1>2, <1>3, <1>4, <1>5, <1>6, <1>7 DEF IInv

\* The open node is left.
LEMMA LeaveNodeStep == ASSUME IInv, LeaveNode PROVE IInv'
<1>1. Types'
  <2>1. GuiType'
    BY DEF LeaveNode, GoTo, IInv, Types, GuiType
  <2>2. FileType'
    BY ForgetTypes DEF LeaveNode, IInv, Types
  <2> QED BY <2>1, <2>2, SameTypes DEF LeaveNode, IInv, Types, threadVars, linkVars, queueVars,
     tally
<1>2. PlaceInv'
  BY DEF LeaveNode, Forget, GoTo, IInv, PlaceInv, nodeVars
<1>3. NodeInv'
  BY SameNodes DEF LeaveNode, GoTo, Saving
<1>4. SentInv' /\ ListInv' /\ RightFile'
  BY ForgetKeeps DEF LeaveNode, GoTo
<1>5. ShownInv'
  BY DEF LeaveNode, GoTo, ShownInv
<1>6. SubsInv'
  BY DEF LeaveNode, SubsInv, Named
<1>7. HomeInv'
  BY DEF LeaveNode, HomeInv, Named
<1> QED BY <1>1, <1>2, <1>3, <1>4, <1>5, <1>6, <1>7 DEF IInv

\* A view without a node clears its list.
LEMMA ClearChatStep == ASSUME IInv, ClearChat PROVE IInv'
<1>1. Types'
  <2>1. GuiType'
    BY DEF ClearChat, GoTo, IInv, Types, GuiType
  <2>2. ListType'
    BY DEF ClearChat, IInv, Types, ListType
  <2> QED BY <2>1, <2>2, SameTypes DEF ClearChat, IInv, Types, threadVars, linkVars,
     queueVars, tally
<1>2. PlaceInv'
  BY DEF ClearChat, GoTo, IInv, PlaceInv
<1>3. NodeInv'
  BY SameNodes DEF ClearChat, GoTo, Saving
<1>4. SentInv' /\ ListInv' /\ RightFile'
  <2>1. current = 0 /\ current' = 0
    BY DEF ClearChat, IInv, PlaceInv
  <2>2. ASSUME NEW m \in said
        PROVE  Kept(m)'
    BY <2>1, ZeroNoId DEF ClearChat, IInv, Types, SaidType, SentInv, Kept, Unsaved
  <2>3. rest' = <<>> /\ messages' = <<>>
    BY DEF ClearChat, IInv, PlaceInv
  <2>4. ListInv' /\ RightFile'
    BY <2>3, ElementsEmpty DEF ClearChat, IInv, ListInv, RightFile
  <2>5. \A m \in said' : m.node # current'
    BY <2>1, ZeroNoId DEF ClearChat, IInv, Types, SaidType
  <2>6. SentInv'
    BY <2>2, <2>5 DEF ClearChat, SentInv
  <2> QED BY <2>4, <2>6
<1>5. ShownInv'
  BY DEF ClearChat, ShownInv
<1>6. SubsInv'
  BY DEF ClearChat, linkVars, queueVars, IInv, SubsInv, Named
<1>7. HomeInv'
  BY DEF ClearChat, GoTo, linkVars, IInv, HomeInv, Named
<1> QED BY <1>1, <1>2, <1>3, <1>4, <1>5, <1>6, <1>7 DEF IInv

\* A node is opened: it is the current one before its messages are read.
LEMMA OpenChatStep == ASSUME IInv, NEW i \in DOMAIN nodes, OpenChat(i) PROVE IInv'
<1>1. Types'
  <2>1. GuiType'
    BY DEF OpenChat, GoTo, IInv, Types, GuiType
  <2>2. FileType'
    BY ForgetTypes DEF OpenChat, IInv, Types
  <2> QED BY <2>1, <2>2, SameTypes DEF OpenChat, IInv, Types, threadVars, linkVars, queueVars,
     tally
<1>2. PlaceInv'
  <2>1. current' \in Elements(nodes) /\ current' \in Ids
    BY ElementsIn DEF OpenChat, IInv, NodeInv, Listed
  <2> QED BY <2>1, ZeroNoId DEF OpenChat, Forget, GoTo, IInv, PlaceInv, nodeVars
<1>3. NodeInv'
  BY SameNodes DEF OpenChat, GoTo, Saving
<1>4. SentInv' /\ ListInv' /\ RightFile'
  BY ForgetKeeps DEF OpenChat, GoTo
<1>5. ShownInv'
  BY DEF OpenChat, GoTo, ShownInv
<1>6. SubsInv'
  BY DEF OpenChat, GoTo, SubsInv
<1>7. HomeInv'
  BY DEF OpenChat, GoTo, HomeInv
<1> QED BY <1>1, <1>2, <1>3, <1>4, <1>5, <1>6, <1>7 DEF IInv

\* The list is cleared, and the open node's file is read.
LEMMA LoadChatStep == ASSUME IInv, LoadChat PROVE IInv'
<1>0. current \in Ids
  BY CurrentId DEF LoadChat, IInv, PlaceInv
<1>1. Types'
  <2>1. GuiType'
    BY DEF LoadChat, GoTo, IInv, Types, GuiType
  <2>2. ListType'
    <3>1. Loaded(files[current]) \in Seq(Message)
      <4>1. files[current] \in Seq(Message) \cup {Cut} /\ <<>> \in Seq(Message)
        BY <1>0 DEF IInv, Types, FileType
      <4> QED BY <4>1 DEF Loaded
    <3>2. /\ messages' = <<>> /\ rest' \in {Loaded(files[current]), <<>>}
          /\ shown' \in Seq(Message) /\ <<>> \in Seq(Message)
      BY DEF LoadChat, IInv, Types, ListType
    <3> QED BY <3>1, <3>2 DEF ListType
  <2> QED BY <2>1, <2>2, SameTypes DEF LoadChat, IInv, Types, threadVars, linkVars,
     queueVars
<1>2. PlaceInv'
  BY DEF LoadChat, GoTo, nodeVars, IInv, PlaceInv
<1>3. NodeInv'
  BY SameNodes DEF LoadChat, GoTo, Saving
<1>4. SentInv' /\ ListInv' /\ RightFile'
  <2>1. ASSUME NEW m \in said
        PROVE  Kept(m)' /\ (m.node = current' => m.node \in harm' \/ Held(m)')
    <3>1. Kept(m)
      BY DEF LoadChat, IInv, SentInv, Unsaved
    <3> QED BY <3>1 DEF LoadChat, Kept, Held
  <2>2. ListInv'
    BY <1>0, ElementsEmpty DEF LoadChat, IInv, RightFile, ListInv
  <2>3. SentInv'
    BY <2>1 DEF LoadChat, SentInv
  <2> QED BY <2>2, <2>3 DEF LoadChat, IInv, RightFile
<1>5. ShownInv'
  BY DEF LoadChat, GoTo, ShownInv
<1>6. SubsInv'
  BY DEF LoadChat, GoTo, SubsInv
<1>7. HomeInv'
  BY DEF LoadChat, GoTo, HomeInv
<1> QED BY <1>1, <1>2, <1>3, <1>4, <1>5, <1>6, <1>7 DEF IInv

\* Appending, in a race with the receive thread or not, keeps the types.
LEMMA AddTypes ==
  ASSUME IInv, NEW m \in Message, Add(m), rest' \in Seq(Message),
         UNCHANGED <<shown, arrivals, refreshes, connected, statuses>>
  PROVE  ListType' /\ ThreadType' /\ LinkType' /\ CountInv'
<1>1. ListType'
  <2>1. messages \in Seq(Message) /\ shown \in Seq(Message) /\ inhand \in Message
    BY DEF IInv, Types, ListType, ThreadType
  <2>2. Append(messages, m) \in Seq(Message) /\ Append(messages, inhand) \in Seq(Message)
    BY <2>1
  <2> QED BY <2>1, <2>2 DEF Add, ListType
<1>2. ThreadType'
  BY NoMessageIs DEF Add, IInv, Types, ThreadType
<1>3. LinkType'
  BY DEF Add, IInv, Types, LinkType
<1>4. CountInv'
  <2>1. Handled' = Handled
    BY DEF Add, Handled
  <2>2. refreshes' = refreshes /\ refreshes \in Nat /\ Handled \in Nat
    BY DEF IInv, Types, CountInv, Handled
  <2> QED BY <2>1, <2>2, SameCount DEF IInv, Types
<1> QED BY <1>1, <1>2, <1>3, <1>4

\* Appending loses nothing that was in the list; what the GUI thread appends is there
\* afterwards, or, if it is the user's own, its node is in harm; nothing else comes in but
\* what the receive thread had in hand.
LEMMA AddKeeps ==
  ASSUME IInv, NEW m \in Message, Add(m), current' = current
  PROVE  /\ late \subseteq late' /\ harm \subseteq harm'
         /\ Elements(messages) \subseteq Elements(messages')
         /\ m \in Elements(messages') \/ (m.by = "me" => m.node \in harm')
         /\ \A x \in Elements(messages') :
              x \in Elements(messages) \cup {m} \/ x.node = current \/ x \in late'
<1>1. messages \in Seq(Message) /\ inhand \in Message
  BY DEF IInv, Types, ListType, ThreadType
<1>2. /\ Elements(Append(messages, m)) = Elements(messages) \cup {m}
      /\ Elements(Append(messages, inhand)) = Elements(messages) \cup {inhand}
  BY <1>1, ElementsAppend
<1>3. CASE messages' = Append(messages, m) /\ UNCHANGED <<harm, late>>
  BY <1>2, <1>3
<1>4. CASE /\ messages' = Append(messages, inhand) /\ Mark
           /\ harm' = harm \cup {x.node : x \in {y \in {m} : y.by = "me"}}
  BY <1>2, <1>4 DEF Mark
<1> QED BY <1>3, <1>4 DEF Add

\* One message of the file is appended.
LEMMA LoadMessageStep == ASSUME IInv, LoadMessage PROVE IInv'
<1>0. /\ rest \in Seq(Message) /\ rest # <<>> /\ rest' = Tail(rest) /\ Add(Head(rest))
      /\ gpc = "load" /\ gpc' = "load"
      /\ UNCHANGED <<guiVars, nodeVars, current, shown, files, stale, said, arrivals, linkVars,
                     queueVars, tally>>
  BY DEF LoadMessage, IInv, Types, ListType, guiVars
<1>8. /\ Head(rest) \in Message /\ rest' \in Seq(Message)
      /\ Elements(rest) = {Head(rest)} \cup Elements(rest')
  BY <1>0, ElementsTail
<1>9. /\ late \subseteq late' /\ harm \subseteq harm'
      /\ Elements(messages) \subseteq Elements(messages')
      /\ \/ Head(rest) \in Elements(messages')
         \/ Head(rest).by = "me" => Head(rest).node \in harm'
      /\ \A x \in Elements(messages') :
           x \in Elements(messages) \cup {Head(rest)} \/ x.node = current \/ x \in late'
  BY <1>0, <1>8, AddKeeps
<1>1. Types'
  <2>1. ListType' /\ ThreadType' /\ LinkType' /\ CountInv'
    BY <1>0, <1>8, AddTypes DEF linkVars, queueVars
  <2> QED BY <1>0, <2>1, SameTypes DEF IInv, Types, tally
<1>2. PlaceInv'
  BY <1>0 DEF IInv, PlaceInv, nodeVars
<1>3. NodeInv'
  BY <1>0, SameNodes DEF Saving
<1>4. SentInv' /\ ListInv' /\ RightFile'
  <2>1. ASSUME NEW m \in said
        PROVE  /\ m.node = current => m.node \in harm' \/ Held(m)'
               /\ Kept(m)'
    <3>1. Kept(m) /\ (m.node = current => m.node \in harm \/ Held(m)) /\ m.by = "me"
      BY <1>0 DEF IInv, SentInv, Unsaved, Types, SaidType
    <3> QED BY <1>0, <1>8, <1>9, <3>1 DEF Kept, Held
  <2>2. SentInv'
    BY <1>0, <2>1 DEF SentInv
  <2>3. ListInv'
    BY <1>0, <1>8, <1>9 DEF IInv, ListInv
  <2> QED BY <1>0, <1>9, <2>2, <2>3 DEF IInv, RightFile
<1>5. ShownInv'
  BY <1>0 DEF ShownInv
<1>6. SubsInv'
  BY <1>0 DEF SubsInv
<1>7. HomeInv'
  BY <1>0 DEF HomeInv, linkVars, IInv, Named
<1> QED BY <1>1, <1>2, <1>3, <1>4, <1>5, <1>6, <1>7 DEF IInv

\* The view of the open node is drawn.
LEMMA ShowChatStep == ASSUME IInv, ShowChat PROVE IInv'
<1>1. Types'
  <2>1. GuiType'
    <3>1. current \in DOMAIN Home
      BY CurrentId DEF ShowChat, IInv, PlaceInv, Ids
    <3>2. Home[current] \in Urls \cup {NoUrl}
      BY <3>1, ChatAssumption
    <3> QED BY <3>2 DEF ShowChat, GoTo, IInv, Types, GuiType
  <2>2. ListType'
    BY DEF ShowChat, IInv, Types, ListType
  <2> QED BY <2>1, <2>2, SameTypes DEF ShowChat, IInv, Types, threadVars, queueVars, tally
<1>2. PlaceInv'
  BY DEF ShowChat, GoTo, nodeVars, IInv, PlaceInv
<1>3. NodeInv'
  BY SameNodes DEF ShowChat, GoTo, Saving
<1>4. SentInv' /\ ListInv' /\ RightFile'
  BY SameMessages DEF ShowChat, GoTo
<1>5. ShownInv'
  BY DEF ShowChat, ShownInv
<1>6. SubsInv'
  BY DEF ShowChat, GoTo, SubsInv, Named
<1>7. HomeInv'
  BY DEF ShowChat, GoTo, HomeInv, Named
<1> QED BY <1>1, <1>2, <1>3, <1>4, <1>5, <1>6, <1>7 DEF IInv

\* What is said is in the list and about to be saved.
LEMMA SayStep == ASSUME IInv, Say PROVE IInv'
<1>0. /\ current # 0 /\ Own \in Message /\ Own.node = current /\ Own.by = "me"
      /\ current \in Ids /\ Own \in [by : {"me"}, no : Nat, node : Ids]
  <2>1. sends + 1 \in Nat /\ current \in Ids /\ current # 0
    BY CurrentId DEF Say, IInv, Types, SaidType
  <2> QED BY <2>1 DEF Own, Message
<1>8. /\ Add(Own) /\ gpc = "idle" /\ gpc' = "save" /\ said' = said \cup {Own}
      /\ UNCHANGED <<want, nodeVars, current, shown, rest, files, stale, arrivals, linkVars,
                     queueVars, faults>>
  BY DEF Say, GoTo
<1>9. /\ late \subseteq late' /\ harm \subseteq harm'
      /\ Elements(messages) \subseteq Elements(messages')
      /\ Own \in Elements(messages') \/ current \in harm'
      /\ \A x \in Elements(messages') :
           x \in Elements(messages) \cup {Own} \/ x.node = current \/ x \in late'
  BY <1>0, <1>8, AddKeeps
<1>1. Types'
  <2>1. GuiType'
    BY DEF Say, GoTo, IInv, Types, GuiType
  <2>2. ListType' /\ ThreadType' /\ LinkType' /\ CountInv'
    BY <1>0, <1>8, AddTypes DEF IInv, Types, ListType, linkVars, queueVars
  <2>3. SaidType'
    BY <1>0 DEF Say, IInv, Types, SaidType
  <2> QED BY <1>8, <2>1, <2>2, <2>3, SameTypes DEF IInv, Types
<1>2. PlaceInv'
  BY <1>0, <1>8 DEF nodeVars, IInv, PlaceInv
<1>3. NodeInv'
  BY <1>8, SameNodes DEF Saving
<1>4. SentInv' /\ ListInv' /\ RightFile'
  <2>1. ASSUME NEW m \in said'
        PROVE  /\ m.node = current => m.node \in harm' \/ Held(m)'
               /\ (Kept(m) \/ Unsaved(m))'
    <3>1. CASE m \in said
      BY <1>8, <1>9, <3>1 DEF IInv, SentInv, Kept, Held, Unsaved
    <3>2. CASE m = Own
      BY <1>0, <1>8, <1>9, <3>2 DEF Kept, Held, Unsaved
    <3> QED BY <1>8, <3>1, <3>2
  <2>2. SentInv'
    BY <1>8, <2>1 DEF SentInv
  <2>3. ListInv'
    BY <1>0, <1>8, <1>9 DEF IInv, ListInv
  <2> QED BY <1>8, <1>9, <2>2, <2>3 DEF IInv, RightFile
<1>5. ShownInv'
  BY DEF Say, GoTo, ShownInv
<1>6. SubsInv'
  BY DEF Say, linkVars, queueVars, IInv, SubsInv, Named
<1>7. HomeInv'
  BY DEF Say, GoTo, linkVars, IInv, HomeInv, Named
<1> QED BY <1>1, <1>2, <1>3, <1>4, <1>5, <1>6, <1>7 DEF IInv

\* The list is written to the open node's file; the file is cut if that fails.
LEMMA SaveMessagesStep == ASSUME IInv, SaveMessages PROVE IInv'
<1>1. Types'
  <2>1. GuiType'
    BY DEF SaveMessages, GoTo, IInv, Types, GuiType
  <2>2. FileType'
    BY DEF SaveMessages, IInv, Types, FileType, ListType
  <2> QED BY <2>1, <2>2, SameTypes DEF SaveMessages, IInv, Types, threadVars, linkVars,
     queueVars
<1>2. PlaceInv'
  BY DEF SaveMessages, GoTo, nodeVars, IInv, PlaceInv
<1>3. NodeInv'
  BY SameNodes DEF SaveMessages, GoTo, Saving
<1>4. SentInv' /\ ListInv' /\ RightFile'
  <2>1. /\ current \in Ids /\ current # 0 /\ files \in [Ids -> Seq(Message) \cup {Cut}]
        /\ gpc = "save" /\ gpc' = "publish" /\ rest = <<>>
        /\ UNCHANGED <<current, messages, rest, said, late, harm>>
    BY CurrentId DEF SaveMessages, GoTo, IInv, Types, FileType, PlaceInv
  <2>2. /\ \/ files'[current] = messages
           \/ files'[current] \in {Cut, files[current]} /\ stale'
        /\ \A n \in Ids : n # current => files'[n] = files[n]
    BY <2>1 DEF SaveMessages
  <2>4. ASSUME NEW m \in said
        PROVE  /\ m.node = current => m.node \in harm' \/ Held(m)'
               /\ (Kept(m) \/ Unsaved(m))'
    <3>1. /\ m.node \in Ids /\ (Kept(m) \/ Unsaved(m))
          /\ m.node = current => m.node \in harm \/ Held(m)
      BY <2>1 DEF IInv, Types, SaidType, SentInv
    <3>2. CASE m.node # current
      BY <2>1, <2>2, <3>1, <3>2 DEF Kept, Unsaved
    <3>3. CASE m.node = current /\ m.node \notin harm
      <4>1. m \in Elements(messages)
        BY <2>1, <3>1, <3>3, ElementsEmpty DEF Held
      <4>2. CASE files'[current] = messages
        <5>1. messages \in Seq(Message)
          BY DEF IInv, Types, ListType
        <5>2. messages # Cut
          BY <5>1, CutAssumption
        <5> QED BY <2>1, <3>3, <4>1, <4>2, <5>2 DEF Kept, Held, Loaded
      <4>3. CASE stale'
        BY <2>1, <3>3, <4>1, <4>3 DEF Unsaved, Held
      <4> QED BY <2>2, <4>2, <4>3
    <3>4. CASE m.node \in harm
      BY <2>1, <3>4 DEF Kept
    <3> QED BY <3>2, <3>3, <3>4
  <2>5. SentInv'
    BY <2>1, <2>4 DEF SentInv
  <2>6. ListInv'
    BY <2>1 DEF IInv, ListInv
  <2>7. ASSUME NEW n \in Ids, NEW m \in Elements(Loaded(files'[n]))
        PROVE  m.node = n \/ m \in late
    <3>1. CASE n # current \/ files'[n] = files[n]
      BY <2>1, <2>2, <3>1 DEF IInv, RightFile
    <3>2. CASE n = current /\ files'[n] \in {messages, Cut}
      <4>1. m \in Elements(messages)
        BY <3>2, ElementsEmpty DEF Loaded
      <4> QED BY <2>1, <3>2, <4>1 DEF IInv, ListInv
    <3> QED BY <2>2, <3>1, <3>2
  <2> QED BY <2>1, <2>5, <2>6, <2>7 DEF RightFile
<1>5. ShownInv'
  BY DEF SaveMessages, GoTo, ShownInv
<1>6. SubsInv'
  BY DEF SaveMessages, linkVars, queueVars, IInv, SubsInv, Named
<1>7. HomeInv'
  BY DEF SaveMessages, GoTo, linkVars, IInv, HomeInv, Named
<1> QED BY <1>1, <1>2, <1>3, <1>4, <1>5, <1>6, <1>7 DEF IInv

\* What is said goes to the relay the client is connected to.
LEMMA PublishStep == ASSUME IInv, Publish PROVE IInv'
<1>1. Types'
  <2>1. GuiType'
    BY DEF Publish, GoTo, IInv, Types, GuiType
  <2> QED BY <2>1, SameTypes DEF Publish, IInv, Types, chatVars, threadVars, linkVars,
     queueVars
<1>2. PlaceInv'
  BY DEF Publish, GoTo, nodeVars, chatVars, IInv, PlaceInv
<1>3. NodeInv'
  BY SameNodes DEF Publish, GoTo, Saving
<1>4. SentInv' /\ ListInv' /\ RightFile'
  BY SameMessages DEF Publish, GoTo, chatVars
<1>5. ShownInv'
  BY DEF Publish, GoTo, ShownInv
<1>6. SubsInv'
  BY DEF Publish, chatVars, linkVars, queueVars, IInv, SubsInv, Named
<1>7. HomeInv'
  BY DEF Publish, GoTo, chatVars, linkVars, IInv, HomeInv, Named
<1> QED BY <1>1, <1>2, <1>3, <1>4, <1>5, <1>6, <1>7 DEF IInv

\* The view is drawn with what was said.
LEMMA ShowSentStep == ASSUME IInv, ShowSent PROVE IInv'
<1>1. Types'
  <2>1. GuiType'
    BY DEF ShowSent, GoTo, IInv, Types, GuiType
  <2>2. ListType'
    BY DEF ShowSent, IInv, Types, ListType
  <2> QED BY <2>1, <2>2, SameTypes DEF ShowSent, IInv, Types, threadVars, linkVars,
     queueVars, tally
<1>2. PlaceInv'
  BY DEF ShowSent, GoTo, nodeVars, IInv, PlaceInv
<1>3. NodeInv'
  BY SameNodes DEF ShowSent, GoTo, Saving
<1>4. SentInv' /\ ListInv' /\ RightFile'
  BY SameMessages DEF ShowSent, GoTo
<1>5. ShownInv'
  BY DEF ShowSent, ShownInv
<1>6. SubsInv'
  BY DEF ShowSent, linkVars, queueVars, IInv, SubsInv, Named
<1>7. HomeInv'
  BY DEF ShowSent, GoTo, linkVars, IInv, HomeInv, Named
<1> QED BY <1>1, <1>2, <1>3, <1>4, <1>5, <1>6, <1>7 DEF IInv

\* A click on a relay row starts to dial that relay, whatever node is open.
LEMMA ConnectRowStep == ASSUME IInv, NEW u \in Urls, ConnectRow(u) PROVE IInv'
<1>1. Types'
  <2>1. GuiType'
    BY DEF ConnectRow, GoTo, GuiType
  <2> QED BY <2>1, SameTypes DEF ConnectRow, IInv, Types, chatVars, threadVars, queueVars,
     tally
<1>2. PlaceInv'
  BY DEF ConnectRow, GoTo, nodeVars, chatVars, IInv, PlaceInv
<1>3. NodeInv'
  BY SameNodes DEF ConnectRow, GoTo, Saving
<1>4. SentInv' /\ ListInv' /\ RightFile'
  BY SameMessages DEF ConnectRow, GoTo, chatVars
<1>5. ShownInv'
  BY DEF ConnectRow, chatVars, threadVars, queueVars, IInv, ShownInv
<1>6. SubsInv'
  BY DEF ConnectRow, GoTo, SubsInv
<1>7. HomeInv'
  BY DEF ConnectRow, chatVars, HomeInv, Named
<1> QED BY <1>1, <1>2, <1>3, <1>4, <1>5, <1>6, <1>7 DEF IInv

\* The old link is dropped, once its receive thread has no event in hand.
LEMMA DropStep == ASSUME IInv, Drop PROVE IInv'
<1>1. Types'
  <2>1. GuiType'
    BY DEF Drop, GoTo, GuiType
  <2>2. ThreadType'
    BY DEF Drop, IInv, Types, ThreadType
  <2>3. LinkType'
    BY DEF Drop, LinkType
  <2>4. CountInv'
    BY DEF Drop, IInv, Types, CountInv, Handled
  <2> QED BY <2>1, <2>2, <2>3, <2>4, SameTypes DEF Drop, IInv, Types, chatVars, tally
<1>2. PlaceInv'
  BY DEF Drop, GoTo, nodeVars, chatVars, IInv, PlaceInv
<1>3. NodeInv'
  BY SameNodes DEF Drop, GoTo, Saving
<1>4. SentInv' /\ ListInv' /\ RightFile'
  BY SameMessages DEF Drop, GoTo, chatVars
<1>5. ShownInv'
  BY DEF Drop, chatVars, IInv, ShownInv
<1>6. SubsInv'
  BY DEF Drop, SubsInv
<1>7. HomeInv'
  BY DEF Drop, GoTo, chatVars, IInv, HomeInv, Named
<1> QED BY <1>1, <1>2, <1>3, <1>4, <1>5, <1>6, <1>7 DEF IInv

\* A link that is up has a receive thread, and a status is queued.
LEMMA DialledStep == ASSUME IInv, NEW ok \in BOOLEAN, Dialled(ok) PROVE IInv'
<1>1. Types'
  <2>1. GuiType'
    BY DEF Dialled, GoTo, IInv, Types, GuiType
  <2>2. ThreadType'
    BY DEF Dialled, IInv, Types, ThreadType
  <2>3. LinkType'
    BY DEF Dialled, LinkType
  <2>4. CountInv'
    BY DEF Dialled, IInv, Types, CountInv, Handled
  <2> QED BY <2>1, <2>2, <2>3, <2>4, SameTypes DEF Dialled, IInv, Types, chatVars, tally
<1>2. PlaceInv'
  BY DEF Dialled, GoTo, nodeVars, chatVars, IInv, PlaceInv
<1>3. NodeInv'
  BY SameNodes DEF Dialled, GoTo, Saving
<1>4. SentInv' /\ ListInv' /\ RightFile'
  BY SameMessages DEF Dialled, GoTo, chatVars
<1>5. ShownInv'
  BY DEF Dialled, IInv, PlaceInv, ShownInv, chatVars
<1>6. SubsInv'
  BY DEF Dialled, SubsInv
<1>7. HomeInv'
  BY DEF Dialled, GoTo, chatVars, IInv, HomeInv, Named
<1> QED BY <1>1, <1>2, <1>3, <1>4, <1>5, <1>6, <1>7 DEF IInv

\* The queued status asks for the open node's messages.
LEMMA RunStatusStep == ASSUME IInv, RunStatus PROVE IInv'
<1>1. Types'
  <2>1. LinkType'
    <3> QED BY DEF RunStatus, IInv, Types, LinkType, threadVars
  <2> QED BY <2>1, SameTypes DEF RunStatus, IInv, Types, chatVars, threadVars, tally
<1>2. PlaceInv'
  BY DEF RunStatus, guiVars, nodeVars, chatVars, IInv, PlaceInv
<1>3. NodeInv'
  BY SameNodes DEF RunStatus, guiVars, Saving
<1>4. SentInv' /\ ListInv' /\ RightFile'
  BY SameMessages DEF RunStatus, guiVars, chatVars
<1>5. ShownInv'
  BY DEF RunStatus, chatVars, threadVars, IInv, ShownInv
<1>6. SubsInv'
  BY DEF RunStatus, chatVars, SubsInv, Named
<1>7. HomeInv'
  BY DEF RunStatus, guiVars, chatVars, IInv, HomeInv, Named
<1> QED BY <1>1, <1>2, <1>3, <1>4, <1>5, <1>6, <1>7 DEF IInv

\* A queued refresh draws the list there is.
LEMMA RunRefreshStep == ASSUME IInv, RunRefresh PROVE IInv'
<1>1. Types'
  <2>1. ListType'
    BY DEF RunRefresh, IInv, Types, ListType
  <2>2. CountInv'
    BY DEF RunRefresh, IInv, Types, CountInv, Handled, threadVars
  <2> QED BY <2>1, <2>2, SameTypes DEF RunRefresh, IInv, Types, threadVars, linkVars, tally
<1>2. PlaceInv'
  BY DEF RunRefresh, guiVars, nodeVars, IInv, PlaceInv
<1>3. NodeInv'
  BY SameNodes DEF RunRefresh, guiVars, Saving
<1>4. SentInv' /\ ListInv' /\ RightFile'
  BY SameMessages DEF RunRefresh, guiVars
<1>5. ShownInv'
  BY DEF RunRefresh, ShownInv
<1>6. SubsInv'
  BY DEF RunRefresh, linkVars, IInv, SubsInv, Named
<1>7. HomeInv'
  BY DEF RunRefresh, guiVars, linkVars, IInv, HomeInv, Named
<1> QED BY <1>1, <1>2, <1>3, <1>4, <1>5, <1>6, <1>7 DEF IInv

\* An event of the relay is taken in hand by the receive thread.
LEMMA ReceiveStep == ASSUME IInv, Receive PROVE IInv'
<1>1. Types'
  <2>1. ThreadType'
    <3>1. CASE current = 0
      BY <3>1 DEF Receive, IInv, Types, ThreadType
    <3>2. CASE current # 0
      <4>1. current \in Ids /\ arrivals' \in Nat
        BY <3>2, ElementsIn DEF Receive, IInv, Types, CountInv, PlaceInv, NodeInv, Listed
      <4> QED BY <3>2, <4>1 DEF Receive, ThreadType, Message
    <3> QED BY <3>1, <3>2
  <2>2. LinkType'
    BY SameLink DEF Receive, IInv, Types, linkVars, queueVars
  <2>3. CountInv'
    <3>1. Handled = 0
      BY DEF Receive, Handled
    <3> QED BY <3>1, OneArrived DEF Receive, IInv, Types, queueVars
  <2> QED BY <2>1, <2>2, <2>3, SameTypes DEF Receive, IInv, Types, chatVars, tally
<1>2. PlaceInv'
  BY DEF Receive, guiVars, nodeVars, chatVars, IInv, PlaceInv
<1>3. NodeInv'
  BY SameNodes DEF Receive, guiVars, Saving
<1>4. SentInv' /\ ListInv' /\ RightFile'
  BY SameMessages DEF Receive, guiVars, chatVars
<1>5. ShownInv'
  BY DEF Receive, guiVars, chatVars, queueVars, IInv, ShownInv
<1>6. SubsInv'
  BY DEF Receive, guiVars, chatVars, linkVars, queueVars, IInv, SubsInv, Named
<1>7. HomeInv'
  BY DEF Receive, guiVars, chatVars, linkVars, IInv, HomeInv, Named
<1> QED BY <1>1, <1>2, <1>3, <1>4, <1>5, <1>6, <1>7 DEF IInv

\* The receive thread appends to the list of whatever node is open by then.
LEMMA AppendArrivedStep == ASSUME IInv, AppendArrived PROVE IInv'
<1>1. Types'
  <2>1. ListType'
    BY DEF AppendArrived, IInv, Types, ListType, ThreadType
  <2>2. ThreadType'
    BY NoMessageIs DEF AppendArrived, ThreadType
  <2>3. LinkType'
    BY SameLink DEF AppendArrived, IInv, Types, linkVars, queueVars
  <2>4. CountInv'
    BY DEF AppendArrived, IInv, Types, CountInv, Handled, queueVars
  <2> QED BY <2>1, <2>2, <2>3, <2>4, SameTypes DEF AppendArrived, IInv, Types, tally
<1>2. PlaceInv'
  BY DEF AppendArrived, guiVars, nodeVars, IInv, PlaceInv
<1>3. NodeInv'
  BY SameNodes DEF AppendArrived, guiVars, Saving
<1>4. SentInv' /\ ListInv' /\ RightFile'
  <2>1. /\ UNCHANGED <<gpc, current, rest, files, stale, said, harm>>
        /\ late' = late \cup {m \in {inhand} : m.node # current}
        /\ Elements(messages') = Elements(messages) \cup {inhand}
    BY ElementsAppend DEF AppendArrived, Mark, guiVars, IInv, Types, ListType, ThreadType
  <2>2. SentInv'
    BY <2>1 DEF IInv, SentInv, Kept, Held, Unsaved
  <2>3. ListInv' /\ RightFile'
    BY <2>1 DEF IInv, ListInv, RightFile
  <2> QED BY <2>2, <2>3
<1>5. ShownInv'
  BY DEF AppendArrived, ShownInv
<1>6. SubsInv'
  BY DEF AppendArrived, guiVars, linkVars, queueVars, IInv, SubsInv, Named
<1>7. HomeInv'
  BY DEF AppendArrived, guiVars, linkVars, IInv, HomeInv, Named
<1> QED BY <1>1, <1>2, <1>3, <1>4, <1>5, <1>6, <1>7 DEF IInv

\* A profile is taken in hand.
LEMMA ReceiveNameStep == ASSUME IInv, ReceiveName PROVE IInv'
<1>1. Types'
  <2>1. ThreadType'
    BY DEF ReceiveName, IInv, Types, ThreadType
  <2>2. LinkType'
    BY SameLink DEF ReceiveName, IInv, Types, linkVars, queueVars
  <2>3. CountInv'
    <3>1. Handled = 0
      BY DEF ReceiveName, Handled
    <3> QED BY <3>1, OneArrived DEF ReceiveName, IInv, Types, queueVars
  <2> QED BY <2>1, <2>2, <2>3, SameTypes DEF ReceiveName, IInv, Types, chatVars, tally
<1>2. PlaceInv'
  BY DEF ReceiveName, guiVars, nodeVars, chatVars, IInv, PlaceInv
<1>3. NodeInv'
  BY SameNodes DEF ReceiveName, guiVars, Saving
<1>4. SentInv' /\ ListInv' /\ RightFile'
  BY SameMessages DEF ReceiveName, guiVars, chatVars
<1>5. ShownInv'
  BY DEF ReceiveName, guiVars, chatVars, queueVars, IInv, ShownInv
<1>6. SubsInv'
  BY DEF ReceiveName, guiVars, chatVars, linkVars, queueVars, IInv, SubsInv, Named
<1>7. HomeInv'
  BY DEF ReceiveName, guiVars, chatVars, linkVars, IInv, HomeInv, Named
<1> QED BY <1>1, <1>2, <1>3, <1>4, <1>5, <1>6, <1>7 DEF IInv

\* A name is cached, and a refresh is to be queued.
LEMMA CacheNameStep == ASSUME IInv, CacheName PROVE IInv'
<1>1. Types'
  <2>1. ThreadType'
    BY DEF CacheName, IInv, Types, ThreadType
  <2>2. LinkType'
    BY SameLink DEF CacheName, IInv, Types, linkVars, queueVars
  <2>3. CountInv'
    BY DEF CacheName, IInv, Types, CountInv, Handled, queueVars
  <2> QED BY <2>1, <2>2, <2>3, SameTypes DEF CacheName, IInv, Types, chatVars, tally
<1>2. PlaceInv'
  BY DEF CacheName, guiVars, nodeVars, chatVars, IInv, PlaceInv
<1>3. NodeInv'
  BY SameNodes DEF CacheName, guiVars, Saving
<1>4. SentInv' /\ ListInv' /\ RightFile'
  BY SameMessages DEF CacheName, guiVars, chatVars
<1>5. ShownInv'
  BY DEF CacheName, ShownInv
<1>6. SubsInv'
  BY DEF CacheName, guiVars, chatVars, linkVars, queueVars, IInv, SubsInv, Named
<1>7. HomeInv'
  BY DEF CacheName, guiVars, chatVars, linkVars, IInv, HomeInv, Named
<1> QED BY <1>1, <1>2, <1>3, <1>4, <1>5, <1>6, <1>7 DEF IInv

\* The receive thread queues a refresh: one event less is handled.
LEMMA QueueRefreshStep == ASSUME IInv, QueueRefresh PROVE IInv'
<1>1. Types'
  <2>1. ThreadType'
    BY DEF QueueRefresh, IInv, Types, ThreadType
  <2>2. LinkType'
    BY SameLink DEF QueueRefresh, IInv, Types, linkVars
  <2>3. CountInv'
    BY DEF QueueRefresh, IInv, Types, CountInv, Handled
  <2> QED BY <2>1, <2>2, <2>3, SameTypes DEF QueueRefresh, IInv, Types, chatVars, tally
<1>2. PlaceInv'
  BY DEF QueueRefresh, guiVars, nodeVars, chatVars, IInv, PlaceInv
<1>3. NodeInv'
  BY SameNodes DEF QueueRefresh, guiVars, Saving
<1>4. SentInv' /\ ListInv' /\ RightFile'
  BY SameMessages DEF QueueRefresh, guiVars, chatVars
<1>5. ShownInv'
  BY DEF QueueRefresh, IInv, Types, CountInv, ShownInv
<1>6. SubsInv'
  BY DEF QueueRefresh, guiVars, chatVars, linkVars, IInv, SubsInv, Named
<1>7. HomeInv'
  BY DEF QueueRefresh, guiVars, chatVars, linkVars, IInv, HomeInv, Named
<1> QED BY <1>1, <1>2, <1>3, <1>4, <1>5, <1>6, <1>7 DEF IInv

\* The relay hangs up: the receive thread ends.
LEMMA LoseStep == ASSUME IInv, Lose PROVE IInv'
<1>1. Types'
  <2>1. ThreadType'
    BY DEF Lose, IInv, Types, ThreadType
  <2>2. LinkType'
    BY DEF Lose, LinkType
  <2>3. CountInv'
    BY DEF Lose, IInv, Types, CountInv, Handled
  <2> QED BY <2>1, <2>2, <2>3, SameTypes DEF Lose, IInv, Types, chatVars, tally
<1>2. PlaceInv'
  BY DEF Lose, guiVars, nodeVars, chatVars, IInv, PlaceInv
<1>3. NodeInv'
  BY SameNodes DEF Lose, guiVars, Saving
<1>4. SentInv' /\ ListInv' /\ RightFile'
  BY SameMessages DEF Lose, guiVars, chatVars
<1>5. ShownInv'
  BY DEF Lose, guiVars, chatVars, IInv, ShownInv
<1>6. SubsInv'
  BY DEF Lose, SubsInv
<1>7. HomeInv'
  BY DEF Lose, guiVars, chatVars, IInv, HomeInv, Named
<1> QED BY <1>1, <1>2, <1>3, <1>4, <1>5, <1>6, <1>7 DEF IInv

\* The program starts with the lists the files hold.
LEMMA StartStep == ASSUME IInv, Start PROVE IInv'
<1>1. Types'
  <2>1. GuiType'
    BY DEF Start, GoTo, IInv, Types, GuiType
  <2> QED BY <2>1, SameTypes DEF Start, IInv, Types, chatVars, threadVars, linkVars,
     queueVars
<1>2. PlaceInv'
  BY DEF Start, GoTo, chatVars, IInv, PlaceInv
<1>3. NodeInv'
  <2>1. /\ gpc' \in {"idle", "drop"} /\ nodesLost' = FALSE
        /\ UNCHANGED <<nodeFile, made>> /\ gpc = "down" /\ nodesStale' \in BOOLEAN
    BY DEF Start, GoTo, IInv, NodeInv
  <2>2. Listed(<<>>)
    BY DEF Listed
  <2>3. Listed(nodes') /\ (nodeFile # Cut => Listed(nodeFile))
    BY <2>2 DEF Start, Loaded, IInv, NodeInv
  <2>4. Elements(nodes') = owned' /\ (nodesStale' \/ Loaded(nodeFile) = nodes')
    BY <2>1, ElementsEmpty DEF Start, IInv, NodeInv
  <2>5. (Loaded(nodeFile) = nodes') => (Loaded(nodeFile)' = nodes')
    BY <2>1 DEF Loaded
  <2> QED BY <2>1, <2>3, <2>4, <2>5 DEF IInv, NodeInv, Listed
<1>4. SentInv' /\ ListInv' /\ RightFile'
  BY SameMessages DEF Start, GoTo, chatVars
<1>5. ShownInv'
  BY DEF Start, chatVars, threadVars, queueVars, IInv, ShownInv
<1>6. SubsInv'
  BY DEF Start, chatVars, linkVars, queueVars, IInv, SubsInv, Named
<1>7. HomeInv'
  BY DEF Start, chatVars, IInv, HomeInv, Named, PlaceInv
<1> QED BY <1>1, <1>2, <1>3, <1>4, <1>5, <1>6, <1>7 DEF IInv

-------------------------------------------------------------------------------
(* The end of the program.                                                   *)

\* A program that ends, or is killed where it writes a file, leaves what is in the files,
\* and has put in harm what is not.
LEMMA DiedKeeps ==
  ASSUME IInv, Died, gpc # "down",
         \/ UNCHANGED <<nodeFile, files>>
         \/ Saving /\ nodeFile' = Cut /\ UNCHANGED files
         \/ gpc = "save" /\ files' = [files EXCEPT ![current] = Cut] /\ UNCHANGED nodeFile
  PROVE  IInv'
<1>1. Types'
  <2>1. GuiType' /\ ListType' /\ SaidType'
    BY DEF Died, IInv, Types, GuiType, ListType, SaidType
  <2>2. FileType'
    BY DEF Died, IInv, Types, FileType
  <2>3. ThreadType' /\ LinkType'
    BY NoMessageIs DEF Died, ThreadType, LinkType
  <2>4. CountInv'
    <3>1. arrivals \in 0..Arrivals /\ Arrivals \in Nat
      BY ChatAssumption DEF IInv, Types, CountInv
    <3> QED BY <3>1 DEF Died, CountInv, Handled
  <2> QED BY <2>1, <2>2, <2>3, <2>4 DEF Types
<1>2. PlaceInv'
  BY DEF Died, PlaceInv
<1>3. NodeInv'
  <2>1. Listed(nodes)'
    BY DEF Died, Listed
  <2>2. (nodeFile # Cut => Listed(nodeFile))'
    BY DEF Died, IInv, NodeInv, Listed
  <2>3. ASSUME ~nodesLost'
        PROVE  Elements(Loaded(nodeFile')) = owned'
    BY <2>3 DEF Died, Loaded, IInv, NodeInv
  <2> QED BY <2>1, <2>2, <2>3 DEF Died, IInv, NodeInv
<1>4. SentInv'
  <2>1. ASSUME NEW m \in said
        PROVE  Kept(m)'
    <3>1. CASE m.node = current /\ (gpc = "save" \/ stale)
      BY <3>1 DEF Died, Kept
    <3>2. CASE Kept(m) /\ ~(m.node = current /\ gpc = "save")
      <4>1. m.node \in Ids
        BY DEF IInv, Types, SaidType
      <4>2. files'[m.node] = files[m.node]
        BY <3>2, <4>1 DEF IInv, Types, FileType
      <4> QED BY <3>2, <4>2 DEF Died, Kept
    <3> QED BY <3>1, <3>2 DEF IInv, SentInv, Unsaved
  <2>2. \A m \in said : m.node # current'
    BY ZeroNoId DEF Died, IInv, Types, SaidType
  <2> QED BY <2>1, <2>2 DEF Died, SentInv
<1>5. ListInv' /\ RightFile'
  <2>1. ASSUME NEW n \in Ids, NEW m \in Elements(Loaded(files'[n]))
        PROVE  m.node = n \/ m \in late
    BY ElementsEmpty DEF IInv, Types, FileType, RightFile, Loaded
  <2> QED BY <2>1, ElementsEmpty DEF Died, ListInv, RightFile
<1>6. ShownInv' /\ SubsInv' /\ HomeInv'
  BY DEF Died, ShownInv, SubsInv, HomeInv, Named
<1> QED BY <1>1, <1>2, <1>3, <1>4, <1>5, <1>6 DEF IInv

\* By itself, killed, or by a race between the two threads.
LEMMA EndSteps == ASSUME IInv, Quit \/ Kill \/ Collide PROVE IInv'
<1>1. gpc # "down"
  <2>1. CASE Quit \/ Kill
    BY <2>1 DEF Quit, Kill
  <2>2. CASE Collide
    BY <2>2 DEF Collide, IInv, PlaceInv
  <2> QED BY <2>1, <2>2
<1> QED BY <1>1, DiedKeeps DEF Quit, Kill, Collide

-------------------------------------------------------------------------------
(* The whole next-state relation.                                            *)

\* At the start there are no nodes and no messages.
LEMMA InitIInv == Init => IInv
<1> SUFFICES ASSUME Init PROVE IInv
  OBVIOUS
<1>1. Types
  <2>1. GuiType /\ ListType /\ SaidType
    BY DEF Init, GuiType, ListType, SaidType
  <2>4. FileType
    <3>1. /\ files = [n \in Ids |-> <<>>] /\ stale = FALSE
          /\ <<>> \in Seq(Message) \cup {Cut}
      BY DEF Init
    <3> QED BY <3>1 DEF FileType
  <2>2. ThreadType /\ LinkType
    BY NoMessageIs DEF Init, ThreadType, LinkType
  <2>3. CountInv
    BY ChatAssumption DEF Init, CountInv, Handled
  <2> QED BY <2>1, <2>2, <2>3, <2>4 DEF Types
<1>2. PlaceInv
  BY DEF Init, PlaceInv
<1>3. NodeInv
  <2>2. Listed(<<>>)
    BY DEF Listed
  <2>3. Loaded(<<>>) = <<>> /\ 0 \in 0..Len(Home)
    BY ChatAssumption DEF Loaded
  <2> QED BY <2>2, <2>3, ElementsEmpty DEF Init, NodeInv
<1>4. SentInv /\ ListInv /\ RightFile
  <2>1. \A n \in Ids : Elements(Loaded(files[n])) = {}
    BY ElementsEmpty DEF Init, Loaded
  <2> QED BY <2>1, ElementsEmpty DEF Init, SentInv, ListInv, RightFile
<1>5. ShownInv /\ SubsInv /\ HomeInv
  BY DEF Init, ShownInv, SubsInv, HomeInv, Named
<1> QED BY <1>1, <1>2, <1>3, <1>4, <1>5 DEF IInv

\* Nothing in the invariant looks at anything but the variables.
LEMMA StutterStep == ASSUME IInv, UNCHANGED vars PROVE IInv'
<1> USE DEF vars, guiVars, nodeVars, chatVars, threadVars, linkVars, queueVars, tally
<1>1. Types'
  BY SameTypes DEF IInv, Types
<1>2. PlaceInv' /\ NodeInv'
  BY SameNodes DEF IInv, PlaceInv, Saving
<1>3. SentInv' /\ ListInv' /\ RightFile'
  BY SameMessages
<1>4. ShownInv' /\ SubsInv' /\ HomeInv'
  BY DEF IInv, ShownInv, SubsInv, HomeInv, Named
<1> QED BY <1>1, <1>2, <1>3, <1>4 DEF IInv

\* One case for each group of actions of Next.
LEMMA NextIInv == IInv /\ [Next]_vars => IInv'
<1> SUFFICES ASSUME IInv, [Next]_vars PROVE IInv'
  OBVIOUS
<1>1. CASE Quit \/ Kill \/ Collide
  BY <1>1, EndSteps
<1>2. CASE User
  <2>1. CASE CreateNode \/ Say \/ Start
    BY <2>1, CreateNodeStep, SayStep, StartStep
  <2>2. CASE \E i \in DOMAIN nodes :
               (\E running \in BOOLEAN : ToggleNode(i, running)) \/ DeleteNode(i) \/ OpenChat(i)
    BY <2>2, ToggleNodeStep, DeleteNodeStep, OpenChatStep
  <2>3. CASE \E u \in Urls : ConnectRow(u)
    BY <2>3, ConnectRowStep
  <2> QED BY <1>1, <1>2, <2>1, <2>2, <2>3 DEF User
<1>3. CASE Gui
  <2>1. CASE SaveNodes \/ LeaveNode \/ ClearChat \/ LoadChat \/ LoadMessage \/ ShowChat
    BY <2>1, SaveNodesStep, LeaveNodeStep, ClearChatStep, LoadChatStep, LoadMessageStep,
       ShowChatStep
  <2>2. CASE SaveMessages \/ Publish \/ ShowSent
    BY <2>2, SaveMessagesStep, PublishStep, ShowSentStep
  <2>3. CASE Drop \/ RunStatus \/ RunRefresh
    BY <2>3, DropStep, RunStatusStep, RunRefreshStep
  <2>4. CASE \E ok \in BOOLEAN : Dialled(ok)
    BY <2>4, DialledStep
  <2> QED BY <1>3, <2>1, <2>2, <2>3, <2>4 DEF Gui
<1>4. CASE Thread
  BY <1>4, ReceiveStep, AppendArrivedStep, ReceiveNameStep, CacheNameStep, QueueRefreshStep,
     LoseStep DEF Thread
<1>5. CASE UNCHANGED vars
  BY <1>5, StutterStep
<1> QED BY <1>1, <1>2, <1>3, <1>4, <1>5 DEF Next

-------------------------------------------------------------------------------
(* The theorems.                                                             *)

\* Whatever the order in which the GUI thread and the receive thread take their steps,
\* whatever the user does, and wherever the program is killed or a write fails, the
\* invariant holds.
THEOREM ChatInvariant == Spec => []IInv
BY InitIInv, NextIInv, PTL DEF Spec

\* Every variable keeps its type; in particular the open node is one of the list.
THEOREM ChatTypeCorrect == Spec => []TypeOK
<1>1. IInv => TypeOK
  <2> SUFFICES ASSUME IInv PROVE TypeOK
    OBVIOUS
  <2>1. nodes \in Seq(Ids) /\ (nodeFile = Cut \/ nodeFile \in Seq(Ids))
    BY DEF IInv, NodeInv, Listed
  <2>2. refreshes \in 0..Arrivals
    BY ChatAssumption DEF IInv, Types, CountInv, Handled
  <2>3. \A n \in Ids : files[n] = Cut \/ files[n] \in Seq(Message)
    BY DEF IInv, Types, FileType
  <2>4. /\ {messages, shown, rest} \subseteq Seq(Message) /\ {stale, nodesStale} \subseteq BOOLEAN
        /\ current \in {0} \cup Elements(nodes)
    BY DEF IInv, Types, ListType, FileType, NodeInv, PlaceInv
  <2> QED BY <2>1, <2>2, <2>3, <2>4 DEF IInv, Types, GuiType, ThreadType, LinkType, TypeOK
<1> QED BY <1>1, ChatInvariant, PTL

\* What the user has said is in its node's file, or in the list while that cannot be, or
\* its node is in harm.
THEOREM SaidIsKept == Spec => []SentKept
<1>1. IInv => SentKept
  BY DEF IInv, SentInv, Kept, Unsaved, SentKept
<1> QED BY <1>1, ChatInvariant, PTL

\* A node's file holds what was said in that node or came while it was open, but for
\* messages that were in hand when the user changed to another node.
THEOREM FilesAreRight == Spec => []RightFile
<1>1. IInv => RightFile
  BY DEF IInv
<1> QED BY <1>1, ChatInvariant, PTL

\* When nothing is queued the view shows the list, although the receive thread appends
\* without drawing.
THEOREM ViewSettles == Spec => []ShownSettles
<1>1. IInv => ShownSettles
  <2> QED BY DEF IInv, ShownInv, ShownSettles, Quiet
<1> QED BY <1>1, ChatInvariant, PTL

\* ... and the relay has been asked for the open node's messages.
THEOREM OpenIsSubscribed == Spec => []Subscribed
<1>1. IInv => Subscribed
  BY DEF IInv, SubsInv, Named, Subscribed
<1> QED BY <1>1, ChatInvariant, PTL

\* What is said goes to the relay of its node, or nowhere, until the user connects to
\* another by hand.
THEOREM SaidToRightRelay == Spec => []RightRelay
<1>1. IInv => RightRelay
  BY DEF IInv, PlaceInv, HomeInv, Named, RightRelay
<1> QED BY <1>1, ChatInvariant, PTL

\* Nodes that are created and not deleted are there, also after a restart, unless a save
\* was cut short.
THEOREM NodesAreKept == Spec => []NodesKept
<1>1. IInv => NodesKept
  BY DEF IInv, NodeInv, NodesKept, Saving
<1> QED BY <1>1, ChatInvariant, PTL

===============================================================================
