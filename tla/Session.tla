--------------------------------- MODULE Session ---------------------------------
(***************************************************************************)
(* Who the user of the desktop client is, and which relays it knows: the    *)
(* key file of identity.cpp with the login page of app.cpp, and the list of *)
(* relays with its two files.  Every handler runs on the GUI thread from     *)
(* beginning to end.  What makes it hard is what the handlers leave in the   *)
(* files: each is truncated and rewritten in place, nobody looks at the      *)
(* result of a save, and most handlers read the file again instead of what   *)
(* is in memory or on the screen.                                            *)
(*                                                                         *)
(* Activating the program again builds another window.  The program keeps   *)
(* one pointer to each widget, so what it reads, shows and draws is in the   *)
(* newest window; the older ones stay as they were, and their buttons work.  *)
(*                                                                         *)
(* A secret key is [of, depth]: the key it was, and how often the pad it is  *)
(* stored with was lost, so that it is read back masked.  Depth 0 is the key.*)
(***************************************************************************)
EXTENDS Naturals, Sequences

CONSTANTS
  Keys, NoKey,         \* key pairs; no key
  Names, ReadBack,     \* display names, and what each is read back as
  Urls, NoUrl,         \* relay urls; the empty one
  DefaultUrl,          \* ws://localhost:8080
  Absent, Cut,         \* a file that does not exist; one that does not parse
  Faults,              \* bound: failed writes
  Windows              \* bound: windows

ASSUME SessionAssumption ==
  /\ {Faults, Windows} \subseteq Nat
  /\ DefaultUrl \in Urls /\ NoUrl \notin Urls /\ NoKey \notin Keys
  /\ {"User", ""} \cap Names = {}
  /\ ReadBack \in [Names \cup {"User", ""} -> Names \cup {"User", ""}]

VARIABLES
  page,                  \* the page of the newest window: login or main; or down
  entry,                 \* the private key pasted into its login entry
  offered, backup,       \* current_privkey_hex_; whether it is shown there to be backed up
  pub,                   \* current_pubkey_hex_
  keyFile,               \* identity.json
  listFile, urlFile,     \* relay_list.json, relay.json
  rows, relay,           \* the relay list as drawn there; current_relay_url_
  older,                 \* the older windows
  owner, named, harm,    \* history: key and name the user has given, faults that matter
  astray,                \* history: what was given in an older window, or beside the login
  edited,                \* history: the default url changed since rows was drawn
  faults

authVars == <<page, entry, offered, backup, pub>>
keyVars == <<keyFile, owner, named, harm>>
listVars == <<listFile, urlFile, rows, relay, edited>>
vars == <<authVars, keyVars, astray, listVars, older, faults>>

\* The key file: a text of four fields, written up to the upto-th.
KeyFile == [upto : 0..4, of : Keys, depth : 0..Faults, name : DOMAIN ReadBack]

\* An older window: its page, the key it shows to be backed up, the rows it shows, whether
\* the default url (edited) or the list (missed) has changed since it drew them.
Window == [page : {"login", "main"}, key : Keys \cup {NoKey}, rows : Seq(Urls),
           edited : BOOLEAN, missed : BOOLEAN]

TypeOK ==
  /\ page \in {"login", "main", "down"} /\ older \in Seq(Window)
  /\ {entry, offered, pub, owner} \subseteq Keys \cup {NoKey} /\ backup \in BOOLEAN
  /\ keyFile = Absent \/ keyFile \in KeyFile
  /\ listFile \in {Absent, Cut} \/ listFile \in Seq(Urls)
  /\ urlFile \in Urls \cup {NoUrl, Absent, Cut}
  /\ rows \in Seq(Urls) /\ edited \in BOOLEAN /\ relay \in Urls \cup {NoUrl}
  /\ named \in DOMAIN ReadBack /\ harm \subseteq {"pad", "name"}
  /\ astray \subseteq {"key", "name", "shown"}
  /\ backup => (page = "login" /\ offered # NoKey)

Init ==
  /\ page = "down" /\ entry = NoKey /\ offered = NoKey /\ backup = FALSE /\ pub = NoKey
  /\ older = <<>>
  /\ keyFile = Absent /\ owner = NoKey /\ named = "" /\ harm = {} /\ astray = {}
  /\ listFile = Absent /\ urlFile = Absent /\ rows = <<>> /\ relay = NoUrl
  /\ edited = FALSE /\ faults = 0

-------------------------------------------------------------------------------
(* The files.                                                                *)

NoId == [of |-> NoKey, depth |-> 0, name |-> ""]

\* IdentityManager::load.  Without its pad the secret stays masked; a name is read up
\* to the first quotation mark.
Identity(file) ==
  IF file = Absent THEN NoId
  ELSE IF file.upto < 2 THEN NoId
  ELSE [of |-> file.of,
        depth |-> IF file.upto >= 3 THEN file.depth ELSE file.depth + 1,
        name |-> IF file.upto = 4 THEN ReadBack[file.name] ELSE ""]

RelayUrl(file) == IF file \in {Absent, Cut} THEN DefaultUrl ELSE file

\* load_relay_list: without a list file, the default relay alone.
RelayList(list, file) ==
  IF list = Cut THEN <<>>
  ELSE IF list # Absent THEN list
  ELSE IF RelayUrl(file) = NoUrl THEN <<>> ELSE <<RelayUrl(file)>>

Stored == RelayList(listFile, urlFile)

\* IdentityManager::save.  A write that fails leaves some of the fields, or, if the
\* file cannot be opened, what was there before.
WholeKey(k, depth, name) ==
  /\ keyFile' = [upto |-> 4, of |-> k, depth |-> depth, name |-> name]
  /\ harm' = harm \ (IF depth = 0 THEN {"pad", "name"} ELSE {"name"})
  /\ UNCHANGED faults

FailedKey(k, depth, name) ==
  /\ faults < Faults /\ faults' = faults + 1
  /\ \/ \E upto \in 0..3 :
          /\ keyFile' = [upto |-> upto, of |-> k, depth |-> depth, name |-> name]
          /\ harm' = harm \cup {"name"} \cup (IF upto = 2 THEN {"pad"} ELSE {})
     \/ keyFile' = keyFile /\ harm' = harm \cup {"name"}

SaveKey(k, depth, name) == WholeKey(k, depth, name) \/ FailedKey(k, depth, name)

\* The other files hold the new text, or do not parse, or could not be opened.
Save(file, text) ==
  \/ file' = text /\ UNCHANGED faults
  \/ file' \in {Cut, file} /\ faults < Faults /\ faults' = faults + 1

-------------------------------------------------------------------------------
(* The login page.  Its handlers work on the newest window, also when they    *)
(* were called from an older one (w).                                         *)

OnMain(w) == w \in DOMAIN older /\ older[w].page = "main"
OnLogin(w) == w \in DOMAIN older /\ older[w].page = "login"
LoggedIn == page = "main" \/ \E w \in DOMAIN older : OnMain(w)

\* The end of init_session: the summary shows the key of the file, if it can be read,
\* and the first relay of the list is dialled.
Dial(list) == relay' = IF list = <<>> THEN relay ELSE Head(list)

\* The key to be backed up stays on the screen.
InitSession_StillShown(id, shown) ==
  /\ page' = "main" /\ UNCHANGED backup /\ Dial(Stored)
  /\ pub' = IF id = NoId THEN shown ELSE id.of

InitSession(id, shown) ==
  /\ page' = "main" /\ backup' = FALSE /\ Dial(Stored)
  /\ pub' = IF id = NoId THEN shown ELSE id.of

\* Generate New Identity: the key is shown in the newest window, not yet saved.
Generate(k) ==
  /\ page = "login" \/ \E w \in DOMAIN older : OnLogin(w)
  /\ k # owner /\ offered' = k /\ pub' = k /\ backup' = (page = "login")
  /\ astray' = astray \cup {x \in {"shown"} : LoggedIn}
  /\ UNCHANGED <<page, entry, keyVars, listVars, older, faults>>

\* IdentityManager::login keeps the name in the file if the file is this key's.
NameFor(k) == IF Identity(keyFile).of = k THEN Identity(keyFile).name ELSE "User"

\* A pair of its own is saved instead of the one shown.
BackupDone_Fresh ==
  /\ page = "login" /\ backup /\ owner' = offered /\ astray' = {}
  /\ \E k \in Keys \ {offered} : SaveKey(k, 0, NameFor(k)) /\ named' = NameFor(k)
  /\ InitSession(Identity(keyFile'), pub)
  /\ UNCHANGED <<entry, offered, listFile, urlFile, rows, edited, older>>

BackupDone ==
  /\ page = "login" /\ backup /\ owner' = offered /\ astray' = {}
  /\ SaveKey(offered, 0, NameFor(offered)) /\ named' = NameFor(offered)
  /\ InitSession(Identity(keyFile'), pub)
  /\ UNCHANGED <<entry, offered, listFile, urlFile, rows, edited, older>>

\* The user means the key the older window shows; saved is the one generated last.
BackupDoneOlder(w) ==
  /\ OnLogin(w) /\ older[w].key # NoKey /\ owner' = older[w].key /\ astray' = {"key"}
  /\ SaveKey(offered, 0, NameFor(offered)) /\ named' = NameFor(offered)
  /\ InitSession(Identity(keyFile'), pub)
  /\ UNCHANGED <<entry, offered, listFile, urlFile, rows, edited, older>>

Paste(k) ==
  /\ page = "login" /\ entry' = k
  /\ UNCHANGED <<page, offered, backup, pub, keyVars, astray, listVars, older, faults>>

\* on_login: the key in the entry of the newest window is saved.
LoginPasted ==
  /\ entry # NoKey /\ SaveKey(entry, 0, NameFor(entry)) /\ named' = NameFor(entry)
  /\ offered' = entry /\ InitSession(Identity(keyFile'), entry)
  /\ UNCHANGED <<entry, listFile, urlFile, rows, edited, older>>

Login == page = "login" /\ owner' = entry /\ astray' = {} /\ LoginPasted

\* The user has pasted k into an older window.
LoginOlder(w, k) == OnLogin(w) /\ owner' = k /\ astray' = {"key"} /\ LoginPasted

\* Save Name, on the profile page: what the file holds is written again.
SaveName(name) ==
  /\ page = "main" /\ Identity(keyFile) # NoId
  /\ SaveKey(Identity(keyFile).of, Identity(keyFile).depth, name)
  /\ UNCHANGED <<authVars, owner, listVars, older>>

SetDisplayName(name) == SaveName(name) /\ named' = name /\ astray' = astray \ {"name"}

\* The user has typed a name into an older window; saved is what the newest one holds.
SetDisplayNameOlder(w, typed, name) ==
  OnMain(w) /\ SaveName(name) /\ named' = typed /\ astray' = astray \cup {"name"}

-------------------------------------------------------------------------------
(* The relay list, on the settings page.  A row's buttons carry its index.    *)

Draw(list) == rows' = list /\ edited' = FALSE

\* The older windows do not draw the list again, nor for another default url.
Miss == older' = [w \in DOMAIN older |-> [older[w] EXCEPT !.missed = TRUE]]
Outdate(changed) ==
  older' = [w \in DOMAIN older |-> [older[w] EXCEPT !.edited = @ \/ changed]]

\* From whatever window, what is added is in the entry of the newest.
AddRelay(u) ==
  /\ page = "main" /\ u \notin {Stored[i] : i \in DOMAIN Stored}
  /\ Save(listFile, Append(Stored, u)) /\ Draw(RelayList(listFile', urlFile)) /\ Miss
  /\ UNCHANGED <<authVars, keyVars, astray, urlFile, relay>>

Without(list, i) == SubSeq(list, 1, i - 1) \o SubSeq(list, i + 1, Len(list))

\* A row, in whatever window, is clicked; the handlers count in the list of the file.
Click(i) ==
  /\ i \in DOMAIN Stored
  /\ \/ page = "main" /\ i \in DOMAIN rows
     \/ \E w \in DOMAIN older : OnMain(w) /\ i \in DOMAIN older[w].rows

\* The list is not drawn again.
RemoveRelay_NotDrawn(i) ==
  /\ Click(i) /\ Save(listFile, Without(Stored, i)) /\ Miss
  /\ UNCHANGED <<authVars, keyVars, astray, urlFile, rows, relay, edited>>

RemoveRelay(i) ==
  /\ Click(i) /\ Save(listFile, Without(Stored, i))
  /\ Draw(RelayList(listFile', urlFile)) /\ Miss
  /\ UNCHANGED <<authVars, keyVars, astray, urlFile, relay>>

ConnectRow(i) ==
  /\ Click(i) /\ Save(urlFile, Stored[i]) /\ relay' = Stored[i]
  /\ edited' = (edited \/ urlFile' # urlFile) /\ Outdate(urlFile' # urlFile)
  /\ UNCHANGED <<authVars, keyVars, astray, listFile, rows>>

\* The entry of the default url: every change, in whatever window, is saved.
EditUrl(u) ==
  /\ LoggedIn /\ Save(urlFile, u) /\ edited' = TRUE /\ Outdate(TRUE)
  /\ UNCHANGED <<authVars, keyVars, astray, listFile, rows, relay>>

-------------------------------------------------------------------------------
(* Starting, being activated again, ending.                                  *)

\* build_ui: the relay list is drawn; a key file that can be read is a login.
BuildUi(shown) ==
  /\ Draw(Stored) /\ entry' = NoKey
  /\ IF Identity(keyFile) = NoId
       THEN page' = "login" /\ backup' = FALSE /\ pub' = shown /\ UNCHANGED <<relay, astray>>
       ELSE InitSession(Identity(keyFile), shown) /\ astray' = astray \ {"shown"}
  /\ UNCHANGED <<offered, keyVars, listFile, urlFile, faults>>

Start == page = "down" /\ BuildUi(NoKey) /\ UNCHANGED older

Newest == [page |-> page, key |-> IF backup THEN offered ELSE NoKey, rows |-> rows,
           edited |-> edited, missed |-> FALSE]

Activate ==
  /\ page # "down" /\ Len(older) + 1 < Windows
  /\ older' = Append(older, Newest) /\ BuildUi(pub)

\* The last window is closed or the program killed, after the handler or, with its save
\* failed, in the middle of it.
End ==
  /\ page # "down" /\ page' = "down" /\ older' = <<>>
  /\ entry' = NoKey /\ offered' = NoKey /\ backup' = FALSE /\ pub' = NoKey
  /\ astray' = astray \ {"shown"}
  /\ rows' = <<>> /\ relay' = NoUrl /\ edited' = FALSE
  /\ UNCHANGED <<keyVars, listFile, urlFile, faults>>

Next ==
  \/ \E k \in Keys : Generate(k) \/ Paste(k)
  \/ BackupDone \/ Login
  \/ \E name \in Names : SetDisplayName(name)
  \/ \E w \in DOMAIN older :
       \/ BackupDoneOlder(w) \/ \E k \in Keys : LoginOlder(w, k)
       \/ \E typed, name \in Names : SetDisplayNameOlder(w, typed, name)
  \/ \E u \in Urls : AddRelay(u)
  \/ \E i \in DOMAIN Stored : RemoveRelay(i) \/ ConnectRow(i)
  \/ \E u \in Urls \cup {NoUrl} : EditUrl(u)
  \/ Start \/ Activate \/ End

Spec == Init /\ [][Next]_vars

-------------------------------------------------------------------------------
(* Properties.                                                               *)

\* While the user is logged in, the file every event is signed from is that user's:
\* the key pasted in, or the one shown to be backed up ("Save exactly the keys shown on
\* the backup screen, not a fresh pair", app.cpp:383), with the name given last.  Or it
\* cannot be read, and nothing is signed.  A save cut short before the pad leaves a
\* masked secret under the right public key (from which later saves do not recover),
\* one that failed otherwise an older name.  The exceptions of several windows: key or
\* name were given in one that was not the newest.
FileIsUser ==
  LET id == Identity(keyFile) IN
  (LoggedIn /\ id # NoId) =>
    /\ id.of = owner \/ "key" \in astray
    /\ id.depth = 0 \/ "pad" \in harm
    /\ id.name = ReadBack[named] \/ "name" \in harm \cup astray

\* The public key shown, copied, and used in subscriptions is the one events are signed
\* with, and the user's, although a key generated before, or a file that could not be
\* written, may say otherwise (app.cpp:355-362, 438-442, 1266-1275).  The exception: a
\* pair was generated in one window while the user was logged in in another.
ShownKey ==
  (LoggedIn /\ "shown" \notin astray) =>
    /\ Identity(keyFile) # NoId => pub = Identity(keyFile).of
    /\ pub = owner \/ "key" \in astray

\* So every page and every event speaks for the same key.
SignedInAsOwner == FileIsUser /\ ShownKey

\* A row's button acts on the relay the row shows, although the handlers count in the
\* list of the file (app.cpp:331-353).  The exceptions: no list was ever saved, the row
\* is the default relay, and its url has changed since the row was drawn; or the row is
\* an older window's, and relays have been added or removed since.
ActsOn(shown) == \A i \in DOMAIN shown \cap DOMAIN Stored : shown[i] = Stored[i]
RowActsOnShown ==
  /\ ActsOn(rows) \/ (edited /\ listFile = Absent)
  /\ \A w \in DOMAIN older :
       \/ ActsOn(older[w].rows) \/ older[w].missed
       \/ older[w].edited /\ listFile = Absent
===============================================================================
