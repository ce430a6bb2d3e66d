------------------------------ MODULE SessionProofs ------------------------------
(***************************************************************************)
(* For any keys, names, relays and number of failed saves: the state is well *)
(* typed, the file signs as its owner, and a relay row acts on its relay.    *)
(***************************************************************************)
EXTENDS Session, SequenceTheorems, TLAPS

-------------------------------------------------------------------------------
(* The inductive invariant.                                                  *)

\* What can be read from the key file is the owner's, on whatever page: on the login
\* page, and while the program is down, nobody looks at it, but it is read next.  Each
\* pad lost has cost a fault.
KeyInv ==
  LET id == Identity(keyFile) IN
  /\ faults \in 0..Faults
  /\ keyFile # Absent => id.depth \in 0..faults
  /\ id # NoId => /\ id.of = owner \/ "key" \in astray
                  /\ id.depth = 0 \/ "pad" \in harm
                  /\ id.name = ReadBack[named] \/ "name" \in harm \cup astray

\* The newest window shows the login page only when there is nothing to read, so that a
\* save there that cannot open the file leaves nobody else's key; what it offers is what
\* it shows.  What an older one offers, it once showed.
PageInv ==
  /\ ShownKey
  /\ page = "login" => Identity(keyFile) = NoId
  /\ backup => pub = offered
  /\ \A w \in DOMAIN older : older[w].key # NoKey => offered # NoKey
  /\ page = "down" => older = <<>>

\* Rows are the list of the file, unless they are the default url of another time, or
\* were not drawn again.
Fit(shown, url) == shown = Stored \/ (url /\ listFile = Absent)
RowInv ==
  /\ IF page = "down" THEN rows = <<>> ELSE Fit(rows, edited)
  /\ \A w \in DOMAIN older : older[w].missed \/ Fit(older[w].rows, older[w].edited)

IInv == TypeOK /\ KeyInv /\ PageInv /\ RowInv

-------------------------------------------------------------------------------
(* What the files are read as.                                               *)

\* A name is read back as a name.
LEMMA NamesRead ==
  /\ "User" \in DOMAIN ReadBack /\ "" \in DOMAIN ReadBack
  /\ Names \subseteq DOMAIN ReadBack
  /\ \A name \in DOMAIN ReadBack : ReadBack[name] \in DOMAIN ReadBack
BY SessionAssumption

\* load() finds an identity exactly when public and secret key are there.
LEMMA IdentityRead ==
  ASSUME NEW file, file = Absent \/ file \in KeyFile
  PROVE  /\ Identity(file) = NoId <=> (file = Absent \/ file.upto < 2)
         /\ Identity(file).name \in DOMAIN ReadBack /\ Identity(file).depth \in Nat
         /\ Identity(file) # NoId => Identity(file).of \in Keys
<1>1. CASE file = Absent
  BY <1>1, NamesRead DEF Identity, NoId
<1>2. CASE file # Absent /\ file.upto < 2
  BY <1>2, NamesRead DEF Identity, NoId
<1>3. CASE file # Absent /\ ~(file.upto < 2)
  <2>0. Faults \in Nat /\ NoKey \notin Keys
    BY SessionAssumption
  <2>1. file.of \in Keys /\ file.depth \in 0..Faults /\ file.name \in DOMAIN ReadBack
    BY <1>3 DEF KeyFile
  <2>2. Identity(file).of = file.of
    BY <1>3 DEF Identity
  <2>3. NoId.of = NoKey
    BY DEF NoId
  <2>4. Identity(file).name \in {ReadBack[file.name], ""}
    BY <1>3 DEF Identity
  <2>5. Identity(file).depth \in {file.depth, file.depth + 1}
    BY <1>3 DEF Identity
  <2>6. Identity(file).name \in DOMAIN ReadBack
    BY <2>1, <2>4, NamesRead
  <2>7. Identity(file).depth \in Nat
    BY <2>0, <2>1, <2>5
  <2> QED BY <1>3, <2>0, <2>1, <2>2, <2>3, <2>6, <2>7
<1> QED BY <1>1, <1>2, <1>3

\* load_relay_list() and load_relay_url() return urls.
LEMMA ListRead ==
  ASSUME NEW list, list \in {Absent, Cut} \/ list \in Seq(Urls),
         NEW file, file \in Urls \cup {NoUrl, Absent, Cut}
  PROVE  RelayUrl(file) \in Urls \cup {NoUrl} /\ RelayList(list, file) \in Seq(Urls)
<1>1. RelayUrl(file) \in Urls \cup {NoUrl}
  BY SessionAssumption DEF RelayUrl
<1>2. <<>> \in Seq(Urls) /\ \A u \in Urls : <<u>> \in Seq(Urls)
  OBVIOUS
<1> QED BY <1>1, <1>2 DEF RelayList

\* Removing a row leaves a list of urls.
LEMMA WithoutType ==
  ASSUME NEW list \in Seq(Urls), NEW i \in DOMAIN list
  PROVE  Without(list, i) \in Seq(Urls)
<1>1. /\ Len(list) \in Nat /\ i \in 1..Len(list)
      /\ \A j \in 1..Len(list) : list[j] \in Urls
  BY LenProperties, ElementOfSeq
<1>2. SubSeq(list, 1, i - 1) \in Seq(Urls)
  BY <1>1, SubSeqProperties
<1>3. SubSeq(list, i + 1, Len(list)) \in Seq(Urls)
  BY <1>1, SubSeqProperties
<1> QED BY <1>2, <1>3, ConcatProperties DEF Without

-------------------------------------------------------------------------------
(* Saving the key.                                                           *)

\* What is left of the key file when save() has been asked to store a key: the old
\* file, or the new text, whole or in part.
LEMMA KeyWritten ==
  ASSUME TypeOK, KeyInv, NEW k \in Keys, NEW depth \in 0..faults,
         NEW name \in DOMAIN ReadBack, SaveKey(k, depth, name)
  PROVE  \/ /\ keyFile' = keyFile /\ harm' = harm \cup {"name"}
            /\ faults' = faults + 1 /\ faults' \in 0..Faults
         \/ \E upto \in 0..4 :
              /\ keyFile' = [upto |-> upto, of |-> k, depth |-> depth, name |-> name]
              /\ upto = 4 => /\ harm' = harm \ (IF depth = 0 THEN {"pad", "name"} ELSE {"name"})
                             /\ faults' = faults
              /\ upto < 4 => /\ harm' = harm \cup {"name"} \cup (IF upto = 2 THEN {"pad"} ELSE {})
                             /\ faults' = faults + 1 /\ faults' \in 0..Faults
<1>1. Faults \in Nat /\ faults \in 0..Faults
  BY SessionAssumption DEF KeyInv
<1>2. CASE WholeKey(k, depth, name)
  BY <1>2 DEF WholeKey
<1>3. CASE FailedKey(k, depth, name)
  <2>1. faults' = faults + 1 /\ faults' \in 0..Faults
    BY <1>1, <1>3 DEF FailedKey
  <2>2. CASE keyFile' = keyFile /\ harm' = harm \cup {"name"}
    BY <2>1, <2>2
  <2>3. ASSUME NEW upto \in 0..3,
               keyFile' = [upto |-> upto, of |-> k, depth |-> depth, name |-> name],
               harm' = harm \cup {"name"} \cup (IF upto = 2 THEN {"pad"} ELSE {})
        PROVE  \E u \in 0..4 :
                 /\ keyFile' = [upto |-> u, of |-> k, depth |-> depth, name |-> name]
                 /\ u = 4 => /\ harm' = harm \ (IF depth = 0 THEN {"pad", "name"} ELSE {"name"})
                             /\ faults' = faults
                 /\ u < 4 => /\ harm' = harm \cup {"name"} \cup (IF u = 2 THEN {"pad"} ELSE {})
                             /\ faults' = faults + 1 /\ faults' \in 0..Faults
    <3>1. upto \in 0..4 /\ upto < 4 /\ upto # 4
      OBVIOUS
    <3> QED BY <2>1, <2>3, <3>1
  <2> QED BY <1>3, <2>2, <2>3 DEF FailedKey
<1> QED BY <1>2, <1>3 DEF SaveKey

\* Saving the owner's key keeps what can be read the owner's, if what was there could
\* not be read or was the owner's already.
LEMMA KeySaved ==
  ASSUME TypeOK, KeyInv, NEW k \in Keys, NEW depth \in 0..faults,
         NEW name \in DOMAIN ReadBack, SaveKey(k, depth, name),
         owner' = k \/ "key" \in astray', named' = name \/ "name" \in astray',
         depth = 0 \/ "pad" \in harm,
         Identity(keyFile) # NoId => Identity(keyFile).of = owner' \/ "key" \in astray'
  PROVE  /\ KeyInv' /\ keyFile' \in KeyFile \cup {Absent} /\ harm' \subseteq {"pad", "name"}
         /\ Identity(keyFile') # NoId => Identity(keyFile').of = k \/ keyFile' = keyFile
<1>1. /\ Faults \in Nat /\ faults \in 0..Faults /\ harm \subseteq {"pad", "name"}
      /\ keyFile \in KeyFile \cup {Absent}
  BY SessionAssumption DEF KeyInv, SaveKey, TypeOK
<1>2. CASE /\ keyFile' = keyFile /\ harm' = harm \cup {"name"}
           /\ faults' = faults + 1 /\ faults' \in 0..Faults
  <2>1. Identity(keyFile').depth = Identity(keyFile).depth /\ Identity(keyFile)' = Identity(keyFile')
    BY <1>2
  <2>2. keyFile # Absent => Identity(keyFile').depth \in 0..faults'
    BY <1>1, <1>2 DEF KeyInv
  <2>3. Identity(keyFile') # NoId => "name" \in harm'
            /\ (Identity(keyFile').of = owner' \/ "key" \in astray')
            /\ (Identity(keyFile').depth = 0 \/ "pad" \in harm')
    BY <1>2 DEF KeyInv
  <2> QED BY <1>1, <1>2, <2>2, <2>3 DEF KeyInv
<1>3. ASSUME NEW upto \in 0..4,
             keyFile' = [upto |-> upto, of |-> k, depth |-> depth, name |-> name],
             upto = 4 => /\ harm' = harm \ (IF depth = 0 THEN {"pad", "name"} ELSE {"name"})
                         /\ faults' = faults,
             upto < 4 => /\ harm' = harm \cup {"name"} \cup (IF upto = 2 THEN {"pad"} ELSE {})
                         /\ faults' = faults + 1 /\ faults' \in 0..Faults
      PROVE  /\ KeyInv' /\ keyFile' \in KeyFile
             /\ harm' \subseteq {"pad", "name"}
             /\ Identity(keyFile') # NoId => Identity(keyFile').of = k
  <2>1. faults' \in 0..Faults /\ faults <= faults' /\ harm' \subseteq {"pad", "name"}
    <3>1. CASE upto = 4
      <4>1. faults' = faults /\ harm' = harm \ (IF depth = 0 THEN {"pad", "name"} ELSE {"name"})
        BY <1>3, <3>1
      <4>2. harm' \subseteq harm
        BY <4>1
      <4> QED BY <1>1, <4>1, <4>2
    <3>2. CASE upto < 4
      <4>1. faults' = faults + 1 /\ faults' \in 0..Faults
        BY <1>3, <3>2
      <4>2. harm' = harm \cup {"name"} \cup (IF upto = 2 THEN {"pad"} ELSE {})
        BY <1>3, <3>2
      <4>3. harm' \subseteq {"pad", "name"}
        BY <1>1, <4>2
      <4> QED BY <1>1, <4>1, <4>3
    <3> QED BY <3>1, <3>2
  <2>2. keyFile' \in KeyFile
    BY <1>1, <1>3 DEF KeyFile
  <2>3. keyFile'.upto = upto /\ keyFile'.depth = depth /\ keyFile'.of = k /\ keyFile'.name = name
    BY <1>3
  <2>4. depth \in Nat /\ depth <= faults /\ depth <= faults'
    BY <1>1, <2>1
  <2>5. CASE keyFile' = Absent \/ upto < 2
    <3>1. Identity(keyFile') = NoId /\ NoId.depth = 0
      BY <2>2, <2>3, <2>5, IdentityRead DEF NoId
    <3> QED BY <2>1, <2>2, <2>3, <2>4, <3>1 DEF KeyInv
  <2>6. CASE keyFile' # Absent /\ ~(upto < 2)
    <3>1. Identity(keyFile').of = k
      BY <2>3, <2>6 DEF Identity
    <3>2. Identity(keyFile').depth = IF upto >= 3 THEN depth ELSE depth + 1
      BY <2>3, <2>6 DEF Identity
    <3>3. Identity(keyFile').name = IF upto = 4 THEN ReadBack[name] ELSE ""
      BY <2>3, <2>6 DEF Identity
    <3>4. Identity(keyFile').depth = 0 \/ "pad" \in harm'
      <4>1. CASE upto = 2
        <5>1. harm' = harm \cup {"name"} \cup {"pad"}
          BY <1>3, <4>1
        <5> QED BY <5>1
      <4>2. CASE upto # 2 /\ depth = 0
        BY <2>6, <3>2, <4>2
      <4>3. CASE upto # 2 /\ depth # 0
        <5>1. "pad" \in harm
          BY <4>3
        <5>2. CASE upto = 4
          <6>1. harm' = harm \ {"name"}
            BY <1>3, <4>3, <5>2
          <6> QED BY <5>1, <6>1
        <5>3. CASE upto < 4
          <6>1. harm \subseteq harm'
            BY <1>3, <5>3
          <6> QED BY <5>1, <6>1
        <5> QED BY <5>2, <5>3
      <4> QED BY <4>1, <4>2, <4>3
    <3>5. Identity(keyFile').name = ReadBack[named'] \/ "name" \in harm' \cup astray'
      <4>1. CASE upto = 4
        BY <1>1, <3>3, <4>1
      <4>2. CASE upto < 4
        <5>1. {"name"} \subseteq harm'
          BY <1>3, <4>2
        <5> QED BY <5>1
      <4> QED BY <4>1, <4>2
    <3>6. Identity(keyFile').depth \in 0..faults'
      <4>1. CASE upto = 2
        <5>1. faults' = faults + 1
          BY <1>3, <4>1
        <5> QED BY <1>1, <2>4, <3>2, <4>1, <5>1
      <4>2. CASE upto # 2
        BY <2>4, <2>6, <3>2, <4>2
      <4> QED BY <4>1, <4>2
    <3> QED BY <2>1, <2>2, <2>3, <2>4, <3>1, <3>4, <3>5, <3>6 DEF KeyInv
  <2> QED BY <2>1, <2>2, <2>5, <2>6
<1> QED BY <1>1, <1>2, <1>3, KeyWritten

-------------------------------------------------------------------------------
(* One step of each kind.                                                    *)

\* What a handler that leaves the key file alone leaves of the invariant.
LEMMA KeyKept ==
  ASSUME KeyInv, UNCHANGED keyVars, faults' \in {faults, faults + 1}, faults' \in 0..Faults,
         {"key", "name"} \cap astray \subseteq astray'
  PROVE  KeyInv'
<1>1. Faults \in Nat /\ faults \in 0..Faults
  BY SessionAssumption DEF KeyInv
<1>2. Identity(keyFile') = Identity(keyFile) /\ keyFile' = keyFile /\ owner' = owner
      /\ harm' = harm /\ named' = named
  BY DEF keyVars
<1>3. keyFile # Absent => Identity(keyFile).depth \in 0..faults'
  BY <1>1 DEF KeyInv
<1> QED BY <1>2, <1>3 DEF KeyInv

\* The end of init_session: who is shown is whom the file names, or who was shown.
LEMMA SessionShown ==
  ASSUME TypeOK, KeyInv', keyFile' \in KeyFile \cup {Absent}, NEW shown \in Keys \cup {NoKey},
         InitSession(Identity(keyFile'), shown),
         Identity(keyFile') # NoId \/ shown = owner' \/ "key" \in astray'
  PROVE  /\ page' = "main" /\ backup' = FALSE /\ relay' \in Urls \cup {NoUrl}
         /\ pub' \in Keys \cup {NoKey} /\ ShownKey'
<1>1. Stored \in Seq(Urls)
  BY ListRead DEF TypeOK, Stored
<1>2. relay' \in Urls \cup {NoUrl}
  BY <1>1, HeadTailProperties DEF InitSession, Dial, TypeOK
<1>3. CASE Identity(keyFile') # NoId
  <2>1. /\ Identity(keyFile').of = owner' \/ "key" \in astray'
        /\ pub' = Identity(keyFile').of
    BY <1>3 DEF InitSession, KeyInv
  <2>2. Identity(keyFile').of \in Keys
    BY <1>3, IdentityRead
  <2> QED BY <1>2, <2>1, <2>2 DEF InitSession, ShownKey
<1>4. CASE Identity(keyFile') = NoId
  BY <1>2, <1>4 DEF InitSession, ShownKey
<1> QED BY <1>3, <1>4

\* A key, or the one shown to be backed up, is saved: from the newest window, where there
\* was nothing to read, or from an older one.
LEMMA LoginSaves ==
  ASSUME IInv, NEW k \in Keys, SaveKey(k, 0, NameFor(k)), named' = NameFor(k),
         (page = "login" /\ owner' = k) \/ "key" \in astray'
  PROVE  /\ KeyInv' /\ keyFile' \in KeyFile \cup {Absent}
         /\ named' \in DOMAIN ReadBack /\ harm' \subseteq {"pad", "name"}
<1>1. NameFor(k) \in DOMAIN ReadBack
  BY IdentityRead, NamesRead DEF NameFor, IInv, TypeOK
<1>2. 0 \in 0..faults
  <2>1. faults \in 0..Faults /\ Faults \in Nat
    BY SessionAssumption DEF IInv, KeyInv
  <2> QED BY <2>1
<1>3. page = "login" => Identity(keyFile) = NoId
  BY DEF IInv, PageInv
<1> QED BY <1>1, <1>2, <1>3, KeySaved DEF IInv

\* The window in which the user logs in is the one that shows the main pages then.
LEMMA LoginShown ==
  ASSUME IInv, KeyInv', keyFile' \in KeyFile \cup {Absent}, named' \in DOMAIN ReadBack,
         harm' \subseteq {"pad", "name"}, NEW shown \in Keys \cup {NoKey},
         InitSession(Identity(keyFile'), shown), shown = owner' \/ "key" \in astray',
         owner' \in Keys, astray' \subseteq {"key"}, offered' \in Keys, page # "down",
         UNCHANGED <<entry, listFile, urlFile, rows, edited, older>>
  PROVE  IInv'
<1>1. /\ page' = "main" /\ backup' = FALSE /\ relay' \in Urls \cup {NoUrl}
      /\ pub' \in Keys \cup {NoKey} /\ ShownKey'
  BY SessionShown DEF IInv
<1>2. TypeOK'
  BY <1>1 DEF IInv, TypeOK
<1>3. PageInv'
  BY <1>1, SessionAssumption DEF PageInv
<1>4. RowInv'
  <2> QED BY <1>1 DEF IInv, RowInv, Fit, Stored
<1> QED BY <1>2, <1>3, <1>4 DEF IInv

-------------------------------------------------------------------------------
(* The invariant is inductive.                                               *)

\* Before the first start nothing is stored and nobody is logged in.
LEMMA InitIInv == Init => IInv
<1> SUFFICES ASSUME Init PROVE IInv
  OBVIOUS
<1>1. TypeOK
  <2>1. "" \in DOMAIN ReadBack
    BY NamesRead
  <2>2. <<>> \in Seq(Urls) /\ <<>> \in Seq(Window)
    OBVIOUS
  <2> QED BY <2>1, <2>2 DEF Init, TypeOK
<1>2. Identity(keyFile) = NoId
  BY DEF Init, Identity
<1>3. KeyInv
  <2>1. Faults \in Nat
    BY SessionAssumption
  <2>2. faults = 0 /\ keyFile = Absent
    BY DEF Init
  <2>3. faults \in 0..Faults
    BY <2>1, <2>2
  <2> QED BY <1>2, <2>2, <2>3 DEF KeyInv
<1>4. PageInv
  <2>1. /\ page = "down" /\ backup = FALSE /\ older = <<>> /\ keyFile = Absent
        /\ Identity(keyFile) = NoId
    BY <1>2 DEF Init
  <2>2. DOMAIN older = {}
    BY <2>1
  <2> QED BY <2>1, <2>2 DEF PageInv, ShownKey, LoggedIn
<1>5. RowInv
  <2>1. page = "down" /\ rows = <<>> /\ older = <<>>
    BY DEF Init
  <2>2. DOMAIN older = {}
    BY <2>1
  <2> QED BY <2>1, <2>2 DEF RowInv
<1> QED BY <1>1, <1>3, <1>4, <1>5 DEF IInv

\* A key offered on a login page touches no file.
LEMMA GenerateStep == ASSUME IInv, NEW k \in Keys, Generate(k) PROVE IInv'
<1> USE DEF Generate, keyVars, listVars
<1>1. faults' = faults /\ faults \in 0..Faults /\ UNCHANGED keyVars /\ astray \subseteq astray'
  BY DEF IInv, KeyInv
<1>2. KeyInv'
  BY <1>1, KeyKept DEF IInv
<1>3. TypeOK'
  BY SessionAssumption DEF IInv, TypeOK
<1>4. PageInv'
  <2>1. LoggedIn' <=> LoggedIn
    BY DEF LoggedIn, OnMain
  <2>2. ShownKey'
    BY <2>1 DEF ShownKey
  <2> QED BY <2>2, SessionAssumption DEF IInv, PageInv
<1>5. RowInv'
  BY DEF IInv, RowInv, Fit, Stored
<1> QED BY <1>2, <1>3, <1>4, <1>5 DEF IInv

\* The key backed up is the one saved and shown.
LEMMA BackupDoneStep == ASSUME IInv, BackupDone PROVE IInv'
<1> USE DEF BackupDone
<1>1. offered \in Keys /\ owner' = offered /\ pub = offered /\ page = "login" /\ astray' = {}
  BY DEF IInv, TypeOK, PageInv
<1>2. /\ KeyInv' /\ keyFile' \in KeyFile \cup {Absent}
      /\ named' \in DOMAIN ReadBack /\ harm' \subseteq {"pad", "name"}
  BY <1>1, LoginSaves
<1> QED BY <1>1, <1>2, LoginShown

\* From an older window the key generated last is saved, whatever the window shows.
LEMMA BackupDoneOlderStep ==
  ASSUME IInv, NEW w \in DOMAIN older, BackupDoneOlder(w) PROVE IInv'
<1> USE DEF BackupDoneOlder
<1>1. /\ offered \in Keys /\ older[w].key \in Keys /\ pub \in Keys \cup {NoKey}
      /\ owner' \in Keys /\ astray' = {"key"} /\ page # "down"
  <2>1. older[w] \in Window
    BY DEF IInv, TypeOK
  <2> QED BY <2>1 DEF IInv, TypeOK, PageInv, Window
<1>2. /\ KeyInv' /\ keyFile' \in KeyFile \cup {Absent}
      /\ named' \in DOMAIN ReadBack /\ harm' \subseteq {"pad", "name"}
  BY <1>1, LoginSaves
<1> QED BY <1>1, <1>2, LoginShown

\* Pasting a key changes nothing but the entry.
LEMMA PasteStep == ASSUME IInv, NEW k \in Keys, Paste(k) PROVE IInv'
<1> USE DEF Paste, keyVars, listVars
<1>1. KeyInv'
  BY KeyKept DEF IInv, KeyInv
<1>2. TypeOK'
  BY DEF IInv, TypeOK
<1>3. PageInv'
  BY DEF IInv, PageInv, ShownKey, LoggedIn, OnMain
<1>4. RowInv'
  BY DEF IInv, RowInv, Fit, Stored
<1> QED BY <1>1, <1>2, <1>3, <1>4 DEF IInv

\* The key pasted in is the one saved and shown; from an older window, the one pasted
\* into the newest.
LEMMA LoginStep ==
  ASSUME IInv, Login \/ \E w \in DOMAIN older, k \in Keys : LoginOlder(w, k) PROVE IInv'
<1>1. /\ LoginPasted /\ astray' \subseteq {"key"} /\ entry \in Keys /\ owner' \in Keys
      /\ (page = "login" /\ owner' = entry) \/ "key" \in astray'
      /\ page # "down"
  BY DEF Login, LoginOlder, LoginPasted, IInv, TypeOK, PageInv
<1>2. /\ KeyInv' /\ keyFile' \in KeyFile \cup {Absent}
      /\ named' \in DOMAIN ReadBack /\ harm' \subseteq {"pad", "name"}
  BY <1>1, LoginSaves DEF LoginPasted
<1>3. /\ InitSession(Identity(keyFile'), entry) /\ offered' \in Keys
      /\ UNCHANGED <<entry, listFile, urlFile, rows, edited, older>>
  BY <1>1 DEF LoginPasted
<1> QED BY <1>1, <1>2, <1>3, LoginShown

\* Saving a name writes the secret back as it was read, masked or not.
LEMMA SaveNameStep ==
  ASSUME IInv, NEW name \in Names, SaveName(name), named' \in Names,
         named' = name \/ "name" \in astray',
         astray' \subseteq astray \cup {"name"}, astray \subseteq astray' \cup {"name"}
  PROVE  IInv'
<1> DEFINE id == Identity(keyFile)
<1> USE DEF authVars, listVars
<1>1. /\ id # NoId /\ id.of \in Keys /\ owner' = owner /\ page = "main"
      /\ id.of = owner \/ "key" \in astray'
      /\ id.depth = 0 \/ "pad" \in harm
  BY IdentityRead DEF SaveName, IInv, TypeOK, KeyInv
<1>2. id.depth \in 0..faults
  BY <1>1, IdentityRead DEF IInv, TypeOK, KeyInv
<1>3. name \in DOMAIN ReadBack /\ named' \in DOMAIN ReadBack
  BY NamesRead
<1>4. SaveKey(id.of, id.depth, name)
  BY DEF SaveName
<1> HIDE DEF id
<1>5. /\ KeyInv' /\ keyFile' \in KeyFile \cup {Absent} /\ harm' \subseteq {"pad", "name"}
      /\ Identity(keyFile') # NoId => Identity(keyFile').of = id.of \/ keyFile' = keyFile
  BY <1>1, <1>2, <1>3, <1>4, KeySaved DEF IInv, id
<1>6. TypeOK'
  BY <1>1, <1>3, <1>5 DEF SaveName, IInv, TypeOK
<1>7. PageInv'
  <2>1. LoggedIn /\ ("shown" \in astray' <=> "shown" \in astray)
    BY <1>1 DEF LoggedIn
  <2>2. Identity(keyFile') # NoId => Identity(keyFile').of = id.of
    BY <1>5 DEF id
  <2>3. "key" \in astray => "key" \in astray'
    OBVIOUS
  <2>4. pub' = pub /\ page' = page /\ older' = older /\ backup' = backup /\ offered' = offered
    BY DEF SaveName
  <2>5. ShownKey'
    BY <1>1, <2>1, <2>2, <2>3, <2>4 DEF IInv, PageInv, ShownKey, id
  <2> QED BY <1>1, <2>4, <2>5 DEF IInv, PageInv
<1>8. RowInv'
  BY DEF SaveName, IInv, RowInv, Fit, Stored
<1> QED BY <1>5, <1>6, <1>7, <1>8 DEF IInv

\* In whatever window the button is.
LEMMA SetDisplayNameStep ==
  ASSUME IInv,
         \/ \E name \in Names : SetDisplayName(name)
         \/ \E w \in DOMAIN older, typed, name \in Names : SetDisplayNameOlder(w, typed, name)
  PROVE  IInv'
<1>1. ASSUME NEW name \in Names, SetDisplayName(name)
      PROVE  IInv'
  BY <1>1, SaveNameStep DEF SetDisplayName
<1>2. ASSUME NEW w \in DOMAIN older, NEW typed \in Names, NEW name \in Names,
             SetDisplayNameOlder(w, typed, name)
      PROVE  IInv'
  BY <1>2, SaveNameStep DEF SetDisplayNameOlder
<1> QED BY <1>1, <1>2

\* A save of the list leaves a list, or a file that does not parse, and its fault.
LEMMA ListSaved ==
  ASSUME IInv, NEW list \in Seq(Urls), Save(listFile, list)
  PROVE  /\ listFile' \in {Absent, Cut} \/ listFile' \in Seq(Urls)
         /\ faults' \in {faults, faults + 1} /\ faults' \in 0..Faults
<1>1. Faults \in Nat /\ faults \in 0..Faults
  BY SessionAssumption DEF IInv, KeyInv
<1> QED BY <1>1 DEF Save, IInv, TypeOK

\* A save of the default url leaves a url, or a file that does not parse.
LEMMA UrlSaved ==
  ASSUME IInv, NEW u \in Urls \cup {NoUrl}, Save(urlFile, u)
  PROVE  /\ urlFile' \in Urls \cup {NoUrl, Absent, Cut}
         /\ faults' \in {faults, faults + 1} /\ faults' \in 0..Faults
<1>1. Faults \in Nat /\ faults \in 0..Faults
  BY SessionAssumption DEF IInv, KeyInv
<1> QED BY <1>1 DEF Save, IInv, TypeOK

\* Windows that miss a change are windows.
LEMMA MissTypes ==
  ASSUME older \in Seq(Window), Miss
  PROVE  /\ older' \in Seq(Window) /\ DOMAIN older' = DOMAIN older
         /\ \A w \in DOMAIN older :
              /\ older'[w].page = older[w].page /\ older'[w].key = older[w].key
              /\ older'[w].missed
<1>1. \A w \in DOMAIN older : older[w] \in Window
  OBVIOUS
<1>2. \A w \in DOMAIN older : [older[w] EXCEPT !.missed = TRUE] \in Window
  BY <1>1 DEF Window
<1>3. /\ older' = [w \in DOMAIN older |-> [older[w] EXCEPT !.missed = TRUE]]
      /\ DOMAIN older = 1..Len(older) /\ Len(older) \in Nat
  BY DEF Miss
<1>4. older' \in Seq(Window)
  BY <1>2, <1>3
<1> QED BY <1>1, <1>3, <1>4 DEF Window

\* So are windows whose default url is outdated.
LEMMA OutdateTypes ==
  ASSUME older \in Seq(Window), NEW changed \in BOOLEAN, Outdate(changed)
  PROVE  /\ older' \in Seq(Window) /\ DOMAIN older' = DOMAIN older
         /\ \A w \in DOMAIN older :
              /\ older'[w].page = older[w].page /\ older'[w].key = older[w].key
              /\ older'[w].rows = older[w].rows /\ older'[w].missed = older[w].missed
              /\ older'[w].edited <=> (older[w].edited \/ changed)
<1>1. \A w \in DOMAIN older : older[w] \in Window
  OBVIOUS
<1>2. \A w \in DOMAIN older : [older[w] EXCEPT !.edited = @ \/ changed] \in Window
  BY <1>1 DEF Window
<1>3. /\ older' = [w \in DOMAIN older |-> [older[w] EXCEPT !.edited = @ \/ changed]]
      /\ DOMAIN older = 1..Len(older) /\ Len(older) \in Nat
  BY DEF Outdate
<1>4. older' \in Seq(Window)
  BY <1>2, <1>3
<1> QED BY <1>1, <1>3, <1>4 DEF Window

\* Nobody logs in or out on the settings page, of whatever window.
LEMMA PagesKept ==
  ASSUME IInv, DOMAIN older' = DOMAIN older,
         \A w \in DOMAIN older :
           older'[w].page = older[w].page /\ older'[w].key = older[w].key,
         UNCHANGED <<authVars, keyVars, astray>>, page # "down"
  PROVE  PageInv'
<1>1. LoggedIn' <=> LoggedIn
  BY DEF LoggedIn, OnMain, authVars
<1>2. ShownKey'
  BY <1>1 DEF IInv, PageInv, ShownKey, authVars, keyVars
<1> QED BY <1>2 DEF IInv, PageInv, authVars, keyVars

\* The newest window draws the list that a save has left, whatever it has left.
LEMMA ListDrawn ==
  ASSUME IInv, NEW list \in Seq(Urls), Save(listFile, list),
         Draw(RelayList(listFile', urlFile)), Miss, page # "down",
         UNCHANGED <<authVars, keyVars, astray, urlFile, relay>>
  PROVE  IInv'
<1> USE DEF Draw
<1>1. /\ listFile' \in {Absent, Cut} \/ listFile' \in Seq(Urls)
      /\ faults' \in {faults, faults + 1} /\ faults' \in 0..Faults
  BY ListSaved
<1>2. rows' \in Seq(Urls)
  BY <1>1, ListRead DEF IInv, TypeOK
<1>3. /\ older' \in Seq(Window) /\ DOMAIN older' = DOMAIN older
      /\ \A w \in DOMAIN older :
           /\ older'[w].page = older[w].page /\ older'[w].key = older[w].key
           /\ older'[w].missed
  BY MissTypes DEF IInv, TypeOK
<1>4. KeyInv'
  BY <1>1, KeyKept DEF IInv
<1>5. TypeOK'
  BY <1>1, <1>2, <1>3 DEF IInv, TypeOK, authVars, keyVars
<1>6. PageInv'
  BY <1>3, PagesKept
<1>7. RowInv'
  <2>1. rows' = Stored' /\ page' # "down"
    BY DEF Stored, authVars
  <2> QED BY <1>3, <2>1 DEF RowInv, Fit
<1> QED BY <1>4, <1>5, <1>6, <1>7 DEF IInv

\* Adding a relay draws the rows from what the save left.
LEMMA AddRelayStep == ASSUME IInv, NEW u \in Urls, AddRelay(u) PROVE IInv'
<1>1. Append(Stored, u) \in Seq(Urls)
  <2>1. Stored \in Seq(Urls)
    BY ListRead DEF IInv, TypeOK, Stored
  <2> QED BY <2>1, AppendProperties
<1> QED BY <1>1, ListDrawn DEF AddRelay

\* Who clicks a row has a window.
LEMMA ClickedUp == ASSUME IInv, NEW i, Click(i) PROVE page # "down" /\ i \in DOMAIN Stored
BY DEF IInv, PageInv, Click

\* Removing a row draws the rows again, so that their indices fit.
LEMMA RemoveRelayStep == ASSUME IInv, NEW i, RemoveRelay(i) PROVE IInv'
<1>1. i \in DOMAIN Stored /\ page # "down"
  BY ClickedUp DEF RemoveRelay
<1>2. Without(Stored, i) \in Seq(Urls)
  <2>1. Stored \in Seq(Urls)
    BY ListRead DEF IInv, TypeOK, Stored
  <2> QED BY <1>1, <2>1, WithoutType
<1> QED BY <1>1, <1>2, ListDrawn DEF RemoveRelay

\* Where the default url changes, the rows may be made of the old one while no list is
\* saved; that is remembered until they are drawn.
LEMMA UrlChanged ==
  ASSUME IInv, NEW u \in Urls \cup {NoUrl}, Save(urlFile, u), page # "down",
         NEW changed \in BOOLEAN, ~changed => urlFile' = urlFile,
         edited' \in BOOLEAN, edited' <=> edited \/ changed, Outdate(changed),
         relay' \in Urls \cup {NoUrl},
         UNCHANGED <<authVars, keyVars, astray, listFile, rows>>
  PROVE  IInv'
<1>1. /\ urlFile' \in Urls \cup {NoUrl, Absent, Cut}
      /\ faults' \in {faults, faults + 1} /\ faults' \in 0..Faults
  BY UrlSaved
<1>2. /\ older' \in Seq(Window) /\ DOMAIN older' = DOMAIN older
      /\ \A w \in DOMAIN older :
           /\ older'[w].page = older[w].page /\ older'[w].key = older[w].key
           /\ older'[w].rows = older[w].rows /\ older'[w].missed = older[w].missed
           /\ older'[w].edited <=> (older[w].edited \/ changed)
  BY OutdateTypes DEF IInv, TypeOK
<1>3. KeyInv'
  BY <1>1, KeyKept DEF IInv
<1>4. TypeOK'
  BY <1>1, <1>2 DEF IInv, TypeOK, authVars, keyVars
<1>5. PageInv'
  BY <1>2, PagesKept
<1>6. Stored' = Stored \/ (changed /\ listFile = Absent)
  BY DEF Stored, RelayList
<1>7. page' # "down" /\ listFile' = listFile /\ rows' = rows
  BY DEF authVars
<1>8. RowInv'
  BY <1>2, <1>6, <1>7 DEF IInv, RowInv, Fit
<1> QED BY <1>3, <1>4, <1>5, <1>8 DEF IInv

\* Connecting changes the url only.
LEMMA ConnectRowStep == ASSUME IInv, NEW i, ConnectRow(i) PROVE IInv'
<1> DEFINE changed == urlFile' # urlFile
<1>1. Stored[i] \in Urls /\ page # "down"
  <2>1. Stored \in Seq(Urls) /\ i \in DOMAIN Stored
    BY ListRead, ClickedUp DEF IInv, TypeOK, Stored, ConnectRow
  <2>2. page # "down"
    BY ClickedUp DEF ConnectRow
  <2> QED BY <2>1, <2>2, ElementOfSeq, LenProperties
<1>2. /\ Save(urlFile, Stored[i]) /\ relay' = Stored[i]
      /\ edited' = (edited \/ changed) /\ Outdate(changed)
      /\ UNCHANGED <<authVars, keyVars, astray, listFile, rows>>
  BY DEF ConnectRow
<1>3. changed \in BOOLEAN /\ (~changed => urlFile' = urlFile)
  OBVIOUS
<1>4. edited' \in BOOLEAN /\ (edited' <=> edited \/ changed)
  BY <1>2
<1> HIDE DEF changed
<1> QED BY <1>1, <1>2, <1>3, <1>4, UrlChanged

\* So does editing the default url.
LEMMA EditUrlStep == ASSUME IInv, NEW u \in Urls \cup {NoUrl}, EditUrl(u) PROVE IInv'
<1>1. page # "down"
  BY DEF EditUrl, LoggedIn, OnMain, IInv, PageInv
<1>2. Save(urlFile, u) /\ edited' = TRUE /\ Outdate(TRUE) /\ relay' \in Urls \cup {NoUrl}
  BY DEF EditUrl, IInv, TypeOK
<1> QED BY <1>1, <1>2, UrlChanged DEF EditUrl

\* Building a window, whatever was shown before: of the files nothing changes.
LEMMA BuildUiStep ==
  ASSUME IInv, NEW shown \in Keys \cup {NoKey}, BuildUi(shown), older' \in Seq(Window),
         LoggedIn' /\ page' = "login" => LoggedIn /\ shown = pub,
         \A w \in DOMAIN older' : older'[w].key # NoKey => offered # NoKey,
         \A w \in DOMAIN older' :
           older'[w].missed \/ Fit(older'[w].rows, older'[w].edited)
  PROVE  IInv'
<1> USE DEF BuildUi, Draw
<1>1. /\ faults' = faults /\ faults \in 0..Faults /\ UNCHANGED keyVars
      /\ {"key", "name"} \cap astray \subseteq astray'
  BY DEF IInv, KeyInv
<1>2. KeyInv'
  BY <1>1, KeyKept DEF IInv
<1>3. /\ keyFile' = keyFile /\ keyFile' \in KeyFile \cup {Absent} /\ owner' = owner
      /\ offered' = offered
  BY DEF IInv, TypeOK, keyVars
<1>4. rows' \in Seq(Urls) /\ edited' = FALSE /\ entry' = NoKey
  BY ListRead DEF IInv, TypeOK, Stored
<1>5. page' # "down" /\ Stored' = Stored /\ rows' = Stored /\ listFile' = listFile
  BY DEF InitSession, Stored
<1>6. RowInv'
  BY <1>5 DEF RowInv, Fit
<1>7. CASE Identity(keyFile) = NoId
  <2>1. page' = "login" /\ backup' = FALSE /\ pub' = shown /\ relay' = relay /\ astray' = astray
    BY <1>7
  <2>2. TypeOK'
    BY <1>3, <1>4, <2>1 DEF IInv, TypeOK, keyVars
  <2>3. ShownKey'
    BY <1>3, <1>7, <2>1 DEF IInv, PageInv, ShownKey
  <2>4. PageInv'
    BY <1>3, <1>7, <2>1, <2>3 DEF PageInv
  <2> QED BY <1>2, <1>6, <2>2, <2>4 DEF IInv
<1>8. CASE Identity(keyFile) # NoId
  <2>1. /\ InitSession(Identity(keyFile'), shown) /\ Identity(keyFile') # NoId
        /\ astray' = astray \ {"shown"}
    BY <1>3, <1>8
  <2>2. /\ page' = "main" /\ backup' = FALSE /\ relay' \in Urls \cup {NoUrl}
        /\ pub' \in Keys \cup {NoKey} /\ ShownKey'
    BY <1>2, <1>3, <2>1, SessionShown DEF IInv
  <2>3. TypeOK'
    BY <1>3, <1>4, <2>1, <2>2 DEF IInv, TypeOK, keyVars
  <2>4. PageInv'
    BY <1>3, <2>2 DEF PageInv
  <2> QED BY <1>2, <1>6, <2>3, <2>4 DEF IInv
<1> QED BY <1>7, <1>8

\* A start reads what the last run left.
LEMMA StartStep == ASSUME IInv, Start PROVE IInv'
<1>1. BuildUi(NoKey) /\ older' = older /\ older = <<>> /\ <<>> \in Seq(Window)
  BY DEF Start, IInv, PageInv
<1>2. ~(LoggedIn' /\ page' = "login")
  BY <1>1 DEF LoggedIn, OnMain
<1> QED BY <1>1, <1>2, BuildUiStep

\* A second activation reads the files again; the window so far is one of the older ones.
LEMMA ActivateStep == ASSUME IInv, Activate PROVE IInv'
<1>1. /\ pub \in Keys \cup {NoKey} /\ BuildUi(pub) /\ older \in Seq(Window)
      /\ older' = Append(older, Newest) /\ page # "down"
  BY DEF Activate, IInv, TypeOK
<1>2. Newest \in Window
  <2>1. /\ page \in {"login", "main"} /\ rows \in Seq(Urls) /\ edited \in BOOLEAN
        /\ offered \in Keys \cup {NoKey}
    BY <1>1 DEF IInv, TypeOK
  <2>2. ASSUME NEW key \in Keys \cup {NoKey}
        PROVE  [page |-> page, key |-> key, rows |-> rows, edited |-> edited, missed |-> FALSE]
                 \in Window
    BY <2>1 DEF Window
  <2>3. (IF backup THEN offered ELSE NoKey) \in Keys \cup {NoKey}
    BY <2>1
  <2> QED BY <2>2, <2>3 DEF Newest
<1>3. /\ Newest.page = page /\ (Newest.key # NoKey => offered # NoKey)
      /\ Newest.rows = rows /\ Newest.edited = edited
  BY DEF Newest, IInv, TypeOK
<1>4. /\ older' \in Seq(Window) /\ Len(older) \in Nat /\ DOMAIN older = 1..Len(older)
      /\ DOMAIN older' = 1..(Len(older) + 1)
      /\ \A w \in DOMAIN older : older'[w] = older[w]
      /\ older'[Len(older) + 1] = Newest
  BY <1>1, <1>2
<1>5. \A w \in DOMAIN older' : w \in DOMAIN older \/ older'[w] = Newest
  BY <1>4
<1>6. LoggedIn' /\ page' = "login" => LoggedIn
  BY <1>3, <1>4, <1>5 DEF LoggedIn, OnMain
<1>7. \A w \in DOMAIN older' : older'[w].key # NoKey => offered # NoKey
  BY <1>3, <1>4, <1>5 DEF IInv, PageInv
<1>8. \A w \in DOMAIN older' : older'[w].missed \/ Fit(older'[w].rows, older'[w].edited)
  BY <1>1, <1>3, <1>4, <1>5 DEF IInv, RowInv
<1> QED BY <1>1, <1>4, <1>6, <1>7, <1>8, BuildUiStep

\* The end forgets what is on the screen and leaves the files.
LEMMA EndStep == ASSUME IInv, End PROVE IInv'
<1> USE DEF End
<1>1. /\ faults' = faults /\ faults \in 0..Faults /\ UNCHANGED keyVars
      /\ {"key", "name"} \cap astray \subseteq astray'
  BY DEF IInv, KeyInv
<1>2. KeyInv'
  BY <1>1, KeyKept DEF IInv
<1>3. TypeOK'
  <2>1. <<>> \in Seq(Urls) /\ <<>> \in Seq(Window)
    OBVIOUS
  <2> QED BY <2>1 DEF IInv, TypeOK, keyVars
<1>4. PageInv'
  BY DEF PageInv, ShownKey, LoggedIn, OnMain
<1>5. RowInv'
  BY DEF RowInv
<1> QED BY <1>2, <1>3, <1>4, <1>5 DEF IInv

\* A step of nothing.
LEMMA StutterStep == ASSUME IInv, UNCHANGED vars PROVE IInv'
<1> USE DEF vars, authVars, keyVars, listVars
<1>1. TypeOK'
  BY DEF IInv, TypeOK
<1>2. KeyInv'
  BY DEF IInv, KeyInv
<1>3. PageInv'
  BY DEF IInv, PageInv, ShownKey, LoggedIn, OnMain
<1>4. RowInv'
  BY DEF IInv, RowInv, Fit, Stored
<1> QED BY <1>1, <1>2, <1>3, <1>4 DEF IInv

\* Every handler preserves it.
LEMMA NextIInv == IInv /\ [Next]_vars => IInv'
<1> SUFFICES ASSUME IInv, [Next]_vars PROVE IInv'
  OBVIOUS
<1>1. CASE \E k \in Keys : Generate(k) \/ Paste(k)
  BY <1>1, GenerateStep, PasteStep
<1>2. CASE BackupDone \/ \E w \in DOMAIN older : BackupDoneOlder(w)
  BY <1>2, BackupDoneStep, BackupDoneOlderStep
<1>3. CASE Login \/ \E w \in DOMAIN older, k \in Keys : LoginOlder(w, k)
  BY <1>3, LoginStep
<1>4. CASE \/ \E name \in Names : SetDisplayName(name)
           \/ \E w \in DOMAIN older, typed, name \in Names : SetDisplayNameOlder(w, typed, name)
  BY <1>4, SetDisplayNameStep
<1>5. CASE \E u \in Urls : AddRelay(u)
  BY <1>5, AddRelayStep
<1>6. CASE \E i \in DOMAIN Stored : RemoveRelay(i) \/ ConnectRow(i)
  BY <1>6, RemoveRelayStep, ConnectRowStep
<1>7. CASE \E u \in Urls \cup {NoUrl} : EditUrl(u)
  BY <1>7, EditUrlStep
<1>8. CASE Start \/ Activate \/ End
  BY <1>8, StartStep, ActivateStep, EndStep
<1>9. CASE UNCHANGED vars
  BY <1>9, StutterStep
<1> QED BY <1>1, <1>2, <1>3, <1>4, <1>5, <1>6, <1>7, <1>8, <1>9 DEF Next

-------------------------------------------------------------------------------
(* The theorems.                                                             *)

\* The handlers of the login, profile and settings pages keep the invariant, whatever
\* saves fail and whenever the program ends.
THEOREM SessionInvariant == Spec => []IInv
BY InitIInv, NextIInv, PTL DEF Spec

\* Every variable keeps its type; in particular the key shown for backup exists.
THEOREM SessionTypeCorrect == Spec => []TypeOK
<1>1. IInv => TypeOK
  BY DEF IInv
<1> QED BY <1>1, SessionInvariant, PTL

\* While the user is logged in, in whatever windows, the file signs as the user, under the
\* name given last unless a save failed, and the key shown and subscribed with is the
\* user's: not the pair generated before, and not another account's.  The exceptions: what
\* was given in a window that was not the newest, and a pair generated beside a login.
THEOREM SignedIn == Spec => []SignedInAsOwner
<1>1. IInv => SignedInAsOwner
  BY DEF IInv, KeyInv, PageInv, SignedInAsOwner, FileIsUser
<1> QED BY <1>1, SessionInvariant, PTL

\* The buttons of a relay row act on the relay it shows, although they count in the
\* list of the file, unless the row is the default url of before an edit, or one of an
\* older window that has not drawn a change of the list.
THEOREM RowsAct == Spec => []RowActsOnShown
<1>1. IInv => RowActsOnShown
  <2>1. ActsOn(Stored) /\ ActsOn(<<>>)
    BY DEF ActsOn
  <2> QED BY <2>1 DEF IInv, RowInv, Fit, RowActsOnShown
<1> QED BY <1>1, SessionInvariant, PTL

===============================================================================
