--------------------------- MODULE AchievementsProofs ---------------------------
(***************************************************************************)
(* For any achievements, directories of definitions, imported files and     *)
(* numbers of launches and faults: the state is well typed, and what a scan *)
(* has saved as unlocked is kept unless one of the four named harms is done. *)
(***************************************************************************)
EXTENDS Achievements, TLAPS

-------------------------------------------------------------------------------
(* The inductive invariant.                                                  *)

Places == {"off", "none", "clear", "read", "fill", "loop", "lock", "scan", "open", "write",
           "sleep", "refresh", "idle", "export", "join"}

\* The parts of the type that steps of different kinds change.
PcType ==
  /\ pc \in [Threads -> Places]
  /\ pc["gui"] \notin {"none", "loop", "sleep"}
  /\ pc["scan"] \in {"none", "loop", "lock", "scan", "open", "write", "sleep"}
ListType == buf \in [Threads -> Lists] /\ {achievements, saved} \subseteq Lists
LoadType == todo \subseteq Ids /\ running \in BOOLEAN
DiskType == file \in Lists \cup {Unreadable} /\ exported \in Lists \cup {Unreadable}
EnvType == now \in 1..MaxTime /\ launches \in 0..Launches /\ faults \in 0..Faults
HistoryType == earned \in Lists /\ harm \subseteq Harms
Types == PcType /\ ListType /\ LoadType /\ DiskType /\ EnvType /\ HistoryType

\* The mutex is held for a scan and no scan goes on without it; there is a scan thread
\* only between start() and the end of the program.
LockInv ==
  /\ lock \in Threads \cup {"free"}
  /\ \A t \in Threads : lock = t => pc[t] \in {"scan", "open", "write"}
  /\ \A t \in Threads : pc[t] = "scan" => lock = t
  /\ pc["scan"] \in {"open", "write"} => lock = "scan"
  /\ pc["gui"] = "off" => pc["scan"] = "none"
  /\ pc["scan"] # "none" => running \/ pc["gui"] = "join"

\* A list holds everything a scan has saved, with the time it was unlocked first.
Keeps(list) == \A i \in DOMAIN earned : i \in DOMAIN list /\ list[i] = earned[i]

\* A load has the scanner to itself, and no import meets a save.
Apart ==
  /\ pc["gui"] \in {"read", "fill"} => pc["scan"] = "none"
  /\ ~(Importing /\ pc["scan"] = "write")

\* The file is complete, or has been truncated for what is about to be written.
InFile == IF Writing THEN file = Unreadable ELSE Keeps(Load(file))

\* What is about to be written: the list of a scan, or what an import has merged.
Saves(t) == lock = t /\ pc[t] \in {"open", "write"}
InBuffers ==
  /\ Importing => Keeps(buf["gui"])
  /\ \A t \in Threads : Saves(t) => buf[t] = achievements

\* The list in memory is complete, also while a second load is about to clear it.
Intact == Loaded \/ (pc["gui"] = "clear" /\ pc["scan"] # "none")
InMemory == Intact => Keeps(achievements)

\* A load finds everything in what the file held, and has appended it or is to.
InLoad ==
  pc["gui"] = "fill" =>
    /\ Keeps(saved)
    /\ \A i \in DOMAIN earned \ todo : i \in DOMAIN achievements /\ achievements[i] = earned[i]

\* Where everything is that has been saved, while nothing has endangered it.
KeepInv ==
  harm = {} =>
    /\ \A i \in DOMAIN earned : earned[i] > 0
    /\ Apart /\ InFile /\ InBuffers /\ InMemory /\ InLoad

IInv == Types /\ LockInv /\ KeepInv

-------------------------------------------------------------------------------
(* Lists.                                                                    *)

\* A list is a function from some of the ids to times.
LEMMA ListIs ==
  ASSUME NEW S \in SUBSET Ids, NEW f \in [S -> 0..MaxTime]
  PROVE  f \in Lists
BY DEF Lists

\* ... and every list is one over its own domain.
LEMMA ListHas ==
  ASSUME NEW f \in Lists
  PROVE  DOMAIN f \subseteq Ids /\ f \in [DOMAIN f -> 0..MaxTime]
<1>1. PICK S \in SUBSET Ids : f \in [S -> 0..MaxTime]
  BY DEF Lists
<1> QED BY <1>1

\* The empty list is one.
LEMMA NoListIs == NoList \in Lists
<1>1. {} \in SUBSET Ids /\ NoList \in [{} -> 0..MaxTime]
  BY DEF NoList
<1> QED BY <1>1, ListIs

\* What a thread that ends leaves behind is well typed.
LEMMA DiedTypes ==
  ASSUME Died
  PROVE  PcType' /\ ListType' /\ LoadType' /\ LockInv'
<1>1. PcType'
  BY DEF Died, PcType, Threads, Places
<1>2. ListType'
  BY NoListIs DEF Died, ListType
<1>3. LoadType' /\ LockInv'
  BY DEF Died, LoadType, LockInv, Threads
<1> QED BY <1>1, <1>2, <1>3

\* What an action leaves alone keeps its type.
LEMMA SameTypes ==
  /\ PcType /\ UNCHANGED pc => PcType'
  /\ ListType /\ UNCHANGED <<buf, achievements, saved>> => ListType'
  /\ LoadType /\ UNCHANGED <<todo, running>> => LoadType'
  /\ DiskType /\ UNCHANGED disk => DiskType'
  /\ EnvType /\ UNCHANGED env => EnvType'
  /\ HistoryType /\ UNCHANGED history => HistoryType'
<1>1. PcType /\ UNCHANGED pc => PcType'
  BY DEF PcType
<1>2. ListType /\ UNCHANGED <<buf, achievements, saved>> => ListType'
  BY DEF ListType
<1>3. LoadType /\ UNCHANGED <<todo, running>> => LoadType'
  BY DEF LoadType
<1>4. DiskType /\ UNCHANGED disk => DiskType'
  BY DEF disk, DiskType
<1>5. EnvType /\ UNCHANGED env => EnvType'
  BY DEF env, EnvType
<1>6. HistoryType /\ UNCHANGED history => HistoryType'
  BY DEF history, HistoryType
<1> QED BY <1>1, <1>2, <1>3, <1>4, <1>5, <1>6

\* The invariant is stronger than the type.
LEMMA TypesImply == IInv => TypeOK
<1> SUFFICES ASSUME IInv PROVE TypeOK
  OBVIOUS
<1>1. /\ pc["gui"] \in {"off", "clear", "read", "fill", "lock", "scan", "open", "write",
                        "refresh", "idle", "export", "join"}
      /\ pc["scan"] \in {"none", "loop", "lock", "scan", "open", "write", "sleep"}
  BY DEF IInv, Types, PcType, Threads, Places
<1>2. buf["gui"] \in Lists /\ buf["scan"] \in Lists
  BY DEF IInv, Types, ListType, Threads
<1> QED BY <1>1, <1>2 DEF IInv, Types, ListType, LoadType, DiskType, EnvType, HistoryType,
   LockInv, TypeOK

\* The invariant while nothing is endangered, unfolded.
LEMMA KeepFacts ==
  ASSUME IInv, harm = {}
  PROVE  (\A i \in DOMAIN earned : earned[i] > 0)
         /\ Apart /\ InFile /\ InBuffers /\ InMemory /\ InLoad
BY DEF IInv, KeepInv


\* A thread that ends leaves the file as it is: it is complete unless one of them was
\* writing.
LEMMA DiedKeep ==
  ASSUME IInv, Died, harm = {}, ~Writing, UNCHANGED <<file, earned>>
  PROVE  KeepInv'
<1>1. pc'["gui"] = "off" /\ pc'["scan"] = "none" /\ lock' = "free"
  BY DEF Died, Threads
<1>2. Keeps(Load(file))
  BY KeepFacts DEF InFile
<1>3. InFile'
  BY <1>1, <1>2 DEF InFile, Writing, Keeps, Threads
<1>4. Apart' /\ InBuffers' /\ InMemory' /\ InLoad'
  BY <1>1 DEF Apart, Importing, InBuffers, Saves, InMemory, Intact, Loaded, InLoad, Threads
<1>5. (\A i \in DOMAIN earned : earned[i] > 0)'
  BY KeepFacts
<1> QED BY <1>3, <1>4, <1>5 DEF KeepInv

\* init_session starts a load; a second one meets a scan thread only as a named harm.
LEMMA InitSessionKeeps == ASSUME IInv, InitSession PROVE IInv'
<1>1. Types'
  <2>1. PcType'
    BY DEF InitSession, IInv, Types, PcType, Threads, Places, Goto
  <2>2. EnvType'
    BY AchievementsAssumption DEF InitSession, IInv, Types, EnvType
  <2> QED BY <2>1, <2>2, SameTypes DEF InitSession, IInv, Types
<1>2. LockInv'
  BY DEF InitSession, IInv, LockInv, Goto
<1>3. KeepInv'
  <2> SUFFICES ASSUME harm' = {}
               PROVE  /\ (\A k \in DOMAIN earned : earned[k] > 0)'
                      /\ Apart' /\ InFile' /\ InBuffers' /\ InMemory' /\ InLoad'
    BY DEF KeepInv
  <2>0. harm = {}
    BY DEF InitSession, history
  <2>1. (\A k \in DOMAIN earned : earned[k] > 0)'
    BY KeepFacts DEF InitSession, history
  <2>2. Apart'
    BY DEF InitSession, Goto, Apart, Importing
  <2>3. InFile'
    BY KeepFacts DEF InitSession, Goto, disk, history, InFile, Writing, Keeps
  <2>4. InBuffers'
    BY <2>0, KeepFacts DEF InitSession, Goto, InBuffers, Importing, Saves
  <2>5. InMemory'
    BY KeepFacts DEF InitSession, IInv, LockInv, Goto, history, InMemory, Intact, Loaded,
       Keeps
  <2>6. InLoad'
    BY DEF InitSession, Goto, InLoad
  <2> QED BY <2>1, <2>2, <2>3, <2>4, <2>5, <2>6
<1> QED BY <1>1, <1>2, <1>3 DEF IInv

\* load_definitions clears the list: from here to its end it is not loaded.
LEMMA LoadClearKeeps == ASSUME IInv, LoadClear PROVE IInv'
<1>1. Types'
  <2>1. CASE Died
    BY <2>1, DiedTypes, SameTypes DEF LoadClear, IInv, Types, HistoryType, Record, Harms
  <2>2. CASE ~Died
    <3>1. PcType' /\ achievements' = NoList /\ UNCHANGED <<buf, saved, todo, running>>
      BY <2>2 DEF LoadClear, Goto, IInv, Types, PcType, Threads, Places
    <3>2. ListType'
      BY <3>1, NoListIs DEF IInv, Types, ListType
    <3>3. HistoryType'
      BY DEF LoadClear, IInv, Types, HistoryType, Record, Harms
    <3> QED BY <3>1, <3>2, <3>3, SameTypes DEF LoadClear, IInv, Types
  <2> QED BY <2>1, <2>2
<1>2. LockInv'
  <2>1. CASE ~Died
    BY <2>1 DEF LoadClear, Goto, IInv, Types, PcType, Threads, LockInv
  <2> QED BY <2>1, DiedTypes
<1>3. KeepInv'
  <2> SUFFICES ASSUME harm' = {}
               PROVE  /\ (\A k \in DOMAIN earned : earned[k] > 0)'
                      /\ Apart' /\ InFile' /\ InBuffers' /\ InMemory' /\ InLoad'
    BY DEF KeepInv
  <2>0. harm = {} /\ pc["scan"] = "none" /\ ~Writing
    BY DEF LoadClear, Record, Writing, Threads
  <2>9. UNCHANGED <<file, earned>> /\ pc' = [pc EXCEPT !["gui"] = "read"]
    BY <2>0 DEF LoadClear, Goto, ListMoves, disk
  <2>1. (\A k \in DOMAIN earned : earned[k] > 0)'
    BY <2>0, KeepFacts DEF LoadClear
  <2>2. Apart'
    BY <2>0, <2>9 DEF Apart
  <2>3. InFile'
    BY <2>0, <2>9, KeepFacts DEF InFile, Writing, Keeps
  <2>4. InBuffers'
    BY <2>0, <2>9 DEF IInv, Types, PcType, Threads, InBuffers, Importing, Saves
  <2>5. InMemory'
    BY <2>9 DEF IInv, Types, PcType, Threads, InMemory, Intact, Loaded
  <2>6. InLoad'
    BY <2>9 DEF IInv, Types, PcType, Threads, InLoad
  <2> QED BY <2>1, <2>2, <2>3, <2>4, <2>5, <2>6
<1> QED BY <1>1, <1>2, <1>3 DEF IInv

\* What was saved is read from the file before the directory is gone through.
LEMMA LoadReadKeeps == ASSUME IInv, NEW defined \in Installed, LoadRead(defined) PROVE IInv'
<1>1. Types'
  <2>1. PcType'
    BY DEF LoadRead, IInv, Types, PcType, Threads, Places, Goto
  <2>2. ListType'
    <3>1. Load(file) \in Lists
      BY NoListIs DEF Load, IInv, Types, DiskType
    <3> QED BY <3>1 DEF LoadRead, IInv, Types, ListType
  <2>3. LoadType'
    BY AchievementsAssumption DEF LoadRead, IInv, Types, LoadType
  <2>4. HistoryType'
    BY DEF LoadRead, IInv, Types, HistoryType, Record, Harms
  <2> QED BY <2>1, <2>2, <2>3, <2>4, SameTypes DEF LoadRead, IInv, Types
<1>2. LockInv'
  BY DEF LoadRead, IInv, LockInv, Goto
<1>3. KeepInv'
  <2> SUFFICES ASSUME harm' = {}
               PROVE  /\ (\A k \in DOMAIN earned : earned[k] > 0)'
                      /\ Apart' /\ InFile' /\ InBuffers' /\ InMemory' /\ InLoad'
    BY DEF KeepInv
  <2>0. harm = {}
    BY DEF LoadRead, Record
  <2>1. (\A k \in DOMAIN earned : earned[k] > 0)'
    BY <2>0, KeepFacts DEF LoadRead
  <2>2. Apart'
    BY <2>0, KeepFacts DEF LoadRead, Goto, Apart
  <2>3. InFile'
    BY <2>0, KeepFacts DEF LoadRead, Goto, disk, InFile, Writing, Keeps
  <2>4. InBuffers'
    BY <2>0, KeepFacts DEF LoadRead, Goto, InBuffers, Importing, Saves
  <2>5. InMemory'
    BY DEF LoadRead, Goto, InMemory, Intact, Loaded
  <2>6. InLoad'
    <3>1. ~Writing /\ Keeps(Load(file))
      BY <2>0, KeepFacts DEF LoadRead, Apart, InFile, Writing, Threads
    <3>2. saved' = Load(file) /\ DOMAIN earned \subseteq todo' /\ earned' = earned
      BY DEF LoadRead, Record
    <3> QED BY <3>1, <3>2 DEF InLoad, Keeps
  <2> QED BY <2>1, <2>2, <2>3, <2>4, <2>5, <2>6
<1> QED BY <1>1, <1>2, <1>3 DEF IInv

\* A definition is appended with what was saved of it.
LEMMA LoadDefinitionKeeps == ASSUME IInv, NEW i \in Ids, LoadDefinition(i) PROVE IInv'
<1>1. Types'
  <2>1. CASE Died
    BY <2>1, DiedTypes, SameTypes DEF LoadDefinition, IInv, Types
  <2>2. CASE ~Died
    <3>1. /\ achievements' = [j \in DOMAIN achievements \cup {i} |->
                               IF j = i THEN Restored(i, saved) ELSE achievements[j]]
          /\ todo' = todo \ {i} /\ UNCHANGED <<pc, buf, saved, running>>
      BY <2>2 DEF LoadDefinition
    <3>2. Restored(i, saved) \in 0..MaxTime
      BY ListHas, AchievementsAssumption DEF IInv, Types, ListType, Restored, Unlocked
    <3>3. achievements' \in Lists
      <4>1. DOMAIN achievements \cup {i} \in SUBSET Ids
        BY ListHas DEF IInv, Types, ListType
      <4>2. achievements' \in [DOMAIN achievements \cup {i} -> 0..MaxTime]
        BY <3>1, <3>2, ListHas DEF IInv, Types, ListType
      <4> QED BY <4>1, <4>2, ListIs
    <3>4. ListType' /\ LoadType'
      BY <3>1, <3>3 DEF IInv, Types, ListType, LoadType
    <3> QED BY <3>1, <3>4, SameTypes DEF LoadDefinition, IInv, Types
  <2> QED BY <2>1, <2>2
<1>2. LockInv'
  <2>1. CASE ~Died
    BY <2>1 DEF LoadDefinition, IInv, LockInv
  <2> QED BY <2>1, DiedTypes
<1>3. KeepInv'
  <2> SUFFICES ASSUME harm' = {}
               PROVE  /\ (\A k \in DOMAIN earned : earned[k] > 0)'
                      /\ Apart' /\ InFile' /\ InBuffers' /\ InMemory' /\ InLoad'
    BY DEF KeepInv
  <2>0. harm = {} /\ pc["gui"] = "fill" /\ pc["scan"] = "none"
    BY KeepFacts DEF LoadDefinition, history, Apart
  <2>9. /\ UNCHANGED <<pc, buf, lock, saved, file, earned>>
        /\ todo' = todo \ {i}
        /\ achievements' = [j \in DOMAIN achievements \cup {i} |->
                             IF j = i THEN Restored(i, saved) ELSE achievements[j]]
    BY <2>0 DEF LoadDefinition, ListMoves, disk, history
  <2>1. (\A k \in DOMAIN earned : earned[k] > 0)'
    BY KeepFacts DEF LoadDefinition, history
  <2>2. Apart'
    BY <2>0, <2>9 DEF Apart
  <2>3. InFile'
    BY <2>0, <2>9, KeepFacts DEF InFile, Writing, Keeps
  <2>4. InBuffers'
    BY <2>0, <2>9 DEF InBuffers, Importing, Saves, Threads
  <2>5. InMemory'
    BY <2>0, <2>9 DEF InMemory, Intact, Loaded
  <2>6. InLoad'
    <3>1. Keeps(saved)'
      BY <2>0, <2>9, KeepFacts DEF InLoad, Keeps
    <3>2. ASSUME NEW k \in DOMAIN earned, k \notin todo'
          PROVE  k \in DOMAIN achievements' /\ achievements'[k] = earned[k]
      <4>1. CASE k = i
        BY <2>0, <2>9, <4>1, KeepFacts DEF InLoad, Keeps, Restored, Unlocked
      <4>2. CASE k # i
        BY <2>0, <2>9, <3>2, <4>2, KeepFacts DEF InLoad
      <4> QED BY <4>1, <4>2
    <3> QED BY <2>9, <3>1, <3>2 DEF InLoad
  <2> QED BY <2>1, <2>2, <2>3, <2>4, <2>5, <2>6
<1> QED BY <1>1, <1>2, <1>3 DEF IInv

\* start() makes the one scan thread.
LEMMA StartKeeps == ASSUME IInv, Start PROVE IInv'
<1>1. Types'
  <2>1. PcType'
    BY DEF Start, IInv, Types, PcType, Threads, Places
  <2>2. ListType'
    BY NoListIs DEF Start, IInv, Types, ListType
  <2>3. LoadType'
    BY DEF Start, LoadType
  <2> QED BY <2>1, <2>2, <2>3, SameTypes DEF Start, IInv, Types
<1>2. LockInv'
  BY DEF Start, IInv, Types, LockInv, PcType, Threads
<1>3. KeepInv'
  <2> SUFFICES ASSUME harm' = {}
               PROVE  /\ (\A k \in DOMAIN earned : earned[k] > 0)'
                      /\ Apart' /\ InFile' /\ InBuffers' /\ InMemory' /\ InLoad'
    BY DEF KeepInv
  <2>0. harm = {}
    BY DEF Start, history
  <2>1. (\A k \in DOMAIN earned : earned[k] > 0)'
    BY KeepFacts DEF Start, history
  <2>2. Apart'
    BY <2>0, KeepFacts DEF Start, IInv, Types, PcType, Threads, Apart
  <2>3. InFile'
    BY KeepFacts DEF Start, IInv, Types, LockInv, PcType, disk, history, InFile, Writing,
       Keeps
  <2>4. InBuffers'
    BY <2>0, KeepFacts DEF Start, IInv, Types, PcType, Threads, InBuffers, Importing, Saves
  <2>5. InMemory'
    <3>1. pc["gui"] = "fill" /\ todo = {} /\ UNCHANGED <<achievements, earned>>
      BY DEF Start, history
    <3> QED BY <2>0, <3>1, KeepFacts DEF InMemory, InLoad, Keeps
  <2>6. InLoad'
    BY DEF Start, IInv, Types, PcType, Threads, InLoad
  <2> QED BY <2>1, <2>2, <2>3, <2>4, <2>5, <2>6
<1> QED BY <1>1, <1>2, <1>3 DEF IInv

\* The mutex is taken by nobody else.
LEMMA ScanLockKeeps == ASSUME IInv, NEW t \in Threads, ScanLock(t) PROVE IInv'
<1>1. Types'
  <2>1. PcType'
    BY DEF ScanLock, IInv, Types, PcType, Places, Goto
  <2> QED BY <2>1, SameTypes DEF ScanLock, IInv, Types
<1>2. LockInv'
  BY DEF ScanLock, IInv, Types, LockInv, PcType, Threads, Goto
<1>3. KeepInv'
  <2> SUFFICES ASSUME harm' = {}
               PROVE  /\ (\A k \in DOMAIN earned : earned[k] > 0)'
                      /\ Apart' /\ InFile' /\ InBuffers' /\ InMemory' /\ InLoad'
    BY DEF KeepInv
  <2>0. harm = {}
    BY DEF ScanLock, history
  <2>1. (\A k \in DOMAIN earned : earned[k] > 0)'
    BY KeepFacts DEF ScanLock, history
  <2>2. Apart'
    BY <2>0, KeepFacts DEF ScanLock, IInv, LockInv, Goto, Apart
  <2>3. InFile'
    BY KeepFacts DEF ScanLock, Goto, disk, history, InFile, Writing, Keeps
  <2>4. InBuffers'
    BY KeepFacts DEF ScanLock, Goto, history, InBuffers, Importing, Saves, Keeps
  <2>5. InMemory'
    BY KeepFacts DEF ScanLock, Goto, history, InMemory, Intact, Loaded, Keeps
  <2>6. InLoad'
    BY KeepFacts DEF ScanLock, Goto, history, InLoad, Keeps
  <2> QED BY <2>1, <2>2, <2>3, <2>4, <2>5, <2>6
<1> QED BY <1>1, <1>2, <1>3 DEF IInv

\* A scan unlocks what is locked, and leaves what is unlocked as it is.
LEMMA ChecksKeep ==
  ASSUME IInv, Check
  PROVE  /\ achievements' \in Lists
         /\ \A i \in Unlocked(achievements) : i \in DOMAIN achievements' /\ achievements'[i] = achievements[i]
<1>1. PICK new \in SUBSET {i \in DOMAIN achievements : achievements[i] = 0} :
        achievements' = [i \in DOMAIN achievements |->
                           IF i \in new THEN now ELSE achievements[i]]
  BY DEF Check
<1>2. DOMAIN achievements \in SUBSET Ids /\ achievements \in [DOMAIN achievements -> 0..MaxTime]
  BY ListHas DEF IInv, Types, ListType
<1>3. now \in 0..MaxTime
  BY DEF IInv, Types, EnvType
<1>4. achievements' \in [DOMAIN achievements -> 0..MaxTime]
  BY <1>1, <1>2, <1>3
<1>5. \A i \in Unlocked(achievements) : i \in DOMAIN achievements' /\ achievements'[i] = achievements[i]
  BY <1>1 DEF Unlocked
<1> QED BY <1>2, <1>4, <1>5, ListIs

\* A scan adds times to the list and keeps those there are.
LEMMA ScanKeeps == ASSUME IInv, NEW t \in Threads, Scan(t) PROVE IInv'
<1>1. Types'
  <2>1. PcType'
    BY DEF Scan, IInv, Types, PcType, Places, Goto
  <2>2. ListType'
    BY ChecksKeep DEF Scan, IInv, Types, ListType
  <2> QED BY <2>1, <2>2, SameTypes DEF Scan, IInv, Types
<1>2. LockInv'
  BY DEF Scan, IInv, LockInv, Goto
<1>3. KeepInv'
  <2> SUFFICES ASSUME harm' = {}
               PROVE  /\ (\A k \in DOMAIN earned : earned[k] > 0)'
                      /\ Apart' /\ InFile' /\ InBuffers' /\ InMemory' /\ InLoad'
    BY DEF KeepInv
  <2>0. harm = {}
    BY DEF Scan, history
  <2>1. (\A k \in DOMAIN earned : earned[k] > 0)'
    BY KeepFacts DEF Scan, history
  <2>2. Apart'
    BY <2>0, KeepFacts DEF Scan, IInv, LockInv, Goto, Apart
  <2>3. InFile'
    BY KeepFacts DEF Scan, Goto, disk, history, InFile, Writing, Keeps
  <2>4. InBuffers'
    <3>1. lock = t /\ lock' = t /\ buf' = [buf EXCEPT ![t] = achievements']
          /\ earned' = earned /\ pc' = [pc EXCEPT ![t] = "open"]
      BY DEF Scan, Goto, IInv, LockInv, history
    <3>2. Importing' => Keeps(buf["gui"])'
      BY <2>0, <3>1, KeepFacts DEF InBuffers, Importing, Keeps
    <3>3. buf'[t] = achievements'
      BY <3>1 DEF IInv, Types, ListType
    <3> QED BY <3>1, <3>2, <3>3 DEF InBuffers, Saves
  <2>5. InMemory'
    <3>1. Intact' => Intact
      BY DEF Scan, Goto, Intact, Loaded
    <3>2. earned' = earned
      BY DEF Scan, history
    <3>3. Keeps(achievements) => Keeps(achievements)'
      BY <2>0, <3>2, ChecksKeep, KeepFacts DEF Scan, Keeps, Unlocked
    <3> QED BY <2>0, <3>1, <3>3, KeepFacts DEF InMemory
  <2>6. InLoad'
    BY <2>0, KeepFacts DEF Scan, Threads, Goto, InLoad, Apart
  <2> QED BY <2>1, <2>2, <2>3, <2>4, <2>5, <2>6
<1> QED BY <1>1, <1>2, <1>3 DEF IInv

\* save_unlocked opens the file for writing what a scan or an import has merged.
LEMMA TruncateKeeps == ASSUME IInv, NEW t \in Threads, Truncate(t) PROVE IInv'
<1>1. Types'
  <2>1. PcType'
    BY DEF Truncate, IInv, Types, PcType, Places, Goto
  <2>2. DiskType'
    BY DEF Truncate, IInv, Types, DiskType
  <2>3. HistoryType'
    BY DEF Truncate, IInv, Types, HistoryType, Record, Harms
  <2> QED BY <2>1, <2>2, <2>3, SameTypes DEF Truncate, IInv, Types
<1>2. LockInv'
  BY DEF Truncate, IInv, LockInv, Goto
<1>3. KeepInv'
  <2> SUFFICES ASSUME harm' = {}
               PROVE  /\ (\A k \in DOMAIN earned : earned[k] > 0)'
                      /\ Apart' /\ InFile' /\ InBuffers' /\ InMemory' /\ InLoad'
    BY DEF KeepInv
  <2>0. harm = {}
    BY DEF Truncate, Record
  <2>1. (\A k \in DOMAIN earned : earned[k] > 0)'
    BY <2>0, KeepFacts DEF Truncate
  <2>2. Apart'
    <3>1. CASE t = "gui"
      BY <2>0, <3>1, KeepFacts DEF Truncate, Goto, Apart, Importing
    <3>2. CASE t = "scan"
      <4>1. ~Importing
        BY <3>2 DEF Truncate, Record
      <4> QED BY <2>0, <4>1, KeepFacts DEF Truncate, Goto, Apart, Importing
    <3> QED BY <3>1, <3>2 DEF Threads
  <2>3. InFile'
    BY DEF Truncate, IInv, Types, PcType, Goto, InFile, Writing
  <2>4. InBuffers'
    BY <2>0, KeepFacts DEF Truncate, Goto, InBuffers, Importing, Saves, Keeps
  <2>5. InMemory'
    BY <2>0, KeepFacts DEF Truncate, Goto, InMemory, Intact, Loaded, Keeps
  <2>6. InLoad'
    BY <2>0, KeepFacts DEF Truncate, Goto, InLoad, Keeps
  <2> QED BY <2>1, <2>2, <2>3, <2>4, <2>5, <2>6
<1> QED BY <1>1, <1>2, <1>3 DEF IInv

\* What is written holds everything that has been earned.
LEMMA WriteFileKeeps == ASSUME IInv, NEW t \in Threads, WriteFile(t) PROVE IInv'
<1>1. Types'
  <2>1. PcType'
    BY DEF WriteFile, IInv, Types, PcType, Places, Goto, Saved
  <2>2. ListType'
    BY NoListIs DEF WriteFile, IInv, Types, ListType
  <2>3. DiskType'
    BY DEF WriteFile, IInv, Types, DiskType, ListType
  <2>4. HistoryType'
    <3>1. CASE lock = t
      <4>1. /\ buf[t] \in [DOMAIN buf[t] -> 0..MaxTime] /\ earned \in [DOMAIN earned -> 0..MaxTime]
            /\ DOMAIN buf[t] \subseteq Ids /\ DOMAIN earned \subseteq Ids
        BY ListHas DEF IInv, Types, ListType, HistoryType
      <4>2. /\ DOMAIN earned \cup Unlocked(buf[t]) \in SUBSET Ids
            /\ earned' \in [DOMAIN earned \cup Unlocked(buf[t]) -> 0..MaxTime]
        BY <3>1, <4>1 DEF WriteFile, Unlocked
      <4> QED BY <4>2, ListIs DEF WriteFile, IInv, Types, HistoryType
    <3>2. CASE lock # t
      BY <3>2 DEF WriteFile, IInv, Types, HistoryType
    <3> QED BY <3>1, <3>2
  <2> QED BY <2>1, <2>2, <2>3, <2>4, SameTypes DEF WriteFile, IInv, Types
<1>2. LockInv'
  BY DEF WriteFile, IInv, Types, LockInv, PcType, Threads, Goto, Saved
<1>3. KeepInv'
  <2> SUFFICES ASSUME harm' = {}
               PROVE  /\ (\A k \in DOMAIN earned : earned[k] > 0)'
                      /\ Apart' /\ InFile' /\ InBuffers' /\ InMemory' /\ InLoad'
    BY DEF KeepInv
  <2>0. harm = {}
    BY DEF WriteFile
  <2>7. /\ file' = buf[t] /\ buf[t] \in Lists
        /\ \A k \in DOMAIN earned' :
             k \in DOMAIN buf[t] /\ buf[t][k] = earned'[k] /\ earned'[k] > 0
    <3>1. file' = buf[t] /\ buf[t] \in Lists
      BY KeepFacts DEF WriteFile, InFile, Writing, IInv, Types, ListType
    <3>2. CASE lock = t
      <4>1. buf[t] = achievements
        BY <3>2, KeepFacts DEF WriteFile, InBuffers, Saves
      <4>4. Intact
        BY KeepFacts DEF WriteFile, Intact, Loaded, Apart, IInv, LockInv, Threads
      <4>2. Keeps(buf[t])
        BY <2>0, <4>1, <4>4, KeepFacts DEF InMemory
      <4>3. earned' = [k \in DOMAIN earned \cup Unlocked(buf[t]) |->
                         IF k \in DOMAIN earned THEN earned[k] ELSE buf[t][k]]
        BY <3>2 DEF WriteFile
      <4> QED BY <2>0, <3>1, <4>2, <4>3, KeepFacts DEF Keeps, Unlocked
    <3>3. CASE lock # t
      <4>1. t = "gui" /\ Importing /\ earned' = earned
        BY <3>3 DEF WriteFile, Importing, IInv, LockInv, Threads
      <4> QED BY <2>0, <3>1, <4>1, KeepFacts DEF InBuffers, Keeps
    <3> QED BY <3>2, <3>3
  <2>1. (\A k \in DOMAIN earned : earned[k] > 0)'
    BY <2>7
  <2>2. Apart'
    BY KeepFacts DEF WriteFile, IInv, LockInv, Goto, Saved, Apart, Importing
  <2>3. InFile'
    <3>1. ~Writing'
      BY KeepFacts DEF WriteFile, Saved, Goto, Writing, Apart, Importing, IInv, LockInv,
         Types, PcType, Threads
    <3>2. Load(file)' = buf[t]
      BY <2>7, AchievementsAssumption DEF Load
    <3> QED BY <2>7, <3>1, <3>2 DEF InFile, Keeps
  <2>4. InBuffers'
    BY KeepFacts DEF WriteFile, IInv, Types, PcType, Threads, Goto, Saved, InBuffers,
       Importing, Saves, Apart
  <2>5. InMemory'
    <3>1. Intact' => Intact
      BY DEF WriteFile, Saved, Goto, Intact, Loaded
    <3>2. CASE lock = t
      <4>1. buf[t] = achievements /\ achievements' = achievements
        BY <3>2, KeepFacts DEF WriteFile, InBuffers, Saves
      <4> QED BY <2>7, <4>1 DEF InMemory, Keeps
    <3>3. CASE lock # t
      BY <3>1, <3>3, KeepFacts DEF WriteFile, InMemory, Keeps
    <3> QED BY <3>2, <3>3
  <2>6. InLoad'
    BY KeepFacts DEF WriteFile, Threads, Goto, Saved, InLoad, Apart
  <2> QED BY <2>1, <2>2, <2>3, <2>4, <2>5, <2>6
<1> QED BY <1>1, <1>2, <1>3 DEF IInv

\* A file that is not opened is what it was.
LEMMA WriteFailsKeeps == ASSUME IInv, NEW t \in Threads, WriteFails(t) PROVE IInv'
<1>1. Types'
  <2>1. PcType'
    BY DEF WriteFails, IInv, Types, PcType, Places, Goto, Saved
  <2>2. ListType'
    BY NoListIs DEF WriteFails, IInv, Types, ListType
  <2>3. EnvType'
    BY AchievementsAssumption DEF WriteFails, IInv, Types, EnvType
  <2>4. HistoryType'
    BY DEF WriteFails, IInv, Types, HistoryType, Record, Harms
  <2> QED BY <2>1, <2>2, <2>3, <2>4, SameTypes DEF WriteFails, IInv, Types
<1>2. LockInv'
  BY DEF WriteFails, IInv, Types, LockInv, PcType, Threads, Goto, Saved
<1>3. KeepInv'
  BY DEF WriteFails, Record, KeepInv
<1> QED BY <1>1, <1>2, <1>3 DEF IInv

\* The thread's loop starts a scan or ends.
LEMMA ScanLoopKeeps == ASSUME IInv, ScanLoop PROVE IInv'
<1>1. Types'
  <2>1. PcType'
    BY DEF ScanLoop, IInv, Types, PcType, Threads, Places, Goto
  <2> QED BY <2>1, SameTypes DEF ScanLoop, IInv, Types
<1>2. LockInv'
  BY DEF ScanLoop, IInv, LockInv, Goto
<1>3. KeepInv'
  <2> SUFFICES ASSUME harm' = {}
               PROVE  /\ (\A k \in DOMAIN earned : earned[k] > 0)'
                      /\ Apart' /\ InFile' /\ InBuffers' /\ InMemory' /\ InLoad'
    BY DEF KeepInv
  <2>0. harm = {}
    BY DEF ScanLoop, history
  <2>1. (\A k \in DOMAIN earned : earned[k] > 0)'
    BY KeepFacts DEF ScanLoop, history
  <2>2. Apart'
    BY <2>0, KeepFacts DEF ScanLoop, Goto, Apart
  <2>3. InFile'
    BY KeepFacts DEF ScanLoop, Goto, disk, history, InFile, Writing, Keeps
  <2>4. InBuffers'
    BY KeepFacts DEF ScanLoop, Goto, history, InBuffers, Importing, Saves, Keeps
  <2>5. InMemory'
    BY KeepFacts DEF ScanLoop, Goto, history, InMemory, Intact, Loaded, Keeps
  <2>6. InLoad'
    BY KeepFacts DEF ScanLoop, Goto, history, InLoad, Keeps
  <2> QED BY <2>1, <2>2, <2>3, <2>4, <2>5, <2>6
<1> QED BY <1>1, <1>2, <1>3 DEF IInv

\* A thread that wakes up has changed nothing.
LEMMA WakeKeeps == ASSUME IInv, Wake PROVE IInv'
<1>1. Types'
  <2>1. PcType'
    BY DEF Wake, IInv, Types, PcType, Threads, Places, Goto
  <2> QED BY <2>1, SameTypes DEF Wake, IInv, Types
<1>2. LockInv'
  BY DEF Wake, IInv, LockInv, Goto
<1>3. KeepInv'
  <2> SUFFICES ASSUME harm' = {}
               PROVE  /\ (\A k \in DOMAIN earned : earned[k] > 0)'
                      /\ Apart' /\ InFile' /\ InBuffers' /\ InMemory' /\ InLoad'
    BY DEF KeepInv
  <2>0. harm = {}
    BY DEF Wake, history
  <2>1. (\A k \in DOMAIN earned : earned[k] > 0)'
    BY KeepFacts DEF Wake, history
  <2>2. Apart'
    BY <2>0, KeepFacts DEF Wake, Goto, Apart
  <2>3. InFile'
    BY KeepFacts DEF Wake, Goto, disk, history, InFile, Writing, Keeps
  <2>4. InBuffers'
    BY KeepFacts DEF Wake, Goto, history, InBuffers, Importing, Saves, Keeps
  <2>5. InMemory'
    BY KeepFacts DEF Wake, Goto, history, InMemory, Intact, Loaded, Keeps
  <2>6. InLoad'
    BY KeepFacts DEF Wake, Goto, history, InLoad, Keeps
  <2> QED BY <2>1, <2>2, <2>3, <2>4, <2>5, <2>6
<1> QED BY <1>1, <1>2, <1>3 DEF IInv

\* A scan asked for on the GUI thread waits for the mutex.
LEMMA ScanNowKeeps == ASSUME IInv, ScanNow PROVE IInv'
<1>1. Types'
  <2>1. PcType'
    BY DEF ScanNow, IInv, Types, PcType, Threads, Places, Goto
  <2> QED BY <2>1, SameTypes DEF ScanNow, IInv, Types
<1>2. LockInv'
  BY DEF ScanNow, IInv, LockInv, Goto
<1>3. KeepInv'
  <2> SUFFICES ASSUME harm' = {}
               PROVE  /\ (\A k \in DOMAIN earned : earned[k] > 0)'
                      /\ Apart' /\ InFile' /\ InBuffers' /\ InMemory' /\ InLoad'
    BY DEF KeepInv
  <2>0. harm = {}
    BY DEF ScanNow, history
  <2>1. (\A k \in DOMAIN earned : earned[k] > 0)'
    BY KeepFacts DEF ScanNow, history
  <2>2. Apart'
    BY DEF ScanNow, Goto, Apart, Importing
  <2>3. InFile'
    BY KeepFacts DEF ScanNow, Goto, disk, history, InFile, Writing, Keeps
  <2>4. InBuffers'
    BY <2>0, KeepFacts DEF ScanNow, Goto, InBuffers, Importing, Saves
  <2>5. InMemory'
    BY KeepFacts DEF ScanNow, history, InMemory, Intact, Loaded, Keeps
  <2>6. InLoad'
    BY DEF ScanNow, Goto, InLoad
  <2> QED BY <2>1, <2>2, <2>3, <2>4, <2>5, <2>6
<1> QED BY <1>1, <1>2, <1>3 DEF IInv

\* The page shows the list and leaves it alone.
LEMMA RefreshKeeps == ASSUME IInv, Refresh PROVE IInv'
<1>1. Types'
  <2>1. PcType'
    BY DEF Refresh, IInv, Types, PcType, Threads, Places, Goto
  <2> QED BY <2>1, SameTypes DEF Refresh, IInv, Types
<1>2. LockInv'
  BY DEF Refresh, IInv, LockInv, Goto
<1>3. KeepInv'
  <2> SUFFICES ASSUME harm' = {}
               PROVE  /\ (\A k \in DOMAIN earned : earned[k] > 0)'
                      /\ Apart' /\ InFile' /\ InBuffers' /\ InMemory' /\ InLoad'
    BY DEF KeepInv
  <2>0. harm = {}
    BY DEF Refresh, history
  <2>1. (\A k \in DOMAIN earned : earned[k] > 0)'
    BY KeepFacts DEF Refresh, history
  <2>2. Apart'
    BY DEF Refresh, IInv, LockInv, Goto, Apart
  <2>3. InFile'
    BY KeepFacts DEF Refresh, Goto, disk, history, InFile, Writing, Keeps
  <2>4. InBuffers'
    BY <2>0, KeepFacts DEF Refresh, Goto, InBuffers, Importing, Saves
  <2>5. InMemory'
    BY KeepFacts DEF Refresh, history, InMemory, Intact, Loaded, Keeps
  <2>6. InLoad'
    BY DEF Refresh, Goto, InLoad
  <2> QED BY <2>1, <2>2, <2>3, <2>4, <2>5, <2>6
<1> QED BY <1>1, <1>2, <1>3 DEF IInv

\* An export opens another file.
LEMMA ExportToKeeps == ASSUME IInv, ExportTo PROVE IInv'
<1>1. Types'
  <2>1. PcType'
    BY DEF ExportTo, IInv, Types, PcType, Threads, Places, Goto
  <2> QED BY <2>1, SameTypes DEF ExportTo, IInv, Types
<1>2. LockInv'
  BY DEF ExportTo, IInv, LockInv, Goto
<1>3. KeepInv'
  <2> SUFFICES ASSUME harm' = {}
               PROVE  /\ (\A k \in DOMAIN earned : earned[k] > 0)'
                      /\ Apart' /\ InFile' /\ InBuffers' /\ InMemory' /\ InLoad'
    BY DEF KeepInv
  <2>0. harm = {}
    BY DEF ExportTo, history
  <2>1. (\A k \in DOMAIN earned : earned[k] > 0)'
    BY KeepFacts DEF ExportTo, history
  <2>2. Apart'
    BY DEF ExportTo, Goto, Apart, Importing
  <2>3. InFile'
    BY KeepFacts DEF ExportTo, Goto, disk, history, InFile, Writing, Keeps
  <2>4. InBuffers'
    BY <2>0, KeepFacts DEF ExportTo, Goto, InBuffers, Importing, Saves
  <2>5. InMemory'
    BY KeepFacts DEF ExportTo, history, InMemory, Intact, Loaded, Keeps
  <2>6. InLoad'
    BY DEF ExportTo, Goto, InLoad
  <2> QED BY <2>1, <2>2, <2>3, <2>4, <2>5, <2>6
<1> QED BY <1>1, <1>2, <1>3 DEF IInv

\* An export writes what was saved to another file.
LEMMA ExportKeeps == ASSUME IInv, Export PROVE IInv'
<1>1. Types'
  <2>1. PcType'
    BY DEF Export, IInv, Types, PcType, Threads, Places, Goto
  <2>2. DiskType'
    <3>1. Unlocked(achievements) \in SUBSET Ids /\ exported' \in [Unlocked(achievements) -> 0..MaxTime]
      BY ListHas DEF Export, Unlocked, IInv, Types, ListType
    <3> QED BY <3>1, ListIs DEF Export, IInv, Types, DiskType
  <2> QED BY <2>1, <2>2, SameTypes DEF Export, IInv, Types
<1>2. LockInv'
  BY DEF Export, IInv, LockInv, Goto
<1>3. KeepInv'
  <2> SUFFICES ASSUME harm' = {}
               PROVE  /\ (\A k \in DOMAIN earned : earned[k] > 0)'
                      /\ Apart' /\ InFile' /\ InBuffers' /\ InMemory' /\ InLoad'
    BY DEF KeepInv
  <2>0. harm = {}
    BY DEF Export, history
  <2>1. (\A k \in DOMAIN earned : earned[k] > 0)'
    BY KeepFacts DEF Export, history
  <2>2. Apart'
    BY DEF Export, IInv, LockInv, Goto, Apart
  <2>3. InFile'
    BY KeepFacts DEF Export, Goto, history, InFile, Writing, Keeps
  <2>4. InBuffers'
    BY <2>0, KeepFacts DEF Export, Goto, InBuffers, Importing, Saves
  <2>5. InMemory'
    BY KeepFacts DEF Export, history, InMemory, Intact, Loaded, Keeps
  <2>6. InLoad'
    BY DEF Export, Goto, InLoad
  <2> QED BY <2>1, <2>2, <2>3, <2>4, <2>5, <2>6
<1> QED BY <1>1, <1>2, <1>3 DEF IInv

\* What an import merges is a list, and the entries of the file are in it as they are.
LEMMA MergedIs ==
  ASSUME IInv, NEW other \in Imports
  PROVE  /\ Merged(Load(file), other) \in Lists
         /\ Keeps(Load(file)) => Keeps(Merged(Load(file), other))
<1>1. Load(file) \in Lists /\ other \in Lists
  BY NoListIs, AchievementsAssumption DEF Imports, Load, IInv, Types, DiskType
<1>2. DOMAIN Load(file) \cup DOMAIN other \in SUBSET Ids
  BY <1>1, ListHas
<1>3. Merged(Load(file), other) \in [DOMAIN Load(file) \cup DOMAIN other -> 0..MaxTime]
  BY <1>1, ListHas DEF Merged
<1>4. Keeps(Load(file)) => Keeps(Merged(Load(file), other))
  BY DEF Keeps, Merged
<1> QED BY <1>2, <1>3, <1>4, ListIs

\* An import merges into what was saved, where an earlier time wins.
LEMMA ImportKeeps == ASSUME IInv, NEW other \in Imports, Import(other) PROVE IInv'
<1>1. Types'
  <2>1. PcType'
    BY DEF Import, IInv, Types, PcType, Threads, Places, Goto
  <2>2. ListType'
    BY MergedIs DEF Import, IInv, Types, ListType
  <2>3. HistoryType'
    BY DEF Import, IInv, Types, HistoryType, Record, Harms
  <2> QED BY <2>1, <2>2, <2>3, SameTypes DEF Import, IInv, Types
<1>2. LockInv'
  BY DEF Import, IInv, LockInv, Goto
<1>3. KeepInv'
  <2> SUFFICES ASSUME harm' = {}
               PROVE  /\ (\A k \in DOMAIN earned : earned[k] > 0)'
                      /\ Apart' /\ InFile' /\ InBuffers' /\ InMemory' /\ InLoad'
    BY DEF KeepInv
  <2>0. harm = {}
    BY DEF Import, Record
  <2>1. (\A k \in DOMAIN earned : earned[k] > 0)'
    BY <2>0, KeepFacts DEF Import
  <2>2. Apart'
    <3>1. pc["scan"] # "write"
      BY DEF Import, Record
    <3> QED BY <3>1 DEF Import, Goto, Apart
  <2>3. InFile'
    BY <2>0, KeepFacts DEF Import, Goto, disk, InFile, Writing, Keeps
  <2>4. InBuffers'
    <3>1. ~Writing
      BY DEF Import, Record, Writing, Threads
    <3>2. Keeps(Merged(Load(file), other))
      BY <2>0, <3>1, KeepFacts, MergedIs DEF InFile
    <3>3. Keeps(buf["gui"])'
      BY <3>2 DEF Import, Keeps, IInv, Types, ListType, Threads
    <3>4. ASSUME NEW t \in Threads, Saves(t)'
          PROVE  buf'[t] = achievements'
      BY <2>0, <3>4, KeepFacts DEF Import, Goto, InBuffers, Saves, IInv, LockInv
    <3> QED BY <3>3, <3>4 DEF InBuffers
  <2>5. InMemory'
    BY <2>0, KeepFacts DEF Import, InMemory, Intact, Loaded, Keeps
  <2>6. InLoad'
    BY DEF Import, Goto, InLoad
  <2> QED BY <2>1, <2>2, <2>3, <2>4, <2>5, <2>6
<1> QED BY <1>1, <1>2, <1>3 DEF IInv

\* stop() clears the flag and leaves the thread to be joined.
LEMMA QuitKeeps == ASSUME IInv, Quit PROVE IInv'
<1>1. Types'
  <2>1. PcType'
    BY DEF Quit, IInv, Types, PcType, Threads, Places, Goto
  <2>2. LoadType'
    BY DEF Quit, IInv, Types, LoadType
  <2> QED BY <2>1, <2>2, SameTypes DEF Quit, IInv, Types
<1>2. LockInv'
  BY DEF Quit, IInv, Types, LockInv, PcType, Threads, Goto
<1>3. KeepInv'
  <2> SUFFICES ASSUME harm' = {}
               PROVE  /\ (\A k \in DOMAIN earned : earned[k] > 0)'
                      /\ Apart' /\ InFile' /\ InBuffers' /\ InMemory' /\ InLoad'
    BY DEF KeepInv
  <2>0. harm = {}
    BY DEF Quit, history
  <2>1. (\A k \in DOMAIN earned : earned[k] > 0)'
    BY KeepFacts DEF Quit, history
  <2>2. Apart'
    BY DEF Quit, Goto, Apart, Importing
  <2>3. InFile'
    BY KeepFacts DEF Quit, Goto, disk, history, InFile, Writing, Keeps
  <2>4. InBuffers'
    BY <2>0, KeepFacts DEF Quit, Goto, InBuffers, Importing, Saves
  <2>5. InMemory'
    BY KeepFacts DEF Quit, history, InMemory, Intact, Loaded, Keeps
  <2>6. InLoad'
    BY DEF Quit, Goto, InLoad
  <2> QED BY <2>1, <2>2, <2>3, <2>4, <2>5, <2>6
<1> QED BY <1>1, <1>2, <1>3 DEF IInv

\* The program ends when the thread has.
LEMMA JoinKeeps == ASSUME IInv, Join PROVE IInv'
<1>1. Types'
  <2>1. PcType' /\ ListType' /\ LoadType'
    BY DiedTypes DEF Join
  <2> QED BY <2>1, SameTypes DEF Join, IInv, Types
<1>2. LockInv'
  BY DiedTypes DEF Join
<1>3. KeepInv'
  <2> SUFFICES ASSUME harm' = {} PROVE KeepInv'
    BY DEF KeepInv
  <2>2. ~Writing
    BY DEF Join, Writing, Threads
  <2> QED BY <2>2, DiedKeep DEF Join, disk, history
<1> QED BY <1>1, <1>2, <1>3 DEF IInv

\* A program that is killed leaves the file as it is, cut or complete.
LEMMA KillKeeps == ASSUME IInv, Kill PROVE IInv'
<1>1. Types'
  <2>1. PcType' /\ ListType' /\ LoadType'
    BY DiedTypes DEF Kill
  <2>2. EnvType'
    BY AchievementsAssumption DEF Kill, IInv, Types, EnvType
  <2>3. HistoryType'
    BY DEF Kill, IInv, Types, HistoryType, Record, Harms
  <2> QED BY <2>1, <2>2, <2>3, SameTypes DEF Kill, IInv, Types
<1>2. LockInv'
  BY DiedTypes DEF Kill
<1>3. KeepInv'
  <2> SUFFICES ASSUME harm' = {} PROVE KeepInv'
    BY DEF KeepInv
  <2>1. harm = {}
    BY DEF Kill, Record
  <2>2. ~Writing
    BY DEF Kill, Record, Writing
  <2> QED BY <2>1, <2>2, DiedKeep DEF Kill, disk
<1> QED BY <1>1, <1>2, <1>3 DEF IInv

\* Time goes on.
LEMMA TickKeeps == ASSUME IInv, Tick PROVE IInv'
<1>1. Types'
  <2>1. EnvType'
    BY AchievementsAssumption DEF Tick, IInv, Types, EnvType
  <2> QED BY <2>1, SameTypes DEF Tick, IInv, Types, memory
<1>2. LockInv'
  BY DEF Tick, IInv, LockInv, memory
<1>3. KeepInv'
  BY DEF Tick, memory, disk, history, IInv, KeepInv, Apart, InFile, InBuffers, InMemory,
     InLoad, Importing, Writing, Keeps, Saves, Intact, Loaded
<1> QED BY <1>1, <1>2, <1>3 DEF IInv

-------------------------------------------------------------------------------
(* The whole next-state relation.                                            *)

\* At the start nothing is saved and no thread runs.
LEMMA InitIInv == Init => IInv
<1> SUFFICES ASSUME Init PROVE IInv
  OBVIOUS
<1>1. PcType /\ ListType
  BY NoListIs DEF Init, PcType, ListType, Threads, Places
<1>2. LoadType /\ DiskType /\ HistoryType
  BY NoListIs DEF Init, LoadType, DiskType, HistoryType
<1>5. EnvType
  <2>1. 1 \in 1..MaxTime /\ 0 \in 0..Launches /\ 0 \in 0..Faults
    BY AchievementsAssumption
  <2> QED BY <2>1 DEF Init, EnvType
<1>3. LockInv
  BY DEF Init, LockInv, Threads
<1>4. KeepInv
  <2>1. DOMAIN earned = {} /\ pc["gui"] = "off" /\ pc["scan"] = "none" /\ lock = "free"
    BY DEF Init, NoList, Threads
  <2> QED BY <2>1 DEF KeepInv, Apart, InFile, InBuffers, InMemory, InLoad, Writing, Keeps,
     Saves, Threads
<1> QED BY <1>1, <1>2, <1>3, <1>4, <1>5 DEF IInv, Types

\* Nothing in the invariant looks at anything but the variables.
LEMMA StutterKeeps == ASSUME IInv, UNCHANGED vars PROVE IInv'
<1>1. Types'
  BY SameTypes DEF IInv, Types, vars, memory
<1>2. LockInv'
  BY DEF IInv, LockInv, vars, memory
<1>3. KeepInv'
  BY DEF IInv, KeepInv, Apart, InFile, InBuffers, InMemory, InLoad, Importing, Writing,
     Keeps, Saves, Intact, Loaded, vars, memory, disk, history
<1> QED BY <1>1, <1>2, <1>3 DEF IInv

\* One case for each group of actions of Next.
LEMMA NextIInv == IInv /\ [Next]_vars => IInv'
<1> SUFFICES ASSUME IInv, [Next]_vars PROVE IInv'
  OBVIOUS
<1>1. CASE \E t \in Threads : ScanStep(t)
  BY <1>1, ScanLockKeeps, ScanKeeps, TruncateKeeps, WriteFileKeeps, WriteFailsKeeps
     DEF ScanStep
<1>2. CASE Gui
  <2>1. CASE LoadClear \/ Start \/ Refresh \/ Export \/ Join
    BY <2>1, LoadClearKeeps, StartKeeps, RefreshKeeps, ExportKeeps, JoinKeeps
  <2>2. CASE \E defined \in Installed : LoadRead(defined)
    BY <2>2, LoadReadKeeps
  <2>3. CASE \E i \in Ids : LoadDefinition(i)
    BY <2>3, LoadDefinitionKeeps
  <2> QED BY <1>1, <1>2, <2>1, <2>2, <2>3 DEF Gui, Threads
<1>3. CASE ScanThread
  BY <1>1, <1>3, ScanLoopKeeps, WakeKeeps DEF ScanThread, Threads
<1>4. CASE User
  <2>1. CASE InitSession \/ ScanNow \/ ExportTo \/ Quit
    BY <2>1, InitSessionKeeps, ScanNowKeeps, ExportToKeeps, QuitKeeps
  <2>2. CASE \E other \in Imports : Import(other)
    BY <2>2, ImportKeeps
  <2> QED BY <1>4, <2>1, <2>2 DEF User
<1>5. CASE Kill \/ Tick
  BY <1>5, KillKeeps, TickKeeps
<1>6. CASE UNCHANGED vars
  BY <1>6, StutterKeeps
<1> QED BY <1>2, <1>3, <1>4, <1>5, <1>6 DEF Next

-------------------------------------------------------------------------------
(* The theorems.                                                             *)

\* Whatever the order in which the GUI thread and the scan thread take their steps, and
\* wherever the process is killed or a write fails, the invariant holds.
THEOREM AchievementsInvariant == Spec => []IInv
BY InitIInv, NextIInv, PTL DEF Spec

\* Every variable keeps its type; in particular no two threads scan at a time, and a
\* scan saves with the mutex.
THEOREM AchievementsTypeCorrect == Spec => []TypeOK
BY TypesImply, AchievementsInvariant, PTL

\* What a scan has saved as unlocked stays so, in the list and in the file, with the time
\* it was unlocked first, unless one of the four harms has been done.
THEOREM EarnedIsKept == Spec => []NothingLost
<1>1. IInv => NothingLost
  BY KeepFacts DEF NothingLost, InMemory, InFile, Intact, Keeps
<1> QED BY <1>1, AchievementsInvariant, PTL

===============================================================================
