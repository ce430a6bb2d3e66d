------------------------------ MODULE Achievements ------------------------------
(***************************************************************************)
(* The desktop client's achievements: PassiveScanner and its scan thread,   *)
(* the achievements file of Persistence, and the GUI thread's handlers that *)
(* use them (init_session, Scan now, Export, Import, the end of App).       *)
(*                                                                         *)
(* A scan holds the scanner's mutex from the first check to the end of the  *)
(* save.  load_definitions and the import do not take it, and the file is   *)
(* truncated first and written afterwards, so the threads meet on the list  *)
(* of achievements and in the file.  The process may be killed at any step. *)
(*                                                                         *)
(* A list of achievements is a function from ids to the time of unlocking,  *)
(* 0 for a locked one; names, tiers and icons are carried along and left    *)
(* out, as is the order of the list.                                        *)
(***************************************************************************)
EXTENDS Naturals

CONSTANTS
  TypeOf,       \* criteria.type of every achievement, by id
  Traits,       \* ids whose cached check (distro, display server) holds on this machine
  Installed,    \* sets of ids the achievements directory may define; {}: none found
  Unreadable,   \* no file, an empty one or one that does not parse
  Foreign,      \* lists in files the user may import, besides an exported one
  MaxTime,      \* bound: the clock
  Launches,     \* bound: how often the program is started or activated again
  Faults        \* bound: how often it is killed or a write fails

Ids == DOMAIN TypeOf
Lists == UNION {[S -> 0..MaxTime] : S \in SUBSET Ids}

ASSUME AchievementsAssumption ==
  /\ Traits \subseteq Ids /\ Installed \subseteq SUBSET Ids
  /\ Foreign \subseteq Lists /\ Unreadable \notin Lists
  /\ MaxTime \in Nat \ {0} /\ {Launches, Faults} \subseteq Nat

Threads == {"gui", "scan"}

VARIABLES
  pc,           \* each thread's place
  buf,          \* what each thread is about to write: the JSON built before the file is opened
  lock,         \* holder of mutex_, or "free"
  achievements, \* achievements_ and criteria_by_id_
  saved, todo,  \* load_definitions: what the file held, the definitions still to read
  running,      \* running_
  file,         \* achievements.json: a list, or Unreadable
  exported,     \* the file the user exported to: a list, or Unreadable
  now,          \* the clock
  launches, faults,
  earned, harm  \* history: what a scan has saved as unlocked; what has endangered it since

memory == <<pc, buf, lock, achievements, saved, todo, running>>
disk == <<file, exported>>
env == <<now, launches, faults>>
history == <<earned, harm>>
vars == <<memory, disk, env, history>>

NoList == [i \in {} |-> 0]

Unlocked(list) == {i \in DOMAIN list : list[i] > 0}
Harms == {"reload", "cut", "undefined", "overlap"}

TypeOK ==
  /\ pc["gui"] \in {"off", "clear", "read", "fill", "lock", "scan", "open", "write", "refresh",
                    "idle", "export", "join"}
  /\ pc["scan"] \in {"none", "loop", "lock", "scan", "open", "write", "sleep"}
  /\ buf["gui"] \in Lists /\ buf["scan"] \in Lists
  /\ lock \in Threads \cup {"free"}
  /\ \A t \in Threads : pc[t] = "scan" => lock = t
  /\ pc["scan"] \in {"open", "write"} => lock = "scan"
  /\ {achievements, saved} \subseteq Lists /\ todo \subseteq Ids /\ running \in BOOLEAN
  /\ file \in Lists \cup {Unreadable} /\ exported \in Lists \cup {Unreadable}
  /\ now \in 1..MaxTime /\ launches \in 0..Launches /\ faults \in 0..Faults
  /\ earned \in Lists /\ harm \subseteq Harms

-------------------------------------------------------------------------------
(* Operators.  A name with an underscore is the rule below it with a fault.   *)

\* Which answers the check of one achievement may give: a cached trait of the
\* machine, or something that may change between two scans.
Checks(i) ==
  CASE TypeOf[i] = "always" -> {TRUE}
    [] TypeOf[i] = "social" -> {FALSE}
    [] TypeOf[i] = "cached" -> {i \in Traits}
    [] OTHER -> BOOLEAN

\* Everything in a file that parses; nothing otherwise.
Load(f) == IF f = Unreadable THEN NoList ELSE f

\* The new entry of a definition: what the file held if that was unlocked.
Restored_Now(i, old) == IF i \in Unlocked(old) THEN now ELSE 0
Restored(i, old) == IF i \in Unlocked(old) THEN old[i] ELSE 0

\* Import: what the file holds has priority, even if it is locked there.
Merged_ImportWins(local, other) ==
  [i \in DOMAIN local \cup DOMAIN other |-> IF i \in DOMAIN other THEN other[i] ELSE local[i]]
Merged(local, other) ==
  [i \in DOMAIN local \cup DOMAIN other |-> IF i \in DOMAIN local THEN local[i] ELSE other[i]]

Goto(t, place) == pc' = [pc EXCEPT ![t] = place]

\* The GUI thread is between the reading and the writing of an import.
Importing == pc["gui"] \in {"open", "write"} /\ lock # "gui"

\* Afterwards what was saved may be lost.
Record(harms) == harm' = harm \cup harms

-------------------------------------------------------------------------------
Init ==
  /\ pc = [t \in Threads |-> IF t = "gui" THEN "off" ELSE "none"]
  /\ buf = [t \in Threads |-> NoList]
  /\ lock = "free" /\ achievements = NoList /\ saved = NoList /\ todo = {}
  /\ running = FALSE
  /\ file = Unreadable /\ exported = Unreadable
  /\ now = 1 /\ launches = 0 /\ faults = 0
  /\ earned = NoList /\ harm = {}

(* init_session and load_definitions, on the GUI thread.                      *)

\* The program is started, or activated again while it runs.
InitSession ==
  /\ pc["gui"] \in {"off", "idle"} /\ launches < Launches
  /\ launches' = launches + 1
  /\ Goto("gui", "clear")
  /\ UNCHANGED <<buf, lock, achievements, saved, todo, running, disk, now, faults, history>>

\* The list changes under a loop over it in the other thread: the process may end.
\* What it leaves is what Kill leaves.
ListMoves == pc["scan"] = "scan"

Died ==
  /\ pc' = [t \in Threads |-> IF t = "gui" THEN "off" ELSE "none"]
  /\ buf' = [t \in Threads |-> NoList]
  /\ lock' = "free" /\ achievements' = NoList /\ saved' = NoList /\ todo' = {}
  /\ running' = FALSE

\* The list is cleared, without the mutex.
LoadClear ==
  /\ pc["gui"] = "clear"
  /\ \/ /\ Goto("gui", "read")
        /\ achievements' = NoList
        /\ UNCHANGED <<buf, lock, saved, todo, running>>
     \/ ListMoves /\ Died
  /\ Record(IF pc["scan"] # "none" THEN {"reload"} ELSE {})
  /\ UNCHANGED <<disk, env, earned>>

\* The file is read and the directory looked up.
LoadRead(defined) ==
  /\ pc["gui"] = "read"
  /\ Goto("gui", "fill")
  /\ saved' = Load(file)
  /\ todo' = defined
  /\ Record(IF DOMAIN earned \subseteq defined THEN {} ELSE {"undefined"})
  /\ UNCHANGED <<buf, lock, achievements, running, disk, env, earned>>

\* One definition after the other is read and appended, without the mutex.
LoadDefinition(i) ==
  /\ pc["gui"] = "fill" /\ i \in todo
  /\ \/ /\ achievements' = [j \in DOMAIN achievements \cup {i} |->
                              IF j = i THEN Restored(i, saved) ELSE achievements[j]]
        /\ todo' = todo \ {i}
        /\ UNCHANGED <<pc, buf, lock, saved, running>>
     \/ ListMoves /\ Died
  /\ UNCHANGED <<disk, env, history>>

\* All definitions are read; start() does nothing if the thread runs already.
Start ==
  /\ pc["gui"] = "fill" /\ todo = {}
  /\ pc' = [pc EXCEPT !["gui"] = "lock", !["scan"] = IF running THEN @ ELSE "loop"]
  /\ running' = TRUE
  /\ saved' = NoList
  /\ UNCHANGED <<buf, lock, achievements, todo, disk, env, history>>

-------------------------------------------------------------------------------
(* scan_now, on the GUI thread or on the scan thread.                         *)

ScanLock_Always(t) ==
  /\ pc[t] = "lock"
  /\ lock' = t
  /\ Goto(t, "scan")
  /\ UNCHANGED <<buf, achievements, saved, todo, running, disk, env, history>>
ScanLock(t) ==
  /\ pc[t] = "lock" /\ lock = "free"
  /\ lock' = t
  /\ Goto(t, "scan")
  /\ UNCHANGED <<buf, achievements, saved, todo, running, disk, env, history>>

\* Every locked achievement is checked; some turn out to be due.
Check ==
  \E new \in SUBSET {i \in DOMAIN achievements : achievements[i] = 0 /\ TRUE \in Checks(i)} :
    /\ \A i \in DOMAIN achievements \ new : achievements[i] = 0 => FALSE \in Checks(i)
    /\ achievements' = [i \in DOMAIN achievements |->
                          IF i \in new THEN now ELSE achievements[i]]

\* The checks of a scan, and what is to be saved put together.
Scan_NoSave(t) ==
  /\ pc[t] = "scan"
  /\ Check
  /\ Goto(t, IF t = "gui" THEN "refresh" ELSE "sleep")
  /\ lock' = "free"
  /\ UNCHANGED <<buf, saved, todo, running, disk, env, history>>
Scan(t) ==
  /\ pc[t] = "scan"
  /\ Check
  /\ Goto(t, "open")
  /\ buf' = [buf EXCEPT ![t] = achievements']
  /\ UNCHANGED <<lock, saved, todo, running, disk, env, history>>

(* save_achievements, called by a scan or by the import.                      *)

\* Opening the file truncates it.
Truncate(t) ==
  /\ pc[t] = "open"
  /\ file' = Unreadable
  /\ Goto(t, "write")
  /\ Record(IF t = "scan" /\ Importing THEN {"overlap"} ELSE {})
  /\ UNCHANGED <<buf, lock, achievements, saved, todo, running, exported, env, earned>>

\* The mutex is released when a scan ends, and nothing when an import does.
Saved_KeepLock(t) ==
  /\ lock' = lock
  /\ Goto(t, IF t = "gui" THEN "refresh" ELSE "sleep")
Saved(t) ==
  /\ lock' = IF lock = t THEN "free" ELSE lock
  /\ Goto(t, IF t = "gui" THEN "refresh" ELSE "sleep")

\* What is written lands on the start of the file: if another thread wrote since it
\* was truncated, the rest of a longer text stays and the file does not parse.
WriteFile(t) ==
  /\ pc[t] = "write"
  /\ file' \in {buf[t]} \cup (IF file = Unreadable THEN {} ELSE {Unreadable})
  /\ earned' = IF lock # t THEN earned
               ELSE [i \in DOMAIN earned \cup Unlocked(buf[t]) |->
                       IF i \in DOMAIN earned THEN earned[i] ELSE buf[t][i]]
  /\ buf' = [buf EXCEPT ![t] = NoList]
  /\ Saved(t)
  /\ UNCHANGED <<achievements, saved, todo, running, exported, env, harm>>

\* The disk is full: save_achievements returns false, and nobody looks at it.
WriteFails(t) ==
  /\ pc[t] = "write" /\ faults < Faults
  /\ faults' = faults + 1
  /\ buf' = [buf EXCEPT ![t] = NoList]
  /\ Saved(t)
  /\ Record({"cut"})
  /\ UNCHANGED <<achievements, saved, todo, running, disk, now, launches, earned>>

-------------------------------------------------------------------------------
(* The scan thread's loop: scan_thread_func.                                  *)

ScanLoop ==
  /\ pc["scan"] = "loop"
  /\ Goto("scan", IF running THEN "lock" ELSE "none")
  /\ UNCHANGED <<buf, lock, achievements, saved, todo, running, disk, env, history>>

\* The interval has passed, or running_ is false.
Wake ==
  /\ pc["scan"] = "sleep"
  /\ Goto("scan", "loop")
  /\ UNCHANGED <<buf, lock, achievements, saved, todo, running, disk, env, history>>

-------------------------------------------------------------------------------
(* Handlers of the GUI thread.                                                *)

ScanNow ==
  /\ pc["gui"] = "idle"
  /\ Goto("gui", "lock")
  /\ UNCHANGED <<buf, lock, achievements, saved, todo, running, disk, env, history>>

\* refresh_achievements reads the list under the mutex.
Refresh ==
  /\ pc["gui"] = "refresh" /\ lock = "free"
  /\ Goto("gui", "idle")
  /\ UNCHANGED <<buf, lock, achievements, saved, todo, running, disk, env, history>>

\* The user has named a file to export to.
ExportTo ==
  /\ pc["gui"] = "idle"
  /\ Goto("gui", "export")
  /\ UNCHANGED <<buf, lock, achievements, saved, todo, running, disk, env, history>>

\* The list is read under the mutex; what is unlocked is exported.
Export ==
  /\ pc["gui"] = "export" /\ lock = "free"
  /\ exported' = [i \in Unlocked(achievements) |-> achievements[i]]
  /\ Goto("gui", "idle")
  /\ UNCHANGED <<buf, lock, achievements, saved, todo, running, file, env, history>>

\* What import_achievements may return: what the chosen file unlocks.
Imports == Foreign \cup {Load(exported)}

\* Import reads the chosen file, then the achievements file, and merges them, all
\* without the mutex; it does nothing for a file without achievements.
Import(other) ==
  /\ pc["gui"] = "idle" /\ DOMAIN other # {}
  /\ Goto("gui", "open")
  /\ buf' = [buf EXCEPT !["gui"] = Merged(Load(file), other)]
  /\ Record(IF pc["scan"] = "write" THEN {"overlap"} ELSE {})
  /\ UNCHANGED <<lock, achievements, saved, todo, running, disk, env, earned>>

\* The destructor of App stops the scanner ...
Quit ==
  /\ pc["gui"] = "idle"
  /\ running' = FALSE
  /\ Goto("gui", "join")
  /\ UNCHANGED <<buf, lock, achievements, saved, todo, disk, env, history>>

\* ... joins its thread, and the process ends.
Join ==
  /\ pc["gui"] = "join" /\ pc["scan"] = "none"
  /\ Died
  /\ UNCHANGED <<disk, env, history>>

-------------------------------------------------------------------------------
(* The environment.                                                           *)

\* The process is killed, perhaps between truncating and writing.
Kill ==
  /\ pc["gui"] # "off" /\ faults < Faults
  /\ faults' = faults + 1
  /\ Died
  /\ Record(IF \E t \in Threads : pc[t] = "write" THEN {"cut"} ELSE {})
  /\ UNCHANGED <<disk, now, launches, earned>>

Tick ==
  /\ now < MaxTime /\ now' = now + 1
  /\ UNCHANGED <<memory, disk, launches, faults, history>>

-------------------------------------------------------------------------------
ScanStep(t) ==
  ScanLock(t) \/ Scan(t) \/ Truncate(t) \/ WriteFile(t) \/ WriteFails(t)

\* What the GUI thread does by itself once a handler has begun.
Gui ==
  \/ LoadClear \/ (\E defined \in Installed : LoadRead(defined))
  \/ (\E i \in Ids : LoadDefinition(i)) \/ Start
  \/ ScanStep("gui") \/ Refresh \/ Export \/ Join

GuiLocks == ScanLock("gui") \/ Refresh \/ Export

ScanThread == ScanLoop \/ ScanStep("scan") \/ Wake

User ==
  \/ InitSession \/ ScanNow \/ ExportTo \/ Quit
  \/ \E other \in Imports : Import(other)

Next == Gui \/ ScanThread \/ User \/ Kill \/ Tick

Spec == Init /\ [][Next]_vars

\* Both threads run whenever they can, and the GUI thread, when it waits for the
\* mutex, gets it in the end: the scan thread sleeps between two scans.  The user
\* need not do anything.
FairSpec ==
  Spec /\ WF_vars(Gui) /\ WF_vars(ScanThread) /\ SF_vars(GuiLocks)

-------------------------------------------------------------------------------
(* Properties.                                                               *)

\* The GUI thread is where the list it works with is complete.
Loaded == pc["gui"] \notin {"off", "clear", "read", "fill"}
Writing == \E t \in Threads : pc[t] = "write"

\* What a scan has saved as unlocked stays unlocked, with the time of its first
\* unlocking, in the list and in the file, over scans, imports, restarts and kills
\* (passive_scanner.cpp:98-222, persistence.cpp:39-80, app.cpp:769-787), unless one
\* of four things has happened: the program was activated again while its scan
\* thread ran ("reload"), it was killed or failed between truncating the file and
\* writing it ("cut"), the definition has gone ("undefined"), or an import met a
\* scan's save ("overlap").
NothingLost ==
  harm = {} =>
    \A i \in DOMAIN earned :
      /\ Loaded => i \in DOMAIN achievements /\ achievements[i] = earned[i]
      /\ ~Writing => i \in DOMAIN Load(file) /\ Load(file)[i] = earned[i]

\* Whatever the GUI thread has begun ends: it gets the mutex although a scan holds it
\* while it checks and saves, and the end of the program waits only for the scan
\* under way (passive_scanner.cpp:166-181).
GuiReturns == (pc["gui"] \notin {"off", "idle"}) ~> (pc["gui"] \in {"off", "idle"})

SaveDisturbed == Importing /\ pc["scan"] = "write"

\* What every scan of this machine finds.
Due == {i \in Ids : TypeOf[i] = "always" \/ (TypeOf[i] = "cached" /\ i \in Traits)}

\* An achievement whose check always holds is in the file as unlocked in the end,
\* while the program runs: also when the list was loaded again under the scan thread,
\* and after a save that failed (passive_scanner.cpp:171-222); unless an import meets
\* the save, which the user may repeat for ever.
DueIsEarned ==
  \A i \in Due :
    (i \in DOMAIN achievements)
      ~> (\/ i \in Unlocked(Load(file))
          \/ i \notin DOMAIN achievements
          \/ SaveDisturbed)
===============================================================================
