--------------------------- MODULE FilePreserver ---------------------------
(***************************************************************************)
(* The preservation of a file under other names:                           *)
(* src/webapp-util/private/BaseFilePreserver.js with its subclasses        *)
(* src/webapp-util/export/Rotator.js and Saver.js (a Saver is a Rotator    *)
(* that makes no checks).                                                  *)
(*                                                                         *)
(* A preserver has a thread (Threadlet.tla) that waits to be told to save, *)
(* renames the file to a name with the day of its birth and a count, and   *)
(* deletes the oldest of the files so named.  Each step of the thread is   *)
(* what it does between two calls of the file system, any of which may     *)
(* fail.  Nobody else gives names like these to files or deletes them.     *)
(*                                                                         *)
(* Whoever writes the file is not in here: the actions take its contents.  *)
(***************************************************************************)
EXTENDS Integers, Sequences, FiniteSetsExt

CONSTANTS
  Configs,        \* the configurations to consider
  NoLimit,        \* stands for null as a limit
  MaxDay,         \* bound: days
  MaxFailures     \* bound: calls of the file system that fail

(* config.rotate and config.save; `checks` is whether there is a period for
   checks of the file's size against atSize. *)
Configurations ==
  [onStart : BOOLEAN, onStop : BOOLEAN, checks : BOOLEAN, atSize : Nat \ {0},
   maxOldCount : (Nat \ {0}) \union {NoLimit}, maxOldSize : (Nat \ {0}) \union {NoLimit}]

ASSUME PreserverAssumption ==
  /\ Configs \subseteq Configurations
  /\ NoLimit \notin Nat
  /\ MaxDay \in Nat \ {0}
  /\ MaxFailures \in Nat

VARIABLES
  config,         \* #config
  today,          \* the date
  born,           \* how many files have been born; the last is file number born
  current,        \* the file: its number and the day of its birth
  old,            \* the preserved files, by name
  caller,         \* where start() and stop() are
  worker,         \* where #run() is
  final,          \* is #run() in its one last round?
  stopRequested,  \* RunnerAccess.shouldStop()
  saveNow,        \* #saveNow
  lastName,       \* #lastInfix and #lastInfixCount
  target,         \* the day and, once known, the name that #preserve() is at
  doomed,         \* the files that #deleteOldFiles() is about to delete
  failures        \* history: calls of the file system that have failed

directory == <<today, born, current, old>>
thread == <<worker, final, stopRequested, saveNow, lastName, target, doomed>>
preserver == <<config, directory, caller, thread, failures>>

-----------------------------------------------------------------------------
(* What a file is called once it is preserved.                             *)
Names == [day : 1 .. MaxDay, count : Nat \ {0}]

NoName == [day |-> 0, count |-> 0]
NoFile == [number |-> 0, day |-> 0]
Exists == current.number # 0

(***************************************************************************)
(* "off"       before start()                                              *)
(* "starting"  in start(), at #saveNow.whenFalse()                         *)
(* "running"   start() has returned                                        *)
(* "stopping"  in stop(), at #saveNow.whenFalse()                          *)
(* "joining"   in stop(), at #runner.stop()                                *)
(* "stopped"   stop() has returned                                         *)
(* "failed"    stop() has thrown                                           *)
(***************************************************************************)
Places == {"off", "starting", "running", "stopping", "joining", "stopped", "failed"}

(***************************************************************************)
(* "off"        not started yet                                            *)
(* "working"    in _impl_doWork()                                          *)
(* "resting"    at raceWhenStopRequested()                                 *)
(* "statting"   in #preserve(), at its statElseNull()                      *)
(* "trying"     in #targetPath(), at fileExists()                          *)
(* "naming"     in #targetPath(), at #findFiles()                          *)
(* "renaming"   in #preserve(), at rename()                                *)
(* "finding"    in #deleteOldFiles(), at #findFiles()                      *)
(* "deleting"   in #deleteOldFiles(), at unlink()                          *)
(* "ended"      #run() has returned                                        *)
(* "failed"     #run() has thrown                                          *)
(***************************************************************************)
WorkerPlaces == {"off", "working", "resting", "statting", "trying", "naming",
                 "renaming", "finding", "deleting", "ended", "failed"}

PreserverTypeOK(Contents) ==
  /\ config \in Configs
  /\ today \in 1 .. MaxDay
  /\ born \in Nat
  /\ current \in [number : 0 .. born, day : 0 .. MaxDay]
  /\ DOMAIN old \subseteq Names
  /\ \A n \in DOMAIN old : old[n] \in [number : 1 .. born, contents : Contents]
  /\ caller \in Places
  /\ worker \in WorkerPlaces
  /\ final \in BOOLEAN /\ stopRequested \in BOOLEAN /\ saveNow \in BOOLEAN
  /\ lastName \in Names \union {NoName}
  /\ target \in [day : 0 .. MaxDay, count : Nat]
  /\ doomed \subseteq Names
  /\ failures \in Nat

(* Left to who composes: what is in the directory. *)
PreserverInit ==
  /\ config \in Configs
  /\ today = 1
  /\ caller = "off"
  /\ worker = "off"
  /\ final = FALSE /\ stopRequested = FALSE /\ saveNow = FALSE
  /\ lastName = NoName
  /\ target = NoName
  /\ doomed = {}
  /\ failures = 0

-----------------------------------------------------------------------------
(* A call of the file system succeeds or fails. *)
Outcome(ok) ==
  IF ok THEN UNCHANGED failures
  ELSE failures < MaxFailures /\ failures' = failures + 1

(* The file comes into being when it is first opened. *)
FileIsThere ==
  IF Exists THEN UNCHANGED <<born, current>>
  ELSE /\ born' = born + 1
       /\ current' = [number |-> born + 1, day |-> today]

NextDay ==
  /\ today < MaxDay
  /\ today' = today + 1
  /\ UNCHANGED <<config, born, current, old, caller, thread, failures>>

(* start(), after _prot_touchPath() *)
Start ==
  /\ caller = "off"
  /\ FileIsThere
  /\ worker' = "working"
  /\ saveNow' = config.onStart
  /\ caller' = IF config.onStart THEN "starting" ELSE "running"
  /\ UNCHANGED <<config, today, old, final, stopRequested, lastName, target, doomed,
                 failures>>

(* stop(), up to its first await.  A thread that has failed before cannot be
   asked to stop, and nobody is left to take a request to save back. *)
Stop ==
  /\ caller = "running"
  /\ saveNow' = (saveNow \/ config.onStop)
  /\ stopRequested' = (~config.onStop /\ worker # "failed")
  /\ caller' = IF config.onStop THEN "stopping"
               ELSE IF worker = "failed" THEN "stopped" ELSE "joining"
  /\ UNCHANGED <<config, directory, worker, final, lastName, target, doomed, failures>>

(* stop() goes on when the thread has ended; it throws what the thread has
   thrown. *)
Joined ==
  /\ caller = "joining"
  /\ worker \in {"ended", "failed"}
  /\ caller' = IF worker = "ended" THEN "stopped" ELSE "failed"
  /\ UNCHANGED <<config, directory, thread, failures>>

-----------------------------------------------------------------------------
(* #run(), after the saving: it waits, or is done. *)
Rest == worker' = IF final THEN "ended" ELSE "resting"

(* #preserve() returns: #saveNow is false, and start() or stop() goes on. *)
Saved ==
  /\ Rest
  /\ saveNow' = FALSE
  /\ caller' = CASE caller = "starting" -> "running"
                 [] caller = "stopping" -> "joining"
                 [] OTHER -> caller
  /\ stopRequested' = (stopRequested \/ caller = "stopping")

NotSaved(place) ==
  /\ worker' = place
  /\ UNCHANGED <<saveNow, caller, stopRequested>>

(* _impl_doWork() returns, the size of the file having been looked at if there
   are checks. *)
DoWork(size, ok) ==
  /\ worker = "working"
  /\ config.checks \/ ok
  /\ Outcome(ok)
  /\ saveNow' = (saveNow \/ (config.checks /\ ok /\ Exists /\ size >= config.atSize))
  /\ IF saveNow' THEN worker' = "statting" ELSE Rest
  /\ UNCHANGED <<config, directory, caller, final, stopRequested, lastName, target,
                 doomed>>

(* raceWhenStopRequested() returns: for a request to save or to stop, or when
   it is time for a check. *)
Wake ==
  /\ worker = "resting"
  /\ saveNow \/ stopRequested \/ config.checks
  /\ worker' = "working"
  /\ final' = stopRequested
  /\ UNCHANGED <<config, directory, caller, stopRequested, saveNow, lastName, target,
                 doomed, failures>>

(* #preserve(), from its statElseNull() on *)
Stat(size, ok) ==
  /\ worker = "statting"
  /\ Outcome(ok)
  /\ IF ok /\ Exists /\ size > 0
     THEN /\ target' = [day |-> current.day, count |-> 0]
          /\ NotSaved(IF lastName.day = current.day THEN "trying" ELSE "naming")
     ELSE Saved /\ UNCHANGED target
  /\ UNCHANGED <<config, directory, final, lastName, doomed>>

(* #targetPath(): the next count after the last one, if that is free *)
TryNext(ok) ==
  /\ worker = "trying"
  /\ Outcome(ok)
  /\ LET next == [target EXCEPT !.count = lastName.count + 1]
     IN  IF ok /\ next \notin DOMAIN old
         THEN target' = next /\ lastName' = next /\ NotSaved("renaming")
         ELSE /\ NotSaved(IF ok THEN "naming" ELSE "finding")
              /\ UNCHANGED <<target, lastName>>
  /\ UNCHANGED <<config, directory, final, doomed>>

(* The counts in use on a day *)
CountsOn(day) == {n.count : n \in {m \in DOMAIN old : m.day = day}}

(* Mutant of NextCount: the first count that is free. *)
NextCountFirstFree(day) == Min((1 .. Max(CountsOn(day) \union {0}) + 1) \ CountsOn(day))

NextCount(day) == Max(CountsOn(day) \union {0}) + 1

(* #targetPath(): the count after the highest one there is *)
FindName(ok) ==
  /\ worker = "naming"
  /\ Outcome(ok)
  /\ IF ok
     THEN /\ target' = [target EXCEPT !.count = NextCount(target.day)]
          /\ lastName' = target'
          /\ NotSaved("renaming")
     ELSE NotSaved("finding") /\ UNCHANGED <<target, lastName>>
  /\ UNCHANGED <<config, directory, final, doomed>>

(* #preserve(): the file gets its new name. *)
Rename(contents, ok) ==
  /\ worker = "renaming"
  /\ Outcome(ok)
  /\ IF ok
     THEN /\ old' = [n \in DOMAIN old \union {target} |->
                       IF n = target
                       THEN [number |-> current.number, contents |-> contents]
                       ELSE old[n]]
          /\ current' = NoFile
     ELSE UNCHANGED <<old, current>>
  /\ NotSaved("finding")
  /\ UNCHANGED <<config, today, born, final, lastName, target, doomed>>

-----------------------------------------------------------------------------
NoLimits == config.maxOldCount = NoLimit /\ config.maxOldSize = NoLimit

(* A file and those that are newer *)
SinceBirthOf(n) == {m \in DOMAIN old : old[m].number >= old[n].number}

Size(names) == Cardinality(UNION {{n} \X DOMAIN old[n].contents : n \in names})

(* Mutant of IsOverLimit: the file itself is not counted. *)
IsOverLimitWithout(n) ==
  \/ /\ config.maxOldCount # NoLimit
     /\ Cardinality(SinceBirthOf(n)) - 1 > config.maxOldCount
  \/ /\ config.maxOldSize # NoLimit
     /\ Size(SinceBirthOf(n)) > config.maxOldSize

IsOverLimit(n) ==
  \/ /\ config.maxOldCount # NoLimit
     /\ Cardinality(SinceBirthOf(n)) > config.maxOldCount
  \/ /\ config.maxOldSize # NoLimit
     /\ Size(SinceBirthOf(n)) > config.maxOldSize

(* #deleteOldFiles(): nothing to do, or the files have been found.  It is not
   within any `try`, so that an error ends the thread. *)
FindOldFiles(ok) ==
  /\ worker = "finding"
  /\ NoLimits => ok
  /\ Outcome(ok)
  /\ doomed' = IF ok /\ ~NoLimits THEN {n \in DOMAIN old : IsOverLimit(n)} ELSE {}
  /\ IF ~ok THEN NotSaved("failed")
     ELSE IF doomed' = {} THEN Saved ELSE NotSaved("deleting")
  /\ UNCHANGED <<config, directory, final, lastName, target>>

(* #deleteOldFiles(): one file after the other is deleted, the newest first. *)
Delete(n, ok) ==
  /\ worker = "deleting"
  /\ n \in doomed
  /\ \A m \in doomed : old[m].number <= old[n].number
  /\ Outcome(ok)
  /\ IF ok
     THEN /\ old' = [m \in DOMAIN old \ {n} |-> old[m]]
          /\ doomed' = doomed \ {n}
          /\ IF doomed' = {} THEN Saved ELSE NotSaved("deleting")
     ELSE NotSaved("failed") /\ UNCHANGED <<old, doomed>>
  /\ UNCHANGED <<config, today, born, current, final, lastName, target>>
=============================================================================
