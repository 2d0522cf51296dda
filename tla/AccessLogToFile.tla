-------------------------- MODULE AccessLogToFile --------------------------
(***************************************************************************)
(* The access log, src/webapp-builtins/export/AccessLogToFile.js: a        *)
(* service that puts a line per request into the buffer of a FileAppender, *)
(* while a Rotator moves the file that is written to out of the way and    *)
(* deletes old ones.  Neither knows of the other; they meet in the file    *)
(* system.                                                                 *)
(*                                                                         *)
(* The life of one service in one process.  Lines are numbered in the      *)
(* order in which they are logged; the first of them are those that are    *)
(* there, in old files and in the current one, when it starts.             *)
(***************************************************************************)
EXTENDS FileAppender, FilePreserver

CONSTANTS
  MaxOldFiles,    \* bound: old files at the beginning
  MaxLines        \* bound: lines

ASSUME LogAssumption == MaxOldFiles \in Nat /\ MaxLines \in Nat

VARIABLES
  logged,         \* history: the number of the last line
  opened,         \* the number of the file that the write in the air has opened
  deleted,        \* history: the lines that were in files that were deleted
  promised        \* history: lines to be preserved by onStart and onStop

vars == <<appender, preserver, logged, opened, deleted, promised>>
history == <<deleted, promised>>

Lines == 1 .. MaxLines

LinesOf(texts) == {texts[i] : i \in DOMAIN texts}

TypeOK ==
  /\ AppenderTypeOK(Lines, {1})
  /\ PreserverTypeOK(Seq(Lines))
  /\ logged \in 0 .. MaxLines
  /\ opened \in 0 .. born
  /\ deleted \subseteq Lines /\ promised \subseteq Lines

(* The directory as earlier services have left it: old files of the first
   day, the lowest counts of which may be gone, and perhaps a current file. *)
Init ==
  /\ mayBuffer \in BOOLEAN
  /\ buffered = <<>> /\ loop = "idle" /\ writeError = FALSE /\ inTheAir = {}
  /\ PreserverInit
  /\ \E n \in 0 .. MaxOldFiles, gap \in 0 .. 1, exists \in BOOLEAN, empty \in BOOLEAN :
       /\ old = [name \in [day : {1}, count : gap + 1 .. gap + n] |->
                   [number |-> name.count - gap, contents |-> <<name.count - gap>>]]
       /\ born = IF exists THEN n + 1 ELSE n
       /\ current = IF exists THEN [number |-> n + 1, day |-> 1] ELSE NoFile
       /\ logged = IF exists /\ ~empty THEN n + 1 ELSE n
       /\ file = IF exists /\ ~empty THEN <<n + 1>> ELSE <<>>
  /\ opened = 0
  /\ deleted = {}
  /\ promised = {}

-----------------------------------------------------------------------------
(* _impl_start() *)
StartLog ==
  /\ Start
  /\ promised' = IF config.onStart THEN LinesOf(file) ELSE {}
  /\ UNCHANGED <<appender, logged, opened, deleted>>

(* _impl_stop(): what is in the file by now is to be preserved, unless the
   thread has just preserved it and is about to forget that it was told so
   again. *)
StopLog ==
  /\ Stop
  /\ promised' = IF config.onStop /\ worker \notin {"finding", "deleting"}
                 THEN LinesOf(file) ELSE {}
  /\ UNCHANGED <<appender, logged, opened, deleted>>

(* _impl_handleEvent_requestEnded(): requests may still end when the service
   has been stopped. *)
RequestEnds ==
  /\ caller \notin {"off", "starting"}
  /\ logged < MaxLines
  /\ AppendText(1, logged + 1)
  /\ logged' = logged + 1
  /\ UNCHANGED <<preserver, opened, history>>

BufferTimeOver ==
  /\ TimerFires(1)
  /\ UNCHANGED <<preserver, logged, opened, history>>

(* fs.appendFile() opens the file, whichever has the name now. *)
OpenFile ==
  /\ inTheAir # {} /\ opened = 0
  /\ FileIsThere
  /\ opened' = current'.number
  /\ UNCHANGED <<appender, config, today, old, caller, thread, failures, logged, history>>

(* The text is in the file that was opened, under whatever name, if any. *)
WriteLands(texts) ==
  /\ file' = IF opened = current.number THEN file \o texts ELSE file
  /\ old' = [n \in DOMAIN old |->
               IF opened = old[n].number
               THEN [old[n] EXCEPT !.contents = @ \o texts] ELSE old[n]]
  /\ deleted' = IF opened = current.number \/ \E n \in DOMAIN old : opened = old[n].number
                THEN deleted ELSE deleted \union LinesOf(texts)

(* fs.appendFile() is done, or fails. *)
WriteEnds(ok) ==
  /\ opened # 0
  /\ \E w \in inTheAir :
       /\ LoopWriteReturns(1, w, ok)
       /\ IF ok THEN WriteLands(w.texts) ELSE UNCHANGED <<file, old, deleted>>
  /\ Outcome(ok)
  /\ opened' = 0
  /\ UNCHANGED <<config, today, born, current, caller, thread, logged, promised>>

-----------------------------------------------------------------------------
(* The steps of the preserver that leave the file and its lines alone *)
Preserve ==
  /\ \/ Wake \/ Joined
     \/ \E ok \in BOOLEAN :
          \/ DoWork(Len(file), ok) \/ Stat(Len(file), ok)
          \/ TryNext(ok) \/ FindName(ok) \/ FindOldFiles(ok)
  /\ UNCHANGED <<appender, logged, opened, history>>

RenameFile(ok) ==
  /\ Rename(file, ok)
  /\ file' = IF ok THEN <<>> ELSE file
  /\ UNCHANGED <<mayBuffer, buffered, loop, writeError, inTheAir>>
  /\ UNCHANGED <<logged, opened, history>>

DeleteFile(n, ok) ==
  /\ Delete(n, ok)
  /\ deleted' = IF ok THEN deleted \union LinesOf(old[n].contents) ELSE deleted
  /\ UNCHANGED <<appender, logged, opened, promised>>

DayPasses ==
  /\ NextDay
  /\ UNCHANGED <<appender, logged, opened, history>>

PreserverWorks ==
  \/ Preserve
  \/ \E ok \in BOOLEAN : RenameFile(ok) \/ \E n \in doomed : DeleteFile(n, ok)

AppenderWorks == BufferTimeOver \/ OpenFile \/ \E ok \in BOOLEAN : WriteEnds(ok)

Next ==
  \/ StartLog \/ StopLog
  \/ RequestEnds \/ AppenderWorks
  \/ PreserverWorks
  \/ DayPasses

(* Timers fire, and the file system answers. *)
Fairness == WF_vars(PreserverWorks) /\ WF_vars(AppenderWorks)

Spec == Init /\ [][Next]_vars /\ Fairness

-----------------------------------------------------------------------------
(* Likewise, in a preserved file *)
OldCopies(line) ==
  UNION {{<<"old", n, k>> : k \in Where(line, old[n].contents)} : n \in DOMAIN old}

TimesLogged(line) == Cardinality(Copies(line) \union OldCopies(line))

(* Rotation under the hands of the appender neither loses a line nor doubles *)
(* it: until a write fails, each is in one place, but for those that went    *)
(* with a file that was deleted.                                             *)
(* (BaseFilePreserver.js:257-283, FileAppender.js:132-164)                   *)
EveryLineOnce ==
  ~writeError =>
    \A i \in 1 .. logged : TimesLogged(i) = IF i \in deleted THEN 0 ELSE 1

Ascending(texts) == \A i, j \in DOMAIN texts : i < j => texts[i] < texts[j]
AllBefore(some, others) == \A i \in LinesOf(some), j \in LinesOf(others) : i < j
IsBefore(m, n) == m.day < n.day \/ (m.day = n.day /\ m.count < n.count)

(* The old files, by day and count, and then the current one are the log in  *)
(* its order, through days, restarts, failures and names that were given up. *)
(* (BaseFilePreserver.js:316-359)                                            *)
LinesInOrder ==
  /\ Ascending(file)
  /\ \A n \in DOMAIN old :
       /\ Ascending(old[n].contents)
       /\ AllBefore(old[n].contents, file)
       /\ \A m \in DOMAIN old :
            IsBefore(m, n) => AllBefore(old[m].contents, old[n].contents)

(* Once start() or stop() has returned, what was in the file when it was     *)
(* called is preserved if it should be, unless the file system has failed.   *)
(* (BaseFilePreserver.js:85-109, 285-314)                                    *)
SavedWhenTold ==
  failures = 0 /\ caller \in {"running", "joining", "stopped"}
    => promised \intersect LinesOf(file) = {}

(* The file and what was preserved of it are the log, whole and in order, and  *)
(* what should be preserved is: these three.                                   *)
LoggedOnceInOrder == EveryLineOnce /\ LinesInOrder /\ SavedWhenTold

WithinLimits ==
  /\ config.maxOldCount # NoLimit => Cardinality(DOMAIN old) <= config.maxOldCount
  /\ config.maxOldSize # NoLimit => Size(DOMAIN old \ {target}) <= config.maxOldSize

DeletedAreOlder ==
  \A n \in DOMAIN old : \A i \in deleted, j \in LinesOf(old[n].contents) : i < j

(* "The oldest files over the limit get deleted after a rotation": when the  *)
(* deletion is over, the limits are kept, and what was deleted is older than *)
(* what is left.  The file renamed last does not count for the size: a write *)
(* that had opened it before may still make it longer.                       *)
(* (BaseFilePreserver.js:154-183)                                            *)
OldestAreDeleted ==
  [][(worker \in {"finding", "deleting"} /\ worker' \in {"resting", "ended"})
       => WithinLimits' /\ DeletedAreOlder']_vars

(* stop() returns, unless the thread has died of a deletion that failed.     *)
(* (BaseFilePreserver.js:108-117, 285-314)                                   *)
StopReturns == caller \in {"stopping", "joining"} ~> caller \in {"stopped", "failed"} \/ worker = "failed"

(* The thread does all it has to: both of the above.                         *)
RotatesToTheEnd == OldestAreDeleted /\ StopReturns

(* A name that a file is given is later than all names of its day that are   *)
(* in use, so that no preserved file is ever overwritten: a name keeps its   *)
(* file until this is deleted.  (BaseFilePreserver.js:316-359)               *)
NothingOverwritten ==
  [][/\ \A n \in DOMAIN old' \ DOMAIN old, m \in DOMAIN old : m.day = n.day => m.count < n.count
     /\ \A n \in DOMAIN old \intersect DOMAIN old' : old'[n].number = old[n].number]_vars
=============================================================================
