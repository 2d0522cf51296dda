----------------------- MODULE AccessLogToFile_proofs -----------------------
(***************************************************************************)
(* Proofs about the access log and its preserved files, for any            *)
(* configurations and any number of days, files, lines and failures: no    *)
(* file is overwritten, each line is in one place and in order, what was   *)
(* promised is preserved, and the oldest files are those that are deleted. *)
(***************************************************************************)
EXTENDS AccessLogToFile, FiniteSetTheorems, WellFoundedInduction, TLAPS

-----------------------------------------------------------------------------
Days == Nat \ {0}

(* Days and counts are numbers, and there is a bound for the latter.       *)
NamesAreNumbers ==
  /\ today \in Days
  /\ Exists => current.day \in Days
  /\ target \in [day : Nat, count : Nat]
  /\ lastName \in [day : Nat, count : Nat]
  /\ \A n \in DOMAIN old : n.day \in Days /\ n.count \in Nat
  /\ \E k \in Nat : \A n \in DOMAIN old : n.count <= k

(* The name of a preserved file tells its number and its contents.         *)
FilesAreRecords ==
  \A n \in DOMAIN old :
    old[n] = [number |-> old[n].number, contents |-> old[n].contents]

(* The last name that was chosen is the latest of its day.                 *)
LastIsLatest ==
  \A n \in DOMAIN old : n.day = lastName.day => n.count <= lastName.count

(* What #preserve() is at: a name that is to be used is later than those    *)
(* in use.                                                                 *)
TargetIsLatest ==
  /\ worker \in {"trying", "naming"} => target.day \in Days
  /\ worker = "trying" => target.day = lastName.day
  /\ worker = "renaming" =>
       /\ target = lastName /\ target.day \in Days
       /\ \A n \in DOMAIN old : n.day = target.day => n.count < target.count

IInv == NamesAreNumbers /\ FilesAreRecords /\ LastIsLatest /\ TargetIsLatest

(* What a step may do to the directory                                     *)
KeepsFiles ==
  /\ \A n \in DOMAIN old' \ DOMAIN old, m \in DOMAIN old : m.day = n.day => m.count < n.count
  /\ \A n \in DOMAIN old \intersect DOMAIN old' : old'[n].number = old[n].number

-----------------------------------------------------------------------------
(* A set of natural numbers with a bound has a greatest one.               *)
LEMMA Greatest ==
  ASSUME NEW S \in SUBSET Nat, S # {}, NEW k \in Nat, \A n \in S : n <= k
  PROVE  Max(S) \in S /\ \A n \in S : n <= Max(S)
<1>. DEFINE LessThan == OpToRel(<, Nat)
            Distances == {d \in Nat : k - d \in S}
<1>1. \A x, y \in Nat : x < y => <<x, y>> \in LessThan
  BY DEF OpToRel
<1>. HIDE DEF LessThan
<1>2. IsWellFoundedOn(LessThan, Nat)
  BY NatLessThanWellFounded DEF LessThan
<1>3. Distances # {} /\ Distances \in SUBSET Nat
  <2>1. PICK n \in S : TRUE
    OBVIOUS
  <2>2. k - n \in Nat /\ k - (k - n) = n
    BY <2>1
  <2>. QED  BY <2>1, <2>2
<1>. HIDE DEF Distances
<1>4. \E m \in Distances : \A n \in Distances : ~ (<<n, m>> \in LessThan)
  BY <1>2, <1>3, WFMin
<1>5. PICK d \in Distances : \A n \in Distances : ~ (<<n, d>> \in LessThan)
  BY <1>4, Zenon
<1>6. \A n \in Distances : ~ (n < d)
  BY <1>1, <1>3, <1>5, Zenon
<1>7. k - d \in S /\ d \in Nat
  BY <1>5 DEF Distances
<1>8. \A n \in S : n <= k - d
  <2>. TAKE n \in S
  <2>1. n \in Nat /\ n <= k
    OBVIOUS
  <2>2. k - n \in Nat /\ k - (k - n) = n
    BY ONLY <2>1, k \in Nat
  <2>3. k - n \in Distances
    BY <2>2 DEF Distances
  <2>4. ~ (k - n < d)
    BY <1>6, <2>3, Zenon
  <2>. QED  BY ONLY <2>1, <2>4, <1>7, k \in Nat
<1>. DEFINE greatest(x) == x \in S /\ \A n \in S : x >= n
<1>9. \A n \in S : k - d >= n
  BY <1>7, <1>8
<1>10. greatest(k - d)
  BY <1>7, <1>9, Zenon
<1>11. Max(S) = CHOOSE x \in S : \A n \in S : x >= n
  BY Zenon DEF Max
<1>12. greatest(CHOOSE x : greatest(x))
  BY <1>10, Zenon
<1>13. Max(S) \in S /\ \A n \in S : Max(S) >= n
  BY <1>11, <1>12, Zenon
<1>. QED  BY <1>13

(* The count that is chosen for a day is greater than those in use.        *)
LEMMA NextCountIsGreater ==
  ASSUME IInv, NEW day
  PROVE  /\ NextCount(day) \in Nat
         /\ \A n \in DOMAIN old : n.day = day => n.count < NextCount(day)
<1>. DEFINE S == CountsOn(day) \union {0}
<1>1. PICK k \in Nat : \A n \in DOMAIN old : n.count <= k
  BY DEF IInv, NamesAreNumbers
<1>2. S \in SUBSET Nat /\ S # {} /\ \A x \in S : x <= k
  BY <1>1 DEF IInv, NamesAreNumbers, CountsOn
<1>3. \A n \in DOMAIN old : n.day = day => n.count \in S
  BY DEF CountsOn
<1>. HIDE DEF S
<1>4. Max(S) \in S /\ \A x \in S : x <= Max(S)
  BY <1>1, <1>2, Greatest
<1>5. NextCount(day) = Max(S) + 1
  BY DEF NextCount, S
<1>6. \A n \in DOMAIN old : n.day = day => n.count \in Nat /\ n.count <= Max(S)
  BY <1>2, <1>3, <1>4
<1>7. Max(S) \in Nat
  BY <1>2, <1>4
<1>8. NextCount(day) \in Nat
  BY ONLY <1>5, <1>7
<1>9. ASSUME NEW n \in DOMAIN old, n.day = day
      PROVE  n.count < NextCount(day)
  <2>1. n.count \in Nat /\ n.count <= Max(S)
    BY <1>6, <1>9, Zenon
  <2>. QED  BY ONLY <2>1, <1>5, <1>7
<1>. QED  BY <1>8, <1>9

-----------------------------------------------------------------------------
LEMMA InitIInv == Init => IInv
<1>. SUFFICES ASSUME Init PROVE IInv
  OBVIOUS
<1>1. PICK n \in 0 .. MaxOldFiles, gap \in 0 .. 1, exists \in BOOLEAN :
        /\ old = [name \in [day : {1}, count : gap + 1 .. gap + n] |->
                    [number |-> name.count - gap, contents |-> <<name.count - gap>>]]
        /\ current = IF exists THEN [number |-> n + 1, day |-> 1] ELSE NoFile
  BY DEF Init
<1>2. NamesAreNumbers
  <2>1. Exists => current.day \in Days
    BY <1>1 DEF Exists, NoFile, Days
  <2>2. \A m \in DOMAIN old : m.day = 1 /\ m.count \in Nat /\ m.count <= gap + n
    BY <1>1, LogAssumption
  <2>3. gap + n \in Nat
    BY <1>1, LogAssumption
  <2>. QED  BY <2>1, <2>2, <2>3 DEF NamesAreNumbers, Init, PreserverInit, NoName, Days
<1>3. FilesAreRecords
  BY <1>1 DEF FilesAreRecords
<1>4. LastIsLatest /\ TargetIsLatest
  BY <1>2 DEF LastIsLatest, TargetIsLatest, NamesAreNumbers, Days, Init, PreserverInit, NoName
<1>. QED  BY <1>2, <1>3, <1>4 DEF IInv

(* A step that leaves names alone, or takes some away, and the thread where *)
(* it is or at a place where no name is sought.                            *)
LEMMA NamesStay ==
  ASSUME IInv,
         DOMAIN old' \subseteq DOMAIN old,
         \A n \in DOMAIN old' : old'[n] = [number |-> old[n].number, contents |-> old'[n].contents],
         UNCHANGED <<target, lastName>>,
         today' \in Days, Exists' => current'.day \in Days,
         worker' = worker \/ worker' \notin {"trying", "naming", "renaming"}
  PROVE  IInv' /\ KeepsFiles
<1>1. NamesAreNumbers'
  BY DEF IInv, NamesAreNumbers
<1>2. FilesAreRecords'
  BY DEF FilesAreRecords
<1>3. LastIsLatest' /\ TargetIsLatest'
  BY DEF IInv, LastIsLatest, TargetIsLatest
<1>4. KeepsFiles
  BY DEF KeepsFiles
<1>. QED  BY <1>1, <1>2, <1>3, <1>4 DEF IInv

(* Nothing of what the names are about changes but the place of the thread. *)
LEMMA ThreadMoves ==
  ASSUME IInv, UNCHANGED <<old, target, lastName>>,
         UNCHANGED today, UNCHANGED current \/ FileIsThere,
         worker' = worker \/ worker' \notin {"trying", "naming", "renaming"}
  PROVE  IInv' /\ KeepsFiles
<1>1. today' \in Days /\ (Exists' => current'.day \in Days)
  BY DEF IInv, NamesAreNumbers, FileIsThere, Exists
<1>2. \A n \in DOMAIN old' :
        old'[n] = [number |-> old[n].number, contents |-> old'[n].contents]
  BY DEF IInv, FilesAreRecords
<1>. QED  BY <1>1, <1>2, NamesStay

-----------------------------------------------------------------------------
(* #targetPath(): the target, if one is found, becomes the last name.      *)
LEMMA NameIsChosen ==
  ASSUME IInv, UNCHANGED <<old, today, current>>,
         worker' = "renaming",
         target.day \in Days,
         NEW c \in Nat,
         target' = [target EXCEPT !.count = c], lastName' = target',
         \A n \in DOMAIN old : n.day = target.day => n.count < c
  PROVE  IInv' /\ KeepsFiles
<1>1. target'.day = target.day /\ target'.count = c /\ target' \in [day : Nat, count : Nat]
  BY DEF IInv, NamesAreNumbers
<1>2. NamesAreNumbers'
  BY <1>1 DEF IInv, NamesAreNumbers, Exists
<1>3. FilesAreRecords'
  BY DEF IInv, FilesAreRecords
<1>4. \A n \in DOMAIN old : n.day = target.day => n.count <= c
  BY DEF IInv, NamesAreNumbers
<1>5. LastIsLatest'
  BY <1>1, <1>4 DEF LastIsLatest
<1>6. TargetIsLatest'
  BY <1>1 DEF TargetIsLatest
<1>7. KeepsFiles
  BY DEF KeepsFiles
<1>. QED  BY <1>2, <1>3, <1>5, <1>6, <1>7 DEF IInv

LEMMA TryNextKeeps ==
  ASSUME IInv, NEW ok \in BOOLEAN, TryNext(ok), UNCHANGED <<appender, logged, opened, history>>
  PROVE  IInv' /\ KeepsFiles
<1>. DEFINE next == [target EXCEPT !.count = lastName.count + 1]
<1>1. UNCHANGED <<old, today, current>> /\ worker = "trying"
  BY DEF TryNext, directory
<1>2. target.day = lastName.day /\ target.day \in Days /\ lastName.count \in Nat
  BY <1>1 DEF IInv, TargetIsLatest, NamesAreNumbers
<1>3. CASE target' = next /\ lastName' = next /\ worker' = "renaming"
  <2>1. \A n \in DOMAIN old : n.day = target.day => n.count < lastName.count + 1
    BY <1>2 DEF IInv, LastIsLatest, NamesAreNumbers
  <2>2. lastName.count + 1 \in Nat
    BY <1>2
  <2>3. target' = [target EXCEPT !.count = lastName.count + 1] /\ lastName' = target'
    BY <1>3
  <2>. HIDE DEF next
  <2>. QED  BY <1>1, <1>2, <1>3, <2>1, <2>2, <2>3, NameIsChosen
<1>4. CASE UNCHANGED <<target, lastName>> /\ worker' = "finding"
  BY <1>1, <1>4, ThreadMoves
<1>5. CASE UNCHANGED <<target, lastName>> /\ worker' = "naming"
  BY <1>1, <1>2, <1>5 DEF IInv, NamesAreNumbers, Exists, FilesAreRecords, LastIsLatest,
     TargetIsLatest, KeepsFiles
<1>. QED  BY <1>3, <1>4, <1>5 DEF TryNext, NotSaved

LEMMA FindNameKeeps ==
  ASSUME IInv, NEW ok \in BOOLEAN, FindName(ok)
  PROVE  IInv' /\ KeepsFiles
<1>1. UNCHANGED <<old, today, current>> /\ target.day \in Days
  BY DEF FindName, directory, IInv, TargetIsLatest
<1>2. CASE ok
  <2>1. /\ target' = [target EXCEPT !.count = NextCount(target.day)]
        /\ lastName' = target' /\ worker' = "renaming"
    BY <1>2 DEF FindName, NotSaved
  <2>2. /\ NextCount(target.day) \in Nat
        /\ \A n \in DOMAIN old : n.day = target.day => n.count < NextCount(target.day)
    BY NextCountIsGreater
  <2>. QED  BY <1>1, <2>1, <2>2, NameIsChosen
<1>3. CASE ~ok
  BY <1>1, <1>3, ThreadMoves DEF FindName, NotSaved
<1>. QED  BY <1>2, <1>3

(* #preserve() up to its first look at names: where it goes depends on the *)
(* last of them.                                                           *)
LEMMA StatKeeps ==
  ASSUME IInv, NEW size, NEW ok \in BOOLEAN, Stat(size, ok)
  PROVE  IInv' /\ KeepsFiles
<1>1. UNCHANGED <<old, today, current, lastName>>
  BY DEF Stat, directory
<1>2. CASE /\ Exists /\ target' = [day |-> current.day, count |-> 0]
           /\ worker' = IF lastName.day = current.day THEN "trying" ELSE "naming"
  <2>1. target'.day = current.day /\ current.day \in Days
    BY <1>2 DEF IInv, NamesAreNumbers
  <2>2. NamesAreNumbers'
    BY <1>1, <1>2, <2>1 DEF IInv, NamesAreNumbers, Exists, Days
  <2>3. TargetIsLatest'
    BY <1>1, <1>2, <2>1 DEF TargetIsLatest
  <2>. QED  BY <1>1, <2>2, <2>3 DEF IInv, FilesAreRecords, LastIsLatest, KeepsFiles
<1>3. CASE UNCHANGED target /\ Rest
  BY <1>1, <1>3, ThreadMoves DEF Rest
<1>. QED  BY <1>2, <1>3 DEF Stat, NotSaved, Saved

(* The renaming: the new name is later than all others of its day.         *)
LEMMA RenameKeeps ==
  ASSUME IInv, NEW contents, NEW ok \in BOOLEAN, Rename(contents, ok)
  PROVE  IInv' /\ KeepsFiles
<1>1. UNCHANGED <<today, target, lastName>> /\ worker = "renaming" /\ worker' = "finding"
  BY DEF Rename, NotSaved
<1>2. CASE ~ok
  BY <1>1, <1>2, ThreadMoves DEF Rename
<1>3. CASE ok
  <2>1. /\ DOMAIN old' = DOMAIN old \union {target}
        /\ old'[target] = [number |-> current.number, contents |-> contents]
        /\ \A n \in DOMAIN old : n # target => old'[n] = old[n]
        /\ current' = NoFile
    BY <1>3 DEF Rename
  <2>2. /\ target = lastName /\ target.day \in Days /\ target.count \in Nat
        /\ \A n \in DOMAIN old : n.day = target.day => n.count < target.count
    BY <1>1 DEF IInv, TargetIsLatest, NamesAreNumbers
  <2>3. target \notin DOMAIN old
    BY <2>2 DEF IInv, NamesAreNumbers
  <2>4. \E k \in Nat : \A n \in DOMAIN old' : n.count <= k
    <3>1. PICK k \in Nat : \A n \in DOMAIN old : n.count <= k
      BY DEF IInv, NamesAreNumbers
    <3>2. \A n \in DOMAIN old : n.count <= k + target.count
      BY <3>1, <2>2 DEF IInv, NamesAreNumbers
    <3>3. target.count <= k + target.count /\ k + target.count \in Nat
      BY <3>1, <2>2
    <3>. QED  BY <2>1, <3>2, <3>3
  <2>5. NamesAreNumbers'
    BY <1>1, <2>1, <2>2, <2>4 DEF IInv, NamesAreNumbers, Exists, NoFile
  <2>6. FilesAreRecords'
    BY <2>1 DEF IInv, FilesAreRecords
  <2>7. LastIsLatest'
    BY <1>1, <2>1, <2>2 DEF IInv, LastIsLatest, NamesAreNumbers
  <2>8. TargetIsLatest'
    BY <1>1 DEF TargetIsLatest
  <2>9. KeepsFiles
    BY <2>1, <2>2, <2>3 DEF KeepsFiles
  <2>. QED  BY <2>5, <2>6, <2>7, <2>8, <2>9 DEF IInv
<1>. QED  BY <1>2, <1>3

LEMMA DeleteKeeps ==
  ASSUME IInv, NEW n \in doomed, NEW ok \in BOOLEAN, Delete(n, ok)
  PROVE  IInv' /\ KeepsFiles
<1>1. UNCHANGED <<today, current, target, lastName>>
  BY DEF Delete
<1>2. worker' \notin {"trying", "naming", "renaming"}
  BY DEF Delete, Saved, Rest, NotSaved
<1>3. DOMAIN old' \subseteq DOMAIN old /\ \A m \in DOMAIN old' : old'[m] = old[m]
  BY DEF Delete
<1>4. today' \in Days /\ (Exists' => current'.day \in Days)
  BY <1>1 DEF IInv, NamesAreNumbers, Exists
<1>5. \A m \in DOMAIN old' :
        old'[m] = [number |-> old[m].number, contents |-> old'[m].contents]
  BY <1>3 DEF IInv, FilesAreRecords
<1>. QED  BY <1>1, <1>2, <1>3, <1>4, <1>5, NamesStay

LEMMA WithOtherContents ==
  ASSUME NEW r, NEW a, NEW b, NEW x, r = [number |-> a, contents |-> b]
  PROVE  [r EXCEPT !.contents = x]
           = [number |-> a, contents |-> [r EXCEPT !.contents = x].contents]
  OBVIOUS

(* A write changes contents only.                                          *)
LEMMA WriteKeeps ==
  ASSUME IInv, NEW ok \in BOOLEAN, WriteEnds(ok)
  PROVE  IInv' /\ KeepsFiles
<1>1. UNCHANGED <<today, current, thread>>
  BY DEF WriteEnds
<1>2. UNCHANGED <<target, lastName, worker>>
  BY <1>1 DEF thread
<1>3. /\ DOMAIN old' = DOMAIN old
      /\ \A n \in DOMAIN old' :
           old'[n] = [number |-> old[n].number, contents |-> old'[n].contents]
  <2>1. CASE UNCHANGED old
    BY <2>1 DEF IInv, FilesAreRecords
  <2>2. ASSUME NEW texts, WriteLands(texts)
        PROVE  /\ DOMAIN old' = DOMAIN old
               /\ \A n \in DOMAIN old' :
                    old'[n] = [number |-> old[n].number, contents |-> old'[n].contents]
    <3>1. old' = [n \in DOMAIN old |->
                    IF opened = old[n].number
                    THEN [old[n] EXCEPT !.contents = @ \o texts] ELSE old[n]]
      BY <2>2 DEF WriteLands
    <3>2. ASSUME NEW n \in DOMAIN old
          PROVE  old'[n] = [number |-> old[n].number, contents |-> old'[n].contents]
      <4>1. old[n] = [number |-> old[n].number, contents |-> old[n].contents]
        BY DEF IInv, FilesAreRecords
      <4>2. \/ old'[n] = [old[n] EXCEPT !.contents = old[n].contents \o texts]
            \/ old'[n] = old[n]
        BY <3>1
      <4>. QED  BY <4>1, <4>2, WithOtherContents
    <3>. QED  BY <3>1, <3>2
  <2>3. UNCHANGED old \/ \E w \in inTheAir : WriteLands(w.texts)
    BY Zenon DEF WriteEnds
  <2>4. CASE \E w \in inTheAir : WriteLands(w.texts)
    <3>1. PICK w \in inTheAir : WriteLands(w.texts)
      BY <2>4
    <3>. QED  BY <2>2, <3>1, Zenon
  <2>. QED  BY <2>1, <2>3, <2>4, Zenon
<1>4. today' \in Days /\ (Exists' => current'.day \in Days)
  BY <1>1 DEF IInv, NamesAreNumbers, Exists
<1>. QED  BY <1>2, <1>3, <1>4, NamesStay

-----------------------------------------------------------------------------
LEMMA StepKeeps ==
  ASSUME IInv, [Next]_vars
  PROVE  IInv' /\ KeepsFiles
<1>. USE DEF preserver, directory, thread
<1>1. CASE UNCHANGED vars
  BY <1>1, ThreadMoves DEF vars
<1>2. CASE StartLog
  BY <1>2, ThreadMoves DEF StartLog, Start
<1>3. CASE StopLog
  BY <1>3, ThreadMoves DEF StopLog, Stop
<1>4. CASE RequestEnds
  BY <1>4, ThreadMoves DEF RequestEnds
<1>5. CASE BufferTimeOver
  BY <1>5, ThreadMoves DEF BufferTimeOver
<1>6. CASE OpenFile
  BY <1>6, ThreadMoves DEF OpenFile
<1>7. ASSUME NEW ok \in BOOLEAN, WriteEnds(ok) PROVE IInv' /\ KeepsFiles
  BY <1>7, WriteKeeps
<1>8. CASE Wake \/ Joined
  BY <1>8, ThreadMoves DEF Wake, Joined
<1>9. ASSUME NEW ok \in BOOLEAN, Preserve,
             \/ DoWork(Len(file), ok) \/ Stat(Len(file), ok)
             \/ TryNext(ok) \/ FindName(ok) \/ FindOldFiles(ok)
      PROVE  IInv' /\ KeepsFiles
  <2>1. CASE DoWork(Len(file), ok)
    BY <2>1, ThreadMoves DEF DoWork, Rest
  <2>2. CASE Stat(Len(file), ok)
    BY <2>2, StatKeeps
  <2>3. CASE TryNext(ok)
    BY <2>3, <1>9, TryNextKeeps DEF Preserve
  <2>4. CASE FindName(ok)
    BY <2>4, FindNameKeeps
  <2>5. CASE FindOldFiles(ok)
    BY <2>5, ThreadMoves DEF FindOldFiles, Saved, NotSaved, Rest
  <2>. QED  BY <1>9, <2>1, <2>2, <2>3, <2>4, <2>5
<1>10. ASSUME NEW ok \in BOOLEAN, RenameFile(ok) PROVE IInv' /\ KeepsFiles
  BY <1>10, RenameKeeps DEF RenameFile
<1>11. ASSUME NEW ok \in BOOLEAN, NEW n \in doomed, DeleteFile(n, ok)
       PROVE  IInv' /\ KeepsFiles
  BY <1>11, DeleteKeeps DEF DeleteFile
<1>12. CASE DayPasses
  BY <1>12, NamesStay DEF DayPasses, NextDay, IInv, NamesAreNumbers, FilesAreRecords,
     Days, Exists
<1>. QED
  BY <1>1, <1>2, <1>3, <1>4, <1>5, <1>6, <1>7, <1>8, <1>9, <1>10, <1>11, <1>12
  DEF Next, AppenderWorks, PreserverWorks, Preserve

(* Whatever is renamed, deleted, or still written to, and whichever calls  *)
(* of the file system fail: a name that #targetPath() chooses is later than *)
(* all others of its day, and the file under a name stays the same until   *)
(* it is deleted.                                                          *)
THEOREM KeepsPreserved == Spec => NothingOverwritten
<1>1. IInv /\ [Next]_vars => [KeepsFiles]_vars
  BY StepKeeps
<1>2. [KeepsFiles]_vars =>
        [/\ \A n \in DOMAIN old' \ DOMAIN old, m \in DOMAIN old : m.day = n.day => m.count < n.count
         /\ \A n \in DOMAIN old \intersect DOMAIN old' : old'[n].number = old[n].number]_vars
  BY DEF KeepsFiles
<1>3. IInv /\ [Next]_vars => IInv'
  BY StepKeeps
<1>. QED  BY InitIInv, <1>1, <1>2, <1>3, PTL DEF Spec, NothingOverwritten

-----------------------------------------------------------------------------
(* The lines.  The pieces of the log are the contents of the old files, by *)
(* number, the file, the one write in the air and the buffer.              *)
Writes == [owner : {1}, by : Writers, texts : Seq(Nat)]

LineTypes ==
  /\ file \in Seq(Nat) /\ buffered \in Seq(Nat) /\ inTheAir \subseteq Writes
  /\ \A n \in DOMAIN old : old[n].contents \in Seq(Nat)
  /\ logged \in Nat /\ born \in Nat /\ failures \in Nat

(* The file that exists, and the one that has been opened, is the last that *)
(* was born; the old ones have their numbers in the order of their names.  *)
FilesAreNumbered ==
  /\ IF Exists THEN current.number = born /\ current.day <= today ELSE file = <<>>
  /\ opened # 0 => opened = born
  /\ worker \in {"trying", "naming", "renaming"} => Exists /\ target.day = current.day
  /\ \A n \in DOMAIN old :
       /\ old[n].number \in Nat /\ old[n].number <= born /\ n.day <= today
       /\ Exists => old[n].number < born /\ n.day <= current.day
  /\ \A m, n \in DOMAIN old :
       /\ IsBefore(m, n) => old[m].number < old[n].number
       /\ m # n => old[m].number # old[n].number

OneWrite ==
  /\ caller = "off" => worker = "off" /\ buffered = <<>> /\ inTheAir = {}
  /\ opened # 0 => inTheAir # {}
  /\ inTheAir # {} => loop = "writing"
  /\ \A v, w \in inTheAir : v = w

(* The lines of each piece come before those of the next.                  *)
InRows(o, f, air, b) ==
  /\ Ascending(f) /\ Ascending(b) /\ AllBefore(f, b)
  /\ \A w \in air : Ascending(w.texts) /\ AllBefore(f, w.texts) /\ AllBefore(w.texts, b)
  /\ \A n \in DOMAIN o :
       /\ Ascending(o[n].contents) /\ AllBefore(o[n].contents, f) /\ AllBefore(o[n].contents, b)
       /\ \A w \in air : AllBefore(o[n].contents, w.texts)
  /\ \A m, n \in DOMAIN o :
       o[m].number < o[n].number => AllBefore(o[m].contents, o[n].contents)

IsHeld(i, o, f, air, b) ==
  \/ i \in LinesOf(f) \/ i \in LinesOf(b)
  \/ \E w \in air : i \in LinesOf(w.texts)
  \/ \E n \in DOMAIN o : i \in LinesOf(o[n].contents)
IsHeldNow(i) == IsHeld(i, old, file, inTheAir, buffered)

(* What has been logged is held or was deleted, until a write fails.       *)
Whole ==
  /\ \A i : IsHeldNow(i) => i \in 1 .. logged /\ i \notin deleted
  /\ deleted \subseteq 1 .. logged
  /\ ~writeError => \A i \in 1 .. logged : i \in deleted \/ IsHeldNow(i)

(* What is promised is no longer to come, and it is not in the file either *)
(* when #deleteOldFiles() is at work.                                      *)
Kept ==
  /\ promised \subseteq 1 .. logged
  /\ promised \intersect LinesOf(buffered) = {}
  /\ \A w \in inTheAir : promised \intersect LinesOf(w.texts) = {}
  /\ failures = 0 /\ worker \in {"finding", "deleting"} => promised \intersect LinesOf(file) = {}
  /\ SavedWhenTold

LInv ==
  /\ LineTypes /\ FilesAreNumbered /\ OneWrite
  /\ InRows(old, file, inTheAir, buffered)
  /\ Whole /\ Kept

-----------------------------------------------------------------------------
(* Pieces, one behind the other.                                           *)
LEMMA NoLines ==
  /\ <<>> \in Seq(Nat) /\ LinesOf(<<>>) = {} /\ Ascending(<<>>)
  /\ \A t : AllBefore(<<>>, t) /\ AllBefore(t, <<>>)
<1>1. <<>> \in Seq(Nat)
  OBVIOUS
<1>. QED  BY <1>1 DEF LinesOf, Ascending, AllBefore

LEMMA LinesAreNumbers ==
  ASSUME NEW s \in Seq(Nat) PROVE LinesOf(s) \subseteq Nat
  BY DEF LinesOf

LEMMA Behind ==
  ASSUME NEW s \in Seq(Nat), NEW t \in Seq(Nat)
  PROVE  /\ s \o t \in Seq(Nat)
         /\ DOMAIN s = 1 .. Len(s) /\ DOMAIN t = 1 .. Len(t)
         /\ DOMAIN (s \o t) = 1 .. Len(s) + Len(t) /\ Len(s) \in Nat /\ Len(t) \in Nat
         /\ \A k \in 1 .. Len(s) : (s \o t)[k] = s[k]
         /\ \A k \in 1 .. Len(t) : (s \o t)[Len(s) + k] = t[k]
         /\ \A k \in DOMAIN (s \o t) :
              \/ k \in 1 .. Len(s) /\ (s \o t)[k] = s[k]
              \/ k - Len(s) \in 1 .. Len(t) /\ (s \o t)[k] = t[k - Len(s)]
  OBVIOUS

LEMMA LinesBehind ==
  ASSUME NEW s \in Seq(Nat), NEW t \in Seq(Nat)
  PROVE  s \o t \in Seq(Nat) /\ LinesOf(s \o t) = LinesOf(s) \union LinesOf(t)
<1>1. ASSUME NEW k \in DOMAIN s PROVE s[k] \in LinesOf(s \o t)
  <2>1. k \in DOMAIN (s \o t) /\ (s \o t)[k] = s[k]
    BY Behind
  <2>. QED  BY <2>1 DEF LinesOf
<1>2. ASSUME NEW k \in DOMAIN t PROVE t[k] \in LinesOf(s \o t)
  <2>1. Len(s) + k \in DOMAIN (s \o t) /\ (s \o t)[Len(s) + k] = t[k]
    BY Behind
  <2>. QED  BY <2>1 DEF LinesOf
<1>3. ASSUME NEW k \in DOMAIN (s \o t) PROVE (s \o t)[k] \in LinesOf(s) \union LinesOf(t)
  <2>1. CASE k \in DOMAIN s /\ (s \o t)[k] = s[k]
    BY <2>1 DEF LinesOf
  <2>2. CASE k - Len(s) \in DOMAIN t /\ (s \o t)[k] = t[k - Len(s)]
    BY <2>2 DEF LinesOf
  <2>. QED  BY <2>1, <2>2, Behind
<1>4. LinesOf(s) \subseteq LinesOf(s \o t) /\ LinesOf(t) \subseteq LinesOf(s \o t)
  BY <1>1, <1>2 DEF LinesOf
<1>5. LinesOf(s \o t) \subseteq LinesOf(s) \union LinesOf(t)
  BY <1>3 DEF LinesOf
<1>. QED  BY <1>4, <1>5, Behind

LEMMA AscendingBehind ==
  ASSUME NEW s \in Seq(Nat), NEW t \in Seq(Nat),
         Ascending(s), Ascending(t), AllBefore(s, t)
  PROVE  Ascending(s \o t)
<1>. SUFFICES ASSUME NEW j \in DOMAIN (s \o t), NEW k \in DOMAIN (s \o t), j < k
              PROVE  (s \o t)[j] < (s \o t)[k]
  BY DEF Ascending
<1>1. j \in Nat /\ k \in Nat /\ Len(s) \in Nat /\ DOMAIN s = 1 .. Len(s)
  BY Behind
<1>2. CASE j \in DOMAIN s /\ (s \o t)[j] = s[j]
  <2>1. CASE k \in DOMAIN s /\ (s \o t)[k] = s[k]
    BY <1>2, <2>1 DEF Ascending
  <2>2. CASE k - Len(s) \in DOMAIN t /\ (s \o t)[k] = t[k - Len(s)]
    BY <1>2, <2>2 DEF AllBefore, LinesOf
  <2>. QED  BY <2>1, <2>2, Behind
<1>3. CASE j - Len(s) \in DOMAIN t /\ (s \o t)[j] = t[j - Len(s)]
  <2>1. CASE k \in DOMAIN s /\ (s \o t)[k] = s[k]
    <3>1. j > Len(s)
      BY <1>1, <1>3, Behind
    <3>. QED  BY <1>1, <2>1, <3>1
  <2>2. CASE k - Len(s) \in DOMAIN t /\ (s \o t)[k] = t[k - Len(s)]
    <3>1. j - Len(s) < k - Len(s)
      BY <1>1
    <3>. QED  BY <1>3, <2>2, <3>1 DEF Ascending
  <2>. QED  BY <2>1, <2>2, Behind
<1>. QED  BY <1>2, <1>3, Behind

LEMMA LineAppended ==
  ASSUME NEW s \in Seq(Nat), NEW x \in Nat, Ascending(s), \A i \in LinesOf(s) : i < x
  PROVE  /\ Append(s, x) \in Seq(Nat) /\ Ascending(Append(s, x))
         /\ LinesOf(Append(s, x)) = LinesOf(s) \union {x}
<1>1. Append(s, x) = s \o <<x>> /\ <<x>> \in Seq(Nat)
  OBVIOUS
<1>2. LinesOf(<<x>>) = {x} /\ Ascending(<<x>>)
  BY DEF LinesOf, Ascending
<1>3. Ascending(s \o <<x>>)
  <2>1. AllBefore(s, <<x>>)
    BY <1>2 DEF AllBefore
  <2>. QED  BY <1>1, <1>2, <2>1, AscendingBehind
<1>. QED  BY <1>1, <1>2, <1>3, LinesBehind

-----------------------------------------------------------------------------
(* A line that comes after all others is appended to the buffer.           *)
LEMMA RowsGrow ==
  ASSUME NEW o, NEW f, NEW air, NEW b \in Seq(Nat), NEW x \in Nat,
         InRows(o, f, air, b), \A i : IsHeld(i, o, f, air, b) => i < x
  PROVE  /\ InRows(o, f, air, Append(b, x))
         /\ \A i : IsHeld(i, o, f, air, Append(b, x)) <=> IsHeld(i, o, f, air, b) \/ i = x
<1>1. Ascending(Append(b, x)) /\ LinesOf(Append(b, x)) = LinesOf(b) \union {x}
  BY LineAppended DEF InRows, IsHeld
<1>. DEFINE c == Append(b, x)
<1>. HIDE DEF c
<1>2. Ascending(c) /\ LinesOf(c) = LinesOf(b) \union {x}
  BY <1>1 DEF c
<1>3. /\ AllBefore(f, c)
      /\ \A w \in air : AllBefore(w.texts, c)
      /\ \A n \in DOMAIN o : AllBefore(o[n].contents, c)
  BY <1>2 DEF InRows, IsHeld, AllBefore
<1>4. InRows(o, f, air, c)
  BY <1>2, <1>3 DEF InRows
<1>5. \A i : IsHeld(i, o, f, air, c) <=> IsHeld(i, o, f, air, b) \/ i = x
  BY <1>2 DEF IsHeld
<1>. QED  BY <1>4, <1>5 DEF c

(* What was in the buffer goes into the air, where nothing else is.        *)
LEMMA RowsHandedOn ==
  ASSUME NEW o, NEW f, NEW b, NEW w, w.texts = b, InRows(o, f, {}, b)
  PROVE  /\ InRows(o, f, {w}, <<>>)
         /\ \A i : IsHeld(i, o, f, {w}, <<>>) <=> IsHeld(i, o, f, {}, b)
<1>1. InRows(o, f, {w}, <<>>)
  BY NoLines DEF InRows
<1>2. \A i : IsHeld(i, o, f, {w}, <<>>) <=> IsHeld(i, o, f, {}, b)
  BY NoLines DEF IsHeld
<1>. QED  BY <1>1, <1>2

(* The write in the air fails.                                             *)
LEMMA RowsLost ==
  ASSUME NEW o, NEW f, NEW b, NEW w, InRows(o, f, {w}, b)
  PROVE  /\ InRows(o, f, {}, b)
         /\ \A i : IsHeld(i, o, f, {}, b) => IsHeld(i, o, f, {w}, b)
<1>1. InRows(o, f, {}, b)
  BY DEF InRows
<1>2. \A i : IsHeld(i, o, f, {}, b) => IsHeld(i, o, f, {w}, b)
  BY DEF IsHeld
<1>. QED  BY <1>1, <1>2

(* The write in the air ends in the file.                                  *)
LEMMA RowsLanded ==
  ASSUME NEW o, NEW f \in Seq(Nat), NEW b, NEW w, w.texts \in Seq(Nat),
         InRows(o, f, {w}, b)
  PROVE  /\ InRows(o, f \o w.texts, {}, b)
         /\ \A i : IsHeld(i, o, f \o w.texts, {}, b) <=> IsHeld(i, o, f, {w}, b)
<1>. DEFINE g == f \o w.texts
<1>1. LinesOf(g) = LinesOf(f) \union LinesOf(w.texts)
  BY LinesBehind
<1>2. Ascending(g)
  BY AscendingBehind DEF InRows
<1>. HIDE DEF g
<1>3. AllBefore(g, b) /\ \A n \in DOMAIN o : AllBefore(o[n].contents, g)
  BY <1>1 DEF InRows, AllBefore
<1>4. InRows(o, g, {}, b)
  BY <1>2, <1>3 DEF InRows
<1>5. \A i : IsHeld(i, o, g, {}, b) <=> IsHeld(i, o, f, {w}, b)
  BY <1>1 DEF IsHeld
<1>. QED  BY <1>4, <1>5 DEF g

(* The write in the air ends in an old file, the last that was born; the   *)
(* file has not come into being again.                                     *)
LEMMA RowsLandedInOld ==
  ASSUME NEW o, NEW p, NEW b, NEW w, w.texts \in Seq(Nat),
         NEW t \in DOMAIN o,
         \A n \in DOMAIN o : o[n].contents \in Seq(Nat) /\ o[n].number \in Nat,
         \A n \in DOMAIN o : n # t => o[n].number < o[t].number,
         DOMAIN p = DOMAIN o,
         \A n \in DOMAIN o : p[n].number = o[n].number,
         \A n \in DOMAIN o : n # t => p[n].contents = o[n].contents,
         p[t].contents = o[t].contents \o w.texts,
         InRows(o, <<>>, {w}, b)
  PROVE  /\ InRows(p, <<>>, {}, b)
         /\ \A i : IsHeld(i, p, <<>>, {}, b) <=> IsHeld(i, o, <<>>, {w}, b)
<1>1. LinesOf(p[t].contents) = LinesOf(o[t].contents) \union LinesOf(w.texts)
  BY LinesBehind
<1>2. Ascending(p[t].contents)
  BY AscendingBehind DEF InRows
<1>3. \A n \in DOMAIN p : Ascending(p[n].contents) /\ AllBefore(p[n].contents, b)
  <2>1. AllBefore(p[t].contents, b)
    BY <1>1 DEF InRows, AllBefore
  <2>. QED  BY <1>2, <2>1 DEF InRows
<1>4. ASSUME NEW m \in DOMAIN p, NEW n \in DOMAIN p, p[m].number < p[n].number
      PROVE  AllBefore(p[m].contents, p[n].contents)
  <2>1. m # t /\ o[m].number < o[n].number
    BY <1>4
  <2>2. AllBefore(o[m].contents, o[n].contents) /\ AllBefore(o[m].contents, w.texts)
    BY <2>1 DEF InRows
  <2>. QED  BY <1>1, <2>1, <2>2 DEF AllBefore
<1>5. InRows(p, <<>>, {}, b)
  BY <1>3, <1>4, NoLines DEF InRows
<1>6. \A i : (\E n \in DOMAIN p : i \in LinesOf(p[n].contents))
               <=> (\E n \in DOMAIN o : i \in LinesOf(o[n].contents)) \/ i \in LinesOf(w.texts)
  BY <1>1
<1>7. \A i : IsHeld(i, p, <<>>, {}, b) <=> IsHeld(i, o, <<>>, {w}, b)
  BY <1>6 DEF IsHeld
<1>. QED  BY <1>5, <1>7

(* The file becomes an old one, with a number greater than theirs.         *)
LEMMA RowsRenamed ==
  ASSUME NEW o, NEW p, NEW f, NEW air, NEW b, NEW t, t \notin DOMAIN o,
         DOMAIN p = DOMAIN o \union {t}, \A n \in DOMAIN o : p[n] = o[n],
         p[t].contents = f,
         \A n \in DOMAIN o : o[n].number \in Nat /\ o[n].number < p[t].number,
         p[t].number \in Nat,
         InRows(o, f, air, b)
  PROVE  /\ InRows(p, <<>>, air, b)
         /\ \A i : IsHeld(i, p, <<>>, air, b) <=> IsHeld(i, o, f, air, b)
<1>1. \A n \in DOMAIN p :
        /\ Ascending(p[n].contents) /\ AllBefore(p[n].contents, b)
        /\ \A w \in air : AllBefore(p[n].contents, w.texts)
  BY DEF InRows
<1>2. ASSUME NEW m \in DOMAIN p, NEW n \in DOMAIN p, p[m].number < p[n].number
      PROVE  AllBefore(p[m].contents, p[n].contents)
  <2>1. CASE m = t
    BY <1>2, <2>1
  <2>2. CASE m # t /\ n = t
    BY <2>2 DEF InRows
  <2>3. CASE m # t /\ n # t
    BY <1>2, <2>3 DEF InRows
  <2>. QED  BY <2>1, <2>2, <2>3
<1>3. InRows(p, <<>>, air, b)
  BY <1>1, <1>2, NoLines DEF InRows
<1>4. \A i : (\E n \in DOMAIN p : i \in LinesOf(p[n].contents))
               <=> (\E n \in DOMAIN o : i \in LinesOf(o[n].contents)) \/ i \in LinesOf(f)
  OBVIOUS
<1>5. \A i : IsHeld(i, p, <<>>, air, b) <=> IsHeld(i, o, f, air, b)
  BY <1>4, NoLines DEF IsHeld
<1>. QED  BY <1>3, <1>5

(* An old file is deleted.                                                 *)
LEMMA RowsDeleted ==
  ASSUME NEW o, NEW p, NEW f, NEW air, NEW b, NEW t \in DOMAIN o,
         DOMAIN p = DOMAIN o \ {t}, \A n \in DOMAIN p : p[n] = o[n],
         InRows(o, f, air, b)
  PROVE  /\ InRows(p, f, air, b)
         /\ \A i : IsHeld(i, p, f, air, b) => IsHeld(i, o, f, air, b)
         /\ \A i : IsHeld(i, o, f, air, b) =>
                     IsHeld(i, p, f, air, b) \/ i \in LinesOf(o[t].contents)
<1>1. InRows(p, f, air, b)
  BY DEF InRows
<1>2. \A i : IsHeld(i, p, f, air, b) => IsHeld(i, o, f, air, b)
  BY DEF IsHeld
<1>3. \A i : IsHeld(i, o, f, air, b) => IsHeld(i, p, f, air, b) \/ i \in LinesOf(o[t].contents)
  BY DEF IsHeld
<1>. QED  BY <1>1, <1>2, <1>3

(* A line of the write in the air is nowhere else, nor is one of an old    *)
(* file.                                                                   *)
LEMMA OnlyInAir ==
  ASSUME NEW o, NEW f, NEW b, NEW w, w.texts \in Seq(Nat), f \in Seq(Nat),
         InRows(o, f, {w}, b), NEW i \in LinesOf(w.texts)
  PROVE  ~ IsHeld(i, o, f, {}, b)
<1>1. i \in Nat
  BY LinesAreNumbers
<1>. QED  BY <1>1 DEF InRows, IsHeld, AllBefore

LEMMA OnlyInOld ==
  ASSUME NEW o, NEW p, NEW f, NEW air, NEW b, NEW t \in DOMAIN o,
         o[t].contents \in Seq(Nat),
         DOMAIN p = DOMAIN o \ {t}, \A n \in DOMAIN p : p[n] = o[n],
         \A n \in DOMAIN p : o[n].number < o[t].number \/ o[t].number < o[n].number,
         InRows(o, f, air, b), NEW i \in LinesOf(o[t].contents)
  PROVE  ~ IsHeld(i, p, f, air, b)
<1>1. i \in Nat
  BY LinesAreNumbers
<1>2. \A n \in DOMAIN p : i \notin LinesOf(p[n].contents)
  BY <1>1 DEF InRows, AllBefore
<1>. QED  BY <1>1, <1>2 DEF InRows, IsHeld, AllBefore

-----------------------------------------------------------------------------
(* Steps that leave all lines where they are.                              *)
LEMMA OutcomeFact ==
  ASSUME failures \in Nat, NEW ok \in BOOLEAN, Outcome(ok)
  PROVE  /\ failures' \in Nat
         /\ failures' = 0 => failures = 0
         /\ ~ok => failures' # 0
  BY DEF Outcome

LEMMA LinesRest ==
  ASSUME LInv,
         UNCHANGED <<file, buffered, inTheAir, loop, writeError, old, logged, deleted>>,
         caller' = "off" => caller = "off" /\ worker' = worker,
         opened' = opened \/ inTheAir # {}
  PROVE  OneWrite' /\ InRows(old, file, inTheAir, buffered)' /\ Whole'
<1>1. OneWrite'
  BY DEF LInv, OneWrite
<1>2. InRows(old, file, inTheAir, buffered)'
  BY DEF LInv
<1>3. Whole'
  <2>1. \A i : IsHeldNow(i)' <=> IsHeldNow(i)
    BY DEF IsHeldNow
  <2>. QED  BY <2>1 DEF LInv, Whole
<1>. QED  BY <1>1, <1>2, <1>3

LEMMA TypesRest ==
  ASSUME LInv, UNCHANGED <<file, buffered, inTheAir, old, logged>>,
         born' \in Nat, failures' \in Nat
  PROVE  LineTypes'
  BY DEF LInv, LineTypes

LEMMA NumbersRest ==
  ASSUME LInv, UNCHANGED <<today, born, current, old, opened, file>>,
         worker' \in {"trying", "naming", "renaming"} => Exists /\ target'.day = current.day
  PROVE  FilesAreNumbered'
<1>1. Exists' <=> Exists
  BY DEF Exists
<1>. QED  BY <1>1 DEF LInv, FilesAreNumbered

LEMMA KeptRests ==
  ASSUME LInv, UNCHANGED <<file, buffered, inTheAir, logged, promised>>,
         failures' = 0 => failures = 0,
         failures' = 0 /\ worker' \in {"finding", "deleting"} => worker \in {"finding", "deleting"},
         failures' = 0 /\ caller' \in {"running", "joining", "stopped"} =>
           \/ caller \in {"running", "joining", "stopped"}
           \/ worker \in {"finding", "deleting"}
           \/ file = <<>>
  PROVE  Kept'
<1>1. /\ promised' \subseteq 1 .. logged'
      /\ promised' \intersect LinesOf(buffered') = {}
      /\ \A w \in inTheAir' : promised' \intersect LinesOf(w.texts) = {}
  BY DEF LInv, Kept
<1>2. failures' = 0 /\ worker' \in {"finding", "deleting"} => promised \intersect LinesOf(file) = {}
  BY DEF LInv, Kept
<1>3. SavedWhenTold'
  <2>1. file = <<>> => promised \intersect LinesOf(file) = {}
    BY NoLines
  <2>. QED  BY <2>1 DEF LInv, Kept, SavedWhenTold
<1>. QED  BY <1>1, <1>2, <1>3 DEF Kept

(* The file is there from now on, if it was not: nothing else is born since. *)
LEMMA FileComesIntoBeing ==
  ASSUME IInv, LInv, FileIsThere, UNCHANGED <<today, old, file>>,
         opened' = opened \/ opened' = current'.number,
         Exists \/ opened = 0 \/ opened' = current'.number,
         worker' \notin {"trying", "naming", "renaming"} \/ (UNCHANGED worker /\ UNCHANGED target)
  PROVE  FilesAreNumbered' /\ born' \in Nat
<1>1. born \in Nat /\ today \in Nat
  BY DEF LInv, LineTypes, IInv, NamesAreNumbers, Days
<1>2. CASE Exists
  <2>1. UNCHANGED <<born, current>> /\ Exists'
    BY <1>2 DEF FileIsThere, Exists
  <2>. QED  BY <1>1, <1>2, <2>1 DEF LInv, FilesAreNumbered
<1>3. CASE ~Exists
  <2>1. born' = born + 1 /\ current'.number = born' /\ current'.day = today /\ Exists'
    BY <1>1, <1>3 DEF FileIsThere, Exists
  <2>2. worker' \notin {"trying", "naming", "renaming"}
    BY <1>3 DEF LInv, FilesAreNumbered
  <2>3. \A n \in DOMAIN old : n.day \in Nat
    BY DEF IInv, NamesAreNumbers, Days
  <2>4. \A n \in DOMAIN old : old[n].number \in Nat /\ old[n].number < born' /\ n.day <= today
    BY <1>1, <2>1 DEF LInv, FilesAreNumbered
  <2>5. opened' # 0 => opened' = born'
    BY <1>3, <2>1
  <2>6. \A m, n \in DOMAIN old :
          /\ IsBefore(m, n) => old[m].number < old[n].number
          /\ m # n => old[m].number # old[n].number
    BY DEF LInv, FilesAreNumbered
  <2>7. \A n \in DOMAIN old : old[n].number <= born'
    BY <1>1, <2>1, <2>4
  <2>. QED  BY <1>1, <2>1, <2>2, <2>4, <2>5, <2>6, <2>7 DEF FilesAreNumbered
<1>. QED  BY <1>2, <1>3

LEMMA StartLines == ASSUME IInv, LInv, StartLog PROVE LInv'
<1>1. /\ FileIsThere /\ caller = "off" /\ worker' = "working" /\ worker = "off"
      /\ caller' = IF config.onStart THEN "starting" ELSE "running"
      /\ UNCHANGED <<today, old, failures, appender, logged, opened, deleted>>
      /\ promised' = IF config.onStart THEN LinesOf(file) ELSE {}
      /\ inTheAir = {} /\ buffered = <<>> /\ opened = 0
  BY DEF StartLog, Start, LInv, OneWrite
<1>2. UNCHANGED <<file, buffered, inTheAir, loop, writeError>>
  BY <1>1 DEF appender
<1>3. FilesAreNumbered' /\ born' \in Nat
  BY <1>1, <1>2, FileComesIntoBeing
<1>4. LineTypes'
  BY <1>1, <1>2, <1>3, TypesRest DEF LInv, LineTypes
<1>5. OneWrite' /\ InRows(old, file, inTheAir, buffered)' /\ Whole'
  BY <1>1, <1>2, LinesRest
<1>6. Kept'
  <2>1. LinesOf(file) \subseteq 1 .. logged
    BY DEF LInv, Whole, IsHeldNow, IsHeld
  <2>. QED  BY <1>1, <1>2, <2>1, NoLines DEF Kept, SavedWhenTold
<1>. QED  BY <1>3, <1>4, <1>5, <1>6 DEF LInv

LEMMA StopLines == ASSUME IInv, LInv, StopLog PROVE LInv'
<1>1. /\ caller = "running" /\ worker' = worker
      /\ caller' \in {"stopping", "stopped", "joining"}
      /\ caller' # "stopping" => ~config.onStop
      /\ UNCHANGED <<today, born, current, old, target, failures, appender, logged, opened, deleted>>
      /\ promised' = IF config.onStop /\ worker \notin {"finding", "deleting"}
                     THEN LinesOf(file) ELSE {}
  BY DEF StopLog, Stop, directory
<1>2. UNCHANGED <<file, buffered, inTheAir, loop, writeError>>
  BY <1>1 DEF appender
<1>3. FilesAreNumbered'
  BY <1>1, <1>2, NumbersRest DEF LInv, FilesAreNumbered
<1>4. LineTypes'
  BY <1>1, <1>2, TypesRest DEF LInv, LineTypes
<1>5. OneWrite' /\ InRows(old, file, inTheAir, buffered)' /\ Whole'
  BY <1>1, <1>2, LinesRest
<1>6. Kept'
  <2>1. LinesOf(file) \subseteq 1 .. logged
    BY DEF LInv, Whole, IsHeldNow, IsHeld
  <2>2. file \in Seq(Nat)
    BY DEF LInv, LineTypes
  <2>3. \A i \in LinesOf(file) : i \notin LinesOf(buffered) /\ \A w \in inTheAir : i \notin LinesOf(w.texts)
    <3>1. \A i \in LinesOf(file) : i \in Nat
      BY <2>2, LinesAreNumbers
    <3>. QED  BY <3>1 DEF LInv, InRows, AllBefore
  <2>. QED  BY <1>1, <1>2, <2>1, <2>3 DEF Kept, SavedWhenTold
<1>. QED  BY <1>3, <1>4, <1>5, <1>6 DEF LInv

LEMMA OpenLines == ASSUME IInv, LInv, OpenFile PROVE LInv'
<1>1. /\ inTheAir # {} /\ opened = 0 /\ FileIsThere /\ opened' = current'.number
      /\ UNCHANGED <<today, old, caller, thread, failures, appender, logged, history>>
  BY DEF OpenFile
<1>2. /\ UNCHANGED <<file, buffered, inTheAir, loop, writeError>>
      /\ UNCHANGED <<worker, target, deleted, promised>>
  BY <1>1 DEF appender, thread, history
<1>3. FilesAreNumbered' /\ born' \in Nat
  BY <1>1, <1>2, FileComesIntoBeing
<1>4. LineTypes'
  BY <1>1, <1>2, <1>3, TypesRest DEF LInv, LineTypes
<1>5. OneWrite' /\ InRows(old, file, inTheAir, buffered)' /\ Whole'
  BY <1>1, <1>2, LinesRest
<1>6. Kept'
  BY <1>1, <1>2, KeptRests
<1>. QED  BY <1>3, <1>4, <1>5, <1>6 DEF LInv

LEMMA DayLines == ASSUME IInv, LInv, DayPasses PROVE LInv'
<1>1. /\ today' = today + 1 /\ today \in Nat
      /\ UNCHANGED <<born, current, old, caller, worker, target, failures, appender, logged,
                     opened, deleted, promised>>
  BY DEF DayPasses, NextDay, thread, history, IInv, NamesAreNumbers, Days
<1>2. UNCHANGED <<file, buffered, inTheAir, loop, writeError>>
  BY <1>1 DEF appender
<1>3. FilesAreNumbered'
  <2>1. Exists' <=> Exists
    BY <1>1 DEF Exists
  <2>2. /\ Exists => current.day \in Nat
        /\ \A n \in DOMAIN old : n.day \in Nat
    BY DEF IInv, NamesAreNumbers, Days
  <2>. QED  BY <1>1, <1>2, <2>1, <2>2 DEF LInv, FilesAreNumbered
<1>4. LineTypes'
  BY <1>1, <1>2, TypesRest DEF LInv, LineTypes
<1>5. OneWrite' /\ InRows(old, file, inTheAir, buffered)' /\ Whole'
  BY <1>1, <1>2, LinesRest
<1>6. Kept'
  BY <1>1, <1>2, KeptRests
<1>. QED  BY <1>3, <1>4, <1>5, <1>6 DEF LInv

(* The thread of the preserver goes from place to place.  It only finds it *)
(* has nothing to do when the file is empty, or not there, and goes on to  *)
(* the deletion without a renaming only after a failure.                   *)
LEMMA PreserveLines == ASSUME IInv, LInv, Preserve PROVE LInv'
<1>1. /\ UNCHANGED <<appender, logged, opened, history>>
      /\ UNCHANGED <<file, buffered, inTheAir, loop, writeError, deleted, promised>>
  BY DEF Preserve, appender, history
<1>2. failures \in Nat /\ file \in Seq(Nat)
  BY DEF LInv, LineTypes
<1>. DEFINE Rests ==
       /\ UNCHANGED <<today, born, current, old>>
       /\ failures' \in Nat /\ (failures' = 0 => failures = 0)
       /\ caller' = "off" => caller = "off" /\ worker' = worker
       /\ worker' \in {"trying", "naming", "renaming"} => Exists /\ target'.day = current.day
       /\ failures' = 0 /\ worker' \in {"finding", "deleting"} => worker \in {"finding", "deleting"}
       /\ failures' = 0 /\ caller' \in {"running", "joining", "stopped"} =>
            \/ caller \in {"running", "joining", "stopped"}
            \/ worker \in {"finding", "deleting"}
            \/ file = <<>>
<1>3. Rests
  <2>0. caller = "off" => worker = "off"
    BY DEF LInv, OneWrite
  <2>1. CASE Wake \/ Joined
    BY <1>2, <2>0, <2>1 DEF Wake, Joined, directory, thread
  <2>2. ASSUME NEW ok \in BOOLEAN, DoWork(Len(file), ok)
        PROVE  Rests
    BY <1>2, <2>0, <2>2, OutcomeFact DEF DoWork, Rest, directory
  <2>3. ASSUME NEW ok \in BOOLEAN, Stat(Len(file), ok)
        PROVE  Rests
    <3>1. /\ UNCHANGED <<today, born, current, old>> /\ worker = "statting" /\ Outcome(ok)
      BY <2>3 DEF Stat, directory
    <3>2. /\ failures' \in Nat /\ (failures' = 0 => failures = 0) /\ (~ok => failures' # 0)
      BY <1>2, <3>1, OutcomeFact
    <3>3. CASE ok /\ Exists /\ Len(file) > 0
      <4>1. /\ target' = [day |-> current.day, count |-> 0]
            /\ worker' \in {"trying", "naming"} /\ caller' = caller
        BY <2>3, <3>3 DEF Stat, NotSaved
      <4>2. target'.day = current.day
        BY <4>1
      <4>. QED  BY <2>0, <3>1, <3>2, <3>3, <4>1, <4>2
    <3>4. CASE ~ (ok /\ Exists /\ Len(file) > 0)
      <4>1. /\ worker' \in {"ended", "resting"}
            /\ caller' = caller \/ caller' \in {"running", "joining"}
        BY <2>3, <3>4 DEF Stat, Saved, Rest
      <4>2. ok => file = <<>>
        BY <1>2, <3>4 DEF LInv, FilesAreNumbered
      <4>. QED  BY <2>0, <3>1, <3>2, <4>1, <4>2
    <3>. QED  BY <3>3, <3>4
  <2>4. ASSUME NEW ok \in BOOLEAN, TryNext(ok) \/ FindName(ok)
        PROVE  Rests
    <3>1. /\ UNCHANGED <<today, born, current, old>> /\ Outcome(ok)
          /\ worker \in {"trying", "naming"} /\ caller' = caller
      BY <2>4 DEF TryNext, FindName, NotSaved, directory
    <3>2. /\ failures' \in Nat /\ (failures' = 0 => failures = 0) /\ (~ok => failures' # 0)
      BY <1>2, <3>1, OutcomeFact
    <3>3. target'.day = target.day
      <4>1. target \in [day : Nat, count : Nat]
        BY DEF IInv, NamesAreNumbers
      <4>2. \A c : [target EXCEPT !.count = c].day = target.day
        BY <4>1
      <4>3. CASE TryNext(ok)
        <5>1. \/ target' = target
              \/ target' = [target EXCEPT !.count = lastName.count + 1]
          BY <4>3 DEF TryNext
        <5>. QED  BY <4>2, <5>1
      <4>4. CASE FindName(ok)
        <5>1. \/ target' = target
              \/ target' = [target EXCEPT !.count = NextCount(target.day)]
          BY <4>4 DEF FindName
        <5>. QED  BY <4>2, <5>1
      <4>. QED  BY <2>4, <4>3, <4>4
    <3>4. /\ worker' \in {"renaming", "naming", "finding"}
          /\ worker' = "finding" => ~ok
      BY <2>4 DEF TryNext, FindName, NotSaved
    <3>5. Exists /\ target.day = current.day
      BY <3>1 DEF LInv, FilesAreNumbered
    <3>. QED  BY <2>0, <3>1, <3>2, <3>3, <3>4, <3>5
  <2>5. ASSUME NEW ok \in BOOLEAN, FindOldFiles(ok)
        PROVE  Rests
    <3>1. /\ UNCHANGED <<today, born, current, old>> /\ Outcome(ok) /\ worker = "finding"
          /\ worker' \in {"failed", "ended", "resting", "deleting"}
          /\ caller' = caller \/ caller' \in {"running", "joining"}
      BY <2>5 DEF FindOldFiles, NotSaved, Saved, Rest, directory
    <3>. QED  BY <1>2, <2>0, <3>1, OutcomeFact
  <2>. QED  BY <2>1, <2>2, <2>3, <2>4, <2>5 DEF Preserve
<1>4. FilesAreNumbered'
  BY <1>1, <1>3, NumbersRest
<1>5. LineTypes'
  BY <1>1, <1>3, TypesRest DEF LInv, LineTypes
<1>6. OneWrite' /\ InRows(old, file, inTheAir, buffered)' /\ Whole'
  BY <1>1, <1>3, LinesRest
<1>7. Kept'
  BY <1>1, <1>3, KeptRests
<1>. QED  BY <1>4, <1>5, <1>6, <1>7 DEF LInv

(* The file becomes an old one, and nothing is left of its name.           *)
LEMMA RenameLines == ASSUME IInv, LInv, NEW ok \in BOOLEAN, RenameFile(ok) PROVE LInv'
<1>1. /\ worker = "renaming" /\ worker' = "finding" /\ Outcome(ok)
      /\ UNCHANGED <<today, born, caller, target, buffered, inTheAir, loop, writeError, logged,
                     opened, deleted, promised>>
  BY DEF RenameFile, Rename, NotSaved, history
<1>2. failures' \in Nat /\ (failures' = 0 => failures = 0) /\ (~ok => failures' # 0)
  BY <1>1, OutcomeFact DEF LInv, LineTypes
<1>3. CASE ~ok
  <2>1. UNCHANGED <<old, current, file>>
    BY <1>3 DEF RenameFile, Rename
  <2>2. FilesAreNumbered'
    BY <1>1, <2>1, NumbersRest
  <2>3. LineTypes'
    BY <1>1, <1>2, <2>1, TypesRest DEF LInv, LineTypes
  <2>4. OneWrite' /\ InRows(old, file, inTheAir, buffered)' /\ Whole'
    BY <1>1, <2>1, LinesRest DEF LInv, OneWrite
  <2>5. Kept'
    BY <1>1, <1>2, <1>3, <2>1, KeptRests
  <2>. QED  BY <2>2, <2>3, <2>4, <2>5 DEF LInv
<1>4. CASE ok
  <2>1. /\ DOMAIN old' = DOMAIN old \union {target}
        /\ old'[target] = [number |-> current.number, contents |-> file]
        /\ \A n \in DOMAIN old : n # target => old'[n] = old[n]
        /\ current' = NoFile /\ file' = <<>>
    BY <1>4 DEF RenameFile, Rename
  <2>2. /\ Exists /\ target.day = current.day /\ current.number = born /\ current.day <= today
        /\ \A n \in DOMAIN old :
             /\ old[n].number \in Nat /\ old[n].number < born
             /\ n.day <= target.day /\ n.day <= today
    BY <1>1 DEF LInv, FilesAreNumbered
  <2>3. /\ target.day \in Nat /\ target.count \in Nat
        /\ \A n \in DOMAIN old :
             /\ n.day \in Nat /\ n.count \in Nat
             /\ n.day = target.day => n.count < target.count
    BY <1>1 DEF IInv, TargetIsLatest, NamesAreNumbers, Days
  <2>4. target \notin DOMAIN old
    BY <2>3
  <2>5. old'[target].number = born /\ old'[target].contents = file /\ born \in Nat
    BY <2>1, <2>2 DEF LInv, LineTypes
  <2>6. \A n \in DOMAIN old : old'[n] = old[n]
    BY <2>1, <2>4
  <2>7. /\ InRows(old', <<>>, inTheAir, buffered)
        /\ \A i : IsHeld(i, old', <<>>, inTheAir, buffered) <=> IsHeldNow(i)
    <3>1. InRows(old, file, inTheAir, buffered)
      BY DEF LInv
    <3>2. \A n \in DOMAIN old : old[n].number \in Nat /\ old[n].number < old'[target].number
      BY <2>2, <2>5
    <3>3. old'[target].number \in Nat
      BY <2>5
    <3>4. PICK p : p = old'
      OBVIOUS
    <3>5. /\ DOMAIN p = DOMAIN old \union {target} /\ p[target].contents = file
          /\ \A n \in DOMAIN old : p[n] = old[n]
          /\ \A n \in DOMAIN old : old[n].number \in Nat /\ old[n].number < p[target].number
          /\ p[target].number \in Nat
      BY <2>1, <2>5, <2>6, <3>2, <3>3, <3>4
    <3>6. /\ InRows(p, <<>>, inTheAir, buffered)
          /\ \A i : IsHeld(i, p, <<>>, inTheAir, buffered) <=>
                       IsHeld(i, old, file, inTheAir, buffered)
      BY <2>4, <3>1, <3>5, RowsRenamed
    <3>. QED  BY <3>4, <3>6 DEF IsHeldNow
  <2>8. LineTypes'
    <3>1. \A n \in DOMAIN old' : old'[n].contents \in Seq(Nat)
      BY <2>1, <2>5, <2>6 DEF LInv, LineTypes
    <3>. QED  BY <1>1, <1>2, <2>1, <3>1, NoLines DEF LInv, LineTypes
  <2>9. FilesAreNumbered'
    <3>1. ~Exists'
      BY <2>1 DEF Exists, NoFile
    <3>2. \A n \in DOMAIN old :
            ~ IsBefore(target, n) /\ old'[n].number < old'[target].number
      BY <2>2, <2>3, <2>5, <2>6 DEF IsBefore
    <3>3. ~ IsBefore(target, target)
      BY <2>3 DEF IsBefore
    <3>4. \A n \in DOMAIN old' : old'[n].number \in Nat /\ old'[n].number <= born /\ n.day <= today
      BY <2>1, <2>2, <2>5, <2>6
    <3>5. \A m, n \in DOMAIN old' :
            /\ IsBefore(m, n) => old'[m].number < old'[n].number
            /\ m # n => old'[m].number # old'[n].number
      <4>. SUFFICES ASSUME NEW m \in DOMAIN old', NEW n \in DOMAIN old'
                    PROVE  /\ IsBefore(m, n) => old'[m].number < old'[n].number
                           /\ m # n => old'[m].number # old'[n].number
        OBVIOUS
      <4>1. CASE m \in DOMAIN old /\ n \in DOMAIN old
        BY <2>6, <4>1 DEF LInv, FilesAreNumbered
      <4>2. CASE m = target /\ n \in DOMAIN old
        BY <3>2, <3>4, <4>2
      <4>3. CASE m \in DOMAIN old /\ n = target
        BY <3>2, <3>4, <4>3
      <4>4. CASE m = target /\ n = target
        BY <3>3, <4>4
      <4>. QED  BY <2>1, <4>1, <4>2, <4>3, <4>4
    <3>. QED  BY <1>1, <2>1, <3>1, <3>4, <3>5 DEF LInv, FilesAreNumbered
  <2>10. OneWrite'
    BY <1>1 DEF LInv, OneWrite
  <2>11. Whole'
    <3>1. \A i : IsHeldNow(i)' <=> IsHeldNow(i)
      BY <1>1, <2>1, <2>7 DEF IsHeldNow
    <3>. QED  BY <1>1, <3>1 DEF LInv, Whole
  <2>12. Kept'
    BY <1>1, <1>2, <2>1, NoLines DEF LInv, Kept, SavedWhenTold
  <2>. QED  BY <1>1, <2>1, <2>7, <2>8, <2>9, <2>10, <2>11, <2>12 DEF LInv
<1>. QED  BY <1>3, <1>4

LEMMA DeleteLines ==
  ASSUME IInv, LInv, NEW t \in doomed, NEW ok \in BOOLEAN, DeleteFile(t, ok), t \in DOMAIN old
  PROVE  LInv'
<1>1. /\ worker = "deleting" /\ worker' \in {"ended", "resting", "deleting", "failed"}
      /\ caller' = caller \/ caller' \in {"running", "joining"}
      /\ Outcome(ok)
      /\ UNCHANGED <<today, born, current, target, appender, logged, opened, promised>>
  BY DEF DeleteFile, Delete, NotSaved, Saved, Rest
<1>2. UNCHANGED <<file, buffered, inTheAir, loop, writeError>>
  BY <1>1 DEF appender
<1>3. failures' \in Nat /\ (failures' = 0 => failures = 0)
  BY <1>1, OutcomeFact DEF LInv, LineTypes
<1>4. caller' = "off" => caller = "off" /\ worker' = worker
  BY <1>1 DEF LInv, OneWrite
<1>5. Kept'
  BY <1>1, <1>2, <1>3, KeptRests
<1>6. CASE ~ok
  <2>1. UNCHANGED <<old, deleted>>
    BY <1>6 DEF DeleteFile, Delete
  <2>2. FilesAreNumbered'
    BY <1>1, <1>2, <2>1, NumbersRest
  <2>3. LineTypes'
    BY <1>1, <1>2, <1>3, <2>1, TypesRest DEF LInv, LineTypes
  <2>4. OneWrite' /\ InRows(old, file, inTheAir, buffered)' /\ Whole'
    BY <1>1, <1>2, <1>4, <2>1, LinesRest
  <2>. QED  BY <1>5, <2>2, <2>3, <2>4 DEF LInv
<1>7. CASE ok
  <2>1. /\ DOMAIN old' = DOMAIN old \ {t} /\ \A n \in DOMAIN old' : old'[n] = old[n]
        /\ deleted' = deleted \union LinesOf(old[t].contents)
    BY <1>7 DEF DeleteFile, Delete
  <2>2. /\ InRows(old', file, inTheAir, buffered)
        /\ \A i : IsHeld(i, old', file, inTheAir, buffered) => IsHeldNow(i)
        /\ \A i : IsHeldNow(i) =>
                    IsHeld(i, old', file, inTheAir, buffered) \/ i \in LinesOf(old[t].contents)
    BY <2>1, RowsDeleted DEF LInv, IsHeldNow
  <2>3. \A i \in LinesOf(old[t].contents) : ~ IsHeld(i, old', file, inTheAir, buffered)
    <3>1. old[t].contents \in Seq(Nat)
      BY DEF LInv, LineTypes
    <3>2. \A n \in DOMAIN old' : old[n].number < old[t].number \/ old[t].number < old[n].number
      BY <2>1 DEF LInv, FilesAreNumbered
    <3>. QED  BY <2>1, <3>1, <3>2, OnlyInOld DEF LInv
  <2>4. FilesAreNumbered'
    <3>1. Exists' <=> Exists
      BY <1>1 DEF Exists
    <3>. QED  BY <1>1, <1>2, <2>1, <3>1 DEF LInv, FilesAreNumbered
  <2>5. LineTypes'
    BY <1>1, <1>2, <1>3, <2>1 DEF LInv, LineTypes
  <2>6. OneWrite'
    BY <1>1, <1>2, <1>4 DEF LInv, OneWrite
  <2>7. Whole'
    <3>1. \A i : IsHeldNow(i)' <=> IsHeld(i, old', file, inTheAir, buffered)
      BY <1>2 DEF IsHeldNow
    <3>2. LinesOf(old[t].contents) \subseteq 1 .. logged
      BY DEF LInv, Whole, IsHeldNow, IsHeld
    <3>. QED  BY <1>1, <1>2, <2>1, <2>2, <2>3, <3>1, <3>2 DEF LInv, Whole
  <2>. QED  BY <1>2, <1>5, <2>2, <2>4, <2>5, <2>6, <2>7 DEF LInv
<1>. QED  BY <1>6, <1>7

-----------------------------------------------------------------------------
(* The buffer stays, or #writeNow() begins when nothing is in the air.     *)
LEMMA HandedOn ==
  ASSUME NEW o, NEW f, NEW air \in SUBSET Writes, NEW b \in Seq(Nat), InRows(o, f, air, b),
         \/ inTheAir' = air /\ buffered' = b
         \/ air = {} /\ WriteNow(1, "loop", b, air) /\ loop' = "writing",
         \A v, w \in air : v = w,
         air # {} => loop' = "writing"
  PROVE  /\ InRows(o, f, inTheAir', buffered')
         /\ \A i : IsHeld(i, o, f, inTheAir', buffered') <=> IsHeld(i, o, f, air, b)
         /\ inTheAir' \subseteq Writes /\ buffered' \in Seq(Nat)
         /\ \A v, w \in inTheAir' : v = w
         /\ inTheAir' # {} => loop' = "writing"
         /\ \A i : i \in LinesOf(buffered') \/ (\E w \in inTheAir' : i \in LinesOf(w.texts)) =>
                     i \in LinesOf(b) \/ \E w \in air : i \in LinesOf(w.texts)
<1>1. CASE inTheAir' = air /\ buffered' = b
  BY <1>1
<1>2. CASE air = {} /\ WriteNow(1, "loop", b, air) /\ loop' = "writing"
  <2>1. PICK v : v = [owner |-> 1, by |-> "loop", texts |-> b]
    OBVIOUS
  <2>2. v.texts = b /\ v \in Writes
    BY <2>1 DEF Writes, Writers
  <2>3. inTheAir' = {v} /\ buffered' = <<>>
    BY <1>2, <2>1 DEF WriteNow
  <2>4. /\ InRows(o, f, {v}, <<>>)
        /\ \A i : IsHeld(i, o, f, {v}, <<>>) <=> IsHeld(i, o, f, {}, b)
    BY <1>2, <2>2, RowsHandedOn
  <2>5. <<>> \in Seq(Nat) /\ LinesOf(<<>>) = {}
    BY NoLines
  <2>. QED  BY <1>2, <2>2, <2>3, <2>4, <2>5
<1>. QED  BY <1>1, <1>2

LEMMA RequestLines == ASSUME IInv, LInv, RequestEnds PROVE LInv'
<1>. DEFINE x == logged + 1
            b == Append(buffered, x)
<1>1. /\ UNCHANGED <<today, born, current, old, caller, worker, target, failures, opened,
                     deleted, promised, file, writeError>>
      /\ logged' = logged + 1 /\ logged \in Nat /\ caller # "off" /\ ~writeError
      /\ buffered \in Seq(Nat) /\ inTheAir \in SUBSET Writes
  BY DEF RequestEnds, AppendText, preserver, directory, thread, history, LInv, LineTypes
<1>2. \A i : IsHeldNow(i) => i \in 1 .. logged
  BY DEF LInv, Whole
<1>3. x \in Nat /\ \A i : IsHeldNow(i) => i < x
  BY <1>1, <1>2
<1>. HIDE DEF x
<1>4. /\ InRows(old, file, inTheAir, b) /\ b \in Seq(Nat)
      /\ \A i : IsHeld(i, old, file, inTheAir, b) <=> IsHeldNow(i) \/ i = x
  BY <1>1, <1>3, RowsGrow DEF LInv, IsHeldNow
<1>5. LinesOf(b) = LinesOf(buffered) \union {x}
  BY <1>1, <1>3, LineAppended DEF LInv, InRows, IsHeldNow, IsHeld
<1>6. /\ \/ inTheAir' = inTheAir /\ buffered' = b
         \/ inTheAir = {} /\ WriteNow(1, "loop", b, inTheAir) /\ loop' = "writing"
      /\ inTheAir # {} => loop' = "writing"
      /\ \A v, w \in inTheAir : v = w
  BY DEF RequestEnds, AppendText, LInv, OneWrite, x
<1>. HIDE DEF b
<1>7. /\ InRows(old, file, inTheAir', buffered')
      /\ \A i : IsHeld(i, old, file, inTheAir', buffered') <=> IsHeldNow(i) \/ i = x
      /\ inTheAir' \subseteq Writes /\ buffered' \in Seq(Nat)
      /\ \A v, w \in inTheAir' : v = w
      /\ inTheAir' # {} => loop' = "writing"
      /\ inTheAir # {} => inTheAir' # {}
      /\ \A i : i \in LinesOf(buffered') \/ (\E w \in inTheAir' : i \in LinesOf(w.texts)) =>
                  i \in LinesOf(b) \/ \E w \in inTheAir : i \in LinesOf(w.texts)
  BY <1>1, <1>4, <1>6, HandedOn
<1>8. LineTypes'
  BY <1>1, <1>7 DEF LInv, LineTypes
<1>9. FilesAreNumbered'
  BY <1>1, NumbersRest DEF LInv, FilesAreNumbered
<1>10. OneWrite'
  BY <1>1, <1>7 DEF LInv, OneWrite
<1>11. Whole'
  <2>1. \A i : IsHeldNow(i)' <=> IsHeldNow(i) \/ i = x
    BY <1>1, <1>7 DEF IsHeldNow
  <2>. QED  BY <1>1, <2>1 DEF LInv, Whole, x
<1>12. Kept'
  <2>1. x \notin promised
    BY <1>1 DEF LInv, Kept, x
  <2>2. \A i \in promised :
          i \notin LinesOf(buffered) /\ \A w \in inTheAir : i \notin LinesOf(w.texts)
    BY DEF LInv, Kept
  <2>3. promised \intersect LinesOf(buffered') = {}
    BY <1>5, <1>7, <2>1, <2>2
  <2>4. \A w \in inTheAir' : promised \intersect LinesOf(w.texts) = {}
    BY <1>5, <1>7, <2>1, <2>2
  <2>5. promised \subseteq 1 .. logged'
    BY <1>1 DEF LInv, Kept
  <2>. QED  BY <1>1, <2>3, <2>4, <2>5 DEF LInv, Kept, SavedWhenTold
<1>. QED  BY <1>1, <1>7, <1>8, <1>9, <1>10, <1>11, <1>12 DEF LInv

LEMMA TimerLines == ASSUME IInv, LInv, BufferTimeOver PROVE LInv'
<1>1. /\ UNCHANGED <<today, born, current, old, caller, worker, target, failures, opened,
                     deleted, promised, file, writeError, logged>>
      /\ loop = "timer" /\ inTheAir = {} /\ opened = 0
      /\ buffered \in Seq(Nat) /\ InRows(old, file, {}, buffered)
  BY DEF BufferTimeOver, TimerFires, preserver, directory, thread, history, LInv, LineTypes,
         OneWrite
<1>2. \/ inTheAir' = {} /\ buffered' = buffered
      \/ /\ WriteNow(1, "loop", buffered, {}) /\ loop' = "writing"
         /\ buffered # <<>>
  BY <1>1 DEF BufferTimeOver, TimerFires, LoopGoesOn
<1>3. /\ InRows(old, file, inTheAir', buffered')
      /\ \A i : IsHeld(i, old, file, inTheAir', buffered') <=> IsHeldNow(i)
      /\ inTheAir' \subseteq Writes /\ buffered' \in Seq(Nat)
      /\ \A v, w \in inTheAir' : v = w
      /\ inTheAir' # {} => loop' = "writing"
      /\ \A i : i \in LinesOf(buffered') \/ (\E w \in inTheAir' : i \in LinesOf(w.texts)) =>
                  i \in LinesOf(buffered)
  <2>1. {} \in SUBSET Writes
    OBVIOUS
  <2>. QED  BY <1>1, <1>2, <2>1, HandedOn DEF IsHeldNow
<1>4. LineTypes'
  BY <1>1, <1>3 DEF LInv, LineTypes
<1>5. FilesAreNumbered'
  BY <1>1, NumbersRest DEF LInv, FilesAreNumbered
<1>6. OneWrite'
  BY <1>1, <1>2, <1>3 DEF LInv, OneWrite
<1>7. Whole'
  <2>1. \A i : IsHeldNow(i)' <=> IsHeldNow(i)
    BY <1>1, <1>3 DEF IsHeldNow
  <2>. QED  BY <1>1, <2>1 DEF LInv, Whole
<1>8. Kept'
  BY <1>1, <1>3 DEF LInv, Kept, SavedWhenTold
<1>. QED  BY <1>1, <1>3, <1>4, <1>5, <1>6, <1>7, <1>8 DEF LInv

LEMMA TextIsAdded ==
  ASSUME IInv, NEW texts, WriteLands(texts)
  PROVE  /\ DOMAIN old' = DOMAIN old
         /\ \A n \in DOMAIN old :
              /\ old'[n].number = old[n].number
              /\ old[n].number = opened => old'[n].contents = old[n].contents \o texts
              /\ old[n].number # opened => old'[n] = old[n]
<1>1. old' = [n \in DOMAIN old |->
                IF opened = old[n].number
                THEN [old[n] EXCEPT !.contents = @ \o texts] ELSE old[n]]
  BY DEF WriteLands
<1>. SUFFICES ASSUME NEW n \in DOMAIN old, old[n].number = opened
              PROVE  /\ old'[n].number = old[n].number
                     /\ old'[n].contents = old[n].contents \o texts
  BY <1>1
<1>2. old[n] = [number |-> old[n].number, contents |-> old[n].contents]
  BY DEF IInv, FilesAreRecords
<1>3. old'[n] = [old[n] EXCEPT !.contents = old[n].contents \o texts]
  BY <1>1
<1>4. PICK r : r = old[n]
  OBVIOUS
<1>5. \A x : [r EXCEPT !.contents = x].number = r.number /\ [r EXCEPT !.contents = x].contents = x
  BY <1>2, <1>4
<1>. QED  BY <1>3, <1>4, <1>5

(* Where the text of a write ends up: in the file that has been opened,    *)
(* the last that was born, under whatever name, or nowhere if that has     *)
(* been deleted.                                                           *)
LEMMA WriteLandsSomewhere ==
  ASSUME IInv, LInv, opened # 0, NEW w, inTheAir = {w}, w.texts \in Seq(Nat),
         WriteLands(w.texts)
  PROVE  /\ file' \in Seq(Nat) /\ (~Exists => file' = <<>>)
         /\ DOMAIN old' = DOMAIN old
         /\ \A n \in DOMAIN old : old'[n].number = old[n].number /\ old'[n].contents \in Seq(Nat)
         /\ InRows(old', file', {}, buffered)
         /\ \A i : IsHeld(i, old', file', {}, buffered) => IsHeldNow(i) /\ i \notin deleted'
         /\ \A i : IsHeldNow(i) => IsHeld(i, old', file', {}, buffered) \/ i \in deleted'
         /\ deleted \subseteq deleted' /\ deleted' \subseteq deleted \union LinesOf(w.texts)
         /\ LinesOf(file') \subseteq LinesOf(file) \union LinesOf(w.texts)
<1>1. /\ file \in Seq(Nat) /\ born \in Nat /\ opened = born
      /\ \A n \in DOMAIN old : old[n].contents \in Seq(Nat) /\ old[n].number \in Nat
      /\ InRows(old, file, {w}, buffered)
      /\ \A i : IsHeldNow(i) <=> IsHeld(i, old, file, {w}, buffered)
      /\ \A i : IsHeldNow(i) => i \notin deleted
  BY DEF LInv, LineTypes, FilesAreNumbered, Whole, IsHeldNow
<1>2. /\ DOMAIN old' = DOMAIN old
      /\ \A n \in DOMAIN old :
           /\ old'[n].number = old[n].number
           /\ old[n].number = opened => old'[n].contents = old[n].contents \o w.texts
           /\ old[n].number # opened => old'[n] = old[n]
  BY TextIsAdded
<1>3. \A n \in DOMAIN old : old'[n].contents \in Seq(Nat)
  <2>1. \A n \in DOMAIN old : old[n].contents \o w.texts \in Seq(Nat)
    BY <1>1, LinesBehind
  <2>. QED  BY <1>1, <1>2, <2>1
<1>4. CASE Exists
  <2>1. opened = current.number /\ \A n \in DOMAIN old : old[n].number # opened
    BY <1>1, <1>4 DEF LInv, FilesAreNumbered
  <2>2. file' = file \o w.texts /\ deleted' = deleted
    BY <2>1 DEF WriteLands
  <2>3. \A n \in DOMAIN old : old'[n] = old[n]
    BY <1>2, <2>1
  <2>4. /\ InRows(old, file', {}, buffered)
        /\ \A i : IsHeld(i, old, file', {}, buffered) <=> IsHeld(i, old, file, {w}, buffered)
    BY <1>1, <2>2, RowsLanded
  <2>5. /\ InRows(old', file', {}, buffered)
        /\ \A i : IsHeld(i, old', file', {}, buffered) <=> IsHeld(i, old, file', {}, buffered)
    <3>1. InRows(old', file', {}, buffered)
      BY <1>2, <2>3, <2>4 DEF InRows
    <3>2. \A i : IsHeld(i, old', file', {}, buffered) <=> IsHeld(i, old, file', {}, buffered)
      BY <1>2, <2>3 DEF IsHeld
    <3>. QED  BY <3>1, <3>2
  <2>6. file' \in Seq(Nat) /\ LinesOf(file') = LinesOf(file) \union LinesOf(w.texts)
    BY <1>1, <2>2, LinesBehind
  <2>. QED  BY <1>1, <1>2, <1>3, <1>4, <2>2, <2>4, <2>5, <2>6
<1>5. CASE ~Exists
  <2>1. file = <<>> /\ opened # current.number
    BY <1>5 DEF LInv, FilesAreNumbered, Exists
  <2>2. file' = <<>>
    BY <2>1 DEF WriteLands
  <2>3. file' \in Seq(Nat) /\ LinesOf(file') = {}
    BY <2>2, NoLines
  <2>4. CASE \E n \in DOMAIN old : opened = old[n].number
    <3>1. PICK t \in DOMAIN old : old[t].number = opened
      BY <2>4
    <3>2. \A n \in DOMAIN old : n # t => old[n].number < old[t].number
      BY <1>1, <3>1 DEF LInv, FilesAreNumbered
    <3>3. deleted' = deleted
      BY <2>4 DEF WriteLands
    <3>4. PICK p : p = old'
      OBVIOUS
    <3>5. /\ DOMAIN p = DOMAIN old
          /\ \A n \in DOMAIN old : p[n].number = old[n].number
          /\ \A n \in DOMAIN old : n # t => p[n].contents = old[n].contents
          /\ p[t].contents = old[t].contents \o w.texts
      <4>1. \A n \in DOMAIN old : n # t => old[n].number # opened
        BY <3>1 DEF LInv, FilesAreNumbered
      <4>2. \A n \in DOMAIN old : n # t => old'[n] = old[n]
        BY <1>2, <4>1
      <4>. QED  BY <1>2, <3>1, <3>4, <4>2
    <3>6. InRows(old, <<>>, {w}, buffered)
      BY <1>1, <2>1
    <3>7. /\ InRows(p, <<>>, {}, buffered)
          /\ \A i : IsHeld(i, p, <<>>, {}, buffered) <=> IsHeld(i, old, <<>>, {w}, buffered)
      BY <1>1, <3>2, <3>5, <3>6, RowsLandedInOld
    <3>. QED  BY <1>1, <1>2, <1>3, <2>1, <2>2, <2>3, <3>3, <3>4, <3>7
  <2>5. CASE \A n \in DOMAIN old : opened # old[n].number
    <3>1. deleted' = deleted \union LinesOf(w.texts)
      BY <2>1, <2>5 DEF WriteLands
    <3>2. \A n \in DOMAIN old : old'[n] = old[n]
      BY <1>2, <2>5
    <3>3. /\ InRows(old, file, {}, buffered)
          /\ \A i : IsHeld(i, old, file, {}, buffered) => IsHeldNow(i)
      BY <1>1, RowsLost
    <3>4. /\ InRows(old', file', {}, buffered)
          /\ \A i : IsHeld(i, old', file', {}, buffered) <=> IsHeld(i, old, file, {}, buffered)
      <4>1. InRows(old', file', {}, buffered)
        BY <1>2, <2>1, <2>2, <3>2, <3>3 DEF InRows
      <4>2. \A i : IsHeld(i, old', file', {}, buffered) <=> IsHeld(i, old, file, {}, buffered)
        BY <1>2, <2>1, <2>2, <3>2 DEF IsHeld
      <4>. QED  BY <4>1, <4>2
    <3>5. \A i \in LinesOf(w.texts) : ~ IsHeld(i, old, file, {}, buffered)
      BY <1>1, OnlyInAir
    <3>6. \A i : IsHeld(i, old, file, {w}, buffered) =>
                   IsHeld(i, old, file, {}, buffered) \/ i \in LinesOf(w.texts)
      BY DEF IsHeld
    <3>. QED  BY <1>1, <1>2, <1>3, <1>5, <2>2, <2>3, <3>1, <3>3, <3>4, <3>5, <3>6
  <2>. QED  BY <2>4, <2>5
<1>. QED  BY <1>4, <1>5

LEMMA WriteLines == ASSUME IInv, LInv, NEW ok \in BOOLEAN, WriteEnds(ok) PROVE LInv'
<1>1. /\ opened # 0 /\ opened' = 0 /\ Outcome(ok)
      /\ UNCHANGED <<today, born, current, caller, worker, target, logged, promised>>
  BY DEF WriteEnds, thread
<1>2. PICK w \in inTheAir :
        /\ LoopWriteReturns(1, w, ok)
        /\ IF ok THEN WriteLands(w.texts) ELSE UNCHANGED <<file, old, deleted>>
  BY DEF WriteEnds
<1>3. /\ inTheAir = {w} /\ w.texts \in Seq(Nat) /\ buffered \in Seq(Nat) /\ caller # "off"
      /\ promised \intersect LinesOf(w.texts) = {}
      /\ promised \intersect LinesOf(buffered) = {}
  BY DEF LInv, OneWrite, LineTypes, Writes, Kept
<1>4. /\ failures' \in Nat /\ (failures' = 0 => failures = 0)
  BY <1>1, OutcomeFact DEF LInv, LineTypes
<1>5. /\ file' \in Seq(Nat) /\ (~Exists => file' = <<>>)
      /\ DOMAIN old' = DOMAIN old
      /\ \A n \in DOMAIN old : old'[n].number = old[n].number /\ old'[n].contents \in Seq(Nat)
      /\ InRows(old', file', {}, buffered)
      /\ \A i : IsHeld(i, old', file', {}, buffered) => IsHeldNow(i) /\ i \notin deleted'
      /\ ok => \A i : IsHeldNow(i) => IsHeld(i, old', file', {}, buffered) \/ i \in deleted'
      /\ deleted \subseteq deleted' /\ deleted' \subseteq deleted \union LinesOf(w.texts)
      /\ LinesOf(file') \subseteq LinesOf(file) \union LinesOf(w.texts)
  <2>1. CASE ok
    BY <1>1, <1>2, <1>3, <2>1, WriteLandsSomewhere
  <2>2. CASE ~ok
    <3>1. UNCHANGED <<file, old, deleted>>
      BY <1>2, <2>2
    <3>2. /\ InRows(old, file, {}, buffered)
          /\ \A i : IsHeld(i, old, file, {}, buffered) => IsHeldNow(i)
      BY <1>3, RowsLost DEF LInv, IsHeldNow
    <3>. QED  BY <2>2, <3>1, <3>2 DEF LInv, LineTypes, FilesAreNumbered, Whole
  <2>. QED  BY <2>1, <2>2
<1>6. /\ \/ inTheAir' = {} /\ buffered' = buffered
         \/ WriteNow(1, "loop", buffered, {}) /\ loop' = "writing"
      /\ writeError' = (writeError \/ ~ok)
  <2>1. inTheAir \ {w} = {}
    BY <1>3
  <2>. QED  BY <1>2, <2>1 DEF LoopWriteReturns, LoopGoesOn
<1>7. /\ InRows(old', file', inTheAir', buffered')
      /\ \A i : IsHeld(i, old', file', inTheAir', buffered') <=> IsHeld(i, old', file', {}, buffered)
      /\ inTheAir' \subseteq Writes /\ buffered' \in Seq(Nat)
      /\ \A v, u \in inTheAir' : v = u
      /\ inTheAir' # {} => loop' = "writing"
      /\ \A i : i \in LinesOf(buffered') \/ (\E u \in inTheAir' : i \in LinesOf(u.texts)) =>
                  i \in LinesOf(buffered)
  <2>1. {} \in SUBSET Writes
    OBVIOUS
  <2>2. PICK o : o = old'
    OBVIOUS
  <2>3. PICK f : f = file'
    OBVIOUS
  <2>4. InRows(o, f, {}, buffered)
    BY <1>5, <2>2, <2>3
  <2>5. /\ InRows(o, f, inTheAir', buffered')
        /\ \A i : IsHeld(i, o, f, inTheAir', buffered') <=> IsHeld(i, o, f, {}, buffered)
        /\ inTheAir' \subseteq Writes /\ buffered' \in Seq(Nat)
        /\ \A v, u \in inTheAir' : v = u
        /\ inTheAir' # {} => loop' = "writing"
        /\ \A i : i \in LinesOf(buffered') \/ (\E u \in inTheAir' : i \in LinesOf(u.texts)) =>
                    i \in LinesOf(buffered)
    BY <1>3, <1>6, <2>1, <2>4, HandedOn
  <2>. QED  BY <2>2, <2>3, <2>5
<1>8. LineTypes'
  BY <1>1, <1>4, <1>5, <1>7 DEF LInv, LineTypes
<1>9. FilesAreNumbered'
  <2>1. Exists' <=> Exists
    BY <1>1 DEF Exists
  <2>. QED  BY <1>1, <1>5, <2>1 DEF LInv, FilesAreNumbered
<1>10. OneWrite'
  BY <1>1, <1>3, <1>7 DEF OneWrite
<1>11. Whole'
  <2>1. \A i : IsHeldNow(i)' <=> IsHeld(i, old', file', {}, buffered)
    BY <1>7 DEF IsHeldNow
  <2>2. LinesOf(w.texts) \subseteq 1 .. logged
    BY DEF LInv, Whole, IsHeldNow, IsHeld
  <2>. QED  BY <1>1, <1>5, <1>6, <2>1, <2>2 DEF LInv, Whole
<1>12. Kept'
  BY <1>1, <1>3, <1>4, <1>5, <1>7 DEF LInv, Kept, SavedWhenTold
<1>. QED  BY <1>7, <1>8, <1>9, <1>10, <1>11, <1>12 DEF LInv

-----------------------------------------------------------------------------
(* What is about to be deleted is there.                                   *)
DoomedAreThere == worker = "deleting" => doomed \subseteq DOMAIN old

LEMMA DoomedStay ==
  ASSUME IInv, LInv, DoomedAreThere, [Next]_vars PROVE DoomedAreThere'
<1>. USE DEF DoomedAreThere
<1>1. CASE UNCHANGED vars \/ StartLog \/ StopLog \/ RequestEnds \/ BufferTimeOver \/ OpenFile
           \/ DayPasses
  <2>1. UNCHANGED <<old, doomed>> /\ (worker' = worker \/ worker' = "working")
    BY <1>1 DEF vars, StartLog, StopLog, RequestEnds, BufferTimeOver, OpenFile, DayPasses,
      Start, Stop, NextDay, preserver, directory, thread
  <2>. QED  BY <2>1
<1>2. ASSUME NEW ok \in BOOLEAN, WriteEnds(ok) PROVE DoomedAreThere'
  <2>1. UNCHANGED <<worker, doomed>>
    BY <1>2 DEF WriteEnds, thread
  <2>2. DOMAIN old' = DOMAIN old
    <3>1. PICK w \in inTheAir : WriteLands(w.texts) \/ UNCHANGED old
      BY <1>2 DEF WriteEnds
    <3>. QED  BY <3>1 DEF WriteLands
  <2>. QED  BY <2>1, <2>2
<1>3. CASE Preserve
  <2>1. CASE Wake \/ Joined
    BY <2>1 DEF Wake, Joined, thread, directory
  <2>2. ASSUME NEW ok \in BOOLEAN, DoWork(Len(file), ok) \/ Stat(Len(file), ok)
        PROVE  DoomedAreThere'
    BY <2>2 DEF DoWork, Stat, Rest, Saved, NotSaved
  <2>3. ASSUME NEW ok \in BOOLEAN, TryNext(ok) \/ FindName(ok) PROVE DoomedAreThere'
    BY <2>3 DEF TryNext, FindName, NotSaved
  <2>4. ASSUME NEW ok \in BOOLEAN, FindOldFiles(ok) PROVE DoomedAreThere'
    <3>1. doomed' \subseteq DOMAIN old /\ UNCHANGED old
      BY <2>4 DEF FindOldFiles, directory
    <3>. QED  BY <3>1
  <2>. QED  BY <1>3, <2>1, <2>2, <2>3, <2>4 DEF Preserve
<1>4. ASSUME NEW ok \in BOOLEAN, RenameFile(ok) PROVE DoomedAreThere'
  BY <1>4 DEF RenameFile, Rename, NotSaved
<1>5. ASSUME NEW ok \in BOOLEAN, NEW t \in doomed, DeleteFile(t, ok) PROVE DoomedAreThere'
  <2>1. worker = "deleting" /\ (~ok => worker' = "failed")
    BY <1>5 DEF DeleteFile, Delete, NotSaved
  <2>2. ok => DOMAIN old' = DOMAIN old \ {t} /\ doomed' = doomed \ {t}
    BY <1>5 DEF DeleteFile, Delete
  <2>. QED  BY <2>1, <2>2
<1>. QED
  BY <1>1, <1>2, <1>3, <1>4, <1>5 DEF Next, AppenderWorks, PreserverWorks

LEMMA NextLines == ASSUME IInv, LInv, DoomedAreThere, [Next]_vars PROVE LInv'
<1>1. CASE UNCHANGED vars
  <2>1. /\ UNCHANGED <<file, buffered, inTheAir, loop, writeError, old, logged, deleted>>
        /\ UNCHANGED <<today, born, current, opened, caller, worker, target, failures, promised>>
    BY <1>1 DEF vars, appender, preserver, directory, thread
  <2>2. LineTypes' /\ FilesAreNumbered'
    BY <2>1, TypesRest, NumbersRest DEF LInv, LineTypes, FilesAreNumbered
  <2>. QED  BY <2>1, <2>2, LinesRest, KeptRests DEF LInv
<1>2. ASSUME NEW ok \in BOOLEAN, NEW t \in doomed, DeleteFile(t, ok) PROVE LInv'
  <2>1. t \in DOMAIN old
    BY <1>2 DEF DoomedAreThere, DeleteFile, Delete
  <2>. QED  BY <1>2, <2>1, DeleteLines
<1>. QED
  BY <1>1, <1>2, StartLines, StopLines, OpenLines, DayLines, PreserveLines, RenameLines,
     RequestLines, TimerLines, WriteLines
  DEF Next, AppenderWorks, PreserverWorks

(* What earlier services have left.                                        *)
LEMMA InitLInv == Init => LInv /\ DoomedAreThere
<1>. SUFFICES ASSUME Init PROVE LInv /\ DoomedAreThere
  OBVIOUS
<1>1. PICK k \in 0 .. MaxOldFiles, gap \in 0 .. 1, exists \in BOOLEAN, empty \in BOOLEAN :
        /\ old = [name \in [day : {1}, count : gap + 1 .. gap + k] |->
                    [number |-> name.count - gap, contents |-> <<name.count - gap>>]]
        /\ born = IF exists THEN k + 1 ELSE k
        /\ current = IF exists THEN [number |-> k + 1, day |-> 1] ELSE NoFile
        /\ logged = IF exists /\ ~empty THEN k + 1 ELSE k
        /\ file = IF exists /\ ~empty THEN <<k + 1>> ELSE <<>>
  BY DEF Init
<1>2. k \in Nat /\ gap \in Nat
  BY <1>1, LogAssumption
<1>3. /\ DOMAIN old = [day : {1}, count : gap + 1 .. gap + k]
      /\ \A n \in DOMAIN old :
           /\ n.day = 1 /\ n.count \in gap + 1 .. gap + k
           /\ old[n].number = n.count - gap /\ old[n].contents = <<n.count - gap>>
  BY <1>1
<1>4. \A i : LinesOf(<<i>>) = {i} /\ Ascending(<<i>>)
  BY DEF LinesOf, Ascending
<1>5. \A n \in DOMAIN old :
        /\ old[n].number \in 1 .. k /\ old[n].contents \in Seq(Nat)
        /\ LinesOf(old[n].contents) = {old[n].number} /\ Ascending(old[n].contents)
  <2>1. \A n \in DOMAIN old : n.count - gap \in 1 .. k
    <3>. TAKE n \in DOMAIN old
    <3>1. n.count \in gap + 1 .. gap + k
      BY <1>3
    <3>. QED  BY ONLY <1>2, <3>1
  <2>2. \A i \in 1 .. k : <<i>> \in Seq(Nat)
    BY <1>2
  <2>. QED  BY <1>3, <1>4, <2>1, <2>2
<1>6. /\ buffered = <<>> /\ inTheAir = {} /\ opened = 0 /\ deleted = {} /\ promised = {}
      /\ today = 1 /\ caller = "off" /\ worker = "off" /\ failures = 0
  BY DEF Init, PreserverInit
<1>7. LineTypes
  <2>1. file \in Seq(Nat)
    BY <1>1, <1>2
  <2>2. logged \in Nat /\ born \in Nat
    BY <1>1, <1>2
  <2>. QED  BY <1>5, <1>6, <2>1, <2>2, NoLines DEF LineTypes
<1>8. Exists <=> exists
  BY <1>1, <1>2 DEF Exists, NoFile
<1>9. FilesAreNumbered
  <2>1. IF Exists THEN current.number = born /\ current.day <= today ELSE file = <<>>
    BY <1>1, <1>6, <1>8
  <2>2. \A n \in DOMAIN old :
          /\ old[n].number \in Nat /\ old[n].number <= born /\ n.day <= today
          /\ Exists => old[n].number < born /\ n.day <= current.day
    <3>. TAKE n \in DOMAIN old
    <3>1. old[n].number \in 1 .. k /\ n.day = 1
      BY <1>3, <1>5
    <3>2. Exists => current.day = 1
      BY <1>1, <1>8
    <3>3. born = IF Exists THEN k + 1 ELSE k
      BY <1>1, <1>8
    <3>4. k \in Nat /\ today = 1
      BY <1>2, <1>6
    <3>. HIDE DEF Exists
    <3>. QED  BY ONLY <3>1, <3>2, <3>3, <3>4
  <2>3. ASSUME NEW m \in DOMAIN old, NEW n \in DOMAIN old
        PROVE  /\ IsBefore(m, n) => old[m].number < old[n].number
               /\ m # n => old[m].number # old[n].number
    BY <1>2, <1>3 DEF IsBefore
  <2>. QED  BY <1>6, <2>1, <2>2, <2>3 DEF FilesAreNumbered
<1>10. OneWrite
  BY <1>6 DEF OneWrite
<1>11. LinesOf(file) = IF exists /\ ~empty THEN {k + 1} ELSE {}
  BY <1>1, <1>4, NoLines
<1>12. InRows(old, file, inTheAir, buffered)
  <2>1. Ascending(file)
    BY <1>1, <1>4, NoLines
  <2>2. \A n \in DOMAIN old : AllBefore(old[n].contents, file)
    <3>1. \A n \in DOMAIN old : old[n].number \in 1 .. k /\ LinesOf(old[n].contents) = {old[n].number}
      BY <1>5
    <3>2. \A j \in LinesOf(file) : j = k + 1
      BY <1>11
    <3>3. \A i \in 1 .. k : i < k + 1
      BY <1>2
    <3>. QED  BY <3>1, <3>2, <3>3 DEF AllBefore
  <2>3. \A m, n \in DOMAIN old :
          old[m].number < old[n].number => AllBefore(old[m].contents, old[n].contents)
    BY <1>5 DEF AllBefore
  <2>4. Ascending(<<>>) /\ AllBefore(file, <<>>)
    BY NoLines
  <2>5. \A n \in DOMAIN old : Ascending(old[n].contents) /\ AllBefore(old[n].contents, <<>>)
    BY <1>5, NoLines
  <2>6. InRows(old, file, {}, <<>>)
    BY <2>1, <2>2, <2>3, <2>4, <2>5 DEF InRows
  <2>. QED  BY <1>6, <2>6
<1>13. Whole
  <2>1. \A i : IsHeldNow(i) <=>
                 (exists /\ ~empty /\ i = k + 1) \/ \E n \in DOMAIN old : i = old[n].number
    BY <1>5, <1>6, <1>11, NoLines DEF IsHeldNow, IsHeld
  <2>2. \A i \in 1 .. k : \E n \in DOMAIN old : i = old[n].number
    <3>. SUFFICES ASSUME NEW i \in 1 .. k PROVE \E n \in DOMAIN old : i = old[n].number
      OBVIOUS
    <3>1. PICK n : n = [day |-> 1, count |-> gap + i]
      OBVIOUS
    <3>2. n \in DOMAIN old /\ n.count = gap + i
      BY <1>2, <1>3, <3>1
    <3>. QED  BY <1>2, <1>3, <3>2
  <2>3. /\ \A i : IsHeldNow(i) => i \in 1 .. logged
        /\ \A i \in 1 .. logged : IsHeldNow(i)
    <3>1. \/ logged = k + 1 /\ exists /\ ~empty
          \/ logged = k /\ ~ (exists /\ ~empty)
      BY <1>1
    <3>2. \A n \in DOMAIN old : old[n].number \in 1 .. k
      BY <1>5
    <3>. QED  BY <1>2, <2>1, <2>2, <3>1, <3>2
  <2>. QED  BY <1>6, <2>3 DEF Whole
<1>14. Kept
  BY <1>6 DEF Kept, SavedWhenTold
<1>. QED  BY <1>6, <1>7, <1>9, <1>10, <1>12, <1>13, <1>14 DEF LInv, DoomedAreThere

-----------------------------------------------------------------------------
(* What the invariant says of the places a line is at.                     *)
LEMMA WhereIsOne ==
  ASSUME NEW s \in Seq(Nat), Ascending(s), NEW i \in LinesOf(s)
  PROVE  \E k : Where(i, s) = {k}
<1>1. PICK k \in DOMAIN s : s[k] = i
  BY DEF LinesOf
<1>2. ASSUME NEW j \in DOMAIN s, s[j] = i PROVE j = k
  <2>1. j \in Nat /\ k \in Nat /\ s[j] \in Nat
    OBVIOUS
  <2>2. ~ (j < k) /\ ~ (k < j)
    BY <1>1, <1>2, <2>1 DEF Ascending
  <2>. QED  BY <2>1, <2>2
<1>. QED  BY <1>1, <1>2 DEF Where

LEMMA WhereIsNone == ASSUME NEW s, NEW i, i \notin LinesOf(s) PROVE Where(i, s) = {}
  BY DEF Where, LinesOf

LEMMA OnePlace ==
  ASSUME LInv, NEW i, IsHeldNow(i)
  PROVE  \E x : Copies(i) \union OldCopies(i) = {x}
<1>1. /\ file \in Seq(Nat) /\ buffered \in Seq(Nat)
      /\ \A w \in inTheAir : w.texts \in Seq(Nat)
      /\ \A n \in DOMAIN old : old[n].contents \in Seq(Nat) /\ old[n].number \in Nat
      /\ \A v, w \in inTheAir : v = w
      /\ \A m, n \in DOMAIN old : m # n => old[m].number # old[n].number
  BY DEF LInv, LineTypes, Writes, OneWrite, FilesAreNumbered
<1>2. i \in Nat
  BY DEF LInv, Whole
<1>3. /\ Ascending(file) /\ Ascending(buffered)
      /\ \A w \in inTheAir : Ascending(w.texts)
      /\ \A n \in DOMAIN old : Ascending(old[n].contents)
  BY DEF LInv, InRows
<1>4. /\ ~ (i \in LinesOf(file) /\ i \in LinesOf(buffered))
      /\ \A w \in inTheAir :
           i \in LinesOf(w.texts) => i \notin LinesOf(file) /\ i \notin LinesOf(buffered)
      /\ \A n \in DOMAIN old : i \in LinesOf(old[n].contents) =>
           /\ i \notin LinesOf(file) /\ i \notin LinesOf(buffered)
           /\ \A w \in inTheAir : i \notin LinesOf(w.texts)
  BY <1>2 DEF LInv, InRows, AllBefore
<1>5. ASSUME NEW m \in DOMAIN old, NEW n \in DOMAIN old, m # n,
             i \in LinesOf(old[m].contents), i \in LinesOf(old[n].contents)
      PROVE  FALSE
  <2>1. old[m].number < old[n].number \/ old[n].number < old[m].number
    BY <1>1, <1>5
  <2>. QED  BY <1>2, <1>5, <2>1 DEF LInv, InRows, AllBefore
<1>6. CASE i \in LinesOf(file)
  <2>1. PICK k : Where(i, file) = {k}
    BY <1>1, <1>3, <1>6, WhereIsOne
  <2>2. /\ Where(i, buffered) = {}
        /\ \A w \in inTheAir : Where(i, w.texts) = {}
        /\ \A n \in DOMAIN old : Where(i, old[n].contents) = {}
    BY <1>4, <1>6, WhereIsNone
  <2>3. Copies(i) = {<<"file", k>>} /\ OldCopies(i) = {}
    BY <2>1, <2>2 DEF Copies, OldCopies
  <2>. QED  BY <2>3
<1>7. CASE i \in LinesOf(buffered)
  <2>1. PICK k : Where(i, buffered) = {k}
    BY <1>1, <1>3, <1>7, WhereIsOne
  <2>2. /\ Where(i, file) = {}
        /\ \A w \in inTheAir : Where(i, w.texts) = {}
        /\ \A n \in DOMAIN old : Where(i, old[n].contents) = {}
    BY <1>4, <1>7, WhereIsNone
  <2>3. Copies(i) = {<<"buffer", k>>} /\ OldCopies(i) = {}
    BY <2>1, <2>2 DEF Copies, OldCopies
  <2>. QED  BY <2>3
<1>8. ASSUME NEW w \in inTheAir, i \in LinesOf(w.texts)
      PROVE  \E x : Copies(i) \union OldCopies(i) = {x}
  <2>1. PICK k : Where(i, w.texts) = {k}
    BY <1>1, <1>3, <1>8, WhereIsOne
  <2>2. /\ Where(i, file) = {} /\ Where(i, buffered) = {}
        /\ \A n \in DOMAIN old : Where(i, old[n].contents) = {}
    BY <1>4, <1>8, WhereIsNone
  <2>3. inTheAir = {w}
    BY <1>1
  <2>4. Copies(i) = {<<"air", w, k>>} /\ OldCopies(i) = {}
    BY <2>1, <2>2, <2>3 DEF Copies, OldCopies
  <2>. QED  BY <2>4
<1>9. ASSUME NEW n \in DOMAIN old, i \in LinesOf(old[n].contents)
      PROVE  \E x : Copies(i) \union OldCopies(i) = {x}
  <2>1. PICK k : Where(i, old[n].contents) = {k}
    BY <1>1, <1>3, <1>9, WhereIsOne
  <2>2. /\ Where(i, file) = {} /\ Where(i, buffered) = {}
        /\ \A w \in inTheAir : Where(i, w.texts) = {}
    BY <1>4, <1>9, WhereIsNone
  <2>3. \A m \in DOMAIN old : m # n => Where(i, old[m].contents) = {}
    BY <1>5, <1>9, WhereIsNone
  <2>4. Copies(i) = {} /\ OldCopies(i) = {<<"old", n, k>>}
    BY <2>1, <2>2, <2>3 DEF Copies, OldCopies
  <2>. QED  BY <2>4
<1>. QED  BY <1>6, <1>7, <1>8, <1>9 DEF IsHeldNow, IsHeld

LEMMA NoPlace ==
  ASSUME NEW i, ~ IsHeldNow(i) PROVE Copies(i) \union OldCopies(i) = {}
<1>1. /\ Where(i, file) = {} /\ Where(i, buffered) = {}
      /\ \A w \in inTheAir : Where(i, w.texts) = {}
      /\ \A n \in DOMAIN old : Where(i, old[n].contents) = {}
  BY WhereIsNone DEF IsHeldNow, IsHeld
<1>. QED  BY <1>1 DEF Copies, OldCopies

LEMMA OnceEach == ASSUME LInv PROVE EveryLineOnce
<1>. SUFFICES ASSUME ~writeError, NEW i \in 1 .. logged
              PROVE  TimesLogged(i) = IF i \in deleted THEN 0 ELSE 1
  BY DEF EveryLineOnce
<1>1. CASE IsHeldNow(i)
  <2>1. i \notin deleted
    BY <1>1 DEF LInv, Whole
  <2>2. PICK x : Copies(i) \union OldCopies(i) = {x}
    BY <1>1, OnePlace
  <2>. QED  BY <2>1, <2>2, FS_Singleton DEF TimesLogged
<1>2. CASE ~ IsHeldNow(i)
  <2>1. i \in deleted
    BY <1>2 DEF LInv, Whole
  <2>. QED  BY <1>2, <2>1, NoPlace, FS_EmptySet DEF TimesLogged
<1>. QED  BY <1>1, <1>2

LEMMA InOrder == ASSUME LInv PROVE LinesInOrder
  BY DEF LInv, InRows, FilesAreNumbered, LinesInOrder

(* Neither the rotation under the hands of the appender, nor a name given  *)
(* up, a day that passes or a call that fails, loses a line, doubles one or *)
(* changes their order, and what start() and stop() promise to preserve is *)
(* preserved when they return: BaseFilePreserver's #run() and #preserve()  *)
(* beside FileAppender's #waitAndFlush().                                  *)
THEOREM RotationKeepsTheLog == Spec => []LoggedOnceInOrder
<1>1. IInv /\ LInv /\ DoomedAreThere /\ [Next]_vars => IInv' /\ LInv' /\ DoomedAreThere'
  BY StepKeeps, NextLines, DoomedStay
<1>2. LInv => LoggedOnceInOrder
  BY OnceEach, InOrder DEF LInv, Kept, LoggedOnceInOrder
<1>. QED  BY <1>1, <1>2, InitIInv, InitLInv, PTL DEF Spec

-----------------------------------------------------------------------------
(* The deletion.  Condemned are the files that #deleteOldFiles() has found *)
(* and not deleted yet, or never will because it has thrown.               *)
Condemned(n) == worker \in {"deleting", "failed"} /\ n \in doomed

DeletedBefore(lines) == \A i \in deleted, j \in lines : i < j

Coming(b, air) == LinesOf(b) \union UNION {LinesOf(w.texts) : w \in air}

(* What was deleted is older than all that will stay.                      *)
Aged ==
  /\ DeletedBefore(LinesOf(file)) /\ DeletedBefore(Coming(buffered, inTheAir))
  /\ \A n \in DOMAIN old : Condemned(n) \/ DeletedBefore(LinesOf(old[n].contents))

(* With a file those before it are condemned, and the last of all only with *)
(* all of them.  The file that a write may still make longer is the one    *)
(* that was renamed last.                                                  *)
OldestFirst ==
  /\ \A m, n \in DOMAIN old : Condemned(n) /\ old[m].number <= old[n].number => Condemned(m)
  /\ ~Exists =>
       \/ \E n \in DOMAIN old : old[n].number = born
       \/ \A n \in DOMAIN old : Condemned(n)
  /\ ~Exists /\ opened # 0 => \A n \in DOMAIN old : old[n].number = born => n = target

(* What is not condemned is within the limits.                             *)
Within(names) ==
  /\ config.maxOldCount # NoLimit => Cardinality(names) <= config.maxOldCount
  /\ config.maxOldSize # NoLimit => Size(names \ {target}) <= config.maxOldSize
Limited == worker = "deleting" => Within(DOMAIN old \ doomed)

OInv == config \in Configs /\ IsFiniteSet(DOMAIN old) /\ Aged /\ OldestFirst /\ Limited

-----------------------------------------------------------------------------
(* The size of files.                                                      *)
PiecesIn(o, names) == UNION {{n} \X DOMAIN o[n].contents : n \in names}

LEMMA SizeIsPieces == \A names : Size(names) = Cardinality(PiecesIn(old, names))
  BY DEF Size, PiecesIn

LEMMA SamePieces ==
  ASSUME NEW o, NEW p, NEW names, \A n \in names : p[n].contents = o[n].contents
  PROVE  PiecesIn(p, names) = PiecesIn(o, names)
  BY DEF PiecesIn

LEMMA MorePieces ==
  ASSUME NEW o, NEW names, IsFiniteSet(names), NEW some \in SUBSET names,
         \A n \in names : o[n].contents \in Seq(Nat)
  PROVE  /\ Cardinality(PiecesIn(o, some)) \in Nat /\ Cardinality(PiecesIn(o, names)) \in Nat
         /\ Cardinality(PiecesIn(o, some)) <= Cardinality(PiecesIn(o, names))
<1>. DEFINE f == [n \in names |-> {n} \X DOMAIN o[n].contents]
            T == {f[n] : n \in names}
<1>1. f \in Surjection(names, T)
  BY DEF Surjection
<1>2. IsFiniteSet(T)
  <2>. HIDE DEF f, T
  <2>. QED  BY <1>1, FS_Surjection
<1>3. ASSUME NEW n \in names PROVE IsFiniteSet(f[n])
  <2>1. DOMAIN o[n].contents = 1 .. Len(o[n].contents) /\ Len(o[n].contents) \in Nat
    OBVIOUS
  <2>2. IsFiniteSet(DOMAIN o[n].contents)
    BY <2>1, FS_Interval
  <2>3. IsFiniteSet({n})
    BY FS_Singleton
  <2>. QED  BY <2>2, <2>3, FS_Product
<1>4. PiecesIn(o, names) = UNION T
  BY DEF PiecesIn
<1>5. IsFiniteSet(PiecesIn(o, names))
  <2>1. \A t \in T : IsFiniteSet(t)
    BY <1>3
  <2>. HIDE DEF T
  <2>. QED  BY <1>2, <1>4, <2>1, FS_UNION
<1>6. PiecesIn(o, some) \in SUBSET PiecesIn(o, names)
  BY DEF PiecesIn
<1>. QED  BY <1>5, <1>6, FS_Subset, FS_CardinalityType

(* A set of numbered things has a first.                                   *)
LEMMA First ==
  ASSUME NEW S, S # {}, NEW o, \A n \in S : o[n].number \in Nat
  PROVE  \E n \in S : \A m \in S : o[n].number <= o[m].number
<1>. DEFINE LessThan == OpToRel(<, Nat)
            N == {o[n].number : n \in S}
<1>1. \A x, y \in Nat : x < y => <<x, y>> \in LessThan
  BY DEF OpToRel
<1>. HIDE DEF LessThan
<1>2. IsWellFoundedOn(LessThan, Nat)
  BY NatLessThanWellFounded DEF LessThan
<1>3. N # {} /\ N \in SUBSET Nat
  OBVIOUS
<1>4. \A n \in S : o[n].number \in N
  OBVIOUS
<1>5. \A x \in N : \E n \in S : x = o[n].number
  OBVIOUS
<1>. HIDE DEF N
<1>6. \E x \in N : \A y \in N : ~ (<<y, x>> \in LessThan)
  BY <1>2, <1>3, WFMin
<1>7. PICK x \in N : \A y \in N : ~ (<<y, x>> \in LessThan)
  BY <1>6, Zenon
<1>8. \A y \in N : ~ (y < x)
  BY <1>1, <1>3, <1>7, Zenon
<1>9. PICK n \in S : x = o[n].number
  BY <1>5
<1>10. ASSUME NEW m \in S PROVE o[n].number <= o[m].number
  <2>1. ~ (o[m].number < o[n].number)
    BY <1>4, <1>8, <1>9
  <2>. QED  BY <2>1
<1>. QED  BY <1>10

(* #deleteOldFiles() finds the oldest, and enough of them: a file is over  *)
(* the limit if one that is newer is, and those that are not are within it. *)
LEMMA OldestAreFound ==
  ASSUME LInv, OInv, NEW found, found = {n \in DOMAIN old : IsOverLimit(n)}
  PROVE  /\ \A m \in DOMAIN old, n \in found : old[m].number <= old[n].number => m \in found
         /\ Within(DOMAIN old \ found)
<1>1. /\ IsFiniteSet(DOMAIN old)
      /\ \A n \in DOMAIN old : old[n].number \in Nat /\ old[n].contents \in Seq(Nat)
  BY DEF OInv, LInv, LineTypes, FilesAreNumbered
<1>2. /\ config.maxOldCount # NoLimit => config.maxOldCount \in Nat
      /\ config.maxOldSize # NoLimit => config.maxOldSize \in Nat
  BY PreserverAssumption DEF OInv, Configurations
<1>3. \A S \in SUBSET DOMAIN old : \A R \in SUBSET S :
        /\ IsFiniteSet(S)
        /\ Cardinality(S) \in Nat /\ Cardinality(R) \in Nat /\ Cardinality(R) <= Cardinality(S)
        /\ Size(S) \in Nat /\ Size(R) \in Nat /\ Size(R) <= Size(S)
  <2>. TAKE S \in SUBSET DOMAIN old
  <2>. TAKE R \in SUBSET S
  <2>1. IsFiniteSet(S)
    BY <1>1, FS_Subset
  <2>2. IsFiniteSet(R) /\ Cardinality(R) <= Cardinality(S)
    BY <2>1, FS_Subset
  <2>3. \A n \in S : old[n].contents \in Seq(Nat)
    BY <1>1
  <2>. QED  BY <2>1, <2>2, <2>3, FS_CardinalityType, MorePieces, SizeIsPieces
<1>4. \A n \in DOMAIN old : SinceBirthOf(n) \in SUBSET DOMAIN old
  BY DEF SinceBirthOf
<1>5. ASSUME NEW m \in DOMAIN old, NEW n \in found, old[m].number <= old[n].number
      PROVE  m \in found
  <2>1. n \in DOMAIN old /\ IsOverLimit(n)
    OBVIOUS
  <2>2. SinceBirthOf(n) \in SUBSET SinceBirthOf(m)
    BY <1>1, <1>5, <2>1 DEF SinceBirthOf
  <2>3. /\ Cardinality(SinceBirthOf(n)) \in Nat /\ Cardinality(SinceBirthOf(m)) \in Nat
        /\ Cardinality(SinceBirthOf(n)) <= Cardinality(SinceBirthOf(m))
        /\ Size(SinceBirthOf(n)) \in Nat /\ Size(SinceBirthOf(m)) \in Nat
        /\ Size(SinceBirthOf(n)) <= Size(SinceBirthOf(m))
    BY <1>3, <1>4, <2>2
  <2>4. IsOverLimit(m)
    BY <1>2, <2>1, <2>3 DEF IsOverLimit
  <2>. QED  BY <2>4
<1>. DEFINE S == DOMAIN old \ found
<1>6. CASE S = {}
  <2>1. Cardinality(S) = 0
    BY <1>6, FS_EmptySet
  <2>2. PiecesIn(old, S \ {target}) = {}
    BY <1>6 DEF PiecesIn
  <2>3. Size(S \ {target}) = 0
    BY <2>2, SizeIsPieces, FS_EmptySet
  <2>. QED  BY <1>2, <1>5, <2>1, <2>3 DEF Within
<1>7. CASE S # {}
  <2>1. \A n \in S : old[n].number \in Nat
    BY <1>1
  <2>2. PICK n \in S : \A m \in S : old[n].number <= old[m].number
    <3>. HIDE DEF S
    <3>. QED  BY <1>7, <2>1, First
  <2>3. S \in SUBSET SinceBirthOf(n) /\ n \in DOMAIN old /\ ~ IsOverLimit(n)
    BY <2>2 DEF SinceBirthOf
  <2>4. S \in SUBSET DOMAIN old /\ S \ {target} \in SUBSET S
    OBVIOUS
  <2>. HIDE DEF S
  <2>5. /\ Cardinality(S) \in Nat /\ Cardinality(S) <= Cardinality(SinceBirthOf(n))
        /\ Size(S) \in Nat /\ Size(S) <= Size(SinceBirthOf(n))
        /\ Cardinality(SinceBirthOf(n)) \in Nat /\ Size(SinceBirthOf(n)) \in Nat
    BY <1>3, <1>4, <2>3
  <2>6. Size(S \ {target}) \in Nat /\ Size(S \ {target}) <= Size(S)
    BY <1>3, <2>4
  <2>7. /\ config.maxOldCount # NoLimit => Cardinality(SinceBirthOf(n)) <= config.maxOldCount
        /\ config.maxOldSize # NoLimit => Size(SinceBirthOf(n)) <= config.maxOldSize
    BY <1>2, <2>3, <2>5 DEF IsOverLimit
  <2>8. /\ config.maxOldCount # NoLimit => Cardinality(S) <= config.maxOldCount
        /\ config.maxOldSize # NoLimit => Size(S \ {target}) <= config.maxOldSize
    BY <1>2, <2>5, <2>6, <2>7
  <2>. QED  BY <1>5, <2>8 DEF S, Within
<1>. QED  BY <1>6, <1>7

-----------------------------------------------------------------------------
(* Steps that delete nothing and find nothing to delete.  Lines may only   *)
(* come after all that there are.                                          *)
OldRest ==
  /\ UNCHANGED <<config, old, deleted, file>>
  /\ \A i \in Coming(buffered, inTheAir)' : i \in Coming(buffered, inTheAir) \/ i = logged + 1
  /\ ~Exists' => ~Exists /\ born' = born /\ (opened' # 0 => opened # 0 /\ target' = target)
  /\ \/ worker' \in {"deleting", "failed"} /\ worker \in {"deleting", "failed"}
        /\ doomed' = doomed
     \/ worker \notin {"deleting", "failed"} /\ (worker' \notin {"deleting", "failed"} \/ doomed' = {})
  /\ worker' = "deleting" => worker = "deleting" /\ target' = target

LEMMA OldRests == ASSUME LInv, OInv, OldRest PROVE OInv'
<1>1. \A n \in DOMAIN old : Condemned(n)' <=> Condemned(n)
  BY DEF OldRest, Condemned
<1>2. UNCHANGED <<config, old, deleted, file>>
  BY DEF OldRest
<1>3. Aged'
  <2>1. \A i \in deleted : i \in Nat /\ i < logged + 1
    BY DEF LInv, Whole, LineTypes
  <2>2. DeletedBefore(Coming(buffered, inTheAir))'
    BY <1>2, <2>1 DEF OldRest, OInv, Aged, DeletedBefore
  <2>3. DeletedBefore(LinesOf(file))'
    BY <1>2 DEF OInv, Aged, DeletedBefore
  <2>4. \A n \in DOMAIN old' : Condemned(n)' \/ DeletedBefore(LinesOf(old[n].contents))'
    BY <1>1, <1>2 DEF OInv, Aged, DeletedBefore
  <2>. QED  BY <2>2, <2>3, <2>4 DEF Aged
<1>4. OldestFirst'
  BY <1>1, <1>2 DEF OldRest, OInv, OldestFirst
<1>5. Limited'
  <2>. SUFFICES ASSUME worker' = "deleting" PROVE Within(DOMAIN old \ doomed)'
    BY DEF Limited
  <2>1. worker = "deleting" /\ target' = target /\ doomed' = doomed
    BY DEF OldRest
  <2>2. Within(DOMAIN old \ doomed)
    BY <2>1 DEF OInv, Limited
  <2>. QED  BY <1>2, <2>1, <2>2 DEF Within, Size
<1>. QED  BY <1>2, <1>3, <1>4, <1>5 DEF OInv

LEMMA FileStaysThere ==
  ASSUME LInv, FileIsThere PROVE Exists'
<1>1. born \in Nat
  BY DEF LInv, LineTypes
<1>. QED  BY <1>1 DEF FileIsThere, Exists

(* The steps of the service and of the appender                            *)
LEMMA LogOld ==
  ASSUME LInv, OInv, UNCHANGED vars \/ StartLog \/ StopLog \/ OpenFile \/ DayPasses
  PROVE  OInv'
<1>1. CASE UNCHANGED vars \/ StopLog \/ DayPasses
  <2>1. /\ UNCHANGED <<config, old, deleted, file, buffered, inTheAir, born, current, opened>>
        /\ UNCHANGED <<target, worker, doomed>>
    BY <1>1 DEF vars, StopLog, DayPasses, Stop, NextDay, preserver, directory, thread, appender,
      history
  <2>2. OldRest
    BY <2>1 DEF OldRest, Exists
  <2>. QED  BY <2>2, OldRests
<1>2. CASE StartLog \/ OpenFile
  <2>1. /\ UNCHANGED <<config, old, deleted, file, buffered, inTheAir, target, doomed>>
        /\ FileIsThere
        /\ worker' = worker \/ (worker = "off" /\ worker' = "working")
    BY <1>2 DEF StartLog, OpenFile, Start, thread, appender, history, LInv, OneWrite
  <2>2. OldRest
    BY <2>1, FileStaysThere DEF OldRest
  <2>. QED  BY <2>2, OldRests
<1>. QED  BY <1>1, <1>2

LEMMA BufferOld ==
  ASSUME LInv, OInv, RequestEnds \/ BufferTimeOver PROVE OInv'
<1>1. /\ UNCHANGED <<config, old, deleted, file, born, current, opened, target, worker, doomed>>
  BY DEF RequestEnds, BufferTimeOver, AppendText, TimerFires, preserver, directory, thread,
    history
<1>2. buffered \in Seq(Nat) /\ logged \in Nat
  BY DEF LInv, LineTypes
<1>3. LinesOf(Append(buffered, logged + 1)) = LinesOf(buffered) \union {logged + 1}
  <2>1. Append(buffered, logged + 1) = buffered \o <<logged + 1>> /\ <<logged + 1>> \in Seq(Nat)
    BY <1>2
  <2>2. LinesOf(<<logged + 1>>) = {logged + 1}
    BY DEF LinesOf
  <2>. QED  BY <1>2, <2>1, <2>2, LinesBehind
<1>4. ASSUME NEW b, WriteNow(1, "loop", b, inTheAir)
      PROVE  Coming(buffered', inTheAir') = Coming(b, inTheAir)
  <2>1. PICK v : v = [owner |-> 1, by |-> "loop", texts |-> b]
    OBVIOUS
  <2>2. v.texts = b /\ inTheAir' = inTheAir \union {v} /\ buffered' = <<>>
    BY <1>4, <2>1 DEF WriteNow
  <2>. QED  BY <2>2, NoLines DEF Coming
<1>5. CASE RequestEnds
  <2>. DEFINE c == Append(buffered, logged + 1)
  <2>1. \/ inTheAir' = inTheAir /\ buffered' = c
        \/ WriteNow(1, "loop", c, inTheAir)
    BY <1>5 DEF RequestEnds, AppendText
  <2>. HIDE DEF c
  <2>2. Coming(buffered', inTheAir') = Coming(c, inTheAir)
    BY <1>4, <2>1
  <2>3. LinesOf(c) = LinesOf(buffered) \union {logged + 1}
    BY <1>3 DEF c
  <2>4. \A i \in Coming(c, inTheAir) : i \in Coming(buffered, inTheAir) \/ i = logged + 1
    BY <2>3 DEF Coming
  <2>5. OldRest
    BY <1>1, <2>2, <2>4 DEF OldRest, Exists
  <2>. QED  BY <2>5, OldRests
<1>6. CASE BufferTimeOver
  <2>1. \/ inTheAir' = inTheAir /\ buffered' = buffered
        \/ WriteNow(1, "loop", buffered, inTheAir)
    BY <1>6 DEF BufferTimeOver, TimerFires, LoopGoesOn
  <2>2. Coming(buffered', inTheAir') = Coming(buffered, inTheAir)
    BY <1>4, <2>1
  <2>3. OldRest
    BY <1>1, <2>2 DEF OldRest, Exists
  <2>. QED  BY <2>3, OldRests
<1>. QED  BY <1>5, <1>6

(* The file that a write makes longer is not one of those that count for   *)
(* the size.  If it is nowhere, it was deleted, and with it all others.    *)
LEMMA WriteOld == ASSUME IInv, LInv, OInv, NEW ok \in BOOLEAN, WriteEnds(ok) PROVE OInv'
<1>1. /\ opened # 0 /\ opened' = 0
      /\ UNCHANGED <<config, born, current, worker, doomed, target>>
  BY DEF WriteEnds, thread
<1>2. PICK w \in inTheAir :
        /\ LoopWriteReturns(1, w, ok)
        /\ IF ok THEN WriteLands(w.texts) ELSE UNCHANGED <<file, old, deleted>>
  BY DEF WriteEnds
<1>3. inTheAir = {w} /\ w.texts \in Seq(Nat) /\ file \in Seq(Nat)
  BY DEF LInv, OneWrite, LineTypes, Writes
<1>4. Coming(buffered', inTheAir') = LinesOf(buffered)
  <2>1. CASE inTheAir' = {} /\ buffered' = buffered
    BY <2>1 DEF Coming
  <2>2. CASE WriteNow(1, "loop", buffered, {})
    <3>1. PICK v : v = [owner |-> 1, by |-> "loop", texts |-> buffered]
      OBVIOUS
    <3>2. v.texts = buffered /\ inTheAir' = {v} /\ buffered' = <<>>
      BY <2>2, <3>1 DEF WriteNow
    <3>. QED  BY <3>2, NoLines DEF Coming
  <2>3. inTheAir \ {w} = {}
    BY <1>3
  <2>. QED  BY <1>2, <2>1, <2>2, <2>3 DEF LoopWriteReturns, LoopGoesOn
<1>5. Coming(buffered, inTheAir) = LinesOf(buffered) \union LinesOf(w.texts)
  BY <1>3 DEF Coming
<1>6. CASE ~ok
  <2>1. UNCHANGED <<file, old, deleted>>
    BY <1>2, <1>6
  <2>2. OldRest
    BY <1>1, <1>4, <1>5, <2>1 DEF OldRest, Exists
  <2>. QED  BY <2>2, OldRests
<1>7. CASE ok
  <2>1. /\ DOMAIN old' = DOMAIN old
        /\ \A n \in DOMAIN old :
             /\ old'[n].number = old[n].number
             /\ old[n].number = opened => old'[n].contents = old[n].contents \o w.texts
             /\ old[n].number # opened => old'[n] = old[n]
    BY <1>2, <1>7, TextIsAdded
  <2>2. \A n \in DOMAIN old :
          LinesOf(old'[n].contents) \subseteq LinesOf(old[n].contents) \union LinesOf(w.texts)
    <3>1. \A n \in DOMAIN old : old[n].contents \in Seq(Nat)
      BY DEF LInv, LineTypes
    <3>2. \A n \in DOMAIN old :
            LinesOf(old[n].contents \o w.texts) = LinesOf(old[n].contents) \union LinesOf(w.texts)
      BY <1>3, <3>1, LinesBehind
    <3>. SUFFICES ASSUME NEW n \in DOMAIN old
                  PROVE  LinesOf(old'[n].contents) \subseteq
                           LinesOf(old[n].contents) \union LinesOf(w.texts)
      OBVIOUS
    <3>3. CASE old[n].number = opened
      BY <2>1, <3>2, <3>3
    <3>4. CASE old[n].number # opened
      BY <2>1, <3>4
    <3>. QED  BY <3>3, <3>4
  <2>3. LinesOf(file') \subseteq LinesOf(file) \union LinesOf(w.texts)
    <3>1. file' = file \o w.texts \/ file' = file
      BY <1>2, <1>7 DEF WriteLands
    <3>. QED  BY <1>3, <3>1, LinesBehind
  <2>4. /\ Exists' <=> Exists
        /\ \A n \in DOMAIN old : Condemned(n)' <=> Condemned(n)
    BY <1>1 DEF Exists, Condemned
  <2>5. opened = born
    BY <1>1 DEF LInv, FilesAreNumbered
  <2>6. Aged'
    <3>1. CASE deleted' = deleted
      <4>1. DeletedBefore(LinesOf(file))'
        BY <1>5, <2>3, <3>1 DEF OInv, Aged, DeletedBefore
      <4>2. DeletedBefore(Coming(buffered, inTheAir))'
        BY <1>4, <1>5, <3>1 DEF OInv, Aged, DeletedBefore
      <4>3. \A n \in DOMAIN old' : Condemned(n)' \/ DeletedBefore(LinesOf(old[n].contents))'
        BY <1>5, <2>1, <2>2, <2>4, <3>1 DEF OInv, Aged, DeletedBefore
      <4>. QED  BY <4>1, <4>2, <4>3 DEF Aged
    <3>2. CASE deleted' # deleted
      <4>1. /\ deleted' = deleted \union LinesOf(w.texts)
            /\ opened # current.number /\ \A n \in DOMAIN old : opened # old[n].number
        BY <1>2, <1>7, <3>2 DEF WriteLands
      <4>2. ~Exists /\ file' = <<>>
        BY <1>2, <1>7, <2>5, <4>1 DEF WriteLands, LInv, FilesAreNumbered
      <4>3. \A n \in DOMAIN old : Condemned(n)
        BY <2>5, <4>1, <4>2 DEF OInv, OldestFirst
      <4>4. \A i \in LinesOf(w.texts), j \in LinesOf(buffered) : i < j
        BY <1>3 DEF LInv, InRows, AllBefore
      <4>5. DeletedBefore(Coming(buffered, inTheAir))'
        BY <1>4, <1>5, <4>1, <4>4 DEF OInv, Aged, DeletedBefore
      <4>6. DeletedBefore(LinesOf(file))'
        BY <4>2, NoLines DEF DeletedBefore
      <4>. QED  BY <2>1, <2>4, <4>3, <4>5, <4>6 DEF Aged
    <3>. QED  BY <3>1, <3>2
  <2>7. OldestFirst'
    BY <1>1, <2>1, <2>4 DEF OInv, OldestFirst
  <2>8. Limited'
    <3>. SUFFICES ASSUME worker = "deleting" PROVE Within(DOMAIN old \ doomed)'
      BY <1>1 DEF Limited
    <3>. DEFINE names == (DOMAIN old \ doomed) \ {target}
    <3>1. \A n \in DOMAIN old : n # target => old[n].number # opened
      BY <1>1, <2>5 DEF LInv, FilesAreNumbered, OInv, OldestFirst
    <3>2. \A n \in names : old'[n].contents = old[n].contents
      BY <2>1, <3>1
    <3>3. PICK p : p = old'
      OBVIOUS
    <3>4. PiecesIn(p, names) = PiecesIn(old, names)
      <4>1. \A n \in names : p[n].contents = old[n].contents
        BY <3>2, <3>3
      <4>. HIDE DEF names
      <4>. QED  BY <4>1, SamePieces
    <3>5. PiecesIn(old, names)' = PiecesIn(old, names)
      BY <1>1, <2>1, <3>3, <3>4
    <3>6. Size(names)' = Size(names)
      BY <3>5 DEF Size, PiecesIn
    <3>. QED  BY <1>1, <2>1, <3>6 DEF OInv, Limited, Within
  <2>. QED  BY <1>1, <2>1, <2>6, <2>7, <2>8 DEF OInv
<1>. QED  BY <1>6, <1>7

LEMMA RenameOld == ASSUME IInv, LInv, OInv, NEW ok \in BOOLEAN, RenameFile(ok) PROVE OInv'
<1>1. /\ worker = "renaming" /\ worker' = "finding"
      /\ UNCHANGED <<config, born, doomed, target, buffered, inTheAir, opened, deleted>>
  BY DEF RenameFile, Rename, NotSaved, history
<1>2. CASE ~ok
  <2>1. UNCHANGED <<old, current, file>>
    BY <1>2 DEF RenameFile, Rename
  <2>2. OldRest
    BY <1>1, <2>1 DEF OldRest, Exists
  <2>. QED  BY <2>2, OldRests
<1>3. CASE ok
  <2>1. /\ DOMAIN old' = DOMAIN old \union {target}
        /\ old'[target] = [number |-> current.number, contents |-> file]
        /\ \A n \in DOMAIN old : n # target => old'[n] = old[n]
        /\ file' = <<>>
    BY <1>3 DEF RenameFile, Rename
  <2>2. /\ Exists /\ current.number = born
        /\ \A n \in DOMAIN old : old[n].number < born /\ old[n].number \in Nat
        /\ born \in Nat
    BY <1>1 DEF LInv, FilesAreNumbered, LineTypes
  <2>3. /\ \A n : ~Condemned(n) /\ ~Condemned(n)'
        /\ old'[target].number = born /\ old'[target].contents = file
    BY <1>1, <2>1, <2>2 DEF Condemned
  <2>4. Aged'
    <3>1. DeletedBefore(LinesOf(file))'
      BY <2>1, NoLines DEF DeletedBefore
    <3>2. DeletedBefore(Coming(buffered, inTheAir))'
      BY <1>1 DEF OInv, Aged, DeletedBefore
    <3>3. \A n \in DOMAIN old' : DeletedBefore(LinesOf(old[n].contents))'
      BY <1>1, <2>1, <2>3 DEF OInv, Aged, DeletedBefore
    <3>. QED  BY <3>1, <3>2, <3>3 DEF Aged
  <2>5. OldestFirst'
    <3>1. \A n \in DOMAIN old' : n # target => old'[n].number # born
      BY <2>1, <2>2
    <3>. QED  BY <1>1, <2>1, <2>3, <3>1 DEF OldestFirst
  <2>6. Limited'
    BY <1>1 DEF Limited
  <2>7. IsFiniteSet(DOMAIN old')
    BY <2>1, FS_AddElement DEF OInv
  <2>. QED  BY <1>1, <2>4, <2>5, <2>6, <2>7 DEF OInv
<1>. QED  BY <1>2, <1>3

(* Until #deleteOldFiles() has found the files, the thread deletes none.   *)
LEMMA ThreadOld ==
  ASSUME IInv, LInv, OInv, NEW ok \in BOOLEAN,
         \/ Wake \/ Joined
         \/ DoWork(Len(file), ok) \/ Stat(Len(file), ok) \/ TryNext(ok) \/ FindName(ok),
         UNCHANGED <<appender, logged, opened, history>>
  PROVE  OInv'
<1>1. UNCHANGED <<file, buffered, inTheAir, opened, deleted>>
  BY DEF appender, history
<1>2. /\ UNCHANGED <<config, old, born, current, doomed>>
      /\ worker' = worker \/ {worker, worker'} \intersect {"deleting", "failed"} = {}
  BY DEF Wake, Joined, DoWork, Stat, TryNext, FindName, Rest, Saved, NotSaved, directory, thread
<1>3. Exists \/ target' = target
  <2>1. worker \in {"trying", "naming"} => Exists
    BY DEF LInv, FilesAreNumbered
  <2>. QED  BY <2>1 DEF Wake, Joined, DoWork, Stat, TryNext, FindName, thread
<1>4. worker' = worker => target' = target \/ worker # "deleting"
  BY DEF Wake, Joined, DoWork, Stat, TryNext, FindName, thread
<1>5. OldRest
  BY <1>1, <1>2, <1>3, <1>4 DEF OldRest, Exists
<1>. QED  BY <1>5, OldRests

(* What #deleteOldFiles() finds is as it should be, and if it finds none,  *)
(* that is because there is none to be deleted.                            *)
LEMMA FindOld ==
  ASSUME LInv, OInv, NEW ok \in BOOLEAN, FindOldFiles(ok),
         UNCHANGED <<appender, logged, opened, history>>
  PROVE  OInv' /\ (worker' \in {"resting", "ended"} => WithinLimits')
<1>1. /\ UNCHANGED <<file, buffered, inTheAir, opened, deleted, config, old, born, current, target>>
      /\ worker = "finding"
  BY DEF FindOldFiles, appender, history, directory
<1>2. CASE ~ok \/ NoLimits
  <2>1. doomed' = {} /\ worker' \in {"failed", "resting", "ended"}
    BY <1>2 DEF FindOldFiles, NotSaved, Saved, Rest
  <2>2. OldRest
    BY <1>1, <2>1 DEF OldRest, Exists
  <2>3. OInv'
    BY <2>2, OldRests
  <2>4. ~ok => worker' = "failed"
    BY DEF FindOldFiles, NotSaved
  <2>5. NoLimits => WithinLimits'
    BY <1>1 DEF NoLimits, WithinLimits
  <2>. QED  BY <1>2, <2>3, <2>4, <2>5
<1>3. CASE ok /\ ~NoLimits
  <2>. DEFINE found == {n \in DOMAIN old : IsOverLimit(n)}
  <2>1. /\ doomed' = found
        /\ IF found = {} THEN worker' \in {"resting", "ended"} ELSE worker' = "deleting"
    BY <1>3 DEF FindOldFiles, Saved, NotSaved, Rest
  <2>2. /\ \A m \in DOMAIN old, n \in found : old[m].number <= old[n].number => m \in found
        /\ Within(DOMAIN old \ found)
    BY OldestAreFound
  <2>. HIDE DEF found
  <2>3. \A n \in DOMAIN old : ~Condemned(n) /\ (Condemned(n)' <=> n \in found)
    BY <1>1, <2>1 DEF Condemned
  <2>4. Aged'
    <3>1. DeletedBefore(LinesOf(file))' /\ DeletedBefore(Coming(buffered, inTheAir))'
      BY <1>1 DEF OInv, Aged, DeletedBefore
    <3>2. \A n \in DOMAIN old' : DeletedBefore(LinesOf(old[n].contents))'
      BY <1>1, <2>3 DEF OInv, Aged, DeletedBefore
    <3>. QED  BY <3>1, <3>2 DEF Aged
  <2>5. OldestFirst'
    <3>1. \A m, n \in DOMAIN old' :
            Condemned(n)' /\ old'[m].number <= old'[n].number => Condemned(m)'
      BY <1>1, <2>2, <2>3
    <3>2. ~Exists' => (\E n \in DOMAIN old' : old'[n].number = born') \/ DOMAIN old' = {}
      BY <1>1, <2>3 DEF OInv, OldestFirst, Exists
    <3>3. ~Exists' /\ opened' # 0 => \A n \in DOMAIN old' : old'[n].number = born' => n = target'
      BY <1>1 DEF OInv, OldestFirst, Exists
    <3>. QED  BY <3>1, <3>2, <3>3 DEF OldestFirst
  <2>6. Within(DOMAIN old \ found)'
    <3>1. found' = found
      BY <1>1 DEF found, IsOverLimit, SinceBirthOf, Size
    <3>. QED  BY <1>1, <2>2, <3>1 DEF Within, Size
  <2>7. Within(DOMAIN old \ doomed)'
    <3>1. found' = found
      BY <1>1 DEF found, IsOverLimit, SinceBirthOf, Size
    <3>. QED  BY <1>1, <2>1, <2>6, <3>1 DEF Within, Size
  <2>8. worker' \in {"resting", "ended"} => WithinLimits'
    <3>1. worker' \in {"resting", "ended"} => doomed' = {}
      BY <2>1
    <3>. QED  BY <2>7, <3>1 DEF Within, WithinLimits, Size
  <2>. QED  BY <1>1, <2>4, <2>5, <2>7, <2>8 DEF OInv, Limited
<1>. QED  BY <1>2, <1>3

(* The newest of the files that were found goes, and not those that are    *)
(* newer.                                                                  *)
LEMMA DeleteOld ==
  ASSUME LInv, OInv, NEW t \in doomed, NEW ok \in BOOLEAN, DeleteFile(t, ok), t \in DOMAIN old
  PROVE  OInv' /\ (worker' \in {"resting", "ended"} => WithinLimits')
<1>1. /\ worker = "deleting"
      /\ UNCHANGED <<config, born, current, target, file, buffered, inTheAir, opened>>
  BY DEF DeleteFile, Delete, appender
<1>2. CASE ~ok
  <2>1. UNCHANGED <<old, doomed, deleted>> /\ worker' = "failed"
    BY <1>2 DEF DeleteFile, Delete, NotSaved
  <2>2. OldRest
    BY <1>1, <2>1 DEF OldRest, Exists
  <2>. QED  BY <2>1, <2>2, OldRests
<1>3. CASE ok
  <2>1. /\ DOMAIN old' = DOMAIN old \ {t} /\ \A n \in DOMAIN old' : old'[n] = old[n]
        /\ deleted' = deleted \union LinesOf(old[t].contents)
        /\ doomed' = doomed \ {t}
        /\ worker' = "deleting" \/ (worker' \in {"resting", "ended"} /\ doomed' = {})
    BY <1>3 DEF DeleteFile, Delete, Saved, NotSaved, Rest
  <2>2. /\ \A n \in DOMAIN old' : Condemned(n)' <=> Condemned(n)
        /\ Condemned(t)
    BY <1>1, <2>1 DEF Condemned
  <2>3. /\ \A n \in DOMAIN old : old[n].number \in Nat /\ old[n].number <= born
        /\ born \in Nat
    BY DEF LInv, LineTypes, FilesAreNumbered
  <2>4. /\ \A n \in DOMAIN old : old[n].number <= old[t].number => Condemned(n)
    BY <2>2 DEF OInv, OldestFirst
  <2>5. Aged'
    <3>1. InRows(old, file, inTheAir, buffered)
      BY DEF LInv
    <3>2. AllBefore(old[t].contents, file)
      BY <3>1 DEF InRows
    <3>3. \A i \in LinesOf(old[t].contents), j \in Coming(buffered, inTheAir) : i < j
      BY <3>1 DEF InRows, AllBefore, Coming
    <3>4. \A n \in DOMAIN old' : ~Condemned(n) => AllBefore(old[t].contents, old[n].contents)
      <4>1. \A n \in DOMAIN old' : ~Condemned(n) => old[t].number < old[n].number
        BY <2>1, <2>3, <2>4
      <4>. QED  BY <2>1, <3>1, <4>1 DEF InRows
    <3>5. DeletedBefore(LinesOf(file))'
      BY <1>1, <2>1, <3>2 DEF OInv, Aged, DeletedBefore, AllBefore
    <3>6. DeletedBefore(Coming(buffered, inTheAir))'
      BY <1>1, <2>1, <3>3 DEF OInv, Aged, DeletedBefore
    <3>7. \A n \in DOMAIN old' : Condemned(n)' \/ DeletedBefore(LinesOf(old[n].contents))'
      BY <2>1, <2>2, <3>4 DEF OInv, Aged, DeletedBefore, AllBefore
    <3>. QED  BY <3>5, <3>6, <3>7 DEF Aged
  <2>6. OldestFirst'
    <3>1. \A m, n \in DOMAIN old' :
            Condemned(n)' /\ old'[m].number <= old'[n].number => Condemned(m)'
      BY <2>1, <2>2 DEF OInv, OldestFirst
    <3>2. ~Exists' => \/ \E n \in DOMAIN old' : old'[n].number = born'
                      \/ \A n \in DOMAIN old' : Condemned(n)'
      <4>. SUFFICES ASSUME ~Exists
                    PROVE  \/ \E n \in DOMAIN old' : old'[n].number = born
                           \/ \A n \in DOMAIN old' : Condemned(n)'
        BY <1>1 DEF Exists
      <4>1. CASE \A n \in DOMAIN old : Condemned(n)
        BY <2>1, <2>2, <4>1
      <4>2. ASSUME NEW n \in DOMAIN old, old[n].number = born, n # t
            PROVE  \E m \in DOMAIN old' : old'[m].number = born
        BY <2>1, <4>2
      <4>3. CASE old[t].number = born
        BY <2>1, <2>2, <2>3, <2>4, <4>3
      <4>. QED  BY <4>1, <4>2, <4>3 DEF OInv, OldestFirst
    <3>3. ~Exists' /\ opened' # 0 => \A n \in DOMAIN old' : old'[n].number = born' => n = target'
      BY <1>1, <2>1 DEF OInv, OldestFirst, Exists
    <3>. QED  BY <3>1, <3>2, <3>3 DEF OldestFirst
  <2>7. Within(DOMAIN old \ doomed)'
    <3>. DEFINE names == (DOMAIN old \ doomed) \ {target}
    <3>1. DOMAIN old' \ doomed' = DOMAIN old \ doomed
      BY <2>1
    <3>2. \A n \in names : n \in DOMAIN old'
      BY <2>1
    <3>3. PICK p : p = old'
      OBVIOUS
    <3>4. PiecesIn(p, names) = PiecesIn(old, names)
      <4>1. \A n \in names : p[n].contents = old[n].contents
        BY <2>1, <3>2, <3>3
      <4>. HIDE DEF names
      <4>. QED  BY <4>1, SamePieces
    <3>5. PiecesIn(old, names)' = PiecesIn(old, names)
      BY <1>1, <3>1, <3>3, <3>4
    <3>6. Size(names)' = Size(names)
      BY <3>5 DEF Size, PiecesIn
    <3>7. Within(DOMAIN old \ doomed)
      BY <1>1 DEF OInv, Limited
    <3>. QED  BY <1>1, <3>1, <3>6, <3>7 DEF Within
  <2>8. worker' \in {"resting", "ended"} => WithinLimits'
    <3>1. worker' \in {"resting", "ended"} => DOMAIN old' \ doomed' = DOMAIN old'
      BY <2>1
    <3>. QED  BY <2>7, <3>1 DEF Within, WithinLimits, Size
  <2>9. IsFiniteSet(DOMAIN old')
    BY <2>1, FS_RemoveElement DEF OInv
  <2>. QED  BY <1>1, <2>5, <2>6, <2>7, <2>8, <2>9 DEF OInv, Limited
<1>. QED  BY <1>2, <1>3

LEMMA InitOld == Init => OInv
<1>. SUFFICES ASSUME Init PROVE OInv
  OBVIOUS
<1>1. LInv
  BY InitLInv
<1>2. /\ config \in Configs /\ deleted = {} /\ worker = "off" /\ opened = 0
  BY DEF Init, PreserverInit
<1>3. PICK k \in 0 .. MaxOldFiles, gap \in 0 .. 1, exists \in BOOLEAN :
        /\ old = [name \in [day : {1}, count : gap + 1 .. gap + k] |->
                    [number |-> name.count - gap, contents |-> <<name.count - gap>>]]
        /\ born = IF exists THEN k + 1 ELSE k
        /\ current = IF exists THEN [number |-> k + 1, day |-> 1] ELSE NoFile
  BY DEF Init
<1>4. k \in Nat /\ gap \in Nat
  BY <1>3, LogAssumption
<1>5. IsFiniteSet(DOMAIN old)
  <2>. DEFINE f == [i \in gap + 1 .. gap + k |-> [day |-> 1, count |-> i]]
              S == gap + 1 .. gap + k
              T == [day : {1}, count : S]
  <2>1. f \in Surjection(S, T)
    <3>1. f \in [S -> T]
      OBVIOUS
    <3>2. ASSUME NEW n \in T PROVE n.count \in S /\ f[n.count] = n
      OBVIOUS
    <3>. QED  BY <3>1, <3>2 DEF Surjection
  <2>2. IsFiniteSet(S)
    BY <1>4, FS_Interval
  <2>3. IsFiniteSet(T)
    <3>. HIDE DEF f, S, T
    <3>. QED  BY <2>1, <2>2, FS_Surjection
  <2>4. DOMAIN old = T
    BY <1>3
  <2>. QED  BY <2>3, <2>4
<1>6. \A n : ~Condemned(n)
  BY <1>2 DEF Condemned
<1>7. ~Exists => (\E n \in DOMAIN old : old[n].number = born) \/ DOMAIN old = {}
  <2>. SUFFICES ASSUME ~Exists
                PROVE  (\E n \in DOMAIN old : old[n].number = born) \/ DOMAIN old = {}
    OBVIOUS
  <2>1. born = k
    BY <1>3, <1>4 DEF Exists
  <2>2. CASE k = 0
    <3>1. gap + 1 .. gap + k = {}
      BY <1>4, <2>2
    <3>. QED  BY <1>3, <3>1
  <2>3. CASE k # 0
    <3>1. PICK n : n = [day |-> 1, count |-> gap + k]
      OBVIOUS
    <3>2. n \in DOMAIN old /\ n.count = gap + k
      BY <1>3, <1>4, <2>3, <3>1
    <3>3. old[n].number = k
      BY <1>3, <1>4, <3>2
    <3>. QED  BY <2>1, <3>2, <3>3
  <2>. QED  BY <2>2, <2>3
<1>. QED
  BY <1>2, <1>5, <1>6, <1>7 DEF OInv, Aged, DeletedBefore, OldestFirst, Limited

(* One step, and what it has done when it ends a deletion                  *)
LEMMA StepOld ==
  ASSUME IInv, LInv, DoomedAreThere, OInv, [Next]_vars
  PROVE  /\ OInv'
         /\ worker \in {"finding", "deleting"} /\ worker' \in {"resting", "ended"} => WithinLimits'
<1>. DEFINE Over == worker \in {"finding", "deleting"} /\ worker' \in {"resting", "ended"}
<1>1. CASE UNCHANGED vars \/ StartLog \/ StopLog \/ OpenFile \/ DayPasses
  <2>1. worker' = worker \/ worker' = "working"
    BY <1>1 DEF vars, StartLog, StopLog, OpenFile, DayPasses, Start, Stop, NextDay, preserver,
      thread
  <2>. QED  BY <1>1, <2>1, LogOld
<1>2. CASE RequestEnds \/ BufferTimeOver
  <2>1. worker' = worker
    BY <1>2 DEF RequestEnds, BufferTimeOver, preserver, thread
  <2>. QED  BY <1>2, <2>1, BufferOld
<1>3. ASSUME NEW ok \in BOOLEAN, WriteEnds(ok) PROVE OInv' /\ ~Over
  <2>1. worker' = worker
    BY <1>3 DEF WriteEnds, thread
  <2>. QED  BY <1>3, <2>1, WriteOld
<1>4. ASSUME NEW ok \in BOOLEAN, RenameFile(ok) PROVE OInv' /\ ~Over
  <2>1. worker = "renaming"
    BY <1>4 DEF RenameFile, Rename
  <2>. QED  BY <1>4, <2>1, RenameOld
<1>5. ASSUME NEW ok \in BOOLEAN, NEW t \in doomed, DeleteFile(t, ok)
      PROVE  OInv' /\ (Over => WithinLimits')
  <2>1. t \in DOMAIN old
    BY <1>5 DEF DoomedAreThere, DeleteFile, Delete
  <2>. QED  BY <1>5, <2>1, DeleteOld
<1>6. CASE Preserve
  <2>0. UNCHANGED <<appender, logged, opened, history>>
    BY <1>6 DEF Preserve
  <2>1. ASSUME NEW ok \in BOOLEAN, FindOldFiles(ok)
        PROVE  OInv' /\ (Over => WithinLimits')
    BY <2>0, <2>1, FindOld
  <2>2. ASSUME NEW ok \in BOOLEAN,
               \/ Wake \/ Joined
               \/ DoWork(Len(file), ok) \/ Stat(Len(file), ok) \/ TryNext(ok) \/ FindName(ok)
        PROVE  OInv' /\ ~Over
    <3>1. worker \notin {"finding", "deleting"} \/ worker' = worker
      BY <2>2 DEF Wake, Joined, DoWork, Stat, TryNext, FindName, thread
    <3>. QED  BY <2>0, <2>2, <3>1, ThreadOld
  <2>. QED  BY <1>6, <2>1, <2>2 DEF Preserve
<1>. QED
  BY <1>1, <1>2, <1>3, <1>4, <1>5, <1>6 DEF Next, AppenderWorks, PreserverWorks

(* "The oldest files over the limit get deleted after a rotation", as      *)
(* #deleteOldFiles() says of itself: when it is over, those that are left  *)
(* are within the limits, and what has ever been deleted is older than any *)
(* line that is left.                                                      *)
THEOREM TheOldestGo == Spec => OldestAreDeleted
<1>. DEFINE Inv == IInv /\ LInv /\ DoomedAreThere /\ OInv
            Over == worker \in {"finding", "deleting"} /\ worker' \in {"resting", "ended"}
<1>1. Init => Inv
  BY InitIInv, InitLInv, InitOld
<1>2. Inv /\ [Next]_vars => Inv'
  BY StepKeeps, NextLines, DoomedStay, StepOld
<1>3. Inv /\ [Next]_vars => [Over => WithinLimits' /\ DeletedAreOlder']_vars
  <2>. SUFFICES ASSUME Inv, [Next]_vars, Over PROVE WithinLimits' /\ DeletedAreOlder'
    OBVIOUS
  <2>1. WithinLimits' /\ OInv'
    BY StepOld
  <2>2. \A n \in DOMAIN old' : DeletedBefore(LinesOf(old[n].contents))'
    BY <2>1 DEF OInv, Aged, Condemned
  <2>. QED  BY <2>1, <2>2 DEF DeletedAreOlder, DeletedBefore
<1>. QED  BY <1>1, <1>2, <1>3, PTL DEF Spec, OldestAreDeleted
=============================================================================
