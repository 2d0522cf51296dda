---------------------------- MODULE FileAppender ----------------------------
(***************************************************************************)
(* The buffer in front of a log file, src/fs-util/export/FileAppender.js.  *)
(*                                                                         *)
(* A piece of text is what one call of appendText() was given.  A call of  *)
(* fs.appendFile() is in the air until it is in the file or has failed;    *)
(* those in the air may end in any order.  A new service has a new         *)
(* appender for the same file, so that the writes of an old one may still  *)
(* be in the air beside those of the current one; `owner` is its number.   *)
(***************************************************************************)
EXTENDS Integers, Sequences

VARIABLES
  mayBuffer,      \* is #maxBufferTime more than zero?
  buffered,       \* #buffered of the current appender
  loop,           \* where #waitAndFlush is: "idle" is nowWaiting = false
  writeError,     \* has #writeError been set?
  inTheAir,       \* calls of appendFile() that have not ended
  file            \* the pieces in the file

appender == <<mayBuffer, buffered, loop, writeError, inTheAir, file>>

LoopPhases == {"idle", "timer", "writing"}
Writers == {"loop", "flush"}

AppenderTypeOK(Texts, Owners) ==
  /\ mayBuffer \in BOOLEAN
  /\ buffered \in Seq(Texts)
  /\ loop \in LoopPhases
  /\ writeError \in BOOLEAN
  /\ inTheAir \subseteq [owner : Owners, by : Writers, texts : Seq(Texts)]
  /\ file \in Seq(Texts)

AppenderInit ==
  /\ mayBuffer = FALSE
  /\ buffered = <<>>
  /\ loop = "idle"
  /\ writeError = FALSE
  /\ inTheAir = {}
  /\ file = <<>>

(* new FileAppender(), configured with a buffer time or without: what is in
   the air or in the file stays there. *)
NewAppender ==
  /\ mayBuffer' \in BOOLEAN
  /\ buffered' = <<>>
  /\ loop' = "idle"
  /\ writeError' = FALSE
  /\ UNCHANGED <<inTheAir, file>>

-----------------------------------------------------------------------------
(* #writeNow() up to its await, with `texts` in the buffer and `others` in
   the air. *)
WriteNow(owner, by, texts, others) ==
  /\ inTheAir' = others \union {[owner |-> owner, by |-> by, texts |-> texts]}
  /\ buffered' = <<>>

(* Mutant of AppendText: #nowWaiting is not looked at. *)
AppendTextAnyway(owner, text) ==
  /\ ~writeError
  /\ IF mayBuffer
     THEN /\ buffered' = Append(buffered, text)
          /\ loop' = "timer"
          /\ UNCHANGED inTheAir
     ELSE /\ WriteNow(owner, "loop", Append(buffered, text), inTheAir)
          /\ loop' = "writing"
  /\ UNCHANGED <<mayBuffer, writeError, file>>

(* appendText(), when no earlier write has failed: with a timer, or the loop
   at work already, the text just waits. *)
AppendText(owner, text) ==
  /\ ~writeError
  /\ IF loop # "idle" \/ mayBuffer
     THEN /\ buffered' = Append(buffered, text)
          /\ loop' = IF loop = "idle" THEN "timer" ELSE loop
          /\ UNCHANGED inTheAir
     ELSE /\ WriteNow(owner, "loop", Append(buffered, text), inTheAir)
          /\ loop' = "writing"
  /\ UNCHANGED <<mayBuffer, writeError, file>>

(* #waitAndFlush: its loop, from the test on, with `others` in the air *)
LoopGoesOn(owner, failed, others) ==
  IF buffered # <<>> /\ ~failed
  THEN WriteNow(owner, "loop", buffered, others) /\ loop' = "writing"
  ELSE inTheAir' = others /\ loop' = "idle" /\ UNCHANGED buffered

(* #waitAndFlush: the buffer time is over. *)
TimerFires(owner) ==
  /\ loop = "timer"
  /\ LoopGoesOn(owner, writeError, inTheAir)
  /\ UNCHANGED <<mayBuffer, writeError, file>>

(* #writeNow() goes on after its await in the loop of the current appender. *)
LoopWriteReturns(owner, w, ok) ==
  /\ w \in inTheAir
  /\ w.by = "loop" /\ w.owner = owner
  /\ writeError' = (writeError \/ ~ok)
  /\ LoopGoesOn(owner, writeError', inTheAir \ {w})
  /\ UNCHANGED mayBuffer

(* What it has written is in the file. *)
LoopWriteEnds(owner, w, ok) ==
  /\ LoopWriteReturns(owner, w, ok)
  /\ file' = IF ok THEN file \o w.texts ELSE file

(* Likewise in the loop of an appender that was replaced.  Its buffer was
   emptied by the last flush(), so that the loop ends. *)
OldLoopWriteEnds(owner, w, ok) ==
  /\ w \in inTheAir
  /\ w.by = "loop" /\ w.owner # owner
  /\ file' = IF ok THEN file \o w.texts ELSE file
  /\ inTheAir' = inTheAir \ {w}
  /\ UNCHANGED <<mayBuffer, buffered, loop, writeError>>

(* flush() up to its await, when no write has failed before *)
Flush(owner) ==
  /\ ~writeError
  /\ WriteNow(owner, "flush", buffered, inTheAir)
  /\ UNCHANGED <<mayBuffer, loop, writeError, file>>

(* flush() goes on. *)
FlushWriteEnds(owner, w, ok) ==
  /\ w \in inTheAir
  /\ w.by = "flush" /\ w.owner = owner
  /\ file' = IF ok THEN file \o w.texts ELSE file
  /\ writeError' = (writeError \/ ~ok)
  /\ inTheAir' = inTheAir \ {w}
  /\ UNCHANGED <<mayBuffer, buffered, loop>>

-----------------------------------------------------------------------------
Where(line, texts) == {k \in DOMAIN texts : texts[k] = line}

(* The places a line is at: in the file, in the buffer or in the air. *)
Copies(line) ==
  {<<"file", k>> : k \in Where(line, file)}
    \union {<<"buffer", k>> : k \in Where(line, buffered)}
    \union UNION {{<<"air", w, k>> : k \in Where(line, w.texts)} : w \in inTheAir}
=============================================================================
