-------------------------- MODULE RateLimitedStream --------------------------
(***************************************************************************)
(* A connection whose writes a DataRateLimiter holds back: the wrapper of  *)
(* src/webapp-builtins/private/RateLimitedStream.js between the protocol   *)
(* layer (outside) and the network socket (inside), and the handlers that  *)
(* TcpWrangler hangs on the wrapper.                                       *)
(*                                                                         *)
(* A step is one event (a call of the protocol layer, a grant, a timer, a  *)
(* packet) with all that follows from it before the next one.  What the    *)
(* protocol layer writes is counted in bytes, numbered in the order in     *)
(* which it writes them.  The bucket is TokenBucket.tla seen from outside: *)
(* a request is granted something in its range, or denied.                 *)
(*                                                                         *)
(* The streams are those of Node: a write callback at a time, 'finish'     *)
(* after end() and the last callback, destruction of its own accord once   *)
(* both sides have ended, and the 'error' and 'close' events in the tick   *)
(* in which a stream is destroyed.  Chunks are buffers, since Node makes   *)
(* them so for a stream that is not in object mode.                        *)
(***************************************************************************)
EXTENDS Integers, Sequences

CONSTANTS
  MaxWritten,    \* bound: bytes the protocol layer writes
  MaxChunk,      \* bound: the bytes of one chunk
  MaxWaiting,    \* bound: chunks that wait for the one before
  MaxSent,       \* bound: bytes the client sends
  MaxGrant,      \* the most the bucket grants at once
  HighWaterMark  \* how much a stream buffers before it asks to wait

ASSUME StreamBounds ==
  /\ MaxWritten \in Nat /\ MaxChunk \in Nat /\ MaxWaiting \in Nat /\ MaxSent \in Nat
  /\ MaxGrant \in Nat \ {0} /\ HighWaterMark \in Nat \ {0}

VARIABLES
  written,    \* bytes written to the outer stream so far
  chunks,     \* the lengths of the chunks that it has not passed to #write()
  write,      \* the call of #write() in progress
  error,      \* is there an #error?
  ended,      \* was end() called on the outer stream?
  end,        \* how the outer stream was destroyed
  accepted,   \* the bytes the inner stream took, in order
  needDrain,  \* is it to emit 'drain' when all of them are out?
  flushed,    \* how many of them have left its buffer for the client
  stalled,    \* has the client stopped reading?
  sent,       \* bytes the client sent
  pushed,     \* those pushed to the outer stream and not read there yet
  fin,        \* has the client closed its side?
  halfClose,  \* the handler of 'end'
  timeout     \* #handleTimeout()

writing == <<written, chunks, write, error, ended, end>>
inner == <<accepted, needDrain, flushed>>
reading == <<sent, pushed, fin>>
timers == <<halfClose, timeout>>
streamVars == <<writing, inner, stalled, reading, timers>>

(***************************************************************************)
(* #write() awaits a grant, or 'drain', or has left its callback to        *)
(* setImmediate().  from is what was written before its chunk, done is its *)
(* `at`, and ok whether the callback will be called without an error.      *)
(***************************************************************************)
Writes ==
  [at : {"none", "granting", "draining", "callback"},
   from : 0 .. MaxWritten, length : 0 .. MaxWritten, done : 0 .. MaxWritten,
   ok : BOOLEAN]
NoWrite == [at |-> "none", from |-> 0, length |-> 0, done |-> 0, ok |-> TRUE]

(* "open" as long as it is not; "finished" of its own accord, "denied" a grant,
   "reset" after an error of the inner stream, "forced" after a timeout. *)
Ends == {"open", "finished", "denied", "reset", "forced"}

StreamTypeOK ==
  /\ written \in 0 .. MaxWritten
  /\ chunks \in Seq(1 .. MaxChunk)
  /\ write \in Writes
  /\ error \in BOOLEAN /\ ended \in BOOLEAN /\ end \in Ends
  /\ accepted \in Seq(1 .. MaxWritten)
  /\ needDrain \in BOOLEAN /\ flushed \in 0 .. Len(accepted) /\ stalled \in BOOLEAN
  /\ sent \in 0 .. MaxSent /\ pushed \in 0 .. sent /\ fin \in BOOLEAN
  /\ halfClose \in {"none", "waiting", "done"}
  /\ timeout \in {"none", "grace", "done"}

StreamInit ==
  /\ written = 0 /\ chunks = <<>> /\ write = NoWrite
  /\ error = FALSE /\ ended = FALSE /\ end = "open"
  /\ accepted = <<>> /\ needDrain = FALSE /\ flushed = 0 /\ stalled = FALSE
  /\ sent = 0 /\ pushed = 0 /\ fin = FALSE
  /\ halfClose = "none" /\ timeout = "none"

(* The inner stream is destroyed if and only if the outer one is. *)
Destroyed == end # "open"
CanWriteInner == ~error /\ ~Destroyed
Least(a, b) == IF a <= b THEN a ELSE b

-----------------------------------------------------------------------------
(* #write() at the head of its loop, with an #error or not and with the inner
   stream destroyed or not: the next grant, or the callback. *)
AtLoopHead(w, failed, gone) ==
  IF w.done < w.length /\ ~failed /\ ~gone
  THEN [w EXCEPT !.at = "granting"]
  ELSE [w EXCEPT !.at = "callback", !.ok = ~failed]

(* _write() of the next chunk in line. *)
NextChunk(length, from) ==
  AtLoopHead([at |-> "granting", from |-> from, length |-> length,
              done |-> 0, ok |-> TRUE], error, Destroyed)

(* Mutant of Unstuck: no 'drain' is emitted when the inner stream closes. *)
StuckInDrain(w, failed, gone) ==
  IF w.at = "draining" /\ ~gone THEN AtLoopHead(w, failed, gone) ELSE w

(* Who waits for 'drain' gets it, from #writableOnClose() if need be. *)
Unstuck(w, failed, gone) ==
  IF w.at = "draining" THEN AtLoopHead(w, failed, gone) ELSE w

(* Both streams are destroyed, from whichever end it began: the inner one drops its
   buffer and emits 'close', and the outer one drops what is in its queue. *)
Destroy(how, w) ==
  /\ end' = how
  /\ error' = (error \/ how \in {"denied", "reset"})
  /\ chunks' = <<>>
  /\ write' = Unstuck(w, error', TRUE)

(* The outer stream has finished when all callbacks are in. *)
Finished == ended' /\ chunks' = <<>> /\ write'.at = "none"

(* Its reading side has ended when all that was pushed has been read. *)
ReadToTheEnd == fin' /\ pushed' = 0

(* With both sides ended it destroys itself, and #destroy() the inner stream, whatever
   is in the buffer of that: nobody calls end() of the inner stream. *)
MayFinish ==
  IF Finished /\ ReadToTheEnd /\ ~Destroyed THEN end' = "finished" ELSE UNCHANGED end

(* write() of the protocol layer; an empty chunk would only be called back. *)
Write(n) ==
  /\ ~ended /\ ~Destroyed
  /\ written + n <= MaxWritten /\ Len(chunks) < MaxWaiting
  /\ written' = written + n
  /\ UNCHANGED <<error, ended, end>>
  /\ IF write.at = "none"
     THEN write' = NextChunk(n, written) /\ UNCHANGED chunks
     ELSE chunks' = Append(chunks, n) /\ UNCHANGED write
  /\ UNCHANGED <<inner, stalled, reading, timers>>

(* end() of the outer stream, if nobody called it before. *)
EndOuter ==
  /\ ended' = TRUE
  /\ UNCHANGED <<written, chunks, write, error, reading>>
  /\ MayFinish

(* end() of the protocol layer, as of a response after which it closes. *)
End ==
  /\ ~ended /\ ~Destroyed
  /\ EndOuter
  /\ UNCHANGED <<inner, stalled, timers>>

(* The part of the chunk that a grant of n is for. *)
SubChunk(w, n) == [i \in 1 .. n |-> w.from + w.done + i]

(* The bucket grants n, by when the inner stream may have been destroyed: it then
   takes nothing, and `at` moves on all the same. *)
Granted(n) ==
  LET moved == [write EXCEPT !.done = @ + n]
      full == Len(accepted) + n - flushed >= HighWaterMark
  IN  /\ write.at = "granting"
      /\ n \in 1 .. Least(MaxGrant, write.length - write.done)
      /\ UNCHANGED <<written, chunks, error, ended, end>>
      /\ IF Destroyed
         THEN UNCHANGED <<accepted, needDrain>>
         ELSE /\ accepted' = accepted \o SubChunk(write, n)
              /\ needDrain' = (needDrain \/ full)
      /\ write' = IF full /\ CanWriteInner
                  THEN [moved EXCEPT !.at = "draining"]
                  ELSE AtLoopHead(moved, error, Destroyed)
      /\ UNCHANGED <<flushed, stalled, reading, timers>>

(* Mutant of Broken: the stream goes on after it was denied a grant. *)
NotBroken == UNCHANGED <<end, error, chunks>> /\ write' = [write EXCEPT !.at = "callback"]

(* #becomeBroken() because of a denial, and the break out of the loop. *)
Broken ==
  IF Destroyed
  THEN /\ error' = TRUE
       /\ write' = [write EXCEPT !.at = "callback", !.ok = FALSE]
       /\ UNCHANGED <<end, chunks>>
  ELSE Destroy("denied", [write EXCEPT !.at = "callback", !.ok = FALSE])

(* The bucket denies the request: the limiter is stopping, or its queue is full. *)
Denied ==
  /\ write.at = "granting"
  /\ Broken
  /\ UNCHANGED <<written, ended, inner, stalled, reading, timers>>

(* The callback: the outer stream goes on with the next chunk, or finishes. *)
Callback ==
  /\ write.at = "callback"
  /\ IF chunks = <<>>
     THEN /\ write' = NoWrite /\ UNCHANGED chunks
     ELSE /\ chunks' = Tail(chunks)
          /\ write' = NextChunk(Head(chunks), write.from + write.length)
  /\ UNCHANGED <<written, error, ended, inner, stalled, reading, timers>>
  /\ MayFinish

-----------------------------------------------------------------------------
(* A byte leaves the buffer of the inner stream for the client, which reads; with the
   last of them the inner stream emits 'drain' if it owes one. *)
Flush ==
  /\ ~Destroyed /\ ~stalled /\ flushed < Len(accepted)
  /\ flushed' = flushed + 1
  /\ needDrain' = (needDrain /\ flushed' # Len(accepted))
  /\ UNCHANGED <<written, chunks, error, ended, end>>
  /\ write' = IF needDrain /\ ~needDrain' THEN Unstuck(write, error, FALSE) ELSE write
  /\ UNCHANGED <<accepted, stalled, reading, timers>>

(* The client stops reading, for good. *)
Stall == ~stalled /\ stalled' = TRUE /\ UNCHANGED <<writing, inner, reading, timers>>

(* The inner stream fails: 'error', #onError(), then 'close'. *)
InnerError ==
  /\ ~Destroyed
  /\ Destroy("reset", write)
  /\ UNCHANGED <<written, ended, inner, stalled, reading, timers>>

-----------------------------------------------------------------------------
(* Bytes of the client make the inner stream 'readable': #read() takes all there
   is in one go, and pushes it, however full the outer stream is. *)
Receive ==
  /\ ~Destroyed /\ ~fin /\ sent < MaxSent
  /\ sent' = sent + 1 /\ pushed' = pushed + 1
  /\ UNCHANGED <<writing, inner, stalled, fin, timers>>

(* The 'end' of the outer stream starts the wait for its half close. *)
EndsReading ==
  /\ halfClose' = IF ReadToTheEnd THEN "waiting" ELSE halfClose
  /\ UNCHANGED <<written, chunks, write, error, ended, timeout>>
  /\ MayFinish

(* The client closes its side: #readableOnEnd(). *)
ClientEnds ==
  /\ ~Destroyed /\ ~fin
  /\ fin' = TRUE
  /\ UNCHANGED <<sent, pushed, inner, stalled>>
  /\ EndsReading

(* The protocol layer reads what there is. *)
Read ==
  /\ ~Destroyed /\ pushed > 0
  /\ pushed' = 0
  /\ UNCHANGED <<sent, fin, inner, stalled>>
  /\ EndsReading

-----------------------------------------------------------------------------
(* destroySoon(): end() unless it was called before.  That it then waits for
   'close' before it calls destroy() has no effect, as only a destroyed stream
   emits 'close'. *)
DestroySoon ==
  IF ended \/ Destroyed THEN UNCHANGED <<writing, reading>> ELSE EndOuter

(* The wait of the 'end' handler is over. *)
HalfCloseOver ==
  /\ halfClose = "waiting"
  /\ halfClose' = "done"
  /\ DestroySoon
  /\ UNCHANGED <<inner, stalled, timeout>>

(* Nothing goes on that would keep the idle timer of the socket from going off. *)
Idle ==
  /\ write.at \in {"none", "draining"}
  /\ stalled \/ flushed = Len(accepted)
  /\ pushed = 0

(* The 'timeout' of the inner stream, passed on by the outer one: #handleTimeout()
   up to its first wait. *)
SocketTimeout ==
  /\ ~Destroyed /\ timeout = "none"
  /\ timeout' = "grace"
  /\ DestroySoon
  /\ UNCHANGED <<inner, stalled, halfClose>>

(* destroy() of the outer stream, unless it is destroyed by now. *)
Forced ==
  IF Destroyed THEN UNCHANGED <<end, error, chunks, write>> ELSE Destroy("forced", write)

(* The grace period is over, or the socket closed before. *)
GraceOver ==
  /\ timeout = "grace"
  /\ timeout' = "done"
  /\ Forced
  /\ UNCHANGED <<written, ended, inner, stalled, reading, halfClose>>

StreamNext ==
  \/ \E n \in 1 .. MaxChunk : Write(n)
  \/ End
  \/ \E n \in 1 .. MaxGrant : Granted(n)
  \/ Denied
  \/ Callback
  \/ Flush
  \/ Stall
  \/ InnerError
  \/ Receive
  \/ ClientEnds
  \/ Read
  \/ HalfCloseOver
  \/ SocketTimeout
  \/ GraceOver

(* The bucket answers every request (TokenBucket.tla), callbacks and timers come
   in the end, the network delivers to a client that reads, the protocol layer
   reads, and a connection on which nothing goes on has its timeout. *)
StreamFairness ==
  /\ WF_streamVars((\E n \in 1 .. MaxGrant : Granted(n)) \/ Denied)
  /\ WF_streamVars(Callback)
  /\ WF_streamVars(Flush)
  /\ WF_streamVars(Read)
  /\ WF_streamVars(HalfCloseOver)
  /\ WF_streamVars(Idle /\ SocketTimeout)
  /\ WF_streamVars(GraceOver)

StreamSpec == StreamInit /\ [][StreamNext]_streamVars
FairStreamSpec == StreamSpec /\ StreamFairness

-----------------------------------------------------------------------------
(* What the inner stream takes is what was written, in that order: nothing twice,
   nothing left out, although each chunk is cut up as the grants come. *)
BytesInOrder == \A i \in 1 .. Len(accepted) : accepted[i] = i

(* Whether all of the write in progress, and all before it, was passed on. *)
PassedOn == Len(accepted) = write.from + write.length

(* A write is reported as done only if the inner stream took all of it, unless the
   connection was destroyed by force meanwhile: a denial in the middle of a chunk, or
   a failure while #write() awaits something, is not taken for success. *)
DoneMeansPassedOn ==
  write.at = "callback" /\ write.ok => PassedOn \/ end = "forced"

(* A connection that ends of its own accord has passed on all it was told to
   write, chunks that waited their turn when end() was called included. *)
FinishedMeansPassedOn == end = "finished" => Len(accepted) = written

(* The network socket is given what was written, and the protocol layer is told of
   success only for what the socket was given: through grants that cut up chunks,
   denials, failures and the end of the connection.  Whether the socket also sends it
   is another matter, see below. *)
PassedOnAsWritten == BytesInOrder /\ DoneMeansPassedOn /\ FinishedMeansPassedOn

(* What TcpWrangler says of the destroySoon() that it calls when the client has closed
   its side: the connection goes after all pending data has been written and flushed.
   It would if the wrapper passed the call on to the socket (or its end()). *)
SoonMeansFlushed == halfClose = "done" /\ end = "finished" => flushed = written

(* Every write is answered, even when the client stops reading or the connection
   goes away while #write() awaits a grant or 'drain'.  And the wrapper goes, and with
   it its place in #sockets, once the client has closed its side or the connection has
   timed out; stop() waits for that. *)
NothingIsStuck ==
  /\ (write.at # "none") ~> (write.at = "none")
  /\ (fin \/ timeout # "none") ~> Destroyed

=============================================================================
