---------------------------- MODULE TokenBucket ----------------------------
(***************************************************************************)
(* The rate limiter of src/webapp-util/export/TokenBucket.js, together     *)
(* with the Threadlet (src/async) that services its queue.                 *)
(*                                                                         *)
(* Token quantities are counted in fractions: Unit of them make one token, *)
(* so that whole-token rounding can be told from partial tokens.  Time is  *)
(* counted in ticks.  A step is a synchronous stretch of JavaScript, with  *)
(* one exception: the loop of #serviceWaiters is one step per iteration,   *)
(* and while it is "servicing" no other code runs.                         *)
(*                                                                         *)
(* The servicer is a Threadlet without a start function.  Threadlet.tla    *)
(* shows that it never has two runs at once, so that one phase and one     *)
(* running condition describe it here.                                     *)
(***************************************************************************)
EXTENDS Integers, Sequences

CONSTANTS
  Clients,            \* the callers of requestGrant() and takeNow()
  Unit,               \* fractions in one token
  FlowRate,           \* fractions that flow in per tick
  MaxBurstSize,       \* #maxBurstSize
  InitialBurstSize,   \* #initialBurstSize
  MaxQueueGrantOption,\* the option maxQueueGrantSize, before rounding
  MaxQueueSize,       \* #maxQueueSize
  PartialTokens,      \* #partialTokens
  Quantities,         \* the quantities clients ask for: [min, max] in fractions
  MaxTime,            \* bound: the time at which the clock stops
  MaxCalls,           \* bound: calls of requestGrant() and takeNow()
  LastCallTime,       \* bound: when the last of those is made
  MaxDenials          \* bound: calls of denyAllRequests()

(* What the constructor and the types of its options enforce. *)
ASSUME OptionsAssumption ==
  /\ Unit \in Nat \ {0}
  /\ FlowRate \in Nat \ {0}
  /\ MaxBurstSize \in Nat \ {0}
  /\ InitialBurstSize \in 0 .. MaxBurstSize
  /\ MaxQueueSize \in Nat
  /\ MaxQueueGrantOption \in Nat
  /\ MaxQueueGrantOption <= MaxBurstSize
  /\ MaxQueueGrantOption <= MaxQueueSize
  /\ PartialTokens \in BOOLEAN
  /\ Quantities \subseteq [min : Nat, max : Nat]
ASSUME BoundsAssumption ==
  MaxTime \in Nat /\ MaxCalls \in Nat /\ LastCallTime \in Nat /\ MaxDenials \in Nat

VARIABLES
  now,                \* what the time source says
  lastNow,            \* #lastNow
  lastBurstSize,      \* #lastBurstSize
  waiters,            \* #waiters
  queueSize,          \* #queueSize
  thread,             \* where the waiter thread is
  runCond,            \* its running condition: FALSE once stop() was called
  wakeAt,             \* the time it sleeps until
  client,             \* what each client is at
  denier,             \* is a call of denyAllRequests() in progress?
  granted,            \* history: fractions handed out so far
  before,             \* history: those handed out before each time
  calls,              \* history: calls made so far
  denials             \* history: calls of denyAllRequests() so far

bucket == <<lastNow, lastBurstSize>>
queue == <<waiters, queueSize>>
servicer == <<thread, runCond, wakeAt>>
history == <<granted, before, calls, denials>>
vars == <<now, bucket, queue, servicer, client, denier, history>>

Lesser(a, b) == IF a <= b THEN a ELSE b
Greater(a, b) == IF a >= b THEN a ELSE b

(* Math.floor() and Math.ceil() of a quantity in tokens. *)
Floor(q) == q - (q % Unit)
Ceil(q) == Floor(q + Unit - 1)
Whole(q) == IF PartialTokens THEN q ELSE Floor(q)

(* #maxQueueGrantSize, as the constructor leaves it. *)
MaxQueueGrantSize == Whole(MaxQueueGrantOption)

(* #parseQuantity(): round, clamp; it throws unless ValidQuantity. *)
ParsedMin(q) == IF PartialTokens THEN q.min ELSE Ceil(q.min)
ParsedMax(q) == Greater(Whole(q.max), ParsedMin(q))
ValidQuantity(q) == ParsedMin(q) <= MaxQueueGrantSize

(***************************************************************************)
(* "idle"       the Threadlet is not running                               *)
(* "starting"   run() was called, #run0 is at its first await              *)
(* "servicing"  #serviceWaiters is at the head of its loop                 *)
(* "sleeping"   it awaits raceWhenStopRequested()                          *)
(* "finishing"  it returned; the finally clause of #run0 is yet to run     *)
(***************************************************************************)
ThreadPhases == {"idle", "starting", "servicing", "sleeping", "finishing"}

(* What requestGrant() resolves to; `asked` is when it was called. *)
Replies == [reason : {"grant", "stopping", "full"}, grant : Nat, waitTime : Int]
NoReply == [reason |-> "none", grant |-> 0, waitTime |-> 0]

(***************************************************************************)
(* A client is "ready" to call, "waiting" for its promise, "resolved" when *)
(* the servicer has just resolved it, or "answered" when its own           *)
(* continuation may run.  What the servicer resolves in its last stretch   *)
(* reaches the client only after #run0's finally clause, because the       *)
(* client's continuation is queued one microtask behind it.                *)
(***************************************************************************)
ClientStates ==
  [at : {"ready", "waiting", "resolved", "answered"},
   min : Nat, max : Nat, asked : Nat, reply : Replies \union {NoReply}]
Waiters == [by : Clients, grant : Nat, startTime : Nat]

TypeOK ==
  /\ now \in 0 .. MaxTime /\ lastNow \in 0 .. now
  /\ lastBurstSize \in 0 .. MaxBurstSize
  /\ waiters \in Seq(Waiters)
  /\ queueSize \in Int
  /\ thread \in ThreadPhases
  /\ runCond \in BOOLEAN
  /\ wakeAt \in Int
  /\ client \in [Clients -> ClientStates]
  /\ denier \in {"idle", "pending"}
  /\ before \in [0 .. MaxTime -> Nat]
  /\ granted \in Nat /\ calls \in Nat /\ denials \in Nat

Ready == [at |-> "ready", min |-> 0, max |-> 0, asked |-> 0, reply |-> NoReply]

Init ==
  /\ now = 0
  /\ lastNow = 0
  /\ lastBurstSize = InitialBurstSize
  /\ waiters = <<>>
  /\ queueSize = 0
  /\ thread = "idle"
  /\ runCond = FALSE
  /\ wakeAt = 0
  /\ client = [c \in Clients |-> Ready]
  /\ denier = "idle"
  /\ granted = 0
  /\ before = [t \in 0 .. MaxTime |-> 0]
  /\ calls = 0
  /\ denials = 0

-----------------------------------------------------------------------------
(* Mutant of ToppedUp: no upper bound. *)
ToppedUpUncapped == lastBurstSize + (now - lastNow) * FlowRate

(* #topUpBucket(): the burst size it leaves behind; it also sets #lastNow. *)
ToppedUp ==
  IF lastBurstSize < MaxBurstSize
  THEN Lesser(lastBurstSize + (now - lastNow) * FlowRate, MaxBurstSize)
  ELSE lastBurstSize

(* #calculateGrant(), with the given burst size. *)
CalculateGrant(burst, min, max) ==
  LET available == Whole(burst)
      most == Lesser(max, MaxBurstSize)
  IN  IF available < min THEN 0 ELSE Lesser(available, most)

(* #grantNow(): is the request done, and if not, the wait until it could be. *)
IsDone(grant, min) == grant # 0 \/ min = 0
CeilDiv(a, b) == (a + b - 1) \div b
WaitUntil(burst, max) ==
  lastNow' + CeilDiv(Lesser(max, MaxQueueGrantSize) - burst, FlowRate)

(* Tokens leave the bucket. *)
HandOut(burst, grant) ==
  /\ lastBurstSize' = burst - grant
  /\ granted' = granted + grant

Answer(c, q, reply) ==
  client' = [client EXCEPT ![c] =
    [at |-> "answered", min |-> ParsedMin(q), max |-> ParsedMax(q),
     asked |-> 0, reply |-> reply]]
Reply(reason, grant, waitTime) ==
  [reason |-> reason, grant |-> grant, waitTime |-> waitTime]

MayCall ==
  /\ thread # "servicing"
  /\ calls < MaxCalls
  /\ now <= LastCallTime
  /\ calls' = calls + 1

(* requestGrant() that is granted at once: nobody waits, and the bucket holds
   what is asked for. *)
GrantAtOnce(c, q) ==
  LET grant == CalculateGrant(ToppedUp, ParsedMin(q), ParsedMax(q))
  IN  /\ MayCall
      /\ client[c].at = "ready"
      /\ waiters = <<>>
      /\ IsDone(grant, ParsedMin(q))
      /\ lastNow' = now
      /\ HandOut(ToppedUp, grant)
      /\ Answer(c, q, Reply("grant", grant, 0))
      /\ UNCHANGED <<now, queue, servicer, denier, before, denials>>

(* What the synchronous attempt of requestGrant() leaves behind when it fails:
   the bucket topped up if there were no waiters, untouched if there were. *)
NotAtOnce(q) ==
  IF waiters = <<>>
  THEN /\ ~IsDone(CalculateGrant(ToppedUp, ParsedMin(q), ParsedMax(q)), ParsedMin(q))
       /\ lastNow' = now
       /\ lastBurstSize' = ToppedUp
  ELSE UNCHANGED bucket

(* The grant that would be queued, and whether the queue has room for it. *)
QueuedGrant(q) == Lesser(ParsedMax(q), MaxQueueGrantSize)
IsFull(q) == QueuedGrant(q) = 0 \/ QueuedGrant(q) + queueSize > MaxQueueSize

(* requestGrant() that is content with nothing, or that finds the queue full. *)
GrantNothing(c, q) ==
  /\ MayCall
  /\ client[c].at = "ready"
  /\ NotAtOnce(q)
  /\ \/ /\ ParsedMin(q) = 0
        /\ Answer(c, q, Reply("grant", 0, 0))
     \/ /\ ParsedMin(q) # 0
        /\ IsFull(q)
        /\ Answer(c, q, Reply("full", 0, 0))
  /\ UNCHANGED <<now, queue, servicer, denier, granted, before, denials>>

(* #startWaiterThread(): run() on a Threadlet, which is a no-op if it is
   running, up to and including the finally clause of #run0. *)
StartWaiterThread ==
  IF thread = "idle"
  THEN thread' = "starting" /\ runCond' = TRUE
  ELSE UNCHANGED <<thread, runCond>>

(* requestGrant() that has to wait. *)
Enqueue(c, q) ==
  /\ MayCall
  /\ client[c].at = "ready"
  /\ NotAtOnce(q)
  /\ ParsedMin(q) # 0
  /\ ~IsFull(q)
  /\ queueSize' = queueSize + QueuedGrant(q)
  /\ waiters' = Append(waiters,
       [by |-> c, grant |-> QueuedGrant(q), startTime |-> lastNow'])
  /\ StartWaiterThread
  /\ client' = [client EXCEPT ![c] =
       [at |-> "waiting", min |-> ParsedMin(q), max |-> ParsedMax(q),
        asked |-> now, reply |-> NoReply]]
  /\ UNCHANGED <<now, wakeAt, denier, granted, before, denials>>

(* The client's continuation after `await requestGrant()`. *)
ClientResumes(c) ==
  /\ thread # "servicing"
  /\ client[c].at = "answered"
  /\ client' = [client EXCEPT ![c] = Ready]
  /\ UNCHANGED <<now, bucket, queue, servicer, denier, history>>

(* Mutant of TakeNow: does not look whether somebody waits. *)
TakeNowRegardless(c, q) ==
  /\ MayCall
  /\ client[c].at = "ready"
  /\ lastNow' = now
  /\ HandOut(ToppedUp, CalculateGrant(ToppedUp, ParsedMin(q), ParsedMax(q)))
  /\ UNCHANGED <<now, queue, servicer, client, denier, before, denials>>

(* takeNow(), which never waits and never overtakes a waiter. *)
TakeNow(c, q) ==
  LET grant == IF waiters = <<>>
               THEN CalculateGrant(ToppedUp, ParsedMin(q), ParsedMax(q)) ELSE 0
  IN  /\ MayCall
      /\ client[c].at = "ready"
      /\ IF waiters = <<>>
         THEN lastNow' = now /\ HandOut(ToppedUp, grant)
         ELSE UNCHANGED <<bucket, granted>>
      /\ UNCHANGED <<now, queue, servicer, client, denier, before, denials>>

-----------------------------------------------------------------------------
(* denyAllRequests(): stop() the thread if somebody waits.  stop() returns at
   once if the thread is not running. *)
DenyAllRequests ==
  /\ thread # "servicing"
  /\ denier = "idle"
  /\ denials < MaxDenials
  /\ denials' = denials + 1
  /\ waiters # <<>>
  /\ IF thread = "idle"
     THEN UNCHANGED <<runCond, denier>>
     ELSE runCond' = FALSE /\ denier' = "pending"
  /\ UNCHANGED <<now, bucket, queue, thread, wakeAt, client, granted, before, calls>>

(* #run0 goes on after its first await and calls #serviceWaiters. *)
ThreadBegins ==
  /\ thread = "starting"
  /\ thread' = "servicing"
  /\ UNCHANGED <<now, bucket, queue, runCond, wakeAt, client, denier, history>>

(* Mutant of Resolve: the promise stays unsettled. *)
DoNotResolve(c, reply) == UNCHANGED client

Resolve(c, reply) ==
  client' = [client EXCEPT ![c].at = "resolved", ![c].reply = reply]

(* An iteration of #serviceWaiters that grants the first waiter its tokens. *)
ServiceGrants ==
  LET info == Head(waiters)
      grant == CalculateGrant(ToppedUp, info.grant, info.grant)
  IN  /\ thread = "servicing"
      /\ runCond
      /\ waiters # <<>>
      /\ IsDone(grant, info.grant)
      /\ lastNow' = now
      /\ HandOut(ToppedUp, grant)
      /\ waiters' = Tail(waiters)
      /\ queueSize' = queueSize - info.grant
      /\ Resolve(info.by, Reply("grant", grant, now - info.startTime))
      /\ UNCHANGED <<now, servicer, denier, before, calls, denials>>

(* Whoever was resolved before the servicer went to sleep, or before the thread
   ended, has its continuation run next. *)
Continued ==
  [c \in Clients |->
     IF client[c].at = "resolved" THEN [client[c] EXCEPT !.at = "answered"] ELSE client[c]]

(* An iteration that cannot grant, and waits until it should be able to. *)
ServiceSleeps ==
  LET info == Head(waiters)
      grant == CalculateGrant(ToppedUp, info.grant, info.grant)
  IN  /\ thread = "servicing"
      /\ runCond
      /\ waiters # <<>>
      /\ ~IsDone(grant, info.grant)
      /\ lastNow' = now
      /\ lastBurstSize' = ToppedUp
      /\ wakeAt' = WaitUntil(ToppedUp, info.grant)
      /\ thread' = "sleeping"
      /\ client' = Continued
      /\ UNCHANGED <<now, queue, runCond, denier, history>>

(* The race is won by the time source or by the stop request. *)
ThreadWakes ==
  /\ thread = "sleeping"
  /\ ~runCond \/ now >= wakeAt
  /\ thread' = "servicing"
  /\ wakeAt' = 0
  /\ UNCHANGED <<now, bucket, queue, runCond, client, denier, history>>

(* The loop ends because the queue is empty. *)
ServiceDone ==
  /\ thread = "servicing"
  /\ runCond
  /\ waiters = <<>>
  /\ thread' = "finishing"
  /\ UNCHANGED <<now, bucket, queue, runCond, wakeAt, client, denier, history>>

(* The loop ends because of stop(): everybody who waits is denied.  #queueSize
   stays as it is. *)
ServiceDenies ==
  /\ thread = "servicing"
  /\ ~runCond
  /\ lastNow' = now
  /\ lastBurstSize' = ToppedUp
  /\ client' = [c \in Clients |->
       IF \E i \in 1 .. Len(waiters) : waiters[i].by = c
       THEN LET i == CHOOSE i \in 1 .. Len(waiters) : waiters[i].by = c
            IN  [client[c] EXCEPT !.at = "resolved",
                  !.reply = Reply("stopping", 0, now - waiters[i].startTime)]
       ELSE client[c]]
  /\ waiters' = <<>>
  /\ thread' = "finishing"
  /\ UNCHANGED <<now, queueSize, runCond, wakeAt, denier, history>>

(* The finally clause of #run0; a pending stop() returns. *)
ThreadEnds ==
  /\ thread = "finishing"
  /\ thread' = "idle"
  /\ runCond' = FALSE
  /\ denier' = "idle"
  /\ client' = Continued
  /\ UNCHANGED <<now, bucket, queue, wakeAt, history>>

(* Time passes. *)
Tick ==
  /\ thread # "servicing"
  /\ now < MaxTime
  /\ now' = now + 1
  /\ before' = [before EXCEPT ![now + 1] = granted]
  /\ UNCHANGED <<bucket, queue, servicer, client, denier, granted, calls, denials>>

-----------------------------------------------------------------------------
Call(c, q) == GrantAtOnce(c, q) \/ GrantNothing(c, q) \/ Enqueue(c, q) \/ TakeNow(c, q)
ThreadStep ==
  \/ ThreadBegins \/ ServiceGrants \/ ServiceSleeps \/ ThreadWakes
  \/ ServiceDone \/ ServiceDenies \/ ThreadEnds

Next ==
  \/ \E c \in Clients, q \in Quantities : ValidQuantity(q) /\ Call(c, q)
  \/ \E c \in Clients : ClientResumes(c)
  \/ DenyAllRequests
  \/ ThreadStep
  \/ Tick

(* Microtasks run, timers fire and time passes; nobody is obliged to call. *)
Fairness == WF_vars(ThreadStep) /\ WF_vars(Tick)

Spec == Init /\ [][Next]_vars
FairSpec == Spec /\ Fairness

-----------------------------------------------------------------------------
(* The rate limit itself: what was handed out, together with what is left in
   the bucket, is no more than what was in it at first and flowed in since. *)
WithinFlow == granted + lastBurstSize <= InitialBurstSize + FlowRate * lastNow

(* The limit over any stretch of time, from t until now: a full bucket and what
   flowed in meanwhile, whoever got the tokens and however they asked. *)
BurstWindow ==
  \A t \in 0 .. now : granted - before[t] <= MaxBurstSize + FlowRate * (now - t)

(* While somebody waits, tokens go to the one who has waited longest and to
   nobody else: neither a later waiter nor a fresh caller overtakes. *)
NoOvertaking ==
  [][waiters # <<>> /\ granted' # granted =>
       client'[Head(waiters).by].at = "resolved" /\ waiters' = Tail(waiters)]_vars

(* Every answer is in the range that was asked for, in whole tokens unless
   partial ones are allowed; a queued grant is exactly the lesser of the
   maximum and #maxQueueGrantSize, and a refusal grants nothing. *)
AnswersInRange ==
  \A c \in Clients :
    LET r == client[c].reply
    IN  IF r.reason = "grant"
        THEN /\ client[c].min <= r.grant /\ r.grant <= client[c].max
             /\ Whole(r.grant) = r.grant
        ELSE r.grant = 0

(* `stopping` is "due to a call to denyAllRequests() which is currently in
   progress", never a leftover of an earlier one. *)
StoppingMeansDenying ==
  [][\A c \in Clients :
       client'[c].reply.reason = "stopping" /\ client[c].reply.reason # "stopping"
         => denier = "pending"]_vars

(* Who gets in line while the thread is up gets an answer, and every answer is in
   the range that was asked for. *)
ServedWaitersAnswered ==
  /\ \A c \in Clients :
       client[c].at = "waiting" /\ thread \in {"starting", "sleeping"}
         ~> client[c].at # "waiting"
  /\ []AnswersInRange
=============================================================================
