# Lactoserv in TLA+

A formal model of the core of Lactoserv, a web server framework in JavaScript.
The modules here are translated from the source under `src/`; TLC checks them on
small instances, and TLAPS proves the most important properties of most of them
for every value of their constants.

## The system and its parts

Lactoserv runs in one Node process.  All of its code shares one thread of
control, so that the unit of atomicity is the stretch of JavaScript between two
`await`s.  What makes it hard is what may happen in between: other callers,
signals, timers, files and sockets that are done in any order, components that
fail half-way.

| part | state | operations | what must hold |
|---|---|---|---|
| `Mutex` (`async`) | `#lockedBy`, the queue of release functions | `lock()`, the unlocker, `serialize()` | one holder, served in order, nobody forgotten |
| `Threadlet` (`async`) | running condition, the promises of the run and of its start, whether the former was handed out | `run()`, `start()`, `stop()`, `whenStarted()` | one run at a time, stop requests stick, errors surface once |
| `Condition`, `PromiseUtil`, `ManualPromise` (`async`) | a flag and the promises for its values | set, pulse, wait, race | no wake-up is lost, nothing leaks |
| events (`async`) | a linked chain, heads into it | emit, advance, find, drain | every event once and in order, draining drains |
| `TokenBucket` (`webapp-util`) | burst size, time, queue, servicing thread | `requestGrant()`, `takeNow()`, `denyAllRequests()` | rate, order, limits, everybody is answered |
| component hierarchy (`compy`, `webapp-core`) | a state per component, parents and children, the tree of contexts by name, the map of hosts | `init()`, `start()`, `stop()`, `addAll()`, waiting for a state | dependencies first, failures are seen, the tree and the map agree with the components, nothing runs below what has stopped |
| system (`host`, `compy`, `main-lactoserv`) | the present and the next hierarchy, the reload request, the thread | load, start, reload, stop | one hierarchy at a time, a failed reload harms nothing |
| process (`host`) | exit code, callbacks, signals, problems | `exit()`, signals, uncaught errors | it ends once asked to, and tells the truth about how |
| connections (`net-protocol`) | server sockets, sockets, stashed sockets | accept, hand over, close, time out | no connection is lost or left over |
| rate limiters (`webapp-builtins`) | a bucket each; of a wrapped stream the write in progress and how either side has ended | grant, deny, write, end, destroy | what a writer is told was passed on has been, nobody waits for ever |
| dispatch (`webapp-builtins`, `collections`, `net-util`) | trees of routes and of hosts | bind, find, dispatch, redirect | the most specific route wins, paths add up, redirects lead somewhere |
| responses (`net-util`, `webapp-util`, `webapp-builtins`) | the page for what is not found, the body that is being written | conditional and range evaluation, validation, writing | an answer is whole and true, also while files change |
| file preservation (`webapp-util`) | request to save, last name used | rotate, save, delete old | no file is overwritten, no request is lost |
| logging (`loggy`, `loggy-intf`, `fs-util`) | chain of events, buffered text | log, flush | lines come out once and in order |
| value visiting (`valvis`, `loggy-intf`) | a table of visits, refs and defs | visit, settle, encode | sharing is kept, cycles are found, nothing is left half done |
| quantities, parsing, type checks, text, configuration | none | conversions | pure functions |

How they interact.  `main()` makes a system and runs it.  The system is a
component with a thread (a `Threadlet`) that waits for requests to reload, and
wraps a second hierarchy, the `WebappRoot`, whose managers start hosts, services,
applications and endpoints in that order and stop them in the reverse order.
Signals and uncaught problems reach the system through callbacks that it
registers with the process; the process gives those callbacks ten seconds and
itself a quarter of a second more.  Endpoints accept connections, ask rate
limiters (each a `TokenBucket`) for leave, and dispatch requests to applications;
services preserve files and write logs from chains of events.

`PROJECT.json` lists every part with its sources, and every hazard with the line
where it bites and the properties that would catch it going wrong, or why none does.

## The modules

| module | models | composes |
|---|---|---|
| `LockQueue` | abstract: what a fair lock promises | |
| `Mutex` | `async/export/Mutex.js` | implements `LockQueue` |
| `Threadlet` | `async/export/Threadlet.js` | |
| `MCAsync` | an instance of either, one of them in each behaviour, as they share nothing | `Mutex`, `Threadlet` |
| `Async_proofs` | proofs about `Mutex` and `Threadlet` | |
| `TokenBucket`, `MCTokenBucket` | `webapp-util/export/TokenBucket.js` and the thread it runs in | |
| `WebappRoot` | component hierarchies as wholes: `webapp-core` on `compy` | |
| `Host` | the process: `host/private`, `CallbackList` | |
| `System`, `MCSystem` | `BaseSystem`, `TemplWrappedHierarchy`, `TemplThreadComponent`, `main()` | `WebappRoot`, `Host` |
| `System_proofs` | proofs about `System`, `WebappRoot` and `Host` together | |
| `ComponentTree`, `MCComponentTree` | one hierarchy from within: `BaseComponent`, `ControlContext`, `TemplAggregateComponent`, `Condition`, `ComponentManager`, `HostManager` | |
| `ComponentTree_proofs` | proofs about `ComponentTree` | |
| `Connections` | the endpoints of one interface through reloads: `net-protocol`, `NetworkEndpoint`, `ConnectionRateLimiter` | |
| `RateLimitedStream` | a connection behind a `DataRateLimiter`: `RateLimitedStream`, the streams of Node, `TcpWrangler`'s handlers | |
| `RateLimiter_proofs` | proofs about `TokenBucket` and `RateLimitedStream` | |
| `TreeMap` | the tree of routes and of hosts: `TreeMap`, `TreeMapNode`, `PathKey`, `HostManager.HostMap` | |
| `DispatchInfo` | paths, what is left of them, and redirects as a client resolves them | |
| `FullResponse` | responses as data: making, adjusting, validating: `FullResponse`, `HttpConditional`, `HttpRange`, `StatusResponse`, `EtagGenerator` | |
| `Applications` | routers, filter, redirector, simple responses: `webapp-builtins`, `BaseApplication` | `TreeMap`, `DispatchInfo`, `FullResponse` |
| `StaticFiles` | static files and the page for what is not found: `StaticFiles`, `StaticFileResponder` | `Applications` |
| `Requests` | the requests of one connection, from the first byte to the last: `ProtocolWrangler`, `IncomingRequest`, the writing of `FullResponse` | `StaticFiles` |
| `MostSpecific`, `MCRequests` | what a configuration says of who is to be asked, as recursive definitions that the walk is compared with | `Requests` |
| `Network_proofs` | proofs about `Connections` and `Requests` | |
| `EventSource` | a chain of events and its source: `LinkedEvent`, `EventSource` | |
| `EventSink` | the consumer of a chain: `EventSink`, `EventOrPromise` | extends `EventSource` |
| `FileAppender` | the buffer before a log file: `fs-util/export/FileAppender.js` | |
| `SyslogToFile` | the system log through reloads: `SyslogToFile`, `TextFileSink` | `EventSink`, `FileAppender` |
| `SyslogToFile_proofs` | proofs about `SyslogToFile` | |
| `FilePreserver` | the preservation of a file: `BaseFilePreserver`, `Rotator`, `Saver` | |
| `AccessLogToFile`, `MCAccessLog` | the access log and its rotation: `webapp-builtins/export/AccessLogToFile.js` | `FileAppender`, `FilePreserver` |
| `AccessLogToFile_proofs` | proofs about the access log and its preserved files | |
| `BaseValueVisitor` | a visit of a value: `BaseValueVisitor`, `VisitDef`, `VisitRef` | |
| `LoggedValueEncoder`, `MCVisitor` | what logging makes of the outcome of a visit | `BaseValueVisitor` |
| `Visitor_proofs` | proofs about `BaseValueVisitor` and `LoggedValueEncoder` | |

A step of a module is one synchronous stretch of JavaScript: from an entry point
or the continuation of an `await` to the next `await`.  Where the order of the
microtasks that follow one another matters, they are separate steps (`Mutex`,
`Threadlet`), so that other code may come between any two of them; this allows
more than Node does, never less.  A `Threadlet` that another module uses is
reduced to the phase its one run is in: `Threadlet` shows that there is one.

**Mutex.**  `lockedBy` and `waiters` are the fields; a key is the client and the
number of its call, as unique as the `Symbol`.  A waiter is "released" when its
promise has been resolved and "acquired" once it has set `#lockedBy`.

**Threadlet.**  Each call of `#run0` is an activation with a phase of its own,
so that it is the guard in `#run()`, and not the shape of the model, that keeps
two of them from being alive at once.  The thread functions may end at any
point, with a value or an error, also when nobody has asked them to.

**TokenBucket.**  Tokens are counted in fractions, `Unit` to a token, since the
bucket fills continuously and grants are in whole tokens unless it is configured
otherwise.  Time is a counter that advances between stretches of code.  The loop
of `#serviceWaiters` is one step per iteration, and nothing else runs while it is
in progress.  `granted`, `before`, `calls` and `denials` are history: nothing in
the code corresponds to them.

**WebappRoot.**  The state of a component is that of its `ControlContext`.
`at` tells what a root's `start()` or `stop()` awaits.  Members take any time and
may fail; a member that fails stays in the state it was in, as in the code.  A
root whose `init()` throws is left with members that are never started, and they
are taken to be new.

**Host.**  One shutdown callback, the system's.  The two delays of 250 msec are
equal, and Node fires timers of equal length in the order in which they were set,
so they form a queue.

**System.**  `thread` is where `_impl_threadRun()` is, `stopCall` where the
shutdown callback is, `main` where `main()` is.  Anything may happen while the
configuration is being read, and reading it may fail.

**Connections.**  The wranglers of one interface, one per hierarchy the system
goes through.  Here a step is what happens between two events of the network or
of the clock with all the microtasks that follow: Node runs these before the next
event, so that a running accept loop always takes a connection at once, and what
a stash keeps is what arrived after the loop had ended.  Server sockets, the
stash and its timeouts, the listeners, the two threads of a wrangler and the
place of each connection are explicit; a request is only what keeps a connection
busy.  What Node does is modelled from how the code uses it: a server socket goes
on to accept without listeners, a session that was told to close is `closed` at
once and ends when it has no stream, `closeIdleConnections()` takes only those
that have had a request.

**EventSource, EventSink, FileAppender, SyslogToFile.**  An event is its position
in the chain.  What everybody logs is one of two types: `final`, which
`_impl_stop()` of the service logs last and its successor looks for, and `other`.
`thread` is where the sink's thread is, `headNow` what its `EventOrPromise` knows:
an event that was not there when the head moved on is known microtasks after it
was emitted, and an event emitted after a stop request may come too late for the
race that `#headEvent()` has lost by then ("late").  `loop` is `#waitAndFlush()`;
`inTheAir` are calls of `fs.appendFile()`, which end in any order, in the file or
with an error.  Timers come after all microtasks that are due, which is what the
guard `Quiet` of the 100 msec in `_impl_stop()` says.  A service whose stop has
failed has no successor, since the reload fails with it.

**FilePreserver, AccessLogToFile.**  `worker` is which `await` of `#run()`,
`#preserve()`, `#targetPath()` or `#deleteOldFiles()` the thread is at, and each
step is one call of the file system with what follows it, or its failure, up to
`MaxFailures` of them.  A file has a `number`, the order of birth that its time
stamps give, beside its name: the day and the count of the infix.  A write opens the
file that has the name now (`opened`) and lands in that file, whichever name it has
by then, or in none.  One process works in the directory, and nobody else uses
names like these.  The old files at the beginning are what an earlier service
with the same options leaves, the lowest counts perhaps deleted.  A deletion that
fails ends the thread; in the process of `Host` the error is a problem that ends
it, here the service just stays with a dead thread.

**ComponentTree.**  One root, one manager and some leaves, seen from within: `op`
holds where the `init()`, `start()` and `stop()` of each component are, `call`
where each `addAll()` is (and the root's `_impl_init()`, which adds the configured
children in the same way).  A step is what runs between two `await`s; a method
that looks at the state again after one may find that it has changed, and then
throws.  `waiter` are callers of `whenStopped()`: a pulse of the `Condition` lets
them look again, and what they look at may have changed again by then.  Leaves do
work of their own to start and to stop and may throw.

**RateLimitedStream.**  Bytes are numbered in the order in which the protocol layer
writes them, and `accepted` is what the inner stream, the network socket, has taken of
them; `flushed` counts those that have left its buffer, and with the socket the rest
is lost.  `write` is the one
`#write()` in progress with the `await` it is at, `chunks` the lengths of those
that wait for their turn, `end` how the wrapper has ended.  The streams are those
of Node, modelled as far as the code depends on them.  The bucket is seen from
outside: it grants something in the range it was asked for, or denies.

**TreeMap, DispatchInfo, FullResponse.**  Algorithms as operators.  A path is the
sequence of its components, with an empty one at the end for a directory.  What
`FindWithFallback` does by walking is checked against a ranking of all keys that
cover a path (`Ranked`).  A response is a record; a body is an interval of the
version of a file that it is read from.

**Applications, StaticFiles, Requests.**  Of a request that is being dispatched,
`todo` holds what is still to be asked: a router puts its choices in front of
those of the router that asked it, so that the walk through nested routers is a
stack.  `StaticFiles` has a step for each call of the file system; files change
and vanish in between.  `Requests` adds what is before and after: reading the
body, the answer to what went wrong, writing a body chunk by chunk, and the
connection that several requests share and that an error of the server closes.  A
client may leave, and may follow redirects.  A request that the configuration itself
asks to answer with an error is one that `AnsweredByError` names.

**BaseValueVisitor, LoggedValueEncoder.**  `entry` is the table of visits, `frame`
the call of `_prot_visitProperties()` of each object, `stack` the calls that run
synchronously; a call that awaits something leaves the stack and comes back when
that has settled.  A leaf yields a value or throws, at once or later.  Objects are
all alike but for what `_impl_shouldRef()` says of them.  A leaf is `Pending` until
its promise has settled, also when its entry was finished before because it was met
again and taken for the head of a cycle; settling finishes its def and lets whoever
awaits it go on.  `LoggedValueEncoder` is a function of the outcome.

## The runs

| run | instance and bounds | shows |
|---|---|---|
| `async` | a mutex of 3 clients with 2 calls each; or a thread object with 2 clients, 3 runs and a start function | `ServesInRequestOrder`: one holder at a time and service in request order (the refinement of `LockQueue`); `EveryLockGranted`; `SingleRun`; `StopSticks` and `StopEndsTheRun`: stop requests stick and are obeyed; `ErrorsSurface` exactly when nobody awaits the run |
| `token_bucket` | 2 clients, up to 4 calls, a denial, 6 ticks | `BurstWindow`: the rate over every window; `NoOvertaking`; `ServedWaitersAnswered` |
| `system` | 2 hierarchies, 2 endpoints and one member of each other kind, one failure, 4 signals to exit, 1 stray problem, any number of reload requests | `OneRootAtATime`; `EndpointsAreServed`: open endpoints have what they need; `CleanExit`: an exit code of 0 is the truth; `ExitsInTheEnd` |
| `connections` | 3 wranglers one after the other, 2 connections, HTTP1 or HTTP2, with a rate limiter or not | `RunningListens`; `ListensOnce`: one server socket at most; `StoppedIsQuiet`: nothing left after a stop; `StopsInTheEnd`: stops return and no connection is stuck in the stash |
| `connections_lost` | 2 wranglers, 1 connection | violated: a reload loses a connection that arrives during it, and fails (`NoConnectionLost`) |
| `syslog` | 2 services one after the other, 4 events from anybody, 2 of them kept beside the current one, with a buffer time or none, any write may fail | `KeptWindow`: what the source holds; `LoggedOnceInOrder`; `DrainTakesAll`: a drained sink leaves nothing behind; `NoGap` between two services; `StopEnds` |
| `access_log` | 5 configurations, up to 2 old files and 4 lines, 2 days, one call of the file system that fails | `LoggedOnceInOrder`: no line is lost, doubled or moved by rotation, and what is to be preserved is; `RotatesToTheEnd`: the oldest files are deleted, until the limits are kept, and `stop()` returns |
| `requests` | 15 sites, 2 requests at once, files of up to 3 versions of 2 or 4 bytes, bodies of up to 2 bytes read in pieces, chunks of 2 bytes, 3 redirects followed | `MostSpecificWins`: requests and certificates go where the most specific binding says; `RedirectsSettle`; `AnswersAreWhole`; `AnswersAreTrue`: while a file stays as it is, the answer is what the request, its conditions and its range ask for; `OldPageOnlyInARace`; `EveryRequestEnds` |
| `rate_limited` | 4 bytes written in chunks of up to 3, 2 chunks waiting, grants of up to 2, a buffer of 2, one byte on its way to the client | `PassedOnAsWritten`: the network socket is given what was written, in order, without gap or repetition, and success is only reported of what it was given; `NothingIsStuck` |
| `rate_limited_lost` | the same | violated: what the socket has been given and not yet sent is lost when the client closes its side (`SoonMeansFlushed`) |
| `visitor` | every one of 110,592 graphs of 4 nodes, visited synchronously and not | `VerdictIsRight`: a visit fails only if something failed or is circular; `NothingHalfDone`: no def, entry or call is left unfinished; `RefsAreDefined`: a ref that is logged has its def; `EveryVisitEnds` |
| `components` | a root, a manager and 3 leaves, 2 calls of `addAll()` with one or two leaves, 2 starts, 1 waiter, names and hostnames that clash | `TreeIsTrue`: contexts, paths and parents agree; `RunsAndStopsAsAWhole`; `HostMapIsTrue`; `EveryCallEnds` |

Why the bounds are enough.  `async`: two waiters and a holder, each with a second
call, give every order of a handover and a new request; what a run of a thread
object may leave behind shows in the next, and a third shows that the second left
nothing either.  `token_bucket`: two clients give a head of the queue and somebody
behind it, or somebody fresh; the burst size is not a multiple of a token, so
that fractions remain; the last call may be made early enough for everything to
be served before the clock stops.  `system`: one reload can fail at each of its
stages, two endpoints let one fail while the other goes on, the fourth signal is
the one that insists.  `connections`: three wranglers are two reloads, so that the
timeout of the first stash can fire while the second is in use; two connections
let one be under way while the other arrives.  `syslog`: a window smaller than
the number of events makes the source forget some, and makes it possible that the
end of the predecessor's log is among those; two services are one handover.
`access_log`: two old files and a new
one are more than the limits of one and two; four lines let two be written while
the file is being preserved, and one after; two days are one change of names; a
failure leaves a name that was chosen and not used, or ends the thread.
`requests`: a version that is shorter and one that is as long as the first show
what changes under a reader, and chunks of half a file give it the time to; two
requests are a race for the page of what is not found, and one whose failure
closes the connection of the other; the routers are nested two deep with a mount
within a mount, an explicit `null` and both kinds of key at one path.
`rate_limited`: grants smaller than chunks, chunks larger than the buffer, two
chunks waiting behind one in progress.  `visitor`: two objects that may be on a
cycle with each other and with themselves, and may share two children, one of
which has children too; a leaf that is slow, fails, or both, or gets a ref while it is
pending; symbols beside names.  `components`: two calls of `addAll()` give every order of checking and
adding, to each other and to the start and the stop of the manager; a second start
meets what the first has left.

The deadlock check is off where a system may come to rest: clients that have made
all their calls, a process that is gone.

### Fairness

`Mutex`: microtasks run, and a client that holds the lock unlocks it, which
`serialize()` guarantees if what it serializes settles.  `Threadlet`: microtasks
run, the start function settles, and the main function returns once it should
stop, which the class comment demands of it; nothing is assumed of a main
function that nobody has asked to stop.  `TokenBucket`: microtasks run, timers
fire, time passes.  `System`: the timers of the process fire and lead to their
callbacks; no component is assumed ever to be done.  `Connections`: timers fire, and
every connection ends at some time, because idle ones are timed out after three
minutes and others are assumed to be left by their peers.  `SyslogToFile`:
microtasks run, timers fire, and every write ends; nobody is assumed to log
anything, or to stop the service.  `AccessLogToFile`: timers fire, the file system
answers, and the thread goes on; neither requests nor days are assumed to come.
`Requests`: every request that has begun goes on, which includes that the file
system answers and that a client sends the body it has announced or leaves (Node
has a timeout for the latter).  `RateLimitedStream`: the bucket answers (which
`token_bucket` shows of it), callbacks come, the protocol layer reads, and a
connection on which nothing goes on has its timeout; a client need not read, send
or leave.  `BaseValueVisitor`: the code runs on, and the promises of leaves settle.
`ComponentTree`: whatever awaits something that has settled goes on, and the own
work of a leaf is done or throws; nobody is assumed to start, stop or add anything.

## The proofs

Checked by TLAPS, from the named assumptions on the constants only.

`Async_proofs`, of a `Mutex` with any set of clients and any number of calls of `lock()`: the
inductive invariant `LockInvariant` says that one client at most
has been let through, that `#lockedBy` is its key as soon as it has resumed, and
that the queue holds exactly the clients that wait.  Mutual exclusion follows
(`MutexExcludes`); without the second part a released waiter could not be told
from a newcomer.  `MutexServesInOrder` proves the refinement: every step of the
mutex is a step of `LockQueue` or a stutter of it.

`Async_proofs`, of a `Threadlet` with any clients and number of runs: `IdleIsClean` ties the
activation that is alive to `#runResult`, from which `SingleRun` follows; with it
go `StopSticks` and `ExposedIffAwaited`, and the last gives `ErrorsSurface`.

`RateLimiter_proofs`, of a bucket with any options that the constructor accepts: every step is
shown to be a `BucketStep` (time passes, tokens flow in up to the limit, tokens
go out), and the rate in total and over every window follow from that alone.  The
window needs a stronger invariant, which counts what was in the bucket when the
window began.  `NoOvertaking` and `StoppingMeansDenying` are proved by a case for
each action.

`Network_proofs`, of the connections of an interface, for any number of reloads and
connections: `RunningListens`
and `ListensOnce`.  The inductive invariant says that the wranglers take turns
(`OneByOne`), that the stash holds at most the latest of those that were stopped,
with a server socket that listens (`StashIsOfTheLatest`), and that every server
socket that listens is held by somebody who has not closed it (`ListeningIsHeld`).
Without the second, a timeout could close what a successor uses; without the
third, a new server socket could meet an old one.  `StoppedIsQuiet` has an invariant
of its own, about connections: an acceptor that is done has no sockets
(`DoneIsQuiet`), and it is done whenever its wrangler has stopped (`DoneInTime`).  It
is stated without a rate limiter, as the property is: a connection that waits for the
limiter may be let through later.

`Network_proofs`, of the requests of a connection, for any sites, files, versions,
chunk size and requests: `AnswersAreWhole`, `AnswersAreTrue` and `OldPageOnlyInARace`.
`RequestsInvariant` says of each request, by its phase, what is known of it until a
file changes.  While a path is looked up, the index files that were tried are not
there (`LooksRight`), so that the file that is found is the one `FileOf` names.  An
answer that was given passes its validation, and if it comes from static files it
says what the conditions and the range of the request ask for (`Fits`, `SaysOf`); that is
a lemma about `AdjustFor` and its parts.  What was sent is the part of the
answer's body that ends where the loop is (`InChunks`, `Carried`): whether it is without a
gap is said by where each piece begins and ends, so that no sum is needed.  An end is
a refusal of the request's body, a whole answer, or a failure, which takes a file that
has changed or a configured error, and closes the connection.

`OldPageOnlyInARace` needs `PagesFit` beside it: the modification time kept with the
page for what is not found is no later than the content kept with it, since the file is
looked at before it is read, and files only get newer.  So when a request sends the page
it met at its beginning, because the time of the file is still the one kept with it, and
nobody has replaced the page meanwhile, its content is as new as the file is now, and
no older than the file was then.

`SyslogToFile_proofs`, for any number of events kept, of events and of services:
`KeptWindow`, `DrainTakesAll` and `NoGap`.  The inductive invariant leaves the
files out.  Its heart is `HeadKnown`: what `#head` says of the next event is true,
and an event that comes too late for the stop request comes after every end of a
log; without the latter a thread that gives up its wait could leave the end of its
log behind, and its successor would begin before what it was told to follow.
`Smallest`, that a set of naturals has a least element, is proved from the
well-foundedness of `<`.  `OnceInOrder`, that is `LoggedOnceInOrder`, adds the files.
`OnceEach` says whose lines are where (`ByOwners`), that no line is at two places
of the file, the buffer and the writes in the air (`NoLineTwice`), and that the lines of
the present service are those of the events the sink has moved past: no others
(`Taken`), and all of them until a write fails (`Whole`).  `TimesLogged` counts places, so that
a line has one if there is exactly one place it is at.  `Ordered` says of the time
before the flush that the one write of the service that is in the air comes
after its lines in the file and before those in the buffer; a second loop beside the
first, or a timer while a write is in the air, would break it.

`AccessLogToFile_proofs`, for any configurations, days, lines and failures:
`NothingOverwritten`.  The count after the last one is tried without a look at
the others, so that the invariant must say that the last name is the latest of its
day (`LastIsLatest`), also when the renaming has failed or the file was deleted
since, and that it stays later while the thread waits to rename (`TargetIsLatest`).
`RotationKeepsTheLog`, that is `LoggedOnceInOrder`, takes the contents in:
the old files by number, the file, the one write in the air and the buffer are a row
of pieces, each in order and before the next (`InRows`), and hold what has been
logged and not been deleted (`Whole`).  For a write that ends after a renaming the
invariant must know that the file that was opened is the last that was born, now an
old one that no other comes after, or deleted (`FilesAreNumbered`), and that numbers
and names are in the same order.  `Kept` is for what is to be preserved: it is not in
the buffer or in the air, and without a failure the thread gets to the deletion only after
the renaming.

`TheOldestGo`, that is `OldestAreDeleted`, the safety part of `RotatesToTheEnd`, is
about the deletion: what was deleted is older than all that stays (`Aged`); with a
file that was found all older ones were (`OldestFirst`), so that deleting them one
after the other, newest first, ends with the newer ones whatever happens in
between; and what was not found is within the limits (`Limited`).  That the search finds enough is
`OldestAreFound`: the oldest of the files it leaves alone has those that are left, and perhaps more,
after it, and is not over a limit.  A write that ends meanwhile can only make that file
longer that was renamed last, which is why the size is taken without it.

`RateLimiter_proofs`, of a stream with any sizes of chunks, grants and buffers:
`PassedOnAsWritten`, which is about what the network socket is given, not about what
that sends.  A write is reported as done only if the socket has taken all of it, the
one exception being a connection that was destroyed by force.  While the stream is open, the number of bytes accepted is what
the write in progress began at plus what it has done (`OpenIsExact`), and the chunks
that wait follow that write without a gap up to what was written last (`LinedUp`);
once it is closed nothing waits for 'drain' and nothing is to follow
(`GoneIsQuiet`), which is why no byte can be passed on after one was dropped.  That
chunks are without a gap is said by naming where each of them ends, so that no
sum over the queue is needed.

`System_proofs`, for any number of hierarchies, any members, faults, signals and
problems: `OneRootAtATime`, `EndpointsAreServed` and `CleanExit`.  `Phases` is what
`main()`, the thread and the shutdown callback know of one another, without any
component; `RootsInTurn` is about the hierarchies: all but the present one are
`Down`, that is, nothing of them is active and nobody starts or stops them, and the
present one is `Ending` while somebody awaits its `stop()`, that is, when that returns
nothing of it is active.  The latter needs that whatever a stopped manager manages
has stopped (`ManagedHaveStopped`), since `stop()` looks at managers only.
`EndpointsAreServed` needs beside it that the managers before the one that is
starting run and those after it rest (`InOrder`).  `Exits` is what is known of the
process: a problem is on its way to `exit(1)` or has had its effect, and only a
shutdown whose callback has returned gets to its end with code 0.

`ComponentTree_proofs`, for any leaves, names, hostnames, lists of children and
faults, and any number of calls of `addAll()`: `TreeIsTrue`, `HostMapIsTrue` and
`RunsAndStopsAsAWhole`.  The first needs to know what the calls are about (`CallTypes`: the root adds the manager,
nobody else does, and it does so first of all), that everything with a context has
its path and is in the tree there (`Placed`), and that a leaf which is nascent has a
parent, while nothing is ready before the root is (`Parentage`), so that a component
that enters the tree was not in it before.  That a generated name is new takes the
smallest number that is free, and there is one since the tree is finite.
`HostMapIsTrue` needs beside it who has entered what: as long as the map is kept, no
leaf is nascent, a child that is being added has all its names, and the names before
one that was entered are taken (`HostsKept`).  With the last, a host that got some of
its names only has met one that was taken, and by whom tells why it is not a child:
another host has it, or it has it twice itself.

`RunsAndStopsAsAWhole` needs `RunInvariant` beside the first, about calls of `init()`,
`start()` and `stop()`: who awaits whom (`AwaitedAreBelow`; `init()` of a leaf is
awaited by who adds it, `InitIsAwaited`, and the root adds its manager first of all,
`ManagerFirst`), that the state of a component is that of the call at work on it, so
that no two are (`WorkShows`), and that a manager has done what the root asked of it by
the time the root no longer awaits it (`ManagerIsDone`, `InStep`).  The rest is why a
leaf may differ from its manager: it does not rest only if the manager starts or runs,
or stops and is still to hear of the leaf (`NoneLeftActive`); and it is stopped below a
manager that starts or runs only if the manager is still to hear of it, or passed it
by, or if whoever adds it has not got to its `start()` or has thrown
(`NoneForgotten`).  A leaf stops only while its manager does (`StoppingBelow`).

`Visitor_proofs`, for any nodes, any graphs and any order in which leaves settle:
`NothingHalfDone`, `VerdictIsRight` and `RefsAreDefined`, with an invariant each that
rests on the one before.  The first, `CallsInvariant`, is what the calls of a visit know
of one another: who runs or waits is an object whose visit is not over (`LiveOK`,
`EntryOK`), what a call has called or awaits is the child it is at (`PlaceOK`), whatever
is awaited still runs, waits or is pending (`AwaitOK`), and nobody waits in a circle
(`Ends`), because a node that is met while it is being visited gets a ref or ends in an
error.  So when nothing runs and nothing is pending nobody waits: of those that did,
one would wait for nobody else who waits.  `Ends` is said of all sets of nodes, which
spares the model a measure that goes down.

`OutcomeOK` follows errors.  Each comes from a leaf that fails or a cycle without refs
(`ErrorsAreBad`); until the caller has its answer, an error was noted by a call that
runs or is on its way to one (`ErrorsRise`), and one within the upper part of the
stack is noted within that part (`CyclesRise`), which is needed for the nodes of a
cycle, whose entries are in error while they run on; whoever runs or waits has somebody
who waits for it, up to the root (`Rooted`); and what came to a good end has children
that did or have a ref (`OkChildren`).  That only the exceptions named in `Swallowed` let
an error go is seen from the synchronous part of the stack being the only place where
more than one leaf can be pending (`LeafsAlone`).

`EncodedOK` is about a synchronous visit that ends well: it runs from the root
(`RunsFromRoot`), whatever would make it end otherwise is on its way up (`Trouble`), and
each node that was visited is within what the root's result holds, or will hold when
those that run have handed up theirs (`AllHeld`).  Hence the second pass comes to each
def from the root, unless it is within another def.  The policy on refs, on which
`RefsAreDefined` depends in the statement, is not used.

Stated about the constants alone, with their named assumptions: `HierarchyAssumption`
(the members of different managers, the managers and the root are different
components, and there is at least one hierarchy) for `System_proofs`,
`StreamBounds` (sizes are positive) for the stream in `RateLimiter_proofs`,
`MaxGensAssumption` (there is at least one wrangler), `SitesAssumption` (static files
are members of `Files`, a redirect has a status from 300 to 399, which `Redirector`
checks, and the headers of a request are parsed) and `FilesAssumption` (a version of a
file has a length, and a chunk is not empty) for `Network_proofs`,
`NodesAssumption` and `GraphsAssumption` (the root is a node, and the children of a node
are nodes, in an order) for `Visitor_proofs`, and
`TreeAssumption` (the root, the manager and the leaves are different components, what
is added are leaves, and hostnames come in a list) for `ComponentTree_proofs`.

Model-checked only: everything about progress (it needs fairness); `MostSpecificWins`,
which compares the walk through routers and trees of routes with recursive operators, and
whose proof would be an induction over the depth of the tree; and `RedirectsSettle`,
which does not hold for every configuration: that a client is led somewhere depends on
how routes and filters are put together, and the sites it is checked for say that they
settle.  `MostSpecific` has the recursive operators to itself, so that `Requests` and what
it is composed of can be proved about.

The attempt to prove `AnswersAreTrue` and `AnswersAreWhole` made three things explicit.
With two index files, the file of a directory is the first that is there: the
properties named any of them.  A configured status of 500, or of a success without the
body it must have, ends in an error while no file changes: `NoServerError` names these
cases, and the instance has them.  And the length of an answer says nothing of its
bytes when a piece could be sent twice and another left out: `LengthIsKept` says now
that the pieces follow one another.

The attempt to prove `NothingHalfDone` corrected the model of the visitor: a
leaf that was taken for the head of a cycle while it was pending had its def left open,
and whoever awaited it was never told.  In the code the promise settles all the same
and finishes the entry a second time (`Settle`), and the instance that TLC checks now has
such leaves with refs.  Reachability (`Spread`, `Within`) is said by
closed sets, so that no recursion is left in these modules.

## What is not modelled, and the plan

- **Trackers**: the queue of asynchronous advances of `EventTracker`, on the chain of
  `EventSource`.  Only the sink uses any of it.
- **Promises**: `PromiseUtil`'s ways not to leak what a race has left over; nothing
  that is visible depends on it.
- **Process files**: `ProcessInfoFile`, `ProcessIdFile`, `MemoryMonitor`: each a
  `Threadlet` with a timer and a file, of the kind that `FilePreserver` has.

Left out for good: quantities, parsing and formatting of text, MIME types, type
checks, configuration structures and log layout (pure functions in which nothing
interacts), heap dumps, and the operating system below Node.

## Observations

What came up while modelling; only the lost bytes of a rate-limited connection have a
run of their own.  Most are visible in the
definitions named; none is needed for a property to hold.

Rate limiting:

- A denial leaves `#queueSize` as it was while it empties the queue, so that the
  bucket takes the queue for fuller than it is (`ServiceDenies` in `TokenBucket`).
- The servicing thread of a bucket is not up between the end of a run and the next
  `start()`, although somebody may be waiting (`TokenBucket.js:577`).
- A connection that the rate limiter lets through after a stop has begun is handed
  to a protocol server that is closed (`LimiterGrants` in `Connections`;
  `StoppedIsQuiet` is stated without a limiter for that reason).  An error of a socket that waits
  for the limiter has no listener yet (`TcpWrangler.js:209`).
- `destroySoon()` of a rate-limited stream waits for 'close', which only the
  destruction it has put off would cause: a finished wrapper stays until the client
  goes or the timeout comes.  Its reading side exerts no back pressure.
- A wrapper that has passed on all and whose client has closed its side destroys
  itself, and `#destroy()` (`RateLimitedStream.js:212`) destroys the network socket
  at once, with whatever that has taken and not sent.  The writer was told of
  success, and `TcpWrangler.js:187` says of the `destroySoon()` it calls then: "Soon"
  means "after all pending data has been written and flushed".  The call ends at the
  wrapper, which calls neither `destroySoon()` nor `end()` of the socket.  This is what
  the run `rate_limited_lost` shows; `PassedOnAsWritten` promises nothing of what the
  socket sends.

System and components:

- A reload whose new hierarchy does not start leaves a system that runs without one
  (`BaseSystem.js:159`).  A request to reload that comes during a reload is forgotten
  when that is over (`BaseSystem.js:120`).
- A signal to exit that comes during the initial load finds no callback to call;
  the process exits with code 0 and does not stop what it has started (`Host`,
  `System`; this is the exception in `CleanExit`).
- Nascent children of a component do not work: `init()` of one throws 'Inconsistent
  context setup.' and leaves its entry in the tree, and at a root they are refused
  because each has a parent (`ComponentTree`).
- A child that is added while its parent is starting is initialized and never
  started (`BaseComponent.js:427`), and a later `stop()` of the parent fails on it,
  'Not running.'; a child that is still initializing when its manager starts makes
  that fail.  A host whose addition fails for its name stays in the host map,
  and so does one that has a hostname twice, with its names up to the second one.
- `init()`, `start()` and `stop()` look at the state after an `await` and complain
  that `super._impl_...()` was not called if another call came in between.
- The second round of closing HTTP2 sessions does nothing, because a session counts
  as closed since the first (`GraceEnds` in `Connections`).

Requests:

- A file that grows between the look at it and its being read is sent cut off with
  the new state's weak etag; a strong etag is made before the body is read.
- After an error in the middle of a body the status on the wire is still the first
  one, and the connection closes.
- A filter with `redirectDirectories` in front of `StaticFiles` sends a client back
  and forth; such sites are excluded by `settles`.
- `filterResponseStatus` of 200 or 206, or a `SimpleResponse` of 200 without a body,
  makes every response fail its validation.
- A host that an endpoint names does not fall back to a broader wildcard host.
- `StaticFiles` may go on to serve an older page for what is not found when two
  requests load it at once (`OldPageOnlyInARace` says that it takes such a race).

Logs:

- A third service reads again what the second has logged, if the end of the first
  is still in the window (`SyslogToFile.js:95`).
- `flush()` does not wait for a write that is already on its way
  (`FileAppender.js:121`).
- A request to save on stopping that is made while the thread deletes old files is
  forgotten when the deletion is over, and what was logged since the renaming is not
  preserved (`StopLog` in `AccessLogToFile`; `SavedWhenTold` excepts this case), although
  `onStop` is documented to rotate whenever the system is about to be stopped.
- The access log is not flushed when its service stops, unlike the system log.
- A sink that is told to drain before its main function has begun forgets that
  (`EventSink.js:155`).

Visits:

- The `break` after an error in `_prot_visitProperties()` leaves only the loop over
  the names; a promise found among the symbols afterwards swallows the error, and a
  throw there leaves a rejection unhandled (`VerdictIsRight` excepts both).
- `#finishWithError()` of an entry finishes its def with the error as its value.
- A def within the value of another def is not logged as one, since the second visit
  does not look there (`RefsAreDefined` excepts this case).
