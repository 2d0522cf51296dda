---------------------------- MODULE Applications ----------------------------
(***************************************************************************)
(* The applications that requests are dispatched to (src/webapp-builtins   *)
(* with webapp-core's BaseApplication and NetworkEndpoint, and webapp-     *)
(* util's StaticFileResponder), from the endpoint's call to the answer.    *)
(*                                                                         *)
(* An application answers, or passes (null), in which case the router that *)
(* asked it goes on with its next choice.  Of a request that is being      *)
(* dispatched, todo holds what is still to be asked, in order: a router    *)
(* puts its choices in front of those of the router that asked it.  An     *)
(* application that throws ends all of that, as only the endpoint catches. *)
(***************************************************************************)
EXTENDS TreeMap, FullResponse, DispatchInfo

CONSTANTS
  Requests,    \* the requests that may be in progress at once
  Sites,       \* a sequence of configurations, see MCRequests
  Files,       \* the files that change while requests are served
  MaxVersion,  \* bound: the last version that a file gets
  Lengths,     \* Lengths[v] is the size of a file's version v
  SuffixesOf     \* SuffixesOf[name]: the suffixes of a file name, longest first

VARIABLES
  site,        \* which of the configurations
  client,      \* what each request asks for
  phase,       \* where it is
  todo,        \* what is to be asked for it: its head is being asked
  asked,       \* history: what was asked for it, in order
  look,        \* what StaticFiles has found out for it between its awaits
  answer,      \* its response
  fs,          \* each file: its version, and whether it is there
  notFound,    \* StaticFiles' page for what is not found, and its mtime
  came         \* history: the version of that page's file when it was called for

appVars == <<client, phase, todo, asked, look, answer, notFound, came>>

Site == Sites[site]
Asked(app, dispatch) == [app |-> app, dispatch |-> dispatch]
NoLook == [file |-> None]

OfType(type) == {a \in DOMAIN Site.apps : Site.apps[a].type = type}

Asking(r, type) ==
  /\ phase[r] = "handling"
  /\ todo[r] # <<>>
  /\ Head(todo[r]).app \in OfType(type)

App(r)      == Site.apps[Head(todo[r]).app]
Where(r)    == Head(todo[r]).dispatch
Go(r, to)   == phase' = [phase EXCEPT ![r] = to]
Note(r)     == asked' = [asked EXCEPT ![r] = Append(@, Head(todo[r]))]

\* The outcomes of an application's handler.
GoesOn(r, items) ==
  /\ todo' = [todo EXCEPT ![r] = items \o Tail(@)]
  /\ Go(r, "handling")
  /\ look' = [look EXCEPT ![r] = NoLook]
  /\ UNCHANGED <<answer, notFound, came>>
Passes(r) == GoesOn(r, <<>>)
Throws(r) ==
  /\ todo' = [todo EXCEPT ![r] = <<>>]
  /\ Go(r, "handling")
  /\ look' = [look EXCEPT ![r] = NoLook]
  /\ UNCHANGED <<answer, notFound, came>>
Gives(r, response) ==
  /\ answer' = [answer EXCEPT ![r] = response]
  /\ Go(r, "answered")
  /\ todo' = [todo EXCEPT ![r] = <<>>]
  /\ look' = [look EXCEPT ![r] = NoLook]
Answers(r, response) == Gives(r, response) /\ UNCHANGED <<notFound, came>>

\* What all of these leave alone.
Rest == UNCHANGED <<site, client, fs>>
----------------------------------------------------------------------------
\* PathRouter: all mounts that cover the path, the most specific first, up to
\* one that is explicitly null.
PathChoices(routes, d) ==
  LET found  == FindWithFallback(BuildTree(routes), PathKey(d.extra, FALSE))
      nulls  == {i \in DOMAIN found : found[i].value = None}
      usable == IF nulls = {} THEN Len(found) ELSE (CHOOSE i \in nulls : \A j \in nulls : i <= j) - 1
  IN  [i \in 1..usable |->
         Asked(found[i].value,
               Dispatch(d.base \o found[i].key.path, found[i].remainder))]

AskPathRouter(r) ==
  /\ Asking(r, "PathRouter")
  /\ GoesOn(r, PathChoices(App(r).routes, Where(r)))
  /\ Note(r) /\ Rest

AskSerialRouter(r) ==
  /\ Asking(r, "SerialRouter")
  /\ GoesOn(r, [i \in DOMAIN App(r).list |-> Asked(App(r).list[i], Where(r))])
  /\ Note(r) /\ Rest

\* HostRouter: the one host that fits best, with the same dispatch.
AskHostRouter(r) ==
  /\ Asking(r, "HostRouter")
  /\ LET found == Find(BuildTree(App(r).routes), PathKey(client[r].host, FALSE))
     IN  GoesOn(r, [i \in DOMAIN found |-> Asked(found[i].value, Where(r))])
  /\ Note(r) /\ Rest

\* SuffixRouter: a suffix is never the whole of a name; the longest counts.
\* The root, as a directory, has no name to match, and the handler throws.
AskSuffixRouter(r) ==
  /\ Asking(r, "SuffixRouter")
  /\ LET name    == LastName(Where(r))
         handled == IF IsDirectory(Where(r)) THEN App(r).directories ELSE App(r).files
         known   == SelectSeq(IF name = NoName THEN <<>> ELSE SuffixesOf[name],
                              LAMBDA s : s \in DOMAIN App(r).suffixes)
     IN  IF ~handled THEN Passes(r)
         ELSE IF name = NoName THEN Throws(r)
         ELSE IF known = <<>> THEN Passes(r)
         ELSE GoesOn(r, <<Asked(App(r).suffixes[Head(known)], Where(r))>>)
  /\ Note(r) /\ Rest

\* RequestFilter.  Names count for one character each.
IsFilteredOut(app, c, d) ==
  \/ app.reject = "directories" /\ IsDirectory(d)
  \/ app.reject = "files" /\ ~IsDirectory(d)
  \/ app.methods # None /\ c.method \notin app.methods
  \/ app.maxDepth # None /\ Len(d.extra) - (IF IsDirectory(d) THEN 1 ELSE 0) > app.maxDepth
  \/ app.maxLength # None
       /\ Len(d.extra) + Len(SelectSeq(d.extra, LAMBDA p : p # "")) > app.maxLength
  \/ app.maxQuery # None /\ c.query > app.maxQuery

FilterRedirect(app, d) ==
  CASE app.redirect = "directories" /\ IsDirectory(d) /\ RedirectToFile(d) # Root ->
         <<RedirectToFile(d)>>
    [] app.redirect = "files" /\ ~IsDirectory(d) -> <<RedirectToDirectory(d)>>
    [] OTHER -> <<>>

AskRequestFilter(r) ==
  /\ Asking(r, "RequestFilter")
  /\ LET redirect == FilterRedirect(App(r), Where(r))
     IN  IF redirect # <<>> THEN Answers(r, Redirect(Head(redirect), 308))
         ELSE IF IsFilteredOut(App(r), client[r], Where(r))
              THEN Answers(r, MetaResponse(App(r).status))
         ELSE Passes(r)
  /\ Note(r) /\ Rest

\* The limiter waits for a grant of its token bucket, or is denied one.
AskRequestRateLimiter(r) ==
  /\ Asking(r, "RequestRateLimiter")
  /\ Passes(r) \/ Answers(r, MetaResponse(429))
  /\ Note(r) /\ Rest

AskRequestDelay(r) ==
  /\ Asking(r, "RequestDelay")
  /\ Passes(r)
  /\ Note(r) /\ Rest

\* Redirector: below the target goes what is left of the path.
AskRedirector(r) ==
  /\ Asking(r, "Redirector")
  /\ Answers(r, Redirect([target |-> App(r).target, path |-> Where(r).extra], App(r).status))
  /\ Note(r) /\ Rest

\* SimpleResponse: what start() made of the configuration.
SimpleResponse(app) ==
  LET success == IF app.length = None THEN 204 ELSE 200
      status  == IF app.status = None THEN success ELSE app.status
      etag    == IF app.etag THEN TagFromData(1) ELSE None
  IN  IF app.length = None
      THEN ContentResponse(status, NoBody, {}, etag, 0)
      ELSE ContentResponse(status, DataBody("buffer", None, 1, 0, app.length), {"content-type"},
                           etag, SecondOf(1))

AskSimpleResponse(r) ==
  /\ Asking(r, "SimpleResponse")
  /\ Answers(r,
       IF ~GetOrHead(client[r].method) THEN MetaResponse(403)
       ELSE IF App(r).status = None THEN AdjustFor(SimpleResponse(App(r)), client[r])
       ELSE SimpleResponse(App(r)))
  /\ Note(r) /\ Rest

\* The endpoint: nobody answered, or somebody threw.
NobodyAnswers(r) ==
  /\ phase[r] = "handling" /\ todo[r] = <<>>
  /\ Answers(r, MetaResponse(404))
  /\ UNCHANGED asked /\ Rest
============================================================================
