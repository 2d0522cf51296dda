------------------------------ MODULE Requests ------------------------------
(***************************************************************************)
(* The requests that come over one connection, from their first byte to    *)
(* the last byte of their answers: ProtocolWrangler's handling (src/net-   *)
(* protocol) with IncomingRequest's reading and FullResponse's writing     *)
(* (src/net-util), around the applications of Applications and             *)
(* StaticFiles.  The files change while this goes on, and the client may   *)
(* go away, or follow a redirect.                                          *)
(*                                                                         *)
(* The requests share the connection (they are multiplexed, or pipelined): *)
(* an answer that is an error of the server closes it for all of them.     *)
(***************************************************************************)
EXTENDS StaticFiles

CONSTANTS
  Chunk,       \* #READ_CHUNK_SIZE: what is read of a file at once
  MaxBody,     \* maxRequestBodySize of the endpoint
  MaxFollowed  \* bound: how many redirects a client follows

\* Of the sites: what static files there are, a redirect's status is one (from
\* 300 to 399), and requests are as IncomingRequest, HttpConditional and
\* HttpRange parse them.
StaticFilesAssumption(app) ==
  /\ \A path \in DOMAIN app.tree : app.tree[path].kind = "file" => app.tree[path].file \in Files
  /\ app.index \in Seq(ToSet(app.index))
  /\ app.etag \in {"none", "stats", "data"}
  /\ app.notFound # None => app.notFound \in Files

AskAssumption(c) ==
  /\ {"method", "path", "noCache", "inm", "ims", "range", "ifRange", "follows"} \subseteq DOMAIN c
  /\ c.ims \in Nat
  /\ c.inm # None => None \notin c.inm
  /\ c.range.kind \in {"none", "one", "many", "bad"}
  /\ c.range.kind = "one" => c.range.first \in Nat /\ c.range.last \in Nat

ASSUME SitesAssumption ==
  \A s \in DOMAIN Sites :
    /\ \A a \in DOMAIN Sites[s].apps :
         /\ Sites[s].apps[a].type = "StaticFiles" => StaticFilesAssumption(Sites[s].apps[a])
         /\ Sites[s].apps[a].type = "Redirector" => Sites[s].apps[a].status \in 300 .. 399
         /\ Sites[s].apps[a].type = "SimpleResponse" => Sites[s].apps[a].length \in Nat \union {None}
    /\ \A c \in Sites[s].asks : AskAssumption(c)

\* Of the files: each version has a length, and there is at least one.
ASSUME FilesAssumption ==
  /\ MaxVersion \in Nat \ {0} /\ Chunk \in Nat \ {0}
  /\ Lengths \in [1 .. MaxVersion -> Nat]
  /\ None \notin Files /\ None \notin Nat

VARIABLES
  conn,        \* the connection: "new", "open", "closing", "closed"
  cert,        \* the certificate that was presented on it, if any
  incoming,    \* how much of its body has come, of each request
  sent,        \* what of the answer's body was sent, piece by piece
  status,      \* the status that the client was sent (0: none yet)
  declared,    \* the content-length that the client was sent, or None
  trail,       \* history: the paths that the client was led to
  changed      \* history: has a file changed since the request came?

connVars  == <<conn, cert>>
writeVars == <<sent, status, declared>>
vars == <<site, fs, appVars, connVars, incoming, writeVars, trail, changed>>

Piece(of, version, first, length) ==
  [of |-> of, version |-> version, first |-> first, length |-> length]

NoClient == [method |-> "none", path |-> <<>>]

Init ==
  /\ site \in DOMAIN Sites
  /\ fs = [f \in Files |-> [version |-> 1, there |-> TRUE]]
  /\ notFound = [version |-> 1, modTime |-> 1]      \* as start() loaded it
  /\ client = [r \in Requests |-> NoClient]
  /\ phase = [r \in Requests |-> "idle"]
  /\ todo = [r \in Requests |-> <<>>]
  /\ asked = [r \in Requests |-> <<>>]
  /\ look = [r \in Requests |-> NoLook]
  /\ answer = [r \in Requests |-> MetaResponse(404)]
  /\ came = [r \in Requests |-> [version |-> 1, modTime |-> 1]]
  /\ conn = "new" /\ cert = None
  /\ incoming = [r \in Requests |-> 0]
  /\ sent = [r \in Requests |-> <<>>]
  /\ status = [r \in Requests |-> 0]
  /\ declared = [r \in Requests |-> None]
  /\ trail = [r \in Requests |-> <<>>]
  /\ changed = [r \in Requests |-> FALSE]
----------------------------------------------------------------------------
\* The handshake: the hosts of the endpoint are those of the configuration
\* that its own names cover.  A client that names no host, or one that is not
\* known, is presented the certificate of the host "*", if there is one.
EndpointHosts == MakeSubset(BuildTree(Site.hosts), Site.names)

CertificateFor(name) ==
  LET named == IF name = None THEN <<>> ELSE Find(EndpointHosts, PathKey(name, FALSE))
      any   == Find(EndpointHosts, PathKey(<<>>, TRUE))
      found == named \o any
  IN  IF found = <<>> THEN None ELSE Head(found).value

Connect(name) ==
  /\ conn = "new"
  /\ IF Site.hosts = {}
     THEN conn' = "open" /\ cert' = None
     ELSE /\ cert' = [name |-> name, host |-> CertificateFor(name)]
          /\ conn' = IF CertificateFor(name) = None THEN "closed" ELSE "open"
  /\ UNCHANGED <<site, fs, appVars, incoming, writeVars, trail, changed>>

\* A new request's state; also that of one that follows a redirect.
Begins(r, c) ==
  /\ client' = [client EXCEPT ![r] = c]
  /\ phase' = [phase EXCEPT ![r] = "reading"]
  /\ incoming' = [incoming EXCEPT ![r] = 0]
  /\ asked' = [asked EXCEPT ![r] = <<>>]
  /\ sent' = [sent EXCEPT ![r] = <<>>]
  /\ status' = [status EXCEPT ![r] = 0]
  /\ declared' = [declared EXCEPT ![r] = None]
  /\ trail' = [trail EXCEPT ![r] = Append(@, c.path)]
  /\ changed' = [changed EXCEPT ![r] = FALSE]
  /\ UNCHANGED <<site, fs, todo, look, answer, notFound, came, connVars>>

Arrive(r, c) ==
  /\ conn = "open"
  /\ phase[r] = "idle" /\ r \in Site.clients
  /\ Begins(r, c)

\* A client that follows redirects asks again, for what it makes of the
\* location it was given.  (Redirector's targets lie elsewhere.)
Follow(r) ==
  /\ conn = "open"
  /\ phase[r] = "done"
  /\ status[r] = 308 /\ client[r].follows
  /\ Len(trail[r]) <= MaxFollowed
  /\ Begins(r, [client[r] EXCEPT !.path = Resolve(client[r].path, answer[r].location)])
----------------------------------------------------------------------------
(* Mutant of Finish: a plain 500 does not close the connection. *)
FinishOpen(r, code) ==
  /\ Go(r, "done")
  /\ conn' = IF conn = "open" /\ (code > 500 \/ code = 429) THEN "closing" ELSE conn
  /\ UNCHANGED <<site, fs, client, todo, asked, look, answer, notFound, came, cert,
                 incoming, trail, changed>>

\* The end of a response: it was written, or it could not be; then the status
\* only says so if nothing of it was on its way.
Finish(r, code) ==
  /\ Go(r, "done")
  /\ conn' = IF conn = "open" /\ (code >= 500 \/ code = 429) THEN "closing" ELSE conn
  /\ UNCHANGED <<site, fs, client, todo, asked, look, answer, notFound, came, cert,
                 incoming, trail, changed>>

\* What the client receives of it, as long as there is a connection.
Sends(r, code, length, pieces) ==
  IF conn = "closed" THEN UNCHANGED writeVars
  ELSE /\ status' = [status EXCEPT ![r] = IF @ = 0 THEN code ELSE @]
       /\ declared' = [declared EXCEPT ![r] = IF status[r] = 0 THEN length ELSE @]
       /\ sent' = [sent EXCEPT ![r] = @ \o pieces]

\* IncomingRequest's reading: no body is read where none is expected, and
\* none beyond the limit.  The error response is written at once.
ExpectsBody(method) == method \in {"patch", "post", "put"}

Refused(r) ==
  LET c == client[r]
  IN  IF ExpectsBody(c.method)
      THEN incoming[r] > MaxBody \/ (c.declared # None /\ c.declared > MaxBody)
      ELSE incoming[r] > 0

ReadBody(r) ==
  /\ phase[r] = "reading"
  /\ conn # "closed" /\ ~Refused(r)
  /\ incoming[r] < client[r].body
  /\ incoming' = [incoming EXCEPT ![r] = @ + 1]
  /\ UNCHANGED <<site, fs, appVars, connVars, writeVars, trail, changed>>

RefuseRequest(r) ==
  /\ phase[r] = "reading"
  /\ Refused(r) \/ (conn = "closed" /\ incoming[r] < client[r].body)
  /\ Sends(r, 400, None, <<>>)
  /\ Finish(r, 400)

\* #handleRequest(): only a target that is a path is handled at all.
HandleRequest(r) ==
  /\ phase[r] = "reading"
  /\ ~Refused(r) /\ incoming[r] = client[r].body
  /\ IF client[r].target = "origin"
     THEN /\ todo' = [todo EXCEPT ![r] = <<Asked(Site.root, Dispatch(<<>>, client[r].path))>>]
          /\ Go(r, "handling")
          /\ UNCHANGED <<look, answer, notFound, came>>
     ELSE Answers(r, MetaResponse(400))
  /\ UNCHANGED <<site, fs, client, asked, connVars, incoming, writeVars, trail, changed>>
----------------------------------------------------------------------------
\* FullResponse.writeTo() and what it calls.
SendsBody(r) ==
  answer[r].body.kind # "none" /\ BodyAllowed(client[r].method, answer[r].status)

IsData(r) == answer[r].body.kind \in {"buffer", "file"}

ContentLength(r) == IF IsData(r) THEN answer[r].body.length ELSE None

\* The error ends the response, with whatever headers were set by then.
WriteFails(r) ==
  /\ Sends(r, 500, ContentLength(r), <<>>)
  /\ Finish(r, 500)

\* All that is at hand, or no body at all.
Written(r) ==
  LET b == answer[r].body
  IN  /\ Sends(r, answer[r].status, ContentLength(r),
               IF SendsBody(r) /\ b.kind = "buffer"
               THEN << Piece(b.of, b.version, b.first, b.length) >> ELSE <<>>)
      /\ Finish(r, answer[r].status)

WriteTo(r) ==
  /\ phase[r] = "answered"
  /\ IF ~Validates(answer[r])
     THEN Sends(r, 500, None, <<>>) /\ Finish(r, 500)
     ELSE IF answer[r].body.kind = "file" /\ SendsBody(r)
     THEN /\ Go(r, IF answer[r].body.length <= Chunk THEN "read-once" ELSE "open")
          /\ UNCHANGED <<site, fs, client, todo, asked, look, answer, notFound, came, connVars,
                         incoming, writeVars, trail, changed>>
     ELSE Written(r)

Min2(a, b) == IF a <= b THEN a ELSE b

\* What a read at a position finds of the file as it is now.
Readable(of, first, wanted) ==
  LET length == Lengths[fs[of].version]
  IN  IF first >= length THEN 0 ELSE Min2(wanted, length - first)

\* #readFilePortion(): one read, which must be of the full length.
ReadPortion(r) ==
  /\ phase[r] = "read-once"
  /\ LET b == answer[r].body
     IN  IF ~fs[b.of].there \/ Readable(b.of, b.first, b.length) # b.length
         THEN WriteFails(r)
         ELSE /\ Sends(r, answer[r].status, b.length,
                       << Piece(b.of, fs[b.of].version, b.first, b.length) >>)
              /\ Finish(r, answer[r].status)

OpenFile(r) ==
  /\ phase[r] = "open"
  /\ IF ~fs[answer[r].body.of].there
     THEN WriteFails(r)
     ELSE /\ Go(r, "chunks")
          /\ UNCHANGED <<site, fs, client, todo, asked, look, answer, notFound, came, connVars,
                         incoming, writeVars, trail, changed>>

\* A chunk of a larger file: what is read is written, and look[r] is where the
\* next one begins.  The file may change its content in between, and its size.
At(r) == IF look[r] = NoLook THEN 0 ELSE look[r].at

(* Mutant of WriteChunk: to read nothing is no reason to give up. *)
WriteChunkForever(r) ==
  /\ phase[r] = "chunks"
  /\ LET b == answer[r].body
         wanted == Min2(Chunk, b.length - At(r))
         n == Readable(b.of, b.first + At(r), wanted)
     IN  /\ Sends(r, answer[r].status, b.length,
                  IF n = 0 THEN <<>>
                  ELSE << Piece(b.of, fs[b.of].version, b.first + At(r), n) >>)
         /\ IF At(r) + n = b.length
            THEN Finish(r, answer[r].status)
            ELSE /\ look' = [look EXCEPT ![r] = [file |-> b.of, at |-> At(r) + n]]
                 /\ UNCHANGED <<site, fs, client, phase, todo, asked, answer, notFound,
                                came, connVars, incoming, trail, changed>>

WriteChunk(r) ==
  /\ phase[r] = "chunks"
  /\ LET b == answer[r].body
         wanted == Min2(Chunk, b.length - At(r))
         n == Readable(b.of, b.first + At(r), wanted)
     IN  IF n = 0
         THEN WriteFails(r)
         ELSE /\ Sends(r, answer[r].status, b.length,
                       << Piece(b.of, fs[b.of].version, b.first + At(r), n) >>)
              /\ IF At(r) + n = b.length
                 THEN Finish(r, answer[r].status)
                 ELSE /\ look' = [look EXCEPT ![r] = [file |-> b.of, at |-> At(r) + n]]
                      /\ UNCHANGED <<site, fs, client, phase, todo, asked, answer, notFound,
                                     came, connVars, incoming, trail, changed>>
----------------------------------------------------------------------------
\* #respondToRequest() ends the connection, and destroys it when all that was
\* written is out; the client may go away at any time.
CloseConnection ==
  /\ conn = "closing"
  /\ conn' = "closed"
  /\ UNCHANGED <<site, fs, appVars, cert, incoming, writeVars, trail, changed>>

ClientLeaves ==
  /\ conn = "open" /\ Site.leaves
  /\ conn' = "closed"
  /\ UNCHANGED <<site, fs, appVars, cert, incoming, writeVars, trail, changed>>

\* The files of the site: edited in place, removed, and made anew.  A file is
\* not made anew while a response has the removed one open (a simplification:
\* the response would go on to read the removed one).
IsOpen(f) == \E r \in Requests : phase[r] = "chunks" /\ answer[r].body.of = f

Changes(f, now) ==
  /\ f \in Site.edits
  /\ fs' = [fs EXCEPT ![f] = now]
  /\ changed' = [r \in Requests |-> TRUE]
  /\ UNCHANGED <<site, appVars, connVars, incoming, writeVars, trail>>

Edit(f) ==
  /\ fs[f].version < MaxVersion
  /\ fs[f].there \/ ~IsOpen(f)
  /\ Changes(f, [version |-> fs[f].version + 1, there |-> TRUE])

Delete(f) ==
  /\ fs[f].there
  /\ Changes(f, [fs[f] EXCEPT !.there = FALSE])
----------------------------------------------------------------------------
Step(r) ==
  \/ ReadBody(r) \/ RefuseRequest(r) \/ HandleRequest(r)
  \/ WriteTo(r) \/ ReadPortion(r) \/ OpenFile(r) \/ WriteChunk(r)
  \/ /\ \/ AskPathRouter(r) \/ AskSerialRouter(r) \/ AskHostRouter(r) \/ AskSuffixRouter(r)
        \/ AskRequestFilter(r) \/ AskRequestRateLimiter(r) \/ AskRequestDelay(r)
        \/ AskRedirector(r) \/ AskSimpleResponse(r) \/ NobodyAnswers(r)
        \/ AskStaticFiles(r) \/ StatPath(r) \/ StatIndex(r) \/ MakeTag(r)
        \/ NotFoundBegins(r) \/ NotFoundStat(r) \/ NotFoundRead(r)
     /\ UNCHANGED <<connVars, incoming, writeVars, trail, changed>>

\* Nothing more is to come: all requests are done, or can no longer come.
Over ==
  /\ conn = "closed" \/ \A r \in Site.clients : phase[r] = "done"
  /\ \A r \in Requests : phase[r] \in {"idle", "done"}
  /\ UNCHANGED vars

Next ==
  \/ \E name \in Site.offered : Connect(name)
  \/ \E r \in Requests : (\E c \in Site.asks : Arrive(r, c)) \/ Follow(r) \/ Step(r)
  \/ CloseConnection \/ ClientLeaves
  \/ \E f \in Files : Edit(f) \/ Delete(f)
  \/ Over

\* The event loop goes on with every request, whatever the client does.
Fairness == \A r \in Requests : WF_vars(Step(r))

Spec == Init /\ [][Next]_vars /\ Fairness
----------------------------------------------------------------------------
\* Every variable that control depends on has its type.
TypeOK ==
  /\ site \in DOMAIN Sites
  /\ phase \in [Requests -> {"idle", "reading", "handling", "stat", "index", "tag", "missing",
                              "nf-stat", "nf-read", "answered", "read-once", "open", "chunks",
                              "done"}]
  /\ conn \in {"new", "open", "closing", "closed"}
  /\ fs \in [Files -> [version : 1..MaxVersion, there : BOOLEAN]]
  /\ notFound \in [version : 1..MaxVersion, modTime : 1..MaxVersion]
  /\ \A r \in Requests : /\ incoming[r] \in Nat /\ sent[r] \in Seq(ToSet(sent[r]))
                         /\ status[r] \in Nat /\ changed[r] \in BOOLEAN
                         /\ todo[r] # <<>> => phase[r] \notin {"idle", "reading", "done"}

\* A client that follows the redirects it is given is never led back to where
\* it was, unless the site redirects directories in front of a StaticFiles
\* that redirects to them (RequestFilter, StaticFileResponder, DispatchInfo).
RedirectsSettle ==
  Site.settles =>
    \A r \in Requests : \A i, j \in DOMAIN trail[r] : i # j => trail[r][i] # trail[r][j]

\* As long as no file changes under it, no request ends as an error of the
\* server: what adjustFor() and the applications make passes validate(), and
\* all of the body is there to be read (FullResponse).  Unless the status is
\* configured and is that of an error, or of a body that is not there.
AsksForAnError(app) ==
  \/ app.type = "RequestFilter" /\ app.status \in {200, 206, 500}
  \/ /\ app.type = "SimpleResponse" /\ app.status # None
     /\ app.status = 500 \/ ~Validates(SimpleResponse(app))

AnsweredByError(r) == asked[r] # <<>> /\ AsksForAnError(Site.apps[Last(asked[r]).app])

NoServerError ==
  \A r \in Requests : phase[r] = "done" /\ status[r] = 500 => changed[r] \/ AnsweredByError(r)

\* What was sent runs on from a position without a gap, for so many bytes.
RunsFrom(pieces, first, length) ==
  /\ pieces = <<>> => length = 0
  /\ pieces # <<>> => /\ pieces[1].first = first
                      /\ Last(pieces).first + Last(pieces).length = first + length
  /\ \A i \in 1 .. Len(pieces) - 1 : pieces[i + 1].first = pieces[i].first + pieces[i].length

\* A client whose connection stays open has received as much as the
\* content-length said, if it is to have a body, and nothing otherwise
\* (FullResponse.#writeBodyFile(), ProtocolWrangler.#respondToRequest()).
LengthIsKept ==
  \A r \in Requests : phase[r] = "done" /\ conn = "open" /\ status[r] # 0 =>
    IF declared[r] # None /\ BodyAllowed(client[r].method, status[r])
    THEN sent[r] # <<>> /\ RunsFrom(sent[r], answer[r].body.first, declared[r])
    ELSE sent[r] = <<>>

\* An answer is sent, and all of it: both of the above.
AnswersAreWhole == NoServerError /\ LengthIsKept

\* While the files stay as they are, an answer is what the request asked for:
\* all of the file, or the part of it that was asked for, or that it is not
\* modified, which is said only to a client whose copy is the current one or
\* (by date) of the same second, and is said to each that sent the current
\* etag (FullResponse.adjustFor(), HttpConditional, HttpRange).
Contiguous(r, of, first, length) ==
  /\ RunsFrom(sent[r], first, length)
  /\ \A i \in DOMAIN sent[r] : sent[r][i].of = of /\ sent[r][i].version = fs[of].version

\* The file that a path names: itself, or the first of the index files that is
\* there if it is a directory.
HasIndex(app, names, i) ==
  LET at == Append(names, app.index[i])
  IN  at \in DOMAIN app.tree /\ app.tree[at].kind = "file" /\ IsThere(app.tree[at].file)

FileOf(r) ==
  LET app == Site.apps[Last(asked[r]).app]
      names == DecodedPath(Last(asked[r]).dispatch.extra).names
      first == CHOOSE i \in DOMAIN app.index :
                 HasIndex(app, names, i) /\ \A j \in 1 .. i - 1 : ~HasIndex(app, names, j)
  IN  IF app.tree[names].kind = "file" THEN app.tree[names].file
      ELSE app.tree[Append(names, app.index[first])].file

HasCurrent(r, version) ==
  LET c == client[r]
  IN  IF c.inm # None THEN \E t \in c.inm : t.of = version
      ELSE c.ims >= SecondOf(version)

AnswersAreTrue ==
  \A r \in Requests :
    LET c == client[r]
        of == FileOf(r)
        version == fs[of].version
        length == Lengths[version]
        last == Min2(c.range.last, length - 1)
    IN  (/\ phase[r] = "done" /\ ~changed[r] /\ conn # "closed" /\ status[r] \in {200, 206, 304, 416}
         /\ asked[r] # <<>> /\ Last(asked[r]).app \in OfType("StaticFiles")) =>
        CASE status[r] = 200 ->
               /\ c.method = "get" => Contiguous(r, of, 0, length)
               /\ declared[r] = length
               /\ c.noCache \/ c.inm = None \/ answer[r].etag \notin c.inm
          [] status[r] = 206 ->
               /\ c.range.kind = "one"
               /\ c.method = "get" => Contiguous(r, of, c.range.first, last - c.range.first + 1)
          [] status[r] = 304 -> sent[r] = <<>> /\ ~c.noCache /\ HasCurrent(r, version)
          [] status[r] = 416 -> c.range.kind = "bad" \/ c.range.first > last

\* The page for what is not found is older than the file was when the request
\* began only if the file is gone, or if another request brought the page up
\* to date in the meantime (StaticFiles.#notFound()).
SendsPage(r) ==
  /\ phase[r] \in {"nf-stat", "nf-read"} /\ phase'[r] = "answered"
  /\ fs[look[r].file].there

OldPageOnlyInARace ==
  [][\A r \in Requests :
       SendsPage(r) => \/ answer'[r].body.version >= came[r].version
                       \/ notFound.modTime # came[r].modTime]_vars

\* Every request that comes ends, whatever the client and the files do.
EveryRequestEnds ==
  \A r \in Requests : phase[r] # "idle" ~> phase[r] = "done"
============================================================================
