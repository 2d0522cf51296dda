----------------------------- MODULE MCRequests -----------------------------
(***************************************************************************)
(* Small sites for Requests: one of routers, one of small applications,    *)
(* one of static files that are asked for in every way, one on which two   *)
(* requests race for the page of what is not found, and hosts with         *)
(* certificates.                                                           *)
(***************************************************************************)
EXTENDS MostSpecific

MCRequests == {1, 2}
MCFiles == {"page", "gone"}
MCLengths == <<4, 2, 4>>
MCSuffixes ==
  [n \in {"a", "b", "x.gz", "x.tar.gz"} |->
     CASE n = "x.gz" -> <<".gz">> [] n = "x.tar.gz" -> <<".tar.gz", ".gz">> [] OTHER -> <<>>]

Key(path)  == PathKey(path, FALSE)
Under(path) == PathKey(path, TRUE)

PathRouter(routes) == [type |-> "PathRouter", routes |-> routes]
SerialRouter(list) == [type |-> "SerialRouter", list |-> list]
HostRouter(routes) == [type |-> "HostRouter", routes |-> routes]
SuffixRouter(suffixes, directories, files) ==
  [type |-> "SuffixRouter", suffixes |-> suffixes, directories |-> directories, files |-> files]
NoFilter ==
  [type |-> "RequestFilter", reject |-> "none", redirect |-> "none", methods |-> None,
   maxDepth |-> None, maxLength |-> None, maxQuery |-> None, status |-> 404]
Simple(length, code, etag) ==
  [type |-> "SimpleResponse", length |-> length, status |-> code, etag |-> etag]
Static(tree, etag, index, page) ==
  [type |-> "StaticFiles", tree |-> tree, etag |-> etag, index |-> index, notFound |-> page]
App1(type) == [type |-> type]

Ask(method, path) ==
  [method |-> method, path |-> path, host |-> <<>>, query |-> 0, target |-> "origin",
   body |-> 0, declared |-> None, noCache |-> FALSE, inm |-> None, ims |-> 0,
   range |-> [kind |-> "none"], ifRange |-> [kind |-> "none"], follows |-> FALSE]
One(first, last) == [kind |-> "one", first |-> first, last |-> last]

SiteOf(apps, root, asks) ==
  [apps |-> apps, root |-> root, asks |-> asks, clients |-> {1}, edits |-> {},
   leaves |-> FALSE, settles |-> TRUE, hosts |-> {}, names |-> {}, offered |-> {None}]

\* Routers in routers: mounts within mounts, an explicit null, a wildcard and
\* an exact key at the same path, and applications that pass.
Routing ==
  LET apps ==
        [top    |-> PathRouter({ <<Under(<<>>), "serial">>, <<Under(<<"a">>), "inner">>,
                                  <<Key(<<"a">>), "pass1">>, <<Key(<<"a", "">>), "suffix">>,
                                  <<Under(<<"a", "b">>), "hosts">>,
                                  <<Under(<<"b">>), None>>, <<Key(<<"b", "a">>), "pass2">> }),
         inner  |-> PathRouter({ <<Under(<<"b">>), "pass1">>, <<Under(<<>>), "pass2">>,
                                  <<Key(<<"b", "a">>), "suffix">> }),
         hosts  |-> HostRouter({ <<Under(<<"h">>), "pass1">>, <<Key(<<"h", "i">>), "pass2">> }),
         suffix |-> SuffixRouter([s \in {".gz", ".tar.gz"} |->
                                    IF s = ".gz" THEN "pass1" ELSE "pass2"], TRUE, TRUE),
         serial |-> SerialRouter(<<"pass1", "suffix", "pass2">>),
         pass1  |-> NoFilter,
         pass2  |-> App1("RequestDelay")]
      names == {"a", "b", "x.gz", "x.tar.gz"}
      paths == {<<"">>} \cup {<<n>> : n \in names} \cup {<<m, n>> : m \in {"a", "b"}, n \in names \cup {""}}
                 \cup {<<"a", "b", n>> : n \in {"a", "b", "x.tar.gz", ""}}
  IN  SiteOf(apps, "top",
        {[Ask("get", p) EXCEPT !.host = h] :
           p \in paths, h \in {<<>>, <<"h">>, <<"h", "i">>, <<"h", "i", "j">>, <<"g">>}})

\* Filters, redirects, limits, responses of a configuration, bodies, and what
\* is no path; the client may leave.
Small ==
  LET apps ==
        [top    |-> PathRouter({ <<Under(<<"a">>), "slash">>, <<Under(<<"b">>), "noslash">>,
                                  <<Under(<<"b", "b">>), "away">>, <<Under(<<>>), "rest">> }),
         slash  |-> [NoFilter EXCEPT !.redirect = "files"],
         noslash |-> [NoFilter EXCEPT !.redirect = "directories"],
         away   |-> [type |-> "Redirector", target |-> "elsewhere", status |-> 301],
         rest   |-> SerialRouter(<<"limit", "methods", "length", "query", "files", "simple">>),
         limit  |-> App1("RequestRateLimiter"),
         methods |-> [NoFilter EXCEPT !.methods = {"get", "post", "head"}, !.status = 405],
         length |-> [NoFilter EXCEPT !.maxLength = 3, !.maxDepth = 1, !.status = 414],
         query  |-> [NoFilter EXCEPT !.maxQuery = 1],
         files  |-> [NoFilter EXCEPT !.reject = "files"],
         simple |-> Simple(3, None, TRUE)]
      plain == {Ask("get", p) : p \in {<<"">>, <<"a">>, <<"a", "">>, <<"a", "a">>, <<"b">>, <<"b", "">>,
                                       <<"b", "a", "">>, <<"b", "b", "a">>, <<"x", "x">>, <<"x">>}}
      odd == {[Ask("get", <<"">>) EXCEPT !.target = "asterisk"],
              [Ask("get", <<"">>) EXCEPT !.query = 2],
              [Ask("get", <<"">>) EXCEPT !.range = One(1, 1)],
              [Ask("get", <<"">>) EXCEPT !.inm = {TagFromData(1)}],
              [Ask("get", <<"">>) EXCEPT !.range = One(3, 3)],
              [Ask("get", <<"">>) EXCEPT !.body = 1],
              [Ask("post", <<"">>) EXCEPT !.body = 1],
              [Ask("post", <<"">>) EXCEPT !.body = 3],
              [Ask("put", <<"">>) EXCEPT !.body = 2, !.declared = 2],
              [Ask("post", <<"">>) EXCEPT !.body = 3, !.declared = 3],
              Ask("head", <<"">>)}
  IN  [SiteOf(apps, "top", {[c EXCEPT !.follows = TRUE] : c \in plain \cup odd})
         EXCEPT !.leaves = TRUE]

\* Responses without content, or with a status that is configured.
Fixed(code, length) ==
  LET apps == [top |-> Simple(length, code, FALSE)]
  IN  SiteOf(apps, "top", {Ask(m, <<"">>) : m \in {"get", "head", "post"}})

\* One file, asked for in every way, and directories with one and with two
\* of the index files.
Tree ==
  (<<>> :> [kind |-> "directory"]) @@ (<<"a">> :> [kind |-> "file", file |-> "page"]) @@
  (<<"b">> :> [kind |-> "directory"]) @@ (<<"b", "i">> :> [kind |-> "file", file |-> "page"]) @@
  (<<"d">> :> [kind |-> "directory"]) @@ (<<"d", "h">> :> [kind |-> "file", file |-> "page"]) @@
  (<<"d", "i">> :> [kind |-> "file", file |-> "gone"])

Conditional(etag) ==
  LET Tag(v) == IF etag = "data" THEN TagFromData(v) ELSE TagFromStats(v)
      apps == [top |-> PathRouter({ <<Under(<<"s">>), "static">> }),
               static |-> Static(Tree, etag, <<"h", "i">>, None)]
      paths == {<<"s">>, <<"s", "">>, <<"s", "a">>, <<"s", "a", "">>, <<"s", "b">>, <<"s", "b", "">>, <<"s", "d", "">>,
                <<"s", "c">>, <<"s", "..">>, <<"s", "", "a">>, <<"s", "%2F">>}
      a == Ask("get", <<"s", "a">>)
      conditional ==
        {[a EXCEPT !.inm = t, !.ims = d, !.noCache = n] :
           t \in {None, {Tag(1)}, {Tag(2), Tag(3)}}, d \in 0..2, n \in BOOLEAN}
      ranged ==
        {[a EXCEPT !.range = g, !.ifRange = i] :
           g \in {One(0, 0), One(1, 3), One(1, 9), One(3, 3), One(4, 4), [kind |-> "bad"],
                  [kind |-> "many"]},
           i \in {[kind |-> "none"], [kind |-> "tag", tag |-> Tag(1)],
                  [kind |-> "date", date |-> 1]}}
  IN  [SiteOf(apps, "top",
              {[Ask(m, p) EXCEPT !.follows = TRUE] : p \in paths, m \in {"get", "head", "post"}}
                \cup conditional \cup ranged)
         EXCEPT !.edits = {"page"}, !.leaves = etag = "none"]

\* Two requests at once: for what is not there, or for a file and what is not
\* there on a connection that the answer to one of them may close.
Racing(paths, edits) ==
  LET apps == [top |-> Static(Tree, "none", <<>>, "gone")]
  IN  [SiteOf(apps, "top", {Ask("get", p) : p \in paths})
         EXCEPT !.clients = {1, 2}, !.edits = edits]

\* Certificates: hosts are their components, the last of the name first.
Hosting(names, hosts) ==
  [SiteOf([top |-> NoFilter], "top", {Ask("get", <<"">>)})
     EXCEPT !.hosts = hosts, !.names = names,
            !.offered = {None, <<"c">>, <<"c", "e">>, <<"c", "e", "w">>, <<"o">>}]

Hosts == {<<Under(<<"c">>), "c">>, <<Key(<<"c", "e">>), "e">>, <<Under(<<"c", "e">>), "e">>}
AnyHost == {<<Under(<<>>), "any">>}

\* (A definition of its own, which TLC evaluates once only.)
SiteList ==
  << Routing, Small, Fixed(None, None), Fixed(404, 2), Fixed(200, 2),
     Fixed(200, None), Fixed(500, 2),
     Conditional("none"), Conditional("stats"), Conditional("data"), Racing({<<"c">>}, {"gone"}),
     Racing({<<"a">>, <<"c">>}, {"page"}),
     Hosting({Under(<<>>)}, Hosts \cup AnyHost),
     Hosting({Key(<<"c", "e">>), Under(<<"c">>)}, Hosts \cup AnyHost),
     Hosting({Key(<<"c">>), Key(<<"c", "e", "w">>)}, Hosts) >>
MCSites == SiteList
============================================================================
