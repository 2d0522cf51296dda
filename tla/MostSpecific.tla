---------------------------- MODULE MostSpecific ----------------------------
(***************************************************************************)
(* What a configuration says of who is asked for a request, and whose      *)
(* certificate a client is presented: recursive definitions, which the     *)
(* walk of Applications and the tree of TreeMap are compared with.         *)
(***************************************************************************)
EXTENDS Requests

\* What the configuration says is to be asked, if all of it passes: for a
\* path router what covers the path, ranked, down to a null; and so on down
\* the tree.
ToAsk(r, item) ==
  LET app == Site.apps[item.app]
      d == item.dispatch
      Below(key, value) ==
        Asked(value, Dispatch(d.base \o key.path,
                              SubSeq(d.extra, Len(key.path) + 1, Len(d.extra))))
      Bound(key) == (CHOOSE b \in app.routes : b[1] = key)[2]
      keys == {b[1] : b \in app.routes}
      name == LastName(d)
  IN  CASE app.type = "PathRouter" ->
             LET ranked == Ranked(keys, d.extra)
                 last == Cardinality({i \in DOMAIN ranked :
                                        \A j \in 1..i : Bound(ranked[j]) # None})
             IN  [i \in 1..last |-> Below(ranked[i], Bound(ranked[i]))]
        [] app.type = "SerialRouter" -> [i \in DOMAIN app.list |-> Asked(app.list[i], d)]
        [] app.type = "HostRouter" ->
             LET ranked == Ranked(keys, client[r].host)
             IN  IF ranked = <<>> THEN <<>> ELSE <<Asked(Bound(ranked[1]), d)>>
        [] app.type = "SuffixRouter"
             /\ name # NoName
             /\ (IF IsDirectory(d) THEN app.directories ELSE app.files) ->
             LET known == {i \in DOMAIN SuffixesOf[name] :
                             SuffixesOf[name][i] \in DOMAIN app.suffixes}
             IN  IF known = {} THEN <<>>
                 ELSE LET i == CHOOSE k \in known : \A l \in known : k <= l
                      IN  <<Asked(app.suffixes[SuffixesOf[name][i]], d)>>
        [] OTHER -> <<>>

RECURSIVE Plan(_, _)
Plan(r, item) ==
  LET below == ToAsk(r, item)
  IN  <<item>> \o FlattenSeq([i \in DOMAIN below |-> Plan(r, below[i])])

\* The applications are asked as the configuration ranks them, each with the
\* path of the request split at its mount point, and none is left out before
\* the request is given up as not found; an application that throws ends it
\* (PathRouter, SerialRouter, HostRouter, SuffixRouter over TreeMap).
MayThrow(app) == Site.apps[app].type \in {"StaticFiles", "SuffixRouter"}

RoutedByTheTable ==
  \A r \in Requests : asked[r] # <<>> =>
    LET plan == Plan(r, Asked(Site.root, Dispatch(<<>>, client[r].path)))
    IN  /\ IsPrefix(asked[r], plan)
        /\ \A i \in DOMAIN asked[r] : FullPath(asked[r][i].dispatch) = client[r].path
        /\ phase[r] = "handling" /\ todo[r] = <<>> /\ ~MayThrow(Last(asked[r]).app)
             => asked[r] = plan

\* The certificate that a client is presented is that of the most specific of
\* the configured hosts, among those that the endpoint is to serve; a name
\* the endpoint does not serve gets what a client without a name gets.
Served(name) ==
  \E n \in Site.names :
    /\ Covers(n, name)
    /\ LET ranked == Ranked({b[1] : b \in Site.hosts}, name)
       IN  ranked # <<>> /\ (n.wildcard => IsPrefix(n.path, ranked[1].path))

CertificateFits ==
  cert # None =>
    LET HostAt(key) == (CHOOSE b \in Site.hosts : b[1] = key)[2]
        keys == {b[1] : b \in Site.hosts}
        any == PathKey(<<>>, TRUE)
    IN  IF cert.name # None /\ Served(cert.name)
        THEN cert.host = HostAt(Ranked(keys, cert.name)[1])
        ELSE cert.host = IF any \in keys /\ any \in Site.names THEN HostAt(any) ELSE None

\* The most specific binding decides, of requests' paths and of hosts' names
\* alike: both of the above (TreeMap, PathKey).
MostSpecificWins == RoutedByTheTable /\ CertificateFits
=============================================================================
