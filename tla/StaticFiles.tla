---------------------------- MODULE StaticFiles ----------------------------
(***************************************************************************)
(* The application StaticFiles (src/webapp-builtins) with the              *)
(* StaticFileResponder it is made of (src/webapp-util), FullResponse's     *)
(* setBodyFile() and EtagGenerator's look at the file (src/net-util).      *)
(*                                                                         *)
(* Between any two of its looks at the file system the files may change,   *)
(* and other requests may go on: the request waits in a phase for the next *)
(* one.  The application stays at the head of todo until it is done.  A    *)
(* stat that fails is taken by the code for a file that is not there.      *)
(***************************************************************************)
EXTENDS Applications

FileResponse(file, version, tag) ==
  ContentResponse(200, DataBody("file", file, version, 0, Lengths[version]), {"content-type"},
                  tag, SecondOf(version))

NotFoundResponse(file, version) ==
  ContentResponse(404, DataBody("buffer", file, version, 0, Lengths[version]), {"content-type"},
                  None, 0)

IsThere(file) == file # None /\ fs[file].there

\* What the path names below the site's directory: a file or a directory.
Entry(r) ==
  LET names == DecodedPath(Where(r).extra).names
  IN  IF names \in DOMAIN App(r).tree THEN App(r).tree[names] ELSE [kind |-> "nothing"]

Waits(r, found, to) ==
  /\ look' = [look EXCEPT ![r] = found]
  /\ Go(r, to)
  /\ UNCHANGED <<todo, answer, notFound, came>>
----------------------------------------------------------------------------
AskStaticFiles(r) ==
  /\ Asking(r, "StaticFiles")
  /\ IF ~GetOrHead(client[r].method) THEN Answers(r, MetaResponse(403))
     ELSE Waits(r, NoLook, IF DecodedPath(Where(r).extra).valid THEN "stat" ELSE "missing")
  /\ Note(r) /\ Rest

\* A file was found (with these stats); is a tag for it wanted?
Found(r, file) ==
  LET found == [file |-> file, version |-> fs[file].version]
  IN  IF App(r).etag = "none"
      THEN Answers(r, AdjustFor(FileResponse(file, found.version, None), client[r]))
      ELSE Waits(r, found, "tag")

StatPath(r) ==
  /\ phase[r] = "stat"
  /\ LET entry == Entry(r)
         asDirectory == DecodedPath(Where(r).extra).isDirectory
     IN  CASE entry.kind = "directory" /\ asDirectory ->
                Waits(r, [file |-> None, names |-> App(r).index], "index")
           [] entry.kind = "directory" /\ ~asDirectory ->
                Answers(r, Redirect(RedirectIntoDirectory(Where(r)), 308))
           [] entry.kind = "file" /\ IsThere(entry.file) /\ ~asDirectory ->
                Found(r, entry.file)
           [] OTHER -> Waits(r, NoLook, "missing")
  /\ UNCHANGED asked /\ Rest

\* One of the index files after the other.
StatIndex(r) ==
  /\ phase[r] = "index"
  /\ LET names == look[r].names
         path  == DecodedPath(Where(r).extra).names
         at    == Append(path, Head(names))
         entry == IF at \in DOMAIN App(r).tree THEN App(r).tree[at] ELSE [kind |-> "nothing"]
     IN  IF names = <<>> THEN Waits(r, NoLook, "missing")
         ELSE IF entry.kind = "file" /\ IsThere(entry.file) THEN Found(r, entry.file)
         ELSE Waits(r, [file |-> None, names |-> Tail(names)], "index")
  /\ UNCHANGED asked /\ Rest

\* The etag is made from another look at the file.  With stats one that is gone
\* is an error; with the data it may be that as well, or make no tag.
MakeTag(r) ==
  /\ phase[r] = "tag"
  /\ LET now == fs[look[r].file]
         With(tag) ==
           Answers(r, AdjustFor(FileResponse(look[r].file, look[r].version, tag), client[r]))
     IN  IF App(r).etag = "stats"
         THEN IF now.there THEN With(TagFromStats(now.version)) ELSE Throws(r)
         ELSE IF now.there THEN With(TagFromData(now.version)) ELSE With(None) \/ Throws(r)
  /\ UNCHANGED asked /\ Rest
----------------------------------------------------------------------------
\* #notFound(): the page that is at hand is taken before the stat is awaited.
NotFoundBegins(r) ==
  /\ phase[r] = "missing"
  /\ IF App(r).notFound = None
     THEN Passes(r)
     ELSE /\ look' = [look EXCEPT ![r] = [file |-> App(r).notFound,
                                          existing |-> notFound.version]]
          /\ Go(r, "nf-stat")
          /\ UNCHANGED <<todo, answer, notFound>>
          /\ came' = [came EXCEPT ![r] = [version |-> fs[App(r).notFound].version,
                                          modTime |-> notFound.modTime]]
  /\ UNCHANGED asked /\ Rest

(* Mutant of NotFoundStat: the times are compared by the second. *)
NotFoundStatBySecond(r) ==
  /\ phase[r] = "nf-stat"
  /\ LET now == fs[look[r].file]
     IN  IF ~now.there \/ SecondOf(now.version) = SecondOf(notFound.modTime)
         THEN Answers(r, NotFoundResponse(look[r].file, look[r].existing))
         ELSE Waits(r, [file |-> look[r].file, modTime |-> now.version], "nf-read")
  /\ UNCHANGED asked /\ Rest
NotFoundStat(r) ==
  /\ phase[r] = "nf-stat"
  /\ LET now == fs[look[r].file]
     IN  IF ~now.there \/ now.version = notFound.modTime
         THEN Answers(r, NotFoundResponse(look[r].file, look[r].existing))
         ELSE Waits(r, [file |-> look[r].file, modTime |-> now.version], "nf-read")
  /\ UNCHANGED asked /\ Rest

NotFoundRead(r) ==
  /\ phase[r] = "nf-read"
  /\ LET now == fs[look[r].file]
     IN  IF ~now.there THEN Throws(r)
         ELSE /\ notFound' = [version |-> now.version, modTime |-> look[r].modTime]
              /\ Gives(r, NotFoundResponse(look[r].file, now.version))
              /\ UNCHANGED came
  /\ UNCHANGED asked /\ Rest
============================================================================
