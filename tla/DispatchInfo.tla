---------------------------- MODULE DispatchInfo ----------------------------
(***************************************************************************)
(* Where a request is in the tree of applications: DispatchInfo            *)
(* (src/net-util), what the applications compute from it, and how a        *)
(* client resolves the relative references that redirects are made of.     *)
(*                                                                         *)
(* A path is the sequence of its components: /a/b/ is <<"a", "b", "">>,    *)
(* with an empty last component for a directory, and / is <<"">>.          *)
(***************************************************************************)
EXTENDS Integers, Sequences, SequencesExt

CONSTANTS
  NoName,          \* null
  Undecodable      \* the components that cannot be decoded, or hold a slash

Dispatch(base, extra) == [base |-> base, extra |-> extra]

FullPath(d) == d.base \o d.extra

LastComponent(d) == IF FullPath(d) = <<>> THEN NoName ELSE Last(FullPath(d))

IsDirectory(d) == LastComponent(d) \in {NoName, ""}

\* The last name in the path, whether or not a slash comes after it.
LastName(d) ==
  LET full == FullPath(d)
  IN  CASE full = <<>> \/ full = <<"">> -> NoName
        [] Len(full) >= 2 /\ Last(full) = "" -> full[Len(full) - 1]
        [] OTHER -> Last(full)
----------------------------------------------------------------------------
\* Relative references: how many levels up from the directory of the request,
\* and the components from there on; or the root.
Reference(up, names) == [root |-> FALSE, up |-> up, names |-> names]
Root == [root |-> TRUE, up |-> 0, names |-> <<"">>]

(* Mutant of RedirectToDirectory: the slash is forgotten. *)
RedirectWithoutSlash(d) ==
  IF IsDirectory(d) THEN Reference(0, <<"">>) ELSE Reference(0, <<LastComponent(d)>>)
RedirectToDirectory(d) ==
  IF IsDirectory(d) THEN Reference(0, <<"">>)
  ELSE Reference(0, <<LastComponent(d), "">>)

RedirectToFile(d) ==
  LET full == FullPath(d)
  IN  IF LastComponent(d) = NoName \/ full = <<"">> THEN Root
      ELSE IF LastComponent(d) = "" THEN Reference(1, <<full[Len(full) - 1]>>)
      ELSE Reference(1, <<LastComponent(d)>>)

\* StaticFileResponder's own reference for a directory without a slash: at its
\* mount point it has no path of its own, and takes the last name of the base.
RedirectIntoDirectory(d) ==
  LET source == IF d.extra = <<>> THEN d.base ELSE d.extra
  IN  Reference(0, <<Last(source), "">>)

\* What a client makes of a reference: it is relative to the directory of the
\* path, and there is nothing above the root.
Resolve(path, ref) ==
  LET directory == Front(path)
      above     == IF ref.up = 1 /\ directory # <<>> THEN Front(directory) ELSE directory
  IN  IF ref.root THEN ref.names ELSE above \o ref.names
----------------------------------------------------------------------------
\* StaticFileResponder.decodePath(): the names of a path below the site, or
\* no path at all for navigation, for an empty name that is not at the end,
\* and for what does not decode.
DecodedPath(extra) ==
  LET isDirectory == extra # <<>> /\ Last(extra) = ""
      names == IF isDirectory THEN Front(extra) ELSE extra
  IN  [valid |-> \A i \in DOMAIN names : names[i] \notin {".", "..", ""} \cup Undecodable,
       isDirectory |-> isDirectory,
       names |-> names]
============================================================================
