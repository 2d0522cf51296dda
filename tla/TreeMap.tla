------------------------------ MODULE TreeMap ------------------------------
(***************************************************************************)
(* The tree that routes requests and finds hosts: TreeMap and TreeMapNode  *)
(* of src/collections with the PathKey that addresses them, and the map of *)
(* hosts (HostManager.HostMap) that is built on it.                        *)
(*                                                                         *)
(* A key is a path (a sequence of components) that may end in a wildcard.  *)
(* A tree is a function whose domain holds the path of every node; a node  *)
(* is a function from the kinds of key that are bound there (wildcard or   *)
(* not) to the bound values.  A value may be null, which is not the same   *)
(* as no binding.                                                          *)
(***************************************************************************)
EXTENDS Integers, Sequences, FiniteSets, SequencesExt

PathKey(path, wildcard) == [path |-> path, wildcard |-> wildcard]

Prefixed(path, n) == SubSeq(path, 1, n)

\* A tree from its bindings, a set of <<key, value>>, as the routers and the
\* host map make theirs with add(): there is a node for each component of each
\* key's path.  To bind a key twice is an error of the configuration.
BuildTree(bindings) ==
  LET nodes == {<<>>} \cup UNION {{Prefixed(b[1].path, n) : n \in 0..Len(b[1].path)} : b \in bindings}
      At(p) == {b \in bindings : b[1].path = p}
  IN  [p \in nodes |->
         [w \in {b[1].wildcard : b \in At(p)} |->
            (CHOOSE b \in At(p) : b[1].wildcard = w)[2]]]

(* Mutant of FindWithFallback: a wildcard is looked at before an exact key. *)
FindWildcardsOnly(tree, key) ==
  LET at == {n \in 0..Len(key.path) :
               /\ Prefixed(key.path, n) \in DOMAIN tree
               /\ TRUE \in DOMAIN tree[Prefixed(key.path, n)]}
      Nth(i) == CHOOSE n \in at : Cardinality({m \in at : m > n}) = i - 1
  IN  [i \in 1..Cardinality(at) |->
         [key |-> PathKey(Prefixed(key.path, Nth(i)), TRUE),
          value |-> tree[Prefixed(key.path, Nth(i))][TRUE],
          remainder |-> SubSeq(key.path, Nth(i) + 1, Len(key.path))]]

\* The walk down along the path, and then back up: the most specific binding
\* first.  Each result has what of the path the key leaves over.
FindWithFallback(tree, key) ==
  LET path == key.path
      depth == CHOOSE n \in 0..Len(path) :
                 /\ Prefixed(path, n) \in DOMAIN tree
                 /\ n < Len(path) => Prefixed(path, n + 1) \notin DOMAIN tree
      Bound(n, wildcard) ==
        LET p == Prefixed(path, n)
        IN  IF wildcard \in DOMAIN tree[p]
            THEN << [key |-> PathKey(p, wildcard), value |-> tree[p][wildcard],
                     remainder |-> SubSeq(path, n + 1, Len(path))] >>
            ELSE <<>>
      exact == IF depth = Len(path) /\ ~key.wildcard THEN Bound(depth, FALSE) ELSE <<>>
  IN  exact \o FlattenSeq([i \in 1..depth + 1 |-> Bound(depth + 1 - i, TRUE)])

\* TreeMap.find(): the first of those, as a sequence of at most one.
Find(tree, key) ==
  LET found == FindWithFallback(tree, key)
  IN  SubSeq(found, 1, IF found = <<>> THEN 0 ELSE 1)

\* TreeMap.findSubtree(): a wildcard asks for all that is bound at or below
\* its path, any other key for what find() finds, bound to the asked key.
FindSubtree(tree, key) ==
  IF key.wildcard
  THEN UNION {{<<PathKey(p, w), tree[p][w]>> : w \in DOMAIN tree[p]} :
                p \in {q \in DOMAIN tree : IsPrefix(key.path, q)}}
  ELSE {<<key, f.value>> : f \in ToSet(Find(tree, key))}

\* HostMap.makeSubset(): what an endpoint that names its hosts may present.
\* (A key that several names bring has the same value from each.)
MakeSubset(tree, names) == BuildTree(UNION {FindSubtree(tree, name) : name \in names})
----------------------------------------------------------------------------
\* What the tree promises, said of the set of its keys.
Covers(key, path) ==
  IF key.wildcard THEN IsPrefix(key.path, path) ELSE key.path = path

MoreSpecific(k, l) ==
  \/ Len(k.path) > Len(l.path)
  \/ k.path = l.path /\ l.wildcard /\ ~k.wildcard

\* The covering keys of a path, the most specific first.
Ranked(keys, path) ==
  LET covering == {k \in keys : Covers(k, path)}
  IN  [i \in 1..Cardinality(covering) |->
         CHOOSE k \in covering :
           Cardinality({l \in covering : MoreSpecific(l, k)}) = i - 1]
============================================================================
