----------------------------- MODULE MCVisitor -----------------------------
EXTENDS LoggedValueEncoder

CONSTANTS a, b, c, s

(* The graphs for TLC: a and b may share c and s and be on cycles, b has symbols
   too, and s is a leaf that is slow or fails, or both, and may get a ref while it
   is pending. *)
Object(names, symbols, refs) ==
  [kind |-> "object", names |-> names, symbols |-> symbols, refs |-> refs]
LeafWith(kind, refs) == [kind |-> kind, names |-> <<>>, symbols |-> <<>>, refs |-> refs]
Leaf(kind) == LeafWith(kind, "never")
UpTo(S, n) == UNION {[1 .. k -> S] : k \in 1 .. n}

AsA == {Object(names, <<>>, refs) : names \in UpTo({a, b, c}, 2), refs \in {"never", "cycle"}}
AsB == {Object(names, symbols, refs) :
          names \in UpTo({a, c, s}, 2), symbols \in {<<>>, <<c>>, <<s>>}, refs \in {"never", "always"}}
AsC == {Object(names, <<>>, refs) : names \in UpTo({a, b, s}, 1), refs \in {"cycle", "always"}}
       \union {Leaf("value"), Leaf("fail")}
AsS == {Leaf("fail"), Leaf("slow"), Leaf("slowFail"), LeafWith("slow", "always")}
MCGraphs ==
  {[n \in Nodes |-> CASE n = a -> x [] n = b -> y [] n = c -> z [] n = s -> leaf] :
     x \in AsA, y \in AsB, z \in AsC, leaf \in AsS}
=============================================================================
