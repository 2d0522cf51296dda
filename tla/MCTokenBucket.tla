--------------------------- MODULE MCTokenBucket ---------------------------
(* Quantities for TLC: an exact whole token, a range with fractional bounds, and
   one that accepts nothing; two of them may exceed the queue. *)
EXTENDS TokenBucket

Exactly(n) == [min |-> n, max |-> n]
MCQuantities == {Exactly(2), [min |-> 3, max |-> 5], [min |-> 0, max |-> 3]}
=============================================================================
