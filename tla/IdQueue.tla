------------------------------ MODULE IdQueue ------------------------------
(***************************************************************************)
(* A PRPQueue, or the keys of a std::map, as a set of evaluation ids that  *)
(* is walked in the order of the ids: what the loops of the message        *)
(* passing schedulers and of Model make of it.                             *)
(***************************************************************************)
EXTENDS Integers, FiniteSets, Sequences

MinOf(a, b) == IF a < b THEN a ELSE b

(* The place of id in S (from 0), the i-th id of S, the first k of them,   *)
(* and S as a sequence.                                                    *)
Place(S, id) == Cardinality({x \in S : x < id})
Nth(S, i) == CHOOSE id \in S : Place(S, id) = i
FirstOf(S, k) == {x \in S : Place(S, x) < k}
InOrder(S) == [k \in 1..Cardinality(S) |-> Nth(S, k - 1)]
=============================================================================
