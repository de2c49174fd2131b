---------------------- MODULE MCApplicationInterface ----------------------
(* Small instances of ApplicationInterface for TLC. *)
EXTENDS ApplicationInterface, TLC

CONSTANTS p1, p2, p3, val, grad

(* Three points on a line, of which the two outer ones are not within the  *)
(* tolerance of each other.                                                *)
Line == p1 :> {p1, p2} @@ p2 :> {p1, p2, p3} @@ p3 :> {p2, p3}

Both == {val, grad}

(* A driver, no duplicates by tolerance, no files. *)
Plain ==
  [core |-> TRUE, algebraic |-> FALSE, cache |-> FALSE, nearby |-> FALSE,
   file |-> FALSE, asv |-> TRUE, shared |-> TRUE, points |-> {p1, p2},
   data |-> Both]

WithCache == [Plain EXCEPT !.cache = TRUE]
WithRestart ==
  [WithCache EXCEPT !.nearby = TRUE, !.file = TRUE, !.shared = FALSE,
                    !.points = {p1, p2, p3}, !.data = {val}]
WithAlgebraic ==
  [Plain EXCEPT !.algebraic = TRUE, !.asv = FALSE, !.points = {p1}]
AlgebraicOnly ==
  [Plain EXCEPT !.algebraic = TRUE, !.core = FALSE, !.data = {val}]

Supported == {WithCache, WithRestart, WithAlgebraic, AlgebraicOnly}

(* The settings of the two runs that show a disagreement. *)
CachedAlgebraic ==
  {[WithCache EXCEPT !.algebraic = TRUE, !.data = {val}]}
UnmatchedAlgebraic ==
  {[Plain EXCEPT !.algebraic = TRUE, !.data = {val}]}
=============================================================================
