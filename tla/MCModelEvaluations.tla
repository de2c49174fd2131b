------------------------ MODULE MCModelEvaluations ------------------------
(* Small instances of ModelEvaluations for TLC. *)
EXTENDS ModelEvaluations, TLC

CONSTANTS m1, m2, c1, c2, c3

(* Two recast models over one simulation model, one over another. *)
ModelOfClient == [c \in {c1, c2, c3} |-> IF c = c3 THEN m2 ELSE m1]

ClientSymmetry == Permutations({c1, c2})

Numerical ==
  [gradientType |-> "numerical", hessianType |-> "numerical",
   intervalType |-> "forward", centralHess |-> FALSE, asynch |-> TRUE,
   overload |-> TRUE, vars |-> 2, fixed |-> {}, requests |-> {{1}, {2}}]

Supported ==
  {Numerical,
   [Numerical EXCEPT !.intervalType = "central", !.fixed = {1},
                     !.asynch = FALSE, !.requests = {{2}}],
   [Numerical EXCEPT !.requests = {{2, 4}}],
   [Numerical EXCEPT !.centralHess = TRUE, !.requests = {{1}, {4}}],
   [Numerical EXCEPT !.gradientType = "analytic", !.overload = FALSE,
                     !.vars = 1, !.requests = {{1, 4}}],
   [Numerical EXCEPT !.hessianType = "quasi", !.gradientType = "analytic",
                     !.overload = FALSE, !.requests = {{1}, {2, 4}}]}

(* Hessian requests with quasi-Newton updates. *)
QuasiHessian ==
  {[Numerical EXCEPT !.gradientType = "analytic", !.hessianType = "quasi",
                     !.requests = {{1}, {4}}]}

(* Gradients and Hessians by differences when a variable is fixed. *)
FixedVariable ==
  {[Numerical EXCEPT !.fixed = {1}, !.requests = {{1, 2, 4}}]}

(* The hypotheses of the theorems: the supported specifications meet them, *)
(* and each of the other two breaks one.                                   *)
ASSUME HypothesesAssumption ==
  /\ \A c \in Supported : Evaluates(c) /\ Separates(c)
  /\ \A c \in QuasiHessian : ~Evaluates(c) /\ Separates(c)
  /\ \A c \in FixedVariable : Evaluates(c) /\ ~Separates(c)
=============================================================================
