------------------------ MODULE MCDurableEvaluations ------------------------
EXTENDS DurableEvaluations

(* Both ways to detect completion, each with every failure action.  The    *)
(* unusual cases come one at a time: existing results files are allowed;   *)
(* a continuation has no continuous variables; rounding can miss its       *)
(* target.  The evaluations of a continuation agree in their other         *)
(* variables, or differ.                                                   *)
Alike == [e \in Evals |-> 0]
Unlike == [e \in Evals |-> e]
Usual ==
  [fork : BOOLEAN, failAction : {"abort", "retry", "recover"},
   allowExisting : {FALSE}, others : {Unlike}, continuous : {TRUE},
   snaps : {TRUE}]
Continuations ==
  [fork : BOOLEAN, failAction : {"continuation"}, allowExisting : BOOLEAN,
   others : {Alike, Unlike}, continuous : BOOLEAN, snaps : BOOLEAN]
OneUnusual(s) ==
  /\ s.allowExisting => s.continuous /\ s.snaps
  /\ s.continuous \/ s.snaps
AllSettings ==
  Usual \cup {[s EXCEPT !.allowExisting = TRUE] :
               s \in {u \in Usual : u.failAction = "retry"}}
        \cup {s \in Continuations : OneUnusual(s)}
=============================================================================
