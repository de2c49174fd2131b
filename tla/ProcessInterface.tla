--------------------------- MODULE ProcessInterface ---------------------------
(***************************************************************************)
(* Local asynchronous evaluations as processes: the system call interface  *)
(* detects completion by a results file it can read, the fork interface by *)
(* waitpid.  A pass over the running evaluations reads results files,      *)
(* manages failures (ApplicationInterface::manage_failure: abort, retry,   *)
(* recover, continuation) and collects completions; the scheduler then     *)
(* processes them one by one.                                              *)
(*                                                                         *)
(* The variables of an evaluation are its continuous ones, of which only   *)
(* the way from a source to the evaluation's own matters, and the others   *)
(* (discrete, inactive), which a continuation leaves as they are in its    *)
(* source.  A complete results file, and the response read from it, is     *)
(* abstracted to the variables it was simulated at: "own" (all are the     *)
(* evaluation's), "continued" (its continuous variables, the others of the *)
(* source), "between" (an intermediate point of a continuation).  The      *)
(* response "recovery" is the specified recovery values.                   *)
(***************************************************************************)
EXTENDS Integers, FiniteSets

CONSTANTS
  NumEvals,       \* evaluations of a study, all in flight together
  MaxReads,       \* failed reads allowed per evaluation (100 in the code)
  RetryLimit,     \* failRetryLimit
  MaxFailures,    \* MAX_FAILURES of continuation (10 in the code)
  Settings        \* the interfaces considered, and the studies:
                  \* fork             fork rather than system call
                  \* failAction       of manage_failure
                  \* allowExisting    allow_existing_results
                  \* others           each evaluation's other variables
                  \* continuous       it has continuous variables
                  \* snaps            no target is zero or tiny, so that the
                  \*                  relative test of continuation works

ASSUME ProcessAssumption ==
  /\ NumEvals \in Nat /\ MaxReads \in Nat \ {0} /\ RetryLimit \in Nat
  /\ MaxFailures \in Nat \ {0}
  /\ \A s \in Settings :
       /\ s.fork \in BOOLEAN /\ s.allowExisting \in BOOLEAN
       /\ s.continuous \in BOOLEAN /\ s.snaps \in BOOLEAN
       /\ s.failAction \in {"abort", "retry", "recover", "continuation"}
       /\ DOMAIN s.others = 1 .. NumEvals

VARIABLES
  setting,     \* the interface in use
  simulator,   \* of each evaluation: none, running, writing, exited
  results,     \* its results file: none, partial, fail, or complete (Good)
  tracked,     \* sysCallSet or evalProcessIdMap
  failCount,   \* failCountMap
  untested,    \* evaluations this pass has not come to
  completion,  \* completionSet
  response,    \* what was read for an evaluation
  pc,          \* idle, pass, repair (manage_failure), process
  repair       \* evaluation being repaired, attempts, position and step

processVars ==
  <<setting, simulator, results, tracked, failCount, untested, completion,
    response, pc, repair>>

Evals == 1 .. NumEvals
Good == {"own", "continued", "between"}

(* A continuation measures its way in its last step.  Past a target that   *)
(* it missed it is followed as far again.                                  *)
Target == 2 ^ MaxFailures
Furthest == 2 * Target
NoRepair ==
  [eval |-> 0, attempts |-> 0, at |-> 0, step |-> 0, others |-> 0,
   off |-> FALSE, ran |-> FALSE]

(* The program is gone, its simulators with it.                            *)
Down ==
  /\ simulator' = [e \in Evals |-> "none"]
  /\ tracked' = {} /\ untested' = {} /\ completion' = {}
  /\ failCount' = [e \in Evals |-> 0]
  /\ response' = [e \in Evals |-> "none"]
  /\ pc' = "idle" /\ repair' = NoRepair
  /\ UNCHANGED setting

ProcessInit ==
  /\ setting \in Settings
  /\ simulator = [e \in Evals |-> "none"]
  /\ results = [e \in Evals |-> "none"]
  /\ tracked = {} /\ untested = {} /\ completion = {}
  /\ failCount = [e \in Evals |-> 0]
  /\ response = [e \in Evals |-> "none"]
  /\ pc = "idle" /\ repair = NoRepair

------------------------------------------------------------------------------
(* write_parameters_file removes a results file that an earlier run left.  *)
OldResults(e) ==
  IF setting.allowExisting THEN results ELSE [results EXCEPT ![e] = "none"]

(* derived_map_asynch and map_bookkeeping.                                 *)
Launch(e) ==
  /\ results' = OldResults(e)
  /\ simulator' = [simulator EXCEPT ![e] = "running"]
  /\ tracked' = tracked \cup {e}
  /\ UNCHANGED <<setting, failCount, untested, completion, response, pc,
                 repair>>

(* file_cleanup, called by abort_handler, and a kill, which cleans nothing. *)
FileCleanup == results' = [e \in Evals |-> "none"]
FilesStay == UNCHANGED results

(* The simulator: it writes its results file in pieces and exits.  The     *)
(* file says that the simulation failed, or is never completed.            *)
WritesPart(e) ==
  /\ simulator[e] = "running"
  /\ simulator' = [simulator EXCEPT ![e] = "writing"]
  /\ results' = [results EXCEPT ![e] = "partial"]
  /\ UNCHANGED <<setting, tracked, failCount, untested, completion, response,
                 pc, repair>>
Finishes(e) ==
  /\ simulator[e] = "writing"
  /\ simulator' = [simulator EXCEPT ![e] = "exited"]
  /\ \/ results' = [results EXCEPT ![e] = "own"]
     \/ results' = [results EXCEPT ![e] = "fail"]
     \/ UNCHANGED results
  /\ UNCHANGED <<setting, tracked, failCount, untested, completion, response,
                 pc, repair>>

------------------------------------------------------------------------------
(* A pass begins while nothing is complete.  A system call pass comes to   *)
(* every evaluation; a fork pass waits for one that exited and goes on     *)
(* while there are more.                                                   *)
BeginPass ==
  /\ pc = "idle" /\ completion = {} /\ tracked # {}
  /\ setting.fork => \E e \in tracked : simulator[e] = "exited"
  /\ pc' = "pass" /\ untested' = tracked
  /\ UNCHANGED <<setting, simulator, results, tracked, failCount, completion,
                 response, repair>>

Reachable ==
  IF setting.fork
    THEN {e \in untested : simulator[e] = "exited"}
    ELSE {e \in untested : \A d \in untested : e <= d}

(* Bookkeeping of an evaluation that is complete with the given response.  *)
Complete(e, r) ==
  /\ completion' = completion \cup {e}
  /\ response' = [response EXCEPT ![e] = r]
  /\ failCount' = [failCount EXCEPT ![e] = 0]
  /\ untested' = untested \ {e}
  /\ tracked' = IF setting.fork THEN tracked \ {e} ELSE tracked

(* system_call_file_test says that there is no results file yet.           *)
NotThere(e) == ~setting.fork /\ results[e] = "none"
TestMissing ==
  /\ pc = "pass"
  /\ \E e \in Reachable : NotThere(e) /\ untested' = untested \ {e}
  /\ UNCHANGED <<setting, simulator, results, tracked, failCount, completion,
                 response, pc, repair>>

(* The read throws: the simulator may still be writing.                    *)
TestIncomplete ==
  /\ pc = "pass" /\ ~setting.fork
  /\ \E e \in Reachable :
       /\ results[e] = "partial" /\ failCount[e] < MaxReads
       /\ failCount' = [failCount EXCEPT ![e] = @ + 1]
       /\ untested' = untested \ {e}
  /\ UNCHANGED <<setting, simulator, results, tracked, completion, response,
                 pc, repair>>

TestGood ==
  /\ pc = "pass"
  /\ \E e \in Reachable :
       /\ results[e] \in Good
       /\ Complete(e, results[e])
       /\ results' = [results EXCEPT ![e] = "none"]
  /\ UNCHANGED <<setting, simulator, pc, repair>>

(* manage_failure.                                                         *)
Recover ==
  /\ pc = "pass" /\ setting.failAction = "recover"
  /\ \E e \in Reachable :
       /\ results[e] = "fail"
       /\ Complete(e, "recovery")
  /\ UNCHANGED <<setting, simulator, results, pc, repair>>

StartRetry ==
  /\ pc = "pass" /\ setting.failAction = "retry"
  /\ \E e \in Reachable :
       /\ results[e] = "fail"
       /\ repair' = [NoRepair EXCEPT !.eval = e, !.at = Target,
                                      !.others = setting.others[e]]
  /\ pc' = "repair"
  /\ UNCHANGED <<setting, simulator, results, tracked, failCount, untested,
                 completion, response>>

(* get_source_pair: the last pair of data_pairs, which is sorted by ids.   *)
SourcePair(pairs) == {p \in pairs : \A q \in pairs : q.id <= p.id}
StartContinuation(pairs) ==
  /\ pc = "pass" /\ setting.failAction = "continuation"
  /\ \E e \in Reachable, source \in SourcePair(pairs) :
       /\ results[e] = "fail"
       /\ repair' = [NoRepair EXCEPT
                       !.eval = e, !.at = Target \div 2,
                       !.step = Target \div 2,
                       !.others = setting.others[source.id]]
  /\ pc' = "repair"
  /\ UNCHANGED <<setting, simulator, results, tracked, failCount, untested,
                 completion, response>>

(* Where the point of a repair is: the continuous variables are those of   *)
(* the evaluation (trivially so when there are none), the others those of  *)
(* the source.                                                             *)
OnTarget == setting.continuous => repair.at = Target /\ ~repair.off
PointOfRepair ==
  CASE ~OnTarget -> "between"
    [] OnTarget /\ repair.others = setting.others[repair.eval] -> "own"
    [] OTHER -> "continued"

(* derived_map, which runs the simulator to its end, in a loop of          *)
(* manage_failure: its results file is incomplete, says that it failed, or *)
(* holds the response at the point of the repair.                          *)
DerivedMap ==
  /\ pc = "repair" /\ ~repair.ran
  /\ \E file \in {"partial", "fail", PointOfRepair} :
       results' = [results EXCEPT ![repair.eval] = file]
  /\ repair' = [repair EXCEPT !.ran = TRUE]
  /\ UNCHANGED <<setting, simulator, tracked, failCount, untested, completion,
                 response, pc>>
DerivedMapSucceeded == repair.ran /\ results[repair.eval] \in Good
DerivedMapFailed == repair.ran /\ results[repair.eval] = "fail"

(* A repair that ends with the response that was read.                     *)
Repaired ==
  /\ Complete(repair.eval, results[repair.eval])
  /\ results' = [results EXCEPT ![repair.eval] = "none"]
  /\ pc' = "pass" /\ repair' = NoRepair
  /\ UNCHANGED <<setting, simulator>>

(* The limits of the two loops: retries starts at 0 and failures at 1, and *)
(* both go up at a failure.  (Mutant: failures are not counted.)           *)
CountedNot(n) == n

Counted(n) == n + 1
MayRepeat ==
  Counted(repair.attempts) <
    IF setting.failAction = "retry" THEN RetryLimit ELSE MaxFailures

RetrySucceeds ==
  /\ pc = "repair" /\ setting.failAction = "retry" /\ DerivedMapSucceeded
  /\ Repaired
RetryFails ==
  /\ pc = "repair" /\ setting.failAction = "retry" /\ DerivedMapFailed
  /\ MayRepeat
  /\ repair' = [repair EXCEPT !.attempts = Counted(@), !.ran = FALSE]
  /\ UNCHANGED <<setting, simulator, results, tracked, failCount, untested,
                 completion, response, pc>>

(* The test for the target after a step that succeeded.  (Mutant: the      *)
(* first such step ends the loop.)                                         *)
TargetReachedAlways == TRUE

TargetReached == OnTarget

(* A step of continuation that succeeds ends the loop at the target or     *)
(* goes on.  The sum that should meet the target may miss it by its        *)
(* rounding, which only the relative test puts right.                      *)
StepSucceeds ==
  /\ pc = "repair" /\ setting.failAction = "continuation"
  /\ DerivedMapSucceeded /\ TargetReached
  /\ Repaired
Rounded ==
  IF repair.at + repair.step = Target /\ ~setting.snaps THEN BOOLEAN ELSE {FALSE}
StepGoesOn ==
  /\ pc = "repair" /\ setting.failAction = "continuation"
  /\ DerivedMapSucceeded /\ ~TargetReached
  /\ repair.at + repair.step <= Furthest
  /\ \E off \in Rounded :
       repair' = [repair EXCEPT !.at = @ + repair.step, !.off = off, !.ran = FALSE]
  /\ results' = [results EXCEPT ![repair.eval] = "none"]
  /\ UNCHANGED <<setting, simulator, tracked, failCount, untested, completion,
                 response, pc>>
StepFails ==
  /\ pc = "repair" /\ setting.failAction = "continuation" /\ DerivedMapFailed
  /\ MayRepeat
  /\ repair' = [repair EXCEPT !.attempts = Counted(@), !.ran = FALSE,
                              !.step = @ \div 2,
                              !.at = @ - repair.step \div 2]
  /\ UNCHANGED <<setting, simulator, results, tracked, failCount, untested,
                 completion, response, pc>>

(* What ends the run: abort_handler in the read, in manage_failure, in     *)
(* get_source_pair, and in a repair whose derived_map leaves an incomplete *)
(* file or fails at the limit of its loop.                                 *)
Aborting(pairs) ==
  \/ /\ pc = "pass"
     /\ \E e \in Reachable :
          \/ results[e] = "partial" /\ (setting.fork \/ failCount[e] >= MaxReads)
          \/ results[e] = "fail" /\ setting.failAction = "abort"
          \/ results[e] = "fail" /\ setting.failAction = "continuation"
             /\ pairs = {}
  \/ /\ pc = "repair" /\ repair.ran
     /\ \/ results[repair.eval] = "partial"
        \/ DerivedMapFailed /\ ~MayRepeat

(* The end of a pass.                                                      *)
EndPass ==
  /\ pc = "pass" /\ Reachable = {}
  /\ tracked' = tracked \ completion
  /\ untested' = {}
  /\ pc' = IF completion = {} THEN "idle" ELSE "process"
  /\ UNCHANGED <<setting, simulator, results, failCount, completion, response,
                 repair>>

(* process_asynch_local takes the completions in order.                    *)
First == CHOOSE e \in completion : \A d \in completion : e <= d
Processed ==
  /\ pc = "process" /\ completion # {}
  /\ completion' = completion \ {First}
  /\ pc' = IF completion' = {} THEN "idle" ELSE "process"
  /\ UNCHANGED <<setting, simulator, results, tracked, failCount, untested,
                 response, repair>>
=============================================================================
