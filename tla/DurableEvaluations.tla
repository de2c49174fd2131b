------------------------- MODULE DurableEvaluations -------------------------
(***************************************************************************)
(* A study of asynchronous evaluations by processes, with its restart      *)
(* file, over several runs of the program: ProcessInterface and            *)
(* RestartFile joined where ApplicationInterface joins them.  Evaluations  *)
(* found in the restarted records are not run; a completion is put into    *)
(* data_pairs and the restart file, one at a time, after the pass that     *)
(* found it; an abort or a kill ends the run, and the user starts the      *)
(* study again from the file.                                              *)
(***************************************************************************)
EXTENDS ProcessInterface, RestartFile

vars == <<processVars, restartVars>>

Init == ProcessInit /\ RestartInit

(* Between append and flush nothing else happens in the program.           *)
Running == phase = "run" /\ stream = <<>>

(* The lookup in data_pairs.  (Mutant: what is on file is not looked up.)  *)
KnownUnflushed(e) == \E r \in cache \ flushed : r.id = e

Known(e) == \E r \in cache : r.id = e

(* map() finds a duplicate or queues the job; the scheduler starts all.    *)
Wanted == {e \in Evals : ~Known(e)} \ tracked
LaunchNext ==
  /\ Running /\ pc = "idle"
  /\ \E e \in Wanted : (\A d \in Wanted : e <= d) /\ Launch(e)
  /\ UNCHANGED restartVars
Poll ==
  /\ Running /\ Wanted = {} /\ BeginPass
  /\ UNCHANGED restartVars
Test ==
  /\ Running
  /\ TestMissing \/ TestIncomplete \/ TestGood \/ EndPass
  /\ UNCHANGED restartVars
ManageFailure ==
  /\ Running
  /\ \/ Recover \/ StartRetry \/ StartContinuation(cache) \/ DerivedMap
     \/ RetrySucceeds \/ RetryFails
     \/ StepSucceeds \/ StepGoesOn \/ StepFails
  /\ UNCHANGED restartVars
ProcessAsynchLocal ==
  /\ Running
  /\ Processed
  /\ AppendRecord([id |-> First, value |-> response[First]])
Flush == FlushRestart /\ UNCHANGED processVars
Abort == Running /\ Aborting(cache) /\ Exits /\ Down /\ FileCleanup

StartUp == (OpenRestart \/ RestartOpened) /\ UNCHANGED processVars
User ==
  /\ ReadRestart \/ ReadAborts \/ NoRestart
  /\ UNCHANGED processVars
Killed == Dies /\ Down /\ FilesStay
Simulator(e) == (WritesPart(e) \/ Finishes(e)) /\ UNCHANGED restartVars

Program ==
  \/ LaunchNext \/ Poll \/ Test \/ ManageFailure \/ ProcessAsynchLocal
  \/ Flush \/ Abort \/ StartUp

Next == Program \/ User \/ Killed \/ \E e \in Evals : Simulator(e)

Spec == Init /\ [][Next]_vars

(* The program goes on when it can, and every simulator completes its      *)
(* results file or exits.                                                  *)
FairSpec ==
  /\ Spec
  /\ WF_vars(Program)
  /\ \A e \in Evals : WF_vars(Simulator(e))

------------------------------------------------------------------------------
(* A record holds a response that was read from a complete results file,   *)
(* and this file was written by a simulation at the evaluation's own       *)
(* variables (read_results_files, manage_failure).  There are three ways   *)
(* to a record of another kind, each opened by the user: the recovery      *)
(* values; a continuation whose source differs from the evaluation in      *)
(* variables that are not continuous ones, which the source lends; and,    *)
(* where existing results files are allowed, the file of an intermediate   *)
(* point that a killed run left.  A continuation never ends at an          *)
(* intermediate point, and no file of an earlier run is taken for a new    *)
(* one.                                                                    *)
Continued(e) ==
  /\ setting.failAction = "continuation"
  /\ \E d \in Evals : setting.others[d] # setting.others[e]
RecordsGenuine ==
  \A r \in cache \cup flushed :
    \/ r.value = "own"
    \/ r.value = "recovery" /\ setting.failAction = "recover"
    \/ r.value = "continued" /\ Continued(r.id)
    \/ r.value = "between" /\ setting.failAction = "continuation"
       /\ setting.allowExisting

(* An evaluation whose record a flush completed, in any earlier run, is    *)
(* not simulated again after a restart, unless a kill came while its file  *)
(* was written over.                                                       *)
RecordedNotRerun ==
  overwritten \/ \A e \in tracked : \A r \in flushed : r.id # e

(* A run that has opened its restart file records every evaluation of the  *)
(* study or ends, whatever simulations fail: the failed reads, the retries *)
(* and the halvings of a continuation are limited (failCountMap,           *)
(* failRetryLimit, MAX_FAILURES).  The exception is a continuation whose   *)
(* rounded sum missed a target that is zero or tiny: the relative test     *)
(* does not put it right, and nothing limits the steps that succeed past   *)
(* the target.                                                             *)
AllRecorded == \A e \in Evals : Known(e)
Missed == ~setting.snaps /\ pc = "repair" /\ (repair.off \/ repair.at > Target)
Settles == (phase = "run") ~> (AllRecorded \/ phase = "down" \/ Missed)
=============================================================================
