--------------------------- MODULE EvalScheduler ---------------------------
(***************************************************************************)
(* What every evaluation scheduler of ApplicationInterface promises to     *)
(* synchronize() and synchronize_nowait(): an evaluation that was queued   *)
(* is simulated exactly once, never more than Capacity of them at a time   *)
(* (0: no limit), and its response reaches rawResponseMap.                 *)
(*                                                                         *)
(* This is the abstract specification that the local scheduler and the     *)
(* message-passing scheduler are shown to implement.                       *)
(***************************************************************************)
EXTENDS Naturals, FiniteSets

CONSTANTS
  Evals,        \* the evaluation ids of the run
  Capacity      \* most evaluations that may run at once; 0 for no limit

VARIABLES
  waiting,      \* queued, not yet started
  running,      \* started, response not yet received
  completed     \* response received

schedVars == <<waiting, running, completed>>

SchedInit ==
  /\ waiting = {}
  /\ running = {}
  /\ completed = {}

(* map() queues an evaluation that the scheduler has never seen. *)
Queue(e) ==
  /\ e \notin waiting \cup running \cup completed
  /\ waiting' = waiting \cup {e}
  /\ UNCHANGED <<running, completed>>

(* A scheduling step may complete running evaluations and start waiting    *)
(* ones, and an evaluation that it starts may already be finished when it  *)
(* ends.  Nothing is dropped, and nothing is started twice.                *)
Schedule ==
  /\ waiting' \subseteq waiting
  /\ completed \subseteq completed'
  /\ completed' \subseteq completed \cup running \cup (waiting \ waiting')
  /\ running' = (running \cup (waiting \ waiting')) \ completed'
  /\ Capacity > 0 => Cardinality(running') <= Capacity

SchedNext == (\E e \in Evals : Queue(e)) \/ Schedule

SchedSpec == SchedInit /\ [][SchedNext]_schedVars
=============================================================================
