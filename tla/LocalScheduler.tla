--------------------------- MODULE LocalScheduler ---------------------------
(***************************************************************************)
(* ApplicationInterface, asynchronous evaluations on the local processor:  *)
(* asynchronous_local_evaluations() under synchronize() and                *)
(* asynchronous_local_evaluations_nowait() under synchronize_nowait().     *)
(*                                                                         *)
(* A PRPQueue is ordered by eval id and holds an id once, so a queue is a  *)
(* set of ids and a walk of it goes through the ids in increasing order.   *)
(* An iterator into a queue is the set of the ids that it has passed.      *)
(*                                                                         *)
(* The simulations are external.  wait_local_evaluations() returns a       *)
(* non-empty set of completed ids, test_local_evaluations() any set; both  *)
(* return every job that had finished when they were called.               *)
(***************************************************************************)
EXTENDS Integers, FiniteSets

CONSTANTS
  MaxEvals,       \* bound on evalIdCntr
  Concurrency,    \* asynchLocalEvalConcurrency; 0 is unlimited
  EvalStatic,     \* asynchLocalEvalStatic
  NumEvalServers, \* numEvalServers
  Blocking,       \* the client calls synchronize()
  Nowait          \* the client calls synchronize_nowait()

ASSUME ConstantsAssumption ==
  /\ MaxEvals \in Nat
  /\ Concurrency \in Nat
  /\ EvalStatic \in BOOLEAN
  /\ NumEvalServers \in Nat \ {0}
  /\ Blocking \in BOOLEAN
  /\ Nowait \in BOOLEAN

Evals == 1..MaxEvals

VARIABLES
  evalIdCntr,          \* id of the last evaluation mapped
  coreQueue,           \* beforeSynchCorePRPQueue
  active,              \* asynchLocalActivePRPQueue
  finished,            \* active simulations that have ended (external)
  localServerAssigned, \* the indices whose bit is set
  raw,                 \* the ids in rawResponseMap
  passed,              \* local_prp_iter of the blocking scheduler: what it passed
  pc,                  \* "idle", "wait" in synchronize(), or "aborted"
  launches,            \* history: how often derived_map_asynch() ran an id
  delivered            \* history: the ids returned to the caller

vars == <<evalIdCntr, coreQueue, active, finished, localServerAssigned, raw,
          passed, pc, launches, delivered>>

-----------------------------------------------------------------------------
(* static_limited, static_servers and server_index of the schedulers. *)
StaticLimited == EvalStatic /\ Concurrency > 1
StaticServers == Concurrency * NumEvalServers
ServerIndex(id) == (id - 1) % StaticServers

(* Mutation of FirstOf: the count is tested one launch too late. *)
FirstOfOneTooMany(S, k) == {x \in S : Cardinality({y \in S : y < x}) <= k}

(* The ids of S that a walk reaches before it has counted k of them. *)
FirstOf(S, k) == {x \in S : Cardinality({y \in S : y < x}) < k}

(* The ids of S that a walk launches under static scheduling when the      *)
(* servers in busy are assigned: the first one for each free server.       *)
OnePerServer(S, busy) ==
  {x \in S : /\ ServerIndex(x) \notin busy
             /\ \A y \in S : y < x => ServerIndex(y) # ServerIndex(x)}

(* Mutation of PassedBy: the iterator stays at the last job launched. *)
PassedByShort(L) == {id \in Evals : \E x \in L : id < x}

(* What an iterator has passed after a walk that launched L. *)
PassedBy(L) == {id \in Evals : \E x \in L : id <= x}

Servers(L) == IF StaticLimited THEN {ServerIndex(x) : x \in L} ELSE {}

CountLaunches(counts, L) ==
  [id \in Evals |-> IF id \in L THEN counts[id] + 1 ELSE counts[id]]

(* Mutation of FreeServers: the bit of a completed job is not reset. *)
FreeServersNone(busy, C) == busy

(* The servers left assigned when process_asynch_local() has freed those   *)
(* of the completed jobs, in the order of completionSet.                   *)
FreeServers(busy, C) == busy \ Servers(C)
-----------------------------------------------------------------------------
Init ==
  /\ evalIdCntr = 0
  /\ coreQueue = {}
  /\ active = {}
  /\ finished = {}
  /\ localServerAssigned = {}
  /\ raw = {}
  /\ passed = {}
  /\ pc = "idle"
  /\ launches = [id \in Evals |-> 0]
  /\ delivered = {}

(* map() for an asynchronous evaluation: a new one joins the queue, a      *)
(* duplicate, or one that another server is given, does not.               *)
MapAsynch ==
  /\ pc = "idle"
  /\ evalIdCntr < MaxEvals
  /\ evalIdCntr' = evalIdCntr + 1
  /\ coreQueue' \in {coreQueue, coreQueue \cup {evalIdCntr'}}
  /\ UNCHANGED <<active, finished, localServerAssigned, raw, passed, pc,
                 launches, delivered>>

(* External: a simulation ends. *)
SimulationEnds(id) ==
  /\ id \in active \ finished
  /\ finished' = finished \cup {id}
  /\ UNCHANGED <<evalIdCntr, coreQueue, active, localServerAssigned, raw,
                 passed, pc, launches, delivered>>

(* What {wait,test}_local_evaluations() may report of the jobs in A. *)
Completions(A) == {C \in SUBSET A : finished \cap A \subseteq C}

-----------------------------------------------------------------------------
(* assign_asynch_local_queue(): the first pass of the blocking scheduler. *)
FirstPass ==
  IF StaticLimited
    THEN FirstOf(OnePerServer(coreQueue, {}), Concurrency)
    ELSE IF Concurrency > 0 THEN FirstOf(coreQueue, Concurrency)
                            ELSE coreQueue

(* synchronize() reaches asynchronous_local_evaluations() with jobs to     *)
(* run and launches the first pass ...                                     *)
SynchronizeStart ==
  /\ pc = "idle" /\ Blocking
  /\ coreQueue # {}
  /\ active = {}
  /\ active' = FirstPass
  /\ localServerAssigned' = Servers(FirstPass)
  /\ launches' = CountLaunches(launches, FirstPass)
  /\ passed' = PassedBy(FirstPass)
  /\ raw' = {}
  /\ pc' = "wait"
  /\ UNCHANGED <<evalIdCntr, coreQueue, finished, delivered>>

(* ... or aborts because jobs of a nowait synchronization still run.       *)
SynchronizeAborts ==
  /\ pc = "idle" /\ Blocking
  /\ coreQueue # {}
  /\ active # {}
  /\ raw' = {}
  /\ pc' = "aborted"
  /\ UNCHANGED <<evalIdCntr, coreQueue, active, finished,
                 localServerAssigned, passed, launches, delivered>>

(* Mutations of Backfill: no backfill; one job fewer than there is room    *)
(* for; and jobs that are back in rawResponseMap are not recognised.       *)
BackfillNone(C) == {}

BackfillOneShort(C) ==
  IF StaticLimited
    THEN FirstOf(OnePerServer({id \in coreQueue : id \notin (active \ C)
                                                  /\ id \notin (raw \cup C)},
                              FreeServers(localServerAssigned, C)),
                 Concurrency - Cardinality(active \ C) - 1)
    ELSE FirstOf(coreQueue \ passed, Cardinality(C) - 1)

BackfillRelaunches(C) ==
  FirstOf(OnePerServer({id \in coreQueue : id \notin (active \ C)},
                       FreeServers(localServerAssigned, C)),
          Concurrency - Cardinality(active \ C))

(* Step 3 of asynchronous_local_evaluations(): what replaces the completed *)
(* jobs C.  Under static scheduling the walk restarts at the head of the   *)
(* queue and ends when the launched jobs fill the concurrency; otherwise   *)
(* it resumes at the iterator and launches as many jobs as completed.      *)
Backfill(C) ==
  IF StaticLimited
    THEN FirstOf(OnePerServer({id \in coreQueue : id \notin (active \ C)
                                                  /\ id \notin (raw \cup C)},
                              FreeServers(localServerAssigned, C)),
                 Concurrency - Cardinality(active \ C))
    ELSE FirstOf(coreQueue \ passed, Cardinality(C))

(* One turn of the loop of asynchronous_local_evaluations(). *)
WaitAndBackfill(C) ==
  /\ pc = "wait"
  /\ Cardinality(raw) < Cardinality(coreQueue)
  /\ C # {}
  /\ LET L == Backfill(C) IN
     /\ active' = (active \ C) \cup L
     /\ finished' = finished \ C
     /\ raw' = raw \cup C
     /\ localServerAssigned' = FreeServers(localServerAssigned, C) \cup Servers(L)
     /\ launches' = CountLaunches(launches, L)
     /\ passed' = passed \cup PassedBy(L)
  /\ UNCHANGED <<evalIdCntr, coreQueue, pc, delivered>>

(* Mutations of SynchronizeReturns: the loop ends with the first           *)
(* completion, or when all jobs are launched.                              *)
SynchronizeReturnsOnFirst ==
  /\ pc = "wait"
  /\ raw # {}
  /\ coreQueue' = {}
  /\ delivered' = delivered \cup raw
  /\ pc' = "idle"
  /\ UNCHANGED <<evalIdCntr, active, finished, localServerAssigned, raw,
                 passed, launches>>

SynchronizeReturnsUnfinished ==
  /\ pc = "wait"
  /\ coreQueue \subseteq active \cup raw
  /\ coreQueue' = {}
  /\ delivered' = delivered \cup raw
  /\ pc' = "idle"
  /\ UNCHANGED <<evalIdCntr, active, finished, localServerAssigned, raw,
                 passed, launches>>

(* recv_cntr has reached num_jobs: synchronize() clears the queue and      *)
(* returns rawResponseMap.                                                 *)
SynchronizeReturns ==
  /\ pc = "wait"
  /\ Cardinality(raw) >= Cardinality(coreQueue)
  /\ coreQueue' = {}
  /\ delivered' = delivered \cup raw
  /\ pc' = "idle"
  /\ UNCHANGED <<evalIdCntr, active, finished, localServerAssigned, raw,
                 passed, launches>>

-----------------------------------------------------------------------------
(* asynchronous_local_evaluations_nowait(), one call.  Step 1 adds jobs to *)
(* those already running, if any may be added, and leaves the iterator     *)
(* where the walk stopped.                                                 *)
NumTarget ==
  IF Concurrency > 0 /\ Concurrency < Cardinality(coreQueue)
    THEN Concurrency ELSE Cardinality(coreQueue)

Throttled(S, k) == IF Concurrency > 0 THEN FirstOf(S, k) ELSE S

Augment ==
  IF NumTarget = Cardinality(active) THEN {}
  ELSE Throttled(IF StaticLimited
                   THEN OnePerServer(coreQueue \ active, localServerAssigned)
                   ELSE coreQueue \ active,
                 Concurrency - Cardinality(active))

AugmentPassed ==
  IF NumTarget = Cardinality(active) THEN {}
  ELSE IF Concurrency > 0 /\ Cardinality(active \cup Augment) >= Concurrency
    THEN PassedBy(Augment)
    ELSE Evals

(* Steps 2 and 3 are test_local_backfill(): when some jobs C have          *)
(* completed, walk on from the iterator (from the head of the queue under  *)
(* static scheduling).  The concurrency is tested after a launch.          *)
TestLocalBackfill(A, busy, C) ==
  LET pending == {id \in coreQueue : /\ StaticLimited \/ id \notin AugmentPassed
                                     /\ id \notin A \ C
                                     /\ id \notin C}
      room == Concurrency - Cardinality(A \ C)
  IN IF C = {} THEN {}
     ELSE Throttled(IF StaticLimited
                      THEN OnePerServer(pending, FreeServers(busy, C))
                      ELSE pending,
                    IF room > 1 THEN room ELSE 1)

(* synchronize_nowait() with jobs in the queue: the completed ones are     *)
(* returned and leave the queue.                                           *)
SynchronizeNowait(C) ==
  /\ pc = "idle" /\ Nowait
  /\ coreQueue # {}
  /\ LET A    == active \cup Augment
         busy == localServerAssigned \cup Servers(Augment)
         L    == TestLocalBackfill(A, busy, C)
     IN /\ active' = (A \ C) \cup L
        /\ localServerAssigned' = FreeServers(busy, C) \cup Servers(L)
        /\ launches' = CountLaunches(CountLaunches(launches, Augment), L)
  /\ finished' = finished \ C
  /\ raw' = C
  /\ coreQueue' = coreQueue \ C
  /\ delivered' = delivered \cup C
  /\ UNCHANGED <<evalIdCntr, passed, pc>>

(* The run is over: every evaluation of the bound is back, or it aborted. *)
Terminated ==
  /\ \/ pc = "idle" /\ evalIdCntr = MaxEvals /\ coreQueue = {}
     \/ pc = "aborted"
  /\ UNCHANGED vars

Next ==
  \/ MapAsynch
  \/ \E id \in active : SimulationEnds(id)
  \/ SynchronizeStart
  \/ SynchronizeAborts
  \/ \E C \in Completions(active) : WaitAndBackfill(C)
  \/ SynchronizeReturns
  \/ \E C \in Completions(active \cup Augment) : SynchronizeNowait(C)
  \/ Terminated

Spec == Init /\ [][Next]_vars

(* A simulation ends some day, so wait_local_evaluations() returns; the    *)
(* client calls for results until it has them all.                         *)
Fairness ==
  /\ \A id \in Evals : WF_vars(SimulationEnds(id))
  /\ WF_vars(SynchronizeStart)
  /\ WF_vars(\E C \in Completions(active) : WaitAndBackfill(C))
  /\ WF_vars(SynchronizeReturns)
  /\ WF_vars(\E C \in Completions(active \cup Augment) : SynchronizeNowait(C))

FairSpec == Spec /\ Fairness

-----------------------------------------------------------------------------
(* Every variable keeps its type. *)
TypeOK ==
  /\ evalIdCntr \in 0..MaxEvals
  /\ coreQueue \in SUBSET (1..evalIdCntr)
  /\ active \in SUBSET coreQueue
  /\ finished \in SUBSET active
  /\ localServerAssigned \in SUBSET (0..(StaticServers - 1))
  /\ raw \in SUBSET Evals
  /\ passed \in SUBSET Evals
  /\ pc \in {"idle", "wait", "aborted"}
  /\ launches \in [Evals -> Nat]
  /\ delivered \in SUBSET Evals

(* The concurrency limit the user gave is never exceeded, by whatever mix  *)
(* of first passes, augmentations and backfills.                           *)
ConcurrencyRespected ==
  Concurrency > 0 => Cardinality(active) <= Concurrency

(* Under static scheduling localServerAssigned has a bit for exactly the   *)
(* servers of the active jobs, and no two of these share a server: a job   *)
(* only ever replaces one of the same residue (asynchLocalEvalStatic).     *)
StaticPlacement ==
  StaticLimited =>
    /\ localServerAssigned = {ServerIndex(id) : id \in active}
    /\ \A x, y \in active : ServerIndex(x) = ServerIndex(y) => x = y

(* A simulation is run exactly once for each evaluation that is active or  *)
(* back, and not at all for the others: neither the iterator of the        *)
(* blocking scheduler nor the walks of the nowait one return to a job.     *)
LaunchedOnce ==
  \A id \in Evals :
    launches[id] = IF id \in active \cup delivered \cup (raw \cap coreQueue)
                     THEN 1 ELSE 0

(* wait_local_evaluations() is never called with nothing to wait for: it   *)
(* would block, or poll, forever.                                          *)
NeverWaitsIdle ==
  pc = "wait" /\ Cardinality(raw) < Cardinality(coreQueue) => active # {}

(* A queued job that is left waiting by a scheduling step found the        *)
(* concurrency used up or, under static scheduling, its server busy.       *)
Saturated ==
  \A id \in coreQueue \ (active \cup raw) :
    \/ Concurrency > 0 /\ Cardinality(active) = Concurrency
    \/ StaticLimited /\ ServerIndex(id) \in localServerAssigned

WorkConserving ==
  [][pc' # "aborted" /\ (launches' # launches \/ raw' # raw) => Saturated']_vars

(* A client that only uses the blocking or only the nonblocking call never *)
(* meets the abort in assign_asynch_local_queue().                         *)
NeverAborts == ~(Blocking /\ Nowait) => pc # "aborted"

(* Every evaluation that is queued comes back, unless the run aborts. *)
AllDelivered ==
  \A id \in Evals : id \in coreQueue ~> (id \in delivered \/ pc = "aborted")

(* The scheduler keeps the contract of EvalScheduler. *)
Contract ==
  INSTANCE EvalScheduler WITH
    Capacity  <- Concurrency,
    waiting   <- coreQueue \ (active \cup raw),
    running   <- active,
    completed <- delivered \cup (raw \cap coreQueue)

ImplementsContract == Contract!SchedSpec
=============================================================================
