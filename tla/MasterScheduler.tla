-------------------------- MODULE MasterScheduler --------------------------
(***************************************************************************)
(* ApplicationInterface with a dedicated master: the master runs           *)
(* master_dynamic_schedule_evaluations() under synchronize() or its        *)
(* _nowait form under synchronize_nowait(), the servers                    *)
(* serve_evaluations_synch() (concurrency 1) or serve_evaluations_asynch() *)
(* until stop_evaluation_servers() sends the tag 0.                        *)
(*                                                                         *)
(* A message is its tag, the evaluation id.  MPI is external: a channel    *)
(* from the master to a server is a FIFO queue (the server receives any    *)
(* tag); a response is received by the request posted for its tag.  The    *)
(* requests and buffers of one index are used together, so recvRequests    *)
(* stands for sendBuffers and recvBuffers as well.                         *)
(***************************************************************************)
EXTENDS Integers, FiniteSets, Sequences, IdQueue

CONSTANTS
  MaxEvals,       \* bound on evalIdCntr
  NumEvalServers, \* numEvalServers
  Concurrency     \* asynchLocalEvalConcurrency (at least 1 with messages)

ASSUME ConstantsAssumption ==
  /\ MaxEvals \in Nat
  /\ NumEvalServers \in Nat \ {0}
  /\ Concurrency \in Nat \ {0}

Evals == 1..MaxEvals
ServerIds == 1..NumEvalServers
Capacity == NumEvalServers * Concurrency
Indices == 0..(Capacity - 1)
NoTag == 0   \* no request posted; on the wire, the tag that stops a server

VARIABLES
  evalIdCntr,   \* id of the last evaluation mapped
  coreQueue,    \* beforeSynchCorePRPQueue
  raw,          \* the ids in rawResponseMap
  recvRequests, \* the tag each receive request waits for, or NoTag
  runningMap,   \* msgPassRunningMap: records of an id, its server and index
  sent,         \* what prp_iter of the blocking scheduler has passed
  pc,           \* where the master is
  inbox,        \* messages on their way to each server
  active,       \* the jobs each server runs
  stopped,      \* the servers that have read the tag 0
  replies,      \* responses that servers have sent, not yet received
  delivered,    \* history: the ids returned to the caller
  runs          \* history: how often each id was simulated

masterVars == <<evalIdCntr, coreQueue, raw, recvRequests, runningMap, sent, pc,
                delivered>>
serverVars == <<active, stopped, replies, runs>>
vars == <<masterVars, inbox, serverVars>>

-----------------------------------------------------------------------------
(* What a walk of the queue has passed when it has counted n jobs. *)
FirstJobs(n) == FirstOf(coreQueue, n)

(* Mutation of NumSends: one job too few when the queue is short. *)
NumSendsShort == MinOf(Capacity, Cardinality(coreQueue) - 1)

NumSends == MinOf(Capacity, Cardinality(coreQueue))

(* The server that the i-th job of a first pass is sent to, and the one    *)
(* whose response has come in at an index of the blocking scheduler.       *)
ServerOf(i) == (i % NumEvalServers) + 1

(* A first pass sends the i-th job to ServerOf(i): what each server gets.  *)
Dealt(s) ==
  InOrder({id \in FirstJobs(NumSends) : ServerOf(Place(coreQueue, id)) = s})

-----------------------------------------------------------------------------
Init ==
  /\ evalIdCntr = 0
  /\ coreQueue = {} /\ raw = {}
  /\ recvRequests = [b \in Indices |-> NoTag]
  /\ runningMap = {}
  /\ sent = {}
  /\ pc = "idle"
  /\ inbox = [s \in ServerIds |-> <<>>]
  /\ active = [s \in ServerIds |-> {}]
  /\ stopped = {}
  /\ replies = {}
  /\ delivered = {}
  /\ runs = [id \in Evals |-> 0]

(* Mutation of MapAsynch: the id is read before it is incremented. *)
MapAsynchStaleId ==
  /\ pc = "idle"
  /\ evalIdCntr < MaxEvals
  /\ evalIdCntr' = evalIdCntr + 1
  /\ coreQueue' = coreQueue \cup {IF evalIdCntr = 0 THEN 1 ELSE evalIdCntr}
  /\ UNCHANGED <<raw, recvRequests, runningMap, sent, pc, delivered, inbox,
                 serverVars>>

(* map() of an asynchronous evaluation. *)
MapAsynch ==
  /\ pc = "idle"
  /\ evalIdCntr < MaxEvals
  /\ evalIdCntr' = evalIdCntr + 1
  /\ coreQueue' = coreQueue \cup {evalIdCntr'}
  /\ UNCHANGED <<raw, recvRequests, runningMap, sent, pc, delivered, inbox,
                 serverVars>>

-----------------------------------------------------------------------------
(* synchronize(): buffers are allocated and the first pass is sent.  When  *)
(* that is all there is, the master waits for all of it.  A client that    *)
(* mixes the two synchronizations calls this one with no job running (the  *)
(* code does not check it).                                                *)
ScheduleStart ==
  /\ pc = "idle"
  /\ coreQueue # {}
  /\ runningMap = {}
  /\ raw' = {}
  /\ recvRequests' = [b \in Indices |->
                        IF b < NumSends THEN Nth(coreQueue, b) ELSE NoTag]
  /\ inbox' = [s \in ServerIds |-> inbox[s] \o Dealt(s)]
  /\ sent' = FirstJobs(NumSends)
  /\ pc' = IF NumSends < Cardinality(coreQueue) THEN "waitsome" ELSE "waitall"
  /\ UNCHANGED <<evalIdCntr, coreQueue, runningMap, delivered, serverVars>>

(* A request is complete when the response with its tag has arrived. *)
Complete(b) == recvRequests[b] \in replies

(* Mutation of WaitSome: the next job is sent to another server. *)
WaitSomeFirstServer(b) ==
  /\ pc = "waitsome"
  /\ Complete(b)
  /\ ~(coreQueue \subseteq sent)
  /\ raw' = raw \cup {recvRequests[b]}
  /\ replies' = replies \ {recvRequests[b]}
  /\ LET next == Nth(coreQueue \ sent, 0) IN
     /\ recvRequests' = [recvRequests EXCEPT ![b] = next]
     /\ inbox' = [inbox EXCEPT ![1] = Append(@, next)]
     /\ sent' = sent \cup {next}
  /\ UNCHANGED <<evalIdCntr, coreQueue, runningMap, pc, delivered, active,
                 stopped, runs>>

(* The requests that waitsome() completes are processed one by one:        *)
(* receive_evaluation(), and the next job, if any, is sent to the same     *)
(* server with the same buffers.                                           *)
WaitSome(b) ==
  /\ pc = "waitsome"
  /\ Complete(b)
  /\ raw' = raw \cup {recvRequests[b]}
  /\ replies' = replies \ {recvRequests[b]}
  /\ \/ /\ coreQueue \subseteq sent
        /\ recvRequests' = [recvRequests EXCEPT ![b] = NoTag]
        /\ UNCHANGED <<sent, inbox>>
     \/ /\ ~(coreQueue \subseteq sent)
        /\ LET next == Nth(coreQueue \ sent, 0) IN
           /\ recvRequests' = [recvRequests EXCEPT ![b] = next]
           /\ inbox' = [inbox EXCEPT ![ServerOf(b)] = Append(@, next)]
           /\ sent' = sent \cup {next}
  /\ UNCHANGED <<evalIdCntr, coreQueue, runningMap, pc, delivered, active,
                 stopped, runs>>

WaitAll ==
  /\ pc = "waitall"
  /\ raw = {}
  /\ \A b \in 0..(NumSends - 1) : Complete(b)
  /\ raw' = coreQueue
  /\ replies' = replies \ coreQueue
  /\ recvRequests' = [b \in Indices |-> NoTag]
  /\ UNCHANGED <<evalIdCntr, coreQueue, runningMap, sent, pc, delivered, inbox,
                 active, stopped, runs>>

(* Every job is back: the buffers are deallocated, the queue is cleared,   *)
(* and synchronize() returns.                                              *)
ScheduleReturn ==
  /\ pc \in {"waitsome", "waitall"}
  /\ Cardinality(raw) >= Cardinality(coreQueue)
  /\ coreQueue' = {}
  /\ recvRequests' = [b \in Indices |-> NoTag]
  /\ delivered' = delivered \cup raw
  /\ pc' = "idle"
  /\ UNCHANGED <<evalIdCntr, raw, runningMap, sent, inbox, serverVars>>

-----------------------------------------------------------------------------
(* synchronize_nowait(), step 1, with no job running: a first pass, with   *)
(* the indices stratified by server.                                       *)
Job(id, s, b) == [id |-> id, server |-> s, index |-> b]
RunningIds == {r.id : r \in runningMap}

(* Mutation of StratifiedIndex: the index of the blocking scheduler. *)
StratifiedIndexDealt(i) == i

StratifiedIndex(i) ==
  (i % NumEvalServers) * Concurrency + (i \div NumEvalServers)

NowaitFirstPass ==
  /\ pc = "idle"
  /\ coreQueue # {}
  /\ runningMap = {}
  /\ raw' = {}
  /\ LET dealt(i) == Job(Nth(coreQueue, i), ServerOf(i), StratifiedIndex(i)) IN
     /\ runningMap' = {dealt(i) : i \in 0..(NumSends - 1)}
     /\ recvRequests' = [b \in Indices |->
          IF \E r \in runningMap' : r.index = b
            THEN (CHOOSE r \in runningMap' : r.index = b).id
            ELSE recvRequests[b]]
  /\ inbox' = [s \in ServerIds |-> inbox[s] \o Dealt(s)]
  /\ pc' = "test"
  /\ UNCHANGED <<evalIdCntr, coreQueue, sent, delivered, serverVars>>

(* Step 1 with jobs running: gaps are filled ... *)
NowaitFill ==
  /\ pc = "idle"
  /\ coreQueue # {}
  /\ runningMap # {}
  /\ raw' = {}
  /\ pc' = "fill"
  /\ UNCHANGED <<evalIdCntr, coreQueue, recvRequests, runningMap, sent,
                 delivered, inbox, serverVars>>

(* ... one job at a time, while there is one and there is room for it, on  *)
(* the first server with the least load, at its first index that is free;  *)
(* the run aborts if it has none.                                          *)
Load(s) == Cardinality({r \in runningMap : r.server = s})
(* Mutation of LeastLoaded: no load balance. *)
LeastLoadedFirst == 1
LeastLoaded ==
  CHOOSE s \in ServerIds :
    \A t \in ServerIds : Load(s) < Load(t) \/ (Load(s) = Load(t) /\ s <= t)
Allocation(s) == ((s - 1) * Concurrency)..(s * Concurrency - 1)

(* Mutation of FreeIndices: an index in use is taken for free. *)
FreeIndicesAll(s) == Allocation(s)

FreeIndices(s) ==
  {b \in Allocation(s) : \A r \in runningMap : ~(r.server = s /\ r.index = b)}

MoreToFill ==
  /\ ~(coreQueue \subseteq RunningIds)
  /\ Cardinality(runningMap) < Capacity

FillGap ==
  /\ pc = "fill"
  /\ MoreToFill
  /\ IF FreeIndices(LeastLoaded) = {}
     THEN /\ pc' = "aborted"
          /\ UNCHANGED <<recvRequests, inbox, runningMap>>
     ELSE LET s  == LeastLoaded
              b  == Nth(FreeIndices(s), 0)
              id == Nth(coreQueue \ RunningIds, 0)
          IN /\ recvRequests' = [recvRequests EXCEPT ![b] = id]
             /\ inbox' = [inbox EXCEPT ![s] = Append(@, id)]
             /\ runningMap' = runningMap \cup {Job(id, s, b)}
             /\ pc' = pc
  /\ UNCHANGED <<evalIdCntr, coreQueue, raw, sent, delivered, serverVars>>

FillDone ==
  /\ pc = "fill"
  /\ ~MoreToFill
  /\ pc' = "test"
  /\ UNCHANGED <<evalIdCntr, coreQueue, raw, recvRequests, runningMap, sent,
                 delivered, inbox, serverVars>>

(* Step 2 is test_receives_backfill(): the running jobs are tested in the  *)
(* order of their ids; R are those whose request has completed.  Each is   *)
(* replaced at its server and index by the next job, if there is one (what *)
(* the iterator has passed by now is running).  msgPassRunningMap is       *)
(* updated after the loop, and synchronize_nowait() returns what came in.  *)

Completed == {r \in runningMap : Complete(r.index)}

TestReceivesBackfill(R) ==
  /\ pc = "test"
  /\ LET pending == coreQueue \ RunningIds
         ids == {r.id : r \in R}
         replaced == {r \in R : Place(ids, r.id) < Cardinality(pending)}
         replacement(r) == Nth(pending, Place(ids, r.id))
     IN /\ raw' = ids
        /\ replies' = replies \ {recvRequests[r.index] : r \in R}
        /\ recvRequests' = [b \in Indices |->
             IF \E r \in replaced : r.index = b
               THEN replacement(CHOOSE r \in replaced : r.index = b)
             ELSE IF \E r \in R : r.index = b THEN NoTag
             ELSE recvRequests[b]]
        /\ inbox' = [s \in ServerIds |->
             inbox[s] \o InOrder({replacement(r) : r \in {q \in replaced : q.server = s}})]
        /\ runningMap' = (runningMap \ R) \cup
             {Job(replacement(r), r.server, r.index) : r \in replaced}
        /\ coreQueue' = coreQueue \ ids
        /\ delivered' = delivered \cup ids
  /\ pc' = "idle"
  /\ UNCHANGED <<evalIdCntr, sent, active, stopped, runs>>

-----------------------------------------------------------------------------
(* Mutations of StopServers: the last server is left out; and the tag 0    *)
(* overtakes the jobs.                                                     *)
StopServersButLast ==
  /\ pc = "idle"
  /\ inbox' = [s \in ServerIds |-> IF s < NumEvalServers
                                     THEN Append(inbox[s], NoTag) ELSE inbox[s]]
  /\ pc' = "stopped"
  /\ UNCHANGED <<evalIdCntr, coreQueue, raw, recvRequests, runningMap, sent,
                 delivered, serverVars>>

StopServersUrgent ==
  /\ pc = "idle"
  /\ inbox' = [s \in ServerIds |-> <<NoTag>> \o inbox[s]]
  /\ pc' = "stopped"
  /\ UNCHANGED <<evalIdCntr, coreQueue, raw, recvRequests, runningMap, sent,
                 delivered, serverVars>>

(* stop_evaluation_servers(), when the iterator is done. *)
StopServers ==
  /\ pc = "idle"
  /\ inbox' = [s \in ServerIds |-> Append(inbox[s], NoTag)]
  /\ pc' = "stopped"
  /\ UNCHANGED <<evalIdCntr, coreQueue, raw, recvRequests, runningMap, sent,
                 delivered, serverVars>>

(* Mutation of ServerReceive: a message is unpacked again after the        *)
(* receive was posted again.                                               *)
ServerReceiveTwice(s) ==
  /\ s \notin stopped
  /\ Cardinality(active[s]) < Concurrency
  /\ inbox[s] # <<>> /\ Head(inbox[s]) # NoTag
  /\ inbox' \in {inbox, [inbox EXCEPT ![s] = Tail(@)]}
  /\ active' = [active EXCEPT ![s] = @ \cup {Head(inbox[s])}]
  /\ runs' = [runs EXCEPT ![Head(inbox[s])] = @ + 1]
  /\ UNCHANGED <<masterVars, stopped, replies>>

(* A server that has room receives a job and runs it, or reads the tag 0.  *)
ServerReceive(s) ==
  /\ s \notin stopped
  /\ Cardinality(active[s]) < Concurrency
  /\ inbox[s] # <<>>
  /\ inbox' = [inbox EXCEPT ![s] = Tail(@)]
  /\ LET id == Head(inbox[s]) IN
     \/ /\ id = NoTag
        /\ stopped' = stopped \cup {s}
        /\ UNCHANGED <<active, runs>>
     \/ /\ id # NoTag
        /\ active' = [active EXCEPT ![s] = @ \cup {id}]
        /\ runs' = [runs EXCEPT ![id] = @ + 1]
        /\ UNCHANGED stopped
  /\ UNCHANGED <<masterVars, replies>>

(* A job has ended and its response is sent.  The blocking send of an      *)
(* asynchronous server, and the wait for an Isend before the next one of a *)
(* synchronous one, are over only if the receive is posted.                *)
Posted(id) == \E b \in Indices : recvRequests[b] = id

ServerReturn(s, id) ==
  /\ id \in active[s]
  /\ Posted(id)
  /\ active' = [active EXCEPT ![s] = @ \ {id}]
  /\ replies' = replies \cup {id}
  /\ UNCHANGED <<masterVars, inbox, stopped, runs>>

Next ==
  \/ MapAsynch
  \/ ScheduleStart
  \/ \E b \in Indices : WaitSome(b)
  \/ WaitAll
  \/ ScheduleReturn
  \/ NowaitFirstPass
  \/ NowaitFill
  \/ FillGap
  \/ FillDone
  \/ \E R \in SUBSET Completed : TestReceivesBackfill(R)
  \/ StopServers
  \/ \E s \in ServerIds : ServerReceive(s)
  \/ \E s \in ServerIds, id \in Evals : ServerReturn(s, id)

Spec == Init /\ [][Next]_vars

(* Every process takes the step it can take, a simulation ends some day,   *)
(* a response that has arrived is seen by a later test, and the client     *)
(* synchronizes, or stops the servers, in the end.                         *)
Fairness ==
  /\ WF_vars(ScheduleStart)
  /\ WF_vars(\E b \in Indices : WaitSome(b))
  /\ WF_vars(WaitAll)
  /\ WF_vars(ScheduleReturn)
  /\ WF_vars(NowaitFirstPass)
  /\ WF_vars(NowaitFill)
  /\ WF_vars(FillGap)
  /\ WF_vars(FillDone)
  /\ WF_vars(\E R \in SUBSET Completed : TestReceivesBackfill(R))
  /\ \A id \in Evals :
       SF_vars(\E R \in SUBSET Completed :
                 (\E r \in R : r.id = id) /\ TestReceivesBackfill(R))
  /\ WF_vars(StopServers)
  /\ \A s \in ServerIds : WF_vars(ServerReceive(s))
  /\ \A s \in ServerIds, id \in Evals : WF_vars(ServerReturn(s, id))

FairSpec == Spec /\ Fairness

-----------------------------------------------------------------------------
(* Where a job is between send_evaluation() and receive_evaluation(). *)
SentTo(s) == {inbox[s][k] : k \in DOMAIN inbox[s]} \ {NoTag}
OnServers == UNION {SentTo(s) \cup active[s] : s \in ServerIds}
InFlight == OnServers \cup replies

(* Every variable keeps its type. *)
TypeOK ==
  /\ evalIdCntr \in 0..MaxEvals
  /\ coreQueue \in SUBSET Evals
  /\ raw \in SUBSET Evals
  /\ recvRequests \in [Indices -> 0..MaxEvals]
  /\ runningMap \in SUBSET [id : Evals, server : ServerIds, index : Indices]
  /\ sent \in SUBSET Evals
  /\ pc \in {"idle", "waitsome", "waitall", "fill", "test", "stopped", "aborted"}
  /\ inbox \in [ServerIds -> Seq(0..MaxEvals)]
  /\ active \in [ServerIds -> SUBSET Evals]
  /\ stopped \in SUBSET ServerIds
  /\ replies \in SUBSET Evals
  /\ delivered \in SUBSET Evals
  /\ runs \in [Evals -> Nat]

(* Send and receive buffers are reused without waiting for the sends: it   *)
(* is safe because each job in flight holds one index of its own until its *)
(* response is received, and an index waits only for a job in flight.      *)
BuffersExclusive ==
  /\ \A id \in InFlight : \E b \in Indices : recvRequests[b] = id
  /\ \A b \in Indices : recvRequests[b] # NoTag => recvRequests[b] \in InFlight
  /\ \A b, c \in Indices :
       recvRequests[b] = recvRequests[c] /\ recvRequests[b] # NoTag => b = c

(* In the nowait form msgPassRunningMap describes the same jobs, and each  *)
(* server keeps to its own allocation of indices.                          *)
RunningMapExact ==
  pc \in {"idle", "fill", "test"} =>
    /\ RunningIds = InFlight
    /\ \A r \in runningMap : /\ recvRequests[r.index] = r.id
                             /\ r.index \in Allocation(r.server)
                             /\ r.id \in SentTo(r.server) \cup active[r.server] \cup replies

(* "The master maintains the correct number of jobs on each slave": a      *)
(* server is never sent more than it may run at once.                      *)
NotOverloaded ==
  \A s \in ServerIds : Cardinality(SentTo(s) \cup active[s]) <= Concurrency

(* Each job is simulated once, on one server, and then returned once.      *)
SimulatedOnce ==
  /\ \A id \in Evals :
       runs[id] = IF id \in (UNION {active[s] : s \in ServerIds})
                            \cup replies \cup delivered \cup (raw \cap coreQueue)
                    THEN 1 ELSE 0
  /\ \A s, t \in ServerIds : s # t => active[s] \cap active[t] = {}

(* There is always an index left for a gap that is to be filled. *)
NeverAborts == pc # "aborted"

(* A server that has read the tag 0 has received every job sent to it. *)
StoppedCleanly == \A s \in stopped : inbox[s] = <<>>

(* Every queued evaluation comes back, unless the servers are stopped. *)
AllDelivered ==
  \A id \in Evals : id \in coreQueue ~> (id \in delivered \/ pc = "stopped")

(* Once they are told to stop, all servers do, with no job unfinished. *)
ServersStop ==
  pc = "stopped" ~> \A s \in ServerIds : s \in stopped /\ active[s] = {}

(* The scheduler keeps the contract of EvalScheduler. *)
Contract ==
  INSTANCE EvalScheduler WITH
    waiting   <- coreQueue \ (InFlight \cup raw),
    running   <- InFlight,
    completed <- delivered \cup (raw \cap coreQueue)

ImplementsContract == Contract!SchedSpec
=============================================================================
