--------------------------- MODULE PeerScheduler ---------------------------
(***************************************************************************)
(* ApplicationInterface with message passing among peers and no dedicated  *)
(* master: the first peer runs peer_{static,dynamic}_schedule_evaluations  *)
(* under synchronize() or their _nowait forms under synchronize_nowait(),  *)
(* sends jobs to the other peers and takes its own share of them.          *)
(*                                                                         *)
(* Messages and buffers are those of MasterScheduler.  The other peers run *)
(* the same servers as there; a server is reduced to the jobs it was sent, *)
(* of which it runs the first concurrency ones at any time.                *)
(***************************************************************************)
EXTENDS Integers, FiniteSets, Sequences, IdQueue

CONSTANTS
  MaxEvals,       \* bound on evalIdCntr
  MaxServers,     \* bound on numEvalServers
  Configurations  \* the parallel configurations to consider

(* A configuration: numEvalServers, asynchLocalEvalConcurrency (at least 1 *)
(* with messages), whether the static schedulers are selected, whether     *)
(* local jobs have to block (a multiprocessor evaluation or a direct       *)
(* interface), and asynchLocalEvalStatic.  The last two select the static  *)
(* schedulers.                                                             *)
ConfigurationType ==
  [servers : 2..MaxServers, conc : Nat \ {0}, static : BOOLEAN,
   synchLocal : BOOLEAN, evalStatic : BOOLEAN]

ASSUME ConstantsAssumption ==
  /\ MaxEvals \in Nat
  /\ MaxServers \in Nat
  /\ Configurations \subseteq ConfigurationType
  /\ \A c \in Configurations : c.synchLocal \/ c.evalStatic => c.static

Evals == 1..MaxEvals
NoTag == 0
AtEnd == MaxEvals + 1

VARIABLES
  config,              \* the configuration of the run
  evalIdCntr,          \* id of the last evaluation mapped
  coreQueue,           \* beforeSynchCorePRPQueue
  raw,                 \* the ids in rawResponseMap
  active,              \* asynchLocalActivePRPQueue
  localServerAssigned, \* the indices whose bit is set
  runningMap,          \* msgPassRunningMap: records of an id, its server and index
  recvRequests,        \* the tag each receive request waits for, or NoTag
  nowaitEvalIdRef,     \* nowaitEvalIdRef
  assignIter,          \* assign_iter: the smallest id it has not passed
  localQueue,          \* local_prp_queue: new jobs of the first peer
  pc,                  \* where the first peer is
  remote,              \* the jobs sent to each other peer and not yet finished
  replies,             \* responses that peers have sent, not yet received
  delivered,           \* history: the ids returned to the caller
  runs                 \* history: how often each id was given to a server

ownVars == <<config, evalIdCntr, nowaitEvalIdRef>>
vars == <<ownVars, coreQueue, raw, active, localServerAssigned, runningMap,
          recvRequests, assignIter, localQueue, pc, remote, replies, delivered,
          runs>>

N == config.servers
Conc == config.conc
RemoteIds == 1..(N - 1)
RemoteCapacity == (N - 1) * Conc

(* The blocking schedulers allocate a buffer for each job they send, the   *)
(* nonblocking ones for each job the other peers can run.                  *)
Indices == 0..(MaxEvals + RemoteCapacity)

-----------------------------------------------------------------------------
(* The round robin of the first passes: the i-th job (from 0) goes to peer *)
(* (i + 1) % numEvalServers, and 0 is the first peer itself.               *)
Dealt(S, s) == {id \in S : (Place(S, id) + 1) % N = s}

(* static_limited: the jobs of S that find their local server free. *)
StaticLimited == config.evalStatic /\ Conc > 1
ServerIndex(id) == (id - 1) % (Conc * N)
Servers(L) == IF StaticLimited THEN {ServerIndex(x) : x \in L} ELSE {}
LocalLaunch(S, busy, k) ==
  FirstOf(IF StaticLimited
            THEN {x \in S : /\ ServerIndex(x) \notin busy
                            /\ \A y \in S : y < x => ServerIndex(y) # ServerIndex(x)}
            ELSE S, k)

Count(L) == [id \in Evals |-> IF id \in L THEN runs[id] + 1 ELSE runs[id]]

(* send_evaluation() for each of the jobs: its record in                   *)
(* msgPassRunningMap, the receive posted at its index and the message.     *)
Job(id, s, b) == [id |-> id, server |-> s, index |-> b]
Posted(J) ==
  [b \in Indices |-> IF \E r \in J : r.index = b
                       THEN (CHOOSE r \in J : r.index = b).id
                       ELSE recvRequests[b]]
Messages(J) ==
  [s \in 1..(MaxServers - 1) |-> remote[s] \o InOrder({r.id : r \in {q \in J : q.server = s}})]
IdsOf(J) == {r.id : r \in J}

-----------------------------------------------------------------------------
Init ==
  /\ config \in Configurations
  /\ evalIdCntr = 0
  /\ coreQueue = {} /\ raw = {}
  /\ active = {} /\ localServerAssigned = {}
  /\ runningMap = {}
  /\ recvRequests = [b \in Indices |-> NoTag]
  /\ nowaitEvalIdRef = 0
  /\ assignIter = 1
  /\ localQueue = {}
  /\ pc = "idle"
  /\ remote = [s \in 1..(MaxServers - 1) |-> <<>>]
  /\ replies = {}
  /\ delivered = {}
  /\ runs = [id \in Evals |-> 0]

(* map() of an asynchronous evaluation. *)
MapAsynch ==
  /\ pc = "idle"
  /\ evalIdCntr < MaxEvals
  /\ evalIdCntr' = evalIdCntr + 1
  /\ coreQueue' = coreQueue \cup {evalIdCntr'}
  /\ UNCHANGED <<config, nowaitEvalIdRef, raw, active, localServerAssigned,
                 runningMap, recvRequests, assignIter, localQueue, pc, remote,
                 replies, delivered, runs>>

(* The jobs of S for the other peers, with consecutive buffer indices in   *)
(* the order of the ids.                                                   *)
ConsecutiveJobs(S) ==
  LET others == S \ Dealt(S, 0)
  IN {Job(id, (Place(S, id) + 1) % N, Place(others, id)) : id \in others}

(* A synchronization starts.  A client that mixes the two forms calls the  *)
(* blocking one with no job running (the code does not check it).          *)
Starts == pc = "idle" /\ coreQueue # {}
NothingRunning == runningMap = {} /\ active = {}

-----------------------------------------------------------------------------
(* peer_static_schedule_evaluations(): all jobs of the others are sent at  *)
(* once, whatever their capacity, ...                                      *)
StaticStart ==
  /\ Starts /\ NothingRunning /\ config.static
  /\ LET J == ConsecutiveJobs(coreQueue) IN
     /\ recvRequests' = Posted(J)
     /\ remote' = Messages(J)
     /\ runs' = Count(IdsOf(J))
  /\ localQueue' = Dealt(coreQueue, 0)
  /\ raw' = {}
  /\ pc' = "local"
  /\ UNCHANGED <<ownVars, coreQueue, active, localServerAssigned, runningMap,
                 assignIter, replies, delivered>>

(* ... the first peer runs its own, in order if it runs one at a time      *)
(* (synchronous_local_evaluations()), otherwise as the local scheduler     *)
(* completes them (asynchronous_local_evaluations()), ...                  *)
StaticLocal(id) ==
  /\ pc = "local"
  /\ id \in localQueue \ raw
  /\ Conc = 1 => id = Nth(localQueue \ raw, 0)
  /\ raw' = raw \cup {id}
  /\ runs' = Count({id})
  /\ UNCHANGED <<ownVars, coreQueue, active, localServerAssigned, runningMap,
                 recvRequests, assignIter, localQueue, pc, remote, replies,
                 delivered>>

(* ... and then waits for the others. *)
StaticWaitAll ==
  /\ pc = "local"
  /\ localQueue \subseteq raw
  /\ coreQueue \ localQueue \subseteq replies
  /\ replies' = replies \ coreQueue
  /\ recvRequests' = [b \in Indices |-> NoTag]
  /\ delivered' = delivered \cup coreQueue
  /\ raw' = coreQueue
  /\ coreQueue' = {}
  /\ localQueue' = {}
  /\ pc' = "idle"
  /\ UNCHANGED <<ownVars, active, localServerAssigned, runningMap, assignIter,
                 remote, runs>>

-----------------------------------------------------------------------------
(* peer_dynamic_schedule_evaluations(), first pass.  (With evalStatic the  *)
(* dynamic schedulers are not selected, so every local job is launched.)   *)
DynamicStart ==
  /\ Starts /\ NothingRunning /\ ~config.static
  /\ LET S == FirstOf(coreQueue, N * Conc)
         J == ConsecutiveJobs(S)
     IN /\ runningMap' = J
        /\ recvRequests' = Posted(J)
        /\ remote' = Messages(J)
        /\ active' = Dealt(S, 0)
        /\ assignIter' = IF S = coreQueue THEN AtEnd ELSE Nth(coreQueue, N * Conc)
        /\ runs' = Count(S)
  /\ raw' = {}
  /\ pc' = "loop"
  /\ UNCHANGED <<ownVars, coreQueue, localServerAssigned, localQueue, replies,
                 delivered>>

(* test_receives_backfill(): R are the running jobs found complete, in the *)
(* order of their ids.  Each is replaced, at its peer and index, by the    *)
(* next job from assign_iter on that neither runs nor is back.             *)
Complete(b) == recvRequests[b] \in replies
Completed == {r \in runningMap : Complete(r.index)}

ReceivePending == {id \in coreQueue : /\ id >= assignIter
                                      /\ id \notin IdsOf(runningMap)
                                      /\ id \notin active
                                      /\ id \notin raw}
(* Mutation of Replacements: every one is sent to the first of the others. *)
ReplacementsToFirst(R) ==
  LET pending == ReceivePending
      ids == IdsOf(R)
      replaced == {r \in R : Place(ids, r.id) < Cardinality(pending)}
  IN {Job(Nth(pending, Place(ids, r.id)), 1, r.index) : r \in replaced}

Replacements(R) ==
  LET pending == ReceivePending
      ids == IdsOf(R)
      replaced == {r \in R : Place(ids, r.id) < Cardinality(pending)}
  IN {Job(Nth(pending, Place(ids, r.id)), r.server, r.index) : r \in replaced}

(* Mutation of IterAfterReceives: the iterator is left at the end. *)
IterAfterReceivesAtEnd(R) == IF R = {} THEN assignIter ELSE AtEnd

IterAfterReceives(R) ==
  IF R = {} THEN assignIter
  ELSE IF Cardinality(ReceivePending) < Cardinality(R) THEN AtEnd
  ELSE Nth(ReceivePending, Cardinality(R) - 1) + 1

(* Mutation of LocalBackfill: jobs of the other peers are not recognised. *)
LocalBackfillAny(R, C) ==
  LET pending == {id \in coreQueue : /\ StaticLimited \/ id >= IterAfterReceives(R)
                                     /\ id \notin active
                                     /\ id \notin raw \cup IdsOf(R)}
  IN IF C = {} THEN {}
     ELSE LocalLaunch(pending, localServerAssigned \ Servers(C),
                      Conc - Cardinality(active \ C))

(* test_local_backfill(): when local jobs C have completed, the walk goes  *)
(* on from the iterator that test_receives_backfill() has left, or from    *)
(* the head of the queue if static_limited, until the concurrency is used. *)
LocalBackfill(R, C) ==
  LET running == (IdsOf(runningMap) \ IdsOf(R)) \cup IdsOf(Replacements(R))
      pending == {id \in coreQueue : /\ StaticLimited \/ id >= IterAfterReceives(R)
                                     /\ id \notin active
                                     /\ id \notin running
                                     /\ id \notin raw \cup IdsOf(R)}
  IN IF C = {} THEN {}
     ELSE LocalLaunch(pending, localServerAssigned \ Servers(C),
                      Conc - Cardinality(active \ C))

IterAfterLocal(R, C) ==
  LET L == LocalBackfill(R, C) IN
  IF C = {} THEN IterAfterReceives(R)
  ELSE IF Cardinality((active \ C) \cup L) < Conc THEN AtEnd
  ELSE Nth(L, Cardinality(L) - 1) + 1

(* One pass of both: what a turn of the blocking dynamic loop and step 2   *)
(* of the nonblocking schedulers have in common.                           *)
TestAndBackfill(R, C) ==
  LET J == Replacements(R)
      L == LocalBackfill(R, C)
  IN /\ runningMap' = (runningMap \ R) \cup J
     /\ replies' = replies \ {recvRequests[r.index] : r \in R}
     /\ recvRequests' = [b \in Indices |->
          IF \E r \in R \cup J : r.index = b
            THEN IF \E r \in J : r.index = b
                   THEN (CHOOSE r \in J : r.index = b).id ELSE NoTag
            ELSE recvRequests[b]]
     /\ remote' = Messages(J)
     /\ active' = (active \ C) \cup L
     /\ localServerAssigned' = (localServerAssigned \ Servers(C)) \cup Servers(L)
     /\ runs' = Count(IdsOf(J) \cup L)
     /\ assignIter' = IterAfterLocal(R, C)

(* A turn of the loop of peer_dynamic_schedule_evaluations(), which polls. *)
DynamicTurn(R, C) ==
  /\ pc = "loop"
  /\ Cardinality(raw) < Cardinality(coreQueue)
  /\ TestAndBackfill(R, C)
  /\ raw' = raw \cup IdsOf(R) \cup C
  /\ UNCHANGED <<ownVars, coreQueue, localQueue, pc, delivered>>

DynamicReturn ==
  /\ pc = "loop"
  /\ Cardinality(raw) >= Cardinality(coreQueue)
  /\ recvRequests' = [b \in Indices |-> NoTag]
  /\ delivered' = delivered \cup raw
  /\ coreQueue' = {}
  /\ pc' = "idle"
  /\ UNCHANGED <<ownVars, raw, active, localServerAssigned, runningMap,
                 assignIter, localQueue, remote, replies, runs>>

-----------------------------------------------------------------------------
(* Nonblocking, step 1 with nothing running.  Static: the round robin of   *)
(* the blocking scheduler, as far as the capacity reaches; its first id is *)
(* the reference for later assignments.                                    *)
StaticFirstPass ==
  /\ Starts /\ NothingRunning /\ config.static
  /\ LET local == Cardinality(coreQueue) \div N
         S == FirstOf(coreQueue,
                      MinOf(Conc, local)
                      + MinOf(RemoteCapacity, Cardinality(coreQueue) - local))
         J == ConsecutiveJobs(S)
         L == LocalLaunch(Dealt(S, 0), {}, Conc)
     IN /\ runningMap' = J
        /\ recvRequests' = Posted(J)
        /\ remote' = Messages(J)
        /\ assignIter' = IF S = coreQueue THEN AtEnd
                         ELSE Nth(coreQueue, Cardinality(S))
        /\ \/ /\ config.synchLocal
              /\ raw' = Dealt(S, 0)
              /\ runs' = Count(S)
              /\ UNCHANGED <<active, localServerAssigned>>
           \/ /\ ~config.synchLocal
              /\ raw' = {}
              /\ active' = L
              /\ localServerAssigned' = Servers(L)
              /\ runs' = Count(IdsOf(J) \cup L)
  /\ nowaitEvalIdRef' = Nth(coreQueue, 0)
  /\ pc' = "test"
  /\ UNCHANGED <<config, evalIdCntr, coreQueue, localQueue, replies, delivered>>

(* Dynamic: the first peer takes its share from the head of the queue, and *)
(* the indices are stratified by peer.                                     *)
StratifiedIndex(i) == (i % (N - 1)) * Conc + (i \div (N - 1))

DynamicFirstPass ==
  /\ Starts /\ NothingRunning /\ ~config.static
  /\ LET n == Cardinality(coreQueue)
         L == FirstOf(coreQueue, MinOf(Conc, n \div N))
         S == FirstOf(coreQueue \ L, MinOf(RemoteCapacity, n - (n \div N)))
         J == {Job(id, (Place(S, id) % (N - 1)) + 1, StratifiedIndex(Place(S, id))) :
                 id \in S}
     IN /\ runningMap' = J
        /\ recvRequests' = Posted(J)
        /\ remote' = Messages(J)
        /\ active' = L
        /\ assignIter' = IF L \cup S = coreQueue THEN AtEnd
                         ELSE Nth(coreQueue, Cardinality(L \cup S))
        /\ runs' = Count(L \cup S)
  /\ raw' = {}
  /\ pc' = "test"
  /\ UNCHANGED <<ownVars, coreQueue, localServerAssigned, localQueue, replies,
                 delivered>>

(* Step 1 with jobs running: if there are new jobs, and room somewhere,    *)
(* the queue is walked from its head.                                      *)
NumLocal == Cardinality(active) + Cardinality(localQueue)
NumRemote == Cardinality(runningMap)

NowaitFill ==
  /\ Starts /\ ~NothingRunning
  /\ raw' = {}
  /\ assignIter' = 1
  /\ pc' = IF NumLocal + NumRemote < MinOf(Cardinality(coreQueue), N * Conc)
             THEN "fill" ELSE "test"
  /\ UNCHANGED <<ownVars, coreQueue, active, localServerAssigned, runningMap,
                 recvRequests, localQueue, remote, replies, delivered, runs>>

ToWalk == {id \in coreQueue : id >= assignIter}
MoreToFill == ToWalk # {} /\ (NumLocal < Conc \/ NumRemote < RemoteCapacity)
NextJob == Nth(ToWalk, 0)

IndicesOf(s) == {r.index : r \in {q \in runningMap : q.server = s}}
Load(s) == Cardinality(IndicesOf(s))

(* The peer of the next job: by its id under the static schedule, else the *)
(* least loaded one; a tie goes to the first of the others.                *)
StaticPeer(id) == (id - nowaitEvalIdRef + 1) % N
LeastLoaded ==
  CHOOSE s \in RemoteIds :
    \A u \in RemoteIds : Load(s) < Load(u) \/ (Load(s) = Load(u) /\ s <= u)
PeerOf(id) ==
  IF config.static THEN StaticPeer(id)
  ELSE IF NumLocal < Load(LeastLoaded) THEN 0 ELSE LeastLoaded

HasRoom(s) ==
  IF s = 0 THEN NumLocal < Conc
  ELSE IF config.static THEN Load(s) < Conc ELSE NumRemote < RemoteCapacity

(* Mutation of FreeIndices: an index in use is taken for free. *)
FreeIndicesAll(s) == ((s - 1) * Conc)..(s * Conc - 1)

(* The indices that are set apart for a peer, as far as it does not use    *)
(* them itself.                                                            *)
FreeIndices(s) == (((s - 1) * Conc)..(s * Conc - 1)) \ IndicesOf(s)

Passes ==
  /\ assignIter' = NextJob + 1
  /\ UNCHANGED <<ownVars, coreQueue, raw, active, localServerAssigned, replies,
                 delivered>>

FillSkip ==
  /\ pc = "fill" /\ MoreToFill
  /\ \/ NextJob \in IdsOf(runningMap) \cup active
     \/ ~HasRoom(PeerOf(NextJob))
  /\ Passes
  /\ UNCHANGED <<runningMap, recvRequests, localQueue, pc, remote, runs>>

(* ... and aborts if the peer has room but no index. *)
FillAssign ==
  /\ pc = "fill" /\ MoreToFill
  /\ NextJob \notin IdsOf(runningMap) \cup active
  /\ HasRoom(PeerOf(NextJob))
  /\ LET s == PeerOf(NextJob) IN
     \/ /\ s = 0
        /\ localQueue' = localQueue \cup {NextJob}
        /\ UNCHANGED <<runningMap, recvRequests, pc, remote, runs>>
     \/ /\ s # 0
        /\ LET J == {Job(NextJob, s, b) : b \in FirstOf(FreeIndices(s), 1)} IN
           /\ runningMap' = runningMap \cup J
           /\ recvRequests' = Posted(J)
           /\ remote' = Messages(J)
           /\ runs' = Count(IdsOf(J))
           /\ pc' = IF J = {} THEN "aborted" ELSE pc
        /\ UNCHANGED localQueue
  /\ Passes

(* The walk ends and the new local jobs are run, or launched. *)
FillDone ==
  /\ pc = "fill" /\ ~MoreToFill
  /\ LET L == LocalLaunch(localQueue, localServerAssigned,
                          Conc - Cardinality(active))
     IN \/ /\ config.synchLocal
           /\ raw' = localQueue
           /\ runs' = Count(localQueue)
           /\ UNCHANGED <<active, localServerAssigned>>
        \/ /\ ~config.synchLocal
           /\ active' = active \cup L
           /\ localServerAssigned' = localServerAssigned \cup Servers(L)
           /\ runs' = Count(L)
           /\ UNCHANGED raw
  /\ localQueue' = {}
  /\ pc' = "test"
  /\ UNCHANGED <<ownVars, coreQueue, runningMap, recvRequests, assignIter,
                 remote, replies, delivered>>

(* Mutation of NowaitReturn: the queue keeps only what runs. *)
NowaitReturnForgets(R, C) ==
  /\ pc = "test"
  /\ TestAndBackfill(R, C)
  /\ LET back == raw \cup IdsOf(R) \cup C IN
     /\ raw' = back
     /\ delivered' = delivered \cup back
     /\ coreQueue' = IdsOf(runningMap') \cup active'
  /\ pc' = "idle"
  /\ UNCHANGED <<ownVars, localQueue>>

(* Step 2, and synchronize_nowait() returns what is back. *)
NowaitReturn(R, C) ==
  /\ pc = "test"
  /\ TestAndBackfill(R, C)
  /\ LET back == raw \cup IdsOf(R) \cup C IN
     /\ raw' = back
     /\ delivered' = delivered \cup back
     /\ coreQueue' = coreQueue \ back
  /\ pc' = "idle"
  /\ UNCHANGED <<ownVars, localQueue>>

(* A peer that runs a job finishes it and sends its response. *)
PeerReturns(s, k) ==
  /\ k \in 1..MinOf(Conc, Len(remote[s]))
  /\ replies' = replies \cup {remote[s][k]}
  /\ remote' = [remote EXCEPT ![s] = SubSeq(@, 1, k - 1) \o SubSeq(@, k + 1, Len(@))]
  /\ UNCHANGED <<ownVars, coreQueue, raw, active, localServerAssigned,
                 runningMap, recvRequests, assignIter, localQueue, pc,
                 delivered, runs>>

(* The run is over. *)
Terminated ==
  /\ pc = "idle" /\ evalIdCntr = MaxEvals /\ coreQueue = {}
  /\ UNCHANGED vars

Next ==
  \/ MapAsynch
  \/ StaticStart
  \/ \E id \in Evals : StaticLocal(id)
  \/ StaticWaitAll
  \/ DynamicStart
  \/ \E R \in SUBSET Completed, C \in SUBSET active : DynamicTurn(R, C)
  \/ DynamicReturn
  \/ StaticFirstPass
  \/ DynamicFirstPass
  \/ NowaitFill
  \/ FillSkip
  \/ FillAssign
  \/ FillDone
  \/ \E R \in SUBSET Completed, C \in SUBSET active : NowaitReturn(R, C)
  \/ \E s \in 1..(MaxServers - 1), k \in Evals : PeerReturns(s, k)
  \/ Terminated

Spec == Init /\ [][Next]_vars

(* The client synchronizes again and again, every process takes the step   *)
(* it can take, a simulation ends some day, and a response that is there   *)
(* is seen by a later test.                                                *)
Fairness ==
  /\ WF_vars(StaticStart \/ DynamicStart \/ StaticFirstPass
             \/ DynamicFirstPass \/ NowaitFill)
  /\ WF_vars(\E id \in Evals : StaticLocal(id))
  /\ WF_vars(StaticWaitAll)
  /\ WF_vars(DynamicReturn)
  /\ WF_vars(FillSkip \/ FillAssign \/ FillDone)
  /\ WF_vars(\E R \in SUBSET Completed, C \in SUBSET active : NowaitReturn(R, C))
  /\ \A id \in Evals :
       SF_vars(\E R \in SUBSET Completed, C \in SUBSET active :
                 /\ id \in IdsOf(R) \cup C
                 /\ DynamicTurn(R, C) \/ NowaitReturn(R, C))
  /\ \A s \in 1..(MaxServers - 1) : WF_vars(\E k \in Evals : PeerReturns(s, k))

FairSpec == Spec /\ Fairness

-----------------------------------------------------------------------------
SentTo(s) == {remote[s][k] : k \in DOMAIN remote[s]}
InFlight == (UNION {SentTo(s) : s \in RemoteIds}) \cup replies

(* No two jobs at other peers share a buffer: an index is "available" when *)
(* the gap filling takes it.                                               *)
AvailableIndex == \A r, q \in runningMap : r.index = q.index => r = q

(* Each job at another peer holds a buffer index of its own until its      *)
(* response is received, although the first passes, the gap filling and    *)
(* the backfill number the indices in different ways; and the bookkeeping  *)
(* of the running jobs is exact and within the arrays.                     *)
BuffersExclusive ==
  /\ \A id \in InFlight : Cardinality({b \in Indices : recvRequests[b] = id}) = 1
  /\ AvailableIndex
  /\ pc # "local" => /\ IdsOf(runningMap) = InFlight
                     /\ \A r \in runningMap : /\ recvRequests[r.index] = r.id
                                              /\ r.index < RemoteCapacity

(* No peer, the first one included, has more jobs than it may run at once, *)
(* except where the blocking static schedule sends all of them in advance. *)
NotOverloaded ==
  /\ pc # "local" => \A s \in RemoteIds : Len(remote[s]) <= Conc
  /\ Cardinality(active) <= Conc

(* Each job is given to one peer, once: the two backfills that share the   *)
(* queue and the iterator never both take it, nor take it again.           *)
SimulatedOnce ==
  \A id \in Evals :
    runs[id] = IF id \in InFlight \cup active \cup delivered \cup (raw \cap coreQueue)
                 THEN 1 ELSE 0

(* Every queued evaluation comes back. *)
AllDelivered == \A id \in Evals : id \in coreQueue ~> id \in delivered

(* All four schedulers keep the contract of EvalScheduler, on which        *)
(* ApplicationInterface relies.  A job runs from when it is sent to        *)
(* another peer or launched until its response is received; how many do is *)
(* left to NotOverloaded, since the blocking static schedule sends all.    *)
Contract ==
  INSTANCE EvalScheduler WITH
    Capacity  <- 0,
    waiting   <- coreQueue \ (InFlight \cup active \cup raw),
    running   <- InFlight \cup active,
    completed <- delivered \cup (raw \cap coreQueue)

ImplementsContract == Contract!SchedSpec
=============================================================================
