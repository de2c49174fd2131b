------------------------ MODULE ApplicationInterface ------------------------
(***************************************************************************)
(* ApplicationInterface: map(), duplication_detect(), synchronize(),       *)
(* synchronize_nowait(), the evaluation cache data_pairs, the restart file *)
(* and the start of a run from it.  The schedulers that run the queued     *)
(* simulations are abstracted to what EvalScheduler promises: while a      *)
(* synchronization is in progress, queued jobs complete one at a time.     *)
(*                                                                         *)
(* The representation ("rep") of a response belongs to one evaluation id,  *)
(* and the queue, rawResponseMap, historyDuplicateMap and                  *)
(* cachedResponseMap hand the same rep on.  So each map is the set of its  *)
(* ids, and resp[id] is the content of the rep.                            *)
(***************************************************************************)
EXTENDS Integers, Sequences, FiniteSets

CONSTANTS
  NoPoint,            \* the variables of an id that is not mapped
  Near,               \* Near[p]: the points within nearbyTolerance of p
  Data,               \* what a response can hold: values, gradients, Hessians
  MaxEvals,           \* bound on evalIdCntr
  MaxRestarts,        \* bound on the number of restarts
  Configurations      \* the settings, and the client's inputs, to consider

Points == DOMAIN Near

(* A configuration: which mappings there are, evalCacheFlag,               *)
(* nearbyDuplicateDetect, restartFileFlag and asvControlFlag, whether the  *)
(* interface is shared by models that give back responses they cannot use  *)
(* yet, and the variables and data that the client asks for.               *)
ConfigurationType ==
  [core : BOOLEAN, algebraic : BOOLEAN, cache : BOOLEAN, nearby : BOOLEAN,
   file : BOOLEAN, asv : BOOLEAN, shared : BOOLEAN, points : SUBSET Points,
   data : SUBSET Data]

ASSUME ConstantsAssumption ==
  /\ NoPoint \notin Points
  /\ Near \in [Points -> SUBSET Points]
  /\ \A p \in Points : p \in Near[p]
  /\ MaxEvals \in Nat
  /\ MaxRestarts \in Nat
  /\ Configurations \subseteq ConfigurationType
  /\ \A c \in Configurations : c.core \/ c.algebraic

Evals == 1..MaxEvals

VARIABLES
  evalIdCntr,  \* evalIdCntr
  vars,        \* the variables each id was mapped at
  set,         \* the active set each id was mapped with
  resp,        \* the rep of each id: where simulated, data, overlays
  coreQueue,   \* beforeSynchCorePRPQueue
  algQueue,    \* beforeSynchAlgPRPQueue
  dupIds,      \* keys of beforeSynchDuplicateMap
  dupOf,       \* the queued job the iterator of a duplicate refers to
  histIds,     \* historyDuplicateMap
  cachedIds,   \* cachedResponseMap
  rawIds,      \* rawResponseMap
  dataPairs,   \* data_pairs
  restartFile, \* the records of the restart file
  pc,          \* "idle", "synch" or "nowait" in a synchronization, or "undefined"
  restarts,    \* number of restarts so far
  consumed,    \* history: ids whose response the caller has kept
  executed,    \* history: the simulations of this run
  loaded,      \* history: the records this run was restarted from
  config       \* the configuration of the run

ifaceVars == <<evalIdCntr, vars, set, resp, coreQueue, algQueue, dupIds, dupOf,
               histIds, cachedIds, rawIds, dataPairs, restartFile, pc,
               restarts, consumed, executed, loaded, config>>

CoreMappings == config.core
AlgebraicMappings == config.algebraic
EvalCacheFlag == config.cache
NearbyDetect == config.nearby
RestartFileFlag == config.file
AsvControlFlag == config.asv
ActiveSets == (SUBSET config.data) \ {{}}

-----------------------------------------------------------------------------
(* A Response rep: the point it was simulated at, the data it holds, and   *)
(* how often an algebraic response was added to it.                        *)
Rep(p, s, n) == [at |-> p, data |-> s, alg |-> n]
EmptyRep == Rep(NoPoint, {}, 0)
Overlaid(r) == [r EXCEPT !.alg = @ + 1]

(* The active set a new job is run with: the user's interface may ask for  *)
(* a constant active set vector.                                           *)
JobSet(s) == IF AsvControlFlag THEN s ELSE config.data

(* A data_pairs entry either owns its rep, or shares the rep of the        *)
(* evaluation it has the id of.  An owned rep is a core response.          *)
Entry(id, p, s, own) == [id |-> id, at |-> p, data |-> s, own |-> own]
OverlaysOf(d) == IF d.own THEN 0 ELSE resp[d.id].alg

(* Mutations of CacheHits: entries of an earlier run are not found; and    *)
(* the tolerance is applied twice.                                         *)
CacheHitsThisRun(p, s) ==
  {d \in dataPairs : p = d.at /\ s \subseteq d.data /\ d.id > 0}

CacheHitsNearOfNear(p, s) ==
  {d \in dataPairs : (\E q \in Near[d.at] : p \in Near[q]) /\ s \subseteq d.data}

(* lookup_by_val() and lookup_by_nearby_val(): the entries that may be     *)
(* found.  Equal keys are in no particular order in the hashed index; the  *)
(* ordered index is walked from the smallest id.                           *)
CacheHits(p, s) ==
  LET match == {d \in dataPairs :
                  /\ IF NearbyDetect THEN p \in Near[d.at] ELSE p = d.at
                  /\ s \subseteq d.data}
  IN IF NearbyDetect THEN {d \in match : \A e \in match : d.id <= e.id}
                     ELSE match

(* Mutation of QueueHits: the active sets have to be equal. *)
QueueHitsSameSet(p, s) ==
  {q \in coreQueue : vars[q] = p /\ s = JobSet(set[q])}

QueueHits(p, s) ==
  {q \in coreQueue : vars[q] = p /\ s \subseteq JobSet(set[q])}

(* Mutation of Promoted: under the id before the new one. *)
PromotedPrevious(d, id) ==
  IF d.id <= 0 THEN (dataPairs \ {d}) \cup {[d EXCEPT !.id = id - 1]}
               ELSE dataPairs

(* A hit on an entry that was restarted or imported is promoted to the     *)
(* current run: erased and inserted again under the new id.                *)
Promoted(d, id) ==
  IF d.id <= 0 THEN (dataPairs \ {d}) \cup {[d EXCEPT !.id = id]}
               ELSE dataPairs

(* What a completed job leaves behind, in memory and on disk. *)
Cached(d) == IF EvalCacheFlag THEN dataPairs \cup {d} ELSE dataPairs
(* Mutation of Logged: what the cache holds is not written. *)
LoggedUnlessCached(id, p, s) ==
  IF RestartFileFlag /\ ~EvalCacheFlag
    THEN Append(restartFile, [id |-> id, at |-> p, data |-> s])
    ELSE restartFile

Logged(id, p, s) ==
  IF RestartFileFlag
    THEN Append(restartFile, [id |-> id, at |-> p, data |-> s])
    ELSE restartFile

-----------------------------------------------------------------------------
(* The records of a restart file in the order of PRPCache: by id, records  *)
(* of one id in the order they were inserted.                              *)
ById(s) ==
  LET Before(i, j) == s[i].id < s[j].id \/ (s[i].id = s[j].id /\ i < j)
      rank == [j \in DOMAIN s |->
                 1 + Cardinality({i \in DOMAIN s : Before(i, j)})]
  IN [n \in DOMAIN s |-> s[CHOOSE j \in DOMAIN s : rank[j] = n]]

(* Mutation of Negated: the records keep their ids. *)
NotNegated(s) == {Entry(s[i].id, s[i].at, s[i].data, TRUE) : i \in DOMAIN s}

Negated(s) == {Entry(-s[i].id, s[i].at, s[i].data, TRUE) : i \in DOMAIN s}

Init ==
  /\ evalIdCntr = 0
  /\ vars = [id \in Evals |-> NoPoint]
  /\ set = [id \in Evals |-> {}]
  /\ resp = [id \in Evals |-> EmptyRep]
  /\ coreQueue = {} /\ algQueue = {}
  /\ dupIds = {} /\ dupOf = [id \in Evals |-> 0]
  /\ histIds = {} /\ cachedIds = {} /\ rawIds = {}
  /\ dataPairs = {}
  /\ restartFile = <<>>
  /\ pc = "idle"
  /\ restarts = 0
  /\ consumed = {} /\ executed = {} /\ loaded = {}
  /\ config \in Configurations

(* The process dies, or ends, at any moment and is started again.  It      *)
(* reads the first n records of the restart file (-stop_restart; all of    *)
(* them without it, none without -read_restart), writes them to the new    *)
(* one and enters them in data_pairs under negated ids.                    *)
Restart(n) ==
  /\ RestartFileFlag
  /\ restarts < MaxRestarts
  /\ restarts' = restarts + 1
  /\ LET kept == ById(SubSeq(restartFile, 1, n)) IN
     /\ restartFile' = kept
     /\ dataPairs' = Negated(kept)
     /\ loaded' = Negated(kept)
  /\ evalIdCntr' = 0
  /\ vars' = [id \in Evals |-> NoPoint]
  /\ set' = [id \in Evals |-> {}]
  /\ resp' = [id \in Evals |-> EmptyRep]
  /\ coreQueue' = {} /\ algQueue' = {}
  /\ dupIds' = {} /\ dupOf' = [id \in Evals |-> 0]
  /\ histIds' = {} /\ cachedIds' = {} /\ rawIds' = {}
  /\ pc' = "idle"
  /\ consumed' = {} /\ executed' = {}
  /\ UNCHANGED config

-----------------------------------------------------------------------------
(* What every call of map() does first. *)
NewEvaluation(p, s) ==
  /\ pc = "idle"
  /\ evalIdCntr < MaxEvals
  /\ evalIdCntr' = evalIdCntr + 1
  /\ vars' = [vars EXCEPT ![evalIdCntr + 1] = p]
  /\ set' = [set EXCEPT ![evalIdCntr + 1] = s]

Algebraic == IF AlgebraicMappings THEN 1 ELSE 0

(* A blocking map() that finds a duplicate in data_pairs. *)
MapDuplicate(p, s) ==
  /\ CoreMappings /\ EvalCacheFlag
  /\ NewEvaluation(p, s)
  /\ \E d \in CacheHits(p, s) :
       /\ dataPairs' = Promoted(d, evalIdCntr + 1)
       /\ resp' = [resp EXCEPT ![evalIdCntr + 1] =
                     Rep(d.at, s \cap d.data, OverlaysOf(d) + Algebraic)]
  /\ consumed' = consumed \cup {evalIdCntr + 1}
  /\ UNCHANGED <<coreQueue, algQueue, dupIds, dupOf, histIds, cachedIds,
                 rawIds, restartFile, pc, restarts, executed, loaded, config>>

(* A blocking map() that runs the simulation.  The pair stored is a deep   *)
(* copy, made before the algebraic response is added.                      *)
MapSynch(p, s) ==
  /\ CoreMappings
  /\ EvalCacheFlag => CacheHits(p, s) = {}
  /\ NewEvaluation(p, s)
  /\ LET id == evalIdCntr + 1 IN
     /\ resp' = [resp EXCEPT ![id] = Rep(p, JobSet(s), Algebraic)]
     /\ executed' = executed \cup {<<p, JobSet(s)>>}
     /\ dataPairs' = Cached(Entry(id, p, JobSet(s), TRUE))
     /\ restartFile' = Logged(id, p, JobSet(s))
     /\ consumed' = consumed \cup {id}
  /\ UNCHANGED <<coreQueue, algQueue, dupIds, dupOf, histIds, cachedIds,
                 rawIds, pc, restarts, loaded, config>>

(* A blocking map() with algebraic mappings alone. *)
MapAlgebraic(p, s) ==
  /\ ~CoreMappings
  /\ NewEvaluation(p, s)
  /\ resp' = [resp EXCEPT ![evalIdCntr + 1] = Rep(p, s, 1)]
  /\ consumed' = consumed \cup {evalIdCntr + 1}
  /\ UNCHANGED <<coreQueue, algQueue, dupIds, dupOf, histIds, cachedIds,
                 rawIds, dataPairs, restartFile, pc, restarts, executed,
                 loaded, config>>

(* An asynchronous map() queues the algebraic part ... *)
QueueAlgebraic ==
  algQueue' = IF AlgebraicMappings THEN algQueue \cup {evalIdCntr + 1}
                                   ELSE algQueue

(* ... and the core part is a duplicate of a known response, *)
MapAsynchHistory(p, s) ==
  /\ CoreMappings /\ EvalCacheFlag
  /\ NewEvaluation(p, s)
  /\ QueueAlgebraic
  /\ \E d \in CacheHits(p, s) :
       /\ dataPairs' = Promoted(d, evalIdCntr + 1)
       /\ resp' = [resp EXCEPT ![evalIdCntr + 1] =
                     Rep(d.at, s \cap d.data, OverlaysOf(d))]
  /\ histIds' = histIds \cup {evalIdCntr + 1}
  /\ UNCHANGED <<coreQueue, dupIds, dupOf, cachedIds, rawIds, restartFile, pc,
                 restarts, consumed, executed, loaded, config>>

(* ... or of a job in the queue, *)
MapAsynchDuplicate(p, s) ==
  /\ CoreMappings /\ EvalCacheFlag
  /\ CacheHits(p, s) = {}
  /\ NewEvaluation(p, s)
  /\ QueueAlgebraic
  /\ \E q \in QueueHits(p, s) : dupOf' = [dupOf EXCEPT ![evalIdCntr + 1] = q]
  /\ dupIds' = dupIds \cup {evalIdCntr + 1}
  /\ UNCHANGED <<resp, coreQueue, histIds, cachedIds, rawIds, dataPairs,
                 restartFile, pc, restarts, consumed, executed, loaded, config>>

(* ... or a new job. *)
MapAsynchJob(p, s) ==
  /\ CoreMappings
  /\ EvalCacheFlag => CacheHits(p, s) = {} /\ QueueHits(p, s) = {}
  /\ NewEvaluation(p, s)
  /\ QueueAlgebraic
  /\ coreQueue' = coreQueue \cup {evalIdCntr + 1}
  /\ UNCHANGED <<resp, dupIds, dupOf, histIds, cachedIds, rawIds, dataPairs,
                 restartFile, pc, restarts, consumed, executed, loaded, config>>

MapAsynchAlgebraic(p, s) ==
  /\ ~CoreMappings
  /\ NewEvaluation(p, s)
  /\ QueueAlgebraic
  /\ UNCHANGED <<resp, coreQueue, dupIds, dupOf, histIds, cachedIds, rawIds,
                 dataPairs, restartFile, pc, restarts, consumed, executed,
                 loaded, config>>

-----------------------------------------------------------------------------
(* synchronize() begins with the responses that are already there.  The    *)
(* caller has kept what the last synchronization left in rawResponseMap.   *)
SynchronizeStart ==
  /\ pc = "idle"
  /\ consumed' = consumed \cup rawIds
  /\ rawIds' = cachedIds \cup histIds
  /\ cachedIds' = {} /\ histIds' = {}
  /\ pc' = "synch"
  /\ UNCHANGED <<evalIdCntr, vars, set, resp, coreQueue, algQueue, dupIds,
                 dupOf, dataPairs, restartFile, restarts, executed, loaded, config>>

NowaitStart ==
  /\ pc = "idle"
  /\ consumed' = consumed \cup rawIds
  /\ rawIds' = {}
  /\ pc' = "nowait"
  /\ UNCHANGED <<evalIdCntr, vars, set, resp, coreQueue, algQueue, dupIds,
                 dupOf, histIds, cachedIds, dataPairs, restartFile, restarts,
                 executed, loaded, config>>

(* A scheduler processes the completion of a queued job: it enters         *)
(* rawResponseMap and data_pairs, which share its rep, and the restart     *)
(* file (process_{asynch,synch}_local() and receive_evaluation()).         *)
CompleteJob(id) ==
  /\ pc \in {"synch", "nowait"}
  /\ id \in coreQueue \ rawIds
  /\ LET p == vars[id]
         s == JobSet(set[id])
     IN /\ resp' = [resp EXCEPT ![id] = Rep(p, s, 0)]
        /\ dataPairs' = Cached(Entry(id, p, s, FALSE))
        /\ restartFile' = Logged(id, p, s)
        /\ executed' = executed \cup {<<p, s>>}
  /\ rawIds' = rawIds \cup {id}
  /\ UNCHANGED <<evalIdCntr, vars, set, coreQueue, algQueue, dupIds, dupOf,
                 histIds, cachedIds, pc, restarts, consumed, loaded, config>>

(* The rep of a duplicate once it is updated from that of its original. *)
Updated(id) ==
  LET source == resp[dupOf[id]] IN
  IF id \in dupIds THEN Rep(source.at, set[id] \cap source.data, source.alg)
                   ELSE resp[id]

(* Mutation of Mapped: without the algebraic part. *)
MappedCoreOnly(id) ==
  IF CoreMappings THEN Updated(id) ELSE Rep(vars[id], set[id], 1)

(* The rep of an id when its algebraic response is mapped into it. *)
Mapped(id) ==
  IF CoreMappings THEN Overlaid(Updated(id)) ELSE Rep(vars[id], set[id], 1)

(* The schedulers of synchronize() return when every queued job is back:   *)
(* the duplicates of queued jobs are updated, every algebraic job is done  *)
(* and overlaid, and the queues are cleared.                               *)
SynchronizeReturn ==
  /\ pc = "synch"
  /\ coreQueue \subseteq rawIds
  /\ resp' = [id \in Evals |-> IF id \in algQueue THEN Mapped(id)
                               ELSE IF id \in dupIds THEN Updated(id)
                               ELSE resp[id]]
  /\ rawIds' = rawIds \cup dupIds \cup algQueue
  /\ coreQueue' = {} /\ dupIds' = {} /\ algQueue' = {}
  /\ pc' = "idle"
  /\ UNCHANGED <<evalIdCntr, vars, set, dupOf, histIds, cachedIds, dataPairs,
                 restartFile, restarts, consumed, executed, loaded, config>>

(* Mutation of ReadyDuplicates: left to the next synchronize(). *)
ReadyDuplicatesNone == {}

(* The duplicates that synchronize_nowait() can complete, and all that it  *)
(* returns.                                                                *)
ReadyDuplicates == {id \in dupIds : dupOf[id] \in rawIds}
(* Mutation of NowaitIds: without the duplicates of known responses. *)
NowaitIdsNoHistory ==
  rawIds \cup ReadyDuplicates \cup cachedIds
    \cup (IF CoreMappings THEN {} ELSE algQueue)

NowaitIds ==
  rawIds \cup ReadyDuplicates \cup cachedIds \cup histIds
    \cup (IF CoreMappings THEN {} ELSE algQueue)

(* Mutation of NowaitReturn: it returns early if no job has completed. *)
NowaitReturnEarly ==
  /\ pc = "nowait"
  /\ resp' = [id \in Evals |-> IF rawIds # {} /\ id \in NowaitIds
                                 THEN Updated(id) ELSE resp[id]]
  /\ rawIds' = IF rawIds = {} THEN {} ELSE NowaitIds
  /\ coreQueue' = coreQueue \ rawIds'
  /\ dupIds' = dupIds \ rawIds'
  /\ histIds' = histIds \ rawIds' /\ cachedIds' = cachedIds \ rawIds'
  /\ pc' = "idle"
  /\ UNCHANGED <<evalIdCntr, vars, set, algQueue, dupOf, dataPairs, restartFile,
                 restarts, consumed, executed, loaded, config>>

(* synchronize_nowait() returns.  With core and algebraic mappings it      *)
(* takes the algebraic job of every id it returns from the queue.          *)
NowaitReturn ==
  /\ pc = "nowait"
  /\ CoreMappings /\ AlgebraicMappings => NowaitIds \subseteq algQueue
  /\ resp' = [id \in Evals |-> IF id \notin NowaitIds THEN resp[id]
                               ELSE IF id \in algQueue THEN Mapped(id)
                               ELSE Updated(id)]
  /\ rawIds' = NowaitIds
  /\ algQueue' = algQueue \ NowaitIds
  /\ coreQueue' = coreQueue \ NowaitIds
  /\ dupIds' = dupIds \ NowaitIds
  /\ histIds' = {} /\ cachedIds' = {}
  /\ pc' = "idle"
  /\ UNCHANGED <<evalIdCntr, vars, set, dupOf, dataPairs, restartFile,
                 restarts, consumed, executed, loaded, config>>

(* If one of them has no algebraic job left, the failed lookup_by_eval_id  *)
(* is dereferenced.                                                        *)
NowaitUndefined ==
  /\ pc = "nowait"
  /\ CoreMappings /\ AlgebraicMappings
  /\ ~(NowaitIds \subseteq algQueue)
  /\ pc' = "undefined"
  /\ UNCHANGED <<evalIdCntr, vars, set, resp, coreQueue, algQueue, dupIds,
                 dupOf, histIds, cachedIds, rawIds, dataPairs, restartFile,
                 restarts, consumed, executed, loaded, config>>

(* cache_unmatched_response() of one id, and cache_unmatched_responses():  *)
(* the caller gives back what it cannot use yet.                           *)
CacheUnmatched(S) ==
  /\ config.shared
  /\ pc = "idle"
  /\ S # {}
  /\ cachedIds' = cachedIds \cup S
  /\ rawIds' = rawIds \ S
  /\ UNCHANGED <<evalIdCntr, vars, set, resp, coreQueue, algQueue, dupIds,
                 dupOf, histIds, dataPairs, restartFile, pc, restarts,
                 consumed, executed, loaded, config>>

(* The run is over, or left the defined behaviour of the code. *)
Terminated ==
  /\ \/ /\ pc = "idle" /\ evalIdCntr = MaxEvals
        /\ coreQueue \cup dupIds \cup algQueue \cup histIds \cup cachedIds = {}
     \/ pc = "undefined"
  /\ UNCHANGED ifaceVars

Map(p, s) ==
  \/ MapDuplicate(p, s) \/ MapSynch(p, s) \/ MapAlgebraic(p, s)
  \/ MapAsynchHistory(p, s) \/ MapAsynchDuplicate(p, s)
  \/ MapAsynchJob(p, s) \/ MapAsynchAlgebraic(p, s)

IfaceNext ==
  \/ \E p \in config.points, s \in ActiveSets : Map(p, s)
  \/ SynchronizeStart
  \/ NowaitStart
  \/ \E id \in Evals : CompleteJob(id)
  \/ SynchronizeReturn
  \/ NowaitReturn
  \/ NowaitUndefined
  \/ \E S \in SUBSET rawIds : CacheUnmatched(S)
  \/ \E n \in 0..Len(restartFile) : Restart(n)
  \/ Terminated

IfaceSpec == Init /\ [][IfaceNext]_ifaceVars

(* The caller synchronizes again and again, a synchronization that may     *)
(* return does, and the scheduler reports every job in the end (what       *)
(* LocalScheduler!AllDelivered shows for the local one).                   *)
IfaceFairness ==
  /\ WF_ifaceVars(SynchronizeStart \/ NowaitStart)
  /\ WF_ifaceVars(SynchronizeReturn)
  /\ WF_ifaceVars(NowaitReturn \/ NowaitUndefined)
  /\ \A id \in Evals : SF_ifaceVars(CompleteJob(id))

FairIfaceSpec == IfaceSpec /\ IfaceFairness

-----------------------------------------------------------------------------
(* Every variable keeps its type. *)
IfaceTypeOK ==
  /\ evalIdCntr \in 0..MaxEvals
  /\ vars \in [Evals -> Points \cup {NoPoint}]
  /\ set \in [Evals -> SUBSET Data]
  /\ resp \in [Evals -> [at : Points \cup {NoPoint}, data : SUBSET Data,
                          alg : Nat]]
  /\ coreQueue \in SUBSET Evals
  /\ algQueue \in SUBSET Evals
  /\ dupIds \in SUBSET Evals
  /\ dupOf \in [Evals -> 0..MaxEvals]
  /\ histIds \in SUBSET Evals
  /\ cachedIds \in SUBSET Evals
  /\ rawIds \in SUBSET Evals
  /\ dataPairs \in SUBSET [id : (-MaxEvals..MaxEvals) \ {0}, at : Points,
                           data : SUBSET Data, own : BOOLEAN]
  /\ restartFile \in Seq([id : Int, at : Points, data : SUBSET Data])
  /\ pc \in {"idle", "synch", "nowait", "undefined"}
  /\ restarts \in 0..MaxRestarts
  /\ consumed \in SUBSET Evals
  /\ executed \in SUBSET (Points \X SUBSET Data)
  /\ loaded \in SUBSET [id : Int, at : Points, data : SUBSET Data,
                        own : BOOLEAN]
  /\ config \in Configurations

(* Where an evaluation can be: with the caller, in one of the maps on its  *)
(* way there, or in a queue.                                               *)
Places ==
  <<consumed, rawIds, cachedIds, histIds, dupIds, coreQueue \ rawIds,
    IF CoreMappings THEN {} ELSE algQueue>>

(* No evaluation is lost or returned twice: each id that map() has handed  *)
(* out is in exactly one place, whatever interleaving of blocking and      *)
(* nonblocking synchronization, duplicates and cached responses.           *)
NothingLost ==
  /\ UNION {Places[i] : i \in DOMAIN Places} = 1..evalIdCntr
  /\ \A i, j \in DOMAIN Places : i # j => Places[i] \cap Places[j] = {}

(* The iterator stored in beforeSynchDuplicateMap refers to a job that is  *)
(* still in the queue, with the same variables and all the data asked for. *)
DuplicatesAnchored ==
  \A id \in dupIds :
    /\ dupOf[id] \in coreQueue
    /\ vars[dupOf[id]] = vars[id]
    /\ set[id] \subseteq JobSet(set[dupOf[id]])

(* The responses the caller has, or is about to see. *)
Returned == consumed \cup (IF pc = "idle" THEN rawIds \cup cachedIds ELSE {})

(* A response that is returned was simulated at the variables it was asked *)
(* for (within the tolerance, if duplicates are detected by tolerance, and *)
(* however often entries were promoted), and has the data asked for.       *)
ResponseMatches ==
  \A id \in Returned :
    /\ set[id] \subseteq resp[id].data
    /\ IF NearbyDetect THEN vars[id] \in Near[resp[id].at]
                       ELSE vars[id] = resp[id].at

(* The algebraic response is added to each returned response, and once. *)
AlgebraicOnce == \A id \in Returned : resp[id].alg = Algebraic

(* Ids of the current run are unique in data_pairs, as lookup_by_ids()     *)
(* needs, also after restarted records were promoted to such ids.          *)
CurrentIdsUnique ==
  \A d, e \in dataPairs : d.id = e.id /\ d.id > 0 => d = e

(* With the cache on, no job waits in the queue for data that a job queued *)
(* before it will produce.                                                 *)
NoRedundantJob ==
  EvalCacheFlag =>
    \A a, b \in coreQueue :
      a < b /\ vars[a] = vars[b] => ~(set[b] \subseteq JobSet(set[a]))

(* A restarted run repeats no simulation whose result it was given. *)
RestartAvoidsWork ==
  EvalCacheFlag =>
    \A x \in executed : \A d \in loaded : ~(x[1] = d.at /\ x[2] \subseteq d.data)

(* A simulation result is on disk before the caller sees it, so a crash    *)
(* never costs one that was used.                                          *)
ReturnedIsLogged ==
  RestartFileFlag /\ CoreMappings =>
    \A id \in Returned :
      \E i \in DOMAIN restartFile : /\ restartFile[i].at = resp[id].at
                                   /\ set[id] \subseteq restartFile[i].data

(* A response put back with cache_unmatched_responses() can be had from    *)
(* the next synchronization: the lookup of its algebraic job never fails.  *)
CachedResponsesServed == pc # "undefined"

(* Every evaluation that was mapped is returned in the end, unless the run *)
(* is restarted or leaves the defined behaviour.                           *)
AllReturned ==
  \A id \in Evals : id <= evalIdCntr ~>
    id \in consumed \cup rawIds \/ id > evalIdCntr \/ pc = "undefined"
=============================================================================
