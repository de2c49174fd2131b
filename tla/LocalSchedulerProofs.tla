------------------------ MODULE LocalSchedulerProofs ------------------------
(***************************************************************************)
(* Proofs about LocalScheduler for every number of evaluations, every      *)
(* concurrency limit and every number of servers.                          *)
(***************************************************************************)
EXTENDS LocalScheduler, FiniteSetTheorems, WellFoundedInduction, TLAPS

-----------------------------------------------------------------------------
(* Facts about the walks of a queue. *)

(* A set of evaluation ids is finite, and so is its number of elements. *)
LEMMA EvalsFinite ==
  ASSUME NEW S \in SUBSET Evals
  PROVE  IsFiniteSet(S) /\ Cardinality(S) \in Nat
<1>1. IsFiniteSet(Evals)
  BY FS_Interval, ConstantsAssumption DEF Evals
<1>2. QED
  BY <1>1, FS_Subset, FS_CardinalityType

(* FirstOf(), which models the loops that stop at a count, takes at most   *)
(* that many ids from the queue.                                           *)
LEMMA FirstOfBounded ==
  ASSUME NEW S \in SUBSET Evals, NEW k \in Nat
  PROVE  /\ FirstOf(S, k) \in SUBSET S
         /\ Cardinality(FirstOf(S, k)) <= k
<1> DEFINE below(x) == {y \in S : y < x}
           f == [x \in FirstOf(S, k) |-> Cardinality(below(x))]
<1>1. \A x \in S : below(x) \in SUBSET Evals /\ Cardinality(below(x)) \in Nat
  BY EvalsFinite
<1>2. f \in [FirstOf(S, k) -> 0..(k-1)]
  BY <1>1 DEF FirstOf
<1>3. ASSUME NEW x \in S, NEW y \in S, x < y
      PROVE  Cardinality(below(x)) < Cardinality(below(y))
  <2>1. \A z \in S : z \in Int
    BY DEF Evals
  <2>2. ASSUME NEW z \in below(x) PROVE z \in below(y)
    BY <1>3, <2>1
  <2>3. below(x) \in SUBSET below(y) /\ x \in below(y) /\ x \notin below(x)
    BY <1>3, <2>1, <2>2
  <2>4. IsFiniteSet(below(y)) /\ Cardinality(below(y)) \in Nat
    BY EvalsFinite, <1>1
  <2>5. Cardinality(below(x)) # Cardinality(below(y))
    BY <2>3, <2>4, FS_Subset
  <2>6. QED
    BY <2>3, <2>4, <2>5, <1>1, FS_Subset
<1>4. ASSUME NEW x \in FirstOf(S, k), NEW y \in FirstOf(S, k), f[x] = f[y]
      PROVE  x = y
  <2>1. x \in S /\ y \in S /\ x \in Int /\ y \in Int
    BY DEF FirstOf, Evals
  <2>2. Cardinality(below(x)) = Cardinality(below(y))
    BY <1>4
  <2>3. QED
    BY <2>1, <2>2, <1>1, <1>3
<1>5. f \in Injection(FirstOf(S, k), 0..(k-1))
  BY <1>2, <1>4 DEF Injection, IsInjective
<1>6. IsFiniteSet(0..(k-1)) /\ Cardinality(0..(k-1)) = k
  BY FS_Interval
<1>7. QED
  BY <1>5, <1>6, FS_Injection DEF FirstOf

(* server_index is an index into localServerAssigned. *)
LEMMA ServerIndexType ==
  ASSUME StaticLimited, NEW x \in Evals
  PROVE  ServerIndex(x) \in 0..(StaticServers - 1)
<1>1. StaticServers \in Nat /\ StaticServers > 0
  BY ConstantsAssumption DEF StaticServers, StaticLimited
<1>2. QED
  BY <1>1 DEF ServerIndex, Evals

(* OnePerServer(), the launch test of static scheduling, takes only jobs   *)
(* whose server is free, and one for each server.                          *)
LEMMA OnePerServerPlacement ==
  ASSUME NEW S \in SUBSET Evals, NEW busy
  PROVE  /\ OnePerServer(S, busy) \in SUBSET S
         /\ \A x \in OnePerServer(S, busy) : ServerIndex(x) \notin busy
         /\ \A x, y \in OnePerServer(S, busy) :
              ServerIndex(x) = ServerIndex(y) => x = y
<1>1. \A x \in S : x \in Int
  BY DEF Evals
<1>2. QED
  BY <1>1 DEF OnePerServer

(* The jobs in A hold exactly the servers in busy, one server each. *)
Placed(A, busy) ==
  /\ busy = {ServerIndex(id) : id \in A}
  /\ \A x, y \in A : ServerIndex(x) = ServerIndex(y) => x = y

(* The jobs in L are to be launched on servers of their own that are free. *)
FreelyPlaced(L, busy) ==
  /\ \A x \in L : ServerIndex(x) \notin busy
  /\ \A x, y \in L : ServerIndex(x) = ServerIndex(y) => x = y

(* When jobs A hold the servers in busy, C of them complete and free       *)
(* theirs, and L are launched on servers that are free then, each server   *)
(* in use is again held by one job.                                        *)
LEMMA PlacementPreserved ==
  ASSUME StaticLimited,
         NEW A, NEW busy, NEW C \in SUBSET A, NEW L,
         Placed(A, busy), FreelyPlaced(L, FreeServers(busy, C))
  PROVE  Placed((A \ C) \cup L, FreeServers(busy, C) \cup Servers(L))
<1> USE DEF Placed, FreelyPlaced
<1>1. FreeServers(busy, C) = {ServerIndex(id) : id \in A \ C}
  BY DEF FreeServers, Servers
<1>2. Servers(L) = {ServerIndex(id) : id \in L}
  BY DEF Servers
<1>3. QED
  BY <1>1, <1>2

-----------------------------------------------------------------------------
(* The inductive invariant.  The stated invariants need the bookkeeping    *)
(* between the queue, the active jobs and the returned ones:               *)
(*   - what was returned has left the queue, or is about to (in "wait");   *)
(*   - the iterator of the blocking scheduler has passed every job that it *)
(*     launched, so that resuming there launches none of them again.       *)
Bookkeeping ==
  /\ raw \in SUBSET (1..evalIdCntr)
  /\ delivered \in SUBSET (1..evalIdCntr)
  /\ delivered \cap coreQueue = {}
  /\ pc = "wait" => raw \subseteq coreQueue /\ raw \cap active = {}
  /\ pc # "wait" => raw \cap coreQueue = {} /\ raw \subseteq delivered
  /\ pc = "wait" /\ ~StaticLimited => active \cup raw \subseteq passed

IInv ==
  /\ TypeOK
  /\ Bookkeeping
  /\ ConcurrencyRespected
  /\ StaticPlacement
  /\ LaunchedOnce

-----------------------------------------------------------------------------
(* What each launching loop takes from the queue. *)

(* In a typed state every set of ids is a set of evaluations. *)
LEMMA Ids ==
  ASSUME TypeOK
  PROVE  /\ coreQueue \in SUBSET Evals
         /\ active \in SUBSET Evals
         /\ \A S \in SUBSET coreQueue : S \in SUBSET Evals
BY ConstantsAssumption DEF TypeOK, Evals

(* The first pass of the blocking scheduler. *)
LEMMA FirstPassLaunches ==
  ASSUME TypeOK
  PROVE  /\ FirstPass \in SUBSET coreQueue
         /\ Concurrency > 0 => Cardinality(FirstPass) <= Concurrency
         /\ StaticLimited =>
              \A x, y \in FirstPass : ServerIndex(x) = ServerIndex(y) => x = y
<1>1. coreQueue \in SUBSET Evals
  BY Ids
<1>2. OnePerServer(coreQueue, {}) \in SUBSET coreQueue
  BY <1>1, OnePerServerPlacement
<1>3. CASE StaticLimited
  <2>1. FirstPass = FirstOf(OnePerServer(coreQueue, {}), Concurrency)
    BY <1>3 DEF FirstPass
  <2>2. /\ FirstPass \in SUBSET OnePerServer(coreQueue, {})
        /\ Cardinality(FirstPass) <= Concurrency
    BY <2>1, <1>1, <1>2, FirstOfBounded, ConstantsAssumption
  <2>3. QED
    BY <2>2, <1>1, <1>2, OnePerServerPlacement
<1>4. CASE ~StaticLimited /\ Concurrency > 0
  BY <1>4, <1>1, FirstOfBounded, ConstantsAssumption DEF FirstPass
<1>5. CASE ~StaticLimited /\ ~(Concurrency > 0)
  BY <1>5 DEF FirstPass
<1>6. QED
  BY <1>3, <1>4, <1>5

(* Removing completed jobs makes room for as many. *)
LEMMA Room ==
  ASSUME NEW A \in SUBSET Evals, NEW C \in SUBSET A
  PROVE  /\ Cardinality(A) \in Nat
         /\ Cardinality(C) \in Nat
         /\ Cardinality(A \ C) \in Nat
         /\ Cardinality(A \ C) = Cardinality(A) - Cardinality(C)
         /\ C # {} => Cardinality(C) > 0
<1>1. IsFiniteSet(C) /\ IsFiniteSet(A \ C) /\ Cardinality(A) \in Nat
      /\ Cardinality(C) \in Nat /\ Cardinality(A \ C) \in Nat
  BY EvalsFinite
<1>2. A = (A \ C) \cup C /\ (A \ C) \cap C = {}
  OBVIOUS
<1>3. Cardinality(A) = Cardinality(A \ C) + Cardinality(C) - Cardinality((A \ C) \cap C)
  BY <1>1, <1>2, FS_Union
<1>4. Cardinality((A \ C) \cap C) = 0
  BY <1>2, FS_EmptySet
<1>5. C # {} => Cardinality(C) # 0
  BY <1>1, FS_EmptySet
<1>6. QED
  BY <1>1, <1>3, <1>4, <1>5

(* Launching L next to the jobs that still run fills no more than the room *)
(* there is.                                                               *)
LEMMA Filled ==
  ASSUME NEW A \in SUBSET Evals, NEW L \in SUBSET Evals,
         NEW k \in Int, Cardinality(L) <= k - Cardinality(A)
  PROVE  Cardinality(A \cup L) <= k
<1>1. IsFiniteSet(A) /\ IsFiniteSet(L) /\ Cardinality(A) \in Nat
      /\ Cardinality(L) \in Nat /\ Cardinality(A \cap L) \in Nat
  BY EvalsFinite
<1>2. QED
  BY <1>1, FS_Union

(* The backfill of the blocking scheduler: pending jobs only, no more than *)
(* have completed, and under static scheduling on free servers only.       *)
LEMMA BackfillLaunches ==
  ASSUME IInv, pc = "wait", NEW C \in SUBSET active
  PROVE  /\ Backfill(C) \in SUBSET coreQueue
         /\ Backfill(C) \cap active = {}
         /\ Backfill(C) \cap raw = {}
         /\ Concurrency > 0 =>
              Cardinality(Backfill(C)) <= Concurrency - Cardinality(active \ C)
         /\ StaticLimited =>
              FreelyPlaced(Backfill(C), FreeServers(localServerAssigned, C))
<1>1. coreQueue \in SUBSET Evals /\ active \in SUBSET Evals
  BY Ids DEF IInv
<1>2. /\ Cardinality(active) \in Nat
      /\ Cardinality(C) \in Nat
      /\ Cardinality(active \ C) \in Nat
      /\ Cardinality(active \ C) = Cardinality(active) - Cardinality(C)
  BY <1>1, Room
<1>3. Concurrency > 0 => Concurrency - Cardinality(active \ C) \in Nat
  BY <1>2, ConstantsAssumption DEF IInv, ConcurrencyRespected
<1>4. CASE StaticLimited
  <2> DEFINE pending == {id \in coreQueue : id \notin (active \ C)
                                            /\ id \notin (raw \cup C)}
             free == FreeServers(localServerAssigned, C)
             room == Concurrency - Cardinality(active \ C)
  <2>1. pending \in SUBSET Evals
    BY <1>1
  <2>2. /\ OnePerServer(pending, free) \in SUBSET pending
        /\ \A x \in OnePerServer(pending, free) : ServerIndex(x) \notin free
        /\ \A x, y \in OnePerServer(pending, free) :
             ServerIndex(x) = ServerIndex(y) => x = y
    BY <2>1, OnePerServerPlacement
  <2>3. Backfill(C) = FirstOf(OnePerServer(pending, free), room)
    BY <1>4 DEF Backfill
  <2>4. room \in Nat
    BY <1>3, <1>4, ConstantsAssumption DEF StaticLimited
  <2>5. OnePerServer(pending, free) \in SUBSET Evals
    BY <2>1, <2>2
  <2>6. /\ Backfill(C) \in SUBSET OnePerServer(pending, free)
        /\ Cardinality(Backfill(C)) <= room
    <3> HIDE DEF pending, free, room
    <3>1. QED
      BY <2>3, <2>4, <2>5, FirstOfBounded
  <2>7. QED
    BY <2>2, <2>6, <1>1 DEF FreelyPlaced
<1>5. CASE ~StaticLimited
  <2>1. active \cup raw \subseteq passed
    BY <1>5 DEF IInv, Bookkeeping
  <2>2. Backfill(C) = FirstOf(coreQueue \ passed, Cardinality(C))
    BY <1>5 DEF Backfill
  <2>3. /\ Backfill(C) \in SUBSET (coreQueue \ passed)
        /\ Cardinality(Backfill(C)) <= Cardinality(C)
    BY <2>2, <1>1, <1>2, FirstOfBounded
  <2>4. Cardinality(Backfill(C)) \in Nat
    BY <2>3, <1>1, EvalsFinite
  <2>5. Concurrency > 0 =>
          Cardinality(Backfill(C)) <= Concurrency - Cardinality(active \ C)
    BY <2>3, <2>4, <1>2, ConstantsAssumption DEF IInv, ConcurrencyRespected
  <2>6. QED
    BY <2>1, <2>3, <2>5, <1>5
<1>6. QED
  BY <1>4, <1>5

(* Step 1 of the nowait scheduler. *)
LEMMA AugmentLaunches ==
  ASSUME IInv
  PROVE  /\ Augment \in SUBSET (coreQueue \ active)
         /\ Concurrency > 0 =>
              Cardinality(Augment) <= Concurrency - Cardinality(active)
         /\ StaticLimited => FreelyPlaced(Augment, localServerAssigned)
<1> DEFINE pending == coreQueue \ active
           room == Concurrency - Cardinality(active)
           candidates == IF StaticLimited
                           THEN OnePerServer(pending, localServerAssigned)
                           ELSE pending
<1>1. coreQueue \in SUBSET Evals /\ active \in SUBSET Evals /\ pending \in SUBSET Evals
  BY Ids DEF IInv
<1>2. Cardinality(active) \in Nat
  BY <1>1, EvalsFinite
<1>3. Concurrency > 0 => room \in Nat
  BY <1>2, ConstantsAssumption DEF IInv, ConcurrencyRespected
<1>4. /\ OnePerServer(pending, localServerAssigned) \in SUBSET pending
      /\ \A x \in OnePerServer(pending, localServerAssigned) :
           ServerIndex(x) \notin localServerAssigned
      /\ \A x, y \in OnePerServer(pending, localServerAssigned) :
           ServerIndex(x) = ServerIndex(y) => x = y
  BY <1>1, OnePerServerPlacement
<1>5. candidates \in SUBSET pending
  BY <1>4
<1>6. Concurrency > 0 =>
        /\ FirstOf(candidates, room) \in SUBSET candidates
        /\ Cardinality(FirstOf(candidates, room)) <= room
  <2>1. candidates \in SUBSET Evals
    BY <1>1, <1>5
  <2> HIDE DEF candidates, room
  <2>2. QED
    BY <2>1, <1>3, FirstOfBounded
<1>7. Cardinality({}) = 0
  BY FS_EmptySet
<1>8. CASE Augment = {}
  BY <1>8, <1>7, <1>3, ConstantsAssumption DEF FreelyPlaced
<1>9. CASE Augment # {}
  <2>1. Augment = Throttled(candidates, room)
    BY <1>9 DEF Augment
  <2>2. Augment \in SUBSET candidates /\ (Concurrency > 0 => Cardinality(Augment) <= room)
    BY <2>1, <1>6 DEF Throttled
  <2>3. QED
    BY <2>2, <1>4, <1>5 DEF FreelyPlaced
<1>10. QED
  BY <1>8, <1>9

(* test_local_backfill() for the jobs A that run after step 1. *)
LEMMA TestLocalBackfillLaunches ==
  ASSUME NEW A, A \in SUBSET coreQueue, coreQueue \in SUBSET Evals,
         Concurrency > 0 => Cardinality(A) <= Concurrency,
         NEW busy, NEW C \in SUBSET A
  PROVE  LET L == TestLocalBackfill(A, busy, C)
         IN  /\ L \in SUBSET coreQueue
             /\ L \cap A = {}
             /\ Concurrency > 0 => Cardinality(L) <= Concurrency - Cardinality(A \ C)
             /\ StaticLimited => FreelyPlaced(L, FreeServers(busy, C))
<1> DEFINE L == TestLocalBackfill(A, busy, C)
           pending == {id \in coreQueue : /\ StaticLimited \/ id \notin AugmentPassed
                                          /\ id \notin A \ C
                                          /\ id \notin C}
           free == FreeServers(busy, C)
           room == Concurrency - Cardinality(A \ C)
           candidates == IF StaticLimited THEN OnePerServer(pending, free)
                                          ELSE pending
<1>1. /\ Cardinality(A) \in Nat
      /\ Cardinality(A \ C) \in Nat
      /\ Cardinality(A \ C) = Cardinality(A) - Cardinality(C)
      /\ Cardinality(C) \in Nat
      /\ C # {} => Cardinality(C) > 0
  BY Room
<1>2. Concurrency > 0 => room \in Nat
  BY <1>1, ConstantsAssumption
<1>3. Concurrency > 0 /\ C # {} => room >= 1
  BY <1>1, ConstantsAssumption
<1>4. pending \in SUBSET Evals /\ pending \in SUBSET coreQueue /\ pending \cap A = {}
  OBVIOUS
<1>5. /\ OnePerServer(pending, free) \in SUBSET pending
      /\ \A x \in OnePerServer(pending, free) : ServerIndex(x) \notin free
      /\ \A x, y \in OnePerServer(pending, free) :
           ServerIndex(x) = ServerIndex(y) => x = y
  <2> HIDE DEF pending, free
  <2>1. QED
    BY <1>4, OnePerServerPlacement
<1>6. CASE C = {}
  <2>1. L = {}
    BY <1>6 DEF TestLocalBackfill
  <2>2. Cardinality(L) = 0
    BY <2>1, FS_EmptySet
  <2>3. QED
    BY <2>1, <2>2, <1>2 DEF FreelyPlaced
<1>7. CASE C # {}
  <2>1. L = Throttled(candidates, IF room > 1 THEN room ELSE 1)
    BY <1>7 DEF TestLocalBackfill
  <2>2. Concurrency > 0 => L = FirstOf(candidates, room)
    BY <2>1, <1>2, <1>3, <1>7 DEF Throttled
  <2>3. ~(Concurrency > 0) => L = candidates
    BY <2>1 DEF Throttled
  <2>4. candidates \in SUBSET pending /\ candidates \in SUBSET Evals
    BY <1>4, <1>5
  <2>5. L \in SUBSET candidates /\ (Concurrency > 0 => Cardinality(L) <= room)
    <3> HIDE DEF L, candidates, room
    <3>1. QED
      BY <2>2, <2>3, <2>4, <1>2, FirstOfBounded
  <2>6. QED
    <3> HIDE DEF L, pending, free, room
    <3>1. L \in SUBSET coreQueue /\ L \cap A = {}
      BY <2>4, <2>5, <1>4
    <3>2. StaticLimited => L \in SUBSET OnePerServer(pending, free)
      BY <2>5
    <3>3. QED
      BY <3>1, <3>2, <2>5, <1>5 DEF L, free, room, FreelyPlaced
<1>8. QED
  BY <1>6, <1>7

-----------------------------------------------------------------------------
(* Each step preserves the invariant. *)

(* A launch counts once for each job launched. *)
LEMMA CountLaunchesAt ==
  ASSUME NEW counts \in [Evals -> Nat], NEW L
  PROVE  /\ CountLaunches(counts, L) \in [Evals -> Nat]
         /\ \A id \in Evals : CountLaunches(counts, L)[id] =
              IF id \in L THEN counts[id] + 1 ELSE counts[id]
BY DEF CountLaunches

(* Only server indices are ever marked in localServerAssigned. *)
LEMMA ServersType ==
  ASSUME NEW L \in SUBSET Evals
  PROVE  Servers(L) \in SUBSET (0..(StaticServers - 1))
BY ServerIndexType DEF Servers

(* A scheduler that has been given no job satisfies the invariant. *)
LEMMA InitIInv == Init => IInv
<1>1. Cardinality({}) = 0
  BY FS_EmptySet
<1>2. QED
  BY <1>1, ConstantsAssumption
     DEF Init, IInv, TypeOK, Bookkeeping, ConcurrencyRespected,
         StaticPlacement, LaunchedOnce, Evals

(* map() appends a job that is in no other set yet. *)
LEMMA MapAsynchIInv ==
  ASSUME IInv, MapAsynch
  PROVE  IInv'
<1> USE DEF MapAsynch
<1>1. /\ evalIdCntr' \in 0..MaxEvals
      /\ evalIdCntr + 1 \in Evals
      /\ 1..evalIdCntr \subseteq 1..evalIdCntr'
      /\ evalIdCntr + 1 \notin 1..evalIdCntr
      /\ evalIdCntr + 1 \in 1..evalIdCntr'
  BY ConstantsAssumption DEF IInv, TypeOK, Evals
<1>2. TypeOK'
  BY <1>1 DEF IInv, TypeOK
<1>3. Bookkeeping'
  BY <1>1 DEF IInv, TypeOK, Bookkeeping
<1>4. ConcurrencyRespected' /\ StaticPlacement'
  BY DEF IInv, ConcurrencyRespected, StaticPlacement
<1>5. LaunchedOnce'
  BY <1>1 DEF IInv, TypeOK, Bookkeeping, LaunchedOnce
<1>6. QED
  BY <1>2, <1>3, <1>4, <1>5 DEF IInv

(* The end of a simulation is not seen by the scheduler until it looks. *)
LEMMA SimulationEndsIInv ==
  ASSUME IInv, NEW id, SimulationEnds(id)
  PROVE  IInv'
BY DEF SimulationEnds, IInv, TypeOK, Bookkeeping, ConcurrencyRespected,
       StaticPlacement, LaunchedOnce

(* The first pass launches waiting jobs, as many as the limits allow. *)
LEMMA SynchronizeStartIInv ==
  ASSUME IInv, SynchronizeStart
  PROVE  IInv'
<1> USE DEF SynchronizeStart
<1>1. /\ FirstPass \in SUBSET coreQueue
      /\ Concurrency > 0 => Cardinality(FirstPass) <= Concurrency
      /\ StaticLimited =>
           \A x, y \in FirstPass : ServerIndex(x) = ServerIndex(y) => x = y
  BY FirstPassLaunches DEF IInv
<1>2. FirstPass \in SUBSET Evals
  BY <1>1, Ids DEF IInv
<1>3. /\ launches' \in [Evals -> Nat]
      /\ \A id \in Evals : launches'[id] =
           IF id \in FirstPass THEN launches[id] + 1 ELSE launches[id]
  BY CountLaunchesAt DEF IInv, TypeOK
<1>4. FirstPass \in SUBSET passed' /\ passed' \in SUBSET Evals
  BY <1>2 DEF PassedBy, Evals
<1>5. TypeOK'
  BY <1>1, <1>2, <1>3, <1>4, ServersType DEF IInv, TypeOK
<1>6. Bookkeeping'
  BY <1>1, <1>4 DEF IInv, Bookkeeping, TypeOK
<1>7. ConcurrencyRespected'
  BY <1>1 DEF ConcurrencyRespected
<1>8. StaticPlacement'
  BY <1>1 DEF StaticPlacement, Servers
<1>9. LaunchedOnce'
  BY <1>1, <1>2, <1>3 DEF IInv, LaunchedOnce, Bookkeeping, TypeOK
<1>10. QED
  BY <1>5, <1>6, <1>7, <1>8, <1>9 DEF IInv

(* The abort leaves the bookkeeping as it is. *)
LEMMA SynchronizeAbortsIInv ==
  ASSUME IInv, SynchronizeAborts
  PROVE  IInv'
BY DEF SynchronizeAborts, IInv, TypeOK, Bookkeeping, ConcurrencyRespected,
       StaticPlacement, LaunchedOnce

(* Completed jobs leave active and free their servers; the backfill takes *)
(* pending jobs only, no more than have completed.                        *)
LEMMA WaitAndBackfillIInv ==
  ASSUME IInv, NEW C \in SUBSET active, WaitAndBackfill(C)
  PROVE  IInv'
<1> DEFINE L == Backfill(C)
<1>1. /\ L \in SUBSET coreQueue
      /\ L \cap active = {}
      /\ L \cap raw = {}
      /\ Concurrency > 0 => Cardinality(L) <= Concurrency - Cardinality(active \ C)
      /\ StaticLimited => FreelyPlaced(L, FreeServers(localServerAssigned, C))
  BY BackfillLaunches DEF WaitAndBackfill
<1>2. /\ active' = (active \ C) \cup L
      /\ finished' = finished \ C
      /\ raw' = raw \cup C
      /\ localServerAssigned' = FreeServers(localServerAssigned, C) \cup Servers(L)
      /\ launches' = CountLaunches(launches, L)
      /\ passed' = passed \cup PassedBy(L)
      /\ pc = "wait"
      /\ UNCHANGED <<evalIdCntr, coreQueue, pc, delivered>>
  BY DEF WaitAndBackfill
<1> HIDE DEF L
<1>3. /\ active \in SUBSET Evals /\ coreQueue \in SUBSET Evals
      /\ L \in SUBSET Evals /\ active \ C \in SUBSET Evals
  BY <1>1, Ids DEF IInv
<1>4. /\ launches' \in [Evals -> Nat]
      /\ \A id \in Evals : launches'[id] =
           IF id \in L THEN launches[id] + 1 ELSE launches[id]
  BY <1>2, CountLaunchesAt DEF IInv, TypeOK
<1>5. L \in SUBSET passed' /\ passed' \in SUBSET Evals /\ passed \in SUBSET passed'
  <2>1. L \in SUBSET PassedBy(L) /\ PassedBy(L) \in SUBSET Evals
    BY <1>3 DEF PassedBy, Evals
  <2>2. QED
    BY <2>1, <1>2 DEF IInv, TypeOK
<1>6. TypeOK'
  <2>1. localServerAssigned' \in SUBSET (0..(StaticServers - 1))
    BY <1>2, <1>3, ServersType DEF FreeServers, IInv, TypeOK
  <2>2. QED
    BY <1>1, <1>2, <1>3, <1>4, <1>5, <2>1 DEF IInv, TypeOK
<1>7. Bookkeeping'
  BY <1>1, <1>2, <1>5 DEF IInv, Bookkeeping, TypeOK
<1>8. ConcurrencyRespected'
  BY <1>1, <1>2, <1>3, Filled, ConstantsAssumption DEF ConcurrencyRespected
<1>9. StaticPlacement'
  <2>1. StaticLimited => Placed(active, localServerAssigned)
    BY DEF IInv, StaticPlacement, Placed
  <2>2. StaticLimited =>
          Placed((active \ C) \cup L,
                 FreeServers(localServerAssigned, C) \cup Servers(L))
    BY <1>1, <2>1, PlacementPreserved
  <2>3. QED
    BY <2>2, <1>2 DEF StaticPlacement, Placed
<1>10. LaunchedOnce'
  BY <1>1, <1>2, <1>3, <1>4 DEF IInv, LaunchedOnce, Bookkeeping, TypeOK
<1>11. QED
  BY <1>6, <1>7, <1>8, <1>9, <1>10 DEF IInv

(* When recv_cntr has reached the number of jobs, every job is back: none  *)
(* is active when the queue is cleared.                                    *)
LEMMA SynchronizeReturnsIInv ==
  ASSUME IInv, SynchronizeReturns
  PROVE  IInv' /\ active = {}
<1> USE DEF SynchronizeReturns
<1>1. raw \in SUBSET coreQueue /\ raw \cap active = {} /\ active \in SUBSET coreQueue
  BY DEF IInv, Bookkeeping, TypeOK
<1>2. IsFiniteSet(coreQueue) /\ Cardinality(coreQueue) \in Nat /\ Cardinality(raw) \in Nat
  BY <1>1, Ids, EvalsFinite DEF IInv
<1>3. Cardinality(raw) = Cardinality(coreQueue)
  BY <1>1, <1>2, FS_Subset
<1>4. raw = coreQueue
  BY <1>1, <1>2, <1>3, FS_Subset
<1>5. active = {}
  BY <1>1, <1>4
<1>6. TypeOK'
  BY <1>1, <1>4, <1>5, Ids DEF IInv, TypeOK
<1>7. Bookkeeping'
  BY <1>4, <1>5 DEF IInv, TypeOK, Bookkeeping
<1>8. ConcurrencyRespected' /\ StaticPlacement'
  BY DEF IInv, ConcurrencyRespected, StaticPlacement
<1>9. LaunchedOnce'
  BY <1>4, <1>5 DEF IInv, TypeOK, LaunchedOnce
<1>10. QED
  BY <1>5, <1>6, <1>7, <1>8, <1>9 DEF IInv

(* Step 1 and test_local_backfill() launch waiting jobs within the limits, *)
(* and the jobs returned leave the queue.                                  *)
LEMMA SynchronizeNowaitIInv ==
  ASSUME IInv, NEW C \in SUBSET (active \cup Augment), SynchronizeNowait(C)
  PROVE  IInv'
<1> DEFINE A    == active \cup Augment
           busy == localServerAssigned \cup Servers(Augment)
           L    == TestLocalBackfill(A, busy, C)
<1>1. /\ active' = (A \ C) \cup L
      /\ localServerAssigned' = FreeServers(busy, C) \cup Servers(L)
      /\ launches' = CountLaunches(CountLaunches(launches, Augment), L)
      /\ finished' = finished \ C
      /\ raw' = C
      /\ coreQueue' = coreQueue \ C
      /\ delivered' = delivered \cup C
      /\ pc = "idle"
      /\ UNCHANGED <<evalIdCntr, passed, pc>>
  BY DEF SynchronizeNowait
<1>2. /\ Augment \in SUBSET (coreQueue \ active)
      /\ Concurrency > 0 => Cardinality(Augment) <= Concurrency - Cardinality(active)
      /\ StaticLimited => FreelyPlaced(Augment, localServerAssigned)
  BY AugmentLaunches
<1>3. coreQueue \in SUBSET Evals /\ active \in SUBSET Evals /\ active \in SUBSET coreQueue
  BY Ids DEF IInv, TypeOK
<1>4. A \in SUBSET coreQueue /\ A \in SUBSET Evals /\ Augment \in SUBSET Evals
  BY <1>2, <1>3
<1>5. Concurrency > 0 => Cardinality(A) <= Concurrency
  BY <1>2, <1>3, <1>4, Filled, ConstantsAssumption
<1>6. StaticLimited => Placed(A, busy)
  <2>1. StaticLimited => Placed(active, localServerAssigned)
    BY DEF IInv, StaticPlacement, Placed
  <2>2. /\ FreeServers(localServerAssigned, {}) = localServerAssigned
        /\ active \ {} = active
    BY DEF FreeServers, Servers
  <2>3. StaticLimited =>
          Placed((active \ {}) \cup Augment,
                 FreeServers(localServerAssigned, {}) \cup Servers(Augment))
    BY <2>1, <2>2, <1>2, PlacementPreserved
  <2>4. QED
    BY <2>2, <2>3
<1> HIDE DEF A, busy
<1>7. C \in SUBSET A
  BY DEF A
<1>8. /\ L \in SUBSET coreQueue
      /\ L \cap A = {}
      /\ Concurrency > 0 => Cardinality(L) <= Concurrency - Cardinality(A \ C)
      /\ StaticLimited => FreelyPlaced(L, FreeServers(busy, C))
  BY <1>3, <1>4, <1>5, <1>7, TestLocalBackfillLaunches
<1> HIDE DEF L
<1>9. L \in SUBSET Evals /\ A \ C \in SUBSET Evals
  BY <1>3, <1>4, <1>8
<1>10. /\ launches' \in [Evals -> Nat]
       /\ \A id \in Evals : launches'[id] =
            IF id \in Augment \cup L THEN launches[id] + 1 ELSE launches[id]
  <2>1. /\ CountLaunches(launches, Augment) \in [Evals -> Nat]
        /\ \A id \in Evals : CountLaunches(launches, Augment)[id] =
             IF id \in Augment THEN launches[id] + 1 ELSE launches[id]
    BY CountLaunchesAt DEF IInv, TypeOK
  <2>2. /\ launches' \in [Evals -> Nat]
        /\ \A id \in Evals : launches'[id] =
             IF id \in L THEN CountLaunches(launches, Augment)[id] + 1
                         ELSE CountLaunches(launches, Augment)[id]
    BY <2>1, <1>1, CountLaunchesAt
  <2>3. L \cap Augment = {}
    BY <1>8 DEF A
  <2>4. QED
    BY <2>1, <2>2, <2>3
<1>11. TypeOK'
  <2>1. localServerAssigned' \in SUBSET (0..(StaticServers - 1))
    BY <1>1, <1>4, <1>9, ServersType DEF FreeServers, busy, IInv, TypeOK
  <2>2. active' \in SUBSET coreQueue' /\ finished' \in SUBSET active'
    BY <1>1, <1>4, <1>7, <1>8 DEF A, IInv, TypeOK
  <2>3. raw' \in SUBSET Evals /\ delivered' \in SUBSET Evals
    BY <1>1, <1>4, <1>7 DEF IInv, TypeOK
  <2>4. QED
    BY <1>1, <1>10, <2>1, <2>2, <2>3 DEF IInv, TypeOK
<1>12. Bookkeeping'
  BY <1>1, <1>4, <1>7 DEF IInv, Bookkeeping, TypeOK
<1>13. ConcurrencyRespected'
  BY <1>1, <1>8, <1>9, Filled, ConstantsAssumption DEF ConcurrencyRespected
<1>14. StaticPlacement'
  <2>1. StaticLimited =>
          Placed((A \ C) \cup L, FreeServers(busy, C) \cup Servers(L))
    BY <1>6, <1>7, <1>8, PlacementPreserved
  <2>2. QED
    BY <2>1, <1>1 DEF StaticPlacement, Placed
<1>15. LaunchedOnce'
  <2>1. SUFFICES ASSUME NEW id \in Evals
                 PROVE  launches'[id] =
                          IF id \in active' \cup delivered' \cup (raw' \cap coreQueue')
                            THEN 1 ELSE 0
    BY DEF LaunchedOnce
  <2>2. launches[id] = IF id \in active \cup delivered THEN 1 ELSE 0
    BY <1>1 DEF IInv, LaunchedOnce, Bookkeeping
  <2>3. id \in Augment \cup L => id \notin active \cup delivered
    BY <1>2, <1>8 DEF A, IInv, Bookkeeping
  <2>4. id \in active' \cup delivered' \cup (raw' \cap coreQueue')
          <=> id \in active \cup delivered \cup Augment \cup L
    BY <1>1, <1>7 DEF A
  <2>5. QED
    BY <2>2, <2>3, <2>4, <1>10
<1>16. QED
  BY <1>11, <1>12, <1>13, <1>14, <1>15 DEF IInv

(* Every step of the scheduler preserves the invariant. *)
LEMMA NextIInv ==
  ASSUME IInv, [Next]_vars
  PROVE  IInv'
<1>1. CASE MapAsynch
  BY <1>1, MapAsynchIInv
<1>2. CASE \E id \in active : SimulationEnds(id)
  BY <1>2, SimulationEndsIInv
<1>3. CASE SynchronizeStart
  BY <1>3, SynchronizeStartIInv
<1>4. CASE SynchronizeAborts
  BY <1>4, SynchronizeAbortsIInv
<1>5. CASE \E C \in Completions(active) : WaitAndBackfill(C)
  BY <1>5, WaitAndBackfillIInv DEF Completions
<1>6. CASE SynchronizeReturns
  BY <1>6, SynchronizeReturnsIInv
<1>7. CASE \E C \in Completions(active \cup Augment) : SynchronizeNowait(C)
  BY <1>7, SynchronizeNowaitIInv DEF Completions
<1>8. CASE UNCHANGED vars
  BY <1>8 DEF vars, IInv, TypeOK, Bookkeeping, ConcurrencyRespected,
              StaticPlacement, LaunchedOnce
<1>9. CASE Terminated
  BY <1>8, <1>9 DEF Terminated
<1>10. QED
  BY <1>1, <1>2, <1>3, <1>4, <1>5, <1>6, <1>7, <1>8, <1>9 DEF Next

-----------------------------------------------------------------------------
(* The inductive invariant holds in every reachable state. *)
LEMMA AlwaysIInv == Spec => []IInv
<1>1. QED
  BY InitIInv, NextIInv, PTL DEF Spec

(* For every number of evaluations, every concurrency limit and either     *)
(* kind of scheduling, all variables of asynchronous_local_evaluations()   *)
(* and its nowait counterpart keep their types: in particular an active    *)
(* job is in the queue, and localServerAssigned is indexed in its range.   *)
THEOREM TypeCorrect == Spec => []TypeOK
<1>1. IInv => TypeOK
  BY DEF IInv
<1>2. QED
  BY <1>1, AlwaysIInv, PTL

(* asynchLocalEvalConcurrency is never exceeded. *)
THEOREM ConcurrencyLimit == Spec => []ConcurrencyRespected
<1>1. IInv => ConcurrencyRespected
  BY DEF IInv
<1>2. QED
  BY <1>1, AlwaysIInv, PTL

(* Under static scheduling two active jobs never share a local server, and *)
(* localServerAssigned marks exactly the servers in use.                   *)
THEOREM StaticScheduling == Spec => []StaticPlacement
<1>1. IInv => StaticPlacement
  BY DEF IInv
<1>2. QED
  BY <1>1, AlwaysIInv, PTL

(* No evaluation is simulated twice, and none is returned that was not     *)
(* simulated.                                                              *)
THEOREM ExactlyOnce == Spec => []LaunchedOnce
<1>1. IInv => LaunchedOnce
  BY DEF IInv
<1>2. QED
  BY <1>1, AlwaysIInv, PTL

-----------------------------------------------------------------------------
(* The scheduler implements EvalScheduler: the mapped state of each step.  *)

Waiting == coreQueue \ (active \cup raw)
Completed == delivered \cup (raw \cap coreQueue)

(* A step that launches L and completes C is a Schedule step. *)
LEMMA ScheduleStep ==
  ASSUME NEW C, NEW L,
         L \in SUBSET Waiting,
         C \in SUBSET (active \cup L),
         active \cap Completed = {}, Waiting \cap Completed = {},
         Waiting' = Waiting \ L,
         active' = (active \cup L) \ C,
         Completed' = Completed \cup C,
         ConcurrencyRespected'
  PROVE  Contract!Schedule
<1>1. Waiting \ Waiting' = L
  OBVIOUS
<1>2. active' = (active \cup (Waiting \ Waiting')) \ Completed'
  BY <1>1
<1>3. /\ Waiting' \subseteq Waiting
      /\ Completed \subseteq Completed'
      /\ Completed' \subseteq Completed \cup active \cup (Waiting \ Waiting')
  BY <1>1
<1>4. Concurrency > 0 => Contract!Cardinality(active') <= Concurrency
  <2>1. Contract!Cardinality(active') = Cardinality(active')
    BY DEF Contract!Cardinality, Cardinality
  <2>2. QED
    BY <2>1 DEF ConcurrencyRespected
<1>5. QED
  BY <1>2, <1>3, <1>4 DEF Contract!Schedule, Waiting, Completed

(* A step that leaves the mapped state alone. *)
LEMMA StutterStep ==
  ASSUME Waiting' = Waiting, active' = active, Completed' = Completed
  PROVE  UNCHANGED Contract!schedVars
BY DEF Contract!schedVars, Waiting, Completed

(* What the invariant says of the mapped state. *)
LEMMA MappedState ==
  ASSUME IInv
  PROVE  /\ active \cap Completed = {}
         /\ Waiting \cap Completed = {}
         /\ pc # "wait" => Waiting = coreQueue \ active /\ Completed = delivered
BY DEF IInv, TypeOK, Bookkeeping, Waiting, Completed

(* Every step of the scheduler is a step of the contract, or a stutter. *)
LEMMA NextRefines ==
  ASSUME IInv, IInv', [Next]_vars
  PROVE  [Contract!SchedNext]_(Contract!schedVars)
<1> USE DEF Contract!SchedNext
<1>0. ConcurrencyRespected' /\ Bookkeeping' /\ TypeOK'
  BY DEF IInv
<1>1. CASE MapAsynch
  <2> USE DEF MapAsynch
  <2>1. evalIdCntr + 1 \in Evals /\ evalIdCntr + 1 \notin 1..evalIdCntr
    BY <1>1, ConstantsAssumption DEF IInv, TypeOK, Evals
  <2>2. evalIdCntr + 1 \notin coreQueue \cup active \cup raw \cup delivered
    BY <2>1 DEF IInv, TypeOK, Bookkeeping
  <2>3. CASE coreQueue' = coreQueue
    BY <1>1, <2>3, StutterStep DEF Waiting, Completed
  <2>4. CASE coreQueue' = coreQueue \cup {evalIdCntr + 1}
    <3>1. Contract!Queue(evalIdCntr + 1)
      BY <1>1, <2>2, <2>4 DEF Contract!Queue
    <3>2. QED
      BY <3>1, <2>1
  <2>5. QED
    BY <1>1, <2>3, <2>4
<1>2. CASE \E id \in active : SimulationEnds(id)
  BY <1>2, StutterStep DEF SimulationEnds, Waiting, Completed
<1>3. CASE SynchronizeStart
  <2>1. FirstPass \in SUBSET coreQueue
    BY FirstPassLaunches DEF IInv
  <2>2. Waiting = coreQueue /\ Completed = delivered /\ active = {}
    BY <1>3, MappedState DEF SynchronizeStart
  <2>3. /\ Waiting' = Waiting \ FirstPass
        /\ active' = (active \cup FirstPass) \ {}
        /\ Completed' = Completed \cup {}
    BY <1>3, <2>1, <2>2 DEF SynchronizeStart, Waiting, Completed
  <2>4. Contract!Schedule
    BY <1>0, <2>1, <2>2, <2>3, MappedState, ScheduleStep
  <2>5. QED
    BY <2>4
<1>4. CASE SynchronizeAborts
  BY <1>4, StutterStep DEF SynchronizeAborts, Waiting, Completed, IInv, Bookkeeping
<1>5. CASE \E C \in Completions(active) : WaitAndBackfill(C)
  <2>1. PICK C \in SUBSET active : WaitAndBackfill(C)
    BY <1>5 DEF Completions
  <2> DEFINE L == Backfill(C)
  <2>2. /\ active' = (active \ C) \cup L
        /\ raw' = raw \cup C
        /\ pc = "wait"
        /\ UNCHANGED <<coreQueue, delivered>>
    BY <2>1 DEF WaitAndBackfill
  <2>3. L \in SUBSET coreQueue /\ L \cap active = {} /\ L \cap raw = {}
    BY <2>2, BackfillLaunches
  <2> HIDE DEF L
  <2>4. active \in SUBSET coreQueue /\ raw \in SUBSET coreQueue
    BY <2>2 DEF IInv, TypeOK, Bookkeeping
  <2>5. /\ L \in SUBSET Waiting
        /\ Waiting' = Waiting \ L
        /\ active' = (active \cup L) \ C
        /\ Completed' = Completed \cup C
    BY <2>2, <2>3, <2>4 DEF Waiting, Completed
  <2>6. Contract!Schedule
    BY <1>0, <2>5, MappedState, ScheduleStep
  <2>7. QED
    BY <2>6
<1>6. CASE SynchronizeReturns
  <2>1. active = {}
    BY <1>6, SynchronizeReturnsIInv
  <2>2. raw \in SUBSET coreQueue /\ coreQueue \in SUBSET Evals
    BY <1>6, Ids DEF SynchronizeReturns, IInv, Bookkeeping
  <2>3. raw = coreQueue
    BY <1>6, <2>2, EvalsFinite, FS_Subset DEF SynchronizeReturns
  <2>4. /\ active' = active
        /\ Waiting' = Waiting
        /\ Completed' = Completed
    BY <1>6, <2>1, <2>3 DEF SynchronizeReturns, Waiting, Completed
  <2>5. QED
    BY <2>4, StutterStep
<1>7. CASE \E C \in Completions(active \cup Augment) : SynchronizeNowait(C)
  <2>1. PICK C \in SUBSET (active \cup Augment) : SynchronizeNowait(C)
    BY <1>7 DEF Completions
  <2> DEFINE A == active \cup Augment
             L == TestLocalBackfill(A, localServerAssigned \cup Servers(Augment), C)
  <2>2. /\ active' = (A \ C) \cup L
        /\ raw' = C
        /\ coreQueue' = coreQueue \ C
        /\ delivered' = delivered \cup C
        /\ pc = "idle"
    BY <2>1 DEF SynchronizeNowait
  <2>3. active \in SUBSET coreQueue /\ coreQueue \in SUBSET Evals /\ active \in SUBSET Evals
    BY Ids DEF IInv, TypeOK
  <2>4. /\ Augment \in SUBSET (coreQueue \ active)
        /\ Concurrency > 0 => Cardinality(Augment) <= Concurrency - Cardinality(active)
    BY AugmentLaunches
  <2>5. A \in SUBSET coreQueue /\ (Concurrency > 0 => Cardinality(A) <= Concurrency)
    BY <2>3, <2>4, Filled, ConstantsAssumption
  <2>6. L \in SUBSET coreQueue /\ L \cap A = {}
    BY <2>3, <2>5, TestLocalBackfillLaunches
  <2> HIDE DEF L
  <2>7. /\ Augment \cup L \in SUBSET Waiting
        /\ Waiting' = Waiting \ (Augment \cup L)
        /\ active' = (active \cup (Augment \cup L)) \ C
        /\ Completed' = Completed \cup C
        /\ C \in SUBSET (active \cup (Augment \cup L))
    BY <2>2, <2>3, <2>4, <2>5, <2>6, MappedState DEF Waiting, Completed
  <2>8. Contract!Schedule
    BY <1>0, <2>7, MappedState, ScheduleStep
  <2>9. QED
    BY <2>8
<1>8. CASE UNCHANGED vars
  BY <1>8, StutterStep DEF vars, Waiting, Completed
<1>9. CASE Terminated
  BY <1>8, <1>9 DEF Terminated
<1>10. QED
  BY <1>1, <1>2, <1>3, <1>4, <1>5, <1>6, <1>7, <1>8, <1>9 DEF Next

(* The local scheduler keeps the contract of EvalScheduler: whatever is    *)
(* queued is simulated at most once, within the concurrency limit, and     *)
(* nothing that was queued is dropped.                                     *)
THEOREM Refinement == Spec => ImplementsContract
<1>1. Init => Contract!SchedInit
  BY DEF Init, Contract!SchedInit
<1>2. IInv /\ IInv' /\ [Next]_vars => [Contract!SchedNext]_(Contract!schedVars)
  BY NextRefines
<1>3. QED
  BY <1>1, <1>2, AlwaysIInv, PTL DEF Spec, ImplementsContract, Contract!SchedSpec

-----------------------------------------------------------------------------
(* No job is left waiting without a reason: the walks stop only when the   *)
(* concurrency is used up, and skip only jobs whose server is busy.        *)

(* A set of ids has a least element. *)
LEMMA Least ==
  ASSUME NEW S \in SUBSET Evals, S # {}
  PROVE  \E m \in S : \A x \in S : m <= x
<1>1. S \subseteq Nat
  BY DEF Evals
<1>2. IsWellFoundedOn(OpToRel(<, Nat), Nat)
  BY NatLessThanWellFounded
<1>3. PICK m \in S : \A x \in S : ~(<<x, m>> \in OpToRel(<, Nat))
  BY <1>1, <1>2, WFMin
<1>4. ASSUME NEW x \in S PROVE m <= x
  <2>1. x < m => <<x, m>> \in OpToRel(<, Nat)
    BY <1>1 DEF OpToRel
  <2>2. ~(x < m)
    BY <1>3, <2>1, Zenon
  <2>3. QED
    BY <1>1, <2>2
<1>5. QED
  BY <1>4

(* What comes before a job that is taken is taken as well. *)
LEMMA FirstOfInitial ==
  ASSUME NEW S \in SUBSET Evals, NEW k \in Nat,
         NEW x \in FirstOf(S, k), NEW y \in S, y <= x
  PROVE  y \in FirstOf(S, k)
<1> DEFINE below(z) == {w \in S : w < z}
<1>1. x \in S /\ Cardinality(below(x)) < k
  BY DEF FirstOf
<1>2. below(x) \in SUBSET Evals /\ below(y) \in SUBSET Evals
  OBVIOUS
<1>3. below(y) \in SUBSET below(x)
  <2>1. \A z \in S : z \in Int
    BY DEF Evals
  <2>2. QED
    BY <1>1, <2>1
<1>4. /\ IsFiniteSet(below(x))
      /\ Cardinality(below(x)) \in Nat /\ Cardinality(below(y)) \in Nat
  BY <1>2, EvalsFinite
<1>5. Cardinality(below(y)) <= Cardinality(below(x))
  BY <1>3, <1>4, FS_Subset
<1>6. Cardinality(below(y)) < k
  BY <1>1, <1>4, <1>5
<1>7. QED
  BY <1>6 DEF FirstOf

(* A walk that stops at a count, before the end of the queue, has reached  *)
(* the count.                                                              *)
LEMMA FirstOfFull ==
  ASSUME NEW S \in SUBSET Evals, NEW k \in Nat, FirstOf(S, k) # S
  PROVE  Cardinality(FirstOf(S, k)) = k
<1> DEFINE F == FirstOf(S, k)
           below(z) == {w \in S : w < z}
<1>1. F \in SUBSET S /\ Cardinality(F) <= k /\ F \in SUBSET Evals
  BY FirstOfBounded
<1>2. S \ F # {} /\ S \ F \in SUBSET Evals
  BY <1>1
<1>3. PICK x \in S \ F : \A y \in S \ F : x <= y
  <2> HIDE DEF F
  <2>1. QED
    BY <1>2, Least
<1>4. below(x) \in SUBSET F
  <2>1. \A z \in S : z \in Int
    BY DEF Evals
  <2> HIDE DEF F
  <2>2. QED
    BY <1>3, <2>1
<1>5. IsFiniteSet(F) /\ Cardinality(F) \in Nat /\ Cardinality(below(x)) \in Nat
  <2>1. below(x) \in SUBSET Evals
    OBVIOUS
  <2> HIDE DEF F
  <2>2. QED
    BY <1>1, <2>1, EvalsFinite
<1>6. Cardinality(below(x)) <= Cardinality(F)
  <2> HIDE DEF F
  <2>1. QED
    BY <1>4, <1>5, FS_Subset
<1>7. ~(Cardinality(below(x)) < k)
  BY <1>3 DEF FirstOf
<1>8. QED
  BY <1>1, <1>5, <1>6, <1>7

(* Under static scheduling a walk leaves every server busy that one of the *)
(* jobs it saw asks for.                                                   *)
LEMMA OnePerServerCovers ==
  ASSUME NEW S \in SUBSET Evals, NEW busy, NEW x \in S,
         ServerIndex(x) \notin busy
  PROVE  \E y \in OnePerServer(S, busy) : ServerIndex(y) = ServerIndex(x)
<1> DEFINE T == {y \in S : ServerIndex(y) = ServerIndex(x)}
<1>1. T \in SUBSET Evals /\ x \in T
  OBVIOUS
<1>2. PICK m \in T : \A y \in T : m <= y
  <2> HIDE DEF T
  <2>1. QED
    BY <1>1, Least
<1>3. \A y \in S : y \in Int
  BY DEF Evals
<1>4. m \in OnePerServer(S, busy)
  BY <1>2, <1>3 DEF OnePerServer
<1>5. QED
  BY <1>4, <1>2

(* The jobs of P that a walk may launch next to those that run in A.       *)
Candidates(P, busy) == IF StaticLimited THEN OnePerServer(P, busy) ELSE P

(* After L was launched next to A, each job that P has left waits for a    *)
(* good reason.                                                            *)
Justified(P, A, busy, L) ==
  \A x \in P \ L :
    \/ Concurrency > 0 /\ Cardinality(A \cup L) = Concurrency
    \/ StaticLimited /\ ServerIndex(x) \in busy \cup Servers(L)

(* A walk over the queue that stops at the free places leaves a job waiting *)
(* only if the places, or the server the job asks for, are taken.           *)
LEMMA WalkSaturates ==
  ASSUME NEW A \in SUBSET Evals, NEW P \in SUBSET Evals, A \cap P = {}, NEW busy,
         Concurrency > 0 => Concurrency - Cardinality(A) \in Nat,
         NEW L, L = Throttled(Candidates(P, busy), Concurrency - Cardinality(A))
  PROVE  Justified(P, A, busy, L)
<1> DEFINE cand == Candidates(P, busy)
           room == Concurrency - Cardinality(A)
<1>1. cand \in SUBSET P
  BY OnePerServerPlacement DEF Candidates
<1>2. cand \in SUBSET Evals
  BY <1>1
<1>3. CASE ~(Concurrency > 0)
  <2>1. ~StaticLimited
    BY <1>3, ConstantsAssumption DEF StaticLimited
  <2>2. L = P
    BY <1>3, <2>1 DEF Throttled, Candidates
  <2>3. QED
    BY <2>2 DEF Justified
<1>4. CASE Concurrency > 0 /\ L = cand
  <2>1. CASE ~StaticLimited
    BY <1>4, <2>1 DEF Candidates, Justified
  <2>2. CASE StaticLimited
    <3>1. L = OnePerServer(P, busy)
      BY <1>4, <2>2 DEF Candidates
    <3>2. \A x \in P : ServerIndex(x) \in busy \cup Servers(L)
      BY <3>1, <2>2, OnePerServerCovers DEF Servers
    <3>3. QED
      BY <3>2, <2>2 DEF Justified
  <2>3. QED
    BY <2>1, <2>2
<1>5. CASE Concurrency > 0 /\ L # cand
  <2>1. L = FirstOf(cand, room) /\ room \in Nat
    BY <1>5 DEF Throttled
  <2>2. Cardinality(L) = room /\ L \in SUBSET cand
    <3> HIDE DEF cand, room
    <3>1. QED
      BY <2>1, <1>2, <1>5, FirstOfFull, FirstOfBounded
  <2>3. L \in SUBSET Evals /\ A \cap L = {}
    BY <2>2, <1>1
  <2>4. /\ IsFiniteSet(A) /\ IsFiniteSet(L)
        /\ Cardinality(A) \in Nat /\ Cardinality(L) \in Nat
    BY <2>3, EvalsFinite
  <2>5. Cardinality(A \cup L) = Cardinality(A) + Cardinality(L) - Cardinality(A \cap L)
    BY <2>4, FS_Union
  <2>6. Cardinality(A \cap L) = 0
    BY <2>3, FS_EmptySet
  <2>7. Cardinality(A \cup L) = Concurrency
    BY <2>2, <2>4, <2>5, <2>6, ConstantsAssumption
  <2>8. QED
    BY <2>7, <1>5 DEF Justified
<1>6. QED
  BY <1>3, <1>4, <1>5

(* In the loop of the blocking scheduler, a job that waits does so for a   *)
(* good reason, and the iterator has passed no job without launching it.   *)
WaitInv ==
  pc = "wait" =>
    /\ Saturated
    /\ ~StaticLimited => coreQueue \cap passed \subseteq active \cup raw

(* The first pass leaves no place that a waiting job could take. *)
LEMMA SynchronizeStartSaturates ==
  ASSUME IInv, SynchronizeStart
  PROVE  Saturated' /\ WaitInv'
<1> USE DEF SynchronizeStart
<1>1. coreQueue \in SUBSET Evals
  BY Ids DEF IInv
<1>2. Cardinality({}) = 0 /\ Concurrency - 0 = Concurrency /\ {} \in SUBSET Evals
  BY FS_EmptySet, ConstantsAssumption
<1>3. FirstPass = Throttled(Candidates(coreQueue, {}), Concurrency - Cardinality({}))
  BY <1>2, ConstantsAssumption
     DEF FirstPass, Throttled, Candidates, StaticLimited
<1>4. Justified(coreQueue, {}, {}, FirstPass)
  BY <1>1, <1>2, <1>3, WalkSaturates, ConstantsAssumption
<1>5. Saturated'
  BY <1>4 DEF Saturated, Justified, Servers
<1>6. ~StaticLimited => coreQueue \cap PassedBy(FirstPass) \subseteq FirstPass
  <2>1. CASE Concurrency > 0
    BY <1>1, <2>1, FirstOfInitial, ConstantsAssumption DEF FirstPass, PassedBy
  <2>2. CASE ~(Concurrency > 0)
    BY <2>2 DEF FirstPass
  <2>3. QED
    BY <2>1, <2>2
<1>7. QED
  BY <1>5, <1>6 DEF WaitInv

(* Neither does the backfill of the blocking scheduler. *)
LEMMA WaitAndBackfillSaturates ==
  ASSUME IInv, WaitInv, NEW C \in SUBSET active, WaitAndBackfill(C)
  PROVE  Saturated' /\ WaitInv'
<1> DEFINE L == Backfill(C)
           free == FreeServers(localServerAssigned, C)
<1>1. /\ active' = (active \ C) \cup L
      /\ raw' = raw \cup C
      /\ localServerAssigned' = free \cup Servers(L)
      /\ passed' = passed \cup PassedBy(L)
      /\ pc = "wait" /\ C # {}
      /\ UNCHANGED <<coreQueue, pc>>
  BY DEF WaitAndBackfill
<1>2. L \in SUBSET coreQueue /\ L \cap active = {} /\ L \cap raw = {}
  BY <1>1, BackfillLaunches
<1>3. /\ coreQueue \in SUBSET Evals /\ active \in SUBSET Evals
      /\ active \in SUBSET coreQueue /\ L \in SUBSET Evals /\ active \ C \in SUBSET Evals
  BY <1>2, Ids DEF IInv, TypeOK
<1>4. /\ Cardinality(active) \in Nat
      /\ Cardinality(C) \in Nat
      /\ Cardinality(active \ C) \in Nat
      /\ Cardinality(active \ C) = Cardinality(active) - Cardinality(C)
      /\ C # {} => Cardinality(C) > 0
  BY <1>3, Room
<1>5. CASE StaticLimited
  <2> DEFINE pending == {id \in coreQueue : id \notin (active \ C)
                                            /\ id \notin (raw \cup C)}
             room == Concurrency - Cardinality(active \ C)
  <2>1. Concurrency > 0 /\ room \in Nat
    BY <1>4, <1>5, ConstantsAssumption DEF StaticLimited, IInv, ConcurrencyRespected
  <2>2. L = Throttled(Candidates(pending, free), room)
    BY <1>5, <2>1 DEF Backfill, Throttled, Candidates
  <2>3. Justified(pending, active \ C, free, L)
    <3>1. pending \in SUBSET Evals /\ (active \ C) \cap pending = {}
      BY <1>3
    <3> HIDE DEF pending, free, L
    <3>2. QED
      BY <1>3, <2>1, <2>2, <3>1, WalkSaturates
  <2>4. coreQueue' \ (active' \cup raw') = pending \ L
    BY <1>1
  <2>5. \A x \in pending \ L :
          \/ Concurrency > 0 /\ Cardinality(active') = Concurrency
          \/ StaticLimited /\ ServerIndex(x) \in localServerAssigned'
    BY <2>3, <1>1 DEF Justified
  <2>6. Saturated'
    BY <2>4, <2>5 DEF Saturated
  <2>7. QED
    BY <2>6, <1>5 DEF WaitInv
<1>6. CASE ~StaticLimited
  <2>1. L = FirstOf(coreQueue \ passed, Cardinality(C))
    BY <1>6 DEF Backfill
  <2>2. coreQueue \cap passed \subseteq active \cup raw
    BY <1>1, <1>6 DEF WaitInv
  <2>3. coreQueue \cap passed' \subseteq active' \cup raw'
    <3>1. ASSUME NEW x \in coreQueue, x \in PassedBy(L), x \notin passed
          PROVE  x \in L
      BY <3>1, <2>1, <1>3, <1>4, FirstOfInitial DEF PassedBy
    <3> HIDE DEF L
    <3>2. QED
      BY <3>1, <2>2, <1>1
  <2>4. Saturated'
    <3>1. SUFFICES ASSUME NEW x \in coreQueue, x \notin active' \cup raw'
                   PROVE  Concurrency > 0 /\ Cardinality(active') = Concurrency
      BY <1>1 DEF Saturated
    <3>2. x \notin active \cup raw /\ x \notin L
      BY <3>1, <1>1
    <3>3. Concurrency > 0 /\ Cardinality(active) = Concurrency
      BY <3>2, <1>1, <1>6 DEF WaitInv, Saturated
    <3>4. x \in coreQueue \ passed
      BY <3>1, <2>3, <1>1
    <3>5. Cardinality(L) = Cardinality(C)
      BY <3>2, <3>4, <2>1, <1>3, <1>4, FirstOfFull
    <3>6. /\ IsFiniteSet(active \ C) /\ IsFiniteSet(L)
          /\ (active \ C) \cap L = {}
      BY <1>2, <1>3, EvalsFinite
    <3> HIDE DEF L
    <3>7. Cardinality((active \ C) \cup L) =
            Cardinality(active \ C) + Cardinality(L) - 0
      BY <3>6, FS_Union, FS_EmptySet
    <3>8. QED
      BY <3>3, <3>5, <3>7, <1>1, <1>4
  <2>5. QED
    BY <2>3, <2>4, <1>1 DEF WaitInv
<1>7. QED
  BY <1>5, <1>6

(* Neither do step 1 and the backfill of the nowait scheduler. *)
LEMMA SynchronizeNowaitSaturates ==
  ASSUME IInv, NEW C \in SUBSET (active \cup Augment), SynchronizeNowait(C)
  PROVE  Saturated'
<1> DEFINE A    == active \cup Augment
           busy == localServerAssigned \cup Servers(Augment)
           free == FreeServers(busy, C)
           L    == TestLocalBackfill(A, busy, C)
<1>1. /\ active' = (A \ C) \cup L
      /\ localServerAssigned' = free \cup Servers(L)
      /\ raw' = C
      /\ coreQueue' = coreQueue \ C
      /\ pc = "idle"
  BY DEF SynchronizeNowait
<1>2. /\ coreQueue \in SUBSET Evals /\ active \in SUBSET Evals
      /\ active \in SUBSET coreQueue
      /\ Cardinality(active) \in Nat /\ Cardinality(coreQueue) \in Nat
      /\ IsFiniteSet(coreQueue)
  BY Ids, EvalsFinite DEF IInv, TypeOK
<1>3. Concurrency > 0 => Concurrency - Cardinality(active) \in Nat
  BY <1>2, ConstantsAssumption DEF IInv, ConcurrencyRespected
<1>4. /\ Augment \in SUBSET (coreQueue \ active)
      /\ Concurrency > 0 => Cardinality(Augment) <= Concurrency - Cardinality(active)
  BY AugmentLaunches
<1>5. /\ A \in SUBSET coreQueue /\ A \in SUBSET Evals
      /\ Concurrency > 0 => Cardinality(A) <= Concurrency
  BY <1>2, <1>4, Filled, ConstantsAssumption
<1>6. Justified(coreQueue \ active, active, localServerAssigned, Augment)
  <2>1. CASE NumTarget = Cardinality(active)
    <3>1. Augment = {} /\ active \cup Augment = active
      BY <2>1 DEF Augment
    <3>2. CASE Concurrency > 0 /\ Cardinality(active) = Concurrency
      BY <3>1, <3>2 DEF Justified
    <3>3. CASE ~(Concurrency > 0 /\ Cardinality(active) = Concurrency)
      <4>1. Cardinality(active) = Cardinality(coreQueue)
        BY <2>1, <3>3 DEF NumTarget
      <4>2. active = coreQueue
        BY <4>1, <1>2, FS_Subset
      <4>3. QED
        BY <4>2 DEF Justified
    <3>4. QED
      BY <3>2, <3>3
  <2>2. CASE NumTarget # Cardinality(active)
    <3>1. Augment = Throttled(Candidates(coreQueue \ active, localServerAssigned),
                              Concurrency - Cardinality(active))
      BY <2>2 DEF Augment, Candidates
    <3>2. QED
      BY <3>1, <1>2, <1>3, WalkSaturates
  <2>3. QED
    BY <2>1, <2>2
<1>7. CASE C = {}
  <2>1. L = {}
    BY <1>7 DEF TestLocalBackfill
  <2>2. /\ active' = active \cup Augment
        /\ localServerAssigned' = localServerAssigned \cup Servers(Augment)
        /\ coreQueue' \ (active' \cup raw') = (coreQueue \ active) \ Augment
    BY <2>1, <1>1, <1>7 DEF FreeServers, Servers
  <2>3. QED
    BY <2>2, <1>6 DEF Saturated, Justified
<1>8. CASE C # {}
  <2> DEFINE pending == {id \in coreQueue : /\ StaticLimited \/ id \notin AugmentPassed
                                            /\ id \notin A \ C
                                            /\ id \notin C}
             room == Concurrency - Cardinality(A \ C)
  <2>1. /\ Cardinality(A) \in Nat
        /\ Cardinality(A \ C) \in Nat
        /\ Cardinality(A \ C) = Cardinality(A) - Cardinality(C)
        /\ Cardinality(C) \in Nat /\ Cardinality(C) > 0
    BY <1>5, <1>8, Room
  <2>2. Concurrency > 0 => room \in Nat /\ room >= 1
    BY <2>1, <1>5, ConstantsAssumption
  <2>3. L = Throttled(Candidates(pending, free), IF room > 1 THEN room ELSE 1)
    BY <1>8 DEF TestLocalBackfill, Candidates
  <2>4. L = Throttled(Candidates(pending, free), room)
    BY <2>2, <2>3 DEF Throttled
  <2>5. Justified(pending, A \ C, free, L)
    <3>1. pending \in SUBSET Evals /\ (A \ C) \cap pending = {} /\ A \ C \in SUBSET Evals
      BY <1>2, <1>5
    <3> HIDE DEF pending, free, L, A
    <3>2. QED
      BY <2>2, <2>4, <3>1, WalkSaturates
  <2>6. pending = coreQueue \ A
    <3>1. CASE StaticLimited
      BY <3>1
    <3>2. CASE ~StaticLimited
      <4>1. SUFFICES ASSUME NEW x \in coreQueue, x \notin A
                     PROVE  x \notin AugmentPassed
        BY <3>2
      <4>2. CASE NumTarget = Cardinality(active)
        BY <4>2 DEF AugmentPassed
      <4>3. CASE NumTarget # Cardinality(active)
        <5>1. x \in (coreQueue \ active) \ Augment
          BY <4>1
        <5>2. Concurrency > 0 /\ Cardinality(active \cup Augment) = Concurrency
          BY <5>1, <3>2, <1>6 DEF Justified
        <5>3. AugmentPassed = PassedBy(Augment)
          BY <4>3, <5>2, ConstantsAssumption DEF AugmentPassed
        <5>4. Augment = FirstOf(coreQueue \ active, Concurrency - Cardinality(active))
          BY <4>3, <5>2, <3>2 DEF Augment, Throttled
        <5>5. QED
          BY <5>1, <5>2, <5>3, <5>4, <1>2, <1>3, FirstOfInitial DEF PassedBy
      <4>4. QED
        BY <4>2, <4>3
    <3>3. QED
      BY <3>1, <3>2
  <2>7. coreQueue' \ (active' \cup raw') = pending \ L
    BY <2>6, <1>1, <1>5
  <2>8. \A x \in pending \ L :
          \/ Concurrency > 0 /\ Cardinality(active') = Concurrency
          \/ StaticLimited /\ ServerIndex(x) \in localServerAssigned'
    BY <2>5, <1>1 DEF Justified
  <2>9. QED
    BY <2>7, <2>8 DEF Saturated
<1>9. QED
  BY <1>7, <1>8

(* Every step preserves what the blocking scheduler knows while it waits. *)
LEMMA NextWaitInv ==
  ASSUME IInv, WaitInv, [Next]_vars
  PROVE  /\ WaitInv'
         /\ pc' # "aborted" /\ (launches' # launches \/ raw' # raw) => Saturated'
<1>1. CASE MapAsynch
  BY <1>1 DEF MapAsynch, WaitInv
<1>2. CASE \E id \in active : SimulationEnds(id)
  BY <1>2 DEF SimulationEnds, WaitInv, Saturated
<1>3. CASE SynchronizeStart
  BY <1>3, SynchronizeStartSaturates
<1>4. CASE SynchronizeAborts
  BY <1>4 DEF SynchronizeAborts, WaitInv
<1>5. CASE \E C \in Completions(active) : WaitAndBackfill(C)
  BY <1>5, WaitAndBackfillSaturates DEF Completions
<1>6. CASE SynchronizeReturns
  BY <1>6 DEF SynchronizeReturns, WaitInv
<1>7. CASE \E C \in Completions(active \cup Augment) : SynchronizeNowait(C)
  BY <1>7, SynchronizeNowaitSaturates DEF Completions, SynchronizeNowait, WaitInv
<1>8. CASE UNCHANGED vars
  BY <1>8 DEF vars, WaitInv, Saturated
<1>9. CASE Terminated
  BY <1>8, <1>9 DEF Terminated
<1>10. QED
  BY <1>1, <1>2, <1>3, <1>4, <1>5, <1>6, <1>7, <1>8, <1>9 DEF Next

(* Both invariants hold in every reachable state. *)
LEMMA AlwaysWaitInv == Spec => [](IInv /\ WaitInv)
<1>1. Init => WaitInv
  BY DEF Init, WaitInv
<1>2. QED
  BY <1>1, InitIInv, NextIInv, NextWaitInv, PTL DEF Spec

(* A scheduling step of either scheduler leaves a job in the queue only if *)
(* the concurrency is used up or, under static scheduling, its server is.  *)
THEOREM WorkIsConserved == Spec => WorkConserving
<1>1. ASSUME IInv, WaitInv, [Next]_vars
      PROVE  [pc' # "aborted" /\ (launches' # launches \/ raw' # raw)
                => Saturated']_vars
  BY <1>1, NextWaitInv
<1>2. QED
  BY <1>1, AlwaysWaitInv, PTL DEF Spec, WorkConserving

(* The blocking scheduler never calls wait_local_evaluations() with no job *)
(* running, so it never waits for a completion that cannot come.           *)
THEOREM NoIdleWait == Spec => []NeverWaitsIdle
<1>1. ASSUME IInv, WaitInv, pc = "wait", active = {}
      PROVE  Cardinality(raw) >= Cardinality(coreQueue)
  <2>1. Cardinality(active) = 0
    BY <1>1, FS_EmptySet
  <2>2. StaticLimited => localServerAssigned = {}
    BY <1>1 DEF IInv, StaticPlacement
  <2>3. coreQueue \subseteq raw
    BY <1>1, <2>1, <2>2, ConstantsAssumption DEF WaitInv, Saturated
  <2>4. raw = coreQueue
    BY <1>1, <2>3 DEF IInv, Bookkeeping
  <2>5. Cardinality(raw) \in Nat
    BY <1>1, EvalsFinite DEF IInv, TypeOK
  <2>6. QED
    BY <2>4, <2>5
<1>2. IInv /\ WaitInv => NeverWaitsIdle
  <2>1. SUFFICES ASSUME IInv, WaitInv, pc = "wait", active = {},
                        Cardinality(raw) < Cardinality(coreQueue)
                 PROVE  FALSE
    BY DEF NeverWaitsIdle
  <2>2. Cardinality(raw) >= Cardinality(coreQueue)
    BY <2>1, <1>1
  <2>3. raw \in SUBSET Evals /\ coreQueue \in SUBSET Evals
    BY <2>1, Ids DEF IInv, TypeOK
  <2>4. Cardinality(raw) \in Nat /\ Cardinality(coreQueue) \in Nat
    BY <2>3, EvalsFinite
  <2>5. QED
    BY <2>1, <2>2, <2>4
<1>3. QED
  BY <1>2, AlwaysWaitInv, PTL

-----------------------------------------------------------------------------
(* Between two synchronizations a client that only blocks has no job       *)
(* running, so that assign_asynch_local_queue() finds an empty queue.      *)
NothingLeftRunning ==
  ~(Blocking /\ Nowait) =>
    /\ pc # "aborted"
    /\ pc = "idle" /\ ~Nowait => active = {}

(* Every step of a client with one form of synchronization preserves it.   *)
LEMMA NextNothingLeftRunning ==
  ASSUME IInv, NothingLeftRunning, [Next]_vars
  PROVE  NothingLeftRunning'
<1>1. CASE MapAsynch
  BY <1>1 DEF MapAsynch, NothingLeftRunning
<1>2. CASE \E id \in active : SimulationEnds(id)
  BY <1>2 DEF SimulationEnds, NothingLeftRunning
<1>3. CASE SynchronizeStart
  BY <1>3 DEF SynchronizeStart, NothingLeftRunning
<1>4. CASE SynchronizeAborts
  BY <1>4 DEF SynchronizeAborts, NothingLeftRunning
<1>5. CASE \E C \in Completions(active) : WaitAndBackfill(C)
  BY <1>5 DEF WaitAndBackfill, NothingLeftRunning
<1>6. CASE SynchronizeReturns
  <2>1. active' = {}
    BY <1>6, NextIInv DEF SynchronizeReturns, IInv, TypeOK
  <2>2. QED
    BY <1>6, <2>1 DEF SynchronizeReturns, NothingLeftRunning
<1>7. CASE \E C \in Completions(active \cup Augment) : SynchronizeNowait(C)
  BY <1>7 DEF SynchronizeNowait, NothingLeftRunning
<1>8. CASE UNCHANGED vars
  BY <1>8 DEF vars, NothingLeftRunning
<1>9. CASE Terminated
  BY <1>8, <1>9 DEF Terminated
<1>10. QED
  BY <1>1, <1>2, <1>3, <1>4, <1>5, <1>6, <1>7, <1>8, <1>9 DEF Next

(* A client that uses one of the two synchronizations only, as Dakota's    *)
(* iterators do, never meets the abort of assign_asynch_local_queue(),     *)
(* whichever jobs complete in each turn.                                   *)
THEOREM OneFormNeverAborts == Spec => []NeverAborts
<1>1. Init => NothingLeftRunning
  BY DEF Init, NothingLeftRunning
<1>2. NothingLeftRunning => NeverAborts
  BY DEF NothingLeftRunning, NeverAborts
<1>3. QED
  BY <1>1, <1>2, InitIInv, NextIInv, NextNothingLeftRunning, PTL DEF Spec
=============================================================================
