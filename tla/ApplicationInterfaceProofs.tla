---------------------- MODULE ApplicationInterfaceProofs ----------------------
(***************************************************************************)
(* Proofs about ApplicationInterface for every number of evaluations and   *)
(* restarts, every space of variables, tolerance and response data, and    *)
(* every configuration of the interface.                                   *)
(***************************************************************************)
EXTENDS ApplicationInterface, FiniteSetTheorems, SequenceTheorems,
        WellFoundedInduction, TLAPS

-----------------------------------------------------------------------------
(* The inductive invariant, one part for each question.                    *)

(* A record of the restart file.                                           *)
FileRecord == [id : Evals, at : Points, data : SUBSET Data]

(* The ids that map() has handed out have variables and a set of their     *)
(* own; a record of the restart file carries the id of an evaluation.      *)
Mappings ==
  /\ restartFile \in Seq(FileRecord)
  /\ \A id \in 1 .. evalIdCntr :
       vars[id] \in config.points /\ set[id] \subseteq config.data

(* Seven sets of ids split the ids 1 .. n.                                 *)
Partition(A, B, C, D, E, F, G, n) ==
  /\ A \cup B \cup C \cup D \cup E \cup F \cup G = 1 .. n
  /\ A \cap (B \cup C \cup D \cup E \cup F \cup G) = {}
  /\ B \cap (C \cup D \cup E \cup F \cup G) = {}
  /\ C \cap (D \cup E \cup F \cup G) = {}
  /\ D \cap (E \cup F \cup G) = {}
  /\ E \cap (F \cup G) = {}
  /\ F \cap G = {}

(* The queues between calls and inside a synchronization.  A job that has  *)
(* completed is in rawResponseMap and in the queue until the call returns; *)
(* the algebraic queue runs beside the queue of core jobs.                 *)
Queues ==
  /\ Partition(consumed, rawIds, cachedIds, histIds, dupIds,
               coreQueue \ rawIds, IF CoreMappings THEN {} ELSE algQueue,
               evalIdCntr)
  /\ coreQueue \cap (consumed \cup cachedIds \cup histIds \cup dupIds) = {}
  /\ coreQueue \cup algQueue \subseteq 1 .. evalIdCntr
  /\ pc = "idle" => coreQueue \cap rawIds = {}
  /\ pc \in {"nowait", "undefined"} => rawIds \subseteq coreQueue
  /\ pc = "synch" => histIds = {} /\ cachedIds = {}
  /\ CoreMappings =>
       algQueue \subseteq coreQueue \cup dupIds \cup histIds
                            \cup (IF pc = "synch" THEN rawIds ELSE {})
  /\ ~CoreMappings => coreQueue = {} /\ dupIds = {} /\ histIds = {}

(* An id is in data_pairs under a positive number only once its job is     *)
(* done, and only such an entry shares its rep with an evaluation.         *)
Entries ==
  /\ \A d \in dataPairs :
       /\ d.id > 0 => d.id <= evalIdCntr /\ d.id \notin coreQueue \ rawIds
       /\ ~d.own => d.id > 0
  /\ CurrentIdsUnique

(* The responses on their way to the caller, and those the caller has.     *)
Held == consumed \cup rawIds \cup cachedIds \cup histIds

(* The response of an id has the data asked for, at the variables asked    *)
(* for or within the tolerance of them.                                    *)
Matches(id) ==
  /\ set[id] \subseteq resp[id].data
  /\ IF NearbyDetect THEN vars[id] \in Near[resp[id].at]
                     ELSE vars[id] = resp[id].at

(* They match what was asked; a completed job, the source of duplicates,   *)
(* is exact.                                                               *)
Responses ==
  /\ \A id \in Held : Matches(id)
  /\ \A q \in coreQueue \cap rawIds :
       resp[q].at = vars[q] /\ resp[q].data = JobSet(set[q])

(* The restart file has a record at p with the data s.                     *)
OnFile(p, s) ==
  \E i \in DOMAIN restartFile : /\ restartFile[i].at = p
                               /\ s \subseteq restartFile[i].data

(* What data_pairs or a map holds is on the restart file.                  *)
OnDisk ==
  RestartFileFlag /\ CoreMappings =>
    /\ \A d \in dataPairs : OnFile(d.at, d.data)
    /\ \A id \in Held : OnFile(resp[id].at, resp[id].data)

(* What this run was restarted from stays in data_pairs, under one id or   *)
(* another, and no queued job asks for it.                                 *)
Restarted ==
  EvalCacheFlag =>
    /\ \A d \in loaded : \E e \in dataPairs : e.at = d.at /\ e.data = d.data
    /\ \A q \in coreQueue, d \in loaded :
         ~(vars[q] = d.at /\ set[q] \subseteq d.data)
    /\ RestartAvoidsWork

(* The inductive invariant.                                                *)
AInv ==
  /\ IfaceTypeOK
  /\ Mappings
  /\ Queues
  /\ DuplicatesAnchored
  /\ NoRedundantJob
  /\ Entries
  /\ Responses
  /\ OnDisk
  /\ Restarted

(* How often an algebraic response was added: without the evaluation       *)
(* cache, a rep is added to when its evaluation is returned, and only      *)
(* then.                                                                   *)
Overlays ==
  /\ ~AlgebraicMappings =>
       algQueue = {} /\ \A id \in Evals : resp[id].alg = 0
  /\ AlgebraicMappings /\ CoreMappings =>
       /\ histIds = {} /\ dupIds = {}
       /\ algQueue = coreQueue
       /\ \A id \in coreQueue \cap rawIds : resp[id].alg = 0
       /\ \A id \in (consumed \cup cachedIds \cup rawIds) \ coreQueue :
            resp[id].alg = 1
  /\ ~CoreMappings =>
       \A id \in consumed \cup cachedIds \cup rawIds : resp[id].alg = 1

-----------------------------------------------------------------------------
(* Facts about the operators of the model.                                 *)

(* The settings of a run.                                                  *)
LEMMA ConfigFacts ==
  ASSUME config \in Configurations
  PROVE  /\ config.core \in BOOLEAN /\ config.algebraic \in BOOLEAN
         /\ config.cache \in BOOLEAN /\ config.nearby \in BOOLEAN
         /\ config.file \in BOOLEAN /\ config.asv \in BOOLEAN
         /\ config.points \subseteq Points /\ config.data \subseteq Data
         /\ config.core \/ config.algebraic
<1>1. config \in ConfigurationType
  BY ConstantsAssumption
<1>2. QED
  BY <1>1, ConstantsAssumption DEF ConfigurationType

(* A job is run with at least the data that was asked for.                 *)
LEMMA JobSetFacts ==
  ASSUME config \in Configurations, NEW s \in SUBSET config.data
  PROVE  s \subseteq JobSet(s) /\ JobSet(s) \subseteq config.data
         /\ JobSet(s) \in SUBSET Data
BY ConfigFacts DEF JobSet, AsvControlFlag

(* The point of a job is within the tolerance of itself.                   *)
LEMMA NearSelf ==
  ASSUME NEW p \in Points
  PROVE  p \in Near[p] /\ Near[p] \subseteq Points
BY ConstantsAssumption DEF Points

(* A set of entries of data_pairs has one of least id.                     *)
LEMMA LeastEntry ==
  ASSUME NEW M, M # {}, \A d \in M : d.id \in Int /\ -MaxEvals <= d.id
  PROVE  \E d \in M : \A e \in M : d.id <= e.id
<1> DEFINE K == {d.id + MaxEvals : d \in M}
<1>1. K \subseteq Nat /\ K # {}
  BY ConstantsAssumption
<1>2. IsWellFoundedOn(OpToRel(<, Nat), Nat)
  BY NatLessThanWellFounded
<1>3. PICK k \in K : \A x \in K : ~(<<x, k>> \in OpToRel(<, Nat))
  <2> HIDE DEF K
  <2>1. QED
    BY <1>1, <1>2, WFMin
<1>4. PICK d \in M : k = d.id + MaxEvals
  BY <1>3
<1>5. ASSUME NEW e \in M PROVE d.id <= e.id
  <2> DEFINE x == e.id + MaxEvals
  <2>1. x \in K /\ x \in Nat /\ k \in Nat
    BY <1>1
  <2>2. x < k => <<x, k>> \in OpToRel(<, Nat)
    <3> HIDE DEF x, K
    <3>1. QED
      BY <2>1 DEF OpToRel
  <2>3. ~(x < k)
    <3> HIDE DEF x, K
    <3>1. QED
      BY <1>3, <2>1, <2>2, Zenon
  <2>4. e.id \in Int /\ d.id \in Int /\ MaxEvals \in Nat
    BY ConstantsAssumption
  <2>5. QED
    BY <1>4, <2>3, <2>4
<1>6. QED
  BY <1>5

(* An entry of data_pairs; a negative id is that of a restarted record.    *)
EntryType == [id : (-MaxEvals..MaxEvals) \ {0}, at : Points,
              data : SUBSET Data, own : BOOLEAN]

(* lookup_by_val and lookup_by_nearby_val: a hit has the data, at these    *)
(* variables or within the tolerance; without a hit no entry has the data  *)
(* at these variables.                                                     *)
LEMMA CacheHitFacts ==
  ASSUME config \in Configurations, dataPairs \in SUBSET EntryType,
         NEW p \in Points, NEW s
  PROVE  /\ \A d \in CacheHits(p, s) :
              /\ d \in dataPairs /\ s \subseteq d.data
              /\ IF NearbyDetect THEN p \in Near[d.at] ELSE p = d.at
         /\ CacheHits(p, s) = {} =>
              \A d \in dataPairs : ~(p = d.at /\ s \subseteq d.data)
<1> DEFINE match == {d \in dataPairs :
                       /\ IF NearbyDetect THEN p \in Near[d.at] ELSE p = d.at
                       /\ s \subseteq d.data}
<1>1. \A d \in CacheHits(p, s) :
        /\ d \in dataPairs /\ s \subseteq d.data
        /\ IF NearbyDetect THEN p \in Near[d.at] ELSE p = d.at
  BY DEF CacheHits
<1>2. \A d \in match : d.id \in Int /\ -MaxEvals <= d.id
  BY ConstantsAssumption DEF EntryType
<1>3. match # {} => \E d \in match : \A e \in match : d.id <= e.id
  <2> HIDE DEF match
  <2>1. QED
    BY <1>2, LeastEntry
<1>4. CacheHits(p, s) = {} => match = {}
  BY <1>3 DEF CacheHits
<1>5. \A d \in dataPairs : p = d.at /\ s \subseteq d.data => d \in match
  BY NearSelf
<1>6. QED
  BY <1>1, <1>4, <1>5

(* A promoted entry keeps its variables, data and rep.                     *)
LEMMA PromotedFacts ==
  ASSUME dataPairs \in SUBSET EntryType, NEW d \in dataPairs, NEW id \in Evals
  PROVE  /\ Promoted(d, id) \in SUBSET EntryType
         /\ \A e \in Promoted(d, id) :
              \/ e \in dataPairs
              \/ /\ d.id <= 0 /\ e.id = id
                 /\ e.at = d.at /\ e.data = d.data /\ e.own = d.own
         /\ \A e \in dataPairs : \E f \in Promoted(d, id) :
              f.at = e.at /\ f.data = e.data
         /\ \A e, f \in Promoted(d, id) :
              e \notin dataPairs /\ f \notin dataPairs => e = f
<1> DEFINE n == [d EXCEPT !.id = id]
<1>1. /\ n \in EntryType /\ n.id = id
      /\ n.at = d.at /\ n.data = d.data /\ n.own = d.own
  BY ConstantsAssumption DEF EntryType, Evals
<1>2. CASE d.id <= 0
  <2>1. Promoted(d, id) = (dataPairs \ {d}) \cup {n}
    BY <1>2 DEF Promoted
  <2> HIDE DEF n
  <2>2. QED
    BY <1>1, <1>2, <2>1
<1>3. CASE ~(d.id <= 0)
  <2>1. Promoted(d, id) = dataPairs
    BY <1>3 DEF Promoted
  <2>2. QED
    BY <2>1
<1>4. QED
  BY <1>2, <1>3

(* The order of a restart file that is read again: ById lists records of   *)
(* the file, as many as it is given.                                       *)
LEMMA ByIdLists ==
  ASSUME NEW R, \A r \in R : r.id \in Int, NEW s \in Seq(R)
  PROVE  ById(s) \in Seq(R)
<1> DEFINE n == Len(s)
           Before(i, j) == s[i].id < s[j].id \/ (s[i].id = s[j].id /\ i < j)
           below(j) == {i \in 1 .. n : Before(i, j)}
           rank == [j \in 1 .. n |-> 1 + Cardinality(below(j))]
<1>1. n \in Nat /\ DOMAIN s = 1 .. n /\ \A i \in 1 .. n : s[i] \in R
  BY LenProperties, ElementOfSeq
<1>2. \A i \in 1 .. n : s[i].id \in Int
  BY <1>1
<1>3. IsFiniteSet(1 .. n) /\ Cardinality(1 .. n) = n
  BY <1>1, FS_Interval
<1>4. ASSUME NEW j \in 1 .. n
      PROVE  /\ IsFiniteSet(below(j)) /\ Cardinality(below(j)) \in Nat
             /\ Cardinality(below(j)) < n
  <2>1. below(j) \in SUBSET (1 .. n) /\ j \notin below(j)
    <3>1. ~Before(j, j)
      BY <1>2
    <3> HIDE DEF Before
    <3>2. QED
      BY <3>1
  <2> HIDE DEF below, n
  <2>2. /\ IsFiniteSet(below(j)) /\ Cardinality(below(j)) <= n
        /\ Cardinality(below(j)) # n
    BY <1>3, <2>1, FS_Subset
  <2>3. Cardinality(below(j)) \in Nat
    BY <2>2, FS_CardinalityType
  <2>4. QED
    BY <1>1, <2>2, <2>3
<1>5. ASSUME NEW j \in 1 .. n, NEW k \in 1 .. n, Before(j, k)
      PROVE  Cardinality(below(j)) < Cardinality(below(k))
  <2>1. \A i \in 1 .. n : Before(i, j) => Before(i, k)
    BY <1>2, <1>5
  <2>2. ~Before(j, j)
    BY <1>2
  <2>3. below(j) \in SUBSET below(k) /\ j \in below(k) /\ j \notin below(j)
    <3> HIDE DEF Before
    <3>1. QED
      BY <1>5, <2>1, <2>2
  <2>4. IsFiniteSet(below(k)) /\ Cardinality(below(j)) \in Nat
        /\ Cardinality(below(k)) \in Nat
    BY <1>4
  <2> HIDE DEF below
  <2>5. Cardinality(below(j)) # Cardinality(below(k))
        /\ Cardinality(below(j)) <= Cardinality(below(k))
    BY <2>3, <2>4, FS_Subset
  <2>6. QED
    BY <2>4, <2>5
<1>6. ASSUME NEW j \in 1 .. n, NEW k \in 1 .. n, rank[j] = rank[k]
      PROVE  j = k
  <2>1. Cardinality(below(j)) \in Nat /\ Cardinality(below(k)) \in Nat
    BY <1>4
  <2>2. 1 + Cardinality(below(j)) = 1 + Cardinality(below(k))
    BY <1>6
  <2>3. ~Before(j, k) /\ ~Before(k, j)
    <3> HIDE DEF below
    <3>1. ~(Cardinality(below(j)) < Cardinality(below(k)))
          /\ ~(Cardinality(below(k)) < Cardinality(below(j)))
      BY <2>1, <2>2
    <3> HIDE DEF Before
    <3>2. QED
      BY <1>5, <3>1
  <2>4. QED
    BY <1>2, <2>3
<1>7. rank \in [1 .. n -> 1 .. n]
  <2>1. \A j \in 1 .. n : 1 + Cardinality(below(j)) \in 1 .. n
    <3> HIDE DEF below, n
    <3>1. QED
      BY <1>1, <1>4
  <2>2. QED
    BY <2>1, Zenon
<1>8. rank \in Surjection(1 .. n, 1 .. n)
  <2>1. rank \in Injection(1 .. n, 1 .. n)
    BY <1>6, <1>7 DEF Injection, IsInjective
  <2>2. QED
    BY <1>3, <2>1, FS_Injection
<1>9. \A m \in 1 .. n : \E j \in 1 .. n : rank[j] = m
  BY <1>8 DEF Surjection
<1>10. ById(s) = [m \in 1 .. n |-> s[CHOOSE j \in 1 .. n : rank[j] = m]]
  BY <1>1 DEF ById
<1>11. \A m \in 1 .. n : s[CHOOSE j \in 1 .. n : rank[j] = m] \in R
  <2> HIDE DEF rank, n
  <2>1. QED
    BY <1>1, <1>9
<1>12. ById(s) \in [1 .. n -> R]
  <2> HIDE DEF rank, n
  <2>1. QED
    BY <1>10, <1>11, Zenon
<1>13. QED
  BY <1>1, <1>12

-----------------------------------------------------------------------------
(* What map() and the queues share.                                        *)

(* map() hands out an id that is in no map and no queue.                   *)
LEMMA NewIdFacts ==
  ASSUME AInv, NEW p \in config.points, NEW s \in ActiveSets,
         NewEvaluation(p, s)
  PROVE  /\ pc = "idle" /\ evalIdCntr \in Nat
         /\ evalIdCntr' = evalIdCntr + 1 /\ evalIdCntr' \in 0 .. MaxEvals
         /\ evalIdCntr + 1 \in Evals
         /\ 1 .. evalIdCntr' = (1 .. evalIdCntr) \cup {evalIdCntr + 1}
         /\ evalIdCntr + 1 \notin 1 .. evalIdCntr
         /\ 1 .. evalIdCntr \subseteq Evals
         /\ p \in Points /\ s \in SUBSET config.data /\ s \in SUBSET Data
         /\ vars' \in [Evals -> Points \cup {NoPoint}]
         /\ set' \in [Evals -> SUBSET Data]
         /\ vars'[evalIdCntr + 1] = p /\ set'[evalIdCntr + 1] = s
         /\ \A id \in Evals \ {evalIdCntr + 1} :
              vars'[id] = vars[id] /\ set'[id] = set[id]
<1>1. evalIdCntr \in 0 .. MaxEvals /\ MaxEvals \in Nat
  BY ConstantsAssumption DEF AInv, IfaceTypeOK
<1>2. /\ pc = "idle" /\ evalIdCntr < MaxEvals
      /\ evalIdCntr' = evalIdCntr + 1
      /\ vars' = [vars EXCEPT ![evalIdCntr + 1] = p]
      /\ set' = [set EXCEPT ![evalIdCntr + 1] = s]
  BY DEF NewEvaluation
<1>3. evalIdCntr + 1 \in Evals
  BY <1>1, <1>2 DEF Evals
<1>4. p \in Points /\ s \in SUBSET config.data /\ s \in SUBSET Data
  BY ConfigFacts DEF AInv, IfaceTypeOK, ActiveSets
<1>5. /\ 1 .. evalIdCntr' = (1 .. evalIdCntr) \cup {evalIdCntr + 1}
      /\ evalIdCntr + 1 \notin 1 .. evalIdCntr
      /\ 1 .. evalIdCntr \subseteq Evals
      /\ evalIdCntr \in Nat /\ evalIdCntr' \in 0 .. MaxEvals
  BY <1>1, <1>2 DEF Evals
<1>6. vars \in [Evals -> Points \cup {NoPoint}] /\ set \in [Evals -> SUBSET Data]
  BY DEF AInv, IfaceTypeOK
<1>7. QED
  BY <1>2, <1>3, <1>4, <1>5, <1>6

(* A rep.                                                                  *)
RepType == [at : Points \cup {NoPoint}, data : SUBSET Data, alg : Nat]

(* The reps that are written are reps.                                     *)
LEMMA RepFacts ==
  ASSUME NEW p \in Points \cup {NoPoint}, NEW s \in SUBSET Data, NEW n \in Nat
  PROVE  /\ Rep(p, s, n) \in RepType
         /\ Rep(p, s, n).at = p /\ Rep(p, s, n).data = s /\ Rep(p, s, n).alg = n
BY DEF Rep, RepType

(* An algebraic response is added to a rep: the rest of it stays.          *)
LEMMA OverlaidFacts ==
  ASSUME NEW r \in RepType
  PROVE  /\ Overlaid(r) \in RepType
         /\ Overlaid(r).at = r.at /\ Overlaid(r).data = r.data
         /\ Overlaid(r).alg = r.alg + 1
BY DEF Overlaid, RepType

(* How often the rep of an entry of data_pairs was added to is a number.   *)
LEMMA OverlaysOfType ==
  ASSUME AInv, NEW d \in dataPairs
  PROVE  OverlaysOf(d) \in Nat /\ (OverlaysOf(d) + Algebraic) \in Nat
<1>1. d \in EntryType /\ (~d.own => d.id > 0)
  BY DEF AInv, IfaceTypeOK, EntryType, Entries
<1>2. ~d.own => d.id \in Evals
  BY <1>1, ConstantsAssumption DEF EntryType, Evals
<1>3. OverlaysOf(d) \in Nat
  BY <1>1, <1>2 DEF OverlaysOf, AInv, IfaceTypeOK
<1>4. QED
  BY <1>3 DEF Algebraic

(* The rep of a duplicate is taken from that of its original.              *)
LEMMA UpdatedFacts ==
  ASSUME AInv, NEW id \in Evals
  PROVE  /\ Updated(id) \in RepType
         /\ Mapped(id) \in RepType
         /\ id \notin dupIds => Updated(id) = resp[id]
         /\ id \in dupIds =>
              /\ dupOf[id] \in Evals
              /\ Updated(id).at = resp[dupOf[id]].at
              /\ Updated(id).data = set[id] \cap resp[dupOf[id]].data
              /\ Updated(id).alg = resp[dupOf[id]].alg
         /\ CoreMappings =>
              /\ Mapped(id).at = Updated(id).at
              /\ Mapped(id).data = Updated(id).data
              /\ Mapped(id).alg = Updated(id).alg + 1
         /\ ~CoreMappings =>
              /\ Mapped(id).at = vars[id] /\ Mapped(id).data = set[id]
              /\ Mapped(id).alg = 1
<1>1. /\ resp \in [Evals -> RepType] /\ coreQueue \in SUBSET Evals
      /\ set \in [Evals -> SUBSET Data]
      /\ vars \in [Evals -> Points \cup {NoPoint}]
  BY DEF AInv, IfaceTypeOK, RepType
<1>2. /\ id \notin dupIds => Updated(id) = resp[id]
      /\ id \in dupIds =>
           Updated(id) = Rep(resp[dupOf[id]].at, set[id] \cap resp[dupOf[id]].data,
                             resp[dupOf[id]].alg)
  BY DEF Updated
<1>3. id \in dupIds => dupOf[id] \in Evals
  BY <1>1 DEF AInv, DuplicatesAnchored
<1>4. ASSUME id \in dupIds
      PROVE  /\ Updated(id) \in RepType
             /\ Updated(id).at = resp[dupOf[id]].at
             /\ Updated(id).data = set[id] \cap resp[dupOf[id]].data
             /\ Updated(id).alg = resp[dupOf[id]].alg
  <2>1. resp[dupOf[id]] \in RepType /\ set[id] \in SUBSET Data
    BY <1>1, <1>3, <1>4
  <2>2. /\ resp[dupOf[id]].at \in Points \cup {NoPoint}
        /\ set[id] \cap resp[dupOf[id]].data \in SUBSET Data
        /\ resp[dupOf[id]].alg \in Nat
    BY <2>1 DEF RepType
  <2>3. QED
    BY <1>2, <1>4, <2>2, RepFacts
<1>5. Updated(id) \in RepType
  BY <1>1, <1>2, <1>4
<1>6. CoreMappings => Mapped(id) = Overlaid(Updated(id))
  BY DEF Mapped
<1>7. ~CoreMappings => Mapped(id) = Rep(vars[id], set[id], 1)
  BY DEF Mapped
<1>8. CoreMappings =>
        /\ Mapped(id) \in RepType
        /\ Mapped(id).at = Updated(id).at
        /\ Mapped(id).data = Updated(id).data
        /\ Mapped(id).alg = Updated(id).alg + 1
  BY <1>5, <1>6, OverlaidFacts
<1>9. ~CoreMappings =>
        /\ Mapped(id) \in RepType
        /\ Mapped(id).at = vars[id] /\ Mapped(id).data = set[id]
        /\ Mapped(id).alg = 1
  <2>1. vars[id] \in Points \cup {NoPoint} /\ set[id] \in SUBSET Data /\ 1 \in Nat
    BY <1>1
  <2>2. QED
    BY <1>7, <2>1, RepFacts
<1>10. QED
  BY <1>2, <1>3, <1>4, <1>5, <1>8, <1>9

(* The entry of a completed job.                                           *)
LEMMA EntryFacts ==
  ASSUME NEW id \in Evals, NEW p \in Points, NEW s \in SUBSET Data,
         NEW own \in BOOLEAN
  PROVE  /\ Entry(id, p, s, own) \in EntryType
         /\ Entry(id, p, s, own).id = id /\ Entry(id, p, s, own).at = p
         /\ Entry(id, p, s, own).data = s /\ Entry(id, p, s, own).own = own
BY ConstantsAssumption DEF Entry, EntryType, Evals

(* The restart file after a completed job.                                 *)
LEMMA LoggedFacts ==
  ASSUME restartFile \in Seq(FileRecord),
         NEW id \in Evals, NEW p \in Points, NEW s \in SUBSET Data
  PROVE  /\ Logged(id, p, s) \in Seq(FileRecord)
         /\ DOMAIN restartFile \subseteq DOMAIN Logged(id, p, s)
         /\ \A i \in DOMAIN restartFile : Logged(id, p, s)[i] = restartFile[i]
         /\ RestartFileFlag =>
              \E i \in DOMAIN Logged(id, p, s) :
                /\ Logged(id, p, s)[i].at = p
                /\ Logged(id, p, s)[i].data = s
<1> DEFINE r == [id |-> id, at |-> p, data |-> s]
<1>1. r \in FileRecord /\ r.at = p /\ r.data = s
  BY DEF FileRecord
<1> HIDE DEF r
<1>2. /\ Append(restartFile, r) \in Seq(FileRecord)
      /\ Len(Append(restartFile, r)) = Len(restartFile) + 1
      /\ \A i \in 1 .. Len(restartFile) : Append(restartFile, r)[i] = restartFile[i]
      /\ Append(restartFile, r)[Len(restartFile) + 1] = r
  BY <1>1, AppendProperties
<1>3. /\ Len(restartFile) \in Nat /\ DOMAIN restartFile = 1 .. Len(restartFile)
      /\ DOMAIN Append(restartFile, r) = 1 .. Len(restartFile) + 1
  BY <1>2, LenProperties
<1>4. Logged(id, p, s) = IF RestartFileFlag THEN Append(restartFile, r) ELSE restartFile
  BY DEF Logged, r
<1>5. Len(restartFile) + 1 \in 1 .. Len(restartFile) + 1
      /\ 1 .. Len(restartFile) \subseteq 1 .. Len(restartFile) + 1
  BY <1>3
<1>6. QED
  BY <1>1, <1>2, <1>3, <1>4, <1>5

-----------------------------------------------------------------------------
(* Types, and what the ids were mapped at.                                 *)

(* The types of a state, with names for the types of its parts.            *)
LEMMA Types ==
  ASSUME AInv
  PROVE  /\ evalIdCntr \in 0 .. MaxEvals /\ MaxEvals \in Nat
         /\ 1 .. evalIdCntr \subseteq Evals
         /\ vars \in [Evals -> Points \cup {NoPoint}]
         /\ set \in [Evals -> SUBSET Data]
         /\ resp \in [Evals -> RepType]
         /\ coreQueue \in SUBSET Evals /\ algQueue \in SUBSET Evals
         /\ dupIds \in SUBSET Evals /\ dupOf \in [Evals -> 0 .. MaxEvals]
         /\ histIds \in SUBSET Evals /\ cachedIds \in SUBSET Evals
         /\ rawIds \in SUBSET Evals /\ consumed \in SUBSET Evals
         /\ dataPairs \in SUBSET EntryType
         /\ restartFile \in Seq(FileRecord)
         /\ config \in Configurations
<1>1. IfaceTypeOK /\ restartFile \in Seq(FileRecord)
  BY DEF AInv, Mappings
<1>2. evalIdCntr \in 0 .. MaxEvals /\ MaxEvals \in Nat
  BY <1>1, ConstantsAssumption DEF IfaceTypeOK
<1>3. 1 .. evalIdCntr \subseteq Evals
  BY <1>2 DEF Evals
<1>4. resp \in [Evals -> RepType] /\ dataPairs \in SUBSET EntryType
  BY <1>1, Zenon DEF IfaceTypeOK, RepType, EntryType
<1>5. QED
  BY <1>1, <1>2, <1>3, <1>4, Zenon DEF IfaceTypeOK

(* An entry may be added to data_pairs, or not, when a job completes.      *)
LEMMA CachedFacts ==
  ASSUME NEW d
  PROVE  /\ Cached(d) \subseteq dataPairs \cup {d}
         /\ dataPairs \subseteq Cached(d)
         /\ EvalCacheFlag => d \in Cached(d)
         /\ dataPairs \in SUBSET EntryType /\ d \in EntryType =>
              Cached(d) \in SUBSET EntryType
BY DEF Cached

(* A step keeps the types when it keeps those of what it assigns.          *)
LEMMA TypeFrame ==
  ASSUME AInv,
         evalIdCntr' \in 0 .. MaxEvals,
         vars' \in [Evals -> Points \cup {NoPoint}],
         set' \in [Evals -> SUBSET Data],
         resp' \in [Evals -> RepType],
         coreQueue' \in SUBSET Evals, algQueue' \in SUBSET Evals,
         dupIds' \in SUBSET Evals, dupOf' \in [Evals -> 0 .. MaxEvals],
         histIds' \in SUBSET Evals, cachedIds' \in SUBSET Evals,
         rawIds' \in SUBSET Evals, consumed' \in SUBSET Evals,
         dataPairs' \in SUBSET EntryType,
         restartFile' \in Seq(FileRecord),
         pc' \in {"idle", "synch", "nowait", "undefined"},
         restarts' \in 0 .. MaxRestarts,
         executed' \in SUBSET (Points \X SUBSET Data),
         loaded' \in SUBSET EntryType \/ UNCHANGED loaded,
         UNCHANGED config
  PROVE  IfaceTypeOK'
<1>1. Evals' = Evals /\ Points' = Points
  BY DEF Evals, Points
<1>2. restartFile' \in Seq([id : Int, at : Points, data : SUBSET Data])
  <2>1. FileRecord \subseteq [id : Int, at : Points, data : SUBSET Data]
    BY DEF FileRecord, Evals
  <2>2. QED
    BY <2>1, SeqMonotonic
<1>3. loaded' \in SUBSET [id : Int, at : Points, data : SUBSET Data,
                          own : BOOLEAN]
  <2>1. EntryType \subseteq [id : Int, at : Points, data : SUBSET Data,
                             own : BOOLEAN]
    BY DEF EntryType
  <2>2. loaded \in SUBSET [id : Int, at : Points, data : SUBSET Data,
                           own : BOOLEAN]
    BY DEF AInv, IfaceTypeOK
  <2>3. QED
    BY <2>1, <2>2
<1>4. config \in Configurations
  BY Types
<1>5. QED
  BY <1>1, <1>2, <1>3, <1>4 DEF IfaceTypeOK, RepType, EntryType

(* Every step keeps the types, and gives variables and a set to the ids it *)
(* hands out.                                                              *)
LEMMA TypeStep ==
  ASSUME AInv, IfaceNext
  PROVE  IfaceTypeOK' /\ Mappings'
<1> USE Types
<1>1. /\ pc \in {"idle", "synch", "nowait", "undefined"}
      /\ restarts \in 0 .. MaxRestarts
      /\ executed \in SUBSET (Points \X SUBSET Data)
  BY DEF AInv, IfaceTypeOK
<1>2. \A id \in 1 .. evalIdCntr :
        vars[id] \in config.points /\ set[id] \subseteq config.data
  BY DEF AInv, Mappings
<1>3. config.points \subseteq Points /\ config.data \subseteq Data
  BY ConfigFacts
<1>4. ASSUME NEW p \in config.points, NEW s \in ActiveSets, Map(p, s)
      PROVE  IfaceTypeOK' /\ Mappings'
  <2> DEFINE id == evalIdCntr + 1
  <2>1. NewEvaluation(p, s)
    BY <1>4 DEF Map, MapDuplicate, MapSynch, MapAlgebraic, MapAsynchHistory,
                MapAsynchDuplicate, MapAsynchJob, MapAsynchAlgebraic
  <2>2. /\ pc = "idle" /\ evalIdCntr' \in 0 .. MaxEvals /\ id \in Evals
        /\ 1 .. evalIdCntr' = (1 .. evalIdCntr) \cup {id}
        /\ p \in Points /\ s \in SUBSET config.data /\ s \in SUBSET Data
        /\ vars' \in [Evals -> Points \cup {NoPoint}]
        /\ set' \in [Evals -> SUBSET Data]
        /\ vars'[id] = p /\ set'[id] = s
        /\ id \notin 1 .. evalIdCntr
        /\ \A e \in Evals \ {id} : vars'[e] = vars[e] /\ set'[e] = set[e]
    BY <2>1, NewIdFacts
  <2>3. JobSet(s) \in SUBSET Data
    BY <2>2, JobSetFacts
  <2>4. /\ resp' \in [Evals -> RepType] /\ dataPairs' \in SUBSET EntryType
    <3>1. ASSUME NEW d \in CacheHits(p, s), NEW n \in Nat
          PROVE  /\ Rep(d.at, s \cap d.data, n) \in RepType
                 /\ Promoted(d, id) \in SUBSET EntryType
      <4>1. d \in dataPairs /\ d \in EntryType
        BY <2>2, CacheHitFacts
      <4>2. d.at \in Points \cup {NoPoint} /\ s \cap d.data \in SUBSET Data
        BY <2>2, <4>1 DEF EntryType
      <4>3. Rep(d.at, s \cap d.data, n) \in RepType
        BY <4>2, RepFacts
      <4>4. Promoted(d, id) \in SUBSET EntryType
        BY <2>2, <4>1, PromotedFacts
      <4>5. QED
        BY <4>3, <4>4
    <3>2. \A d \in CacheHits(p, s) :
            OverlaysOf(d) \in Nat /\ (OverlaysOf(d) + Algebraic) \in Nat
      BY <2>2, CacheHitFacts, OverlaysOfType
    <3>3. CASE MapDuplicate(p, s)
      <4>1. PICK d \in CacheHits(p, s) :
              /\ dataPairs' = Promoted(d, id)
              /\ resp' = [resp EXCEPT ![id] =
                            Rep(d.at, s \cap d.data, OverlaysOf(d) + Algebraic)]
        BY <3>3 DEF MapDuplicate
      <4>2. Rep(d.at, s \cap d.data, OverlaysOf(d) + Algebraic) \in RepType
            /\ Promoted(d, id) \in SUBSET EntryType
        BY <3>1, <3>2
      <4>3. QED
        BY <2>2, <4>1, <4>2
    <3>4. CASE MapAsynchHistory(p, s)
      <4>1. PICK d \in CacheHits(p, s) :
              /\ dataPairs' = Promoted(d, id)
              /\ resp' = [resp EXCEPT ![id] =
                            Rep(d.at, s \cap d.data, OverlaysOf(d))]
        BY <3>4 DEF MapAsynchHistory
      <4>2. Rep(d.at, s \cap d.data, OverlaysOf(d)) \in RepType
            /\ Promoted(d, id) \in SUBSET EntryType
        BY <3>1, <3>2
      <4>3. QED
        BY <2>2, <4>1, <4>2
    <3>5. CASE MapSynch(p, s)
      <4>1. /\ resp' = [resp EXCEPT ![id] = Rep(p, JobSet(s), Algebraic)]
            /\ dataPairs' = Cached(Entry(id, p, JobSet(s), TRUE))
        BY <3>5 DEF MapSynch
      <4>2. Algebraic \in Nat
        BY DEF Algebraic
      <4>3. Rep(p, JobSet(s), Algebraic) \in RepType
            /\ Entry(id, p, JobSet(s), TRUE) \in EntryType
        BY <2>2, <2>3, <4>2, RepFacts, EntryFacts
      <4>4. Cached(Entry(id, p, JobSet(s), TRUE)) \in SUBSET EntryType
        BY <4>3, CachedFacts, Zenon
      <4>5. QED
        BY <2>2, <4>1, <4>3, <4>4
    <3>6. CASE MapAlgebraic(p, s)
      <4>1. Rep(p, s, 1) \in RepType
        BY <2>2, RepFacts
      <4>2. QED
        BY <2>2, <3>6, <4>1 DEF MapAlgebraic
    <3>7. CASE MapAsynchDuplicate(p, s) \/ MapAsynchJob(p, s)
               \/ MapAsynchAlgebraic(p, s)
      BY <3>7 DEF MapAsynchDuplicate, MapAsynchJob, MapAsynchAlgebraic
    <3>8. QED
      BY <1>4, <3>3, <3>4, <3>5, <3>6, <3>7 DEF Map
  <2>5. restartFile' \in Seq(FileRecord)
    <3>1. Logged(id, p, JobSet(s)) \in Seq(FileRecord)
      BY <2>2, <2>3, LoggedFacts
    <3>2. QED
      BY <1>4, <3>1 DEF Map, MapDuplicate, MapSynch, MapAlgebraic,
        MapAsynchHistory, MapAsynchDuplicate, MapAsynchJob, MapAsynchAlgebraic
  <2>6. /\ coreQueue' \in SUBSET Evals /\ algQueue' \in SUBSET Evals
        /\ dupIds' \in SUBSET Evals
        /\ histIds' \in SUBSET Evals /\ cachedIds' \in SUBSET Evals
        /\ rawIds' \in SUBSET Evals /\ consumed' \in SUBSET Evals
        /\ pc' = pc /\ restarts' = restarts /\ UNCHANGED <<loaded, config>>
    BY <1>4, <2>2 DEF Map, MapDuplicate, MapSynch, MapAlgebraic,
      MapAsynchHistory, MapAsynchDuplicate, MapAsynchJob, MapAsynchAlgebraic,
      QueueAlgebraic
  <2>7. dupOf' \in [Evals -> 0 .. MaxEvals]
    <3>1. CASE MapAsynchDuplicate(p, s)
      <4>1. PICK q \in QueueHits(p, s) : dupOf' = [dupOf EXCEPT ![id] = q]
        BY <3>1 DEF MapAsynchDuplicate
      <4>2. q \in 0 .. MaxEvals
        BY <4>1 DEF QueueHits, Evals
      <4>3. QED
        BY <2>2, <4>1, <4>2
    <3>2. CASE ~MapAsynchDuplicate(p, s)
      BY <1>4, <3>2 DEF Map, MapDuplicate, MapSynch, MapAlgebraic,
        MapAsynchHistory, MapAsynchJob, MapAsynchAlgebraic
    <3>3. QED
      BY <3>1, <3>2
  <2>8. executed' \in SUBSET (Points \X SUBSET Data)
    <3>1. executed' = executed \/ executed' = executed \cup {<<p, JobSet(s)>>}
      BY <1>4 DEF Map, MapDuplicate, MapSynch, MapAlgebraic,
        MapAsynchHistory, MapAsynchDuplicate, MapAsynchJob, MapAsynchAlgebraic
    <3>2. QED
      BY <1>1, <2>2, <2>3, <3>1
  <2>9. IfaceTypeOK'
    BY <1>1, <2>2, <2>4, <2>5, <2>6, <2>7, <2>8, TypeFrame
  <2>10. Mappings'
    BY <1>2, <2>2, <2>5, <2>6 DEF Mappings, FileRecord, Evals, Points
  <2>11. QED
    BY <2>9, <2>10
<1>5. ASSUME NEW id \in Evals, CompleteJob(id)
      PROVE  IfaceTypeOK' /\ Mappings'
  <2> DEFINE t == JobSet(set[id])
  <2>1. id \in coreQueue /\ id \in 1 .. evalIdCntr
    BY <1>5 DEF CompleteJob, AInv, Queues
  <2>2. vars[id] \in Points /\ t \in SUBSET Data
    BY <1>2, <1>3, <2>1, JobSetFacts
  <2> HIDE DEF t
  <2>3. /\ Rep(vars[id], t, 0) \in RepType
        /\ Entry(id, vars[id], t, FALSE) \in EntryType
        /\ Logged(id, vars[id], t) \in Seq(FileRecord)
    BY <2>2, RepFacts, EntryFacts, LoggedFacts
  <2>4. Cached(Entry(id, vars[id], t, FALSE)) \in SUBSET EntryType
    BY <2>3, CachedFacts, Zenon
  <2>5. /\ resp' = [resp EXCEPT ![id] = Rep(vars[id], t, 0)]
        /\ dataPairs' = Cached(Entry(id, vars[id], t, FALSE))
        /\ restartFile' = Logged(id, vars[id], t)
        /\ executed' = executed \cup {<<vars[id], t>>}
        /\ rawIds' = rawIds \cup {id}
        /\ UNCHANGED <<evalIdCntr, vars, set, coreQueue, algQueue, dupIds, dupOf,
                 histIds, cachedIds, pc, restarts, consumed, loaded, config>>
    BY <1>5 DEF CompleteJob, t
  <2>6. resp' \in [Evals -> RepType] /\ rawIds' \in SUBSET Evals
        /\ executed' \in SUBSET (Points \X SUBSET Data)
    BY <1>1, <2>2, <2>3, <2>5
  <2>7. IfaceTypeOK'
    BY <1>1, <2>3, <2>4, <2>5, <2>6, TypeFrame
  <2>8. Mappings'
    BY <1>2, <2>3, <2>5 DEF Mappings, FileRecord, Evals, Points
  <2>9. QED
    BY <2>7, <2>8
<1>6. ASSUME SynchronizeReturn \/ NowaitReturn
      PROVE  IfaceTypeOK' /\ Mappings'
  <2>1. resp' \in [Evals -> RepType]
    <3>1. \A id \in Evals : Updated(id) \in RepType /\ Mapped(id) \in RepType
      BY UpdatedFacts
    <3>2. CASE SynchronizeReturn
      BY <3>1, <3>2 DEF SynchronizeReturn
    <3>3. CASE NowaitReturn
      BY <3>1, <3>3 DEF NowaitReturn
    <3>4. QED
      BY <1>6, <3>2, <3>3
  <2>2. /\ coreQueue' \in SUBSET Evals /\ algQueue' \in SUBSET Evals
        /\ dupIds' \in SUBSET Evals /\ rawIds' \in SUBSET Evals
        /\ histIds' \in SUBSET Evals /\ cachedIds' \in SUBSET Evals
        /\ pc' = "idle"
        /\ UNCHANGED <<evalIdCntr, vars, set, dupOf, dataPairs, restartFile,
                       restarts, consumed, executed, loaded, config>>
    BY <1>6 DEF SynchronizeReturn, NowaitReturn, NowaitIds, ReadyDuplicates
  <2>3. IfaceTypeOK'
    BY <1>1, <2>1, <2>2, TypeFrame
  <2>4. Mappings'
    BY <1>2, <2>2 DEF Mappings, FileRecord, Evals, Points
  <2>5. QED
    BY <2>3, <2>4
<1>7. ASSUME \/ SynchronizeStart \/ NowaitStart \/ NowaitUndefined \/ Terminated
             \/ \E S \in SUBSET rawIds : CacheUnmatched(S)
      PROVE  IfaceTypeOK' /\ Mappings'
  <2>1. /\ rawIds' \in SUBSET Evals /\ consumed' \in SUBSET Evals
        /\ histIds' \in SUBSET Evals /\ cachedIds' \in SUBSET Evals
        /\ pc' \in {"idle", "synch", "nowait", "undefined"}
        /\ UNCHANGED <<evalIdCntr, vars, set, resp, coreQueue, algQueue,
                 dupIds, dupOf, dataPairs, restartFile, restarts, executed,
                 loaded, config>>
    BY <1>1, <1>7 DEF SynchronizeStart, NowaitStart, NowaitUndefined,
      Terminated, CacheUnmatched, ifaceVars
  <2>2. IfaceTypeOK'
    BY <1>1, <2>1, TypeFrame
  <2>3. Mappings'
    BY <1>2, <2>1 DEF Mappings, FileRecord, Evals, Points
  <2>4. QED
    BY <2>2, <2>3
<1>8. ASSUME NEW n \in 0 .. Len(restartFile), Restart(n)
      PROVE  IfaceTypeOK' /\ Mappings'
  <2> DEFINE kept == ById(SubSeq(restartFile, 1, n))
  <2>1. kept \in Seq(FileRecord)
    <3>1. SubSeq(restartFile, 1, n) \in Seq(FileRecord)
      <4>1. \A i \in 1 .. n : restartFile[i] \in FileRecord
        BY ElementOfSeq, LenProperties
      <4>2. QED
        BY <4>1, SubSeqProperties
    <3>2. \A r \in FileRecord : r.id \in Int
      BY DEF FileRecord, Evals
    <3>3. QED
      BY <3>1, <3>2, ByIdLists
  <2>2. Negated(kept) \in SUBSET EntryType
    <3>1. \A i \in DOMAIN kept : kept[i] \in FileRecord
      <4> HIDE DEF kept
      <4>1. QED
        BY <2>1, LenProperties, ElementOfSeq
    <3> HIDE DEF kept
    <3>2. ASSUME NEW r \in FileRecord
          PROVE  Entry(-r.id, r.at, r.data, TRUE) \in EntryType
      BY DEF Entry, EntryType, FileRecord, Evals
    <3>3. QED
      BY <3>1, <3>2 DEF Negated
  <2>3. /\ restartFile' = kept /\ dataPairs' = Negated(kept)
        /\ loaded' = Negated(kept) /\ evalIdCntr' = 0
        /\ vars' = [id \in Evals |-> NoPoint] /\ set' = [id \in Evals |-> {}]
        /\ resp' = [id \in Evals |-> EmptyRep]
        /\ coreQueue' = {} /\ algQueue' = {} /\ dupIds' = {}
        /\ dupOf' = [id \in Evals |-> 0]
        /\ histIds' = {} /\ cachedIds' = {} /\ rawIds' = {} /\ consumed' = {}
        /\ executed' = {} /\ pc' = "idle" /\ UNCHANGED config
        /\ restarts' = restarts + 1 /\ restarts < MaxRestarts
    BY <1>8 DEF Restart
  <2> HIDE DEF kept
  <2>4. EmptyRep \in RepType
    BY RepFacts DEF EmptyRep
  <2>5. /\ vars' \in [Evals -> Points \cup {NoPoint}]
        /\ set' \in [Evals -> SUBSET Data] /\ resp' \in [Evals -> RepType]
        /\ dupOf' \in [Evals -> 0 .. MaxEvals] /\ evalIdCntr' \in 0 .. MaxEvals
        /\ restarts' \in 0 .. MaxRestarts
    BY <1>1, <2>3, <2>4, ConstantsAssumption
  <2>6. IfaceTypeOK'
    BY <2>1, <2>2, <2>3, <2>5, TypeFrame
  <2>7. Mappings'
    BY <2>1, <2>3 DEF Mappings, FileRecord, Evals, Points
  <2>8. QED
    BY <2>6, <2>7
<1>9. QED
  BY <1>4, <1>5, <1>6, <1>7, <1>8 DEF IfaceNext

-----------------------------------------------------------------------------
(* Where the ids are.                                                      *)

(* The new id of a map() goes to one place: to the caller at once, or to   *)
(* one of the maps and queues.                                             *)
LEMMA MapQueues ==
  ASSUME AInv, NEW p \in config.points, NEW s \in ActiveSets, Map(p, s)
  PROVE  Queues'
<1> DEFINE id == evalIdCntr + 1
           n == 1 .. evalIdCntr
<1>1. NewEvaluation(p, s)
  BY DEF Map, MapDuplicate, MapSynch, MapAlgebraic, MapAsynchHistory,
         MapAsynchDuplicate, MapAsynchJob, MapAsynchAlgebraic
<1>2. /\ pc = "idle" /\ 1 .. evalIdCntr' = n \cup {id} /\ id \notin n
  BY <1>1, NewIdFacts
<1>3. config.core \in BOOLEAN /\ (config.core \/ config.algebraic)
  BY Types, ConfigFacts
<1> HIDE DEF id, n
<1>4. /\ Queues
      /\ coreQueue \cap rawIds = {} /\ coreQueue \cup algQueue \subseteq n
      /\ consumed \cup rawIds \cup cachedIds \cup histIds \cup dupIds \subseteq n
  BY <1>2 DEF AInv, Queues, Partition, n
<1>5. CASE MapDuplicate(p, s) \/ MapSynch(p, s) \/ MapAlgebraic(p, s)
  <2>1. /\ consumed' = consumed \cup {id} /\ pc' = "idle"
        /\ UNCHANGED <<coreQueue, algQueue, dupIds, histIds, cachedIds, rawIds,
                       config>>
    BY <1>2, <1>5 DEF MapDuplicate, MapSynch, MapAlgebraic, id
  <2>2. QED
    BY <1>2, <1>4, <2>1 DEF Queues, Partition, CoreMappings, n
<1>6. CASE MapAsynchHistory(p, s)
  <2>1. /\ histIds' = histIds \cup {id} /\ CoreMappings /\ pc' = "idle"
        /\ algQueue' \in {algQueue, algQueue \cup {id}}
        /\ UNCHANGED <<coreQueue, dupIds, cachedIds, rawIds, consumed, config>>
    BY <1>2, <1>6 DEF MapAsynchHistory, QueueAlgebraic, id
  <2>2. QED
    BY <1>2, <1>4, <2>1 DEF Queues, Partition, CoreMappings, n
<1>7. CASE MapAsynchDuplicate(p, s)
  <2>1. /\ dupIds' = dupIds \cup {id} /\ CoreMappings /\ pc' = "idle"
        /\ algQueue' \in {algQueue, algQueue \cup {id}}
        /\ UNCHANGED <<coreQueue, histIds, cachedIds, rawIds, consumed, config>>
    BY <1>2, <1>7 DEF MapAsynchDuplicate, QueueAlgebraic, id
  <2>2. QED
    BY <1>2, <1>4, <2>1 DEF Queues, Partition, CoreMappings, n
<1>8. CASE MapAsynchJob(p, s)
  <2>1. /\ coreQueue' = coreQueue \cup {id} /\ CoreMappings /\ pc' = "idle"
        /\ algQueue' \in {algQueue, algQueue \cup {id}}
        /\ UNCHANGED <<dupIds, histIds, cachedIds, rawIds, consumed, config>>
    BY <1>2, <1>8 DEF MapAsynchJob, QueueAlgebraic, id
  <2>2. QED
    BY <1>2, <1>4, <2>1 DEF Queues, Partition, CoreMappings, n
<1>9. CASE MapAsynchAlgebraic(p, s)
  <2>1. /\ algQueue' = algQueue \cup {id} /\ ~CoreMappings /\ pc' = "idle"
        /\ UNCHANGED <<coreQueue, dupIds, histIds, cachedIds, rawIds, consumed,
                       config>>
    BY <1>2, <1>3, <1>9 DEF MapAsynchAlgebraic, QueueAlgebraic, id, CoreMappings,
                            AlgebraicMappings
  <2>2. QED
    BY <1>2, <1>4, <2>1 DEF Queues, Partition, CoreMappings, n
<1>10. QED
  BY <1>5, <1>6, <1>7, <1>8, <1>9 DEF Map

(* The ids that synchronize_nowait returns, by where they come from.       *)
LEMMA NowaitIdsFacts ==
  ASSUME AInv, pc = "nowait"
  PROVE  /\ CoreMappings => NowaitIds = rawIds \cup ReadyDuplicates
                                          \cup cachedIds \cup histIds
         /\ ~CoreMappings => NowaitIds = rawIds \cup cachedIds \cup algQueue
         /\ ReadyDuplicates \subseteq dupIds
         /\ coreQueue \ NowaitIds = coreQueue \ rawIds
         /\ dupIds \ NowaitIds = dupIds \ ReadyDuplicates
         /\ \A id \in dupIds \cap NowaitIds : dupOf[id] \in rawIds
         /\ ReadyDuplicates \subseteq NowaitIds /\ rawIds \subseteq NowaitIds
<1>1. Queues
  BY DEF AInv
<1>2. ReadyDuplicates \subseteq dupIds
  BY DEF ReadyDuplicates
<1>3. CASE CoreMappings
  <2>1. NowaitIds = rawIds \cup ReadyDuplicates \cup cachedIds \cup histIds
    BY <1>3 DEF NowaitIds
  <2>2. \A id \in dupIds \cap NowaitIds : id \in ReadyDuplicates
    BY <1>1, <2>1 DEF Queues, Partition
  <2>3. QED
    BY <1>1, <1>2, <1>3, <2>1, <2>2 DEF Queues, Partition, ReadyDuplicates
<1>4. CASE ~CoreMappings
  BY <1>1, <1>2, <1>4 DEF Queues, NowaitIds
<1>5. QED
  BY <1>3, <1>4

(* Every step moves an id from one place to one other.                     *)
LEMMA QueuesStep ==
  ASSUME AInv, IfaceNext
  PROVE  Queues'
<1>1. Queues
  BY DEF AInv
<1>2. ASSUME NEW id \in Evals, CompleteJob(id) PROVE Queues'
  <2>1. /\ pc \in {"synch", "nowait"} /\ id \in coreQueue \ rawIds
        /\ rawIds' = rawIds \cup {id}
        /\ UNCHANGED <<evalIdCntr, coreQueue, algQueue, dupIds, histIds,
                       cachedIds, pc, consumed, config>>
    BY <1>2 DEF CompleteJob
  <2>2. QED
    BY <1>1, <2>1 DEF Queues, Partition, CoreMappings
<1>3. CASE SynchronizeStart
  <2>1. /\ pc = "idle" /\ consumed' = consumed \cup rawIds
        /\ rawIds' = cachedIds \cup histIds /\ cachedIds' = {} /\ histIds' = {}
        /\ pc' = "synch"
        /\ UNCHANGED <<evalIdCntr, coreQueue, algQueue, dupIds, config>>
    BY <1>3 DEF SynchronizeStart
  <2>2. coreQueue \ rawIds' = coreQueue \ rawIds
    BY <1>1, <2>1 DEF Queues
  <2>3. QED
    BY <1>1, <2>1, <2>2 DEF Queues, Partition, CoreMappings
<1>4. CASE NowaitStart
  <2>1. /\ pc = "idle" /\ consumed' = consumed \cup rawIds
        /\ rawIds' = {} /\ pc' = "nowait"
        /\ UNCHANGED <<evalIdCntr, coreQueue, algQueue, dupIds, cachedIds,
                       histIds, config>>
    BY <1>4 DEF NowaitStart
  <2>2. coreQueue \ rawIds' = coreQueue \ rawIds
    BY <1>1, <2>1 DEF Queues
  <2>3. QED
    BY <1>1, <2>1, <2>2 DEF Queues, Partition, CoreMappings
<1>5. CASE SynchronizeReturn
  <2>1. /\ pc = "synch" /\ coreQueue \subseteq rawIds
        /\ rawIds' = rawIds \cup dupIds \cup algQueue
        /\ coreQueue' = {} /\ dupIds' = {} /\ algQueue' = {} /\ pc' = "idle"
        /\ UNCHANGED <<evalIdCntr, histIds, cachedIds, consumed, config>>
    BY <1>5 DEF SynchronizeReturn
  <2>2. CASE CoreMappings
    <3>1. rawIds' = rawIds \cup dupIds
      BY <1>1, <2>1, <2>2 DEF Queues
    <3>2. QED
      BY <1>1, <2>1, <2>2, <3>1 DEF Queues, Partition, CoreMappings
  <2>3. CASE ~CoreMappings
    BY <1>1, <2>1, <2>3 DEF Queues, Partition, CoreMappings
  <2>4. QED
    BY <2>2, <2>3
<1>6. CASE NowaitReturn
  <2>1. /\ pc = "nowait" /\ rawIds' = NowaitIds
        /\ algQueue' = algQueue \ NowaitIds
        /\ coreQueue' = coreQueue \ NowaitIds
        /\ dupIds' = dupIds \ NowaitIds
        /\ histIds' = {} /\ cachedIds' = {} /\ pc' = "idle"
        /\ UNCHANGED <<evalIdCntr, consumed, config>>
    BY <1>6 DEF NowaitReturn
  <2>2. CASE CoreMappings
    <3>1. /\ NowaitIds = rawIds \cup ReadyDuplicates \cup cachedIds \cup histIds
          /\ ReadyDuplicates \subseteq dupIds
          /\ coreQueue' = coreQueue \ rawIds /\ dupIds' = dupIds \ ReadyDuplicates
      BY <2>1, <2>2, NowaitIdsFacts
    <3>2. QED
      BY <1>1, <2>1, <2>2, <3>1 DEF Queues, Partition, CoreMappings
  <2>3. CASE ~CoreMappings
    <3>1. NowaitIds = rawIds \cup cachedIds \cup algQueue
      BY <2>1, <2>3, NowaitIdsFacts
    <3>2. QED
      BY <1>1, <2>1, <2>3, <3>1 DEF Queues, Partition, CoreMappings
  <2>4. QED
    BY <2>2, <2>3
<1>7. CASE NowaitUndefined
  BY <1>1, <1>7 DEF NowaitUndefined, Queues, Partition, CoreMappings
<1>8. ASSUME NEW S \in SUBSET rawIds, CacheUnmatched(S) PROVE Queues'
  <2>1. /\ pc = "idle" /\ cachedIds' = cachedIds \cup S /\ rawIds' = rawIds \ S
        /\ UNCHANGED <<evalIdCntr, coreQueue, algQueue, dupIds, histIds, pc,
                       consumed, config>>
    BY <1>8 DEF CacheUnmatched
  <2>2. coreQueue \ rawIds' = coreQueue \ rawIds
    BY <1>1, <2>1 DEF Queues
  <2>3. QED
    BY <1>1, <2>1, <2>2 DEF Queues, Partition, CoreMappings
<1>9. ASSUME NEW n \in 0 .. Len(restartFile), Restart(n) PROVE Queues'
  <2>1. /\ evalIdCntr' = 0 /\ coreQueue' = {} /\ algQueue' = {} /\ dupIds' = {}
        /\ histIds' = {} /\ cachedIds' = {} /\ rawIds' = {} /\ consumed' = {}
        /\ pc' = "idle"
    BY <1>9 DEF Restart
  <2>2. 1 .. 0 = {}
    OBVIOUS
  <2>3. QED
    BY <2>1, <2>2 DEF Queues, Partition
<1>10. CASE Terminated
  BY <1>1, <1>10 DEF Terminated, ifaceVars, Queues, Partition, CoreMappings
<1>11. QED
  BY <1>2, <1>3, <1>4, <1>5, <1>6, <1>7, <1>8, <1>9, <1>10, MapQueues
  DEF IfaceNext

-----------------------------------------------------------------------------
(* Duplicates of queued jobs, and the jobs in the queue.                   *)

(* All ids in a map or a queue were handed out by map().                   *)
LEMMA KnownIds ==
  ASSUME AInv
  PROVE  /\ consumed \cup rawIds \cup cachedIds \cup histIds \cup dupIds
              \cup coreQueue \cup algQueue \subseteq 1 .. evalIdCntr
         /\ 1 .. evalIdCntr \subseteq Evals /\ evalIdCntr \in Nat
BY Types DEF AInv, Queues, Partition

(* map() writes only at its new id.                                        *)
LEMMA MapFrame ==
  ASSUME AInv, NEW p \in config.points, NEW s \in ActiveSets, Map(p, s)
  PROVE  /\ pc = "idle" /\ pc' = "idle" /\ evalIdCntr' = evalIdCntr + 1
         /\ evalIdCntr + 1 \in Evals /\ evalIdCntr + 1 \notin 1 .. evalIdCntr
         /\ p \in Points /\ s \in SUBSET config.data
         /\ vars'[evalIdCntr + 1] = p /\ set'[evalIdCntr + 1] = s
         /\ \A e \in 1 .. evalIdCntr :
              /\ vars'[e] = vars[e] /\ set'[e] = set[e] /\ resp'[e] = resp[e]
              /\ dupOf'[e] = dupOf[e]
         /\ UNCHANGED <<rawIds, cachedIds, config, loaded>>
<1>1. NewEvaluation(p, s)
  BY DEF Map, MapDuplicate, MapSynch, MapAlgebraic, MapAsynchHistory,
         MapAsynchDuplicate, MapAsynchJob, MapAsynchAlgebraic
<1>2. /\ pc = "idle" /\ evalIdCntr' = evalIdCntr + 1
      /\ evalIdCntr + 1 \in Evals /\ evalIdCntr + 1 \notin 1 .. evalIdCntr
      /\ 1 .. evalIdCntr \subseteq Evals
      /\ p \in Points /\ s \in SUBSET config.data
      /\ vars'[evalIdCntr + 1] = p /\ set'[evalIdCntr + 1] = s
      /\ \A e \in Evals \ {evalIdCntr + 1} :
           vars'[e] = vars[e] /\ set'[e] = set[e]
  BY <1>1, NewIdFacts
<1>3. pc' = pc /\ UNCHANGED <<rawIds, cachedIds, config, loaded>>
  BY DEF Map, MapDuplicate, MapSynch, MapAlgebraic, MapAsynchHistory,
         MapAsynchDuplicate, MapAsynchJob, MapAsynchAlgebraic
<1>4. \/ resp' = resp
      \/ \E r : resp' = [resp EXCEPT ![evalIdCntr + 1] = r]
  BY Zenon DEF Map, MapDuplicate, MapSynch, MapAlgebraic, MapAsynchHistory,
         MapAsynchDuplicate, MapAsynchJob, MapAsynchAlgebraic
<1>5. \/ dupOf' = dupOf
      \/ \E q : dupOf' = [dupOf EXCEPT ![evalIdCntr + 1] = q]
  BY DEF Map, MapDuplicate, MapSynch, MapAlgebraic, MapAsynchHistory,
         MapAsynchDuplicate, MapAsynchJob, MapAsynchAlgebraic
<1>6. \A e \in 1 .. evalIdCntr : resp'[e] = resp[e] /\ dupOf'[e] = dupOf[e]
  BY <1>2, <1>4, <1>5, Types
<1>7. QED
  BY <1>2, <1>3, <1>6

(* What the steps other than map(), the two returns and a restart leave    *)
(* alone.                                                                  *)
LEMMA StepFrame ==
  ASSUME \/ SynchronizeStart \/ NowaitStart \/ NowaitUndefined \/ Terminated
         \/ \E S \in SUBSET rawIds : CacheUnmatched(S)
  PROVE  UNCHANGED <<evalIdCntr, vars, set, resp, coreQueue, algQueue, dupIds,
                     dupOf, dataPairs, restartFile, executed, loaded, config>>
BY DEF SynchronizeStart, NowaitStart, NowaitUndefined, Terminated,
       CacheUnmatched, ifaceVars

(* The job a duplicate refers to stays queued until the duplicate is       *)
(* updated from it.                                                        *)
LEMMA DuplicatesStep ==
  ASSUME AInv, IfaceNext
  PROVE  DuplicatesAnchored'
<1>1. \A id \in dupIds :
        /\ dupOf[id] \in coreQueue /\ vars[dupOf[id]] = vars[id]
        /\ set[id] \subseteq JobSet(set[dupOf[id]])
  BY DEF AInv, DuplicatesAnchored
<1>2. ASSUME NEW p \in config.points, NEW s \in ActiveSets, Map(p, s)
      PROVE  DuplicatesAnchored'
  <2> DEFINE id == evalIdCntr + 1
  <2>1. /\ id \in Evals /\ id \notin 1 .. evalIdCntr
        /\ vars'[id] = p /\ set'[id] = s /\ UNCHANGED config
        /\ \A e \in 1 .. evalIdCntr :
             /\ vars'[e] = vars[e] /\ set'[e] = set[e] /\ dupOf'[e] = dupOf[e]
    BY <1>2, MapFrame
  <2>2. coreQueue \cup dupIds \subseteq 1 .. evalIdCntr /\ dupOf \in [Evals -> 0 .. MaxEvals]
    BY KnownIds, Types
  <2> HIDE DEF id
  <2>3. coreQueue \subseteq coreQueue'
    BY <1>2 DEF Map, MapDuplicate, MapSynch, MapAlgebraic, MapAsynchHistory,
         MapAsynchDuplicate, MapAsynchJob, MapAsynchAlgebraic
  <2>4. ASSUME NEW e \in dupIds
        PROVE  /\ dupOf'[e] \in coreQueue' /\ vars'[dupOf'[e]] = vars'[e]
               /\ set'[e] \subseteq JobSet(set'[dupOf'[e]])
    BY <1>1, <2>1, <2>2, <2>3, <2>4
  <2>5. CASE MapAsynchDuplicate(p, s)
    <3>1. PICK q \in QueueHits(p, s) : dupOf' = [dupOf EXCEPT ![id] = q]
      BY <2>5 DEF MapAsynchDuplicate, id
    <3>2. dupIds' = dupIds \cup {id}
      BY <2>5 DEF MapAsynchDuplicate, id
    <3>3. q \in coreQueue /\ vars[q] = p /\ s \subseteq JobSet(set[q])
      BY DEF QueueHits
    <3>4. dupOf'[id] = q
      BY <2>1, <2>2, <3>1
    <3>5. /\ dupOf'[id] \in coreQueue' /\ vars'[dupOf'[id]] = vars'[id]
          /\ set'[id] \subseteq JobSet(set'[dupOf'[id]])
      BY <2>1, <2>2, <2>3, <3>3, <3>4
    <3>6. QED
      BY <2>1, <2>4, <3>2, <3>5 DEF DuplicatesAnchored, JobSet, AsvControlFlag
  <2>6. CASE ~MapAsynchDuplicate(p, s)
    <3>1. dupIds' = dupIds
      BY <1>2, <2>6 DEF Map, MapDuplicate, MapSynch, MapAlgebraic,
         MapAsynchHistory, MapAsynchJob, MapAsynchAlgebraic
    <3>2. QED
      BY <2>1, <2>4, <3>1 DEF DuplicatesAnchored, JobSet, AsvControlFlag
  <2>7. QED
    BY <2>5, <2>6
<1>3. ASSUME NEW id \in Evals, CompleteJob(id) PROVE DuplicatesAnchored'
  BY <1>1, <1>3 DEF CompleteJob, DuplicatesAnchored, JobSet, AsvControlFlag
<1>4. CASE SynchronizeReturn
  BY <1>4 DEF SynchronizeReturn, DuplicatesAnchored
<1>5. CASE NowaitReturn
  <2>1. /\ pc = "nowait" /\ coreQueue' = coreQueue \ NowaitIds
        /\ dupIds' = dupIds \ NowaitIds
        /\ UNCHANGED <<vars, set, dupOf, config>>
    BY <1>5 DEF NowaitReturn
  <2>2. /\ coreQueue' = coreQueue \ rawIds
        /\ dupIds' = dupIds \ ReadyDuplicates
    BY <2>1, NowaitIdsFacts
  <2>3. QED
    BY <1>1, <2>1, <2>2 DEF DuplicatesAnchored, ReadyDuplicates, JobSet,
                            AsvControlFlag
<1>6. ASSUME \/ SynchronizeStart \/ NowaitStart \/ NowaitUndefined \/ Terminated
             \/ \E S \in SUBSET rawIds : CacheUnmatched(S)
      PROVE  DuplicatesAnchored'
  <2>1. UNCHANGED <<vars, set, coreQueue, dupIds, dupOf, config>>
    BY <1>6, StepFrame
  <2>2. QED
    BY <1>1, <2>1 DEF DuplicatesAnchored, JobSet, AsvControlFlag
<1>7. ASSUME NEW n \in 0 .. Len(restartFile), Restart(n)
      PROVE  DuplicatesAnchored'
  BY <1>7 DEF Restart, DuplicatesAnchored
<1>8. QED
  BY <1>2, <1>3, <1>4, <1>5, <1>6, <1>7 DEF IfaceNext

(* A job is queued only when no queued job will have its data.             *)
LEMMA RedundantStep ==
  ASSUME AInv, IfaceNext
  PROVE  NoRedundantJob'
<1>1. EvalCacheFlag =>
        \A a, b \in coreQueue :
          a < b /\ vars[a] = vars[b] => ~(set[b] \subseteq JobSet(set[a]))
  BY DEF AInv, NoRedundantJob
<1>2. ASSUME coreQueue' \subseteq coreQueue, UNCHANGED <<vars, set, config>>
      PROVE  NoRedundantJob'
  BY <1>1, <1>2 DEF NoRedundantJob, EvalCacheFlag, JobSet, AsvControlFlag
<1>3. ASSUME NEW p \in config.points, NEW s \in ActiveSets, Map(p, s)
      PROVE  NoRedundantJob'
  <2> DEFINE id == evalIdCntr + 1
  <2>1. /\ id \in Evals /\ id \notin 1 .. evalIdCntr
        /\ vars'[id] = p /\ set'[id] = s /\ UNCHANGED config
        /\ \A e \in 1 .. evalIdCntr : vars'[e] = vars[e] /\ set'[e] = set[e]
    BY <1>3, MapFrame
  <2>2. coreQueue \subseteq 1 .. evalIdCntr /\ evalIdCntr \in Nat
    BY KnownIds
  <2>3. \A a \in coreQueue : ~(id < a)
    <3>1. \A a \in 1 .. evalIdCntr : ~(evalIdCntr + 1 < a)
      BY <2>2
    <3>2. QED
      BY <2>2, <3>1
  <2> HIDE DEF id
  <2>4. ASSUME EvalCacheFlag, NEW a \in coreQueue, NEW b \in coreQueue,
               a < b, vars'[a] = vars'[b]
        PROVE  ~(set'[b] \subseteq JobSet(set'[a]))
    <3>1. /\ vars'[a] = vars[a] /\ vars'[b] = vars[b]
          /\ set'[a] = set[a] /\ set'[b] = set[b]
      BY <2>1, <2>2
    <3>2. ~(set[b] \subseteq JobSet(set[a]))
      BY <1>1, <2>4, <3>1
    <3>3. QED
      BY <3>1, <3>2, Zenon
  <2>5. CASE MapAsynchJob(p, s)
    <3>1. /\ coreQueue' = coreQueue \cup {id}
          /\ EvalCacheFlag => QueueHits(p, s) = {}
      BY <2>5 DEF MapAsynchJob, id
    <3>2. ASSUME EvalCacheFlag, NEW a \in coreQueue, vars'[a] = vars'[id]
          PROVE  ~(set'[id] \subseteq JobSet(set'[a]))
      <4>1. vars[a] = p
        BY <2>1, <2>2, <3>2
      <4>2. ~(s \subseteq JobSet(set[a]))
        BY <3>1, <3>2, <4>1 DEF QueueHits
      <4>3. QED
        BY <2>1, <2>2, <4>2
    <3>3. ~(id < id)
      BY <2>2 DEF id
    <3>4. QED
      BY <2>1, <2>3, <2>4, <3>1, <3>2, <3>3
      DEF NoRedundantJob, EvalCacheFlag, JobSet, AsvControlFlag
  <2>6. CASE ~MapAsynchJob(p, s)
    <3>1. coreQueue' = coreQueue
      BY <1>3, <2>6 DEF Map, MapDuplicate, MapSynch, MapAlgebraic,
         MapAsynchHistory, MapAsynchDuplicate, MapAsynchAlgebraic
    <3>2. QED
      BY <2>1, <2>4, <3>1
      DEF NoRedundantJob, EvalCacheFlag, JobSet, AsvControlFlag
  <2>7. QED
    BY <2>5, <2>6
<1>4. ASSUME NEW id \in Evals, CompleteJob(id) PROVE NoRedundantJob'
  BY <1>2, <1>4 DEF CompleteJob
<1>5. CASE SynchronizeReturn \/ NowaitReturn
  BY <1>2, <1>5 DEF SynchronizeReturn, NowaitReturn
<1>6. ASSUME \/ SynchronizeStart \/ NowaitStart \/ NowaitUndefined \/ Terminated
             \/ \E S \in SUBSET rawIds : CacheUnmatched(S)
      PROVE  NoRedundantJob'
  BY <1>2, <1>6, StepFrame
<1>7. ASSUME NEW n \in 0 .. Len(restartFile), Restart(n)
      PROVE  NoRedundantJob'
  BY <1>7 DEF Restart, NoRedundantJob
<1>8. QED
  BY <1>3, <1>4, <1>5, <1>6, <1>7 DEF IfaceNext

-----------------------------------------------------------------------------
(* The ids in data_pairs.                                                  *)

(* The calls that only move ids between the maps leave the jobs that are   *)
(* not done as they are.                                                   *)
LEMMA MovesFrame ==
  ASSUME AInv,
         \/ SynchronizeStart \/ NowaitStart \/ NowaitUndefined \/ Terminated
         \/ SynchronizeReturn \/ NowaitReturn
         \/ \E S \in SUBSET rawIds : CacheUnmatched(S)
  PROVE  /\ coreQueue' \ rawIds' \subseteq coreQueue \ rawIds
         /\ UNCHANGED <<evalIdCntr, vars, set, dataPairs, restartFile, executed,
                        loaded, config>>
<1>1. Queues
  BY DEF AInv
<1>2. CASE NowaitReturn
  <2>1. coreQueue \ NowaitIds = coreQueue \ rawIds
    BY <1>2, NowaitIdsFacts DEF NowaitReturn
  <2>2. QED
    BY <1>2, <2>1 DEF NowaitReturn
<1>3. CASE SynchronizeReturn
  BY <1>3 DEF SynchronizeReturn
<1>4. CASE SynchronizeStart \/ NowaitStart
           \/ \E S \in SUBSET rawIds : CacheUnmatched(S)
  BY <1>1, <1>4 DEF SynchronizeStart, NowaitStart, CacheUnmatched, Queues
<1>5. CASE NowaitUndefined \/ Terminated
  BY <1>5 DEF NowaitUndefined, Terminated, ifaceVars
<1>6. QED
  BY <1>2, <1>3, <1>4, <1>5

(* One entry under a new id may join data_pairs.                           *)
LEMMA EntriesJoin ==
  ASSUME AInv, NEW id \in Nat \ {0}, NEW P,
         \A e \in P : \/ e \in dataPairs
                      \/ e.id = id /\ e.own \in BOOLEAN,
         \A e, f \in P : e \notin dataPairs /\ f \notin dataPairs => e = f,
         dataPairs' = P,
         \A d \in dataPairs : d.id # id,
         evalIdCntr' \in Nat, evalIdCntr <= evalIdCntr', id <= evalIdCntr',
         id \notin coreQueue' \ rawIds',
         \A x \in coreQueue' \ rawIds' :
           x \in coreQueue \ rawIds \/ x = evalIdCntr + 1
  PROVE  Entries'
<1>1. dataPairs \in SUBSET EntryType /\ evalIdCntr \in Nat
  BY Types
<1>2. \A d \in dataPairs :
        /\ d.id \in Int
        /\ d.id > 0 => d.id <= evalIdCntr /\ d.id \notin coreQueue \ rawIds
        /\ ~d.own => d.id > 0
  BY <1>1 DEF AInv, Entries, EntryType
<1>3. \A d, e \in dataPairs : d.id = e.id /\ d.id > 0 => d = e
  BY DEF AInv, Entries, CurrentIdsUnique
<1>4. \A d \in dataPairs :
        d.id > 0 => d.id <= evalIdCntr' /\ d.id \notin coreQueue' \ rawIds'
  BY <1>1, <1>2
<1>5. QED
  BY <1>2, <1>3, <1>4 DEF Entries, CurrentIdsUnique

(* An entry joins data_pairs under the id of the evaluation that made or   *)
(* found it, which no entry has.                                           *)
LEMMA EntriesStep ==
  ASSUME AInv, IfaceNext
  PROVE  Entries'
<1> USE Types
<1>0. /\ \A d \in dataPairs :
           /\ d.id \in Int
           /\ d.id > 0 => d.id <= evalIdCntr /\ d.id \notin coreQueue \ rawIds
           /\ d.own \in BOOLEAN
           /\ ~d.own => d.id > 0
      /\ CurrentIdsUnique
      /\ evalIdCntr \in Nat
  BY DEF AInv, Entries, EntryType
<1>1. ASSUME NEW p \in config.points, NEW s \in ActiveSets, Map(p, s)
      PROVE  Entries'
  <2> DEFINE id == evalIdCntr + 1
  <2>1. /\ id \in Evals /\ p \in Points /\ evalIdCntr' = id
        /\ s \in SUBSET config.data /\ rawIds' = rawIds
    BY <1>1, MapFrame
  <2>2. id \in Nat \ {0} /\ id \notin coreQueue /\ evalIdCntr <= id
        /\ \A d \in dataPairs : d.id # id
    <3>1. id \notin 1 .. evalIdCntr /\ id \in Nat \ {0} /\ evalIdCntr <= id
      BY <1>0
    <3>2. ASSUME NEW d \in dataPairs PROVE d.id # id
      BY <1>0
    <3>3. QED
      BY <3>1, <3>2, KnownIds
  <2>3. CASE MapDuplicate(p, s) \/ MapAsynchHistory(p, s)
    <3>1. PICK d \in CacheHits(p, s) : dataPairs' = Promoted(d, id)
      BY <2>3 DEF MapDuplicate, MapAsynchHistory
    <3>2. d \in dataPairs /\ coreQueue' = coreQueue
      BY <2>1, <2>3, <3>1, CacheHitFacts DEF MapDuplicate, MapAsynchHistory
    <3>3. /\ \A e \in Promoted(d, id) :
               \/ e \in dataPairs
               \/ e.id = id /\ e.own \in BOOLEAN
          /\ \A e, f \in Promoted(d, id) :
               e \notin dataPairs /\ f \notin dataPairs => e = f
      BY <1>0, <2>1, <3>2, PromotedFacts
    <3> HIDE DEF id
    <3>4. QED
      BY <2>1, <2>2, <3>1, <3>2, <3>3, EntriesJoin
  <2>4. CASE MapSynch(p, s)
    <3> DEFINE n == Entry(id, p, JobSet(s), TRUE)
    <3>1. dataPairs' = Cached(n) /\ coreQueue' = coreQueue
      BY <2>4 DEF MapSynch
    <3>2. n.id = id /\ n.own = TRUE
      BY DEF Entry
    <3>3. \A e \in Cached(n) : e \in dataPairs \/ e = n
      BY CachedFacts, Zenon
    <3> HIDE DEF n, id
    <3>4. /\ \A e \in Cached(n) :
               e \in dataPairs \/ (e.id = id /\ e.own \in BOOLEAN)
          /\ \A e, f \in Cached(n) :
               e \notin dataPairs /\ f \notin dataPairs => e = f
      <4>1. n.own \in BOOLEAN
        BY <3>2
      <4>2. QED
        BY <3>2, <3>3, <4>1, Zenon
    <3>5. QED
      BY <2>1, <2>2, <3>1, <3>4, EntriesJoin
  <2>5. CASE MapAlgebraic(p, s) \/ MapAsynchDuplicate(p, s)
             \/ MapAsynchJob(p, s) \/ MapAsynchAlgebraic(p, s)
    <3>1. dataPairs' = dataPairs /\ coreQueue' \subseteq coreQueue \cup {id}
      BY <2>5 DEF MapAlgebraic, MapAsynchDuplicate, MapAsynchJob,
                  MapAsynchAlgebraic
    <3>2. \A d \in dataPairs : d.id > 0 => d.id <= evalIdCntr'
      BY <1>0, <2>1, <2>2
    <3> HIDE DEF id
    <3>3. QED
      BY <1>0, <2>1, <2>2, <3>1, <3>2 DEF Entries, CurrentIdsUnique
  <2>6. QED
    BY <1>1, <2>3, <2>4, <2>5 DEF Map
<1>2. ASSUME NEW id \in Evals, CompleteJob(id) PROVE Entries'
  <2> DEFINE n == Entry(id, vars[id], JobSet(set[id]), FALSE)
  <2>1. /\ id \in coreQueue \ rawIds /\ rawIds' = rawIds \cup {id}
        /\ dataPairs' = Cached(n) /\ UNCHANGED <<evalIdCntr, coreQueue>>
    BY <1>2 DEF CompleteJob
  <2>2. n.id = id /\ n.own = FALSE
    BY DEF Entry
  <2>3. \A e \in Cached(n) : e \in dataPairs \/ e = n
    BY CachedFacts, Zenon
  <2>4. id \in Nat \ {0} /\ id <= evalIdCntr
    BY <2>1, KnownIds
  <2>5. \A d \in dataPairs : d.id # id
    BY <1>0, <2>1, <2>4
  <2> HIDE DEF n
  <2>6. /\ \A e \in Cached(n) :
               e \in dataPairs \/ (e.id = id /\ e.own \in BOOLEAN)
        /\ \A e, f \in Cached(n) :
             e \notin dataPairs /\ f \notin dataPairs => e = f
    <3>1. n.own \in BOOLEAN
      BY <2>2
    <3>2. QED
      BY <2>2, <2>3, <3>1, Zenon
  <2>7. QED
    BY <1>0, <2>1, <2>4, <2>5, <2>6, EntriesJoin
<1>3. ASSUME \/ SynchronizeStart \/ NowaitStart \/ NowaitUndefined \/ Terminated
             \/ SynchronizeReturn \/ NowaitReturn
             \/ \E S \in SUBSET rawIds : CacheUnmatched(S)
      PROVE  Entries'
  <2>1. /\ coreQueue' \ rawIds' \subseteq coreQueue \ rawIds
        /\ UNCHANGED <<evalIdCntr, dataPairs>>
    BY <1>3, MovesFrame
  <2>2. QED
    BY <1>0, <2>1 DEF Entries, CurrentIdsUnique
<1>4. ASSUME NEW n \in 0 .. Len(restartFile), Restart(n) PROVE Entries'
  <2>1. dataPairs' = loaded' /\ dataPairs' \in SUBSET EntryType
    BY <1>4, TypeStep DEF IfaceNext, Restart, IfaceTypeOK, EntryType
  <2>2. \E k : dataPairs' = Negated(k) /\ k = restartFile' /\ k \in Seq(FileRecord)
    BY <1>4, TypeStep DEF IfaceNext, Restart, Mappings, FileRecord, Evals, Points
  <2>3. \A d \in dataPairs' : d.id < 0 /\ d.own
    <3>1. PICK k \in Seq(FileRecord) : dataPairs' = Negated(k)
      BY <2>2
    <3>2. ASSUME NEW i \in DOMAIN k PROVE k[i].id \in Evals
      <4>1. k[i] \in FileRecord
        BY ElementOfSeq, LenProperties
      <4>2. QED
        BY <4>1 DEF FileRecord
    <3>3. QED
      BY <3>1, <3>2 DEF Negated, Entry, Evals
  <2>4. \A d \in dataPairs' : ~(d.id > 0)
    BY <2>3, <2>1 DEF EntryType
  <2>5. QED
    BY <2>3, <2>4 DEF Entries, CurrentIdsUnique
<1>5. QED
  BY <1>1, <1>2, <1>3, <1>4 DEF IfaceNext

-----------------------------------------------------------------------------
(* The responses.                                                          *)

(* Where the rep of a returned id comes from: it was there, it is taken    *)
(* from a job that has completed, or it is algebraic alone.                *)
RepAsBefore(id) ==
  /\ id \in Held
  /\ resp'[id].at = resp[id].at /\ resp'[id].data = resp[id].data
RepFromJob(id) ==
  \E q \in coreQueue \cap rawIds :
    /\ vars[q] = vars[id] /\ set[id] \subseteq JobSet(set[q])
    /\ resp'[id].at = resp[q].at
    /\ resp'[id].data = set[id] \cap resp[q].data
RepAlgebraic(id) ==
  /\ ~CoreMappings
  /\ resp'[id].at = vars[id] /\ resp'[id].data = set[id]

(* Where the reps come from that a synchronization returns.                *)
LEMMA ReturnedReps ==
  ASSUME AInv, SynchronizeReturn \/ NowaitReturn
  PROVE  /\ coreQueue' \cap rawIds' = {}
         /\ Held' \subseteq 1 .. evalIdCntr
         /\ \A id \in Held' :
              RepAsBefore(id) \/ RepFromJob(id) \/ RepAlgebraic(id)
<1>1. Queues /\ DuplicatesAnchored
  BY DEF AInv
<1>2. /\ consumed \cup rawIds \cup cachedIds \cup histIds \cup dupIds
           \cup coreQueue \cup algQueue \subseteq 1 .. evalIdCntr
      /\ 1 .. evalIdCntr \subseteq Evals
  BY KnownIds
<1>3. ASSUME NEW id \in dupIds, dupOf[id] \in rawIds,
             resp'[id].at = Updated(id).at, resp'[id].data = Updated(id).data
      PROVE  RepFromJob(id)
  <2>1. id \in Evals
    BY <1>2
  <2>2. /\ Updated(id).at = resp[dupOf[id]].at
        /\ Updated(id).data = set[id] \cap resp[dupOf[id]].data
    BY <2>1, UpdatedFacts
  <2>3. /\ dupOf[id] \in coreQueue \cap rawIds
        /\ vars[dupOf[id]] = vars[id]
        /\ set[id] \subseteq JobSet(set[dupOf[id]])
    BY <1>1, <1>3 DEF DuplicatesAnchored
  <2>4. QED
    BY <1>3, <2>2, <2>3 DEF RepFromJob
<1>4. ASSUME NEW id \in Held \ dupIds,
             resp'[id] \in {resp[id], Updated(id)}
             \/ (CoreMappings /\ resp'[id] = Mapped(id))
      PROVE  RepAsBefore(id)
  <2>1. id \in Evals
    BY <1>2 DEF Held
  <2>2. Updated(id) = resp[id]
    BY <1>4, <2>1, UpdatedFacts
  <2>3. CoreMappings => Mapped(id).at = resp[id].at /\ Mapped(id).data = resp[id].data
    BY <2>1, <2>2, UpdatedFacts
  <2>4. QED
    BY <1>4, <2>2, <2>3 DEF RepAsBefore
<1>5. ASSUME NEW id \in algQueue, ~CoreMappings, resp'[id] = Mapped(id)
      PROVE  RepAlgebraic(id)
  <2>1. id \in Evals
    BY <1>2
  <2>2. Mapped(id).at = vars[id] /\ Mapped(id).data = set[id]
    BY <1>5, <2>1, UpdatedFacts
  <2>3. QED
    BY <1>5, <2>2 DEF RepAlgebraic
<1>6. CASE SynchronizeReturn
  <2>1. /\ pc = "synch" /\ coreQueue \subseteq rawIds
        /\ rawIds' = rawIds \cup dupIds \cup algQueue /\ coreQueue' = {}
        /\ UNCHANGED <<histIds, cachedIds, consumed>>
        /\ resp' = [id \in Evals |-> IF id \in algQueue THEN Mapped(id)
                                     ELSE IF id \in dupIds THEN Updated(id)
                                     ELSE resp[id]]
    BY <1>6 DEF SynchronizeReturn
  <2>2. Held' = Held \cup dupIds \cup algQueue
    BY <2>1 DEF Held
  <2>3. ASSUME NEW id \in Held'
        PROVE  RepAsBefore(id) \/ RepFromJob(id) \/ RepAlgebraic(id)
    <3>1. id \in Evals /\ resp'[id] = IF id \in algQueue THEN Mapped(id)
                                      ELSE IF id \in dupIds THEN Updated(id)
                                      ELSE resp[id]
      BY <1>2, <2>1, <2>2 DEF Held
    <3>2. CASE id \in dupIds
      <4>1. CoreMappings
        BY <1>1, <3>2 DEF Queues
      <4>2. Mapped(id).at = Updated(id).at /\ Mapped(id).data = Updated(id).data
        BY <3>1, <4>1, UpdatedFacts
      <4>3. resp'[id].at = Updated(id).at /\ resp'[id].data = Updated(id).data
        BY <3>1, <3>2, <4>2
      <4>4. dupOf[id] \in rawIds
        BY <1>1, <2>1, <3>2 DEF DuplicatesAnchored
      <4>5. QED
        BY <1>3, <3>2, <4>3, <4>4
    <3>3. CASE id \notin dupIds /\ CoreMappings
      <4>1. id \in Held
        BY <1>1, <2>1, <2>2, <3>3 DEF Queues, Held
      <4>2. QED
        BY <1>4, <3>1, <3>3, <4>1
    <3>4. CASE id \notin dupIds /\ ~CoreMappings
      <4>1. CASE id \in algQueue
        BY <1>5, <3>1, <3>4, <4>1
      <4>2. CASE id \notin algQueue
        BY <1>4, <2>2, <3>1, <3>4, <4>2
      <4>3. QED
        BY <4>1, <4>2
    <3>5. QED
      BY <3>2, <3>3, <3>4
  <2>4. QED
    BY <1>2, <2>1, <2>2, <2>3 DEF Held
<1>7. CASE NowaitReturn
  <2>1. /\ pc = "nowait" /\ rawIds' = NowaitIds
        /\ coreQueue' = coreQueue \ NowaitIds
        /\ histIds' = {} /\ cachedIds' = {} /\ consumed' = consumed
        /\ resp' = [id \in Evals |-> IF id \notin NowaitIds THEN resp[id]
                                     ELSE IF id \in algQueue THEN Mapped(id)
                                     ELSE Updated(id)]
    BY <1>7 DEF NowaitReturn
  <2>2. Held' = consumed \cup NowaitIds
    BY <2>1 DEF Held
  <2>3. /\ CoreMappings => NowaitIds = rawIds \cup ReadyDuplicates
                                         \cup cachedIds \cup histIds
        /\ ~CoreMappings => NowaitIds = rawIds \cup cachedIds \cup algQueue
        /\ ReadyDuplicates \subseteq dupIds
        /\ \A id \in dupIds \cap NowaitIds : dupOf[id] \in rawIds
    BY <2>1, NowaitIdsFacts
  <2>4. NowaitIds \subseteq 1 .. evalIdCntr
    BY <1>2, <2>3
  <2>5. ASSUME NEW id \in Held'
        PROVE  RepAsBefore(id) \/ RepFromJob(id) \/ RepAlgebraic(id)
    <3>1. id \in Evals /\ resp'[id] = IF id \notin NowaitIds THEN resp[id]
                                      ELSE IF id \in algQueue THEN Mapped(id)
                                      ELSE Updated(id)
      BY <1>2, <2>1, <2>2, <2>4
    <3>2. CASE id \in dupIds
      <4>1. CoreMappings /\ id \in NowaitIds
        BY <1>1, <2>2, <3>2 DEF Queues, Partition
      <4>2. Mapped(id).at = Updated(id).at /\ Mapped(id).data = Updated(id).data
        BY <3>1, <4>1, UpdatedFacts
      <4>3. resp'[id].at = Updated(id).at /\ resp'[id].data = Updated(id).data
        BY <3>1, <3>2, <4>1, <4>2
      <4>4. QED
        BY <1>3, <2>3, <3>2, <4>1, <4>3
    <3>3. CASE id \notin dupIds /\ CoreMappings
      <4>1. id \in Held
        BY <2>2, <2>3, <3>3 DEF Held
      <4>2. QED
        BY <1>4, <3>1, <3>3, <4>1
    <3>4. CASE id \notin dupIds /\ ~CoreMappings
      <4>1. CASE id \in algQueue
        BY <1>5, <2>3, <3>1, <3>4, <4>1
      <4>2. CASE id \notin algQueue
        <5>1. id \in Held
          BY <2>2, <2>3, <3>4, <4>2 DEF Held
        <5>2. QED
          BY <1>4, <3>1, <3>4, <4>2, <5>1
      <4>3. QED
        BY <4>1, <4>2
    <3>5. QED
      BY <3>2, <3>3, <3>4
  <2>6. QED
    BY <1>2, <2>1, <2>2, <2>4, <2>5
<1>8. QED
  BY <1>6, <1>7

(* The rep that a map() gives to its new id: that of an entry of data_pairs, *)
(* that of its own simulation, or an algebraic one.                        *)
LEMMA MapReps ==
  ASSUME AInv, NEW p \in config.points, NEW s \in ActiveSets, Map(p, s)
  PROVE  \/ Held' = Held
         \/ /\ Held' = Held \cup {evalIdCntr + 1}
            /\ \/ \E d \in CacheHits(p, s) :
                    /\ resp'[evalIdCntr + 1].at = d.at
                    /\ resp'[evalIdCntr + 1].data = s \cap d.data
               \/ /\ MapSynch(p, s)
                  /\ resp'[evalIdCntr + 1].at = p
                  /\ resp'[evalIdCntr + 1].data = JobSet(s)
               \/ /\ ~CoreMappings
                  /\ resp'[evalIdCntr + 1].at = p
                  /\ resp'[evalIdCntr + 1].data = s
<1> DEFINE id == evalIdCntr + 1
<1>1. id \in Evals /\ resp \in [Evals -> RepType]
  BY MapFrame, Types
<1> HIDE DEF id
<1>2. ASSUME NEW r, resp' = [resp EXCEPT ![id] = r] PROVE resp'[id] = r
  BY <1>1, <1>2
<1>3. CASE MapDuplicate(p, s)
  <2>1. PICK d \in CacheHits(p, s) :
          resp' = [resp EXCEPT ![id] =
                     Rep(d.at, s \cap d.data, OverlaysOf(d) + Algebraic)]
    BY <1>3 DEF MapDuplicate, id
  <2>2. resp'[id].at = d.at /\ resp'[id].data = s \cap d.data
    BY <1>2, <2>1 DEF Rep
  <2>3. Held' = Held \cup {id}
    BY <1>3 DEF MapDuplicate, Held, id
  <2>4. QED
    BY <2>2, <2>3 DEF id
<1>4. CASE MapAsynchHistory(p, s)
  <2>1. PICK d \in CacheHits(p, s) :
          resp' = [resp EXCEPT ![id] =
                     Rep(d.at, s \cap d.data, OverlaysOf(d))]
    BY <1>4 DEF MapAsynchHistory, id
  <2>2. resp'[id].at = d.at /\ resp'[id].data = s \cap d.data
    BY <1>2, <2>1 DEF Rep
  <2>3. Held' = Held \cup {id}
    BY <1>4 DEF MapAsynchHistory, Held, id
  <2>4. QED
    BY <2>2, <2>3 DEF id
<1>5. CASE MapSynch(p, s)
  <2>1. resp' = [resp EXCEPT ![id] = Rep(p, JobSet(s), Algebraic)]
        /\ Held' = Held \cup {id}
    BY <1>5 DEF MapSynch, Held, id
  <2>2. resp'[id].at = p /\ resp'[id].data = JobSet(s)
    BY <1>2, <2>1 DEF Rep
  <2>3. QED
    BY <1>5, <2>1, <2>2 DEF id
<1>6. CASE MapAlgebraic(p, s)
  <2>1. resp' = [resp EXCEPT ![id] = Rep(p, s, 1)] /\ Held' = Held \cup {id}
        /\ ~CoreMappings
    BY <1>6 DEF MapAlgebraic, Held, id
  <2>2. resp'[id].at = p /\ resp'[id].data = s
    BY <1>2, <2>1 DEF Rep
  <2>3. QED
    BY <2>1, <2>2 DEF id
<1>7. CASE MapAsynchDuplicate(p, s) \/ MapAsynchJob(p, s)
           \/ MapAsynchAlgebraic(p, s)
  BY <1>7 DEF MapAsynchDuplicate, MapAsynchJob, MapAsynchAlgebraic, Held
<1>8. QED
  BY <1>3, <1>4, <1>5, <1>6, <1>7 DEF Map

(* The steps that only move ids between the maps bring no response to      *)
(* light that was not there.                                               *)
LEMMA HeldFrame ==
  ASSUME \/ SynchronizeStart \/ NowaitStart \/ NowaitUndefined \/ Terminated
         \/ \E S \in SUBSET rawIds : CacheUnmatched(S)
  PROVE  Held' = Held
BY DEF SynchronizeStart, NowaitStart, NowaitUndefined, Terminated,
       CacheUnmatched, ifaceVars, Held

(* A response matches what was asked for: where it is new it was looked up *)
(* with the variables and set of its id, or comes from a job at the same   *)
(* variables, and afterwards it is handed on.                              *)
LEMMA ResponsesStep ==
  ASSUME AInv, IfaceNext
  PROVE  Responses'
<1> USE Types
<1>1. /\ \A id \in Held : Matches(id)
      /\ \A q \in coreQueue \cap rawIds :
           resp[q].at = vars[q] /\ resp[q].data = JobSet(set[q])
      /\ Queues
  BY DEF AInv, Responses
<1>2. /\ Held \cup dupIds \cup coreQueue \cup algQueue \subseteq 1 .. evalIdCntr
      /\ 1 .. evalIdCntr \subseteq Evals
  BY KnownIds DEF Held
<1>3. \A id \in 1 .. evalIdCntr :
        vars[id] \in Points /\ set[id] \in SUBSET config.data
  BY ConfigFacts DEF AInv, Mappings
<1>4. ASSUME NEW p \in config.points, NEW s \in ActiveSets, Map(p, s)
      PROVE  Responses'
  <2> DEFINE id == evalIdCntr + 1
  <2>1. /\ pc = "idle" /\ pc' = "idle" /\ id \in Evals /\ p \in Points
        /\ s \in SUBSET config.data
        /\ vars'[id] = p /\ set'[id] = s
        /\ \A e \in 1 .. evalIdCntr :
             vars'[e] = vars[e] /\ set'[e] = set[e] /\ resp'[e] = resp[e]
        /\ UNCHANGED config
    BY <1>4, MapFrame
  <2>2. coreQueue' \cap rawIds' = {}
    BY <1>4, <2>1, MapQueues DEF Queues
  <2>3. ASSUME NEW e \in Held
        PROVE  /\ set'[e] \subseteq resp'[e].data
               /\ IF NearbyDetect THEN vars'[e] \in Near[resp'[e].at]
                                  ELSE vars'[e] = resp'[e].at
    <3>1. Matches(e) /\ e \in 1 .. evalIdCntr
      BY <1>1, <1>2
    <3>2. vars'[e] = vars[e] /\ set'[e] = set[e] /\ resp'[e] = resp[e]
      BY <2>1, <3>1
    <3>3. QED
      BY <3>1, <3>2 DEF Matches
  <2>4. ASSUME Held' # Held
        PROVE  /\ set'[id] \subseteq resp'[id].data
               /\ IF NearbyDetect THEN vars'[id] \in Near[resp'[id].at]
                                  ELSE vars'[id] = resp'[id].at
    <3>1. s \subseteq JobSet(s) /\ p \in Near[p]
      BY <2>1, JobSetFacts, NearSelf
    <3>2. \A d \in CacheHits(p, s) :
            /\ s \subseteq d.data
            /\ IF NearbyDetect THEN p \in Near[d.at] ELSE p = d.at
      BY <2>1, CacheHitFacts
    <3>3. \/ \E d \in CacheHits(p, s) :
               resp'[id].at = d.at /\ resp'[id].data = s \cap d.data
          \/ resp'[id].at = p /\ resp'[id].data = JobSet(s)
          \/ resp'[id].at = p /\ resp'[id].data = s
      BY <1>4, <2>4, MapReps
    <3> HIDE DEF id
    <3>4. QED
      BY <2>1, <3>1, <3>2, <3>3
  <2>5. Held' = Held \/ Held' = Held \cup {id}
    BY <1>4, MapReps
  <2>6. ASSUME NEW e \in Held'
        PROVE  /\ set'[e] \subseteq resp'[e].data
               /\ IF NearbyDetect THEN vars'[e] \in Near[resp'[e].at]
                                  ELSE vars'[e] = resp'[e].at
    <3> HIDE DEF id
    <3>1. CASE e \in Held
      BY <2>3, <3>1
    <3>2. CASE e \notin Held
      <4>1. e = id /\ Held' # Held
        BY <2>5, <3>2
      <4>2. QED
        BY <2>4, <4>1
    <3>3. QED
      BY <3>1, <3>2
  <2> HIDE DEF id
  <2>7. QED
    BY <2>1, <2>2, <2>6 DEF Responses, Matches, NearbyDetect
<1>5. ASSUME NEW id \in Evals, CompleteJob(id) PROVE Responses'
  <2> DEFINE t == JobSet(set[id])
  <2>1. /\ id \in coreQueue \ rawIds
        /\ resp' = [resp EXCEPT ![id] = Rep(vars[id], t, 0)]
        /\ rawIds' = rawIds \cup {id}
        /\ UNCHANGED <<vars, set, coreQueue, histIds, cachedIds, consumed, config>>
    BY <1>5 DEF CompleteJob
  <2>2. /\ resp'[id].at = vars[id] /\ resp'[id].data = t
        /\ \A e \in Evals \ {id} : resp'[e] = resp[e]
    BY <2>1 DEF Rep
  <2>3. vars[id] \in Points /\ set[id] \subseteq t /\ vars[id] \in Near[vars[id]]
    BY <1>2, <1>3, <2>1, JobSetFacts, NearSelf
  <2>4. Held' = Held \cup {id}
    BY <2>1 DEF Held
  <2>5. t = JobSet(set'[id])
    BY <2>1
  <2> HIDE DEF t
  <2>6. ASSUME NEW e \in Held' PROVE Matches(e)'
    <3>1. CASE e = id
      BY <2>1, <2>2, <2>3, <3>1 DEF Matches, NearbyDetect
    <3>2. CASE e # id
      <4>1. e \in Held /\ Matches(e) /\ resp'[e] = resp[e]
        BY <1>1, <1>2, <2>2, <2>4, <3>2
      <4>2. QED
        BY <2>1, <4>1 DEF Matches, NearbyDetect
    <3>3. QED
      BY <3>1, <3>2
  <2>7. ASSUME NEW q \in coreQueue' \cap rawIds'
        PROVE  resp'[q].at = vars'[q] /\ resp'[q].data = JobSet(set'[q])
    <3>1. CASE q = id
      BY <2>1, <2>2, <2>5, <3>1
    <3>2. CASE q # id
      <4>1. q \in coreQueue \cap rawIds /\ resp'[q] = resp[q]
        BY <1>2, <2>1, <2>2, <3>2
      <4>2. QED
        BY <1>1, <2>1, <4>1
    <3>3. QED
      BY <3>1, <3>2
  <2>8. QED
    BY <2>1, <2>6, <2>7 DEF Responses, JobSet, AsvControlFlag
<1>6. ASSUME SynchronizeReturn \/ NowaitReturn PROVE Responses'
  <2>1. /\ coreQueue' \cap rawIds' = {}
        /\ Held' \subseteq 1 .. evalIdCntr
        /\ \A id \in Held' :
             RepAsBefore(id) \/ RepFromJob(id) \/ RepAlgebraic(id)
    BY <1>6, ReturnedReps
  <2>2. UNCHANGED <<vars, set, config>>
    BY <1>6 DEF SynchronizeReturn, NowaitReturn
  <2>3. ASSUME NEW id \in Held'
        PROVE  /\ set[id] \subseteq resp'[id].data
               /\ IF NearbyDetect THEN vars[id] \in Near[resp'[id].at]
                                  ELSE vars[id] = resp'[id].at
    <3>1. vars[id] \in Points /\ vars[id] \in Near[vars[id]]
      BY <1>3, <2>1, NearSelf
    <3>2. CASE RepAsBefore(id)
      BY <1>1, <3>2 DEF RepAsBefore, Matches
    <3>3. CASE RepFromJob(id)
      BY <1>1, <3>1, <3>3 DEF RepFromJob
    <3>4. CASE RepAlgebraic(id)
      BY <3>1, <3>4 DEF RepAlgebraic
    <3>5. QED
      BY <2>1, <3>2, <3>3, <3>4
  <2>4. QED
    BY <2>1, <2>2, <2>3 DEF Responses, Matches, NearbyDetect
<1>7. ASSUME \/ SynchronizeStart \/ NowaitStart \/ NowaitUndefined \/ Terminated
             \/ \E S \in SUBSET rawIds : CacheUnmatched(S)
      PROVE  Responses'
  <2>1. UNCHANGED <<vars, set, resp, coreQueue, config>> /\ Held' = Held
    BY <1>7, StepFrame, HeldFrame
  <2>2. coreQueue' \cap rawIds' \subseteq coreQueue \cap rawIds
    BY <1>1, <1>7 DEF SynchronizeStart, NowaitStart, NowaitUndefined,
       Terminated, CacheUnmatched, ifaceVars, Queues
  <2>3. QED
    BY <1>1, <2>1, <2>2 DEF Responses, Matches, NearbyDetect, JobSet, AsvControlFlag
<1>8. ASSUME NEW n \in 0 .. Len(restartFile), Restart(n) PROVE Responses'
  BY <1>8 DEF Restart, Responses, Held
<1>9. QED
  BY <1>4, <1>5, <1>6, <1>7, <1>8 DEF IfaceNext

-----------------------------------------------------------------------------
(* What is on disk.                                                        *)

(* The restart file after a step has a record at p with the data s.        *)
OnNewFile(p, s) ==
  \E i \in DOMAIN restartFile' : /\ restartFile'[i].at = p
                                /\ s \subseteq restartFile'[i].data

(* Only a restart takes records from the file; a job that completes is     *)
(* written at once.                                                        *)
LEMMA FileGrows ==
  ASSUME AInv,
         \/ \E p \in config.points, s \in ActiveSets : Map(p, s)
         \/ \E id \in Evals : CompleteJob(id)
         \/ SynchronizeReturn \/ NowaitReturn
         \/ SynchronizeStart \/ NowaitStart \/ NowaitUndefined \/ Terminated
         \/ \E S \in SUBSET rawIds : CacheUnmatched(S)
  PROVE  \A p, s : OnFile(p, s) => OnNewFile(p, s)
<1> USE Types
<1>1. ASSUME NEW id \in Evals, NEW p \in Points, NEW t \in SUBSET Data,
             restartFile' = Logged(id, p, t)
      PROVE  \A q, s : OnFile(q, s) => OnNewFile(q, s)
  <2>1. /\ DOMAIN restartFile \subseteq DOMAIN restartFile'
        /\ \A i \in DOMAIN restartFile : restartFile'[i] = restartFile[i]
    BY <1>1, LoggedFacts
  <2>2. QED
    BY <2>1, Zenon DEF OnFile, OnNewFile
<1>2. ASSUME restartFile' = restartFile
      PROVE  \A q, s : OnFile(q, s) => OnNewFile(q, s)
  BY <1>2, Zenon DEF OnFile, OnNewFile
<1>3. ASSUME NEW p \in config.points, NEW s \in ActiveSets, Map(p, s)
      PROVE  \A q, t : OnFile(q, t) => OnNewFile(q, t)
  <2>1. CASE MapSynch(p, s)
    <3>1. restartFile' = Logged(evalIdCntr + 1, p, JobSet(s))
      BY <2>1 DEF MapSynch
    <3>2. evalIdCntr + 1 \in Evals /\ p \in Points /\ s \in SUBSET config.data
      BY <1>3, MapFrame
    <3>3. JobSet(s) \in SUBSET Data
      BY <3>2, JobSetFacts
    <3>4. QED
      BY <1>1, <3>1, <3>2, <3>3
  <2>2. CASE ~MapSynch(p, s)
    <3>1. restartFile' = restartFile
      BY <1>3, <2>2 DEF Map, MapDuplicate, MapAlgebraic, MapAsynchHistory,
         MapAsynchDuplicate, MapAsynchJob, MapAsynchAlgebraic
    <3>2. QED
      BY <1>2, <3>1
  <2>3. QED
    BY <2>1, <2>2
<1>4. ASSUME NEW id \in Evals, CompleteJob(id)
      PROVE  \A q, s : OnFile(q, s) => OnNewFile(q, s)
  <2>1. restartFile' = Logged(id, vars[id], JobSet(set[id]))
        /\ id \in coreQueue
    BY <1>4 DEF CompleteJob
  <2>2. vars[id] \in Points /\ set[id] \in SUBSET config.data
    BY <2>1, KnownIds, ConfigFacts DEF AInv, Mappings
  <2>3. JobSet(set[id]) \in SUBSET Data
    BY <2>2, JobSetFacts
  <2>4. QED
    BY <1>1, <2>1, <2>2, <2>3
<1>5. ASSUME \/ SynchronizeReturn \/ NowaitReturn
             \/ SynchronizeStart \/ NowaitStart \/ NowaitUndefined \/ Terminated
             \/ \E S \in SUBSET rawIds : CacheUnmatched(S)
      PROVE  \A q, s : OnFile(q, s) => OnNewFile(q, s)
  <2>1. restartFile' = restartFile
    BY <1>5, MovesFrame
  <2>2. QED
    BY <1>2, <2>1
<1>6. QED
  BY <1>3, <1>4, <1>5

(* The parts of OnDisk after a step.                                       *)
LEMMA OnDiskParts ==
  ASSUME AInv, UNCHANGED config,
         RestartFileFlag /\ CoreMappings =>
           /\ \A d \in dataPairs' : OnNewFile(d.at, d.data)
           /\ \A id \in Held' : OnNewFile(resp'[id].at, resp'[id].data)
  PROVE  OnDisk'
BY DEF OnDisk, OnFile, OnNewFile, RestartFileFlag, CoreMappings

(* A result enters data_pairs and the maps together with its record on     *)
(* the restart file, or is a part of one that did.                         *)
LEMMA OnDiskStep ==
  ASSUME AInv, IfaceNext
  PROVE  OnDisk'
<1> USE Types
<1>1. RestartFileFlag /\ CoreMappings =>
        /\ \A d \in dataPairs : OnFile(d.at, d.data)
        /\ \A id \in Held : OnFile(resp[id].at, resp[id].data)
  BY DEF AInv, OnDisk
<1>2. \A p, s, t : OnNewFile(p, s) /\ t \subseteq s => OnNewFile(p, t)
  BY DEF OnNewFile
<1>3. Held \cup coreQueue \subseteq 1 .. evalIdCntr
      /\ 1 .. evalIdCntr \subseteq Evals
  BY KnownIds DEF Held
<1>4. ASSUME NEW p \in config.points, NEW s \in ActiveSets, Map(p, s)
      PROVE  OnDisk'
  <2> DEFINE id == evalIdCntr + 1
  <2>1. /\ id \in Evals /\ p \in Points /\ s \in SUBSET config.data
        /\ \A e \in 1 .. evalIdCntr : resp'[e] = resp[e]
        /\ UNCHANGED config
    BY <1>4, MapFrame
  <2>2. \A q, t : OnFile(q, t) => OnNewFile(q, t)
    BY <1>4, FileGrows
  <2>3. JobSet(s) \in SUBSET Data
    BY <2>1, JobSetFacts
  <2>4. ASSUME MapSynch(p, s), RestartFileFlag PROVE OnNewFile(p, JobSet(s))
    <3>1. restartFile' = Logged(id, p, JobSet(s))
      BY <2>4 DEF MapSynch
    <3>2. \E i \in DOMAIN restartFile' :
            restartFile'[i].at = p /\ restartFile'[i].data = JobSet(s)
      BY <2>1, <2>3, <2>4, <3>1, LoggedFacts
    <3>3. QED
      BY <3>2 DEF OnNewFile
  <2>5. ASSUME RestartFileFlag, CoreMappings, NEW d \in dataPairs'
        PROVE  OnNewFile(d.at, d.data)
    <3>1. CASE MapDuplicate(p, s) \/ MapAsynchHistory(p, s)
      <4>1. PICK h \in CacheHits(p, s) : dataPairs' = Promoted(h, id)
        BY <3>1 DEF MapDuplicate, MapAsynchHistory
      <4>2. h \in dataPairs
        BY <2>1, <4>1, CacheHitFacts
      <4>3. d \in dataPairs \/ (d.at = h.at /\ d.data = h.data)
        BY <2>1, <4>1, <4>2, PromotedFacts
      <4>4. QED
        BY <1>1, <2>2, <2>5, <4>2, <4>3
    <3>2. CASE MapSynch(p, s)
      <4>1. dataPairs' = Cached(Entry(id, p, JobSet(s), TRUE))
        BY <3>2 DEF MapSynch
      <4>2. d \in dataPairs \/ d = Entry(id, p, JobSet(s), TRUE)
        BY <2>5, <4>1, CachedFacts, Zenon
      <4>3. d \in dataPairs \/ (d.at = p /\ d.data = JobSet(s))
        BY <4>2 DEF Entry
      <4>4. QED
        BY <1>1, <2>2, <2>4, <2>5, <3>2, <4>3
    <3>3. CASE MapAlgebraic(p, s) \/ MapAsynchDuplicate(p, s)
               \/ MapAsynchJob(p, s) \/ MapAsynchAlgebraic(p, s)
      <4>1. dataPairs' = dataPairs
        BY <3>3 DEF MapAlgebraic, MapAsynchDuplicate, MapAsynchJob,
                    MapAsynchAlgebraic
      <4>2. QED
        BY <1>1, <2>2, <2>5, <4>1
    <3>4. QED
      BY <1>4, <3>1, <3>2, <3>3 DEF Map
  <2>6. ASSUME RestartFileFlag, CoreMappings, NEW e \in Held'
        PROVE  OnNewFile(resp'[e].at, resp'[e].data)
    <3>1. CASE e \in Held
      <4>1. resp'[e] = resp[e] /\ OnFile(resp[e].at, resp[e].data)
        BY <1>1, <1>3, <2>1, <2>6, <3>1
      <4>2. QED
        BY <2>2, <4>1
    <3>2. CASE e \notin Held
      <4>1. /\ e = id
            /\ \/ \E d \in CacheHits(p, s) :
                    resp'[id].at = d.at /\ resp'[id].data = s \cap d.data
               \/ /\ MapSynch(p, s)
                  /\ resp'[id].at = p /\ resp'[id].data = JobSet(s)
        BY <1>4, <2>6, <3>2, MapReps
      <4>2. CASE \E d \in CacheHits(p, s) :
                    resp'[id].at = d.at /\ resp'[id].data = s \cap d.data
        <5>1. PICK d \in CacheHits(p, s) :
                    resp'[id].at = d.at /\ resp'[id].data = s \cap d.data
          BY <4>2
        <5>2. d \in dataPairs
          BY <2>1, CacheHitFacts
        <5>3. OnNewFile(d.at, d.data) /\ s \cap d.data \subseteq d.data
          BY <1>1, <2>2, <2>6, <5>2
        <5>4. OnNewFile(d.at, s \cap d.data)
          BY <1>2, <5>3
        <5>5. QED
          BY <4>1, <5>1, <5>4
      <4>3. CASE MapSynch(p, s)
                 /\ resp'[id].at = p /\ resp'[id].data = JobSet(s)
        BY <2>4, <2>6, <4>1, <4>3
      <4>4. QED
        BY <4>1, <4>2, <4>3
    <3>3. QED
      BY <3>1, <3>2
  <2>7. QED
    BY <2>1, <2>5, <2>6, OnDiskParts
<1>5. ASSUME NEW id \in Evals, CompleteJob(id) PROVE OnDisk'
  <2> DEFINE t == JobSet(set[id])
             n == Entry(id, vars[id], t, FALSE)
  <2>1. /\ id \in coreQueue
        /\ resp' = [resp EXCEPT ![id] = Rep(vars[id], t, 0)]
        /\ restartFile' = Logged(id, vars[id], t)
        /\ dataPairs' = Cached(n)
        /\ rawIds' = rawIds \cup {id}
        /\ UNCHANGED <<histIds, cachedIds, consumed, config>>
    BY <1>5 DEF CompleteJob
  <2>2. /\ resp'[id].at = vars[id] /\ resp'[id].data = t
        /\ \A e \in Evals \ {id} : resp'[e] = resp[e]
    BY <2>1 DEF Rep
  <2>3. vars[id] \in Points /\ set[id] \in SUBSET config.data
    BY <1>3, <2>1, ConfigFacts DEF AInv, Mappings
  <2>4. t \in SUBSET Data
    BY <2>3, JobSetFacts
  <2>5. n.at = vars[id] /\ n.data = t
    BY DEF Entry
  <2>6. \A d \in dataPairs' : d \in dataPairs \/ d = n
    BY <2>1, CachedFacts, Zenon
  <2>7. Held' = Held \cup {id}
    BY <2>1 DEF Held
  <2>8. \A q, s : OnFile(q, s) => OnNewFile(q, s)
    BY <1>5, FileGrows
  <2> HIDE DEF t, n
  <2>9. RestartFileFlag => OnNewFile(vars[id], t)
    <3>1. RestartFileFlag =>
            \E i \in DOMAIN restartFile' :
              restartFile'[i].at = vars[id] /\ restartFile'[i].data = t
      BY <2>1, <2>3, <2>4, LoggedFacts
    <3>2. QED
      BY <3>1 DEF OnNewFile
  <2>10. ASSUME RestartFileFlag, CoreMappings
         PROVE  /\ \A d \in dataPairs' : OnNewFile(d.at, d.data)
                /\ \A e \in Held' : OnNewFile(resp'[e].at, resp'[e].data)
    <3>1. \A d \in dataPairs' : OnNewFile(d.at, d.data)
      BY <1>1, <2>5, <2>6, <2>8, <2>9, <2>10
    <3>2. ASSUME NEW e \in Held' PROVE OnNewFile(resp'[e].at, resp'[e].data)
      <4>1. CASE e = id
        BY <2>2, <2>9, <2>10, <4>1
      <4>2. CASE e # id
        <5>1. e \in Held /\ resp'[e] = resp[e]
          BY <1>3, <2>2, <2>7, <4>2
        <5>2. QED
          BY <1>1, <2>8, <2>10, <5>1
      <4>3. QED
        BY <4>1, <4>2
    <3>3. QED
      BY <3>1, <3>2
  <2>11. QED
    BY <2>1, <2>10, OnDiskParts
<1>6. ASSUME SynchronizeReturn \/ NowaitReturn PROVE OnDisk'
  <2>1. /\ \A id \in Held' :
             RepAsBefore(id) \/ RepFromJob(id) \/ RepAlgebraic(id)
    BY <1>6, ReturnedReps
  <2>2. UNCHANGED <<dataPairs, config>>
    BY <1>6, MovesFrame
  <2>3. \A q, s : OnFile(q, s) => OnNewFile(q, s)
    BY <1>6, FileGrows
  <2>4. ASSUME RestartFileFlag, CoreMappings, NEW id \in Held'
        PROVE  OnNewFile(resp'[id].at, resp'[id].data)
    <3>1. CASE RepAsBefore(id)
      BY <1>1, <2>3, <2>4, <3>1 DEF RepAsBefore
    <3>2. CASE RepFromJob(id)
      <4>1. PICK q \in coreQueue \cap rawIds :
              /\ resp'[id].at = resp[q].at
              /\ resp'[id].data = set[id] \cap resp[q].data
        BY <3>2 DEF RepFromJob
      <4>2. q \in Held
        BY DEF Held
      <4>3. OnNewFile(resp[q].at, resp[q].data)
            /\ set[id] \cap resp[q].data \subseteq resp[q].data
        BY <1>1, <2>3, <2>4, <4>2
      <4>4. OnNewFile(resp[q].at, set[id] \cap resp[q].data)
        BY <1>2, <4>3
      <4>5. QED
        BY <4>1, <4>4
    <3>3. QED
      BY <2>1, <2>4, <3>1, <3>2 DEF RepAlgebraic
  <2>5. QED
    BY <1>1, <2>2, <2>3, <2>4, OnDiskParts
<1>7. ASSUME \/ SynchronizeStart \/ NowaitStart \/ NowaitUndefined \/ Terminated
             \/ \E S \in SUBSET rawIds : CacheUnmatched(S)
      PROVE  OnDisk'
  <2>1. UNCHANGED <<resp, dataPairs, config>> /\ Held' = Held
    BY <1>7, StepFrame, HeldFrame
  <2>2. \A q, s : OnFile(q, s) => OnNewFile(q, s)
    BY <1>7, FileGrows
  <2>3. QED
    BY <1>1, <2>1, <2>2, OnDiskParts
<1>8. ASSUME NEW n \in 0 .. Len(restartFile), Restart(n) PROVE OnDisk'
  <2>1. Held' = {} /\ dataPairs' = Negated(restartFile') /\ UNCHANGED config
    BY <1>8 DEF Restart, Held
  <2>2. ASSUME NEW d \in dataPairs' PROVE OnNewFile(d.at, d.data)
    <3>1. PICK i \in DOMAIN restartFile' :
            d = Entry(-restartFile'[i].id, restartFile'[i].at,
                      restartFile'[i].data, TRUE)
      BY <2>1 DEF Negated
    <3>2. d.at = restartFile'[i].at /\ d.data = restartFile'[i].data
      BY <3>1 DEF Entry
    <3>3. QED
      BY <3>2 DEF OnNewFile
  <2>3. QED
    BY <2>1, <2>2, OnDiskParts
<1>9. QED
  BY <1>4, <1>5, <1>6, <1>7, <1>8 DEF IfaceNext

-----------------------------------------------------------------------------
(* What a restarted run does not repeat.                                   *)

(* The parts of Restarted after a step that is no restart: the entries     *)
(* keep their variables and data, and what is queued or simulated now was  *)
(* before, or has no loaded record.                                        *)
LEMMA RestartedParts ==
  ASSUME AInv, UNCHANGED <<config, loaded>>,
         EvalCacheFlag =>
           /\ \A e \in dataPairs : \E f \in dataPairs' :
                f.at = e.at /\ f.data = e.data
           /\ \A q \in coreQueue' :
                \/ q \in coreQueue /\ vars'[q] = vars[q] /\ set'[q] = set[q]
                \/ \A e \in dataPairs :
                     ~(vars'[q] = e.at /\ set'[q] \subseteq e.data)
           /\ \A x \in executed' :
                \/ x \in executed
                \/ \A d \in loaded : ~(x[1] = d.at /\ x[2] \subseteq d.data)
  PROVE  Restarted'
<1>1. EvalCacheFlag =>
        /\ \A d \in loaded : \E e \in dataPairs : e.at = d.at /\ e.data = d.data
        /\ \A q \in coreQueue, d \in loaded :
             ~(vars[q] = d.at /\ set[q] \subseteq d.data)
        /\ \A x \in executed : \A d \in loaded :
             ~(x[1] = d.at /\ x[2] \subseteq d.data)
  BY DEF AInv, Restarted, RestartAvoidsWork
<1>2. ASSUME EvalCacheFlag, NEW d \in loaded
      PROVE  /\ \E f \in dataPairs' : f.at = d.at /\ f.data = d.data
             /\ \A q \in coreQueue' : ~(vars'[q] = d.at /\ set'[q] \subseteq d.data)
             /\ \A x \in executed' : ~(x[1] = d.at /\ x[2] \subseteq d.data)
  <2>1. PICK e \in dataPairs : e.at = d.at /\ e.data = d.data
    BY <1>1, <1>2
  <2>2. \E f \in dataPairs' : f.at = d.at /\ f.data = d.data
    BY <1>2, <2>1
  <2>3. ASSUME NEW q \in coreQueue', vars'[q] = d.at, set'[q] \subseteq d.data
        PROVE  FALSE
    BY <1>1, <1>2, <2>1, <2>3
  <2>4. QED
    BY <1>1, <1>2, <2>2, <2>3
<1>3. QED
  BY <1>2 DEF Restarted, RestartAvoidsWork, EvalCacheFlag

(* A job is queued, or simulated at once, only where data_pairs has no     *)
(* entry for it, and data_pairs keeps every record that was loaded.        *)
LEMMA RestartedStep ==
  ASSUME AInv, IfaceNext
  PROVE  Restarted'
<1> USE Types
<1>1. ASSUME NEW p \in config.points, NEW s \in ActiveSets, Map(p, s)
      PROVE  Restarted'
  <2> DEFINE id == evalIdCntr + 1
  <2>1. /\ id \in Evals /\ p \in Points /\ s \in SUBSET config.data
        /\ vars'[id] = p /\ set'[id] = s
        /\ \A e \in 1 .. evalIdCntr : vars'[e] = vars[e] /\ set'[e] = set[e]
        /\ UNCHANGED <<config, loaded>>
    BY <1>1, MapFrame
  <2>2. coreQueue \subseteq 1 .. evalIdCntr
    BY KnownIds
  <2>3. CacheHits(p, s) = {} =>
          \A d \in dataPairs : ~(p = d.at /\ s \subseteq d.data)
    <3>1. config \in Configurations /\ dataPairs \in SUBSET EntryType
          /\ p \in Points
      BY <2>1
    <3>2. QED
      BY <3>1, CacheHitFacts, Zenon
  <2>4. \A e \in dataPairs : \E f \in dataPairs' : f.at = e.at /\ f.data = e.data
    <3>1. CASE MapDuplicate(p, s) \/ MapAsynchHistory(p, s)
      <4>1. PICK h \in CacheHits(p, s) : dataPairs' = Promoted(h, id)
        BY <3>1 DEF MapDuplicate, MapAsynchHistory
      <4>2. h \in dataPairs
        BY <2>1, <4>1, CacheHitFacts
      <4>3. QED
        BY <2>1, <4>1, <4>2, PromotedFacts
    <3>2. CASE ~(MapDuplicate(p, s) \/ MapAsynchHistory(p, s))
      <4>1. dataPairs \subseteq dataPairs'
        BY <1>1, <3>2 DEF Map, MapSynch, MapAlgebraic, MapAsynchDuplicate,
           MapAsynchJob, MapAsynchAlgebraic, Cached
      <4>2. QED
        BY <4>1
    <3>3. QED
      BY <3>1, <3>2
  <2>5. ASSUME EvalCacheFlag, NEW q \in coreQueue'
        PROVE  \/ q \in coreQueue /\ vars'[q] = vars[q] /\ set'[q] = set[q]
               \/ \A e \in dataPairs :
                    ~(vars'[q] = e.at /\ set'[q] \subseteq e.data)
    <3>1. CASE MapAsynchJob(p, s)
      <4>1. coreQueue' = coreQueue \cup {id} /\ CacheHits(p, s) = {}
        BY <2>5, <3>1 DEF MapAsynchJob
      <4> HIDE DEF id
      <4>2. QED
        BY <2>1, <2>2, <2>3, <4>1
    <3>2. CASE ~MapAsynchJob(p, s)
      <4>1. coreQueue' = coreQueue
        BY <1>1, <3>2 DEF Map, MapDuplicate, MapSynch, MapAlgebraic,
           MapAsynchHistory, MapAsynchDuplicate, MapAsynchAlgebraic
      <4>2. QED
        BY <2>1, <2>2, <4>1
    <3>3. QED
      BY <3>1, <3>2
  <2>6. ASSUME EvalCacheFlag, NEW x \in executed'
        PROVE  \/ x \in executed
               \/ \A d \in loaded : ~(x[1] = d.at /\ x[2] \subseteq d.data)
    <3>1. CASE MapSynch(p, s)
      <4>1. /\ executed' = executed \cup {<<p, JobSet(s)>>}
            /\ CacheHits(p, s) = {}
        BY <2>6, <3>1 DEF MapSynch
      <4>2. ASSUME NEW d \in loaded PROVE ~(p = d.at /\ JobSet(s) \subseteq d.data)
        <5>1. PICK e \in dataPairs : e.at = d.at /\ e.data = d.data
          BY <2>6 DEF AInv, Restarted
        <5>2. s \subseteq JobSet(s)
          BY <2>1, JobSetFacts
        <5>3. QED
          BY <2>3, <4>1, <5>1, <5>2
      <4>3. QED
        BY <4>1, <4>2
    <3>2. CASE ~MapSynch(p, s)
      BY <1>1, <3>2 DEF Map, MapDuplicate, MapAlgebraic, MapAsynchHistory,
         MapAsynchDuplicate, MapAsynchJob, MapAsynchAlgebraic
    <3>3. QED
      BY <3>1, <3>2
  <2>7. QED
    BY <2>1, <2>4, <2>5, <2>6, RestartedParts
<1>2. ASSUME NEW id \in Evals, CompleteJob(id) PROVE Restarted'
  <2> DEFINE t == JobSet(set[id])
  <2>1. /\ id \in coreQueue
        /\ dataPairs \subseteq dataPairs'
        /\ executed' = executed \cup {<<vars[id], t>>}
        /\ UNCHANGED <<vars, set, coreQueue, config, loaded>>
    BY <1>2 DEF CompleteJob, Cached
  <2>2. set[id] \in SUBSET config.data
    BY <2>1, KnownIds, ConfigFacts DEF AInv, Mappings
  <2>3. set[id] \subseteq t
    BY <2>2, JobSetFacts
  <2> HIDE DEF t
  <2>4. ASSUME EvalCacheFlag, NEW d \in loaded
        PROVE  ~(vars[id] = d.at /\ t \subseteq d.data)
    BY <2>1, <2>3, <2>4 DEF AInv, Restarted
  <2>5. ASSUME EvalCacheFlag, NEW x \in executed'
        PROVE  \/ x \in executed
               \/ \A d \in loaded : ~(x[1] = d.at /\ x[2] \subseteq d.data)
    BY <2>1, <2>4, <2>5
  <2>6. QED
    BY <2>1, <2>5, RestartedParts
<1>3. ASSUME \/ SynchronizeStart \/ NowaitStart \/ NowaitUndefined \/ Terminated
             \/ SynchronizeReturn \/ NowaitReturn
             \/ \E S \in SUBSET rawIds : CacheUnmatched(S)
      PROVE  Restarted'
  <2>1. UNCHANGED <<vars, set, dataPairs, executed, loaded, config>>
    BY <1>3, MovesFrame
  <2>2. coreQueue' \subseteq coreQueue
    BY <1>3, StepFrame DEF SynchronizeReturn, NowaitReturn
  <2>3. QED
    BY <2>1, <2>2, RestartedParts
<1>4. ASSUME NEW n \in 0 .. Len(restartFile), Restart(n) PROVE Restarted'
  <2>1. coreQueue' = {} /\ executed' = {} /\ loaded' = dataPairs'
    BY <1>4 DEF Restart
  <2>2. QED
    BY <2>1 DEF Restarted, RestartAvoidsWork
<1>5. QED
  BY <1>1, <1>2, <1>3, <1>4 DEF IfaceNext

-----------------------------------------------------------------------------
(* The invariant, and what follows from it.                                *)

(* A run starts in it.                                                     *)
LEMMA InitAInv ==
  ASSUME Init
  PROVE  AInv
<1>1. /\ evalIdCntr = 0 /\ vars = [id \in Evals |-> NoPoint]
      /\ set = [id \in Evals |-> {}] /\ resp = [id \in Evals |-> EmptyRep]
      /\ coreQueue = {} /\ algQueue = {} /\ dupIds = {}
      /\ dupOf = [id \in Evals |-> 0]
      /\ histIds = {} /\ cachedIds = {} /\ rawIds = {} /\ dataPairs = {}
      /\ restartFile = <<>> /\ pc = "idle" /\ restarts = 0 /\ consumed = {}
      /\ executed = {} /\ loaded = {} /\ config \in Configurations
  BY DEF Init
<1>2. MaxEvals \in Nat /\ MaxRestarts \in Nat /\ 1 .. 0 = {}
  BY ConstantsAssumption
<1>3. IfaceTypeOK
  <2>1. resp \in [Evals -> [at : Points \cup {NoPoint}, data : SUBSET Data,
                            alg : Nat]]
    <3>1. EmptyRep \in RepType
      BY RepFacts DEF EmptyRep
    <3>2. QED
      BY <1>1, <3>1 DEF RepType
  <2>2. restartFile \in Seq([id : Int, at : Points, data : SUBSET Data])
    BY <1>1
  <2>3. evalIdCntr \in 0 .. MaxEvals /\ restarts \in 0 .. MaxRestarts
        /\ dupOf \in [Evals -> 0 .. MaxEvals]
        /\ vars \in [Evals -> Points \cup {NoPoint}]
        /\ set \in [Evals -> SUBSET Data]
    BY <1>1, <1>2
  <2>4. QED
    BY <1>1, <2>1, <2>2, <2>3 DEF IfaceTypeOK
<1>4. Mappings /\ Queues
  BY <1>1, <1>2 DEF Mappings, Queues, Partition
<1>5. DuplicatesAnchored /\ NoRedundantJob /\ Entries /\ Responses /\ OnDisk
      /\ Restarted
  BY <1>1 DEF DuplicatesAnchored, NoRedundantJob, Entries, CurrentIdsUnique,
     Responses, OnDisk, Restarted, RestartAvoidsWork, Held
<1>6. QED
  BY <1>3, <1>4, <1>5 DEF AInv

(* Every step keeps it.                                                    *)
LEMMA NextAInv ==
  ASSUME AInv, [IfaceNext]_ifaceVars
  PROVE  AInv'
<1>1. CASE IfaceNext
  BY <1>1, TypeStep, QueuesStep, DuplicatesStep, RedundantStep, EntriesStep,
     ResponsesStep, OnDiskStep, RestartedStep DEF AInv
<1>2. CASE UNCHANGED ifaceVars
  <2> USE <1>2 DEF AInv, ifaceVars
  <2>1. IfaceTypeOK' /\ Mappings'
    BY DEF IfaceTypeOK, Mappings, FileRecord, Evals, Points
  <2>2. Queues' /\ DuplicatesAnchored' /\ NoRedundantJob'
    BY DEF Queues, Partition, CoreMappings, DuplicatesAnchored, NoRedundantJob,
       EvalCacheFlag, JobSet, AsvControlFlag
  <2>3. Entries' /\ Responses'
    BY DEF Entries, CurrentIdsUnique, Responses, Held, Matches, NearbyDetect,
       JobSet, AsvControlFlag
  <2>4. OnDisk' /\ Restarted'
    BY DEF OnDisk, OnFile, RestartFileFlag, CoreMappings, Held, Restarted,
       RestartAvoidsWork, EvalCacheFlag
  <2>5. QED
    BY <2>1, <2>2, <2>3, <2>4
<1>3. QED
  BY <1>1, <1>2

(* The inductive invariant holds throughout every run.                     *)
LEMMA AlwaysAInv == IfaceSpec => []AInv
<1>1. Init => AInv
  BY InitAInv
<1>2. AInv /\ [IfaceNext]_ifaceVars => AInv'
  BY NextAInv
<1>3. QED
  BY <1>1, <1>2, PTL DEF IfaceSpec

(* The places an id can be in, one by one.                                 *)
LEMMA PlacesApart ==
  ASSUME Queues
  PROVE  NothingLost
<1> DEFINE A == consumed
           B == rawIds
           C == cachedIds
           D == histIds
           E == dupIds
           F == coreQueue \ rawIds
           G == IF CoreMappings THEN {} ELSE algQueue
<1>1. Partition(A, B, C, D, E, F, G, evalIdCntr)
  BY DEF Queues
<1>2. Places = <<A, B, C, D, E, F, G>>
  BY DEF Places
<1> HIDE DEF A, B, C, D, E, F, G
<1>3. /\ DOMAIN Places = {1, 2, 3, 4, 5, 6, 7}
      /\ Places[1] = A /\ Places[2] = B /\ Places[3] = C /\ Places[4] = D
      /\ Places[5] = E /\ Places[6] = F /\ Places[7] = G
  BY <1>2
<1>4. UNION {Places[i] : i \in DOMAIN Places} = 1 .. evalIdCntr
  <2>1. {Places[i] : i \in DOMAIN Places} = {A, B, C, D, E, F, G}
    BY <1>3
  <2>2. UNION {A, B, C, D, E, F, G} = A \cup B \cup C \cup D \cup E \cup F \cup G
    OBVIOUS
  <2>3. QED
    BY <1>1, <2>1, <2>2 DEF Partition
<1>5. ASSUME NEW i \in DOMAIN Places, NEW j \in DOMAIN Places, i # j
      PROVE  Places[i] \cap Places[j] = {}
  <2>1. /\ A \cap B = {} /\ A \cap C = {} /\ A \cap D = {} /\ A \cap E = {}
        /\ A \cap F = {} /\ A \cap G = {} /\ B \cap C = {} /\ B \cap D = {}
        /\ B \cap E = {} /\ B \cap F = {} /\ B \cap G = {} /\ C \cap D = {}
        /\ C \cap E = {} /\ C \cap F = {} /\ C \cap G = {} /\ D \cap E = {}
        /\ D \cap F = {} /\ D \cap G = {} /\ E \cap F = {} /\ E \cap G = {}
        /\ F \cap G = {}
    BY <1>1 DEF Partition
  <2>2. QED
    BY <1>3, <1>5, <2>1
<1>6. QED
  BY <1>4, <1>5 DEF NothingLost

(* Every variable keeps its type, through every restart.                   *)
THEOREM InterfaceTypes == IfaceSpec => []IfaceTypeOK
<1>1. AInv => IfaceTypeOK
  BY DEF AInv
<1>2. QED
  BY <1>1, AlwaysAInv, PTL

(* Each id that map() has handed out is with the caller, in one map or in  *)
(* one queue, and in no two, however calls of map(), synchronize(),        *)
(* synchronize_nowait() and cache_unmatched_responses() are interleaved.   *)
THEOREM NoEvaluationLost == IfaceSpec => []NothingLost
<1>1. AInv => NothingLost
  BY PlacesApart DEF AInv
<1>2. QED
  BY <1>1, AlwaysAInv, PTL

(* The iterator that beforeSynchDuplicateMap stores for a duplicate never  *)
(* outlives the queued job it refers to.                                   *)
THEOREM DuplicatesStayAnchored == IfaceSpec => []DuplicatesAnchored
<1>1. AInv => DuplicatesAnchored
  BY DEF AInv
<1>2. QED
  BY <1>1, AlwaysAInv, PTL

(* With the evaluation cache on, duplication_detect() keeps a job out of   *)
(* the queue when a job queued before it will have its data.               *)
THEOREM NoJobRedundant == IfaceSpec => []NoRedundantJob
<1>1. AInv => NoRedundantJob
  BY DEF AInv
<1>2. QED
  BY <1>1, AlwaysAInv, PTL

(* The ids of the current run stay unique in data_pairs, promoted records  *)
(* included.                                                               *)
THEOREM IdsUnique == IfaceSpec => []CurrentIdsUnique
<1>1. AInv => CurrentIdsUnique
  BY DEF AInv, Entries
<1>2. QED
  BY <1>1, AlwaysAInv, PTL

(* Every response that is returned was simulated at the variables asked    *)
(* for, or within the tolerance of them, and holds the data asked for.     *)
THEOREM ResponsesMatch == IfaceSpec => []ResponseMatches
<1>1. AInv => ResponseMatches
  BY DEF AInv, Responses, ResponseMatches, Returned, Held, Matches
<1>2. QED
  BY <1>1, AlwaysAInv, PTL

(* A response that the caller has seen can be had again from the restart   *)
(* file.                                                                   *)
THEOREM ReturnedOnDisk == IfaceSpec => []ReturnedIsLogged
<1>1. ASSUME AInv PROVE ReturnedIsLogged
  <2>1. ASSUME RestartFileFlag, CoreMappings, NEW id \in Returned
        PROVE  \E i \in DOMAIN restartFile :
                 /\ restartFile[i].at = resp[id].at
                 /\ set[id] \subseteq restartFile[i].data
    <3>1. id \in Held
      BY DEF Returned, Held
    <3>2. set[id] \subseteq resp[id].data
      BY <1>1, <3>1 DEF AInv, Responses, Matches
    <3>3. OnFile(resp[id].at, resp[id].data)
      BY <1>1, <2>1, <3>1 DEF AInv, OnDisk
    <3>4. QED
      BY <3>2, <3>3 DEF OnFile
  <2>2. QED
    BY <2>1 DEF ReturnedIsLogged
<1>2. QED
  BY <1>1, AlwaysAInv, PTL

(* With the evaluation cache on, a restarted run repeats no simulation of  *)
(* which it was given the result, although hits move the records it was    *)
(* given to new ids.                                                       *)
THEOREM RestartRepeatsNothing == IfaceSpec => []RestartAvoidsWork
<1>1. AInv => RestartAvoidsWork
  BY DEF AInv, Restarted, RestartAvoidsWork
<1>2. QED
  BY <1>1, AlwaysAInv, PTL

-----------------------------------------------------------------------------
(* Algebraic responses.  A core response is stored in data_pairs with the  *)
(* algebraic part that was added to it, so that with core and algebraic    *)
(* mappings a hit of the evaluation cache adds it again.  In every other   *)
(* combination each returned response has it once.                         *)

(* No configuration has core and algebraic mappings and the cache.         *)
NoAlgebraicCache ==
  \A c \in Configurations : ~(c.core /\ c.algebraic /\ c.cache)

(* A map() that adds the algebraic response at once, and one that does not. *)
LEMMA OverlaysMap ==
  ASSUME NoAlgebraicCache, AInv, Overlays,
         NEW p \in config.points, NEW s \in ActiveSets, Map(p, s)
  PROVE  Overlays'
<1> USE Types
<1> DEFINE id == evalIdCntr + 1
<1>1. /\ id \in Evals /\ id \notin 1 .. evalIdCntr
      /\ \A e \in 1 .. evalIdCntr : resp'[e] = resp[e]
      /\ UNCHANGED <<rawIds, cachedIds, config>>
  BY MapFrame
<1>2. /\ consumed \cup rawIds \cup cachedIds \cup coreQueue \cup algQueue
           \subseteq 1 .. evalIdCntr
      /\ 1 .. evalIdCntr \subseteq Evals
  BY KnownIds
<1>3. ~(CoreMappings /\ AlgebraicMappings /\ EvalCacheFlag)
      /\ (CoreMappings \/ AlgebraicMappings)
      /\ CoreMappings \in BOOLEAN /\ AlgebraicMappings \in BOOLEAN
  BY ConfigFacts DEF NoAlgebraicCache, CoreMappings, AlgebraicMappings,
     EvalCacheFlag
<1> HIDE DEF id
<1>4. CASE ~AlgebraicMappings
  <2>1. algQueue = {} /\ \A e \in Evals : resp[e].alg = 0
    BY <1>4 DEF Overlays
  <2>2. algQueue' = {}
    BY <1>3, <1>4, <2>1 DEF Map, MapDuplicate, MapSynch, MapAlgebraic,
       MapAsynchHistory, MapAsynchDuplicate, MapAsynchJob, MapAsynchAlgebraic,
       QueueAlgebraic
  <2>3. \A d \in CacheHits(p, s) :
          OverlaysOf(d) = 0 /\ OverlaysOf(d) + Algebraic = 0
    <3>1. ASSUME NEW d \in dataPairs PROVE OverlaysOf(d) = 0
      <4>1. d \in EntryType /\ (~d.own => d.id > 0)
        BY DEF AInv, Entries
      <4>2. ~d.own => d.id \in Evals
        BY <4>1, ConstantsAssumption DEF EntryType, Evals
      <4>3. QED
        BY <2>1, <4>2 DEF OverlaysOf
    <3>2. \A d \in CacheHits(p, s) : d \in dataPairs
      BY DEF CacheHits
    <3>3. Algebraic = 0
      BY <1>4 DEF Algebraic
    <3>4. QED
      BY <3>1, <3>2, <3>3
  <2>4. \/ resp' = resp
        \/ \E q, t : resp' = [resp EXCEPT ![id] = Rep(q, t, 0)]
    <3>1. CASE MapDuplicate(p, s)
      <4>1. PICK d \in CacheHits(p, s) :
              resp' = [resp EXCEPT ![id] =
                         Rep(d.at, s \cap d.data, OverlaysOf(d) + Algebraic)]
        BY <3>1 DEF MapDuplicate, id
      <4>2. QED
        BY <2>3, <4>1
    <3>2. CASE MapAsynchHistory(p, s)
      <4>1. PICK d \in CacheHits(p, s) :
              resp' = [resp EXCEPT ![id] =
                         Rep(d.at, s \cap d.data, OverlaysOf(d))]
        BY <3>2 DEF MapAsynchHistory, id
      <4>2. QED
        BY <2>3, <4>1
    <3>3. CASE MapSynch(p, s)
      BY <1>4, <3>3 DEF MapSynch, Algebraic, id
    <3>4. CASE MapAlgebraic(p, s)
      BY <1>3, <1>4, <3>4 DEF MapAlgebraic
    <3>5. CASE MapAsynchDuplicate(p, s) \/ MapAsynchJob(p, s)
               \/ MapAsynchAlgebraic(p, s)
      BY <3>5 DEF MapAsynchDuplicate, MapAsynchJob, MapAsynchAlgebraic
    <3>6. QED
      BY <3>1, <3>2, <3>3, <3>4, <3>5 DEF Map
  <2>5. ASSUME NEW e \in Evals PROVE resp'[e].alg = 0
    <3>1. CASE resp' = resp
      BY <2>1, <3>1
    <3>2. CASE \E q, t : resp' = [resp EXCEPT ![id] = Rep(q, t, 0)]
      <4>1. PICK q, t : resp' = [resp EXCEPT ![id] = Rep(q, t, 0)]
        BY <3>2
      <4>2. Rep(q, t, 0).alg = 0
        BY DEF Rep
      <4> HIDE DEF Rep
      <4>3. QED
        BY <1>1, <2>1, <4>1, <4>2
    <3>3. QED
      BY <2>4, <3>1, <3>2
  <2>6. QED
    BY <1>1, <1>3, <1>4, <2>2, <2>5 DEF Overlays, AlgebraicMappings, CoreMappings
<1>5. CASE AlgebraicMappings /\ CoreMappings
  <2>1. /\ histIds = {} /\ dupIds = {} /\ algQueue = coreQueue
        /\ \A e \in coreQueue \cap rawIds : resp[e].alg = 0
        /\ \A e \in (consumed \cup cachedIds \cup rawIds) \ coreQueue :
             resp[e].alg = 1
    BY <1>5 DEF Overlays
  <2>2. CASE MapSynch(p, s)
    <3>1. /\ resp' = [resp EXCEPT ![id] = Rep(p, JobSet(s), 1)]
          /\ consumed' = consumed \cup {id}
          /\ UNCHANGED <<coreQueue, algQueue, dupIds, histIds>>
      BY <1>5, <2>2 DEF MapSynch, Algebraic, id
    <3>2. resp'[id].alg = 1
      BY <1>1, <3>1 DEF Rep
    <3>3. QED
      BY <1>1, <1>2, <1>5, <2>1, <3>1, <3>2
      DEF Overlays, AlgebraicMappings, CoreMappings
  <2>3. CASE MapAsynchJob(p, s)
    <3>1. /\ coreQueue' = coreQueue \cup {id} /\ algQueue' = algQueue \cup {id}
          /\ UNCHANGED <<resp, dupIds, histIds, consumed>>
      BY <1>5, <2>3 DEF MapAsynchJob, QueueAlgebraic, id
    <3>2. QED
      BY <1>1, <1>2, <1>5, <2>1, <3>1
      DEF Overlays, AlgebraicMappings, CoreMappings
  <2>4. QED
    BY <1>3, <1>5, <2>2, <2>3 DEF Map, MapDuplicate, MapAlgebraic,
       MapAsynchHistory, MapAsynchDuplicate, MapAsynchAlgebraic
<1>6. CASE ~CoreMappings
  <2>1. \A e \in consumed \cup cachedIds \cup rawIds : resp[e].alg = 1
    BY <1>6 DEF Overlays
  <2>2. CASE MapAlgebraic(p, s)
    <3>1. /\ resp' = [resp EXCEPT ![id] = Rep(p, s, 1)]
          /\ consumed' = consumed \cup {id}
      BY <2>2 DEF MapAlgebraic, id
    <3>2. resp'[id].alg = 1
      BY <1>1, <3>1 DEF Rep
    <3>3. \A e \in consumed' \cup cachedIds' \cup rawIds' : resp'[e].alg = 1
      BY <1>1, <1>2, <2>1, <3>1, <3>2
    <3>4. QED
      BY <1>1, <1>3, <1>6, <3>3 DEF Overlays, AlgebraicMappings, CoreMappings
  <2>3. CASE MapAsynchAlgebraic(p, s)
    <3>1. UNCHANGED <<resp, consumed>>
      BY <2>3 DEF MapAsynchAlgebraic
    <3>2. QED
      BY <1>1, <1>3, <1>6, <2>1, <3>1 DEF Overlays, AlgebraicMappings, CoreMappings
  <2>4. QED
    BY <1>6, <2>2, <2>3 DEF Map, MapDuplicate, MapSynch, MapAsynchHistory,
       MapAsynchDuplicate, MapAsynchJob
<1>7. QED
  BY <1>3, <1>4, <1>5, <1>6

(* A blocking or a nonblocking synchronization returns: the algebraic      *)
(* response is added to the reps that it hands out for the first time.     *)
LEMMA OverlaysReturn ==
  ASSUME NoAlgebraicCache, AInv, Overlays, SynchronizeReturn \/ NowaitReturn
  PROVE  Overlays'
<1> USE Types
<1>1. Queues
  BY DEF AInv
<1>2. consumed \cup rawIds \cup cachedIds \cup dupIds \cup algQueue \subseteq Evals
  BY KnownIds
<1>3. (CoreMappings \/ AlgebraicMappings)
      /\ CoreMappings \in BOOLEAN /\ AlgebraicMappings \in BOOLEAN
  BY ConfigFacts DEF CoreMappings, AlgebraicMappings
<1>4. UNCHANGED <<consumed, config>>
  BY DEF SynchronizeReturn, NowaitReturn
<1>5. \A id \in Evals : resp'[id] \in {resp[id], Updated(id), Mapped(id)}
  BY DEF SynchronizeReturn, NowaitReturn
<1>6. CASE ~AlgebraicMappings
  <2>1. algQueue = {} /\ \A e \in Evals : resp[e].alg = 0
    BY <1>6 DEF Overlays
  <2>2. \A id \in Evals : resp'[id] \in {resp[id], Updated(id)}
    BY <2>1 DEF SynchronizeReturn, NowaitReturn
  <2>3. \A id \in Evals : Updated(id).alg = 0
    BY <2>1, UpdatedFacts
  <2>4. algQueue' = {} /\ \A id \in Evals : resp'[id].alg = 0
    BY <2>1, <2>2, <2>3 DEF SynchronizeReturn, NowaitReturn
  <2>5. QED
    BY <1>3, <1>4, <1>6, <2>4 DEF Overlays, AlgebraicMappings, CoreMappings
<1>7. CASE AlgebraicMappings /\ CoreMappings
  <2>1. /\ histIds = {} /\ dupIds = {} /\ algQueue = coreQueue
        /\ \A e \in coreQueue \cap rawIds : resp[e].alg = 0
        /\ \A e \in (consumed \cup cachedIds \cup rawIds) \ coreQueue :
             resp[e].alg = 1
    BY <1>7 DEF Overlays
  <2>2. \A e \in coreQueue \cap rawIds : Mapped(e).alg = 1
    <3>1. ASSUME NEW e \in coreQueue \cap rawIds PROVE Mapped(e).alg = 1
      <4>1. /\ Updated(e) = resp[e]
            /\ Mapped(e).alg = Updated(e).alg + 1
        BY <1>7, <2>1, UpdatedFacts
      <4>2. resp[e].alg = 0
        BY <2>1
      <4>3. QED
        BY <4>1, <4>2
    <3>2. QED
      BY <3>1
  <2>3. CASE SynchronizeReturn
    <3>1. /\ coreQueue \subseteq rawIds /\ rawIds' = rawIds
          /\ coreQueue' = {} /\ dupIds' = {} /\ algQueue' = {} /\ histIds' = {}
          /\ cachedIds' = cachedIds
      BY <2>1, <2>3 DEF SynchronizeReturn
    <3>2. ASSUME NEW e \in consumed \cup cachedIds \cup rawIds
          PROVE  resp'[e].alg = 1
      <4>1. e \in Evals
        BY <1>2
      <4>2. CASE e \in coreQueue
        <5>1. resp'[e] = Mapped(e)
          BY <2>1, <2>3, <4>1, <4>2 DEF SynchronizeReturn
        <5>2. QED
          BY <2>2, <3>1, <4>2, <5>1
      <4>3. CASE e \notin coreQueue
        <5>1. resp'[e] = resp[e]
          BY <2>1, <2>3, <4>1, <4>3 DEF SynchronizeReturn
        <5>2. QED
          BY <2>1, <4>3, <5>1
      <4>4. QED
        BY <4>2, <4>3
    <3>3. QED
      BY <1>4, <1>7, <3>1, <3>2 DEF Overlays, AlgebraicMappings, CoreMappings
  <2>4. CASE NowaitReturn
    <3>1. /\ pc = "nowait" /\ NowaitIds \subseteq coreQueue
          /\ rawIds' = NowaitIds
          /\ coreQueue' = coreQueue \ NowaitIds /\ algQueue' = algQueue \ NowaitIds
          /\ dupIds' = {} /\ histIds' = {} /\ cachedIds' = {}
      BY <1>7, <2>1, <2>4 DEF NowaitReturn
    <3>2. NowaitIds = rawIds \cup ReadyDuplicates \cup cachedIds \cup histIds
          /\ ReadyDuplicates \subseteq dupIds
      BY <1>7, <3>1, NowaitIdsFacts
    <3>3. NowaitIds = rawIds /\ rawIds \subseteq coreQueue
      BY <1>1, <2>1, <3>1, <3>2 DEF Queues
    <3>4. ASSUME NEW e \in consumed \cup rawIds PROVE resp'[e].alg = 1
      <4>1. e \in Evals
        BY <1>2
      <4>2. CASE e \in rawIds
        <5>1. resp'[e] = Mapped(e)
          BY <2>1, <2>4, <3>3, <4>1, <4>2 DEF NowaitReturn
        <5>2. QED
          BY <2>2, <3>3, <4>2, <5>1
      <4>3. CASE e \notin rawIds
        <5>1. resp'[e] = resp[e]
          BY <2>4, <3>3, <4>1, <4>3 DEF NowaitReturn
        <5>2. e \notin coreQueue
          BY <1>1, <4>3 DEF Queues
        <5>3. QED
          BY <2>1, <4>3, <5>1, <5>2
      <4>4. QED
        BY <4>2, <4>3
    <3>5. QED
      BY <1>4, <1>7, <2>1, <3>1, <3>3, <3>4
      DEF Overlays, AlgebraicMappings, CoreMappings
  <2>5. QED
    BY <2>3, <2>4
<1>8. CASE ~CoreMappings
  <2>1. /\ \A e \in consumed \cup cachedIds \cup rawIds : resp[e].alg = 1
        /\ dupIds = {} /\ histIds = {}
    BY <1>1, <1>8 DEF Overlays, Queues
  <2>2. \A e \in Evals : Mapped(e).alg = 1 /\ Updated(e) = resp[e]
    BY <1>8, <2>1, UpdatedFacts
  <2>3. rawIds' \cup cachedIds' \subseteq rawIds \cup cachedIds \cup algQueue
        /\ \A e \in algQueue : resp'[e] = Mapped(e)
    <3>1. CASE SynchronizeReturn
      BY <1>2, <2>1, <3>1 DEF SynchronizeReturn
    <3>2. CASE NowaitReturn
      <4>1. NowaitIds = rawIds \cup cachedIds \cup algQueue
        BY <1>8, <3>2, NowaitIdsFacts DEF NowaitReturn
      <4>2. QED
        BY <1>2, <3>2, <4>1 DEF NowaitReturn
    <3>3. QED
      BY <3>1, <3>2
  <2>4. ASSUME NEW e \in consumed \cup cachedIds \cup rawIds \cup algQueue
        PROVE  resp'[e].alg = 1
    <3>1. e \in Evals
      BY <1>2
    <3>2. resp'[e] = Mapped(e)
          \/ (e \in consumed \cup cachedIds \cup rawIds /\ resp'[e] = resp[e])
      BY <1>5, <2>2, <2>3, <3>1
    <3>3. QED
      BY <2>1, <2>2, <3>1, <3>2
  <2>5. QED
    BY <1>3, <1>4, <1>8, <2>3, <2>4 DEF Overlays, AlgebraicMappings, CoreMappings
<1>9. QED
  BY <1>3, <1>6, <1>7, <1>8

(* Every step adds the algebraic response where it is due.                 *)
LEMMA OverlaysStep ==
  ASSUME NoAlgebraicCache, AInv, Overlays, [IfaceNext]_ifaceVars
  PROVE  Overlays'
<1> USE Types
<1>1. Queues
  BY DEF AInv
<1>2. ASSUME NEW id \in Evals, CompleteJob(id) PROVE Overlays'
  <2>1. /\ id \in coreQueue
        /\ resp' = [resp EXCEPT ![id] = Rep(vars[id], JobSet(set[id]), 0)]
        /\ rawIds' = rawIds \cup {id}
        /\ UNCHANGED <<coreQueue, algQueue, dupIds, histIds, cachedIds,
                       consumed, config>>
    BY <1>2 DEF CompleteJob
  <2>2. resp'[id].alg = 0 /\ \A e \in Evals \ {id} : resp'[e] = resp[e]
    BY <2>1 DEF Rep
  <2>3. CoreMappings
    BY <1>1, <2>1 DEF Queues
  <2>4. QED
    BY <2>1, <2>2, <2>3 DEF Overlays, AlgebraicMappings, CoreMappings
<1>3. ASSUME \/ SynchronizeStart \/ NowaitStart \/ NowaitUndefined
             \/ Terminated \/ UNCHANGED ifaceVars
             \/ \E S \in SUBSET rawIds : CacheUnmatched(S)
      PROVE  Overlays'
  <2>1. /\ consumed' \cup cachedIds' \cup rawIds'
             \subseteq consumed \cup cachedIds \cup rawIds \cup histIds
        /\ coreQueue' \cap rawIds' \subseteq coreQueue \cap rawIds
        /\ histIds' \subseteq histIds
        /\ UNCHANGED <<resp, coreQueue, algQueue, dupIds, config>>
    BY <1>1, <1>3 DEF SynchronizeStart, NowaitStart, NowaitUndefined,
       Terminated, CacheUnmatched, ifaceVars, Queues
  <2>2. ~CoreMappings => histIds = {}
    BY <1>1 DEF Queues
  <2>3. QED
    BY <2>1, <2>2 DEF Overlays, AlgebraicMappings, CoreMappings
<1>4. ASSUME NEW n \in 0 .. Len(restartFile), Restart(n) PROVE Overlays'
  <2>1. /\ resp' = [id \in Evals |-> EmptyRep] /\ coreQueue' = {}
        /\ algQueue' = {} /\ dupIds' = {} /\ histIds' = {} /\ cachedIds' = {}
        /\ rawIds' = {} /\ consumed' = {}
    BY <1>4 DEF Restart
  <2>2. \A id \in Evals : resp'[id].alg = 0
    BY <2>1 DEF EmptyRep, Rep
  <2>3. QED
    BY <2>1, <2>2 DEF Overlays, Evals
<1>5. QED
  BY <1>2, <1>3, <1>4, OverlaysMap, OverlaysReturn DEF IfaceNext

(* Unless core and algebraic mappings and the evaluation cache are all on, *)
(* the algebraic response is added to each returned response once.  (With  *)
(* all three on it is added again by every hit: the run of the finding     *)
(* shows it.)                                                              *)
THEOREM AlgebraicAddedOnce ==
  ASSUME NoAlgebraicCache
  PROVE  IfaceSpec => []AlgebraicOnce
<1>1. Init => AInv /\ Overlays
  <2>1. ASSUME Init PROVE Overlays
    <3>1. \A id \in Evals : resp[id].alg = 0
      BY <2>1 DEF Init, EmptyRep, Rep
    <3>2. QED
      BY <2>1, <3>1 DEF Init, Overlays
  <2>2. QED
    BY <2>1, InitAInv
<1>2. AInv /\ Overlays /\ [IfaceNext]_ifaceVars => AInv' /\ Overlays'
  BY NextAInv, OverlaysStep
<1>3. AInv /\ Overlays => AlgebraicOnce
  <2>1. ASSUME AInv, Overlays, NEW id \in Returned
        PROVE  resp[id].alg = Algebraic
    <3>1. id \in consumed \cup rawIds \cup cachedIds /\ id \notin coreQueue
      BY <2>1 DEF AInv, Queues, Returned
    <3>2. id \in Evals
      BY <2>1, <3>1, KnownIds
    <3>3. CoreMappings \/ AlgebraicMappings
      BY <2>1, Types, ConfigFacts DEF CoreMappings, AlgebraicMappings
    <3>4. QED
      BY <2>1, <3>1, <3>2, <3>3 DEF Overlays, Algebraic
  <2>2. QED
    BY <2>1 DEF AlgebraicOnce
<1>4. QED
  BY <1>1, <1>2, <1>3, PTL DEF IfaceSpec
=============================================================================
