------------------------ MODULE PeerSchedulerProofs ------------------------
(***************************************************************************)
(* Proofs about PeerScheduler for every number of evaluations and peers,   *)
(* every number of jobs per peer and every mix of configurations in which  *)
(* the two numberings of the static schedulers agree: the buffers of the   *)
(* first peer, the load of the peers, and that no job is given away twice. *)
(***************************************************************************)
EXTENDS PeerScheduler, IdQueueProofs, FiniteSetTheorems, SequenceTheorems,
        WellFoundedInduction, TLAPS

-----------------------------------------------------------------------------
(* Static scheduling over several other peers that run several jobs each   *)
(* is left out: there a buffer is shared (the run of the finding).         *)
NumberingsAgree ==
  \A c \in Configurations : c.static => c.conc = 1 \/ c.servers = 2

(* The inductive invariant, one part for each question.                    *)

Peers == 1 .. (MaxServers - 1)

(* The indices set apart for peer s.                                       *)
Lane(s) == ((s - 1) * Conc) .. (s * Conc - 1)

(* The entries of msgPassRunningMap.                                       *)
RunningJobs == [id : Evals, server : RemoteIds, index : 0 .. (RemoteCapacity - 1)]

Typed ==
  /\ config \in Configurations
  /\ evalIdCntr \in 0 .. MaxEvals /\ nowaitEvalIdRef \in Nat
  /\ coreQueue \in SUBSET (1 .. evalIdCntr)
  /\ delivered \in SUBSET (1 .. evalIdCntr)
  /\ raw \in SUBSET Evals /\ active \in SUBSET Evals
  /\ localQueue \in SUBSET Evals
  /\ runningMap \in SUBSET RunningJobs
  /\ recvRequests \in [Indices -> 0 .. MaxEvals]
  /\ pc \in {"idle", "local", "loop", "fill", "test", "aborted"}
  /\ remote \in [Peers -> Seq(Evals)]
  /\ replies \in SUBSET Evals

(* A job given to another peer is with it or has been answered.            *)
OnePlace ==
  /\ \A s \in Peers : NoRepeats(remote[s]) /\ SentTo(s) \cap replies = {}
  /\ \A s, t \in Peers : s # t => SentTo(s) \cap SentTo(t) = {}
  /\ \A s \in Peers : s \notin RemoteIds => SentTo(s) = {}

(* One receive is posted for each of them.                                 *)
Requests ==
  /\ \A x \in InFlight : \E b \in Indices : recvRequests[b] = x
  /\ \A b \in Indices : recvRequests[b] # NoTag => recvRequests[b] \in InFlight
  /\ \A b, c \in Indices :
       recvRequests[b] = recvRequests[c] /\ recvRequests[b] # NoTag => b = c

(* msgPassRunningMap describes them.                                       *)
Described ==
  /\ IdsOf(runningMap) = InFlight
  /\ \A r \in runningMap : recvRequests[r.index] = r.id
  /\ AvailableIndex
  /\ \A r \in runningMap, s \in RemoteIds : r.id \in SentTo(s) => r.server = s

(* No peer uses more indices than it may run jobs; the nonblocking forms   *)
(* keep to the indices set apart for it.                                   *)
Loads ==
  /\ \A s \in RemoteIds : Load(s) <= Conc
  /\ pc # "loop" => \A r \in runningMap : r.index \in Lane(r.server)

(* The queue, the jobs in flight, and those that are back.                 *)
Books ==
  /\ coreQueue \cap delivered = {}
  /\ InFlight \cup active \subseteq coreQueue
  /\ InFlight \cap active = {}
  /\ raw \cap (InFlight \cup active) = {}
  /\ Cardinality(active) <= Conc
  /\ pc = "idle" => raw \subseteq delivered /\ localQueue = {}
  /\ pc \in {"loop", "test"} => raw \subseteq coreQueue /\ localQueue = {}
  /\ pc = "fill" => /\ raw = {} /\ assignIter \in Nat
                    /\ localQueue \subseteq coreQueue
                    /\ localQueue \cap (InFlight \cup active) = {}
                    /\ \A x \in localQueue : x < assignIter
  /\ pc = "aborted" => raw = {}
  /\ pc = "local" => /\ active = {} /\ runningMap = {}
                     /\ localQueue \subseteq coreQueue /\ raw \subseteq localQueue
                     /\ InFlight = coreQueue \ localQueue

PInv ==
  /\ Typed
  /\ OnePlace
  /\ Requests
  /\ pc # "local" => Described /\ Loads
  /\ Books
  /\ SimulatedOnce

-----------------------------------------------------------------------------
(* The configuration of a run.                                             *)
LEMMA ConfigFacts ==
  ASSUME config \in Configurations
  PROVE  /\ MaxEvals \in Nat /\ N \in Nat /\ N >= 2
         /\ Conc \in Nat \ {0} /\ config.static \in BOOLEAN
         /\ RemoteCapacity \in Nat \ {0} /\ RemoteCapacity = (N - 1) * Conc
         /\ RemoteIds \subseteq Peers /\ RemoteIds = 1 .. (N - 1)
         /\ Indices \subseteq Nat
         /\ \A b \in 0 .. (RemoteCapacity - 1) : b \in Indices
         /\ \A b \in 0 .. MaxEvals : b \in Indices
<1>1. config \in ConfigurationType /\ MaxEvals \in Nat /\ MaxServers \in Nat
  BY ConstantsAssumption
<1>2. /\ N \in 2 .. MaxServers /\ Conc \in Nat \ {0} /\ config.static \in BOOLEAN
      /\ MaxEvals \in Nat
  BY <1>1 DEF ConfigurationType, N, Conc
<1>3. RemoteCapacity \in Nat \ {0}
  <2>1. N - 1 \in Nat /\ 0 < N - 1
    BY <1>1, <1>2
  <2>2. 0 * Conc + Conc <= (N - 1) * Conc
    BY <1>2, <2>1, ProductGrows
  <2> DEFINE p == (N - 1) * Conc
  <2>3. p \in Nat /\ Conc <= p
    BY <1>2, <2>1, <2>2
  <2> HIDE DEF p
  <2>4. p # 0
    BY <1>2, <2>3
  <2>5. QED
    BY <2>3, <2>4 DEF p, RemoteCapacity
<1>4. RemoteCapacity = (N - 1) * Conc
  BY DEF RemoteCapacity
<1> HIDE DEF RemoteCapacity
<1>5. RemoteIds = 1 .. (N - 1) /\ RemoteIds \subseteq Peers
  BY <1>1, <1>2 DEF RemoteIds, Peers
<1>6. /\ Indices \subseteq Nat
      /\ \A b \in 0 .. (RemoteCapacity - 1) : b \in Indices
      /\ \A b \in 0 .. MaxEvals : b \in Indices
  BY <1>1, <1>3 DEF Indices
<1>7. N \in Nat /\ N >= 2
  BY <1>1, <1>2
<1>8. QED
  BY <1>2, <1>3, <1>4, <1>5, <1>6, <1>7

(* A run keeps its configuration.                                          *)
LEMMA ConfigKept ==
  ASSUME config' = config
  PROVE  /\ N' = N /\ Conc' = Conc /\ RemoteIds' = RemoteIds
         /\ RemoteCapacity' = RemoteCapacity /\ Indices' = Indices
         /\ RunningJobs' = RunningJobs /\ StaticLimited' = StaticLimited
         /\ \A s : Lane(s)' = Lane(s)
BY DEF N, Conc, RemoteIds, RemoteCapacity, Indices, RunningJobs, Lane, StaticLimited

(* The ids are finite in number.                                           *)
LEMMA FiniteParts ==
  /\ IsFiniteSet(Evals) /\ Evals \subseteq Int /\ NoTag \notin Evals
  /\ \A S \in SUBSET Evals :
       IsFiniteSet(S) /\ Cardinality(S) \in Nat /\ S \subseteq Int
<1>1. IsFiniteSet(Evals) /\ Evals \subseteq Int /\ NoTag \notin Evals
  BY ConstantsAssumption, FS_Interval DEF Evals, NoTag
<1>2. QED
  BY <1>1, FS_Subset, FS_CardinalityType

(* Where jobs in flight are.                                               *)
LEMMA FlightFacts ==
  /\ \A s : SentTo(s) = Elems(remote[s])
  /\ \A x : x \in InFlight <=> x \in replies \/ \E s \in RemoteIds : x \in SentTo(s)
  /\ Typed => InFlight \subseteq Evals
<1>1. \A s : SentTo(s) = Elems(remote[s])
  BY DEF SentTo, Elems
<1>2. \A x : x \in InFlight <=> x \in replies \/ \E s \in RemoteIds : x \in SentTo(s)
  BY DEF InFlight
<1>3. ASSUME Typed PROVE InFlight \subseteq Evals
  <2>1. ASSUME NEW s \in RemoteIds PROVE SentTo(s) \subseteq Evals
    <3>1. remote[s] \in Seq(Evals)
      BY <1>3, ConfigFacts DEF Typed
    <3>2. QED
      BY <3>1, ElementOfSeq, LenProperties DEF SentTo
  <2>2. replies \subseteq Evals
    BY <1>3 DEF Typed
  <2>3. QED
    BY <1>2, <2>1, <2>2
<1>4. QED
  BY <1>1, <1>2, <1>3

-----------------------------------------------------------------------------
(* Sending and receiving.                                                  *)

(* The jobs of J for peer s.                                               *)
SentWith(J, s) == {r.id : r \in {q \in J : q.server = s}}

(* The requests after those of R were received and those of J posted.      *)
Requested(R, J) ==
  [b \in Indices |->
     IF \E r \in R \cup J : r.index = b
       THEN IF \E r \in J : r.index = b
              THEN (CHOOSE r \in J : r.index = b).id ELSE NoTag
       ELSE recvRequests[b]]

(* What the steps of the first peer have in common: the responses of R are *)
(* received and the jobs J are sent, with indices that were free or are    *)
(* those of R.                                                             *)
Sends(R, J) ==
  /\ R \subseteq Completed
  /\ J \in SUBSET [id : Evals, server : RemoteIds, index : Indices]
  /\ \A r, q \in J : r.id = q.id \/ r.index = q.index => r = q
  /\ \A r \in J : r.id \notin InFlight
  /\ \A r \in J : recvRequests[r.index] = NoTag \/ \E q \in R : q.index = r.index
  /\ config' = config
  /\ replies' = replies \ {recvRequests[r.index] : r \in R}
  /\ remote' = Messages(J)
  /\ recvRequests' = Requested(R, J)

(* A step that receives nothing.                                           *)
LEMMA PostedOnly ==
  ASSUME NEW J
  PROVE  Posted(J) = Requested({}, J) /\ {recvRequests[r.index] : r \in {}} = {}
BY DEF Posted, Requested

(* The requests that such a step leaves.                                   *)
LEMMA RequestedFacts ==
  ASSUME Typed, NEW R, NEW J, Sends(R, J)
  PROVE  /\ recvRequests' \in [Indices -> 0 .. MaxEvals]
         /\ \A r \in J : recvRequests'[r.index] = r.id
         /\ \A b \in Indices : (\A r \in R \cup J : r.index # b)
                                 => recvRequests'[b] = recvRequests[b]
         /\ \A b \in Indices :
              \/ \E r \in J : r.index = b
              \/ /\ \E r \in R : r.index = b
                 /\ recvRequests'[b] = NoTag
              \/ /\ \A r \in R \cup J : r.index # b
                 /\ recvRequests'[b] = recvRequests[b]
<1>1. /\ recvRequests \in [Indices -> 0 .. MaxEvals] /\ NoTag \in 0 .. MaxEvals
      /\ Evals \subseteq 0 .. MaxEvals
  BY ConstantsAssumption DEF Typed, NoTag, Evals
<1>2. \A b \in Indices : recvRequests'[b] = 
        IF \E r \in R \cup J : r.index = b
          THEN IF \E r \in J : r.index = b
                 THEN (CHOOSE r \in J : r.index = b).id ELSE NoTag
          ELSE recvRequests[b]
  BY DEF Sends, Requested
<1>3. /\ \A r \in J : r.index \in Indices /\ r.id \in Evals
      /\ \A r, q \in J : r.index = q.index => r = q
  BY DEF Sends
<1>4. ASSUME NEW r \in J PROVE recvRequests'[r.index] = r.id
  <2> DEFINE c == CHOOSE q \in J : q.index = r.index
  <2>1. c \in J /\ c.index = r.index
    OBVIOUS
  <2>2. c = r
    BY <1>3, <2>1
  <2>3. recvRequests'[r.index] = c.id
    BY <1>2, <1>3
  <2>4. QED
    BY <2>2, <2>3
<1>5. \A b \in Indices :
        \/ \E r \in J : r.index = b
        \/ /\ \E r \in R : r.index = b
           /\ recvRequests'[b] = NoTag
        \/ /\ \A r \in R \cup J : r.index # b
           /\ recvRequests'[b] = recvRequests[b]
  BY <1>2
<1>6. \A b \in Indices : (\A r \in R \cup J : r.index # b)
                           => recvRequests'[b] = recvRequests[b]
  BY <1>2
<1>7. \A b \in Indices : recvRequests'[b] \in 0 .. MaxEvals
  BY <1>1, <1>3, <1>4, <1>5
<1>8. recvRequests' = [b \in Indices |-> recvRequests'[b]]
  BY DEF Sends, Requested
<1>9. QED
  BY <1>4, <1>5, <1>6, <1>7, <1>8

(* Such a step moves jobs into flight and out of it, and leaves each one   *)
(* in one place and with one request.                                      *)
LEMMA SendsFacts ==
  ASSUME Typed, OnePlace, Requests, NEW R, NEW J, Sends(R, J)
  PROVE  /\ remote' \in [Peers -> Seq(Evals)] /\ replies' \in SUBSET Evals
         /\ OnePlace' /\ Requests'
         /\ \A s \in Peers : SentTo(s)' = SentTo(s) \cup SentWith(J, s)
         /\ InFlight' = (InFlight \ {recvRequests[r.index] : r \in R}) \cup IdsOf(J)
<1> DEFINE got == {recvRequests[r.index] : r \in R}
<1>1. /\ remote \in [Peers -> Seq(Evals)] /\ replies \in SUBSET Evals
      /\ recvRequests \in [Indices -> 0 .. MaxEvals] /\ config \in Configurations
      /\ InFlight \subseteq Evals
  BY FlightFacts DEF Typed
<1>2. RemoteIds' = RemoteIds /\ Indices' = Indices /\ RemoteIds \subseteq Peers
  BY <1>1, ConfigKept, ConfigFacts DEF Sends
<1>3. /\ \A r \in J : r.id \in Evals /\ r.server \in RemoteIds /\ r.index \in Indices
      /\ \A r, q \in J : r.id = q.id \/ r.index = q.index => r = q
      /\ \A r \in J : r.id \notin InFlight
  BY DEF Sends
<1>4. \A s : SentWith(J, s) \subseteq Evals /\ SentWith(J, s) \cap InFlight = {}
  BY <1>3 DEF SentWith
<1>5. got \subseteq replies /\ replies' = replies \ got
  BY DEF Sends, Completed, Complete
<1> HIDE DEF got
<1>6. ASSUME NEW s \in Peers
      PROVE  /\ remote'[s] \in Seq(Evals) /\ NoRepeats(remote'[s])
             /\ Elems(remote'[s]) = Elems(remote[s]) \cup SentWith(J, s)
  <2> DEFINE new == SentWith(J, s)
  <2>1. remote'[s] = remote[s] \o InOrder(new)
    BY DEF Sends, Messages, SentWith, Peers
  <2>2. new \in SUBSET Evals
    BY <1>4
  <2> HIDE DEF new
  <2>3. InOrder(new) \in Seq(new) /\ Elems(InOrder(new)) = new /\ NoRepeats(InOrder(new))
    BY <2>2, FiniteParts, ListFacts
  <2>4. InOrder(new) \in Seq(Evals)
    BY <2>2, <2>3, SeqMonotonic
  <2>5. remote[s] \in Seq(Evals) /\ NoRepeats(remote[s])
    BY <1>1 DEF OnePlace
  <2>6. Elems(remote[s]) \cap new = {}
    <3>1. CASE s \in RemoteIds
      <4>1. Elems(remote[s]) \subseteq InFlight
        BY <3>1, FlightFacts
      <4>2. QED
        BY <1>4, <4>1 DEF new
    <3>2. CASE s \notin RemoteIds
      BY <3>2, FlightFacts DEF OnePlace
    <3>3. QED
      BY <3>1, <3>2
  <2>7. /\ remote[s] \o InOrder(new) \in Seq(Evals)
        /\ Elems(remote[s] \o InOrder(new)) = Elems(remote[s]) \cup new
        /\ NoRepeats(remote[s] \o InOrder(new))
    BY <2>3, <2>4, <2>5, <2>6, ConcatFacts
  <2>8. QED
    BY <2>1, <2>7 DEF new
<1>7. remote' \in [Peers -> Seq(Evals)]
  <2>1. remote' = [s \in Peers |-> remote'[s]]
    BY DEF Sends, Messages, Peers
  <2>2. QED
    BY <1>6, <2>1
<1>8. \A s \in Peers : SentTo(s)' = SentTo(s) \cup SentWith(J, s)
  <2>1. ASSUME NEW s \in Peers PROVE SentTo(s)' = Elems(remote'[s])
    BY DEF SentTo, Elems
  <2>2. QED
    BY <1>6, <2>1, FlightFacts
<1>9. \A s \in Peers : SentTo(s) \subseteq InFlight
  BY FlightFacts DEF OnePlace
<1>10. OnePlace'
  <2>1. ASSUME NEW s \in Peers PROVE SentTo(s)' \cap replies' = {}
    <3>1. SentTo(s) \cap replies = {} /\ replies \subseteq InFlight
      BY FlightFacts DEF OnePlace
    <3>2. QED
      BY <1>4, <1>5, <1>8, <3>1
  <2>2. ASSUME NEW s \in Peers, NEW t \in Peers, s # t
        PROVE  SentTo(s)' \cap SentTo(t)' = {}
    <3>1. SentWith(J, s) \cap SentWith(J, t) = {}
      BY <1>3, <2>2 DEF SentWith
    <3>2. SentTo(s) \cap SentTo(t) = {}
      BY <2>2 DEF OnePlace
    <3>3. QED
      BY <1>4, <1>8, <1>9, <3>1, <3>2
  <2>3. ASSUME NEW s \in Peers, s \notin RemoteIds' PROVE SentTo(s)' = {}
    <3>1. SentWith(J, s) = {}
      BY <1>2, <1>3, <2>3 DEF SentWith
    <3>2. SentTo(s) = {}
      BY <1>2, <2>3 DEF OnePlace
    <3>3. QED
      BY <1>8, <3>1, <3>2
  <2>4. QED
    BY <1>6, <2>1, <2>2, <2>3 DEF OnePlace
<1>11. InFlight' = (InFlight \ got) \cup IdsOf(J)
  <2>1. \A x : x \in InFlight' <=> x \in replies' \/ \E s \in RemoteIds' : x \in SentTo(s)'
    BY DEF InFlight
  <2>2. \A x : x \in IdsOf(J) <=> \E s \in RemoteIds : x \in SentWith(J, s)
    BY <1>3 DEF IdsOf, SentWith
  <2>3. ASSUME NEW x PROVE x \in InFlight' <=> x \in (InFlight \ got) \cup IdsOf(J)
    <3>1. x \in InFlight' <=> x \in replies \ got
              \/ \E s \in RemoteIds : x \in SentTo(s) \/ x \in SentWith(J, s)
      BY <1>2, <1>5, <1>8, <2>1
    <3>2. (\E s \in RemoteIds : x \in SentTo(s)) => x \notin got
      BY <1>2, <1>5 DEF OnePlace
    <3>3. x \in InFlight <=> x \in replies \/ \E s \in RemoteIds : x \in SentTo(s)
      BY FlightFacts
    <3>4. QED
      BY <2>2, <3>1, <3>2, <3>3
  <2>4. QED
    BY <2>3
<1>12. /\ \A r \in J : recvRequests'[r.index] = r.id
       /\ \A b \in Indices : (\A r \in R \cup J : r.index # b)
                               => recvRequests'[b] = recvRequests[b]
       /\ \A b \in Indices :
            \/ \E r \in J : r.index = b
            \/ /\ \E r \in R : r.index = b
               /\ recvRequests'[b] = NoTag
            \/ /\ \A r \in R \cup J : r.index # b
               /\ recvRequests'[b] = recvRequests[b]
  BY RequestedFacts
<1>13. \A r \in R : recvRequests[r.index] \in got
  BY DEF got
<1>14. NoTag \notin Evals
  BY FiniteParts
<1>15. ASSUME NEW x \in InFlight' PROVE \E b \in Indices : recvRequests'[b] = x
  <2>1. CASE x \in IdsOf(J)
    BY <1>3, <1>12, <2>1 DEF IdsOf
  <2>2. CASE x \in InFlight \ got
    <3>1. PICK b \in Indices : recvRequests[b] = x
      BY <2>2 DEF Requests
    <3>2. \A r \in R : r.index # b
      BY <1>13, <2>2, <3>1
    <3>3. \A r \in J : r.index # b
      BY <1>1, <1>14, <2>2, <3>1, <3>2 DEF Sends
    <3>4. QED
      BY <1>12, <3>1, <3>2, <3>3
  <2>3. QED
    BY <1>11, <1>15, <2>1, <2>2
<1>16. ASSUME NEW b \in Indices, recvRequests'[b] # NoTag
       PROVE  /\ recvRequests'[b] \in InFlight'
              /\ \/ \E r \in J : r.index = b /\ recvRequests'[b] = r.id
                 \/ recvRequests'[b] = recvRequests[b] /\ recvRequests[b] \in InFlight
  <2>1. CASE \E r \in J : r.index = b
    <3>1. PICK r \in J : r.index = b
      BY <2>1
    <3>2. recvRequests'[b] = r.id /\ r.id \in IdsOf(J)
      BY <1>12, <3>1 DEF IdsOf
    <3>3. QED
      BY <1>11, <3>1, <3>2
  <2>2. CASE /\ \A r \in R \cup J : r.index # b
             /\ recvRequests'[b] = recvRequests[b]
    <3>1. recvRequests[b] \in InFlight
      BY <1>16, <2>2 DEF Requests
    <3>2. recvRequests[b] \notin got
      <4>1. SUFFICES ASSUME recvRequests[b] \in got PROVE FALSE
        OBVIOUS
      <4>2. PICK r \in R : recvRequests[r.index] = recvRequests[b]
        BY <4>1 DEF got
      <4>3. r.index \in Indices
        BY <1>1, ConfigFacts DEF Typed, RunningJobs, Sends, Completed
      <4>4. r.index = b
        BY <1>16, <2>2, <4>2, <4>3 DEF Requests
      <4>5. QED
        BY <2>2, <4>4
    <3>3. QED
      BY <1>11, <2>2, <3>1, <3>2
  <2>3. QED
    BY <1>12, <1>16, <2>1, <2>2
<1>17. ASSUME NEW b \in Indices, NEW c \in Indices,
              recvRequests'[b] = recvRequests'[c], recvRequests'[b] # NoTag
       PROVE  b = c
  <2>1. CASE /\ \E r \in J : r.index = b /\ recvRequests'[b] = r.id
             /\ \E r \in J : r.index = c /\ recvRequests'[c] = r.id
    BY <1>3, <1>17, <2>1
  <2>2. CASE /\ recvRequests'[b] = recvRequests[b] /\ recvRequests[b] \in InFlight
             /\ recvRequests'[c] = recvRequests[c] /\ recvRequests[c] \in InFlight
    BY <1>17, <2>2 DEF Requests
  <2>3. QED
    BY <1>3, <1>16, <1>17, <2>1, <2>2
<1>18. Requests'
  <2>1. /\ \A x \in InFlight' : \E b \in Indices' : recvRequests'[b] = x
        /\ \A b \in Indices' : recvRequests'[b] # NoTag => recvRequests'[b] \in InFlight'
        /\ \A b, c \in Indices' :
             recvRequests'[b] = recvRequests'[c] /\ recvRequests'[b] # NoTag => b = c
    BY <1>2, <1>15, <1>16, <1>17
  <2>2. QED
    BY <2>1 DEF Requests, NoTag
<1>19. QED
  BY <1>1, <1>5, <1>7, <1>8, <1>10, <1>11, <1>18 DEF got

(* A buffer that no entry of msgPassRunningMap uses has no request.        *)
LEMMA UnusedIndex ==
  ASSUME Typed, Requests, Described, NEW b \in Indices,
         \A r \in runningMap : r.index # b
  PROVE  recvRequests[b] = NoTag
<1>1. SUFFICES ASSUME recvRequests[b] # NoTag PROVE FALSE
  OBVIOUS
<1>2. recvRequests[b] \in IdsOf(runningMap)
  BY <1>1 DEF Requests, Described
<1>3. PICK r \in runningMap : r.id = recvRequests[b]
  BY <1>2 DEF IdsOf
<1>4. recvRequests[r.index] = recvRequests[b] /\ r.index \in Indices
  BY <1>3, ConfigFacts DEF Described, Typed, RunningJobs
<1>5. r.index = b
  BY <1>1, <1>4 DEF Requests
<1>6. QED
  BY <1>5

(* With the running map brought up to date, it describes what is in        *)
(* flight.                                                                 *)
LEMMA DescribedFacts ==
  ASSUME Typed, OnePlace, Requests, Described, NEW R, NEW J, Sends(R, J),
         J \in SUBSET RunningJobs, runningMap' = (runningMap \ R) \cup J
  PROVE  /\ Described' /\ runningMap' \in SUBSET RunningJobs
         /\ {recvRequests[r.index] : r \in R} = IdsOf(R)
         /\ IdsOf(R) \subseteq replies
         /\ InFlight' = (InFlight \ IdsOf(R)) \cup IdsOf(J)
<1>1. /\ config \in Configurations /\ runningMap \in SUBSET RunningJobs
      /\ R \subseteq runningMap
  BY DEF Typed, Sends, Completed
<1>2. /\ \A r \in RunningJobs : /\ r.id \in Evals /\ r.server \in RemoteIds
                                /\ r.index \in Indices
      /\ RemoteIds' = RemoteIds /\ Indices' = Indices /\ RemoteIds \subseteq Peers
  BY <1>1, ConfigFacts, ConfigKept DEF RunningJobs, Sends
<1>3. \A r \in runningMap : recvRequests[r.index] = r.id
  BY DEF Described
<1>4. {recvRequests[r.index] : r \in R} = IdsOf(R)
  BY <1>1, <1>3 DEF IdsOf
<1>5. IdsOf(R) \subseteq replies
  BY <1>1, <1>3 DEF IdsOf, Sends, Completed, Complete
<1>6. /\ InFlight' = (InFlight \ IdsOf(R)) \cup IdsOf(J)
      /\ \A s \in Peers : SentTo(s)' = SentTo(s) \cup SentWith(J, s)
      /\ OnePlace'
  BY <1>4, SendsFacts
<1>7. /\ \A r, q \in runningMap : r.index = q.index => r = q
      /\ \A r, q \in runningMap : r.id = q.id => r = q
  <2>1. \A r, q \in runningMap : r.index = q.index => r = q
    BY DEF Described, AvailableIndex
  <2>2. ASSUME NEW r \in runningMap, NEW q \in runningMap, r.id = q.id PROVE r = q
    <3>1. recvRequests[r.index] = recvRequests[q.index] /\ recvRequests[r.index] \in Evals
          /\ r.index \in Indices /\ q.index \in Indices
      BY <1>1, <1>2, <1>3, <2>2
    <3>2. r.index = q.index
      BY <3>1, FiniteParts DEF Requests
    <3>3. QED
      BY <2>1, <3>2
  <2>3. QED
    BY <2>1, <2>2
<1>8. \A r \in J : /\ r.id \notin InFlight
                   /\ recvRequests[r.index] = NoTag \/ \E q \in R : q.index = r.index
  BY DEF Sends
<1>9. ASSUME NEW r \in runningMap \ R, NEW q \in J PROVE r.index # q.index /\ r.id # q.id
  <2>1. r.id \in InFlight
    BY DEF Described, IdsOf
  <2>2. recvRequests[r.index] = r.id /\ r.id \in Evals
    BY <1>1, <1>2, <1>3
  <2>3. \A p \in R : p.index # r.index
    BY <1>1, <1>7
  <2>4. QED
    BY <1>8, <2>1, <2>2, <2>3, FiniteParts
<1>10. \A r, q \in J : r.id = q.id \/ r.index = q.index => r = q
  BY DEF Sends
<1>11. AvailableIndex'
  <2>1. \A r, q \in runningMap' : r.index = q.index => r = q
    BY <1>7, <1>9, <1>10
  <2>2. QED
    BY <2>1 DEF AvailableIndex
<1>12. IdsOf(runningMap)' = InFlight'
  <2>1. IdsOf(runningMap)' = IdsOf(runningMap \ R) \cup IdsOf(J)
    BY DEF IdsOf
  <2>2. IdsOf(runningMap \ R) = IdsOf(runningMap) \ IdsOf(R)
    BY <1>1, <1>7 DEF IdsOf
  <2>3. IdsOf(runningMap) = InFlight
    BY DEF Described
  <2>4. QED
    BY <1>6, <2>1, <2>2, <2>3
<1>13. ASSUME NEW r \in runningMap' PROVE recvRequests'[r.index] = r.id
  <2>1. CASE r \in J
    BY <2>1, RequestedFacts
  <2>2. CASE r \in runningMap \ R
    <3>1. \A q \in R \cup J : q.index # r.index
      BY <1>1, <1>7, <1>9, <2>2
    <3>2. recvRequests'[r.index] = recvRequests[r.index]
      BY <1>1, <1>2, <2>2, <3>1, RequestedFacts
    <3>3. QED
      BY <1>3, <2>2, <3>2
  <2>3. QED
    BY <2>1, <2>2
<1>14. ASSUME NEW r \in runningMap', NEW s \in RemoteIds, r.id \in SentTo(s)'
       PROVE  r.server = s
  <2>1. r.id \in SentTo(s) \/ r.id \in SentWith(J, s)
    BY <1>2, <1>6, <1>14
  <2>2. CASE r.id \in SentWith(J, s)
    <3>1. PICK q \in J : q.server = s /\ q.id = r.id
      BY <2>2 DEF SentWith
    <3>2. q = r
      BY <1>9, <1>10, <3>1
    <3>3. QED
      BY <3>1, <3>2
  <2>3. CASE r.id \in SentTo(s)
    <3>1. r.id \in InFlight
      BY <2>3, FlightFacts
    <3>2. r \in runningMap
      BY <1>8, <3>1
    <3>3. QED
      BY <2>3, <3>2 DEF Described
  <2>4. QED
    BY <2>1, <2>2, <2>3
<1>15. Described'
  <2>1. /\ \A r \in runningMap' : recvRequests'[r.index] = r.id
        /\ \A r \in runningMap', s \in RemoteIds' : r.id \in SentTo(s)' => r.server = s
    BY <1>2, <1>13, <1>14
  <2>2. QED
    BY <1>11, <1>12, <2>1 DEF Described
<1>16. QED
  BY <1>1, <1>4, <1>5, <1>6, <1>15

-----------------------------------------------------------------------------
(* The load of the peers.                                                  *)

(* The indices set apart for a peer are as many as it may run jobs, and    *)
(* within the arrays.                                                      *)
LEMMA LaneFacts ==
  ASSUME config \in Configurations, NEW s \in RemoteIds
  PROVE  /\ IsFiniteSet(Lane(s)) /\ Cardinality(Lane(s)) = Conc
         /\ Lane(s) \subseteq 0 .. (RemoteCapacity - 1)
         /\ Lane(s) = ((s - 1) * Conc) .. ((s - 1) * Conc + Conc - 1)
         /\ (s - 1) * Conc \in Nat
<1>1. /\ N \in Nat /\ N >= 2 /\ Conc \in Nat \ {0}
      /\ RemoteCapacity = (N - 1) * Conc /\ s \in 1 .. (N - 1)
  BY ConfigFacts
<1>2. s - 1 \in Nat /\ N - 1 \in Nat /\ s - 1 < N - 1 /\ s \in Nat
  BY <1>1
<1> DEFINE a == (s - 1) * Conc
           z == (N - 1) * Conc
<1>3. a \in Nat /\ z \in Nat /\ s * Conc = a + Conc
  BY <1>1, <1>2
<1>4. a + Conc <= z
  BY <1>1, <1>2, ProductGrows
<1>5. Lane(s) = a .. (a + Conc - 1)
  <2>1. Lane(s) = a .. (s * Conc - 1)
    BY DEF Lane
  <2>2. s * Conc - 1 = a + Conc - 1
    BY <1>1, <1>3
  <2>3. QED
    BY <2>1, <2>2
<1>6. RemoteCapacity = z
  BY <1>1
<1> HIDE DEF a, z
<1>7. a \in Int /\ a + Conc - 1 \in Int /\ ~(a > a + Conc - 1)
  BY <1>1, <1>3
<1>8. IsFiniteSet(a .. (a + Conc - 1))
      /\ Cardinality(a .. (a + Conc - 1)) = (a + Conc - 1) - a + 1
  BY <1>7, FS_Interval
<1>9. (a + Conc - 1) - a + 1 = Conc
  BY <1>1, <1>3
<1>10. a .. (a + Conc - 1) \subseteq 0 .. (z - 1)
  BY <1>1, <1>3, <1>4
<1>11. Lane(s) \subseteq 0 .. (RemoteCapacity - 1)
  BY <1>5, <1>6, <1>10
<1>12. QED
  BY <1>3, <1>5, <1>8, <1>9, <1>11 DEF a

(* A peer that keeps to them is not overloaded.                            *)
LEMMA LoadInLane ==
  ASSUME config \in Configurations, NEW s \in RemoteIds,
         \A r \in runningMap : r.server = s => r.index \in Lane(s)
  PROVE  IndicesOf(s) \subseteq Lane(s) /\ Load(s) <= Conc
<1>1. IndicesOf(s) \subseteq Lane(s)
  BY DEF IndicesOf
<1>2. Cardinality(IndicesOf(s)) <= Cardinality(Lane(s))
  BY <1>1, LaneFacts, FS_Subset
<1>3. QED
  BY <1>1, <1>2, LaneFacts DEF Load

(* Nor is a peer whose new jobs take over the indices of others.           *)
LEMMA LoadShrinks ==
  ASSUME Typed, NEW s \in RemoteIds, Load(s) <= Conc, config' = config,
         \A r \in runningMap' : r.server = s => r.index \in IndicesOf(s)
  PROVE  Load(s)' <= Conc'
<1>1. IndicesOf(s)' \subseteq IndicesOf(s)
  BY DEF IndicesOf
<1>2. RemoteCapacity \in Nat /\ Conc \in Nat /\ Conc' = Conc
  BY ConfigFacts, ConfigKept DEF Typed
<1>3. IndicesOf(s) \subseteq 0 .. (RemoteCapacity - 1)
  BY DEF IndicesOf, Typed, RunningJobs
<1>4. IsFiniteSet(IndicesOf(s))
  BY <1>2, <1>3, Below, FS_Subset
<1>5. Cardinality(IndicesOf(s)') <= Cardinality(IndicesOf(s))
      /\ IsFiniteSet(IndicesOf(s)')
  BY <1>1, <1>4, FS_Subset
<1>6. Cardinality(IndicesOf(s)') \in Nat /\ Cardinality(IndicesOf(s)) \in Nat
  BY <1>4, <1>5, FS_CardinalityType
<1>7. Load(s)' = Cardinality(IndicesOf(s)') /\ Load(s) = Cardinality(IndicesOf(s))
  BY DEF Load
<1>8. QED
  BY <1>2, <1>5, <1>6, <1>7

(* What Loads says, from lanes alone.                                      *)
LEMMA LoadsFromLanes ==
  ASSUME config \in Configurations,
         \A r \in runningMap : r.index \in Lane(r.server)
  PROVE  Loads
<1>1. ASSUME NEW s \in RemoteIds PROVE Load(s) <= Conc
  BY LoadInLane
<1>2. QED
  BY <1>1 DEF Loads

(* The same after a step.                                                  *)
LEMMA LoadsFromLanesNext ==
  ASSUME config \in Configurations, config' = config,
         \A r \in runningMap' : r.index \in Lane(r.server)
  PROVE  Loads'
<1>1. /\ RemoteIds' = RemoteIds /\ Conc' = Conc /\ Conc \in Nat
      /\ \A s : Lane(s)' = Lane(s)
  BY ConfigKept, ConfigFacts
<1>2. ASSUME NEW s \in RemoteIds PROVE Load(s)' <= Conc'
  <2>1. IndicesOf(s)' \subseteq Lane(s)
    BY DEF IndicesOf
  <2>2. Cardinality(IndicesOf(s)') <= Cardinality(Lane(s))
    BY <2>1, LaneFacts, FS_Subset
  <2>3. QED
    BY <1>1, <2>2, LaneFacts DEF Load
<1>3. \A r \in runningMap' : r.index \in Lane(r.server)'
  BY <1>1
<1>4. QED
  BY <1>1, <1>2, <1>3 DEF Loads

-----------------------------------------------------------------------------
(* How often a job is given to a peer.                                     *)

(* The jobs that have been given to one.                                   *)
Given == InFlight \cup active \cup delivered \cup (raw \cap coreQueue)

(* A step that gives away the jobs L.                                      *)
LEMMA GivesAway ==
  ASSUME SimulatedOnce, NEW L, L \cap Given = {}, runs' = Count(L),
         Given' = Given \cup L
  PROVE  SimulatedOnce'
<1>1. \A id \in Evals : runs[id] = IF id \in Given THEN 1 ELSE 0
  BY DEF SimulatedOnce, Given
<1>2. \A id \in Evals : runs'[id] = IF id \in L THEN runs[id] + 1 ELSE runs[id]
  BY DEF Count
<1>3. \A id \in Evals : runs'[id] = IF id \in Given' THEN 1 ELSE 0
  BY <1>1, <1>2
<1>4. QED
  BY <1>3 DEF SimulatedOnce, Given

(* A step that gives none away.                                            *)
LEMMA GivesNone ==
  ASSUME SimulatedOnce, runs' = runs, Given' = Given
  PROVE  SimulatedOnce'
<1>1. \A id \in Evals : runs[id] = IF id \in Given THEN 1 ELSE 0
  BY DEF SimulatedOnce, Given
<1>2. \A id \in Evals : runs'[id] = IF id \in Given' THEN 1 ELSE 0
  BY <1>1
<1>3. QED
  BY <1>2 DEF SimulatedOnce, Given

-----------------------------------------------------------------------------
(* Steps that send and receive nothing.                                    *)
LEMMA Quiet ==
  ASSUME Typed, OnePlace, Requests, config' = config, remote' = remote,
         replies' = replies, recvRequests' = recvRequests
  PROVE  /\ InFlight' = InFlight /\ OnePlace' /\ Requests'
         /\ RunningJobs' = RunningJobs /\ Indices' = Indices /\ Conc' = Conc
<1>1. /\ Conc' = Conc /\ RemoteIds' = RemoteIds
      /\ Indices' = Indices /\ RunningJobs' = RunningJobs
  BY ConfigKept
<1>2. \A s : SentTo(s)' = SentTo(s)
  BY DEF SentTo
<1>3. InFlight' = InFlight
  BY <1>1, <1>2 DEF InFlight
<1>4. OnePlace'
  BY <1>1, <1>2 DEF OnePlace
<1>5. Requests'
  BY <1>1, <1>3 DEF Requests
<1>6. QED
  BY <1>1, <1>3, <1>4, <1>5

LEMMA QuietMap ==
  ASSUME Typed, OnePlace, Requests, config' = config, remote' = remote,
         replies' = replies, recvRequests' = recvRequests,
         runningMap' = runningMap, Described, Loads,
         pc # "loop" \/ pc' = "loop" \/ runningMap = {}
  PROVE  Described' /\ Loads'
<1>1. InFlight' = InFlight
  BY Quiet
<1>2. /\ RemoteIds' = RemoteIds /\ Conc' = Conc /\ \A s : Lane(s)' = Lane(s)
      /\ \A s : SentTo(s)' = SentTo(s)
      /\ \A s : Load(s)' = Load(s)
  BY ConfigKept DEF SentTo, Load, IndicesOf
<1>3. Described'
  <2>1. IdsOf(runningMap)' = InFlight'
    BY <1>1 DEF Described, IdsOf
  <2>2. AvailableIndex'
    BY DEF Described, AvailableIndex
  <2>3. \A r \in runningMap' : recvRequests'[r.index] = r.id
    BY DEF Described
  <2>4. \A r \in runningMap', s \in RemoteIds' : r.id \in SentTo(s)' => r.server = s
    BY <1>2 DEF Described
  <2>5. QED
    BY <2>1, <2>2, <2>3, <2>4 DEF Described
<1>4. Loads'
  <2>1. pc' # "loop" => \A r \in runningMap' : r.index \in Lane(r.server)'
    BY <1>2 DEF Loads
  <2>2. \A s \in RemoteIds' : Load(s)' <= Conc'
    BY <1>2 DEF Loads
  <2>3. QED
    BY <2>1, <2>2 DEF Loads
<1>5. QED
  BY <1>3, <1>4

LEMMA StutterPInv ==
  ASSUME PInv, UNCHANGED vars
  PROVE  PInv'
<1> USE DEF PInv
<1>1. /\ config' = config /\ evalIdCntr' = evalIdCntr
      /\ nowaitEvalIdRef' = nowaitEvalIdRef /\ coreQueue' = coreQueue
      /\ raw' = raw /\ active' = active /\ runningMap' = runningMap
      /\ recvRequests' = recvRequests /\ assignIter' = assignIter
      /\ localQueue' = localQueue /\ pc' = pc /\ remote' = remote
      /\ replies' = replies /\ delivered' = delivered /\ runs' = runs
  BY DEF vars, ownVars
<1>2. /\ InFlight' = InFlight /\ OnePlace' /\ Requests'
      /\ RunningJobs' = RunningJobs /\ Indices' = Indices /\ Conc' = Conc
  BY <1>1, Quiet
<1>3. pc # "local" => Described' /\ Loads'
  BY <1>1, QuietMap
<1>4. Typed'
  BY <1>1, <1>2 DEF Typed
<1>5. Books'
  BY <1>1, <1>2 DEF Books
<1>6. SimulatedOnce'
  BY <1>1, <1>2, GivesNone DEF Given
<1>7. QED
  BY <1>1, <1>2, <1>3, <1>4, <1>5, <1>6

(* The first state.                                                        *)
LEMMA InitPInv == Init => PInv
<1> SUFFICES ASSUME Init PROVE PInv
  OBVIOUS
<1>1. /\ config \in Configurations /\ MaxEvals \in Nat
      /\ Conc \in Nat /\ 0 <= Conc
  BY ConfigFacts DEF Init
<1>2. \A s \in Peers : remote[s] = <<>> /\ SentTo(s) = {} /\ NoRepeats(remote[s])
  BY DEF Init, SentTo, Peers, NoRepeats
<1>3. RemoteIds \subseteq Peers
  BY <1>1, ConfigFacts
<1>4. InFlight = {}
  BY <1>2, <1>3, FlightFacts DEF Init
<1>5. Typed
  <2>1. remote \in [Peers -> Seq(Evals)]
    BY DEF Init, Peers
  <2>2. recvRequests \in [Indices -> 0 .. MaxEvals]
    BY <1>1 DEF Init, NoTag
  <2>3. evalIdCntr \in 0 .. MaxEvals /\ nowaitEvalIdRef \in Nat
    BY <1>1 DEF Init
  <2>4. QED
    BY <1>1, <2>1, <2>2, <2>3 DEF Init, Typed
<1>6. OnePlace
  BY <1>2 DEF OnePlace, Init
<1>7. Requests
  BY <1>4 DEF Requests, Init
<1>8. Described
  BY <1>4 DEF Described, Init, IdsOf, AvailableIndex
<1>9. Loads
  BY <1>1, LoadsFromLanes DEF Init
<1>10. Books
  <2>1. Cardinality(active) <= Conc
    BY <1>1, FS_EmptySet DEF Init
  <2>2. QED
    BY <1>4, <2>1 DEF Books, Init
<1>11. SimulatedOnce
  BY <1>4 DEF SimulatedOnce, Init
<1>12. QED
  BY <1>5, <1>6, <1>7, <1>8, <1>9, <1>10, <1>11 DEF PInv

LEMMA MapAsynchPInv ==
  ASSUME PInv, MapAsynch
  PROVE  PInv'
<1> USE DEF PInv
<1>1. /\ config' = config /\ nowaitEvalIdRef' = nowaitEvalIdRef
      /\ raw' = raw /\ active' = active /\ runningMap' = runningMap
      /\ recvRequests' = recvRequests /\ assignIter' = assignIter
      /\ localQueue' = localQueue /\ pc' = pc /\ remote' = remote
      /\ replies' = replies /\ delivered' = delivered /\ runs' = runs
      /\ pc = "idle" /\ evalIdCntr < MaxEvals /\ evalIdCntr' = evalIdCntr + 1
      /\ coreQueue' = coreQueue \cup {evalIdCntr'}
  BY DEF MapAsynch
<1>2. /\ InFlight' = InFlight /\ OnePlace' /\ Requests'
      /\ RunningJobs' = RunningJobs /\ Indices' = Indices /\ Conc' = Conc
  BY <1>1, Quiet
<1>3. Described' /\ Loads'
  BY <1>1, QuietMap
<1>4. /\ evalIdCntr' \in 0 .. MaxEvals /\ evalIdCntr' \in 1 .. evalIdCntr'
      /\ 1 .. evalIdCntr \subseteq 1 .. evalIdCntr'
      /\ evalIdCntr' \notin 1 .. evalIdCntr
  BY <1>1, ConstantsAssumption DEF Typed
<1>5. Typed'
  BY <1>1, <1>2, <1>4 DEF Typed
<1>6. Books'
  BY <1>1, <1>2, <1>4 DEF Books, Typed
<1>7. Given' = Given
  BY <1>1, <1>2, <1>4 DEF Given, Books, Typed
<1>8. SimulatedOnce'
  BY <1>1, <1>7, GivesNone
<1>9. QED
  BY <1>1, <1>2, <1>3, <1>5, <1>6, <1>8

(* The first peer runs a job of its own, or the last of them is back.      *)
LEMMA StaticLocalPInv ==
  ASSUME PInv, NEW id \in Evals, StaticLocal(id)
  PROVE  PInv'
<1> USE DEF PInv
<1>1. /\ config' = config /\ evalIdCntr' = evalIdCntr
      /\ nowaitEvalIdRef' = nowaitEvalIdRef /\ coreQueue' = coreQueue
      /\ active' = active /\ runningMap' = runningMap
      /\ recvRequests' = recvRequests /\ assignIter' = assignIter
      /\ localQueue' = localQueue /\ pc' = pc /\ remote' = remote
      /\ replies' = replies /\ delivered' = delivered /\ runs' = Count({id})
      /\ pc = "local" /\ id \in localQueue \ raw /\ raw' = raw \cup {id}
  BY DEF StaticLocal, ownVars
<1>2. /\ InFlight' = InFlight /\ OnePlace' /\ Requests'
      /\ RunningJobs' = RunningJobs /\ Indices' = Indices /\ Conc' = Conc
  BY <1>1, Quiet
<1>3. Typed'
  BY <1>1, <1>2 DEF Typed
<1>4. Books'
  BY <1>1, <1>2 DEF Books
<1>5. {id} \cap Given = {} /\ Given' = Given \cup {id}
  BY <1>1, <1>2 DEF Given, Books
<1>6. SimulatedOnce'
  BY <1>1, <1>5, GivesAway
<1>7. QED
  BY <1>1, <1>2, <1>3, <1>4, <1>6

LEMMA StaticWaitAllPInv ==
  ASSUME PInv, StaticWaitAll
  PROVE  PInv'
<1> USE DEF PInv
<1>1. /\ config' = config /\ evalIdCntr' = evalIdCntr
      /\ nowaitEvalIdRef' = nowaitEvalIdRef /\ coreQueue' = {}
      /\ active' = active /\ runningMap' = runningMap
      /\ recvRequests' = [b \in Indices |-> NoTag] /\ assignIter' = assignIter
      /\ localQueue' = {} /\ pc' = "idle" /\ remote' = remote
      /\ replies' = replies \ coreQueue /\ delivered' = delivered \cup coreQueue
      /\ runs' = runs /\ raw' = coreQueue
      /\ pc = "local" /\ localQueue \subseteq raw
      /\ coreQueue \ localQueue \subseteq replies
  BY DEF StaticWaitAll, ownVars
<1>2. /\ active = {} /\ runningMap = {} /\ localQueue \subseteq coreQueue
      /\ raw \subseteq localQueue /\ InFlight = coreQueue \ localQueue
  BY <1>1 DEF Books
<1>3. \A s \in Peers : SentTo(s) = {} /\ SentTo(s)' = {}
  <2>1. ASSUME NEW s \in Peers PROVE SentTo(s) = {}
    <3>1. SentTo(s) \cap replies = {} /\ (s \notin RemoteIds => SentTo(s) = {})
      BY DEF OnePlace
    <3>2. s \in RemoteIds => SentTo(s) \subseteq replies
      BY <1>1, <1>2, FlightFacts
    <3>3. QED
      BY <3>1, <3>2
  <2>2. \A s \in Peers : SentTo(s)' = SentTo(s)
    BY <1>1 DEF SentTo
  <2>3. QED
    BY <2>1, <2>2
<1>4. /\ Conc' = Conc /\ RemoteIds' = RemoteIds /\ RunningJobs' = RunningJobs
      /\ Indices' = Indices /\ RemoteIds \subseteq Peers /\ Conc \in Nat
  BY <1>1, ConfigKept, ConfigFacts DEF Typed
<1>5. replies' = {}
  BY <1>1, <1>2, FlightFacts
<1>6. InFlight' = {}
  BY <1>3, <1>4, <1>5 DEF InFlight
<1>7. OnePlace'
  BY <1>1, <1>3, <1>5 DEF OnePlace
<1>8. Requests'
  BY <1>1, <1>4, <1>6 DEF Requests
<1>9. Described'
  <2>1. runningMap' = {}
    BY <1>1, <1>2
  <2>2. QED
    BY <1>6, <2>1 DEF Described, IdsOf, AvailableIndex
<1>10. Loads'
  <2>1. /\ config' \in Configurations
        /\ \A r \in runningMap' : r.index \in Lane(r.server)'
    BY <1>1, <1>2 DEF Typed
  <2>2. ASSUME NEW s \in RemoteIds' PROVE Load(s)' <= Conc'
    <3>1. IndicesOf(s)' = {}
      BY <1>1, <1>2 DEF IndicesOf
    <3>2. Load(s)' = 0
      BY <3>1, FS_EmptySet DEF Load
    <3>3. QED
      BY <1>4, <3>2
  <2>3. QED
    BY <2>1, <2>2 DEF Loads
<1>11. Typed'
  <2>1. recvRequests' \in [Indices' -> 0 .. MaxEvals]
    BY <1>1, <1>4, ConstantsAssumption DEF NoTag
  <2>2. 1 .. evalIdCntr \subseteq Evals
    BY ConstantsAssumption DEF Typed, Evals
  <2>3. raw' \in SUBSET Evals
    BY <1>1, <2>2 DEF Typed
  <2>4. QED
    BY <1>1, <1>4, <2>1, <2>3 DEF Typed
<1>12. Books'
  BY <1>1, <1>2, <1>4, <1>6 DEF Books
<1>13. Given' = Given
  BY <1>1, <1>2, <1>6 DEF Given
<1>14. SimulatedOnce'
  BY <1>1, <1>13, GivesNone
<1>15. QED
  BY <1>7, <1>8, <1>9, <1>10, <1>11, <1>12, <1>14

(* The blocking dynamic scheduler returns when everything is back.         *)
LEMMA DynamicReturnPInv ==
  ASSUME PInv, DynamicReturn
  PROVE  PInv'
<1> USE DEF PInv
<1>1. /\ config' = config /\ evalIdCntr' = evalIdCntr
      /\ nowaitEvalIdRef' = nowaitEvalIdRef /\ coreQueue' = {}
      /\ raw' = raw /\ active' = active /\ runningMap' = runningMap
      /\ recvRequests' = [b \in Indices |-> NoTag] /\ assignIter' = assignIter
      /\ localQueue' = localQueue /\ pc' = "idle" /\ remote' = remote
      /\ replies' = replies /\ delivered' = delivered \cup raw /\ runs' = runs
      /\ pc = "loop" /\ Cardinality(raw) >= Cardinality(coreQueue)
  BY DEF DynamicReturn, ownVars
<1>2. raw \subseteq coreQueue /\ coreQueue \in SUBSET Evals
  <2>1. 1 .. evalIdCntr \subseteq Evals
    BY ConstantsAssumption DEF Typed, Evals
  <2>2. QED
    BY <1>1, <2>1 DEF Books, Typed
<1>3. raw = coreQueue
  <2>1. IsFiniteSet(coreQueue) /\ Cardinality(raw) \in Nat /\ Cardinality(coreQueue) \in Nat
    BY <1>2, FiniteParts DEF Typed
  <2>2. Cardinality(raw) <= Cardinality(coreQueue)
        /\ (Cardinality(raw) = Cardinality(coreQueue) => raw = coreQueue)
    BY <1>2, <2>1, FS_Subset
  <2>3. QED
    BY <1>1, <2>1, <2>2
<1>4. InFlight = {} /\ active = {}
  BY <1>3 DEF Books
<1>5. runningMap = {}
  BY <1>1, <1>4 DEF Described, IdsOf
<1>6. \A b \in Indices : recvRequests[b] = NoTag
  BY <1>4 DEF Requests
<1>7. recvRequests' = recvRequests
  BY <1>1, <1>6 DEF Typed
<1>8. /\ InFlight' = InFlight /\ OnePlace' /\ Requests'
      /\ RunningJobs' = RunningJobs /\ Indices' = Indices /\ Conc' = Conc
  BY <1>1, <1>7, Quiet
<1>9. Described' /\ Loads'
  BY <1>1, <1>5, <1>7, QuietMap
<1>10. Typed'
  BY <1>1, <1>3, <1>7, <1>8 DEF Typed
<1>11. Books'
  BY <1>1, <1>3, <1>4, <1>8 DEF Books
<1>12. Given' = Given
  BY <1>1, <1>3, <1>8 DEF Given
<1>13. SimulatedOnce'
  BY <1>1, <1>12, GivesNone
<1>14. QED
  BY <1>8, <1>9, <1>10, <1>11, <1>13

(* A peer answers.                                                         *)
LEMMA PeerReturnsPInv ==
  ASSUME PInv, NEW s \in Peers, NEW k \in Evals, PeerReturns(s, k)
  PROVE  PInv'
<1> USE DEF PInv
<1> DEFINE x == remote[s][k]
           rest == SubSeq(remote[s], 1, k - 1) \o SubSeq(remote[s], k + 1, Len(remote[s]))
<1>1. /\ config' = config /\ evalIdCntr' = evalIdCntr
      /\ nowaitEvalIdRef' = nowaitEvalIdRef /\ coreQueue' = coreQueue
      /\ raw' = raw /\ active' = active /\ runningMap' = runningMap
      /\ recvRequests' = recvRequests /\ assignIter' = assignIter
      /\ localQueue' = localQueue /\ pc' = pc /\ delivered' = delivered
      /\ runs' = runs /\ replies' = replies \cup {x}
      /\ remote' = [remote EXCEPT ![s] = rest]
      /\ k \in 1 .. MinOf(Conc, Len(remote[s]))
  BY DEF PeerReturns, ownVars
<1>2. /\ config \in Configurations /\ remote \in [Peers -> Seq(Evals)]
      /\ Conc \in Nat /\ RemoteIds \subseteq Peers
  BY ConfigFacts DEF Typed
<1>3. remote[s] \in Seq(Evals) /\ Len(remote[s]) \in Nat
  BY <1>2, LenProperties
<1>4. k \in 1 .. Len(remote[s])
  BY <1>1, <1>2, <1>3 DEF MinOf
<1>5. /\ rest \in Seq(Evals) /\ NoRepeats(rest)
      /\ Elems(rest) = Elems(remote[s]) \ {x} /\ x \in Elems(remote[s])
  BY <1>3, <1>4, TakenFacts DEF OnePlace
<1> HIDE DEF x, rest
<1>6. /\ remote' \in [Peers -> Seq(Evals)] /\ remote'[s] = rest
      /\ \A t \in Peers : t # s => remote'[t] = remote[t]
  BY <1>1, <1>2, <1>5
<1>7. /\ \A t : SentTo(t) = Elems(remote[t])
      /\ \A t : SentTo(t)' = Elems(remote'[t])
  BY DEF SentTo, Elems
<1>8. /\ SentTo(s)' = SentTo(s) \ {x} /\ x \in SentTo(s)
      /\ \A t \in Peers : t # s => SentTo(t)' = SentTo(t) /\ x \notin SentTo(t)
  <2>1. SentTo(s)' = SentTo(s) \ {x} /\ x \in SentTo(s)
    BY <1>5, <1>6, <1>7
  <2>2. \A t \in Peers : t # s => x \notin SentTo(t)
    BY <2>1 DEF OnePlace
  <2>3. QED
    BY <1>6, <1>7, <2>1, <2>2
<1>9. s \in RemoteIds /\ x \in InFlight /\ x \in Evals
  <2>1. s \in RemoteIds
    BY <1>8 DEF OnePlace
  <2>2. QED
    BY <1>8, <2>1, FlightFacts
<1>10. /\ Conc' = Conc /\ RemoteIds' = RemoteIds /\ Indices' = Indices
       /\ RunningJobs' = RunningJobs /\ \A t : Lane(t)' = Lane(t)
       /\ \A t : Load(t)' = Load(t)
  BY <1>1, ConfigKept DEF Load, IndicesOf
<1>11. InFlight' = InFlight
  <2>1. \A y : y \in InFlight' <=> y \in replies' \/ \E t \in RemoteIds' : y \in SentTo(t)'
    BY DEF InFlight
  <2>2. \A y : y \in InFlight <=> y \in replies \/ \E t \in RemoteIds : y \in SentTo(t)
    BY FlightFacts
  <2>3. ASSUME NEW y PROVE y \in InFlight' <=> y \in InFlight
    BY <1>1, <1>2, <1>8, <1>9, <1>10, <2>1, <2>2
  <2>4. QED
    BY <2>3
<1>12. OnePlace'
  <2>1. ASSUME NEW t \in Peers PROVE NoRepeats(remote'[t]) /\ SentTo(t)' \cap replies' = {}
    <3>1. NoRepeats(remote[t]) /\ SentTo(t) \cap replies = {}
      BY DEF OnePlace
    <3>2. QED
      BY <1>1, <1>5, <1>6, <1>8, <3>1
  <2>2. ASSUME NEW t \in Peers, NEW u \in Peers, t # u
        PROVE  SentTo(t)' \cap SentTo(u)' = {}
    BY <1>8, <2>2 DEF OnePlace
  <2>3. \A t \in Peers : t \notin RemoteIds' => SentTo(t)' = {}
    BY <1>8, <1>9, <1>10 DEF OnePlace
  <2>4. QED
    BY <2>1, <2>2, <2>3 DEF OnePlace
<1>13. Requests'
  BY <1>1, <1>10, <1>11 DEF Requests
<1>14. ASSUME pc # "local" PROVE Described' /\ Loads'
  <2>1. Described /\ Loads
    BY <1>14
  <2>2. IdsOf(runningMap)' = InFlight' /\ AvailableIndex'
    BY <1>1, <1>11, <2>1 DEF Described, IdsOf, AvailableIndex
  <2>3. \A t \in RemoteIds : SentTo(t)' \subseteq SentTo(t)
    BY <1>2, <1>8
  <2>4. /\ \A r \in runningMap' : recvRequests'[r.index] = r.id
        /\ \A r \in runningMap', t \in RemoteIds' : r.id \in SentTo(t)' => r.server = t
    BY <1>1, <1>10, <2>1, <2>3 DEF Described
  <2>5. Loads'
    BY <1>1, <1>10, <2>1 DEF Loads
  <2>6. QED
    BY <2>2, <2>4, <2>5 DEF Described
<1>15. Typed'
  BY <1>1, <1>6, <1>9, <1>10 DEF Typed
<1>16. Books'
  BY <1>1, <1>10, <1>11 DEF Books
<1>17. Given' = Given
  BY <1>1, <1>11 DEF Given
<1>18. SimulatedOnce'
  BY <1>1, <1>17, GivesNone
<1>19. QED
  BY <1>1, <1>12, <1>13, <1>14, <1>15, <1>16, <1>18

-----------------------------------------------------------------------------
(* The walk of the nonblocking schedulers.                                 *)

(* The ids of the queue.                                                   *)
LEMMA QueueFacts ==
  ASSUME Typed
  PROVE  /\ coreQueue \in SUBSET Evals /\ delivered \in SUBSET Evals
         /\ IsFiniteSet(coreQueue) /\ coreQueue \subseteq Int
<1>1. 1 .. evalIdCntr \subseteq Evals
  BY ConstantsAssumption DEF Typed, Evals
<1>2. coreQueue \in SUBSET Evals /\ delivered \in SUBSET Evals
  BY <1>1 DEF Typed
<1>3. QED
  BY <1>2, FiniteParts

LEMMA NowaitFillPInv ==
  ASSUME PInv, NowaitFill
  PROVE  PInv'
<1> USE DEF PInv
<1>1. /\ config' = config /\ evalIdCntr' = evalIdCntr
      /\ nowaitEvalIdRef' = nowaitEvalIdRef /\ coreQueue' = coreQueue
      /\ raw' = {} /\ active' = active /\ runningMap' = runningMap
      /\ recvRequests' = recvRequests /\ assignIter' = 1
      /\ localQueue' = localQueue /\ pc' \in {"fill", "test"} /\ remote' = remote
      /\ replies' = replies /\ delivered' = delivered /\ runs' = runs
      /\ pc = "idle"
  BY DEF NowaitFill, Starts, ownVars
<1>2. /\ InFlight' = InFlight /\ OnePlace' /\ Requests'
      /\ RunningJobs' = RunningJobs /\ Indices' = Indices /\ Conc' = Conc
  BY <1>1, Quiet
<1>3. Described' /\ Loads'
  BY <1>1, QuietMap
<1>4. Typed'
  BY <1>1, <1>2 DEF Typed
<1>5. Books'
  BY <1>1, <1>2 DEF Books
<1>6. Given' = Given
  BY <1>1, <1>2 DEF Given, Books
<1>7. SimulatedOnce'
  BY <1>1, <1>6, GivesNone
<1>8. QED
  BY <1>1, <1>2, <1>3, <1>4, <1>5, <1>7

(* The walk goes to the next job of the queue.                             *)
LEMMA NextJobFacts ==
  ASSUME PInv, pc = "fill", MoreToFill
  PROVE  /\ NextJob \in coreQueue /\ NextJob \in Evals /\ NextJob \in Nat
         /\ NextJob >= assignIter /\ assignIter \in Nat /\ NextJob \notin localQueue
         /\ \A x \in localQueue : x < NextJob + 1
<1>1. ToWalk # {} /\ ToWalk \subseteq coreQueue /\ \A x \in ToWalk : x >= assignIter
  BY DEF MoreToFill, ToWalk
<1>2. coreQueue \in SUBSET Evals
  BY QueueFacts DEF PInv
<1>3. IsFiniteSet(ToWalk) /\ ToWalk \subseteq Int
  BY <1>1, <1>2, FiniteParts
<1>4. Cardinality(ToWalk) \in Nat /\ Cardinality(ToWalk) # 0
  BY <1>1, <1>3, FS_CardinalityType, FS_EmptySet
<1>5. 0 \in 0 .. (Cardinality(ToWalk) - 1)
  BY <1>4
<1>6. Nth(ToWalk, 0) \in ToWalk
  BY <1>3, <1>5, WalkFacts
<1>7. NextJob \in ToWalk
  BY <1>6 DEF NextJob
<1>8. NextJob \in coreQueue /\ NextJob \in Evals /\ NextJob >= assignIter
  BY <1>1, <1>2, <1>7
<1>9. NextJob \in Nat
  BY <1>8 DEF Evals
<1>10. /\ assignIter \in Nat /\ localQueue \in SUBSET Evals
       /\ \A x \in localQueue : x < assignIter
  BY DEF PInv, Books, Typed
<1>11. \A x \in localQueue : x \in Nat
  BY <1>10 DEF Evals
<1>12. NextJob \notin localQueue /\ \A x \in localQueue : x < NextJob + 1
  BY <1>8, <1>9, <1>10, <1>11
<1>13. QED
  BY <1>8, <1>9, <1>10, <1>12

LEMMA FillSkipPInv ==
  ASSUME PInv, FillSkip
  PROVE  PInv'
<1> USE DEF PInv
<1>1. /\ config' = config /\ evalIdCntr' = evalIdCntr
      /\ nowaitEvalIdRef' = nowaitEvalIdRef /\ coreQueue' = coreQueue
      /\ raw' = raw /\ active' = active /\ runningMap' = runningMap
      /\ recvRequests' = recvRequests /\ assignIter' = NextJob + 1
      /\ localQueue' = localQueue /\ pc' = pc /\ remote' = remote
      /\ replies' = replies /\ delivered' = delivered /\ runs' = runs
      /\ pc = "fill" /\ MoreToFill
  BY DEF FillSkip, Passes, ownVars
<1>2. /\ InFlight' = InFlight /\ OnePlace' /\ Requests'
      /\ RunningJobs' = RunningJobs /\ Indices' = Indices /\ Conc' = Conc
  BY <1>1, Quiet
<1>3. Described' /\ Loads'
  BY <1>1, QuietMap
<1>4. Typed'
  BY <1>1, <1>2 DEF Typed
<1>5. assignIter' \in Nat /\ \A x \in localQueue' : x < assignIter'
  BY <1>1, NextJobFacts
<1>6. Books'
  BY <1>1, <1>2, <1>5 DEF Books
<1>7. Given' = Given
  BY <1>1, <1>2 DEF Given
<1>8. SimulatedOnce'
  BY <1>1, <1>7, GivesNone
<1>9. QED
  BY <1>1, <1>2, <1>3, <1>4, <1>6, <1>8

(* What a pass over new local jobs launches.                               *)
LEMMA LaunchFacts ==
  ASSUME NEW S \in SUBSET Evals, NEW busy, NEW k \in Nat
  PROVE  /\ LocalLaunch(S, busy, k) \subseteq S
         /\ IsFiniteSet(LocalLaunch(S, busy, k))
         /\ Cardinality(LocalLaunch(S, busy, k)) <= k
         /\ Cardinality(LocalLaunch(S, busy, k)) \in Nat
<1> DEFINE free == {x \in S : /\ ServerIndex(x) \notin busy
                             /\ \A y \in S : y < x => ServerIndex(y) # ServerIndex(x)}
<1>1. ASSUME NEW T \in SUBSET S
      PROVE  /\ FirstOf(T, k) \subseteq T /\ IsFiniteSet(FirstOf(T, k))
             /\ Cardinality(FirstOf(T, k)) <= k
             /\ Cardinality(FirstOf(T, k)) \in Nat
  BY FiniteParts, FirstOfFacts, FS_CardinalityType
<1>2. free \in SUBSET S
  OBVIOUS
<1>3. LocalLaunch(S, busy, k) = IF StaticLimited THEN FirstOf(free, k) ELSE FirstOf(S, k)
  BY DEF LocalLaunch
<1> HIDE DEF free
<1>4. CASE StaticLimited
  <2>1. LocalLaunch(S, busy, k) = FirstOf(free, k)
    BY <1>3, <1>4
  <2>2. QED
    BY <1>1, <1>2, <2>1
<1>5. CASE ~StaticLimited
  <2>1. LocalLaunch(S, busy, k) = FirstOf(S, k) /\ S \in SUBSET S
    BY <1>3, <1>5
  <2>2. QED
    BY <1>1, <2>1
<1>6. QED
  BY <1>4, <1>5

(* Local jobs that a pass launches beside those that run.                  *)
LEMMA LocalLoad ==
  ASSUME NEW A \in SUBSET Evals, NEW L \in SUBSET Evals, NEW c \in Nat,
         Cardinality(L) <= c - Cardinality(A)
  PROVE  Cardinality(A \cup L) <= c
<1>1. IsFiniteSet(A) /\ IsFiniteSet(L) /\ Cardinality(A) \in Nat /\ Cardinality(L) \in Nat
      /\ Cardinality(A \cap L) \in Nat /\ Cardinality(A \cup L) \in Nat
  BY FiniteParts
<1>2. Cardinality(A \cup L) = Cardinality(A) + Cardinality(L) - Cardinality(A \cap L)
  BY <1>1, FS_Union
<1>3. QED
  BY <1>1, <1>2

LEMMA FillDonePInv ==
  ASSUME PInv, FillDone
  PROVE  PInv'
<1> USE DEF PInv
<1> DEFINE L == LocalLaunch(localQueue, localServerAssigned, Conc - Cardinality(active))
<1>1. /\ config' = config /\ evalIdCntr' = evalIdCntr
      /\ nowaitEvalIdRef' = nowaitEvalIdRef /\ coreQueue' = coreQueue
      /\ runningMap' = runningMap
      /\ recvRequests' = recvRequests /\ assignIter' = assignIter
      /\ localQueue' = {} /\ pc' = "test" /\ remote' = remote
      /\ replies' = replies /\ delivered' = delivered
      /\ pc = "fill"
      /\ \/ raw' = localQueue /\ runs' = Count(localQueue) /\ active' = active
         \/ active' = active \cup L /\ runs' = Count(L) /\ raw' = raw
  BY DEF FillDone, ownVars
<1>2. /\ InFlight' = InFlight /\ OnePlace' /\ Requests'
      /\ RunningJobs' = RunningJobs /\ Indices' = Indices /\ Conc' = Conc
  BY <1>1, Quiet
<1>3. Described' /\ Loads'
  BY <1>1, QuietMap
<1>4. /\ raw = {} /\ localQueue \subseteq coreQueue /\ localQueue \in SUBSET Evals
      /\ localQueue \cap Given = {} /\ active \in SUBSET Evals
      /\ Cardinality(active) <= Conc /\ Conc \in Nat
  BY <1>1, ConfigFacts DEF Books, Typed, Given
<1>5. Conc - Cardinality(active) \in Nat
  BY <1>4, FiniteParts
<1>6. L \subseteq localQueue /\ Cardinality(L) <= Conc - Cardinality(active)
  BY <1>4, <1>5, LaunchFacts
<1> HIDE DEF L
<1>7. Cardinality(active \cup L) <= Conc
  BY <1>4, <1>6, LocalLoad
<1>8. Typed'
  BY <1>1, <1>2, <1>4, <1>6 DEF Typed
<1>9. CASE raw' = localQueue /\ runs' = Count(localQueue) /\ active' = active
  <2>1. Books'
    BY <1>1, <1>2, <1>4, <1>9 DEF Books
  <2>2. Given' = Given \cup localQueue
    BY <1>1, <1>2, <1>4, <1>9 DEF Given
  <2>3. SimulatedOnce'
    BY <1>4, <1>9, <2>2, GivesAway
  <2>4. QED
    BY <1>1, <1>2, <1>3, <1>8, <2>1, <2>3
<1>10. CASE active' = active \cup L /\ runs' = Count(L) /\ raw' = raw
  <2>1. Books'
    BY <1>1, <1>2, <1>4, <1>6, <1>7, <1>10 DEF Books
  <2>2. Given' = Given \cup L /\ L \cap Given = {}
    BY <1>1, <1>2, <1>4, <1>6, <1>10 DEF Given
  <2>3. SimulatedOnce'
    BY <1>10, <2>2, GivesAway
  <2>4. QED
    BY <1>1, <1>2, <1>3, <1>8, <2>1, <2>3
<1>11. QED
  BY <1>1, <1>9, <1>10

(* No two peers have an index in common.                                   *)
LEMMA LanesApart ==
  ASSUME config \in Configurations, NEW s \in RemoteIds, NEW t \in RemoteIds, s # t
  PROVE  Lane(s) \cap Lane(t) = {}
<1>1. Conc \in Nat /\ s \in Nat /\ t \in Nat /\ s >= 1 /\ t >= 1
  BY ConfigFacts
<1>2. ASSUME NEW u \in RemoteIds, NEW v \in RemoteIds, u < v
      PROVE  Lane(u) \cap Lane(v) = {}
  <2>1. u - 1 \in Nat /\ v - 1 \in Nat /\ u - 1 < v - 1
    BY <1>2, ConfigFacts
  <2> DEFINE a == (u - 1) * Conc
             b == (v - 1) * Conc
  <2>2. a + Conc <= b
    BY <1>1, <2>1, ProductGrows
  <2>3. /\ Lane(u) = a .. (a + Conc - 1) /\ Lane(v) = b .. (b + Conc - 1)
        /\ a \in Nat /\ b \in Nat
    BY LaneFacts
  <2> HIDE DEF a, b
  <2>4. QED
    BY <1>1, <2>2, <2>3
<1>3. s < t \/ t < s
  BY <1>1
<1>4. QED
  BY <1>2, <1>3

(* The indices in use are finite in number.                                *)
LEMMA LoadType ==
  ASSUME Typed, NEW s
  PROVE  IsFiniteSet(IndicesOf(s)) /\ Load(s) \in Nat /\ IndicesOf(s) \subseteq Int
<1>1. RemoteCapacity \in Nat
  BY ConfigFacts DEF Typed
<1>2. IndicesOf(s) \subseteq 0 .. (RemoteCapacity - 1)
  BY DEF IndicesOf, Typed, RunningJobs
<1>3. IsFiniteSet(IndicesOf(s))
  BY <1>1, <1>2, Below, FS_Subset
<1>4. QED
  BY <1>2, <1>3, FS_CardinalityType DEF Load

(* There is a first peer with the least load.                              *)
LEMMA LeastLoadedFacts ==
  ASSUME Typed
  PROVE  LeastLoaded \in RemoteIds
<1> DEFINE f == [t \in RemoteIds |-> Load(t)]
           S == {Load(t) : t \in RemoteIds}
           m == Nth(S, 0)
           T == {t \in RemoteIds : Load(t) = m}
           s == Nth(T, 0)
<1>1. IsFiniteSet(RemoteIds) /\ RemoteIds \subseteq Int /\ 1 \in RemoteIds
  <2>1. N \in Nat /\ N >= 2 /\ RemoteIds = 1 .. (N - 1)
    BY ConfigFacts DEF Typed
  <2>2. 1 \in Int /\ N - 1 \in Int
    BY <2>1
  <2>3. IsFiniteSet(1 .. (N - 1))
    BY <2>2, FS_Interval
  <2>4. QED
    BY <2>1, <2>3
<1>2. \A t \in RemoteIds : Load(t) \in Nat
  BY LoadType
<1>3. IsFiniteSet(S) /\ S \subseteq Int /\ S # {}
  <2>1. f \in Surjection(RemoteIds, S)
    BY DEF Surjection
  <2>2. S \subseteq Int /\ S # {}
    BY <1>1, <1>2
  <2> HIDE DEF f, S
  <2>3. QED
    BY <1>1, <2>1, <2>2, FS_Surjection
<1> HIDE DEF m
<1>4. m \in S /\ \A y \in S : m <= y
  <2> HIDE DEF S
  <2>1. QED
    BY <1>3, LeastFirst DEF m
<1>5. IsFiniteSet(T) /\ T \subseteq Int /\ T # {} /\ T \subseteq RemoteIds
  <2>1. T \in SUBSET RemoteIds /\ T # {}
    BY <1>4
  <2> HIDE DEF T
  <2>2. QED
    BY <1>1, <2>1, FS_Subset
<1> HIDE DEF s
<1>6. s \in T /\ \A y \in T : s <= y
  <2> HIDE DEF T
  <2>1. QED
    BY <1>5, LeastFirst DEF s
<1>7. ASSUME NEW t \in RemoteIds
      PROVE  Load(s) < Load(t) \/ (Load(s) = Load(t) /\ s <= t)
  <2>1. Load(s) = m /\ m <= Load(t) /\ m \in Nat /\ Load(t) \in Nat
    BY <1>2, <1>4, <1>6
  <2>2. CASE Load(t) = m
    BY <1>6, <2>1, <2>2
  <2>3. CASE Load(t) # m
    BY <2>1, <2>3
  <2>4. QED
    BY <2>2, <2>3
<1>8. s \in RemoteIds
  BY <1>6
<1>9. QED
  BY <1>7, <1>8 DEF LeastLoaded

(* A job goes to the first peer or to another one.                         *)
LEMMA PeerOfFacts ==
  ASSUME Typed, NEW id \in Evals
  PROVE  PeerOf(id) = 0 \/ PeerOf(id) \in RemoteIds
<1>1. LeastLoaded \in RemoteIds
  BY LeastLoadedFacts
<1>2. StaticPeer(id) = 0 \/ StaticPeer(id) \in RemoteIds
  <2>1. N \in Nat /\ N >= 2 /\ RemoteIds = 1 .. (N - 1) /\ nowaitEvalIdRef \in Nat
    BY ConfigFacts DEF Typed
  <2>2. id - nowaitEvalIdRef + 1 \in Int
    BY <2>1 DEF Evals
  <2> DEFINE i == id - nowaitEvalIdRef + 1
  <2> HIDE DEF i
  <2>3. i % N \in 0 .. (N - 1)
    BY <2>1, <2>2 DEF i
  <2>4. StaticPeer(id) = i % N
    BY DEF StaticPeer, i
  <2>5. QED
    BY <2>1, <2>3, <2>4
<1>3. QED
  BY <1>1, <1>2 DEF PeerOf

LEMMA FillAssignPInv ==
  ASSUME PInv, FillAssign
  PROVE  PInv'
<1> USE DEF PInv
<1> DEFINE s == PeerOf(NextJob)
           B == FirstOf(FreeIndices(s), 1)
           J == {Job(NextJob, s, b) : b \in B}
           none == {}
<1>1. /\ config' = config /\ evalIdCntr' = evalIdCntr
      /\ nowaitEvalIdRef' = nowaitEvalIdRef /\ coreQueue' = coreQueue
      /\ raw' = raw /\ active' = active /\ assignIter' = NextJob + 1
      /\ replies' = replies /\ delivered' = delivered
      /\ pc = "fill" /\ MoreToFill
      /\ NextJob \notin IdsOf(runningMap) \cup active
      /\ \/ /\ s = 0 /\ localQueue' = localQueue \cup {NextJob}
            /\ runningMap' = runningMap /\ recvRequests' = recvRequests
            /\ pc' = pc /\ remote' = remote /\ runs' = runs
         \/ /\ s # 0 /\ localQueue' = localQueue
            /\ runningMap' = runningMap \cup J /\ recvRequests' = Posted(J)
            /\ remote' = Messages(J) /\ runs' = Count(IdsOf(J))
            /\ pc' \in {pc, "aborted"}
  BY DEF FillAssign, Passes, ownVars
<1>2. /\ NextJob \in coreQueue /\ NextJob \in Evals /\ NextJob \in Nat
      /\ NextJob \notin localQueue /\ \A x \in localQueue : x < NextJob + 1
  BY <1>1, NextJobFacts
<1>3. /\ Described /\ Loads /\ config \in Configurations
      /\ \A r \in runningMap : r.index \in Lane(r.server)
      /\ NextJob \notin InFlight
  BY <1>1 DEF Typed, Described, Loads
<1>4. /\ raw = {} /\ localQueue \subseteq coreQueue
      /\ localQueue \cap (InFlight \cup active) = {}
      /\ coreQueue \cap delivered = {}
  BY <1>1 DEF Books
<1> HIDE DEF s, J
<1>5. CASE /\ s = 0 /\ localQueue' = localQueue \cup {NextJob}
           /\ runningMap' = runningMap /\ recvRequests' = recvRequests
           /\ pc' = pc /\ remote' = remote /\ runs' = runs
  <2>1. /\ InFlight' = InFlight /\ OnePlace' /\ Requests'
        /\ RunningJobs' = RunningJobs /\ Indices' = Indices /\ Conc' = Conc
    BY <1>1, <1>5, Quiet
  <2>2. Described' /\ Loads'
    BY <1>1, <1>3, <1>5, QuietMap
  <2>3. Typed'
    BY <1>1, <1>2, <1>5, <2>1 DEF Typed
  <2>4. assignIter' \in Nat /\ \A x \in localQueue' : x < assignIter'
    BY <1>1, <1>2, <1>5
  <2>5. Books'
    BY <1>1, <1>2, <1>3, <1>4, <1>5, <2>1, <2>4 DEF Books
  <2>6. Given' = Given
    BY <1>1, <2>1 DEF Given
  <2>7. SimulatedOnce'
    BY <1>5, <2>6, GivesNone
  <2>8. QED
    BY <2>1, <2>2, <2>3, <2>5, <2>7
<1>6. CASE /\ s # 0 /\ localQueue' = localQueue
           /\ runningMap' = runningMap \cup J /\ recvRequests' = Posted(J)
           /\ remote' = Messages(J) /\ runs' = Count(IdsOf(J))
           /\ pc' \in {pc, "aborted"}
  <2>1. s \in RemoteIds
    BY <1>2, <1>6, PeerOfFacts DEF s
  <2>2. FreeIndices(s) = Lane(s) \ IndicesOf(s)
    BY DEF FreeIndices, Lane
  <2>3. /\ Lane(s) \subseteq 0 .. (RemoteCapacity - 1) /\ IsFiniteSet(Lane(s))
        /\ \A b \in 0 .. (RemoteCapacity - 1) : b \in Indices
        /\ Lane(s) \subseteq Int
    BY <1>3, <2>1, LaneFacts, ConfigFacts
  <2>4. IsFiniteSet(FreeIndices(s)) /\ FreeIndices(s) \subseteq Int
    BY <2>2, <2>3, FS_Subset
  <2>5. B \subseteq FreeIndices(s) /\ \A b, c \in B : b = c
    <3> DEFINE F == FreeIndices(s)
    <3>1. /\ \A b \in F : Place(F, b) \in Nat
          /\ \A b, c \in F : Place(F, b) = Place(F, c) => b = c
      <4>1. /\ \A b \in F : Place(F, b) \in 0 .. (Cardinality(F) - 1)
            /\ \A b, c \in F : Place(F, b) = Place(F, c) => b = c
        BY <2>4, WalkFacts, Zenon
      <4>2. QED
        BY <4>1
    <3>2. B = {b \in F : Place(F, b) < 1}
      BY DEF FirstOf
    <3> HIDE DEF F, B
    <3>3. \A b, c \in B : b \in F /\ c \in F /\ Place(F, b) = 0 /\ Place(F, c) = 0
      BY <3>1, <3>2
    <3>4. QED
      BY <3>1, <3>3 DEF F
  <2> HIDE DEF B
  <2>6. /\ J = {Job(NextJob, s, b) : b \in B}
        /\ \A r \in J : /\ r.id = NextJob /\ r.server = s /\ r.index \in B
                        /\ r = [id |-> NextJob, server |-> s, index |-> r.index]
    BY DEF J, Job
  <2>7. J \in SUBSET RunningJobs /\ J \in SUBSET [id : Evals, server : RemoteIds, index : Indices]
    BY <1>2, <2>1, <2>2, <2>3, <2>5, <2>6 DEF RunningJobs
  <2>8. \A r, q \in J : r = q
    BY <2>5, <2>6
  <2>9. ASSUME NEW r \in J PROVE recvRequests[r.index] = NoTag
    <3>1. r.index \in Indices /\ r.index \in Lane(s) /\ r.index \notin IndicesOf(s)
      BY <2>2, <2>3, <2>5, <2>6
    <3>2. ASSUME NEW q \in runningMap PROVE q.index # r.index
      <4>1. CASE q.server = s
        BY <3>1, <4>1 DEF IndicesOf
      <4>2. CASE q.server # s
        <5>1. q.server \in RemoteIds /\ q.index \in Lane(q.server)
          BY <1>3 DEF Typed, RunningJobs
        <5>2. QED
          BY <1>3, <2>1, <3>1, <4>2, <5>1, LanesApart
      <4>3. QED
        BY <4>1, <4>2
    <3>3. QED
      BY <1>3, <3>1, <3>2, UnusedIndex
  <2>10. none \subseteq Completed /\ replies' = replies \ {recvRequests[r.index] : r \in none}
    BY <1>1
  <2>11. recvRequests' = Requested(none, J)
    BY <1>6, PostedOnly
  <2>12. runningMap' = (runningMap \ none) \cup J
    BY <1>6
  <2>13. IdsOf(none) = {}
    BY DEF IdsOf
  <2> HIDE DEF none
  <2>14. Sends(none, J)
    BY <1>1, <1>3, <1>6, <2>6, <2>7, <2>8, <2>9, <2>10, <2>11 DEF Sends
  <2>15. /\ Described' /\ runningMap' \in SUBSET RunningJobs
         /\ InFlight' = (InFlight \ IdsOf(none)) \cup IdsOf(J)
    BY <1>3, <2>7, <2>12, <2>14, DescribedFacts
  <2>16. InFlight' = InFlight \cup IdsOf(J) /\ IdsOf(J) \subseteq {NextJob}
    BY <2>6, <2>13, <2>15 DEF IdsOf
  <2>17. /\ remote' \in [Peers -> Seq(Evals)] /\ replies' \in SUBSET Evals
         /\ OnePlace' /\ Requests' /\ recvRequests' \in [Indices -> 0 .. MaxEvals]
    BY <2>14, SendsFacts, RequestedFacts
  <2>18. /\ Conc' = Conc /\ RunningJobs' = RunningJobs /\ Indices' = Indices
         /\ RemoteIds' = RemoteIds /\ \A t : Lane(t)' = Lane(t)
    BY <1>1, ConfigKept
  <2>19. Loads'
    <3>1. \A r \in runningMap' : r.index \in Lane(r.server)
      BY <1>3, <1>6, <2>2, <2>5, <2>6
    <3>2. QED
      BY <1>1, <1>3, <3>1, LoadsFromLanesNext
  <2>20. Typed'
    BY <1>1, <1>6, <2>15, <2>17, <2>18 DEF Typed
  <2>21. assignIter' \in Nat /\ \A x \in localQueue' : x < assignIter'
    BY <1>1, <1>2, <1>6
  <2>22. Books'
    BY <1>1, <1>2, <1>3, <1>4, <1>6, <2>16, <2>18, <2>21 DEF Books
  <2>23. Given' = Given \cup IdsOf(J) /\ IdsOf(J) \cap Given = {}
    BY <1>1, <1>2, <1>3, <1>4, <2>16 DEF Given
  <2>24. SimulatedOnce'
    BY <1>6, <2>23, GivesAway
  <2>25. QED
    BY <1>1, <1>6, <2>15, <2>17, <2>19, <2>20, <2>22, <2>24
<1>7. QED
  BY <1>1, <1>5, <1>6

-----------------------------------------------------------------------------
(* test_receives_backfill() and test_local_backfill().                     *)

(* An entry of msgPassRunningMap is known by its id and by its index.      *)
LEMMA EntryKeys ==
  ASSUME Typed, Requests, Described, NEW r \in runningMap, NEW q \in runningMap,
         r.id = q.id \/ r.index = q.index
  PROVE  r = q
<1>1. \A a, b \in runningMap : a.index = b.index => a = b
  BY DEF Described, AvailableIndex
<1>2. CASE r.id = q.id
  <2>1. /\ recvRequests[r.index] = recvRequests[q.index]
        /\ recvRequests[r.index] \in Evals
        /\ r.index \in Indices /\ q.index \in Indices
    BY <1>2, ConfigFacts DEF Typed, RunningJobs, Described
  <2>2. r.index = q.index
    BY <2>1, FiniteParts DEF Requests
  <2>3. QED
    BY <1>1, <2>2
<1>3. QED
  BY <1>1, <1>2

(* Each job that replaces a finished one takes over its peer and index; no *)
(* two of them are the same.                                               *)
LEMMA ReplacementFacts ==
  ASSUME Typed, Requests, Described, NEW R \in SUBSET Completed
  PROVE  /\ \A j \in Replacements(R) :
              /\ j.id \in ReceivePending
              /\ \E r \in R : j.server = r.server /\ j.index = r.index
         /\ \A j, k \in Replacements(R) : j.id = k.id \/ j.index = k.index => j = k
         /\ Replacements(R) \in SUBSET RunningJobs
<1> DEFINE pending == ReceivePending
           ids == IdsOf(R)
           n == Cardinality(pending)
           i(r) == Place(ids, r.id)
           x(r) == Nth(pending, i(r))
           J == Replacements(R)
<1>1. /\ runningMap \in SUBSET RunningJobs /\ R \subseteq runningMap
      /\ coreQueue \in SUBSET Evals
  BY QueueFacts DEF Typed, Completed
<1>2. pending \in SUBSET Evals /\ ids \in SUBSET Evals
  BY <1>1 DEF ReceivePending, IdsOf, RunningJobs
<1>3. /\ IsFiniteSet(pending) /\ pending \subseteq Int
      /\ IsFiniteSet(ids) /\ ids \subseteq Int
  BY <1>2, FiniteParts
<1>4. \A r \in R : r.id \in ids
  BY DEF IdsOf
<1>5. \A j \in J : \E r \in R : i(r) < n /\ j = Job(x(r), r.server, r.index)
  BY DEF Replacements
<1> HIDE DEF pending, ids, n, J
<1>6. /\ n \in Nat
      /\ \A m \in 0 .. (n - 1) : Nth(pending, m) \in pending
                                  /\ Place(pending, Nth(pending, m)) = m
  BY <1>3, WalkFacts, Zenon DEF n
<1>7. /\ Cardinality(ids) \in Nat
      /\ \A a \in ids : Place(ids, a) \in 0 .. (Cardinality(ids) - 1)
      /\ \A a, b \in ids : Place(ids, a) = Place(ids, b) => a = b
  BY <1>3, WalkFacts, Zenon
<1>8. \A r \in R : i(r) \in Nat
  BY <1>4, <1>7
<1>9. \A r \in R : i(r) < n => x(r) \in pending /\ Place(pending, x(r)) = i(r)
  BY <1>6, <1>8
<1>10. \A r, q \in R : i(r) = i(q) => r = q
  BY <1>1, <1>4, <1>7, EntryKeys
<1> HIDE DEF i, x
<1>11. ASSUME NEW j \in J
       PROVE  \E r \in R : /\ j.id = x(r) /\ j.server = r.server /\ j.index = r.index
                           /\ x(r) \in pending /\ Place(pending, x(r)) = i(r)
                           /\ j = Job(x(r), r.server, r.index)
  <2>1. PICK r \in R : i(r) < n /\ j = Job(x(r), r.server, r.index)
    BY <1>5
  <2>2. QED
    BY <1>9, <2>1 DEF Job
<1>12. ASSUME NEW j \in J, NEW k \in J, j.id = k.id \/ j.index = k.index PROVE j = k
  <2>1. PICK r \in R : /\ j.id = x(r) /\ j.server = r.server /\ j.index = r.index
                       /\ x(r) \in pending /\ Place(pending, x(r)) = i(r)
                       /\ j = Job(x(r), r.server, r.index)
    BY <1>11
  <2>2. PICK q \in R : /\ k.id = x(q) /\ k.server = q.server /\ k.index = q.index
                       /\ x(q) \in pending /\ Place(pending, x(q)) = i(q)
                       /\ k = Job(x(q), q.server, q.index)
    BY <1>11
  <2>3. CASE j.id = k.id
    BY <1>10, <2>1, <2>2, <2>3
  <2>4. CASE j.index = k.index
    BY <1>1, <2>1, <2>2, <2>4, EntryKeys
  <2>5. QED
    BY <1>12, <2>3, <2>4
<1>13. ASSUME NEW j \in J PROVE j \in RunningJobs
  <2>1. PICK r \in R : /\ x(r) \in pending /\ j = Job(x(r), r.server, r.index)
    BY <1>11
  <2>2. r \in RunningJobs /\ x(r) \in Evals
    BY <1>1, <1>2, <2>1
  <2>3. QED
    BY <2>1, <2>2 DEF RunningJobs, Job
<1>14. \A j \in J : /\ j.id \in pending
                    /\ \E r \in R : j.server = r.server /\ j.index = r.index
  BY <1>11
<1>15. QED
  BY <1>12, <1>13, <1>14 DEF J, pending

(* The local jobs launched are new, and the concurrency is kept to.        *)
LEMMA LocalBackfillFacts ==
  ASSUME Typed, Books, NEW R, NEW C \in SUBSET active
  PROVE  /\ LocalBackfill(R, C) \subseteq coreQueue
         /\ \A y \in LocalBackfill(R, C) :
              /\ y \notin active /\ y \notin raw /\ y \notin IdsOf(R)
              /\ y \notin IdsOf(runningMap) \/ y \in IdsOf(R)
              /\ y \notin IdsOf(Replacements(R))
         /\ Cardinality((active \ C) \cup LocalBackfill(R, C)) <= Conc
<1> DEFINE running == (IdsOf(runningMap) \ IdsOf(R)) \cup IdsOf(Replacements(R))
           pending == {id \in coreQueue : /\ StaticLimited \/ id >= IterAfterReceives(R)
                                          /\ id \notin active
                                          /\ id \notin running
                                          /\ id \notin raw \cup IdsOf(R)}
           k == Conc - Cardinality(active \ C)
           L == LocalBackfill(R, C)
           busy == localServerAssigned \ Servers(C)
<1>1. /\ Conc \in Nat /\ active \in SUBSET Evals /\ Cardinality(active) <= Conc
      /\ coreQueue \in SUBSET Evals
  BY ConfigFacts, QueueFacts DEF Typed, Books
<1>2. L = IF C = {} THEN {} ELSE LocalLaunch(pending, busy, k)
  BY DEF LocalBackfill
<1>3. pending \in SUBSET coreQueue
  OBVIOUS
<1>4. \A y \in pending : /\ y \notin active /\ y \notin raw /\ y \notin IdsOf(R)
                         /\ y \notin IdsOf(runningMap) \/ y \in IdsOf(R)
                         /\ y \notin IdsOf(Replacements(R))
  OBVIOUS
<1> HIDE DEF pending, L, running, busy
<1>5. Cardinality(active \ C) <= Cardinality(active) /\ Cardinality(active \ C) \in Nat
      /\ Cardinality(active) \in Nat
  BY <1>1, FiniteParts, FS_Subset
<1>6. k \in Nat
  BY <1>1, <1>5
<1>7. /\ LocalLaunch(pending, busy, k) \subseteq pending
      /\ Cardinality(LocalLaunch(pending, busy, k)) <= k
  BY <1>1, <1>3, <1>6, LaunchFacts
<1>8. L \subseteq pending
  BY <1>2, <1>7
<1>9. Cardinality((active \ C) \cup L) <= Conc
  <2>1. CASE C = {}
    <3>1. (active \ C) \cup L = active
      BY <1>2, <2>1
    <3>2. QED
      BY <1>1, <3>1
  <2>2. CASE C # {}
    <3>1. Cardinality(L) <= Conc - Cardinality(active \ C)
      BY <1>2, <1>7, <2>2
    <3>2. L \in SUBSET Evals /\ active \ C \in SUBSET Evals
      BY <1>1, <1>3, <1>8
    <3>3. QED
      BY <1>1, <3>1, <3>2, LocalLoad
  <2>3. QED
    BY <2>1, <2>2
<1>10. QED
  BY <1>3, <1>4, <1>8, <1>9 DEF L

(* One pass of both: what it leaves in flight, and that the jobs it gives  *)
(* away are new ones.                                                      *)
LEMMA BackfillFacts ==
  ASSUME PInv, pc \in {"loop", "test"}, NEW R \in SUBSET Completed,
         NEW C \in SUBSET active, TestAndBackfill(R, C), config' = config
  PROVE  LET I == IdsOf(Replacements(R))
             L == LocalBackfill(R, C)
         IN  /\ Described' /\ OnePlace' /\ Requests'
             /\ runningMap' \in SUBSET RunningJobs
             /\ remote' \in [Peers -> Seq(Evals)] /\ replies' \in SUBSET Evals
             /\ recvRequests' \in [Indices -> 0 .. MaxEvals]
             /\ \A s \in RemoteIds : Load(s)' <= Conc'
             /\ pc = "test" => \A r \in runningMap' : r.index \in Lane(r.server)
             /\ IdsOf(R) \subseteq InFlight
             /\ InFlight' = (InFlight \ IdsOf(R)) \cup I
             /\ active' = (active \ C) \cup L
             /\ Cardinality(active') <= Conc
             /\ I \subseteq coreQueue /\ L \subseteq coreQueue
             /\ I \cap (InFlight \cup active \cup raw) = {}
             /\ L \cap (InFlight \cup active \cup raw \cup I) = {}
             /\ runs' = Count(I \cup L)
<1> USE DEF PInv
<1> DEFINE J == Replacements(R)
           I == IdsOf(J)
           L == LocalBackfill(R, C)
<1>1. /\ runningMap' = (runningMap \ R) \cup J
      /\ replies' = replies \ {recvRequests[r.index] : r \in R}
      /\ recvRequests' = Requested(R, J)
      /\ remote' = Messages(J) /\ active' = (active \ C) \cup L
      /\ runs' = Count(I \cup L)
  BY DEF TestAndBackfill, Requested
<1>2. Described /\ Loads /\ config \in Configurations
  BY DEF Typed
<1>3. /\ \A j \in J : /\ j.id \in ReceivePending
                      /\ \E r \in R : j.server = r.server /\ j.index = r.index
      /\ \A j, k \in J : j.id = k.id \/ j.index = k.index => j = k
      /\ J \in SUBSET RunningJobs
  BY <1>2, ReplacementFacts
<1>4. /\ L \subseteq coreQueue
      /\ \A y \in L : /\ y \notin active /\ y \notin raw
                      /\ y \notin IdsOf(R)
                      /\ y \notin IdsOf(runningMap) \/ y \in IdsOf(R)
                      /\ y \notin I
      /\ Cardinality((active \ C) \cup L) <= Conc
  BY LocalBackfillFacts
<1> HIDE DEF J, L
<1>5. I \subseteq ReceivePending
  BY <1>3 DEF IdsOf
<1> HIDE DEF I
<1>6. IdsOf(runningMap) = InFlight /\ R \subseteq runningMap
  BY <1>2 DEF Described, Completed
<1>7. /\ I \subseteq coreQueue /\ I \cap (InFlight \cup active \cup raw) = {}
      /\ L \cap (InFlight \cup active \cup raw \cup I) = {}
  BY <1>4, <1>5, <1>6 DEF ReceivePending
<1>8. J \in SUBSET [id : Evals, server : RemoteIds, index : Indices]
  <2>1. \A b \in 0 .. (RemoteCapacity - 1) : b \in Indices
    BY <1>2, ConfigFacts
  <2>2. QED
    BY <1>3, <2>1 DEF RunningJobs
<1>9. \A j \in J : j.id \notin InFlight
  BY <1>7 DEF I, IdsOf
<1>10. Sends(R, J)
  BY <1>1, <1>3, <1>8, <1>9 DEF Sends
<1>11. /\ Described' /\ runningMap' \in SUBSET RunningJobs
       /\ IdsOf(R) \subseteq replies
       /\ InFlight' = (InFlight \ IdsOf(R)) \cup I
  BY <1>1, <1>2, <1>3, <1>10, DescribedFacts DEF I
<1>12. /\ remote' \in [Peers -> Seq(Evals)] /\ replies' \in SUBSET Evals
       /\ OnePlace' /\ Requests' /\ recvRequests' \in [Indices -> 0 .. MaxEvals]
  BY <1>10, SendsFacts, RequestedFacts
<1>13. \A r \in runningMap' : \E q \in runningMap : q.server = r.server /\ q.index = r.index
  BY <1>1, <1>3, <1>6
<1>14. ASSUME NEW s \in RemoteIds PROVE Load(s)' <= Conc'
  <2>1. \A r \in runningMap' : r.server = s => r.index \in IndicesOf(s)
    BY <1>13 DEF IndicesOf
  <2>2. Load(s) <= Conc
    BY <1>2 DEF Loads
  <2>3. QED
    BY <2>1, <2>2, LoadShrinks
<1>15. pc = "test" => \A r \in runningMap' : r.index \in Lane(r.server)
  <2>1. pc = "test" => \A r \in runningMap : r.index \in Lane(r.server)
    BY <1>2 DEF Loads
  <2>2. QED
    BY <1>13, <2>1
<1>16. IdsOf(R) \subseteq InFlight
  BY <1>11, FlightFacts
<1>17. QED
  BY <1>1, <1>4, <1>7, <1>11, <1>12, <1>14, <1>15, <1>16 DEF J, I, L

LEMMA DynamicTurnPInv ==
  ASSUME PInv, NEW R \in SUBSET Completed, NEW C \in SUBSET active, DynamicTurn(R, C)
  PROVE  PInv'
<1> USE DEF PInv
<1> DEFINE I == IdsOf(Replacements(R))
           L == LocalBackfill(R, C)
<1>1. /\ config' = config /\ evalIdCntr' = evalIdCntr
      /\ nowaitEvalIdRef' = nowaitEvalIdRef /\ coreQueue' = coreQueue
      /\ raw' = raw \cup IdsOf(R) \cup C /\ localQueue' = localQueue
      /\ pc' = pc /\ delivered' = delivered /\ pc = "loop"
      /\ TestAndBackfill(R, C)
  BY DEF DynamicTurn, ownVars
<1>2. /\ Described' /\ OnePlace' /\ Requests'
      /\ runningMap' \in SUBSET RunningJobs
      /\ remote' \in [Peers -> Seq(Evals)] /\ replies' \in SUBSET Evals
      /\ recvRequests' \in [Indices -> 0 .. MaxEvals]
      /\ \A s \in RemoteIds : Load(s)' <= Conc'
      /\ IdsOf(R) \subseteq InFlight
      /\ InFlight' = (InFlight \ IdsOf(R)) \cup I
      /\ active' = (active \ C) \cup L
      /\ Cardinality(active') <= Conc
      /\ I \subseteq coreQueue /\ L \subseteq coreQueue
      /\ I \cap (InFlight \cup active \cup raw) = {}
      /\ L \cap (InFlight \cup active \cup raw \cup I) = {}
      /\ runs' = Count(I \cup L)
  BY <1>1, BackfillFacts
<1> HIDE DEF I, L
<1>3. /\ Conc' = Conc /\ RunningJobs' = RunningJobs /\ Indices' = Indices
      /\ RemoteIds' = RemoteIds
  BY <1>1, ConfigKept
<1>4. Loads'
  BY <1>1, <1>2, <1>3 DEF Loads
<1>5. coreQueue \in SUBSET Evals /\ InFlight \subseteq Evals
  BY QueueFacts, FlightFacts
<1>6. Typed'
  <2>1. raw' \in SUBSET Evals /\ active' \in SUBSET Evals
    BY <1>1, <1>2, <1>5 DEF Typed
  <2>2. QED
    BY <1>1, <1>2, <1>3, <2>1 DEF Typed
<1>7. /\ InFlight \cup active \subseteq coreQueue /\ InFlight \cap active = {}
      /\ raw \cap (InFlight \cup active) = {} /\ coreQueue \cap delivered = {}
      /\ raw \subseteq coreQueue /\ localQueue = {}
  BY <1>1 DEF Books
<1>8. Books'
  <2>1. InFlight' \cup active' \subseteq coreQueue
    BY <1>2, <1>7
  <2>2. InFlight' \cap active' = {}
    BY <1>2, <1>7
  <2>3. raw' \cap (InFlight' \cup active') = {}
    BY <1>1, <1>2, <1>7
  <2>4. raw' \subseteq coreQueue
    BY <1>1, <1>2, <1>7
  <2>5. QED
    BY <1>1, <1>2, <1>3, <1>7, <2>1, <2>2, <2>3, <2>4 DEF Books
<1>9. Given' = Given \cup (I \cup L) /\ (I \cup L) \cap Given = {}
  <2>1. Given' = Given \cup (I \cup L)
    BY <1>1, <1>2, <1>7 DEF Given
  <2>2. (I \cup L) \cap Given = {}
    BY <1>2, <1>7 DEF Given
  <2>3. QED
    BY <2>1, <2>2
<1>10. SimulatedOnce'
  BY <1>2, <1>9, GivesAway
<1>11. QED
  BY <1>2, <1>4, <1>6, <1>8, <1>10

LEMMA NowaitReturnPInv ==
  ASSUME PInv, NEW R \in SUBSET Completed, NEW C \in SUBSET active, NowaitReturn(R, C)
  PROVE  PInv'
<1> USE DEF PInv
<1> DEFINE I == IdsOf(Replacements(R))
           L == LocalBackfill(R, C)
           back == raw \cup IdsOf(R) \cup C
<1>1. /\ config' = config /\ evalIdCntr' = evalIdCntr
      /\ nowaitEvalIdRef' = nowaitEvalIdRef /\ coreQueue' = coreQueue \ back
      /\ raw' = back /\ localQueue' = localQueue
      /\ pc' = "idle" /\ delivered' = delivered \cup back /\ pc = "test"
      /\ TestAndBackfill(R, C)
  BY DEF NowaitReturn, ownVars
<1>2. /\ Described' /\ OnePlace' /\ Requests'
      /\ runningMap' \in SUBSET RunningJobs
      /\ remote' \in [Peers -> Seq(Evals)] /\ replies' \in SUBSET Evals
      /\ recvRequests' \in [Indices -> 0 .. MaxEvals]
      /\ \A r \in runningMap' : r.index \in Lane(r.server)
      /\ IdsOf(R) \subseteq InFlight
      /\ InFlight' = (InFlight \ IdsOf(R)) \cup I
      /\ active' = (active \ C) \cup L
      /\ Cardinality(active') <= Conc
      /\ I \subseteq coreQueue /\ L \subseteq coreQueue
      /\ I \cap (InFlight \cup active \cup raw) = {}
      /\ L \cap (InFlight \cup active \cup raw \cup I) = {}
      /\ runs' = Count(I \cup L)
  BY <1>1, BackfillFacts
<1>3. back = raw \cup IdsOf(R) \cup C
  OBVIOUS
<1> HIDE DEF I, L, back
<1>4. /\ Conc' = Conc /\ RunningJobs' = RunningJobs /\ Indices' = Indices
  BY <1>1, ConfigKept
<1>5. Loads'
  BY <1>1, <1>2, LoadsFromLanesNext DEF Typed
<1>6. /\ coreQueue \in SUBSET Evals /\ InFlight \subseteq Evals
      /\ delivered \in SUBSET (1 .. evalIdCntr) /\ coreQueue \in SUBSET (1 .. evalIdCntr)
  BY QueueFacts, FlightFacts DEF Typed
<1>7. /\ InFlight \cup active \subseteq coreQueue /\ InFlight \cap active = {}
      /\ raw \cap (InFlight \cup active) = {} /\ coreQueue \cap delivered = {}
      /\ raw \subseteq coreQueue /\ localQueue = {}
  BY <1>1 DEF Books
<1>8. back \subseteq coreQueue /\ back \cap (I \cup L) = {}
  BY <1>2, <1>3, <1>7
<1>9. Typed'
  <2>1. raw' \in SUBSET Evals /\ active' \in SUBSET Evals
    BY <1>1, <1>2, <1>6, <1>8 DEF Typed
  <2>2. delivered' \in SUBSET (1 .. evalIdCntr) /\ coreQueue' \in SUBSET (1 .. evalIdCntr)
    BY <1>1, <1>6, <1>8
  <2>3. QED
    BY <1>1, <1>2, <1>4, <2>1, <2>2 DEF Typed
<1>10. Books'
  <2>1. InFlight' \cup active' \subseteq coreQueue'
    BY <1>1, <1>2, <1>3, <1>7
  <2>2. InFlight' \cap active' = {}
    BY <1>2, <1>7
  <2>3. raw' \cap (InFlight' \cup active') = {}
    BY <1>1, <1>2, <1>3, <1>7
  <2>4. coreQueue' \cap delivered' = {}
    BY <1>1, <1>7
  <2>5. QED
    BY <1>1, <1>2, <1>4, <1>7, <2>1, <2>2, <2>3, <2>4 DEF Books
<1>11. Given' = Given \cup (I \cup L) /\ (I \cup L) \cap Given = {}
  <2>1. Given' = Given \cup (I \cup L)
    BY <1>1, <1>2, <1>3, <1>7 DEF Given
  <2>2. (I \cup L) \cap Given = {}
    BY <1>2, <1>7 DEF Given
  <2>3. QED
    BY <2>1, <2>2
<1>12. SimulatedOnce'
  BY <1>2, <1>11, GivesAway
<1>13. QED
  BY <1>1, <1>2, <1>5, <1>9, <1>10, <1>12

-----------------------------------------------------------------------------
(* The round robin of the first passes.                                    *)

(* The turn in which a job of S is dealt out.                              *)
TurnOf(S, id) == Quotient(Place(S, id), N)
PeerFor(S, id) == (Place(S, id) + 1) % N

(* A job goes to one peer, and as many turns as a peer may run jobs are    *)
(* enough for as many jobs as all may run.                                 *)
LEMMA TurnFacts ==
  ASSUME config \in Configurations, NEW S \in SUBSET Evals,
         Cardinality(S) <= Conc * N
  PROVE  /\ \A id \in S : TurnOf(S, id) \in 0 .. (Conc - 1)
         /\ \A id, x \in S : TurnOf(S, id) = TurnOf(S, x) /\ PeerFor(S, id) = PeerFor(S, x)
                               => id = x
<1> DEFINE i(id) == Place(S, id)
           r(id) == Remainder(Place(S, id), N)
           p == Conc * N
<1>1. N \in Nat \ {0} /\ N - 1 \in Nat /\ Conc \in Nat \ {0}
  BY ConfigFacts
<1>2. p \in Nat /\ Cardinality(S) <= p /\ Cardinality(S) \in Nat
  BY <1>1, FiniteParts
<1>3. /\ \A id \in S : i(id) \in 0 .. (Cardinality(S) - 1)
      /\ \A id, x \in S : i(id) = i(x) => id = x
  BY FiniteParts, WalkFacts, Zenon
<1> HIDE DEF i, p
<1>4. \A id \in S : i(id) \in Nat /\ i(id) < p
  BY <1>2, <1>3
<1>5. ASSUME NEW id \in S
      PROVE  /\ TurnOf(S, id) \in 0 .. (Conc - 1) /\ r(id) \in 0 .. (N - 1)
             /\ i(id) = TurnOf(S, id) * N + r(id)
             /\ PeerFor(S, id) = IF r(id) = N - 1 THEN 0 ELSE r(id) + 1
  <2> DEFINE k == i(id)
  <2>1. k \in Nat /\ k < Conc * N
    BY <1>4 DEF p
  <2> HIDE DEF k
  <2>2. /\ Remainder(k, N) \in 0 .. (N - 1) /\ Quotient(k, N) \in 0 .. (Conc - 1)
        /\ k = Quotient(k, N) * N + Remainder(k, N)
    BY <1>1, <2>1, Division
  <2>3. (k + 1) % N = IF Remainder(k, N) = N - 1 THEN 0 ELSE Remainder(k, N) + 1
    BY <1>1, <2>1, NextRemainder
  <2>4. TurnOf(S, id) = Quotient(k, N) /\ r(id) = Remainder(k, N)
        /\ PeerFor(S, id) = (k + 1) % N
    BY DEF TurnOf, PeerFor, k, i
  <2>5. i(id) = k
    BY DEF k
  <2>6. QED
    BY <2>2, <2>3, <2>4, <2>5
<1> HIDE DEF r
<1>6. ASSUME NEW id \in S, NEW x \in S, TurnOf(S, id) = TurnOf(S, x),
             PeerFor(S, id) = PeerFor(S, x)
      PROVE  id = x
  <2>1. r(id) = r(x)
    <3> DEFINE a == r(id)
               b == r(x)
    <3>1. /\ a \in 0 .. (N - 1) /\ b \in 0 .. (N - 1)
          /\ (IF a = N - 1 THEN 0 ELSE a + 1) = (IF b = N - 1 THEN 0 ELSE b + 1)
      BY <1>5, <1>6
    <3> HIDE DEF a, b
    <3>2. a = b
      BY <1>1, <3>1
    <3>3. QED
      BY <3>2 DEF a, b
  <2>2. i(id) = i(x)
    <3>1. i(id) = TurnOf(S, id) * N + r(id) /\ i(x) = TurnOf(S, x) * N + r(x)
      BY <1>5
    <3>2. QED
      BY <1>6, <2>1, <3>1, Zenon
  <2>3. QED
    BY <1>3, <2>2
<1>7. QED
  BY <1>5, <1>6

(* So no peer is dealt more than it may run, ...                           *)
LEMMA DealtFacts ==
  ASSUME config \in Configurations, NEW S \in SUBSET Evals,
         Cardinality(S) <= Conc * N, NEW s
  PROVE  Cardinality(Dealt(S, s)) <= Conc /\ IsFiniteSet(Dealt(S, s))
<1> DEFINE D == Dealt(S, s)
           f == [id \in D |-> TurnOf(S, id)]
<1>1. D \subseteq S /\ \A id \in D : PeerFor(S, id) = s
  BY DEF Dealt, PeerFor
<1> HIDE DEF D
<1>2. /\ \A id \in S : TurnOf(S, id) \in 0 .. (Conc - 1)
      /\ \A id, x \in S : TurnOf(S, id) = TurnOf(S, x) /\ PeerFor(S, id) = PeerFor(S, x)
                            => id = x
  BY TurnFacts
<1>3. Conc \in Nat
  BY ConfigFacts
<1>4. f \in [D -> 0 .. (Conc - 1)] /\ \A id, x \in D : f[id] = f[x] => id = x
  BY <1>1, <1>2
<1> HIDE DEF f
<1>5. f \in Injection(D, 0 .. (Conc - 1))
  BY <1>4 DEF Injection, IsInjective
<1>6. /\ IsFiniteSet(0 .. (Conc - 1)) /\ Cardinality(0 .. (Conc - 1)) = Conc
  BY <1>3, Below
<1>7. Cardinality(D) <= Conc /\ IsFiniteSet(D)
  BY <1>5, <1>6, FS_Injection
<1>8. QED
  BY <1>7 DEF D

(* ... and the jobs of the others need no more indices than they have.     *)
LEMMA OthersFacts ==
  ASSUME config \in Configurations, NEW S \in SUBSET Evals,
         Cardinality(S) <= Conc * N
  PROVE  Cardinality(S \ Dealt(S, 0)) <= RemoteCapacity
<1> DEFINE O == S \ Dealt(S, 0)
           a(id) == (PeerFor(S, id) - 1) * Conc
           f == [id \in O |-> a(id) + TurnOf(S, id)]
<1>1. /\ N \in Nat /\ N >= 2 /\ RemoteIds = 1 .. (N - 1) /\ Conc \in Nat \ {0}
      /\ RemoteCapacity \in Nat
  BY ConfigFacts
<1>2. /\ \A id \in S : TurnOf(S, id) \in 0 .. (Conc - 1)
      /\ \A id, x \in S : TurnOf(S, id) = TurnOf(S, x) /\ PeerFor(S, id) = PeerFor(S, x)
                            => id = x
  BY TurnFacts
<1>3. ASSUME NEW id \in O PROVE id \in S /\ PeerFor(S, id) \in RemoteIds
  <2>1. id \in S /\ PeerFor(S, id) # 0
    BY DEF Dealt, PeerFor
  <2>2. Place(S, id) \in Nat
    <3>1. /\ Cardinality(S) \in Nat
          /\ \A x \in S : Place(S, x) \in 0 .. (Cardinality(S) - 1)
      BY FiniteParts, WalkFacts, Zenon
    <3>2. QED
      BY <2>1, <3>1
  <2> DEFINE k == Place(S, id) + 1
  <2>3. k \in Nat
    BY <2>2
  <2> HIDE DEF k
  <2>4. k % N \in 0 .. (N - 1)
    BY <1>1, <2>3
  <2>5. PeerFor(S, id) = k % N
    BY DEF PeerFor, k
  <2>6. QED
    BY <1>1, <2>1, <2>4, <2>5
<1> HIDE DEF O
<1>4. ASSUME NEW id \in O
      PROVE  a(id) \in Nat /\ f[id] \in Lane(PeerFor(S, id))
             /\ f[id] = a(id) + TurnOf(S, id)
  <2>1. /\ Lane(PeerFor(S, id)) = a(id) .. (a(id) + Conc - 1) /\ a(id) \in Nat
    BY <1>3, LaneFacts
  <2>2. TurnOf(S, id) \in 0 .. (Conc - 1)
    BY <1>2, <1>3
  <2>3. f[id] = a(id) + TurnOf(S, id)
    OBVIOUS
  <2> HIDE DEF a, f
  <2>4. QED
    BY <1>1, <2>1, <2>2, <2>3
<1>5. f = [id \in O |-> f[id]]
  OBVIOUS
<1>6. \A id \in O : a(id) = (PeerFor(S, id) - 1) * Conc
  OBVIOUS
<1> HIDE DEF f, a
<1>7. ASSUME NEW id \in O, NEW x \in O, f[id] = f[x] PROVE id = x
  <2>1. PeerFor(S, id) = PeerFor(S, x)
    BY <1>3, <1>4, <1>7, LanesApart
  <2>2. a(id) = a(x)
    BY <1>6, <2>1
  <2>3. /\ a(id) \in Nat /\ f[id] = a(id) + TurnOf(S, id) /\ f[x] = a(x) + TurnOf(S, x)
        /\ TurnOf(S, id) \in Nat /\ TurnOf(S, x) \in Nat
    BY <1>2, <1>3, <1>4
  <2>4. TurnOf(S, id) = TurnOf(S, x)
    <3> DEFINE b == a(id)
               t == TurnOf(S, id)
               u == TurnOf(S, x)
    <3>1. b \in Nat /\ t \in Nat /\ u \in Nat /\ b + t = b + u
      BY <1>7, <2>2, <2>3, Zenon
    <3> HIDE DEF b, t, u
    <3>2. t = u
      BY <3>1
    <3>3. QED
      BY <3>2 DEF t, u
  <2>5. QED
    BY <1>2, <1>3, <2>1, <2>4
<1>8. f \in [O -> 0 .. (RemoteCapacity - 1)]
  <2>1. \A id \in O : f[id] \in 0 .. (RemoteCapacity - 1)
    BY <1>3, <1>4, LaneFacts
  <2>2. QED
    BY <1>5, <2>1
<1>9. f \in Injection(O, 0 .. (RemoteCapacity - 1))
  BY <1>7, <1>8 DEF Injection, IsInjective
<1>10. /\ IsFiniteSet(0 .. (RemoteCapacity - 1))
       /\ Cardinality(0 .. (RemoteCapacity - 1)) = RemoteCapacity
  BY <1>1, Below
<1>11. Cardinality(O) <= RemoteCapacity
  BY <1>9, <1>10, FS_Injection
<1>12. QED
  BY <1>11 DEF O

(* The jobs that a first pass sends with consecutive indices.              *)
LEMMA ConsecutiveFacts ==
  ASSUME config \in Configurations, NEW S \in SUBSET Evals
  PROVE  LET J == ConsecutiveJobs(S)
             O == S \ Dealt(S, 0)
         IN  /\ IdsOf(J) = O
             /\ \A j \in J : /\ j.id \in O /\ j.server = PeerFor(S, j.id)
                             /\ j.server \in RemoteIds
                             /\ j.index = Place(O, j.id)
                             /\ j.index \in 0 .. (Cardinality(O) - 1)
                             /\ j.index \in Indices
             /\ J \in SUBSET [id : Evals, server : RemoteIds, index : Indices]
             /\ \A j, k \in J : j.id = k.id \/ j.index = k.index => j = k
<1> DEFINE J == ConsecutiveJobs(S)
           O == S \ Dealt(S, 0)
<1>1. J = {Job(id, PeerFor(S, id), Place(O, id)) : id \in O}
  BY DEF ConsecutiveJobs, PeerFor
<1>2. \A id \in O : id \in S /\ PeerFor(S, id) # 0
  BY DEF Dealt, PeerFor
<1>3. O \in SUBSET Evals
  OBVIOUS
<1> HIDE DEF J, O
<1>4. /\ Cardinality(S) \in Nat
      /\ \A id \in S : Place(S, id) \in 0 .. (Cardinality(S) - 1)
  BY FiniteParts, WalkFacts, Zenon
<1>5. /\ Cardinality(O) \in Nat
      /\ \A id \in O : Place(O, id) \in 0 .. (Cardinality(O) - 1)
      /\ \A id, x \in O : Place(O, id) = Place(O, x) => id = x
  BY <1>3, FiniteParts, WalkFacts, Zenon
<1>6. Cardinality(O) <= MaxEvals /\ MaxEvals \in Nat
  <2>1. Cardinality(Evals) = MaxEvals /\ MaxEvals \in Nat
    <3>1. CASE MaxEvals = 0
      <4>1. Evals = {}
        BY <3>1 DEF Evals
      <4>2. QED
        BY <3>1, <4>1, FS_EmptySet
    <3>2. CASE MaxEvals # 0
      <4>1. 1 \in Int /\ MaxEvals \in Int /\ ~(1 > MaxEvals)
        BY <3>2, ConstantsAssumption
      <4>2. Cardinality(1 .. MaxEvals) = MaxEvals - 1 + 1
        BY <4>1, FS_Interval
      <4>3. QED
        BY <4>1, <4>2, ConstantsAssumption DEF Evals
    <3>3. QED
      BY <3>1, <3>2, ConstantsAssumption
  <2>2. QED
    BY <1>3, <2>1, FiniteParts, FS_Subset
<1>7. ASSUME NEW id \in O PROVE PeerFor(S, id) \in RemoteIds
  <2> DEFINE k == Place(S, id) + 1
  <2>1. k \in Nat /\ PeerFor(S, id) = k % N
    <3>1. Place(S, id) \in 0 .. (Cardinality(S) - 1)
      BY <1>2, <1>4
    <3>2. k \in Nat
      BY <1>4, <3>1
    <3>3. QED
      BY <3>2 DEF PeerFor
  <2>2. N \in Nat /\ N >= 2 /\ RemoteIds = 1 .. (N - 1)
    BY ConfigFacts
  <2> HIDE DEF k
  <2>3. k % N \in 0 .. (N - 1)
    BY <2>1, <2>2
  <2>4. QED
    BY <1>2, <2>1, <2>2, <2>3
<1>8. \A b \in 0 .. (Cardinality(O) - 1) : b \in Indices
  <2>1. \A b \in 0 .. (Cardinality(O) - 1) : b \in 0 .. MaxEvals
    BY <1>5, <1>6
  <2>2. QED
    BY <2>1, ConfigFacts
<1>9. ASSUME NEW j \in J
      PROVE  /\ j.id \in O /\ j.server = PeerFor(S, j.id) /\ j.index = Place(O, j.id)
             /\ j = Job(j.id, PeerFor(S, j.id), Place(O, j.id))
  BY <1>1 DEF Job
<1>10. IdsOf(J) = O
  <2>1. ASSUME NEW id \in O PROVE \E j \in J : j.id = id
    <3> DEFINE j == Job(id, PeerFor(S, id), Place(O, id))
    <3>1. j \in J
      BY <1>1
    <3>2. j.id = id
      BY DEF Job
    <3>3. QED
      BY <3>1, <3>2
  <2>2. QED
    BY <1>9, <2>1 DEF IdsOf
<1>11. \A j \in J : /\ j.server \in RemoteIds /\ j.index \in Indices
                    /\ j.index \in 0 .. (Cardinality(O) - 1)
  BY <1>5, <1>7, <1>8, <1>9
<1>12. ASSUME NEW j \in J PROVE j \in [id : Evals, server : RemoteIds, index : Indices]
  <2>1. j.id \in Evals /\ j.server \in RemoteIds /\ j.index \in Indices
    BY <1>3, <1>9, <1>11
  <2>2. j = [id |-> j.id, server |-> j.server, index |-> j.index]
    BY <1>9 DEF Job
  <2>3. QED
    BY <2>1, <2>2
<1>13. \A j, k \in J : j.id = k.id \/ j.index = k.index => j = k
  BY <1>5, <1>9
<1>14. QED
  BY <1>9, <1>10, <1>11, <1>12, <1>13 DEF J, O

(* A first pass starts with nothing in flight.                             *)
LEMMA IdleFacts ==
  ASSUME PInv, Starts, NothingRunning
  PROVE  /\ pc = "idle" /\ Described /\ InFlight = {} /\ active = {} /\ runningMap = {}
         /\ \A b \in Indices : recvRequests[b] = NoTag
         /\ Given = delivered /\ coreQueue \cap delivered = {} /\ localQueue = {}
         /\ coreQueue \in SUBSET Evals
<1> USE DEF PInv
<1>1. /\ pc = "idle" /\ Described /\ active = {} /\ runningMap = {}
  BY DEF Starts, NothingRunning
<1>2. InFlight = {}
  BY <1>1 DEF Described, IdsOf
<1>3. \A b \in Indices : recvRequests[b] = NoTag
  BY <1>2 DEF Requests
<1>4. raw \subseteq delivered /\ coreQueue \cap delivered = {} /\ localQueue = {}
  BY <1>1 DEF Books
<1>5. Given = delivered
  BY <1>1, <1>2, <1>4 DEF Given
<1>6. QED
  BY <1>1, <1>2, <1>3, <1>4, <1>5, QueueFacts

(* What it sends.                                                          *)
LEMMA FirstSends ==
  ASSUME PInv, Starts, NothingRunning,
         NEW J \in SUBSET [id : Evals, server : RemoteIds, index : Indices],
         \A j, k \in J : j.id = k.id \/ j.index = k.index => j = k,
         config' = config, replies' = replies, remote' = Messages(J),
         recvRequests' = Posted(J)
  PROVE  /\ remote' \in [Peers -> Seq(Evals)] /\ replies' \in SUBSET Evals
         /\ recvRequests' \in [Indices -> 0 .. MaxEvals]
         /\ OnePlace' /\ Requests' /\ InFlight' = IdsOf(J)
         /\ J \in SUBSET RunningJobs /\ runningMap' = J => Described'
<1> USE DEF PInv
<1> DEFINE none == {}
<1>1. /\ pc = "idle" /\ Described /\ InFlight = {} /\ runningMap = {}
      /\ \A b \in Indices : recvRequests[b] = NoTag
  BY IdleFacts
<1>2. none \subseteq Completed /\ replies' = replies \ {recvRequests[r.index] : r \in none}
  OBVIOUS
<1>3. recvRequests' = Requested(none, J)
  BY PostedOnly
<1>4. {recvRequests[r.index] : r \in none} = {} /\ runningMap \ none = {}
  BY <1>1
<1> HIDE DEF none
<1>5. /\ \A r \in J : r.id \notin InFlight
      /\ \A r \in J : recvRequests[r.index] = NoTag
  BY <1>1
<1>6. Sends(none, J)
  BY <1>2, <1>3, <1>5 DEF Sends
<1>7. /\ remote' \in [Peers -> Seq(Evals)] /\ replies' \in SUBSET Evals
      /\ OnePlace' /\ Requests'
      /\ InFlight' = (InFlight \ {recvRequests[r.index] : r \in none}) \cup IdsOf(J)
  BY <1>6, SendsFacts
<1>8. InFlight' = IdsOf(J)
  BY <1>1, <1>4, <1>7
<1>9. recvRequests' \in [Indices -> 0 .. MaxEvals]
  BY <1>6, RequestedFacts
<1>10. ASSUME J \in SUBSET RunningJobs, runningMap' = J PROVE Described'
  <2>1. runningMap' = (runningMap \ none) \cup J
    BY <1>4, <1>10
  <2>2. QED
    BY <1>1, <1>6, <1>10, <2>1, DescribedFacts
<1>11. QED
  BY <1>7, <1>8, <1>9, <1>10

LEMMA StaticStartPInv ==
  ASSUME PInv, StaticStart
  PROVE  PInv'
<1> USE DEF PInv
<1> DEFINE J == ConsecutiveJobs(coreQueue)
           D == Dealt(coreQueue, 0)
<1>1. /\ config' = config /\ evalIdCntr' = evalIdCntr
      /\ nowaitEvalIdRef' = nowaitEvalIdRef /\ coreQueue' = coreQueue
      /\ raw' = {} /\ active' = active /\ runningMap' = runningMap
      /\ recvRequests' = Posted(J) /\ remote' = Messages(J)
      /\ localQueue' = D /\ pc' = "local"
      /\ replies' = replies /\ delivered' = delivered /\ runs' = Count(IdsOf(J))
      /\ Starts /\ NothingRunning
  BY DEF StaticStart, ownVars
<1>2. /\ active = {} /\ runningMap = {} /\ Given = delivered
      /\ coreQueue \cap delivered = {} /\ coreQueue \in SUBSET Evals
  BY <1>1, IdleFacts
<1>3. config \in Configurations /\ Conc \in Nat /\ D \subseteq coreQueue
  BY ConfigFacts DEF Typed, Dealt
<1>4. /\ IdsOf(J) = coreQueue \ D
      /\ J \in SUBSET [id : Evals, server : RemoteIds, index : Indices]
      /\ \A j, k \in J : j.id = k.id \/ j.index = k.index => j = k
  BY <1>2, <1>3, ConsecutiveFacts
<1> HIDE DEF J, D
<1>5. /\ remote' \in [Peers -> Seq(Evals)] /\ replies' \in SUBSET Evals
      /\ recvRequests' \in [Indices -> 0 .. MaxEvals]
      /\ OnePlace' /\ Requests' /\ InFlight' = IdsOf(J)
  BY <1>1, <1>4, FirstSends
<1>6. Conc' = Conc /\ Indices' = Indices /\ RunningJobs' = RunningJobs
  BY <1>1, ConfigKept
<1>7. Typed'
  BY <1>1, <1>2, <1>3, <1>5, <1>6 DEF Typed
<1>8. Books'
  <2>1. Cardinality(active') <= Conc'
    BY <1>1, <1>6 DEF Books
  <2>2. QED
    BY <1>1, <1>2, <1>3, <1>4, <1>5, <2>1 DEF Books
<1>9. Given' = Given \cup IdsOf(J) /\ IdsOf(J) \cap Given = {}
  <2>1. Given' = IdsOf(J) \cup delivered
    BY <1>1, <1>2, <1>5 DEF Given
  <2>2. QED
    BY <1>2, <1>4, <2>1
<1>10. SimulatedOnce'
  BY <1>1, <1>9, GivesAway
<1>11. QED
  BY <1>1, <1>5, <1>7, <1>8, <1>10

LEMMA DynamicStartPInv ==
  ASSUME PInv, DynamicStart
  PROVE  PInv'
<1> USE DEF PInv
<1> DEFINE k == N * Conc
           S == FirstOf(coreQueue, k)
           J == ConsecutiveJobs(S)
           D == Dealt(S, 0)
           O == S \ D
<1>1. /\ config' = config /\ evalIdCntr' = evalIdCntr
      /\ nowaitEvalIdRef' = nowaitEvalIdRef /\ coreQueue' = coreQueue
      /\ raw' = {} /\ active' = D /\ runningMap' = J
      /\ recvRequests' = Posted(J) /\ remote' = Messages(J)
      /\ localQueue' = localQueue /\ pc' = "loop"
      /\ replies' = replies /\ delivered' = delivered /\ runs' = Count(S)
      /\ Starts /\ NothingRunning
  BY DEF DynamicStart, ownVars
<1>2. /\ active = {} /\ runningMap = {} /\ Given = delivered /\ localQueue = {}
      /\ coreQueue \cap delivered = {} /\ coreQueue \in SUBSET Evals
  BY <1>1, IdleFacts
<1>3. /\ config \in Configurations /\ Conc \in Nat /\ N \in Nat
      /\ RemoteCapacity \in Nat
      /\ \A b \in 0 .. (RemoteCapacity - 1) : b \in Indices
  BY ConfigFacts DEF Typed
<1>4. k \in Nat /\ k = Conc * N
  BY <1>3
<1> HIDE DEF k, S
<1>5. S \subseteq coreQueue /\ Cardinality(S) <= k
  BY <1>2, <1>4, FiniteParts, FirstOfFacts DEF S
<1>6. S \in SUBSET Evals /\ Cardinality(S) <= Conc * N /\ D \subseteq S
  BY <1>2, <1>4, <1>5 DEF Dealt
<1>7. /\ IdsOf(J) = O
      /\ \A j \in J : /\ j.id \in O /\ j.server = PeerFor(S, j.id)
                      /\ j.server \in RemoteIds
                      /\ j.index = Place(O, j.id)
                      /\ j.index \in 0 .. (Cardinality(O) - 1)
      /\ J \in SUBSET [id : Evals, server : RemoteIds, index : Indices]
      /\ \A j, q \in J : j.id = q.id \/ j.index = q.index => j = q
  BY <1>3, <1>6, ConsecutiveFacts
<1>8. Cardinality(O) <= RemoteCapacity /\ Cardinality(O) \in Nat
  BY <1>3, <1>6, OthersFacts, FiniteParts
<1>9. Cardinality(D) <= Conc
  BY <1>3, <1>6, DealtFacts
<1>10. O = S \ D
  OBVIOUS
<1> HIDE DEF J, D, O
<1>11. J \in SUBSET RunningJobs
  <2>1. \A j \in J : j.index \in 0 .. (RemoteCapacity - 1)
    BY <1>3, <1>7, <1>8
  <2>2. QED
    BY <1>7, <2>1 DEF RunningJobs
<1>12. /\ remote' \in [Peers -> Seq(Evals)] /\ replies' \in SUBSET Evals
       /\ recvRequests' \in [Indices -> 0 .. MaxEvals]
       /\ OnePlace' /\ Requests' /\ InFlight' = IdsOf(J) /\ Described'
  BY <1>1, <1>7, <1>11, FirstSends
<1>13. /\ Conc' = Conc /\ Indices' = Indices /\ RunningJobs' = RunningJobs
       /\ RemoteIds' = RemoteIds
  BY <1>1, ConfigKept
<1>14. Loads'
  <2>1. ASSUME NEW s \in RemoteIds PROVE Load(s)' <= Conc'
    <3> DEFINE A == Dealt(S, s)
               T == {Place(O, id) : id \in A}
               f == [id \in A |-> Place(O, id)]
    <3>1. IndicesOf(s)' = {j.index : j \in {q \in J : q.server = s}}
      BY <1>1 DEF IndicesOf
    <3>2. IndicesOf(s)' \subseteq T
      <4>1. \A j \in J : j.server = s => j.id \in A
        BY <1>7, <1>10 DEF Dealt, PeerFor
      <4>2. QED
        BY <1>7, <3>1, <4>1
    <3>3. IsFiniteSet(A) /\ Cardinality(A) <= Conc /\ Cardinality(A) \in Nat
      BY <1>3, <1>6, DealtFacts, FS_CardinalityType
    <3>4. f \in Surjection(A, T)
      BY DEF Surjection
    <3> HIDE DEF A, T, f
    <3>5. IsFiniteSet(T) /\ Cardinality(T) <= Cardinality(A) /\ Cardinality(T) \in Nat
      BY <3>3, <3>4, FS_Surjection, FS_CardinalityType
    <3>6. Cardinality(IndicesOf(s)') <= Cardinality(T) /\ Cardinality(IndicesOf(s)') \in Nat
      BY <3>2, <3>5, FS_Subset, FS_CardinalityType
    <3>7. Load(s)' = Cardinality(IndicesOf(s)')
      BY DEF Load
    <3>8. QED
      BY <1>3, <1>13, <3>3, <3>5, <3>6, <3>7
  <2>2. QED
    BY <1>1, <1>13, <2>1 DEF Loads
<1>15. Typed'
  <2>1. active' \in SUBSET Evals
    BY <1>1, <1>6
  <2>2. QED
    BY <1>1, <1>11, <1>12, <1>13, <2>1 DEF Typed
<1>16. Books'
  BY <1>1, <1>2, <1>5, <1>6, <1>7, <1>9, <1>10, <1>12, <1>13 DEF Books
<1>17. Given' = Given \cup S /\ S \cap Given = {}
  <2>1. Given' = O \cup D \cup delivered
    BY <1>1, <1>7, <1>12 DEF Given
  <2>2. QED
    BY <1>2, <1>5, <1>6, <1>10, <2>1
<1>18. SimulatedOnce'
  BY <1>1, <1>17, GivesAway
<1>19. QED
  BY <1>12, <1>14, <1>15, <1>16, <1>18

(* With NumberingsAgree, the consecutive indices of the static first pass  *)
(* are in the lanes of the peers.                                          *)
LEMMA StaticLanes ==
  ASSUME NumberingsAgree, config \in Configurations, config.static,
         NEW S \in SUBSET Evals, Cardinality(S) <= Conc * N,
         NEW j \in ConsecutiveJobs(S)
  PROVE  j.index \in Lane(j.server)
<1> DEFINE D == Dealt(S, 0)
           O == S \ D
           id == j.id
           i == Place(S, id)
<1>1. /\ N \in Nat /\ N >= 2 /\ Conc \in Nat \ {0}
      /\ RemoteIds = 1 .. (N - 1) /\ RemoteCapacity = (N - 1) * Conc
  BY ConfigFacts
<1>2. /\ id \in O /\ j.server = PeerFor(S, id) /\ j.server \in RemoteIds
      /\ j.index = Place(O, id) /\ j.index \in 0 .. (Cardinality(O) - 1)
  BY ConsecutiveFacts
<1>3. Lane(j.server) = ((j.server - 1) * Conc) .. ((j.server - 1) * Conc + Conc - 1)
  BY <1>2, LaneFacts
<1>4. Conc = 1 \/ N = 2
  BY DEF NumberingsAgree, N, Conc
<1>5. CASE N = 2
  <2>1. j.server = 1 /\ RemoteCapacity = Conc
    BY <1>1, <1>2, <1>5
  <2>2. Cardinality(O) <= RemoteCapacity /\ Cardinality(O) \in Nat
    BY OthersFacts, FiniteParts
  <2>3. (1 - 1) * Conc = 0
    BY <1>1
  <2>4. Lane(j.server) = 0 .. (0 + Conc - 1)
    BY <1>3, <2>1, <2>3
  <2>5. QED
    BY <1>1, <1>2, <2>1, <2>2, <2>4
<1>6. CASE Conc = 1
  <2>1. Cardinality(S) <= N /\ Cardinality(S) \in Nat
    <3>1. 1 * N = N
      BY <1>1
    <3>2. QED
      BY <1>6, <3>1, FiniteParts
  <2>2. /\ \A x \in S : Place(S, x) \in 0 .. (Cardinality(S) - 1)
        /\ \A x, y \in S : x < y => Place(S, x) < Place(S, y)
    BY FiniteParts, WalkFacts, Zenon
  <2>3. \A x \in S : Place(S, x) \in 0 .. (N - 1)
    BY <1>1, <2>1, <2>2
  <2>4. ASSUME NEW x \in S
        PROVE  (Place(S, x) + 1) % N = IF Place(S, x) = N - 1 THEN 0 ELSE Place(S, x) + 1
    <3> DEFINE p == Place(S, x)
    <3>1. p \in 0 .. (N - 1)
      BY <2>3
    <3> HIDE DEF p
    <3>2. (p + 1) % N = IF p = N - 1 THEN 0 ELSE p + 1
      <4>1. p \in Nat /\ N \in Nat \ {0} /\ 1 \in Nat \ {0} /\ p < 1 * N
        BY <1>1, <3>1
      <4>2. /\ (p + 1) % N = IF Remainder(p, N) = N - 1 THEN 0 ELSE Remainder(p, N) + 1
            /\ Remainder(p, N) \in 0 .. (N - 1) /\ Quotient(p, N) \in 0 .. (1 - 1)
            /\ p = Quotient(p, N) * N + Remainder(p, N)
        BY <4>1, Division, NextRemainder
      <4>3. Quotient(p, N) = 0
        BY <4>2
      <4>4. p = Remainder(p, N)
        BY <1>1, <4>2, <4>3
      <4>5. QED
        BY <4>2, <4>4
    <3>3. QED
      BY <3>2 DEF p
  <2>5. id \in S /\ i # N - 1 /\ i \in 0 .. (N - 1) /\ j.server = i + 1
    <3>1. id \in S /\ (i + 1) % N # 0 /\ j.server = (i + 1) % N
      BY <1>2 DEF Dealt, PeerFor
    <3>2. (i + 1) % N = IF i = N - 1 THEN 0 ELSE i + 1
      BY <2>4, <3>1
    <3>3. i \in 0 .. (N - 1)
      BY <2>3, <3>1
    <3> HIDE DEF i, id
    <3>4. QED
      BY <3>1, <3>2, <3>3
  <2>6. {x \in O : x < id} = {x \in S : x < id}
    <3>1. ASSUME NEW x \in S, x < id PROVE x \notin D
      <4>1. Place(S, x) < i /\ Place(S, x) \in 0 .. (N - 1)
        BY <2>2, <2>3, <2>5, <3>1
      <4> DEFINE p == Place(S, x)
      <4> HIDE DEF i
      <4>2. p # N - 1 /\ p \in Nat
        <5> HIDE DEF p
        <5>1. p < i /\ p \in 0 .. (N - 1)
          BY <4>1 DEF p
        <5>2. QED
          BY <1>1, <2>5, <5>1
      <4>3. (p + 1) % N = p + 1 /\ p + 1 # 0
        BY <2>4, <4>2
      <4>4. QED
        BY <4>3 DEF Dealt
    <3>2. QED
      BY <3>1
  <2>7. Place(O, id) = i
    BY <2>6 DEF Place
  <2>8. j.index = i /\ j.server - 1 = i /\ i \in Nat
    <3>1. j.index = i /\ j.server = i + 1 /\ i \in 0 .. (N - 1)
      BY <1>2, <2>5, <2>7
    <3> HIDE DEF i
    <3>2. QED
      BY <1>1, <3>1
  <2> HIDE DEF i
  <2>9. i * Conc = i
    BY <1>6, <2>8
  <2>10. Lane(j.server) = i .. (i + Conc - 1)
    BY <1>3, <2>8, <2>9
  <2>11. QED
    BY <1>1, <2>8, <2>10
<1>7. QED
  BY <1>4, <1>5, <1>6

LEMMA StaticFirstPassPInv ==
  ASSUME NumberingsAgree, PInv, StaticFirstPass
  PROVE  PInv'
<1> USE DEF PInv
<1> DEFINE n == Cardinality(coreQueue)
           local == n \div N
           k == MinOf(Conc, local) + MinOf(RemoteCapacity, n - local)
           S == FirstOf(coreQueue, k)
           J == ConsecutiveJobs(S)
           D == Dealt(S, 0)
           O == S \ D
           L == LocalLaunch(D, {}, Conc)
<1>1. /\ config' = config /\ evalIdCntr' = evalIdCntr
      /\ nowaitEvalIdRef' = Nth(coreQueue, 0) /\ coreQueue' = coreQueue
      /\ runningMap' = J /\ recvRequests' = Posted(J) /\ remote' = Messages(J)
      /\ localQueue' = localQueue /\ pc' = "test"
      /\ replies' = replies /\ delivered' = delivered
      /\ Starts /\ NothingRunning /\ config.static
      /\ \/ raw' = D /\ runs' = Count(S) /\ active' = active
         \/ raw' = {} /\ runs' = Count(IdsOf(J) \cup L) /\ active' = L
  BY DEF StaticFirstPass
<1>2. /\ active = {} /\ runningMap = {} /\ Given = delivered /\ localQueue = {}
      /\ coreQueue \cap delivered = {} /\ coreQueue \in SUBSET Evals /\ coreQueue # {}
  BY <1>1, IdleFacts DEF Starts
<1>3. /\ config \in Configurations /\ Conc \in Nat \ {0} /\ N \in Nat \ {0}
      /\ RemoteCapacity \in Nat /\ RemoteCapacity = (N - 1) * Conc
      /\ \A b \in 0 .. (RemoteCapacity - 1) : b \in Indices
  BY ConfigFacts DEF Typed
<1>4. n \in Nat /\ IsFiniteSet(coreQueue) /\ coreQueue \subseteq Int
  BY <1>2, FiniteParts
<1>5. k \in Nat /\ k <= Conc * N
  <2>1. Conc * N = RemoteCapacity + Conc
    BY <1>3
  <2>2. local \in 0 .. n
    <3> HIDE DEF n
    <3>1. QED
      BY <1>3, <1>4, QuotientBound
  <2> HIDE DEF n, local
  <2>3. k \in Nat /\ k <= RemoteCapacity + Conc
    BY <1>3, <1>4, <2>2 DEF MinOf
  <2>4. QED
    BY <2>1, <2>3
<1> HIDE DEF k, n, local, S
<1>6. S \subseteq coreQueue /\ Cardinality(S) <= k
  BY <1>4, <1>5, FirstOfFacts DEF S
<1>7. S \in SUBSET Evals /\ Cardinality(S) <= Conc * N /\ D \subseteq S
  <2>1. S \in SUBSET Evals /\ D \subseteq S
    BY <1>2, <1>6 DEF Dealt
  <2>2. Cardinality(S) \in Nat
    BY <2>1, FiniteParts
  <2> DEFINE p == Conc * N
             m == Cardinality(S)
  <2>3. p \in Nat /\ k <= p /\ m <= k /\ m \in Nat
    BY <1>3, <1>5, <1>6, <2>2
  <2> HIDE DEF p, m
  <2>4. m <= p
    BY <1>5, <2>3
  <2>5. QED
    BY <2>1, <2>4 DEF m, p
<1>8. /\ IdsOf(J) = O
      /\ \A j \in J : j.index \in 0 .. (Cardinality(O) - 1)
      /\ J \in SUBSET [id : Evals, server : RemoteIds, index : Indices]
      /\ \A j, q \in J : j.id = q.id \/ j.index = q.index => j = q
  BY <1>3, <1>7, ConsecutiveFacts
<1>9. \A j \in J : j.index \in Lane(j.server)
  BY <1>1, <1>3, <1>7, StaticLanes
<1>10. Cardinality(O) <= RemoteCapacity /\ Cardinality(O) \in Nat
  BY <1>3, <1>7, OthersFacts, FiniteParts
<1>11. D \in SUBSET Evals /\ O = S \ D
  BY <1>7
<1>12. L \subseteq D /\ Cardinality(L) <= Conc
  <2> HIDE DEF D
  <2>1. QED
    BY <1>3, <1>11, LaunchFacts
<1> HIDE DEF J, D, O, L
<1>13. J \in SUBSET RunningJobs
  <2>1. \A j \in J : j.index \in 0 .. (RemoteCapacity - 1)
    BY <1>3, <1>8, <1>10
  <2>2. QED
    BY <1>8, <2>1 DEF RunningJobs
<1>14. /\ remote' \in [Peers -> Seq(Evals)] /\ replies' \in SUBSET Evals
       /\ recvRequests' \in [Indices -> 0 .. MaxEvals]
       /\ OnePlace' /\ Requests' /\ InFlight' = IdsOf(J) /\ Described'
  BY <1>1, <1>8, <1>13, FirstSends
<1>15. Conc' = Conc /\ Indices' = Indices /\ RunningJobs' = RunningJobs
  BY <1>1, ConfigKept
<1>16. Loads'
  BY <1>1, <1>3, <1>9, LoadsFromLanesNext
<1>17. Typed'
  <2>1. nowaitEvalIdRef' \in Nat
    <3>1. Nth(coreQueue, 0) \in coreQueue
      BY <1>2, <1>4, LeastFirst
    <3>2. Evals \subseteq Nat
      BY DEF Evals
    <3>3. QED
      BY <1>1, <1>2, <3>1, <3>2
  <2>2. raw' \in SUBSET Evals /\ active' \in SUBSET Evals
    BY <1>1, <1>2, <1>11, <1>12
  <2>3. QED
    BY <1>1, <1>13, <1>14, <1>15, <2>1, <2>2 DEF Typed
<1>18. CASE raw' = D /\ runs' = Count(S) /\ active' = active
  <2>1. Books'
    <3>1. Cardinality(active') <= Conc'
      BY <1>15, <1>18 DEF Books
    <3>2. QED
      BY <1>1, <1>2, <1>6, <1>7, <1>8, <1>11, <1>14, <1>18, <3>1 DEF Books
  <2>2. Given' = Given \cup S /\ S \cap Given = {}
    <3>1. Given' = O \cup delivered \cup (D \cap coreQueue)
      BY <1>1, <1>2, <1>8, <1>14, <1>18 DEF Given
    <3>2. QED
      BY <1>2, <1>6, <1>7, <1>11, <3>1
  <2>3. SimulatedOnce'
    BY <1>18, <2>2, GivesAway
  <2>4. QED
    BY <1>14, <1>16, <1>17, <2>1, <2>3
<1>19. CASE raw' = {} /\ runs' = Count(IdsOf(J) \cup L) /\ active' = L
  <2>1. Books'
    BY <1>1, <1>2, <1>6, <1>7, <1>8, <1>11, <1>12, <1>14, <1>15, <1>19 DEF Books
  <2>2. /\ Given' = Given \cup (IdsOf(J) \cup L) /\ (IdsOf(J) \cup L) \cap Given = {}
    <3>1. Given' = O \cup L \cup delivered
      BY <1>1, <1>8, <1>14, <1>19 DEF Given
    <3>2. QED
      BY <1>2, <1>6, <1>7, <1>8, <1>11, <1>12, <3>1
  <2>3. SimulatedOnce'
    BY <1>19, <2>2, GivesAway
  <2>4. QED
    BY <1>14, <1>16, <1>17, <2>1, <2>3
<1>20. QED
  BY <1>1, <1>18, <1>19

(* The indices of the dynamic first pass, stratified by peer.              *)
LEMMA StratifiedFacts ==
  ASSUME config \in Configurations, NEW i \in Nat, i < RemoteCapacity
  PROVE  /\ (i % (N - 1)) + 1 \in RemoteIds
         /\ StratifiedIndex(i) \in Lane((i % (N - 1)) + 1)
         /\ i \div (N - 1) \in Nat
         /\ i = (i \div (N - 1)) * (N - 1) + (i % (N - 1))
         /\ StratifiedIndex(i) = (i % (N - 1)) * Conc + (i \div (N - 1))
         /\ (i % (N - 1)) * Conc \in Nat
<1> DEFINE m == N - 1
           q == i \div m
           r == i % m
           a == r * Conc
<1>1. /\ N \in Nat /\ N >= 2 /\ Conc \in Nat \ {0}
      /\ RemoteIds = 1 .. (N - 1) /\ RemoteCapacity = (N - 1) * Conc
  BY ConfigFacts
<1>2. m \in Nat \ {0} /\ RemoteIds = 1 .. m
  BY <1>1
<1>3. i < Conc * m
  <2>1. RemoteCapacity = Conc * m
    BY <1>1
  <2>2. QED
    BY <2>1
<1>4. StratifiedIndex(i) = a + q
  BY DEF StratifiedIndex
<1> HIDE DEF m
<1>5. r \in 0 .. (m - 1) /\ q \in 0 .. (Conc - 1) /\ i = q * m + r
  BY <1>1, <1>2, <1>3, Division DEF Quotient, Remainder
<1> HIDE DEF q, r
<1>6. r + 1 \in RemoteIds
  BY <1>2, <1>5
<1>7. a \in Nat
  BY <1>1, <1>5
<1>8. Lane(r + 1) = a .. (a + Conc - 1)
  <2>1. Lane(r + 1) = (((r + 1) - 1) * Conc) .. (((r + 1) - 1) * Conc + Conc - 1)
    BY <1>6, LaneFacts
  <2>2. (r + 1) - 1 = r
    BY <1>5
  <2>3. QED
    BY <2>1, <2>2
<1>9. a = r * Conc
  OBVIOUS
<1> HIDE DEF a
<1>10. a + q \in Lane(r + 1)
  BY <1>1, <1>5, <1>7, <1>8
<1>11. q \in Nat
  BY <1>5
<1>12. QED
  BY <1>4, <1>5, <1>6, <1>7, <1>9, <1>10, <1>11 DEF q, r, m

(* They are different for different jobs.                                  *)
LEMMA StratifiedApart ==
  ASSUME config \in Configurations, NEW i \in Nat, i < RemoteCapacity,
         NEW j \in Nat, j < RemoteCapacity, StratifiedIndex(i) = StratifiedIndex(j)
  PROVE  i = j
<1> DEFINE m == N - 1
           q == i \div m
           r == i % m
           u == j \div m
           v == j % m
           a == r * Conc
           b == v * Conc
<1>1. /\ r + 1 \in RemoteIds /\ StratifiedIndex(i) \in Lane(r + 1) /\ q \in Nat
      /\ i = q * m + r /\ StratifiedIndex(i) = a + q /\ a \in Nat
  BY StratifiedFacts
<1>2. /\ v + 1 \in RemoteIds /\ StratifiedIndex(j) \in Lane(v + 1) /\ u \in Nat
      /\ j = u * m + v /\ StratifiedIndex(j) = b + u /\ b \in Nat
  BY StratifiedFacts
<1>3. r \in Int /\ v \in Int
  <2>1. m \in Nat \ {0}
    BY ConfigFacts
  <2> HIDE DEF m
  <2>2. QED
    BY <2>1
<1> HIDE DEF q, r, u, v, m
<1>4. r + 1 = v + 1
  BY <1>1, <1>2, LanesApart
<1>5. r = v
  BY <1>3, <1>4
<1>6. a = b
  BY <1>5
<1> HIDE DEF a, b
<1>7. q = u
  BY <1>1, <1>2, <1>6
<1>8. QED
  BY <1>1, <1>2, <1>5, <1>7

LEMMA DynamicFirstPassPInv ==
  ASSUME PInv, DynamicFirstPass
  PROVE  PInv'
<1> USE DEF PInv
<1> DEFINE n == Cardinality(coreQueue)
           share == n \div N
           l == MinOf(Conc, share)
           k == MinOf(RemoteCapacity, n - share)
           L == FirstOf(coreQueue, l)
           S == FirstOf(coreQueue \ L, k)
           job(id) == Job(id, (Place(S, id) % (N - 1)) + 1, StratifiedIndex(Place(S, id)))
           J == {job(id) : id \in S}
<1>1. /\ config' = config /\ evalIdCntr' = evalIdCntr
      /\ nowaitEvalIdRef' = nowaitEvalIdRef /\ coreQueue' = coreQueue
      /\ raw' = {} /\ active' = L /\ runningMap' = J
      /\ recvRequests' = Posted(J) /\ remote' = Messages(J)
      /\ localQueue' = localQueue /\ pc' = "test"
      /\ replies' = replies /\ delivered' = delivered /\ runs' = Count(L \cup S)
      /\ Starts /\ NothingRunning
  BY DEF DynamicFirstPass, ownVars
<1>2. /\ active = {} /\ runningMap = {} /\ Given = delivered /\ localQueue = {}
      /\ coreQueue \cap delivered = {} /\ coreQueue \in SUBSET Evals
  BY <1>1, IdleFacts
<1>3. /\ config \in Configurations /\ Conc \in Nat \ {0} /\ N \in Nat \ {0}
      /\ RemoteCapacity \in Nat
      /\ \A b \in 0 .. (RemoteCapacity - 1) : b \in Indices
  BY ConfigFacts DEF Typed
<1>4. n \in Nat /\ IsFiniteSet(coreQueue) /\ coreQueue \subseteq Int
  BY <1>2, FiniteParts
<1>5. l \in Nat /\ k \in Nat /\ l <= Conc /\ k <= RemoteCapacity
  <2>1. share \in 0 .. n
    <3> HIDE DEF n
    <3>1. QED
      BY <1>3, <1>4, QuotientBound
  <2> HIDE DEF n, share
  <2>2. QED
    BY <1>3, <1>4, <2>1 DEF MinOf
<1> HIDE DEF n, share, l, k
<1>6. L \subseteq coreQueue /\ Cardinality(L) <= l
  BY <1>4, <1>5, FirstOfFacts
<1> HIDE DEF L
<1>7. IsFiniteSet(coreQueue \ L) /\ coreQueue \ L \subseteq Int
  BY <1>4, FS_Subset
<1>8. S \subseteq coreQueue \ L /\ Cardinality(S) <= k
  BY <1>5, <1>7, FirstOfFacts
<1> HIDE DEF S
<1>9. S \in SUBSET Evals /\ L \in SUBSET Evals
  BY <1>2, <1>6, <1>8
<1>10. Cardinality(L) <= Conc /\ Cardinality(S) <= RemoteCapacity /\ Cardinality(S) \in Nat
  BY <1>3, <1>5, <1>6, <1>8, <1>9, FiniteParts
<1>11. /\ \A id \in S : Place(S, id) \in 0 .. (Cardinality(S) - 1)
       /\ \A id, x \in S : Place(S, id) = Place(S, x) => id = x
  BY <1>9, FiniteParts, WalkFacts, Zenon
<1>12. \A id \in S : Place(S, id) \in Nat /\ Place(S, id) < RemoteCapacity
  BY <1>3, <1>10, <1>11
<1>13. ASSUME NEW id \in S
       PROVE  /\ job(id).id = id /\ job(id).server \in RemoteIds
              /\ job(id).index = StratifiedIndex(Place(S, id))
              /\ job(id).index \in Lane(job(id).server)
              /\ job(id).index \in 0 .. (RemoteCapacity - 1)
              /\ job(id) = [id |-> id, server |-> job(id).server, index |-> job(id).index]
  <2> DEFINE i == Place(S, id)
             s == (i % (N - 1)) + 1
  <2>1. i \in Nat /\ i < RemoteCapacity
    BY <1>12
  <2>2. job(id) = [id |-> id, server |-> s, index |-> StratifiedIndex(i)]
    BY DEF Job
  <2> HIDE DEF i
  <2>3. s \in RemoteIds /\ StratifiedIndex(i) \in Lane(s)
    BY <1>3, <2>1, StratifiedFacts
  <2> HIDE DEF s, job
  <2>4. StratifiedIndex(i) \in 0 .. (RemoteCapacity - 1)
    BY <1>3, <2>3, LaneFacts
  <2>5. QED
    BY <2>2, <2>3, <2>4 DEF i
<1> HIDE DEF job
<1>14. ASSUME NEW j \in J
       PROVE  /\ j.id \in S /\ j.server \in RemoteIds /\ j = job(j.id)
              /\ j.index = StratifiedIndex(Place(S, j.id))
              /\ j.index \in Lane(j.server) /\ j.index \in 0 .. (RemoteCapacity - 1)
              /\ j = [id |-> j.id, server |-> j.server, index |-> j.index]
  <2>1. PICK id \in S : j = job(id)
    OBVIOUS
  <2>2. QED
    BY <1>13, <2>1
<1>15. IdsOf(J) = S
  <2>1. \A id \in S : job(id) \in J /\ job(id).id = id
    BY <1>13
  <2>2. QED
    BY <1>14, <2>1 DEF IdsOf
<1> HIDE DEF J
<1>16. \A j, q \in J : j.id = q.id \/ j.index = q.index => j = q
  <2>1. ASSUME NEW j \in J, NEW q \in J, j.index = q.index PROVE j.id = q.id
    <3>1. StratifiedIndex(Place(S, j.id)) = StratifiedIndex(Place(S, q.id))
      BY <1>14, <2>1
    <3>2. Place(S, j.id) = Place(S, q.id)
      BY <1>3, <1>12, <1>14, <3>1, StratifiedApart
    <3>3. QED
      BY <1>11, <1>14, <3>2
  <2>2. \A j, q \in J : j.id = q.id => j = q
    BY <1>14
  <2>3. QED
    BY <2>1, <2>2
<1>17. /\ J \in SUBSET RunningJobs
       /\ J \in SUBSET [id : Evals, server : RemoteIds, index : Indices]
  <2>1. ASSUME NEW j \in J
        PROVE  /\ j \in RunningJobs
               /\ j \in [id : Evals, server : RemoteIds, index : Indices]
    <3>1. /\ j.id \in Evals /\ j.server \in RemoteIds /\ j.index \in Indices
          /\ j.index \in 0 .. (RemoteCapacity - 1)
      BY <1>3, <1>9, <1>14
    <3>2. j = [id |-> j.id, server |-> j.server, index |-> j.index]
      BY <1>14
    <3>3. QED
      BY <3>1, <3>2 DEF RunningJobs
  <2>2. QED
    BY <2>1
<1>18. /\ remote' \in [Peers -> Seq(Evals)] /\ replies' \in SUBSET Evals
       /\ recvRequests' \in [Indices -> 0 .. MaxEvals]
       /\ OnePlace' /\ Requests' /\ InFlight' = IdsOf(J) /\ Described'
  BY <1>1, <1>16, <1>17, FirstSends
<1>19. Conc' = Conc /\ Indices' = Indices /\ RunningJobs' = RunningJobs
  BY <1>1, ConfigKept
<1>20. Loads'
  BY <1>1, <1>3, <1>14, LoadsFromLanesNext
<1>21. Typed'
  BY <1>1, <1>9, <1>17, <1>18, <1>19 DEF Typed
<1>22. Books'
  BY <1>1, <1>2, <1>6, <1>8, <1>10, <1>15, <1>18, <1>19 DEF Books
<1>23. Given' = Given \cup (L \cup S) /\ (L \cup S) \cap Given = {}
  <2>1. Given' = S \cup L \cup delivered
    BY <1>1, <1>15, <1>18 DEF Given
  <2>2. QED
    BY <1>2, <1>6, <1>8, <2>1
<1>24. SimulatedOnce'
  BY <1>1, <1>23, GivesAway
<1>25. QED
  BY <1>18, <1>20, <1>21, <1>22, <1>24

-----------------------------------------------------------------------------
(* Every step keeps the invariant.                                         *)
LEMMA NextPInv ==
  ASSUME NumberingsAgree, PInv, [Next]_vars
  PROVE  PInv'
<1>1. CASE UNCHANGED vars
  BY <1>1, StutterPInv
<1>2. CASE MapAsynch
  BY <1>2, MapAsynchPInv
<1>3. CASE StaticStart
  BY <1>3, StaticStartPInv
<1>4. ASSUME NEW id \in Evals, StaticLocal(id) PROVE PInv'
  BY <1>4, StaticLocalPInv
<1>5. CASE StaticWaitAll
  BY <1>5, StaticWaitAllPInv
<1>6. CASE DynamicStart
  BY <1>6, DynamicStartPInv
<1>7. ASSUME NEW R \in SUBSET Completed, NEW C \in SUBSET active, DynamicTurn(R, C)
      PROVE  PInv'
  BY <1>7, DynamicTurnPInv
<1>8. CASE DynamicReturn
  BY <1>8, DynamicReturnPInv
<1>9. CASE StaticFirstPass
  BY <1>9, StaticFirstPassPInv
<1>10. CASE DynamicFirstPass
  BY <1>10, DynamicFirstPassPInv
<1>11. CASE NowaitFill
  BY <1>11, NowaitFillPInv
<1>12. CASE FillSkip
  BY <1>12, FillSkipPInv
<1>13. CASE FillAssign
  BY <1>13, FillAssignPInv
<1>14. CASE FillDone
  BY <1>14, FillDonePInv
<1>15. ASSUME NEW R \in SUBSET Completed, NEW C \in SUBSET active, NowaitReturn(R, C)
       PROVE  PInv'
  BY <1>15, NowaitReturnPInv
<1>16. ASSUME NEW s \in 1 .. (MaxServers - 1), NEW k \in Evals, PeerReturns(s, k)
       PROVE  PInv'
  <2>1. s \in Peers
    BY DEF Peers
  <2>2. QED
    BY <1>16, <2>1, PeerReturnsPInv
<1>17. CASE Terminated
  BY <1>17, StutterPInv DEF Terminated
<1>18. QED
  BY <1>1, <1>2, <1>3, <1>4, <1>5, <1>6, <1>7, <1>8, <1>9, <1>10, <1>11,
     <1>12, <1>13, <1>14, <1>15, <1>16, <1>17 DEF Next

(* The inductive invariant holds in every state of a run.                  *)
LEMMA AlwaysPInv ==
  ASSUME NumberingsAgree
  PROVE  Spec => []PInv
BY InitPInv, NextPInv, PTL DEF Spec

-----------------------------------------------------------------------------
(* With any number of evaluations, of peers and of jobs per peer: as long  *)
(* as the static schedulers either send one job at a time to a peer or     *)
(* have one other peer, each job in flight holds a buffer index of its own *)
(* until its response is received, through the first pass, the gap filling *)
(* and the backfill of all four schedulers, and msgPassRunningMap is exact *)
(* and within the arrays.                                                  *)
THEOREM PeerBuffersExclusive ==
  ASSUME NumberingsAgree
  PROVE  Spec => []BuffersExclusive
<1>1. PInv => BuffersExclusive
  <2> SUFFICES ASSUME PInv PROVE BuffersExclusive
    OBVIOUS
  <2> USE DEF PInv
  <2>1. ASSUME NEW x \in InFlight
        PROVE  Cardinality({b \in Indices : recvRequests[b] = x}) = 1
    <3>1. x # NoTag
      BY FlightFacts, FiniteParts
    <3>2. PICK b \in Indices : recvRequests[b] = x
      BY DEF Requests
    <3>3. {c \in Indices : recvRequests[c] = x} = {b}
      BY <3>1, <3>2 DEF Requests
    <3>4. QED
      BY <3>3, FS_Singleton
  <2>2. pc # "local" => /\ IdsOf(runningMap) = InFlight
                        /\ \A r \in runningMap : recvRequests[r.index] = r.id
                        /\ AvailableIndex
    BY DEF Described
  <2>3. \A r \in runningMap : r.index < RemoteCapacity
    <3>1. RemoteCapacity \in Nat /\ runningMap \in SUBSET RunningJobs
      BY ConfigFacts DEF Typed
    <3>2. QED
      BY <3>1 DEF RunningJobs
  <2>4. AvailableIndex
    BY <2>2 DEF AvailableIndex, Books
  <2>5. QED
    BY <2>1, <2>2, <2>3, <2>4 DEF BuffersExclusive
<1>2. QED
  BY <1>1, AlwaysPInv, PTL

(* Under the same condition no peer, the first one included, has more jobs *)
(* than it may run at once, except where the blocking static schedule      *)
(* sends all of them in advance.                                           *)
THEOREM PeersNotOverloaded ==
  ASSUME NumberingsAgree
  PROVE  Spec => []NotOverloaded
<1>1. PInv => NotOverloaded
  <2> SUFFICES ASSUME PInv PROVE NotOverloaded
    OBVIOUS
  <2> USE DEF PInv
  <2>1. ASSUME pc # "local", NEW s \in RemoteIds PROVE Len(remote[s]) <= Conc
    <3> DEFINE A == IndicesOf(s)
               P == {recvRequests[b] : b \in A}
               f == [b \in A |-> recvRequests[b]]
    <3>1. Described /\ Load(s) <= Conc /\ Conc \in Nat /\ s \in Peers
      BY <2>1, ConfigFacts DEF Loads, Typed
    <3>2. IsFiniteSet(A) /\ Cardinality(A) = Load(s) /\ Load(s) \in Nat
      BY LoadType DEF Load
    <3>3. f \in Surjection(A, P)
      BY DEF Surjection
    <3>4. SentTo(s) \subseteq P
      <4>1. ASSUME NEW x \in SentTo(s) PROVE x \in P
        <5>1. x \in IdsOf(runningMap)
          BY <3>1, FlightFacts DEF Described
        <5>2. PICK r \in runningMap : r.id = x
          BY <5>1 DEF IdsOf
        <5>3. r.server = s /\ recvRequests[r.index] = x
          BY <3>1, <5>2 DEF Described
        <5>4. r.index \in A
          BY <5>3 DEF IndicesOf
        <5>5. QED
          BY <5>3, <5>4
      <4>2. QED
        BY <4>1
    <3> HIDE DEF A, P, f
    <3>5. IsFiniteSet(P) /\ Cardinality(P) <= Cardinality(A) /\ Cardinality(P) \in Nat
      BY <3>2, <3>3, FS_Surjection, FS_CardinalityType
    <3>6. remote[s] \in Seq(Evals) /\ NoRepeats(remote[s]) /\ Elems(remote[s]) \subseteq P
      BY <3>1, <3>4, FlightFacts DEF Typed, OnePlace
    <3>7. Len(remote[s]) <= Cardinality(P) /\ Len(remote[s]) \in Nat
      BY <3>5, <3>6, LengthFacts
    <3>8. QED
      BY <3>1, <3>2, <3>5, <3>7
  <2>2. QED
    BY <2>1 DEF NotOverloaded, Books
<1>2. QED
  BY <1>1, AlwaysPInv, PTL

(* And each job is given to one peer, once: the first pass, the two        *)
(* backfills that share the queue and the iterator, and the gap filling    *)
(* never take a job that one of them has taken before.                     *)
THEOREM PeerJobsOnce ==
  ASSUME NumberingsAgree
  PROVE  Spec => []SimulatedOnce
<1>1. PInv => SimulatedOnce
  BY DEF PInv
<1>2. QED
  BY <1>1, AlwaysPInv, PTL

-----------------------------------------------------------------------------
(* The schedulers implement EvalScheduler.                                 *)

InHand == InFlight \cup active
Waiting == coreQueue \ (InFlight \cup active \cup raw)
Returned == delivered \cup (raw \cap coreQueue)

(* An evaluation that was mapped waits, is in hand or has returned.        *)
Mapped ==
  /\ Waiting \cup InHand \cup Returned = coreQueue \cup delivered
  /\ Waiting \cap InHand = {}
  /\ Waiting \cap Returned = {}
  /\ InHand \cap Returned = {}

LEMMA AlwaysMapped == PInv => Mapped
<1> SUFFICES ASSUME PInv PROVE Mapped
  OBVIOUS
<1>1. /\ coreQueue \cap delivered = {} /\ InFlight \cup active \subseteq coreQueue
      /\ raw \cap (InFlight \cup active) = {}
  BY DEF PInv, Books
<1>2. QED
  BY <1>1 DEF Mapped, Waiting, InHand, Returned

(* A step that keeps the evaluations, forgets no response, and leaves what *)
(* was in hand there or returns it, is a Schedule step.                    *)
Schedules ==
  /\ coreQueue' \cup delivered' = coreQueue \cup delivered
  /\ Returned \subseteq Returned'
  /\ InHand \subseteq InHand' \cup Returned'

LEMMA SchedulesStep ==
  ASSUME Mapped, Mapped', Schedules
  PROVE  [Contract!SchedNext]_(Contract!schedVars)
<1> DEFINE All == coreQueue \cup delivered
           W == Waiting
           I == InHand
           D == Returned
<1>1. /\ W \cup I \cup D = All /\ W \cap I = {} /\ W \cap D = {} /\ I \cap D = {}
      /\ W' \cup I' \cup D' = All /\ W' \cap I' = {} /\ W' \cap D' = {} /\ I' \cap D' = {}
      /\ D \subseteq D' /\ I \subseteq I' \cup D'
  BY DEF Mapped, Schedules
<1> HIDE DEF All, W, I, D
<1>2. W' \subseteq W
  BY <1>1
<1>3. D' \subseteq D \cup I \cup (W \ W')
  BY <1>1
<1>4. I' = (I \cup (W \ W')) \ D'
  BY <1>1
<1>5. ~(0 > 0)
  OBVIOUS
<1>6. Contract!Schedule
  BY <1>1, <1>2, <1>3, <1>4, <1>5
     DEF Contract!Schedule, W, I, D, Waiting, InHand, Returned
<1>7. QED
  BY <1>6 DEF Contract!SchedNext

(* What PInv says of the jobs in hand at each place of the first peer.     *)
Hands ==
  /\ InFlight \cup active \subseteq coreQueue
  /\ raw \cap (InFlight \cup active) = {}
  /\ pc # "local" => InFlight = IdsOf(runningMap)
  /\ pc = "idle" => raw \subseteq delivered
  /\ pc \in {"loop", "test"} => raw \subseteq coreQueue
  /\ pc = "fill" => raw = {}
  /\ pc = "local" => /\ active = {} /\ InFlight = coreQueue \ localQueue
                     /\ raw \subseteq coreQueue /\ localQueue \subseteq coreQueue

LEMMA PInvHands == PInv => Hands
BY DEF PInv, Books, Described, Hands

(* A synchronization starts when nothing is in hand.                       *)
LEMMA StartSchedules ==
  ASSUME Hands, pc = "idle", NothingRunning, coreQueue' = coreQueue,
         delivered' = delivered
  PROVE  Schedules
<1>1. InHand = {} /\ raw \subseteq delivered
  BY DEF Hands, NothingRunning, InHand, IdsOf
<1>2. QED
  BY <1>1 DEF Schedules, Returned

(* A step that takes nothing back.                                         *)
LEMMA KeepSchedules ==
  ASSUME Hands, Hands', pc # "local", pc' # "local",
         raw \subseteq raw' \cup delivered,
         coreQueue' = coreQueue, delivered' = delivered,
         runningMap \subseteq runningMap', active \subseteq active'
  PROVE  Schedules
<1>1. InFlight = IdsOf(runningMap) /\ InFlight' = IdsOf(runningMap')
  BY DEF Hands
<1>2. IdsOf(runningMap) \subseteq IdsOf(runningMap')
  BY DEF IdsOf
<1>3. QED
  BY <1>1, <1>2 DEF Schedules, Returned, InHand

(* A step that takes back R and C.                                         *)
LEMMA BackSchedules ==
  ASSUME Hands, Hands', pc \in {"loop", "test"}, pc' # "local",
         NEW R \in SUBSET runningMap, NEW C \in SUBSET active,
         runningMap \ R \subseteq runningMap', active \ C \subseteq active',
         raw' = raw \cup IdsOf(R) \cup C,
         \/ coreQueue' = coreQueue /\ delivered' = delivered
         \/ /\ coreQueue' = coreQueue \ raw'
            /\ delivered' = delivered \cup raw'
  PROVE  Schedules
<1>1. /\ InFlight = IdsOf(runningMap) /\ InFlight' = IdsOf(runningMap')
      /\ raw \subseteq coreQueue /\ InFlight \cup active \subseteq coreQueue
  BY DEF Hands
<1>2. /\ IdsOf(runningMap) \subseteq IdsOf(runningMap') \cup IdsOf(R)
      /\ IdsOf(R) \subseteq IdsOf(runningMap)
  BY DEF IdsOf
<1> DEFINE back == raw \cup IdsOf(R) \cup C
<1>3. raw' = back /\ back \subseteq coreQueue /\ raw \subseteq back
  BY <1>1, <1>2
<1>4. InHand \subseteq InHand' \cup back
  BY <1>1, <1>2 DEF InHand
<1> HIDE DEF back
<1>5. back \subseteq Returned'
  BY <1>3 DEF Returned
<1>6. Returned \subseteq Returned'
  BY <1>3 DEF Returned
<1>7. coreQueue' \cup delivered' = coreQueue \cup delivered
  BY <1>3
<1>8. QED
  BY <1>4, <1>5, <1>6, <1>7 DEF Schedules

(* Every step of the peers is a step of the contract.                      *)
LEMMA PeerNextRefines ==
  ASSUME PInv, PInv', [Next]_vars
  PROVE  [Contract!SchedNext]_(Contract!schedVars)
<1>0. Hands /\ Hands' /\ Mapped /\ Mapped'
  <2>1. Hands /\ Mapped
    BY PInvHands, AlwaysMapped
  <2>2. Hands' /\ Mapped'
    BY PInvHands, AlwaysMapped, PTL
  <2>3. QED
    BY <2>1, <2>2
<1>1. ASSUME Schedules PROVE [Contract!SchedNext]_(Contract!schedVars)
  BY <1>0, <1>1, SchedulesStep
<1>2. CASE UNCHANGED vars
  <2>1. UNCHANGED <<config, coreQueue, raw, active, remote, replies, delivered>>
    BY <1>2 DEF vars, ownVars
  <2>2. InFlight' = InFlight
    BY <2>1 DEF InFlight, SentTo, RemoteIds, N
  <2>3. QED
    BY <1>1, <2>1, <2>2 DEF Schedules, Returned, InHand
<1>3. CASE MapAsynch
  <2> DEFINE e == evalIdCntr + 1
  <2>1. /\ evalIdCntr \in 0 .. MaxEvals /\ coreQueue \in SUBSET (1 .. evalIdCntr)
        /\ delivered \in SUBSET (1 .. evalIdCntr)
    BY DEF PInv, Typed
  <2>2. e \in Evals /\ e \notin 1 .. evalIdCntr
    BY <1>3, <2>1, ConstantsAssumption DEF MapAsynch, Evals
  <2>3. /\ coreQueue' = coreQueue \cup {e} /\ pc = "idle"
        /\ UNCHANGED <<config, raw, active, remote, replies, delivered>>
    BY <1>3 DEF MapAsynch
  <2>4. e \notin coreQueue \cup delivered
    BY <2>1, <2>2
  <2>5. InFlight' = InFlight
    BY <2>3 DEF InFlight, SentTo, RemoteIds, N
  <2> HIDE DEF e
  <2>6. e \notin Waiting \cup InHand \cup Returned
    BY <1>0, <2>4 DEF Mapped
  <2>7. raw \subseteq delivered
    BY <1>0, <2>3 DEF Hands
  <2>8. /\ Waiting' = Waiting \cup {e} /\ Returned' = Returned
        /\ InHand' = InHand
    BY <2>3, <2>4, <2>5, <2>6, <2>7 DEF Waiting, Returned, InHand
  <2>9. Contract!Queue(e)
    BY <2>6, <2>8 DEF Contract!Queue, Waiting, Returned, InHand
  <2>10. QED
    BY <2>2, <2>9 DEF Contract!SchedNext
<1>4. CASE StaticStart
  BY <1>0, <1>1, <1>4, StartSchedules DEF StaticStart, Starts
<1>5. ASSUME NEW id \in Evals, StaticLocal(id)
      PROVE  [Contract!SchedNext]_(Contract!schedVars)
  <2>1. UNCHANGED <<config, coreQueue, active, remote, replies, delivered>>
        /\ raw \subseteq raw'
    BY <1>5 DEF StaticLocal, ownVars
  <2>2. InFlight' = InFlight
    BY <2>1 DEF InFlight, SentTo, RemoteIds, N
  <2>3. QED
    BY <1>1, <2>1, <2>2 DEF Schedules, Returned, InHand
<1>6. CASE StaticWaitAll
  <2>1. /\ pc = "local" /\ coreQueue' = {}
        /\ delivered' = delivered \cup coreQueue
    BY <1>6 DEF StaticWaitAll
  <2>2. InHand \subseteq coreQueue
    BY <1>0 DEF Hands, InHand
  <2>3. QED
    BY <1>1, <2>1, <2>2 DEF Schedules, Returned
<1>7. CASE DynamicStart
  BY <1>0, <1>1, <1>7, StartSchedules DEF DynamicStart, Starts
<1>8. ASSUME NEW R \in SUBSET Completed, NEW C \in SUBSET active, DynamicTurn(R, C)
      PROVE  [Contract!SchedNext]_(Contract!schedVars)
  <2>1. /\ pc = "loop" /\ pc' = "loop" /\ R \in SUBSET runningMap
        /\ runningMap \ R \subseteq runningMap' /\ active \ C \subseteq active'
        /\ raw' = raw \cup IdsOf(R) \cup C
        /\ coreQueue' = coreQueue /\ delivered' = delivered
    BY <1>8 DEF DynamicTurn, TestAndBackfill, Completed
  <2>2. QED
    BY <1>0, <1>1, <2>1, BackSchedules
<1>9. CASE DynamicReturn
  <2>1. /\ pc = "loop" /\ Cardinality(raw) >= Cardinality(coreQueue)
        /\ coreQueue' = {} /\ delivered' = delivered \cup raw
    BY <1>9 DEF DynamicReturn
  <2>2. raw \subseteq coreQueue /\ InHand \subseteq coreQueue
    BY <1>0, <2>1 DEF Hands, InHand
  <2>3. /\ IsFiniteSet(coreQueue) /\ Cardinality(coreQueue) \in Nat
        /\ Cardinality(raw) \in Nat
    <3>1. coreQueue \in SUBSET Evals /\ raw \in SUBSET Evals
      BY ConstantsAssumption DEF PInv, Typed, Evals
    <3>2. QED
      BY <3>1, FiniteParts
  <2>4. /\ Cardinality(raw) <= Cardinality(coreQueue)
        /\ Cardinality(coreQueue) = Cardinality(raw) => coreQueue = raw
    BY <2>2, <2>3, FS_Subset
  <2>5. raw = coreQueue
    BY <2>1, <2>3, <2>4
  <2>6. QED
    BY <1>1, <2>1, <2>2, <2>5 DEF Schedules, Returned
<1>10. CASE StaticFirstPass
  BY <1>0, <1>1, <1>10, StartSchedules DEF StaticFirstPass, Starts
<1>11. CASE DynamicFirstPass
  BY <1>0, <1>1, <1>11, StartSchedules DEF DynamicFirstPass, Starts
<1>12. CASE NowaitFill
  <2>1. /\ pc = "idle" /\ pc' # "local" /\ coreQueue' = coreQueue
        /\ delivered' = delivered /\ runningMap' = runningMap
        /\ active' = active
    BY <1>12 DEF NowaitFill, Starts
  <2>2. raw \subseteq delivered
    BY <1>0, <2>1 DEF Hands
  <2>3. QED
    BY <1>0, <1>1, <2>1, <2>2, KeepSchedules
<1>13. CASE FillSkip
  <2>1. /\ pc = "fill" /\ pc' = "fill" /\ coreQueue' = coreQueue
        /\ delivered' = delivered /\ runningMap' = runningMap
        /\ active' = active /\ raw' = raw
    BY <1>13 DEF FillSkip, Passes
  <2>2. QED
    BY <1>0, <1>1, <2>1, KeepSchedules
<1>14. CASE FillAssign
  <2>1. /\ pc = "fill" /\ pc' # "local" /\ coreQueue' = coreQueue
        /\ delivered' = delivered /\ runningMap \subseteq runningMap'
        /\ active' = active /\ raw' = raw
    BY <1>14 DEF FillAssign, Passes
  <2>2. QED
    BY <1>0, <1>1, <2>1, KeepSchedules
<1>15. CASE FillDone
  <2>1. /\ pc = "fill" /\ pc' = "test" /\ coreQueue' = coreQueue
        /\ delivered' = delivered /\ runningMap' = runningMap
        /\ active \subseteq active'
    BY <1>15 DEF FillDone
  <2>2. raw = {}
    BY <1>0, <2>1 DEF Hands
  <2>3. QED
    BY <1>0, <1>1, <2>1, <2>2, KeepSchedules
<1>16. ASSUME NEW R \in SUBSET Completed, NEW C \in SUBSET active, NowaitReturn(R, C)
       PROVE  [Contract!SchedNext]_(Contract!schedVars)
  <2>1. /\ pc = "test" /\ pc' = "idle" /\ R \in SUBSET runningMap
        /\ runningMap \ R \subseteq runningMap' /\ active \ C \subseteq active'
        /\ raw' = raw \cup IdsOf(R) \cup C
        /\ coreQueue' = coreQueue \ raw' /\ delivered' = delivered \cup raw'
    BY <1>16 DEF NowaitReturn, TestAndBackfill, Completed
  <2>2. QED
    BY <1>0, <1>1, <2>1, BackSchedules
<1>17. ASSUME NEW s \in 1 .. (MaxServers - 1), NEW k \in Evals, PeerReturns(s, k)
       PROVE  [Contract!SchedNext]_(Contract!schedVars)
  <2>1. UNCHANGED <<coreQueue, raw, active, runningMap, localQueue, pc, delivered>>
    BY <1>17 DEF PeerReturns
  <2>2. InFlight' = InFlight
    BY <1>0, <2>1 DEF Hands, IdsOf
  <2>3. QED
    BY <1>1, <2>1, <2>2 DEF Schedules, Returned, InHand
<1>18. CASE Terminated
  BY <1>2, <1>18 DEF Terminated
<1>19. QED
  BY <1>2, <1>3, <1>4, <1>5, <1>6, <1>7, <1>8, <1>9, <1>10, <1>11, <1>12,
     <1>13, <1>14, <1>15, <1>16, <1>17, <1>18 DEF Next

(* Under the same condition the four peer schedulers implement the         *)
(* contract of EvalScheduler: an evaluation that was queued is started     *)
(* once, by one peer, and returned once, nothing is dropped between the    *)
(* queue, the peers and rawResponseMap, and nothing comes back that was    *)
(* not started.                                                            *)
THEOREM PeerRefinement ==
  ASSUME NumberingsAgree
  PROVE  Spec => ImplementsContract
<1>1. Init => Contract!SchedInit
  <2> SUFFICES ASSUME Init PROVE Contract!SchedInit
    OBVIOUS
  <2>1. /\ coreQueue = {} /\ raw = {} /\ active = {} /\ delivered = {}
        /\ pc = "idle" /\ runningMap = {}
    BY DEF Init
  <2>2. PInv
    BY InitPInv
  <2>3. InFlight = {}
    BY <2>1, <2>2 DEF PInv, Books
  <2>4. QED
    BY <2>1, <2>3 DEF Contract!SchedInit
<1>2. PInv /\ PInv' /\ [Next]_vars => [Contract!SchedNext]_(Contract!schedVars)
  BY PeerNextRefines
<1>3. QED
  BY <1>1, <1>2, AlwaysPInv, PTL DEF Spec, ImplementsContract, Contract!SchedSpec
=============================================================================
