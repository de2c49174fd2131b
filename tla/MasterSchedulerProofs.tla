------------------------ MODULE MasterSchedulerProofs ------------------------
(***************************************************************************)
(* Proofs about MasterScheduler for every number of evaluations, servers   *)
(* and jobs per server: the buffers and indices of the master, the load of *)
(* the servers, that no job is simulated twice, that the servers stop      *)
(* cleanly, and that the scheduler keeps the contract of EvalScheduler.    *)
(***************************************************************************)
EXTENDS MasterScheduler, IdQueueProofs, FiniteSetTheorems, SequenceTheorems,
        WellFoundedInduction, TLAPS

-----------------------------------------------------------------------------
(* The inductive invariant, one part for each question.                    *)

(* The blocking scheduler is at work.                                      *)
Blocking == pc \in {"waitsome", "waitall"}

(* The jobs that a server has been sent and has not answered.              *)
OnServer(s) == SentTo(s) \cup active[s]

(* The indices whose jobs are on server s: dealt in turn by the blocking   *)
(* scheduler, an allocation of its own in the nowait form.                 *)
Lane(s) == IF Blocking THEN {b \in Indices : ServerOf(b) = s} ELSE Allocation(s)

(* The tag 0 is sent last, and a server that has read it has an empty      *)
(* inbox.                                                                  *)
Tags ==
  /\ \A s \in ServerIds : \A k \in DOMAIN inbox[s] :
       inbox[s][k] = NoTag => pc = "stopped" /\ k = Len(inbox[s])
  /\ \A s \in stopped : inbox[s] = <<>> /\ pc = "stopped"

(* A job in flight is in one place: a message, a simulation or a reply.    *)
OnePlace ==
  /\ \A s \in ServerIds : \A j, k \in DOMAIN inbox[s] :
       inbox[s][j] = inbox[s][k] /\ inbox[s][j] # NoTag => j = k
  /\ \A s \in ServerIds :
       SentTo(s) \cap active[s] = {} /\ OnServer(s) \cap replies = {}
  /\ \A s, t \in ServerIds : s # t => OnServer(s) \cap OnServer(t) = {}

(* It holds an index of the server it is on.                               *)
InLane ==
  \A s \in ServerIds, b \in Indices :
    recvRequests[b] \in OnServer(s) => b \in Lane(s)

(* The jobs in the queue, those in flight and those that are back.         *)
Bookkeeping ==
  /\ coreQueue \cup delivered \subseteq 1 .. evalIdCntr
  /\ coreQueue \cap delivered = {}
  /\ InFlight \subseteq coreQueue
  /\ raw \cap InFlight = {}
  /\ Blocking => /\ runningMap = {}
                 /\ raw \subseteq coreQueue
                 /\ sent = raw \cup InFlight
  /\ ~Blocking => raw \subseteq delivered /\ RunningIds = InFlight
  /\ \A r \in runningMap :
       recvRequests[r.index] = r.id /\ r.index \in Allocation(r.server)
  /\ pc = "waitall" =>
       /\ coreQueue = sent /\ raw \in {{}, coreQueue}
       /\ \A b \in Indices : b >= NumSends => recvRequests[b] = NoTag

MInv ==
  /\ TypeOK
  /\ Tags
  /\ OnePlace
  /\ BuffersExclusive
  /\ InLane
  /\ Bookkeeping
  /\ SimulatedOnce
  /\ NeverAborts

-----------------------------------------------------------------------------
(* Arithmetic of indices and servers.                                      *)

(* The indices are as many as the servers can run.                         *)
LEMMA Counts ==
  /\ NumEvalServers \in Nat \ {0} /\ Concurrency \in Nat \ {0}
  /\ Capacity \in Nat \ {0} /\ Capacity = Concurrency * NumEvalServers
  /\ Indices \subseteq Nat /\ \A i \in Nat : i \in Indices <=> i < Capacity
  /\ IsFiniteSet(Indices) /\ Cardinality(Indices) = Capacity
<1>1. NumEvalServers \in Nat \ {0} /\ Concurrency \in Nat \ {0}
  BY ConstantsAssumption
<1>2. Capacity \in Nat /\ Capacity = Concurrency * NumEvalServers
  BY <1>1 DEF Capacity
<1>3. Capacity # 0
  <2>1. 0 * Concurrency + Concurrency <= NumEvalServers * Concurrency
    BY <1>1, ProductGrows
  <2>2. QED
    BY <1>1, <1>2, <2>1 DEF Capacity
<1> HIDE DEF Capacity
<1>4. Indices \subseteq Nat /\ \A i \in Nat : i \in Indices <=> i < Capacity
  BY <1>2 DEF Indices
<1>5. IsFiniteSet(Indices) /\ Cardinality(Indices) = Capacity
  <2>1. 0 \in Int /\ Capacity - 1 \in Int /\ ~(0 > Capacity - 1)
    BY <1>2, <1>3
  <2>2. IsFiniteSet(0 .. (Capacity - 1))
        /\ Cardinality(0 .. (Capacity - 1)) = (Capacity - 1) - 0 + 1
    BY <2>1, FS_Interval
  <2>3. (Capacity - 1) - 0 + 1 = Capacity
    BY <1>2
  <2>4. QED
    BY <2>2, <2>3 DEF Indices
<1>6. QED
  BY <1>1, <1>2, <1>3, <1>4, <1>5

(* The allocation of a server is a block of Concurrency indices.           *)
LEMMA AllocationFacts ==
  ASSUME NEW s \in ServerIds
  PROVE  /\ (s - 1) * Concurrency \in Nat
         /\ Allocation(s) = ((s - 1) * Concurrency)
                              .. ((s - 1) * Concurrency + Concurrency - 1)
         /\ Allocation(s) \subseteq Indices
         /\ IsFiniteSet(Allocation(s)) /\ Cardinality(Allocation(s)) = Concurrency
<1> USE Counts
<1>1. s \in Nat /\ s - 1 \in Nat /\ s - 1 < NumEvalServers
  BY DEF ServerIds
<1> DEFINE x == (s - 1) * Concurrency
<1>2. x \in Nat /\ s * Concurrency = x + Concurrency
  BY <1>1
<1>3. x + Concurrency <= Capacity
  BY <1>1, ProductGrows DEF Capacity
<1>4. Allocation(s) = x .. (x + Concurrency - 1)
  BY <1>2 DEF Allocation
<1> HIDE DEF x
<1>5. Allocation(s) \subseteq Indices
  BY <1>2, <1>3, <1>4
<1>6. IsFiniteSet(Allocation(s)) /\ Cardinality(Allocation(s)) = Concurrency
  <2>1. x \in Int /\ x + Concurrency - 1 \in Int /\ x <= x + Concurrency - 1
    BY <1>2
  <2>2. IsFiniteSet(x .. (x + Concurrency - 1))
        /\ Cardinality(x .. (x + Concurrency - 1)) = (x + Concurrency - 1) - x + 1
    BY <2>1, FS_Interval
  <2>3. (x + Concurrency - 1) - x + 1 = Concurrency
    BY <1>2
  <2>4. QED
    BY <1>4, <2>2, <2>3
<1>7. QED
  BY <1>2, <1>4, <1>5, <1>6 DEF x

(* The allocations of the servers split the indices.                       *)
LEMMA AllocationsSplit ==
  /\ \A s, t \in ServerIds : \A b \in Allocation(s) : b \in Allocation(t) => s = t
  /\ \A b \in Indices : \E s \in ServerIds : b \in Allocation(s)
<1> USE Counts
<1>1. ASSUME NEW s \in ServerIds, NEW t \in ServerIds, NEW b \in Allocation(s),
             b \in Allocation(t), s < t
      PROVE  FALSE
  <2>1. s - 1 \in Nat /\ t - 1 \in Nat /\ s - 1 < t - 1
    BY <1>1 DEF ServerIds
  <2> DEFINE x == (s - 1) * Concurrency
             y == (t - 1) * Concurrency
  <2>2. x + Concurrency <= y
    BY <2>1, ProductGrows
  <2>3. /\ x \in Nat /\ y \in Nat
        /\ b \in x .. (x + Concurrency - 1) /\ b \in y .. (y + Concurrency - 1)
    BY <1>1, AllocationFacts
  <2> HIDE DEF x, y
  <2>4. QED
    BY <2>2, <2>3
<1>2. ASSUME NEW b \in Indices PROVE \E s \in ServerIds : b \in Allocation(s)
  <2> DEFINE q == Quotient(b, Concurrency)
             r == Remainder(b, Concurrency)
  <2>2. b \in Nat /\ b < NumEvalServers * Concurrency
    BY DEF Capacity
  <2>3. /\ r \in 0 .. (Concurrency - 1) /\ q \in 0 .. (NumEvalServers - 1)
        /\ b = q * Concurrency + r
    BY <2>2, Division
  <2> HIDE DEF q, r
  <2>4. q + 1 \in ServerIds /\ (q + 1) - 1 = q
    BY <2>3 DEF ServerIds
  <2> DEFINE x == q * Concurrency
  <2>5. x \in Nat /\ Allocation(q + 1) = x .. (x + Concurrency - 1) /\ b = x + r
    BY <2>3, <2>4, AllocationFacts
  <2> HIDE DEF x
  <2>6. b \in Allocation(q + 1)
    BY <2>3, <2>5
  <2>7. QED
    BY <2>4, <2>6
<1>3. ASSUME NEW s \in ServerIds, NEW t \in ServerIds, NEW b \in Allocation(s),
             b \in Allocation(t)
      PROVE  s = t
  <2>1. s \in Nat /\ t \in Nat
    BY DEF ServerIds
  <2>2. ~(s < t) /\ ~(t < s)
    BY <1>1, <1>3
  <2>3. QED
    BY <2>1, <2>2
<1>4. QED
  BY <1>2, <1>3

(* The i-th job of a first pass: its server, and its index there.          *)
LEMMA Dealing ==
  ASSUME NEW i \in Indices
  PROVE  /\ ServerOf(i) \in ServerIds
         /\ StratifiedIndex(i) \in Allocation(ServerOf(i))
         /\ StratifiedIndex(i) \in Indices
         /\ \E q \in 0 .. (Concurrency - 1) :
              /\ q = Quotient(i, NumEvalServers)
              /\ i = q * NumEvalServers + (ServerOf(i) - 1)
              /\ StratifiedIndex(i) = (ServerOf(i) - 1) * Concurrency + q
<1> USE Counts
<1> DEFINE q == Quotient(i, NumEvalServers)
           r == Remainder(i, NumEvalServers)
<1>2. i \in Nat /\ i < Concurrency * NumEvalServers
  OBVIOUS
<1>3. /\ r \in 0 .. (NumEvalServers - 1) /\ q \in 0 .. (Concurrency - 1)
      /\ i = q * NumEvalServers + r
  BY <1>2, Division
<1>4. ServerOf(i) = r + 1 /\ StratifiedIndex(i) = r * Concurrency + q
  BY DEF ServerOf, StratifiedIndex, Quotient, Remainder
<1> HIDE DEF q, r
<1>5. r + 1 \in ServerIds /\ (r + 1) - 1 = r
  BY <1>3 DEF ServerIds
<1>6. r * Concurrency + q \in Allocation(r + 1)
  <2> DEFINE x == r * Concurrency
  <2>1. x \in Nat /\ Allocation(r + 1) = x .. (x + Concurrency - 1)
    BY <1>5, AllocationFacts
  <2> HIDE DEF x
  <2>2. x + q \in Allocation(r + 1)
    BY <1>3, <2>1
  <2>3. QED
    BY <2>2 DEF x
<1>7. Allocation(r + 1) \subseteq Indices
  BY <1>5, AllocationFacts
<1>8. QED
  BY <1>3, <1>4, <1>5, <1>6, <1>7 DEF q

(* No two jobs of a first pass have the same index.                        *)
LEMMA StratifiedApart ==
  ASSUME NEW i \in Indices, NEW j \in Indices,
         StratifiedIndex(i) = StratifiedIndex(j)
  PROVE  i = j
<1>1. /\ ServerOf(i) \in ServerIds /\ ServerOf(j) \in ServerIds
      /\ StratifiedIndex(i) \in Allocation(ServerOf(i))
      /\ StratifiedIndex(j) \in Allocation(ServerOf(j))
  BY Dealing
<1>2. ServerOf(i) = ServerOf(j)
  BY <1>1, AllocationsSplit
<1>3. PICK q \in 0 .. (Concurrency - 1) :
        /\ i = q * NumEvalServers + (ServerOf(i) - 1)
        /\ StratifiedIndex(i) = (ServerOf(i) - 1) * Concurrency + q
  BY Dealing
<1>4. PICK p \in 0 .. (Concurrency - 1) :
        /\ j = p * NumEvalServers + (ServerOf(j) - 1)
        /\ StratifiedIndex(j) = (ServerOf(j) - 1) * Concurrency + p
  BY Dealing
<1>5. q = p
  <2> DEFINE x == (ServerOf(i) - 1) * Concurrency
  <2>1. x \in Nat
    BY <1>1, AllocationFacts
  <2>2. x + q = x + p
    BY <1>2, <1>3, <1>4
  <2> HIDE DEF x
  <2>3. QED
    BY <2>1, <2>2
<1>6. QED
  BY <1>2, <1>3, <1>4, <1>5

(* A lane has as many indices as its server may run jobs.                  *)
LEMMA LaneSize ==
  ASSUME NEW s \in ServerIds
  PROVE  /\ Lane(s) \subseteq Indices
         /\ IsFiniteSet(Lane(s)) /\ Cardinality(Lane(s)) <= Concurrency
<1> USE Counts
<1>1. CASE Blocking
  <2> DEFINE L == {b \in Indices : ServerOf(b) = s}
             f == [b \in L |-> Quotient(b, NumEvalServers)]
  <2>1. f \in [L -> 0 .. (Concurrency - 1)]
    BY Dealing
  <2>2. ASSUME NEW a \in L, NEW b \in L, f[a] = f[b] PROVE a = b
    <3>1. PICK q \in 0 .. (Concurrency - 1) :
            /\ q = Quotient(a, NumEvalServers)
            /\ a = q * NumEvalServers + (s - 1)
      BY Dealing
    <3>2. PICK p \in 0 .. (Concurrency - 1) :
            /\ p = Quotient(b, NumEvalServers)
            /\ b = p * NumEvalServers + (s - 1)
      BY Dealing
    <3>3. q = p
      BY <2>2, <3>1, <3>2
    <3>4. QED
      BY <3>1, <3>2, <3>3
  <2>3. f \in Injection(L, 0 .. (Concurrency - 1))
    <3> HIDE DEF f, L
    <3>1. QED
      BY <2>1, <2>2 DEF Injection, IsInjective
  <2>4. IsFiniteSet(0 .. (Concurrency - 1))
        /\ Cardinality(0 .. (Concurrency - 1)) = Concurrency
    <3>1. 0 \in Int /\ Concurrency - 1 \in Int /\ ~(0 > Concurrency - 1)
      OBVIOUS
    <3>2. IsFiniteSet(0 .. (Concurrency - 1))
          /\ Cardinality(0 .. (Concurrency - 1)) = (Concurrency - 1) - 0 + 1
      BY <3>1, FS_Interval
    <3>3. (Concurrency - 1) - 0 + 1 = Concurrency
      OBVIOUS
    <3>4. QED
      BY <3>2, <3>3
  <2>5. IsFiniteSet(L) /\ Cardinality(L) <= Concurrency
    <3> HIDE DEF f, L
    <3>1. QED
      BY <2>3, <2>4, FS_Injection
  <2>6. QED
    BY <1>1, <2>5 DEF Lane
<1>2. CASE ~Blocking
  BY <1>2, AllocationFacts DEF Lane
<1>3. QED
  BY <1>1, <1>2

-----------------------------------------------------------------------------
(* The walks of the queue.                                                 *)

(* A sequence that lists no tag twice but the tag 0.                       *)
Distinct(q) == \A j, k \in DOMAIN q : q[j] = q[k] /\ q[j] # NoTag => j = k

(* A set of ids in increasing order lists each of them once.               *)
LEMMA InOrderFacts ==
  ASSUME NEW S \in SUBSET Evals
  PROVE  /\ InOrder(S) \in Seq(S) /\ InOrder(S) \in Seq(Evals)
         /\ Elems(InOrder(S)) = S
         /\ Distinct(InOrder(S))
<1> DEFINE n == Cardinality(S)
           q == InOrder(S)
<1>1. IsFiniteSet(S) /\ S \subseteq Int
  <2>1. IsFiniteSet(Evals) /\ Evals \subseteq Int
    BY ConstantsAssumption, FS_Interval DEF Evals
  <2>2. QED
    BY <2>1, FS_Subset
<1>2. /\ n \in Nat
      /\ \A x \in S : Place(S, x) \in 0 .. (n - 1)
      /\ \A i \in 0 .. (n - 1) : Nth(S, i) \in S /\ Place(S, Nth(S, i)) = i
      /\ \A x \in S : Nth(S, Place(S, x)) = x
  BY <1>1, WalkFacts
<1>3. q = [k \in 1 .. n |-> Nth(S, k - 1)]
  BY DEF InOrder
<1> HIDE DEF n, q
<1>4. \A k \in 1 .. n : k - 1 \in 0 .. (n - 1)
  BY <1>2
<1>5. \A k \in 1 .. n : q[k] \in S /\ Place(S, q[k]) = k - 1
  BY <1>2, <1>3, <1>4
<1>6. q \in [1 .. n -> S]
  BY <1>3, <1>5
<1>7. q \in Seq(S) /\ DOMAIN q = 1 .. n
  BY <1>2, <1>6
<1>8. ASSUME NEW x \in S PROVE \E k \in 1 .. n : q[k] = x
  <2>1. Place(S, x) + 1 \in 1 .. n /\ (Place(S, x) + 1) - 1 = Place(S, x)
    BY <1>2
  <2>2. q[Place(S, x) + 1] = x
    BY <1>2, <1>3, <2>1
  <2>3. QED
    BY <2>1, <2>2
<1>9. ASSUME NEW j \in 1 .. n, NEW k \in 1 .. n, q[j] = q[k] PROVE j = k
  <2>1. j - 1 = k - 1
    BY <1>5, <1>9
  <2>2. QED
    BY <2>1
<1>10. Elems(q) = S /\ Distinct(q)
  BY <1>5, <1>7, <1>8, <1>9 DEF Elems, Distinct
<1>11. q \in Seq(Evals)
  BY <1>7, SeqMonotonic
<1>12. QED
  BY <1>7, <1>10, <1>11 DEF q

(* A sequence of jobs put behind another lists the jobs of both.           *)
LEMMA JoinFacts ==
  ASSUME NEW s \in Seq(0 .. MaxEvals), NEW t \in Seq(Evals)
  PROVE  /\ s \o t \in Seq(0 .. MaxEvals)
         /\ Elems(s \o t) = Elems(s) \cup Elems(t)
         /\ Distinct(s) /\ Distinct(t) /\ Elems(s) \cap Elems(t) = {}
              => Distinct(s \o t)
<1> DEFINE u == s \o t
<1>0. t \in Seq(0 .. MaxEvals)
  <2>1. Evals \subseteq 0 .. MaxEvals
    BY DEF Evals
  <2>2. QED
    BY <2>1, SeqMonotonic
<1>1. /\ u \in Seq(0 .. MaxEvals) /\ Len(u) = Len(s) + Len(t)
      /\ \A i \in 1 .. Len(s) + Len(t) :
           u[i] = IF i <= Len(s) THEN s[i] ELSE t[i - Len(s)]
  BY <1>0, ConcatProperties
<1>2. /\ DOMAIN s = 1 .. Len(s) /\ DOMAIN t = 1 .. Len(t)
      /\ DOMAIN u = 1 .. Len(u) /\ Len(s) \in Nat /\ Len(t) \in Nat
  BY <1>1, LenProperties
<1> HIDE DEF u
<1>3. ASSUME NEW i \in DOMAIN u
      PROVE  \/ i \in DOMAIN s /\ u[i] = s[i] /\ u[i] \in Elems(s)
             \/ /\ i - Len(s) \in DOMAIN t /\ u[i] = t[i - Len(s)]
                /\ u[i] \in Elems(t) /\ i \in Nat
  <2>1. i \in 1 .. Len(s) + Len(t) /\ i \in Nat
    BY <1>1, <1>2
  <2>2. CASE i <= Len(s)
    <3>1. i \in DOMAIN s /\ u[i] = s[i]
      BY <1>1, <1>2, <2>1, <2>2
    <3>2. QED
      BY <3>1 DEF Elems
  <2>3. CASE ~(i <= Len(s))
    <3>1. i - Len(s) \in DOMAIN t /\ u[i] = t[i - Len(s)]
      BY <1>1, <1>2, <2>1, <2>3
    <3>2. QED
      BY <2>1, <3>1 DEF Elems
  <2>4. QED
    BY <2>2, <2>3
<1>4. ASSUME NEW x \in Elems(s) PROVE x \in Elems(u)
  <2>1. PICK i \in 1 .. Len(s) : x = s[i]
    BY <1>2, <1>4 DEF Elems
  <2>2. i \in DOMAIN u /\ u[i] = x
    BY <1>1, <1>2, <2>1
  <2>3. QED
    BY <2>2 DEF Elems
<1>5. ASSUME NEW x \in Elems(t) PROVE x \in Elems(u)
  <2>1. PICK i \in 1 .. Len(t) : x = t[i]
    BY <1>2, <1>5 DEF Elems
  <2>2. i + Len(s) \in 1 .. Len(s) + Len(t) /\ i + Len(s) - Len(s) = i
        /\ ~(i + Len(s) <= Len(s))
    BY <1>2, <2>1
  <2>3. i + Len(s) \in DOMAIN u /\ u[i + Len(s)] = x
    BY <1>1, <1>2, <2>1, <2>2
  <2>4. QED
    BY <2>3 DEF Elems
<1>6. Elems(u) = Elems(s) \cup Elems(t)
  <2>1. ASSUME NEW x \in Elems(u) PROVE x \in Elems(s) \cup Elems(t)
    <3>1. PICK i \in DOMAIN u : x = u[i]
      BY <2>1 DEF Elems
    <3>2. QED
      BY <1>3, <3>1
  <2>2. QED
    BY <1>4, <1>5, <2>1
<1>7. ASSUME Distinct(s), Distinct(t), Elems(s) \cap Elems(t) = {}
      PROVE  Distinct(u)
  <2>1. SUFFICES ASSUME NEW i \in DOMAIN u, NEW j \in DOMAIN u,
                        u[i] = u[j], u[i] # NoTag
                 PROVE  i = j
    BY DEF Distinct
  <2>2. CASE i \in DOMAIN s /\ u[i] = s[i] /\ u[i] \in Elems(s)
    <3>1. j \in DOMAIN s /\ u[j] = s[j]
      BY <1>3, <1>7, <2>1, <2>2
    <3>2. QED
      BY <1>7, <2>1, <2>2, <3>1 DEF Distinct
  <2>3. CASE /\ i - Len(s) \in DOMAIN t /\ u[i] = t[i - Len(s)]
             /\ u[i] \in Elems(t) /\ i \in Nat
    <3>1. j - Len(s) \in DOMAIN t /\ u[j] = t[j - Len(s)] /\ j \in Nat
      BY <1>3, <1>7, <2>1, <2>3
    <3>2. i - Len(s) = j - Len(s)
      BY <1>7, <2>1, <2>3, <3>1 DEF Distinct
    <3>3. QED
      BY <1>2, <2>3, <3>1, <3>2
  <2>4. QED
    BY <1>3, <2>2, <2>3
<1>8. QED
  BY <1>1, <1>6, <1>7 DEF u

(* A message put behind the others in an inbox.                            *)
LEMMA OneMore ==
  ASSUME NEW s \in Seq(0 .. MaxEvals), NEW x \in 0 .. MaxEvals
  PROVE  /\ Append(s, x) \in Seq(0 .. MaxEvals)
         /\ Elems(Append(s, x)) = Elems(s) \cup {x}
         /\ Len(Append(s, x)) = Len(s) + 1
         /\ \A k \in DOMAIN Append(s, x) :
              \/ k \in DOMAIN s /\ Append(s, x)[k] = s[k]
              \/ k = Len(Append(s, x)) /\ Append(s, x)[k] = x
<1> DEFINE u == Append(s, x)
<1>1. /\ u \in Seq(0 .. MaxEvals) /\ Len(u) = Len(s) + 1
      /\ \A i \in 1 .. Len(s) : u[i] = s[i]
      /\ u[Len(s) + 1] = x
  BY AppendProperties
<1>2. DOMAIN s = 1 .. Len(s) /\ DOMAIN u = 1 .. Len(u) /\ Len(s) \in Nat
  BY <1>1, LenProperties
<1> HIDE DEF u
<1>3. \A k \in DOMAIN u : \/ k \in DOMAIN s /\ u[k] = s[k]
                          \/ k = Len(u) /\ u[k] = x
  BY <1>1, <1>2
<1>4. /\ \A k \in DOMAIN s : k \in DOMAIN u /\ u[k] = s[k]
      /\ Len(u) \in DOMAIN u /\ u[Len(u)] = x
  BY <1>1, <1>2
<1>5. Elems(u) = Elems(s) \cup {x}
  <2>1. ASSUME NEW y \in Elems(u) PROVE y \in Elems(s) \cup {x}
    BY <1>3, <2>1 DEF Elems
  <2>2. ASSUME NEW y \in Elems(s) PROVE y \in Elems(u)
    BY <1>4, <2>2 DEF Elems
  <2>3. x \in Elems(u)
    BY <1>4 DEF Elems
  <2>4. QED
    BY <2>1, <2>2, <2>3
<1>6. QED
  BY <1>1, <1>3, <1>5 DEF u

(* A message taken from an inbox.                                          *)
LEMMA OneLess ==
  ASSUME NEW s \in Seq(0 .. MaxEvals), s # <<>>
  PROVE  /\ Tail(s) \in Seq(0 .. MaxEvals) /\ Head(s) \in 0 .. MaxEvals
         /\ Len(Tail(s)) = Len(s) - 1 /\ Len(s) \in Nat \ {0}
         /\ Head(s) = s[1] /\ 1 \in DOMAIN s
         /\ \A k \in DOMAIN Tail(s) :
              k \in Nat /\ k + 1 \in DOMAIN s /\ Tail(s)[k] = s[k + 1]
         /\ Elems(s) = {Head(s)} \cup Elems(Tail(s))
         /\ Distinct(s) => /\ Distinct(Tail(s))
                           /\ Head(s) # NoTag => Head(s) \notin Elems(Tail(s))
<1> DEFINE u == Tail(s)
<1>1. /\ u \in Seq(0 .. MaxEvals) /\ Head(s) \in 0 .. MaxEvals
      /\ Len(u) = Len(s) - 1
      /\ \A i \in 1 .. Len(u) : u[i] = s[i + 1]
  BY HeadTailProperties
<1>2. /\ DOMAIN s = 1 .. Len(s) /\ DOMAIN u = 1 .. Len(u)
      /\ Len(s) \in Nat \ {0} /\ Head(s) = s[1]
  BY <1>1, LenProperties, EmptySeq
<1> HIDE DEF u
<1>3. \A k \in DOMAIN u : k \in Nat /\ k + 1 \in DOMAIN s /\ u[k] = s[k + 1]
  BY <1>1, <1>2
<1>4. 1 \in DOMAIN s
  BY <1>2
<1>5. \A k \in DOMAIN s : k = 1 \/ (k - 1 \in DOMAIN u /\ u[k - 1] = s[k])
  <2>1. SUFFICES ASSUME NEW k \in DOMAIN s, k # 1
                 PROVE  k - 1 \in DOMAIN u /\ u[k - 1] = s[k]
    OBVIOUS
  <2>2. k - 1 \in DOMAIN u /\ (k - 1) + 1 = k
    BY <1>1, <1>2, <2>1
  <2>3. QED
    BY <1>3, <2>2
<1>6. Elems(s) = {Head(s)} \cup Elems(u)
  <2>1. ASSUME NEW x \in Elems(s) PROVE x \in {Head(s)} \cup Elems(u)
    BY <1>2, <1>5, <2>1 DEF Elems
  <2>2. ASSUME NEW x \in Elems(u) PROVE x \in Elems(s)
    BY <1>3, <2>2 DEF Elems
  <2>3. Head(s) \in Elems(s)
    BY <1>2, <1>4 DEF Elems
  <2>4. QED
    BY <2>1, <2>2, <2>3
<1>7. ASSUME Distinct(s) PROVE Distinct(u)
  <2>1. SUFFICES ASSUME NEW i \in DOMAIN u, NEW j \in DOMAIN u,
                        u[i] = u[j], u[i] # NoTag
                 PROVE  i = j
    BY DEF Distinct
  <2>2. i + 1 = j + 1 /\ i \in Nat /\ j \in Nat
    BY <1>3, <1>7, <2>1 DEF Distinct
  <2>3. QED
    BY <2>2
<1>8. ASSUME Distinct(s), Head(s) # NoTag, Head(s) \in Elems(u) PROVE FALSE
  <2>1. PICK k \in DOMAIN u : u[k] = s[1]
    BY <1>2, <1>8 DEF Elems
  <2>2. k + 1 \in DOMAIN s /\ s[k + 1] = s[1] /\ k \in Nat /\ k # 0
    BY <1>2, <1>3, <2>1
  <2>3. k + 1 = 1
    BY <1>2, <1>4, <1>8, <2>2 DEF Distinct
  <2>4. QED
    BY <2>2, <2>3
<1>9. QED
  BY <1>1, <1>2, <1>3, <1>4, <1>6, <1>7, <1>8 DEF u

-----------------------------------------------------------------------------
(* The steps of the master.                                                *)

(* Where jobs in flight are.                                               *)
LEMMA FlightFacts ==
  /\ \A x : x \in InFlight <=> x \in replies \/ \E s \in ServerIds : x \in OnServer(s)
  /\ \A s \in ServerIds : SentTo(s) = Elems(inbox[s]) \ {NoTag}
  /\ TypeOK => InFlight \subseteq Evals /\ NoTag \notin InFlight
<1>1. \A x : x \in InFlight <=> x \in replies \/ \E s \in ServerIds : x \in OnServer(s)
  BY DEF InFlight, OnServers, OnServer
<1>2. \A s \in ServerIds : SentTo(s) = Elems(inbox[s]) \ {NoTag}
  BY DEF SentTo, Elems
<1>3. ASSUME TypeOK PROVE InFlight \subseteq Evals /\ NoTag \notin InFlight
  <2>1. ASSUME NEW s \in ServerIds, NEW x \in SentTo(s) PROVE x \in Evals
    <3>1. inbox[s] \in Seq(0 .. MaxEvals)
      BY <1>3 DEF TypeOK
    <3>2. PICK k \in DOMAIN inbox[s] : x = inbox[s][k]
      BY <2>1 DEF SentTo
    <3>3. x \in 0 .. MaxEvals /\ x # NoTag
      BY <2>1, <3>1, <3>2, ElementOfSeq, LenProperties DEF SentTo
    <3>4. QED
      BY <3>3 DEF Evals, NoTag
  <2>2. InFlight \subseteq Evals
    BY <1>1, <1>3, <2>1 DEF OnServer, TypeOK
  <2>3. NoTag \notin Evals
    BY DEF Evals, NoTag
  <2>4. QED
    BY <2>2, <2>3
<1>4. QED
  BY <1>1, <1>2, <1>3

(* What the steps of the master have in common: responses got are          *)
(* received, and jobs new, q[s] of them for server s, are sent with the    *)
(* indices B, which were free or waited for got.                           *)
Deals(q, B, got, new) ==
  /\ q \in [ServerIds -> Seq(Evals)] /\ \A s \in ServerIds : Distinct(q[s])
  /\ \A s, t \in ServerIds : s # t => Elems(q[s]) \cap Elems(q[t]) = {}
  /\ \A x : x \in new <=> \E s \in ServerIds : x \in Elems(q[s])
  /\ new \subseteq Evals /\ new \cap InFlight = {}
  /\ B \subseteq Indices /\ got \subseteq replies
  /\ inbox' = [s \in ServerIds |-> inbox[s] \o q[s]]
  /\ active' = active /\ stopped' = stopped /\ replies' = replies \ got
  /\ recvRequests' \in [Indices -> 0 .. MaxEvals]
  /\ \A b \in Indices \ B :
       recvRequests'[b] = recvRequests[b] /\ recvRequests[b] \notin got
  /\ \A b \in B : /\ recvRequests[b] \in got \cup {NoTag}
                  /\ recvRequests'[b] \in new \cup {NoTag}
  /\ \A x \in new : \E b \in B : recvRequests'[b] = x
  /\ \A b, c \in B :
       recvRequests'[b] = recvRequests'[c] /\ recvRequests'[b] # NoTag => b = c
  /\ \A s \in ServerIds, b \in B : recvRequests'[b] \in Elems(q[s]) => b \in Lane(s)'
  /\ pc # "stopped" /\ pc' # "stopped"
  /\ (Blocking' <=> Blocking) \/ InFlight = {}

(* Such a step keeps what the invariant says of messages and buffers.      *)
LEMMA DealsFacts ==
  ASSUME MInv, NEW q, NEW B, NEW got, NEW new, Deals(q, B, got, new)
  PROVE  /\ inbox' \in [ServerIds -> Seq(0 .. MaxEvals)]
         /\ replies' \in SUBSET Evals
         /\ \A s \in ServerIds : OnServer(s)' = OnServer(s) \cup Elems(q[s])
         /\ InFlight' = (InFlight \ got) \cup new
         /\ Tags' /\ OnePlace' /\ BuffersExclusive' /\ InLane'
<1> DEFINE at(s) == OnServer(s)
<1>1. /\ inbox \in [ServerIds -> Seq(0 .. MaxEvals)] /\ replies \in SUBSET Evals
      /\ recvRequests \in [Indices -> 0 .. MaxEvals]
      /\ active \in [ServerIds -> SUBSET Evals] /\ stopped \in SUBSET ServerIds
  BY DEF MInv, TypeOK
<1>2. NoTag \notin Evals
  BY DEF NoTag, Evals
<1>3. \A s \in ServerIds : NoTag \notin Elems(inbox[s]) /\ stopped = {}
  BY DEF MInv, Tags, Deals, Elems
<1>4. \A s \in ServerIds : SentTo(s) = Elems(inbox[s])
  BY <1>3, FlightFacts
<1>5. \A x : x \in InFlight <=> x \in replies \/ \E s \in ServerIds : x \in at(s)
  BY FlightFacts
<1>6. InFlight \subseteq Evals
  BY FlightFacts DEF MInv
<1>7. ASSUME NEW s \in ServerIds
      PROVE  /\ inbox'[s] \in Seq(0 .. MaxEvals)
             /\ Elems(inbox'[s]) = Elems(inbox[s]) \cup Elems(q[s])
             /\ Elems(q[s]) \subseteq new
             /\ NoTag \notin Elems(inbox'[s])
             /\ Distinct(inbox'[s])
  <2>1. inbox[s] \in Seq(0 .. MaxEvals) /\ q[s] \in Seq(Evals) /\ Distinct(q[s])
    BY <1>1 DEF Deals
  <2>2. Distinct(inbox[s])
    BY DEF MInv, OnePlace, Distinct
  <2>3. Elems(q[s]) \subseteq new /\ new \subseteq Evals /\ new \cap InFlight = {}
    BY DEF Deals
  <2>4. Elems(inbox[s]) \subseteq InFlight
    BY <1>4, <1>5 DEF OnServer
  <2>5. inbox'[s] = inbox[s] \o q[s]
    BY DEF Deals
  <2>6. Elems(inbox[s]) \cap Elems(q[s]) = {} /\ NoTag \notin Elems(q[s])
    BY <1>2, <2>3, <2>4
  <2>7. /\ inbox[s] \o q[s] \in Seq(0 .. MaxEvals)
        /\ Elems(inbox[s] \o q[s]) = Elems(inbox[s]) \cup Elems(q[s])
        /\ Distinct(inbox[s] \o q[s])
    BY <2>1, <2>2, <2>6, JoinFacts, Zenon
  <2>8. QED
    BY <1>3, <2>3, <2>5, <2>6, <2>7, Zenon
<1>8. inbox' \in [ServerIds -> Seq(0 .. MaxEvals)]
  <2>1. inbox' = [s \in ServerIds |-> inbox'[s]]
    BY DEF Deals
  <2>2. QED
    BY <1>7, <2>1
<1>9. \A s \in ServerIds : SentTo(s)' = SentTo(s) \cup Elems(q[s])
  <2>1. ASSUME NEW s \in ServerIds PROVE SentTo(s)' = Elems(inbox'[s]) \ {NoTag}
    BY DEF SentTo, Elems
  <2>2. QED
    BY <1>4, <1>7, <2>1
<1>10. \A s \in ServerIds : at(s)' = at(s) \cup Elems(q[s])
  BY <1>9 DEF OnServer, Deals
<1>11. /\ new \cap InFlight = {} /\ new \subseteq Evals /\ got \subseteq replies
       /\ \A x : x \in new <=> \E s \in ServerIds : x \in Elems(q[s])
       /\ replies' = replies \ got /\ active' = active
  BY DEF Deals
<1>12. \A s \in ServerIds : at(s) \cap replies = {}
  BY DEF MInv, OnePlace
<1>13. InFlight' = (InFlight \ got) \cup new
  <2>1. \A x : x \in InFlight' <=> x \in replies' \/ \E s \in ServerIds : x \in at(s)'
    BY DEF InFlight, OnServers, OnServer
  <2> HIDE DEF at
  <2>2. ASSUME NEW x PROVE x \in InFlight' <=> x \in (InFlight \ got) \cup new
    <3>1. x \in InFlight' <=> x \in replies \ got
              \/ \E s \in ServerIds : x \in at(s) \/ x \in Elems(q[s])
      BY <1>10, <1>11, <2>1
    <3>2. (\E s \in ServerIds : x \in at(s)) => x \notin got
      BY <1>11, <1>12
    <3>3. QED
      BY <1>5, <1>11, <3>1, <3>2
  <2>3. QED
    BY <2>2
<1>14. Tags'
  <2>1. ASSUME NEW s \in ServerIds, NEW k \in DOMAIN inbox'[s]
        PROVE  inbox'[s][k] # NoTag
    BY <1>7 DEF Elems
  <2>2. \A s \in stopped' : FALSE
    BY <1>1, <1>3 DEF Deals
  <2>3. QED
    BY <2>1, <2>2 DEF Tags
<1>15. OnePlace'
  <2>1. \A s \in ServerIds : \A j, k \in DOMAIN inbox'[s] :
          inbox'[s][j] = inbox'[s][k] /\ inbox'[s][j] # NoTag => j = k
    BY <1>7 DEF Distinct
  <2>2. ASSUME NEW s \in ServerIds
        PROVE  SentTo(s)' \cap active'[s] = {} /\ at(s)' \cap replies' = {}
    <3>1. SentTo(s) \cap active[s] = {} /\ at(s) \cap replies = {}
      BY DEF MInv, OnePlace
    <3>2. active[s] \subseteq InFlight /\ replies \subseteq InFlight
      BY <1>5 DEF OnServer
    <3>3. Elems(q[s]) \cap InFlight = {}
      BY <1>11
    <3>4. SentTo(s)' \cap active[s] = {}
      BY <1>9, <3>1, <3>2, <3>3
    <3>5. at(s)' \cap replies' = {}
      BY <1>10, <1>11, <3>1, <3>2, <3>3
    <3>6. QED
      BY <1>11, <3>4, <3>5
  <2>3. ASSUME NEW s \in ServerIds, NEW t \in ServerIds, s # t
        PROVE  at(s)' \cap at(t)' = {}
    <3>1. at(s) \cap at(t) = {} /\ Elems(q[s]) \cap Elems(q[t]) = {}
      BY <2>3 DEF MInv, OnePlace, Deals
    <3>2. at(s) \subseteq InFlight /\ at(t) \subseteq InFlight
      BY <1>5
    <3>3. Elems(q[s]) \cap InFlight = {} /\ Elems(q[t]) \cap InFlight = {}
      BY <1>11
    <3> HIDE DEF at
    <3>4. QED
      BY <1>10, <3>1, <3>2, <3>3
  <2>4. QED
    BY <2>1, <2>2, <2>3 DEF OnePlace
<1>16. BuffersExclusive'
  <2>0. \A b \in Indices : recvRequests[b] # NoTag => recvRequests[b] \in InFlight
    BY DEF MInv, BuffersExclusive
  <2>1. ASSUME NEW x \in InFlight' PROVE \E b \in Indices : recvRequests'[b] = x
    <3>1. CASE x \in new
      BY <3>1 DEF Deals
    <3>2. CASE x \in InFlight \ got
      <4>1. PICK b \in Indices : recvRequests[b] = x
        BY <3>2 DEF MInv, BuffersExclusive
      <4>2. b \notin B
        BY <1>2, <1>6, <3>2, <4>1 DEF Deals
      <4>3. QED
        BY <4>1, <4>2 DEF Deals
    <3>3. QED
      BY <1>13, <2>1, <3>1, <3>2
  <2>2. ASSUME NEW b \in Indices, recvRequests'[b] # NoTag
        PROVE  recvRequests'[b] \in InFlight'
    <3>1. CASE b \in B
      BY <1>13, <2>2, <3>1 DEF Deals
    <3>2. CASE b \notin B
      <4>1. recvRequests'[b] = recvRequests[b] /\ recvRequests[b] \notin got
        BY <3>2 DEF Deals
      <4>2. QED
        BY <1>13, <2>0, <2>2, <4>1
    <3>3. QED
      BY <3>1, <3>2
  <2>3. ASSUME NEW b \in Indices, NEW c \in Indices,
               recvRequests'[b] = recvRequests'[c], recvRequests'[b] # NoTag
        PROVE  b = c
    <3>1. \A a \in B : recvRequests'[a] \in new \cup {NoTag}
      BY DEF Deals
    <3>2. \A a \in Indices \ B : recvRequests'[a] = recvRequests[a]
      BY DEF Deals
    <3>3. CASE b \in B /\ c \in B
      BY <2>3, <3>3 DEF Deals
    <3>4. CASE b \notin B /\ c \notin B
      <4>1. recvRequests[b] = recvRequests[c] /\ recvRequests[b] # NoTag
        BY <2>3, <3>2, <3>4
      <4>2. QED
        BY <4>1 DEF MInv, BuffersExclusive
    <3>5. CASE b \in B /\ c \notin B
      BY <1>11, <2>0, <2>3, <3>1, <3>2, <3>5
    <3>6. CASE b \notin B /\ c \in B
      BY <1>11, <2>0, <2>3, <3>1, <3>2, <3>6
    <3>7. QED
      BY <3>3, <3>4, <3>5, <3>6
  <2>4. QED
    BY <2>1, <2>2, <2>3 DEF BuffersExclusive
<1>17. InLane'
  <2>1. SUFFICES ASSUME NEW s \in ServerIds, NEW b \in Indices,
                        recvRequests'[b] \in OnServer(s)'
                 PROVE  b \in Lane(s)'
    BY DEF InLane
  <2>2. recvRequests'[b] \in at(s) \/ recvRequests'[b] \in Elems(q[s])
    BY <1>10, <2>1
  <2>3. at(s) \subseteq InFlight /\ Elems(q[s]) \subseteq new /\ NoTag \notin at(s)
    BY <1>2, <1>5, <1>6, <1>11
  <2>4. CASE b \in B
    <3>1. recvRequests'[b] \in Elems(q[s])
      <4>1. recvRequests'[b] \in new \cup {NoTag}
        BY <2>4 DEF Deals
      <4>2. QED
        BY <1>11, <2>2, <2>3, <4>1
    <3>2. QED
      BY <2>4, <3>1 DEF Deals
  <2>5. CASE b \notin B
    <3>1. recvRequests'[b] = recvRequests[b]
      BY <2>5 DEF Deals
    <3>2. recvRequests[b] = NoTag \/ recvRequests[b] \in InFlight
      BY DEF MInv, BuffersExclusive
    <3>3. recvRequests[b] \in at(s)
      BY <1>2, <1>11, <2>2, <2>3, <3>1, <3>2
    <3>4. b \in Lane(s)
      BY <3>3 DEF MInv, InLane
    <3>5. Blocking' <=> Blocking
      BY <2>3, <3>3 DEF Deals
    <3>6. QED
      BY <3>4, <3>5 DEF Lane
  <2>6. QED
    BY <2>4, <2>5
<1>18. replies' \in SUBSET Evals
  BY <1>1, <1>11
<1>19. QED
  BY <1>8, <1>10, <1>13, <1>14, <1>15, <1>16, <1>17, <1>18

(* The ids are finite in number, and so is what is made of them.           *)
LEMMA FiniteParts ==
  /\ IsFiniteSet(Evals) /\ Evals \subseteq Int /\ NoTag \notin Evals
  /\ \A S \in SUBSET Evals : IsFiniteSet(S) /\ Cardinality(S) \in Nat
<1>1. IsFiniteSet(Evals) /\ Evals \subseteq Int /\ NoTag \notin Evals
  BY ConstantsAssumption, FS_Interval DEF Evals, NoTag
<1>2. QED
  BY <1>1, FS_Subset, FS_CardinalityType

(* A step that simulates nothing and loses no response.                    *)
LEMMA NothingSimulated ==
  ASSUME SimulatedOnce, active' = active, runs' = runs,
         replies' \cup delivered' \cup (raw' \cap coreQueue')
           = replies \cup delivered \cup (raw \cap coreQueue)
  PROVE  SimulatedOnce'
<1> DEFINE done == (UNION {active[s] : s \in ServerIds})
                     \cup replies \cup delivered \cup (raw \cap coreQueue)
<1>1. \A id \in Evals : runs[id] = IF id \in done THEN 1 ELSE 0
  BY DEF SimulatedOnce
<1>2. done' = done
  <2>1. ASSUME NEW x
        PROVE  x \in done <=>
                 x \in UNION {active[s] : s \in ServerIds}
                   \/ x \in replies \cup delivered \cup (raw \cap coreQueue)
    OBVIOUS
  <2>2. ASSUME NEW x
        PROVE  x \in done' <=>
                 x \in UNION {active'[s] : s \in ServerIds}
                   \/ x \in replies' \cup delivered' \cup (raw' \cap coreQueue')
    OBVIOUS
  <2>3. UNION {active'[s] : s \in ServerIds} = UNION {active[s] : s \in ServerIds}
    OBVIOUS
  <2> HIDE DEF done
  <2>4. QED
    BY <2>1, <2>2, <2>3
<1> HIDE DEF done
<1>3. \A id \in Evals : runs'[id] = IF id \in done' THEN 1 ELSE 0
  BY <1>1, <1>2
<1>4. \A s, t \in ServerIds : s # t => active'[s] \cap active'[t] = {}
  BY DEF SimulatedOnce
<1>5. QED
  BY <1>3, <1>4 DEF SimulatedOnce, done

(* A step that posts no request, and moves jobs at most from a server to   *)
(* the replies.                                                            *)
LEMMA RequestsKept ==
  ASSUME MInv, recvRequests' = recvRequests, InFlight' = InFlight,
         \A s \in ServerIds : OnServer(s)' \subseteq OnServer(s),
         Blocking' <=> Blocking
  PROVE  BuffersExclusive' /\ InLane'
<1>1. BuffersExclusive'
  BY DEF MInv, BuffersExclusive
<1>2. \A s \in ServerIds : Lane(s)' = Lane(s)
  BY DEF Lane
<1>3. InLane'
  <2>1. SUFFICES ASSUME NEW s \in ServerIds, NEW b \in Indices,
                        recvRequests'[b] \in OnServer(s)'
                 PROVE  b \in Lane(s)'
    BY DEF InLane
  <2>2. recvRequests[b] \in OnServer(s)
    BY <2>1
  <2>3. QED
    BY <1>2, <2>2 DEF MInv, InLane
<1>4. QED
  BY <1>1, <1>3

(* A step that leaves messages, requests and servers alone.                *)
LEMMA NothingSent ==
  ASSUME MInv, UNCHANGED <<inbox, recvRequests, active, stopped, replies>>,
         Blocking' <=> Blocking, pc' = "stopped" <=> pc = "stopped"
  PROVE  /\ Tags' /\ OnePlace' /\ BuffersExclusive' /\ InLane'
         /\ InFlight' = InFlight
<1>1. \A s \in ServerIds : SentTo(s)' = SentTo(s) /\ OnServer(s)' = OnServer(s)
  BY DEF OnServer, SentTo
<1>2. InFlight' = InFlight
  BY DEF InFlight, OnServers, SentTo
<1>3. BuffersExclusive' /\ InLane'
  BY <1>1, <1>2, RequestsKept
<1>4. Tags'
  BY DEF MInv, Tags
<1>5. OnePlace'
  BY <1>1 DEF MInv, OnePlace
<1>6. QED
  BY <1>2, <1>3, <1>4, <1>5

(* A step of a server, or one that only stops them, keeps the books.       *)
LEMMA BooksKept ==
  ASSUME MInv, InFlight' = InFlight, Blocking' <=> Blocking,
         UNCHANGED <<evalIdCntr, coreQueue, raw, recvRequests, runningMap, sent,
                     delivered>>,
         pc' = "waitall" => pc = "waitall"
  PROVE  Bookkeeping'
<1>1. NumSends' = NumSends /\ RunningIds' = RunningIds
  BY DEF NumSends, RunningIds
<1>2. QED
  BY <1>1 DEF MInv, Bookkeeping

LEMMA StutterMInv ==
  ASSUME MInv, UNCHANGED vars
  PROVE  MInv'
<1> USE DEF vars, masterVars, serverVars
<1>1. Blocking' <=> Blocking
  BY DEF Blocking
<1>2. Tags' /\ OnePlace' /\ BuffersExclusive' /\ InLane' /\ InFlight' = InFlight
  BY <1>1, NothingSent
<1>3. Bookkeeping'
  BY <1>1, <1>2, BooksKept
<1>4. TypeOK' /\ NeverAborts'
  BY DEF MInv, TypeOK, NeverAborts
<1>5. SimulatedOnce'
  BY NothingSimulated DEF MInv
<1>6. QED
  BY <1>2, <1>3, <1>4, <1>5 DEF MInv

LEMMA InitMInv == Init => MInv
<1> SUFFICES ASSUME Init PROVE MInv
  OBVIOUS
<1> USE DEF Init
<1>1. TypeOK
  <2>1. MaxEvals \in Nat /\ 0 \in 0 .. MaxEvals
    BY ConstantsAssumption
  <2>2. recvRequests \in [Indices -> 0 .. MaxEvals] /\ runs \in [Evals -> Nat]
    BY <2>1 DEF NoTag
  <2>3. inbox \in [ServerIds -> Seq(0 .. MaxEvals)]
        /\ active \in [ServerIds -> SUBSET Evals]
    BY EmptySeq
  <2>4. QED
    BY <2>1, <2>2, <2>3 DEF TypeOK
<1>2. \A s \in ServerIds : DOMAIN inbox[s] = {} /\ SentTo(s) = {} /\ OnServer(s) = {}
  <2>1. DOMAIN << >> = {}
    OBVIOUS
  <2>2. QED
    BY <2>1 DEF SentTo, OnServer
<1>3. InFlight = {}
  BY <1>2, FlightFacts
<1>4. Tags /\ OnePlace
  BY <1>2 DEF Tags, OnePlace
<1>5. BuffersExclusive /\ InLane
  BY <1>2, <1>3 DEF BuffersExclusive, InLane
<1>6. Bookkeeping
  BY <1>3 DEF Bookkeeping, Blocking, RunningIds
<1>7. SimulatedOnce /\ NeverAborts
  BY DEF SimulatedOnce, NeverAborts
<1>8. QED
  BY <1>1, <1>4, <1>5, <1>6, <1>7 DEF MInv

LEMMA MapAsynchMInv ==
  ASSUME MInv, MapAsynch
  PROVE  MInv'
<1> USE DEF MapAsynch, serverVars
<1>1. evalIdCntr \in 0 .. MaxEvals /\ evalIdCntr + 1 \in Evals /\ MaxEvals \in Nat
  BY ConstantsAssumption DEF MInv, TypeOK, Evals
<1>2. Blocking' <=> Blocking
  BY DEF Blocking
<1>3. Tags' /\ OnePlace' /\ BuffersExclusive' /\ InLane' /\ InFlight' = InFlight
  BY <1>2, NothingSent
<1>4. TypeOK' /\ NeverAborts'
  BY <1>1 DEF MInv, TypeOK, NeverAborts, Evals
<1>5. /\ evalIdCntr + 1 \notin coreQueue \cup delivered
      /\ coreQueue \cup delivered \subseteq 1 .. evalIdCntr
      /\ 1 .. evalIdCntr \subseteq 1 .. evalIdCntr'
      /\ evalIdCntr' \in 1 .. evalIdCntr'
  BY <1>1 DEF MInv, Bookkeeping
<1>6. raw \subseteq delivered /\ ~Blocking
  BY DEF MInv, Bookkeeping, Blocking
<1>7. Bookkeeping'
  <2>1. RunningIds' = RunningIds
    BY DEF RunningIds
  <2>2. /\ coreQueue' \cup delivered' \subseteq 1 .. evalIdCntr'
        /\ coreQueue' \cap delivered' = {}
    BY <1>5 DEF MInv, Bookkeeping
  <2>3. QED
    BY <1>2, <1>3, <1>6, <2>1, <2>2 DEF MInv, Bookkeeping
<1>8. SimulatedOnce'
  <2>1. raw' \cap coreQueue' = raw \cap coreQueue
    BY <1>5, <1>6
  <2>2. QED
    BY <2>1, NothingSimulated DEF MInv
<1>9. QED
  BY <1>3, <1>4, <1>7, <1>8 DEF MInv

LEMMA NowaitFillMInv ==
  ASSUME MInv, NowaitFill
  PROVE  MInv'
<1> USE DEF NowaitFill, serverVars
<1>1. ~Blocking /\ ~Blocking'
  BY DEF Blocking
<1>2. Tags' /\ OnePlace' /\ BuffersExclusive' /\ InLane' /\ InFlight' = InFlight
  BY <1>1, NothingSent
<1>3. TypeOK' /\ NeverAborts'
  BY DEF MInv, TypeOK, NeverAborts
<1>4. raw \subseteq delivered /\ coreQueue \cap delivered = {}
  BY <1>1 DEF MInv, Bookkeeping
<1>5. Bookkeeping'
  <2>1. RunningIds' = RunningIds
    BY DEF RunningIds
  <2>2. QED
    BY <1>1, <1>2, <2>1 DEF MInv, Bookkeeping
<1>6. SimulatedOnce'
  <2>1. raw' \cap coreQueue' = raw \cap coreQueue
    BY <1>4
  <2>2. QED
    BY <2>1, NothingSimulated DEF MInv
<1>7. QED
  BY <1>2, <1>3, <1>5, <1>6 DEF MInv

LEMMA FillDoneMInv ==
  ASSUME MInv, FillDone
  PROVE  MInv'
<1> USE DEF FillDone, serverVars
<1>1. ~Blocking /\ ~Blocking'
  BY DEF Blocking
<1>2. Tags' /\ OnePlace' /\ BuffersExclusive' /\ InLane' /\ InFlight' = InFlight
  BY <1>1, NothingSent
<1>3. TypeOK' /\ NeverAborts'
  BY DEF MInv, TypeOK, NeverAborts
<1>4. Bookkeeping'
  BY <1>1, <1>2, BooksKept
<1>5. SimulatedOnce'
  BY NothingSimulated DEF MInv
<1>6. QED
  BY <1>2, <1>3, <1>4, <1>5 DEF MInv

(* The steps of the servers.                                               *)
LEMMA ServerReceiveMInv ==
  ASSUME MInv, NEW s \in ServerIds, ServerReceive(s)
  PROVE  MInv'
<1> DEFINE id == Head(inbox[s])
<1>1. /\ inbox[s] \in Seq(0 .. MaxEvals) /\ inbox[s] # <<>>
      /\ inbox \in [ServerIds -> Seq(0 .. MaxEvals)]
      /\ active \in [ServerIds -> SUBSET Evals] /\ stopped \in SUBSET ServerIds
      /\ runs \in [Evals -> Nat]
  BY DEF MInv, TypeOK, ServerReceive
<1>2. /\ Tail(inbox[s]) \in Seq(0 .. MaxEvals) /\ id \in 0 .. MaxEvals
      /\ Len(Tail(inbox[s])) = Len(inbox[s]) - 1 /\ Len(inbox[s]) \in Nat \ {0}
      /\ id = inbox[s][1] /\ 1 \in DOMAIN inbox[s]
      /\ \A k \in DOMAIN Tail(inbox[s]) :
           /\ k \in Nat /\ k + 1 \in DOMAIN inbox[s]
           /\ Tail(inbox[s])[k] = inbox[s][k + 1]
      /\ Elems(inbox[s]) = {id} \cup Elems(Tail(inbox[s]))
  BY <1>1, OneLess
<1>3. /\ Distinct(Tail(inbox[s]))
      /\ id # NoTag => id \notin Elems(Tail(inbox[s]))
  <2>1. Distinct(inbox[s])
    BY DEF MInv, OnePlace, Distinct
  <2>2. QED
    BY <1>1, <2>1, OneLess
<1>4. /\ inbox' = [inbox EXCEPT ![s] = Tail(@)]
      /\ UNCHANGED <<masterVars, replies>>
      /\ \/ id = NoTag /\ stopped' = stopped \cup {s} /\ UNCHANGED <<active, runs>>
         \/ /\ id # NoTag /\ UNCHANGED stopped
            /\ active' = [active EXCEPT ![s] = @ \cup {id}]
            /\ runs' = [runs EXCEPT ![id] = @ + 1]
  BY DEF ServerReceive
<1> HIDE DEF id
<1>5. inbox'[s] = Tail(inbox[s]) /\ \A t \in ServerIds : t # s => inbox'[t] = inbox[t]
  BY <1>1, <1>4
<1>6. /\ \A t \in ServerIds : t # s => active'[t] = active[t]
      /\ active'[s] = IF id = NoTag THEN active[s] ELSE active[s] \cup {id}
  BY <1>1, <1>4
<1>7. id # NoTag => id \in Evals /\ id \in SentTo(s)
  BY <1>2, FlightFacts DEF Evals, NoTag, Elems
<1>8. \A t \in ServerIds : SentTo(t)' = Elems(inbox'[t]) \ {NoTag}
  BY DEF SentTo, Elems
<1>9. /\ SentTo(s)' = SentTo(s) \ {id}
      /\ \A t \in ServerIds : t # s => SentTo(t)' = SentTo(t)
  BY <1>2, <1>3, <1>5, <1>8, FlightFacts
<1>10. \A t \in ServerIds : OnServer(t)' = OnServer(t)
  <2>1. CASE id = NoTag
    BY <1>6, <1>9, <2>1 DEF OnServer, SentTo
  <2>2. CASE id # NoTag
    BY <1>6, <1>7, <1>9, <2>2 DEF OnServer
  <2>3. QED
    BY <2>1, <2>2
<1>11. InFlight' = InFlight
  <2>1. /\ InFlight = (UNION {OnServer(t) : t \in ServerIds}) \cup replies
        /\ InFlight' = (UNION {OnServer(t)' : t \in ServerIds}) \cup replies'
    BY DEF InFlight, OnServers, OnServer
  <2>2. QED
    BY <1>4, <1>10, <2>1
<1>12. Blocking' <=> Blocking
  BY <1>4 DEF Blocking, masterVars
<1>13. BuffersExclusive' /\ InLane' /\ Bookkeeping' /\ NeverAborts'
  <2>1. BuffersExclusive' /\ InLane'
    BY <1>4, <1>10, <1>11, <1>12, RequestsKept DEF masterVars
  <2>2. Bookkeeping'
    BY <1>4, <1>11, <1>12, BooksKept DEF masterVars
  <2>3. NeverAborts'
    BY <1>4 DEF MInv, NeverAborts, masterVars
  <2>4. QED
    BY <2>1, <2>2, <2>3
<1>14. TypeOK'
  <2>1. inbox' \in [ServerIds -> Seq(0 .. MaxEvals)]
    BY <1>1, <1>2, <1>4
  <2>2. active' \in [ServerIds -> SUBSET Evals] /\ runs' \in [Evals -> Nat]
    <3>1. CASE id = NoTag
      BY <1>1, <1>4, <3>1
    <3>2. CASE id # NoTag
      <4>1. id \in Evals /\ runs[id] + 1 \in Nat /\ active[s] \cup {id} \in SUBSET Evals
        BY <1>1, <1>7, <3>2
      <4>2. QED
        BY <1>1, <1>4, <3>2, <4>1
    <3>3. QED
      BY <3>1, <3>2
  <2>3. stopped' \in SUBSET ServerIds
    BY <1>1, <1>4
  <2>4. QED
    BY <1>4, <2>1, <2>2, <2>3 DEF MInv, TypeOK, masterVars
<1>15. Tags'
  <2>0. pc' = pc
    BY <1>4 DEF masterVars
  <2>1. ASSUME NEW t \in ServerIds, NEW k \in DOMAIN inbox'[t], inbox'[t][k] = NoTag
        PROVE  pc' = "stopped" /\ k = Len(inbox'[t])
    <3>1. CASE t = s
      <4>1. k \in Nat /\ k + 1 \in DOMAIN inbox[s] /\ inbox[s][k + 1] = NoTag
        BY <1>2, <1>5, <2>1, <3>1
      <4>2. pc = "stopped" /\ k + 1 = Len(inbox[s])
        BY <4>1 DEF MInv, Tags
      <4>3. Len(inbox'[t]) = Len(inbox[s]) - 1
        BY <1>2, <1>5, <3>1
      <4>4. k = (k + 1) - 1
        BY <4>1
      <4>5. QED
        BY <2>0, <4>2, <4>3, <4>4, Zenon
    <3>2. CASE t # s
      BY <1>5, <2>0, <2>1, <3>2 DEF MInv, Tags
    <3>3. QED
      BY <3>1, <3>2
  <2>2. s \notin stopped
    BY DEF ServerReceive
  <2>3. ASSUME NEW t \in stopped' PROVE inbox'[t] = <<>> /\ pc' = "stopped"
    <3>1. CASE t \in stopped
      <4>1. t # s /\ t \in ServerIds
        BY <1>1, <2>2, <3>1
      <4>2. QED
        BY <1>5, <2>0, <3>1, <4>1 DEF MInv, Tags
    <3>2. CASE t \notin stopped
      <4>1. t = s /\ id = NoTag
        BY <1>4, <2>3, <3>2
      <4>2. pc = "stopped" /\ 1 = Len(inbox[s])
        BY <1>2, <4>1 DEF MInv, Tags
      <4>3. Len(Tail(inbox[s])) = 0
        BY <1>2, <4>2
      <4>4. Tail(inbox[s]) = <<>>
        <5>1. Tail(inbox[s]) # <<>> => Len(Tail(inbox[s])) \in Nat \ {0}
          BY <1>2, EmptySeq
        <5>2. QED
          BY <4>3, <5>1
      <4>5. QED
        BY <1>5, <2>0, <4>1, <4>2, <4>4
    <3>3. QED
      BY <3>1, <3>2
  <2>4. QED
    BY <2>1, <2>3 DEF Tags
<1>16. OnePlace'
  <2>1. ASSUME NEW t \in ServerIds, NEW j \in DOMAIN inbox'[t],
               NEW k \in DOMAIN inbox'[t],
               inbox'[t][j] = inbox'[t][k], inbox'[t][j] # NoTag
        PROVE  j = k
    <3>1. CASE t = s
      BY <1>3, <1>5, <2>1, <3>1 DEF Distinct
    <3>2. CASE t # s
      BY <1>5, <2>1, <3>2 DEF MInv, OnePlace
    <3>3. QED
      BY <3>1, <3>2
  <2>2. ASSUME NEW t \in ServerIds PROVE SentTo(t)' \cap active'[t] = {}
    <3>1. SentTo(t) \cap active[t] = {}
      BY DEF MInv, OnePlace
    <3>2. QED
      BY <1>6, <1>9, <3>1
  <2>3. ASSUME NEW t \in ServerIds PROVE OnServer(t)' \cap replies' = {}
    BY <1>4, <1>10 DEF MInv, OnePlace
  <2>4. ASSUME NEW t \in ServerIds, NEW v \in ServerIds, t # v
        PROVE  OnServer(t)' \cap OnServer(v)' = {}
    BY <1>10, <2>4 DEF MInv, OnePlace
  <2>5. QED
    BY <2>1, <2>2, <2>3, <2>4 DEF OnePlace
<1>17. SimulatedOnce'
  <2> DEFINE done == (UNION {active[t] : t \in ServerIds})
                       \cup replies \cup delivered \cup (raw \cap coreQueue)
  <2>1. \A t, v \in ServerIds : t # v => active'[t] \cap active'[v] = {}
    BY <1>16 DEF OnePlace, OnServer
  <2>2. CASE id = NoTag
    BY <1>4, <2>2, NothingSimulated DEF MInv, masterVars
  <2>3. CASE id # NoTag
    <3>1. id \in InFlight /\ id \notin replies
      BY <1>7, <2>3, FlightFacts DEF MInv, OnePlace, OnServer
    <3>2. id \notin delivered /\ id \notin raw
      BY <3>1 DEF MInv, Bookkeeping
    <3>3. ASSUME NEW t \in ServerIds PROVE id \notin active[t]
      <4>1. t # s => OnServer(s) \cap OnServer(t) = {}
        BY DEF MInv, OnePlace
      <4>2. SentTo(s) \cap active[s] = {}
        BY DEF MInv, OnePlace
      <4>3. QED
        BY <1>7, <2>3, <4>1, <4>2 DEF OnServer
    <3>4. id \notin done
      BY <3>1, <3>2, <3>3
    <3>5. done' = done \cup {id}
      <4>1. UNION {active'[t] : t \in ServerIds}
              = (UNION {active[t] : t \in ServerIds}) \cup {id}
        <5>1. ASSUME NEW x
              PROVE  (\E t \in ServerIds : x \in active'[t])
                       <=> x = id \/ \E t \in ServerIds : x \in active[t]
          BY <1>6, <2>3
        <5>2. QED
          BY <5>1
      <4>2. done' = (UNION {active'[t] : t \in ServerIds})
                      \cup replies \cup delivered \cup (raw \cap coreQueue)
        BY <1>4 DEF masterVars
      <4>3. QED
        BY <4>1, <4>2
    <3>6. \A x \in Evals : runs[x] = IF x \in done THEN 1 ELSE 0
      BY DEF MInv, SimulatedOnce
    <3> HIDE DEF done
    <3>7. \A x \in Evals : runs'[x] = IF x \in done' THEN 1 ELSE 0
      BY <1>1, <1>4, <1>7, <2>3, <3>4, <3>5, <3>6
    <3>8. QED
      BY <2>1, <3>7 DEF SimulatedOnce, done
  <2>4. QED
    BY <2>2, <2>3
<1>18. QED
  BY <1>13, <1>14, <1>15, <1>16, <1>17 DEF MInv

LEMMA ServerReturnMInv ==
  ASSUME MInv, NEW s \in ServerIds, NEW id \in Evals, ServerReturn(s, id)
  PROVE  MInv'
<1> USE DEF ServerReturn, masterVars
<1>1. active \in [ServerIds -> SUBSET Evals] /\ id \in active[s] /\ replies \subseteq Evals
  BY DEF MInv, TypeOK
<1>2. /\ \A t \in ServerIds : t # s => active'[t] = active[t]
      /\ active'[s] = active[s] \ {id}
      /\ active' \in [ServerIds -> SUBSET Evals]
  BY <1>1
<1>3. \A t \in ServerIds : SentTo(t)' = SentTo(t)
  BY DEF SentTo
<1>4. /\ id \notin SentTo(s) /\ id \in OnServer(s) /\ id \notin replies
      /\ \A t \in ServerIds : t # s => id \notin OnServer(t)
  BY <1>1 DEF MInv, OnePlace, OnServer
<1>5. /\ OnServer(s)' = OnServer(s) \ {id}
      /\ \A t \in ServerIds : t # s => OnServer(t)' = OnServer(t)
  BY <1>2, <1>3, <1>4 DEF OnServer
<1>6. InFlight' = InFlight
  <2>1. ASSUME NEW x
        PROVE  x \in InFlight' <=> x \in replies' \/ \E t \in ServerIds : x \in OnServer(t)'
    BY DEF InFlight, OnServers, OnServer
  <2>2. ASSUME NEW x PROVE x \in InFlight' <=> x \in InFlight
    BY <1>4, <1>5, <2>1, FlightFacts
  <2>3. QED
    BY <2>2
<1>7. Blocking' <=> Blocking
  BY DEF Blocking
<1>8. BuffersExclusive' /\ InLane'
  BY <1>5, <1>6, <1>7, RequestsKept
<1>9. Bookkeeping'
  BY <1>6, <1>7, BooksKept
<1>10. TypeOK' /\ NeverAborts' /\ Tags'
  BY <1>1, <1>2 DEF MInv, TypeOK, NeverAborts, Tags
<1>11. OnePlace'
  <2>1. \A t \in ServerIds : \A j, k \in DOMAIN inbox'[t] :
          inbox'[t][j] = inbox'[t][k] /\ inbox'[t][j] # NoTag => j = k
    BY DEF MInv, OnePlace
  <2>2. ASSUME NEW t \in ServerIds
        PROVE  SentTo(t)' \cap active'[t] = {} /\ OnServer(t)' \cap replies' = {}
    <3>1. SentTo(t) \cap active[t] = {} /\ OnServer(t) \cap replies = {}
      BY DEF MInv, OnePlace
    <3>2. QED
      BY <1>2, <1>3, <1>4, <1>5, <3>1
  <2>3. ASSUME NEW t \in ServerIds, NEW v \in ServerIds, t # v
        PROVE  OnServer(t)' \cap OnServer(v)' = {}
    <3>1. OnServer(t) \cap OnServer(v) = {}
      BY <2>3 DEF MInv, OnePlace
    <3>2. OnServer(t)' \subseteq OnServer(t) /\ OnServer(v)' \subseteq OnServer(v)
      BY <1>5
    <3>3. QED
      BY <3>1, <3>2
  <2>4. QED
    BY <2>1, <2>2, <2>3 DEF OnePlace
<1>12. SimulatedOnce'
  <2> DEFINE done == (UNION {active[t] : t \in ServerIds})
                       \cup replies \cup delivered \cup (raw \cap coreQueue)
  <2>1. \A t, v \in ServerIds : t # v => active'[t] \cap active'[v] = {}
    BY <1>11 DEF OnePlace, OnServer
  <2>2. done' = done
    <3>1. (UNION {active'[t] : t \in ServerIds}) \cup {id}
            = (UNION {active[t] : t \in ServerIds}) \cup {id}
      <4>1. ASSUME NEW x
            PROVE  x = id \/ (\E t \in ServerIds : x \in active'[t])
                     <=> x = id \/ (\E t \in ServerIds : x \in active[t])
        BY <1>2
      <4>2. QED
        BY <4>1
    <3>2. id \in UNION {active[t] : t \in ServerIds}
      BY <1>1
    <3>3. done' = (UNION {active'[t] : t \in ServerIds})
                    \cup (replies \cup {id}) \cup delivered \cup (raw \cap coreQueue)
      OBVIOUS
    <3>4. QED
      BY <3>1, <3>2, <3>3
  <2>3. \A x \in Evals : runs[x] = IF x \in done THEN 1 ELSE 0
    BY DEF MInv, SimulatedOnce
  <2> HIDE DEF done
  <2>4. \A x \in Evals : runs'[x] = IF x \in done' THEN 1 ELSE 0
    BY <2>2, <2>3
  <2>5. QED
    BY <2>1, <2>4 DEF SimulatedOnce, done
<1>13. QED
  BY <1>8, <1>9, <1>10, <1>11, <1>12 DEF MInv

LEMMA StopServersMInv ==
  ASSUME MInv, StopServers
  PROVE  MInv'
<1> USE DEF StopServers, serverVars
<1>1. inbox \in [ServerIds -> Seq(0 .. MaxEvals)] /\ NoTag \in 0 .. MaxEvals
  BY ConstantsAssumption DEF MInv, TypeOK, NoTag
<1>2. ASSUME NEW s \in ServerIds
      PROVE  /\ inbox'[s] \in Seq(0 .. MaxEvals)
             /\ Elems(inbox'[s]) = Elems(inbox[s]) \cup {NoTag}
             /\ \A k \in DOMAIN inbox'[s] :
                  \/ k \in DOMAIN inbox[s] /\ inbox'[s][k] = inbox[s][k]
                  \/ k = Len(inbox'[s]) /\ inbox'[s][k] = NoTag
  BY <1>1, OneMore
<1>3. inbox' \in [ServerIds -> Seq(0 .. MaxEvals)]
  <2>1. inbox' = [s \in ServerIds |-> inbox'[s]]
    OBVIOUS
  <2>2. QED
    BY <1>2, <2>1
<1>4. \A s \in ServerIds : SentTo(s)' = SentTo(s) /\ OnServer(s)' = OnServer(s)
  <2>1. \A s \in ServerIds : SentTo(s)' = Elems(inbox'[s]) \ {NoTag}
    BY DEF SentTo, Elems
  <2>2. ASSUME NEW s \in ServerIds PROVE SentTo(s)' = SentTo(s)
    <3>1. SentTo(s) = Elems(inbox[s]) \ {NoTag}
      BY FlightFacts
    <3>2. Elems(inbox'[s]) = Elems(inbox[s]) \cup {NoTag}
      BY <1>2
    <3>3. SentTo(s)' = Elems(inbox'[s]) \ {NoTag}
      BY <2>1
    <3> HIDE DEF StopServers
    <3>4. QED
      BY <3>1, <3>2, <3>3
  <2>3. QED
    BY <2>2 DEF OnServer
<1>5. InFlight' = InFlight
  <2>1. /\ InFlight = (UNION {OnServer(t) : t \in ServerIds}) \cup replies
        /\ InFlight' = (UNION {OnServer(t)' : t \in ServerIds}) \cup replies'
    BY DEF InFlight, OnServers, OnServer
  <2>2. QED
    BY <1>4, <2>1
<1>6. Blocking' <=> Blocking
  BY DEF Blocking
<1>7. BuffersExclusive' /\ InLane'
  BY <1>4, <1>5, <1>6, RequestsKept
<1>8. Bookkeeping'
  BY <1>5, <1>6, BooksKept
<1>9. TypeOK' /\ NeverAborts'
  BY <1>3 DEF MInv, TypeOK, NeverAborts
<1>10. Tags'
  <2>1. \A s \in ServerIds : \A k \in DOMAIN inbox[s] : inbox[s][k] # NoTag
    BY DEF MInv, Tags
  <2>2. stopped = {}
    BY DEF MInv, Tags
  <2>3. QED
    BY <1>2, <2>1, <2>2 DEF Tags
<1>11. OnePlace'
  <2>1. \A s \in ServerIds : \A j, k \in DOMAIN inbox'[s] :
          inbox'[s][j] = inbox'[s][k] /\ inbox'[s][j] # NoTag => j = k
    BY <1>2 DEF MInv, OnePlace
  <2>2. QED
    BY <1>4, <2>1 DEF MInv, OnePlace
<1>12. SimulatedOnce'
  BY NothingSimulated DEF MInv
<1>13. QED
  BY <1>7, <1>8, <1>9, <1>10, <1>11, <1>12 DEF MInv

-----------------------------------------------------------------------------
(* The steps of the blocking scheduler.                                    *)

(* What a first pass sends, and to whom.                                   *)
LEMMA PassFacts ==
  ASSUME coreQueue \in SUBSET Evals
  PROVE  /\ NumSends \in Nat
         /\ FirstJobs(NumSends) \subseteq coreQueue
         /\ \A i \in 0 .. (NumSends - 1) :
              /\ i \in Indices /\ Nth(coreQueue, i) \in FirstJobs(NumSends)
              /\ Place(coreQueue, Nth(coreQueue, i)) = i
         /\ \A id \in FirstJobs(NumSends) :
              /\ Place(coreQueue, id) \in 0 .. (NumSends - 1)
              /\ Nth(coreQueue, Place(coreQueue, id)) = id
         /\ ~(NumSends < Cardinality(coreQueue)) => FirstJobs(NumSends) = coreQueue
         /\ \A s \in ServerIds :
              /\ Dealt(s) \in Seq(Evals) /\ Distinct(Dealt(s))
              /\ Elems(Dealt(s)) = {id \in FirstJobs(NumSends) :
                                      ServerOf(Place(coreQueue, id)) = s}
<1> DEFINE n == NumSends
           c == Cardinality(coreQueue)
<1>1. IsFiniteSet(coreQueue) /\ coreQueue \subseteq Int
  BY FiniteParts
<1>2. /\ c \in Nat
      /\ \A x \in coreQueue : Place(coreQueue, x) \in 0 .. (c - 1)
      /\ \A i \in 0 .. (c - 1) :
           Nth(coreQueue, i) \in coreQueue /\ Place(coreQueue, Nth(coreQueue, i)) = i
      /\ \A x \in coreQueue : Nth(coreQueue, Place(coreQueue, x)) = x
  BY <1>1, WalkFacts
<1>3. n \in Nat /\ n <= Capacity /\ n <= c /\ (n = c \/ n < c)
  BY <1>2, Counts DEF NumSends, MinOf
<1>4. /\ FirstJobs(n) = {id \in coreQueue : Place(coreQueue, id) < n}
      /\ \A s : Dealt(s) = InOrder({id \in FirstJobs(n) :
                                      ServerOf(Place(coreQueue, id)) = s})
  BY DEF FirstJobs, FirstOf, Dealt
<1> HIDE DEF n, c
<1>5. ASSUME NEW i \in 0 .. (n - 1)
      PROVE  /\ i \in Indices /\ Nth(coreQueue, i) \in FirstJobs(n)
             /\ Place(coreQueue, Nth(coreQueue, i)) = i
  <2>1. i \in Nat /\ i < Capacity /\ i \in 0 .. (c - 1) /\ i < n
    BY <1>2, <1>3, Counts
  <2>2. QED
    BY <1>2, <1>4, <2>1, Counts
<1>6. ASSUME NEW id \in FirstJobs(n)
      PROVE  /\ Place(coreQueue, id) \in 0 .. (n - 1)
             /\ Nth(coreQueue, Place(coreQueue, id)) = id
  BY <1>2, <1>3, <1>4
<1>7. ASSUME ~(n < c) PROVE FirstJobs(n) = coreQueue
  <2>1. \A x \in coreQueue : Place(coreQueue, x) < n
    BY <1>2, <1>3, <1>7
  <2>2. QED
    BY <1>4, <2>1
<1>8. FirstJobs(n) \subseteq coreQueue
  BY <1>4
<1>9. ASSUME NEW s \in ServerIds
      PROVE  /\ Dealt(s) \in Seq(Evals) /\ Distinct(Dealt(s))
             /\ Elems(Dealt(s)) = {id \in FirstJobs(n) :
                                     ServerOf(Place(coreQueue, id)) = s}
  <2> DEFINE S == {id \in FirstJobs(n) : ServerOf(Place(coreQueue, id)) = s}
  <2>1. S \in SUBSET Evals
    BY <1>8
  <2>2. Dealt(s) = InOrder(S)
    BY <1>4
  <2> HIDE DEF S
  <2>3. Dealt(s) \in Seq(Evals) /\ Distinct(Dealt(s)) /\ Elems(Dealt(s)) = S
    BY <2>1, <2>2, InOrderFacts
  <2>4. QED
    BY <2>3 DEF S
<1>10. QED
  BY <1>3, <1>5, <1>6, <1>7, <1>8, <1>9 DEF n, c

(* A first pass starts with no job in flight, and deals its jobs.          *)
LEMMA PassDeals ==
  ASSUME MInv, ~Blocking, runningMap = {},
         NEW q, q = [s \in ServerIds |-> Dealt(s)]
  PROVE  /\ InFlight = {} /\ \A b \in Indices : recvRequests[b] = NoTag
         /\ q \in [ServerIds -> Seq(Evals)] /\ \A s \in ServerIds : Distinct(q[s])
         /\ \A s, t \in ServerIds : s # t => Elems(q[s]) \cap Elems(q[t]) = {}
         /\ \A x : x \in FirstJobs(NumSends)
                     <=> \E s \in ServerIds : x \in Elems(q[s])
         /\ FirstJobs(NumSends) \subseteq Evals
<1>1. coreQueue \in SUBSET Evals
  BY DEF MInv, TypeOK
<1>2. InFlight = {} /\ \A b \in Indices : recvRequests[b] = NoTag
  <2>1. InFlight = {}
    BY DEF MInv, Bookkeeping, RunningIds
  <2>2. QED
    BY <2>1 DEF MInv, BuffersExclusive
<1> DEFINE F == FirstJobs(NumSends)
           to(id) == ServerOf(Place(coreQueue, id))
<1>3. /\ F \subseteq coreQueue
      /\ \A id \in F : to(id) \in ServerIds
      /\ \A s \in ServerIds : /\ Dealt(s) \in Seq(Evals) /\ Distinct(Dealt(s))
                              /\ Elems(Dealt(s)) = {id \in F : to(id) = s}
  <2>1. \A id \in F : Place(coreQueue, id) \in 0 .. (NumSends - 1)
    BY <1>1, PassFacts
  <2>2. \A i \in 0 .. (NumSends - 1) : i \in Indices
    BY <1>1, PassFacts
  <2>3. \A id \in F : to(id) \in ServerIds
    BY <2>1, <2>2, Dealing
  <2>4. QED
    BY <1>1, <2>3, PassFacts
<1> HIDE DEF F, to
<1>4. /\ q \in [ServerIds -> Seq(Evals)]
      /\ \A s \in ServerIds : Distinct(q[s]) /\ Elems(q[s]) = {id \in F : to(id) = s}
  BY <1>3
<1>5. \A s, t \in ServerIds : s # t => Elems(q[s]) \cap Elems(q[t]) = {}
  BY <1>4
<1>6. \A x : x \in F <=> \E s \in ServerIds : x \in Elems(q[s])
  BY <1>3, <1>4
<1>7. QED
  BY <1>1, <1>2, <1>3, <1>4, <1>5, <1>6 DEF F

LEMMA ScheduleStartMInv ==
  ASSUME MInv, ScheduleStart
  PROVE  MInv'
<1> USE DEF ScheduleStart, serverVars
<1> DEFINE q == [s \in ServerIds |-> Dealt(s)]
           F == FirstJobs(NumSends)
<1>1. coreQueue \in SUBSET Evals /\ ~Blocking /\ Blocking'
      /\ pc # "stopped" /\ pc' # "stopped"
  BY DEF MInv, TypeOK, Blocking
<1>2. /\ InFlight = {} /\ \A b \in Indices : recvRequests[b] = NoTag
      /\ q \in [ServerIds -> Seq(Evals)] /\ \A s \in ServerIds : Distinct(q[s])
      /\ \A s, t \in ServerIds : s # t => Elems(q[s]) \cap Elems(q[t]) = {}
      /\ \A x : x \in F <=> \E s \in ServerIds : x \in Elems(q[s])
      /\ F \subseteq Evals
  BY <1>1, PassDeals
<1>3. \A s \in ServerIds : q[s] = Dealt(s)
  OBVIOUS
<1>4. inbox' = [s \in ServerIds |-> inbox[s] \o q[s]]
  BY <1>3
<1>5. /\ NumSends \in Nat /\ F \subseteq coreQueue
      /\ \A i \in 0 .. (NumSends - 1) :
           /\ i \in Indices /\ Nth(coreQueue, i) \in F
           /\ Place(coreQueue, Nth(coreQueue, i)) = i
      /\ \A id \in F :
           /\ Place(coreQueue, id) \in 0 .. (NumSends - 1)
           /\ Nth(coreQueue, Place(coreQueue, id)) = id
      /\ ~(NumSends < Cardinality(coreQueue)) => F = coreQueue
      /\ \A s \in ServerIds :
           Elems(q[s]) = {id \in F : ServerOf(Place(coreQueue, id)) = s}
  BY <1>1, PassFacts
<1> HIDE DEF F, q
<1>6. \A b \in Indices :
        IF b < NumSends
          THEN /\ b \in 0 .. (NumSends - 1) /\ recvRequests'[b] = Nth(coreQueue, b)
               /\ recvRequests'[b] \in F /\ Place(coreQueue, recvRequests'[b]) = b
          ELSE recvRequests'[b] = NoTag
  <2>1. SUFFICES ASSUME NEW b \in Indices, b < NumSends
                 PROVE  b \in 0 .. (NumSends - 1)
    BY <1>5
  <2>2. b \in Nat
    BY Counts
  <2>3. QED
    BY <1>5, <2>1, <2>2
<1>7. recvRequests' \in [Indices -> 0 .. MaxEvals]
  <2>1. Evals \subseteq 0 .. MaxEvals /\ NoTag \in 0 .. MaxEvals
    BY ConstantsAssumption DEF Evals, NoTag
  <2>2. \A b \in Indices : recvRequests'[b] \in 0 .. MaxEvals
    BY <1>2, <1>6, <2>1
  <2>3. recvRequests' = [b \in Indices |-> recvRequests'[b]]
    OBVIOUS
  <2>4. QED
    BY <2>2, <2>3
<1>8. NoTag \notin F
  BY <1>2, FiniteParts
<1>9. Deals(q, Indices, {}, F)
  <2>1. \A b \in Indices : recvRequests'[b] \in F \cup {NoTag}
    BY <1>6
  <2>2. ASSUME NEW x \in F PROVE \E b \in Indices : recvRequests'[b] = x
    <3>1. Place(coreQueue, x) \in Indices /\ Place(coreQueue, x) < NumSends
      BY <1>5, <2>2
    <3>2. QED
      BY <1>5, <1>6, <2>2, <3>1
  <2>3. ASSUME NEW b \in Indices, NEW c \in Indices,
               recvRequests'[b] = recvRequests'[c], recvRequests'[b] # NoTag
        PROVE  b = c
    BY <1>6, <2>3
  <2>4. ASSUME NEW s \in ServerIds, NEW b \in Indices, recvRequests'[b] \in Elems(q[s])
        PROVE  b \in Lane(s)'
    <3>1. recvRequests'[b] \in F
          /\ ServerOf(Place(coreQueue, recvRequests'[b])) = s
      BY <1>5, <2>4
    <3>2. Place(coreQueue, recvRequests'[b]) = b
      BY <1>6, <1>8, <3>1
    <3>3. ServerOf(b) = s
      BY <3>1, <3>2
    <3>4. QED
      BY <1>1, <3>3 DEF Lane
  <2> HIDE DEF ScheduleStart
  <2>5. active' = active /\ stopped' = stopped /\ replies' = replies \ {}
    BY DEF ScheduleStart
  <2>6. QED
    BY <1>1, <1>2, <1>4, <1>7, <2>1, <2>2, <2>3, <2>4, <2>5 DEF Deals
<1>10. /\ inbox' \in [ServerIds -> Seq(0 .. MaxEvals)]
       /\ InFlight' = (InFlight \ {}) \cup F
       /\ Tags' /\ OnePlace' /\ BuffersExclusive' /\ InLane'
  BY <1>9, DealsFacts
<1>11. InFlight' = F
  BY <1>2, <1>10
<1>12. TypeOK' /\ NeverAborts'
  <2>1. sent' \in SUBSET Evals /\ raw' \in SUBSET Evals
    BY <1>2 DEF F
  <2>2. pc' \in {"waitsome", "waitall"}
    OBVIOUS
  <2> HIDE DEF ScheduleStart
  <2>3. UNCHANGED <<evalIdCntr, coreQueue, runningMap, delivered, active, stopped,
                    replies, runs>>
    BY DEF ScheduleStart
  <2>4. QED
    BY <1>7, <1>10, <2>1, <2>2, <2>3 DEF MInv, TypeOK, NeverAborts
<1>13. Bookkeeping'
  <2>1. NumSends' = NumSends
    BY DEF NumSends
  <2>2. sent' = F /\ raw' = {} /\ runningMap' = {}
    BY DEF F
  <2>3. ASSUME pc' = "waitall"
        PROVE  /\ coreQueue' = sent'
               /\ \A b \in Indices : b >= NumSends' => recvRequests'[b] = NoTag
    <3>1. ~(NumSends < Cardinality(coreQueue))
      BY <2>3
    <3>2. \A b \in Indices : b >= NumSends => ~(b < NumSends)
      BY <1>5, Counts
    <3>3. QED
      BY <1>5, <1>6, <2>1, <2>2, <3>1, <3>2
  <2>4. coreQueue' = coreQueue /\ delivered' = delivered /\ evalIdCntr' = evalIdCntr
    OBVIOUS
  <2>5. /\ coreQueue \cup delivered \subseteq 1 .. evalIdCntr
        /\ coreQueue \cap delivered = {}
    BY DEF MInv, Bookkeeping
  <2> HIDE DEF ScheduleStart
  <2>6. QED
    BY <1>1, <1>5, <1>11, <2>2, <2>3, <2>4, <2>5 DEF Bookkeeping
<1>14. SimulatedOnce'
  <2>1. raw \cap coreQueue = {}
    BY <1>1 DEF MInv, Bookkeeping
  <2>2. QED
    BY <2>1, NothingSimulated DEF MInv
<1>15. QED
  BY <1>10, <1>12, <1>13, <1>14 DEF MInv

(* Nothing is sent.                                                        *)
LEMMA NoSends ==
  ASSUME inbox \in [ServerIds -> Seq(0 .. MaxEvals)],
         NEW q, q = [s \in ServerIds |-> <<>>]
  PROVE  /\ q \in [ServerIds -> Seq(Evals)]
         /\ \A s \in ServerIds : Distinct(q[s]) /\ Elems(q[s]) = {}
         /\ inbox = [s \in ServerIds |-> inbox[s] \o q[s]]
<1>1. q \in [ServerIds -> Seq(Evals)]
  BY EmptySeq
<1>2. Elems(<<>>) = {} /\ Distinct(<<>>)
  <2>1. DOMAIN <<>> = {}
    OBVIOUS
  <2>2. QED
    BY <2>1 DEF Elems, Distinct
<1>3. \A s \in ServerIds : inbox[s] \o q[s] = inbox[s]
  BY ConcatEmptySeq
<1>4. inbox = [s \in ServerIds |-> inbox[s] \o q[s]]
  BY <1>3
<1>5. QED
  BY <1>1, <1>2, <1>4

(* One job is sent.                                                        *)
SendOne(t, x) == [s \in ServerIds |-> IF s = t THEN <<x>> ELSE <<>>]

LEMMA OneSend ==
  ASSUME inbox \in [ServerIds -> Seq(0 .. MaxEvals)],
         NEW t \in ServerIds, NEW x \in Evals
  PROVE  /\ SendOne(t, x) \in [ServerIds -> Seq(Evals)]
         /\ \A s \in ServerIds :
              /\ Distinct(SendOne(t, x)[s])
              /\ Elems(SendOne(t, x)[s]) = IF s = t THEN {x} ELSE {}
              /\ inbox[s] \o SendOne(t, x)[s]
                   = IF s = t THEN Append(inbox[s], x) ELSE inbox[s]
<1> DEFINE q == SendOne(t, x)
<1>1. <<x>> \in Seq(Evals) /\ <<>> \in Seq(Evals)
  OBVIOUS
<1>2. q \in [ServerIds -> Seq(Evals)]
  BY <1>1 DEF SendOne
<1>3. /\ Elems(<<>>) = {} /\ Distinct(<<>>)
      /\ Elems(<<x>>) = {x} /\ Distinct(<<x>>)
  <2>1. DOMAIN <<>> = {} /\ DOMAIN <<x>> = {1} /\ <<x>>[1] = x
    OBVIOUS
  <2>2. QED
    BY <2>1 DEF Elems, Distinct
<1>4. \A s \in ServerIds : q[s] = IF s = t THEN <<x>> ELSE <<>>
  BY DEF SendOne
<1>5. x \in 0 .. MaxEvals
  BY DEF Evals
<1>6. Append(inbox[t], x) = inbox[t] \o <<x>>
  BY <1>5, AppendIsConcat
<1>7. \A s \in ServerIds : inbox[s] \o <<>> = inbox[s]
  BY ConcatEmptySeq
<1> HIDE DEF q
<1>8. \A s \in ServerIds :
        inbox[s] \o q[s] = IF s = t THEN Append(inbox[s], x) ELSE inbox[s]
  BY <1>4, <1>6, <1>7, Zenon
<1>9. \A s \in ServerIds : Distinct(q[s]) /\ Elems(q[s]) = IF s = t THEN {x} ELSE {}
  BY <1>3, <1>4, Zenon
<1>10. QED
  BY <1>2, <1>8, <1>9 DEF q

LEMMA WaitSomeMInv ==
  ASSUME MInv, NEW b \in Indices, WaitSome(b)
  PROVE  MInv'
<1> DEFINE x == recvRequests[b]
           next == Nth(coreQueue \ sent, 0)
<1>1. /\ pc = "waitsome" /\ x \in replies /\ raw' = raw \cup {x}
      /\ replies' = replies \ {x}
      /\ UNCHANGED <<evalIdCntr, coreQueue, runningMap, pc, delivered, active,
                     stopped, runs>>
  BY DEF WaitSome, Complete
<1>2. \/ /\ recvRequests' = [recvRequests EXCEPT ![b] = NoTag]
         /\ sent' = sent /\ inbox' = inbox
      \/ /\ ~(coreQueue \subseteq sent)
         /\ recvRequests' = [recvRequests EXCEPT ![b] = next]
         /\ inbox' = [inbox EXCEPT ![ServerOf(b)] = Append(@, next)]
         /\ sent' = sent \cup {next}
  BY DEF WaitSome
<1>3. /\ Blocking /\ Blocking' /\ pc' # "stopped"
      /\ coreQueue \in SUBSET Evals /\ raw \in SUBSET Evals /\ sent \in SUBSET Evals
      /\ replies \in SUBSET Evals
      /\ inbox \in [ServerIds -> Seq(0 .. MaxEvals)]
      /\ recvRequests \in [Indices -> 0 .. MaxEvals]
  BY <1>1 DEF Blocking, MInv, TypeOK
<1>4. Evals \subseteq 0 .. MaxEvals /\ NoTag \in 0 .. MaxEvals /\ NoTag \notin Evals
  BY ConstantsAssumption DEF Evals, NoTag
<1>5. /\ runningMap = {} /\ raw \subseteq coreQueue /\ sent = raw \cup InFlight
      /\ InFlight \subseteq coreQueue /\ raw \cap InFlight = {}
      /\ coreQueue \cup delivered \subseteq 1 .. evalIdCntr
      /\ coreQueue \cap delivered = {}
  BY <1>3 DEF MInv, Bookkeeping
<1>6. x \in InFlight /\ x \in Evals /\ x # NoTag
  BY <1>1, <1>3, <1>4, FlightFacts
<1>7. \A c \in Indices : c # b => recvRequests[c] # x
  BY <1>6 DEF MInv, BuffersExclusive
<1> HIDE DEF x, next
<1>8. /\ recvRequests' \in [Indices -> 0 .. MaxEvals]
      /\ inbox' \in [ServerIds -> Seq(0 .. MaxEvals)] /\ sent' \in SUBSET Evals
      /\ replies' \in SUBSET Evals
      /\ sent' = raw' \cup InFlight' /\ InFlight' \subseteq coreQueue
      /\ raw' \cap InFlight' = {}
      /\ Tags' /\ OnePlace' /\ BuffersExclusive' /\ InLane'
  <2>1. CASE /\ recvRequests' = [recvRequests EXCEPT ![b] = NoTag]
             /\ sent' = sent /\ inbox' = inbox
    <3> DEFINE q == [s \in ServerIds |-> <<>>]
    <3>1. /\ q \in [ServerIds -> Seq(Evals)]
          /\ \A s \in ServerIds : Distinct(q[s]) /\ Elems(q[s]) = {}
          /\ inbox = [s \in ServerIds |-> inbox[s] \o q[s]]
      BY <1>3, NoSends
    <3> HIDE DEF q
    <3>2. /\ recvRequests' \in [Indices -> 0 .. MaxEvals]
          /\ recvRequests'[b] = NoTag
          /\ \A c \in Indices : c # b => recvRequests'[c] = recvRequests[c]
      BY <1>3, <1>4, <2>1
    <3>3. Deals(q, {b}, {x}, {})
      <4>1. inbox' = [s \in ServerIds |-> inbox[s] \o q[s]]
        BY <2>1, <3>1, Zenon
      <4>2. recvRequests[b] = x
        BY DEF x
      <4>3. QED
        BY <1>1, <1>3, <1>7, <3>1, <3>2, <4>1, <4>2 DEF Deals
    <3>4. /\ inbox' \in [ServerIds -> Seq(0 .. MaxEvals)] /\ replies' \in SUBSET Evals
          /\ InFlight' = (InFlight \ {x}) \cup {}
          /\ Tags' /\ OnePlace' /\ BuffersExclusive' /\ InLane'
      BY <3>3, DealsFacts
    <3>5. QED
      BY <1>1, <1>3, <1>5, <1>6, <2>1, <3>2, <3>4
  <2>2. CASE /\ ~(coreQueue \subseteq sent)
             /\ recvRequests' = [recvRequests EXCEPT ![b] = next]
             /\ inbox' = [inbox EXCEPT ![ServerOf(b)] = Append(@, next)]
             /\ sent' = sent \cup {next}
    <3> DEFINE q == SendOne(ServerOf(b), next)
    <3>1. next \in coreQueue \ sent
      <4> DEFINE S == coreQueue \ sent
      <4>1. IsFiniteSet(S) /\ S \subseteq Int /\ Cardinality(S) \in Nat /\ S # {}
        BY <1>3, <2>2, FiniteParts
      <4> HIDE DEF S
      <4>2. Cardinality(S) # 0
        BY <4>1, FS_EmptySet
      <4>3. 0 \in 0 .. (Cardinality(S) - 1)
        BY <4>1, <4>2
      <4>4. Nth(S, 0) \in S
        BY <4>1, <4>3, WalkFacts
      <4>5. QED
        BY <4>4 DEF S, next
    <3>2. next \in Evals /\ next \notin InFlight /\ next \notin raw /\ next # x
          /\ next # NoTag
      BY <1>3, <1>4, <1>5, <1>6, <3>1
    <3>3. ServerOf(b) \in ServerIds
      BY Dealing
    <3>4. /\ q \in [ServerIds -> Seq(Evals)]
          /\ \A s \in ServerIds :
               /\ Distinct(q[s])
               /\ Elems(q[s]) = IF s = ServerOf(b) THEN {next} ELSE {}
               /\ inbox[s] \o q[s]
                    = IF s = ServerOf(b) THEN Append(inbox[s], next) ELSE inbox[s]
      BY <1>3, <3>2, <3>3, OneSend
    <3> HIDE DEF q
    <3>5. /\ recvRequests' \in [Indices -> 0 .. MaxEvals]
          /\ recvRequests'[b] = next
          /\ \A c \in Indices : c # b => recvRequests'[c] = recvRequests[c]
      BY <1>3, <1>4, <2>2, <3>2
    <3>6. Deals(q, {b}, {x}, {next})
      <4>1. inbox' = [s \in ServerIds |-> inbox[s] \o q[s]]
        <5>1. inbox' = [s \in ServerIds |-> IF s = ServerOf(b)
                                            THEN Append(inbox[s], next) ELSE inbox[s]]
          BY <1>3, <2>2
        <5>2. QED
          BY <3>4, <5>1
      <4>2. recvRequests[b] = x
        BY DEF x
      <4>3. ASSUME NEW s \in ServerIds, next \in Elems(q[s]) PROVE b \in Lane(s)'
        <5>1. s = ServerOf(b)
          BY <3>4, <4>3
        <5>2. QED
          BY <1>3, <5>1 DEF Lane
      <4>4. \A y : y \in {next} <=> \E s \in ServerIds : y \in Elems(q[s])
        BY <3>3, <3>4
      <4>5. \A s, t \in ServerIds : s # t => Elems(q[s]) \cap Elems(q[t]) = {}
        BY <3>4
      <4>6. /\ {next} \subseteq Evals /\ {next} \cap InFlight = {}
            /\ {b} \subseteq Indices /\ {x} \subseteq replies
        BY <1>1, <3>2
      <4>7. /\ \A c \in Indices \ {b} :
                 recvRequests'[c] = recvRequests[c] /\ recvRequests[c] \notin {x}
            /\ \A c \in {b} : /\ recvRequests[c] \in {x} \cup {NoTag}
                             /\ recvRequests'[c] \in {next} \cup {NoTag}
            /\ \A y \in {next} : \E c \in {b} : recvRequests'[c] = y
            /\ \A c, d \in {b} : c = d
        BY <1>7, <3>5, <4>2
      <4>8. \A s \in ServerIds, c \in {b} :
              recvRequests'[c] \in Elems(q[s]) => c \in Lane(s)'
        BY <3>5, <4>3
      <4>9. QED
        BY <1>1, <1>3, <3>4, <3>5, <4>1, <4>4, <4>5, <4>6, <4>7, <4>8 DEF Deals
    <3>7. /\ inbox' \in [ServerIds -> Seq(0 .. MaxEvals)] /\ replies' \in SUBSET Evals
          /\ InFlight' = (InFlight \ {x}) \cup {next}
          /\ Tags' /\ OnePlace' /\ BuffersExclusive' /\ InLane'
      BY <3>6, DealsFacts
    <3>8. /\ sent' = raw' \cup InFlight' /\ InFlight' \subseteq coreQueue
          /\ raw' \cap InFlight' = {}
      BY <1>1, <1>5, <1>6, <2>2, <3>1, <3>2, <3>7
    <3>9. QED
      BY <1>3, <2>2, <3>2, <3>5, <3>7, <3>8
  <2>3. QED
    BY <1>2, <2>1, <2>2
<1>9. TypeOK' /\ NeverAborts'
  BY <1>1, <1>3, <1>6, <1>8 DEF MInv, TypeOK, NeverAborts
<1>10. Bookkeeping'
  <2>1. raw' \subseteq coreQueue /\ pc' # "waitall"
    BY <1>1, <1>5, <1>6
  <2>2. QED
    BY <1>1, <1>3, <1>5, <1>8, <2>1 DEF Bookkeeping
<1>11. SimulatedOnce'
  <2>1. x \in coreQueue
    BY <1>5, <1>6
  <2>2. replies' \cup delivered' \cup (raw' \cap coreQueue')
          = replies \cup delivered \cup (raw \cap coreQueue)
    BY <1>1, <2>1
  <2>3. QED
    BY <1>1, <2>2, NothingSimulated DEF MInv
<1>12. QED
  BY <1>8, <1>9, <1>10, <1>11 DEF MInv

LEMMA WaitAllMInv ==
  ASSUME MInv, WaitAll
  PROVE  MInv'
<1> DEFINE q == [s \in ServerIds |-> <<>>]
<1>1. /\ pc = "waitall" /\ raw = {} /\ raw' = coreQueue
      /\ \A b \in 0 .. (NumSends - 1) : recvRequests[b] \in replies
      /\ replies' = replies \ coreQueue
      /\ recvRequests' = [b \in Indices |-> NoTag]
      /\ UNCHANGED <<evalIdCntr, coreQueue, runningMap, sent, pc, delivered, inbox,
                     active, stopped, runs>>
  BY DEF WaitAll, Complete
<1>2. /\ Blocking /\ Blocking' /\ pc' # "stopped"
      /\ coreQueue \in SUBSET Evals
      /\ inbox \in [ServerIds -> Seq(0 .. MaxEvals)]
  BY <1>1 DEF Blocking, MInv, TypeOK
<1>3. NoTag \in 0 .. MaxEvals /\ NoTag \notin Evals
  BY ConstantsAssumption DEF Evals, NoTag
<1>4. /\ runningMap = {} /\ coreQueue = InFlight
      /\ coreQueue = sent
      /\ \A b \in Indices : b >= NumSends => recvRequests[b] = NoTag
  BY <1>1, <1>2 DEF MInv, Bookkeeping
<1>5. NumSends \in Nat
  BY <1>2, PassFacts
<1>6. coreQueue \subseteq replies
  <2>1. SUFFICES ASSUME NEW x \in coreQueue PROVE x \in replies
    OBVIOUS
  <2>2. PICK b \in Indices : recvRequests[b] = x
    BY <1>4 DEF MInv, BuffersExclusive
  <2>3. x # NoTag /\ b \in Nat
    BY <1>2, <1>3, Counts
  <2>4. b \in 0 .. (NumSends - 1)
    BY <1>4, <1>5, <2>2, <2>3
  <2>5. QED
    BY <1>1, <2>2, <2>4
<1>7. /\ q \in [ServerIds -> Seq(Evals)]
      /\ \A s \in ServerIds : Distinct(q[s]) /\ Elems(q[s]) = {}
      /\ inbox = [s \in ServerIds |-> inbox[s] \o q[s]]
  BY <1>2, NoSends
<1> HIDE DEF q
<1>8. Deals(q, Indices, coreQueue, {})
  <2>1. inbox' = [s \in ServerIds |-> inbox[s] \o q[s]]
    BY <1>1, <1>7, Zenon
  <2>2. \A b \in Indices : recvRequests[b] \in coreQueue \cup {NoTag}
    BY <1>4 DEF MInv, BuffersExclusive
  <2>3. recvRequests' \in [Indices -> 0 .. MaxEvals]
        /\ \A b \in Indices : recvRequests'[b] = NoTag
    BY <1>1, <1>3
  <2>4. QED
    BY <1>1, <1>2, <1>6, <1>7, <2>1, <2>2, <2>3 DEF Deals
<1>9. /\ inbox' \in [ServerIds -> Seq(0 .. MaxEvals)] /\ replies' \in SUBSET Evals
      /\ InFlight' = (InFlight \ coreQueue) \cup {}
      /\ Tags' /\ OnePlace' /\ BuffersExclusive' /\ InLane'
  BY <1>8, DealsFacts
<1>10. TypeOK' /\ NeverAborts'
  <2>1. recvRequests' \in [Indices -> 0 .. MaxEvals]
    BY <1>1, <1>3
  <2>2. QED
    BY <1>1, <1>2, <1>9, <2>1 DEF MInv, TypeOK, NeverAborts
<1>11. Bookkeeping'
  <2>1. InFlight' = {}
    BY <1>4, <1>9
  <2>2. \A b \in Indices : recvRequests'[b] = NoTag
    BY <1>1
  <2>3. /\ coreQueue \cup delivered \subseteq 1 .. evalIdCntr
        /\ coreQueue \cap delivered = {}
    BY DEF MInv, Bookkeeping
  <2>4. QED
    BY <1>1, <1>2, <1>4, <2>1, <2>2, <2>3 DEF Bookkeeping
<1>12. SimulatedOnce'
  <2>1. replies' \cup delivered' \cup (raw' \cap coreQueue')
          = replies \cup delivered \cup (raw \cap coreQueue)
    BY <1>1, <1>6
  <2>2. QED
    BY <1>1, <2>1, NothingSimulated DEF MInv
<1>13. QED
  BY <1>9, <1>10, <1>11, <1>12 DEF MInv

LEMMA ScheduleReturnMInv ==
  ASSUME MInv, ScheduleReturn
  PROVE  MInv'
<1> DEFINE q == [s \in ServerIds |-> <<>>]
<1>1. /\ pc \in {"waitsome", "waitall"} /\ Cardinality(raw) >= Cardinality(coreQueue)
      /\ coreQueue' = {} /\ recvRequests' = [b \in Indices |-> NoTag]
      /\ delivered' = delivered \cup raw /\ pc' = "idle"
      /\ UNCHANGED <<evalIdCntr, raw, runningMap, sent, inbox, active, stopped,
                     replies, runs>>
  BY DEF ScheduleReturn, serverVars
<1>2. /\ Blocking /\ ~Blocking' /\ pc # "stopped" /\ pc' # "stopped"
      /\ coreQueue \in SUBSET Evals /\ raw \in SUBSET Evals /\ delivered \in SUBSET Evals
      /\ inbox \in [ServerIds -> Seq(0 .. MaxEvals)]
  BY <1>1 DEF Blocking, MInv, TypeOK
<1>3. NoTag \in 0 .. MaxEvals
  BY ConstantsAssumption DEF NoTag
<1>4. /\ runningMap = {} /\ raw \subseteq coreQueue /\ InFlight \subseteq coreQueue
      /\ raw \cap InFlight = {}
      /\ coreQueue \cup delivered \subseteq 1 .. evalIdCntr
  BY <1>2 DEF MInv, Bookkeeping
<1>5. raw = coreQueue
  <2>1. /\ IsFiniteSet(coreQueue) /\ Cardinality(coreQueue) \in Nat
        /\ Cardinality(raw) \in Nat
    BY <1>2, FiniteParts
  <2>2. /\ Cardinality(raw) <= Cardinality(coreQueue)
        /\ Cardinality(coreQueue) = Cardinality(raw) => coreQueue = raw
    BY <1>4, <2>1, FS_Subset
  <2>3. QED
    BY <1>1, <2>1, <2>2
<1>6. InFlight = {}
  BY <1>4, <1>5
<1>7. \A b \in Indices : recvRequests[b] = NoTag
  BY <1>6 DEF MInv, BuffersExclusive
<1>8. /\ q \in [ServerIds -> Seq(Evals)]
      /\ \A s \in ServerIds : Distinct(q[s]) /\ Elems(q[s]) = {}
      /\ inbox = [s \in ServerIds |-> inbox[s] \o q[s]]
  BY <1>2, NoSends
<1> HIDE DEF q
<1>9. Deals(q, Indices, {}, {})
  <2>1. inbox' = [s \in ServerIds |-> inbox[s] \o q[s]]
    BY <1>1, <1>8, Zenon
  <2>2. recvRequests' \in [Indices -> 0 .. MaxEvals]
        /\ \A b \in Indices : recvRequests'[b] = NoTag
    BY <1>1, <1>3
  <2>3. QED
    BY <1>1, <1>2, <1>6, <1>7, <1>8, <2>1, <2>2 DEF Deals
<1>10. /\ InFlight' = (InFlight \ {}) \cup {}
       /\ Tags' /\ OnePlace' /\ BuffersExclusive' /\ InLane'
  <2> DEFINE none == {}
  <2>1. Deals(q, Indices, none, none)
    BY <1>9
  <2> HIDE DEF none
  <2>2. /\ InFlight' = (InFlight \ none) \cup none
        /\ Tags' /\ OnePlace' /\ BuffersExclusive' /\ InLane'
    BY <2>1, DealsFacts
  <2>3. QED
    BY <2>2 DEF none
<1>11. TypeOK' /\ NeverAborts'
  <2>1. recvRequests' \in [Indices -> 0 .. MaxEvals]
    BY <1>1, <1>3
  <2>2. QED
    BY <1>1, <1>2, <2>1 DEF MInv, TypeOK, NeverAborts
<1>12. Bookkeeping'
  <2>1. InFlight' = {} /\ RunningIds' = {}
    BY <1>1, <1>4, <1>6, <1>10 DEF RunningIds
  <2>2. QED
    BY <1>1, <1>2, <1>4, <1>5, <2>1 DEF Bookkeeping
<1>13. SimulatedOnce'
  <2>1. replies' \cup delivered' \cup (raw' \cap coreQueue')
          = replies \cup delivered \cup (raw \cap coreQueue)
    BY <1>1, <1>5
  <2>2. QED
    BY <1>1, <2>1, NothingSimulated DEF MInv
<1>14. QED
  BY <1>10, <1>11, <1>12, <1>13 DEF MInv

-----------------------------------------------------------------------------
(* The steps of the nowait scheduler.                                      *)

(* A record of msgPassRunningMap.                                          *)
JobType == [id : Evals, server : ServerIds, index : Indices]

LEMMA JobFacts ==
  /\ \A x, s, b : Job(x, s, b).id = x /\ Job(x, s, b).server = s
                    /\ Job(x, s, b).index = b
  /\ \A x \in Evals, s \in ServerIds, b \in Indices : Job(x, s, b) \in JobType
  /\ \A r \in JobType : r.id \in Evals /\ r.server \in ServerIds /\ r.index \in Indices
  /\ \A r, p \in JobType : r.id = p.id /\ r.server = p.server /\ r.index = p.index
                             => r = p
BY DEF Job, JobType

(* Out of the blocking scheduler the map has one record for each job in    *)
(* flight, and it says where the job is.                                   *)
LEMMA RecordFacts ==
  ASSUME MInv, ~Blocking
  PROVE  /\ \A r \in runningMap :
              /\ r \in JobType /\ recvRequests[r.index] = r.id /\ r.id # NoTag
              /\ r.index \in Allocation(r.server)
              /\ r.id \in InFlight
              /\ r.id \in OnServer(r.server) \cup replies
         /\ \A x \in InFlight : \E r \in runningMap : r.id = x
         /\ \A r, p \in runningMap : r.id = p.id => r = p
         /\ \A r, p \in runningMap : r.index = p.index => r = p
<1>1. runningMap \in SUBSET JobType
  BY DEF MInv, TypeOK, JobType
<1>2. InFlight = {r.id : r \in runningMap}
  BY DEF MInv, Bookkeeping, RunningIds
<1>3. ASSUME NEW r \in runningMap
      PROVE  /\ r \in JobType /\ recvRequests[r.index] = r.id /\ r.id # NoTag
             /\ r.index \in Allocation(r.server) /\ r.id \in InFlight
             /\ r.server \in ServerIds /\ r.index \in Indices
  <2>1. r \in JobType
    BY <1>1
  <2>2. r.id # NoTag /\ r.server \in ServerIds /\ r.index \in Indices
    BY <2>1, JobFacts, FiniteParts
  <2>3. recvRequests[r.index] = r.id /\ r.index \in Allocation(r.server)
    BY DEF MInv, Bookkeeping
  <2>4. r.id \in InFlight
    BY <1>2
  <2>5. QED
    BY <2>1, <2>2, <2>3, <2>4
<1>4. ASSUME NEW r \in runningMap PROVE r.id \in OnServer(r.server) \cup replies
  <2>1. SUFFICES ASSUME NEW s \in ServerIds, r.id \in OnServer(s)
                 PROVE  s = r.server
    BY <1>3, FlightFacts
  <2>2. r.index \in Lane(s)
    BY <1>3, <2>1 DEF MInv, InLane
  <2>3. r.index \in Allocation(s)
    BY <2>2 DEF Lane
  <2>4. QED
    BY <1>3, <2>3, AllocationsSplit
<1>5. ASSUME NEW r \in runningMap, NEW p \in runningMap, r.index = p.index
      PROVE  r = p
  <2>1. r.id = p.id
    BY <1>3, <1>5
  <2>2. r.server = p.server
    BY <1>3, <1>5, AllocationsSplit
  <2>3. QED
    BY <1>3, <1>5, <2>1, <2>2, JobFacts
<1>6. ASSUME NEW r \in runningMap, NEW p \in runningMap, r.id = p.id
      PROVE  r = p
  <2>1. r.index = p.index
    BY <1>3, <1>6 DEF MInv, BuffersExclusive
  <2>2. QED
    BY <1>5, <2>1
<1>7. \A x \in InFlight : \E r \in runningMap : r.id = x
  BY <1>2
<1>8. QED
  BY <1>3, <1>4, <1>5, <1>6, <1>7

LEMMA NowaitFirstPassMInv ==
  ASSUME MInv, NowaitFirstPass
  PROVE  MInv'
<1> DEFINE q == [s \in ServerIds |-> Dealt(s)]
           F == FirstJobs(NumSends)
           J(i) == Job(Nth(coreQueue, i), ServerOf(i), StratifiedIndex(i))
           I == 0 .. (NumSends - 1)
<1>1. /\ pc = "idle" /\ pc' = "test" /\ runningMap = {} /\ raw' = {}
      /\ runningMap' = {J(i) : i \in I}
      /\ recvRequests' = [b \in Indices |->
           IF \E r \in runningMap' : r.index = b
             THEN (CHOOSE r \in runningMap' : r.index = b).id
             ELSE recvRequests[b]]
      /\ inbox' = [s \in ServerIds |-> inbox[s] \o Dealt(s)]
      /\ UNCHANGED <<evalIdCntr, coreQueue, sent, delivered, active, stopped,
                     replies, runs>>
  BY DEF NowaitFirstPass, serverVars
<1>2. /\ coreQueue \in SUBSET Evals /\ ~Blocking /\ ~Blocking'
      /\ pc # "stopped" /\ pc' # "stopped"
  BY <1>1 DEF MInv, TypeOK, Blocking
<1>3. /\ InFlight = {} /\ \A b \in Indices : recvRequests[b] = NoTag
      /\ q \in [ServerIds -> Seq(Evals)] /\ \A s \in ServerIds : Distinct(q[s])
      /\ \A s, t \in ServerIds : s # t => Elems(q[s]) \cap Elems(q[t]) = {}
      /\ \A x : x \in F <=> \E s \in ServerIds : x \in Elems(q[s])
      /\ F \subseteq Evals
  BY <1>1, <1>2, PassDeals
<1>4. inbox' = [s \in ServerIds |-> inbox[s] \o q[s]]
  <2>1. \A s \in ServerIds : q[s] = Dealt(s)
    OBVIOUS
  <2>2. QED
    BY <1>1, <2>1
<1>5. /\ F \subseteq coreQueue
      /\ \A i \in I : /\ i \in Indices /\ Nth(coreQueue, i) \in F
                      /\ Place(coreQueue, Nth(coreQueue, i)) = i
      /\ \A id \in F : /\ Place(coreQueue, id) \in I
                       /\ Nth(coreQueue, Place(coreQueue, id)) = id
      /\ \A s \in ServerIds :
           Elems(q[s]) = {id \in F : ServerOf(Place(coreQueue, id)) = s}
  BY <1>2, PassFacts
<1> HIDE DEF F, q, I
<1>6. \A i \in I : /\ ServerOf(i) \in ServerIds /\ StratifiedIndex(i) \in Indices
                   /\ StratifiedIndex(i) \in Allocation(ServerOf(i))
  BY <1>5, Dealing
<1>7. \A i \in I : /\ J(i).id = Nth(coreQueue, i) /\ J(i).server = ServerOf(i)
                   /\ J(i).index = StratifiedIndex(i)
                   /\ J(i) \in JobType
  BY <1>3, <1>5, <1>6, JobFacts
<1> HIDE DEF J
<1>8. \A i, j \in I : J(i).index = J(j).index => i = j
  BY <1>5, <1>7, StratifiedApart
<1>9. ASSUME NEW i \in I
      PROVE  recvRequests'[StratifiedIndex(i)] = Nth(coreQueue, i)
  <2>1. J(i) \in runningMap' /\ J(i).index = StratifiedIndex(i)
    BY <1>1, <1>7
  <2> DEFINE c == CHOOSE r \in runningMap' : r.index = StratifiedIndex(i)
  <2>2. c \in runningMap' /\ c.index = StratifiedIndex(i)
    BY <2>1
  <2>3. c = J(i)
    <3>1. PICK j \in I : c = J(j)
      BY <1>1, <2>2
    <3>2. QED
      BY <1>8, <2>1, <2>2, <3>1
  <2>4. recvRequests'[StratifiedIndex(i)] = c.id
    BY <1>1, <1>6, <2>1
  <2>5. QED
    BY <1>7, <2>3, <2>4
<1>10. ASSUME NEW b \in Indices, recvRequests'[b] # NoTag
       PROVE  \E i \in I : b = StratifiedIndex(i)
  <2>1. \E r \in runningMap' : r.index = b
    BY <1>1, <1>3, <1>10
  <2>2. QED
    BY <1>1, <1>7, <2>1
<1>11. NoTag \notin F /\ Evals \subseteq 0 .. MaxEvals /\ NoTag \in 0 .. MaxEvals
  BY <1>3, ConstantsAssumption DEF Evals, NoTag
<1>12. \A b \in Indices : recvRequests'[b] \in F \cup {NoTag}
  BY <1>5, <1>9, <1>10
<1>13. recvRequests' \in [Indices -> 0 .. MaxEvals]
  <2>1. \A b \in Indices : recvRequests'[b] \in 0 .. MaxEvals
    BY <1>3, <1>11, <1>12
  <2>2. recvRequests' = [b \in Indices |-> recvRequests'[b]]
    BY <1>1
  <2>3. QED
    BY <2>1, <2>2
<1>14. Deals(q, Indices, {}, F)
  <2>1. ASSUME NEW x \in F PROVE \E b \in Indices : recvRequests'[b] = x
    BY <1>5, <1>6, <1>9, <2>1
  <2>2. ASSUME NEW b \in Indices, NEW c \in Indices,
               recvRequests'[b] = recvRequests'[c], recvRequests'[b] # NoTag
        PROVE  b = c
    <3>1. PICK i \in I : b = StratifiedIndex(i)
      BY <1>10, <2>2
    <3>2. PICK j \in I : c = StratifiedIndex(j)
      BY <1>10, <2>2
    <3>3. Nth(coreQueue, i) = Nth(coreQueue, j)
      BY <1>9, <2>2, <3>1, <3>2
    <3>4. i = j
      BY <1>5, <3>3, Zenon
    <3>5. QED
      BY <3>1, <3>2, <3>4
  <2>3. ASSUME NEW s \in ServerIds, NEW b \in Indices, recvRequests'[b] \in Elems(q[s])
        PROVE  b \in Lane(s)'
    <3>1. recvRequests'[b] \in F /\ recvRequests'[b] # NoTag
          /\ ServerOf(Place(coreQueue, recvRequests'[b])) = s
      BY <1>5, <1>11, <2>3
    <3>2. PICK i \in I : b = StratifiedIndex(i)
      BY <1>10, <3>1
    <3>3. recvRequests'[b] = Nth(coreQueue, i)
      BY <1>9, <3>2
    <3>4. Place(coreQueue, recvRequests'[b]) = i
      BY <1>5, <3>3, Zenon
    <3>5. b \in Allocation(s)
      BY <1>6, <3>1, <3>2, <3>4
    <3>6. QED
      BY <1>2, <3>5 DEF Lane
  <2>4. active' = active /\ stopped' = stopped /\ replies' = replies \ {}
    BY <1>1
  <2>5. QED
    BY <1>2, <1>3, <1>4, <1>12, <1>13, <2>1, <2>2, <2>3, <2>4 DEF Deals
<1>15. /\ inbox' \in [ServerIds -> Seq(0 .. MaxEvals)]
       /\ InFlight' = (InFlight \ {}) \cup F
       /\ Tags' /\ OnePlace' /\ BuffersExclusive' /\ InLane'
  BY <1>14, DealsFacts
<1>16. TypeOK' /\ NeverAborts'
  <2>1. runningMap' \in SUBSET JobType
    BY <1>1, <1>7
  <2>2. QED
    BY <1>1, <1>13, <1>15, <2>1 DEF MInv, TypeOK, NeverAborts, JobType
<1>17. Bookkeeping'
  <2>1. InFlight' = F
    BY <1>3, <1>15
  <2>2. RunningIds' = F
    <3>1. RunningIds' = {r.id : r \in runningMap'}
      BY DEF RunningIds
    <3>2. ASSUME NEW x \in F PROVE \E r \in runningMap' : r.id = x
      BY <1>1, <1>5, <1>7, <3>2
    <3>3. ASSUME NEW r \in runningMap' PROVE r.id \in F
      BY <1>1, <1>5, <1>7, <3>3
    <3>4. QED
      BY <3>1, <3>2, <3>3
  <2>3. ASSUME NEW r \in runningMap'
        PROVE  recvRequests'[r.index] = r.id /\ r.index \in Allocation(r.server)
    <3>1. PICK i \in I : r = J(i)
      BY <1>1, <2>3
    <3>2. QED
      BY <1>6, <1>7, <1>9, <3>1
  <2>4. /\ coreQueue \cup delivered \subseteq 1 .. evalIdCntr
        /\ coreQueue \cap delivered = {}
    BY DEF MInv, Bookkeeping
  <2>5. pc' # "waitall"
    BY <1>1
  <2>6. QED
    BY <1>1, <1>2, <1>5, <2>1, <2>2, <2>3, <2>4, <2>5 DEF Bookkeeping
<1>18. SimulatedOnce'
  <2>1. raw \cap coreQueue = {}
    BY <1>2 DEF MInv, Bookkeeping
  <2>2. QED
    BY <1>1, <2>1, NothingSimulated DEF MInv
<1>19. QED
  BY <1>15, <1>16, <1>17, <1>18 DEF MInv

(* The loads of the servers.                                               *)
LEMMA LoadFacts ==
  ASSUME MInv, ~Blocking
  PROVE  /\ IsFiniteSet(runningMap) /\ Cardinality(runningMap) <= Capacity
         /\ \A s \in ServerIds :
              /\ IsFiniteSet({r \in runningMap : r.server = s})
              /\ Load(s) = Cardinality({r \in runningMap : r.server = s})
              /\ Load(s) \in Nat
<1> DEFINE f == [r \in runningMap |-> r.index]
<1>1. f \in [runningMap -> Indices]
  BY RecordFacts, JobFacts
<1>2. \A r, p \in runningMap : f[r] = f[p] => r = p
  BY RecordFacts
<1> HIDE DEF f
<1>3. f \in Injection(runningMap, Indices)
  BY <1>1, <1>2 DEF Injection, IsInjective
<1>4. IsFiniteSet(runningMap) /\ Cardinality(runningMap) <= Capacity
  BY <1>3, Counts, FS_Injection
<1>5. ASSUME NEW s \in ServerIds
      PROVE  /\ IsFiniteSet({r \in runningMap : r.server = s})
             /\ Load(s) = Cardinality({r \in runningMap : r.server = s})
             /\ Load(s) \in Nat
  <2> DEFINE S == {r \in runningMap : r.server = s}
  <2>1. S \in SUBSET runningMap /\ Load(s) = Cardinality(S)
    BY DEF Load
  <2> HIDE DEF S
  <2>2. IsFiniteSet(S) /\ Load(s) \in Nat
    BY <1>4, <2>1, FS_Subset, FS_CardinalityType
  <2>3. QED
    BY <2>1, <2>2 DEF S
<1>6. QED
  BY <1>4, <1>5

(* There is a first server with the least load.                            *)
LEMMA LeastLoadedFacts ==
  ASSUME MInv, ~Blocking
  PROVE  LeastLoaded \in ServerIds /\ \A t \in ServerIds : Load(LeastLoaded) <= Load(t)
<1> DEFINE f == [t \in ServerIds |-> Load(t)]
           N == {Load(t) : t \in ServerIds}
           m == Nth(N, 0)
           T == {t \in ServerIds : Load(t) = m}
           s == Nth(T, 0)
<1>1. IsFiniteSet(ServerIds) /\ ServerIds \subseteq Int /\ 1 \in ServerIds
  <2>1. NumEvalServers \in Nat \ {0}
    BY Counts
  <2>2. QED
    BY <2>1, FS_Interval DEF ServerIds
<1>2. \A t \in ServerIds : Load(t) \in Nat
  BY LoadFacts
<1>3. IsFiniteSet(N) /\ N \subseteq Int /\ N # {}
  <2>1. f \in Surjection(ServerIds, N)
    BY DEF Surjection
  <2>2. N \subseteq Int /\ N # {}
    BY <1>1, <1>2
  <2> HIDE DEF f, N
  <2>3. QED
    BY <1>1, <2>1, <2>2, FS_Surjection
<1> HIDE DEF m
<1>4. m \in N /\ \A y \in N : m <= y
  <2> HIDE DEF N
  <2>1. QED
    BY <1>3, LeastFirst DEF m
<1>5. IsFiniteSet(T) /\ T \subseteq Int /\ T # {} /\ T \subseteq ServerIds
  <2>1. T \in SUBSET ServerIds /\ T # {}
    BY <1>4
  <2> HIDE DEF T
  <2>2. QED
    BY <1>1, <2>1, FS_Subset
<1> HIDE DEF s
<1>6. s \in T /\ \A y \in T : s <= y
  <2> HIDE DEF T
  <2>1. QED
    BY <1>5, LeastFirst DEF s
<1>7. ASSUME NEW t \in ServerIds
      PROVE  Load(s) < Load(t) \/ (Load(s) = Load(t) /\ s <= t)
  <2>1. Load(s) = m /\ m <= Load(t) /\ m \in Nat /\ Load(t) \in Nat
    BY <1>2, <1>4, <1>6
  <2>2. CASE Load(t) = m
    BY <1>6, <2>1, <2>2
  <2>3. CASE Load(t) # m
    BY <2>1, <2>3
  <2>4. QED
    BY <2>2, <2>3
<1>8. s \in ServerIds
  BY <1>6
<1>9. /\ LeastLoaded \in ServerIds
      /\ \A t \in ServerIds : Load(LeastLoaded) < Load(t)
           \/ (Load(LeastLoaded) = Load(t) /\ LeastLoaded <= t)
  BY <1>7, <1>8 DEF LeastLoaded
<1>10. QED
  <2>1. SUFFICES ASSUME NEW t \in ServerIds PROVE Load(LeastLoaded) <= Load(t)
    BY <1>9
  <2>2. Load(LeastLoaded) \in Nat /\ Load(t) \in Nat
    BY <1>2, <1>9
  <2>3. QED
    BY <1>9, <2>2

(* A server with the least load has an index left when there is room.      *)
LEMMA RoomForOne ==
  ASSUME MInv, ~Blocking, Cardinality(runningMap) < Capacity
  PROVE  FreeIndices(LeastLoaded) # {}
<1> SUFFICES ASSUME FreeIndices(LeastLoaded) = {} PROVE FALSE
  OBVIOUS
<1> DEFINE on(s) == {r \in runningMap : r.server = s}
           f(s) == [r \in on(s) |-> r.index]
<1>1. LeastLoaded \in ServerIds /\ \A t \in ServerIds : Load(LeastLoaded) <= Load(t)
  BY LeastLoadedFacts
<1>2. ASSUME NEW s \in ServerIds
      PROVE  /\ IsFiniteSet(on(s)) /\ Load(s) = Cardinality(on(s)) /\ Load(s) \in Nat
             /\ IsFiniteSet(Allocation(s)) /\ Cardinality(Allocation(s)) = Concurrency
             /\ f(s) \in Injection(on(s), Allocation(s))
  <2>1. f(s) \in [on(s) -> Allocation(s)]
    BY RecordFacts
  <2>2. \A r, p \in on(s) : f(s)[r] = f(s)[p] => r = p
    BY RecordFacts
  <2>3. f(s) \in Injection(on(s), Allocation(s))
    <3> HIDE DEF f, on
    <3>1. QED
      BY <2>1, <2>2 DEF Injection, IsInjective
  <2>4. QED
    BY <2>3, LoadFacts, AllocationFacts
<1>3. Concurrency <= Load(LeastLoaded)
  <2> DEFINE s == LeastLoaded
  <2>1. \A b \in Allocation(s) : \E r \in on(s) : f(s)[r] = b
    BY DEF FreeIndices
  <2>2. f(s) \in [on(s) -> Allocation(s)]
    BY <1>1, <1>2 DEF Injection
  <2> HIDE DEF f, on, s
  <2>3. f(s) \in Surjection(on(s), Allocation(s))
    BY <2>1, <2>2 DEF Surjection
  <2>4. s \in ServerIds
    BY <1>1 DEF s
  <2>5. IsFiniteSet(on(s)) /\ Load(s) = Cardinality(on(s))
        /\ Cardinality(Allocation(s)) = Concurrency
    BY <1>2, <2>4
  <2>6. Cardinality(Allocation(s)) <= Cardinality(on(s))
    BY <2>3, <2>5, FS_Surjection
  <2>7. QED
    BY <2>5, <2>6 DEF s
<1>4. ASSUME NEW s \in ServerIds
      PROVE  \A b \in Allocation(s) : \E r \in runningMap : r.index = b
  <2>1. Concurrency <= Cardinality(on(s)) /\ Cardinality(on(s)) \in Nat
    <3>1. Load(LeastLoaded) <= Load(s) /\ Load(LeastLoaded) \in Nat /\ Load(s) \in Nat
      BY <1>1, <1>2
    <3>2. Load(s) = Cardinality(on(s))
      BY <1>2
    <3> HIDE DEF on
    <3>3. QED
      BY <1>3, <3>1, <3>2, Counts
  <2>2. f(s) \in Surjection(on(s), Allocation(s))
    <3>1. /\ f(s) \in Injection(on(s), Allocation(s)) /\ IsFiniteSet(Allocation(s))
          /\ Cardinality(Allocation(s)) = Concurrency
      BY <1>2
    <3> HIDE DEF f, on
    <3>2. /\ Cardinality(on(s)) <= Cardinality(Allocation(s))
          /\ Cardinality(on(s)) = Cardinality(Allocation(s))
               <=> f(s) \in Surjection(on(s), Allocation(s))
      BY <3>1, FS_Injection
    <3>3. QED
      BY <2>1, <3>1, <3>2, Counts
  <2>3. \A b \in Allocation(s) : \E r \in on(s) : f(s)[r] = b
    BY <2>2 DEF Surjection
  <2>4. QED
    BY <2>3
<1>5. \A b \in Indices : \E r \in runningMap : r.index = b
  BY <1>4, AllocationsSplit
<1> DEFINE g == [r \in runningMap |-> r.index]
<1>6. g \in [runningMap -> Indices] /\ \A b \in Indices : \E r \in runningMap : g[r] = b
  BY <1>5, RecordFacts, JobFacts
<1> HIDE DEF g
<1>7. g \in Surjection(runningMap, Indices)
  BY <1>6 DEF Surjection
<1>8. IsFiniteSet(runningMap) /\ Cardinality(runningMap) \in Nat
  BY LoadFacts, FS_CardinalityType
<1>9. Cardinality(Indices) <= Cardinality(runningMap)
  BY <1>7, <1>8, FS_Surjection
<1>10. QED
  BY <1>8, <1>9, Counts

LEMMA FillGapMInv ==
  ASSUME MInv, FillGap
  PROVE  MInv'
<1> DEFINE s  == LeastLoaded
           b  == Nth(FreeIndices(s), 0)
           id == Nth(coreQueue \ RunningIds, 0)
           q  == SendOne(s, id)
<1>1. /\ pc = "fill" /\ ~(coreQueue \subseteq RunningIds)
      /\ Cardinality(runningMap) < Capacity
      /\ UNCHANGED <<evalIdCntr, coreQueue, raw, sent, delivered, active, stopped,
                     replies, runs>>
  BY DEF FillGap, MoreToFill, serverVars
<1>2. ~Blocking
  BY <1>1 DEF Blocking
<1>3. FreeIndices(s) # {}
  BY <1>1, <1>2, RoomForOne
<1>4. /\ recvRequests' = [recvRequests EXCEPT ![b] = id]
      /\ inbox' = [inbox EXCEPT ![s] = Append(@, id)]
      /\ runningMap' = runningMap \cup {Job(id, s, b)}
      /\ pc' = pc
  BY <1>3 DEF FillGap
<1>5. ~Blocking' /\ pc' # "stopped"
  BY <1>1, <1>4 DEF Blocking
<1>6. s \in ServerIds
  BY <1>2, LeastLoadedFacts
<1>7. b \in FreeIndices(s) /\ b \in Allocation(s) /\ b \in Indices
  <2>1. FreeIndices(s) \subseteq Allocation(s)
    BY DEF FreeIndices
  <2>2. Allocation(s) \subseteq Indices
    BY <1>6, AllocationFacts
  <2>3. IsFiniteSet(FreeIndices(s)) /\ FreeIndices(s) \subseteq Int
    <3>1. FreeIndices(s) \in SUBSET Indices /\ IsFiniteSet(Indices)
      BY <2>1, <2>2, Counts
    <3>2. IsFiniteSet(FreeIndices(s))
      BY <3>1, FS_Subset
    <3>3. \A i \in Indices : i \in Int
      BY Counts
    <3>4. QED
      BY <3>1, <3>2, <3>3
  <2>4. b \in FreeIndices(s)
    BY <1>3, <2>3, LeastFirst
  <2>5. QED
    BY <2>1, <2>2, <2>4
<1>8. /\ coreQueue \in SUBSET Evals /\ InFlight = RunningIds
      /\ inbox \in [ServerIds -> Seq(0 .. MaxEvals)]
      /\ recvRequests \in [Indices -> 0 .. MaxEvals]
      /\ runningMap \in SUBSET JobType
  BY <1>2 DEF MInv, TypeOK, Bookkeeping, JobType
<1>9. id \in coreQueue /\ id \notin InFlight
  <2> DEFINE S == coreQueue \ RunningIds
  <2>1. IsFiniteSet(S) /\ S \subseteq Int /\ S # {}
    BY <1>1, <1>8, FiniteParts
  <2> HIDE DEF S
  <2>2. Nth(S, 0) \in S
    BY <2>1, LeastFirst
  <2>3. QED
    BY <1>8, <2>2 DEF S
<1>10. id \in Evals /\ id # NoTag /\ id \in 0 .. MaxEvals
  <2>1. id \in Evals
    BY <1>8, <1>9
  <2> HIDE DEF id
  <2>2. QED
    BY <2>1 DEF Evals, NoTag
<1>11. recvRequests[b] = NoTag
  <2>1. SUFFICES ASSUME recvRequests[b] # NoTag PROVE FALSE
    OBVIOUS
  <2>2. recvRequests[b] \in InFlight
    BY <1>7, <2>1 DEF MInv, BuffersExclusive
  <2>3. PICK r \in runningMap : r.id = recvRequests[b]
    BY <1>2, <2>2, RecordFacts
  <2>4. r.index \in Indices /\ r.server \in ServerIds
        /\ recvRequests[r.index] = recvRequests[b] /\ r.index \in Allocation(r.server)
    BY <1>2, <2>3, RecordFacts, JobFacts
  <2>5. r.index = b
    BY <1>7, <2>1, <2>4 DEF MInv, BuffersExclusive
  <2>6. r.server = s
    BY <1>6, <1>7, <2>4, <2>5, AllocationsSplit
  <2>7. QED
    BY <1>7, <2>5, <2>6 DEF FreeIndices
<1>12. /\ q \in [ServerIds -> Seq(Evals)]
       /\ \A t \in ServerIds :
            /\ Distinct(q[t]) /\ Elems(q[t]) = IF t = s THEN {id} ELSE {}
            /\ inbox[t] \o q[t] = IF t = s THEN Append(inbox[t], id) ELSE inbox[t]
  <2>1. /\ inbox \in [ServerIds -> Seq(0 .. MaxEvals)] /\ s \in ServerIds
        /\ id \in Evals
    BY <1>6, <1>8, <1>10
  <2> HIDE DEF id, s, q
  <2>2. /\ SendOne(s, id) \in [ServerIds -> Seq(Evals)]
        /\ \A t \in ServerIds :
             /\ Distinct(SendOne(s, id)[t])
             /\ Elems(SendOne(s, id)[t]) = IF t = s THEN {id} ELSE {}
             /\ inbox[t] \o SendOne(s, id)[t]
                  = IF t = s THEN Append(inbox[t], id) ELSE inbox[t]
    BY <2>1, OneSend
  <2>3. QED
    BY <2>2 DEF q
<1> HIDE DEF q, id, b, s
<1>13. /\ recvRequests' \in [Indices -> 0 .. MaxEvals] /\ recvRequests'[b] = id
       /\ \A c \in Indices : c # b => recvRequests'[c] = recvRequests[c]
  BY <1>4, <1>7, <1>8, <1>10
<1> DEFINE none == {}
<1> HIDE DEF none
<1>14. Deals(q, {b}, none, {id})
  <2>1. inbox' = [t \in ServerIds |-> inbox[t] \o q[t]]
    <3>1. inbox' = [t \in ServerIds |-> IF t = s THEN Append(inbox[t], id) ELSE inbox[t]]
      BY <1>4, <1>6, <1>8
    <3>2. QED
      BY <1>12, <3>1
  <2>2. \A y : y \in {id} <=> \E t \in ServerIds : y \in Elems(q[t])
    BY <1>6, <1>12
  <2>3. \A t, v \in ServerIds : t # v => Elems(q[t]) \cap Elems(q[v]) = {}
    BY <1>12
  <2>4. /\ {id} \subseteq Evals /\ {id} \cap InFlight = {}
        /\ {b} \subseteq Indices /\ none \subseteq replies
    BY <1>7, <1>9, <1>10 DEF none
  <2>5. /\ \A c \in Indices \ {b} :
             recvRequests'[c] = recvRequests[c] /\ recvRequests[c] \notin none
        /\ \A c \in {b} : /\ recvRequests[c] \in none \cup {NoTag}
                          /\ recvRequests'[c] \in {id} \cup {NoTag}
        /\ \A y \in {id} : \E c \in {b} : recvRequests'[c] = y
        /\ \A c, d \in {b} : c = d
    BY <1>11, <1>13 DEF none
  <2>6. \A t \in ServerIds, c \in {b} :
          recvRequests'[c] \in Elems(q[t]) => c \in Lane(t)'
    <3>1. SUFFICES ASSUME NEW t \in ServerIds, id \in Elems(q[t])
                   PROVE  b \in Lane(t)'
      BY <1>13
    <3>2. t = s
      BY <1>12, <3>1
    <3>3. QED
      BY <1>5, <1>7, <3>2 DEF Lane
  <2>7. replies' = replies \ none /\ active' = active /\ stopped' = stopped
        /\ pc # "stopped"
    BY <1>1 DEF none
  <2>8. \A t \in ServerIds : Distinct(q[t])
    BY <1>12
  <2>9. QED
    BY <1>2, <1>5, <1>12, <1>13, <2>1, <2>2, <2>3, <2>4, <2>5, <2>6, <2>7, <2>8 DEF Deals
<1>15. /\ inbox' \in [ServerIds -> Seq(0 .. MaxEvals)]
       /\ InFlight' = (InFlight \ none) \cup {id}
       /\ Tags' /\ OnePlace' /\ BuffersExclusive' /\ InLane'
  BY <1>14, DealsFacts
<1>16. /\ Job(id, s, b) \in JobType /\ Job(id, s, b).id = id
       /\ Job(id, s, b).server = s /\ Job(id, s, b).index = b
  BY <1>6, <1>7, <1>10, JobFacts
<1>17. TypeOK' /\ NeverAborts'
  <2>1. runningMap' \in SUBSET JobType
    BY <1>4, <1>8, <1>16
  <2>2. QED
    BY <1>1, <1>4, <1>13, <1>15, <2>1 DEF MInv, TypeOK, NeverAborts, JobType
<1>18. Bookkeeping'
  <2>1. InFlight' = InFlight \cup {id}
    BY <1>15 DEF none
  <2>2. RunningIds' = RunningIds \cup {id}
    <3>1. RunningIds' = {r.id : r \in runningMap'} /\ RunningIds = {r.id : r \in runningMap}
      BY DEF RunningIds
    <3>2. QED
      BY <1>4, <1>16, <3>1
  <2>3. ASSUME NEW r \in runningMap'
        PROVE  recvRequests'[r.index] = r.id /\ r.index \in Allocation(r.server)
    <3>1. CASE r \in runningMap
      <4>1. /\ recvRequests[r.index] = r.id /\ r.id # NoTag /\ r.index \in Indices
            /\ r.index \in Allocation(r.server)
        BY <1>2, <3>1, RecordFacts, JobFacts
      <4>2. QED
        BY <1>11, <1>13, <4>1
    <3>2. CASE r = Job(id, s, b)
      BY <1>7, <1>13, <1>16, <3>2
    <3>3. QED
      BY <1>4, <2>3, <3>1, <3>2
  <2>4. /\ coreQueue \cup delivered \subseteq 1 .. evalIdCntr
        /\ coreQueue \cap delivered = {} /\ InFlight \subseteq coreQueue
        /\ raw \cap InFlight = {} /\ raw \subseteq delivered
    BY <1>2 DEF MInv, Bookkeeping
  <2>5. pc' # "waitall"
    BY <1>1, <1>4
  <2>6. QED
    BY <1>1, <1>5, <1>8, <1>9, <2>1, <2>2, <2>3, <2>4, <2>5 DEF Bookkeeping
<1>19. SimulatedOnce'
  BY <1>1, NothingSimulated DEF MInv
<1>20. QED
  BY <1>15, <1>17, <1>18, <1>19 DEF MInv

(* test_receives_backfill(): the jobs in R are back, and those of them in  *)
(* replaced are followed at their index by the next jobs of the queue.     *)
LEMMA TestReceivesBackfillMInv ==
  ASSUME MInv, NEW R \in SUBSET Completed, TestReceivesBackfill(R)
  PROVE  MInv'
<1> DEFINE pending == coreQueue \ RunningIds
           ids == {r.id : r \in R}
           replaced == {r \in R : Place(ids, r.id) < Cardinality(pending)}
           replacement(r) == Nth(pending, Place(ids, r.id))
           next(s) == {replacement(r) : r \in {p \in replaced : p.server = s}}
           new == {replacement(r) : r \in replaced}
           B == {r.index : r \in R}
           q == [s \in ServerIds |-> InOrder(next(s))]
<1>1. /\ pc = "test" /\ pc' = "idle" /\ raw' = ids
      /\ replies' = replies \ {recvRequests[r.index] : r \in R}
      /\ recvRequests' = [b \in Indices |->
           IF \E r \in replaced : r.index = b
             THEN replacement(CHOOSE r \in replaced : r.index = b)
           ELSE IF \E r \in R : r.index = b THEN NoTag
           ELSE recvRequests[b]]
      /\ inbox' = [s \in ServerIds |-> inbox[s] \o InOrder(next(s))]
      /\ runningMap' = (runningMap \ R) \cup
           {Job(replacement(r), r.server, r.index) : r \in replaced}
      /\ coreQueue' = coreQueue \ ids
      /\ delivered' = delivered \cup ids
      /\ UNCHANGED <<evalIdCntr, sent, active, stopped, runs>>
  BY DEF TestReceivesBackfill
<1>2. ~Blocking /\ ~Blocking' /\ pc # "stopped" /\ pc' # "stopped"
  BY <1>1 DEF Blocking
<1>3. /\ coreQueue \in SUBSET Evals /\ InFlight = RunningIds
      /\ inbox \in [ServerIds -> Seq(0 .. MaxEvals)]
      /\ recvRequests \in [Indices -> 0 .. MaxEvals]
      /\ runningMap \in SUBSET JobType /\ delivered \in SUBSET Evals
  BY <1>2 DEF MInv, TypeOK, Bookkeeping, JobType
<1>4. \A r \in R : /\ r \in runningMap /\ recvRequests[r.index] \in replies
                   /\ r \in JobType /\ recvRequests[r.index] = r.id /\ r.id # NoTag
                   /\ r.index \in Allocation(r.server) /\ r.id \in InFlight
                   /\ r.id \in Evals /\ r.server \in ServerIds /\ r.index \in Indices
  <2>1. \A r \in R : r \in runningMap /\ recvRequests[r.index] \in replies
    BY DEF Completed, Complete
  <2>2. QED
    BY <1>2, <2>1, RecordFacts, JobFacts
<1>5. /\ \A r, p \in runningMap : r.id = p.id => r = p
      /\ \A r, p \in runningMap : r.index = p.index => r = p
  BY <1>2, RecordFacts
<1>6. {recvRequests[r.index] : r \in R} = ids /\ ids \subseteq replies
      /\ ids \subseteq Evals /\ ids \subseteq InFlight
  BY <1>4
<1>7. ASSUME NEW r \in replaced
      PROVE  /\ r \in R /\ replacement(r) \in pending
             /\ Place(pending, replacement(r)) = Place(ids, r.id)
  <2>1. IsFiniteSet(ids) /\ ids \subseteq Int /\ IsFiniteSet(pending)
        /\ pending \subseteq Int /\ Cardinality(pending) \in Nat
        /\ Cardinality(ids) \in Nat
    BY <1>3, <1>6, FiniteParts
  <2>2. r \in R /\ r.id \in ids /\ Place(ids, r.id) < Cardinality(pending)
    OBVIOUS
  <2> DEFINE i == Place(ids, r.id)
  <2> HIDE DEF ids, pending
  <2>3. i \in 0 .. (Cardinality(ids) - 1)
    BY <2>1, <2>2, WalkFacts
  <2>4. i < Cardinality(pending)
    BY <2>2
  <2> HIDE DEF i
  <2>5. i \in 0 .. (Cardinality(pending) - 1)
    BY <2>1, <2>3, <2>4
  <2>6. Nth(pending, i) \in pending /\ Place(pending, Nth(pending, i)) = i
    BY <2>1, <2>5, WalkFacts
  <2>7. QED
    BY <2>2, <2>6 DEF i
<1>8. ASSUME NEW r \in replaced, NEW p \in replaced, replacement(r) = replacement(p)
      PROVE  r = p
  <2>1. Place(ids, r.id) = Place(ids, p.id) /\ r \in R /\ p \in R
    BY <1>7, <1>8
  <2>2. IsFiniteSet(ids) /\ ids \subseteq Int /\ r.id \in ids /\ p.id \in ids
    BY <1>6, <2>1, FiniteParts
  <2> HIDE DEF ids, replaced, replacement
  <2>3. \A x, y \in ids : Place(ids, x) = Place(ids, y) => x = y
    BY <2>2, WalkFacts
  <2>4. r.id = p.id
    BY <2>1, <2>2, <2>3, Zenon
  <2>5. QED
    BY <1>4, <1>5, <2>1, <2>4
<1>9. /\ new \subseteq pending /\ new \subseteq Evals /\ new \cap InFlight = {}
      /\ new \subseteq coreQueue /\ NoTag \notin new
  <2>1. new \subseteq pending
    BY <1>7
  <2>2. pending \subseteq Evals /\ pending \cap InFlight = {} /\ pending \subseteq coreQueue
    BY <1>3
  <2> HIDE DEF new, pending
  <2>3. QED
    BY <2>1, <2>2, FiniteParts
<1>10. \A s \in ServerIds : next(s) \subseteq new
  OBVIOUS
<1>11. ASSUME NEW s \in ServerIds
       PROVE  q[s] \in Seq(Evals) /\ Distinct(q[s]) /\ Elems(q[s]) = next(s)
  <2>1. next(s) \in SUBSET Evals /\ q[s] = InOrder(next(s))
    BY <1>9, <1>10
  <2> HIDE DEF next, q
  <2>2. QED
    BY <2>1, InOrderFacts
<1>12. q \in [ServerIds -> Seq(Evals)]
  <2>1. q = [s \in ServerIds |-> q[s]]
    OBVIOUS
  <2> HIDE DEF q
  <2>2. QED
    BY <1>11, <2>1
<1>13. \A x : x \in new <=> \E s \in ServerIds : x \in next(s)
  BY <1>4, <1>7
<1>14. ASSUME NEW s \in ServerIds, NEW t \in ServerIds, s # t
       PROVE  next(s) \cap next(t) = {}
  <2>1. SUFFICES ASSUME NEW r \in replaced, NEW p \in replaced, r.server = s,
                        p.server = t, replacement(r) = replacement(p)
                 PROVE  FALSE
    OBVIOUS
  <2>2. r = p
    BY <1>8, <2>1
  <2>3. QED
    BY <1>14, <2>1, <2>2
<1>15. inbox' = [s \in ServerIds |-> inbox[s] \o q[s]]
  <2>1. \A s \in ServerIds : q[s] = InOrder(next(s))
    OBVIOUS
  <2> HIDE DEF q, next
  <2>2. QED
    BY <1>1, <2>1
<1>16. \A r \in replaced : r \in R
  OBVIOUS
<1> HIDE DEF ids, pending, replaced, replacement, q
<1>17. ASSUME NEW r \in replaced PROVE recvRequests'[r.index] = replacement(r)
  <2> DEFINE c == CHOOSE p \in replaced : p.index = r.index
  <2>1. c \in replaced /\ c.index = r.index
    OBVIOUS
  <2>2. c = r
    BY <1>4, <1>5, <1>16, <2>1
  <2>3. r.index \in Indices
    BY <1>4, <1>16
  <2>4. recvRequests'[r.index] = replacement(c)
    BY <1>1, <2>3
  <2>5. QED
    BY <2>2, <2>4
<1>18. ASSUME NEW r \in R, r \notin replaced PROVE recvRequests'[r.index] = NoTag
  <2>1. r.index \in Indices
    BY <1>4
  <2>2. ~\E p \in replaced : p.index = r.index
    BY <1>4, <1>5, <1>16, <1>18
  <2>3. QED
    BY <1>1, <2>1, <2>2
<1>19. ASSUME NEW b \in Indices, b \notin B
       PROVE  recvRequests'[b] = recvRequests[b] /\ recvRequests[b] \notin ids
  <2>1. (~\E r \in R : r.index = b) /\ ~\E r \in replaced : r.index = b
    BY <1>16, <1>19
  <2>2. recvRequests'[b] = recvRequests[b]
    BY <1>1, <2>1
  <2>3. ASSUME NEW r \in R, recvRequests[b] = r.id PROVE FALSE
    <3>1. recvRequests[b] = recvRequests[r.index] /\ recvRequests[b] # NoTag
          /\ r.index \in Indices
      BY <1>4, <2>3
    <3>2. b = r.index
      BY <3>1 DEF MInv, BuffersExclusive
    <3>3. QED
      BY <2>1, <3>2
  <2>4. QED
    BY <2>2, <2>3 DEF ids
<1>20. B \subseteq Indices
  BY <1>4
<1>21. ASSUME NEW b \in B
       PROVE  /\ recvRequests[b] \in ids \cup {NoTag}
              /\ recvRequests'[b] \in new \cup {NoTag}
              /\ recvRequests'[b] # NoTag =>
                   \E r \in replaced : r.index = b /\ recvRequests'[b] = replacement(r)
  <2>1. PICK r \in R : r.index = b
    OBVIOUS
  <2>2. recvRequests[b] \in ids
    BY <1>4, <2>1 DEF ids
  <2>3. CASE r \in replaced
    BY <1>17, <2>1, <2>2, <2>3
  <2>4. CASE r \notin replaced
    BY <1>18, <2>1, <2>2, <2>4
  <2>5. QED
    BY <2>3, <2>4
<1>22. recvRequests' \in [Indices -> 0 .. MaxEvals]
  <2>1. Evals \subseteq 0 .. MaxEvals /\ NoTag \in 0 .. MaxEvals
    BY ConstantsAssumption DEF Evals, NoTag
  <2>2. \A b \in Indices : recvRequests'[b] \in 0 .. MaxEvals
    BY <1>3, <1>9, <1>19, <1>21, <2>1
  <2>3. recvRequests' = [b \in Indices |-> recvRequests'[b]]
    BY <1>1
  <2>4. QED
    BY <2>2, <2>3
<1>23. Deals(q, B, ids, new)
  <2>1. ASSUME NEW x \in new PROVE \E b \in B : recvRequests'[b] = x
    <3>1. PICK r \in replaced : x = replacement(r)
      BY <2>1
    <3>2. r.index \in B /\ recvRequests'[r.index] = x
      BY <1>16, <1>17, <3>1
    <3>3. QED
      BY <3>2
  <2>2. ASSUME NEW b \in B, NEW c \in B,
               recvRequests'[b] = recvRequests'[c], recvRequests'[b] # NoTag
        PROVE  b = c
    <3>1. PICK r \in replaced : r.index = b /\ recvRequests'[b] = replacement(r)
      BY <1>21, <2>2
    <3>2. PICK p \in replaced : p.index = c /\ recvRequests'[c] = replacement(p)
      BY <1>21, <2>2
    <3>3. r = p
      BY <1>8, <2>2, <3>1, <3>2
    <3>4. QED
      BY <3>1, <3>2, <3>3
  <2>3. ASSUME NEW s \in ServerIds, NEW b \in B, recvRequests'[b] \in Elems(q[s])
        PROVE  b \in Lane(s)'
    <3>1. recvRequests'[b] \in next(s)
      BY <1>11, <2>3
    <3>2. PICK p \in replaced : p.server = s /\ recvRequests'[b] = replacement(p)
      BY <3>1
    <3>3. recvRequests'[b] # NoTag
      BY <1>9, <3>2
    <3>4. PICK r \in replaced : r.index = b /\ recvRequests'[b] = replacement(r)
      BY <1>21, <3>3
    <3>5. r = p
      BY <1>8, <3>2, <3>4
    <3>6. b \in Allocation(s)
      BY <1>4, <1>16, <3>2, <3>4, <3>5
    <3>7. QED
      BY <1>2, <3>6 DEF Lane
  <2>4. replies' = replies \ ids /\ ids \subseteq replies
        /\ active' = active /\ stopped' = stopped
    BY <1>1, <1>6
  <2>5. /\ \A s \in ServerIds : Distinct(q[s])
        /\ \A s, t \in ServerIds : s # t => Elems(q[s]) \cap Elems(q[t]) = {}
        /\ \A x : x \in new <=> \E s \in ServerIds : x \in Elems(q[s])
    <3> HIDE DEF next, new
    <3>1. QED
      BY <1>11, <1>13, <1>14
  <2>6. \A b \in Indices \ B :
          recvRequests'[b] = recvRequests[b] /\ recvRequests[b] \notin ids
    BY <1>19
  <2>7. \A b \in B : /\ recvRequests[b] \in ids \cup {NoTag}
                     /\ recvRequests'[b] \in new \cup {NoTag}
    BY <1>21
  <2> HIDE DEF B, new, next
  <2>8. QED
    BY <1>2, <1>9, <1>12, <1>15, <1>20, <1>22, <2>1, <2>2, <2>3, <2>4, <2>5, <2>6,
       <2>7 DEF Deals
<1>24. /\ inbox' \in [ServerIds -> Seq(0 .. MaxEvals)] /\ replies' \in SUBSET Evals
       /\ InFlight' = (InFlight \ ids) \cup new
       /\ Tags' /\ OnePlace' /\ BuffersExclusive' /\ InLane'
  <2> HIDE DEF B, new, next
  <2>1. QED
    BY <1>23, DealsFacts
<1>25. ASSUME NEW r \in replaced
       PROVE  /\ Job(replacement(r), r.server, r.index) \in JobType
              /\ Job(replacement(r), r.server, r.index).id = replacement(r)
              /\ Job(replacement(r), r.server, r.index).server = r.server
              /\ Job(replacement(r), r.server, r.index).index = r.index
  <2>1. replacement(r) \in Evals /\ r.server \in ServerIds /\ r.index \in Indices
    BY <1>4, <1>9, <1>16
  <2>2. QED
    BY <2>1, JobFacts
<1>26. TypeOK' /\ NeverAborts'
  <2>1. runningMap' \in SUBSET JobType
    BY <1>1, <1>3, <1>25
  <2>2. /\ coreQueue' \in SUBSET Evals /\ raw' \in SUBSET Evals
        /\ delivered' \in SUBSET Evals
    BY <1>1, <1>3, <1>6
  <2>3. UNCHANGED <<evalIdCntr, sent, active, stopped, runs>> /\ pc' = "idle"
    BY <1>1
  <2>4. QED
    BY <1>22, <1>24, <2>1, <2>2, <2>3 DEF MInv, TypeOK, NeverAborts, JobType
<1>27. Bookkeeping'
  <2>1. /\ coreQueue \cup delivered \subseteq 1 .. evalIdCntr
        /\ coreQueue \cap delivered = {} /\ InFlight \subseteq coreQueue
        /\ raw \subseteq delivered
    BY <1>2 DEF MInv, Bookkeeping
  <2>2. RunningIds' = (RunningIds \ ids) \cup new
    <3>1. RunningIds' = {r.id : r \in runningMap'} /\ RunningIds = {r.id : r \in runningMap}
      BY DEF RunningIds
    <3>2. ASSUME NEW r \in runningMap'
          PROVE  r.id \in (RunningIds \ ids) \cup new
      <4>1. CASE r \in runningMap \ R
        <5>1. r.id \notin ids
          BY <1>4, <1>5, <4>1 DEF ids
        <5>2. QED
          BY <3>1, <4>1, <5>1
      <4>2. CASE \E p \in replaced : r = Job(replacement(p), p.server, p.index)
        BY <1>25, <4>2
      <4>3. QED
        BY <1>1, <3>2, <4>1, <4>2
    <3>3. ASSUME NEW x \in RunningIds \ ids PROVE \E r \in runningMap' : r.id = x
      <4>1. PICK r \in runningMap : r.id = x
        BY <3>1
      <4>2. r \notin R
        BY <3>3, <4>1 DEF ids
      <4>3. QED
        BY <1>1, <4>1, <4>2
    <3>4. ASSUME NEW x \in new PROVE \E r \in runningMap' : r.id = x
      <4>1. PICK p \in replaced : x = replacement(p)
        BY <3>4
      <4>2. Job(replacement(p), p.server, p.index) \in runningMap'
        BY <1>1
      <4>3. QED
        BY <1>25, <4>1, <4>2
    <3> HIDE DEF new
    <3>5. QED
      BY <3>1, <3>2, <3>3, <3>4
  <2>3. ASSUME NEW r \in runningMap'
        PROVE  recvRequests'[r.index] = r.id /\ r.index \in Allocation(r.server)
    <3>1. CASE r \in runningMap \ R
      <4>1. /\ recvRequests[r.index] = r.id /\ r.index \in Allocation(r.server)
            /\ r.index \in Indices
        BY <1>2, <3>1, RecordFacts, JobFacts
      <4>2. r.index \notin B
        BY <1>4, <1>5, <3>1
      <4>3. QED
        BY <1>19, <4>1, <4>2
    <3>2. CASE \E p \in replaced : r = Job(replacement(p), p.server, p.index)
      <4>1. PICK p \in replaced : r = Job(replacement(p), p.server, p.index)
        BY <3>2
      <4>2. p \in R /\ recvRequests'[p.index] = replacement(p)
        BY <1>16, <1>17
      <4>3. r.index = p.index /\ r.server = p.server /\ r.id = replacement(p)
        BY <1>25, <4>1
      <4>4. QED
        BY <1>4, <4>2, <4>3
    <3>3. QED
      BY <1>1, <2>3, <3>1, <3>2
  <2> HIDE DEF new, B, next
  <2>4. /\ coreQueue' \cup delivered' \subseteq 1 .. evalIdCntr'
        /\ coreQueue' \cap delivered' = {}
        /\ InFlight' \subseteq coreQueue'
        /\ raw' \cap InFlight' = {} /\ raw' \subseteq delivered'
    <3>1. ids \subseteq coreQueue /\ new \cap ids = {}
      BY <1>6, <1>9, <2>1
    <3>2. /\ coreQueue' = coreQueue \ ids /\ delivered' = delivered \cup ids
          /\ raw' = ids /\ evalIdCntr' = evalIdCntr
      BY <1>1
    <3>3. QED
      BY <1>9, <1>24, <2>1, <3>1, <3>2
  <2>5. RunningIds' = InFlight'
    BY <1>3, <1>24, <2>2
  <2>6. pc' # "waitall"
    BY <1>1
  <2>7. QED
    BY <1>2, <2>3, <2>4, <2>5, <2>6 DEF Bookkeeping
<1>28. SimulatedOnce'
  <2>1. raw \subseteq delivered /\ coreQueue \cap delivered = {}
    BY <1>2 DEF MInv, Bookkeeping
  <2>2. /\ replies' = replies \ ids /\ delivered' = delivered \cup ids
        /\ raw' = ids /\ coreQueue' = coreQueue \ ids /\ active' = active
        /\ runs' = runs
    BY <1>1, <1>6
  <2>3. replies' \cup delivered' \cup (raw' \cap coreQueue')
          = replies \cup delivered \cup (raw \cap coreQueue)
    BY <1>6, <2>1, <2>2
  <2>4. QED
    BY <2>2, <2>3, NothingSimulated DEF MInv
<1>29. QED
  BY <1>24, <1>26, <1>27, <1>28 DEF MInv

-----------------------------------------------------------------------------
(* Every step preserves the invariant.                                     *)
LEMMA NextMInv ==
  ASSUME MInv, [Next]_vars
  PROVE  MInv'
<1>1. CASE MapAsynch
  BY <1>1, MapAsynchMInv
<1>2. CASE ScheduleStart
  BY <1>2, ScheduleStartMInv
<1>3. CASE \E b \in Indices : WaitSome(b)
  BY <1>3, WaitSomeMInv
<1>4. CASE WaitAll
  BY <1>4, WaitAllMInv
<1>5. CASE ScheduleReturn
  BY <1>5, ScheduleReturnMInv
<1>6. CASE NowaitFirstPass
  BY <1>6, NowaitFirstPassMInv
<1>7. CASE NowaitFill
  BY <1>7, NowaitFillMInv
<1>8. CASE FillGap
  BY <1>8, FillGapMInv
<1>9. CASE FillDone
  BY <1>9, FillDoneMInv
<1>10. CASE \E R \in SUBSET Completed : TestReceivesBackfill(R)
  BY <1>10, TestReceivesBackfillMInv
<1>11. CASE StopServers
  BY <1>11, StopServersMInv
<1>12. CASE \E s \in ServerIds : ServerReceive(s)
  BY <1>12, ServerReceiveMInv
<1>13. CASE \E s \in ServerIds, id \in Evals : ServerReturn(s, id)
  BY <1>13, ServerReturnMInv
<1>14. CASE UNCHANGED vars
  BY <1>14, StutterMInv
<1>15. QED
  BY <1>1, <1>2, <1>3, <1>4, <1>5, <1>6, <1>7, <1>8, <1>9, <1>10, <1>11, <1>12, <1>13,
     <1>14 DEF Next

LEMMA AlwaysMInv == Spec => []MInv
BY InitMInv, NextMInv, PTL DEF Spec

(* The master and its servers keep every variable in its type.             *)
THEOREM MasterTypes == Spec => []TypeOK
<1>1. MInv => TypeOK
  BY DEF MInv
<1>2. QED
  BY <1>1, AlwaysMInv, PTL

(* The reuse of send and receive buffers without waiting for the sends is  *)
(* safe: an index holds one job from send_evaluation() to                  *)
(* receive_evaluation(), for any number of servers and jobs per server.    *)
THEOREM BuffersNeverShared == Spec => []BuffersExclusive
<1>1. MInv => BuffersExclusive
  BY DEF MInv
<1>2. QED
  BY <1>1, AlwaysMInv, PTL

(* In the nowait form msgPassRunningMap describes the jobs in flight, with *)
(* the server and the index that each of them really has.                  *)
THEOREM RunningMapIsExact == Spec => []RunningMapExact
<1>1. MInv => RunningMapExact
  <2>1. SUFFICES ASSUME MInv, pc \in {"idle", "fill", "test"}
                 PROVE  /\ RunningIds = InFlight
                        /\ \A r \in runningMap :
                             /\ recvRequests[r.index] = r.id
                             /\ r.index \in Allocation(r.server)
                             /\ r.id \in SentTo(r.server) \cup active[r.server]
                                           \cup replies
    BY DEF RunningMapExact
  <2>2. ~Blocking
    BY <2>1 DEF Blocking
  <2>3. RunningIds = InFlight
    BY <2>1, <2>2 DEF MInv, Bookkeeping
  <2>4. QED
    BY <2>1, <2>2, <2>3, RecordFacts DEF OnServer
<1>2. QED
  BY <1>1, AlwaysMInv, PTL

(* No server is ever sent more jobs than it may run at once, whichever     *)
(* jobs end first: each of its jobs has an index of the server's own lane. *)
THEOREM NeverOverloaded == Spec => []NotOverloaded
<1>1. ASSUME MInv, NEW s \in ServerIds
      PROVE  Cardinality(SentTo(s) \cup active[s]) <= Concurrency
  <2> DEFINE f == [x \in OnServer(s) |-> CHOOSE b \in Indices : recvRequests[b] = x]
  <2>1. ASSUME NEW x \in OnServer(s)
        PROVE  f[x] \in Indices /\ recvRequests[f[x]] = x
    <3>1. x \in InFlight
      BY <2>1, FlightFacts
    <3>2. \E b \in Indices : recvRequests[b] = x
      BY <1>1, <3>1 DEF MInv, BuffersExclusive
    <3>3. QED
      BY <2>1, <3>2
  <2>2. \A x \in OnServer(s) : f[x] \in Lane(s)
    BY <1>1, <2>1 DEF MInv, InLane
  <2>3. f \in [OnServer(s) -> Lane(s)]
    BY <2>2
  <2>4. \A x, y \in OnServer(s) : f[x] = f[y] => x = y
    BY <2>1
  <2> HIDE DEF f
  <2>5. f \in Injection(OnServer(s), Lane(s))
    BY <2>3, <2>4 DEF Injection, IsInjective
  <2>6. IsFiniteSet(Lane(s)) /\ Cardinality(Lane(s)) <= Concurrency
    BY LaneSize
  <2>7. IsFiniteSet(OnServer(s)) /\ Cardinality(OnServer(s)) <= Cardinality(Lane(s))
    BY <2>5, <2>6, FS_Injection
  <2>8. Cardinality(OnServer(s)) \in Nat /\ Cardinality(Lane(s)) \in Nat
    BY <2>6, <2>7, FS_CardinalityType
  <2>9. Cardinality(OnServer(s)) <= Concurrency
    BY <2>6, <2>7, <2>8, Counts
  <2>10. QED
    BY <2>9 DEF OnServer
<1>2. MInv => NotOverloaded
  BY <1>1 DEF NotOverloaded
<1>3. QED
  BY <1>2, AlwaysMInv, PTL

(* Each job is simulated once, on one server.                              *)
THEOREM JobsSimulatedOnce == Spec => []SimulatedOnce
<1>1. MInv => SimulatedOnce
  BY DEF MInv
<1>2. QED
  BY <1>1, AlwaysMInv, PTL

(* The abort of the nowait scheduler, no index left on the server with the *)
(* least load, cannot happen.                                              *)
THEOREM MasterNeverAborts == Spec => []NeverAborts
<1>1. MInv => NeverAborts
  BY DEF MInv
<1>2. QED
  BY <1>1, AlwaysMInv, PTL

(* A server that stops has read every job that was sent to it.             *)
THEOREM ServersStopCleanly == Spec => []StoppedCleanly
<1>1. MInv => StoppedCleanly
  BY DEF MInv, Tags, StoppedCleanly
<1>2. QED
  BY <1>1, AlwaysMInv, PTL

-----------------------------------------------------------------------------
(* The scheduler implements EvalScheduler.                                 *)

Waiting == coreQueue \ (InFlight \cup raw)
Returned == delivered \cup (raw \cap coreQueue)

(* An evaluation that was mapped waits, is in flight or has returned, and  *)
(* no more are in flight than there are indices.                           *)
Mapped ==
  /\ Waiting \cup InFlight \cup Returned = coreQueue \cup delivered
  /\ Waiting \cap InFlight = {}
  /\ Waiting \cap Returned = {}
  /\ InFlight \cap Returned = {}
  /\ Cardinality(InFlight) <= Capacity

LEMMA AlwaysMapped == MInv => Mapped
<1> SUFFICES ASSUME MInv PROVE Mapped
  OBVIOUS
<1>1. /\ coreQueue \cap delivered = {} /\ InFlight \subseteq coreQueue
      /\ raw \cap InFlight = {}
  BY DEF MInv, Bookkeeping
<1>2. /\ Waiting \cup InFlight \cup Returned = coreQueue \cup delivered
      /\ Waiting \cap InFlight = {} /\ Waiting \cap Returned = {}
      /\ InFlight \cap Returned = {}
  BY <1>1 DEF Waiting, Returned
<1> DEFINE f == [x \in InFlight |-> CHOOSE b \in Indices : recvRequests[b] = x]
<1>3. \A x \in InFlight : f[x] \in Indices /\ recvRequests[f[x]] = x
  BY DEF MInv, BuffersExclusive
<1>4. f \in [InFlight -> Indices]
  BY <1>3
<1> HIDE DEF f
<1>5. f \in Injection(InFlight, Indices)
  BY <1>3, <1>4 DEF Injection, IsInjective
<1>6. Cardinality(InFlight) <= Capacity
  BY <1>5, Counts, FS_Injection
<1>7. QED
  BY <1>2, <1>6 DEF Mapped

(* A step that keeps the evaluations, forgets no response, and leaves what *)
(* was in flight there or returns it, is a Schedule step.                  *)
LEMMA ScheduleStep ==
  ASSUME Mapped, Mapped',
         coreQueue' \cup delivered' = coreQueue \cup delivered,
         Returned \subseteq Returned', InFlight \subseteq InFlight' \cup Returned'
  PROVE  Contract!Schedule
<1> DEFINE All == coreQueue \cup delivered
           W == Waiting
           I == InFlight
           D == Returned
<1>1. /\ W \cup I \cup D = All /\ W \cap I = {} /\ W \cap D = {} /\ I \cap D = {}
      /\ W' \cup I' \cup D' = All /\ W' \cap I' = {} /\ W' \cap D' = {} /\ I' \cap D' = {}
      /\ D \subseteq D' /\ I \subseteq I' \cup D'
  BY DEF Mapped
<1>2. Contract!Cardinality(I') <= Capacity
  <2>1. Contract!Cardinality(I') = Cardinality(I')
    BY DEF Contract!Cardinality, Cardinality
  <2>2. QED
    BY <2>1 DEF Mapped
<1> HIDE DEF All, W, I, D
<1>3. W' \subseteq W
  BY <1>1
<1>4. D' \subseteq D \cup I \cup (W \ W')
  BY <1>1
<1>5. I' = (I \cup (W \ W')) \ D'
  BY <1>1
<1>6. QED
  BY <1>1, <1>2, <1>3, <1>4, <1>5 DEF Contract!Schedule, W, I, D, Waiting, Returned

(* Every step of the master and of the servers is a step of the contract.  *)
LEMMA NextRefines ==
  ASSUME MInv, MInv', Mapped, Mapped', [Next]_vars
  PROVE  [Contract!SchedNext]_(Contract!schedVars)
<1> DEFINE all == coreQueue \cup delivered
           Good == /\ all' = all /\ Returned \subseteq Returned'
                   /\ InFlight \subseteq InFlight' \cup Returned'
<1>1. ASSUME Good PROVE [Contract!SchedNext]_(Contract!schedVars)
  <2>1. Contract!Schedule
    BY <1>1, ScheduleStep
  <2>2. QED
    BY <2>1 DEF Contract!SchedNext
<1>2. ASSUME recvRequests' = recvRequests PROVE InFlight \subseteq InFlight'
  <2>1. SUFFICES ASSUME NEW x \in InFlight PROVE x \in InFlight'
    OBVIOUS
  <2>2. PICK b \in Indices : recvRequests[b] = x
    BY DEF MInv, BuffersExclusive
  <2>3. x # NoTag
    BY FlightFacts DEF MInv
  <2>4. QED
    BY <1>2, <2>2, <2>3 DEF MInv, BuffersExclusive
<1>3. ASSUME ~Blocking
      PROVE  InFlight = {r.id : r \in runningMap} /\ raw \subseteq delivered
             /\ Returned = delivered
  BY <1>3 DEF MInv, Bookkeeping, RunningIds, Returned
<1>4. ASSUME ~Blocking' PROVE InFlight' = {r.id : r \in runningMap'}
  BY <1>4 DEF MInv, Bookkeeping, RunningIds
<1>5. ASSUME Blocking
      PROVE  raw \subseteq coreQueue /\ InFlight \subseteq coreQueue
             /\ raw \cap InFlight = {}
  BY <1>5 DEF MInv, Bookkeeping
<1>6. CASE MapAsynch
  <2> DEFINE e == evalIdCntr + 1
  <2>1. e \in Evals /\ e \notin 1 .. evalIdCntr
    BY <1>6, ConstantsAssumption DEF MInv, TypeOK, MapAsynch, Evals
  <2>2. /\ coreQueue' = coreQueue \cup {e}
        /\ UNCHANGED <<raw, recvRequests, delivered, inbox, active, replies, pc, stopped>>
    BY <1>6 DEF MapAsynch, serverVars
  <2>3. e \notin coreQueue \cup delivered
    BY <2>1 DEF MInv, Bookkeeping
  <2>4. InFlight' = InFlight
    BY <2>2 DEF InFlight, OnServers, SentTo
  <2>5. ~Blocking
    BY <1>6 DEF MapAsynch, Blocking
  <2> HIDE DEF e
  <2>6. e \notin Waiting \cup InFlight \cup Returned
    BY <2>3 DEF Mapped
  <2>7. Waiting' = Waiting \cup {e} /\ Returned' = Returned
    BY <1>3, <2>2, <2>3, <2>4, <2>5, <2>6 DEF Waiting, Returned
  <2>8. Contract!Queue(e)
    BY <2>4, <2>6, <2>7 DEF Contract!Queue, Waiting, Returned
  <2>9. QED
    BY <2>1, <2>8 DEF Contract!SchedNext
<1>7. CASE ScheduleStart
  <2>1. ~Blocking /\ runningMap = {} /\ coreQueue' = coreQueue /\ delivered' = delivered
    BY <1>7 DEF ScheduleStart, Blocking
  <2>2. QED
    BY <1>1, <1>3, <2>1 DEF Returned
<1>8. CASE \E b \in Indices : WaitSome(b)
  <2>1. PICK b \in Indices : WaitSome(b)
    BY <1>8
  <2>2. /\ Blocking /\ coreQueue' = coreQueue /\ delivered' = delivered
        /\ raw' = raw \cup {recvRequests[b]} /\ recvRequests[b] \in replies
    BY <2>1 DEF WaitSome, Blocking, Complete
  <2>3. \A c \in Indices : c # b => recvRequests'[c] = recvRequests[c]
    BY <2>1 DEF WaitSome, MInv, TypeOK
  <2>4. ASSUME NEW x \in InFlight PROVE x \in InFlight' \cup Returned'
    <3>1. PICK c \in Indices : recvRequests[c] = x
      BY DEF MInv, BuffersExclusive
    <3>2. CASE c = b
      BY <1>5, <2>2, <3>1, <3>2 DEF Returned
    <3>3. CASE c # b
      <4>1. recvRequests'[c] = x /\ x # NoTag
        BY <2>3, <3>1, <3>3, FlightFacts DEF MInv
      <4>2. QED
        BY <4>1 DEF MInv, BuffersExclusive
    <3>4. QED
      BY <3>2, <3>3
  <2>5. Returned \subseteq Returned'
    BY <2>2 DEF Returned
  <2>6. QED
    BY <1>1, <2>2, <2>4, <2>5
<1>9. CASE WaitAll
  <2>1. Blocking /\ coreQueue' = coreQueue /\ delivered' = delivered /\ raw' = coreQueue
    BY <1>9 DEF WaitAll, Blocking
  <2>2. QED
    BY <1>1, <1>5, <2>1 DEF Returned
<1>10. CASE ScheduleReturn
  <2>1. /\ Blocking /\ Cardinality(raw) >= Cardinality(coreQueue)
        /\ coreQueue' = {} /\ delivered' = delivered \cup raw
    BY <1>10 DEF ScheduleReturn, Blocking
  <2>2. /\ IsFiniteSet(coreQueue) /\ Cardinality(coreQueue) \in Nat
        /\ Cardinality(raw) \in Nat
    BY FiniteParts DEF MInv, TypeOK
  <2>3. /\ Cardinality(raw) <= Cardinality(coreQueue)
        /\ Cardinality(coreQueue) = Cardinality(raw) => coreQueue = raw
    BY <1>5, <2>1, <2>2, FS_Subset
  <2>4. raw = coreQueue
    BY <2>1, <2>2, <2>3
  <2>5. QED
    BY <1>1, <1>5, <2>1, <2>4 DEF Returned
<1>11. CASE NowaitFirstPass
  <2>1. ~Blocking /\ runningMap = {} /\ coreQueue' = coreQueue /\ delivered' = delivered
    BY <1>11 DEF NowaitFirstPass, Blocking
  <2>2. QED
    BY <1>1, <1>3, <2>1 DEF Returned
<1>12. CASE NowaitFill
  <2>1. /\ ~Blocking /\ coreQueue' = coreQueue /\ delivered' = delivered
        /\ recvRequests' = recvRequests
    BY <1>12 DEF NowaitFill, Blocking
  <2>2. QED
    BY <1>1, <1>2, <1>3, <2>1 DEF Returned
<1>13. CASE FillGap
  <2>1. /\ ~Blocking /\ coreQueue' = coreQueue /\ delivered' = delivered
        /\ runningMap \subseteq runningMap' /\ raw' = raw
    BY <1>13 DEF FillGap, Blocking
  <2>2. ~Blocking'
    BY <1>13 DEF FillGap, Blocking
  <2>3. InFlight \subseteq InFlight'
    BY <1>3, <1>4, <2>1, <2>2
  <2>4. QED
    BY <1>1, <2>1, <2>3 DEF Returned
<1>14. CASE FillDone
  BY <1>1, <1>2, <1>14 DEF FillDone, Returned
<1>15. CASE \E R \in SUBSET Completed : TestReceivesBackfill(R)
  <2>1. PICK R \in SUBSET Completed : TestReceivesBackfill(R)
    BY <1>15
  <2> DEFINE ids == {r.id : r \in R}
  <2>2. /\ pc = "test" /\ pc' = "idle" /\ coreQueue' = coreQueue \ ids
        /\ delivered' = delivered \cup ids
    BY <2>1 DEF TestReceivesBackfill
  <2>3. runningMap \ R \subseteq runningMap'
    BY <2>1 DEF TestReceivesBackfill
  <2>4. ~Blocking /\ ~Blocking'
    BY <2>2 DEF Blocking
  <2>5. ids \subseteq InFlight
    BY <1>3, <2>4 DEF Completed
  <2>6. InFlight \subseteq coreQueue
    BY DEF MInv, Bookkeeping
  <2>7. InFlight \subseteq InFlight' \cup ids
    BY <1>3, <1>4, <2>3, <2>4
  <2> HIDE DEF ids
  <2>8. QED
    BY <1>1, <1>3, <2>2, <2>4, <2>5, <2>6, <2>7 DEF Returned
<1>16. CASE StopServers
  BY <1>1, <1>2, <1>16 DEF StopServers, Returned
<1>17. CASE \E s \in ServerIds : ServerReceive(s)
  BY <1>1, <1>2, <1>17 DEF ServerReceive, masterVars, Returned
<1>18. CASE \E s \in ServerIds, id \in Evals : ServerReturn(s, id)
  BY <1>1, <1>2, <1>18 DEF ServerReturn, masterVars, Returned
<1>19. CASE UNCHANGED vars
  BY <1>1, <1>2, <1>19 DEF vars, masterVars, Returned
<1>20. QED
  BY <1>6, <1>7, <1>8, <1>9, <1>10, <1>11, <1>12, <1>13, <1>14, <1>15, <1>16, <1>17,
     <1>18, <1>19 DEF Next

(* The dedicated master and its servers keep the contract of EvalScheduler *)
(* in both forms of synchronization: what is queued is simulated at most   *)
(* once, at most Capacity evaluations are in flight, and nothing that was  *)
(* queued is dropped.                                                      *)
THEOREM MasterRefinement == Spec => ImplementsContract
<1>1. Init => Contract!SchedInit
  <2>1. SUFFICES ASSUME Init PROVE Contract!SchedInit
    OBVIOUS
  <2>2. MInv
    BY <2>1, InitMInv
  <2>3. InFlight = {}
    BY <2>1, <2>2 DEF Init, MInv, Bookkeeping
  <2>4. QED
    BY <2>1, <2>3 DEF Init, Contract!SchedInit
<1>2. MInv /\ MInv' /\ Mapped /\ Mapped' /\ [Next]_vars
        => [Contract!SchedNext]_(Contract!schedVars)
  BY NextRefines
<1>3. QED
  BY <1>1, <1>2, AlwaysMInv, AlwaysMapped, PTL
     DEF Spec, ImplementsContract, Contract!SchedSpec
=============================================================================
