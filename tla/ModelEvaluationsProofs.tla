----------------------- MODULE ModelEvaluationsProofs -----------------------
(***************************************************************************)
(* Theorems about ModelEvaluations: no response is lost between the        *)
(* levels and a synchronization completes.  That a client receives its own *)
(* responses is in ModelResponsesProofs.                                   *)
(***************************************************************************)
EXTENDS ModelEvaluations, IdQueueProofs

-----------------------------------------------------------------------------
(* The inductive invariant.                                                *)

Shaped(s) ==
  s = [evals |-> s.evals, simEvals |-> s.simEvals, simIds |-> s.simIds,
       rawIds |-> s.rawIds, numFD |-> s.numFD, lists |-> s.lists,
       est |-> s.est, cache |-> s.cache, asked |-> s.asked]

Slot == {"g", "h", "x0", "zero", "map"} \X Nat \X Nat
TagSet == [model : Models, eval : Nat, slot : Slot]
AsvSet ==
  {ManageAsv(c, request, short) : c \in Configurations,
     request \in SUBSET {1, 2, 4}, short \in BOOLEAN}
  \cup {[est |-> FALSE]}
AskSet == [client : Clients, eval : Nat, asv : AsvSet]

TypeInv ==
  /\ config \in Configurations
  /\ raw \in Seq(TagSet)
  /\ model = [m \in Models |-> model[m]]
  /\ client = [c \in Clients |->
                 [evals |-> client[c].evals, ids |-> client[c].ids]]
  /\ \A c \in Clients : client[c].evals \in Nat
  /\ \A m \in Models :
       /\ Shaped(model[m])
       /\ model[m].evals \in Nat /\ model[m].simEvals \in Nat
       /\ model[m].est \in BOOLEAN
       /\ model[m].asked \in Seq(AskSet)
       /\ Len(model[m].asked) = model[m].evals

(* simIdMap holds exactly the raw evaluations of the evaluations that are  *)
(* in numFDEvalsMap, and the interface holds each of them.                 *)
SimOf(m, s, log, held) ==
  /\ DOMAIN s.simIds \subseteq DOMAIN log
  /\ \A i \in DOMAIN s.simIds :
       /\ s.simIds[i] \in 1 .. s.simEvals
       /\ log[i].model = m /\ log[i].eval \in DOMAIN s.numFD
       /\ i \in held
  /\ \A i, j \in DOMAIN s.simIds : i < j => s.simIds[i] < s.simIds[j]
  /\ \A i \in DOMAIN log :
       log[i].model = m =>
         /\ log[i].eval \in 1 .. s.evals
         /\ log[i].eval \in DOMAIN s.numFD => i \in DOMAIN s.simIds

(* rawEvalIdMap pairs raw ids with the ids in numFDEvalsMap, in order.     *)
IdsOf(s) ==
  /\ DOMAIN s.rawIds \subseteq 1 .. s.simEvals
  /\ \A r \in DOMAIN s.rawIds :
       /\ s.rawIds[r] \in DOMAIN s.numFD
       /\ \E i \in DOMAIN s.simIds : s.simIds[i] = r
  /\ \A q, r \in DOMAIN s.rawIds : q < r => s.rawIds[q] < s.rawIds[r]
  /\ DOMAIN s.numFD \subseteq 1 .. s.evals
  /\ \A k \in DOMAIN s.numFD : \E r \in DOMAIN s.rawIds : s.rawIds[r] = k

(* Without an estimation, a raw evaluation is an evaluation of the model.  *)
PlainOf(s, log) ==
  ~s.est =>
    \A i \in DOMAIN s.simIds :
      s.simIds[i] \in DOMAIN s.rawIds /\ s.rawIds[s.simIds[i]] = log[i].eval

(* What a client waits for is its own and is cached or outstanding.        *)
WaitsOf(c, ids, s) ==
  \A k \in DOMAIN ids :
    /\ k \in 1 .. s.evals
    /\ s.asked[k].client = c /\ s.asked[k].eval = ids[k]
    /\ k \in DOMAIN s.cache \cup DOMAIN s.numFD

MapsOf(m, s, log, held) ==
  SimOf(m, s, log, held) /\ IdsOf(s) /\ PlainOf(s, log)

MapsInv ==
  /\ TypeInv
  /\ \A m \in Models : MapsOf(m, model[m], raw, pending \cup cached)
  /\ \A c \in Clients : WaitsOf(c, client[c].ids, model[ModelOf[c]])
  /\ left = {}

-----------------------------------------------------------------------------
(* What the operators make of the fields of a model.                       *)

(* SMT reasons about a record through its constructor.                     *)
LEMMA AskedFields ==
  ASSUME NEW s, Shaped(s), NEW c, NEW asv
  PROVE  LET t == Asked(s, c, asv)
         IN  /\ t.evals = s.evals + 1 /\ t.simEvals = s.simEvals
             /\ t.simIds = s.simIds /\ t.rawIds = s.rawIds
             /\ t.numFD = s.numFD /\ t.lists = s.lists /\ t.est = s.est
             /\ t.cache = s.cache
             /\ t.asked = Append(s.asked,
                                 [client |-> c, eval |-> client[c].evals + 1,
                                  asv |-> IF asv.est THEN asv
                                                     ELSE [est |-> FALSE]])
             /\ Shaped(t)
<1> DEFINE x == s.evals + 1
           y == Append(s.asked,
                       [client |-> c, eval |-> client[c].evals + 1,
                        asv |-> IF asv.est THEN asv ELSE [est |-> FALSE]])
<1>1. Asked(s, c, asv) = [s EXCEPT !.evals = x, !.asked = y]
  BY DEF Asked
<1> HIDE DEF x, y
<1>2. LET t == Asked(s, c, asv)
      IN  /\ t.evals = x /\ t.simEvals = s.simEvals
          /\ t.simIds = s.simIds /\ t.rawIds = s.rawIds
          /\ t.numFD = s.numFD /\ t.lists = s.lists /\ t.est = s.est
          /\ t.cache = s.cache /\ t.asked = y /\ Shaped(t)
  BY <1>1 DEF Shaped
<1>3. QED
  BY <1>2 DEF x, y

LEMMA LaunchedFields ==
  ASSUME NEW s, Shaped(s), NEW slots
  PROVE  LET t == Launched(s, slots)
         IN  /\ t.evals = s.evals /\ t.simEvals = s.simEvals + Len(slots)
             /\ t.simIds = Inserted(s.simIds,
                                    [i \in NewIds(slots) |->
                                       s.simEvals + (i - Len(raw))])
             /\ t.rawIds = s.rawIds /\ t.numFD = s.numFD
             /\ t.lists = s.lists /\ t.est = s.est /\ t.cache = s.cache
             /\ t.asked = s.asked
             /\ Shaped(t)
<1> DEFINE x == s.simEvals + Len(slots)
           y == Inserted(s.simIds, [i \in NewIds(slots) |->
                                      s.simEvals + (i - Len(raw))])
<1>1. Launched(s, slots) = [s EXCEPT !.simEvals = x, !.simIds = y]
  BY DEF Launched
<1> HIDE DEF x, y
<1>2. LET t == Launched(s, slots)
      IN  /\ t.evals = s.evals /\ t.simEvals = x
          /\ t.simIds = y /\ t.rawIds = s.rawIds
          /\ t.numFD = s.numFD /\ t.lists = s.lists /\ t.est = s.est
          /\ t.cache = s.cache /\ t.asked = s.asked /\ Shaped(t)
  BY <1>1 DEF Shaped
<1>3. QED
  BY <1>2 DEF x, y

(* The lists with the active set of one more estimation.                   *)
Extended(s, m, asv, hit) ==
  [Listed(s.lists, m, s.evals, config, asv, Initial(asv, hit), hit)
     EXCEPT !.sets = Append(@, asv)]

BookkeptTo(s, m, asv, hit, t) ==
  /\ t.evals = s.evals /\ t.simEvals = s.simEvals
  /\ t.simIds = s.simIds /\ t.cache = s.cache
  /\ t.asked = s.asked
  /\ t.rawIds = With(s.rawIds, s.simEvals + 1, s.evals)
  /\ t.numFD = With(s.numFD, s.evals,
                    IF asv.est THEN Len(SlotsOf(asv, hit)) ELSE -1)
  /\ t.lists = IF asv.est THEN Extended(s, m, asv, hit) ELSE s.lists
  /\ t.est = IF asv.est THEN TRUE ELSE s.est
  /\ Shaped(t)

LEMMA BookkeptFields ==
  ASSUME NEW s, Shaped(s), NEW m, NEW asv, NEW hit, asv.est \in BOOLEAN
  PROVE  BookkeptTo(s, m, asv, hit, Bookkept(s, m, asv, hit))
<1>1. CASE asv.est
  BY <1>1 DEF Bookkept, BookkeptTo, Shaped, Extended
<1>2. CASE ~asv.est
  BY <1>2 DEF Bookkept, BookkeptTo, Shaped
<1>3. QED
  BY <1>1, <1>2

LEMMA CollectedFields ==
  ASSUME NEW s, Shaped(s), NEW got
  PROVE  LET t == Collected(s, got)
         IN  /\ t.evals = s.evals /\ t.simEvals = s.simEvals
             /\ t.simIds = Without(s.simIds, Matched(s, got))
             /\ t.rawIds = s.rawIds /\ t.numFD = s.numFD
             /\ t.lists = s.lists /\ t.est = s.est /\ t.cache = s.cache
             /\ t.asked = s.asked
             /\ Shaped(t)
BY DEF Collected, Shaped
-----------------------------------------------------------------------------
(* Induction and recursion.                                                *)

(* Induction up to n, for a set of numbers.                                *)
LEMMA UpTo ==
  ASSUME NEW S, NEW n \in Nat, 0 \in S,
         \A i \in 0 .. (n - 1) : i \in S => i + 1 \in S
  PROVE  \A i \in 0 .. n : i \in S
<1> DEFINE missing == {i \in 0 .. n : i \notin S}
<1>1. SUFFICES ASSUME missing # {} PROVE FALSE
  OBVIOUS
<1>2. IsFiniteSet(missing) /\ missing \subseteq Int
  <2>1. IsFiniteSet(0 .. n)
    BY FS_Interval
  <2>2. QED
    BY <2>1, FS_Subset
<1>3. PICK i \in missing : \A j \in missing : i <= j
  <2> HIDE DEF missing
  <2>1. QED
    BY <1>1, <1>2, LeastFirst
<1>4. i # 0 /\ i \in 0 .. n /\ i \notin S
  OBVIOUS
<1>5. i - 1 \in 0 .. (n - 1) /\ (i - 1) + 1 = i
  BY <1>4
<1>6. i - 1 \in S
  BY <1>3, <1>5
<1>7. QED
  BY <1>4, <1>5, <1>6

(* A function that puts parts together from the back, and its type.        *)
FromBack(f, n, a) ==
  f = [j \in 1 .. (n + 1) |-> IF j > n THEN <<>> ELSE a[j] \o f[j + 1]]

LEMMA FromExists ==
  ASSUME NEW T, NEW n \in Nat, NEW a \in [1 .. n -> Seq(T)]
  PROVE  \E f : FromBack(f, n, a)
<1> DEFINE Good(f, i) ==
             /\ f \in [(n + 1 - i) .. (n + 1) -> Seq(T)]
             /\ \A j \in (n + 1 - i) .. (n + 1) :
                  f[j] = IF j > n THEN <<>> ELSE a[j] \o f[j + 1]
           S == {i \in 0 .. n : \E f : Good(f, i)}
<1>1. 0 \in S
  <2> DEFINE f == [j \in (n + 1) .. (n + 1) |-> <<>>]
  <2>1. n + 1 - 0 = n + 1 /\ <<>> \in Seq(T)
        /\ \A j \in (n + 1) .. (n + 1) : j > n
    OBVIOUS
  <2>2. f \in [(n + 1) .. (n + 1) -> Seq(T)]
        /\ \A j \in (n + 1) .. (n + 1) : f[j] = <<>>
    BY <2>1
  <2> HIDE DEF f
  <2>3. Good(f, 0)
    BY <2>1, <2>2
  <2> HIDE DEF Good
  <2>4. 0 \in 0 .. n
    OBVIOUS
  <2>5. QED
    BY <2>3, <2>4
<1>2. ASSUME NEW i \in 0 .. (n - 1), i \in S PROVE i + 1 \in S
  <2>1. PICK f : Good(f, i)
    BY <1>2
  <2> DEFINE b == n - i
             g == [j \in b .. (n + 1) |->
                     IF j = b THEN a[b] \o f[b + 1] ELSE f[j]]
  <2>2. b \in 1 .. n /\ n + 1 - i = b + 1 /\ n + 1 - (i + 1) = b
        /\ b + 1 \in (b + 1) .. (n + 1)
    OBVIOUS
  <2>3. /\ f \in [(b + 1) .. (n + 1) -> Seq(T)]
        /\ \A j \in (b + 1) .. (n + 1) :
             f[j] = IF j > n THEN <<>> ELSE a[j] \o f[j + 1]
    BY <2>1, <2>2
  <2>4. b \in Int /\ b <= n
    BY <2>2
  <2>5. a[b] \o f[b + 1] \in Seq(T)
    BY <2>2, <2>3
  <2> HIDE DEF b
  <2>6. g \in [b .. (n + 1) -> Seq(T)]
    BY <2>3, <2>4, <2>5
  <2>a. g[b] = a[b] \o f[b + 1]
        /\ \A j \in (b + 1) .. (n + 1) : g[j] = f[j]
    <3>1. b \in b .. (n + 1) /\ \A j \in (b + 1) .. (n + 1) :
                                  j # b /\ j \in b .. (n + 1)
      BY <2>4
    <3>2. QED
      BY <3>1, Zenon
  <2> HIDE DEF g
  <2>7. ASSUME NEW j \in b .. (n + 1)
        PROVE  g[j] = IF j > n THEN <<>> ELSE a[j] \o g[j + 1]
    <3>1. CASE j = b
      <4>1. b + 1 \in (b + 1) .. (n + 1) /\ ~(b > n)
        BY <2>4
      <4>2. g[b] = a[b] \o f[b + 1] /\ g[b + 1] = f[b + 1]
        BY <4>1, <2>a
      <4>3. QED
        BY <3>1, <4>1, <4>2
    <3>2. CASE j # b /\ j > n
      <4>1. j \in (b + 1) .. (n + 1)
        BY <3>2, <2>4
      <4>2. g[j] = f[j] /\ f[j] = <<>>
        BY <4>1, <2>a, <2>3, <3>2
      <4>3. QED
        BY <4>2, <3>2
    <3>3. CASE j # b /\ ~(j > n)
      <4>1. j \in (b + 1) .. (n + 1) /\ j + 1 \in (b + 1) .. (n + 1)
        BY <3>3, <2>4
      <4>2. g[j] = f[j] /\ g[j + 1] = f[j + 1]
        BY <4>1, <2>a
      <4>3. QED
        BY <4>1, <4>2, <3>3, <2>3
    <3>4. QED
      BY <3>1, <3>2, <3>3
  <2>8. Good(g, i + 1)
    BY <2>2, <2>6, <2>7
  <2>9. i + 1 \in 0 .. n
    OBVIOUS
  <2> HIDE DEF Good
  <2>10. QED
    BY <2>8, <2>9
<1>3. n \in S
  <2>0. n \in 0 .. n
    OBVIOUS
  <2> HIDE DEF S
  <2>1. QED
    BY <1>1, <1>2, <2>0, UpTo
<1>4. PICK f : Good(f, n)
  BY <1>3
<1>5. n + 1 - n = 1
  OBVIOUS
<1>6. f \in [1 .. (n + 1) -> Seq(T)]
      /\ \A j \in 1 .. (n + 1) :
           f[j] = IF j > n THEN <<>> ELSE a[j] \o f[j + 1]
  BY <1>4, <1>5
<1>7. FromBack(f, n, a)
  BY <1>6 DEF FromBack
<1>8. QED
  BY <1>7

LEMMA FromType ==
  ASSUME NEW n \in Nat, NEW a \in [1 .. n -> Seq(Slot)], NEW f,
         FromBack(f, n, a)
  PROVE  /\ f \in [1 .. (n + 1) -> Seq(Slot)]
         /\ f[n + 1] = <<>>
         /\ \A j \in 1 .. n : f[j] = a[j] \o f[j + 1]
<1> DEFINE S == {i \in 0 .. n : f[n + 1 - i] \in Seq(Slot)}
<1>1. f[n + 1] = <<>>
  <2>1. n + 1 \in 1 .. (n + 1) /\ n + 1 > n
    OBVIOUS
  <2>2. QED
    BY <2>1 DEF FromBack
<1>2. ASSUME NEW j \in 1 .. n PROVE f[j] = a[j] \o f[j + 1]
  <2>1. j \in 1 .. (n + 1) /\ ~(j > n)
    OBVIOUS
  <2>2. QED
    BY <2>1 DEF FromBack
<1>3. 0 \in S
  <2>1. n + 1 - 0 = n + 1 /\ <<>> \in Seq(Slot) /\ 0 \in 0 .. n
    OBVIOUS
  <2>2. f[n + 1 - 0] \in Seq(Slot)
    BY <1>1, <2>1
  <2>3. QED
    BY <2>1, <2>2
<1>4. ASSUME NEW i \in 0 .. (n - 1), i \in S PROVE i + 1 \in S
  <2> DEFINE j == n - i
  <2>1. j \in 1 .. n /\ n + 1 - i = j + 1 /\ n + 1 - (i + 1) = j
    OBVIOUS
  <2> HIDE DEF j
  <2>2. f[j] = a[j] \o f[j + 1] /\ f[j + 1] \in Seq(Slot) /\ a[j] \in Seq(Slot)
    BY <1>2, <1>4, <2>1
  <2>3. f[j] \in Seq(Slot)
    <3>1. \A u, v \in Seq(Slot) : u \o v \in Seq(Slot)
      OBVIOUS
    <3>2. QED
      BY <2>2, <3>1, Zenon
  <2>4. QED
    BY <2>1, <2>3
<1>5. \A i \in 0 .. n : i \in S
  <2> HIDE DEF S
  <2>1. QED
    BY <1>3, <1>4, UpTo
<1>6. ASSUME NEW j \in 1 .. (n + 1) PROVE f[j] \in Seq(Slot)
  <2>1. n + 1 - j \in 0 .. n /\ n + 1 - (n + 1 - j) = j
    OBVIOUS
  <2>2. QED
    BY <1>5, <2>1
<1>7. f \in [1 .. (n + 1) -> Seq(Slot)]
  BY <1>6 DEF FromBack
<1>8. QED
  BY <1>1, <1>2, <1>7
-----------------------------------------------------------------------------
(* The active sets and the slots of an evaluation.                         *)

LEMMA ConfigurationFacts ==
  ASSUME NEW c \in Configurations
  PROVE  /\ c.vars \in Nat /\ c.vars # 0
         /\ c.requests \subseteq SUBSET {1, 2, 4}
         /\ c.centralHess \in BOOLEAN
BY ConfigurationsAssumption

LEMMA ManageAsvFacts ==
  ASSUME NEW c, NEW request, NEW short
  PROVE  LET asv == ManageAsv(c, request, short)
         IN  /\ asv.grad \in BOOLEAN /\ asv.est \in BOOLEAN
             /\ asv.hess \in {0, 1, 2}
<1> DEFINE asv == ManageAsv(c, request, short)
<1>1. /\ asv.grad = (2 \in request /\ c.gradientType = "numerical")
      /\ asv.hess = IF 4 \in request /\ c.hessianType = "numerical"
                      THEN IF c.gradientType = "numerical" THEN 1 ELSE 2
                      ELSE 0
      /\ asv.est = (asv.grad \/ asv.hess # 0
                    \/ (c.hessianType = "quasi"
                        /\ request \cap {2, 4} # {}))
  BY Zenon DEF ManageAsv
<1> HIDE DEF asv
<1>2. QED
  BY <1>1 DEF asv

LEMMA SlotsFacts ==
  ASSUME NEW kind \in {"g", "h"}, NEW j \in Nat, NEW n \in Nat
  PROVE  /\ Slots(kind, j, n) \in Seq(Slot) /\ Len(Slots(kind, j, n)) = n
         /\ \A i \in 1 .. n : Slots(kind, j, n)[i] = <<kind, j, i>>
<1>1. \A i \in 1 .. n : <<kind, j, i>> \in Slot
  BY DEF Slot
<1>2. QED
  BY <1>1 DEF Slots

(* An active set of the specification c.                                   *)
AsvOf(c, asv) ==
  /\ asv.grad \in BOOLEAN /\ asv.hess \in {0, 1, 2}

LEMMA CountFacts ==
  ASSUME NEW c \in Configurations, NEW asv, AsvOf(c, asv),
         NEW j \in 1 .. c.vars
  PROVE  /\ GradCount(c) \in 1 .. 2
         /\ HessEvals(c, asv, j) \in Nat /\ HessDeltas(c, asv) \in Nat
         /\ asv.hess = 0 => HessEvals(c, asv, j) = 0 /\ HessDeltas(c, asv) = 0
<1>1. c.vars \in Nat /\ c.centralHess \in BOOLEAN
  BY ConfigurationFacts
<1>2. GradCount(c) \in 1 .. 2
  BY DEF GradCount
<1>3. CASE asv.hess = 0
  BY <1>2, <1>3 DEF HessEvals, HessDeltas
<1>4. CASE asv.hess = 1
  <2>1. j \in Nat /\ j >= 1 /\ j <= c.vars
    BY <1>1
  <2>2. 2 + 4 * (c.vars - j) \in Nat /\ 2 + (j - 1) \in Nat
    BY <2>1, <1>1
  <2>3. HessEvals(c, asv, j) = IF c.centralHess THEN 2 + 4 * (c.vars - j)
                                                ELSE 2 + (j - 1)
    BY <1>1, <1>4 DEF HessEvals
  <2>4. HessDeltas(c, asv) = IF c.centralHess THEN 1 ELSE 2
    BY <1>1, <1>4 DEF HessDeltas
  <2>5. QED
    BY <1>2, <1>4, <2>2, <2>3, <2>4
<1>5. CASE asv.hess = 2
  <2>1. HessEvals(c, asv, j) = 1 /\ HessDeltas(c, asv) = 1
    BY <1>5 DEF HessEvals, HessDeltas
  <2>2. QED
    BY <1>2, <1>5, <2>1
<1>6. QED
  BY <1>3, <1>4, <1>5 DEF AsvOf

LEMMA AtFacts ==
  ASSUME NEW c \in Configurations, NEW asv, AsvOf(c, asv),
         NEW j \in 1 .. c.vars
  PROVE  EvalsAt(c, asv, j) \in Seq(Slot) /\ DeltasAt(c, asv, j) \in Seq(Slot)
<1>1. j \in Nat
  BY ConfigurationFacts
<1> DEFINE g == Slots("g", j, IF asv.grad THEN GradCount(c) ELSE 0)
           h == Slots("h", j, HessEvals(c, asv, j))
           d == Slots("h", j, HessDeltas(c, asv))
<1>2. (IF asv.grad THEN GradCount(c) ELSE 0) \in Nat
  BY CountFacts
<1>3. g \in Seq(Slot) /\ h \in Seq(Slot) /\ d \in Seq(Slot)
  BY <1>1, <1>2, CountFacts, SlotsFacts
<1>4. <<Zero(j)>> \in Seq(Slot)
  BY <1>1 DEF Zero, Slot
<1>5. EvalsAt(c, asv, j) = IF asv.grad /\ j \in c.fixed THEN <<>> ELSE g \o h
  BY DEF EvalsAt
<1>6. DeltasAt(c, asv, j) = IF asv.grad /\ j \in c.fixed THEN <<Zero(j)>>
                                                        ELSE g \o d
  BY DEF DeltasAt
<1> HIDE DEF g, h, d
<1>7. QED
  BY <1>3, <1>4, <1>5, <1>6

LEMMA EvalsFromFacts ==
  ASSUME NEW c \in Configurations, NEW asv, AsvOf(c, asv)
  PROVE  /\ EvalsFrom(c, asv) \in [1 .. (c.vars + 1) -> Seq(Slot)]
         /\ EvalsFrom(c, asv)[c.vars + 1] = <<>>
         /\ \A j \in 1 .. c.vars :
              EvalsFrom(c, asv)[j]
                = EvalsAt(c, asv, j) \o EvalsFrom(c, asv)[j + 1]
<1> DEFINE n == c.vars
           a == [j \in 1 .. n |-> EvalsAt(c, asv, j)]
           from == EvalsFrom(c, asv)
<1>1. n \in Nat /\ a \in [1 .. n -> Seq(Slot)]
      /\ \A j \in 1 .. n : a[j] = EvalsAt(c, asv, j)
  BY ConfigurationFacts, AtFacts
<1>2. from = CHOOSE f : f = [j \in 1 .. (n + 1) |->
                IF j > n THEN <<>> ELSE EvalsAt(c, asv, j) \o f[j + 1]]
  BY DEF EvalsFrom
<1> HIDE DEF n, a, from
<1>3. PICK f : FromBack(f, n, a)
  BY <1>1, FromExists
<1>4. ASSUME NEW g
      PROVE  [j \in 1 .. (n + 1) |->
                IF j > n THEN <<>> ELSE a[j] \o g[j + 1]]
             = [j \in 1 .. (n + 1) |->
                  IF j > n THEN <<>> ELSE EvalsAt(c, asv, j) \o g[j + 1]]
  <2>1. ASSUME NEW j \in 1 .. (n + 1), ~(j > n) PROVE j \in 1 .. n
    BY <2>1, <1>1
  <2>2. QED
    BY <1>1, <2>1
<1>5. from = [j \in 1 .. (n + 1) |->
                IF j > n THEN <<>> ELSE EvalsAt(c, asv, j) \o from[j + 1]]
  <2>1. f = [j \in 1 .. (n + 1) |->
               IF j > n THEN <<>> ELSE EvalsAt(c, asv, j) \o f[j + 1]]
    BY <1>3, <1>4, Zenon DEF FromBack
  <2>2. QED
    BY <1>2, <2>1, Zenon
<1>6. FromBack(from, n, a)
  BY <1>4, <1>5, Zenon DEF FromBack
<1>7. /\ from \in [1 .. (n + 1) -> Seq(Slot)] /\ from[n + 1] = <<>>
      /\ \A j \in 1 .. n : from[j] = a[j] \o from[j + 1]
  BY <1>1, <1>6, FromType, Zenon
<1>8. QED
  BY <1>1, <1>7, Zenon DEF n, from

LEMMA DeltasFromFacts ==
  ASSUME NEW c \in Configurations, NEW asv, AsvOf(c, asv)
  PROVE  /\ DeltasFrom(c, asv) \in [1 .. (c.vars + 1) -> Seq(Slot)]
         /\ DeltasFrom(c, asv)[c.vars + 1] = <<>>
         /\ \A j \in 1 .. c.vars :
              DeltasFrom(c, asv)[j]
                = DeltasAt(c, asv, j) \o DeltasFrom(c, asv)[j + 1]
<1> DEFINE n == c.vars
           a == [j \in 1 .. n |-> DeltasAt(c, asv, j)]
           from == DeltasFrom(c, asv)
<1>1. n \in Nat /\ a \in [1 .. n -> Seq(Slot)]
      /\ \A j \in 1 .. n : a[j] = DeltasAt(c, asv, j)
  BY ConfigurationFacts, AtFacts
<1>2. from = CHOOSE f : f = [j \in 1 .. (n + 1) |->
                IF j > n THEN <<>> ELSE DeltasAt(c, asv, j) \o f[j + 1]]
  BY DEF DeltasFrom
<1> HIDE DEF n, a, from
<1>3. PICK f : FromBack(f, n, a)
  BY <1>1, FromExists
<1>4. ASSUME NEW g
      PROVE  [j \in 1 .. (n + 1) |->
                IF j > n THEN <<>> ELSE a[j] \o g[j + 1]]
             = [j \in 1 .. (n + 1) |->
                  IF j > n THEN <<>> ELSE DeltasAt(c, asv, j) \o g[j + 1]]
  <2>1. ASSUME NEW j \in 1 .. (n + 1), ~(j > n) PROVE j \in 1 .. n
    BY <2>1, <1>1
  <2>2. QED
    BY <1>1, <2>1
<1>5. from = [j \in 1 .. (n + 1) |->
                IF j > n THEN <<>> ELSE DeltasAt(c, asv, j) \o from[j + 1]]
  <2>1. f = [j \in 1 .. (n + 1) |->
               IF j > n THEN <<>> ELSE DeltasAt(c, asv, j) \o f[j + 1]]
    BY <1>3, <1>4, Zenon DEF FromBack
  <2>2. QED
    BY <1>2, <2>1, Zenon
<1>6. FromBack(from, n, a)
  BY <1>4, <1>5, Zenon DEF FromBack
<1>7. /\ from \in [1 .. (n + 1) -> Seq(Slot)] /\ from[n + 1] = <<>>
      /\ \A j \in 1 .. n : from[j] = a[j] \o from[j + 1]
  BY <1>1, <1>6, FromType, Zenon
<1>8. QED
  BY <1>1, <1>7, Zenon DEF n, from
LEMMA EvaluationsType ==
  ASSUME NEW c \in Configurations, NEW asv, AsvOf(c, asv),
         NEW initial \in BOOLEAN
  PROVE  Evaluations(c, asv, initial) \in Seq(Slot)
<1>1. EvalsFrom(c, asv)[1] \in Seq(Slot)
  BY EvalsFromFacts, ConfigurationFacts
<1>2. <<X0>> \in Seq(Slot)
  BY DEF X0, Slot
<1>3. QED
  BY <1>1, <1>2 DEF Evaluations

LEMMA SlotsOfType ==
  ASSUME config \in Configurations, NEW asv, AsvOf(config, asv),
         asv.est \in BOOLEAN, NEW hit \in BOOLEAN
  PROVE  SlotsOf(asv, hit) \in Seq(Slot)
<1>1. Initial(asv, hit) \in BOOLEAN
  BY DEF Initial
<1>2. Evaluations(config, asv, Initial(asv, hit)) \in Seq(Slot)
  BY <1>1, EvaluationsType
<1>3. Plain \in Seq(Slot)
  BY DEF Plain, Slot
<1>4. QED
  BY <1>2, <1>3 DEF SlotsOf

LEMMA TaggedType ==
  ASSUME NEW m \in Models, NEW k \in Nat, NEW slots \in Seq(Slot)
  PROVE  /\ Tagged(m, k, slots) \in Seq(TagSet)
         /\ Len(Tagged(m, k, slots)) = Len(slots)
         /\ DOMAIN Tagged(m, k, slots) = 1 .. Len(slots)
         /\ \A i \in 1 .. Len(slots) :
              Tagged(m, k, slots)[i] = Tag(m, k, slots[i])
<1>1. DOMAIN slots = 1 .. Len(slots) /\ Len(slots) \in Nat
  OBVIOUS
<1>2. \A i \in 1 .. Len(slots) : Tag(m, k, slots[i]) \in TagSet
  BY DEF Tag, TagSet
<1>3. Tagged(m, k, slots) = [i \in 1 .. Len(slots) |-> Tag(m, k, slots[i])]
  BY <1>1 DEF Tagged
<1>4. QED
  BY <1>1, <1>2, <1>3
-----------------------------------------------------------------------------
(* How the maps of a model change.                                         *)

StateType(s) ==
  /\ Shaped(s) /\ s.evals \in Nat /\ s.simEvals \in Nat /\ s.est \in BOOLEAN
  /\ s.asked \in Seq(AskSet) /\ Len(s.asked) = s.evals

(* The log of the raw evaluations with the ones of one more evaluation.    *)
Longer(long, log, n, e, m, k, slots) ==
  /\ n \in Nat /\ e \in Nat /\ DOMAIN log = 1 .. n
  /\ long \in Seq(TagSet) /\ DOMAIN long = 1 .. (n + e)
  /\ Len(long) = n + e
  /\ \A i \in 1 .. n : long[i] = log[i]
  /\ \A i \in (n + 1) .. (n + e) :
       /\ long[i] = Tag(m, k, slots[i - n])
       /\ long[i].model = m /\ long[i].eval = k

LEMMA LongerLog ==
  ASSUME NEW m \in Models, NEW log \in Seq(TagSet), NEW k \in Nat,
         NEW slots \in Seq(Slot)
  PROVE  Longer(log \o Tagged(m, k, slots), log, Len(log), Len(slots), m, k,
                slots)
<1> DEFINE new == Tagged(m, k, slots)
           long == log \o new
           n == Len(log)
           e == Len(slots)
<1>1. /\ new \in Seq(TagSet) /\ Len(new) = e
      /\ \A i \in 1 .. e : new[i] = Tag(m, k, slots[i])
  BY TaggedType
<1>2. n \in Nat /\ e \in Nat /\ DOMAIN log = 1 .. n
  OBVIOUS
<1> HIDE DEF new
<1>3. /\ long \in Seq(TagSet) /\ DOMAIN long = 1 .. (n + e)
      /\ Len(long) = n + e
      /\ \A i \in 1 .. n : long[i] = log[i]
      /\ \A i \in (n + 1) .. (n + e) : long[i] = new[i - n]
  BY <1>1, <1>2
<1> HIDE DEF n, e, long
<1>4. ASSUME NEW i \in (n + 1) .. (n + e)
      PROVE  /\ long[i] = Tag(m, k, slots[i - n])
             /\ long[i].model = m /\ long[i].eval = k
  <2>1. i - n \in 1 .. e
    BY <1>2
  <2>2. long[i] = Tag(m, k, slots[i - n])
    BY <2>1, <1>1, <1>3
  <2>3. QED
    BY <2>2 DEF Tag
<1>5. QED
  BY <1>2, <1>3, <1>4 DEF Longer, n, e, long, new

(* New raw evaluations of another model change nothing.                    *)
LEMMA OtherModel ==
  ASSUME NEW m \in Models, NEW n \in Models, m # n, NEW s,
         NEW log \in Seq(TagSet), NEW k \in Nat, NEW slots \in Seq(Slot),
         NEW held, NEW now, MapsOf(n, s, log, held),
         \A i \in DOMAIN s.simIds : i \in held => i \in now
  PROVE  /\ MapsOf(n, s, log, now)
         /\ MapsOf(n, s, log \o Tagged(m, k, slots), now)
<1> DEFINE long == log \o Tagged(m, k, slots)
           a == Len(log)
           e == Len(slots)
<1>0. Longer(long, log, a, e, m, k, slots)
  BY LongerLog
<1> HIDE DEF long, a, e
<1>1. /\ a \in Nat /\ e \in Nat /\ DOMAIN log = 1 .. a
      /\ DOMAIN long = 1 .. (a + e)
      /\ \A i \in 1 .. a : long[i] = log[i]
      /\ \A i \in (a + 1) .. (a + e) : long[i].model = m
  BY <1>0 DEF Longer
<1>2. /\ \A i \in DOMAIN log : i \in DOMAIN long /\ long[i] = log[i]
      /\ \A i \in DOMAIN long : i \in DOMAIN log \/ long[i].model = m
  BY <1>1
<1>3. MapsOf(n, s, log, now)
  BY DEF MapsOf, SimOf, PlainOf
<1>4. SimOf(n, s, long, now) /\ PlainOf(s, long)
  BY <1>2, <1>3 DEF MapsOf, SimOf, PlainOf
<1>5. QED
  BY <1>3, <1>4 DEF MapsOf, long

(* What evaluate_nowait() makes of the maps s.                             *)
StartedTo(s, t, log, slots) ==
  /\ t.evals = s.evals + 1 /\ t.simEvals = s.simEvals + Len(slots)
  /\ t.simIds = Inserted(s.simIds,
                         [i \in (Len(log) + 1) .. (Len(log) + Len(slots))
                            |-> s.simEvals + (i - Len(log))])
  /\ t.rawIds = With(s.rawIds, s.simEvals + 1, s.evals + 1)
  /\ DOMAIN t.numFD = DOMAIN s.numFD \cup {s.evals + 1}
  /\ ~t.est => ~s.est /\ Len(slots) = 1

(* evaluate_nowait(): the raw evaluations, their ids and the maps.         *)
LEMMA LaunchMaps ==
  ASSUME NEW m \in Models, NEW s, NEW t, StateType(s),
         NEW log \in Seq(TagSet), NEW held, NEW slots \in Seq(Slot),
         Len(slots) >= 1, MapsOf(m, s, log, held),
         StartedTo(s, t, log, slots)
  PROVE  MapsOf(m, t, log \o Tagged(m, s.evals + 1, slots),
                held \cup ((Len(log) + 1) .. (Len(log) + Len(slots))))
<1> DEFINE k == s.evals + 1
           n == Len(log)
           e == Len(slots)
           long == log \o Tagged(m, k, slots)
           news == (n + 1) .. (n + e)
           all == held \cup news
<1>1. /\ k \in Nat /\ k = s.evals + 1 /\ s.evals \in Nat /\ s.simEvals \in Nat
      /\ n \in Nat /\ e \in Nat /\ e >= 1 /\ DOMAIN log = 1 .. n
  BY DEF StateType
<1>2. Longer(long, log, n, e, m, k, slots)
  BY <1>1, LongerLog
<1>3. /\ DOMAIN long = 1 .. (n + e)
      /\ \A i \in 1 .. n : long[i] = log[i]
      /\ \A i \in news : long[i].model = m /\ long[i].eval = k
  <2> HIDE DEF n, e, long, k
  <2>1. QED
    BY <1>2 DEF Longer
<1>4. /\ DOMAIN t.simIds = DOMAIN s.simIds \cup news
      /\ \A i \in DOMAIN s.simIds : t.simIds[i] = s.simIds[i]
      /\ \A i \in news : i \notin DOMAIN s.simIds
                           => t.simIds[i] = s.simEvals + (i - n)
  BY DEF Inserted, StartedTo
<1>5. /\ DOMAIN t.rawIds = DOMAIN s.rawIds \cup {s.simEvals + 1}
      /\ t.rawIds[s.simEvals + 1] = k
      /\ \A r \in DOMAIN s.rawIds : r # s.simEvals + 1
                                      => t.rawIds[r] = s.rawIds[r]
  BY DEF With, StartedTo
<1>6. DOMAIN t.numFD = DOMAIN s.numFD \cup {k} /\ t.evals = k
      /\ t.simEvals = s.simEvals + e
  BY DEF StartedTo
<1>7. /\ DOMAIN s.simIds \subseteq 1 .. n
      /\ \A i \in DOMAIN s.simIds : s.simIds[i] \in 1 .. s.simEvals
      /\ DOMAIN s.rawIds \subseteq 1 .. s.simEvals
      /\ DOMAIN s.numFD \subseteq 1 .. s.evals
  BY <1>1 DEF MapsOf, SimOf, IdsOf
<1> HIDE DEF k, n, e, long
<1>8. \A i \in news : i \notin 1 .. n /\ i \notin DOMAIN s.simIds
                        /\ i \in 1 .. (n + e)
                        /\ t.simIds[i] = s.simEvals + (i - n)
                        /\ t.simIds[i] \in (s.simEvals + 1) .. (s.simEvals + e)
  BY <1>1, <1>4, <1>7
<1>9. \A i \in 1 .. (n + e) : i \in 1 .. n \/ i \in news
  BY <1>1
<1>10. SimOf(m, t, long, all)
  <2>1. DOMAIN t.simIds \subseteq DOMAIN long
    BY <1>1, <1>3, <1>4, <1>7
  <2>2. ASSUME NEW i \in DOMAIN t.simIds
        PROVE  /\ t.simIds[i] \in 1 .. t.simEvals
               /\ long[i].model = m /\ long[i].eval \in DOMAIN t.numFD
               /\ i \in all
    <3>1. CASE i \in DOMAIN s.simIds
      <4>1. log[i].model = m /\ log[i].eval \in DOMAIN s.numFD /\ i \in held
            /\ long[i] = log[i]
        BY <3>1, <1>3, <1>7 DEF MapsOf, SimOf
      <4>2. t.simIds[i] \in 1 .. t.simEvals
        BY <3>1, <1>1, <1>4, <1>6, <1>7
      <4>3. QED
        BY <4>1, <4>2, <1>6
    <3>2. CASE i \in news
      <4>1. t.simIds[i] \in 1 .. t.simEvals
        BY <3>2, <1>1, <1>6, <1>8
      <4>2. QED
        BY <3>2, <4>1, <1>3, <1>6
    <3>3. QED
      BY <3>1, <3>2, <1>4
  <2>3. ASSUME NEW i \in DOMAIN t.simIds, NEW j \in DOMAIN t.simIds, i < j
        PROVE  t.simIds[i] < t.simIds[j]
    <3>1. CASE i \in DOMAIN s.simIds /\ j \in DOMAIN s.simIds
      BY <2>3, <3>1, <1>4 DEF MapsOf, SimOf
    <3>2. CASE i \in DOMAIN s.simIds /\ j \in news
      <4>1. t.simIds[i] \in 1 .. s.simEvals
            /\ t.simIds[j] \in (s.simEvals + 1) .. (s.simEvals + e)
        BY <3>2, <1>4, <1>7, <1>8
      <4>2. QED
        BY <4>1, <1>1
    <3>3. CASE i \in news /\ j \in DOMAIN s.simIds
      BY <2>3, <3>3, <1>1, <1>7
    <3>4. CASE i \in news /\ j \in news
      BY <2>3, <3>4, <1>1, <1>8
    <3>5. QED
      BY <3>1, <3>2, <3>3, <3>4, <1>4
  <2>4. ASSUME NEW i \in DOMAIN long, long[i].model = m
        PROVE  /\ long[i].eval \in 1 .. t.evals
               /\ long[i].eval \in DOMAIN t.numFD => i \in DOMAIN t.simIds
    <3>1. CASE i \in 1 .. n
      <4>1. log[i].eval \in 1 .. s.evals /\ long[i] = log[i]
            /\ (log[i].eval \in DOMAIN s.numFD => i \in DOMAIN s.simIds)
        BY <2>4, <3>1, <1>1, <1>3 DEF MapsOf, SimOf
      <4>2. log[i].eval # k /\ log[i].eval \in 1 .. t.evals
        BY <4>1, <1>1, <1>6
      <4>3. QED
        BY <4>1, <4>2, <1>4, <1>6
    <3>2. CASE i \in news
      BY <3>2, <1>1, <1>3, <1>4, <1>6
    <3>3. QED
      BY <3>1, <3>2, <1>3, <1>9
  <2>5. QED
    BY <2>1, <2>2, <2>3, <2>4 DEF SimOf
<1>11. IdsOf(t)
  <2>1. DOMAIN t.rawIds \subseteq 1 .. t.simEvals
    BY <1>1, <1>5, <1>6, <1>7
  <2>2. ASSUME NEW r \in DOMAIN t.rawIds
        PROVE  /\ t.rawIds[r] \in DOMAIN t.numFD
               /\ \E i \in DOMAIN t.simIds : t.simIds[i] = r
    <3>1. CASE r = s.simEvals + 1
      <4>1. n + 1 \in news /\ s.simEvals + ((n + 1) - n) = s.simEvals + 1
        BY <1>1
      <4>2. n + 1 \in DOMAIN t.simIds /\ t.simIds[n + 1] = r
        BY <3>1, <4>1, <1>4, <1>8
      <4>3. QED
        BY <3>1, <4>2, <1>5, <1>6
    <3>2. CASE r \in DOMAIN s.rawIds /\ r # s.simEvals + 1
      <4>1. s.rawIds[r] \in DOMAIN s.numFD
            /\ \E i \in DOMAIN s.simIds : s.simIds[i] = r
        BY <3>2 DEF MapsOf, IdsOf
      <4>2. QED
        BY <3>2, <4>1, <1>4, <1>5, <1>6
    <3>3. QED
      BY <3>1, <3>2, <1>5
  <2>3. ASSUME NEW q \in DOMAIN t.rawIds, NEW r \in DOMAIN t.rawIds, q < r
        PROVE  t.rawIds[q] < t.rawIds[r]
    <3>1. q \in Int /\ r \in Int /\ r <= s.simEvals + 1
          /\ (q # s.simEvals + 1 => q \in DOMAIN s.rawIds)
          /\ (r # s.simEvals + 1 => r \in DOMAIN s.rawIds)
      BY <1>1, <1>5, <1>7
    <3>2. q # s.simEvals + 1
      BY <2>3, <3>1, <1>1
    <3>3. t.rawIds[q] = s.rawIds[q] /\ s.rawIds[q] \in 1 .. s.evals
      BY <3>1, <3>2, <1>5, <1>7 DEF MapsOf, IdsOf
    <3>4. CASE r = s.simEvals + 1
      BY <3>3, <3>4, <1>1, <1>5
    <3>5. CASE r # s.simEvals + 1
      <4>1. t.rawIds[r] = s.rawIds[r]
        BY <3>1, <3>5, <1>5
      <4>2. s.rawIds[q] < s.rawIds[r]
        BY <2>3, <3>1, <3>2, <3>5 DEF MapsOf, IdsOf
      <4>3. QED
        BY <3>3, <4>1, <4>2
    <3>6. QED
      BY <3>4, <3>5
  <2>4. DOMAIN t.numFD \subseteq 1 .. t.evals
    BY <1>1, <1>6, <1>7
  <2>5. ASSUME NEW j \in DOMAIN t.numFD
        PROVE  \E r \in DOMAIN t.rawIds : t.rawIds[r] = j
    <3>1. CASE j = k
      BY <3>1, <1>5
    <3>2. CASE j \in DOMAIN s.numFD
      <4>1. PICK r \in DOMAIN s.rawIds : s.rawIds[r] = j
        BY <3>2 DEF MapsOf, IdsOf
      <4>2. r # s.simEvals + 1
        BY <4>1, <1>1, <1>7
      <4>3. QED
        BY <4>1, <4>2, <1>5
    <3>3. QED
      BY <3>1, <3>2, <1>6
  <2>6. QED
    BY <2>1, <2>2, <2>3, <2>4, <2>5 DEF IdsOf
<1>12. PlainOf(t, long)
  <2>1. SUFFICES ASSUME ~t.est, NEW i \in DOMAIN t.simIds
                 PROVE  /\ t.simIds[i] \in DOMAIN t.rawIds
                        /\ t.rawIds[t.simIds[i]] = long[i].eval
    BY DEF PlainOf
  <2>a. ~s.est /\ e = 1
    BY <2>1 DEF StartedTo, e
  <2>2. CASE i \in DOMAIN s.simIds
    <3>1. s.simIds[i] \in DOMAIN s.rawIds
          /\ s.rawIds[s.simIds[i]] = log[i].eval
      BY <2>a, <2>2 DEF MapsOf, PlainOf
    <3>2. t.simIds[i] = s.simIds[i] /\ long[i] = log[i]
          /\ s.simIds[i] # s.simEvals + 1
      BY <2>2, <1>1, <1>3, <1>4, <1>7
    <3>3. QED
      BY <3>1, <3>2, <1>5
  <2>3. CASE i \in news
    <3>2. t.simIds[i] = s.simEvals + 1
      BY <2>3, <2>a, <1>1, <1>8
    <3>3. QED
      BY <2>3, <3>2, <1>3, <1>5
  <2>4. QED
    BY <2>2, <2>3, <1>4
<1>13. QED
  BY <1>10, <1>11, <1>12 DEF MapsOf, k, n, e, long
-----------------------------------------------------------------------------
(* Two maps walked in step.                                                *)

(* A set of ids in order: what stands at each place, increasing.           *)
Ordered(A, n, q) ==
  /\ n \in Nat /\ DOMAIN q = 1 .. n /\ Len(q) = n
  /\ A = {q[i] : i \in 1 .. n}
  /\ \A i \in 1 .. n : q[i] \in A /\ Place(A, q[i]) = i - 1
  /\ \A i, j \in 1 .. n : i < j => q[i] < q[j]
  /\ \A x \in A : Place(A, x) + 1 \in 1 .. n /\ q[Place(A, x) + 1] = x

LEMMA OrderFacts ==
  ASSUME NEW A, IsFiniteSet(A), A \subseteq Int
  PROVE  Ordered(A, Cardinality(A), InOrder(A))
<1> DEFINE n == Cardinality(A)
           q == InOrder(A)
<1>1. /\ n \in Nat
      /\ \A x \in A : Place(A, x) \in 0 .. (n - 1)
      /\ \A x, y \in A : x < y => Place(A, x) < Place(A, y)
      /\ \A i \in 0 .. (n - 1) : Nth(A, i) \in A /\ Place(A, Nth(A, i)) = i
      /\ \A x \in A : Nth(A, Place(A, x)) = x
  BY WalkFacts, Zenon
<1>2. q = [k \in 1 .. n |-> Nth(A, k - 1)]
  BY DEF InOrder
<1> HIDE DEF n, q
<1>3. DOMAIN q = 1 .. n /\ Len(q) = n
  BY <1>1, <1>2
<1>4. ASSUME NEW i \in 1 .. n PROVE q[i] \in A /\ Place(A, q[i]) = i - 1
  <2>1. i - 1 \in 0 .. (n - 1) /\ q[i] = Nth(A, i - 1)
    BY <1>1, <1>2
  <2>2. QED
    BY <2>1, <1>1
<1>5. ASSUME NEW i \in 1 .. n, NEW j \in 1 .. n, i < j PROVE q[i] < q[j]
  <2>1. q[i] \in Int /\ q[j] \in Int
    BY <1>4
  <2>2. Place(A, q[i]) = i - 1 /\ Place(A, q[j]) = j - 1 /\ i - 1 < j - 1
    BY <1>1, <1>4, <1>5
  <2>3. q[i] # q[j]
    BY <2>2, <1>1
  <2>4. ASSUME q[j] < q[i] PROVE FALSE
    <3>1. Place(A, q[j]) < Place(A, q[i])
      BY <2>4, <1>1, <1>4
    <3>2. QED
      BY <3>1, <2>2, <1>1
  <2>5. QED
    BY <2>1, <2>3, <2>4
<1>6. ASSUME NEW x \in A
      PROVE  Place(A, x) + 1 \in 1 .. n /\ q[Place(A, x) + 1] = x
  <2>1. Place(A, x) + 1 \in 1 .. n /\ (Place(A, x) + 1) - 1 = Place(A, x)
    BY <1>1
  <2>2. q[Place(A, x) + 1] = Nth(A, Place(A, x))
    BY <2>1, <1>2
  <2>3. QED
    BY <2>1, <2>2, <1>1
<1>7. A = {q[i] : i \in 1 .. n}
  BY <1>4, <1>6
<1>8. QED
  BY <1>1, <1>3, <1>4, <1>5, <1>6, <1>7 DEF Ordered, n, q

(* An increasing map from one set of ids onto another keeps the places.    *)
IncreasingOnto(f, A, B) ==
  /\ A \subseteq Int /\ B \subseteq Int
  /\ DOMAIN f = A /\ \A x \in A : f[x] \in B
  /\ \A x, y \in A : x < y => f[x] < f[y]
  /\ \A b \in B : \E x \in A : f[x] = b

LEMMA InStepFacts ==
  ASSUME NEW A, IsFiniteSet(A), NEW B, NEW f, IncreasingOnto(f, A, B)
  PROVE  /\ IsFiniteSet(B) /\ Cardinality(B) = Cardinality(A)
         /\ \A i \in 1 .. Cardinality(A) : f[InOrder(A)[i]] = InOrder(B)[i]
<1>0. /\ A \subseteq Int /\ B \subseteq Int
      /\ DOMAIN f = A /\ \A x \in A : f[x] \in B
      /\ \A x, y \in A : x < y => f[x] < f[y]
      /\ \A b \in B : \E x \in A : f[x] = b
  BY DEF IncreasingOnto
<1>1. ASSUME NEW x \in A, NEW y \in A, f[x] = f[y] PROVE x = y
  <2>1. x \in Int /\ y \in Int /\ f[x] \in Int
    BY <1>0
  <2>2. ~(x < y) /\ ~(y < x)
    <3>1. (x < y => f[x] < f[y]) /\ (y < x => f[y] < f[x])
      BY <1>0
    <3>2. QED
      BY <3>1, <2>1, <1>1
  <2>3. QED
    BY <2>1, <2>2
<1> DEFINE g == [x \in A |-> f[x]]
<1>2. g \in Bijection(A, B)
  BY <1>0, <1>1 DEF Bijection, Injection, Surjection, IsInjective
<1>3. IsFiniteSet(B) /\ Cardinality(B) = Cardinality(A)
  BY <1>2, FS_Bijection DEF ExistsBijection
<1>4. ASSUME NEW x \in A PROVE Place(B, f[x]) = Place(A, x)
  <2> DEFINE P == {y \in A : y < x}
             Q == {b \in B : b < f[x]}
             h == [y \in P |-> f[y]]
  <2>1. IsFiniteSet(P)
    BY FS_Subset
  <2>2. ASSUME NEW y \in P PROVE f[y] \in Q
    <3>1. y \in A /\ y < x
      OBVIOUS
    <3>2. f[y] \in B /\ f[y] < f[x]
      BY <3>1, <1>0
    <3>3. QED
      BY <3>2
  <2>3. ASSUME NEW b \in Q PROVE \E y \in P : f[y] = b
    <3>1. PICK y \in A : f[y] = b
      BY <2>3, <1>0
    <3>2. x \in Int /\ y \in Int /\ f[y] \in Int /\ f[x] \in Int
          /\ f[y] < f[x]
      BY <2>3, <3>1, <1>0
    <3>3. x < y => f[x] < f[y]
      BY <3>1, <1>0
    <3>4. y # x /\ ~(x < y)
      BY <3>2, <3>3
    <3>5. y \in P
      BY <3>1, <3>2, <3>4
    <3>6. QED
      BY <3>1, <3>5
  <2>4. h \in Bijection(P, Q)
    BY <1>1, <2>2, <2>3 DEF Bijection, Injection, Surjection, IsInjective
  <2> HIDE DEF P, Q, h
  <2>5. Cardinality(Q) = Cardinality(P)
    BY <2>1, <2>4, FS_Bijection DEF ExistsBijection
  <2>6. QED
    BY <2>5 DEF Place, P, Q
<1>5. ASSUME NEW i \in 1 .. Cardinality(A)
      PROVE  f[InOrder(A)[i]] = InOrder(B)[i]
  <2> DEFINE x == InOrder(A)[i]
  <2>1. x \in A /\ Place(A, x) = i - 1 /\ Cardinality(A) \in Nat
    BY <1>0, OrderFacts DEF Ordered
  <2>2. f[x] \in B /\ InOrder(B)[Place(B, f[x]) + 1] = f[x]
    <3>1. f[x] \in B
      BY <2>1, <1>0
    <3>2. QED
      BY <3>1, <1>0, <1>3, OrderFacts DEF Ordered
  <2> HIDE DEF x
  <2>3. Place(B, f[x]) + 1 = i
    BY <2>1, <1>4
  <2>4. QED
    BY <2>2, <2>3 DEF x
<1>6. QED
  BY <1>3, <1>5
-----------------------------------------------------------------------------
(* What a synchronization makes of the fields of a model.                  *)

(* The responses f of the raw evaluations M by simulation id.              *)
Rekeys(s, log, M, f) ==
  /\ DOMAIN f = {s.simIds[i] : i \in M}
  /\ \A i \in M : f[s.simIds[i]] = log[i]

LEMMA SimResponsesFacts ==
  ASSUME NEW m, NEW s, NEW log, NEW held, NEW got, SimOf(m, s, log, held),
         DOMAIN s.simIds \subseteq Int, s.simEvals \in Nat
  PROVE  Rekeys(s, log, Matched(s, got), SimResponses(s, log, got))
<1> DEFINE M == Matched(s, got)
           R == {s.simIds[i] : i \in M}
           pick(r) == CHOOSE i \in M : s.simIds[i] = r
<1>1. M \subseteq DOMAIN s.simIds
  BY DEF Matched
<1>2. SimResponses(s, log, got) = [r \in R |-> log[pick(r)]]
  BY DEF SimResponses
<1>3. ASSUME NEW i \in M, NEW j \in M, s.simIds[i] = s.simIds[j] PROVE i = j
  <2>1. i \in Int /\ j \in Int /\ s.simIds[i] \in Int
        /\ (i < j => s.simIds[i] < s.simIds[j])
        /\ (j < i => s.simIds[j] < s.simIds[i])
    BY <1>1 DEF SimOf
  <2>2. QED
    BY <1>3, <2>1
<1> HIDE DEF M
<1>4. ASSUME NEW i \in M PROVE pick(s.simIds[i]) = i
  <2>1. pick(s.simIds[i]) \in M /\ s.simIds[pick(s.simIds[i])] = s.simIds[i]
    OBVIOUS
  <2>2. QED
    BY <2>1, <1>3
<1>5. \A i \in M : s.simIds[i] \in R
  OBVIOUS
<1> HIDE DEF R, pick
<1>6. \A i \in M : SimResponses(s, log, got)[s.simIds[i]] = log[i]
  BY <1>2, <1>4, <1>5
<1>7. QED
  BY <1>2, <1>6 DEF Rekeys, M, R

(* The pairs of ids whose response arrived.                                *)
DonePairs(s, resps) ==
  {n \in 1 .. MinOf(Len(InOrder(DOMAIN s.rawIds)),
                    Len(InOrder(DOMAIN s.numFD))) :
     InOrder(DOMAIN s.rawIds)[n] \in DOMAIN resps}

MergesTo(s, ids, fds, done, resps, y) ==
  LET t == y.state
      walk == PairsWalk(s, ids, fds, resps)
  IN  /\ t.evals = s.evals /\ t.simEvals = s.simEvals
      /\ t.simIds = s.simIds /\ t.cache = s.cache
      /\ t.asked = s.asked /\ t.est = FALSE
      /\ t.rawIds = Without(s.rawIds, {ids[n] : n \in done})
      /\ t.numFD = Without(s.numFD, {fds[n] : n \in done})
      /\ t.lists = walk[MinOf(Len(ids), Len(fds))].lists
      /\ Shaped(t)
      /\ y.resps = [k \in {fds[n] : n \in done} |->
                      walk[CHOOSE n \in done : fds[n] = k].response]

LEMMA MergedFields ==
  ASSUME NEW s, Shaped(s), NEW resps
  PROVE  MergesTo(s, InOrder(DOMAIN s.rawIds), InOrder(DOMAIN s.numFD),
                  DonePairs(s, resps), resps, MergedInStep(s, resps))
<1> DEFINE ids == InOrder(DOMAIN s.rawIds)
           fds == InOrder(DOMAIN s.numFD)
           done == DonePairs(s, resps)
           x == Without(s.rawIds, {ids[n] : n \in done})
           y == Without(s.numFD, {fds[n] : n \in done})
           z == PairsWalk(s, ids, fds, resps)[MinOf(Len(ids), Len(fds))].lists
<1>1. MergedInStep(s, resps).state
        = [s EXCEPT !.rawIds = x, !.numFD = y, !.lists = z, !.est = FALSE]
  BY DEF MergedInStep, DonePairs
<1> HIDE DEF x, y, z
<1>2. LET t == MergedInStep(s, resps).state
      IN  /\ t.evals = s.evals /\ t.simEvals = s.simEvals
          /\ t.simIds = s.simIds /\ t.cache = s.cache
          /\ t.asked = s.asked /\ t.est = FALSE
          /\ t.rawIds = x /\ t.numFD = y /\ t.lists = z /\ Shaped(t)
  BY <1>1 DEF Shaped
<1>3. MergedInStep(s, resps).resps
        = [k \in {fds[n] : n \in done} |->
             PairsWalk(s, ids, fds, resps)
               [CHOOSE n \in done : fds[n] = k].response]
  BY DEF MergedInStep, DonePairs
<1>4. QED
  BY <1>2, <1>3 DEF MergesTo, x, y, z

RekeysTo(s, known, done, resps, y) ==
  LET t == y.state
  IN  /\ t.evals = s.evals /\ t.simEvals = s.simEvals
      /\ t.simIds = s.simIds /\ t.cache = s.cache
      /\ t.asked = s.asked /\ t.est = s.est /\ t.lists = s.lists
      /\ t.rawIds = Without(s.rawIds, known)
      /\ t.numFD = Without(s.numFD, done)
      /\ Shaped(t)
      /\ y.resps = [k \in done |->
                      Unmerged(resps[CHOOSE r \in known : s.rawIds[r] = k])]

LEMMA RekeyedFields ==
  ASSUME NEW s, Shaped(s), NEW resps
  PROVE  RekeysTo(s, DOMAIN resps \cap DOMAIN s.rawIds,
                  {s.rawIds[r] : r \in DOMAIN resps \cap DOMAIN s.rawIds},
                  resps, Rekeyed(s, resps))
<1> DEFINE known == DOMAIN resps \cap DOMAIN s.rawIds
           x == Without(s.rawIds, known)
           y == Without(s.numFD, {s.rawIds[r] : r \in known})
<1>1. Rekeyed(s, resps).state = [s EXCEPT !.rawIds = x, !.numFD = y]
  BY DEF Rekeyed
<1> HIDE DEF x, y
<1>2. LET t == Rekeyed(s, resps).state
      IN  /\ t.evals = s.evals /\ t.simEvals = s.simEvals
          /\ t.simIds = s.simIds /\ t.cache = s.cache
          /\ t.asked = s.asked /\ t.est = s.est /\ t.lists = s.lists
          /\ t.rawIds = x /\ t.numFD = y /\ Shaped(t)
  BY <1>1 DEF Shaped
<1>3. Rekeyed(s, resps).resps
        = [k \in {s.rawIds[r] : r \in known} |->
             Unmerged(resps[CHOOSE r \in known : s.rawIds[r] = k])]
  BY DEF Rekeyed
<1>4. QED
  BY <1>2, <1>3 DEF RekeysTo, x, y

(* The model and its responses before the cached ones are added.           *)
Sync(s, got) ==
  IF s.est THEN MergedInStep(Collected(s, got), SimResponses(s, raw, got))
           ELSE Rekeyed(Collected(s, got), SimResponses(s, raw, got))

LEMMA SynchronizedFields ==
  ASSUME NEW s, Shaped(s), NEW got, NEW kept
  PROVE  LET t == [Synchronized(s, got).state EXCEPT !.cache = kept]
             u == Sync(s, got).state
         IN  /\ t.evals = s.evals /\ t.simEvals = s.simEvals
             /\ t.simIds = Without(s.simIds, Matched(s, got))
             /\ t.asked = s.asked /\ t.est = u.est /\ t.lists = u.lists
             /\ t.rawIds = u.rawIds /\ t.numFD = u.numFD /\ t.cache = kept
             /\ Shaped(t)
             /\ Synchronized(s, got).resps
                  = Inserted(Sync(s, got).resps, s.cache)
<1> DEFINE c == Collected(s, got)
           resps == SimResponses(s, raw, got)
           u == Sync(s, got).state
           t == [Synchronized(s, got).state EXCEPT !.cache = kept]
<1>1. Shaped(c) /\ c.simIds = Without(s.simIds, Matched(s, got))
      /\ c.evals = s.evals /\ c.simEvals = s.simEvals /\ c.asked = s.asked
  BY CollectedFields
<1>2. /\ u.evals = s.evals /\ u.simEvals = s.simEvals /\ u.asked = s.asked
      /\ u.simIds = Without(s.simIds, Matched(s, got)) /\ Shaped(u)
  <2> HIDE DEF c, resps
  <2>1. u = IF s.est THEN MergedInStep(c, resps).state
                     ELSE Rekeyed(c, resps).state
    BY DEF Sync, c, resps
  <2> HIDE DEF u
  <2>2. CASE s.est
    <3>1. u = MergedInStep(c, resps).state
      BY <2>1, <2>2
    <3>2. MergesTo(c, InOrder(DOMAIN c.rawIds), InOrder(DOMAIN c.numFD),
                   DonePairs(c, resps), resps, MergedInStep(c, resps))
      BY <1>1, MergedFields
    <3>3. QED
      BY <1>1, <3>1, <3>2 DEF MergesTo
  <2>3. CASE ~s.est
    <3>1. u = Rekeyed(c, resps).state
      BY <2>1, <2>3
    <3>2. /\ u.evals = c.evals /\ u.simEvals = c.simEvals
          /\ u.asked = c.asked /\ u.simIds = c.simIds /\ Shaped(u)
      <4>1. RekeysTo(c, DOMAIN resps \cap DOMAIN c.rawIds,
                     {c.rawIds[r] : r \in DOMAIN resps \cap DOMAIN c.rawIds},
                     resps, Rekeyed(c, resps))
        BY <1>1, RekeyedFields
      <4>2. QED
        BY <3>1, <4>1 DEF RekeysTo
    <3>3. QED
      BY <1>1, <3>2
  <2>4. QED
    BY <2>2, <2>3
<1>3. Synchronized(s, got)
        = [state |-> [u EXCEPT !.cache = None],
           resps |-> Inserted(Sync(s, got).resps, s.cache)]
  BY DEF Synchronized, Sync
<1>4. Synchronized(s, got).state = [u EXCEPT !.cache = None]
      /\ Synchronized(s, got).resps = Inserted(Sync(s, got).resps, s.cache)
  BY <1>3
<1>5. t = [[u EXCEPT !.cache = None] EXCEPT !.cache = kept]
  BY <1>4
<1> HIDE DEF t, u
<1>6. /\ t.evals = u.evals /\ t.simEvals = u.simEvals /\ t.simIds = u.simIds
      /\ t.asked = u.asked /\ t.est = u.est /\ t.lists = u.lists
      /\ t.rawIds = u.rawIds /\ t.numFD = u.numFD /\ t.cache = kept
      /\ Shaped(t)
  BY <1>2, <1>5 DEF Shaped
<1>7. QED
  BY <1>2, <1>4, <1>6 DEF t, u
(* rawEvalIdMap and numFDEvalsMap, walked in step, pair each raw id with   *)
(* its evaluation.                                                         *)
Pairs(s, n, ids, fds) ==
  /\ n \in Nat /\ Len(ids) = n /\ Len(fds) = n
  /\ MinOf(Len(ids), Len(fds)) = n
  /\ DOMAIN s.rawIds = {ids[i] : i \in 1 .. n}
  /\ DOMAIN s.numFD = {fds[i] : i \in 1 .. n}
  /\ \A i \in 1 .. n : /\ ids[i] \in DOMAIN s.rawIds
                       /\ fds[i] \in DOMAIN s.numFD
                       /\ s.rawIds[ids[i]] = fds[i]
  /\ \A i, j \in 1 .. n : i < j => fds[i] < fds[j]

LEMMA PairsFacts ==
  ASSUME NEW s, IdsOf(s), s.evals \in Nat, s.simEvals \in Nat
  PROVE  Pairs(s, Cardinality(DOMAIN s.rawIds), InOrder(DOMAIN s.rawIds),
               InOrder(DOMAIN s.numFD))
<1> DEFINE A == DOMAIN s.rawIds
           B == DOMAIN s.numFD
           f == s.rawIds
           n == Cardinality(A)
           ids == InOrder(A)
           fds == InOrder(B)
<1>1. /\ IsFiniteSet(A) /\ A \subseteq Int /\ B \subseteq Int
      /\ IncreasingOnto(f, A, B)
  <2>1. IsFiniteSet(1 .. s.simEvals)
    BY FS_Interval
  <2>2. A \subseteq 1 .. s.simEvals /\ B \subseteq 1 .. s.evals
    BY DEF IdsOf
  <2>3. IsFiniteSet(A)
    BY <2>1, <2>2, FS_Subset
  <2>4. QED
    BY <2>2, <2>3 DEF IdsOf, IncreasingOnto
<1> HIDE DEF A, B, f
<1>2. /\ IsFiniteSet(B) /\ Cardinality(B) = n
      /\ \A i \in 1 .. n : f[ids[i]] = fds[i]
  BY <1>1, InStepFacts
<1>3. /\ n \in Nat /\ Len(ids) = n /\ A = {ids[i] : i \in 1 .. n}
      /\ \A i \in 1 .. n : ids[i] \in A
  BY <1>1, OrderFacts DEF Ordered
<1>4. /\ Len(fds) = n /\ B = {fds[i] : i \in 1 .. n}
      /\ \A i \in 1 .. n : fds[i] \in B
      /\ \A i, j \in 1 .. n : i < j => fds[i] < fds[j]
  <2>1. Ordered(B, Cardinality(B), fds)
    BY <1>1, <1>2, OrderFacts
  <2>2. Ordered(B, n, fds)
    BY <1>2, <2>1
  <2>3. QED
    BY <2>2 DEF Ordered
<1> HIDE DEF n, ids, fds
<1>5. MinOf(Len(ids), Len(fds)) = n
  BY <1>3, <1>4 DEF MinOf
<1>6. Pairs(s, n, ids, fds)
  BY <1>2, <1>3, <1>4, <1>5 DEF Pairs, A, B, f
<1>7. QED
  BY <1>6 DEF A, B, n, ids, fds

(* A model whose maps are empty.                                           *)
LEMMA EmptyMaps ==
  ASSUME NEW m, NEW t, NEW log, NEW held, DOMAIN t.simIds = {},
         DOMAIN t.rawIds = {}, DOMAIN t.numFD = {},
         \A i \in DOMAIN log : log[i].model = m => log[i].eval \in 1 .. t.evals
  PROVE  MapsOf(m, t, log, held)
BY DEF MapsOf, SimOf, IdsOf, PlainOf

(* synchronize() collects everything the model waits for.                  *)
AllSynced(s, got) ==
  /\ Matched(s, got) = DOMAIN s.simIds
  /\ DOMAIN Without(s.simIds, Matched(s, got)) = {}
  /\ DOMAIN Sync(s, got).state.rawIds = {}
  /\ DOMAIN Sync(s, got).state.numFD = {}
  /\ Sync(s, got).state.est = FALSE
  /\ DOMAIN Sync(s, got).resps = DOMAIN s.numFD

LEMMA SyncAll ==
  ASSUME NEW m \in Models, NEW s, StateType(s), raw \in Seq(TagSet),
         MapsOf(m, s, raw, pending \cup cached)
  PROVE  AllSynced(s, pending)
<1> DEFINE c == Collected(s, pending)
           resps == SimResponses(s, raw, pending)
           y == Sync(s, pending)
<1>1. Matched(s, pending) = DOMAIN s.simIds
  BY DEF Matched, Arrived, MapsOf, SimOf
<1>2. DOMAIN Without(s.simIds, Matched(s, pending)) = {}
  BY <1>1 DEF Without
<1>3. DOMAIN s.simIds \subseteq Int /\ s.simEvals \in Nat /\ s.evals \in Nat
      /\ s.est \in BOOLEAN
  BY DEF MapsOf, SimOf, StateType
<1>4. DOMAIN resps = {s.simIds[i] : i \in DOMAIN s.simIds}
  <2> DEFINE held == pending \cup cached
  <2>1. SimOf(m, s, raw, held)
    BY DEF MapsOf
  <2> HIDE DEF held
  <2>2. Rekeys(s, raw, Matched(s, pending), resps)
    BY <1>3, <2>1, SimResponsesFacts
  <2>3. QED
    BY <1>1, <2>2 DEF Rekeys
<1>5. DOMAIN s.rawIds \subseteq DOMAIN resps
  BY <1>4 DEF MapsOf, IdsOf
<1>6. Shaped(c) /\ c.rawIds = s.rawIds /\ c.numFD = s.numFD /\ c.est = s.est
  BY CollectedFields DEF StateType
<1>7. y = IF s.est THEN MergedInStep(c, resps) ELSE Rekeyed(c, resps)
  BY DEF Sync
<1> HIDE DEF c, resps, y
<1>8. CASE s.est
  <2> DEFINE n == Cardinality(DOMAIN s.rawIds)
             ids == InOrder(DOMAIN s.rawIds)
             fds == InOrder(DOMAIN s.numFD)
             done == DonePairs(c, resps)
  <2>1. Pairs(s, n, ids, fds)
    BY <1>3, PairsFacts DEF MapsOf
  <2>2. done = {i \in 1 .. MinOf(Len(ids), Len(fds)) : ids[i] \in DOMAIN resps}
    BY <1>6 DEF DonePairs
  <2>a. y = MergedInStep(c, resps) /\ ids = InOrder(DOMAIN c.rawIds)
        /\ fds = InOrder(DOMAIN c.numFD)
    BY <1>6, <1>7, <1>8
  <2>b. MergesTo(c, ids, fds, done, resps, y)
    BY <1>6, <2>a, MergedFields
  <2>3. /\ y.state.rawIds = Without(c.rawIds, {ids[i] : i \in done})
        /\ y.state.numFD = Without(c.numFD, {fds[i] : i \in done})
        /\ y.state.est = FALSE
    BY <2>b DEF MergesTo
  <2>4. DOMAIN y.resps = {fds[i] : i \in done}
    BY <2>b DEF MergesTo
  <2> HIDE DEF n, ids, fds, done
  <2>5. done = 1 .. n
    BY <2>1, <2>2, <1>5 DEF Pairs
  <2>6. QED
    BY <1>1, <1>2, <1>6, <2>1, <2>3, <2>4, <2>5
       DEF Pairs, Without, AllSynced, y
<1>9. CASE ~s.est
  <2> DEFINE known == DOMAIN resps \cap DOMAIN c.rawIds
             done == {c.rawIds[r] : r \in known}
  <2>0. y = Rekeyed(c, resps)
    BY <1>7, <1>9
  <2>a. RekeysTo(c, known, done, resps, y)
    BY <1>6, <2>0, RekeyedFields
  <2>1. /\ y.state.rawIds = Without(c.rawIds, known)
        /\ y.state.numFD = Without(c.numFD, done)
        /\ y.state.est = c.est
    BY <2>a DEF RekeysTo
  <2>2. DOMAIN y.resps = done
    BY <2>a DEF RekeysTo
  <2>3. known = DOMAIN s.rawIds
    BY <1>5, <1>6
  <2>4. done = DOMAIN s.numFD
    BY <1>6, <2>3 DEF MapsOf, IdsOf
  <2>5. QED
    BY <1>1, <1>2, <1>3, <1>6, <1>9, <2>1, <2>2, <2>3, <2>4
       DEF Without, AllSynced, y
<1>10. QED
  BY <1>3, <1>8, <1>9

(* The maps are one-to-one.                                                *)
LEMMA OneToOne ==
  ASSUME NEW m, NEW s, NEW log, NEW held, MapsOf(m, s, log, held),
         s.evals \in Nat, s.simEvals \in Nat, DOMAIN log \subseteq Int
  PROVE  /\ \A i, j \in DOMAIN s.simIds : s.simIds[i] = s.simIds[j] => i = j
         /\ \A q, r \in DOMAIN s.rawIds : s.rawIds[q] = s.rawIds[r] => q = r
<1>1. ASSUME NEW i \in DOMAIN s.simIds, NEW j \in DOMAIN s.simIds,
             s.simIds[i] = s.simIds[j]
      PROVE  i = j
  <2>1. i \in Int /\ j \in Int /\ s.simIds[i] \in Int
        /\ (i < j => s.simIds[i] < s.simIds[j])
        /\ (j < i => s.simIds[j] < s.simIds[i])
    BY DEF MapsOf, SimOf
  <2>2. QED
    BY <1>1, <2>1
<1>2. ASSUME NEW q \in DOMAIN s.rawIds, NEW r \in DOMAIN s.rawIds,
             s.rawIds[q] = s.rawIds[r]
      PROVE  q = r
  <2>1. q \in Int /\ r \in Int /\ s.rawIds[q] \in Int
        /\ (q < r => s.rawIds[q] < s.rawIds[r])
        /\ (r < q => s.rawIds[r] < s.rawIds[q])
    BY DEF MapsOf, IdsOf
  <2>2. QED
    BY <1>2, <2>1
<1>3. QED
  BY <1>1, <1>2

(* synchronize_nowait() rekeys what arrived and keeps the rest.            *)
SyncTo(s, t, got) ==
  /\ t.evals = s.evals /\ t.simEvals = s.simEvals
  /\ t.simIds = Without(s.simIds, Matched(s, got))
  /\ t.rawIds = Sync(s, got).state.rawIds
  /\ t.numFD = Sync(s, got).state.numFD

SomeSynced(m, s, t, got) ==
  /\ MapsOf(m, t, raw, (pending \ got) \cup Unmatched(s, got))
  /\ DOMAIN Sync(s, got).resps \subseteq DOMAIN s.numFD
  /\ DOMAIN s.numFD \subseteq DOMAIN t.numFD \cup DOMAIN Sync(s, got).resps
  /\ DOMAIN t.numFD \subseteq DOMAIN s.numFD
  /\ Sync(s, got).state.est = s.est

LEMMA SyncSome ==
  ASSUME NEW m \in Models, NEW s, NEW t, StateType(s), ~s.est,
         raw \in Seq(TagSet), MapsOf(m, s, raw, pending \cup cached),
         NEW got, got \subseteq pending, SyncTo(s, t, got)
  PROVE  SomeSynced(m, s, t, got)
<1> DEFINE M == Matched(s, got)
           c == Collected(s, got)
           resps == SimResponses(s, raw, got)
           y == Sync(s, got)
           known == DOMAIN resps \cap DOMAIN c.rawIds
           done == {c.rawIds[r] : r \in known}
           held == pending \cup cached
           now == (pending \ got) \cup Unmatched(s, got)
<1>1. /\ SimOf(m, s, raw, held) /\ IdsOf(s) /\ PlainOf(s, raw)
      /\ s.evals \in Nat /\ s.simEvals \in Nat
      /\ DOMAIN raw \subseteq Int
      /\ MapsOf(m, s, raw, held)
  BY DEF MapsOf, StateType
<1>0. /\ t.evals = s.evals /\ t.simEvals = s.simEvals
      /\ t.simIds = Without(s.simIds, Matched(s, got))
      /\ t.rawIds = Sync(s, got).state.rawIds
      /\ t.numFD = Sync(s, got).state.numFD
  BY DEF SyncTo
<1> USE <1>0
<1>2. DOMAIN s.simIds \subseteq Int
  BY <1>1 DEF SimOf
<1>3. /\ \A i, j \in DOMAIN s.simIds : s.simIds[i] = s.simIds[j] => i = j
      /\ \A q, r \in DOMAIN s.rawIds : s.rawIds[q] = s.rawIds[r] => q = r
  <2> HIDE DEF held
  <2>1. QED
    BY <1>1, OneToOne
<1>4. Rekeys(s, raw, M, resps)
  <2> HIDE DEF held
  <2>1. QED
    BY <1>1, <1>2, SimResponsesFacts
<1>5. Shaped(c) /\ c.rawIds = s.rawIds /\ c.numFD = s.numFD /\ c.est = s.est
  BY CollectedFields DEF StateType
<1>6. y = Rekeyed(c, resps)
  BY DEF Sync
<1>7. RekeysTo(c, known, done, resps, y)
  BY <1>5, <1>6, RekeyedFields
<1>8. M \subseteq DOMAIN s.simIds /\ M \cap DOMAIN s.simIds = M
      /\ \A i \in DOMAIN s.simIds \ M : i \in now
  BY <1>1 DEF Matched, Unmatched, Arrived, SimOf
<1> HIDE DEF M, c, resps, y, held, now
<1>9. /\ \A i \in DOMAIN s.simIds : /\ s.simIds[i] \in DOMAIN s.rawIds
                                    /\ s.rawIds[s.simIds[i]] = raw[i].eval
                                    /\ raw[i].eval \in DOMAIN s.numFD
  BY <1>1 DEF PlainOf, SimOf
<1>10. known = {s.simIds[i] : i \in M}
  BY <1>4, <1>5, <1>8, <1>9 DEF Rekeys
<1> HIDE DEF known, done
<1>11. done = {s.rawIds[r] : r \in known}
  BY <1>5 DEF done
<1>12. /\ DOMAIN t.simIds = DOMAIN s.simIds \ M
       /\ \A i \in DOMAIN t.simIds : t.simIds[i] = s.simIds[i]
  BY DEF Without, M
<1>13. /\ DOMAIN t.rawIds = DOMAIN s.rawIds \ known
       /\ \A r \in DOMAIN t.rawIds : t.rawIds[r] = s.rawIds[r]
       /\ DOMAIN t.numFD = DOMAIN s.numFD \ done
       /\ DOMAIN y.resps = done /\ y.state.est = s.est
  <2>1. t.rawIds = Without(s.rawIds, known)
        /\ t.numFD = Without(s.numFD, done)
        /\ DOMAIN y.resps = done /\ y.state.est = s.est
    BY <1>5, <1>7 DEF RekeysTo, y
  <2>2. QED
    BY <2>1 DEF Without
<1>14. done \subseteq DOMAIN s.numFD
  BY <1>8, <1>9, <1>10, <1>11
<1>15. \A i \in DOMAIN s.simIds : raw[i].eval \in done <=> i \in M
  <2>1. ASSUME NEW i \in M PROVE raw[i].eval \in done
    BY <1>8, <1>9, <1>10, <1>11
  <2>2. ASSUME NEW i \in DOMAIN s.simIds, raw[i].eval \in done PROVE i \in M
    <3>1. PICK j \in M : s.rawIds[s.simIds[j]] = raw[i].eval
      BY <2>2, <1>10, <1>11
    <3>2. i = j
      BY <3>1, <1>3, <1>8, <1>9
    <3>3. QED
      BY <3>2
  <2>3. QED
    BY <2>1, <2>2
<1>16. \A r \in DOMAIN s.rawIds : s.rawIds[r] \in done <=> r \in known
  <2>1. known \subseteq DOMAIN s.rawIds
    BY <1>8, <1>9, <1>10
  <2>2. QED
    BY <2>1, <1>3, <1>11
<1>17. SimOf(m, t, raw, now)
  <2>1. DOMAIN t.simIds \subseteq DOMAIN raw
    BY <1>1, <1>12 DEF SimOf
  <2>2. ASSUME NEW i \in DOMAIN t.simIds
        PROVE  /\ t.simIds[i] \in 1 .. t.simEvals
               /\ raw[i].model = m /\ raw[i].eval \in DOMAIN t.numFD
               /\ i \in now
    BY <1>1, <1>8, <1>12, <1>13, <1>15 DEF SimOf
  <2>3. \A i, j \in DOMAIN t.simIds : i < j => t.simIds[i] < t.simIds[j]
    BY <1>1, <1>12 DEF SimOf
  <2>4. ASSUME NEW i \in DOMAIN raw, raw[i].model = m
        PROVE  /\ raw[i].eval \in 1 .. t.evals
               /\ raw[i].eval \in DOMAIN t.numFD => i \in DOMAIN t.simIds
    BY <2>4, <1>1, <1>12, <1>13, <1>15 DEF SimOf
  <2>5. QED
    BY <2>1, <2>2, <2>3, <2>4 DEF SimOf
<1>18. IdsOf(t)
  <2>1. DOMAIN t.rawIds \subseteq 1 .. t.simEvals
        /\ DOMAIN t.numFD \subseteq 1 .. t.evals
    BY <1>1, <1>13 DEF IdsOf
  <2>2. ASSUME NEW r \in DOMAIN t.rawIds
        PROVE  /\ t.rawIds[r] \in DOMAIN t.numFD
               /\ \E i \in DOMAIN t.simIds : t.simIds[i] = r
    <3>1. r \in DOMAIN s.rawIds /\ r \notin known /\ t.rawIds[r] = s.rawIds[r]
      BY <1>13
    <3>2. PICK i \in DOMAIN s.simIds : s.simIds[i] = r
      BY <3>1, <1>1 DEF IdsOf
    <3>3. i \notin M
      BY <3>1, <3>2, <1>10
    <3>4. t.rawIds[r] \in DOMAIN t.numFD
      BY <3>1, <1>1, <1>13, <1>16 DEF IdsOf
    <3>5. QED
      BY <3>2, <3>3, <3>4, <1>12
  <2>3. \A q, r \in DOMAIN t.rawIds : q < r => t.rawIds[q] < t.rawIds[r]
    BY <1>1, <1>13 DEF IdsOf
  <2>4. ASSUME NEW k \in DOMAIN t.numFD
        PROVE  \E r \in DOMAIN t.rawIds : t.rawIds[r] = k
    <3>1. PICK r \in DOMAIN s.rawIds : s.rawIds[r] = k
      BY <1>1, <1>13 DEF IdsOf
    <3>2. r \notin known
      BY <3>1, <1>13, <1>16
    <3>3. QED
      BY <3>1, <3>2, <1>13
  <2>5. QED
    BY <2>1, <2>2, <2>3, <2>4 DEF IdsOf
<1>19. PlainOf(t, raw)
  <2>1. ASSUME NEW i \in DOMAIN t.simIds
        PROVE  t.simIds[i] \in DOMAIN t.rawIds
               /\ t.rawIds[t.simIds[i]] = raw[i].eval
    <3>1. i \in DOMAIN s.simIds /\ i \notin M /\ t.simIds[i] = s.simIds[i]
      BY <1>12
    <3>2. s.simIds[i] \in DOMAIN s.rawIds
          /\ s.rawIds[s.simIds[i]] = raw[i].eval
      BY <3>1, <1>9
    <3>3. s.simIds[i] \notin known
      BY <3>1, <3>2, <1>15, <1>16
    <3>4. QED
      BY <3>1, <3>2, <3>3, <1>13
  <2>2. QED
    BY <2>1 DEF PlainOf
<1>20. QED
  BY <1>13, <1>14, <1>17, <1>18, <1>19 DEF MapsOf, now, y, SomeSynced
-----------------------------------------------------------------------------
(* The steps, field by field.                                              *)

(* What a client may ask for.                                              *)
Request(asv, hit, slots) ==
  /\ asv.est \in BOOLEAN /\ hit \in BOOLEAN /\ AsvOf(config, asv)
  /\ (IF asv.est THEN asv ELSE [est |-> FALSE]) \in AsvSet
  /\ slots = SlotsOf(asv, hit) /\ slots \in Seq(Slot) /\ Len(slots) >= 1
  /\ ~asv.est => slots = Plain /\ Len(slots) = 1
  /\ \E request \in config.requests, short \in BOOLEAN :
       asv = ManageAsv(config, request, short)

LEMMA RequestFacts ==
  ASSUME EstimatesEvaluate, config \in Configurations,
         NEW request \in config.requests, NEW short \in BOOLEAN,
         NEW hit \in BOOLEAN, Requested(request, short, hit)
  PROVE  LET asv == ManageAsv(config, request, short)
         IN  Request(asv, hit, SlotsOf(asv, hit))
<1> DEFINE asv == ManageAsv(config, request, short)
           slots == SlotsOf(asv, hit)
<1>1. asv.est \in BOOLEAN /\ AsvOf(config, asv)
  BY ManageAsvFacts DEF AsvOf
<1>2. asv \in AsvSet /\ [est |-> FALSE] \in AsvSet
  <2>1. request \in SUBSET {1, 2, 4}
    BY ConfigurationFacts
  <2>2. QED
    BY <2>1 DEF AsvSet
<1>3. asv.est => Evaluations(config, asv, Initial(asv, hit)) # <<>>
  BY DEF EstimatesEvaluate, Evaluates, Requested
<1>a. \E x \in config.requests, y \in BOOLEAN : asv = ManageAsv(config, x, y)
  OBVIOUS
<1> HIDE DEF asv
<1>4. slots \in Seq(Slot)
  BY <1>1, SlotsOfType
<1>5. Len(slots) >= 1
  <2>1. CASE asv.est
    <3>1. slots # <<>>
      BY <2>1, <1>3 DEF SlotsOf
    <3>2. QED
      BY <3>1, <1>4, EmptySeq, LenProperties
  <2>2. CASE ~asv.est
    BY <2>2 DEF SlotsOf, Plain
  <2>3. QED
    BY <2>1, <2>2, <1>1
<1>6. ~asv.est => slots = Plain /\ Len(slots) = 1
  BY DEF SlotsOf, Plain
<1> HIDE DEF slots
<1>7. Request(asv, hit, slots)
  BY <1>a, <1>1, <1>2, <1>4, <1>5, <1>6 DEF Request, slots
<1>8. QED
  BY <1>7 DEF asv, slots

(* What is remembered of a request.                                        *)
Ask(c, asv) == [client |-> c, eval |-> client[c].evals + 1,
                asv |-> IF asv.est THEN asv ELSE [est |-> FALSE]]

NowaitTo(c, asv, hit, m, s, t, slots) ==
  /\ m = ModelOf[c] /\ m \in Models /\ s = model[m] /\ t = model'[m]
  /\ Request(asv, hit, slots)
  /\ raw' = raw \o Tagged(m, s.evals + 1, slots)
  /\ pending' = pending \cup ((Len(raw) + 1) .. (Len(raw) + Len(slots)))
  /\ cached' = cached /\ config' = config /\ answer' = {} /\ left' = {}
  /\ model' = [model EXCEPT ![m] = t]
  /\ client' = [client EXCEPT
                  ![c] = [evals |-> client[c].evals + 1,
                          ids |-> With(client[c].ids, s.evals + 1,
                                       client[c].evals + 1)]]
  /\ StartedTo(s, t, raw, slots) /\ Shaped(t)
  /\ t.cache = s.cache /\ t.asked = Append(s.asked, Ask(c, asv))
  /\ t.est = (asv.est \/ s.est)
  /\ t.numFD = With(s.numFD, s.evals + 1,
                    IF asv.est THEN Len(slots) ELSE -1)
  /\ t.lists = IF asv.est
                 THEN [Listed(s.lists, m, s.evals + 1, config, asv,
                              Initial(asv, hit), hit)
                         EXCEPT !.sets = Append(@, asv)]
                 ELSE s.lists

LEMMA NowaitFacts ==
  ASSUME EstimatesEvaluate, TypeInv, NEW c \in Clients, EvaluateNowait(c)
  PROVE  \E asv, hit, m, s, t, slots : NowaitTo(c, asv, hit, m, s, t, slots)
<1>1. PICK request \in config.requests, short \in BOOLEAN, hit \in BOOLEAN :
        LET m == ModelOf[c]
            asv == ManageAsv(config, request, short)
            slots == SlotsOf(asv, hit)
            s == Asked(model[m], c, asv)
        IN  /\ Requested(request, short, hit)
            /\ raw' = raw \o Tagged(m, s.evals, slots)
            /\ pending' = pending \cup NewIds(slots)
            /\ model' = [model EXCEPT
                           ![m] = Launched(Bookkept(s, m, asv, hit), slots)]
            /\ client' = [client EXCEPT
                            ![c].evals = @ + 1,
                            ![c].ids = With(@, s.evals, client[c].evals + 1)]
            /\ answer' = {} /\ left' = {}
            /\ UNCHANGED <<config, cached, aborted>>
  BY Zenon DEF EvaluateNowait
<1> DEFINE m == ModelOf[c]
           asv == ManageAsv(config, request, short)
           slots == SlotsOf(asv, hit)
           s == model[m]
           a == Asked(s, c, asv)
           b == Bookkept(a, m, asv, hit)
           t == Launched(b, slots)
<1>2. m \in Models /\ Shaped(s) /\ s.est \in BOOLEAN /\ s.evals \in Nat
      /\ s.simEvals \in Nat
  BY ModelOfAssumption DEF TypeInv
<1>3. Request(asv, hit, slots)
  BY <1>1, RequestFacts DEF TypeInv
<1>4. /\ Requested(request, short, hit)
      /\ raw' = raw \o Tagged(m, a.evals, slots)
      /\ pending' = pending \cup NewIds(slots)
      /\ model' = [model EXCEPT ![m] = t]
      /\ client' = [client EXCEPT
                      ![c].evals = @ + 1,
                      ![c].ids = With(@, a.evals, client[c].evals + 1)]
      /\ answer' = {} /\ left' = {} /\ config' = config /\ cached' = cached
  BY <1>1
<1>5. /\ a.evals = s.evals + 1 /\ a.simEvals = s.simEvals
      /\ a.simIds = s.simIds /\ a.rawIds = s.rawIds
      /\ a.numFD = s.numFD /\ a.lists = s.lists /\ a.est = s.est
      /\ a.cache = s.cache /\ a.asked = Append(s.asked, Ask(c, asv))
      /\ Shaped(a)
  BY <1>2, AskedFields DEF Ask
<1> HIDE DEF m, asv, slots, s, a
<1>6. /\ b.evals = a.evals /\ b.simEvals = a.simEvals
      /\ b.simIds = a.simIds /\ b.cache = a.cache /\ b.asked = a.asked
      /\ b.rawIds = With(a.rawIds, a.simEvals + 1, a.evals)
      /\ b.numFD = With(a.numFD, a.evals,
                        IF asv.est THEN Len(SlotsOf(asv, hit)) ELSE -1)
      /\ b.lists = IF asv.est THEN Extended(a, m, asv, hit) ELSE a.lists
      /\ b.est = IF asv.est THEN TRUE ELSE a.est
      /\ Shaped(b)
  <2>1. asv.est \in BOOLEAN /\ Shaped(a)
    BY <1>3, <1>5 DEF Request
  <2>2. BookkeptTo(a, m, asv, hit, b)
    BY <2>1, BookkeptFields
  <2>3. QED
    BY <2>2 DEF BookkeptTo
<1> HIDE DEF b
<1>7. /\ t.evals = b.evals /\ t.simEvals = b.simEvals + Len(slots)
      /\ t.simIds = Inserted(b.simIds, [i \in NewIds(slots) |->
                                          b.simEvals + (i - Len(raw))])
      /\ t.rawIds = b.rawIds /\ t.numFD = b.numFD /\ t.lists = b.lists
      /\ t.est = b.est /\ t.cache = b.cache /\ t.asked = b.asked
      /\ Shaped(t)
  BY <1>6, LaunchedFields
<1> HIDE DEF t
<1>8. NewIds(slots) = (Len(raw) + 1) .. (Len(raw) + Len(slots))
  BY DEF NewIds
<1>9. model'[m] = t
  <2>1. model = [n \in Models |-> model[n]]
    BY DEF TypeInv
  <2>2. QED
    BY <1>2, <1>4, <2>1
<1>10. /\ DOMAIN t.numFD = DOMAIN s.numFD \cup {s.evals + 1}
       /\ t.est = (asv.est \/ s.est)
       /\ ~t.est => ~s.est /\ Len(slots) = 1
  BY <1>2, <1>3, <1>5, <1>6, <1>7 DEF With, Request
<1>11. StartedTo(s, t, raw, slots)
  BY <1>5, <1>6, <1>7, <1>8, <1>10 DEF StartedTo
<1>12. client' = [client EXCEPT
                    ![c] = [evals |-> client[c].evals + 1,
                            ids |-> With(client[c].ids, s.evals + 1,
                                         client[c].evals + 1)]]
  <2>1. client = [d \in Clients |->
                    [evals |-> client[d].evals, ids |-> client[d].ids]]
    BY DEF TypeInv
  <2> DEFINE x == client[c].evals + 1
             z == With(client[c].ids, a.evals, client[c].evals + 1)
  <2>2. client' = [client EXCEPT ![c].evals = x, ![c].ids = z]
    BY <1>4
  <2>3. z = With(client[c].ids, s.evals + 1, client[c].evals + 1)
    BY <1>5
  <2> HIDE DEF x, z
  <2>4. client' = [client EXCEPT ![c] = [evals |-> x, ids |-> z]]
    <3> DEFINE old == client[c]
    <3>1. client' = [client EXCEPT ![c] = [old EXCEPT !.evals = x,
                                                       !.ids = z]]
      BY <2>1, <2>2
    <3>2. old = [evals |-> old.evals, ids |-> old.ids]
      BY <2>1
    <3> HIDE DEF old
    <3>3. [old EXCEPT !.evals = x, !.ids = z] = [evals |-> x, ids |-> z]
      <4> DEFINE new == [old EXCEPT !.evals = x, !.ids = z]
      <4>0. new = [old EXCEPT !.evals = x, !.ids = z]
        OBVIOUS
      <4> HIDE DEF new
      <4>1. /\ new.evals = x /\ new.ids = z
            /\ new = [evals |-> new.evals, ids |-> new.ids]
        BY <3>2, <4>0
      <4>2. QED
        BY <4>1, Zenon DEF new
    <3>4. QED
      BY <3>1, <3>3
  <2>5. QED
    BY <2>3, <2>4 DEF x
<1>13. t.lists = IF asv.est
                   THEN [Listed(s.lists, m, s.evals + 1, config, asv,
                                Initial(asv, hit), hit)
                           EXCEPT !.sets = Append(@, asv)]
                   ELSE s.lists
  BY <1>5, <1>6, <1>7 DEF Extended
<1>14. t.numFD = With(s.numFD, s.evals + 1,
                      IF asv.est THEN Len(slots) ELSE -1)
  BY <1>5, <1>6, <1>7 DEF slots
<1>15. NowaitTo(c, asv, hit, m, s, t, slots)
  <2>1. m = ModelOf[c] /\ s = model[m]
    BY DEF m, s
  <2>2. t.cache = s.cache /\ t.asked = Append(s.asked, Ask(c, asv))
    BY <1>5, <1>6, <1>7
  <2>3. raw' = raw \o Tagged(m, s.evals + 1, slots)
    BY <1>4, <1>5
  <2>4. QED
    BY <1>2, <1>3, <1>4, <1>7, <1>8, <1>9, <1>10, <1>11, <1>12, <1>13,
       <1>14, <2>1, <2>2, <2>3 DEF NowaitTo
<1>16. QED
  BY <1>15, Zenon
-----------------------------------------------------------------------------
(* The maps are kept.                                                      *)

(* A step changes one model and one client.                                *)
LEMMA OneChanges ==
  ASSUME TypeInv, NEW m \in Models, NEW t, NEW c \in Clients, NEW d,
         model' = [model EXCEPT ![m] = t],
         client' = [client EXCEPT ![c] = d],
         d = [evals |-> d.evals, ids |-> d.ids]
  PROVE  /\ model'[m] = t /\ \A n \in Models : n # m => model'[n] = model[n]
         /\ model' = [n \in Models |-> model'[n]]
         /\ client'[c] = d
         /\ \A e \in Clients : e # c => client'[e] = client[e]
         /\ client' = [e \in Clients |->
                         [evals |-> client'[e].evals, ids |-> client'[e].ids]]
<1>1. model = [n \in Models |-> model[n]]
      /\ client = [e \in Clients |->
                     [evals |-> client[e].evals, ids |-> client[e].ids]]
  BY DEF TypeInv
<1>2. DOMAIN model = Models /\ DOMAIN client = Clients
      /\ \A e \in Clients : client[e] = [evals |-> client[e].evals,
                                         ids |-> client[e].ids]
  BY <1>1, Zenon
<1>3. /\ model'[m] = t /\ \A n \in Models : n # m => model'[n] = model[n]
      /\ model' = [n \in Models |-> model'[n]]
  BY <1>2
<1>4. /\ client'[c] = d
      /\ \A e \in Clients : e # c => client'[e] = client[e]
      /\ client' = [e \in Clients |-> client'[e]]
  BY <1>2
<1>5. ASSUME NEW e \in Clients
      PROVE  client'[e] = [evals |-> client'[e].evals, ids |-> client'[e].ids]
  <2>1. CASE e = c
    BY <2>1, <1>4, Zenon
  <2>2. CASE e # c
    BY <2>2, <1>2, <1>4, Zenon
  <2>3. QED
    BY <2>1, <2>2
<1>6. client' = [e \in Clients |->
                   [evals |-> client'[e].evals, ids |-> client'[e].ids]]
  BY <1>4, <1>5
<1>7. QED
  BY <1>3, <1>4, <1>6

(* What a client waits for, after one more evaluation of the model.        *)
LEMMA StillWaits ==
  ASSUME NEW c, NEW ids, NEW s, NEW t, WaitsOf(c, ids, s), s.evals \in Nat,
         NEW a \in AskSet, s.asked \in Seq(AskSet), Len(s.asked) = s.evals,
         t.evals = s.evals + 1, t.asked = Append(s.asked, a),
         DOMAIN s.numFD \subseteq DOMAIN t.numFD, t.cache = s.cache
  PROVE  WaitsOf(c, ids, t)
<1>1. \A k \in 1 .. s.evals : t.asked[k] = s.asked[k] /\ k \in 1 .. t.evals
  BY AppendProperties
<1>2. QED
  BY <1>1 DEF WaitsOf

LEMMA NowaitMaps ==
  ASSUME MapsInv, NEW c \in Clients, NEW asv, NEW hit, NEW m, NEW s, NEW t,
         NEW slots, NowaitTo(c, asv, hit, m, s, t, slots)
  PROVE  MapsInv'
<1> DEFINE k == s.evals + 1
           news == (Len(raw) + 1) .. (Len(raw) + Len(slots))
           a == Ask(c, asv)
           d == [evals |-> client[c].evals + 1,
                 ids |-> With(client[c].ids, k, client[c].evals + 1)]
<1>1. /\ m = ModelOf[c] /\ m \in Models /\ s = model[m]
      /\ Request(asv, hit, slots)
      /\ raw' = raw \o Tagged(m, k, slots)
      /\ pending' = pending \cup news
      /\ cached' = cached /\ config' = config /\ left' = {}
      /\ model' = [model EXCEPT ![m] = t]
      /\ client' = [client EXCEPT ![c] = d]
      /\ StartedTo(s, t, raw, slots) /\ Shaped(t)
      /\ t.cache = s.cache /\ t.asked = Append(s.asked, a)
      /\ t.est = (asv.est \/ s.est)
  BY DEF NowaitTo
<1>2. /\ slots \in Seq(Slot) /\ Len(slots) >= 1 /\ asv.est \in BOOLEAN
      /\ (IF asv.est THEN asv ELSE [est |-> FALSE]) \in AsvSet
  BY <1>1 DEF Request
<1>3. /\ raw \in Seq(TagSet) /\ StateType(s) /\ client[c].evals \in Nat
      /\ s.evals \in Nat /\ s.simEvals \in Nat /\ s.est \in BOOLEAN
      /\ s.asked \in Seq(AskSet) /\ Len(s.asked) = s.evals
  BY <1>1 DEF MapsInv, TypeInv, StateType
<1>4. a \in AskSet
  BY <1>2, <1>3 DEF Ask, AskSet
<1>5. d = [evals |-> d.evals, ids |-> d.ids]
  OBVIOUS
<1>6. /\ t.evals = k /\ t.simEvals = s.simEvals + Len(slots)
      /\ DOMAIN t.numFD = DOMAIN s.numFD \cup {k}
  BY <1>1 DEF StartedTo
<1> HIDE DEF a, d, news
<1>7. /\ model'[m] = t /\ \A n \in Models : n # m => model'[n] = model[n]
      /\ model' = [n \in Models |-> model'[n]]
      /\ client'[c] = d
      /\ \A e \in Clients : e # c => client'[e] = client[e]
      /\ client' = [e \in Clients |->
                      [evals |-> client'[e].evals, ids |-> client'[e].ids]]
  BY <1>1, <1>5, OneChanges DEF MapsInv
<1>8. t.evals \in Nat /\ t.simEvals \in Nat /\ t.est \in BOOLEAN
      /\ t.asked \in Seq(AskSet) /\ Len(t.asked) = t.evals /\ k \in Nat
      /\ t.asked[k] = a
  <2>1. Len(slots) \in Nat
    BY <1>2
  <2>2. t.asked \in Seq(AskSet) /\ Len(t.asked) = Len(s.asked) + 1
        /\ t.asked[Len(s.asked) + 1] = a
    BY <1>1, <1>3, <1>4, AppendProperties
  <2>3. QED
    BY <1>1, <1>2, <1>3, <1>6, <2>1, <2>2
<1>9. TypeInv'
  <2>1. config' \in Configurations /\ raw' \in Seq(TagSet)
    <3>1. Longer(raw', raw, Len(raw), Len(slots), m, k, slots)
      BY <1>1, <1>2, <1>3, <1>8, LongerLog
    <3>2. QED
      BY <1>1, <3>1 DEF Longer, MapsInv, TypeInv
  <2>2. \A e \in Clients : client'[e].evals \in Nat
    BY <1>3, <1>7 DEF MapsInv, TypeInv, d
  <2>3. ASSUME NEW n \in Models
        PROVE  /\ Shaped(model'[n])
               /\ model'[n].evals \in Nat /\ model'[n].simEvals \in Nat
               /\ model'[n].est \in BOOLEAN
               /\ model'[n].asked \in Seq(AskSet)
               /\ Len(model'[n].asked) = model'[n].evals
    <3>1. CASE n = m
      BY <3>1, <1>1, <1>7, <1>8
    <3>2. CASE n # m
      BY <3>2, <1>7 DEF MapsInv, TypeInv
    <3>3. QED
      BY <3>1, <3>2
  <2>4. QED
    BY <1>7, <2>1, <2>2, <2>3 DEF TypeInv, Shaped
<1>10. ASSUME NEW n \in Models
       PROVE  MapsOf(n, model'[n], raw', pending' \cup cached')
  <2> DEFINE held == pending \cup cached
             now == held \cup news
  <2>1. pending' \cup cached' = now
    BY <1>1
  <2>2. MapsOf(n, model[n], raw, held)
    BY DEF MapsInv
  <2>3. \A i : i \in held => i \in now
    OBVIOUS
  <2> HIDE DEF held
  <2>4. CASE n = m
    <3>1. MapsOf(m, s, raw, held)
      BY <2>2, <2>4, <1>1
    <3>2. MapsOf(m, t, raw \o Tagged(m, s.evals + 1, slots), now)
      BY <3>1, <1>1, <1>2, <1>3, LaunchMaps DEF news
    <3>3. QED
      BY <2>1, <2>4, <3>2, <1>1, <1>7
  <2>5. CASE n # m
    <3> HIDE DEF now
    <3>1. MapsOf(n, model[n], raw \o Tagged(m, k, slots), now)
      <4> HIDE DEF k
      <4>1. QED
        BY <2>2, <2>3, <2>5, <1>1, <1>2, <1>3, <1>8, OtherModel
    <3>2. QED
      BY <2>1, <2>5, <3>1, <1>1, <1>7
  <2>6. QED
    BY <2>4, <2>5
<1>11. ASSUME NEW e \in Clients
       PROVE  WaitsOf(e, client'[e].ids, model'[ModelOf[e]])
  <2>1. ModelOf[e] \in Models /\ WaitsOf(e, client[e].ids, model[ModelOf[e]])
    BY ModelOfAssumption DEF MapsInv
  <2>2. CASE ModelOf[e] # m
    <3>1. e # c
      BY <2>2, <1>1
    <3>2. QED
      BY <2>1, <2>2, <3>1, <1>7
  <2>3. CASE ModelOf[e] = m
    <3>1. WaitsOf(e, client[e].ids, s)
      BY <2>1, <2>3, <1>1
    <3>2. WaitsOf(e, client[e].ids, t)
      BY <3>1, <1>1, <1>3, <1>4, <1>6, StillWaits
    <3>3. CASE e # c
      BY <2>3, <3>2, <3>3, <1>7
    <3>4. CASE e = c
      <4> DEFINE ids == client[c].ids
                 new == With(ids, k, client[c].evals + 1)
      <4>1. /\ DOMAIN new = DOMAIN ids \cup {k}
            /\ new[k] = client[c].evals + 1
            /\ \A j \in DOMAIN ids : j # k => new[j] = ids[j]
        BY DEF With
      <4>2. k \in 1 .. t.evals /\ t.asked[k].client = c
            /\ t.asked[k].eval = client[c].evals + 1
            /\ k \in DOMAIN t.numFD
        BY <1>3, <1>6, <1>8 DEF Ask, a
      <4>3. client'[c].ids = new
        BY <1>7 DEF d
      <4> HIDE DEF new
      <4>4. WaitsOf(c, new, t)
        BY <3>2, <3>4, <4>1, <4>2 DEF WaitsOf
      <4>5. QED
        BY <2>3, <3>4, <4>3, <4>4, <1>7
    <3>5. QED
      BY <3>3, <3>4
  <2>4. QED
    BY <2>2, <2>3
<1>12. QED
  BY <1>1, <1>9, <1>10, <1>11 DEF MapsInv

-----------------------------------------------------------------------------
(* A synchronization, field by field.                                      *)
CollectTo(c, got, m, s, t, resps) ==
  /\ m = ModelOf[c] /\ m \in Models /\ s = model[m]
  /\ pending' = pending \ got /\ cached' = Unmatched(s, got)
  /\ config' = config /\ raw' = raw
  /\ model' = [model EXCEPT ![m] = t]
  /\ client' = [client EXCEPT
                  ![c] = [evals |-> client[c].evals,
                          ids |-> Without(client[c].ids, Mine(c, resps))]]
  /\ answer' = Answer(c, resps)
  /\ resps = Inserted(Sync(s, got).resps, s.cache)
  /\ t.evals = s.evals /\ t.simEvals = s.simEvals
  /\ t.simIds = Without(s.simIds, Matched(s, got))
  /\ t.asked = s.asked /\ t.est = Sync(s, got).state.est
  /\ t.lists = Sync(s, got).state.lists
  /\ t.rawIds = Sync(s, got).state.rawIds
  /\ t.numFD = Sync(s, got).state.numFD
  /\ t.cache = Kept(c, resps) /\ Shaped(t)

LEMMA CollectFacts ==
  ASSUME TypeInv, NEW c \in Clients, NEW got, Collect(c, got)
  PROVE  \E m, s, t, resps : CollectTo(c, got, m, s, t, resps)
<1> DEFINE m == ModelOf[c]
           s == model[m]
           resps == Synchronized(s, got).resps
           kept == Kept(c, resps)
           t == [Synchronized(s, got).state EXCEPT !.cache = kept]
<1>1. m \in Models /\ Shaped(s)
  BY ModelOfAssumption DEF TypeInv
<1>2. /\ pending' = pending \ got /\ cached' = Unmatched(s, got)
      /\ model' = [model EXCEPT ![m] = t]
      /\ client' = [client EXCEPT ![c].ids = Without(@, Mine(c, resps))]
      /\ answer' = Answer(c, resps)
      /\ config' = config /\ raw' = raw
  BY DEF Collect
<1> HIDE DEF kept
<1>3. /\ t.evals = s.evals /\ t.simEvals = s.simEvals
      /\ t.simIds = Without(s.simIds, Matched(s, got))
      /\ t.asked = s.asked /\ t.est = Sync(s, got).state.est
      /\ t.lists = Sync(s, got).state.lists
      /\ t.rawIds = Sync(s, got).state.rawIds
      /\ t.numFD = Sync(s, got).state.numFD
      /\ t.cache = kept /\ Shaped(t)
      /\ resps = Inserted(Sync(s, got).resps, s.cache)
  <2> HIDE DEF s
  <2>1. QED
    BY <1>1, SynchronizedFields
<1> HIDE DEF t, resps
<1>4. client' = [client EXCEPT
                   ![c] = [evals |-> client[c].evals,
                           ids |-> Without(client[c].ids, Mine(c, resps))]]
  <2>1. client = [d \in Clients |->
                    [evals |-> client[d].evals, ids |-> client[d].ids]]
    BY DEF TypeInv
  <2> DEFINE z == Without(client[c].ids, Mine(c, resps))
  <2>2. client' = [client EXCEPT ![c].ids = z]
    BY <1>2
  <2> HIDE DEF z
  <2>3. client' = [client EXCEPT ![c] = [evals |-> client[c].evals,
                                         ids |-> z]]
    <3> DEFINE old == client[c]
    <3>1. client' = [client EXCEPT ![c] = [old EXCEPT !.ids = z]]
      BY <2>1, <2>2
    <3>2. old = [evals |-> old.evals, ids |-> old.ids]
      BY <2>1
    <3> HIDE DEF old
    <3>3. [old EXCEPT !.ids = z] = [evals |-> old.evals, ids |-> z]
      BY <3>2
    <3>4. QED
      BY <3>1, <3>3 DEF old
  <2>4. QED
    BY <2>3 DEF z
<1>5. CollectTo(c, got, m, s, t, resps)
  BY <1>1, <1>2, <1>3, <1>4 DEF CollectTo, kept
<1>6. QED
  BY <1>5, Zenon

(* What a synchronization does to the maps of its model.                   *)
CollectKeeps(c, got, s, t) ==
  /\ MapsOf(ModelOf[c], t, raw, (pending \ got) \cup Unmatched(s, got))
  /\ DOMAIN s.numFD \subseteq DOMAIN t.numFD \cup DOMAIN Sync(s, got).resps
  /\ t.est \in BOOLEAN

(* The responses that it caches are for the clients that still wait.       *)
LEMMA CollectWaits ==
  ASSUME MapsInv, NEW c \in Clients, NEW got, NEW m, NEW s, NEW t, NEW resps,
         CollectTo(c, got, m, s, t, resps),
         DOMAIN s.numFD \subseteq DOMAIN t.numFD \cup DOMAIN Sync(s, got).resps,
         NEW e \in Clients, ModelOf[e] = m
  PROVE  WaitsOf(e, client'[e].ids, t)
<1> DEFINE d == [evals |-> client[c].evals,
                 ids |-> Without(client[c].ids, Mine(c, resps))]
<1>1. /\ m = ModelOf[c] /\ m \in Models /\ s = model[m]
      /\ model' = [model EXCEPT ![m] = t]
      /\ client' = [client EXCEPT ![c] = d]
      /\ resps = Inserted(Sync(s, got).resps, s.cache)
      /\ t.evals = s.evals /\ t.asked = s.asked
      /\ t.cache = Kept(c, resps)
  BY DEF CollectTo
<1>2. d = [evals |-> d.evals, ids |-> d.ids]
  OBVIOUS
<1>a. d.ids = Without(client[c].ids, Mine(c, resps))
  OBVIOUS
<1> HIDE DEF d
<1>3. client'[c] = d /\ \A f \in Clients : f # c => client'[f] = client[f]
  BY <1>1, <1>2, OneChanges DEF MapsInv
<1>4. /\ DOMAIN resps = DOMAIN Sync(s, got).resps \cup DOMAIN s.cache
      /\ DOMAIN t.cache = DOMAIN resps \ DOMAIN client[c].ids
  BY <1>1 DEF Inserted, Kept, Without
<1>5. /\ WaitsOf(e, client[e].ids, s) /\ WaitsOf(c, client[c].ids, s)
  BY <1>1 DEF MapsInv
<1>6. CASE e = c
  <2>1. /\ DOMAIN d.ids = DOMAIN client[c].ids \ DOMAIN resps
        /\ \A k \in DOMAIN d.ids : d.ids[k] = client[c].ids[k]
    BY <1>a DEF Without, Mine
  <2>2. QED
    BY <1>1, <1>3, <1>4, <1>5, <1>6, <2>1 DEF WaitsOf
<1>7. CASE e # c
  <2>1. \A k \in DOMAIN client[e].ids : k \notin DOMAIN client[c].ids
    BY <1>5, <1>7 DEF WaitsOf
  <2>2. QED
    BY <1>1, <1>3, <1>4, <1>5, <1>7, <2>1 DEF WaitsOf
<1>8. QED
  BY <1>6, <1>7

LEMMA CollectMaps ==
  ASSUME MapsInv, NEW c \in Clients, NEW got, got \subseteq pending,
         NEW m, NEW s, NEW t, NEW resps,
         CollectTo(c, got, m, s, t, resps), CollectKeeps(c, got, s, t),
         left' = {}
  PROVE  MapsInv'
<1> DEFINE d == [evals |-> client[c].evals,
                 ids |-> Without(client[c].ids, Mine(c, resps))]
           now == (pending \ got) \cup Unmatched(s, got)
<1>1. /\ m = ModelOf[c] /\ m \in Models /\ s = model[m]
      /\ raw' = raw /\ config' = config
      /\ pending' \cup cached' = now
      /\ model' = [model EXCEPT ![m] = t]
      /\ client' = [client EXCEPT ![c] = d]
      /\ t.evals = s.evals /\ t.simEvals = s.simEvals /\ t.asked = s.asked
      /\ Shaped(t)
  BY DEF CollectTo
<1>2. /\ MapsOf(m, t, raw, now) /\ t.est \in BOOLEAN
      /\ DOMAIN s.numFD \subseteq DOMAIN t.numFD \cup DOMAIN Sync(s, got).resps
  BY <1>1 DEF CollectKeeps
<1>3. d = [evals |-> d.evals, ids |-> d.ids] /\ d.evals = client[c].evals
  OBVIOUS
<1> HIDE DEF d
<1>4. /\ model'[m] = t /\ \A n \in Models : n # m => model'[n] = model[n]
      /\ model' = [n \in Models |-> model'[n]]
      /\ client'[c] = d
      /\ \A e \in Clients : e # c => client'[e] = client[e]
      /\ client' = [e \in Clients |->
                      [evals |-> client'[e].evals, ids |-> client'[e].ids]]
  BY <1>1, <1>3, OneChanges DEF MapsInv
<1>5. TypeInv'
  <2>1. config' \in Configurations /\ raw' \in Seq(TagSet)
    BY <1>1 DEF MapsInv, TypeInv
  <2>2. \A e \in Clients : client'[e].evals \in Nat
    BY <1>3, <1>4 DEF MapsInv, TypeInv
  <2>3. ASSUME NEW n \in Models
        PROVE  /\ Shaped(model'[n])
               /\ model'[n].evals \in Nat /\ model'[n].simEvals \in Nat
               /\ model'[n].est \in BOOLEAN
               /\ model'[n].asked \in Seq(AskSet)
               /\ Len(model'[n].asked) = model'[n].evals
    <3>1. CASE n = m
      BY <3>1, <1>1, <1>2, <1>4 DEF MapsInv, TypeInv
    <3>2. CASE n # m
      BY <3>2, <1>4 DEF MapsInv, TypeInv
    <3>3. QED
      BY <3>1, <3>2
  <2>4. QED
    BY <1>4, <2>1, <2>2, <2>3 DEF TypeInv, Shaped
<1>6. ASSUME NEW n \in Models
      PROVE  MapsOf(n, model'[n], raw', pending' \cup cached')
  <2> DEFINE held == pending \cup cached
  <2>2. MapsOf(n, model[n], raw, held) /\ MapsOf(m, s, raw, held)
        /\ raw \in Seq(TagSet)
    BY <1>1 DEF MapsInv, TypeInv
  <2>3. CASE n = m
    BY <2>3, <1>1, <1>2, <1>4
  <2>4. CASE n # m
    <3>1. ASSUME NEW i \in DOMAIN model[n].simIds, i \in held PROVE i \in now
      <4>1. raw[i].model = n
        BY <2>2 DEF MapsOf, SimOf
      <4>2. i \notin DOMAIN s.simIds
        BY <4>1, <2>2, <2>4 DEF MapsOf, SimOf
      <4>3. QED
        BY <3>1, <4>2 DEF Unmatched, Arrived
    <3> HIDE DEF held, now
    <3>2. <<>> \in Seq(Slot) /\ 0 \in Nat
      OBVIOUS
    <3>3. MapsOf(n, model[n], raw, now)
      BY <2>2, <2>4, <3>1, <3>2, <1>1, OtherModel
    <3>4. QED
      BY <2>4, <3>3, <1>1, <1>4
  <2>5. QED
    BY <2>3, <2>4
<1>7. ASSUME NEW e \in Clients
      PROVE  WaitsOf(e, client'[e].ids, model'[ModelOf[e]])
  <2>1. ModelOf[e] \in Models /\ WaitsOf(e, client[e].ids, model[ModelOf[e]])
    BY ModelOfAssumption DEF MapsInv
  <2>2. CASE ModelOf[e] # m
    <3>1. e # c
      BY <2>2, <1>1
    <3>2. QED
      BY <2>1, <2>2, <3>1, <1>4
  <2>3. CASE ModelOf[e] = m
    <3>1. WaitsOf(e, client'[e].ids, t)
      BY <1>2, <2>3, CollectWaits
    <3>2. QED
      BY <2>3, <3>1, <1>4
  <2>4. QED
    BY <2>2, <2>3
<1>8. QED
  BY <1>5, <1>6, <1>7 DEF MapsInv

(* Model::synchronize leaves its caller waiting for nothing.               *)
LEMMA SynchronizeMaps ==
  ASSUME MapsInv, NEW c \in Clients, Synchronize(c)
  PROVE  MapsInv'
<1>1. PICK m, s, t, resps : CollectTo(c, pending, m, s, t, resps)
  BY CollectFacts DEF Synchronize, MapsInv
<1>2. /\ m = ModelOf[c] /\ m \in Models /\ s = model[m]
      /\ t.evals = s.evals
      /\ t.simIds = Without(s.simIds, Matched(s, pending))
      /\ t.est = Sync(s, pending).state.est
      /\ t.rawIds = Sync(s, pending).state.rawIds
      /\ t.numFD = Sync(s, pending).state.numFD
  BY <1>1 DEF CollectTo
<1>3. /\ StateType(s) /\ raw \in Seq(TagSet)
      /\ MapsOf(m, s, raw, pending \cup cached)
  BY <1>2 DEF MapsInv, TypeInv, StateType
<1>4. /\ DOMAIN Without(s.simIds, Matched(s, pending)) = {}
      /\ DOMAIN Sync(s, pending).state.rawIds = {}
      /\ DOMAIN Sync(s, pending).state.numFD = {}
      /\ Sync(s, pending).state.est = FALSE
      /\ DOMAIN Sync(s, pending).resps = DOMAIN s.numFD
  <2>1. AllSynced(s, pending)
    BY <1>2, <1>3, SyncAll
  <2>2. QED
    BY <2>1 DEF AllSynced
<1>5. CollectKeeps(c, pending, s, t)
  <2> DEFINE now == (pending \ pending) \cup Unmatched(s, pending)
  <2>1. \A i \in DOMAIN raw : raw[i].model = m => raw[i].eval \in 1 .. t.evals
    BY <1>2, <1>3 DEF MapsOf, SimOf
  <2> HIDE DEF now
  <2>2. MapsOf(m, t, raw, now)
    BY <2>1, <1>2, <1>4, EmptyMaps
  <2>3. QED
    BY <2>2, <1>2, <1>4 DEF CollectKeeps, now
<1>6. left' = {}
  <2>1. WaitsOf(c, client'[c].ids, t)
    BY <1>1, <1>2, <1>5, CollectWaits DEF CollectKeeps
  <2>2. /\ t.cache = Kept(c, resps)
        /\ client' = [client EXCEPT
                        ![c] = [evals |-> client[c].evals,
                                ids |-> Without(client[c].ids, Mine(c, resps))]]
        /\ client = [d \in Clients |->
                       [evals |-> client[d].evals, ids |-> client[d].ids]]
    BY <1>1 DEF CollectTo, MapsInv, TypeInv
  <2>3. client'[c].ids = Without(client[c].ids, Mine(c, resps))
    BY <2>2
  <2>4. \A k \in DOMAIN client'[c].ids : k \notin DOMAIN t.cache
    BY <2>2, <2>3 DEF Kept, Without
  <2>5. DOMAIN client'[c].ids = {}
    BY <2>1, <2>4, <1>2, <1>4 DEF WaitsOf
  <2>6. QED
    BY <2>5 DEF Synchronize
<1>7. QED
  BY <1>1, <1>5, <1>6, CollectMaps

LEMMA SynchronizeNowaitMaps ==
  ASSUME MapsInv, NEW c \in Clients, SynchronizeNowait(c)
  PROVE  MapsInv'
<1>1. PICK got \in SUBSET pending : Collect(c, got)
  BY DEF SynchronizeNowait
<1>2. PICK m, s, t, resps : CollectTo(c, got, m, s, t, resps)
  BY <1>1, CollectFacts DEF MapsInv
<1>3. /\ m = ModelOf[c] /\ m \in Models /\ s = model[m]
      /\ t.evals = s.evals /\ t.simEvals = s.simEvals
      /\ t.simIds = Without(s.simIds, Matched(s, got))
      /\ t.est = Sync(s, got).state.est
      /\ t.rawIds = Sync(s, got).state.rawIds
      /\ t.numFD = Sync(s, got).state.numFD
  BY <1>2 DEF CollectTo
<1>4. /\ StateType(s) /\ raw \in Seq(TagSet) /\ s.est \in BOOLEAN
      /\ MapsOf(m, s, raw, pending \cup cached) /\ ~s.est
  BY <1>3 DEF MapsInv, TypeInv, StateType, SynchronizeNowait
<1>5. /\ MapsOf(m, t, raw, (pending \ got) \cup Unmatched(s, got))
      /\ DOMAIN s.numFD \subseteq DOMAIN t.numFD
                                    \cup DOMAIN Sync(s, got).resps
      /\ Sync(s, got).state.est = s.est
  <2>1. SyncTo(s, t, got)
    BY <1>3 DEF SyncTo
  <2>2. SomeSynced(m, s, t, got)
    BY <1>3, <1>4, <2>1, SyncSome
  <2>3. QED
    BY <2>2 DEF SomeSynced
<1>6. CollectKeeps(c, got, s, t)
  BY <1>3, <1>4, <1>5 DEF CollectKeeps
<1>7. left' = {}
  BY DEF SynchronizeNowait
<1>8. QED
  BY <1>2, <1>6, <1>7, CollectMaps

-----------------------------------------------------------------------------
(* Model::evaluate, field by field.                                        *)
Outcome(c, asv, hit, m, s, slots) ==
  IF ThroughQueue(asv) THEN Blocking(Asked(s, c, asv), m, asv, hit, slots)
                       ELSE InPlace(Asked(s, c, asv), m, asv, hit, slots)

EvaluateTo(c, asv, hit, m, s, t, slots) ==
  /\ m = ModelOf[c] /\ m \in Models /\ s = model[m]
  /\ Request(asv, hit, slots) /\ DOMAIN s.rawIds = {}
  /\ raw' = raw \o Tagged(m, s.evals + 1, slots)
  /\ pending' \cup cached' = (pending \ Outcome(c, asv, hit, m, s, slots).got)
       \cup (IF ThroughQueue(asv) THEN Unmatched(s, pending) ELSE cached)
  /\ config' = config /\ left' = {}
  /\ model' = [model EXCEPT ![m] = t]
  /\ client' = [client EXCEPT ![c] = [evals |-> client[c].evals + 1,
                                      ids |-> client[c].ids]]
  /\ t = Outcome(c, asv, hit, m, s, slots).state
  /\ answer' = {[client |-> c, eval |-> client[c].evals + 1,
                 response |-> Outcome(c, asv, hit, m, s, slots).response]}

LEMMA EvaluateFacts ==
  ASSUME EstimatesEvaluate, TypeInv, NEW c \in Clients, Evaluate(c)
  PROVE  \E asv, hit, m, s, t, slots : EvaluateTo(c, asv, hit, m, s, t, slots)
<1>1. PICK request \in config.requests, short \in BOOLEAN, hit \in BOOLEAN :
        LET m == ModelOf[c]
            asv == ManageAsv(config, request, short)
            slots == SlotsOf(asv, hit)
            s == Asked(model[m], c, asv)
            result == IF ThroughQueue(asv)
                        THEN Blocking(s, m, asv, hit, slots)
                        ELSE InPlace(s, m, asv, hit, slots)
        IN  /\ Requested(request, short, hit)
            /\ model[m].rawIds = None
            /\ raw' = raw \o Tagged(m, s.evals, slots)
            /\ pending' = pending \ result.got
            /\ cached' = IF ThroughQueue(asv)
                           THEN Unmatched(model[m], pending) ELSE cached
            /\ model' = [model EXCEPT ![m] = result.state]
            /\ client' = [client EXCEPT ![c].evals = @ + 1]
            /\ answer' = {[client |-> c, eval |-> client[c].evals + 1,
                           response |-> result.response]}
            /\ left' = {}
            /\ UNCHANGED <<config, aborted>>
  BY Zenon DEF Evaluate
<1> DEFINE m == ModelOf[c]
           asv == ManageAsv(config, request, short)
           slots == SlotsOf(asv, hit)
           s == model[m]
           a == Asked(s, c, asv)
           result == Outcome(c, asv, hit, m, s, slots)
           t == result.state
<1>2. m \in Models /\ Shaped(s)
  BY ModelOfAssumption DEF TypeInv
<1>3. Request(asv, hit, slots)
  BY <1>1, RequestFacts DEF TypeInv
<1>4. /\ s.rawIds = None
      /\ raw' = raw \o Tagged(m, a.evals, slots)
      /\ pending' = pending \ result.got
      /\ cached' = IF ThroughQueue(asv)
                     THEN Unmatched(s, pending) ELSE cached
      /\ model' = [model EXCEPT ![m] = t]
      /\ client' = [client EXCEPT ![c].evals = @ + 1]
      /\ answer' = {[client |-> c, eval |-> client[c].evals + 1,
                     response |-> result.response]}
      /\ left' = {} /\ config' = config
  BY <1>1 DEF Outcome
<1> HIDE DEF result
<1>5. a.evals = s.evals + 1
  <2>1. /\ a.evals = s.evals + 1 /\ a.simEvals = s.simEvals
        /\ a.simIds = s.simIds /\ a.rawIds = s.rawIds
        /\ a.numFD = s.numFD /\ a.lists = s.lists /\ a.est = s.est
        /\ a.cache = s.cache /\ a.asked = Append(s.asked, Ask(c, asv))
        /\ Shaped(a)
    <3> HIDE DEF s, asv
    <3>1. QED
      BY <1>2, AskedFields DEF Ask
  <2>2. QED
    BY <2>1
<1>6. client' = [client EXCEPT ![c] = [evals |-> client[c].evals + 1,
                                       ids |-> client[c].ids]]
  <2>1. client = [d \in Clients |->
                    [evals |-> client[d].evals, ids |-> client[d].ids]]
    BY DEF TypeInv
  <2> DEFINE z == client[c].evals + 1
             old == client[c]
  <2>2. client' = [client EXCEPT ![c] = [old EXCEPT !.evals = z]]
    BY <1>4, <2>1
  <2>3. old = [evals |-> old.evals, ids |-> old.ids]
    BY <2>1
  <2> HIDE DEF old, z
  <2>4. [old EXCEPT !.evals = z] = [evals |-> z, ids |-> old.ids]
    BY <2>3
  <2>5. QED
    BY <2>2, <2>4 DEF old, z
<1>7. DOMAIN s.rawIds = {}
  BY <1>4 DEF None
<1> HIDE DEF m, asv, slots, s, a, t
<1>8. EvaluateTo(c, asv, hit, m, s, t, slots)
  BY <1>2, <1>3, <1>4, <1>5, <1>6, <1>7 DEF EvaluateTo, result, m, s, t
<1>9. QED
  BY <1>8, Zenon

(* What it leaves of a model that has no evaluation outstanding.           *)
EvaluatedTo(c, asv, s, t, slots) ==
  /\ t.evals = s.evals + 1 /\ t.simEvals = s.simEvals + Len(slots)
  /\ DOMAIN t.simIds = {}
  /\ t.rawIds = s.rawIds /\ t.numFD = s.numFD /\ t.est = s.est
  /\ t.cache = s.cache /\ t.asked = Append(s.asked, Ask(c, asv))
  /\ Shaped(t)

LEMMA OutcomeFields ==
  ASSUME NEW c, NEW asv, NEW hit, NEW m, NEW s, NEW slots, Shaped(s),
         DOMAIN s.simIds = {}, asv.est \in BOOLEAN
  PROVE  /\ EvaluatedTo(c, asv, s, Outcome(c, asv, hit, m, s, slots).state,
                        slots)
         /\ ~(ThroughQueue(asv) /\ asv.est) =>
              Outcome(c, asv, hit, m, s, slots).state.lists = s.lists
         /\ Outcome(c, asv, hit, m, s, slots).got
              = IF ThroughQueue(asv) THEN pending \cup NewIds(slots) ELSE {}
<1> DEFINE a == Asked(s, c, asv)
           o == Outcome(c, asv, hit, m, s, slots)
<1>1. /\ a.evals = s.evals + 1 /\ a.simEvals = s.simEvals
      /\ a.simIds = s.simIds /\ a.rawIds = s.rawIds
      /\ a.numFD = s.numFD /\ a.lists = s.lists /\ a.est = s.est
      /\ a.cache = s.cache /\ a.asked = Append(s.asked, Ask(c, asv))
      /\ Shaped(a)
  BY AskedFields DEF Ask
<1>2. o = IF ThroughQueue(asv) THEN Blocking(a, m, asv, hit, slots)
                               ELSE InPlace(a, m, asv, hit, slots)
  BY DEF Outcome
<1> HIDE DEF a, o
<1>3. CASE ThroughQueue(asv)
  <2> DEFINE log == raw \o Tagged(m, a.evals, slots)
             l == Launched(a, slots)
             got == pending \cup NewIds(slots)
             u == Collected(l, got)
             resps == SimResponses(l, log, got)
             lists == Listed(a.lists, m, a.evals, config, asv,
                             Initial(asv, hit), hit)
             merge == SynchronizeDerivatives(lists, asv,
                                             Slice(resps, 0, Len(log)))
             first == Unmerged(resps[Nth(DOMAIN resps, 0)])
  <2>1. o = IF asv.est
              THEN [state |-> [u EXCEPT !.lists = merge.lists], got |-> got,
                    response |-> merge.response]
              ELSE [state |-> u, got |-> got, response |-> first]
    BY <1>2, <1>3 DEF Blocking
  <2>2. /\ l.evals = a.evals /\ l.simEvals = a.simEvals + Len(slots)
        /\ l.simIds = Inserted(a.simIds, [i \in NewIds(slots) |->
                                            a.simEvals + (i - Len(raw))])
        /\ l.rawIds = a.rawIds /\ l.numFD = a.numFD
        /\ l.lists = a.lists /\ l.est = a.est /\ l.cache = a.cache
        /\ l.asked = a.asked
        /\ Shaped(l)
    BY <1>1, LaunchedFields
  <2> HIDE DEF l
  <2>3. /\ u.evals = l.evals /\ u.simEvals = l.simEvals
        /\ u.simIds = Without(l.simIds, Matched(l, got))
        /\ u.rawIds = l.rawIds /\ u.numFD = l.numFD
        /\ u.lists = l.lists /\ u.est = l.est /\ u.cache = l.cache
        /\ u.asked = l.asked
        /\ Shaped(u)
    <3> HIDE DEF got
    <3>1. QED
      BY <2>2, CollectedFields
  <2>4. DOMAIN u.simIds = {}
    <3>1. DOMAIN l.simIds = NewIds(slots)
      BY <1>1, <2>2 DEF Inserted
    <3>2. Matched(l, got) = DOMAIN l.simIds
      BY <3>1 DEF Matched, Arrived
    <3>3. QED
      BY <2>3, <3>2 DEF Without
  <2>5. EvaluatedTo(c, asv, s, u, slots) /\ u.lists = s.lists
    BY <1>1, <2>2, <2>3, <2>4 DEF EvaluatedTo
  <2> HIDE DEF u, merge, first
  <2>6. CASE asv.est
    <3> DEFINE z == merge.lists
               v == [u EXCEPT !.lists = z]
    <3>1. o.state = v /\ o.got = got
      BY <2>1, <2>6
    <3>2. v = [u EXCEPT !.lists = z]
      OBVIOUS
    <3> HIDE DEF z, v
    <3>3. Shaped(u)
      BY <2>5 DEF EvaluatedTo
    <3>4. /\ v.evals = u.evals /\ v.simEvals = u.simEvals
          /\ v.simIds = u.simIds /\ v.rawIds = u.rawIds
          /\ v.numFD = u.numFD /\ v.est = u.est /\ v.cache = u.cache
          /\ v.asked = u.asked /\ Shaped(v)
      BY <3>2, <3>3 DEF Shaped
    <3>5. EvaluatedTo(c, asv, s, v, slots)
      BY <2>5, <3>4 DEF EvaluatedTo
    <3>6. QED
      BY <1>3, <2>6, <3>1, <3>5 DEF o
  <2>7. CASE ~asv.est
    BY <1>3, <2>1, <2>5, <2>7 DEF o
  <2>8. QED
    BY <2>6, <2>7
<1>4. CASE ~ThroughQueue(asv)
  <2> DEFINE z == a.simEvals + Len(slots)
             v == [a EXCEPT !.simEvals = z]
  <2>1. o.state = v /\ o.got = {}
    BY <1>2, <1>4 DEF InPlace
  <2>2. v = [a EXCEPT !.simEvals = z]
    OBVIOUS
  <2>3. z = s.simEvals + Len(slots)
    BY <1>1
  <2> HIDE DEF z, v
  <2>4. /\ v.evals = a.evals /\ v.simEvals = z
        /\ v.simIds = a.simIds /\ v.rawIds = a.rawIds
        /\ v.numFD = a.numFD /\ v.est = a.est /\ v.cache = a.cache
        /\ v.asked = a.asked /\ v.lists = a.lists /\ Shaped(v)
    BY <1>1, <2>2 DEF Shaped
  <2>5. EvaluatedTo(c, asv, s, v, slots) /\ v.lists = s.lists
    BY <1>1, <2>3, <2>4 DEF EvaluatedTo
  <2>6. QED
    BY <1>4, <2>1, <2>5 DEF o
<1>5. QED
  BY <1>3, <1>4

LEMMA EvaluateMaps ==
  ASSUME MapsInv, NEW c \in Clients, NEW asv, NEW hit, NEW m, NEW s, NEW t,
         NEW slots, EvaluateTo(c, asv, hit, m, s, t, slots)
  PROVE  MapsInv' /\ DOMAIN s.simIds = {} /\ DOMAIN s.numFD = {}
         /\ EvaluatedTo(c, asv, s, t, slots)
<1> DEFINE k == s.evals + 1
           a == Ask(c, asv)
           d == [evals |-> client[c].evals + 1, ids |-> client[c].ids]
           held == pending \cup cached
<1>1. /\ m = ModelOf[c] /\ m \in Models /\ s = model[m]
      /\ Request(asv, hit, slots) /\ DOMAIN s.rawIds = {}
      /\ raw' = raw \o Tagged(m, k, slots)
      /\ config' = config /\ left' = {}
      /\ model' = [model EXCEPT ![m] = t]
      /\ client' = [client EXCEPT ![c] = d]
      /\ t = Outcome(c, asv, hit, m, s, slots).state
      /\ pending' \cup cached'
           = (pending \ Outcome(c, asv, hit, m, s, slots).got)
             \cup (IF ThroughQueue(asv) THEN Unmatched(s, pending) ELSE cached)
  BY DEF EvaluateTo
<1>2. /\ slots \in Seq(Slot) /\ Len(slots) \in Nat /\ asv.est \in BOOLEAN
      /\ (IF asv.est THEN asv ELSE [est |-> FALSE]) \in AsvSet
  BY <1>1 DEF Request
<1>3. /\ raw \in Seq(TagSet) /\ StateType(s) /\ client[c].evals \in Nat
      /\ s.evals \in Nat /\ s.simEvals \in Nat /\ s.est \in BOOLEAN
      /\ s.asked \in Seq(AskSet) /\ Len(s.asked) = s.evals /\ Shaped(s)
      /\ MapsOf(m, s, raw, held)
  BY <1>1 DEF MapsInv, TypeInv, StateType
<1>4. a \in AskSet
  BY <1>2, <1>3 DEF Ask, AskSet
<1>5. DOMAIN s.numFD = {} /\ DOMAIN s.simIds = {}
  <2>1. DOMAIN s.numFD = {}
    BY <1>1, <1>3 DEF MapsOf, IdsOf
  <2>2. QED
    BY <2>1, <1>3 DEF MapsOf, SimOf
<1>6. EvaluatedTo(c, asv, s, t, slots)
  BY <1>1, <1>2, <1>3, <1>5, OutcomeFields
<1>7. pending' \cup cached' = held
  <2>1. Outcome(c, asv, hit, m, s, slots).got
          = IF ThroughQueue(asv) THEN pending \cup NewIds(slots) ELSE {}
    BY <1>2, <1>3, <1>5, OutcomeFields
  <2>2. QED
    BY <1>1, <1>5, <2>1 DEF Unmatched, Arrived
<1>8. d = [evals |-> d.evals, ids |-> d.ids] /\ d.evals \in Nat
      /\ d.ids = client[c].ids
  BY <1>3
<1>9. /\ t.evals = k /\ t.simEvals = s.simEvals + Len(slots)
      /\ DOMAIN t.simIds = {} /\ DOMAIN t.rawIds = {} /\ DOMAIN t.numFD = {}
      /\ t.cache = s.cache /\ t.asked = Append(s.asked, a)
      /\ t.est = s.est /\ Shaped(t)
  BY <1>1, <1>5, <1>6 DEF EvaluatedTo
<1> HIDE DEF a, d, held
<1>10. /\ model'[m] = t /\ \A n \in Models : n # m => model'[n] = model[n]
       /\ model' = [n \in Models |-> model'[n]]
       /\ client'[c] = d
       /\ \A e \in Clients : e # c => client'[e] = client[e]
       /\ client' = [e \in Clients |->
                       [evals |-> client'[e].evals, ids |-> client'[e].ids]]
  <2>1. /\ TypeInv /\ m \in Models /\ model' = [model EXCEPT ![m] = t]
        /\ client' = [client EXCEPT ![c] = d]
        /\ d = [evals |-> d.evals, ids |-> d.ids]
    BY <1>1, <1>8 DEF MapsInv
  <2>2. QED
    BY <2>1, OneChanges
<1>11. t.evals \in Nat /\ t.simEvals \in Nat /\ t.est \in BOOLEAN
       /\ t.asked \in Seq(AskSet) /\ Len(t.asked) = t.evals /\ k \in Nat
  <2>1. t.asked \in Seq(AskSet) /\ Len(t.asked) = Len(s.asked) + 1
    BY <1>3, <1>4, <1>9, AppendProperties
  <2>2. QED
    BY <1>2, <1>3, <1>9, <2>1
<1>12. Longer(raw', raw, Len(raw), Len(slots), m, k, slots)
  BY <1>1, <1>2, <1>3, <1>11, LongerLog
<1>13. TypeInv'
  <2>1. config' \in Configurations /\ raw' \in Seq(TagSet)
    BY <1>1, <1>12 DEF Longer, MapsInv, TypeInv
  <2>2. \A e \in Clients : client'[e].evals \in Nat
    BY <1>8, <1>10 DEF MapsInv, TypeInv
  <2>3. ASSUME NEW n \in Models
        PROVE  /\ Shaped(model'[n])
               /\ model'[n].evals \in Nat /\ model'[n].simEvals \in Nat
               /\ model'[n].est \in BOOLEAN
               /\ model'[n].asked \in Seq(AskSet)
               /\ Len(model'[n].asked) = model'[n].evals
    <3>1. CASE n = m
      BY <3>1, <1>9, <1>10, <1>11
    <3>2. CASE n # m
      BY <3>2, <1>10 DEF MapsInv, TypeInv
    <3>3. QED
      BY <3>1, <3>2
  <2>4. QED
    BY <1>10, <2>1, <2>2, <2>3 DEF TypeInv, Shaped
<1>14. ASSUME NEW n \in Models
       PROVE  MapsOf(n, model'[n], raw', pending' \cup cached')
  <2>1. MapsOf(n, model[n], raw, held)
    BY DEF MapsInv, held
  <2>2. CASE n = m
    <3>1. ASSUME NEW i \in DOMAIN raw', raw'[i].model = m
          PROVE  raw'[i].eval \in 1 .. t.evals
      <4>1. CASE i \in 1 .. Len(raw)
        <5>1. raw'[i] = raw[i] /\ i \in DOMAIN raw
          BY <4>1, <1>12 DEF Longer
        <5>2. raw[i].eval \in 1 .. s.evals
          BY <3>1, <5>1, <1>3 DEF MapsOf, SimOf
        <5>3. QED
          BY <5>1, <5>2, <1>3, <1>9
      <4>2. CASE i \notin 1 .. Len(raw)
        <5>1. i \in (Len(raw) + 1) .. (Len(raw) + Len(slots))
          BY <4>2, <1>12 DEF Longer
        <5>2. raw'[i].eval = k
          BY <5>1, <1>12 DEF Longer
        <5>3. QED
          BY <5>2, <1>3, <1>9
      <4>3. QED
        BY <4>1, <4>2
    <3> DEFINE log == raw'
    <3>2. \A i \in DOMAIN log : log[i].model = m => log[i].eval \in 1 .. t.evals
      BY <3>1
    <3> HIDE DEF log
    <3>3. MapsOf(m, t, log, held)
      BY <3>2, <1>9, EmptyMaps
    <3>4. QED
      BY <2>2, <3>3, <1>7, <1>10 DEF log
  <2>3. CASE n # m
    <3>1. \A i \in DOMAIN model[n].simIds : i \in held => i \in held
      OBVIOUS
    <3>2. MapsOf(n, model[n], raw \o Tagged(m, k, slots), held)
      <4> HIDE DEF k
      <4>1. QED
        BY <2>1, <2>3, <3>1, <1>1, <1>2, <1>3, <1>11, OtherModel
    <3>3. QED
      BY <2>3, <3>2, <1>1, <1>7, <1>10
  <2>4. QED
    BY <2>2, <2>3
<1>15. ASSUME NEW e \in Clients
       PROVE  WaitsOf(e, client'[e].ids, model'[ModelOf[e]])
  <2>1. ModelOf[e] \in Models /\ WaitsOf(e, client[e].ids, model[ModelOf[e]])
    BY ModelOfAssumption DEF MapsInv
  <2>2. client'[e].ids = client[e].ids
    BY <1>8, <1>10
  <2>3. CASE ModelOf[e] # m
    BY <2>1, <2>2, <2>3, <1>10
  <2>4. CASE ModelOf[e] = m
    <3>1. WaitsOf(e, client[e].ids, s)
      BY <2>1, <2>4, <1>1
    <3>2. DOMAIN s.numFD \subseteq DOMAIN t.numFD
      BY <1>5
    <3>3. WaitsOf(e, client[e].ids, t)
      BY <3>1, <3>2, <1>3, <1>4, <1>9, StillWaits
    <3>4. QED
      BY <2>2, <2>4, <3>3, <1>10
  <2>5. QED
    BY <2>3, <2>4
<1>16. QED
  BY <1>1, <1>5, <1>6, <1>13, <1>14, <1>15 DEF MapsInv

-----------------------------------------------------------------------------
(* The invariant and what follows from it.                                 *)
LEMMA MapsInit ==
  ASSUME Init
  PROVE  MapsInv
<1>1. /\ config \in Configurations /\ raw = <<>>
      /\ model = [m \in Models |-> Idle]
      /\ client = [c \in Clients |-> [evals |-> 0, ids |-> None]]
      /\ left = {}
  BY DEF Init
<1>2. ASSUME NEW m \in Models
      PROVE  /\ model[m] = Idle /\ Shaped(Idle)
             /\ Idle.evals = 0 /\ Idle.simEvals = 0 /\ Idle.est = FALSE
             /\ Idle.asked = <<>>
             /\ Idle.simIds = None /\ Idle.rawIds = None /\ Idle.numFD = None
  BY <1>1 DEF Idle, Shaped
<1>3. DOMAIN None = {} /\ DOMAIN raw = {}
  BY <1>1 DEF None
<1>4. TypeInv
  <2>1. raw \in Seq(TagSet)
    BY <1>1
  <2>2. model = [m \in Models |-> model[m]]
        /\ client = [c \in Clients |->
                       [evals |-> client[c].evals, ids |-> client[c].ids]]
        /\ \A c \in Clients : client[c].evals \in Nat
    BY <1>1
  <2>3. ASSUME NEW m \in Models
        PROVE  /\ Shaped(model[m])
               /\ model[m].evals \in Nat /\ model[m].simEvals \in Nat
               /\ model[m].est \in BOOLEAN
               /\ model[m].asked \in Seq(AskSet)
               /\ Len(model[m].asked) = model[m].evals
    <3>1. 0 \in Nat /\ <<>> \in Seq(AskSet) /\ Len(<<>>) = 0
          /\ FALSE \in BOOLEAN
      OBVIOUS
    <3>2. QED
      BY <1>2, <3>1, Zenon
  <2>4. QED
    BY <1>1, <2>1, <2>2, <2>3 DEF TypeInv
<1>5. ASSUME NEW m \in Models
      PROVE  MapsOf(m, model[m], raw, pending \cup cached)
  <2> DEFINE t == model[m]
             held == pending \cup cached
  <2>1. DOMAIN t.simIds = {} /\ DOMAIN t.rawIds = {} /\ DOMAIN t.numFD = {}
    BY <1>2, <1>3
  <2>2. \A i \in DOMAIN raw : raw[i].model = m => raw[i].eval \in 1 .. t.evals
    BY <1>3
  <2> HIDE DEF t, held
  <2>3. MapsOf(m, t, raw, held)
    BY <2>1, <2>2, EmptyMaps
  <2>4. QED
    BY <2>3 DEF t, held
<1>6. ASSUME NEW c \in Clients
      PROVE  WaitsOf(c, client[c].ids, model[ModelOf[c]])
  <2>1. client[c].ids = None
    BY <1>1
  <2>2. QED
    BY <2>1, <1>3 DEF WaitsOf
<1>7. QED
  BY <1>1, <1>4, <1>5, <1>6 DEF MapsInv

LEMMA MapsStep ==
  ASSUME EstimatesEvaluate, MapsInv, [Next]_vars
  PROVE  MapsInv'
<1>1. ASSUME NEW c \in Clients, EvaluateNowait(c) PROVE MapsInv'
  <2>1. PICK asv, hit, m, s, t, slots : NowaitTo(c, asv, hit, m, s, t, slots)
    BY <1>1, NowaitFacts DEF MapsInv
  <2>2. QED
    BY <2>1, NowaitMaps
<1>2. ASSUME NEW c \in Clients, Synchronize(c) PROVE MapsInv'
  BY <1>2, SynchronizeMaps
<1>3. ASSUME NEW c \in Clients, SynchronizeNowait(c) PROVE MapsInv'
  BY <1>3, SynchronizeNowaitMaps
<1>4. ASSUME NEW c \in Clients, SynchronizeNowaitAborts(c) PROVE MapsInv'
  BY <1>4 DEF SynchronizeNowaitAborts, MapsInv, TypeInv
<1>5. ASSUME NEW c \in Clients, Evaluate(c) PROVE MapsInv'
  <2>1. PICK asv, hit, m, s, t, slots : EvaluateTo(c, asv, hit, m, s, t, slots)
    BY <1>5, EvaluateFacts DEF MapsInv
  <2>2. QED
    BY <2>1, EvaluateMaps
<1>6. CASE UNCHANGED vars
  BY <1>6 DEF vars, MapsInv, TypeInv
<1>7. QED
  BY <1>1, <1>2, <1>3, <1>4, <1>5, <1>6 DEF Next

LEMMA MapsHold ==
  ASSUME EstimatesEvaluate
  PROVE  Spec => []MapsInv
<1>1. Init => MapsInv
  BY MapsInit
<1>2. MapsInv /\ [Next]_vars => MapsInv'
  BY MapsStep
<1>3. QED
  BY <1>1, <1>2, PTL DEF Spec

(* No response is lost between the levels of ids and caches: what a client *)
(* of a model waits for is in Model::cachedResponseMap, or in the maps of  *)
(* the model with all its raw evaluations queued or cached at the          *)
(* interface, whatever the clients, models and responses specifications,   *)
(* provided that every estimation makes a raw evaluation.                  *)
THEOREM ResponsesNotLost ==
  ASSUME EstimatesEvaluate
  PROVE  Spec => []NothingLost
<1>1. ASSUME MapsInv PROVE NothingLost
  <2>1. SUFFICES ASSUME NEW c \in Clients, NEW k \in DOMAIN client[c].ids
                 PROVE  Held(ModelOf[c], k)
    BY DEF NothingLost
  <2> DEFINE m == ModelOf[c]
             s == model[m]
  <2>2. /\ m \in Models /\ MapsOf(m, s, raw, pending \cup cached)
        /\ k \in DOMAIN s.cache \cup DOMAIN s.numFD
    BY <1>1, ModelOfAssumption DEF MapsInv, WaitsOf
  <2>3. CASE k \in DOMAIN s.cache
    BY <2>3 DEF Held
  <2>4. CASE k \in DOMAIN s.numFD
    <3>1. k \in {s.rawIds[r] : r \in DOMAIN s.rawIds}
      BY <2>2, <2>4 DEF MapsOf, IdsOf
    <3>2. ASSUME NEW i \in DOMAIN raw, raw[i].model = m, raw[i].eval = k
          PROVE  i \in (pending \cup cached) \cap DOMAIN s.simIds
      BY <2>2, <2>4, <3>2 DEF MapsOf, SimOf
    <3>3. QED
      BY <2>4, <3>1, <3>2 DEF Held
  <2>5. QED
    BY <2>2, <2>3, <2>4
<1>2. Spec => []MapsInv
  BY MapsHold
<1>3. QED
  BY <1>1, <1>2, PTL

(* A blocking synchronization collects the complete set of results: when   *)
(* Model::synchronize returns to a client, it waits for nothing, whoever   *)
(* else collected its raw evaluations or cached its responses before.      *)
THEOREM SynchronizationComplete ==
  ASSUME EstimatesEvaluate
  PROVE  Spec => []CompleteSet
<1>1. MapsInv => CompleteSet
  BY DEF MapsInv, CompleteSet
<1>2. Spec => []MapsInv
  BY MapsHold
<1>3. QED
  BY <1>1, <1>2, PTL
=============================================================================
