------------------------ MODULE ModelResponsesProofs ------------------------
(***************************************************************************)
(* The theorem on ModelEvaluations that a client receives responses made   *)
(* of its own raw evaluations, steps and records: the contents of the id   *)
(* maps and of the lists that carry an estimation to its merge.            *)
(***************************************************************************)
EXTENDS ModelEvaluationsProofs

-----------------------------------------------------------------------------
(* What one estimation puts on the lists, and lists put together.          *)
Entry(c, m, k, asv, hit) ==
  [sets |-> <<asv>>, initialMaps |-> <<Initial(asv, hit)>>,
   dbCaptures |-> <<hit>>,
   dbResponses |-> IF hit THEN <<Tag(m, k, X0)>> ELSE <<>>,
   deltas |-> Tagged(m, k, DeltasFrom(c, asv)[1])]
Joined(a, b) ==
  [sets |-> a.sets \o b.sets, initialMaps |-> a.initialMaps \o b.initialMaps,
   dbCaptures |-> a.dbCaptures \o b.dbCaptures,
   dbResponses |-> a.dbResponses \o b.dbResponses,
   deltas |-> a.deltas \o b.deltas]
ListsSet ==
  [sets : Seq(AsvSet), initialMaps : Seq(BOOLEAN), dbCaptures : Seq(BOOLEAN),
   dbResponses : Seq(TagSet), deltas : Seq(TagSet)]

-----------------------------------------------------------------------------
(* The inductive invariant.                                                *)
SlotsFor(c, asv, hit) ==
  IF asv.est THEN Evaluations(c, asv, Initial(asv, hit)) ELSE Plain

(* The raw evaluations of evaluation k have the ids from r on, in the      *)
(* order of the difference formulas.                                       *)
Block(m, k, s, log, r, slots) ==
  \A j \in 1 .. Len(slots) :
    \E i \in DOMAIN s.simIds :
      s.simIds[i] = r + j - 1 /\ log[i] = Tag(m, k, slots[j])

(* What is kept of the outstanding evaluation k; before and after are the  *)
(* lists from it on and behind it.                                         *)
PlanAt(c, m, s, log, k, before, after) ==
  \E hit \in BOOLEAN :
    LET asv == s.asked[k].asv
        slots == SlotsFor(c, asv, hit)
    IN  /\ IF asv.est THEN AsvOf(c, asv) /\ Separate(c, asv)
                      ELSE asv = [est |-> FALSE]
        /\ s.numFD[k] = IF asv.est THEN Len(slots) ELSE -1
        /\ \E r \in DOMAIN s.rawIds :
             s.rawIds[r] = k /\ Block(m, k, s, log, r, slots)
        /\ before = IF asv.est THEN Joined(Entry(c, m, k, asv, hit), after)
                               ELSE after

(* The lists from the first, second, ... outstanding evaluation on.        *)
PlanOf(c, m, s, log, n, q, Q) ==
  /\ Q \in [0 .. n -> ListsSet] /\ Q[n] = NoLists /\ Q[0] = s.lists
  /\ \A i \in 1 .. n : PlanAt(c, m, s, log, q[i], Q[i - 1], Q[i])
  /\ ~s.est => /\ s.lists = NoLists
               /\ \A k \in DOMAIN s.numFD : ~s.asked[k].asv.est
Planned(c, m, s, log) ==
  \E Q : PlanOf(c, m, s, log, Cardinality(DOMAIN s.numFD),
                InOrder(DOMAIN s.numFD), Q)

(* A response made for evaluation k, and the cached ones.                  *)
OwnAt(m, s, k, response) ==
  /\ response.asv = s.asked[k].asv
  /\ \A pair \in response.used : pair[2] = Tag(m, k, pair[1])
CacheOf(m, s) ==
  \A k \in DOMAIN s.cache : k \in 1 .. s.evals /\ OwnAt(m, s, k, s.cache[k])

OwnInv ==
  /\ MapsInv /\ OwnResponse
  /\ \A m \in Models :
       Planned(config, m, model[m], raw) /\ CacheOf(m, model[m])

-----------------------------------------------------------------------------
(* Sequences.                                                              *)
LEMMA TagsJoin ==
  ASSUME NEW a \in Seq(TagSet), NEW b \in Seq(TagSet)
  PROVE  /\ a \o b \in Seq(TagSet) /\ Len(a \o b) = Len(a) + Len(b)
         /\ DOMAIN (a \o b) = 1 .. (Len(a) + Len(b))
         /\ \A i \in 1 .. Len(a) : (a \o b)[i] = a[i]
         /\ \A i \in 1 .. Len(b) : (a \o b)[Len(a) + i] = b[i]
         /\ a \o <<>> = a /\ <<>> \o a = a
OBVIOUS

LEMMA TagsAssociate ==
  ASSUME NEW a \in Seq(TagSet), NEW b \in Seq(TagSet), NEW d \in Seq(TagSet)
  PROVE  (a \o b) \o d = a \o (b \o d)
BY ConcatAssociative

LEMMA SlotsJoin ==
  ASSUME NEW a \in Seq(Slot), NEW b \in Seq(Slot)
  PROVE  /\ a \o b \in Seq(Slot) /\ Len(a \o b) = Len(a) + Len(b)
         /\ DOMAIN (a \o b) = 1 .. (Len(a) + Len(b))
         /\ \A i \in 1 .. Len(a) : (a \o b)[i] = a[i]
         /\ \A i \in 1 .. Len(b) : (a \o b)[Len(a) + i] = b[i]
         /\ a \o <<>> = a /\ <<>> \o a = a
OBVIOUS

(* What is left behind a part that is taken from the front.                *)
LEMMA RestJoin ==
  ASSUME NEW a \in Seq(TagSet), NEW b \in Seq(TagSet)
  PROVE  Rest(a \o b, Len(a)) = b
<1> DEFINE s == a \o b
           t == Rest(s, Len(a))
           x == Len(a) + 1
           y == Len(a) + Len(b)
<1>1. /\ s \in Seq(TagSet) /\ Len(s) = y /\ Len(a) \in Nat /\ Len(b) \in Nat
      /\ \A i \in 1 .. Len(b) : s[Len(a) + i] = b[i]
  BY TagsJoin
<1>2. t = SubSeq(s, x, y)
  BY <1>1 DEF Rest
<1> HIDE DEF s, t
<1>3. \A i \in x .. y : s[i] \in TagSet
  <2>1. \A i \in x .. y : i \in 1 .. Len(s)
    BY <1>1
  <2>2. QED
    BY <1>1, <2>1, ElementOfSeq
<1>4. /\ t \in Seq(TagSet)
      /\ Len(t) = IF x <= y THEN y - x + 1 ELSE 0
      /\ \A i \in 1 .. (y - x + 1) : t[i] = s[x + i - 1]
  BY <1>1, <1>2, <1>3, SubSeqProperties
<1>5. Len(t) = Len(b) /\ y - x + 1 = Len(b)
  BY <1>1, <1>4
<1>6. ASSUME NEW i \in 1 .. Len(b) PROVE t[i] = b[i]
  <2>1. t[i] = s[x + i - 1] /\ x + i - 1 = Len(a) + i
    BY <1>1, <1>4, <1>5
  <2>2. QED
    BY <2>1, <1>1
<1>7. t = b
  BY <1>4, <1>5, <1>6, SeqEqual
<1>8. QED
  BY <1>7 DEF t, s

LEMMA TaggedJoin ==
  ASSUME NEW m \in Models, NEW k \in Nat, NEW a \in Seq(Slot),
         NEW b \in Seq(Slot)
  PROVE  /\ Tagged(m, k, a \o b) = Tagged(m, k, a) \o Tagged(m, k, b)
         /\ Tagged(m, k, <<>>) = <<>>
<1> DEFINE p == Tagged(m, k, a)
           q == Tagged(m, k, b)
           t == Tagged(m, k, a \o b)
<1>1. /\ p \in Seq(TagSet) /\ Len(p) = Len(a)
      /\ \A i \in 1 .. Len(a) : p[i] = Tag(m, k, a[i])
  BY TaggedType
<1>2. /\ q \in Seq(TagSet) /\ Len(q) = Len(b)
      /\ \A i \in 1 .. Len(b) : q[i] = Tag(m, k, b[i])
  BY TaggedType
<1>3. /\ a \o b \in Seq(Slot) /\ Len(a \o b) = Len(a) + Len(b)
      /\ \A i \in 1 .. Len(a) : (a \o b)[i] = a[i]
      /\ \A i \in 1 .. Len(b) : (a \o b)[Len(a) + i] = b[i]
      /\ Len(a) \in Nat /\ Len(b) \in Nat
  BY SlotsJoin
<1>4. /\ t \in Seq(TagSet) /\ Len(t) = Len(a) + Len(b)
      /\ \A i \in 1 .. (Len(a) + Len(b)) : t[i] = Tag(m, k, (a \o b)[i])
  <2> DEFINE d == a \o b
  <2>1. d \in Seq(Slot) /\ Len(d) = Len(a) + Len(b)
    BY <1>3
  <2> HIDE DEF d
  <2>2. /\ Tagged(m, k, d) \in Seq(TagSet) /\ Len(Tagged(m, k, d)) = Len(d)
        /\ \A i \in 1 .. Len(d) : Tagged(m, k, d)[i] = Tag(m, k, d[i])
    BY <2>1, TaggedType
  <2>3. QED
    BY <2>1, <2>2 DEF d
<1> HIDE DEF p, q, t
<1>5. /\ p \o q \in Seq(TagSet) /\ Len(p \o q) = Len(p) + Len(q)
      /\ \A i \in 1 .. Len(p) : (p \o q)[i] = p[i]
      /\ \A i \in 1 .. Len(q) : (p \o q)[Len(p) + i] = q[i]
  BY <1>1, <1>2, TagsJoin
<1>6. ASSUME NEW i \in 1 .. Len(t) PROVE t[i] = (p \o q)[i]
  <2>1. CASE i <= Len(a)
    <3>1. i \in 1 .. Len(a) /\ i \in 1 .. (Len(a) + Len(b))
      BY <2>1, <1>3, <1>4
    <3>2. t[i] = Tag(m, k, a[i])
      BY <3>1, <1>3, <1>4
    <3>3. (p \o q)[i] = p[i]
      BY <3>1, <1>1, <1>5
    <3>4. QED
      BY <3>1, <3>2, <3>3, <1>1
  <2>2. CASE i > Len(a)
    <3> DEFINE j == i - Len(a)
    <3>1. j \in 1 .. Len(b) /\ i = Len(a) + j
      BY <2>2, <1>3, <1>4
    <3> HIDE DEF j
    <3>2. t[i] = Tag(m, k, b[j])
      BY <3>1, <1>3, <1>4
    <3>3. (p \o q)[i] = q[j]
      BY <3>1, <1>1, <1>2, <1>5
    <3>4. QED
      BY <3>1, <3>2, <3>3, <1>2
  <2>3. i <= Len(a) \/ i > Len(a)
    <3>1. i \in Int /\ Len(a) \in Int
      BY <1>3, <1>4
    <3>2. QED
      BY <3>1
  <2>4. QED
    BY <2>1, <2>2, <2>3
<1>7. t = p \o q
  BY <1>1, <1>2, <1>4, <1>5, <1>6, SeqEqual
<1>8. Tagged(m, k, <<>>) = <<>>
  <2> DEFINE e == Tagged(m, k, <<>>)
  <2>1. e \in Seq(TagSet) /\ Len(e) = 0
    <3>1. <<>> \in Seq(Slot) /\ Len(<<>>) = 0
      OBVIOUS
    <3>2. QED
      BY <3>1, TaggedType
  <2> HIDE DEF e
  <2>2. e = <<>>
    BY <2>1, EmptySeq
  <2>3. QED
    BY <2>2 DEF e
<1>9. QED
  BY <1>7, <1>8 DEF t, p, q

(* A pairing in which everything gets what it wants.                       *)
OwnPairs(m, k, U) == \A pair \in U : pair[2] = Tag(m, k, pair[1])

LEMMA PairedOwn ==
  ASSUME NEW m \in Models, NEW k \in Nat, NEW a \in Seq(Slot),
         NEW b \in Seq(TagSet)
  PROVE  OwnPairs(m, k, Paired(a, Tagged(m, k, a) \o b))
<1> DEFINE p == Tagged(m, k, a)
           s == p \o b
<1>1. /\ p \in Seq(TagSet) /\ Len(p) = Len(a)
      /\ \A i \in 1 .. Len(a) : p[i] = Tag(m, k, a[i])
      /\ DOMAIN a = 1 .. Len(a) /\ Len(a) \in Nat
  BY TaggedType
<1> HIDE DEF p
<1>2. /\ DOMAIN s = 1 .. (Len(p) + Len(b)) /\ Len(b) \in Nat
      /\ \A i \in 1 .. Len(p) : s[i] = p[i]
  <2>1. p \in Seq(TagSet)
    BY <1>1
  <2>2. QED
    BY <2>1
<1> HIDE DEF s
<1>3. ASSUME NEW i \in DOMAIN a PROVE i \in DOMAIN s /\ s[i] = Tag(m, k, a[i])
  BY <1>1, <1>2
<1>4. Paired(a, s) = {<<a[i], Tag(m, k, a[i])>> : i \in DOMAIN a}
  BY <1>3 DEF Paired
<1>5. OwnPairs(m, k, Paired(a, s))
  BY <1>4 DEF OwnPairs
<1>6. QED
  BY <1>5 DEF s, p

-----------------------------------------------------------------------------
(* The walk of synchronize_derivatives over the variables.                 *)

(* The walk is where the steps D and the evaluations E of its own          *)
(* estimation are still ahead, with the steps of others behind them.       *)
WalkAt(m, k, w, D, E, tail) ==
  /\ w.deltas = Tagged(m, k, D) \o tail /\ w.resps = Tagged(m, k, E)
  /\ OwnPairs(m, k, w.used)

LEMMA NoSlots ==
  ASSUME NEW kind \in {"g", "h"}, NEW j \in Nat
  PROVE  Slots(kind, j, 0) = <<>>
<1> DEFINE s == Slots(kind, j, 0)
<1>1. s \in Seq(Slot) /\ Len(s) = 0
  BY SlotsFacts
<1> HIDE DEF s
<1>2. s = <<>>
  BY <1>1, EmptySeq
<1>3. QED
  BY <1>2 DEF s

(* The test on the step at the front finds the fixed variables.            *)
FixedTest(asv, w) ==
  asv.grad /\ w.deltas # <<>> /\ Head(w.deltas).slot[1] = "zero"

LEMMA FixedFound ==
  ASSUME NEW c \in Configurations, NEW asv, AsvOf(c, asv),
         NEW m \in Models, NEW k \in Nat, NEW j \in 1 .. c.vars,
         NEW D \in Seq(Slot), NEW E \in Seq(Slot), NEW tail \in Seq(TagSet),
         NEW w, WalkAt(m, k, w, DeltasAt(c, asv, j) \o D, E, tail)
  PROVE  FixedTest(asv, w) <=> (asv.grad /\ j \in c.fixed)
<1> DEFINE d == DeltasAt(c, asv, j)
           front == d \o D
           all == Tagged(m, k, front) \o tail
<1>1. w.deltas = all
  BY DEF WalkAt
<1>2. d \in Seq(Slot) /\ j \in Nat
  BY AtFacts, ConfigurationFacts
<1>3. asv.grad => Len(d) >= 1
                  /\ d[1][1] = IF j \in c.fixed THEN "zero" ELSE "g"
  <2>1. CASE asv.grad /\ j \in c.fixed
    <3>1. d = <<Zero(j)>>
      BY <2>1 DEF DeltasAt
    <3>2. QED
      BY <2>1, <3>1 DEF Zero
  <2>2. CASE asv.grad /\ j \notin c.fixed
    <3> DEFINE n == GradCount(c)
               g == Slots("g", j, n)
               h == Slots("h", j, HessDeltas(c, asv))
    <3>1. d = g \o h
      BY <2>2 DEF DeltasAt
    <3>2. n \in 1 .. 2 /\ HessDeltas(c, asv) \in Nat
      BY CountFacts
    <3>3. /\ g \in Seq(Slot) /\ Len(g) = n /\ h \in Seq(Slot)
          /\ \A i \in 1 .. n : g[i] = <<"g", j, i>>
      <4>1. n \in Nat
        BY <3>2
      <4> HIDE DEF n
      <4>2. g \in Seq(Slot) /\ Len(g) = n
            /\ \A i \in 1 .. n : g[i] = <<"g", j, i>>
        BY <1>2, <4>1, SlotsFacts
      <4>3. h \in Seq(Slot)
        BY <1>2, <3>2, SlotsFacts
      <4>4. QED
        BY <4>2, <4>3
    <3> HIDE DEF n, g, h
    <3>4. Len(d) = n + Len(h) /\ Len(h) \in Nat /\ d[1] = g[1]
          /\ g[1] = <<"g", j, 1>>
      <4>1. 1 \in 1 .. n
        BY <3>2
      <4>2. QED
        BY <4>1, <3>1, <3>3, SlotsJoin
    <3>5. QED
      BY <2>2, <3>2, <3>4
  <2>3. QED
    BY <2>1, <2>2
<1> HIDE DEF d
<1>4. front \in Seq(Slot) /\ Len(front) = Len(d) + Len(D) /\ Len(d) \in Nat
      /\ Len(D) \in Nat /\ \A i \in 1 .. Len(d) : front[i] = d[i]
  BY <1>2, SlotsJoin
<1> HIDE DEF front
<1>5. asv.grad => all # <<>> /\ Head(all) = Tag(m, k, d[1])
  <2>1. SUFFICES ASSUME asv.grad PROVE all # <<>> /\ Head(all) = Tag(m, k, d[1])
    OBVIOUS
  <2>2. 1 \in 1 .. Len(d) /\ 1 \in 1 .. Len(front) /\ front[1] = d[1]
    BY <2>1, <1>3, <1>4
  <2> DEFINE p == Tagged(m, k, front)
  <2>3. p \in Seq(TagSet) /\ Len(p) = Len(front) /\ p[1] = Tag(m, k, front[1])
    BY <1>4, <2>2, TaggedType
  <2> HIDE DEF p
  <2>4. Len(p \o tail) = Len(p) + Len(tail) /\ (p \o tail)[1] = p[1]
        /\ p \o tail \in Seq(TagSet)
    <3>1. 1 \in 1 .. Len(p) /\ p \in Seq(TagSet)
      BY <2>2, <2>3
    <3>2. QED
      BY <3>1
  <2>5. p \o tail # <<>>
    BY <2>2, <2>3, <2>4
  <2>6. QED
    BY <2>2, <2>3, <2>4, <2>5 DEF p
<1>6. Tag(m, k, d[1]).slot = d[1]
  BY DEF Tag
<1> HIDE DEF all
<1>7. QED
  BY <1>1, <1>3, <1>5, <1>6 DEF FixedTest

LEMMA MergeAtStep ==
  ASSUME NEW c \in Configurations, NEW asv, AsvOf(c, asv), Separate(c, asv),
         NEW m \in Models, NEW k \in Nat, NEW j \in 1 .. c.vars,
         NEW D \in Seq(Slot), NEW E \in Seq(Slot), NEW tail \in Seq(TagSet),
         NEW w, WalkAt(m, k, w, DeltasAt(c, asv, j) \o D,
                       EvalsAt(c, asv, j) \o E, tail)
  PROVE  WalkAt(m, k, MergeAt(c, asv, w, j), D, E, tail)
<1> DEFINE fixed == FixedTest(asv, w)
           grads == Slots("g", j, IF asv.grad /\ ~fixed THEN GradCount(c)
                                                        ELSE 0)
           hd == Slots("h", j, HessDeltas(c, asv))
           he == Slots("h", j, HessEvals(c, asv, j))
           steps == (IF fixed THEN <<Zero(j)>> ELSE grads) \o hd
           resps == grads \o he
           d == DeltasAt(c, asv, j)
           e == EvalsAt(c, asv, j)
<1>0. j \in Nat /\ d \in Seq(Slot) /\ e \in Seq(Slot)
  BY AtFacts, ConfigurationFacts
<1>1. MergeAt(c, asv, w, j)
        = [deltas |-> Rest(w.deltas, Len(steps)),
           resps |-> Rest(w.resps, Len(resps)),
           used |-> w.used \cup Paired(steps, w.deltas)
                           \cup Paired(resps, w.resps)]
  BY DEF MergeAt, FixedTest
<1>2. fixed <=> (asv.grad /\ j \in c.fixed)
  <2> DEFINE f == e \o E
  <2>1. f \in Seq(Slot) /\ WalkAt(m, k, w, d \o D, f, tail)
    BY <1>0, SlotsJoin
  <2> HIDE DEF f, fixed
  <2>2. FixedTest(asv, w) <=> (asv.grad /\ j \in c.fixed)
    BY <2>1, FixedFound
  <2>3. QED
    BY <2>2 DEF fixed
<1>3. steps = d /\ resps = e
  <2>1. CASE asv.grad /\ j \in c.fixed
    <3>1. asv.hess = 0
      BY <2>1 DEF Separate
    <3>2. HessDeltas(c, asv) = 0 /\ HessEvals(c, asv, j) = 0
      BY <3>1, CountFacts
    <3>3. grads = <<>> /\ hd = <<>> /\ he = <<>>
      BY <1>0, <1>2, <2>1, <3>2, NoSlots
    <3>4. <<Zero(j)>> \in Seq(Slot) /\ <<>> \in Seq(Slot)
      BY <1>0 DEF Zero, Slot
    <3>5. <<Zero(j)>> \o <<>> = <<Zero(j)>> /\ <<>> \o <<>> = <<>>
      BY <3>4, SlotsJoin
    <3>6. d = <<Zero(j)>> /\ e = <<>>
      BY <2>1 DEF DeltasAt, EvalsAt
    <3>7. fixed
      BY <2>1, <1>2
    <3> HIDE DEF fixed, grads, hd, he, d, e
    <3>8. QED
      BY <3>3, <3>5, <3>6, <3>7
  <2>2. CASE ~(asv.grad /\ j \in c.fixed)
    <3>1. ~fixed
      BY <2>2, <1>2
    <3>2. grads = Slots("g", j, IF asv.grad THEN GradCount(c) ELSE 0)
      BY <3>1
    <3>3. d = grads \o hd /\ e = grads \o he
      BY <2>2, <3>2 DEF DeltasAt, EvalsAt
    <3> HIDE DEF fixed, grads, hd, he, d, e
    <3>4. QED
      BY <3>1, <3>3
  <2>3. QED
    BY <2>1, <2>2
<1> HIDE DEF steps, resps, d, e
<1>4. /\ w.deltas = Tagged(m, k, d \o D) \o tail
      /\ w.resps = Tagged(m, k, e \o E) /\ OwnPairs(m, k, w.used)
  BY DEF WalkAt, d, e
<1> DEFINE td == Tagged(m, k, d)
           tD == Tagged(m, k, D)
           te == Tagged(m, k, e)
           tE == Tagged(m, k, E)
<1>5. /\ Tagged(m, k, d \o D) = td \o tD /\ Tagged(m, k, e \o E) = te \o tE
  BY <1>0, TaggedJoin
<1>6. /\ td \in Seq(TagSet) /\ tD \in Seq(TagSet) /\ te \in Seq(TagSet)
      /\ tE \in Seq(TagSet) /\ Len(td) = Len(d) /\ Len(te) = Len(e)
  BY <1>0, TaggedType
<1>7. OwnPairs(m, k, Paired(d, td \o (tD \o tail)))
      /\ OwnPairs(m, k, Paired(e, te \o tE))
  <2> DEFINE x == tD \o tail
  <2>1. x \in Seq(TagSet)
    BY <1>6, TagsJoin
  <2>2. tE \in Seq(TagSet)
    BY <1>6
  <2> HIDE DEF x, tE
  <2>3. OwnPairs(m, k, Paired(d, td \o x))
    BY <1>0, <2>1, PairedOwn
  <2>4. OwnPairs(m, k, Paired(e, te \o tE))
    BY <1>0, <2>2, PairedOwn
  <2> HIDE DEF td, te, tD
  <2>5. QED
    BY <2>3, <2>4 DEF x
<1> HIDE DEF td, tD, te, tE
<1>8. w.deltas = td \o (tD \o tail) /\ w.resps = te \o tE
  <2>1. (td \o tD) \o tail = td \o (tD \o tail)
    BY <1>6, TagsAssociate
  <2>2. QED
    BY <1>4, <1>5, <2>1, Zenon
<1>9. Rest(w.deltas, Len(d)) = tD \o tail /\ Rest(w.resps, Len(e)) = tE
  <2> DEFINE x == tD \o tail
  <2>1. x \in Seq(TagSet)
    BY <1>6, TagsJoin
  <2> HIDE DEF x
  <2>2. Rest(td \o x, Len(td)) = x /\ Rest(te \o tE, Len(te)) = tE
    BY <1>6, <2>1, RestJoin
  <2>3. w.deltas = td \o x
    BY <1>8 DEF x
  <2>4. QED
    BY <1>6, <1>8, <2>2, <2>3 DEF x
<1> DEFINE pd == Paired(d, w.deltas)
           pe == Paired(e, w.resps)
<1>10. OwnPairs(m, k, pd) /\ OwnPairs(m, k, pe)
  BY <1>7, <1>8
<1>11. /\ MergeAt(c, asv, w, j).deltas = tD \o tail
       /\ MergeAt(c, asv, w, j).resps = tE
       /\ MergeAt(c, asv, w, j).used = w.used \cup pd \cup pe
  BY <1>1, <1>3, <1>9
<1> HIDE DEF pd, pe
<1>12. OwnPairs(m, k, w.used \cup pd \cup pe)
  BY <1>4, <1>10 DEF OwnPairs
<1>13. QED
  BY <1>11, <1>12 DEF WalkAt, tD, tE

LEMMA MergeWalkFacts ==
  ASSUME NEW c, c.vars \in Nat, NEW asv, NEW start
  PROVE  /\ MergeWalk(c, asv, start)[0] = start
         /\ \A j \in 1 .. c.vars :
              MergeWalk(c, asv, start)[j]
                = MergeAt(c, asv, MergeWalk(c, asv, start)[j - 1], j)
<1> DEFINE n == c.vars
           Walks(f, i) == f = [j \in 0 .. i |->
                                 IF j = 0 THEN start
                                          ELSE MergeAt(c, asv, f[j - 1], j)]
           S == {i \in 0 .. n : \E f : Walks(f, i)}
<1>1. n \in Nat /\ 0 \in 0 .. n /\ n \in 0 .. n
  OBVIOUS
<1>2. MergeWalk(c, asv, start) = CHOOSE f : Walks(f, n)
  BY DEF MergeWalk
<1> HIDE DEF n
<1>3. 0 \in S
  <2> DEFINE f == [j \in 0 .. 0 |-> start]
  <2>1. \A j \in 0 .. 0 : j = 0
    OBVIOUS
  <2>2. Walks(f, 0)
    BY <2>1
  <2> HIDE DEF Walks, f
  <2>3. QED
    BY <1>1, <2>2
<1>4. ASSUME NEW i \in 0 .. (n - 1), i \in S PROVE i + 1 \in S
  <2>1. PICK f : Walks(f, i)
    BY <1>4
  <2> DEFINE g == [j \in 0 .. (i + 1) |->
                     IF j = i + 1 THEN MergeAt(c, asv, f[i], i + 1) ELSE f[j]]
  <2>2. i \in Nat /\ i + 1 \in 0 .. n
    BY <1>1
  <2>3. ASSUME NEW j \in 0 .. (i + 1)
        PROVE  g[j] = IF j = 0 THEN start ELSE MergeAt(c, asv, g[j - 1], j)
    <3>1. CASE j = i + 1
      <4>1. i \in 0 .. (i + 1) /\ i # i + 1 /\ j # 0 /\ j - 1 = i
        BY <2>2, <3>1
      <4>2. g[j - 1] = f[i] /\ g[j] = MergeAt(c, asv, f[i], j)
        BY <3>1, <4>1
      <4> HIDE DEF g
      <4>3. QED
        BY <4>1, <4>2
    <3>2. CASE j = 0
      <4>1. 0 \in 0 .. i /\ j # i + 1
        BY <2>2, <3>2
      <4>2. f[0] = start
        BY <2>1, <4>1
      <4>3. g[j] = f[j]
        BY <4>1
      <4> HIDE DEF g
      <4>4. QED
        BY <3>2, <4>2, <4>3
    <3>3. CASE j # i + 1 /\ j # 0
      <4>1. j \in 0 .. i /\ j - 1 \in 0 .. (i + 1) /\ j - 1 # i + 1
        BY <2>2, <3>3
      <4>2. f[j] = MergeAt(c, asv, f[j - 1], j)
        BY <2>1, <3>3, <4>1
      <4>3. g[j] = f[j] /\ g[j - 1] = f[j - 1]
        BY <3>3, <4>1
      <4> HIDE DEF g
      <4>4. QED
        BY <3>3, <4>2, <4>3
    <3>4. QED
      BY <3>1, <3>2, <3>3
  <2>4. g = [j \in 0 .. (i + 1) |-> g[j]]
    OBVIOUS
  <2> HIDE DEF g
  <2>5. Walks(g, i + 1)
    BY <2>3, <2>4
  <2> HIDE DEF Walks
  <2>6. QED
    BY <2>2, <2>5
<1>5. n \in S
  <2> HIDE DEF S
  <2>1. QED
    BY <1>1, <1>3, <1>4, UpTo
<1>6. PICK f : Walks(f, n)
  BY <1>5
<1> DEFINE w == MergeWalk(c, asv, start)
<1>7. Walks(w, n)
  <2> HIDE DEF Walks
  <2>1. QED
    BY <1>2, <1>6, Zenon
<1> HIDE DEF w
<1>8. w[0] = start
  BY <1>1, <1>7
<1>9. ASSUME NEW j \in 1 .. n PROVE w[j] = MergeAt(c, asv, w[j - 1], j)
  <2>1. j \in 0 .. n /\ j # 0
    BY <1>1
  <2>2. QED
    BY <2>1, <1>7
<1>10. QED
  BY <1>8, <1>9 DEF w, n

(* At its end the walk has used up its own steps and evaluations.          *)
LEMMA MergeWalkEnd ==
  ASSUME NEW c \in Configurations, NEW asv, AsvOf(c, asv), Separate(c, asv),
         NEW m \in Models, NEW k \in Nat, NEW tail \in Seq(TagSet),
         NEW start,
         WalkAt(m, k, start, DeltasFrom(c, asv)[1], EvalsFrom(c, asv)[1], tail)
  PROVE  WalkAt(m, k, MergeWalk(c, asv, start)[c.vars], <<>>, <<>>, tail)
<1> DEFINE n == c.vars
           w == MergeWalk(c, asv, start)
           D == DeltasFrom(c, asv)
           E == EvalsFrom(c, asv)
           S == {j \in 0 .. n : WalkAt(m, k, w[j], D[j + 1], E[j + 1], tail)}
<1>1. n \in Nat
  BY ConfigurationFacts
<1>2. w[0] = start /\ \A j \in 1 .. n : w[j] = MergeAt(c, asv, w[j - 1], j)
  BY <1>1, MergeWalkFacts
<1>3. /\ D \in [1 .. (n + 1) -> Seq(Slot)] /\ D[n + 1] = <<>>
      /\ \A j \in 1 .. n : D[j] = DeltasAt(c, asv, j) \o D[j + 1]
  BY DeltasFromFacts
<1>4. /\ E \in [1 .. (n + 1) -> Seq(Slot)] /\ E[n + 1] = <<>>
      /\ \A j \in 1 .. n : E[j] = EvalsAt(c, asv, j) \o E[j + 1]
  BY EvalsFromFacts
<1>5. WalkAt(m, k, w[0], D[1], E[1], tail)
  BY <1>2
<1>a. \A j \in 1 .. n : j \in 1 .. c.vars
  OBVIOUS
<1> HIDE DEF n, w, D, E
<1>6. 0 \in S
  <2>1. 0 \in 0 .. n /\ 0 + 1 = 1
    BY <1>1
  <2>2. QED
    BY <1>5, <2>1
<1>7. ASSUME NEW i \in 0 .. (n - 1), i \in S PROVE i + 1 \in S
  <2> DEFINE j == i + 1
  <2>1. j \in 1 .. n /\ j \in 0 .. n /\ j - 1 = i /\ j \in 1 .. (n + 1)
        /\ j + 1 \in 1 .. (n + 1)
    BY <1>1
  <2>2. WalkAt(m, k, w[j - 1], D[j], E[j], tail)
    BY <1>7, <2>1
  <2> HIDE DEF j
  <2>3. /\ D[j] = DeltasAt(c, asv, j) \o D[j + 1]
        /\ E[j] = EvalsAt(c, asv, j) \o E[j + 1]
        /\ D[j + 1] \in Seq(Slot) /\ E[j + 1] \in Seq(Slot)
        /\ w[j] = MergeAt(c, asv, w[j - 1], j)
        /\ j \in 1 .. c.vars
    BY <1>2, <1>3, <1>4, <1>a, <2>1
  <2> DEFINE d == D[j + 1]
             e == E[j + 1]
             v == w[j - 1]
  <2>4. /\ d \in Seq(Slot) /\ e \in Seq(Slot)
        /\ WalkAt(m, k, v, DeltasAt(c, asv, j) \o d, EvalsAt(c, asv, j) \o e,
                  tail)
    BY <2>2, <2>3
  <2>5. j \in 1 .. c.vars
    BY <2>3
  <2> HIDE DEF d, e, v
  <2>6. WalkAt(m, k, MergeAt(c, asv, v, j), d, e, tail)
    BY <2>4, <2>5, MergeAtStep
  <2>7. WalkAt(m, k, w[j], D[j + 1], E[j + 1], tail)
    BY <2>3, <2>6 DEF d, e, v
  <2>8. QED
    BY <2>1, <2>7 DEF j
<1>8. n \in S
  <2>1. n \in 0 .. n
    BY <1>1
  <2> HIDE DEF S
  <2>2. QED
    BY <1>1, <1>6, <1>7, <2>1, UpTo
<1>9. WalkAt(m, k, w[n], D[n + 1], E[n + 1], tail)
  BY <1>8
<1>10. QED
  BY <1>3, <1>4, <1>9 DEF n, w

-----------------------------------------------------------------------------
(* The lists that carry an estimation to its merge.                        *)
LEMMA FrontFacts ==
  ASSUME NEW T, NEW x \in T, NEW s \in Seq(T)
  PROVE  /\ <<x>> \o s \in Seq(T) /\ Head(<<x>> \o s) = x
         /\ Tail(<<x>> \o s) = s
<1> DEFINE t == <<x>> \o s
<1>1. t \in Seq(T) /\ Len(t) = 1 + Len(s) /\ t[1] = x /\ t # <<>>
      /\ \A i \in 1 .. Len(s) : t[i + 1] = s[i]
  OBVIOUS
<1>2. Head(t) = x
  BY <1>1
<1>3. Tail(t) \in Seq(T) /\ Len(Tail(t)) = Len(t) - 1
      /\ \A i \in 1 .. Len(Tail(t)) : Tail(t)[i] = t[i + 1]
  <2> HIDE DEF t
  <2>1. QED
    BY <1>1, HeadTailProperties
<1> HIDE DEF t
<1>4. Len(Tail(t)) = Len(s)
  BY <1>1, <1>3
<1>5. Tail(t) = s
  BY <1>1, <1>3, <1>4, SeqEqual
<1>6. QED
  BY <1>1, <1>2, <1>5 DEF t

LEMMA BoolFront ==
  ASSUME NEW x \in BOOLEAN, NEW s \in Seq(BOOLEAN)
  PROVE  /\ <<x>> \o s \in Seq(BOOLEAN) /\ Head(<<x>> \o s) = x
         /\ Tail(<<x>> \o s) = s
BY FrontFacts, Zenon

LEMMA TagFront ==
  ASSUME NEW x \in TagSet, NEW s \in Seq(TagSet)
  PROVE  /\ <<x>> \o s \in Seq(TagSet) /\ Head(<<x>> \o s) = x
         /\ Tail(<<x>> \o s) = s
BY FrontFacts, Zenon

LEMMA AsvFront ==
  ASSUME NEW x \in AsvSet, NEW s \in Seq(AsvSet)
  PROVE  /\ <<x>> \o s \in Seq(AsvSet) /\ Head(<<x>> \o s) = x
         /\ Tail(<<x>> \o s) = s
BY FrontFacts, Zenon

(* The lists l begin with what estimation k put there, before tail.        *)
Begins(c, m, k, asv, hit, l, tail) ==
  /\ l.initialMaps = <<Initial(asv, hit)>> \o tail.initialMaps
  /\ l.dbCaptures = <<hit>> \o tail.dbCaptures
  /\ l.dbResponses = (IF hit THEN <<Tag(m, k, X0)>> ELSE <<>>)
                     \o tail.dbResponses
  /\ l.deltas = Tagged(m, k, DeltasFrom(c, asv)[1]) \o tail.deltas

(* synchronize_derivatives gives a response of its own and takes what was  *)
(* its own from the lists.                                                 *)
Merges(m, k, asv, l, tail, y) ==
  /\ y.response.asv = asv /\ OwnPairs(m, k, y.response.used)
  /\ y.lists = [sets |-> l.sets, initialMaps |-> tail.initialMaps,
                dbCaptures |-> tail.dbCaptures,
                dbResponses |-> tail.dbResponses, deltas |-> tail.deltas]

LEMMA MergeOne ==
  ASSUME config \in Configurations, NEW asv, AsvOf(config, asv),
         Separate(config, asv), NEW hit \in BOOLEAN, NEW m \in Models,
         NEW k \in Nat, NEW tail \in ListsSet, NEW l,
         Begins(config, m, k, asv, hit, l, tail)
  PROVE  Merges(m, k, asv, l, tail,
                SynchronizeDerivatives(l, asv,
                  Tagged(m, k, Evaluations(config, asv, Initial(asv, hit)))))
<1> DEFINE c == config
           initial == Initial(asv, hit)
           slots == Evaluations(c, asv, initial)
           resps == Tagged(m, k, slots)
           first == AtX0(l, resps)
           E1 == EvalsFrom(c, asv)[1]
           D1 == DeltasFrom(c, asv)[1]
           start == [deltas |-> l.deltas,
                     resps |-> IF Head(l.initialMaps) THEN Rest(resps, 1)
                                                      ELSE resps,
                     used |-> first]
           end == MergeWalk(c, asv, start)[c.vars]
           y == SynchronizeDerivatives(l, asv, resps)
<1>1. /\ tail.initialMaps \in Seq(BOOLEAN) /\ tail.dbCaptures \in Seq(BOOLEAN)
      /\ tail.dbResponses \in Seq(TagSet) /\ tail.deltas \in Seq(TagSet)
  BY DEF ListsSet
<1>2. /\ l.initialMaps = <<initial>> \o tail.initialMaps
      /\ l.dbCaptures = <<hit>> \o tail.dbCaptures
      /\ l.dbResponses = (IF hit THEN <<Tag(m, k, X0)>> ELSE <<>>)
                         \o tail.dbResponses
      /\ l.deltas = Tagged(m, k, D1) \o tail.deltas
  BY DEF Begins
<1>3. initial \in BOOLEAN /\ X0 \in Slot /\ Tag(m, k, X0) \in TagSet
  BY DEF Initial, X0, Slot, Tag, TagSet
<1>4. E1 \in Seq(Slot) /\ D1 \in Seq(Slot)
  BY EvalsFromFacts, DeltasFromFacts, ConfigurationFacts
<1>5. slots = (IF initial THEN <<X0>> ELSE <<>>) \o E1
  BY DEF Evaluations
<1>6. y = [response |-> [asv |-> asv, used |-> end.used],
           lists |-> [sets |-> l.sets,
                      initialMaps |-> Tail(l.initialMaps),
                      dbCaptures |-> Tail(l.dbCaptures),
                      dbResponses |-> CapturesLeft(l),
                      deltas |-> end.deltas]]
  BY DEF SynchronizeDerivatives
<1>a. CapturesLeft(l) = IF ~Head(l.initialMaps) /\ Head(l.dbCaptures)
                          THEN Tail(l.dbResponses) ELSE l.dbResponses
  BY DEF CapturesLeft
<1>b. hit => ~initial
  BY DEF Initial
<1> HIDE DEF c, initial, slots, first, E1, D1
<1>7. /\ Head(l.initialMaps) = initial /\ Tail(l.initialMaps) = tail.initialMaps
      /\ Head(l.dbCaptures) = hit /\ Tail(l.dbCaptures) = tail.dbCaptures
  <2>1. Head(l.initialMaps) = initial /\ Tail(l.initialMaps) = tail.initialMaps
    <3> DEFINE q == tail.initialMaps
    <3>1. q \in Seq(BOOLEAN) /\ l.initialMaps = <<initial>> \o q
      BY <1>1, <1>2
    <3> HIDE DEF q
    <3>2. Head(<<initial>> \o q) = initial /\ Tail(<<initial>> \o q) = q
      BY <1>3, <3>1, BoolFront
    <3>3. QED
      BY <3>1, <3>2 DEF q
  <2>2. Head(l.dbCaptures) = hit /\ Tail(l.dbCaptures) = tail.dbCaptures
    <3> DEFINE q == tail.dbCaptures
    <3>1. q \in Seq(BOOLEAN) /\ l.dbCaptures = <<hit>> \o q
      BY <1>1, <1>2
    <3> HIDE DEF q
    <3>2. Head(<<hit>> \o q) = hit /\ Tail(<<hit>> \o q) = q
      BY <3>1, BoolFront
    <3>3. QED
      BY <3>1, <3>2 DEF q
  <2>3. QED
    BY <2>1, <2>2
<1>8. CapturesLeft(l) = tail.dbResponses
  <2> DEFINE q == tail.dbResponses
             x == Tag(m, k, X0)
  <2>1. q \in Seq(TagSet) /\ x \in TagSet
    BY <1>1, <1>3
  <2>2. l.dbResponses = IF hit THEN <<x>> \o q ELSE <<>> \o q
    BY <1>2
  <2> HIDE DEF q, x
  <2>3. Tail(<<x>> \o q) = q /\ <<>> \o q = q
    BY <2>1, TagFront, TagsJoin
  <2>4. QED
    BY <1>a, <1>b, <1>7, <2>2, <2>3 DEF q
<1> DEFINE tE == Tagged(m, k, E1)
<1>9. tE \in Seq(TagSet) /\ Tagged(m, k, <<X0>>) = <<Tag(m, k, X0)>>
      /\ <<X0>> \in Seq(Slot)
  <2>1. <<X0>> \in Seq(Slot) /\ Len(<<X0>>) = 1 /\ <<X0>>[1] = X0
    BY <1>3
  <2> DEFINE p == Tagged(m, k, <<X0>>)
  <2>2. p \in Seq(TagSet) /\ Len(p) = 1 /\ p[1] = Tag(m, k, X0)
    <3> DEFINE a == <<X0>>
    <3>1. a \in Seq(Slot) /\ Len(a) = 1 /\ a[1] = X0 /\ 1 \in 1 .. 1
      BY <2>1
    <3> HIDE DEF a
    <3>2. /\ Tagged(m, k, a) \in Seq(TagSet) /\ Len(Tagged(m, k, a)) = Len(a)
          /\ \A i \in 1 .. Len(a) : Tagged(m, k, a)[i] = Tag(m, k, a[i])
      BY <3>1, TaggedType
    <3>3. QED
      BY <3>1, <3>2 DEF a
  <2> HIDE DEF p
  <2>3. p = <<Tag(m, k, X0)>>
    BY <2>2
  <2>4. tE \in Seq(TagSet)
    BY <1>4, TaggedType
  <2>5. QED
    BY <2>1, <2>3, <2>4 DEF p
<1>10. ASSUME initial
       PROVE  start.resps = tE /\ OwnPairs(m, k, start.used)
  <2>1. resps = <<Tag(m, k, X0)>> \o tE
    <3>1. slots = <<X0>> \o E1
      BY <1>5, <1>10
    <3>2. Tagged(m, k, <<X0>> \o E1) = Tagged(m, k, <<X0>>) \o tE
      BY <1>4, <1>9, TaggedJoin
    <3>3. QED
      BY <1>9, <3>1, <3>2
  <2> HIDE DEF tE
  <2>2. Rest(resps, 1) = tE
    <3> DEFINE a == <<Tag(m, k, X0)>>
    <3>1. a \in Seq(TagSet) /\ Len(a) = 1
      BY <1>3
    <3> HIDE DEF a
    <3>2. Rest(a \o tE, Len(a)) = tE
      BY <1>9, <3>1, RestJoin
    <3>3. QED
      BY <2>1, <3>1, <3>2 DEF a
  <2>3. OwnPairs(m, k, first)
    <3>1. first = Paired(<<X0>>, resps)
      BY <1>7, <1>10 DEF AtX0, first
    <3>2. OwnPairs(m, k, Paired(<<X0>>, Tagged(m, k, <<X0>>) \o tE))
      BY <1>9, PairedOwn
    <3>3. QED
      BY <1>9, <2>1, <3>1, <3>2
  <2>4. QED
    BY <1>7, <1>10, <2>2, <2>3
<1>11. ASSUME ~initial
       PROVE  start.resps = tE /\ OwnPairs(m, k, start.used)
  <2>1. resps = tE
    <3>1. slots = E1
      BY <1>4, <1>5, <1>11, SlotsJoin
    <3>2. QED
      BY <3>1
  <2>2. OwnPairs(m, k, first)
    <3>1. CASE hit
      <4> DEFINE q == tail.dbResponses
      <4>1. first = Paired(<<X0>>, l.dbResponses)
        BY <1>7, <1>11, <3>1 DEF AtX0, first
      <4>2. l.dbResponses = <<Tag(m, k, X0)>> \o q /\ q \in Seq(TagSet)
        BY <1>1, <1>2, <3>1
      <4> HIDE DEF q
      <4>3. OwnPairs(m, k, Paired(<<X0>>, Tagged(m, k, <<X0>>) \o q))
        BY <1>9, <4>2, PairedOwn
      <4>4. QED
        BY <1>9, <4>1, <4>2, <4>3
    <3>2. CASE ~hit
      <4>1. first = {}
        BY <1>7, <1>11, <3>2 DEF AtX0, first
      <4>2. QED
        BY <4>1 DEF OwnPairs
    <3>3. QED
      BY <3>1, <3>2
  <2>3. QED
    BY <1>7, <1>11, <2>1, <2>2
<1>12. start.resps = tE /\ OwnPairs(m, k, start.used)
       /\ start.deltas = Tagged(m, k, D1) \o tail.deltas
  BY <1>2, <1>3, <1>7, <1>10, <1>11
<1> HIDE DEF start, tE
<1> DEFINE q == tail.deltas
<1>13. WalkAt(m, k, start, D1, E1, q) /\ q \in Seq(TagSet)
  BY <1>1, <1>12 DEF WalkAt, tE
<1> HIDE DEF q
<1>14. WalkAt(m, k, end, <<>>, <<>>, q)
  BY <1>13, MergeWalkEnd DEF c, D1, E1
<1> HIDE DEF end
<1>15. end.deltas = q /\ OwnPairs(m, k, end.used)
  <2>1. Tagged(m, k, <<>>) = <<>>
    BY <1>4, TaggedJoin
  <2>2. <<>> \o q = q
    BY <1>13, TagsJoin
  <2>3. QED
    BY <1>14, <2>1, <2>2 DEF WalkAt
<1>16. Merges(m, k, asv, l, tail, y)
  <2>1. /\ y.response = [asv |-> asv, used |-> end.used]
        /\ y.lists = [sets |-> l.sets, initialMaps |-> Tail(l.initialMaps),
                      dbCaptures |-> Tail(l.dbCaptures),
                      dbResponses |-> CapturesLeft(l),
                      deltas |-> end.deltas]
    BY <1>6
  <2> HIDE DEF y
  <2>2. y.response.asv = asv /\ OwnPairs(m, k, y.response.used)
    BY <1>15, <2>1
  <2>3. y.lists = [sets |-> l.sets, initialMaps |-> tail.initialMaps,
                   dbCaptures |-> tail.dbCaptures,
                   dbResponses |-> tail.dbResponses, deltas |-> tail.deltas]
    BY <1>7, <1>8, <1>15, <2>1 DEF q
  <2>4. QED
    BY <2>2, <2>3 DEF Merges
<1>17. QED
  BY <1>16 DEF y, resps, slots, c, initial

-----------------------------------------------------------------------------
(* A block of ids at the front of a set, and the slice of a map there.     *)
LEMMA BlockOrder ==
  ASSUME NEW A, IsFiniteSet(A), A \subseteq Int, NEW a \in Int, NEW n \in Nat,
         \A j \in 1 .. n : a + j - 1 \in A, \A x \in A : x >= a
  PROVE  /\ Cardinality(A) \in Nat /\ n <= Cardinality(A)
         /\ \A j \in 1 .. n : InOrder(A)[j] = a + j - 1
<1> DEFINE q == InOrder(A)
           N == Cardinality(A)
<1>1. /\ N \in Nat
      /\ \A x \in A : Place(A, x) + 1 \in 1 .. N /\ q[Place(A, x) + 1] = x
  BY OrderFacts DEF Ordered
<1> HIDE DEF q, N
<1>2. ASSUME NEW j \in 1 .. n
      PROVE  Place(A, a + j - 1) + 1 = j
  <2> DEFINE b == a + j - 2
  <2>1. {x \in A : x < a + j - 1} = a .. b
    <3>1. ASSUME NEW x \in A, x < a + j - 1 PROVE x \in a .. b
      BY <3>1
    <3>2. ASSUME NEW x \in a .. b PROVE x \in A /\ x < a + j - 1
      <4> DEFINE i == x - a + 1
      <4>0. a \in Int /\ x \in Int /\ j \in Int /\ n \in Int /\ j <= n
            /\ a <= x /\ x <= a + j - 2
        OBVIOUS
      <4>1. i \in 1 .. n /\ a + i - 1 = x
        BY <4>0
      <4>2. a + i - 1 \in A
        BY <4>1
      <4>3. QED
        BY <4>1, <4>2
    <3>3. QED
      BY <3>1, <3>2
  <2>2. Cardinality(a .. b) = j - 1
    <3>1. a \in Int /\ b \in Int /\ j \in Int /\ j >= 1
      OBVIOUS
    <3>2. Cardinality(a .. b) = IF a > b THEN 0 ELSE b - a + 1
      <4> HIDE DEF b
      <4>1. QED
        BY <3>1, FS_Interval
    <3>3. QED
      BY <3>1, <3>2
  <2>3. Place(A, a + j - 1) = Cardinality(a .. b)
    BY <2>1 DEF Place
  <2>4. j \in Int
    OBVIOUS
  <2> HIDE DEF b
  <2>5. QED
    BY <2>2, <2>3, <2>4
<1>3. ASSUME NEW j \in 1 .. n PROVE q[j] = a + j - 1 /\ j <= N
  <2> DEFINE x == a + j - 1
  <2>1. x \in A /\ Place(A, x) + 1 = j
    BY <1>2
  <2> HIDE DEF x
  <2>2. j \in 1 .. N /\ q[j] = x
    BY <2>1, <1>1
  <2>3. QED
    BY <2>2, <1>1 DEF x
<1>4. n <= N
  <2>1. CASE n = 0
    BY <2>1, <1>1
  <2>2. CASE n # 0
    <3>1. n \in 1 .. n
      BY <2>2
    <3>2. QED
      BY <3>1, <1>3
  <2>3. QED
    BY <2>1, <2>2
<1>5. QED
  <2>1. N \in Nat /\ n <= N /\ \A j \in 1 .. n : q[j] = a + j - 1
    BY <1>1, <1>3, <1>4
  <2>2. QED
    BY <2>1 DEF q, N

LEMMA SliceBlock ==
  ASSUME NEW f, IsFiniteSet(DOMAIN f), DOMAIN f \subseteq Int, NEW r \in Int,
         NEW n \in Nat, \A j \in 1 .. n : r + j - 1 \in DOMAIN f
  PROVE  Slice(f, r, n) = [j \in 1 .. n |-> f[r + j - 1]]
<1> DEFINE A == {x \in DOMAIN f : x >= r}
           ids == InOrder(A)
<1>1. IsFiniteSet(A) /\ A \subseteq Int
  BY FS_Subset
<1>2. /\ \A j \in 1 .. n : r + j - 1 \in A
      /\ \A x \in A : x >= r
  <2>1. ASSUME NEW j \in 1 .. n PROVE r + j - 1 \in A
    <3>1. r + j - 1 \in DOMAIN f
      OBVIOUS
    <3>2. r + j - 1 >= r
      <4>1. j \in Int /\ j >= 1
        OBVIOUS
      <4>2. QED
        BY <4>1
    <3>3. QED
      BY <3>1, <3>2
  <2>2. QED
    BY <2>1
<1>3. Slice(f, r, n) = [j \in 1 .. MinOf(n, Len(ids)) |-> f[ids[j]]]
  BY DEF Slice
<1> HIDE DEF A
<1>4. Len(ids) = Cardinality(A)
  BY <1>1, OrderFacts DEF Ordered
<1>5. /\ Cardinality(A) \in Nat /\ n <= Cardinality(A)
      /\ \A j \in 1 .. n : ids[j] = r + j - 1
  BY <1>1, <1>2, BlockOrder
<1> HIDE DEF ids
<1>6. MinOf(n, Len(ids)) = n
  BY <1>4, <1>5 DEF MinOf
<1>7. QED
  BY <1>3, <1>5, <1>6
-----------------------------------------------------------------------------
(* Lists put together.                                                     *)
LEMMA ListsFields ==
  ASSUME NEW a \in ListsSet
  PROVE  /\ a.sets \in Seq(AsvSet) /\ a.initialMaps \in Seq(BOOLEAN)
         /\ a.dbCaptures \in Seq(BOOLEAN) /\ a.dbResponses \in Seq(TagSet)
         /\ a.deltas \in Seq(TagSet)
         /\ a = [sets |-> a.sets, initialMaps |-> a.initialMaps,
                 dbCaptures |-> a.dbCaptures, dbResponses |-> a.dbResponses,
                 deltas |-> a.deltas]
BY DEF ListsSet

LEMMA JoinedFields ==
  ASSUME NEW a \in ListsSet, NEW b \in ListsSet
  PROVE  /\ Joined(a, b) \in ListsSet
         /\ Joined(a, b).sets = a.sets \o b.sets
         /\ Joined(a, b).initialMaps = a.initialMaps \o b.initialMaps
         /\ Joined(a, b).dbCaptures = a.dbCaptures \o b.dbCaptures
         /\ Joined(a, b).dbResponses = a.dbResponses \o b.dbResponses
         /\ Joined(a, b).deltas = a.deltas \o b.deltas
<1>1. /\ a.sets \o b.sets \in Seq(AsvSet)
      /\ a.initialMaps \o b.initialMaps \in Seq(BOOLEAN)
      /\ a.dbCaptures \o b.dbCaptures \in Seq(BOOLEAN)
      /\ a.dbResponses \o b.dbResponses \in Seq(TagSet)
      /\ a.deltas \o b.deltas \in Seq(TagSet)
  <2>1. a.sets \o b.sets \in Seq(AsvSet)
    BY ListsFields, ConcatProperties
  <2>2. a.initialMaps \o b.initialMaps \in Seq(BOOLEAN)
    BY ListsFields, ConcatProperties
  <2>3. a.dbCaptures \o b.dbCaptures \in Seq(BOOLEAN)
    BY ListsFields, ConcatProperties
  <2>4. a.dbResponses \o b.dbResponses \in Seq(TagSet)
    BY ListsFields, TagsJoin
  <2>5. a.deltas \o b.deltas \in Seq(TagSet)
    BY ListsFields, TagsJoin
  <2>6. QED
    BY <2>1, <2>2, <2>3, <2>4, <2>5
<1> DEFINE p == a.sets \o b.sets
           q == a.initialMaps \o b.initialMaps
           r == a.dbCaptures \o b.dbCaptures
           s == a.dbResponses \o b.dbResponses
           t == a.deltas \o b.deltas
<1>2. Joined(a, b) = [sets |-> p, initialMaps |-> q, dbCaptures |-> r,
                      dbResponses |-> s, deltas |-> t]
  BY DEF Joined
<1>3. /\ p \in Seq(AsvSet) /\ q \in Seq(BOOLEAN) /\ r \in Seq(BOOLEAN)
      /\ s \in Seq(TagSet) /\ t \in Seq(TagSet)
  BY <1>1
<1> HIDE DEF p, q, r, s, t
<1>4. Joined(a, b) \in ListsSet
  BY <1>2, <1>3 DEF ListsSet
<1>5. /\ Joined(a, b).sets = p /\ Joined(a, b).initialMaps = q
      /\ Joined(a, b).dbCaptures = r /\ Joined(a, b).dbResponses = s
      /\ Joined(a, b).deltas = t
  BY <1>2
<1>6. QED
  BY <1>4, <1>5 DEF p, q, r, s, t

LEMMA NoListsType ==
  /\ NoLists \in ListsSet
  /\ NoLists.sets = <<>> /\ NoLists.initialMaps = <<>>
  /\ NoLists.dbCaptures = <<>> /\ NoLists.dbResponses = <<>>
  /\ NoLists.deltas = <<>>
BY DEF NoLists, ListsSet

LEMMA JoinedNone ==
  ASSUME NEW a \in ListsSet
  PROVE  Joined(a, NoLists) = a /\ Joined(NoLists, a) = a
<1>1. /\ a.sets \o <<>> = a.sets /\ <<>> \o a.sets = a.sets
  BY ListsFields, ConcatEmptySeq
<1>2. /\ a.initialMaps \o <<>> = a.initialMaps
      /\ <<>> \o a.initialMaps = a.initialMaps
  BY ListsFields, ConcatEmptySeq
<1>3. /\ a.dbCaptures \o <<>> = a.dbCaptures
      /\ <<>> \o a.dbCaptures = a.dbCaptures
  BY ListsFields, ConcatEmptySeq
<1>4. /\ a.dbResponses \o <<>> = a.dbResponses
      /\ <<>> \o a.dbResponses = a.dbResponses
  BY ListsFields, ConcatEmptySeq
<1>5. /\ a.deltas \o <<>> = a.deltas /\ <<>> \o a.deltas = a.deltas
  BY ListsFields, ConcatEmptySeq
<1>6. a = [sets |-> a.sets, initialMaps |-> a.initialMaps,
           dbCaptures |-> a.dbCaptures, dbResponses |-> a.dbResponses,
           deltas |-> a.deltas]
  BY ListsFields
<1>7. QED
  BY <1>1, <1>2, <1>3, <1>4, <1>5, <1>6, NoListsType, Zenon DEF Joined

LEMMA AsvsAssociate ==
  ASSUME NEW a \in Seq(AsvSet), NEW b \in Seq(AsvSet), NEW d \in Seq(AsvSet)
  PROVE  (a \o b) \o d = a \o (b \o d)
BY ConcatAssociative

LEMMA BoolsAssociate ==
  ASSUME NEW a \in Seq(BOOLEAN), NEW b \in Seq(BOOLEAN), NEW d \in Seq(BOOLEAN)
  PROVE  (a \o b) \o d = a \o (b \o d)
BY ConcatAssociative

LEMMA JoinedAssociates ==
  ASSUME NEW a \in ListsSet, NEW b \in ListsSet, NEW d \in ListsSet
  PROVE  Joined(Joined(a, b), d) = Joined(a, Joined(b, d))
<1>0. /\ a.sets \in Seq(AsvSet) /\ a.initialMaps \in Seq(BOOLEAN)
      /\ a.dbCaptures \in Seq(BOOLEAN) /\ a.dbResponses \in Seq(TagSet)
      /\ a.deltas \in Seq(TagSet)
  BY ListsFields
<1>a. /\ b.sets \in Seq(AsvSet) /\ b.initialMaps \in Seq(BOOLEAN)
      /\ b.dbCaptures \in Seq(BOOLEAN) /\ b.dbResponses \in Seq(TagSet)
      /\ b.deltas \in Seq(TagSet)
  BY ListsFields
<1>b. /\ d.sets \in Seq(AsvSet) /\ d.initialMaps \in Seq(BOOLEAN)
      /\ d.dbCaptures \in Seq(BOOLEAN) /\ d.dbResponses \in Seq(TagSet)
      /\ d.deltas \in Seq(TagSet)
  BY ListsFields
<1>1. (a.sets \o b.sets) \o d.sets = a.sets \o (b.sets \o d.sets)
  BY <1>0, <1>a, <1>b, AsvsAssociate, Zenon
<1>2. (a.initialMaps \o b.initialMaps) \o d.initialMaps
        = a.initialMaps \o (b.initialMaps \o d.initialMaps)
  BY <1>0, <1>a, <1>b, BoolsAssociate, Zenon
<1>3. (a.dbCaptures \o b.dbCaptures) \o d.dbCaptures
        = a.dbCaptures \o (b.dbCaptures \o d.dbCaptures)
  BY <1>0, <1>a, <1>b, BoolsAssociate, Zenon
<1>4. (a.dbResponses \o b.dbResponses) \o d.dbResponses
        = a.dbResponses \o (b.dbResponses \o d.dbResponses)
  BY <1>0, <1>a, <1>b, TagsAssociate, Zenon
<1>5. (a.deltas \o b.deltas) \o d.deltas = a.deltas \o (b.deltas \o d.deltas)
  BY <1>0, <1>a, <1>b, TagsAssociate, Zenon
<1>6. /\ Joined(a, b).sets = a.sets \o b.sets
      /\ Joined(a, b).initialMaps = a.initialMaps \o b.initialMaps
      /\ Joined(a, b).dbCaptures = a.dbCaptures \o b.dbCaptures
      /\ Joined(a, b).dbResponses = a.dbResponses \o b.dbResponses
      /\ Joined(a, b).deltas = a.deltas \o b.deltas
  BY JoinedFields
<1>7. /\ Joined(b, d).sets = b.sets \o d.sets
      /\ Joined(b, d).initialMaps = b.initialMaps \o d.initialMaps
      /\ Joined(b, d).dbCaptures = b.dbCaptures \o d.dbCaptures
      /\ Joined(b, d).dbResponses = b.dbResponses \o d.dbResponses
      /\ Joined(b, d).deltas = b.deltas \o d.deltas
  BY JoinedFields
<1> DEFINE x == Joined(a, b)
           y == Joined(b, d)
<1>8. /\ Joined(x, d) = [sets |-> x.sets \o d.sets,
                         initialMaps |-> x.initialMaps \o d.initialMaps,
                         dbCaptures |-> x.dbCaptures \o d.dbCaptures,
                         dbResponses |-> x.dbResponses \o d.dbResponses,
                         deltas |-> x.deltas \o d.deltas]
      /\ Joined(a, y) = [sets |-> a.sets \o y.sets,
                         initialMaps |-> a.initialMaps \o y.initialMaps,
                         dbCaptures |-> a.dbCaptures \o y.dbCaptures,
                         dbResponses |-> a.dbResponses \o y.dbResponses,
                         deltas |-> a.deltas \o y.deltas]
  <2> HIDE DEF x, y
  <2>1. QED
    BY Zenon DEF Joined
<1> HIDE DEF x, y
<1>9. QED
  BY <1>1, <1>2, <1>3, <1>4, <1>5, <1>6, <1>7, <1>8, Zenon DEF x, y

LEMMA EntryType ==
  ASSUME NEW c \in Configurations, NEW m \in Models, NEW k \in Nat,
         NEW asv \in AsvSet, AsvOf(c, asv), NEW hit \in BOOLEAN
  PROVE  Entry(c, m, k, asv, hit) \in ListsSet
<1>1. Initial(asv, hit) \in BOOLEAN /\ Tag(m, k, X0) \in TagSet
  BY DEF Initial, X0, Slot, Tag, TagSet
<1>2. Tagged(m, k, DeltasFrom(c, asv)[1]) \in Seq(TagSet)
  <2>1. DeltasFrom(c, asv)[1] \in Seq(Slot)
    BY DeltasFromFacts, ConfigurationFacts
  <2>2. QED
    BY <2>1, TaggedType
<1> DEFINE p == Initial(asv, hit)
           q == Tag(m, k, X0)
           r == Tagged(m, k, DeltasFrom(c, asv)[1])
<1>3. Entry(c, m, k, asv, hit)
        = [sets |-> <<asv>>, initialMaps |-> <<p>>, dbCaptures |-> <<hit>>,
           dbResponses |-> IF hit THEN <<q>> ELSE <<>>, deltas |-> r]
  BY DEF Entry
<1>4. p \in BOOLEAN /\ q \in TagSet /\ r \in Seq(TagSet)
  BY <1>1, <1>2
<1> HIDE DEF p, q, r
<1>5. /\ <<asv>> \in Seq(AsvSet) /\ <<p>> \in Seq(BOOLEAN)
      /\ <<hit>> \in Seq(BOOLEAN)
      /\ (IF hit THEN <<q>> ELSE <<>>) \in Seq(TagSet)
  BY <1>4
<1>6. QED
  BY <1>3, <1>4, <1>5 DEF ListsSet

(* The lists that begin with an entry.                                     *)
Heads(c, m, k, asv, hit, l, tail) ==
  /\ Begins(c, m, k, asv, hit, l, tail) /\ l \in ListsSet
  /\ Head(l.sets) = asv /\ Tail(l.sets) = tail.sets

LEMMA EntryHeads ==
  ASSUME NEW c \in Configurations, NEW m \in Models, NEW k \in Nat,
         NEW asv \in AsvSet, AsvOf(c, asv), NEW hit \in BOOLEAN,
         NEW tail \in ListsSet
  PROVE  Heads(c, m, k, asv, hit, Joined(Entry(c, m, k, asv, hit), tail), tail)
<1> DEFINE e == Entry(c, m, k, asv, hit)
           l == Joined(e, tail)
<1>1. e \in ListsSet
  BY EntryType
<1>2. /\ e.sets = <<asv>> /\ e.initialMaps = <<Initial(asv, hit)>>
      /\ e.dbCaptures = <<hit>>
      /\ e.dbResponses = (IF hit THEN <<Tag(m, k, X0)>> ELSE <<>>)
      /\ e.deltas = Tagged(m, k, DeltasFrom(c, asv)[1])
  BY DEF Entry
<1> HIDE DEF e
<1>3. /\ l \in ListsSet /\ l.sets = e.sets \o tail.sets
      /\ l.initialMaps = e.initialMaps \o tail.initialMaps
      /\ l.dbCaptures = e.dbCaptures \o tail.dbCaptures
      /\ l.dbResponses = e.dbResponses \o tail.dbResponses
      /\ l.deltas = e.deltas \o tail.deltas
  BY <1>1, JoinedFields
<1> HIDE DEF l
<1>4. Begins(c, m, k, asv, hit, l, tail)
  BY <1>2, <1>3, Zenon DEF Begins
<1>5. Head(l.sets) = asv /\ Tail(l.sets) = tail.sets
  <2> DEFINE q == tail.sets
  <2>1. q \in Seq(AsvSet) /\ l.sets = <<asv>> \o q
    BY <1>2, <1>3, ListsFields
  <2> HIDE DEF q
  <2>2. Head(<<asv>> \o q) = asv /\ Tail(<<asv>> \o q) = q
    BY <2>1, AsvFront
  <2>3. QED
    BY <2>1, <2>2 DEF q
<1>6. QED
  BY <1>3, <1>4, <1>5 DEF Heads, l, e

-----------------------------------------------------------------------------
(* One pair of rawEvalIdMap and numFDEvalsMap.                             *)

(* A plain evaluation is its own raw evaluation.                           *)
LEMMA PlainOwn ==
  ASSUME NEW m \in Models, NEW s, NEW log, NEW k, NEW c, NEW before, NEW after,
         PlanAt(c, m, s, log, k, before, after), ~s.asked[k].asv.est,
         NEW M, M \subseteq DOMAIN s.simIds, NEW f, Rekeys(s, log, M, f),
         \A i, j \in DOMAIN s.simIds : s.simIds[i] = s.simIds[j] => i = j,
         NEW r \in Int, r \in DOMAIN f, 
         \A q \in DOMAIN s.rawIds : s.rawIds[q] = k => q = r
  PROVE  OwnAt(m, s, k, Unmerged(f[r]))
<1> DEFINE asv == s.asked[k].asv
<1>1. PICK hit \in BOOLEAN :
        /\ asv = [est |-> FALSE]
        /\ \E q \in DOMAIN s.rawIds :
             s.rawIds[q] = k /\ Block(m, k, s, log, q, SlotsFor(c, asv, hit))
  BY DEF PlanAt
<1>2. SlotsFor(c, asv, hit) = Plain /\ Len(Plain) = 1
      /\ Plain[1] = <<"map", 0, 0>>
  BY DEF SlotsFor, Plain
<1>3. Block(m, k, s, log, r, Plain)
  BY <1>1, <1>2
<1>4. PICK i \in DOMAIN s.simIds :
        s.simIds[i] = r + 1 - 1 /\ log[i] = Tag(m, k, Plain[1])
  <2>1. 1 \in 1 .. Len(Plain)
    BY <1>2
  <2>2. QED
    BY <1>3, <2>1 DEF Block
<1>5. s.simIds[i] = r
  BY <1>4
<1>6. PICK j \in M : s.simIds[j] = r
  BY DEF Rekeys
<1>7. i = j /\ f[r] = log[i]
  BY <1>5, <1>6 DEF Rekeys
<1>8. /\ Unmerged(f[r]).asv = [est |-> FALSE]
      /\ Unmerged(f[r]).used = {<<Plain[1], Tag(m, k, Plain[1])>>}
  BY <1>4, <1>7 DEF Unmerged
<1>9. QED
  BY <1>1, <1>8 DEF OwnAt

(* The raw evaluations of an estimation are a slice of what arrived.       *)
LEMMA SliceOwn ==
  ASSUME NEW m \in Models, NEW s, NEW log, NEW k \in Nat, NEW r \in Int,
         NEW slots \in Seq(Slot), Block(m, k, s, log, r, slots),
         NEW f, IsFiniteSet(DOMAIN f), DOMAIN f \subseteq Int,
         Rekeys(s, log, DOMAIN s.simIds, f)
  PROVE  Slice(f, r, Len(slots)) = Tagged(m, k, slots)
<1> DEFINE n == Len(slots)
<1>1. n \in Nat /\ DOMAIN slots = 1 .. n
  OBVIOUS
<1>2. ASSUME NEW j \in 1 .. n
      PROVE  r + j - 1 \in DOMAIN f /\ f[r + j - 1] = Tag(m, k, slots[j])
  <2>1. PICK i \in DOMAIN s.simIds :
          s.simIds[i] = r + j - 1 /\ log[i] = Tag(m, k, slots[j])
    BY DEF Block
  <2>2. QED
    BY <2>1 DEF Rekeys
<1>3. Slice(f, r, n) = [j \in 1 .. n |-> f[r + j - 1]]
  <2> HIDE DEF n
  <2>1. QED
    BY <1>1, <1>2, SliceBlock
<1>4. Tagged(m, k, slots) = [j \in 1 .. n |-> Tag(m, k, slots[j])]
  BY <1>1 DEF Tagged
<1>5. QED
  BY <1>2, <1>3, <1>4

(* What an entry of the maps gives, and what it leaves of the lists.       *)
PairMerges(m, s, k, y, after) ==
  OwnAt(m, s, k, y.response) /\ y.lists = after

LEMMA EstimateOwn ==
  ASSUME config \in Configurations, NEW m \in Models, NEW s, NEW log,
         NEW k \in Nat, NEW before, NEW after \in ListsSet,
         PlanAt(config, m, s, log, k, before, after), s.asked[k].asv.est,
         s.asked[k].asv \in AsvSet,
         NEW f, IsFiniteSet(DOMAIN f), DOMAIN f \subseteq Int,
         Rekeys(s, log, DOMAIN s.simIds, f), NEW r \in Int,
         \A q \in DOMAIN s.rawIds : s.rawIds[q] = k => q = r
  PROVE  PairMerges(m, s, k, MergedPair(r, s.numFD[k], f, before), after)
<1> DEFINE asv == s.asked[k].asv
<1>1. PICK hit \in BOOLEAN :
        /\ AsvOf(config, asv) /\ Separate(config, asv)
        /\ s.numFD[k] = Len(SlotsFor(config, asv, hit))
        /\ \E q \in DOMAIN s.rawIds :
             s.rawIds[q] = k
             /\ Block(m, k, s, log, q, SlotsFor(config, asv, hit))
        /\ before = Joined(Entry(config, m, k, asv, hit), after)
  BY DEF PlanAt
<1>a. asv.est /\ asv \in AsvSet
  OBVIOUS
<1> DEFINE slots == Evaluations(config, asv, Initial(asv, hit))
           num == s.numFD[k]
<1>2. SlotsFor(config, asv, hit) = slots
  BY DEF SlotsFor
<1>b. PairMerges(m, s, k, MergedPair(r, num, f, before), after)
      <=> /\ MergedPair(r, num, f, before).response.asv = asv
          /\ OwnPairs(m, k, MergedPair(r, num, f, before).response.used)
          /\ MergedPair(r, num, f, before).lists = after
  BY DEF PairMerges, OwnAt, OwnPairs
<1> HIDE DEF asv
<1>3. slots \in Seq(Slot)
  <2>1. Initial(asv, hit) \in BOOLEAN
    BY DEF Initial
  <2>2. QED
    BY <1>1, <2>1, EvaluationsType
<1>4. Block(m, k, s, log, r, slots) /\ num = Len(slots)
  BY <1>1, <1>2
<1>5. Slice(f, r, num) = Tagged(m, k, slots)
  <2> HIDE DEF slots, num
  <2>1. QED
    BY <1>3, <1>4, SliceOwn
<1>6. Heads(config, m, k, asv, hit, before, after)
  BY <1>1, <1>a, EntryHeads
<1>7. /\ Begins(config, m, k, asv, hit, before, after)
      /\ Head(before.sets) = asv /\ Tail(before.sets) = after.sets
  BY <1>6 DEF Heads
<1> DEFINE y == SynchronizeDerivatives(before, asv, Tagged(m, k, slots))
<1>8. Merges(m, k, asv, before, after, y)
  BY <1>1, <1>7, MergeOne
<1>9. num >= 0
  BY <1>3, <1>4
<1> HIDE DEF num
<1>10. MergedPair(r, num, f, before)
         = [response |-> y.response, lists |-> [y.lists EXCEPT !.sets = Tail(@)]]
  BY <1>5, <1>7, <1>9 DEF MergedPair
<1> HIDE DEF y
<1>11. /\ y.response.asv = asv /\ OwnPairs(m, k, y.response.used)
       /\ y.lists = [sets |-> before.sets, initialMaps |-> after.initialMaps,
                     dbCaptures |-> after.dbCaptures,
                     dbResponses |-> after.dbResponses,
                     deltas |-> after.deltas]
  BY <1>8 DEF Merges
<1>12. [y.lists EXCEPT !.sets = Tail(@)] = after
  <2> DEFINE v == y.lists
             z == Tail(v.sets)
             x == [v EXCEPT !.sets = z]
  <2>1. v.sets = before.sets /\ z = after.sets
    BY <1>7, <1>11
  <2>2. v = [sets |-> v.sets, initialMaps |-> after.initialMaps,
             dbCaptures |-> after.dbCaptures,
             dbResponses |-> after.dbResponses, deltas |-> after.deltas]
    BY <1>11, <2>1
  <2>3. x = [v EXCEPT !.sets = z]
    OBVIOUS
  <2>a. x = [y.lists EXCEPT !.sets = Tail(@)]
    OBVIOUS
  <2> HIDE DEF v, z, x
  <2>4. x = [sets |-> z, initialMaps |-> after.initialMaps,
             dbCaptures |-> after.dbCaptures,
             dbResponses |-> after.dbResponses, deltas |-> after.deltas]
    BY <2>2, <2>3
  <2>5. after = [sets |-> after.sets, initialMaps |-> after.initialMaps,
                 dbCaptures |-> after.dbCaptures,
                 dbResponses |-> after.dbResponses, deltas |-> after.deltas]
    BY ListsFields
  <2>6. QED
    BY <2>1, <2>4, <2>5, <2>a, Zenon
<1>13. /\ MergedPair(r, num, f, before).response = y.response
       /\ MergedPair(r, num, f, before).lists = after
  BY <1>10, <1>12
<1>14. QED
  BY <1>b, <1>11, <1>13 DEF num

LEMMA PairOwn ==
  ASSUME config \in Configurations, NEW m \in Models, NEW s, NEW log,
         NEW k \in Nat, NEW before, NEW after \in ListsSet,
         PlanAt(config, m, s, log, k, before, after),
         s.asked[k].asv \in AsvSet,
         NEW f, IsFiniteSet(DOMAIN f), DOMAIN f \subseteq Int,
         Rekeys(s, log, DOMAIN s.simIds, f),
         \A i, j \in DOMAIN s.simIds : s.simIds[i] = s.simIds[j] => i = j,
         NEW r \in Int, r \in DOMAIN f,
         \A q \in DOMAIN s.rawIds : s.rawIds[q] = k => q = r
  PROVE  PairMerges(m, s, k, MergedPair(r, s.numFD[k], f, before), after)
<1>1. CASE s.asked[k].asv.est
  BY <1>1, EstimateOwn
<1>2. CASE ~s.asked[k].asv.est
  <2>1. s.numFD[k] = -1 /\ before = after
    BY <1>2 DEF PlanAt
  <2>2. OwnAt(m, s, k, Unmerged(f[r]))
    BY <1>2, PlainOwn
  <2> DEFINE num == s.numFD[k]
  <2>3. ~(num >= 0)
    BY <2>1
  <2> HIDE DEF num
  <2>4. MergedPair(r, num, f, before)
          = [response |-> Unmerged(f[r]), lists |-> before]
    BY <2>3 DEF MergedPair
  <2>5. QED
    BY <2>1, <2>2, <2>4 DEF PairMerges, num
<1>3. QED
  BY <1>1, <1>2

-----------------------------------------------------------------------------
(* The walk of synchronize over both maps.                                 *)
PairStep(s, ids, fds, resps, w, n) ==
  IF ids[n] \in DOMAIN resps
    THEN MergedPair(ids[n], s.numFD[fds[n]], resps, w.lists)
    ELSE w

LEMMA PairsWalkFacts ==
  ASSUME NEW s, NEW ids, NEW fds, NEW resps, NEW n \in Nat,
         MinOf(Len(ids), Len(fds)) = n
  PROVE  /\ PairsWalk(s, ids, fds, resps)[0].lists = s.lists
         /\ \A j \in 1 .. n :
              PairsWalk(s, ids, fds, resps)[j]
                = PairStep(s, ids, fds, resps,
                           PairsWalk(s, ids, fds, resps)[j - 1], j)
<1> DEFINE start == [response |-> None, lists |-> s.lists]
           Step(w, j) == PairStep(s, ids, fds, resps, w, j)
           Walks(f, i) == f = [j \in 0 .. i |->
                                 IF j = 0 THEN start ELSE Step(f[j - 1], j)]
           S == {i \in 0 .. n : \E f : Walks(f, i)}
<1>1. 0 \in 0 .. n /\ n \in 0 .. n
  OBVIOUS
<1>2. PairsWalk(s, ids, fds, resps) = CHOOSE f : Walks(f, n)
  BY DEF PairsWalk, PairStep
<1>a. start.lists = s.lists
  OBVIOUS
<1> HIDE DEF start, Step
<1>3. 0 \in S
  <2> DEFINE f == [j \in 0 .. 0 |-> start]
  <2>1. \A j \in 0 .. 0 : j = 0
    OBVIOUS
  <2>2. Walks(f, 0)
    BY <2>1
  <2> HIDE DEF Walks, f
  <2>3. QED
    BY <1>1, <2>2
<1>4. ASSUME NEW i \in 0 .. (n - 1), i \in S PROVE i + 1 \in S
  <2>1. PICK f : Walks(f, i)
    BY <1>4
  <2> DEFINE g == [j \in 0 .. (i + 1) |->
                     IF j = i + 1 THEN Step(f[i], i + 1) ELSE f[j]]
  <2>2. i \in Nat /\ i + 1 \in 0 .. n
    BY <1>1
  <2>3. ASSUME NEW j \in 0 .. (i + 1)
        PROVE  g[j] = IF j = 0 THEN start ELSE Step(g[j - 1], j)
    <3>1. CASE j = i + 1
      <4>1. i \in 0 .. (i + 1) /\ i # i + 1 /\ j # 0 /\ j - 1 = i
        BY <2>2, <3>1
      <4>2. g[j - 1] = f[i] /\ g[j] = Step(f[i], j)
        BY <3>1, <4>1
      <4> HIDE DEF g
      <4>3. QED
        BY <4>1, <4>2
    <3>2. CASE j = 0
      <4>1. 0 \in 0 .. i /\ j # i + 1
        BY <2>2, <3>2
      <4>2. f[0] = start
        BY <2>1, <4>1
      <4>3. g[j] = f[j]
        BY <4>1
      <4> HIDE DEF g
      <4>4. QED
        BY <3>2, <4>2, <4>3
    <3>3. CASE j # i + 1 /\ j # 0
      <4>1. j \in 0 .. i /\ j - 1 \in 0 .. (i + 1) /\ j - 1 # i + 1
        BY <2>2, <3>3
      <4>2. f[j] = Step(f[j - 1], j)
        BY <2>1, <3>3, <4>1
      <4>3. g[j] = f[j] /\ g[j - 1] = f[j - 1]
        BY <3>3, <4>1
      <4> HIDE DEF g
      <4>4. QED
        BY <3>3, <4>2, <4>3
    <3>4. QED
      BY <3>1, <3>2, <3>3
  <2>4. g = [j \in 0 .. (i + 1) |-> g[j]]
    OBVIOUS
  <2> HIDE DEF g
  <2>5. Walks(g, i + 1)
    BY <2>3, <2>4
  <2> HIDE DEF Walks
  <2>6. QED
    BY <2>2, <2>5
<1>5. n \in S
  <2> HIDE DEF S
  <2>1. QED
    BY <1>1, <1>3, <1>4, UpTo
<1>6. PICK f : Walks(f, n)
  BY <1>5
<1> DEFINE w == PairsWalk(s, ids, fds, resps)
<1>7. Walks(w, n)
  <2> HIDE DEF Walks
  <2>1. QED
    BY <1>2, <1>6, Zenon
<1> HIDE DEF w
<1>8. w[0].lists = s.lists
  BY <1>1, <1>7, <1>a
<1>9. ASSUME NEW j \in 1 .. n PROVE w[j] = Step(w[j - 1], j)
  <2>1. j \in 0 .. n /\ j # 0
    BY <1>1
  <2>2. QED
    BY <2>1, <1>7
<1>10. QED
  BY <1>8, <1>9 DEF w, Step

(* What all of a model's raw evaluations arrived means.                    *)
AllHere(s, log, f) ==
  /\ IsFiniteSet(DOMAIN f) /\ DOMAIN f \subseteq Int
  /\ Rekeys(s, log, DOMAIN s.simIds, f) /\ DOMAIN s.rawIds \subseteq DOMAIN f
  /\ \A i, j \in DOMAIN s.simIds : s.simIds[i] = s.simIds[j] => i = j
  /\ \A q, r \in DOMAIN s.rawIds : s.rawIds[q] = s.rawIds[r] => q = r
  /\ DOMAIN s.numFD \subseteq 1 .. s.evals

LEMMA AskedType ==
  ASSUME NEW s, StateType(s), NEW k \in 1 .. s.evals
  PROVE  s.asked[k].asv \in AsvSet /\ k \in Nat
<1>1. s.asked \in Seq(AskSet) /\ k \in 1 .. Len(s.asked) /\ k \in Nat
  BY DEF StateType
<1>2. s.asked[k] \in AskSet
  BY <1>1, ElementOfSeq
<1>3. QED
  BY <1>1, <1>2 DEF AskSet

LEMMA WalkOwn ==
  ASSUME config \in Configurations, NEW m \in Models, NEW s, StateType(s),
         NEW log, NEW n, NEW ids, NEW fds, Pairs(s, n, ids, fds), NEW Q,
         PlanOf(config, m, s, log, n, fds, Q), NEW f, AllHere(s, log, f),
         NEW u, u.lists = s.lists, u.numFD = s.numFD
  PROVE  /\ PairsWalk(u, ids, fds, f)[n].lists = NoLists
         /\ \A i \in 1 .. n :
              OwnAt(m, s, fds[i], PairsWalk(u, ids, fds, f)[i].response)
<1> DEFINE w == PairsWalk(u, ids, fds, f)
           S == {i \in 0 .. n : w[i].lists = Q[i]}
<1>1. /\ n \in Nat /\ MinOf(Len(ids), Len(fds)) = n
      /\ \A i \in 1 .. n : /\ ids[i] \in DOMAIN s.rawIds
                           /\ fds[i] \in DOMAIN s.numFD
                           /\ s.rawIds[ids[i]] = fds[i]
  BY DEF Pairs
<1>2. /\ Q \in [0 .. n -> ListsSet] /\ Q[n] = NoLists /\ Q[0] = s.lists
      /\ \A i \in 1 .. n : PlanAt(config, m, s, log, fds[i], Q[i - 1], Q[i])
  BY DEF PlanOf
<1>3. /\ w[0].lists = u.lists
      /\ \A j \in 1 .. n : w[j] = PairStep(u, ids, fds, f, w[j - 1], j)
  BY <1>1, PairsWalkFacts
<1>4. /\ IsFiniteSet(DOMAIN f) /\ DOMAIN f \subseteq Int
      /\ Rekeys(s, log, DOMAIN s.simIds, f) /\ DOMAIN s.rawIds \subseteq DOMAIN f
      /\ \A i, j \in DOMAIN s.simIds : s.simIds[i] = s.simIds[j] => i = j
      /\ \A q, r \in DOMAIN s.rawIds : s.rawIds[q] = s.rawIds[r] => q = r
      /\ DOMAIN s.numFD \subseteq 1 .. s.evals
  BY DEF AllHere
<1> HIDE DEF w
<1>5. ASSUME NEW i \in 1 .. n, w[i - 1].lists = Q[i - 1]
      PROVE  w[i].lists = Q[i] /\ OwnAt(m, s, fds[i], w[i].response)
  <2> DEFINE k == fds[i]
             r == ids[i]
             before == Q[i - 1]
             after == Q[i]
  <2>1. /\ r \in DOMAIN s.rawIds /\ k \in DOMAIN s.numFD /\ s.rawIds[r] = k
        /\ PlanAt(config, m, s, log, k, before, after) /\ after \in ListsSet
    BY <1>1, <1>2
  <2>2. r \in DOMAIN f /\ r \in Int /\ k \in 1 .. s.evals
        /\ \A q \in DOMAIN s.rawIds : s.rawIds[q] = k => q = r
    BY <1>4, <2>1
  <2>3. s.asked[k].asv \in AsvSet /\ k \in Nat
    <3> HIDE DEF k
    <3>1. QED
      BY <2>2, AskedType
  <2>4. w[i] = MergedPair(r, s.numFD[k], f, before)
    BY <1>3, <1>5, <2>2 DEF PairStep
  <2> HIDE DEF k, r, before, after
  <2>5. PairMerges(m, s, k, MergedPair(r, s.numFD[k], f, before), after)
    BY <1>4, <2>1, <2>2, <2>3, PairOwn
  <2>6. QED
    BY <2>4, <2>5 DEF PairMerges, k, after
<1>6. 0 \in S
  <2>1. 0 \in 0 .. n
    BY <1>1
  <2>2. QED
    BY <1>2, <1>3, <2>1
<1>7. ASSUME NEW i \in 0 .. (n - 1), i \in S PROVE i + 1 \in S
  <2> DEFINE j == i + 1
  <2>1. j \in 1 .. n /\ j \in 0 .. n /\ j - 1 = i
    BY <1>1
  <2> HIDE DEF j
  <2>2. w[j - 1].lists = Q[j - 1]
    BY <1>7, <2>1
  <2>3. w[j].lists = Q[j]
    BY <1>5, <2>1, <2>2
  <2>4. j \in S
    BY <2>1, <2>3
  <2>5. QED
    BY <2>4 DEF j
<1>8. \A i \in 0 .. n : i \in S
  <2> HIDE DEF S
  <2>1. QED
    BY <1>1, <1>6, <1>7, UpTo
<1>9. \A i \in 0 .. n : w[i].lists = Q[i]
  BY <1>8
<1>10. w[n].lists = NoLists
  <2>1. n \in 0 .. n
    BY <1>1
  <2>2. QED
    BY <1>2, <1>9, <2>1
<1>11. ASSUME NEW i \in 1 .. n PROVE OwnAt(m, s, fds[i], w[i].response)
  <2>1. i - 1 \in 0 .. n
    BY <1>1
  <2>2. QED
    BY <1>5, <1>9, <2>1
<1>12. QED
  BY <1>10, <1>11 DEF w

-----------------------------------------------------------------------------
(* The responses of a synchronization.                                     *)
LEMMA NumFDOrder ==
  ASSUME NEW s, IdsOf(s), s.evals \in Nat
  PROVE  Ordered(DOMAIN s.numFD, Cardinality(DOMAIN s.numFD),
                 InOrder(DOMAIN s.numFD))
<1>1. DOMAIN s.numFD \subseteq 1 .. s.evals
  BY DEF IdsOf
<1>2. IsFiniteSet(1 .. s.evals)
  BY FS_Interval
<1>3. IsFiniteSet(DOMAIN s.numFD) /\ DOMAIN s.numFD \subseteq Int
  BY <1>1, <1>2, FS_Subset
<1>4. QED
  BY <1>3, OrderFacts

SyncOwn(m, s, got) ==
  \A k \in DOMAIN Sync(s, got).resps :
    k \in DOMAIN s.numFD /\ OwnAt(m, s, k, Sync(s, got).resps[k])

(* Without an estimation: rekey_response_map.                              *)
LEMMA SyncPlainOwn ==
  ASSUME NEW m \in Models, NEW s, StateType(s), ~s.est, raw \in Seq(TagSet),
         NEW held, MapsOf(m, s, raw, held), NEW c, Planned(c, m, s, raw),
         NEW got
  PROVE  SyncOwn(m, s, got) /\ Sync(s, got).state.lists = NoLists
<1> DEFINE M == Matched(s, got)
           d == Collected(s, got)
           resps == SimResponses(s, raw, got)
           y == Sync(s, got)
           known == DOMAIN resps \cap DOMAIN d.rawIds
           done == {d.rawIds[r] : r \in known}
           n == Cardinality(DOMAIN s.numFD)
           q == InOrder(DOMAIN s.numFD)
<1>1. /\ SimOf(m, s, raw, held) /\ IdsOf(s) /\ s.evals \in Nat
      /\ s.simEvals \in Nat /\ Shaped(s)
      /\ DOMAIN raw \subseteq Int /\ DOMAIN s.simIds \subseteq Int
  BY DEF MapsOf, StateType, SimOf
<1>2. M \subseteq DOMAIN s.simIds
  BY DEF Matched
<1>3. Rekeys(s, raw, M, resps)
  BY <1>1, SimResponsesFacts
<1>4. /\ \A i, j \in DOMAIN s.simIds : s.simIds[i] = s.simIds[j] => i = j
      /\ \A x, r \in DOMAIN s.rawIds : s.rawIds[x] = s.rawIds[r] => x = r
  BY <1>1, OneToOne
<1>5. y = Rekeyed(d, resps)
  BY DEF Sync
<1>6. Shaped(d) /\ d.rawIds = s.rawIds /\ d.lists = s.lists
  BY <1>1, CollectedFields
<1>7. PICK Q : PlanOf(c, m, s, raw, n, q, Q)
  BY DEF Planned
<1>8. Ordered(DOMAIN s.numFD, n, q)
  BY <1>1, NumFDOrder
<1>9. s.lists = NoLists /\ (\A k \in DOMAIN s.numFD : ~s.asked[k].asv.est)
      /\ \A i \in 1 .. n : PlanAt(c, m, s, raw, q[i], Q[i - 1], Q[i])
  BY <1>7 DEF PlanOf
<1> HIDE DEF d, resps, M, y, n, q
<1>10. RekeysTo(d, known, done, resps, y)
  BY <1>5, <1>6, RekeyedFields
<1>11. /\ y.state.lists = s.lists
       /\ y.resps = [k \in done |->
                      Unmerged(resps[CHOOSE r \in known : d.rawIds[r] = k])]
  BY <1>6, <1>10 DEF RekeysTo
<1>12. ASSUME NEW k \in done
       PROVE  k \in DOMAIN s.numFD /\ OwnAt(m, s, k, y.resps[k])
  <2> DEFINE r == CHOOSE r \in known : d.rawIds[r] = k
  <2>1. r \in known /\ d.rawIds[r] = k
    OBVIOUS
  <2>2. y.resps[k] = Unmerged(resps[r])
    BY <1>11
  <2> HIDE DEF r
  <2>3. r \in DOMAIN resps /\ r \in DOMAIN s.rawIds /\ s.rawIds[r] = k
    BY <1>6, <2>1
  <2>4. k \in DOMAIN s.numFD /\ r \in Int
    BY <1>1, <2>3 DEF IdsOf
  <2>5. \A x \in DOMAIN s.rawIds : s.rawIds[x] = k => x = r
    BY <1>4, <2>3
  <2>6. PICK i \in 1 .. n : q[i] = k
    BY <1>8, <2>4 DEF Ordered
  <2> DEFINE before == Q[i - 1]
             after == Q[i]
  <2>7. PlanAt(c, m, s, raw, k, before, after) /\ ~s.asked[k].asv.est
    BY <1>9, <2>4, <2>6
  <2> HIDE DEF before, after
  <2>8. OwnAt(m, s, k, Unmerged(resps[r]))
    BY <1>2, <1>3, <1>4, <2>3, <2>4, <2>5, <2>7, PlainOwn
  <2>9. QED
    BY <2>2, <2>4, <2>8
<1>13. DOMAIN y.resps = done
  BY <1>11
<1> HIDE DEF done
<1>14. QED
  BY <1>9, <1>11, <1>12, <1>13 DEF SyncOwn, y

LEMMA SyncAllOwn ==
  ASSUME config \in Configurations, NEW m \in Models, NEW s, StateType(s),
         raw \in Seq(TagSet), MapsOf(m, s, raw, pending \cup cached),
         Planned(config, m, s, raw)
  PROVE  SyncOwn(m, s, pending) /\ Sync(s, pending).state.lists = NoLists
<1> DEFINE held == pending \cup cached
           d == Collected(s, pending)
           f == SimResponses(s, raw, pending)
           y == Sync(s, pending)
           ids == InOrder(DOMAIN s.rawIds)
           fds == InOrder(DOMAIN s.numFD)
           n == Cardinality(DOMAIN s.rawIds)
           done == DonePairs(d, f)
           w == PairsWalk(d, ids, fds, f)
<1>1. CASE ~s.est
  <2>1. MapsOf(m, s, raw, held)
    OBVIOUS
  <2> HIDE DEF held
  <2>2. QED
    BY <1>1, <2>1, SyncPlainOwn
<1>2. CASE s.est
  <2>1. /\ SimOf(m, s, raw, held) /\ IdsOf(s) /\ s.evals \in Nat
        /\ s.simEvals \in Nat /\ Shaped(s) /\ MapsOf(m, s, raw, held)
        /\ DOMAIN raw \subseteq Int /\ DOMAIN s.simIds \subseteq Int
    BY DEF MapsOf, StateType, SimOf
  <2>2. Matched(s, pending) = DOMAIN s.simIds
    BY DEF Matched, Arrived, MapsOf, SimOf
  <2>a. y = MergedInStep(d, f)
    BY <1>2 DEF Sync
  <2>b. Shaped(d) /\ d.rawIds = s.rawIds /\ d.lists = s.lists
        /\ d.numFD = s.numFD
    BY <2>1, CollectedFields
  <2>c. Planned(config, m, s, raw)
    OBVIOUS
  <2> HIDE DEF held
  <2>3. Rekeys(s, raw, DOMAIN s.simIds, f)
    <3>1. Rekeys(s, raw, Matched(s, pending), f)
      BY <2>1, SimResponsesFacts
    <3>2. QED
      BY <2>2, <3>1
  <2>4. /\ \A i, j \in DOMAIN s.simIds : s.simIds[i] = s.simIds[j] => i = j
        /\ \A x, r \in DOMAIN s.rawIds : s.rawIds[x] = s.rawIds[r] => x = r
    BY <2>1, OneToOne
  <2> HIDE DEF d, f, y
  <2>5. AllHere(s, raw, f)
    <3>1. DOMAIN f \subseteq 1 .. s.simEvals
      BY <2>1, <2>3 DEF Rekeys, SimOf
    <3>2. IsFiniteSet(1 .. s.simEvals)
      <4> DEFINE e == s.simEvals
      <4>1. e \in Nat
        BY <2>1
      <4> HIDE DEF e
      <4>2. IsFiniteSet(1 .. e)
        BY <4>1, FS_Interval
      <4>3. QED
        BY <4>2 DEF e
    <3>3. IsFiniteSet(DOMAIN f) /\ DOMAIN f \subseteq Int
      <4>1. IsFiniteSet(DOMAIN f)
        BY <3>1, <3>2, FS_Subset, Zenon
      <4>2. QED
        BY <3>1, <4>1
    <3>4. DOMAIN s.rawIds \subseteq DOMAIN f
      BY <2>1, <2>3 DEF Rekeys, IdsOf
    <3>5. DOMAIN s.numFD \subseteq 1 .. s.evals
      BY <2>1 DEF IdsOf
    <3>6. QED
      BY <2>3, <2>4, <3>3, <3>4, <3>5 DEF AllHere
  <2>6. Pairs(s, n, ids, fds)
    BY <2>1, PairsFacts
  <2>7. n = Cardinality(DOMAIN s.numFD)
    <3>1. Ordered(DOMAIN s.numFD, Cardinality(DOMAIN s.numFD), fds)
      BY <2>1, NumFDOrder
    <3>2. Len(fds) = n
      BY <2>6 DEF Pairs
    <3>3. QED
      BY <3>1, <3>2 DEF Ordered
  <2>8. PICK Q : PlanOf(config, m, s, raw, n, fds, Q)
    BY <2>7, <2>c DEF Planned
  <2>9. MergesTo(d, ids, fds, done, f, y)
    <3>1. ids = InOrder(DOMAIN d.rawIds) /\ fds = InOrder(DOMAIN d.numFD)
      BY <2>b
    <3>2. QED
      BY <2>a, <2>b, <3>1, MergedFields
  <2>10. done = {i \in 1 .. MinOf(Len(ids), Len(fds)) : ids[i] \in DOMAIN f}
    BY <2>b DEF DonePairs
  <2> HIDE DEF ids, fds, n, done
  <2>11. w[n].lists = NoLists /\ \A i \in 1 .. n : OwnAt(m, s, fds[i], w[i].response)
    BY <2>5, <2>6, <2>8, <2>b, WalkOwn
  <2>12. /\ y.state.lists = w[MinOf(Len(ids), Len(fds))].lists
         /\ y.resps = [k \in {fds[i] : i \in done} |->
                         w[CHOOSE i \in done : fds[i] = k].response]
    BY <2>9 DEF MergesTo
  <2> HIDE DEF w
  <2>13. MinOf(Len(ids), Len(fds)) = n /\ done = 1 .. n
         /\ \A i \in 1 .. n : fds[i] \in DOMAIN s.numFD
    BY <2>5, <2>6, <2>10 DEF Pairs, AllHere
  <2>14. ASSUME NEW k \in {fds[i] : i \in done}
         PROVE  k \in DOMAIN s.numFD /\ OwnAt(m, s, k, y.resps[k])
    <3> DEFINE i == CHOOSE i \in done : fds[i] = k
    <3>1. i \in done /\ fds[i] = k
      OBVIOUS
    <3>2. y.resps[k] = w[i].response
      BY <2>12
    <3> HIDE DEF i
    <3>3. QED
      BY <2>11, <2>13, <3>1, <3>2
  <2>15. DOMAIN y.resps = {fds[i] : i \in done}
    BY <2>12
  <2>16. QED
    BY <2>11, <2>12, <2>13, <2>14, <2>15 DEF SyncOwn, y
<1>3. QED
  BY <1>1, <1>2

-----------------------------------------------------------------------------
(* The plan is kept.                                                       *)

(* What another step must leave of evaluation k.                           *)
Leaves(s, log, t, long, k) ==
  /\ t.asked[k].asv = s.asked[k].asv /\ t.numFD[k] = s.numFD[k]
  /\ \A r \in DOMAIN s.rawIds :
       s.rawIds[r] = k => r \in DOMAIN t.rawIds /\ t.rawIds[r] = k
  /\ \A i \in DOMAIN s.simIds :
       log[i].eval = k => /\ i \in DOMAIN t.simIds /\ long[i] = log[i]
                          /\ t.simIds[i] = s.simIds[i]

LEMMA PlanAtKept ==
  ASSUME NEW c, NEW m, NEW s, NEW log, NEW k, NEW before, NEW after,
         PlanAt(c, m, s, log, k, before, after), NEW t, NEW long,
         Leaves(s, log, t, long, k)
  PROVE  PlanAt(c, m, t, long, k, before, after)
<1> DEFINE asv == s.asked[k].asv
<1>1. PICK hit \in BOOLEAN :
        /\ IF asv.est THEN AsvOf(c, asv) /\ Separate(c, asv)
                      ELSE asv = [est |-> FALSE]
        /\ s.numFD[k] = IF asv.est THEN Len(SlotsFor(c, asv, hit)) ELSE -1
        /\ \E r \in DOMAIN s.rawIds :
             s.rawIds[r] = k /\ Block(m, k, s, log, r, SlotsFor(c, asv, hit))
        /\ before = IF asv.est THEN Joined(Entry(c, m, k, asv, hit), after)
                               ELSE after
  BY DEF PlanAt
<1>2. t.asked[k].asv = asv /\ t.numFD[k] = s.numFD[k]
  BY DEF Leaves
<1> DEFINE slots == SlotsFor(c, asv, hit)
<1>3. PICK r \in DOMAIN s.rawIds :
        s.rawIds[r] = k /\ Block(m, k, s, log, r, slots)
  BY <1>1
<1> HIDE DEF asv, slots
<1>4. r \in DOMAIN t.rawIds /\ t.rawIds[r] = k
  BY <1>3 DEF Leaves
<1>5. Block(m, k, t, long, r, slots)
  <2>1. SUFFICES ASSUME NEW j \in 1 .. Len(slots)
                 PROVE  \E i \in DOMAIN t.simIds :
                          t.simIds[i] = r + j - 1
                          /\ long[i] = Tag(m, k, slots[j])
    BY DEF Block
  <2>2. PICK i \in DOMAIN s.simIds :
          s.simIds[i] = r + j - 1 /\ log[i] = Tag(m, k, slots[j])
    BY <1>3 DEF Block
  <2>3. log[i].eval = k
    BY <2>2 DEF Tag
  <2>4. i \in DOMAIN t.simIds /\ long[i] = log[i] /\ t.simIds[i] = s.simIds[i]
    BY <2>3 DEF Leaves
  <2>5. QED
    BY <2>2, <2>4
<1>6. QED
  BY <1>1, <1>2, <1>4, <1>5, Zenon DEF PlanAt, slots, asv

LEMMA PlanAtJoined ==
  ASSUME NEW c \in Configurations, NEW m \in Models, NEW s, NEW log,
         NEW k \in Nat, NEW before, NEW after \in ListsSet,
         PlanAt(c, m, s, log, k, before, after), s.asked[k].asv \in AsvSet,
         NEW e \in ListsSet
  PROVE  PlanAt(c, m, s, log, k, Joined(before, e), Joined(after, e))
<1> DEFINE asv == s.asked[k].asv
<1>1. PICK hit \in BOOLEAN :
        /\ IF asv.est THEN AsvOf(c, asv) /\ Separate(c, asv)
                      ELSE asv = [est |-> FALSE]
        /\ s.numFD[k] = IF asv.est THEN Len(SlotsFor(c, asv, hit)) ELSE -1
        /\ \E r \in DOMAIN s.rawIds :
             s.rawIds[r] = k /\ Block(m, k, s, log, r, SlotsFor(c, asv, hit))
        /\ before = IF asv.est THEN Joined(Entry(c, m, k, asv, hit), after)
                               ELSE after
  BY DEF PlanAt
<1>0. asv \in AsvSet
  OBVIOUS
<1> DEFINE x == Entry(c, m, k, asv, hit)
<1> HIDE DEF asv
<1>2. Joined(before, e) = IF asv.est THEN Joined(x, Joined(after, e))
                                     ELSE Joined(after, e)
  <2>1. CASE asv.est
    <3>1. AsvOf(c, asv) /\ before = Joined(x, after)
      BY <1>1, <2>1
    <3>2. x \in ListsSet
      BY <1>0, <3>1, EntryType
    <3> HIDE DEF x
    <3>3. Joined(Joined(x, after), e) = Joined(x, Joined(after, e))
      BY <3>2, JoinedAssociates
    <3>4. QED
      BY <2>1, <3>1, <3>3
  <2>2. CASE ~asv.est
    BY <1>1, <2>2
  <2>3. QED
    BY <2>1, <2>2
<1>3. QED
  BY <1>1, <1>2, Zenon DEF PlanAt, asv

(* The largest id comes last.                                              *)
LEMMA OrderAppend ==
  ASSUME NEW A, IsFiniteSet(A), A \subseteq Int, NEW x \in Int,
         \A y \in A : y < x
  PROVE  /\ Cardinality(A) \in Nat
         /\ Cardinality(A \cup {x}) = Cardinality(A) + 1
         /\ \A i \in 1 .. Cardinality(A) :
              InOrder(A \cup {x})[i] = InOrder(A)[i]
         /\ InOrder(A \cup {x})[Cardinality(A) + 1] = x
<1> DEFINE B == A \cup {x}
           n == Cardinality(A)
           p == InOrder(A)
           q == InOrder(B)
<1>1. x \notin A
  OBVIOUS
<1>2. IsFiniteSet(B) /\ Cardinality(B) = n + 1 /\ B \subseteq Int /\ n \in Nat
  BY <1>1, FS_AddElement, FS_CardinalityType
<1>3. ASSUME NEW y \in A PROVE Place(B, y) = Place(A, y)
  <2>1. {z \in B : z < y} = {z \in A : z < y}
    <3>1. y < x /\ y \in Int
      OBVIOUS
    <3>2. ~(x < y)
      BY <3>1
    <3>3. QED
      BY <3>2
  <2>2. QED
    BY <2>1 DEF Place
<1>4. Place(B, x) = n
  <2>1. {z \in B : z < x} = A
    <3>1. ~(x < x)
      OBVIOUS
    <3>2. QED
      BY <3>1
  <2>2. QED
    BY <2>1 DEF Place
<1>5. /\ \A i \in 1 .. n : p[i] \in A /\ Place(A, p[i]) = i - 1
  BY OrderFacts DEF Ordered
<1>a. A \subseteq B /\ x \in B
  OBVIOUS
<1> HIDE DEF B
<1>6. \A y \in B : q[Place(B, y) + 1] = y
  BY <1>2, OrderFacts DEF Ordered
<1> HIDE DEF n, p, q
<1>7. ASSUME NEW i \in 1 .. n PROVE q[i] = p[i]
  <2> DEFINE y == p[i]
  <2>1. y \in A /\ Place(A, y) = i - 1
    BY <1>5
  <2> HIDE DEF y
  <2>2. Place(B, y) = i - 1 /\ q[Place(B, y) + 1] = y
    BY <1>3, <1>6, <1>a, <2>1
  <2>3. (i - 1) + 1 = i
    BY <1>2
  <2>4. QED
    BY <2>2, <2>3 DEF y
<1>8. q[n + 1] = x
  BY <1>4, <1>6, <1>a
<1>9. QED
  BY <1>2, <1>7, <1>8 DEF n, p, q, B

(* What evaluate_nowait() appends to the lists.                            *)
LEMMA TagsAppend ==
  ASSUME NEW s \in Seq(TagSet), NEW x \in TagSet
  PROVE  Append(s, x) = s \o <<x>>
BY AppendIsConcat

LEMMA BoolsAppend ==
  ASSUME NEW s \in Seq(BOOLEAN), NEW x \in BOOLEAN
  PROVE  Append(s, x) = s \o <<x>>
BY AppendIsConcat

LEMMA AsvsAppend ==
  ASSUME NEW s \in Seq(AsvSet), NEW x \in AsvSet
  PROVE  Append(s, x) = s \o <<x>>
BY AppendIsConcat

LEMMA ListedJoined ==
  ASSUME config \in Configurations, NEW l \in ListsSet, NEW m \in Models,
         NEW k \in Nat, NEW asv \in AsvSet, AsvOf(config, asv),
         NEW hit \in BOOLEAN
  PROVE  [Listed(l, m, k, config, asv, Initial(asv, hit), hit)
            EXCEPT !.sets = Append(@, asv)]
           = Joined(l, Entry(config, m, k, asv, hit))
<1> DEFINE p == Initial(asv, hit)
           x == Tag(m, k, X0)
           d == Tagged(m, k, DeltasFrom(config, asv)[1])
           y == Listed(l, m, k, config, asv, p, hit)
           e == Entry(config, m, k, asv, hit)
           z == [y EXCEPT !.sets = Append(@, asv)]
<1>1. p \in BOOLEAN /\ x \in TagSet
  BY DEF Initial, X0, Slot, Tag, TagSet
<1>2. /\ l.sets \in Seq(AsvSet) /\ l.initialMaps \in Seq(BOOLEAN)
      /\ l.dbCaptures \in Seq(BOOLEAN) /\ l.dbResponses \in Seq(TagSet)
      /\ l.deltas \in Seq(TagSet)
  BY ListsFields
<1>3. y = [sets |-> l.sets, initialMaps |-> Append(l.initialMaps, p),
           dbCaptures |-> Append(l.dbCaptures, hit),
           dbResponses |-> IF hit THEN Append(l.dbResponses, x)
                                  ELSE l.dbResponses,
           deltas |-> l.deltas \o d]
  BY DEF Listed
<1>4. /\ e.sets = <<asv>> /\ e.initialMaps = <<p>> /\ e.dbCaptures = <<hit>>
      /\ e.dbResponses = (IF hit THEN <<x>> ELSE <<>>) /\ e.deltas = d
  BY DEF Entry
<1>a. z = [y EXCEPT !.sets = Append(@, asv)]
  OBVIOUS
<1>b. z = [Listed(l, m, k, config, asv, Initial(asv, hit), hit)
             EXCEPT !.sets = Append(@, asv)]
  OBVIOUS
<1> HIDE DEF p, x, d, y, e, z
<1>5. Append(l.sets, asv) = l.sets \o e.sets
  BY <1>2, <1>4, AsvsAppend, Zenon
<1>6. Append(l.initialMaps, p) = l.initialMaps \o e.initialMaps
  BY <1>1, <1>2, <1>4, BoolsAppend, Zenon
<1>7. Append(l.dbCaptures, hit) = l.dbCaptures \o e.dbCaptures
  BY <1>2, <1>4, BoolsAppend, Zenon
<1>8. (IF hit THEN Append(l.dbResponses, x) ELSE l.dbResponses)
        = l.dbResponses \o e.dbResponses
  <2> DEFINE g == l.dbResponses
  <2>1. g \in Seq(TagSet)
    BY <1>2
  <2> HIDE DEF g
  <2>2. Append(g, x) = g \o <<x>> /\ g \o <<>> = g
    BY <1>1, <2>1, TagsAppend, TagsJoin
  <2>3. QED
    BY <1>4, <2>2 DEF g
<1> DEFINE a1 == l.sets \o e.sets
           a2 == l.initialMaps \o e.initialMaps
           a3 == l.dbCaptures \o e.dbCaptures
           a4 == l.dbResponses \o e.dbResponses
           a5 == l.deltas \o e.deltas
<1>9. y = [sets |-> l.sets, initialMaps |-> a2, dbCaptures |-> a3,
           dbResponses |-> a4, deltas |-> a5]
  BY <1>3, <1>4, <1>6, <1>7, <1>8, Zenon
<1>10. Append(y.sets, asv) = a1
  BY <1>5, <1>9
<1>11. Joined(l, e) = [sets |-> a1, initialMaps |-> a2, dbCaptures |-> a3,
                       dbResponses |-> a4, deltas |-> a5]
  BY DEF Joined
<1> HIDE DEF a1, a2, a3, a4, a5
<1>12. z = [sets |-> a1, initialMaps |-> a2, dbCaptures |-> a3,
            dbResponses |-> a4, deltas |-> a5]
  <2>1. z = [y EXCEPT !.sets = a1]
    BY <1>10, <1>a
  <2>2. QED
    BY <1>9, <2>1
<1>13. QED
  BY <1>11, <1>12, <1>b DEF e

(* A request is separate.                                                  *)
LEMMA RequestSeparate ==
  ASSUME FixedSeparate, config \in Configurations, NEW asv, NEW hit, NEW slots,
         Request(asv, hit, slots)
  PROVE  /\ Separate(config, asv) /\ AsvOf(config, asv) /\ hit \in BOOLEAN
         /\ slots = SlotsFor(config, asv, hit) /\ slots \in Seq(Slot)
         /\ asv.est \in BOOLEAN /\ (asv.est => asv \in AsvSet)
         /\ ~asv.est => slots = Plain
<1>1. PICK request \in config.requests, short \in BOOLEAN :
        asv = ManageAsv(config, request, short)
  BY DEF Request
<1>2. Separate(config, asv)
  BY <1>1 DEF FixedSeparate, Separates
<1>3. QED
  BY <1>2 DEF Request, SlotsOf, SlotsFor

(* The raw evaluations that evaluate_nowait() starts are a block.          *)
LEMMA StartedBlock ==
  ASSUME NEW m \in Models, NEW s, StateType(s), raw \in Seq(TagSet), NEW held,
         SimOf(m, s, raw, held), NEW slots \in Seq(Slot), NEW t,
         StartedTo(s, t, raw, slots)
  PROVE  Block(m, s.evals + 1, t, raw \o Tagged(m, s.evals + 1, slots),
               s.simEvals + 1, slots)
<1> DEFINE k == s.evals + 1
           n == Len(raw)
           e == Len(slots)
           long == raw \o Tagged(m, k, slots)
           news == (n + 1) .. (n + e)
<1>1. /\ k \in Nat /\ s.simEvals \in Nat /\ n \in Nat /\ e \in Nat
      /\ DOMAIN raw = 1 .. n
  BY DEF StateType
<1>2. Longer(long, raw, n, e, m, k, slots)
  BY <1>1, LongerLog
<1>3. /\ DOMAIN t.simIds = DOMAIN s.simIds \cup news
      /\ \A i \in news : i \notin DOMAIN s.simIds
                           => t.simIds[i] = s.simEvals + (i - n)
  BY DEF Inserted, StartedTo
<1>4. DOMAIN s.simIds \subseteq 1 .. n
  BY <1>1 DEF SimOf
<1> HIDE DEF k, n, e, long
<1>5. ASSUME NEW j \in 1 .. e
      PROVE  \E i \in DOMAIN t.simIds :
               /\ t.simIds[i] = (s.simEvals + 1) + j - 1
               /\ long[i] = Tag(m, k, slots[j])
  <2> DEFINE i == n + j
  <2>1. i \in news /\ i \notin 1 .. n /\ i - n = j
    BY <1>1
  <2> HIDE DEF i
  <2>2. i \in DOMAIN t.simIds /\ t.simIds[i] = s.simEvals + j
    BY <1>3, <1>4, <2>1
  <2>3. long[i] = Tag(m, k, slots[j])
    BY <1>2, <2>1 DEF Longer
  <2>4. s.simEvals + j = (s.simEvals + 1) + j - 1
    BY <1>1
  <2>5. QED
    BY <2>2, <2>3, <2>4
<1>6. QED
  BY <1>5 DEF Block, k, n, e, long

(* What evaluate_nowait() leaves of the evaluations before.                *)
LEMMA StartedLeaves ==
  ASSUME NEW m \in Models, NEW s, StateType(s), raw \in Seq(TagSet), NEW held,
         SimOf(m, s, raw, held), IdsOf(s), NEW slots \in Seq(Slot), NEW t,
         StartedTo(s, t, raw, slots), NEW a \in AskSet, NEW num,
         t.asked = Append(s.asked, a),
         t.numFD = With(s.numFD, s.evals + 1, num), NEW k \in DOMAIN s.numFD
  PROVE  Leaves(s, raw, t, raw \o Tagged(m, s.evals + 1, slots), k)
<1> DEFINE x == s.evals + 1
           long == raw \o Tagged(m, x, slots)
           r1 == s.simEvals + 1
<1>1. /\ x \in Nat /\ s.simEvals \in Nat /\ s.evals \in Nat
      /\ DOMAIN raw = 1 .. Len(raw)
      /\ s.asked \in Seq(AskSet) /\ Len(s.asked) = s.evals
  BY DEF StateType
<1>2. Longer(long, raw, Len(raw), Len(slots), m, x, slots)
  BY <1>1, LongerLog
<1>3. k \in 1 .. s.evals /\ k # x
  BY <1>1 DEF IdsOf
<1>4. t.numFD[k] = s.numFD[k]
  BY <1>3 DEF With
<1>5. t.asked[k] = s.asked[k]
  BY <1>1, <1>3, AppendProperties
<1>6. ASSUME NEW r \in DOMAIN s.rawIds
      PROVE  r \in DOMAIN t.rawIds /\ t.rawIds[r] = s.rawIds[r]
  <2>1. r \in 1 .. s.simEvals
    BY DEF IdsOf
  <2>2. r # r1
    BY <1>1, <2>1
  <2>3. t.rawIds = With(s.rawIds, r1, x)
    BY DEF StartedTo
  <2> HIDE DEF r1, x
  <2>4. QED
    BY <2>2, <2>3 DEF With
<1>7. ASSUME NEW i \in DOMAIN s.simIds
      PROVE  /\ i \in DOMAIN t.simIds /\ long[i] = raw[i]
             /\ t.simIds[i] = s.simIds[i]
  <2>1. i \in 1 .. Len(raw)
    BY <1>1 DEF SimOf
  <2>2. long[i] = raw[i]
    BY <1>2, <2>1 DEF Longer
  <2>3. QED
    BY <2>2 DEF StartedTo, Inserted
<1>8. QED
  BY <1>4, <1>5, <1>6, <1>7 DEF Leaves

(* evaluate_nowait() puts one more evaluation behind the others.           *)
LEMMA NowaitPlan ==
  ASSUME FixedSeparate, config \in Configurations, NEW m \in Models, NEW s,
         StateType(s), raw \in Seq(TagSet), NEW held, MapsOf(m, s, raw, held),
         Planned(config, m, s, raw), NEW asv, NEW hit, NEW slots,
         Request(asv, hit, slots), NEW t, StartedTo(s, t, raw, slots),
         NEW a \in AskSet, t.asked = Append(s.asked, a),
         a.asv = IF asv.est THEN asv ELSE [est |-> FALSE],
         t.est = (asv.est \/ s.est),
         t.numFD = With(s.numFD, s.evals + 1,
                        IF asv.est THEN Len(slots) ELSE -1),
         t.lists = IF asv.est
                     THEN [Listed(s.lists, m, s.evals + 1, config, asv,
                                  Initial(asv, hit), hit)
                             EXCEPT !.sets = Append(@, asv)]
                     ELSE s.lists
  PROVE  Planned(config, m, t, raw \o Tagged(m, s.evals + 1, slots))
<1> DEFINE k == s.evals + 1
           long == raw \o Tagged(m, k, slots)
           num == IF asv.est THEN Len(slots) ELSE -1
           A == DOMAIN s.numFD
           n == Cardinality(A)
           q == InOrder(A)
           B == DOMAIN t.numFD
           p == InOrder(B)
           e == Entry(config, m, k, asv, hit)
<1>1. /\ SimOf(m, s, raw, held) /\ IdsOf(s) /\ s.evals \in Nat /\ k \in Nat
      /\ s.simEvals \in Nat /\ s.est \in BOOLEAN
      /\ s.asked \in Seq(AskSet) /\ Len(s.asked) = s.evals
  BY DEF MapsOf, StateType
<1>2. /\ Separate(config, asv) /\ AsvOf(config, asv) /\ hit \in BOOLEAN
      /\ slots = SlotsFor(config, asv, hit) /\ slots \in Seq(Slot)
      /\ asv.est \in BOOLEAN /\ (asv.est => asv \in AsvSet)
      /\ ~asv.est => slots = Plain
  BY RequestSeparate
<1>3. PICK Q : PlanOf(config, m, s, raw, n, q, Q)
  BY DEF Planned
<1>4. /\ Q \in [0 .. n -> ListsSet] /\ Q[n] = NoLists /\ Q[0] = s.lists
      /\ \A i \in 1 .. n : PlanAt(config, m, s, raw, q[i], Q[i - 1], Q[i])
      /\ ~s.est => s.lists = NoLists
                   /\ \A j \in DOMAIN s.numFD : ~s.asked[j].asv.est
  BY <1>3 DEF PlanOf
<1>5. Ordered(A, n, q)
  BY <1>1, NumFDOrder
<1>6. /\ B = A \cup {k} /\ t.numFD[k] = num
  BY DEF With
<1>7. /\ n \in Nat /\ Cardinality(B) = n + 1
      /\ \A i \in 1 .. n : p[i] = q[i] /\ q[i] \in A
      /\ p[n + 1] = k
  <2>1. A \subseteq 1 .. s.evals
    BY <1>1 DEF IdsOf
  <2>2. IsFiniteSet(A)
    <3> DEFINE x == s.evals
    <3>1. x \in Nat
      BY <1>1
    <3> HIDE DEF x
    <3>2. IsFiniteSet(1 .. x)
      BY <3>1, FS_Interval
    <3>3. A \subseteq 1 .. x
      BY <2>1 DEF x
    <3>4. QED
      BY <3>2, <3>3, FS_Subset, Zenon
  <2>3. A \subseteq Int /\ k \in Int /\ \A y \in A : y < k
    BY <1>1, <2>1
  <2> HIDE DEF A, k
  <2>4. /\ Cardinality(A) \in Nat
        /\ Cardinality(A \cup {k}) = Cardinality(A) + 1
        /\ \A i \in 1 .. Cardinality(A) : InOrder(A \cup {k})[i] = InOrder(A)[i]
        /\ InOrder(A \cup {k})[Cardinality(A) + 1] = k
    BY <2>2, <2>3, OrderAppend
  <2>5. QED
    BY <1>5, <1>6, <2>4 DEF Ordered
<1>8. t.asked[k] = a /\ \A j \in 1 .. s.evals : t.asked[j] = s.asked[j]
  BY <1>1, AppendProperties
<1>9. Block(m, k, t, long, s.simEvals + 1, slots)
  BY <1>1, <1>2, StartedBlock
<1>10. /\ s.simEvals + 1 \in DOMAIN t.rawIds
       /\ t.rawIds[s.simEvals + 1] = k
  BY DEF StartedTo, With
<1>11. ASSUME NEW j \in A PROVE Leaves(s, raw, t, long, j)
  <2> HIDE DEF num
  <2>1. t.numFD = With(s.numFD, s.evals + 1, num)
    BY DEF num
  <2>2. QED
    BY <1>1, <1>2, <2>1, StartedLeaves
<1>a. asv.est => e \in ListsSet
  <2>1. CASE asv.est
    <3> HIDE DEF k
    <3>1. QED
      BY <1>1, <1>2, <2>1, EntryType
  <2>2. QED
    BY <2>1
<1>b. asv.est => t.lists = Joined(s.lists, e)
  <2>1. CASE asv.est
    <3>1. t.lists = [Listed(s.lists, m, k, config, asv, Initial(asv, hit), hit)
                       EXCEPT !.sets = Append(@, asv)]
      BY <2>1
    <3> DEFINE l == s.lists
    <3>2. l \in ListsSet
      <4>1. 0 \in 0 .. n
        BY <1>7
      <4>2. QED
        BY <1>4, <4>1
    <3> HIDE DEF l, k
    <3>3. [Listed(l, m, k, config, asv, Initial(asv, hit), hit)
             EXCEPT !.sets = Append(@, asv)]
            = Joined(l, Entry(config, m, k, asv, hit))
      BY <1>1, <1>2, <2>1, <3>2, ListedJoined
    <3>4. QED
      BY <3>1, <3>3 DEF l
  <2>2. QED
    BY <2>1
<1>c. a.asv = IF asv.est THEN asv ELSE [est |-> FALSE]
  OBVIOUS
<1>d. t.est = (asv.est \/ s.est) /\ (~asv.est => t.lists = s.lists)
  OBVIOUS
<1> DEFINE Ext(x) == IF asv.est THEN Joined(x, e) ELSE x
           R == [i \in 0 .. (n + 1) |-> IF i = n + 1 THEN NoLists ELSE Ext(Q[i])]
<1>12. ASSUME NEW x \in ListsSet PROVE Ext(x) \in ListsSet
  <2>1. CASE asv.est
    <3>1. e \in ListsSet
      BY <1>a, <2>1
    <3> HIDE DEF e
    <3>2. QED
      BY <2>1, <3>1, JoinedFields
  <2>2. CASE ~asv.est
    BY <2>2
  <2>3. QED
    BY <2>1, <2>2
<1> HIDE DEF k, long, num, A, n, q, B, p, e
<1>13. /\ R[n + 1] = NoLists /\ \A i \in 0 .. n : R[i] = Ext(Q[i])
       /\ R \in [0 .. (n + 1) -> ListsSet]
  <2> HIDE DEF Ext
  <2>1. \A i \in 0 .. n : i # n + 1 /\ i \in 0 .. (n + 1)
    BY <1>7
  <2>2. n + 1 \in 0 .. (n + 1)
    BY <1>7
  <2>3. R[n + 1] = NoLists /\ \A i \in 0 .. n : R[i] = Ext(Q[i])
    BY <2>1, <2>2
  <2>4. ASSUME NEW i \in 0 .. (n + 1) PROVE R[i] \in ListsSet
    <3>1. i = n + 1 \/ i \in 0 .. n
      BY <1>7
    <3>2. QED
      BY <1>4, <1>12, <2>3, <3>1, NoListsType
  <2>5. QED
    BY <2>3, <2>4
<1> HIDE DEF R
<1>14. R[0] = t.lists
  <2>1. 0 \in 0 .. n
    BY <1>7
  <2>2. QED
    BY <1>4, <1>13, <1>b, <1>d, <2>1
<1>15. ASSUME NEW i \in 1 .. n
       PROVE  PlanAt(config, m, t, long, p[i], R[i - 1], R[i])
  <2> DEFINE j == q[i]
             before == Q[i - 1]
             after == Q[i]
  <2>1. p[i] = j /\ j \in A /\ PlanAt(config, m, s, raw, j, before, after)
    BY <1>4, <1>7
  <2>2. i \in 0 .. n /\ i - 1 \in 0 .. n
    BY <1>7
  <2>3. R[i - 1] = Ext(before) /\ R[i] = Ext(after) /\ after \in ListsSet
    BY <1>4, <1>13, <2>2
  <2>4. j \in 1 .. s.evals
    BY <1>1, <2>1 DEF IdsOf, A
  <2> HIDE DEF j, before, after
  <2>5. s.asked[j].asv \in AsvSet /\ j \in Nat
    BY <2>4, AskedType
  <2>6. PlanAt(config, m, s, raw, j, Ext(before), Ext(after))
    <3>1. CASE asv.est
      <4>1. e \in ListsSet
        BY <1>a, <3>1
      <4>2. PlanAt(config, m, s, raw, j, Joined(before, e), Joined(after, e))
        BY <2>1, <2>3, <2>5, <4>1, PlanAtJoined
      <4>3. QED
        BY <3>1, <4>2
    <3>2. CASE ~asv.est
      BY <2>1, <3>2
    <3>3. QED
      BY <3>1, <3>2
  <2> HIDE DEF Ext
  <2>7. PlanAt(config, m, t, long, j, R[i - 1], R[i])
    <3> DEFINE x == R[i - 1]
               y == R[i]
    <3>1. PlanAt(config, m, s, raw, j, x, y) /\ Leaves(s, raw, t, long, j)
      BY <1>11, <2>1, <2>3, <2>6
    <3> HIDE DEF x, y
    <3>2. PlanAt(config, m, t, long, j, x, y)
      BY <3>1, PlanAtKept
    <3>3. QED
      BY <3>2 DEF x, y
  <2>8. QED
    BY <2>1, <2>7
<1>16. PlanAt(config, m, t, long, p[n + 1], R[n], R[n + 1])
  <2>1. n \in 0 .. n
    BY <1>7
  <2>2. R[n] = Ext(NoLists) /\ R[n + 1] = NoLists /\ p[n + 1] = k
    BY <1>4, <1>7, <1>13, <2>1
  <2>3. R[n] = IF asv.est THEN Joined(e, NoLists) ELSE NoLists
    <3>1. CASE asv.est
      <4>1. e \in ListsSet
        BY <1>a, <3>1
      <4>2. Joined(e, NoLists) = e /\ Joined(NoLists, e) = e
        BY <4>1, JoinedNone
      <4>3. QED
        BY <2>2, <3>1, <4>2
    <3>2. CASE ~asv.est
      BY <2>2, <3>2
    <3>3. QED
      BY <3>1, <3>2
  <2> DEFINE x == t.asked[k].asv
  <2>4. x = IF asv.est THEN asv ELSE [est |-> FALSE]
    BY <1>8, <1>c
  <2>5. x.est = asv.est /\ SlotsFor(config, x, hit) = slots
    <3>1. CASE asv.est
      BY <1>2, <2>4, <3>1
    <3>2. CASE ~asv.est
      <4>1. x = [est |-> FALSE] /\ slots = Plain
        BY <1>2, <2>4, <3>2
      <4> HIDE DEF x
      <4>2. x.est = FALSE
        BY <4>1
      <4>3. SlotsFor(config, x, hit) = Plain
        BY <4>2 DEF SlotsFor
      <4>4. asv.est \in BOOLEAN
        BY <1>2, Zenon
      <4>5. x.est = asv.est
        BY <3>2, <4>2, <4>4
      <4>6. QED
        BY <4>1, <4>3, <4>5
    <3>3. QED
      BY <3>1, <3>2
  <2>6. /\ IF x.est THEN AsvOf(config, x) /\ Separate(config, x)
                    ELSE x = [est |-> FALSE]
        /\ t.numFD[k] = IF x.est THEN Len(SlotsFor(config, x, hit)) ELSE -1
        /\ R[n] = IF x.est THEN Joined(Entry(config, m, k, x, hit), R[n + 1])
                           ELSE R[n + 1]
    BY <1>2, <1>6, <2>2, <2>3, <2>4, <2>5 DEF num, e
  <2>7. \E r \in DOMAIN t.rawIds :
          t.rawIds[r] = k /\ Block(m, k, t, long, r, SlotsFor(config, x, hit))
    BY <1>9, <1>10, <2>5
  <2>8. PlanAt(config, m, t, long, k, R[n], R[n + 1])
    BY <1>2, <2>6, <2>7 DEF PlanAt
  <2>9. QED
    BY <2>2, <2>8
<1>17. ASSUME ~t.est
       PROVE  t.lists = NoLists /\ \A j \in B : ~t.asked[j].asv.est
  <2>1. ~asv.est /\ ~s.est
    BY <1>17, <1>d
  <2>2. t.lists = NoLists
    BY <1>4, <1>d, <2>1
  <2>3. ~t.asked[k].asv.est
    BY <1>8, <1>c, <2>1
  <2>4. ASSUME NEW j \in A PROVE ~t.asked[j].asv.est
    <3>1. j \in 1 .. s.evals
      BY <1>1 DEF IdsOf, A
    <3>2. QED
      BY <1>4, <1>8, <2>1, <3>1 DEF A
  <2>5. QED
    BY <1>6, <2>2, <2>3, <2>4
<1>18. PlanOf(config, m, t, long, n + 1, p, R)
  <2>1. ASSUME NEW i \in 1 .. (n + 1)
        PROVE  PlanAt(config, m, t, long, p[i], R[i - 1], R[i])
    <3>1. CASE i = n + 1
      <4>1. i - 1 = n
        BY <1>7, <3>1
      <4>2. QED
        BY <1>16, <3>1, <4>1
    <3>2. CASE i # n + 1
      <4>1. i \in 1 .. n
        BY <1>7, <3>2
      <4>2. QED
        BY <1>15, <4>1
    <3>3. QED
      BY <3>1, <3>2
  <2>2. QED
    BY <1>13, <1>14, <1>17, <2>1 DEF PlanOf, B
<1>19. PlanOf(config, m, t, long, Cardinality(B), p, R)
  BY <1>7, <1>18
<1>20. QED
  BY <1>19 DEF Planned, B, p, long, k

(* Nothing is outstanding.                                                 *)
LEMMA EmptyPlan ==
  ASSUME NEW c, NEW m, NEW t, NEW log, DOMAIN t.numFD = {}, t.lists = NoLists
  PROVE  Planned(c, m, t, log)
<1> DEFINE Q == [i \in 0 .. 0 |-> NoLists]
           n == Cardinality(DOMAIN t.numFD)
           q == InOrder(DOMAIN t.numFD)
<1>1. n = 0
  BY FS_EmptySet
<1>2. Q[0] = NoLists /\ Q \in [0 .. 0 -> ListsSet]
  BY NoListsType
<1> HIDE DEF Q, q, n
<1>3. PlanOf(c, m, t, log, 0, q, Q)
  BY <1>2 DEF PlanOf
<1>4. PlanOf(c, m, t, log, n, q, Q)
  BY <1>1, <1>3
<1>5. QED
  BY <1>4 DEF Planned, n, q

LEMMA EmptyLists ==
  ASSUME NEW c, NEW m, NEW s, NEW log, DOMAIN s.numFD = {},
         Planned(c, m, s, log)
  PROVE  s.lists = NoLists
<1> DEFINE n == Cardinality(DOMAIN s.numFD)
           q == InOrder(DOMAIN s.numFD)
<1>1. n = 0
  BY FS_EmptySet
<1>2. PICK Q : PlanOf(c, m, s, log, n, q, Q)
  BY DEF Planned
<1> HIDE DEF n, q
<1>3. QED
  BY <1>1, <1>2 DEF PlanOf

(* Raw evaluations of another model are behind.                            *)
LEMMA PlannedLonger ==
  ASSUME NEW c, NEW m, NEW s, NEW log, Planned(c, m, s, log), NEW long,
         \A i \in DOMAIN s.simIds : long[i] = log[i]
  PROVE  Planned(c, m, s, long)
<1> DEFINE n == Cardinality(DOMAIN s.numFD)
           q == InOrder(DOMAIN s.numFD)
<1>1. PICK Q : PlanOf(c, m, s, log, n, q, Q)
  BY DEF Planned
<1> HIDE DEF n, q
<1>2. \A k : Leaves(s, log, s, long, k)
  BY DEF Leaves
<1>3. ASSUME NEW i \in 1 .. n
      PROVE  PlanAt(c, m, s, long, q[i], Q[i - 1], Q[i])
  <2> DEFINE k == q[i]
             before == Q[i - 1]
             after == Q[i]
  <2>1. PlanAt(c, m, s, log, k, before, after) /\ Leaves(s, log, s, long, k)
    BY <1>1, <1>2 DEF PlanOf
  <2> HIDE DEF k, before, after
  <2>2. PlanAt(c, m, s, long, k, before, after)
    BY <2>1, PlanAtKept
  <2>3. QED
    BY <2>2 DEF k, before, after
<1>4. PlanOf(c, m, s, long, n, q, Q)
  BY <1>1, <1>3 DEF PlanOf
<1>5. QED
  BY <1>4 DEF Planned, n, q

(* A plain evaluation has nothing on the lists.                            *)
LEMMA PlanAtPlain ==
  ASSUME NEW c, NEW m, NEW s, NEW log, NEW k, NEW before, NEW after,
         PlanAt(c, m, s, log, k, before, after), ~s.asked[k].asv.est, NEW x
  PROVE  PlanAt(c, m, s, log, k, x, x)
BY DEF PlanAt

(* synchronize_nowait() leaves what has not arrived.                       *)
LEMMA SyncRestricts ==
  ASSUME NEW s, Shaped(s), ~s.est, NEW got
  PROVE  \E X, Y : /\ Sync(s, got).state.rawIds = Without(s.rawIds, X)
                   /\ Sync(s, got).state.numFD = Without(s.numFD, Y)
                   /\ Sync(s, got).state.est = s.est
<1> DEFINE d == Collected(s, got)
           f == SimResponses(s, raw, got)
           y == Sync(s, got)
           known == DOMAIN f \cap DOMAIN d.rawIds
           done == {d.rawIds[r] : r \in known}
<1>1. y = Rekeyed(d, f)
  BY DEF Sync
<1>2. Shaped(d) /\ d.rawIds = s.rawIds /\ d.numFD = s.numFD /\ d.est = s.est
  BY CollectedFields
<1> HIDE DEF d, f, y
<1>3. RekeysTo(d, known, done, f, y)
  BY <1>1, <1>2, RekeyedFields
<1> HIDE DEF known, done
<1>4. /\ y.state.rawIds = Without(s.rawIds, known)
      /\ y.state.numFD = Without(s.numFD, done)
      /\ y.state.est = s.est
  BY <1>2, <1>3 DEF RekeysTo
<1>5. QED
  BY <1>4 DEF y

LEMMA SyncSomePlan ==
  ASSUME NEW c, NEW m \in Models, NEW s, StateType(s), ~s.est,
         raw \in Seq(TagSet), NEW held, MapsOf(m, s, raw, held), NEW got,
         Planned(c, m, s, raw), NEW t, SyncTo(s, t, got), NEW now,
         MapsOf(m, t, raw, now), t.asked = s.asked, t.lists = NoLists
  PROVE  Planned(c, m, t, raw)
<1> DEFINE A == DOMAIN s.numFD
           n == Cardinality(A)
           q == InOrder(A)
           B == DOMAIN t.numFD
           b == Cardinality(B)
           p == InOrder(B)
           Q == [i \in 0 .. b |-> NoLists]
<1>1. /\ SimOf(m, s, raw, held) /\ IdsOf(s) /\ s.evals \in Nat /\ Shaped(s)
      /\ s.simEvals \in Nat /\ DOMAIN raw \subseteq Int
  BY DEF MapsOf, StateType
<1>2. /\ SimOf(m, t, raw, now) /\ IdsOf(t) /\ t.evals \in Nat
  BY <1>1 DEF MapsOf, SyncTo
<1>3. PICK P : PlanOf(c, m, s, raw, n, q, P)
  BY DEF Planned
<1>4. /\ \A i \in 1 .. n : PlanAt(c, m, s, raw, q[i], P[i - 1], P[i])
      /\ \A k \in DOMAIN s.numFD : ~s.asked[k].asv.est
  BY <1>3 DEF PlanOf
<1>5. PICK X, Y : /\ Sync(s, got).state.rawIds = Without(s.rawIds, X)
                  /\ Sync(s, got).state.numFD = Without(s.numFD, Y)
                  /\ Sync(s, got).state.est = s.est
  BY <1>1, SyncRestricts
<1>6. /\ t.rawIds = Without(s.rawIds, X) /\ t.numFD = Without(s.numFD, Y)
      /\ t.simIds = Without(s.simIds, Matched(s, got))
  BY <1>5 DEF SyncTo
<1>7. Ordered(A, n, q)
  BY <1>1, NumFDOrder
<1>8. Ordered(B, b, p)
  BY <1>2, NumFDOrder
<1>9. \A x, r \in DOMAIN s.rawIds : s.rawIds[x] = s.rawIds[r] => x = r
  BY <1>1, OneToOne
<1>a. t.asked = s.asked
  OBVIOUS
<1>10. ASSUME NEW k \in B PROVE PlanAt(c, m, t, raw, k, NoLists, NoLists)
  <2>1. k \in A /\ t.numFD[k] = s.numFD[k]
    BY <1>6 DEF Without
  <2>2. PICK i \in 1 .. n : q[i] = k
    BY <1>7, <2>1 DEF Ordered
  <2> DEFINE before == P[i - 1]
             after == P[i]
  <2>3. PlanAt(c, m, s, raw, k, before, after) /\ ~s.asked[k].asv.est
    BY <1>4, <2>1, <2>2
  <2> HIDE DEF before, after
  <2>4. PlanAt(c, m, s, raw, k, NoLists, NoLists)
    BY <2>3, PlanAtPlain
  <2>5. ASSUME NEW r \in DOMAIN s.rawIds, s.rawIds[r] = k
        PROVE  r \in DOMAIN t.rawIds /\ t.rawIds[r] = k
    <3>1. PICK x \in DOMAIN t.rawIds : t.rawIds[x] = k
      BY <1>2 DEF IdsOf
    <3>2. x \in DOMAIN s.rawIds /\ s.rawIds[x] = k
      BY <1>6, <3>1 DEF Without
    <3>3. x = r
      BY <1>9, <2>5, <3>2
    <3>4. QED
      BY <3>1, <3>3
  <2>6. ASSUME NEW j \in DOMAIN s.simIds, raw[j].eval = k
        PROVE  j \in DOMAIN t.simIds /\ t.simIds[j] = s.simIds[j]
    <3>1. j \in DOMAIN raw /\ raw[j].model = m
      BY <1>1 DEF SimOf
    <3>2. j \in DOMAIN t.simIds
      BY <1>2, <2>6, <3>1 DEF SimOf
    <3>3. QED
      BY <1>6, <3>2 DEF Without
  <2>7. Leaves(s, raw, t, raw, k)
    BY <1>a, <2>1, <2>5, <2>6 DEF Leaves
  <2>8. QED
    BY <2>4, <2>7, PlanAtKept
<1>11. b \in Nat
  BY <1>8 DEF Ordered
<1>b. t.lists = NoLists
  OBVIOUS
<1> HIDE DEF A, n, q, B, b, p
<1>12. /\ Q \in [0 .. b -> ListsSet] /\ Q[b] = NoLists /\ Q[0] = NoLists
       /\ \A i \in 1 .. b : Q[i - 1] = NoLists /\ Q[i] = NoLists
  <2>1. b \in 0 .. b /\ 0 \in 0 .. b
        /\ \A i \in 1 .. b : i - 1 \in 0 .. b /\ i \in 0 .. b
    BY <1>11
  <2>2. QED
    BY <2>1, NoListsType
<1> HIDE DEF Q
<1>13. ASSUME NEW i \in 1 .. b
       PROVE  PlanAt(c, m, t, raw, p[i], Q[i - 1], Q[i])
  <2>1. p[i] \in B
    BY <1>8 DEF Ordered
  <2>2. QED
    BY <1>10, <1>12, <2>1
<1>14. ASSUME NEW k \in B PROVE ~t.asked[k].asv.est
  BY <1>4, <1>6, <1>a DEF Without, B
<1>15. PlanOf(c, m, t, raw, b, p, Q)
  BY <1>12, <1>13, <1>14, <1>b DEF PlanOf, B
<1>16. QED
  BY <1>15 DEF Planned, B, b, p

-----------------------------------------------------------------------------
(* The response of Model::evaluate.                                        *)

(* The responses f of the raw evaluations of one evaluation, from b on.    *)
Alone(m, k, f, b, slots) ==
  /\ DOMAIN f = (b + 1) .. (b + Len(slots))
  /\ \A j \in 1 .. Len(slots) : f[b + j] = Tag(m, k, slots[j])

LEMMA BlockingAlone ==
  ASSUME NEW m \in Models, NEW a, Shaped(a), DOMAIN a.simIds = {},
         a.simEvals \in Nat, a.evals \in Nat, raw \in Seq(TagSet),
         NEW slots \in Seq(Slot)
  PROVE  Alone(m, a.evals,
               SimResponses(Launched(a, slots),
                            raw \o Tagged(m, a.evals, slots),
                            pending \cup NewIds(slots)),
               a.simEvals, slots)
<1> DEFINE l == Launched(a, slots)
           k == a.evals
           b == a.simEvals
           n == Len(raw)
           e == Len(slots)
           long == raw \o Tagged(m, k, slots)
           got == pending \cup NewIds(slots)
           news == (n + 1) .. (n + e)
           f == SimResponses(l, long, got)
           pick(r) == CHOOSE i \in news : l.simIds[i] = r
<1>1. k \in Nat /\ b \in Nat /\ n \in Nat /\ e \in Nat
  OBVIOUS
<1>2. Longer(long, raw, n, e, m, k, slots)
  BY <1>1, LongerLog
<1>3. NewIds(slots) = news
  BY DEF NewIds
<1>4. l.simIds = Inserted(a.simIds, [i \in NewIds(slots) |-> b + (i - n)])
  BY LaunchedFields
<1>5. DOMAIN l.simIds = news /\ \A i \in news : l.simIds[i] = b + (i - n)
  BY <1>3, <1>4 DEF Inserted
<1>6. Matched(l, got) = news
  BY <1>3, <1>5 DEF Matched, Arrived
<1>7. f = [r \in {l.simIds[i] : i \in news} |-> long[pick(r)]]
  <2> DEFINE M == Matched(l, got)
  <2>1. f = [r \in {l.simIds[i] : i \in M} |->
               long[CHOOSE i \in M : l.simIds[i] = r]]
    BY DEF SimResponses
  <2>2. M = news
    BY <1>6
  <2> HIDE DEF M, l, long, got, news, f
  <2>3. QED
    BY <2>1, <2>2
<1> HIDE DEF l, k, b, n, e, long, got, f
<1>8. {l.simIds[i] : i \in news} = (b + 1) .. (b + e)
  <2>1. ASSUME NEW i \in news PROVE l.simIds[i] \in (b + 1) .. (b + e)
    <3>1. i - n \in 1 .. e
      BY <1>1
    <3>2. QED
      BY <1>1, <1>5, <3>1
  <2>2. ASSUME NEW x \in (b + 1) .. (b + e)
        PROVE  \E i \in news : l.simIds[i] = x
    <3> DEFINE i == n + (x - b)
    <3>1. i \in news /\ b + (i - n) = x
      BY <1>1
    <3> HIDE DEF i
    <3>2. QED
      BY <1>5, <3>1
  <2>3. QED
    BY <2>1, <2>2
<1>9. ASSUME NEW j \in 1 .. e PROVE f[b + j] = Tag(m, k, slots[j])
  <2> DEFINE i == n + j
             x == b + j
  <2>1. i \in news /\ i - n = j /\ x \in (b + 1) .. (b + e)
    BY <1>1
  <2>2. l.simIds[i] = x
    BY <1>5, <2>1
  <2> HIDE DEF x
  <2>3. pick(x) \in news /\ l.simIds[pick(x)] = x
    BY <2>1, <2>2
  <2>4. pick(x) = i
    <3> DEFINE y == pick(x)
    <3>1. y \in news /\ b + (y - n) = b + j
      BY <1>5, <2>3 DEF x
    <3> HIDE DEF y
    <3>2. y = i
      BY <1>1, <3>1
    <3>3. QED
      BY <3>2 DEF y
  <2>5. long[i] = Tag(m, k, slots[j])
    BY <1>2, <2>1 DEF Longer
  <2>6. f[x] = long[pick(x)]
    BY <1>7, <1>8, <2>1
  <2> HIDE DEF pick
  <2>7. QED
    BY <2>4, <2>5, <2>6 DEF x
<1>10. DOMAIN f = (b + 1) .. (b + e)
  BY <1>7, <1>8
<1>11. QED
  BY <1>9, <1>10 DEF Alone, l, k, b, n, e, long, got, f

(* They come back in the order of the slots.                               *)
Returned(m, k, f, n, slots) ==
  /\ Slice(f, 0, n) = Tagged(m, k, slots)
  /\ Len(slots) >= 1 => f[Nth(DOMAIN f, 0)] = Tag(m, k, slots[1])

LEMMA AloneOrder ==
  ASSUME NEW m \in Models, NEW k \in Nat, NEW f, NEW b \in Nat,
         NEW slots \in Seq(Slot), Alone(m, k, f, b, slots), NEW n \in Nat,
         Len(slots) <= n
  PROVE  Returned(m, k, f, n, slots)
<1> DEFINE e == Len(slots)
           A == DOMAIN f
           ids == InOrder(A)
           a == b + 1
<1>1. e \in Nat /\ DOMAIN slots = 1 .. e /\ a \in Int
  OBVIOUS
<1>2. A = (b + 1) .. (b + e) /\ \A j \in 1 .. e : f[b + j] = Tag(m, k, slots[j])
  BY DEF Alone
<1>3. {x \in DOMAIN f : x >= 0} = A
  BY <1>2
<1>4. Slice(f, 0, n) = [i \in 1 .. MinOf(n, Len(ids)) |-> f[ids[i]]]
  BY <1>3 DEF Slice
<1>a. e <= n
  OBVIOUS
<1> HIDE DEF e, A
<1>5. /\ IsFiniteSet(A) /\ A \subseteq Int /\ Cardinality(A) = e
      /\ \A j \in 1 .. e : a + j - 1 \in A
      /\ \A x \in A : x >= a
  <2> DEFINE z == b + e
  <2>1. a \in Int /\ z \in Int /\ A = a .. z
    BY <1>1, <1>2
  <2>2. IsFiniteSet(A) /\ A \subseteq Int
    <3> HIDE DEF a, z
    <3>1. QED
      BY <2>1, FS_Interval
  <2>3. Cardinality(A) = e
    <3>1. Cardinality(A) = IF a > z THEN 0 ELSE z - a + 1
      <4> HIDE DEF a, z
      <4>1. QED
        BY <2>1, FS_Interval
    <3>2. QED
      BY <1>1, <3>1
  <2>4. QED
    BY <1>1, <2>1, <2>2, <2>3
<1> HIDE DEF a
<1>6. /\ Len(ids) = Cardinality(A)
  BY <1>5, OrderFacts DEF Ordered
<1>7. \A j \in 1 .. e : ids[j] = a + j - 1
  BY <1>1, <1>5, BlockOrder
<1>8. MinOf(n, Len(ids)) = e
  BY <1>1, <1>5, <1>6, <1>a DEF MinOf
<1>9. ids = [i \in 1 .. Cardinality(A) |-> Nth(A, i - 1)]
  BY DEF InOrder
<1> HIDE DEF ids
<1>10. ASSUME NEW j \in 1 .. e PROVE f[ids[j]] = Tag(m, k, slots[j])
  <2>1. ids[j] = b + j
    BY <1>1, <1>7 DEF a
  <2>2. QED
    BY <1>2, <2>1
<1>11. Tagged(m, k, slots) = [i \in 1 .. e |-> Tag(m, k, slots[i])]
  BY <1>1 DEF Tagged
<1>12. Slice(f, 0, n) = Tagged(m, k, slots)
  BY <1>4, <1>8, <1>10, <1>11
<1>13. ASSUME e >= 1 PROVE f[Nth(A, 0)] = Tag(m, k, slots[1])
  <2>1. 1 \in 1 .. e
    BY <1>1, <1>13
  <2>2. ids[1] = Nth(A, 0)
    <3>1. ids[1] = Nth(A, 1 - 1)
      BY <1>5, <1>9, <2>1
    <3>2. QED
      BY <3>1
  <2>3. QED
    BY <1>10, <2>1, <2>2
<1>14. QED
  BY <1>12, <1>13 DEF e, A, Returned

(* The lists of an estimation that is alone.                               *)
LEMMA ListedBegins ==
  ASSUME config \in Configurations, NEW m \in Models,
         NEW k \in Nat, NEW asv \in AsvSet, AsvOf(config, asv),
         NEW hit \in BOOLEAN
  PROVE  /\ Begins(config, m, k, asv, hit,
                   Listed(NoLists, m, k, config, asv, Initial(asv, hit), hit),
                   NoLists)
         /\ Listed(NoLists, m, k, config, asv, Initial(asv, hit), hit).sets
              = <<>>
<1> DEFINE y == Listed(NoLists, m, k, config, asv, Initial(asv, hit), hit)
           e == Entry(config, m, k, asv, hit)
           z == [y EXCEPT !.sets = Append(@, asv)]
<1>1. NoLists \in ListsSet /\ NoLists.sets = <<>>
  BY NoListsType
<1>2. z = Joined(NoLists, e)
  <2> DEFINE l == NoLists
  <2>1. l \in ListsSet
    BY <1>1
  <2> HIDE DEF l
  <2>2. [Listed(l, m, k, config, asv, Initial(asv, hit), hit)
           EXCEPT !.sets = Append(@, asv)]
          = Joined(l, Entry(config, m, k, asv, hit))
    BY <2>1, ListedJoined
  <2>3. QED
    BY <2>2 DEF l
<1>3. e \in ListsSet
  BY EntryType
<1>4. Heads(config, m, k, asv, hit, Joined(e, NoLists), NoLists)
  <2> DEFINE l == NoLists
  <2>1. l \in ListsSet
    BY <1>1
  <2> HIDE DEF l
  <2>2. Heads(config, m, k, asv, hit, Joined(Entry(config, m, k, asv, hit), l),
              l)
    BY <2>1, EntryHeads
  <2>3. QED
    BY <2>2 DEF l
<1>5. \E g1, g2, g3, g4 :
        y = [sets |-> NoLists.sets, initialMaps |-> g1, dbCaptures |-> g2,
             dbResponses |-> g3, deltas |-> g4]
  BY Zenon DEF Listed
<1>a. z = [y EXCEPT !.sets = Append(@, asv)]
  OBVIOUS
<1> HIDE DEF y, e, z
<1>6. z = Joined(e, NoLists)
  BY <1>2, <1>3, JoinedNone
<1>7. Begins(config, m, k, asv, hit, z, NoLists)
  BY <1>4, <1>6 DEF Heads
<1>8. /\ y.initialMaps = z.initialMaps /\ y.dbCaptures = z.dbCaptures
      /\ y.dbResponses = z.dbResponses /\ y.deltas = z.deltas
      /\ y.sets = <<>>
  BY <1>1, <1>5, <1>a
<1>9. Begins(config, m, k, asv, hit, y, NoLists)
  BY <1>7, <1>8 DEF Begins
<1>10. QED
  BY <1>8, <1>9 DEF y

(* The response is its own and the lists are as empty as before.           *)
OutcomeIs(m, k, asv, o) ==
  /\ o.state.lists = NoLists
  /\ o.response.asv = IF asv.est THEN asv ELSE [est |-> FALSE]
  /\ OwnPairs(m, k, o.response.used)

LEMMA QueueOwn ==
  ASSUME FixedSeparate, config \in Configurations, NEW asv, NEW hit,
         NEW m \in Models, NEW slots, Request(asv, hit, slots),
         NEW a, Shaped(a), a.evals \in Nat, a.simEvals \in Nat,
         raw \in Seq(TagSet), DOMAIN a.simIds = {}, a.lists = NoLists
  PROVE  OutcomeIs(m, a.evals, asv, Blocking(a, m, asv, hit, slots))
<1> DEFINE k == a.evals
           log == raw \o Tagged(m, k, slots)
           l == Launched(a, slots)
           got == pending \cup NewIds(slots)
           u == Collected(l, got)
           f == SimResponses(l, log, got)
           lists == Listed(a.lists, m, k, config, asv, Initial(asv, hit), hit)
           merge == SynchronizeDerivatives(lists, asv, Slice(f, 0, Len(log)))
           first == Unmerged(f[Nth(DOMAIN f, 0)])
           o == Blocking(a, m, asv, hit, slots)
<1>1. /\ Separate(config, asv) /\ AsvOf(config, asv) /\ hit \in BOOLEAN
      /\ slots = SlotsFor(config, asv, hit) /\ slots \in Seq(Slot)
      /\ asv.est \in BOOLEAN /\ (asv.est => asv \in AsvSet)
      /\ (~asv.est => slots = Plain)
  BY RequestSeparate
<1>2. o = IF asv.est
            THEN [state |-> [u EXCEPT !.lists = merge.lists], got |-> got,
                  response |-> merge.response]
            ELSE [state |-> u, got |-> got, response |-> first]
  BY DEF Blocking
<1>3. Shaped(l) /\ l.lists = a.lists
  BY LaunchedFields
<1>4. Shaped(u) /\ u.lists = NoLists
  <2> HIDE DEF l, got
  <2>1. Shaped(u) /\ u.lists = l.lists
    BY <1>3, CollectedFields
  <2>2. QED
    BY <1>3, <2>1
<1>5. Alone(m, k, f, a.simEvals, slots)
  BY <1>1, BlockingAlone
<1>6. Len(log) \in Nat /\ Len(slots) <= Len(log)
  <2>1. Longer(log, raw, Len(raw), Len(slots), m, k, slots)
    BY <1>1, LongerLog
  <2> HIDE DEF log
  <2>2. QED
    BY <2>1 DEF Longer
<1>a. k \in Nat /\ a.simEvals \in Nat
  OBVIOUS
<1> DEFINE N == Len(log)
<1> HIDE DEF f, u, log, k, N, o
<1>7. /\ Slice(f, 0, N) = Tagged(m, k, slots)
      /\ Len(slots) >= 1 => f[Nth(DOMAIN f, 0)] = Tag(m, k, slots[1])
  <2> DEFINE b == a.simEvals
  <2>1. b \in Nat /\ N \in Nat /\ Len(slots) <= N /\ Alone(m, k, f, b, slots)
        /\ slots \in Seq(Slot)
    BY <1>1, <1>5, <1>6, <1>a DEF N
  <2> HIDE DEF b
  <2>2. Returned(m, k, f, N, slots)
    BY <1>a, <2>1, AloneOrder
  <2>3. QED
    BY <2>2 DEF Returned
<1>8. CASE asv.est
  <2>1. /\ Begins(config, m, k, asv, hit, lists, NoLists)
        /\ lists.sets = <<>>
    <3>1. lists = Listed(NoLists, m, k, config, asv, Initial(asv, hit), hit)
      OBVIOUS
    <3>2. asv \in AsvSet
      BY <1>1, <1>8
    <3>3. QED
      BY <1>1, <1>8, <1>a, <3>1, <3>2, ListedBegins
  <2>2. slots = Evaluations(config, asv, Initial(asv, hit))
    BY <1>1, <1>8 DEF SlotsFor
  <2>3. merge = SynchronizeDerivatives(lists, asv,
                  Tagged(m, k, Evaluations(config, asv, Initial(asv, hit))))
    BY <1>7, <2>2 DEF N
  <2> HIDE DEF lists, merge
  <2>4. Merges(m, k, asv, lists, NoLists, merge)
    <3> DEFINE tail == NoLists
    <3>1. tail \in ListsSet /\ Begins(config, m, k, asv, hit, lists, tail)
      BY <2>1, NoListsType
    <3> HIDE DEF tail
    <3>2. Merges(m, k, asv, lists, tail,
                 SynchronizeDerivatives(lists, asv,
                   Tagged(m, k, Evaluations(config, asv, Initial(asv, hit)))))
      BY <1>1, <1>a, <3>1, MergeOne
    <3>3. QED
      BY <2>3, <3>2 DEF tail
  <2>5. merge.lists = NoLists /\ merge.response.asv = asv
        /\ OwnPairs(m, k, merge.response.used)
    BY <2>1, <2>4, NoListsType DEF Merges, NoLists
  <2> DEFINE z == merge.lists
             v == [u EXCEPT !.lists = z]
  <2>6. o.state = v /\ o.response = merge.response
    BY <1>2, <1>8
  <2>7. v = [u EXCEPT !.lists = z]
    OBVIOUS
  <2> HIDE DEF z, v
  <2>8. v.lists = z
    BY <1>4, <2>7 DEF Shaped
  <2>9. QED
    BY <1>8, <2>5, <2>6, <2>8 DEF OutcomeIs, z, o, k
<1>9. CASE ~asv.est
  <2>1. slots = Plain /\ Len(slots) >= 1 /\ slots[1] = Plain[1]
    BY <1>1, <1>9 DEF Plain
  <2>2. f[Nth(DOMAIN f, 0)] = Tag(m, k, Plain[1])
    BY <1>7, <2>1
  <2>3. first.asv = [est |-> FALSE]
        /\ first.used = {<<Plain[1], Tag(m, k, Plain[1])>>}
    BY <2>2 DEF Unmerged
  <2>4. o.state = u /\ o.response = first
    BY <1>2, <1>9
  <2> HIDE DEF first
  <2>5. OwnPairs(m, k, first.used)
    BY <2>3 DEF OwnPairs
  <2>6. QED
    BY <1>4, <1>9, <2>3, <2>4, <2>5 DEF OutcomeIs, o, k
<1>10. QED
  BY <1>8, <1>9

AskedTo(s, t) ==
  /\ t.evals = s.evals + 1 /\ t.simEvals = s.simEvals
  /\ t.simIds = s.simIds /\ t.lists = s.lists /\ Shaped(t)

LEMMA AskedOwn ==
  ASSUME NEW s, Shaped(s), NEW c, NEW asv
  PROVE  AskedTo(s, Asked(s, c, asv))
<1> DEFINE a == Asked(s, c, asv)
<1>1. /\ a.evals = s.evals + 1 /\ a.simEvals = s.simEvals
      /\ a.simIds = s.simIds /\ a.rawIds = s.rawIds
      /\ a.numFD = s.numFD /\ a.lists = s.lists /\ a.est = s.est
      /\ a.cache = s.cache /\ a.asked = Append(s.asked, Ask(c, asv))
      /\ Shaped(a)
  BY AskedFields DEF Ask
<1> HIDE DEF a
<1>2. AskedTo(s, a)
  BY <1>1 DEF AskedTo
<1>3. QED
  BY <1>2 DEF a

InPlaceTo(asv, s, o) == ~ThroughQueue(asv) => o.state.lists = s.lists

LEMMA InPlaceLists ==
  ASSUME NEW c, NEW asv, NEW hit, NEW m, NEW s, NEW slots, Shaped(s),
         DOMAIN s.simIds = {}, asv.est \in BOOLEAN
  PROVE  InPlaceTo(asv, s, Outcome(c, asv, hit, m, s, slots))
<1> DEFINE o == Outcome(c, asv, hit, m, s, slots)
<1>1. /\ EvaluatedTo(c, asv, s, o.state, slots)
      /\ ~(ThroughQueue(asv) /\ asv.est) => o.state.lists = s.lists
      /\ o.got = IF ThroughQueue(asv) THEN pending \cup NewIds(slots) ELSE {}
  BY OutcomeFields
<1> HIDE DEF o
<1>2. InPlaceTo(asv, s, o)
  BY <1>1 DEF InPlaceTo
<1>3. QED
  BY <1>2 DEF o

LEMMA OutcomeOwn ==
  ASSUME FixedSeparate, config \in Configurations, NEW c, NEW asv, NEW hit,
         NEW m \in Models, NEW slots, Request(asv, hit, slots),
         NEW s, StateType(s), raw \in Seq(TagSet), DOMAIN s.simIds = {},
         s.lists = NoLists
  PROVE  OutcomeIs(m, s.evals + 1, asv, Outcome(c, asv, hit, m, s, slots))
<1> DEFINE a == Asked(s, c, asv)
           o == Outcome(c, asv, hit, m, s, slots)
           k == s.evals + 1
<1>1. /\ asv.est \in BOOLEAN /\ slots \in Seq(Slot) /\ hit \in BOOLEAN
  BY RequestSeparate
<1>3. s.evals \in Nat /\ s.simEvals \in Nat /\ Shaped(s)
  BY DEF StateType
<1>2. /\ a.evals = s.evals + 1 /\ a.simEvals = s.simEvals
      /\ a.simIds = s.simIds /\ a.lists = s.lists /\ Shaped(a)
  <2>1. Shaped(s)
    BY <1>3
  <2>2. AskedTo(s, a)
    BY <2>1, AskedOwn
  <2> HIDE DEF a
  <2>3. QED
    BY <2>2 DEF AskedTo
<1>4. o = IF ThroughQueue(asv) THEN Blocking(a, m, asv, hit, slots)
                               ELSE InPlace(a, m, asv, hit, slots)
  BY DEF Outcome
<1>a. s.lists = NoLists /\ DOMAIN s.simIds = {}
  OBVIOUS
<1>5. CASE ThroughQueue(asv)
  <2> HIDE DEF a
  <2>1. /\ a.evals \in Nat /\ a.simEvals \in Nat /\ DOMAIN a.simIds = {}
        /\ a.lists = NoLists /\ Shaped(a)
    BY <1>2, <1>3, <1>a
  <2>2. OutcomeIs(m, a.evals, asv, Blocking(a, m, asv, hit, slots))
    BY <2>1, QueueOwn
  <2>3. QED
    BY <1>2, <1>4, <1>5, <2>2
<1>6. CASE ~ThroughQueue(asv)
  <2> DEFINE used == {<<slots[i], Tag(m, k, slots[i])>> : i \in DOMAIN slots}
             x == {<<X0, Tag(m, k, X0)>>}
             g == IF asv.est
                    THEN [asv |-> asv, used |-> IF hit THEN used \cup x ELSE used]
                    ELSE [asv |-> [est |-> FALSE], used |-> used]
  <2>1. o.response = g
    <3> HIDE DEF a
    <3>1. a.evals = k
      BY <1>2
    <3>2. QED
      BY <1>4, <1>6, <3>1 DEF InPlace
  <2>2. o.state.lists = NoLists
    <3>1. Shaped(s) /\ DOMAIN s.simIds = {} /\ asv.est \in BOOLEAN
      BY <1>1, <1>3, <1>a
    <3>2. InPlaceTo(asv, s, o)
      BY <3>1, InPlaceLists
    <3> HIDE DEF o
    <3>3. QED
      BY <1>6, <1>a, <3>2 DEF InPlaceTo
  <2>3. OwnPairs(m, k, used) /\ OwnPairs(m, k, used \cup x)
    BY DEF OwnPairs
  <2> HIDE DEF used, x, o, k
  <2>4. g.asv = (IF asv.est THEN asv ELSE [est |-> FALSE])
        /\ (g.used = used \/ g.used = used \cup x)
    BY <1>1
  <2> HIDE DEF g
  <2>5. QED
    BY <2>1, <2>2, <2>3, <2>4 DEF OutcomeIs, o, k
<1>7. QED
  BY <1>5, <1>6

-----------------------------------------------------------------------------
(* The steps.                                                              *)

(* One model changes; the raw evaluations of the others stay.              *)
LEMMA OwnSteps ==
  ASSUME OwnInv, NEW m \in Models, NEW t, config' = config,
         model'[m] = t, \A n \in Models : n # m => model'[n] = model[n],
         \A n \in Models : \A i \in DOMAIN model[n].simIds : raw'[i] = raw[i],
         Planned(config, m, t, raw'), CacheOf(m, t), MapsInv', OwnResponse'
  PROVE  OwnInv'
<1>1. ASSUME NEW n \in Models
      PROVE  Planned(config', n, model'[n], raw') /\ CacheOf(n, model'[n])
  <2>1. CASE n = m
    BY <2>1
  <2>2. CASE n # m
    <3> DEFINE s == model[n]
               long == raw'
    <3>1. /\ Planned(config, n, s, raw) /\ CacheOf(n, s) /\ model'[n] = s
          /\ \A i \in DOMAIN s.simIds : long[i] = raw[i]
      BY <2>2 DEF OwnInv
    <3> HIDE DEF s, long
    <3>2. Planned(config, n, s, long)
      BY <3>1, PlannedLonger
    <3>3. QED
      BY <3>1, <3>2 DEF long
  <2>3. QED
    BY <2>1, <2>2
<1>2. QED
  BY <1>1 DEF OwnInv

(* The log only grows.                                                     *)
LEMMA LogGrows ==
  ASSUME MapsInv, NEW m \in Models, NEW k \in Nat, NEW slots \in Seq(Slot),
         NEW n \in Models, NEW i \in DOMAIN model[n].simIds
  PROVE  (raw \o Tagged(m, k, slots))[i] = raw[i]
<1> DEFINE long == raw \o Tagged(m, k, slots)
<1>1. raw \in Seq(TagSet) /\ i \in DOMAIN raw
  BY DEF MapsInv, TypeInv, MapsOf, SimOf
<1>2. Longer(long, raw, Len(raw), Len(slots), m, k, slots)
  BY <1>1, LongerLog
<1> HIDE DEF long
<1>3. long[i] = raw[i]
  BY <1>1, <1>2 DEF Longer
<1>4. QED
  BY <1>3 DEF long

(* The cache, after one more evaluation of the model.                      *)
LEMMA CacheLonger ==
  ASSUME NEW m, NEW s, NEW t, CacheOf(m, s), s.evals \in Nat,
         NEW a \in AskSet, s.asked \in Seq(AskSet), Len(s.asked) = s.evals,
         t.evals = s.evals + 1, t.asked = Append(s.asked, a),
         t.cache = s.cache
  PROVE  CacheOf(m, t)
<1>1. \A k \in 1 .. s.evals : t.asked[k] = s.asked[k] /\ k \in 1 .. t.evals
  BY AppendProperties
<1>2. QED
  BY <1>1 DEF CacheOf, OwnAt

(* The responses that Model::synchronize merges with its cache.            *)
RespsOf(m, s, resps) ==
  \A k \in DOMAIN resps : k \in 1 .. s.evals /\ OwnAt(m, s, k, resps[k])

LEMMA SyncedResps ==
  ASSUME NEW m, NEW s, NEW got, CacheOf(m, s), SyncOwn(m, s, got), IdsOf(s)
  PROVE  RespsOf(m, s, Inserted(Sync(s, got).resps, s.cache))
<1> DEFINE f == Sync(s, got).resps
<1>1. \A k \in DOMAIN f : k \in 1 .. s.evals /\ OwnAt(m, s, k, f[k])
  BY DEF SyncOwn, IdsOf
<1> HIDE DEF f
<1>2. RespsOf(m, s, Inserted(f, s.cache))
  BY <1>1 DEF RespsOf, Inserted, CacheOf
<1>3. QED
  BY <1>2 DEF f

LEMMA CollectOwn ==
  ASSUME OwnInv, NEW c \in Clients, NEW got, NEW m, NEW s, NEW t, NEW resps,
         CollectTo(c, got, m, s, t, resps), SyncOwn(m, s, got),
         Planned(config, m, t, raw), MapsInv'
  PROVE  OwnInv'
<1> DEFINE d == [evals |-> client[c].evals,
                 ids |-> Without(client[c].ids, Mine(c, resps))]
<1>1. /\ m = ModelOf[c] /\ m \in Models /\ s = model[m]
      /\ raw' = raw /\ config' = config
      /\ model' = [model EXCEPT ![m] = t]
      /\ client' = [client EXCEPT ![c] = d]
      /\ answer' = Answer(c, resps)
      /\ resps = Inserted(Sync(s, got).resps, s.cache)
      /\ t.evals = s.evals /\ t.asked = s.asked /\ t.cache = Kept(c, resps)
  BY DEF CollectTo
<1>2. /\ IdsOf(s) /\ CacheOf(m, s) /\ WaitsOf(c, client[c].ids, s)
  BY <1>1 DEF OwnInv, MapsInv, MapsOf
<1>3. RespsOf(m, s, resps)
  BY <1>1, <1>2, SyncedResps
<1>4. RespsOf(m, t, resps)
  BY <1>1, <1>3 DEF RespsOf, OwnAt
<1>5. CacheOf(m, t)
  BY <1>1, <1>4 DEF CacheOf, RespsOf, Kept, Without
<1>6. d = [evals |-> d.evals, ids |-> d.ids]
  OBVIOUS
<1> HIDE DEF d
<1>7. model'[m] = t /\ \A n \in Models : n # m => model'[n] = model[n]
  BY <1>1, <1>6, OneChanges DEF OwnInv, MapsInv
<1>8. OwnResponse'
  <2>1. SUFFICES ASSUME NEW b \in Answer(c, resps)
                 PROVE  LET n == ModelOf[b.client]
                        IN  \E k \in 1 .. model'[n].evals :
                              /\ model'[n].asked[k].client = b.client
                              /\ model'[n].asked[k].eval = b.eval
                              /\ Own(n, k, b.response)'
    BY <1>1 DEF OwnResponse
  <2>2. PICK k \in DOMAIN resps \cap DOMAIN client[c].ids :
          b = [client |-> c, eval |-> client[c].ids[k],
               response |-> resps[k]]
    BY DEF Answer, Mine
  <2>3. /\ b.client = c /\ b.eval = client[c].ids[k]
        /\ b.response = resps[k]
    BY <2>2
  <2>4. /\ k \in 1 .. t.evals /\ OwnAt(m, t, k, b.response)
        /\ t.asked[k].client = b.client /\ t.asked[k].eval = b.eval
    BY <1>1, <1>2, <1>4, <2>2, <2>3 DEF RespsOf, WaitsOf
  <2>5. Own(m, k, b.response)'
    BY <1>7, <2>4 DEF Own, OwnAt
  <2>6. QED
    BY <1>1, <1>7, <2>3, <2>4, <2>5
<1>9. \A n \in Models : \A i \in DOMAIN model[n].simIds : raw'[i] = raw[i]
  BY <1>1
<1>10. QED
  BY <1>1, <1>5, <1>7, <1>8, <1>9, OwnSteps

LEMMA SynchronizeOwn ==
  ASSUME OwnInv, NEW c \in Clients, Synchronize(c)
  PROVE  OwnInv'
<1>0. MapsInv /\ TypeInv
  BY DEF OwnInv, MapsInv
<1>1. PICK m, s, t, resps : CollectTo(c, pending, m, s, t, resps)
  BY <1>0, CollectFacts DEF Synchronize
<1>2. /\ m \in Models /\ s = model[m]
      /\ t.lists = Sync(s, pending).state.lists
      /\ t.numFD = Sync(s, pending).state.numFD
  BY <1>1 DEF CollectTo
<1>3. /\ StateType(s) /\ raw \in Seq(TagSet) /\ config \in Configurations
      /\ MapsOf(m, s, raw, pending \cup cached) /\ Planned(config, m, s, raw)
  BY <1>2 DEF OwnInv, MapsInv, TypeInv, StateType
<1>4. SyncOwn(m, s, pending) /\ Sync(s, pending).state.lists = NoLists
  BY <1>2, <1>3, SyncAllOwn
<1>5. DOMAIN Sync(s, pending).state.numFD = {}
  <2>1. AllSynced(s, pending)
    BY <1>2, <1>3, SyncAll
  <2>2. QED
    BY <2>1 DEF AllSynced
<1>6. Planned(config, m, t, raw)
  <2>1. DOMAIN t.numFD = {} /\ t.lists = NoLists
    BY <1>2, <1>4, <1>5
  <2>2. QED
    BY <2>1, EmptyPlan
<1>7. MapsInv'
  BY <1>0, SynchronizeMaps
<1>8. QED
  BY <1>1, <1>4, <1>6, <1>7, CollectOwn

LEMMA SynchronizeNowaitOwn ==
  ASSUME OwnInv, NEW c \in Clients, SynchronizeNowait(c)
  PROVE  OwnInv'
<1>0. MapsInv /\ TypeInv
  BY DEF OwnInv, MapsInv
<1>1. PICK got \in SUBSET pending : Collect(c, got)
  BY DEF SynchronizeNowait
<1>2. PICK m, s, t, resps : CollectTo(c, got, m, s, t, resps)
  BY <1>0, <1>1, CollectFacts
<1>3. /\ m = ModelOf[c] /\ m \in Models /\ s = model[m]
      /\ t.evals = s.evals /\ t.simEvals = s.simEvals
      /\ t.simIds = Without(s.simIds, Matched(s, got))
      /\ t.est = Sync(s, got).state.est
      /\ t.rawIds = Sync(s, got).state.rawIds
      /\ t.numFD = Sync(s, got).state.numFD
      /\ t.lists = Sync(s, got).state.lists /\ t.asked = s.asked
  BY <1>2 DEF CollectTo
<1>4. /\ StateType(s) /\ raw \in Seq(TagSet) /\ ~s.est
      /\ MapsOf(m, s, raw, pending \cup cached) /\ Planned(config, m, s, raw)
  BY <1>3 DEF OwnInv, MapsInv, TypeInv, StateType, SynchronizeNowait
<1>5. SyncTo(s, t, got)
  BY <1>3 DEF SyncTo
<1>6. MapsOf(m, t, raw, (pending \ got) \cup Unmatched(s, got))
  <2>1. SomeSynced(m, s, t, got)
    BY <1>3, <1>4, <1>5, SyncSome
  <2>2. QED
    BY <2>1 DEF SomeSynced
<1> DEFINE held == pending \cup cached
           now == (pending \ got) \cup Unmatched(s, got)
<1>a. MapsOf(m, s, raw, held) /\ MapsOf(m, t, raw, now)
  BY <1>4, <1>6
<1> HIDE DEF held, now
<1>7. SyncOwn(m, s, got) /\ Sync(s, got).state.lists = NoLists
  BY <1>3, <1>4, <1>a, SyncPlainOwn
<1>8. t.lists = NoLists
  BY <1>3, <1>7
<1>9. Planned(config, m, t, raw)
  BY <1>3, <1>4, <1>5, <1>8, <1>a, SyncSomePlan
<1>10. MapsInv'
  BY <1>0, SynchronizeNowaitMaps
<1>11. QED
  BY <1>2, <1>7, <1>9, <1>10, CollectOwn

LEMMA NowaitOwn ==
  ASSUME FixedSeparate, OwnInv, NEW c \in Clients, NEW asv, NEW hit, NEW m,
         NEW s, NEW t, NEW slots, NowaitTo(c, asv, hit, m, s, t, slots)
  PROVE  OwnInv'
<1> DEFINE k == s.evals + 1
           a == Ask(c, asv)
           long == raw \o Tagged(m, k, slots)
           d == [evals |-> client[c].evals + 1,
                 ids |-> With(client[c].ids, k, client[c].evals + 1)]
<1>0. MapsInv /\ TypeInv
  BY DEF OwnInv, MapsInv
<1>1. /\ m \in Models /\ s = model[m] /\ Request(asv, hit, slots)
      /\ raw' = long /\ config' = config /\ answer' = {}
      /\ model' = [model EXCEPT ![m] = t]
      /\ client' = [client EXCEPT ![c] = d]
      /\ StartedTo(s, t, raw, slots)
      /\ t.cache = s.cache /\ t.asked = Append(s.asked, a)
      /\ t.est = (asv.est \/ s.est)
      /\ t.numFD = With(s.numFD, s.evals + 1,
                        IF asv.est THEN Len(slots) ELSE -1)
      /\ t.lists = IF asv.est
                     THEN [Listed(s.lists, m, s.evals + 1, config, asv,
                                  Initial(asv, hit), hit)
                             EXCEPT !.sets = Append(@, asv)]
                     ELSE s.lists
  BY DEF NowaitTo
<1>2. /\ slots \in Seq(Slot)
      /\ (IF asv.est THEN asv ELSE [est |-> FALSE]) \in AsvSet
  BY <1>1 DEF Request
<1>3. /\ raw \in Seq(TagSet) /\ StateType(s) /\ client[c].evals \in Nat
      /\ s.evals \in Nat /\ k \in Nat /\ config \in Configurations
      /\ s.asked \in Seq(AskSet) /\ Len(s.asked) = s.evals
      /\ MapsOf(m, s, raw, pending \cup cached) /\ CacheOf(m, s)
      /\ Planned(config, m, s, raw)
  <2>1. m \in Models /\ s = model[m]
    BY <1>1
  <2>2. CacheOf(m, s) /\ Planned(config, m, s, raw)
    BY <2>1 DEF OwnInv
  <2>3. /\ raw \in Seq(TagSet) /\ StateType(s) /\ client[c].evals \in Nat
        /\ config \in Configurations
    BY <1>0, <2>1 DEF TypeInv, StateType
  <2>4. MapsOf(m, s, raw, pending \cup cached)
    BY <1>0, <2>1 DEF MapsInv
  <2>5. /\ s.evals \in Nat /\ s.asked \in Seq(AskSet)
        /\ Len(s.asked) = s.evals /\ k \in Nat
    BY <2>3 DEF StateType
  <2>6. QED
    BY <2>2, <2>3, <2>4, <2>5
<1>4. a \in AskSet /\ a.asv = IF asv.est THEN asv ELSE [est |-> FALSE]
  BY <1>2, <1>3 DEF Ask, AskSet
<1>5. d = [evals |-> d.evals, ids |-> d.ids]
  OBVIOUS
<1>6. t.evals = s.evals + 1
  BY <1>1 DEF StartedTo
<1> HIDE DEF a, d
<1>7. model'[m] = t /\ \A n \in Models : n # m => model'[n] = model[n]
  BY <1>0, <1>1, <1>5, OneChanges
<1>8. Planned(config, m, t, long)
  <2> DEFINE held == pending \cup cached
  <2>1. MapsOf(m, s, raw, held)
    BY <1>3
  <2> HIDE DEF held, long, k
  <2>2. /\ config \in Configurations /\ m \in Models /\ StateType(s)
        /\ raw \in Seq(TagSet) /\ Planned(config, m, s, raw)
        /\ Request(asv, hit, slots) /\ StartedTo(s, t, raw, slots)
        /\ a \in AskSet /\ t.asked = Append(s.asked, a)
        /\ a.asv = (IF asv.est THEN asv ELSE [est |-> FALSE])
        /\ t.est = (asv.est \/ s.est)
        /\ t.numFD = With(s.numFD, s.evals + 1,
                          IF asv.est THEN Len(slots) ELSE -1)
        /\ t.lists = IF asv.est
                       THEN [Listed(s.lists, m, s.evals + 1, config, asv,
                                    Initial(asv, hit), hit)
                               EXCEPT !.sets = Append(@, asv)]
                       ELSE s.lists
    BY <1>1, <1>3, <1>4
  <2>3. Planned(config, m, t, raw \o Tagged(m, s.evals + 1, slots))
    BY <2>1, <2>2, NowaitPlan
  <2>4. QED
    BY <2>3 DEF long, k
<1>9. CacheOf(m, t)
  BY <1>1, <1>3, <1>4, <1>6, CacheLonger
<1>10. \A n \in Models : \A i \in DOMAIN model[n].simIds : raw'[i] = raw[i]
  <2> HIDE DEF k
  <2>1. QED
    BY <1>0, <1>1, <1>2, <1>3, LogGrows
<1>11. OwnResponse'
  BY <1>1 DEF OwnResponse
<1>12. MapsInv'
  BY <1>0, NowaitMaps
<1> HIDE DEF long
<1>13. QED
  BY <1>1, <1>7, <1>8, <1>9, <1>10, <1>11, <1>12, OwnSteps

LEMMA EvaluateOwn ==
  ASSUME FixedSeparate, OwnInv, NEW c \in Clients, NEW asv, NEW hit, NEW m,
         NEW s, NEW t, NEW slots, EvaluateTo(c, asv, hit, m, s, t, slots)
  PROVE  OwnInv'
<1> DEFINE k == s.evals + 1
           a == Ask(c, asv)
           o == Outcome(c, asv, hit, m, s, slots)
           long == raw \o Tagged(m, k, slots)
           d == [evals |-> client[c].evals + 1, ids |-> client[c].ids]
           e == client[c].evals + 1
<1>0. MapsInv /\ TypeInv
  BY DEF OwnInv, MapsInv
<1>1. /\ m = ModelOf[c] /\ m \in Models /\ s = model[m]
      /\ Request(asv, hit, slots)
      /\ raw' = long /\ config' = config
      /\ model' = [model EXCEPT ![m] = t]
      /\ client' = [client EXCEPT ![c] = d] /\ t = o.state
      /\ answer' = {[client |-> c, eval |-> e, response |-> o.response]}
  BY DEF EvaluateTo
<1>2. /\ slots \in Seq(Slot) /\ asv.est \in BOOLEAN
      /\ (IF asv.est THEN asv ELSE [est |-> FALSE]) \in AsvSet
  BY <1>1 DEF Request
<1>3. /\ raw \in Seq(TagSet) /\ StateType(s) /\ client[c].evals \in Nat
      /\ s.evals \in Nat /\ k \in Nat /\ config \in Configurations
      /\ s.asked \in Seq(AskSet) /\ Len(s.asked) = s.evals
      /\ CacheOf(m, s) /\ Planned(config, m, s, raw)
  <2>1. m \in Models /\ s = model[m]
    BY <1>1
  <2>2. CacheOf(m, s) /\ Planned(config, m, s, raw)
    BY <2>1 DEF OwnInv
  <2>3. /\ raw \in Seq(TagSet) /\ StateType(s) /\ client[c].evals \in Nat
        /\ config \in Configurations
    BY <1>0, <2>1 DEF TypeInv, StateType
  <2>4. /\ s.evals \in Nat /\ s.asked \in Seq(AskSet)
        /\ Len(s.asked) = s.evals /\ k \in Nat
    BY <2>3 DEF StateType
  <2>5. QED
    BY <2>2, <2>3, <2>4
<1>4. /\ a \in AskSet /\ a.asv = IF asv.est THEN asv ELSE [est |-> FALSE]
      /\ a.client = c /\ a.eval = e
  BY <1>2, <1>3 DEF Ask, AskSet
<1>5. d = [evals |-> d.evals, ids |-> d.ids]
  OBVIOUS
<1>6. MapsInv' /\ DOMAIN s.simIds = {} /\ DOMAIN s.numFD = {}
      /\ EvaluatedTo(c, asv, s, t, slots)
  BY <1>0, EvaluateMaps
<1>7. /\ t.evals = k /\ t.numFD = s.numFD /\ t.cache = s.cache
      /\ t.asked = Append(s.asked, a)
  BY <1>6 DEF EvaluatedTo
<1>8. s.lists = NoLists
  BY <1>3, <1>6, EmptyLists
<1>9. OutcomeIs(m, k, asv, o)
  BY <1>1, <1>3, <1>6, <1>8, OutcomeOwn
<1> HIDE DEF a, d, o, e
<1>10. model'[m] = t /\ \A n \in Models : n # m => model'[n] = model[n]
  BY <1>0, <1>1, <1>5, OneChanges
<1>11. Planned(config, m, t, long)
  <2>1. DOMAIN t.numFD = {} /\ t.lists = NoLists
    BY <1>1, <1>6, <1>7, <1>9 DEF OutcomeIs
  <2> HIDE DEF long
  <2>2. QED
    BY <2>1, EmptyPlan
<1>12. CacheOf(m, t)
  BY <1>3, <1>4, <1>7, CacheLonger
<1>13. \A n \in Models : \A i \in DOMAIN model[n].simIds : raw'[i] = raw[i]
  <2> HIDE DEF k
  <2>1. QED
    BY <1>0, <1>1, <1>2, <1>3, LogGrows
<1>14. OwnResponse'
  <2>1. t.asked[k] = a /\ k \in 1 .. t.evals
    BY <1>3, <1>4, <1>7, AppendProperties
  <2>a. PICK b : b = [client |-> c, eval |-> e, response |-> o.response]
    OBVIOUS
  <2>2. b.client = c /\ b.eval = e /\ b.response = o.response
    BY <2>a
  <2>3. answer' = {b}
    BY <1>1, <2>a
  <2> HIDE DEF k
  <2>4. Own(m, k, b.response)'
    <3>1. /\ o.response.asv = t.asked[k].asv
          /\ \A pair \in o.response.used : pair[2] = Tag(m, k, pair[1])
      BY <1>4, <1>9, <2>1 DEF OutcomeIs, OwnPairs
    <3>2. QED
      BY <1>10, <2>2, <3>1 DEF Own
  <2>5. /\ k \in 1 .. model'[m].evals
        /\ model'[m].asked[k].client = b.client
        /\ model'[m].asked[k].eval = b.eval
    BY <1>4, <1>10, <2>1, <2>2
  <2>6. ModelOf[b.client] = m
    BY <1>1, <2>2
  <2>7. QED
    BY <2>3, <2>4, <2>5, <2>6 DEF OwnResponse
<1> HIDE DEF long
<1>15. QED
  BY <1>1, <1>6, <1>10, <1>11, <1>12, <1>13, <1>14, OwnSteps

LEMMA OwnInit ==
  ASSUME Init
  PROVE  OwnInv
<1>1. model = [m \in Models |-> Idle] /\ answer = {}
  BY DEF Init
<1>2. /\ DOMAIN Idle.numFD = {} /\ Idle.lists = NoLists
      /\ DOMAIN Idle.cache = {}
  BY DEF Idle, None
<1>3. ASSUME NEW m \in Models
      PROVE  Planned(config, m, model[m], raw) /\ CacheOf(m, model[m])
  <2> DEFINE s == model[m]
  <2>1. DOMAIN s.numFD = {} /\ s.lists = NoLists /\ DOMAIN s.cache = {}
    BY <1>1, <1>2
  <2> HIDE DEF s
  <2>2. Planned(config, m, s, raw)
    BY <2>1, EmptyPlan
  <2>3. CacheOf(m, s)
    BY <2>1 DEF CacheOf
  <2>4. QED
    BY <2>2, <2>3 DEF s
<1>4. MapsInv
  BY MapsInit
<1>5. OwnResponse
  BY <1>1 DEF OwnResponse
<1>6. QED
  BY <1>3, <1>4, <1>5 DEF OwnInv

(* Nothing that the invariant speaks of changes.                           *)
LEMMA OwnStutters ==
  ASSUME OwnInv, MapsInv', config' = config, raw' = raw, model' = model,
         answer' = answer
  PROVE  OwnInv'
<1>1. OwnResponse'
  BY DEF OwnInv, OwnResponse, Own
<1>2. QED
  BY <1>1 DEF OwnInv

LEMMA OwnStep ==
  ASSUME EstimatesEvaluate, FixedSeparate, OwnInv, [Next]_vars
  PROVE  OwnInv'
<1>0. MapsInv /\ TypeInv
  BY DEF OwnInv, MapsInv
<1>a. MapsInv'
  BY <1>0, MapsStep
<1>1. ASSUME NEW c \in Clients, EvaluateNowait(c) PROVE OwnInv'
  <2>1. PICK asv, hit, m, s, t, slots : NowaitTo(c, asv, hit, m, s, t, slots)
    BY <1>0, <1>1, NowaitFacts
  <2>2. QED
    BY <2>1, NowaitOwn
<1>2. ASSUME NEW c \in Clients, Synchronize(c) PROVE OwnInv'
  BY <1>2, SynchronizeOwn
<1>3. ASSUME NEW c \in Clients, SynchronizeNowait(c) PROVE OwnInv'
  BY <1>3, SynchronizeNowaitOwn
<1>4. ASSUME NEW c \in Clients, SynchronizeNowaitAborts(c) PROVE OwnInv'
  <2>1. config' = config /\ raw' = raw /\ model' = model /\ answer' = answer
    BY <1>4 DEF SynchronizeNowaitAborts
  <2>2. QED
    BY <1>a, <2>1, OwnStutters
<1>5. ASSUME NEW c \in Clients, Evaluate(c) PROVE OwnInv'
  <2>1. PICK asv, hit, m, s, t, slots : EvaluateTo(c, asv, hit, m, s, t, slots)
    BY <1>0, <1>5, EvaluateFacts
  <2>2. QED
    BY <2>1, EvaluateOwn
<1>6. CASE UNCHANGED vars
  <2>1. config' = config /\ raw' = raw /\ model' = model /\ answer' = answer
    BY <1>6 DEF vars
  <2>2. QED
    BY <1>a, <2>1, OwnStutters
<1>7. QED
  BY <1>1, <1>2, <1>3, <1>4, <1>5, <1>6 DEF Next

(* A client receives responses made of its own raw evaluations: whatever   *)
(* the clients, models and responses specifications, and however           *)
(* evaluate_nowait(), synchronize(), synchronize_nowait() and evaluate()   *)
(* of clients that share a model follow each other, the response that a    *)
(* client receives under one of its ids is merged from the raw             *)
(* evaluations, steps and database records of that evaluation, each in     *)
(* its place in the difference formulas.  Every estimation must make a raw *)
(* evaluation, and gradients and Hessians must not both be differenced     *)
(* while a variable is fixed.                                              *)
THEOREM ResponsesOwn ==
  ASSUME EstimatesEvaluate, FixedSeparate
  PROVE  Spec => []OwnResponse
<1>1. Init => OwnInv
  BY OwnInit
<1>2. OwnInv /\ [Next]_vars => OwnInv'
  BY OwnStep
<1>3. OwnInv => OwnResponse
  BY DEF OwnInv
<1>4. QED
  BY <1>1, <1>2, <1>3, PTL DEF Spec
=============================================================================
