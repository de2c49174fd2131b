--------------------------- MODULE IdQueueProofs ---------------------------
(***************************************************************************)
(* Facts about IdQueue, and the arithmetic and the facts about sequences   *)
(* that the proofs on the message passing schedulers share.                *)
(***************************************************************************)
EXTENDS IdQueue, FiniteSetTheorems, SequenceTheorems, TLAPS

-----------------------------------------------------------------------------
(* Quotients, as the round robins deal them out.                           *)

(* A product of positive factors grows with each of them.                  *)
LEMMA ProductGrows ==
  ASSUME NEW a \in Nat, NEW b \in Nat, NEW c \in Nat, a < b
  PROVE  a * c + c <= b * c
<1>1. PICK d \in Nat : b = a + 1 + d
  <2>1. b - a - 1 \in Nat /\ b = a + 1 + (b - a - 1)
    OBVIOUS
  <2>2. QED
    BY <2>1
<1>2. b * c = a * c + c + d * c
  BY <1>1
<1>3. d * c \in Nat /\ a * c \in Nat
  OBVIOUS
<1>4. QED
  BY <1>2, <1>3

(* Names for the quotient and the remainder.                               *)
Quotient(i, n) == i \div n
Remainder(i, n) == i % n

(* A number below c * n has a quotient below c and a remainder below n.    *)
LEMMA Division ==
  ASSUME NEW i \in Nat, NEW n \in Nat \ {0}, NEW c \in Nat \ {0}, i < c * n
  PROVE  /\ Remainder(i, n) \in 0 .. (n - 1) /\ Quotient(i, n) \in 0 .. (c - 1)
         /\ i = Quotient(i, n) * n + Remainder(i, n)
<1> DEFINE q == Quotient(i, n)
           r == Remainder(i, n)
<1>1. r \in 0 .. (n - 1) /\ q \in Int
  BY DEF Quotient, Remainder
<1>2. q >= 0
  BY Z3 DEF Quotient
<1>3. r = i - n * q
  BY DEF Quotient, Remainder
<1> HIDE DEF q, r
<1>4. n * q = q * n /\ n * q \in Int
  BY <1>1
<1>5. i = q * n + r
  <2> DEFINE p == n * q
  <2>1. p \in Int /\ p = q * n /\ r = i - p /\ r \in Int /\ i \in Int
    BY <1>1, <1>3, <1>4
  <2> HIDE DEF p
  <2>2. i = p + r
    BY <2>1
  <2>3. QED
    BY <2>1, <2>2
<1>6. ASSUME c <= q PROVE FALSE
  <2>1. q \in Nat /\ c \in Nat /\ n \in Nat
    BY <1>1, <1>2
  <2>2. c = q \/ c < q
    BY <1>6, <2>1
  <2>3. CASE c = q
    <3>1. c * n \in Nat /\ i = c * n + r
      BY <1>5, <2>3
    <3>2. QED
      BY <1>1, <3>1
  <2>4. CASE c < q
    <3> DEFINE x == c * n
               y == q * n
    <3>1. x + n <= y
      BY <2>1, <2>4, ProductGrows
    <3>2. x \in Nat /\ y \in Nat /\ i < x /\ i = y + r
      BY <1>5, <2>1
    <3> HIDE DEF x, y
    <3>3. QED
      BY <1>1, <3>1, <3>2
  <2>5. QED
    BY <2>2, <2>3, <2>4
<1>7. r \in 0 .. (n - 1) /\ q \in 0 .. (c - 1) /\ i = q * n + r
  BY <1>1, <1>2, <1>5, <1>6
<1>8. QED
  BY <1>7 DEF q, r

-----------------------------------------------------------------------------
(* The walks of a queue.                                                   *)

(* Place and Nth number a finite set of ids from 0, in increasing order.   *)
LEMMA WalkFacts ==
  ASSUME NEW S, IsFiniteSet(S), S \subseteq Int
  PROVE  /\ Cardinality(S) \in Nat
         /\ \A x \in S : Place(S, x) \in 0 .. (Cardinality(S) - 1)
         /\ \A x, y \in S : Place(S, x) = Place(S, y) => x = y
         /\ \A x, y \in S : x < y => Place(S, x) < Place(S, y)
         /\ \A i \in 0 .. (Cardinality(S) - 1) :
              Nth(S, i) \in S /\ Place(S, Nth(S, i)) = i
         /\ \A x \in S : Nth(S, Place(S, x)) = x
<1> DEFINE n == Cardinality(S)
           below(x) == {y \in S : y < x}
           place == [x \in S |-> Place(S, x)]
<1>1. n \in Nat
  BY FS_CardinalityType
<1>2. \A x : Place(S, x) = Cardinality(below(x))
  BY DEF Place
<1>3. ASSUME NEW x \in S
      PROVE  /\ IsFiniteSet(below(x)) /\ Place(S, x) \in Nat
             /\ Place(S, x) < n
  <2>1. below(x) \in SUBSET S /\ x \notin below(x)
    OBVIOUS
  <2> HIDE DEF below, n
  <2>2. IsFiniteSet(below(x)) /\ Cardinality(below(x)) <= Cardinality(S)
        /\ Cardinality(below(x)) # Cardinality(S)
    BY <2>1, FS_Subset
  <2>3. Cardinality(below(x)) \in Nat
    BY <2>2, FS_CardinalityType
  <2>4. QED
    BY <1>1, <1>2, <2>2, <2>3 DEF n
<1>4. ASSUME NEW x \in S, NEW y \in S, x < y
      PROVE  Place(S, x) < Place(S, y)
  <2>1. below(x) \in SUBSET below(y) /\ x \in below(y) /\ x \notin below(x)
    <3>1. \A z \in S : z \in Int
      OBVIOUS
    <3>2. \A z \in S : z < x => z < y
      BY <1>4, <3>1
    <3>3. x < y /\ ~(x < x)
      BY <1>4, <3>1
    <3>4. QED
      BY <3>2, <3>3
  <2>2. IsFiniteSet(below(y)) /\ Place(S, x) \in Nat /\ Place(S, y) \in Nat
    BY <1>3
  <2> HIDE DEF below
  <2>3. Cardinality(below(x)) # Cardinality(below(y))
        /\ Cardinality(below(x)) <= Cardinality(below(y))
    BY <2>1, <2>2, FS_Subset
  <2>4. QED
    BY <1>2, <2>2, <2>3
<1>5. ASSUME NEW x \in S, NEW y \in S, Place(S, x) = Place(S, y) PROVE x = y
  <2> HIDE DEF below
  <2>1. Place(S, x) \in Nat /\ Place(S, y) \in Nat
    BY <1>3
  <2>2. ~(Place(S, x) < Place(S, y)) /\ ~(Place(S, y) < Place(S, x))
    BY <1>5, <2>1
  <2>3. ~(x < y) /\ ~(y < x)
    BY <1>4, <2>2
  <2>4. x \in Int /\ y \in Int
    OBVIOUS
  <2>5. QED
    BY <2>3, <2>4
<1>6. place \in [S -> 0 .. (n - 1)] /\ \A x \in S : Place(S, x) \in 0 .. (n - 1)
  <2> HIDE DEF n, below
  <2>1. \A x \in S : Place(S, x) \in 0 .. (n - 1)
    BY <1>1, <1>3
  <2>2. QED
    BY <2>1
<1>7. place \in Injection(S, 0 .. (n - 1))
  <2>1. \A x, y \in S : place[x] = place[y] => x = y
    BY <1>5
  <2> HIDE DEF place, n
  <2>2. QED
    BY <1>6, <2>1 DEF Injection, IsInjective
<1>8. IsFiniteSet(0 .. (n - 1)) /\ Cardinality(0 .. (n - 1)) = n
  <2> HIDE DEF n
  <2>1. CASE n = 0
    <3>1. 0 .. (n - 1) = {}
      BY <2>1
    <3>2. QED
      BY <2>1, <3>1, FS_EmptySet
  <2>2. CASE n # 0
    <3>1. 0 \in Int /\ n - 1 \in Int /\ ~(0 > n - 1)
      BY <1>1, <2>2
    <3>2. IsFiniteSet(0 .. (n - 1)) /\ Cardinality(0 .. (n - 1)) = (n - 1) - 0 + 1
      BY <3>1, FS_Interval
    <3>3. (n - 1) - 0 + 1 = n
      BY <1>1
    <3>4. QED
      BY <3>2, <3>3
  <2>3. QED
    BY <2>1, <2>2
<1>9. place \in Surjection(S, 0 .. (n - 1))
  <2>1. Cardinality(S) = Cardinality(0 .. (n - 1))
    BY <1>8
  <2> HIDE DEF place, n
  <2>2. QED
    BY <1>7, <1>8, <2>1, FS_Injection
<1>10. \A i \in 0 .. (n - 1) : \E x \in S : Place(S, x) = i
  BY <1>9 DEF Surjection
<1>11. \A i \in 0 .. (n - 1) : Nth(S, i) \in S /\ Place(S, Nth(S, i)) = i
  <2> HIDE DEF n
  <2>1. QED
    BY <1>10 DEF Nth
<1>12. \A x \in S : Place(S, x) \in 0 .. (n - 1)
  BY <1>6
<1>13. \A x \in S : Nth(S, Place(S, x)) = x
  <2> HIDE DEF n
  <2>1. QED
    BY <1>5, <1>11, <1>12
<1>14. QED
  BY <1>1, <1>4, <1>5, <1>11, <1>12, <1>13

(* The numbers below n are n.                                              *)
LEMMA Below ==
  ASSUME NEW n \in Nat
  PROVE  IsFiniteSet(0 .. (n - 1)) /\ Cardinality(0 .. (n - 1)) = n
<1>1. CASE n = 0
  <2>1. 0 .. (n - 1) = {}
    BY <1>1
  <2>2. QED
    BY <1>1, <2>1, FS_EmptySet
<1>2. CASE n # 0
  <2>1. 0 \in Int /\ n - 1 \in Int /\ ~(0 > n - 1)
    BY <1>2
  <2>2. IsFiniteSet(0 .. (n - 1)) /\ Cardinality(0 .. (n - 1)) = (n - 1) - 0 + 1
    BY <2>1, FS_Interval
  <2>3. (n - 1) - 0 + 1 = n
    OBVIOUS
  <2>4. QED
    BY <2>2, <2>3
<1>3. QED
  BY <1>1, <1>2

(* A walk that counts to k has passed at most k ids.                       *)
LEMMA FirstOfFacts ==
  ASSUME NEW S, IsFiniteSet(S), S \subseteq Int, NEW k \in Nat
  PROVE  /\ FirstOf(S, k) \subseteq S /\ IsFiniteSet(FirstOf(S, k))
         /\ Cardinality(FirstOf(S, k)) <= k
<1> DEFINE F == FirstOf(S, k)
           place == [x \in F |-> Place(S, x)]
<1>1. F \subseteq S /\ \A x \in F : Place(S, x) < k
  BY DEF FirstOf
<1>2. /\ \A x \in S : Place(S, x) \in Nat
      /\ \A x, y \in S : Place(S, x) = Place(S, y) => x = y
  <2>1. /\ \A x \in S : Place(S, x) \in 0 .. (Cardinality(S) - 1)
        /\ \A x, y \in S : Place(S, x) = Place(S, y) => x = y
    BY WalkFacts, Zenon
  <2>2. QED
    BY <2>1
<1> HIDE DEF F
<1>3. \A x \in F : Place(S, x) \in 0 .. (k - 1)
  BY <1>1, <1>2
<1>4. place \in [F -> 0 .. (k - 1)] /\ \A x, y \in F : place[x] = place[y] => x = y
  BY <1>1, <1>2, <1>3
<1>5. place \in Injection(F, 0 .. (k - 1))
  BY <1>4 DEF Injection, IsInjective
<1>6. IsFiniteSet(0 .. (k - 1)) /\ Cardinality(0 .. (k - 1)) = k
  BY Below
<1>7. IsFiniteSet(F) /\ Cardinality(F) <= k
  BY <1>5, <1>6, FS_Injection
<1>8. QED
  BY <1>1, <1>7 DEF F

(* The first of a finite set of numbers is the least.                      *)
LEMMA LeastFirst ==
  ASSUME NEW S, IsFiniteSet(S), S \subseteq Int, S # {}
  PROVE  Nth(S, 0) \in S /\ \A y \in S : Nth(S, 0) <= y
<1> DEFINE m == Nth(S, 0)
           below == {y \in S : y < m}
<1>1. Cardinality(S) \in Nat /\ Cardinality(S) # 0
  BY FS_CardinalityType, FS_EmptySet
<1>2. 0 \in 0 .. (Cardinality(S) - 1)
  BY <1>1
<1>3. m \in S /\ Place(S, m) = 0
  BY <1>2, WalkFacts
<1>4. Cardinality(below) = 0
  BY <1>3 DEF Place
<1>5. below = {}
  <2>1. IsFiniteSet(below)
    BY FS_Subset
  <2> HIDE DEF below
  <2>2. QED
    BY <1>4, <2>1, FS_EmptySet
<1>6. ASSUME NEW y \in S PROVE m <= y
  <2>1. y \in Int /\ m \in Int /\ ~(y < m)
    BY <1>3, <1>5
  <2> HIDE DEF m
  <2>2. QED
    BY <2>1
<1>7. QED
  BY <1>3, <1>6

-----------------------------------------------------------------------------
(* Sequences of ids.                                                       *)

(* The elements of a sequence, and a sequence that lists none twice.       *)
Elems(q) == {q[k] : k \in DOMAIN q}
NoRepeats(q) == \A j, k \in DOMAIN q : q[j] = q[k] => j = k

(* A set of ids in increasing order lists each of them once.               *)
LEMMA ListFacts ==
  ASSUME NEW S, IsFiniteSet(S), S \subseteq Int
  PROVE  /\ InOrder(S) \in Seq(S) /\ Elems(InOrder(S)) = S
         /\ NoRepeats(InOrder(S))
<1> DEFINE n == Cardinality(S)
           q == InOrder(S)
<1>2. /\ n \in Nat
      /\ \A x \in S : Place(S, x) \in 0 .. (n - 1)
      /\ \A i \in 0 .. (n - 1) : Nth(S, i) \in S /\ Place(S, Nth(S, i)) = i
      /\ \A x \in S : Nth(S, Place(S, x)) = x
  BY WalkFacts
<1>3. q = [k \in 1 .. n |-> Nth(S, k - 1)]
  BY DEF InOrder
<1> HIDE DEF n, q
<1>4. \A k \in 1 .. n : k - 1 \in 0 .. (n - 1)
  BY <1>2
<1>5. \A k \in 1 .. n : q[k] \in S /\ Place(S, q[k]) = k - 1
  BY <1>2, <1>3, <1>4
<1>6. q \in [1 .. n -> S]
  BY <1>3, <1>5
<1>7. q \in Seq(S) /\ DOMAIN q = 1 .. n
  BY <1>2, <1>6
<1>8. ASSUME NEW x \in S PROVE \E k \in 1 .. n : q[k] = x
  <2>1. Place(S, x) + 1 \in 1 .. n /\ (Place(S, x) + 1) - 1 = Place(S, x)
    BY <1>2
  <2>2. q[Place(S, x) + 1] = x
    BY <1>2, <1>3, <2>1
  <2>3. QED
    BY <2>1, <2>2
<1>9. ASSUME NEW j \in 1 .. n, NEW k \in 1 .. n, q[j] = q[k] PROVE j = k
  <2>1. j - 1 = k - 1
    BY <1>5, <1>9
  <2>2. QED
    BY <2>1
<1>10. Elems(q) = S /\ NoRepeats(q)
  <2>1. Elems(q) = S
    BY <1>5, <1>7, <1>8 DEF Elems
  <2>2. NoRepeats(q)
    BY <1>7, <1>9 DEF NoRepeats
  <2>3. QED
    BY <2>1, <2>2
<1>11. QED
  BY <1>7, <1>10 DEF q

(* A sequence put behind another lists the elements of both.               *)
LEMMA ConcatFacts ==
  ASSUME NEW T, NEW s \in Seq(T), NEW t \in Seq(T)
  PROVE  /\ s \o t \in Seq(T)
         /\ Elems(s \o t) = Elems(s) \cup Elems(t)
         /\ NoRepeats(s) /\ NoRepeats(t) /\ Elems(s) \cap Elems(t) = {}
              => NoRepeats(s \o t)
<1> DEFINE u == s \o t
<1>1. /\ u \in Seq(T) /\ Len(u) = Len(s) + Len(t)
      /\ \A i \in 1 .. Len(s) + Len(t) :
           u[i] = IF i <= Len(s) THEN s[i] ELSE t[i - Len(s)]
  BY ConcatProperties
<1>2. /\ DOMAIN s = 1 .. Len(s) /\ DOMAIN t = 1 .. Len(t)
      /\ DOMAIN u = 1 .. Len(u) /\ Len(s) \in Nat /\ Len(t) \in Nat
  BY <1>1, LenProperties
<1> HIDE DEF u
<1>3. ASSUME NEW i \in DOMAIN u
      PROVE  \/ i \in DOMAIN s /\ u[i] = s[i]
             \/ i - Len(s) \in DOMAIN t /\ u[i] = t[i - Len(s)]
  BY <1>1, <1>2
<1>4. /\ \A i \in DOMAIN s : i \in DOMAIN u /\ u[i] = s[i]
      /\ \A i \in DOMAIN t : i + Len(s) \in DOMAIN u /\ u[i + Len(s)] = t[i]
  <2>1. \A i \in DOMAIN s : i \in DOMAIN u /\ u[i] = s[i]
    BY <1>1, <1>2
  <2>2. ASSUME NEW i \in DOMAIN t
        PROVE  i + Len(s) \in DOMAIN u /\ u[i + Len(s)] = t[i]
    <3>1. i + Len(s) \in 1 .. Len(s) + Len(t) /\ i + Len(s) - Len(s) = i
          /\ ~(i + Len(s) <= Len(s))
      BY <1>2
    <3>2. QED
      BY <1>1, <1>2, <3>1
  <2>3. QED
    BY <2>1, <2>2
<1>5. Elems(u) = Elems(s) \cup Elems(t)
  <2>1. ASSUME NEW x \in Elems(u) PROVE x \in Elems(s) \cup Elems(t)
    BY <1>3, <2>1 DEF Elems
  <2>2. ASSUME NEW x \in Elems(s) \cup Elems(t) PROVE x \in Elems(u)
    BY <1>4, <2>2 DEF Elems
  <2>3. QED
    BY <2>1, <2>2
<1>6. ASSUME NoRepeats(s), NoRepeats(t), Elems(s) \cap Elems(t) = {}
      PROVE  NoRepeats(u)
  <2>1. SUFFICES ASSUME NEW i \in DOMAIN u, NEW j \in DOMAIN u, u[i] = u[j]
                 PROVE  i = j
    BY DEF NoRepeats
  <2>2. CASE i \in DOMAIN s /\ u[i] = s[i]
    <3>1. u[i] \in Elems(s)
      BY <2>2 DEF Elems
    <3>2. ~(j - Len(s) \in DOMAIN t /\ u[j] = t[j - Len(s)])
      BY <1>6, <2>1, <3>1 DEF Elems
    <3>3. j \in DOMAIN s /\ u[j] = s[j]
      BY <1>3, <3>2
    <3>4. QED
      BY <1>6, <2>1, <2>2, <3>3 DEF NoRepeats
  <2>3. CASE i - Len(s) \in DOMAIN t /\ u[i] = t[i - Len(s)]
    <3>1. u[i] \in Elems(t)
      BY <2>3 DEF Elems
    <3>2. ~(j \in DOMAIN s /\ u[j] = s[j])
      BY <1>6, <2>1, <3>1 DEF Elems
    <3>3. j - Len(s) \in DOMAIN t /\ u[j] = t[j - Len(s)]
      BY <1>3, <3>2
    <3>4. i - Len(s) = j - Len(s)
      BY <1>6, <2>1, <2>3, <3>3 DEF NoRepeats
    <3>5. QED
      BY <1>2, <2>1, <3>4
  <2>4. QED
    BY <1>3, <2>2, <2>3
<1>7. QED
  BY <1>1, <1>5, <1>6 DEF u

(* A sequence from which the k-th element is taken.                        *)
LEMMA TakenFacts ==
  ASSUME NEW T, NEW s \in Seq(T), NEW k \in 1 .. Len(s), NoRepeats(s)
  PROVE  LET u == SubSeq(s, 1, k - 1) \o SubSeq(s, k + 1, Len(s))
         IN  /\ u \in Seq(T) /\ NoRepeats(u)
             /\ Elems(u) = Elems(s) \ {s[k]} /\ s[k] \in Elems(s)
<1> DEFINE a == SubSeq(s, 1, k - 1)
           b == SubSeq(s, k + 1, Len(s))
<1>1. /\ Len(s) \in Nat /\ k \in Nat /\ DOMAIN s = 1 .. Len(s)
      /\ \A i \in 1 .. Len(s) : s[i] \in T
  BY LenProperties, ElementOfSeq
<1>2. /\ a \in Seq(T) /\ Len(a) = k - 1 /\ DOMAIN a = 1 .. (k - 1)
      /\ \A i \in 1 .. (k - 1) : a[i] = s[i]
  <2>1. 1 \in Int /\ k - 1 \in Int /\ \A i \in 1 .. (k - 1) : s[i] \in T
    BY <1>1
  <2>2. /\ a \in Seq(T) /\ Len(a) = IF 1 <= k - 1 THEN (k - 1) - 1 + 1 ELSE 0
        /\ \A i \in 1 .. (k - 1) - 1 + 1 : a[i] = s[1 + i - 1]
    BY <2>1, SubSeqProperties
  <2>3. Len(a) = k - 1
    BY <1>1, <2>2
  <2>4. DOMAIN a = 1 .. (k - 1)
    BY <2>2, <2>3, LenProperties
  <2>5. ASSUME NEW i \in 1 .. (k - 1) PROVE a[i] = s[i]
    <3>1. i \in 1 .. (k - 1) - 1 + 1 /\ 1 + i - 1 = i
      BY <1>1
    <3> HIDE DEF a
    <3>2. QED
      BY <2>2, <3>1
  <2>6. QED
    BY <2>2, <2>3, <2>4, <2>5
<1>3. /\ b \in Seq(T) /\ DOMAIN b = 1 .. (Len(s) - k)
      /\ \A i \in 1 .. (Len(s) - k) : b[i] = s[k + i]
  <2>1. k + 1 \in Int /\ Len(s) \in Int /\ \A i \in (k + 1) .. Len(s) : s[i] \in T
    BY <1>1
  <2>2. /\ b \in Seq(T)
        /\ Len(b) = IF k + 1 <= Len(s) THEN Len(s) - (k + 1) + 1 ELSE 0
        /\ \A i \in 1 .. Len(s) - (k + 1) + 1 : b[i] = s[(k + 1) + i - 1]
    BY <2>1, SubSeqProperties
  <2>3. Len(b) = Len(s) - k
    <3> DEFINE n == Len(s)
               m == Len(b)
    <3>1. n \in Nat /\ k \in 1 .. n /\ m = IF k + 1 <= n THEN n - (k + 1) + 1 ELSE 0
      BY <1>1, <2>2
    <3> HIDE DEF n, m
    <3>2. m = n - k
      BY <3>1
    <3>3. QED
      BY <3>2 DEF n, m
  <2>4. DOMAIN b = 1 .. (Len(s) - k)
    BY <2>2, <2>3, LenProperties
  <2>5. ASSUME NEW i \in 1 .. (Len(s) - k) PROVE b[i] = s[k + i]
    <3>1. i \in 1 .. Len(s) - (k + 1) + 1 /\ (k + 1) + i - 1 = k + i
      BY <1>1
    <3> HIDE DEF b
    <3>2. QED
      BY <2>2, <3>1
  <2>6. QED
    BY <2>2, <2>4, <2>5
<1> HIDE DEF a, b
<1>4. Elems(a) = {s[i] : i \in 1 .. (k - 1)}
  BY <1>2 DEF Elems
<1>5. Elems(b) = {s[i] : i \in (k + 1) .. Len(s)}
  <2>1. ASSUME NEW i \in (k + 1) .. Len(s) PROVE s[i] \in Elems(b)
    <3>1. i - k \in 1 .. (Len(s) - k) /\ k + (i - k) = i
      BY <1>1
    <3>2. b[i - k] = s[i]
      BY <1>3, <3>1
    <3>3. QED
      BY <1>3, <3>1, <3>2 DEF Elems
  <2>2. ASSUME NEW i \in 1 .. (Len(s) - k)
        PROVE  k + i \in (k + 1) .. Len(s) /\ b[i] = s[k + i]
    BY <1>1, <1>3
  <2>3. QED
    BY <1>3, <2>1, <2>2 DEF Elems
<1>6. \A i, j \in 1 .. Len(s) : s[i] = s[j] => i = j
  BY <1>1 DEF NoRepeats
<1>7. NoRepeats(a)
  <2>1. SUFFICES ASSUME NEW i \in 1 .. (k - 1), NEW j \in 1 .. (k - 1), a[i] = a[j]
                 PROVE  i = j
    BY <1>2 DEF NoRepeats
  <2>2. i \in 1 .. Len(s) /\ j \in 1 .. Len(s) /\ s[i] = s[j]
    BY <1>1, <1>2, <2>1
  <2>3. QED
    BY <1>6, <2>2
<1>8. NoRepeats(b)
  <2>1. SUFFICES ASSUME NEW i \in 1 .. (Len(s) - k), NEW j \in 1 .. (Len(s) - k),
                        b[i] = b[j]
                 PROVE  i = j
    BY <1>3 DEF NoRepeats
  <2>2. k + i \in 1 .. Len(s) /\ k + j \in 1 .. Len(s) /\ s[k + i] = s[k + j]
    BY <1>1, <1>3, <2>1
  <2>3. k + i = k + j
    BY <1>6, <2>2
  <2>4. QED
    BY <1>1, <2>3
<1>9. \A i \in 1 .. (k - 1), j \in (k + 1) .. Len(s) : s[i] # s[j]
  <2>1. SUFFICES ASSUME NEW i \in 1 .. (k - 1), NEW j \in (k + 1) .. Len(s)
                 PROVE  s[i] # s[j]
    OBVIOUS
  <2>2. i \in 1 .. Len(s) /\ j \in 1 .. Len(s) /\ i # j
    BY <1>1
  <2>3. QED
    BY <1>6, <2>2
<1>10. Elems(a) \cap Elems(b) = {}
  BY <1>4, <1>5, <1>9
<1>11. Elems(a) \cup Elems(b) = Elems(s) \ {s[k]} /\ s[k] \in Elems(s)
  <2>1. \A i \in 1 .. Len(s) : i # k <=> i \in 1 .. (k - 1) \/ i \in (k + 1) .. Len(s)
    BY <1>1
  <2>2. \A i : i \in 1 .. (k - 1) \/ i \in (k + 1) .. Len(s) => i \in 1 .. Len(s)
    BY <1>1
  <2>3. Elems(s) = {s[i] : i \in 1 .. Len(s)}
    BY <1>1 DEF Elems
  <2>4. QED
    BY <1>4, <1>5, <1>6, <2>1, <2>2, <2>3
<1>12. a \o b \in Seq(T) /\ NoRepeats(a \o b) /\ Elems(a \o b) = Elems(a) \cup Elems(b)
  BY <1>2, <1>3, <1>7, <1>8, <1>10, ConcatFacts
<1>13. QED
  BY <1>11, <1>12 DEF a, b

(* A sequence without repetitions is no longer than the set it is from.    *)
LEMMA LengthFacts ==
  ASSUME NEW T, NEW s \in Seq(T), NoRepeats(s), NEW P, IsFiniteSet(P),
         Elems(s) \subseteq P
  PROVE  Len(s) <= Cardinality(P) /\ Len(s) \in Nat
<1>1. DOMAIN s = 1 .. Len(s) /\ Len(s) \in Nat
  BY LenProperties
<1>2. \A i \in 1 .. Len(s) : s[i] \in P
  BY <1>1 DEF Elems
<1> DEFINE f == [i \in 1 .. Len(s) |-> s[i]]
<1>3. f \in [1 .. Len(s) -> P] /\ \A i, j \in 1 .. Len(s) : f[i] = f[j] => i = j
  BY <1>1, <1>2 DEF NoRepeats
<1> HIDE DEF f
<1>4. f \in Injection(1 .. Len(s), P)
  BY <1>3 DEF Injection, IsInjective
<1>5. Cardinality(1 .. Len(s)) <= Cardinality(P)
  BY <1>4, FS_Injection
<1>6. Cardinality(1 .. Len(s)) = Len(s)
  <2>1. CASE Len(s) = 0
    BY <2>1, FS_EmptySet
  <2>2. CASE Len(s) # 0
    <3>1. 1 \in Int /\ Len(s) \in Int /\ ~(1 > Len(s))
      BY <1>1, <2>2
    <3>2. Cardinality(1 .. Len(s)) = Len(s) - 1 + 1
      BY <3>1, FS_Interval
    <3>3. QED
      BY <1>1, <3>2
  <2>3. QED
    BY <2>1, <2>2
<1>7. QED
  BY <1>1, <1>5, <1>6

(* Quotient and remainder are determined.                                  *)
LEMMA DivisionUnique ==
  ASSUME NEW n \in Nat \ {0}, NEW a \in Nat, NEW b \in Nat,
         NEW r \in 0 .. (n - 1), NEW s \in 0 .. (n - 1), a * n + r = b * n + s
  PROVE  a = b /\ r = s
<1> DEFINE p == a * n
           q == b * n
<1>1. p \in Nat /\ q \in Nat /\ p + r = q + s
  OBVIOUS
<1>2. a < b => p + n <= q
  BY ProductGrows
<1>3. b < a => q + n <= p
  BY ProductGrows
<1>4. a = b => p = q
  OBVIOUS
<1> HIDE DEF p, q
<1>5. ~(a < b) /\ ~(b < a)
  BY <1>1, <1>2, <1>3
<1>6. a = b
  BY <1>5
<1>7. QED
  BY <1>1, <1>4, <1>6

(* The remainder of the next number, as in a round robin.                  *)
LEMMA NextRemainder ==
  ASSUME NEW i \in Nat, NEW n \in Nat \ {0}, NEW c \in Nat \ {0}, i < c * n
  PROVE  (i + 1) % n = IF Remainder(i, n) = n - 1 THEN 0 ELSE Remainder(i, n) + 1
<1> DEFINE j == i + 1
           q == Quotient(i, n)
           r == Remainder(i, n)
           u == Quotient(j, n)
           v == Remainder(j, n)
           p == c * n
<1>1. r \in 0 .. (n - 1) /\ q \in 0 .. (c - 1) /\ i = q * n + r
  BY Division
<1>2. c + 1 \in Nat \ {0} /\ (c + 1) * n = p + n /\ p \in Nat /\ j \in Nat
  OBVIOUS
<1>3. j < p + n
  <2> HIDE DEF p
  <2>1. i < p
    BY DEF p
  <2>2. QED
    BY <1>2, <2>1
<1>4. v \in 0 .. (n - 1) /\ u \in 0 .. ((c + 1) - 1) /\ j = u * n + v
  <2>1. j < (c + 1) * n
    BY <1>2, <1>3
  <2> HIDE DEF j
  <2>2. QED
    BY <1>2, <2>1, Division
<1>5. v = j % n
  BY DEF Remainder
<1> HIDE DEF q, r, u, v
<1>6. q \in Nat /\ q + 1 \in Nat /\ u \in Nat /\ (q + 1) * n = q * n + n
      /\ q * n \in Nat /\ u * n \in Nat
  BY <1>1, <1>4
<1>7. CASE r = n - 1
  <2>1. (q + 1) * n + 0 = u * n + v
    <3> DEFINE a == q * n
               b == u * n
    <3>1. i = a + r /\ j = b + v /\ (q + 1) * n = a + n /\ a \in Nat /\ b \in Nat
      BY <1>1, <1>4, <1>6
    <3> HIDE DEF a, b
    <3>2. a + n + 0 = b + v
      BY <1>1, <1>4, <1>7, <3>1
    <3>3. QED
      BY <3>1, <3>2 DEF b
  <2>2. 0 \in 0 .. (n - 1)
    OBVIOUS
  <2>3. v = 0
    BY <1>4, <1>6, <2>1, <2>2, DivisionUnique
  <2>4. QED
    BY <1>5, <1>7, <2>3 DEF r
<1>8. CASE r # n - 1
  <2> DEFINE w == r + 1
  <2>1. w \in 0 .. (n - 1)
    BY <1>1, <1>8
  <2>2. q * n + w = u * n + v
    <3> DEFINE a == q * n
               b == u * n
    <3>1. i = a + r /\ j = b + v /\ a \in Nat /\ b \in Nat
      BY <1>1, <1>4, <1>6
    <3> HIDE DEF a, b
    <3>2. a + (r + 1) = b + v
      BY <1>1, <1>4, <3>1
    <3>3. QED
      BY <3>2 DEF a, b
  <2> HIDE DEF w
  <2>3. v = w
    BY <1>4, <1>6, <2>1, <2>2, DivisionUnique
  <2>4. QED
    BY <1>5, <1>8, <2>3 DEF r, w
<1>9. QED
  BY <1>7, <1>8

(* A quotient is at most the number.                                       *)
LEMMA QuotientBound ==
  ASSUME NEW i \in Nat, NEW n \in Nat \ {0}
  PROVE  i \div n \in 0 .. i
<1> DEFINE c == i + 1
           p == c * n
<1>1. c \in Nat \ {0}
  OBVIOUS
<1>2. i < c * n
  <2>1. 0 * c + c <= n * c
    BY <1>1, ProductGrows
  <2>2. n * c = p /\ 0 * c = 0 /\ p \in Nat
    BY <1>1
  <2> HIDE DEF p
  <2>3. c <= p
    BY <1>1, <2>1, <2>2
  <2>4. i < p
    BY <1>1, <2>2, <2>3
  <2>5. QED
    BY <2>4 DEF p
<1>3. Quotient(i, n) \in 0 .. (c - 1)
  BY <1>1, <1>2, Division
<1>4. QED
  BY <1>3 DEF Quotient

=============================================================================
