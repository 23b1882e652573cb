------------------------- MODULE GeometryEngineProofs -------------------------
(***************************************************************************)
(* What the geometry engine does, for any base geometry, hole and sites:   *)
(* document order is a depth-first walk of the tree of a ring; a geometry  *)
(* that reflects a set of operations is one that performing them in any    *)
(* order would come to; one attempt at an operation takes it from one set  *)
(* to the next, or tells that something it refers to is missing; and an    *)
(* operation or a batch with all that it releases settles it.              *)
(***************************************************************************)
EXTENDS GeometryReplicas, SiteClocksProofs, SequenceTheorems

-----------------------------------------------------------------------------
(***************************************************************************)
(* Sorted sequences.  An order is a set of pairs.                          *)
(***************************************************************************)
SortedBy(q, R) == \A i, j \in 1 .. Len(q) : i < j => << q[i], q[j] >> \in R

Strict(S, R) ==
  /\ \A a \in S : << a, a >> \notin R
  /\ \A a, b, c \in S : << a, b >> \in R /\ << b, c >> \in R => << a, c >> \in R

LEMMA MinOfNumbers ==
  ASSUME NEW S \in SUBSET Nat, S # {}
  PROVE  Min(S) \in S /\ \A n \in S : Min(S) <= n
<1>1. PICK m \in S : \A n \in S : m <= n
  BY LeastNumber
<1>2. QED
  BY <1>1 DEF Min

LEMMA ElementsOf ==
  ASSUME NEW S, NEW q \in Seq(S)
  PROVE  /\ Len(q) \in Nat
         /\ DOMAIN q = 1 .. Len(q)
         /\ ToSet(q) = { q[i] : i \in 1 .. Len(q) }
         /\ \A i \in 1 .. Len(q) : q[i] \in S /\ q[i] \in ToSet(q)
         /\ ToSet(q) \subseteq S
<1>1. Len(q) \in Nat /\ DOMAIN q = 1 .. Len(q) /\ \A i \in 1 .. Len(q) : q[i] \in S
  BY LenProperties
<1>2. QED
  BY <1>1 DEF ToSet

LEMMA InsertedAt ==
  ASSUME NEW S, NEW q \in Seq(S), NEW at \in 1 .. Len(q) + 1, NEW e \in S
  PROVE  LET new == InsertAt(q, at, e)
         IN  /\ new \in Seq(S)
             /\ Len(new) = Len(q) + 1
             /\ \A i \in 1 .. Len(q) + 1 :
                  new[i] = IF i < at THEN q[i] ELSE IF i = at THEN e ELSE q[i - 1]
<1> DEFINE a == SubSeq(q, 1, at - 1)
           b == SubSeq(q, at, Len(q))
<1>1. Len(q) \in Nat /\ at \in Nat /\ at >= 1 /\ at <= Len(q) + 1
  BY LenProperties
<1>2. \A i \in 1 .. Len(q) : q[i] \in S
  BY LenProperties
<1>3. /\ a \in Seq(S) /\ Len(a) = at - 1
      /\ \A i \in 1 .. at - 1 : a[i] = q[i]
  <2>1. \A i \in 1 .. at - 1 : q[i] \in S
    BY <1>1, <1>2
  <2>2. /\ a \in Seq(S) /\ Len(a) = IF 1 <= at - 1 THEN (at - 1) - 1 + 1 ELSE 0
        /\ \A i \in 1 .. (at - 1) - 1 + 1 : a[i] = q[1 + i - 1]
    BY <1>1, <2>1, SubSeqProperties
  <2> HIDE DEF a
  <2>3. QED
    BY <1>1, <2>2
<1>4. /\ b \in Seq(S) /\ Len(b) = Len(q) - at + 1
      /\ \A i \in 1 .. Len(q) - at + 1 : b[i] = q[at + i - 1]
  <2>1. \A i \in at .. Len(q) : q[i] \in S
    BY <1>1, <1>2
  <2>2. /\ b \in Seq(S) /\ Len(b) = IF at <= Len(q) THEN Len(q) - at + 1 ELSE 0
        /\ \A i \in 1 .. Len(q) - at + 1 : b[i] = q[at + i - 1]
    BY <1>1, <2>1, SubSeqProperties
  <2> HIDE DEF b
  <2>3. QED
    BY <1>1, <2>2
<1>5. InsertAt(q, at, e) = (a \o << e >>) \o b
  BY DEF InsertAt
<1> HIDE DEF a, b
<1>6. << e >> \in Seq(S) /\ Len(<< e >>) = 1 /\ << e >>[1] = e
  OBVIOUS
<1> DEFINE ae == a \o << e >>
<1>7. /\ ae \in Seq(S) /\ Len(ae) = at
      /\ \A i \in 1 .. at : ae[i] = IF i < at THEN q[i] ELSE e
  <2>1. /\ ae \in Seq(S)
        /\ Len(ae) = Len(a) + Len(<< e >>)
        /\ \A i \in 1 .. Len(a) + Len(<< e >>) :
             ae[i] = IF i <= Len(a) THEN a[i] ELSE << e >>[i - Len(a)]
    BY <1>3, <1>6, ConcatProperties
  <2> HIDE DEF ae
  <2>2. QED
    BY <1>1, <1>3, <1>6, <2>1
<1> HIDE DEF ae
<1>8. /\ ae \o b \in Seq(S)
      /\ Len(ae \o b) = Len(ae) + Len(b)
      /\ \A i \in 1 .. Len(ae) + Len(b) :
           (ae \o b)[i] = IF i <= Len(ae) THEN ae[i] ELSE b[i - Len(ae)]
  BY <1>4, <1>7, ConcatProperties
<1>9. InsertAt(q, at, e) = ae \o b
  BY <1>5 DEF ae
<1>10. ASSUME NEW i \in 1 .. Len(q) + 1
       PROVE  (ae \o b)[i] = IF i < at THEN q[i] ELSE IF i = at THEN e ELSE q[i - 1]
  <2>1. CASE i <= at
    BY <1>1, <1>4, <1>7, <1>8, <2>1
  <2>2. CASE i > at
    <3>1. i - at \in 1 .. Len(q) - at + 1 /\ at + (i - at) - 1 = i - 1
      BY <1>1, <2>2
    <3>2. (ae \o b)[i] = b[i - at]
      BY <1>1, <1>4, <1>7, <1>8, <2>2
    <3>3. QED
      BY <1>1, <1>4, <2>2, <3>1, <3>2
  <2>3. i <= at \/ i > at
    BY <1>1
  <2>4. QED
    BY <2>1, <2>2, <2>3
<1>11. QED
  BY <1>1, <1>4, <1>7, <1>8, <1>9, <1>10

Ahead(q, R, e) == { i \in 1 .. Len(q) : << e, q[i] >> \in R }

(* Put before the first entry that it is ahead of, a new entry goes where  *)
(* the order wants it.                                                     *)
LEMMA SortedInsert ==
  ASSUME NEW S, NEW R, Strict(S, R), NEW q \in Seq(S), NEW e \in S, SortedBy(q, R),
         \A i \in 1 .. Len(q) : << e, q[i] >> \in R \/ << q[i], e >> \in R
  PROVE  LET new == InsertAt(q, Min(Ahead(q, R, e) \cup {Len(q) + 1}), e)
         IN  /\ new \in Seq(S)
             /\ SortedBy(new, R)
             /\ ToSet(new) = ToSet(q) \cup {e}
<1> DEFINE ahead == Ahead(q, R, e)
           at == Min(ahead \cup {Len(q) + 1})
           new == InsertAt(q, at, e)
<1>0. ahead = { i \in 1 .. Len(q) : << e, q[i] >> \in R }
  BY DEF Ahead
<1> HIDE DEF ahead
<1>1. Len(q) \in Nat /\ \A i \in 1 .. Len(q) : q[i] \in S
  BY LenProperties
<1>2. at \in ahead \cup {Len(q) + 1} /\ \A n \in ahead \cup {Len(q) + 1} : at <= n
  <2>1. ahead \cup {Len(q) + 1} \in SUBSET Nat /\ ahead \cup {Len(q) + 1} # {}
    BY <1>0, <1>1
  <2>2. QED
    BY <2>1, MinOfNumbers
<1>3. at \in 1 .. Len(q) + 1
  BY <1>0, <1>1, <1>2
<1> HIDE DEF at
<1>4. /\ new \in Seq(S)
      /\ Len(new) = Len(q) + 1
      /\ \A i \in 1 .. Len(q) + 1 :
           new[i] = IF i < at THEN q[i] ELSE IF i = at THEN e ELSE q[i - 1]
  BY <1>3, InsertedAt
<1> HIDE DEF new
<1>5. ASSUME NEW i \in 1 .. Len(q), i < at
      PROVE  << q[i], e >> \in R
  <2>1. i \notin ahead
    BY <1>0, <1>1, <1>2, <1>3, <1>5
  <2>2. QED
    BY <1>0, <2>1
<1>6. ASSUME NEW i \in 1 .. Len(q), i >= at
      PROVE  << e, q[i] >> \in R
  <2>1. at \in 1 .. Len(q) /\ << e, q[at] >> \in R
    BY <1>0, <1>1, <1>2, <1>3, <1>6
  <2>2. CASE i = at
    BY <2>1, <2>2
  <2>3. CASE i > at
    BY <1>1, <2>1, <2>3 DEF SortedBy, Strict
  <2>4. QED
    BY <1>1, <1>3, <1>6, <2>2, <2>3
<1>7. SortedBy(new, R)
  <2> SUFFICES ASSUME NEW i \in 1 .. Len(q) + 1, NEW j \in 1 .. Len(q) + 1, i < j
               PROVE  << new[i], new[j] >> \in R
    BY <1>4 DEF SortedBy
  <2>1. CASE j < at
    <3>1. new[i] = q[i] /\ new[j] = q[j] /\ i \in 1 .. Len(q) /\ j \in 1 .. Len(q)
      BY <1>1, <1>3, <1>4, <2>1
    <3>2. QED
      BY <3>1 DEF SortedBy
  <2>2. CASE j = at
    BY <1>1, <1>3, <1>4, <1>5, <2>2
  <2>3. CASE j > at /\ i < at
    <3>1. new[i] = q[i] /\ new[j] = q[j - 1] /\ i \in 1 .. Len(q) /\ j - 1 \in 1 .. Len(q)
      BY <1>1, <1>3, <1>4, <2>3
    <3>2. i < j - 1
      BY <1>3, <2>3
    <3>3. QED
      BY <3>1, <3>2 DEF SortedBy
  <2>4. CASE j > at /\ i = at
    <3>1. new[i] = e /\ new[j] = q[j - 1] /\ j - 1 \in 1 .. Len(q) /\ j - 1 >= at
      BY <1>1, <1>3, <1>4, <2>4
    <3>2. QED
      BY <1>6, <3>1
  <2>5. CASE i > at
    <3>1. /\ new[i] = q[i - 1] /\ new[j] = q[j - 1]
          /\ i - 1 \in 1 .. Len(q) /\ j - 1 \in 1 .. Len(q) /\ i - 1 < j - 1
      BY <1>1, <1>3, <1>4, <2>5
    <3>2. QED
      BY <3>1 DEF SortedBy
  <2>6. QED
    BY <1>1, <1>3, <2>1, <2>2, <2>3, <2>4, <2>5
<1>8. ToSet(new) = ToSet(q) \cup {e}
  <2>1. ToSet(new) = { new[i] : i \in 1 .. Len(q) + 1 } /\ ToSet(q) = { q[i] : i \in 1 .. Len(q) }
    BY <1>4, ElementsOf
  <2>2. ASSUME NEW i \in 1 .. Len(q) + 1
        PROVE  new[i] \in { q[k] : k \in 1 .. Len(q) } \cup {e}
    <3>1. CASE i < at
      BY <1>1, <1>3, <1>4, <3>1
    <3>2. CASE i = at
      BY <1>4, <3>2
    <3>3. CASE i > at
      <4>1. new[i] = q[i - 1] /\ i - 1 \in 1 .. Len(q)
        BY <1>1, <1>3, <1>4, <3>3
      <4>2. QED
        BY <4>1
    <3>4. QED
      BY <1>1, <1>3, <3>1, <3>2, <3>3
  <2>3. ASSUME NEW i \in 1 .. Len(q)
        PROVE  q[i] \in { new[k] : k \in 1 .. Len(q) + 1 }
    <3>1. CASE i < at
      BY <1>1, <1>3, <1>4, <3>1
    <3>2. CASE i >= at
      <4>1. i + 1 \in 1 .. Len(q) + 1 /\ new[i + 1] = q[i]
        BY <1>1, <1>3, <1>4, <3>2
      <4>2. QED
        BY <4>1
    <3>3. QED
      BY <1>1, <1>3, <3>1, <3>2
  <2>4. e \in { new[k] : k \in 1 .. Len(q) + 1 }
    BY <1>1, <1>3, <1>4
  <2>5. QED
    BY <2>1, <2>2, <2>3, <2>4
<1>9. QED
  BY <1>4, <1>7, <1>8 DEF new, at, ahead

LEMMA SortedOnce ==
  ASSUME NEW S, NEW R, Strict(S, R), NEW q \in Seq(S), SortedBy(q, R),
         NEW i \in 1 .. Len(q), NEW j \in 1 .. Len(q), q[i] = q[j]
  PROVE  i = j
<1>1. Len(q) \in Nat /\ q[i] \in S
  BY LenProperties
<1>2. ~ (i < j) /\ ~ (j < i)
  BY <1>1 DEF SortedBy, Strict
<1>3. QED
  BY <1>1, <1>2

(* There is one way to sort what a sequence holds.                         *)
LEMMA SameSorted ==
  ASSUME NEW S, NEW R, Strict(S, R), NEW p \in Seq(S), NEW q \in Seq(S),
         SortedBy(p, R), SortedBy(q, R), ToSet(p) = ToSet(q)
  PROVE  p = q
<1> DEFINE Agree(a, b) == \A i \in 1 .. Len(a) : i <= Len(b) /\ a[i] = b[i]
<1>1. ASSUME NEW a \in Seq(S), NEW b \in Seq(S), SortedBy(a, R), SortedBy(b, R),
             ToSet(a) = ToSet(b)
      PROVE  Agree(a, b)
  <2> DEFINE Bad == { i \in 1 .. Len(a) : ~ (i <= Len(b) /\ a[i] = b[i]) }
  <2>1. /\ Len(a) \in Nat /\ Len(b) \in Nat
        /\ \A i \in 1 .. Len(a) : a[i] \in S /\ \E k \in 1 .. Len(b) : a[i] = b[k]
        /\ \A i \in 1 .. Len(b) : b[i] \in S /\ \E k \in 1 .. Len(a) : b[i] = a[k]
    <3>1. ToSet(a) = { a[i] : i \in 1 .. Len(a) } /\ ToSet(b) = { b[i] : i \in 1 .. Len(b) }
      BY ElementsOf
    <3>2. /\ \A i \in 1 .. Len(a) : a[i] \in { b[k] : k \in 1 .. Len(b) }
          /\ \A i \in 1 .. Len(b) : b[i] \in { a[k] : k \in 1 .. Len(a) }
      BY <1>1, <3>1
    <3>3. QED
      BY <3>2, ElementsOf
  <2> SUFFICES ASSUME Bad # {} PROVE FALSE
    OBVIOUS
  <2>2. PICK i \in Bad : \A n \in Bad : i <= n
    <3>1. Bad \in SUBSET Nat
      OBVIOUS
    <3> HIDE DEF Bad
    <3>2. QED
      BY <3>1, LeastNumber
  <2>3. \A n \in 1 .. Len(a) : n < i => n <= Len(b) /\ a[n] = b[n]
    BY <2>1, <2>2
  <2>4. i \in 1 .. Len(a) /\ ~ (i <= Len(b) /\ a[i] = b[i])
    BY <2>2
  <2> HIDE DEF Bad
  <2>5. PICK k \in 1 .. Len(b) : a[i] = b[k]
    BY <2>1, <2>4
  <2>6. ~ (k < i)
    <3> SUFFICES ASSUME k < i PROVE FALSE
      OBVIOUS
    <3>1. k \in 1 .. Len(a) /\ a[k] = b[k]
      <4>1. k \in 1 .. Len(a)
        BY <2>1, <2>4
      <4>2. QED
        BY <2>3, <4>1
    <3>2. QED
      BY <1>1, <2>1, <2>4, <2>5, <3>1, SortedOnce
  <2>7. k > i /\ i \in 1 .. Len(b)
    <3>1. i \in Nat /\ k \in Nat /\ k <= Len(b) /\ Len(b) \in Nat /\ i >= 1
      BY <2>1, <2>4
    <3>2. k # i
      BY <2>4, <2>5
    <3>3. QED
      BY <2>6, <3>1, <3>2
  <2>8. PICK n \in 1 .. Len(a) : b[i] = a[n]
    BY <2>1, <2>7
  <2>9. ~ (n < i)
    <3> SUFFICES ASSUME n < i PROVE FALSE
      OBVIOUS
    <3>1. n \in 1 .. Len(b) /\ a[n] = b[n]
      BY <2>1, <2>3, <2>7
    <3>2. QED
      BY <1>1, <2>1, <2>7, <2>8, <3>1, SortedOnce
  <2>10. n > i
    <3>1. i \in Nat /\ n \in Nat /\ i <= Len(b)
      BY <2>1, <2>7
    <3>2. n # i
      BY <2>4, <2>8, <3>1
    <3>3. QED
      BY <2>9, <3>1, <3>2
  <2>11. << b[i], b[k] >> \in R /\ << a[i], a[n] >> \in R
    BY <1>1, <2>1, <2>4, <2>7, <2>10 DEF SortedBy
  <2>12. QED
    BY <2>1, <2>4, <2>5, <2>7, <2>8, <2>11 DEF Strict
<1>2. Agree(p, q) /\ Agree(q, p)
  BY <1>1
<1>3. Len(p) \in Nat /\ Len(q) \in Nat
  BY LenProperties
<1>4. Len(p) = Len(q)
  BY <1>2, <1>3
<1>5. QED
  BY <1>2, <1>3, <1>4, SeqEqual

(* A sequence without repetitions is as long as it has elements.           *)
LEMMA LengthIsCardinality ==
  ASSUME NEW S, NEW q \in Seq(S),
         \A i, j \in 1 .. Len(q) : q[i] = q[j] => i = j
  PROVE  IsFiniteSet(ToSet(q)) /\ Cardinality(ToSet(q)) = Len(q)
<1>1. Len(q) \in Nat /\ ToSet(q) = { q[i] : i \in 1 .. Len(q) }
  BY ElementsOf
<1> DEFINE f == [i \in 1 .. Len(q) |-> q[i]]
<1>2. f \in Bijection(1 .. Len(q), ToSet(q))
  <2>1. f \in [1 .. Len(q) -> ToSet(q)] /\ \A i \in 1 .. Len(q) : f[i] = q[i]
    BY <1>1
  <2>2. \A t \in ToSet(q) : \E i \in 1 .. Len(q) : f[i] = t
    BY <1>1
  <2> HIDE DEF f
  <2>3. IsInjective(f)
    BY <2>1 DEF IsInjective
  <2>4. QED
    BY <2>1, <2>2, <2>3 DEF Bijection, Injection, Surjection
<1>3. ExistsBijection(1 .. Len(q), ToSet(q))
  BY <1>2 DEF ExistsBijection
<1>4. IsFiniteSet(1 .. Len(q)) /\ Cardinality(1 .. Len(q)) = Len(q)
  <2>1. /\ IsFiniteSet(1 .. Len(q))
        /\ Cardinality(1 .. Len(q)) = IF 1 > Len(q) THEN 0 ELSE Len(q) - 1 + 1
    BY <1>1, FS_Interval
  <2>2. QED
    BY <1>1, <2>1
<1>5. QED
  BY <1>3, <1>4, FS_Bijection

(* Which of two entries comes first.                                       *)
LEMMA PrecedesIs ==
  ASSUME NEW S, NEW R, Strict(S, R), NEW q \in Seq(S), SortedBy(q, R),
         NEW v \in ToSet(q), NEW w \in ToSet(q)
  PROVE  Precedes(q, v, w) <=> << v, w >> \in R
<1>1. /\ Len(q) \in Nat /\ DOMAIN q = 1 .. Len(q)
      /\ ToSet(q) = { q[i] : i \in 1 .. Len(q) }
      /\ \A i \in 1 .. Len(q) : q[i] \in S
  BY ElementsOf
<1>2. PICK i \in 1 .. Len(q) : v = q[i]
  BY <1>1
<1>3. PICK j \in 1 .. Len(q) : w = q[j]
  BY <1>1
<1>4. ASSUME << v, w >> \in R
      PROVE  i < j
  <2>1. i # j
    BY <1>1, <1>2, <1>3, <1>4 DEF Strict
  <2>2. ~ (j < i)
    BY <1>1, <1>2, <1>3, <1>4 DEF SortedBy, Strict
  <2>3. QED
    BY <1>1, <2>1, <2>2
<1>5. QED
  BY <1>1, <1>2, <1>3, <1>4 DEF Precedes, SortedBy

-----------------------------------------------------------------------------
(***************************************************************************)
(* Ages.  Every vertex hangs below an elder one; document order follows.   *)
(***************************************************************************)
ProperKey(k) == k.initial \in BOOLEAN /\ k.pos \in Nat /\ Stamped(k.stamp)

LEMMA KeysAreOrdered ==
  ASSUME NEW a, NEW b, NEW c, ProperKey(a), ProperKey(b), ProperKey(c)
  PROVE  /\ ~ SetKeyBefore(a, a)
         /\ SetKeyBefore(a, b) => ~ SetKeyBefore(b, a)
         /\ SetKeyBefore(a, b) /\ SetKeyBefore(b, c) => SetKeyBefore(a, c)
BY DEF ProperKey, SetKeyBefore, Less, Stamped

Elder(V, v, w) == SetKeyBefore(V[v].key, V[w].key)

(* A vertex map: where each vertex hangs, and how old it is.               *)
Planted(V) ==
  /\ \A v \in DOMAIN V :
       /\ ProperKey(V[v].key) /\ v # Root
       /\ V[v].parent = Root \/ (V[v].parent \in DOMAIN V /\ Elder(V, V[v].parent, v))
  /\ \A v, w \in DOMAIN V : v # w => Elder(V, v, w) \/ Elder(V, w, v)
  /\ \A v, w \in DOMAIN V :
       V[v].key.initial /\ V[w].key.initial /\ V[v].parent = V[w].parent => v = w

Younger(V) == { e \in (DOMAIN V) \X (DOMAIN V) : Elder(V, e[2], e[1]) }

LEMMA AgesAreOrdered ==
  ASSUME NEW V, Planted(V)
  PROVE  /\ Strict(DOMAIN V, Younger(V))
         /\ \A v, w \in DOMAIN V : << v, w >> \in Younger(V) <=> Elder(V, w, v)
         /\ \A v, w \in DOMAIN V : Elder(V, v, w) => ~ Elder(V, w, v)
         /\ \A v \in DOMAIN V : ~ Elder(V, v, v)
         /\ \A u, v, w \in DOMAIN V : Elder(V, u, v) /\ Elder(V, v, w) => Elder(V, u, w)
<1>1. \A v, w \in DOMAIN V : << v, w >> \in Younger(V) <=> Elder(V, w, v)
  BY DEF Younger
<1>2. \A v \in DOMAIN V : ProperKey(V[v].key)
  BY DEF Planted
<1>3. \A v, w \in DOMAIN V : Elder(V, v, w) => ~ Elder(V, w, v)
  BY <1>2, KeysAreOrdered DEF Elder
<1>4. \A v \in DOMAIN V : ~ Elder(V, v, v)
  BY <1>2, KeysAreOrdered DEF Elder
<1>5. \A u, v, w \in DOMAIN V : Elder(V, u, v) /\ Elder(V, v, w) => Elder(V, u, w)
  BY <1>2, KeysAreOrdered DEF Elder
<1>6. Strict(DOMAIN V, Younger(V))
  BY <1>1, <1>4, <1>5 DEF Strict
<1>7. QED
  BY <1>1, <1>3, <1>4, <1>5, <1>6

(* A finite set has a last element in any total order.                     *)
LEMMA LastExists ==
  ASSUME NEW S, IsFiniteSet(S), S # {}, NEW R, Strict(S, R),
         \A a, b \in S : a # b => << a, b >> \in R \/ << b, a >> \in R
  PROVE  \E m \in S : \A a \in S : a # m => << a, m >> \in R
<1> DEFINE HasLast(T) == \E m \in T : \A a \in T : a # m => << a, m >> \in R
           Bad == { T \in SUBSET S : T # {} /\ ~ HasLast(T) }
<1>1. SUFFICES ASSUME Bad # {} PROVE FALSE
  OBVIOUS
<1>2. PICK T \in Bad : \A U \in Bad : U \subseteq T => U = T
  <2>1. Bad \in SUBSET (SUBSET S)
    OBVIOUS
  <2> HIDE DEF Bad
  <2>2. QED
    BY <1>1, <2>1, MinimalSubset
<1>3. PICK x \in T : TRUE
  BY <1>2
<1>4. CASE T = {x}
  <2>1. HasLast(T)
    BY <1>4
  <2>2. QED
    BY <1>2, <2>1
<1>5. CASE T # {x}
  <2>1. T \ {x} \in SUBSET S /\ T \ {x} # {} /\ T \ {x} # T
    BY <1>2, <1>3, <1>5
  <2>2. HasLast(T \ {x})
    <3>1. T \ {x} \notin Bad
      BY <1>2, <2>1
    <3> HIDE DEF HasLast
    <3>2. QED
      BY <2>1, <3>1
  <2>3. PICK m \in T \ {x} : \A a \in T \ {x} : a # m => << a, m >> \in R
    BY <2>2
  <2>4. T \in SUBSET S /\ m # x
    BY <1>2, <2>3
  <2>5. CASE << x, m >> \in R
    <3>1. HasLast(T)
      BY <2>3, <2>5
    <3>2. QED
      BY <1>2, <3>1
  <2>6. CASE << m, x >> \in R
    <3>1. \A a \in T : a # x => << a, x >> \in R
      BY <2>3, <2>4, <2>6, <1>3 DEF Strict
    <3>2. HasLast(T)
      BY <1>3, <3>1
    <3>3. QED
      BY <1>2, <3>2
  <2>7. QED
    BY <1>3, <2>3, <2>4, <2>5, <2>6
<1>6. QED
  BY <1>4, <1>5

(* Document order on D: a vertex comes right behind the one it hangs below *)
(* as far as its elders can tell.                                          *)
OrderOn(V, D, R) ==
  /\ Strict(D, R)
  /\ \A a, b \in D : a # b => << a, b >> \in R \/ << b, a >> \in R
  /\ \A a, b \in D : Elder(V, a, b) =>
       (<< b, a >> \in R <=> V[b].parent = Root \/ << V[b].parent, a >> \in R)

DocOrder(V, R) == OrderOn(V, DOMAIN V, R)

(* The youngest vertex has its place in the order of all others.           *)
LEMMA OneMoreInOrder ==
  ASSUME NEW V, Planted(V), NEW D \in SUBSET DOMAIN V, NEW n \in DOMAIN V, n \notin D,
         \A a \in D : Elder(V, a, n),
         V[n].parent = Root \/ V[n].parent \in D,
         \A a \in D : V[a].parent = Root \/ V[a].parent \in D,
         NEW R, OrderOn(V, D, R)
  PROVE  \E Q : OrderOn(V, D \cup {n}, Q)
<1> DEFINE p == V[n].parent
           Up(b) == p # Root /\ (b = p \/ << b, p >> \in R)
           Q == { e \in D \X D : e \in R }
                  \cup { << b, n >> : b \in { b \in D : Up(b) } }
                  \cup { << n, b >> : b \in { b \in D : ~ Up(b) } }
<1>1. /\ \A a, b \in D : << a, b >> \in Q <=> << a, b >> \in R
      /\ \A b \in D : << b, n >> \in Q <=> Up(b)
      /\ \A b \in D : << n, b >> \in Q <=> ~ Up(b)
      /\ << n, n >> \notin Q
  OBVIOUS
<1> HIDE DEF Q
<1>2. /\ \A a \in D : << a, a >> \notin R
      /\ \A a, b, c \in D : << a, b >> \in R /\ << b, c >> \in R => << a, c >> \in R
      /\ \A a, b \in D : a # b => << a, b >> \in R \/ << b, a >> \in R
  BY DEF OrderOn, Strict
<1>3. \A a, b \in D : << a, b >> \in R => ~ (<< b, a >> \in R)
  BY <1>2
<1>4. p = Root \/ p \in D
  OBVIOUS
<1>5. \A a, b \in D : << a, b >> \in R /\ Up(b) => Up(a)
  BY <1>2, <1>4
<1>6. Strict(D \cup {n}, Q)
  <2>1. \A a \in D \cup {n} : << a, a >> \notin Q
    BY <1>1, <1>2
  <2>2. ASSUME NEW a \in D \cup {n}, NEW b \in D \cup {n}, NEW c \in D \cup {n},
               << a, b >> \in Q, << b, c >> \in Q
        PROVE  << a, c >> \in Q
    <3>1. CASE a \in D /\ b \in D /\ c \in D
      BY <1>1, <1>2, <2>2, <3>1
    <3>2. CASE a = n
      BY <1>1, <1>5, <2>2, <3>2
    <3>3. CASE a \in D /\ b = n
      <4>1. c \in D /\ Up(a) /\ ~ Up(c)
        BY <1>1, <2>2, <3>3
      <4>2. << a, c >> \in R
        BY <1>2, <1>5, <3>3, <4>1
      <4>3. QED
        BY <1>1, <3>3, <4>1, <4>2
    <3>4. CASE a \in D /\ b \in D /\ c = n
      BY <1>1, <1>5, <2>2, <3>4
    <3>5. QED
      BY <3>1, <3>2, <3>3, <3>4
  <2>3. QED
    BY <2>1, <2>2 DEF Strict
<1>7. ASSUME NEW a \in D \cup {n}, NEW b \in D \cup {n}, a # b
      PROVE  << a, b >> \in Q \/ << b, a >> \in Q
  BY <1>1, <1>2, <1>7
<1>8. ASSUME NEW a \in D \cup {n}, NEW b \in D \cup {n}, Elder(V, a, b)
      PROVE  << b, a >> \in Q <=> V[b].parent = Root \/ << V[b].parent, a >> \in Q
  <2>1. a \in D
    <3>1. ~ Elder(V, n, b)
      BY AgesAreOrdered
    <3>2. QED
      BY <1>8, <3>1
  <2>2. CASE b = n
    <3>1. ~ Up(a) <=> p = Root \/ << p, a >> \in R
      BY <1>2, <1>3, <1>4, <2>1
    <3>2. p \in D => (<< p, a >> \in R <=> << p, a >> \in Q)
      BY <1>1, <2>1
    <3>3. QED
      BY <1>1, <1>4, <2>1, <2>2, <3>1, <3>2
  <2>3. CASE b \in D
    <3>1. << b, a >> \in R <=> V[b].parent = Root \/ << V[b].parent, a >> \in R
      BY <1>8, <2>1, <2>3 DEF OrderOn
    <3>2. V[b].parent # Root => V[b].parent \in D
      BY <2>3
    <3>3. QED
      BY <1>1, <2>1, <2>3, <3>1, <3>2
  <2>4. QED
    BY <2>2, <2>3
<1>9. OrderOn(V, D \cup {n}, Q)
  BY <1>6, <1>7, <1>8 DEF OrderOn
<1>10. QED
  BY <1>9

LEMMA OrderExists ==
  ASSUME NEW V, Planted(V), IsFiniteSet(DOMAIN V)
  PROVE  \E R : DocOrder(V, R)
<1> DEFINE Closed(D) == \A a \in D, b \in DOMAIN V : Elder(V, b, a) => b \in D
           Bad == { D \in SUBSET DOMAIN V : Closed(D) /\ ~ \E R : OrderOn(V, D, R) }
<1>1. SUFFICES ASSUME Bad # {} PROVE FALSE
  BY DEF DocOrder
<1>2. PICK T \in Bad : \A U \in Bad : U \subseteq T => U = T
  <2>1. Bad \in SUBSET (SUBSET DOMAIN V)
    OBVIOUS
  <2> HIDE DEF Bad
  <2>2. QED
    BY <1>1, <2>1, MinimalSubset
<1>3. T \in SUBSET DOMAIN V /\ Closed(T) /\ ~ \E R : OrderOn(V, T, R)
  BY <1>2
<1>4. T # {}
  <2>1. OrderOn(V, {}, {})
    BY DEF OrderOn, Strict
  <2>2. QED
    BY <1>3, <2>1
<1> DEFINE Aged == { e \in T \X T : Elder(V, e[1], e[2]) }
<1>5. PICK n \in T : \A a \in T : a # n => << a, n >> \in Aged
  <2>1. IsFiniteSet(T)
    BY <1>3, FS_Subset
  <2>2. \A a, b \in T : << a, b >> \in Aged <=> Elder(V, a, b)
    OBVIOUS
  <2> HIDE DEF Aged
  <2>3. Strict(T, Aged)
    BY <1>3, <2>2, AgesAreOrdered DEF Strict
  <2>4. \A a, b \in T : a # b => << a, b >> \in Aged \/ << b, a >> \in Aged
    BY <1>3, <2>2 DEF Planted
  <2>5. QED
    BY <1>4, <2>1, <2>3, <2>4, LastExists
<1>6. \A a \in T : a # n => Elder(V, a, n)
  BY <1>5
<1> HIDE DEF Aged
<1> DEFINE D == T \ {n}
<1>7. Closed(D)
  <2> SUFFICES ASSUME NEW a \in D, NEW b \in DOMAIN V, Elder(V, b, a) PROVE b \in D
    OBVIOUS
  <2>1. b \in T
    BY <1>3
  <2>2. ~ Elder(V, n, a)
    BY <1>3, <1>6, AgesAreOrdered
  <2>3. QED
    BY <2>1, <2>2
<1>8. D \notin Bad
  BY <1>2, <1>5
<1>9. PICK R : OrderOn(V, D, R)
  BY <1>3, <1>7, <1>8
<1>10. \A a \in T : V[a].parent = Root \/ (V[a].parent \in T /\ Elder(V, V[a].parent, a))
  BY <1>3 DEF Planted
<1>11. V[n].parent = Root \/ V[n].parent \in D
  BY <1>3, <1>5, <1>10, AgesAreOrdered
<1>12. \A a \in D : V[a].parent = Root \/ V[a].parent \in D
  BY <1>7, <1>3, <1>10
<1>13. D \in SUBSET DOMAIN V /\ n \in DOMAIN V /\ n \notin D /\ \A a \in D : Elder(V, a, n)
  BY <1>3, <1>6
<1> HIDE DEF D, Bad
<1>14. \E Q : OrderOn(V, D \cup {n}, Q)
  BY <1>9, <1>11, <1>12, <1>13, OneMoreInOrder
<1>15. D \cup {n} = T
  BY <1>5 DEF D
<1>16. QED
  BY <1>3, <1>14, <1>15

-----------------------------------------------------------------------------
(***************************************************************************)
(* The tree of a ring.                                                     *)
(***************************************************************************)
IsFunction(f) == f = [x \in DOMAIN f |-> f[x]]

IsVertex(v) ==
  /\ v = [parent |-> v.parent, key |-> v.key, coord |-> v.coord, deleted |-> v.deleted,
          moveReg |-> v.moveReg]
  /\ v.deleted \in BOOLEAN

Below(V, p) == { v \in DOMAIN V : V[v].parent = p }

(* The children of each vertex are all that hang below it, youngest first. *)
Linked(V, children) ==
  /\ IsFunction(children) /\ DOMAIN children = DOMAIN V \cup {Root}
  /\ \A p \in DOMAIN V \cup {Root} :
       /\ children[p] \in Seq(DOMAIN V)
       /\ ToSet(children[p]) = Below(V, p)
       /\ SortedBy(children[p], Younger(V))

Tree(s) ==
  /\ s = [vertex |-> s.vertex, children |-> s.children, visible |-> s.visible]
  /\ IsFunction(s.vertex) /\ IsFiniteSet(DOMAIN s.vertex)
  /\ \A v \in DOMAIN s.vertex : IsVertex(s.vertex[v])
  /\ Planted(s.vertex)
  /\ Linked(s.vertex, s.children)
  /\ s.visible = Cardinality(VisibleVertices(s))

LEMMA EmptyTree == Tree(NewVertexSeq)
<1> DEFINE s == NewVertexSeq
<1>1. /\ s = [vertex |-> << >>, children |-> [p \in {Root} |-> << >>], visible |-> 0]
      /\ s.vertex = << >> /\ s.children = [x \in {Root} |-> << >>] /\ s.visible = 0
  BY DEF NewVertexSeq
<1>2. DOMAIN s.vertex = {} /\ IsFunction(s.vertex)
  BY <1>1 DEF IsFunction
<1>3. VisibleVertices(s) = {}
  BY <1>2 DEF VisibleVertices
<1>4. Cardinality(VisibleVertices(s)) = 0 /\ IsFiniteSet(DOMAIN s.vertex)
  BY <1>2, <1>3, FS_EmptySet
<1>5. Planted(s.vertex)
  BY <1>2 DEF Planted
<1>6. Linked(s.vertex, s.children)
  <2>1. << >> \in Seq({}) /\ ToSet(<< >>) = {} /\ SortedBy(<< >>, Younger(s.vertex))
    BY DEF ToSet, SortedBy
  <2>2. Below(s.vertex, Root) = {}
    BY <1>2 DEF Below
  <2>3. IsFunction(s.children)
    BY <1>1 DEF IsFunction
  <2>4. QED
    BY <1>1, <1>2, <2>1, <2>2, <2>3 DEF Linked
<1>7. \A v \in DOMAIN s.vertex : IsVertex(s.vertex[v])
  BY <1>2
<1> HIDE DEF s
<1>8. QED
  BY <1>1, <1>2, <1>4, <1>5, <1>6, <1>7 DEF Tree, s

(* What may be inserted: below Root or an elder vertex, under a key that   *)
(* tells it apart from all others.                                         *)
CanHang(V, id, parent, key) ==
  /\ id \notin DOMAIN V /\ id # Root
  /\ ProperKey(key)
  /\ parent = Root \/ (parent \in DOMAIN V /\ SetKeyBefore(V[parent].key, key))
  /\ \A v \in DOMAIN V : SetKeyBefore(key, V[v].key) \/ SetKeyBefore(V[v].key, key)
  /\ key.initial => \A v \in Below(V, parent) : ~ V[v].key.initial

LEMMA PlantedMore ==
  ASSUME NEW V, Planted(V), NEW id, NEW parent, NEW key, NEW coord, CanHang(V, id, parent, key),
         NEW W, IsFunction(W), DOMAIN W = DOMAIN V \cup {id},
         \A v \in DOMAIN V : W[v] = V[v], W[id] = NewVertex(parent, key, coord)
  PROVE  /\ Planted(W)
         /\ \A v, w \in DOMAIN V : Elder(W, v, w) <=> Elder(V, v, w)
         /\ \A v \in DOMAIN V : Elder(W, v, id) <=> SetKeyBefore(V[v].key, key)
         /\ \A v \in DOMAIN V : Elder(W, id, v) <=> SetKeyBefore(key, V[v].key)
<1>1. W[id].parent = parent /\ W[id].key = key
  BY DEF NewVertex
<1>2. \A v, w \in DOMAIN V : Elder(W, v, w) <=> Elder(V, v, w)
  BY DEF Elder
<1>3. \A v \in DOMAIN V : Elder(W, v, id) <=> SetKeyBefore(V[v].key, key)
  BY <1>1 DEF Elder
<1>4. \A v \in DOMAIN V : Elder(W, id, v) <=> SetKeyBefore(key, V[v].key)
  BY <1>1 DEF Elder
<1>5. ASSUME NEW v \in DOMAIN W
      PROVE  /\ ProperKey(W[v].key) /\ v # Root
             /\ W[v].parent = Root \/ (W[v].parent \in DOMAIN W /\ Elder(W, W[v].parent, v))
  <2>1. CASE v = id
    BY <1>1, <1>3, <2>1 DEF CanHang
  <2>2. CASE v \in DOMAIN V
    BY <1>2, <2>2 DEF Planted
  <2>3. QED
    BY <2>1, <2>2
<1>6. ASSUME NEW v \in DOMAIN W, NEW w \in DOMAIN W, v # w
      PROVE  Elder(W, v, w) \/ Elder(W, w, v)
  BY <1>2, <1>3, <1>4, <1>6 DEF CanHang, Planted
<1>7. ASSUME NEW v \in DOMAIN W, NEW w \in DOMAIN W,
             W[v].key.initial, W[w].key.initial, W[v].parent = W[w].parent
      PROVE  v = w
  <2>1. CASE v = id /\ w \in DOMAIN V
    BY <1>1, <1>7, <2>1 DEF CanHang, Below
  <2>2. CASE w = id /\ v \in DOMAIN V
    BY <1>1, <1>7, <2>2 DEF CanHang, Below
  <2>3. CASE v \in DOMAIN V /\ w \in DOMAIN V
    BY <1>7, <2>3 DEF Planted
  <2>4. QED
    BY <2>1, <2>2, <2>3
<1>8. QED
  BY <1>2, <1>3, <1>4, <1>5, <1>6, <1>7 DEF Planted

(* Among siblings the youngest comes first.                                *)
LEMMA SiblingsByAge ==
  ASSUME NEW V, Planted(V), NEW id, NEW parent, NEW key, CanHang(V, id, parent, key),
         NEW v \in Below(V, parent)
  PROVE  SiblingBefore(key, V[v].key) <=> SetKeyBefore(V[v].key, key)
<1>1. ProperKey(key) /\ ProperKey(V[v].key) /\ ~ (key.initial /\ V[v].key.initial)
  BY DEF CanHang, Planted, Below
<1>2. QED
  BY <1>1 DEF ProperKey, SiblingBefore, SetKeyBefore

LEMMA InsertKeepsTree ==
  ASSUME NEW s, Tree(s), NEW id, NEW parent, NEW key, NEW coord,
         CanHang(s.vertex, id, parent, key)
  PROVE  LET new == Insert(s, id, parent, key, coord)
         IN  /\ Tree(new)
             /\ DOMAIN new.vertex = DOMAIN s.vertex \cup {id}
             /\ \A v \in DOMAIN s.vertex : new.vertex[v] = s.vertex[v]
             /\ new.vertex[id] = NewVertex(parent, key, coord)
<1> DEFINE V == s.vertex
           at == Position(s.children[parent],
                     LAMBDA sibling : SiblingBefore(key, s.vertex[sibling].key))
           W == With(V, id, NewVertex(parent, key, coord))
           children == With([s.children EXCEPT ![parent] = InsertAt(@, at, id)], id, << >>)
           new == Insert(s, id, parent, key, coord)
<1>1. new = [vertex |-> W, children |-> children, visible |-> s.visible + 1]
  BY DEF Insert
<1>2. /\ IsFunction(W) /\ DOMAIN W = DOMAIN V \cup {id}
      /\ \A v \in DOMAIN V : W[v] = V[v]
      /\ W[id] = NewVertex(parent, key, coord)
  BY DEF CanHang, IsFunction, With
<1> HIDE DEF W
<1>3. Planted(V) /\ Linked(V, s.children)
  BY DEF Tree
<1>4. /\ Planted(W)
      /\ \A v, w \in DOMAIN V : Elder(W, v, w) <=> Elder(V, v, w)
      /\ \A v \in DOMAIN V : Elder(W, v, id) <=> SetKeyBefore(V[v].key, key)
      /\ \A v \in DOMAIN V : Elder(W, id, v) <=> SetKeyBefore(key, V[v].key)
  BY <1>2, <1>3, PlantedMore
<1> DEFINE q == s.children[parent]
           R == Younger(W)
<1>5. parent \in DOMAIN V \cup {Root} /\ id # parent
  BY DEF CanHang
<1>6. Strict(DOMAIN W, R) /\ \A v, w \in DOMAIN W : << v, w >> \in R <=> Elder(W, w, v)
  BY <1>4, AgesAreOrdered
<1>7. \A v, w \in DOMAIN V : << v, w >> \in Younger(V) <=> << v, w >> \in R
  BY <1>2, <1>3, <1>4, <1>6, AgesAreOrdered
<1> HIDE DEF R
<1>8. ASSUME NEW r \in Seq(DOMAIN V), SortedBy(r, Younger(V))
      PROVE  r \in Seq(DOMAIN W) /\ SortedBy(r, R)
  <2>1. Len(r) \in Nat /\ \A i \in 1 .. Len(r) : r[i] \in DOMAIN V
    BY <1>8, ElementsOf
  <2>2. SortedBy(r, R)
    BY <1>7, <1>8, <2>1 DEF SortedBy
  <2>3. QED
    BY <1>2, <2>2
<1>9. LET placed == InsertAt(q, at, id)
      IN  placed \in Seq(DOMAIN W) /\ SortedBy(placed, R) /\ ToSet(placed) = ToSet(q) \cup {id}
  <2>1. q \in Seq(DOMAIN V) /\ ToSet(q) = Below(V, parent) /\ SortedBy(q, Younger(V))
    BY <1>3, <1>5 DEF Linked
  <2>2. q \in Seq(DOMAIN W) /\ SortedBy(q, R)
    BY <1>8, <2>1
  <2>3. \A i \in 1 .. Len(q) : q[i] \in Below(V, parent) /\ q[i] \in DOMAIN V
    BY <2>1, ElementsOf
  <2> DEFINE ahead == { i \in 1 .. Len(q) : SiblingBefore(key, V[q[i]].key) }
  <2>4. at = Min(ahead \cup {Len(q) + 1})
    BY DEF Position
  <2>5. \A i \in 1 .. Len(q) : SiblingBefore(key, V[q[i]].key) <=> << id, q[i] >> \in R
    BY <1>2, <1>3, <1>4, <1>6, <2>3, SiblingsByAge
  <2>6. ahead = Ahead(q, R, id)
    BY <2>5 DEF Ahead
  <2>7. \A i \in 1 .. Len(q) : << id, q[i] >> \in R \/ << q[i], id >> \in R
    BY <1>2, <1>4, <1>6, <2>3 DEF CanHang
  <2>8. id \in DOMAIN W
    BY <1>2
  <2> HIDE DEF ahead, at, q
  <2>9. LET there == InsertAt(q, Min(Ahead(q, R, id) \cup {Len(q) + 1}), id)
        IN  there \in Seq(DOMAIN W) /\ SortedBy(there, R) /\ ToSet(there) = ToSet(q) \cup {id}
    <3>1. Strict(DOMAIN W, R)
      BY <1>6
    <3>2. QED
      BY <2>2, <2>7, <2>8, <3>1, SortedInsert
  <2>10. QED
    BY <2>4, <2>6, <2>9
<1> DEFINE placed == InsertAt(q, at, id)
<1>10. placed \in Seq(DOMAIN W) /\ SortedBy(placed, R) /\ ToSet(placed) = ToSet(q) \cup {id}
  BY <1>9
<1>11. /\ IsFunction(children) /\ DOMAIN children = DOMAIN W \cup {Root}
       /\ children[id] = << >>
       /\ children[parent] = placed
       /\ \A p \in DOMAIN V \cup {Root} : p # parent => children[p] = s.children[p]
  <2>1. DOMAIN s.children = DOMAIN V \cup {Root}
    BY <1>3 DEF Linked
  <2>2. id \notin DOMAIN V \cup {Root}
    BY DEF CanHang
  <2> HIDE DEF at
  <2>3. QED
    BY <1>2, <1>5, <2>1, <2>2 DEF IsFunction, With
<1> HIDE DEF children, placed
<1>12. Linked(W, children)
  <2> SUFFICES ASSUME NEW p \in DOMAIN W \cup {Root}
               PROVE  /\ children[p] \in Seq(DOMAIN W)
                      /\ ToSet(children[p]) = Below(W, p)
                      /\ SortedBy(children[p], R)
    BY <1>11 DEF Linked, R
  <2>0. W[id].parent = parent
    BY <1>2 DEF NewVertex
  <2>1. CASE p = id
    <3>1. Below(W, id) = {}
      <4>1. \A v \in DOMAIN V : V[v].parent # id
        BY <1>3 DEF Planted, CanHang
      <4>2. QED
        BY <1>2, <1>5, <2>0, <4>1 DEF Below
    <3>2. << >> \in Seq(DOMAIN W) /\ ToSet(<< >>) = {} /\ SortedBy(<< >>, R)
      BY DEF ToSet, SortedBy
    <3>3. QED
      BY <1>11, <2>1, <3>1, <3>2
  <2>2. CASE p = parent
    <3>1. Below(W, parent) = Below(V, parent) \cup {id}
      BY <1>2, <2>0 DEF Below
    <3>2. ToSet(q) = Below(V, parent)
      BY <1>3, <1>5 DEF Linked
    <3>3. QED
      BY <1>10, <1>11, <2>2, <3>1, <3>2
  <2>3. CASE p # id /\ p # parent
    <3>1. p \in DOMAIN V \cup {Root}
      BY <1>2, <2>3
    <3>2. /\ children[p] = s.children[p] /\ children[p] \in Seq(DOMAIN V)
          /\ ToSet(children[p]) = Below(V, p) /\ SortedBy(children[p], Younger(V))
      BY <1>3, <1>11, <2>3, <3>1 DEF Linked
    <3>3. Below(W, p) = Below(V, p)
      BY <1>2, <2>0, <2>3 DEF Below
    <3>4. QED
      BY <1>8, <3>2, <3>3
  <2>4. QED
    BY <2>1, <2>2, <2>3
<1>13. new.visible = Cardinality(VisibleVertices(new))
  <2>1. VisibleVertices(new) = VisibleVertices(s) \cup {id}
    BY <1>1, <1>2 DEF VisibleVertices, NewVertex, CanHang
  <2>2. IsFiniteSet(VisibleVertices(s)) /\ id \notin VisibleVertices(s)
    BY FS_Subset DEF Tree, VisibleVertices, CanHang
  <2>3. Cardinality(VisibleVertices(s) \cup {id}) = Cardinality(VisibleVertices(s)) + 1
    BY <2>2, FS_AddElement
  <2>4. new.visible = s.visible + 1
    BY <1>1
  <2>5. s.visible = Cardinality(VisibleVertices(s))
    BY DEF Tree
  <2> HIDE DEF new
  <2>6. QED
    BY <2>1, <2>3, <2>4, <2>5
<1>14. \A v \in DOMAIN W : IsVertex(W[v])
  <2>1. IsVertex(NewVertex(parent, key, coord))
    BY DEF IsVertex, NewVertex
  <2>2. \A v \in DOMAIN V : IsVertex(V[v])
    BY DEF Tree
  <2>3. QED
    BY <1>2, <2>1, <2>2
<1>15. IsFiniteSet(DOMAIN W)
  <2>1. IsFiniteSet(DOMAIN V)
    BY DEF Tree
  <2>2. QED
    BY <1>2, <2>1, FS_AddElement
<1>16. new.vertex = W /\ new.children = children
       /\ new = [vertex |-> new.vertex, children |-> new.children, visible |-> new.visible]
  BY <1>1
<1> HIDE DEF new
<1>17. Tree(new)
  BY <1>2, <1>4, <1>12, <1>13, <1>14, <1>15, <1>16 DEF Tree
<1>18. QED
  BY <1>2, <1>16, <1>17 DEF new

-----------------------------------------------------------------------------
(***************************************************************************)
(* Document order.                                                         *)
(***************************************************************************)
AllBefore(P, Q, R) == \A a \in P, b \in Q : << a, b >> \in R

LEMMA SplitHead ==
  ASSUME NEW S, NEW q \in Seq(S), q # << >>
  PROVE  /\ Head(q) \in S /\ Tail(q) \in Seq(S)
         /\ ToSet(q) = {Head(q)} \cup ToSet(Tail(q))
         /\ Len(Tail(q)) = Len(q) - 1
         /\ \A R : SortedBy(q, R) <=>
              SortedBy(Tail(q), R) /\ AllBefore({Head(q)}, ToSet(Tail(q)), R)
<1> DEFINE t == Tail(q)
<1>1. Len(q) \in Nat /\ Len(q) >= 1 /\ \A i \in 1 .. Len(q) : q[i] \in S
  BY EmptySeq, LenProperties
<1>2. /\ t \in Seq(S) /\ Len(t) = Len(q) - 1 /\ Head(q) = q[1]
      /\ \A i \in 1 .. Len(t) : t[i] = q[i + 1]
  BY HeadTailProperties
<1> HIDE DEF t
<1>3. ToSet(q) = { q[i] : i \in 1 .. Len(q) } /\ ToSet(t) = { t[i] : i \in 1 .. Len(t) }
  BY <1>2, ElementsOf
<1>4. \A i \in 2 .. Len(q) : i - 1 \in 1 .. Len(t) /\ q[i] = t[i - 1]
  BY <1>1, <1>2
<1>5. ToSet(q) = {Head(q)} \cup ToSet(t)
  <2>1. \A i \in 1 .. Len(q) : q[i] \in {Head(q)} \cup ToSet(t)
    BY <1>1, <1>2, <1>3, <1>4
  <2>2. \A i \in 1 .. Len(t) : t[i] \in ToSet(q)
    BY <1>1, <1>2, <1>3
  <2>3. Head(q) \in ToSet(q)
    BY <1>1, <1>2, <1>3
  <2>4. QED
    BY <1>3, <2>1, <2>2, <2>3
<1>6. ASSUME NEW R
      PROVE  SortedBy(q, R) <=> SortedBy(t, R) /\ AllBefore({Head(q)}, ToSet(t), R)
  <2>1. ASSUME SortedBy(q, R)
        PROVE  SortedBy(t, R) /\ AllBefore({Head(q)}, ToSet(t), R)
    <3>1. SortedBy(t, R)
      BY <1>1, <1>2, <2>1 DEF SortedBy
    <3>2. \A i \in 1 .. Len(t) : << q[1], t[i] >> \in R
      BY <1>1, <1>2, <2>1 DEF SortedBy
    <3>3. QED
      BY <1>2, <1>3, <3>1, <3>2 DEF AllBefore
  <2>2. ASSUME SortedBy(t, R), AllBefore({Head(q)}, ToSet(t), R),
               NEW i \in 1 .. Len(q), NEW j \in 1 .. Len(q), i < j
        PROVE  << q[i], q[j] >> \in R
    <3>1. j \in 2 .. Len(q)
      BY <1>1, <2>2
    <3>2. j - 1 \in 1 .. Len(t) /\ q[j] = t[j - 1]
      BY <1>4, <3>1
    <3>3. CASE i = 1
      BY <1>2, <1>3, <2>2, <3>2, <3>3 DEF AllBefore
    <3>4. CASE i # 1
      <4>1. i - 1 \in 1 .. Len(t) /\ q[i] = t[i - 1] /\ i - 1 < j - 1
        BY <1>1, <1>4, <2>2, <3>4
      <4>2. QED
        BY <2>2, <3>2, <4>1 DEF SortedBy
    <3>5. QED
      BY <3>3, <3>4
  <2>3. QED
    BY <2>1, <2>2 DEF SortedBy
<1>7. \A R : SortedBy(q, R) <=> SortedBy(t, R) /\ AllBefore({Head(q)}, ToSet(t), R)
  BY <1>6
<1>8. Head(q) \in S
  BY HeadTailProperties
<1>9. QED
  BY <1>2, <1>5, <1>7, <1>8 DEF t

LEMMA Joined ==
  ASSUME NEW S, NEW p \in Seq(S), NEW q \in Seq(S)
  PROVE  /\ p \o q \in Seq(S)
         /\ Len(p \o q) = Len(p) + Len(q)
         /\ ToSet(p \o q) = ToSet(p) \cup ToSet(q)
         /\ \A R : SortedBy(p, R) /\ SortedBy(q, R) /\ AllBefore(ToSet(p), ToSet(q), R)
                     => SortedBy(p \o q, R)
<1> DEFINE r == p \o q
<1>1. /\ Len(p) \in Nat /\ Len(q) \in Nat
      /\ ToSet(p) = { p[i] : i \in 1 .. Len(p) } /\ ToSet(q) = { q[i] : i \in 1 .. Len(q) }
  BY ElementsOf
<1>2. /\ r \in Seq(S) /\ Len(r) = Len(p) + Len(q)
      /\ \A i \in 1 .. Len(p) + Len(q) : r[i] = IF i <= Len(p) THEN p[i] ELSE q[i - Len(p)]
  BY ConcatProperties
<1> HIDE DEF r
<1>3. ToSet(r) = { r[i] : i \in 1 .. Len(r) }
  BY <1>2, ElementsOf
<1>4. \A i \in 1 .. Len(p) : i \in 1 .. Len(r) /\ r[i] = p[i]
  BY <1>1, <1>2
<1>5. ASSUME NEW i \in 1 .. Len(q)
      PROVE  i + Len(p) \in 1 .. Len(r) /\ r[i + Len(p)] = q[i]
  <2>1. /\ i + Len(p) \in 1 .. Len(p) + Len(q) /\ ~ (i + Len(p) <= Len(p))
        /\ (i + Len(p)) - Len(p) = i
    BY <1>1
  <2>2. QED
    BY <1>2, <2>1
<1>6. \A i \in 1 .. Len(r) :
        \/ i \in 1 .. Len(p) /\ r[i] = p[i]
        \/ i > Len(p) /\ i - Len(p) \in 1 .. Len(q) /\ r[i] = q[i - Len(p)]
  BY <1>1, <1>2
<1>7. ToSet(r) = ToSet(p) \cup ToSet(q)
  BY <1>1, <1>3, <1>4, <1>5, <1>6
<1>8. ASSUME NEW R, SortedBy(p, R), SortedBy(q, R), AllBefore(ToSet(p), ToSet(q), R),
             NEW i \in 1 .. Len(r), NEW j \in 1 .. Len(r), i < j
      PROVE  << r[i], r[j] >> \in R
  <2>1. CASE j \in 1 .. Len(p) /\ r[j] = p[j]
    <3>1. i \in 1 .. Len(p) /\ r[i] = p[i]
      BY <1>1, <1>4, <1>8, <2>1
    <3>2. QED
      BY <1>8, <2>1, <3>1 DEF SortedBy
  <2>2. CASE j > Len(p) /\ j - Len(p) \in 1 .. Len(q) /\ r[j] = q[j - Len(p)]
    <3>1. CASE i \in 1 .. Len(p) /\ r[i] = p[i]
      BY <1>1, <1>8, <2>2, <3>1 DEF AllBefore
    <3>2. CASE i > Len(p) /\ i - Len(p) \in 1 .. Len(q) /\ r[i] = q[i - Len(p)]
      <4>1. i - Len(p) < j - Len(p)
        BY <1>1, <1>8
      <4>2. QED
        BY <1>8, <2>2, <3>2, <4>1 DEF SortedBy
    <3>3. QED
      BY <1>6, <3>1, <3>2
  <2>3. QED
    BY <1>6, <2>1, <2>2
<1>9. QED
  BY <1>2, <1>7, <1>8 DEF SortedBy, r

LEMMA Appended ==
  ASSUME NEW S, NEW q \in Seq(S), NEW e \in S
  PROVE  /\ Append(q, e) \in Seq(S)
         /\ Len(Append(q, e)) = Len(q) + 1
         /\ ToSet(Append(q, e)) = ToSet(q) \cup {e}
         /\ \A R : SortedBy(q, R) /\ AllBefore(ToSet(q), {e}, R) => SortedBy(Append(q, e), R)
<1> DEFINE r == << e >>
<1>1. r \in Seq(S) /\ Len(r) = 1 /\ ToSet(r) = {e} /\ \A R : SortedBy(r, R)
  <2>1. r \in Seq(S) /\ Len(r) = 1 /\ r[1] = e
    OBVIOUS
  <2> HIDE DEF r
  <2>2. ToSet(r) = { r[i] : i \in 1 .. Len(r) }
    BY <2>1, ElementsOf
  <2>3. QED
    BY <2>1, <2>2 DEF SortedBy
<1>2. Append(q, e) = q \o r
  BY AppendIsConcat
<1> HIDE DEF r
<1>3. /\ q \o r \in Seq(S)
      /\ Len(q \o r) = Len(q) + Len(r)
      /\ ToSet(q \o r) = ToSet(q) \cup ToSet(r)
      /\ \A R : SortedBy(q, R) /\ SortedBy(r, R) /\ AllBefore(ToSet(q), ToSet(r), R)
                  => SortedBy(q \o r, R)
  BY <1>1, Joined
<1>4. QED
  BY <1>1, <1>2, <1>3

LEMMA EmptySeqFacts ==
  /\ \A S : << >> \in Seq(S)
  /\ Len(<< >>) = 0 /\ ToSet(<< >>) = {} /\ \A R : SortedBy(<< >>, R)
BY DEF ToSet, SortedBy
LEMMA AppendedSet ==
  ASSUME NEW S, NEW q \in Seq(S), NEW e \in S
  PROVE  ToSet(Append(q, e)) = ToSet(q) \cup {e}
<1>1. DOMAIN q = 1 .. Len(q) /\ DOMAIN Append(q, e) = 1 .. Len(q) + 1
  OBVIOUS
<1>2. \A i \in 1 .. Len(q) : Append(q, e)[i] = q[i]
  OBVIOUS
<1>3. Append(q, e)[Len(q) + 1] = e
  OBVIOUS
<1> DEFINE w == Append(q, e)
<1> HIDE DEF w
<1>4. QED
  BY <1>1, <1>2, <1>3 DEF ToSet, w

WalkTurn(s, w, n) == WalkStep(s, w)

Walking == INSTANCE Loops WITH Step <- WalkTurn, Pick <- Newest

(* How a vertex stands to what it hangs below and to its siblings.         *)
LEMMA FamilyOrder ==
  ASSUME NEW V, Planted(V), NEW R, DocOrder(V, R)
  PROVE  /\ \A v \in DOMAIN V : V[v].parent # Root =>
              V[v].parent \in DOMAIN V /\ << V[v].parent, v >> \in R
                /\ << v, V[v].parent >> \in Younger(V)
         /\ \A v, t \in DOMAIN V : << v, t >> \in Younger(V) =>
              (<< v, t >> \in R <=> V[v].parent = Root \/ << V[v].parent, t >> \in R)
<1>1. ASSUME NEW v \in DOMAIN V, NEW t \in DOMAIN V, << v, t >> \in Younger(V)
      PROVE  << v, t >> \in R <=> V[v].parent = Root \/ << V[v].parent, t >> \in R
  BY <1>1, AgesAreOrdered DEF DocOrder, OrderOn
<1>2. ASSUME NEW v \in DOMAIN V, V[v].parent # Root
      PROVE  /\ V[v].parent \in DOMAIN V /\ << V[v].parent, v >> \in R
             /\ << v, V[v].parent >> \in Younger(V)
  <2> DEFINE p == V[v].parent
  <2>1. p \in DOMAIN V /\ Elder(V, p, v) /\ << v, p >> \in Younger(V)
    BY <1>2, AgesAreOrdered DEF Planted
  <2>2. p # v /\ << p, p >> \notin R
    BY <2>1, AgesAreOrdered DEF DocOrder, OrderOn, Strict
  <2>3. << v, p >> \notin R
    BY <1>1, <1>2, <2>1, <2>2
  <2>4. QED
    BY <2>1, <2>2, <2>3 DEF DocOrder, OrderOn
<1>3. QED
  BY <1>1, <1>2

(* What has been visited, and what is next.                                *)
Walked(s, R, w) ==
  LET D == DOMAIN s.vertex
  IN  /\ w = [order |-> w.order, stack |-> w.stack]
      /\ w.order \in Seq(D) /\ w.stack \in Seq(D)
      /\ SortedBy(w.order, R) /\ SortedBy(w.stack, R) /\ SortedBy(w.stack, Younger(s.vertex))
      /\ AllBefore(ToSet(w.order), ToSet(w.stack), R)
      /\ \A v \in D : s.vertex[v].parent \in ToSet(w.order) \cup {Root} =>
           v \in ToSet(w.order) \cup ToSet(w.stack)

LEMMA ChildrenInOrder ==
  ASSUME NEW s, Tree(s), NEW R, DocOrder(s.vertex, R), NEW p \in DOMAIN s.vertex \cup {Root}
  PROVE  /\ s.children[p] \in Seq(DOMAIN s.vertex)
         /\ \A v \in DOMAIN s.vertex : v \in ToSet(s.children[p]) <=> s.vertex[v].parent = p
         /\ ToSet(s.children[p]) \subseteq DOMAIN s.vertex
         /\ SortedBy(s.children[p], Younger(s.vertex))
         /\ SortedBy(s.children[p], R)
<1> DEFINE V == s.vertex
           q == s.children[p]
<1>1. Planted(V) /\ Linked(V, s.children)
  BY DEF Tree
<1>2. q \in Seq(DOMAIN V) /\ ToSet(q) = Below(V, p) /\ SortedBy(q, Younger(V))
  BY <1>1 DEF Linked
<1>3. \A i \in 1 .. Len(q) : q[i] \in DOMAIN V /\ V[q[i]].parent = p
  BY <1>2, ElementsOf DEF Below
<1>4. SortedBy(q, R)
  <2> SUFFICES ASSUME NEW i \in 1 .. Len(q), NEW j \in 1 .. Len(q), i < j
               PROVE  << q[i], q[j] >> \in R
    BY DEF SortedBy
  <2>1. << q[i], q[j] >> \in Younger(V)
    BY <1>2 DEF SortedBy
  <2>2. /\ q[i] \in DOMAIN V /\ q[j] \in DOMAIN V
        /\ V[q[i]].parent = p /\ V[q[j]].parent = p
    BY <1>3
  <2>3. p # Root => << p, q[j] >> \in R
    BY <1>1, <2>2, FamilyOrder
  <2>4. QED
    BY <1>1, <2>1, <2>2, <2>3, FamilyOrder
<1>5. QED
  BY <1>2, <1>4 DEF Below

LEMMA WalkStarts ==
  ASSUME NEW s, Tree(s), NEW R, DocOrder(s.vertex, R)
  PROVE  Walked(s, R, [order |-> << >>, stack |-> s.children[Root]])
<1> DEFINE w == [order |-> << >>, stack |-> s.children[Root]]
<1>1. w.order = << >> /\ w.stack = s.children[Root] /\ w = [order |-> w.order, stack |-> w.stack]
  OBVIOUS
<1> HIDE DEF w
<1>2. AllBefore({}, ToSet(w.stack), R)
  BY DEF AllBefore
<1>3. QED
  BY <1>1, <1>2, ChildrenInOrder, EmptySeqFacts DEF Walked, w

LEMMA WalkGoesOn ==
  ASSUME NEW s, Tree(s), NEW R, DocOrder(s.vertex, R), NEW w, Walked(s, R, w)
  PROVE  /\ Walked(s, R, WalkStep(s, w))
         /\ w.stack = << >> => WalkStep(s, w) = w
         /\ w.stack # << >> => Len(WalkStep(s, w).order) = Len(w.order) + 1
<1> DEFINE V == s.vertex
           D == DOMAIN V
           h == Head(w.stack)
           t == Tail(w.stack)
           q == s.children[h]
           n == WalkStep(s, w)
<1>1. CASE w.stack = << >>
  BY <1>1 DEF WalkStep
<1>2. CASE w.stack # << >>
  <2>1. n = [order |-> Append(w.order, h), stack |-> q \o t]
    BY <1>2 DEF WalkStep
  <2>2. /\ w.order \in Seq(D) /\ w.stack \in Seq(D)
        /\ SortedBy(w.order, R) /\ SortedBy(w.stack, R) /\ SortedBy(w.stack, Younger(V))
        /\ AllBefore(ToSet(w.order), ToSet(w.stack), R)
        /\ \A v \in D : V[v].parent \in ToSet(w.order) \cup {Root} =>
             v \in ToSet(w.order) \cup ToSet(w.stack)
    BY DEF Walked
  <2>3. /\ h \in D /\ t \in Seq(D)
        /\ ToSet(w.stack) = {h} \cup ToSet(t)
        /\ SortedBy(t, R) /\ AllBefore({h}, ToSet(t), R)
        /\ SortedBy(t, Younger(V)) /\ AllBefore({h}, ToSet(t), Younger(V))
    BY <1>2, <2>2, SplitHead
  <2>4. /\ q \in Seq(D) /\ \A v \in D : v \in ToSet(q) <=> V[v].parent = h
        /\ ToSet(q) \subseteq D
        /\ SortedBy(q, Younger(V)) /\ SortedBy(q, R)
    BY <2>3, ChildrenInOrder
  <2>5. ToSet(t) \subseteq D /\ ToSet(w.order) \subseteq D
    BY <2>2, <2>3, ElementsOf
  <2> HIDE DEF h, t, q, n
  <2>6. Planted(V) /\ Strict(D, R) /\ Strict(D, Younger(V))
    BY AgesAreOrdered DEF Tree, DocOrder, OrderOn
  <2>7. h # Root
    BY <2>3, <2>6 DEF Planted
  <2>8. \A c \in ToSet(q) : << c, h >> \in Younger(V) /\ << h, c >> \in R /\ V[c].parent = h
    BY <2>4, <2>6, <2>7, FamilyOrder
  <2>9. AllBefore(ToSet(q), ToSet(t), Younger(V))
    <3> SUFFICES ASSUME NEW c \in ToSet(q), NEW x \in ToSet(t) PROVE << c, x >> \in Younger(V)
      BY DEF AllBefore
    <3>1. << c, h >> \in Younger(V) /\ << h, x >> \in Younger(V)
      BY <2>3, <2>8 DEF AllBefore
    <3>2. QED
      BY <2>3, <2>4, <2>5, <2>6, <3>1 DEF Strict
  <2>10. AllBefore(ToSet(q), ToSet(t), R)
    <3> SUFFICES ASSUME NEW c \in ToSet(q), NEW x \in ToSet(t) PROVE << c, x >> \in R
      BY DEF AllBefore
    <3>1. << c, x >> \in Younger(V) /\ << h, x >> \in R /\ V[c].parent = h
      BY <2>3, <2>8, <2>9 DEF AllBefore
    <3>2. QED
      BY <2>4, <2>5, <2>6, <3>1, FamilyOrder
  <2>11. /\ q \o t \in Seq(D) /\ ToSet(q \o t) = ToSet(q) \cup ToSet(t)
         /\ SortedBy(q \o t, R) /\ SortedBy(q \o t, Younger(V))
    BY <2>3, <2>4, <2>9, <2>10, Joined
  <2>12. /\ Append(w.order, h) \in Seq(D) /\ Len(Append(w.order, h)) = Len(w.order) + 1
         /\ ToSet(Append(w.order, h)) = ToSet(w.order) \cup {h}
         /\ SortedBy(Append(w.order, h), R)
    <3>1. AllBefore(ToSet(w.order), {h}, R)
      BY <2>2, <2>3 DEF AllBefore
    <3>2. /\ Append(w.order, h) \in Seq(D) /\ Len(Append(w.order, h)) = Len(w.order) + 1
          /\ ToSet(Append(w.order, h)) = ToSet(w.order) \cup {h}
          /\ \A Q : SortedBy(w.order, Q) /\ AllBefore(ToSet(w.order), {h}, Q)
                   => SortedBy(Append(w.order, h), Q)
      <4> DEFINE o == w.order
      <4>1. o \in Seq(D) /\ h \in D
        BY <2>2, <2>3
      <4> HIDE DEF o, D
      <4>2. /\ Append(o, h) \in Seq(D) /\ Len(Append(o, h)) = Len(o) + 1
            /\ ToSet(Append(o, h)) = ToSet(o) \cup {h}
        <5>1. Append(o, h) \in Seq(D)
          BY <4>1
        <5>2. Len(Append(o, h)) = Len(o) + 1
          BY <4>1
        <5>3. ToSet(Append(o, h)) = ToSet(o) \cup {h}
          BY <4>1, AppendedSet
        <5>4. QED
          BY <5>1, <5>2, <5>3
      <4>3. \A Q : SortedBy(o, Q) /\ AllBefore(ToSet(o), {h}, Q) => SortedBy(Append(o, h), Q)
        BY <4>1, Appended
      <4>4. QED
        BY <4>2, <4>3 DEF o
    <3>3. QED
      BY <2>2, <3>1, <3>2
  <2>13. AllBefore(ToSet(w.order) \cup {h}, ToSet(q) \cup ToSet(t), R)
    <3> SUFFICES ASSUME NEW a \in ToSet(w.order) \cup {h}, NEW x \in ToSet(q) \cup ToSet(t)
                 PROVE  << a, x >> \in R
      BY DEF AllBefore
    <3>1. << h, x >> \in R
      BY <2>3, <2>8 DEF AllBefore
    <3>2. CASE a = h
      BY <3>1, <3>2
    <3>3. CASE a \in ToSet(w.order)
      <4>1. << a, h >> \in R
        BY <2>2, <2>3, <3>3 DEF AllBefore
      <4>2. QED
        BY <2>3, <2>4, <2>5, <2>6, <3>1, <3>3, <4>1 DEF Strict
    <3>4. QED
      BY <3>2, <3>3
  <2>14. \A v \in D : V[v].parent \in (ToSet(w.order) \cup {h}) \cup {Root} =>
           v \in (ToSet(w.order) \cup {h}) \cup (ToSet(q) \cup ToSet(t))
    BY <2>2, <2>3, <2>4
  <2>15. n.order = Append(w.order, h) /\ n.stack = q \o t
         /\ n = [order |-> n.order, stack |-> n.stack]
    BY <2>1
  <2>16. Walked(s, R, n)
    BY <2>11, <2>12, <2>13, <2>14, <2>15 DEF Walked
  <2>17. QED
    BY <1>2, <2>12, <2>15, <2>16 DEF n
<1>3. QED
  BY <1>1, <1>2

(* A set of vertices that holds what hangs below Root and below its        *)
(* members is the set of all.                                              *)
LEMMA NoOneLeftOut ==
  ASSUME NEW V, Planted(V), IsFiniteSet(DOMAIN V), NEW D \in SUBSET DOMAIN V,
         \A v \in DOMAIN V : V[v].parent \in D \cup {Root} => v \in D
  PROVE  D = DOMAIN V
<1> DEFINE S == DOMAIN V \ D
<1>1. SUFFICES ASSUME S # {} PROVE FALSE
  OBVIOUS
<1>2. IsFiniteSet(S)
  BY FS_Subset
<1> DEFINE R == Younger(V)
<1>3. Strict(S, R) /\ \A a, b \in S : a # b => << a, b >> \in R \/ << b, a >> \in R
  BY AgesAreOrdered DEF Strict, Planted
<1> HIDE DEF R
<1>4. PICK m \in S : \A a \in S : a # m => << a, m >> \in R
  <2> HIDE DEF S
  <2>1. QED
    BY <1>1, <1>2, <1>3, LastExists
<1>5. V[m].parent \in S /\ Elder(V, V[m].parent, m)
  BY <1>4 DEF Planted
<1>6. V[m].parent = m \/ Elder(V, m, V[m].parent)
  BY <1>4, <1>5, AgesAreOrdered DEF R
<1>7. QED
  BY <1>4, <1>5, <1>6, AgesAreOrdered

(* The walk lists every vertex once, in document order.                    *)
THEOREM WalkIsDocumentOrder ==
  ASSUME NEW s, Tree(s), NEW R, DocOrder(s.vertex, R)
  PROVE  /\ Walk(s) \in Seq(DOMAIN s.vertex)
         /\ SortedBy(Walk(s), R)
         /\ ToSet(Walk(s)) = DOMAIN s.vertex
         /\ Len(Walk(s)) = Cardinality(DOMAIN s.vertex)
<1> DEFINE D == DOMAIN s.vertex
           all == Cardinality(D)
           base == [order |-> << >>, stack |-> s.children[Root]]
           f == Walking!Counted(s, base, all)
<1>1. all \in Nat /\ IsFiniteSet(D)
  BY FS_CardinalityType DEF Tree
<1>2. Walk(s) = f[all].order
  BY DEF Walk, Walking!Counted, WalkTurn
<1>3. f[0] = base /\ \A i \in 1 .. all : f[i] = WalkStep(s, f[i - 1])
  <2>1. LET g == Walking!Counted(s, base, all)
        IN  g[0] = base /\ \A i \in 1 .. all : g[i] = WalkTurn(s, g[i - 1], i)
    <3> HIDE DEF base, all
    <3>1. QED
      BY <1>1, Walking!CountedLoop, SiteAssumption, MaxTimestampAssumption
  <2>2. QED
    BY <2>1 DEF WalkTurn
<1> HIDE DEF f
<1> DEFINE P(n) == n \in Nat /\ n <= all =>
                     Walked(s, R, f[n]) /\ (f[n].stack = << >> \/ Len(f[n].order) = n)
           Bad == { n \in Nat : ~ P(n) }
<1>4. P(0)
  <2>1. base.order = << >> /\ Len(base.order) = 0
    OBVIOUS
  <2>2. QED
    BY <1>3, <2>1, WalkStarts
<1>5. ASSUME NEW n \in Nat, n # 0, P(n - 1)
      PROVE  P(n)
  <2> SUFFICES ASSUME n <= all PROVE P(n)
    OBVIOUS
  <2>1. n - 1 \in Nat /\ n - 1 <= all /\ n \in 1 .. all
    BY <1>1, <1>5
  <2>2. f[n] = WalkStep(s, f[n - 1])
    BY <1>3, <2>1
  <2>3. Walked(s, R, f[n - 1]) /\ (f[n - 1].stack = << >> \/ Len(f[n - 1].order) = n - 1)
    BY <1>5, <2>1
  <2>4. Walked(s, R, f[n]) /\ (f[n - 1].stack = << >> => f[n] = f[n - 1])
        /\ (f[n - 1].stack # << >> => Len(f[n].order) = Len(f[n - 1].order) + 1)
    BY <2>2, <2>3, WalkGoesOn
  <2>5. f[n].stack = << >> \/ Len(f[n].order) = n
    BY <1>5, <2>3, <2>4
  <2>6. QED
    BY <2>4, <2>5
<1>6. Bad = {}
  <2> SUFFICES ASSUME Bad # {} PROVE FALSE
    OBVIOUS
  <2>1. PICK n \in Bad : \A m \in Bad : n <= m
    <3>1. Bad \in SUBSET Nat
      OBVIOUS
    <3> HIDE DEF Bad
    <3>2. QED
      BY <3>1, LeastNumber
  <2>2. n \in Nat /\ ~ P(n)
    BY <2>1
  <2> HIDE DEF P
  <2>3. n # 0
    BY <1>4, <2>2
  <2>4. n - 1 \in Nat /\ n - 1 < n
    BY <2>2, <2>3
  <2>5. P(n - 1)
    BY <2>1, <2>2, <2>4
  <2>6. QED
    BY <1>5, <2>2, <2>3, <2>5
<1> DEFINE w == f[all]
<1>7. Walked(s, R, w) /\ (w.stack = << >> \/ Len(w.order) = all)
  BY <1>1, <1>6
<1> HIDE DEF w
<1>8. /\ w.order \in Seq(D) /\ SortedBy(w.order, R) /\ ToSet(w.order) \subseteq D
      /\ \A v \in D : s.vertex[v].parent \in ToSet(w.order) \cup {Root} =>
           v \in ToSet(w.order) \cup ToSet(w.stack)
  BY <1>7, ElementsOf DEF Walked
<1>9. IsFiniteSet(ToSet(w.order)) /\ Cardinality(ToSet(w.order)) = Len(w.order)
  <2>1. Strict(D, R)
    BY DEF DocOrder, OrderOn
  <2>2. \A i, j \in 1 .. Len(w.order) : w.order[i] = w.order[j] => i = j
    BY <1>8, <2>1, SortedOnce
  <2>3. QED
    BY <1>8, <2>2, LengthIsCardinality
<1>10. ToSet(w.order) = D
  <2>1. CASE w.stack = << >>
    <3>1. ToSet(w.stack) = {}
      BY <2>1, EmptySeqFacts
    <3>2. Planted(s.vertex)
      BY DEF Tree
    <3>3. QED
      BY <1>1, <1>8, <3>1, <3>2, NoOneLeftOut
  <2>2. CASE Len(w.order) = all
    BY <1>1, <1>8, <1>9, <2>2, FS_Subset
  <2>3. QED
    BY <1>7, <2>1, <2>2
<1>11. Walk(s) = w.order
  BY <1>2 DEF w
<1>12. QED
  BY <1>8, <1>9, <1>10, <1>11

-----------------------------------------------------------------------------
(***************************************************************************)
(* What a geometry holds once the operations A have taken effect.          *)
(***************************************************************************)
At(A, action, p, k) == { o \in A : o.action = action /\ o.part = p /\ o.ring = k }

On(A, action, p, k, v) == { o \in At(A, action, p, k) : o.vertex = v }

(* How many vertices a ring came with.                                     *)
Size(ringKey) == IF ringKey.initial THEN Shape[ringKey.pos + 1] ELSE Hole

(* The last write to the position of a vertex.                             *)
LastMove(x, v, moves) ==
  IF moves = {}
    THEN x.moveReg = NoStamp /\ x.coord = v
    ELSE \E m \in moves : /\ x.moveReg = StampOf(m) /\ x.coord = MovedTo(m)
                          /\ \A o \in moves : ~ Newer(o, m)

(* The vertex v of the ring k of the part p, with x behind it.             *)
ReflectsVertex(x, A, p, k, v, partKey, ringKey) ==
  /\ v = DerivedVertexID(partKey, ringKey, x.key)
  /\ x.key.initial =>
       /\ x.key = InitialKey(x.key.pos) /\ x.key.pos < Size(ringKey)
       /\ x.parent = DerivedParent(partKey, ringKey, x.key)
  /\ ~ x.key.initial =>
       \E o \in At(A, "insert_vertex", p, k) : x.key = OpKey(StampOf(o)) /\ x.parent = o.vertex
  /\ x.deleted <=> On(A, "delete_vertex", p, k, v) # {}
  /\ LastMove(x, v, On(A, "move_vertex", p, k, v))

ReflectsSeq(s, A, p, k, partKey, ringKey) ==
  /\ Tree(s)
  /\ \A v \in DOMAIN s.vertex : ReflectsVertex(s.vertex[v], A, p, k, v, partKey, ringKey)
  /\ \A i \in 1 .. Size(ringKey) :
       DerivedVertexID(partKey, ringKey, InitialKey(i - 1)) \in DOMAIN s.vertex
  /\ \A o \in At(A, "insert_vertex", p, k) : InsertedVertexID(o) \in DOMAIN s.vertex

ReflectsRing(ring, A, p, k, partKey) ==
  /\ ring = [key |-> ring.key, exterior |-> ring.exterior, deleted |-> ring.deleted,
             seq |-> ring.seq]
  /\ ring.exterior \in BOOLEAN /\ ring.deleted \in BOOLEAN
  /\ k = DerivedRingID(partKey, ring.key)
  /\ ring.key.initial =>
       ring.key = InitialKey(ring.key.pos) /\ ring.key.pos + 1 \in DOMAIN Shape
  /\ ~ ring.key.initial =>
       \E o \in A : o.action = "add_ring" /\ o.part = p /\ ring.key = OpKey(StampOf(o))
  /\ ring.exterior <=> PartType = "Polygon" /\ ring.key.initial /\ ring.key.pos = 0
  /\ ring.deleted <=> At(A, "remove_ring", p, k) # {}
  /\ ReflectsSeq(ring.seq, A, p, k, partKey, ring.key)

(* A list of all that f knows, the base's first, then oldest first.        *)
Oldest(f) == { e \in (DOMAIN f) \X (DOMAIN f) : SetKeyBefore(f[e[1]].key, f[e[2]].key) }

Listing(q, f) ==
  /\ IsFunction(f) /\ \A x \in DOMAIN f : ProperKey(f[x].key)
  /\ \A x, y \in DOMAIN f :
       x # y => SetKeyBefore(f[x].key, f[y].key) \/ SetKeyBefore(f[y].key, f[x].key)
  /\ q \in Seq(DOMAIN f) /\ ToSet(q) = DOMAIN f /\ SortedBy(q, Oldest(f))

ReflectsPart(part, A, p) ==
  /\ part = [key |-> part.key, deleted |-> part.deleted, rings |-> part.rings,
             ring |-> part.ring]
  /\ part.deleted \in BOOLEAN
  /\ p = DerivedPartID(part.key)
  /\ part.key.initial => part.key = InitialKey(0)
  /\ ~ part.key.initial =>
       \E o \in A : o.action = "add_part" /\ part.key = OpKey(StampOf(o))
  /\ part.deleted <=> \E o \in A : o.action = "remove_part" /\ o.part = p
  /\ Listing(part.rings, part.ring)
  /\ \A k \in DOMAIN part.ring : ReflectsRing(part.ring[k], A, p, k, part.key)
  /\ \A r \in DOMAIN Shape : DerivedRingID(part.key, InitialKey(r - 1)) \in DOMAIN part.ring
  /\ \A o \in A : o.action = "add_ring" /\ o.part = p => AddedRingID(o) \in DOMAIN part.ring

KnowsPart(g, p)         == p \in DOMAIN g.part
KnowsRing(g, p, k)      == KnowsPart(g, p) /\ k \in DOMAIN g.part[p].ring
KnowsVertex(g, p, k, v) == KnowsRing(g, p, k) /\ Has(g.part[p].ring[k].seq, v)

(* What an operation must find.                                            *)
NeedsPart(o)   == o.action # "add_part" /\ (o.action = "remove_part" => IsMulti)
NeedsRing(o)   == o.action \in VertexActions \cup {"remove_ring"}
NeedsVertex(o) ==
  /\ o.action \in VertexActions
  /\ o.action = "insert_vertex" => o.vertex # Root
  /\ o.action # "move_vertex" => PartType # "Point"

Ready(g, o) ==
  /\ NeedsPart(o) => KnowsPart(g, o.part)
  /\ NeedsRing(o) => KnowsRing(g, o.part, o.ring)
  /\ NeedsVertex(o) => KnowsVertex(g, o.part, o.ring, o.vertex)

Reflects(g, A) ==
  /\ g = [parts |-> g.parts, part |-> g.part, pending |-> g.pending]
  /\ Listing(g.parts, g.part)
  /\ \A p \in DOMAIN g.part : ReflectsPart(g.part[p], A, p)
  /\ InitialPartID(0) \in DOMAIN g.part
  /\ \A o \in A : o.action = "add_part" => AddedPartID(o) \in DOMAIN g.part
  /\ \A o \in A : Ready(g, o)

(* The operations of an exchange: well formed, one for each identity, and  *)
(* newer than what they address.                                           *)
AllActions ==
  VertexActions \cup {"add_ring", "remove_ring", "add_part", "remove_part"}

BaseRing(p) == IF p = InitialPartID(0) THEN InitialRingID(0, 0) ELSE << "ring", p[2], p[3], 0 >>

IsOp(o) ==
  /\ o.site \in Site /\ o.seq \in Number /\ o.ts \in Number
  /\ o.action \in AllActions
  /\ NeedsPart(o) /\ ~ IsMulti => o.part = InitialPartID(0)
  /\ NeedsRing(o) /\ PartType # "Polygon" => o.ring = BaseRing(o.part)
  /\ NeedsVertex(o) => o.vertex # Root

Refers(o, b) ==
  o.part = AddedPartID(b) \/ o.ring = AddedRingID(b) \/ o.vertex = InsertedVertexID(b)

Exchange(I) ==
  /\ Orderly(I)
  /\ \A o \in I : IsOp(o)
  /\ \A o, b \in I : Refers(o, b) => Newer(o, b)

Done(g, L) == { o \in L : Admits(o) } \ WaitingOps(g)

-----------------------------------------------------------------------------
(***************************************************************************)
(* IDs and the keys they stand for.                                        *)
(***************************************************************************)
LEMMA InitialKeyIs ==
  ASSUME NEW pos
  PROVE  /\ InitialKey(pos).initial = TRUE /\ InitialKey(pos).pos = pos
         /\ InitialKey(pos).stamp = NoStamp
BY DEF InitialKey

LEMMA OpKeyIs ==
  ASSUME NEW stamp
  PROVE  /\ OpKey(stamp).initial = FALSE /\ OpKey(stamp).pos = 0
         /\ OpKey(stamp).stamp = stamp
BY DEF OpKey

LEMMA StampIs ==
  ASSUME NEW o
  PROVE  /\ StampOf(o).ts = o.ts /\ StampOf(o).site = o.site /\ StampOf(o).seq = o.seq
BY DEF StampOf

(* Vertices that came with their ring are told apart by their place in it, *)
(* and from those inserted later.                                          *)
LEMMA VertexIDs ==
  ASSUME NEW pk, NEW rk, pk.initial \in BOOLEAN, rk.initial \in BOOLEAN
  PROVE  /\ \A i, j : DerivedVertexID(pk, rk, InitialKey(i)) = DerivedVertexID(pk, rk, InitialKey(j))
                        => i = j
         /\ \A i : DerivedVertexID(pk, rk, InitialKey(i)) # Root
         /\ \A i, o : DerivedVertexID(pk, rk, InitialKey(i)) # InsertedVertexID(o)
         /\ \A o : InsertedVertexID(o) # Root
         /\ \A o, b : InsertedVertexID(o) = InsertedVertexID(b) => RefOf(o) = RefOf(b)
         /\ \A s : DerivedVertexID(pk, rk, OpKey(s)) = InsertedVertexID(s)
<1>1. ASSUME NEW i
      PROVE  DerivedVertexID(pk, rk, InitialKey(i)) =
               IF rk.initial
                 THEN IF pk.initial THEN << "init", rk.pos, i >>
                                    ELSE << "v", pk.stamp.site, pk.stamp.seq, rk.pos, i >>
                 ELSE << "v", rk.stamp.site, rk.stamp.seq, i >>
  BY InitialKeyIs DEF DerivedVertexID, InitialVertexID, AddPartVertexID, AddRingVertexID
<1>2. ASSUME NEW i, NEW j,
             DerivedVertexID(pk, rk, InitialKey(i)) = DerivedVertexID(pk, rk, InitialKey(j))
      PROVE  i = j
  BY <1>1, <1>2
<1>3. \A i : DerivedVertexID(pk, rk, InitialKey(i)) # Root
  BY <1>1 DEF Root
<1>4. ASSUME NEW i, NEW o
      PROVE  DerivedVertexID(pk, rk, InitialKey(i)) # InsertedVertexID(o)
  <2>1. InsertedVertexID(o) = << "op", o.site, o.seq >>
    BY DEF InsertedVertexID
  <2>2. \A x, y : << "init", x, y >> # << "op", o.site, o.seq >>
    OBVIOUS
  <2>3. \A w, x, y, z : << "v", w, x, y, z >> # << "op", o.site, o.seq >>
    OBVIOUS
  <2>4. \A x, y, z : << "v", x, y, z >> # << "op", o.site, o.seq >>
    OBVIOUS
  <2>5. QED
    BY <1>1, <2>1, <2>2, <2>3, <2>4
<1>5. \A o : InsertedVertexID(o) # Root
  BY DEF InsertedVertexID, Root
<1>6. \A o, b : InsertedVertexID(o) = InsertedVertexID(b) => RefOf(o) = RefOf(b)
  BY DEF InsertedVertexID, RefOf
<1>7. \A s : DerivedVertexID(pk, rk, OpKey(s)) = InsertedVertexID(s)
  BY OpKeyIs DEF DerivedVertexID
<1>8. QED
  BY <1>2, <1>3, <1>4, <1>5, <1>6, <1>7

LEMMA PartIDs ==
  /\ \A o : AddedPartID(o) # InitialPartID(0)
  /\ \A o, b : AddedPartID(o) = AddedPartID(b) => RefOf(o) = RefOf(b)
  /\ \A o : DerivedPartID(OpKey(StampOf(o))) = AddedPartID(o)
  /\ DerivedPartID(InitialKey(0)) = InitialPartID(0)
<1>1. \A o : AddedPartID(o) # InitialPartID(0)
  BY DEF AddedPartID, InitialPartID
<1>2. \A o, b : AddedPartID(o) = AddedPartID(b) => RefOf(o) = RefOf(b)
  BY DEF AddedPartID, RefOf
<1>3. ASSUME NEW o
      PROVE  DerivedPartID(OpKey(StampOf(o))) = AddedPartID(o)
  <2>1. ~ OpKey(StampOf(o)).initial /\ OpKey(StampOf(o)).stamp = StampOf(o)
    BY OpKeyIs
  <2>2. QED
    BY <2>1, StampIs DEF DerivedPartID, AddedPartID
<1>4. DerivedPartID(InitialKey(0)) = InitialPartID(0)
  BY InitialKeyIs DEF DerivedPartID
<1>5. QED
  BY <1>1, <1>2, <1>3, <1>4

(* A part key: of the base's only part, or of an added one.                *)
PartKey(pk) ==
  pk = InitialKey(0) \/ \E o : IsOp(o) /\ pk = OpKey(StampOf(o))

LEMMA RingIDs ==
  ASSUME NEW pk, PartKey(pk)
  PROVE  /\ \A i, j : DerivedRingID(pk, InitialKey(i)) = DerivedRingID(pk, InitialKey(j)) => i = j
         /\ \A r \in DOMAIN Shape : \A o : IsOp(o) => DerivedRingID(pk, InitialKey(r - 1)) # AddedRingID(o)
         /\ \A o, b : AddedRingID(o) = AddedRingID(b) => RefOf(o) = RefOf(b)
         /\ \A o : DerivedRingID(pk, OpKey(StampOf(o))) = AddedRingID(o)
         /\ DerivedRingID(pk, InitialKey(0)) = BaseRing(DerivedPartID(pk))
<1>1. ASSUME NEW i
      PROVE  DerivedRingID(pk, InitialKey(i)) =
               IF pk.initial THEN << "ring", pk.pos, i >>
                             ELSE << "ring", pk.stamp.site, pk.stamp.seq, i >>
  BY InitialKeyIs DEF DerivedRingID, InitialRingID, AddPartRingID
<1>2. pk = InitialKey(0) \/ ~ pk.initial
  BY OpKeyIs DEF PartKey
<1>3. ASSUME NEW i, NEW j, DerivedRingID(pk, InitialKey(i)) = DerivedRingID(pk, InitialKey(j))
      PROVE  i = j
  BY <1>1, <1>3
<1>4. ASSUME NEW r \in DOMAIN Shape, NEW o, IsOp(o)
      PROVE  DerivedRingID(pk, InitialKey(r - 1)) # AddedRingID(o)
  <2>1. AddedRingID(o) = << "ring", o.site, o.seq >>
    BY DEF AddedRingID
  <2>2. CASE pk = InitialKey(0)
    <3>1. DerivedRingID(pk, InitialKey(r - 1)) = << "ring", 0, r - 1 >>
      BY <1>1, <2>2, InitialKeyIs
    <3>2. SUFFICES ASSUME o.site = 0, o.seq = r - 1 PROVE FALSE
      BY <2>1, <3>1
    <3>3. Len(Shape) = 1 /\ r \in 1 .. Len(Shape)
      BY <1>4, <3>2, RingIDAssumption, GeometryAssumption DEF IsOp
    <3>4. QED
      BY <1>4, <3>2, <3>3 DEF IsOp, Number
  <2>3. CASE ~ pk.initial
    <3>1. \A w, x, y : << "ring", w, x, y >> # << "ring", o.site, o.seq >>
      OBVIOUS
    <3>2. QED
      BY <1>1, <2>1, <2>3, <3>1
  <2>4. QED
    BY <1>2, <2>2, <2>3
<1>5. \A o, b : AddedRingID(o) = AddedRingID(b) => RefOf(o) = RefOf(b)
  BY DEF AddedRingID, RefOf
<1>6. ASSUME NEW o
      PROVE  DerivedRingID(pk, OpKey(StampOf(o))) = AddedRingID(o)
  <2>1. ~ OpKey(StampOf(o)).initial /\ OpKey(StampOf(o)).stamp = StampOf(o)
    BY OpKeyIs
  <2>2. QED
    BY <2>1, StampIs DEF DerivedRingID, AddedRingID
<1>7. DerivedRingID(pk, InitialKey(0)) = BaseRing(DerivedPartID(pk))
  <2>1. CASE pk = InitialKey(0)
    BY <1>1, <2>1, InitialKeyIs, PartIDs DEF BaseRing, InitialRingID
  <2>2. CASE ~ pk.initial
    <3>1. DerivedPartID(pk) = AddedPartID(pk.stamp)
      BY <2>2 DEF DerivedPartID
    <3>2. AddedPartID(pk.stamp) = << "part", pk.stamp.site, pk.stamp.seq >>
      BY DEF AddedPartID
    <3>3. BaseRing(AddedPartID(pk.stamp)) = << "ring", pk.stamp.site, pk.stamp.seq, 0 >>
      BY <3>2, PartIDs DEF BaseRing
    <3>4. QED
      BY <1>1, <2>2, <3>1, <3>3
  <2>3. QED
    BY <1>2, <2>1, <2>2
<1>8. QED
  BY <1>3, <1>4, <1>5, <1>6, <1>7

LEMMA CountingUp ==
  ASSUME NEW n \in Nat, NEW Good, 0 \in Good, \A i \in 1 .. n : i - 1 \in Good => i \in Good
  PROVE  \A i \in 0 .. n : i \in Good
<1> DEFINE Bad == { i \in 0 .. n : i \notin Good }
<1>1. SUFFICES ASSUME Bad # {} PROVE FALSE
  OBVIOUS
<1>2. PICK i \in Bad : \A j \in Bad : i <= j
  <2>1. Bad \in SUBSET Nat
    OBVIOUS
  <2> HIDE DEF Bad
  <2>2. QED
    BY <1>1, <2>1, LeastNumber
<1>3. i \in 0 .. n /\ i \notin Good /\ i # 0
  BY <1>2
<1>4. i \in 1 .. n /\ i - 1 \in 0 .. n /\ ~ (i <= i - 1)
  BY <1>3
<1>5. i - 1 \notin Bad
  BY <1>2, <1>4
<1>6. QED
  BY <1>3, <1>4, <1>5

-----------------------------------------------------------------------------
(***************************************************************************)
(* Keys and their order.                                                   *)
(***************************************************************************)
LEMMA OpsAreStamped ==
  ASSUME NEW o, IsOp(o)
  PROVE  /\ Stamped(o) /\ Stamped(StampOf(o))
         /\ ProperKey(OpKey(StampOf(o)))
<1>1. Stamped(o)
  <2>1. o.site \in Site /\ o.seq \in Number /\ o.ts \in Number
    BY DEF IsOp
  <2>2. Site \subseteq Nat /\ Number \subseteq Nat
    BY SiteAssumption, MaxTimestampAssumption DEF Number
  <2>3. QED
    BY <2>1, <2>2 DEF Stamped
<1>2. Stamped(StampOf(o))
  BY <1>1, StampIs DEF Stamped
<1>3. ProperKey(OpKey(StampOf(o)))
  <2> DEFINE k == OpKey(StampOf(o))
  <2>1. k.initial = FALSE /\ k.pos = 0 /\ k.stamp = StampOf(o)
    BY OpKeyIs
  <2> HIDE DEF k
  <2>2. Stamped(k.stamp)
    BY <1>2, <2>1
  <2>3. ProperKey(k)
    <3>1. k.initial \in BOOLEAN
      BY <2>1, Zenon
    <3>2. k.pos \in Nat
      BY <2>1
    <3>3. QED
      BY <2>2, <3>1, <3>2 DEF ProperKey
  <2>4. QED
    BY <2>3 DEF k
<1>4. QED
  BY <1>1, <1>2, <1>3

LEMMA InitialKeysAreProper ==
  ASSUME NEW i \in Nat
  PROVE  ProperKey(InitialKey(i))
<1>1. Stamped(NoStamp)
  BY DEF Stamped, NoStamp
<1> DEFINE k == InitialKey(i)
<1>2. k.initial = TRUE /\ k.pos = i /\ k.stamp = NoStamp
  BY InitialKeyIs
<1> HIDE DEF k
<1>3. QED
  BY <1>1, <1>2 DEF ProperKey, k

LEMMA KeyOrder ==
  /\ \A i, s : SetKeyBefore(InitialKey(i), OpKey(s)) /\ ~ SetKeyBefore(OpKey(s), InitialKey(i))
  /\ \A i, j \in Nat : SetKeyBefore(InitialKey(i), InitialKey(j)) <=> i < j
  /\ \A a, b : SetKeyBefore(OpKey(StampOf(a)), OpKey(StampOf(b))) <=> Newer(b, a)
<1>1. ASSUME NEW i, NEW s
      PROVE  SetKeyBefore(InitialKey(i), OpKey(s)) /\ ~ SetKeyBefore(OpKey(s), InitialKey(i))
  BY InitialKeyIs, OpKeyIs DEF SetKeyBefore
<1>2. ASSUME NEW i \in Nat, NEW j \in Nat
      PROVE  SetKeyBefore(InitialKey(i), InitialKey(j)) <=> i < j
  BY InitialKeyIs DEF SetKeyBefore
<1>3. ASSUME NEW a, NEW b
      PROVE  SetKeyBefore(OpKey(StampOf(a)), OpKey(StampOf(b))) <=> Newer(b, a)
  <2> DEFINE k == OpKey(StampOf(a))
             l == OpKey(StampOf(b))
  <2>1. /\ k.initial = FALSE /\ k.stamp = StampOf(a)
        /\ l.initial = FALSE /\ l.stamp = StampOf(b)
    BY OpKeyIs
  <2> HIDE DEF k, l
  <2>2. SetKeyBefore(k, l) <=> Less(StampOf(a), StampOf(b))
    BY <2>1 DEF SetKeyBefore
  <2>3. Less(StampOf(a), StampOf(b)) <=> Newer(b, a)
    BY StampIs DEF Less, Newer
  <2>4. QED
    BY <2>2, <2>3 DEF k, l
<1>4. QED
  BY <1>1, <1>2, <1>3

-----------------------------------------------------------------------------
(***************************************************************************)
(* Vertices that come together.                                            *)
(***************************************************************************)
ChainTurn(ids, s, n) ==
  Insert(s, ids[n], IF n = 1 THEN Root ELSE ids[n - 1], InitialKey(n - 1), ids[n])

Chaining == INSTANCE Loops WITH Step <- ChainTurn, Pick <- Newest

IsChain(s, ids, n) ==
  /\ Tree(s)
  /\ \A v : v \in DOMAIN s.vertex <=> \E i \in 1 .. n : v = ids[i]
  /\ \A i \in 1 .. n :
       s.vertex[ids[i]] = NewVertex(IF i = 1 THEN Root ELSE ids[i - 1], InitialKey(i - 1), ids[i])

LEMMA NewVertexIs ==
  ASSUME NEW parent, NEW key, NEW coord
  PROVE  LET x == NewVertex(parent, key, coord)
         IN  /\ x.parent = parent /\ x.key = key /\ x.coord = coord
             /\ x.deleted = FALSE /\ x.moveReg = NoStamp
BY DEF NewVertex

LEMMA ChainIsChain ==
  ASSUME NEW S, NEW ids \in Seq(S),
         \A i, j \in 1 .. Len(ids) : ids[i] = ids[j] => i = j,
         \A i \in 1 .. Len(ids) : ids[i] # Root
  PROVE  IsChain(Chain(ids), ids, Len(ids))
<1> DEFINE all == Len(ids)
           f == Chaining!Counted(ids, NewVertexSeq, all)
<1>1. all \in Nat
  BY LenProperties
<1>2. Chain(ids) = f[all]
  BY DEF Chain, Chaining!Counted, ChainTurn
<1>3. f[0] = NewVertexSeq /\ \A i \in 1 .. all : f[i] = ChainTurn(ids, f[i - 1], i)
  <2> HIDE DEF all
  <2>1. QED
    BY <1>1, Chaining!CountedLoop, SiteAssumption, MaxTimestampAssumption
<1> HIDE DEF f
<1> DEFINE Good == { n \in 0 .. all : IsChain(f[n], ids, n) }
<1>4. 0 \in Good
  <2>1. DOMAIN NewVertexSeq.vertex = {}
    BY DEF NewVertexSeq
  <2>2. IsChain(NewVertexSeq, ids, 0)
    BY <2>1, EmptyTree DEF IsChain
  <2>3. QED
    BY <1>1, <1>3, <2>2
<1>5. ASSUME NEW n \in 1 .. all, n - 1 \in Good
      PROVE  n \in Good
  <2> DEFINE s == f[n - 1]
             parent == IF n = 1 THEN Root ELSE ids[n - 1]
             key == InitialKey(n - 1)
             new == Insert(s, ids[n], parent, key, ids[n])
  <2>1. n - 1 \in Nat /\ IsChain(s, ids, n - 1)
    BY <1>1, <1>5
  <2>2. f[n] = new
    BY <1>3 DEF ChainTurn
  <2> HIDE DEF s
  <2>3. ASSUME NEW i \in 1 .. n - 1
        PROVE  /\ ids[i] \in DOMAIN s.vertex /\ s.vertex[ids[i]].key = InitialKey(i - 1)
               /\ s.vertex[ids[i]].parent = IF i = 1 THEN Root ELSE ids[i - 1]
    <3>1. /\ ids[i] \in DOMAIN s.vertex
          /\ s.vertex[ids[i]] = NewVertex(IF i = 1 THEN Root ELSE ids[i - 1], InitialKey(i - 1),
                                         ids[i])
      BY <2>1 DEF IsChain
    <3> DEFINE above == IF i = 1 THEN Root ELSE ids[i - 1]
               x == NewVertex(above, InitialKey(i - 1), ids[i])
    <3> HIDE DEF above
    <3>2. x.parent = above /\ x.key = InitialKey(i - 1)
      BY DEF NewVertex
    <3> HIDE DEF x
    <3>3. s.vertex[ids[i]] = x
      BY <3>1 DEF x, above
    <3>4. QED
      BY <3>1, <3>2, <3>3 DEF above
  <2>4. \A v \in DOMAIN s.vertex : \E i \in 1 .. n - 1 : v = ids[i]
    BY <2>1 DEF IsChain
  <2>5. CanHang(s.vertex, ids[n], parent, key)
    <3>1. ids[n] \notin DOMAIN s.vertex /\ ids[n] # Root
      BY <1>1, <2>4
    <3>2. ProperKey(key) /\ key.initial
      BY <2>1, InitialKeysAreProper, InitialKeyIs
    <3>3. \A i \in 1 .. n - 1 : SetKeyBefore(InitialKey(i - 1), key)
      <4>1. \A i \in 1 .. n - 1 : i - 1 \in Nat /\ n - 1 \in Nat /\ i - 1 < n - 1
        BY <2>1
      <4>2. QED
        BY <4>1, KeyOrder
    <3>4. \A v \in DOMAIN s.vertex : SetKeyBefore(s.vertex[v].key, key)
      <4> SUFFICES ASSUME NEW v \in DOMAIN s.vertex PROVE SetKeyBefore(s.vertex[v].key, key)
        OBVIOUS
      <4>1. PICK i \in 1 .. n - 1 : v = ids[i]
        BY <2>4
      <4> HIDE DEF key
      <4>2. QED
        BY <2>3, <3>3, <4>1
    <3>5. parent = Root \/ parent \in DOMAIN s.vertex
      <4>1. n # 1 => n - 1 \in 1 .. n - 1
        OBVIOUS
      <4>2. QED
        BY <2>3, <4>1
    <3>6. Below(s.vertex, parent) = {}
      <4> SUFFICES ASSUME NEW v \in DOMAIN s.vertex, s.vertex[v].parent = parent PROVE FALSE
        BY DEF Below
      <4>1. PICK i \in 1 .. n - 1 : v = ids[i]
        BY <2>4
      <4>2. parent = IF i = 1 THEN Root ELSE ids[i - 1]
        BY <2>3, <4>1
      <4>3. n # 1 /\ parent = ids[n - 1] /\ n - 1 \in 1 .. all /\ ids[n - 1] # Root
        BY <1>1, <4>1
      <4>4. i # 1 /\ i - 1 \in 1 .. all /\ ids[i - 1] = ids[n - 1]
        BY <1>1, <4>1, <4>2, <4>3
      <4>5. QED
        BY <1>1, <4>1, <4>3, <4>4
    <3> HIDE DEF parent, key
    <3>7. QED
      BY <3>1, <3>2, <3>4, <3>5, <3>6 DEF CanHang
  <2>6. /\ Tree(new)
        /\ DOMAIN new.vertex = DOMAIN s.vertex \cup {ids[n]}
        /\ \A v \in DOMAIN s.vertex : new.vertex[v] = s.vertex[v]
        /\ new.vertex[ids[n]] = NewVertex(parent, key, ids[n])
    <3>1. Tree(s)
      BY <2>1 DEF IsChain
    <3> HIDE DEF parent, key
    <3>2. QED
      BY <2>5, <3>1, InsertKeepsTree
  <2> HIDE DEF new
  <2>7. \A v : v \in DOMAIN new.vertex <=> \E i \in 1 .. n : v = ids[i]
    <3>1. \A v : v \in DOMAIN s.vertex <=> \E i \in 1 .. n - 1 : v = ids[i]
      BY <2>1 DEF IsChain
    <3>2. \A i : i \in 1 .. n <=> i \in 1 .. n - 1 \/ i = n
      BY <1>1
    <3>3. QED
      BY <2>6, <3>1, <3>2
  <2>8. \A i \in 1 .. n : new.vertex[ids[i]] =
          NewVertex(IF i = 1 THEN Root ELSE ids[i - 1], InitialKey(i - 1), ids[i])
    <3>1. \A i : i \in 1 .. n <=> i \in 1 .. n - 1 \/ i = n
      BY <1>1
    <3>2. QED
      BY <2>1, <2>3, <2>6, <3>1 DEF IsChain
  <2>9. IsChain(new, ids, n)
    BY <2>6, <2>7, <2>8 DEF IsChain
  <2>10. QED
    BY <1>1, <2>2, <2>9
<1>6. \A i \in 0 .. all : i \in Good
  <2> HIDE DEF Good, all
  <2>1. QED
    BY <1>1, <1>4, <1>5, CountingUp
<1>7. IsChain(f[all], ids, all)
  BY <1>1, <1>6
<1>8. QED
  BY <1>2, <1>7

-----------------------------------------------------------------------------
(***************************************************************************)
(* New rings and parts.                                                    *)
(***************************************************************************)
FreshIDs(pk, rk) == [i \in 1 .. Size(rk) |-> DerivedVertexID(pk, rk, InitialKey(i - 1))]

(* The key of a ring that came with its part, or of an added one.          *)
RingKey(rk) ==
  \/ \E r \in DOMAIN Shape : rk = InitialKey(r - 1)
  \/ \E o : IsOp(o) /\ rk = OpKey(StampOf(o))

LEMMA ShapeIs ==
  /\ Len(Shape) \in Nat /\ DOMAIN Shape = 1 .. Len(Shape) /\ Len(Shape) # 0
  /\ \A r \in DOMAIN Shape : Shape[r] \in Nat
  /\ Hole \in Nat
<1>1. Shape \in Seq(Nat) /\ Shape # << >> /\ Hole \in Nat
  BY GeometryAssumption
<1>2. QED
  BY <1>1, LenProperties, EmptySeq

LEMMA RingKeyIs ==
  ASSUME NEW rk, RingKey(rk)
  PROVE  /\ rk.initial \in BOOLEAN /\ Size(rk) \in Nat /\ ProperKey(rk)
         /\ rk.initial => rk = InitialKey(rk.pos) /\ rk.pos + 1 \in DOMAIN Shape
                          /\ rk.pos \in Nat
<1>1. CASE \E r \in DOMAIN Shape : rk = InitialKey(r - 1)
  <2>1. PICK r \in DOMAIN Shape : rk = InitialKey(r - 1)
    BY <1>1
  <2>2. r \in Nat /\ r - 1 \in Nat /\ (r - 1) + 1 = r
    BY ShapeIs
  <2>3. rk.initial = TRUE /\ rk.pos = r - 1
    BY <2>1, InitialKeyIs
  <2>4. Size(rk) = Shape[r]
    BY <2>2, <2>3 DEF Size
  <2>5. Size(rk) \in Nat
    BY <2>4, ShapeIs
  <2>6. ProperKey(rk)
    BY <2>1, <2>2, InitialKeysAreProper
  <2>7. QED
    BY <2>1, <2>2, <2>3, <2>5, <2>6
<1>2. CASE \E o : IsOp(o) /\ rk = OpKey(StampOf(o))
  <2>1. PICK o : IsOp(o) /\ rk = OpKey(StampOf(o))
    BY <1>2
  <2>2. rk.initial = FALSE
    BY <2>1, OpKeyIs
  <2>3. Size(rk) \in Nat
    BY <2>2, ShapeIs DEF Size
  <2>4. ProperKey(rk)
    BY <2>1, OpsAreStamped
  <2>5. QED
    BY <2>2, <2>3, <2>4
<1>3. QED
  BY <1>1, <1>2 DEF RingKey

LEMMA PartKeyIs ==
  ASSUME NEW pk, PartKey(pk)
  PROVE  ProperKey(pk) /\ pk.initial \in BOOLEAN /\ (pk.initial => pk = InitialKey(0))
<1>1. CASE pk = InitialKey(0)
  <2>1. ProperKey(pk)
    BY <1>1, InitialKeysAreProper
  <2>2. QED
    BY <1>1, <2>1 DEF ProperKey
<1>2. CASE \E o : IsOp(o) /\ pk = OpKey(StampOf(o))
  <2>1. PICK o : IsOp(o) /\ pk = OpKey(StampOf(o))
    BY <1>2
  <2>2. ProperKey(pk) /\ ~ pk.initial
    BY <2>1, OpsAreStamped, OpKeyIs
  <2>3. QED
    BY <2>2 DEF ProperKey
<1>3. QED
  BY <1>1, <1>2 DEF PartKey

LEMMA FreshSeq ==
  ASSUME NEW A, NEW p, NEW k, NEW pk, NEW rk, PartKey(pk), RingKey(rk),
         \A o \in A : o.part = p /\ o.ring = k => ~ NeedsRing(o)
  PROVE  ReflectsSeq(Chain(FreshIDs(pk, rk)), A, p, k, pk, rk)
<1> DEFINE ids == FreshIDs(pk, rk)
           s == Chain(ids)
           n == Size(rk)
<1>1. n \in Nat /\ rk.initial \in BOOLEAN /\ pk.initial \in BOOLEAN
  BY RingKeyIs, PartKeyIs
<1> HIDE DEF n
<1>2. \A i \in 1 .. n : ids[i] = DerivedVertexID(pk, rk, InitialKey(i - 1))
  BY DEF FreshIDs, n
<1>3. ids \in Seq({ ids[i] : i \in 1 .. n }) /\ Len(ids) = n
  <2>1. ids = [i \in 1 .. n |-> DerivedVertexID(pk, rk, InitialKey(i - 1))]
    BY DEF FreshIDs, n
  <2>2. DOMAIN ids = 1 .. n /\ ids \in [1 .. n -> { ids[i] : i \in 1 .. n }]
    BY <2>1
  <2> DEFINE S == { ids[i] : i \in 1 .. n }
  <2>3. DOMAIN ids = 1 .. n /\ ids \in [1 .. n -> S]
    BY <2>2
  <2> HIDE DEF ids, S
  <2>4. ids \in Seq(S) /\ Len(ids) = n
    BY <1>1, <2>3
  <2>5. QED
    BY <2>4 DEF S
<1> HIDE DEF ids
<1>4. \A i, j \in 1 .. n : ids[i] = ids[j] => i = j
  <2> SUFFICES ASSUME NEW i \in 1 .. n, NEW j \in 1 .. n, ids[i] = ids[j] PROVE i = j
    OBVIOUS
  <2>1. DerivedVertexID(pk, rk, InitialKey(i - 1)) = DerivedVertexID(pk, rk, InitialKey(j - 1))
    BY <1>2
  <2>2. i - 1 = j - 1
    BY <1>1, <2>1, VertexIDs
  <2>3. QED
    BY <1>1, <2>2
<1>5. \A i \in 1 .. n : ids[i] # Root
  BY <1>1, <1>2, VertexIDs
<1>6. IsChain(s, ids, n)
  BY <1>3, <1>4, <1>5, ChainIsChain
<1> HIDE DEF s
<1>7. /\ At(A, "insert_vertex", p, k) = {}
      /\ \A v : On(A, "delete_vertex", p, k, v) = {}
      /\ \A v : On(A, "move_vertex", p, k, v) = {}
  BY DEF At, On, NeedsRing, VertexActions
<1>8. ASSUME NEW v \in DOMAIN s.vertex
      PROVE  ReflectsVertex(s.vertex[v], A, p, k, v, pk, rk)
  <2>1. PICK i \in 1 .. n : v = ids[i]
    BY <1>6 DEF IsChain
  <2> DEFINE x == s.vertex[v]
  <2>2. x = NewVertex(IF i = 1 THEN Root ELSE ids[i - 1], InitialKey(i - 1), ids[i])
    BY <1>6, <2>1 DEF IsChain
  <2>3. /\ x.parent = (IF i = 1 THEN Root ELSE ids[i - 1]) /\ x.key = InitialKey(i - 1)
        /\ x.coord = v /\ x.deleted = FALSE /\ x.moveReg = NoStamp
    BY <2>1, <2>2 DEF NewVertex
  <2> HIDE DEF x
  <2>4. x.key.initial = TRUE /\ x.key.pos = i - 1
    BY <2>3, InitialKeyIs
  <2>5. x.parent = DerivedParent(pk, rk, x.key)
    <3>1. CASE i = 1
      BY <2>3, <2>4, <3>1 DEF DerivedParent
    <3>2. CASE i # 1
      <4>1. i - 1 \in 1 .. n /\ i - 1 # 0
        BY <1>1, <3>2
      <4>2. ids[i - 1] = DerivedVertexID(pk, rk, InitialKey(x.key.pos - 1))
        BY <1>2, <2>4, <4>1
      <4>3. QED
        BY <2>3, <2>4, <3>2, <4>1, <4>2 DEF DerivedParent
    <3>3. QED
      BY <3>1, <3>2
  <2>6. v = DerivedVertexID(pk, rk, x.key)
    BY <1>2, <2>1, <2>3
  <2>7. x.key.pos < Size(rk) /\ x.key = InitialKey(x.key.pos)
    BY <1>1, <2>3, <2>4 DEF n
  <2>8. LastMove(x, v, On(A, "move_vertex", p, k, v))
    BY <1>7, <2>3 DEF LastMove
  <2>9. x.deleted <=> On(A, "delete_vertex", p, k, v) # {}
    BY <1>7, <2>3
  <2>10. ReflectsVertex(x, A, p, k, v, pk, rk)
    BY <2>4, <2>5, <2>6, <2>7, <2>8, <2>9 DEF ReflectsVertex
  <2>11. QED
    BY <2>10 DEF x
<1>9. \A i \in 1 .. Size(rk) : DerivedVertexID(pk, rk, InitialKey(i - 1)) \in DOMAIN s.vertex
  BY <1>2, <1>6 DEF IsChain, n
<1>10. Tree(s)
  BY <1>6 DEF IsChain
<1>11. QED
  BY <1>7, <1>8, <1>9, <1>10 DEF ReflectsSeq, s, ids

LEMMA FreshRing ==
  ASSUME NEW A, NEW p, NEW pk, NEW rk, PartKey(pk), RingKey(rk),
         NEW k, k = DerivedRingID(pk, rk),
         \A o \in A : o.part = p /\ o.ring = k => ~ NeedsRing(o),
         ~ rk.initial =>
           \E o \in A : o.action = "add_ring" /\ o.part = p /\ rk = OpKey(StampOf(o)),
         NEW exterior \in BOOLEAN,
         exterior <=> PartType = "Polygon" /\ rk.initial /\ rk.pos = 0
  PROVE  ReflectsRing(NewRing(rk, exterior, FreshIDs(pk, rk)), A, p, k, pk)
<1> DEFINE ring == NewRing(rk, exterior, FreshIDs(pk, rk))
<1>1. /\ ring = [key |-> ring.key, exterior |-> ring.exterior, deleted |-> ring.deleted,
                 seq |-> ring.seq]
      /\ ring.key = rk /\ (ring.exterior <=> exterior) /\ ring.exterior \in BOOLEAN
      /\ ring.deleted = FALSE
      /\ ring.seq = Chain(FreshIDs(pk, rk))
  BY DEF NewRing
<1>2. ReflectsSeq(Chain(FreshIDs(pk, rk)), A, p, k, pk, rk)
  BY FreshSeq
<1>3. At(A, "remove_ring", p, k) = {}
  BY DEF At, NeedsRing
<1> HIDE DEF ring
<1>4. rk.initial => rk = InitialKey(rk.pos) /\ rk.pos + 1 \in DOMAIN Shape
  BY RingKeyIs
<1>5. ReflectsRing(ring, A, p, k, pk)
  BY <1>1, <1>2, <1>3, <1>4 DEF ReflectsRing
<1>6. QED
  BY <1>5 DEF ring

IsFreshPart(part, pk) ==
  LET ID(r) == DerivedRingID(pk, InitialKey(r - 1))
  IN  /\ part = [key |-> pk, deleted |-> FALSE, rings |-> [r \in DOMAIN Shape |-> ID(r)],
                 ring |-> part.ring]
      /\ IsFunction(part.ring) /\ DOMAIN part.ring = { ID(r) : r \in DOMAIN Shape }
      /\ \A r \in DOMAIN Shape :
           part.ring[ID(r)] = NewRing(InitialKey(r - 1), PartType = "Polygon" /\ r = 1,
                                      FreshIDs(pk, InitialKey(r - 1)))

LEMMA FreshPartReflects ==
  ASSUME NEW A, NEW pk, PartKey(pk), NEW p, p = DerivedPartID(pk),
         \A o \in A : o.action # "add_part" => o.part # p,
         ~ pk.initial => \E o \in A : o.action = "add_part" /\ pk = OpKey(StampOf(o)),
         NEW part, IsFreshPart(part, pk)
  PROVE  ReflectsPart(part, A, p)
<1> DEFINE ID(r) == DerivedRingID(pk, InitialKey(r - 1))
           f == part.ring
           q == part.rings
<1>1. Len(Shape) \in Nat /\ DOMAIN Shape = 1 .. Len(Shape)
  BY ShapeIs
<1>2. ASSUME NEW r \in DOMAIN Shape, NEW t \in DOMAIN Shape, ID(r) = ID(t)
      PROVE  r = t
  <2>1. r - 1 = t - 1
    BY <1>2, RingIDs
  <2>2. QED
    BY <1>1, <2>1
<1>3. /\ part = [key |-> part.key, deleted |-> part.deleted, rings |-> part.rings,
                 ring |-> part.ring]
      /\ part.key = pk /\ part.deleted = FALSE
  BY DEF IsFreshPart
<1>4. q = [r \in DOMAIN Shape |-> ID(r)]
  BY DEF IsFreshPart
<1>5. IsFunction(f) /\ DOMAIN f = { ID(r) : r \in DOMAIN Shape }
  BY DEF IsFreshPart
<1>6. ASSUME NEW r \in DOMAIN Shape
      PROVE  f[ID(r)] = NewRing(InitialKey(r - 1), PartType = "Polygon" /\ r = 1,
                                FreshIDs(pk, InitialKey(r - 1)))
  BY DEF IsFreshPart
<1>7. ASSUME NEW r \in DOMAIN Shape
      PROVE  ReflectsRing(f[ID(r)], A, p, ID(r), pk) /\ f[ID(r)].key = InitialKey(r - 1)
  <2> DEFINE rk == InitialKey(r - 1)
             exterior == PartType = "Polygon" /\ r = 1
  <2>1. RingKey(rk) /\ rk.initial = TRUE /\ rk.pos = r - 1
    BY InitialKeyIs DEF RingKey
  <2>2. \A o \in A : o.part = p /\ o.ring = ID(r) => ~ NeedsRing(o)
    BY DEF NeedsRing, VertexActions
  <2>3. exterior \in BOOLEAN
    OBVIOUS
  <2>4. exterior <=> PartType = "Polygon" /\ rk.initial /\ rk.pos = 0
    BY <1>1, <2>1
  <2>5. f[ID(r)] = NewRing(rk, exterior, FreshIDs(pk, rk))
    BY <1>6
  <2> HIDE DEF rk, exterior
  <2>6. ID(r) = DerivedRingID(pk, rk)
    BY DEF rk
  <2> HIDE DEF ID, f
  <2>7. ReflectsRing(NewRing(rk, exterior, FreshIDs(pk, rk)), A, p, ID(r), pk)
    BY <2>1, <2>2, <2>3, <2>4, <2>6, FreshRing
  <2>8. f[ID(r)].key = rk
    BY <2>5 DEF NewRing
  <2>9. QED
    BY <2>5, <2>7, <2>8 DEF rk
<1>8. Listing(q, f)
  <2>1. q \in Seq(DOMAIN f) /\ Len(q) = Len(Shape)
    <3>1. q \in [1 .. Len(Shape) -> DOMAIN f]
      BY <1>1, <1>4, <1>5
    <3> HIDE DEF q, f
    <3>2. QED
      BY <1>1, <3>1
  <2>2. ToSet(q) = DOMAIN f
    <3>1. ToSet(q) = { q[r] : r \in DOMAIN Shape }
      BY <1>4 DEF ToSet
    <3>2. QED
      BY <1>4, <1>5, <3>1
  <2>3. \A x \in DOMAIN f : \E r \in DOMAIN Shape : x = ID(r)
    BY <1>5
  <2>4. \A r \in DOMAIN Shape : q[r] = ID(r) /\ ID(r) \in DOMAIN f
    BY <1>4, <1>5
  <2> HIDE DEF q, f, ID
  <2>5. \A r \in DOMAIN Shape : ProperKey(f[ID(r)].key)
    <3>1. \A r \in DOMAIN Shape : r - 1 \in Nat
      BY <1>1
    <3>2. QED
      BY <1>7, <3>1, InitialKeysAreProper
  <2>6. \A r, t \in DOMAIN Shape : SetKeyBefore(f[ID(r)].key, f[ID(t)].key) <=> r < t
    <3> SUFFICES ASSUME NEW r \in DOMAIN Shape, NEW t \in DOMAIN Shape
                 PROVE  SetKeyBefore(f[ID(r)].key, f[ID(t)].key) <=> r < t
      OBVIOUS
    <3>1. SetKeyBefore(InitialKey(r - 1), InitialKey(t - 1)) <=> r - 1 < t - 1
      <4>1. r - 1 \in Nat /\ t - 1 \in Nat
        BY <1>1
      <4>2. QED
        BY <4>1, KeyOrder
    <3>2. r - 1 < t - 1 <=> r < t
      BY <1>1
    <3>3. QED
      BY <1>7, <3>1, <3>2
  <2>7. \A x, y \in DOMAIN f : x # y =>
          SetKeyBefore(f[x].key, f[y].key) \/ SetKeyBefore(f[y].key, f[x].key)
    <3> SUFFICES ASSUME NEW x \in DOMAIN f, NEW y \in DOMAIN f, x # y
                 PROVE  SetKeyBefore(f[x].key, f[y].key) \/ SetKeyBefore(f[y].key, f[x].key)
      OBVIOUS
    <3>1. PICK r \in DOMAIN Shape : x = ID(r)
      BY <2>3
    <3>2. PICK t \in DOMAIN Shape : y = ID(t)
      BY <2>3
    <3>3. r < t \/ t < r
      BY <1>1, <3>1, <3>2
    <3>4. QED
      BY <2>6, <3>1, <3>2, <3>3
  <2>8. SortedBy(q, Oldest(f))
    <3> SUFFICES ASSUME NEW i \in 1 .. Len(q), NEW j \in 1 .. Len(q), i < j
                 PROVE  << q[i], q[j] >> \in Oldest(f)
      BY DEF SortedBy
    <3>1. i \in DOMAIN Shape /\ j \in DOMAIN Shape
      BY <1>1, <2>1
    <3>2. QED
      BY <2>4, <2>6, <3>1 DEF Oldest
  <2>9. QED
    BY <1>5, <2>1, <2>2, <2>3, <2>5, <2>7, <2>8 DEF Listing
<1>9. \A k \in DOMAIN f : ReflectsRing(f[k], A, p, k, pk)
  BY <1>5, <1>7
<1>10. \A r \in DOMAIN Shape : ID(r) \in DOMAIN f
  BY <1>5
<1>11. part.deleted <=> \E o \in A : o.action = "remove_part" /\ o.part = p
  BY <1>3
<1>12. \A o \in A : ~ (o.action = "add_ring" /\ o.part = p)
  OBVIOUS
<1>13. part.key.initial => part.key = InitialKey(0)
  BY <1>3, PartKeyIs
<1>14. QED
  BY <1>3, <1>8, <1>9, <1>10, <1>11, <1>12, <1>13 DEF ReflectsPart

(* What NewPart makes of the base and of an operation.                     *)
LEMMA SizeOfInitial ==
  ASSUME NEW pk, NEW r \in DOMAIN Shape
  PROVE  FreshIDs(pk, InitialKey(r - 1)) =
           [i \in 1 .. Shape[r] |-> DerivedVertexID(pk, InitialKey(r - 1), InitialKey(i - 1))]
<1>1. (r - 1) + 1 = r
  BY ShapeIs
<1>2. Size(InitialKey(r - 1)) = Shape[r]
  BY <1>1, InitialKeyIs DEF Size
<1>3. QED
  BY <1>2 DEF FreshIDs

LEMMA BasePartIsFresh ==
  IsFreshPart(NewPart(InitialKey(0), LAMBDA r : InitialRingID(0, r), InitialVertexID), InitialKey(0))
<1> DEFINE pk == InitialKey(0)
           ID(r) == DerivedRingID(pk, InitialKey(r - 1))
           part == NewPart(pk, LAMBDA r : InitialRingID(0, r), InitialVertexID)
           f == part.ring
           Which(id) == CHOOSE r \in DOMAIN Shape : InitialRingID(0, r - 1) = id
<1>1. \A n : DerivedRingID(pk, InitialKey(n)) = InitialRingID(0, n)
  BY InitialKeyIs DEF DerivedRingID
<1>2. \A n, i : DerivedVertexID(pk, InitialKey(n), InitialKey(i)) = InitialVertexID(n, i)
  BY InitialKeyIs DEF DerivedVertexID
<1> HIDE DEF pk
<1>3. \A r : ID(r) = InitialRingID(0, r - 1)
  BY <1>1
<1>4. /\ part = [key |-> pk, deleted |-> FALSE,
                 rings |-> [r \in DOMAIN Shape |-> InitialRingID(0, r - 1)], ring |-> part.ring]
      /\ f = [id \in { InitialRingID(0, r - 1) : r \in DOMAIN Shape } |->
               NewRing(InitialKey(Which(id) - 1), PartType = "Polygon" /\ Which(id) = 1,
                       [i \in 1 .. Shape[Which(id)] |-> InitialVertexID(Which(id) - 1, i - 1)])]
  BY DEF NewPart
<1> HIDE DEF part, Which
<1>5. ASSUME NEW r \in DOMAIN Shape
      PROVE  f[ID(r)] = NewRing(InitialKey(r - 1), PartType = "Polygon" /\ r = 1,
                                FreshIDs(pk, InitialKey(r - 1)))
  <2>1. Which(InitialRingID(0, r - 1)) = r
    <3>1. \A t \in DOMAIN Shape : InitialRingID(0, t - 1) = InitialRingID(0, r - 1) => t = r
      BY ShapeIs DEF InitialRingID
    <3>2. QED
      BY <3>1 DEF Which
  <2>2. f[InitialRingID(0, r - 1)] = NewRing(InitialKey(r - 1), PartType = "Polygon" /\ r = 1,
                           [i \in 1 .. Shape[r] |-> InitialVertexID(r - 1, i - 1)])
    BY <1>4, <2>1
  <2>3. FreshIDs(pk, InitialKey(r - 1)) = [i \in 1 .. Shape[r] |-> InitialVertexID(r - 1, i - 1)]
    <3>1. FreshIDs(pk, InitialKey(r - 1)) =
           [i \in 1 .. Shape[r] |-> DerivedVertexID(pk, InitialKey(r - 1), InitialKey(i - 1))]
      BY SizeOfInitial
    <3>2. QED
      BY <1>2, <3>1
  <2>4. QED
    BY <1>3, <2>2, <2>3
<1>6. IsFunction(f) /\ DOMAIN f = { ID(r) : r \in DOMAIN Shape }
  BY <1>3, <1>4 DEF IsFunction
<1>7. [r \in DOMAIN Shape |-> ID(r)] = [r \in DOMAIN Shape |-> InitialRingID(0, r - 1)]
  BY <1>3
<1>8. IsFreshPart(part, pk)
  BY <1>4, <1>5, <1>6, <1>7 DEF IsFreshPart
<1>9. QED
  BY <1>8 DEF part, pk

LEMMA AddedPartIsFresh ==
  ASSUME NEW o
  PROVE  IsFreshPart(NewPart(OpKey(StampOf(o)), LAMBDA r : AddPartRingID(o, r),
                             LAMBDA r, i : AddPartVertexID(o, r, i)), OpKey(StampOf(o)))
<1> DEFINE pk == OpKey(StampOf(o))
           ID(r) == DerivedRingID(pk, InitialKey(r - 1))
           part == NewPart(pk, LAMBDA r : AddPartRingID(o, r), LAMBDA r, i : AddPartVertexID(o, r, i))
           f == part.ring
           Which(id) == CHOOSE r \in DOMAIN Shape : AddPartRingID(o, r - 1) = id
<1>0. ~ pk.initial /\ pk.stamp = StampOf(o)
  BY OpKeyIs
<1>1. \A n : DerivedRingID(pk, InitialKey(n)) = AddPartRingID(o, n)
  BY <1>0, InitialKeyIs, StampIs DEF DerivedRingID, AddPartRingID
<1>2. \A n, i : DerivedVertexID(pk, InitialKey(n), InitialKey(i)) = AddPartVertexID(o, n, i)
  BY <1>0, InitialKeyIs, StampIs DEF DerivedVertexID, AddPartVertexID
<1> HIDE DEF pk
<1>3. \A r : ID(r) = AddPartRingID(o, r - 1)
  BY <1>1
<1>4. /\ part = [key |-> pk, deleted |-> FALSE,
                 rings |-> [r \in DOMAIN Shape |-> AddPartRingID(o, r - 1)], ring |-> part.ring]
      /\ f = [id \in { AddPartRingID(o, r - 1) : r \in DOMAIN Shape } |->
               NewRing(InitialKey(Which(id) - 1), PartType = "Polygon" /\ Which(id) = 1,
                       [i \in 1 .. Shape[Which(id)] |-> AddPartVertexID(o, Which(id) - 1, i - 1)])]
  BY DEF NewPart
<1> HIDE DEF part, Which
<1>5. ASSUME NEW r \in DOMAIN Shape
      PROVE  f[ID(r)] = NewRing(InitialKey(r - 1), PartType = "Polygon" /\ r = 1,
                                FreshIDs(pk, InitialKey(r - 1)))
  <2>1. Which(AddPartRingID(o, r - 1)) = r
    <3>1. \A t \in DOMAIN Shape : AddPartRingID(o, t - 1) = AddPartRingID(o, r - 1) => t = r
      BY ShapeIs DEF AddPartRingID
    <3>2. QED
      BY <3>1 DEF Which
  <2>2. f[AddPartRingID(o, r - 1)] = NewRing(InitialKey(r - 1), PartType = "Polygon" /\ r = 1,
                           [i \in 1 .. Shape[r] |-> AddPartVertexID(o, r - 1, i - 1)])
    BY <1>4, <2>1
  <2>3. FreshIDs(pk, InitialKey(r - 1)) = [i \in 1 .. Shape[r] |-> AddPartVertexID(o, r - 1, i - 1)]
    <3>1. FreshIDs(pk, InitialKey(r - 1)) =
           [i \in 1 .. Shape[r] |-> DerivedVertexID(pk, InitialKey(r - 1), InitialKey(i - 1))]
      BY SizeOfInitial
    <3>2. QED
      BY <1>2, <3>1
  <2>4. QED
    BY <1>3, <2>2, <2>3
<1>6. IsFunction(f) /\ DOMAIN f = { ID(r) : r \in DOMAIN Shape }
  BY <1>3, <1>4 DEF IsFunction
<1>7. [r \in DOMAIN Shape |-> ID(r)] = [r \in DOMAIN Shape |-> AddPartRingID(o, r - 1)]
  BY <1>3
<1>8. IsFreshPart(part, pk)
  BY <1>4, <1>5, <1>6, <1>7 DEF IsFreshPart
<1>9. QED
  BY <1>8 DEF part, pk

LEMMA SingleListing ==
  ASSUME NEW f, NEW x, IsFunction(f), DOMAIN f = {x}, ProperKey(f[x].key)
  PROVE  Listing(<< x >>, f)
<1> DEFINE q == << x >>
<1>1. q \in Seq({x}) /\ Len(q) = 1 /\ q[1] = x
  OBVIOUS
<1> HIDE DEF q
<1>2. ToSet(q) = {x}
  <2>1. ToSet(q) = { q[i] : i \in 1 .. Len(q) }
    BY <1>1, ElementsOf
  <2>2. QED
    BY <1>1, <2>1
<1>3. SortedBy(q, Oldest(f))
  BY <1>1 DEF SortedBy
<1>4. QED
  BY <1>1, <1>2, <1>3 DEF Listing, q

(* A geometry starts as its base.                                          *)
LEMMA InitialReflects ==
  Reflects(NewGeometryState, {}) /\ NewGeometryState.pending = << >>
<1> DEFINE g == NewGeometryState
           id == InitialPartID(0)
           part == NewPart(InitialKey(0), LAMBDA r : InitialRingID(0, r), InitialVertexID)
<1>1. /\ g = [parts |-> << id >>, part |-> [p \in {id} |-> part], pending |-> << >>]
      /\ g.parts = << id >> /\ g.part = [p \in {id} |-> part] /\ g.pending = << >>
  BY DEF NewGeometryState
<1>0. IsFreshPart(part, InitialKey(0))
  BY BasePartIsFresh
<1> HIDE DEF part, g
<1>2. ReflectsPart(part, {}, id)
  BY <1>0, FreshPartReflects, PartIDs, InitialKeyIs DEF PartKey
<1>3. ProperKey(part.key)
  BY <1>0, InitialKeysAreProper DEF IsFreshPart
<1>4. IsFunction(g.part) /\ DOMAIN g.part = {id} /\ g.part[id] = part
  BY <1>1 DEF IsFunction
<1>5. Listing(g.parts, g.part)
  BY <1>1, <1>3, <1>4, SingleListing
<1>6. Reflects(g, {})
  BY <1>1, <1>2, <1>4, <1>5 DEF Reflects
<1>7. QED
  BY <1>1, <1>6 DEF g

-----------------------------------------------------------------------------
(***************************************************************************)
(* Lists of parts and of rings.                                            *)
(***************************************************************************)
LEMMA OldestIsStrict ==
  ASSUME NEW f, \A x \in DOMAIN f : ProperKey(f[x].key)
  PROVE  /\ Strict(DOMAIN f, Oldest(f))
         /\ \A x, y \in DOMAIN f : << x, y >> \in Oldest(f) <=> SetKeyBefore(f[x].key, f[y].key)
<1>1. \A x, y \in DOMAIN f : << x, y >> \in Oldest(f) <=> SetKeyBefore(f[x].key, f[y].key)
  BY DEF Oldest
<1>2. ASSUME NEW a \in DOMAIN f
      PROVE  << a, a >> \notin Oldest(f)
  BY <1>1, KeysAreOrdered
<1>3. ASSUME NEW a \in DOMAIN f, NEW b \in DOMAIN f, NEW c \in DOMAIN f,
             << a, b >> \in Oldest(f), << b, c >> \in Oldest(f)
      PROVE  << a, c >> \in Oldest(f)
  BY <1>1, <1>3, KeysAreOrdered
<1>4. QED
  BY <1>1, <1>2, <1>3 DEF Strict

LEMMA ListingInsert ==
  ASSUME NEW q, NEW f, Listing(q, f), NEW id, id \notin DOMAIN f, NEW x, ProperKey(x.key),
         \A y \in DOMAIN f : SetKeyBefore(f[y].key, x.key) \/ SetKeyBefore(x.key, f[y].key),
         NEW at,
         at = Min({ i \in 1 .. Len(q) : SetKeyBefore(x.key, f[q[i]].key) } \cup {Len(q) + 1})
  PROVE  Listing(InsertAt(q, at, id), With(f, id, x))
<1> DEFINE h == With(f, id, x)
           R == Oldest(h)
<1>1. IsFunction(h) /\ DOMAIN h = DOMAIN f \cup {id} /\ h[id] = x
      /\ \A y \in DOMAIN f : h[y] = f[y]
  BY DEF With, IsFunction
<1> HIDE DEF h
<1>2. \A y \in DOMAIN h : ProperKey(h[y].key)
  BY <1>1 DEF Listing
<1>3. Strict(DOMAIN h, R) /\ \A y, z \in DOMAIN h : << y, z >> \in R <=> SetKeyBefore(h[y].key, h[z].key)
  BY <1>2, OldestIsStrict
<1>4. \A y, z \in DOMAIN h : y # z => SetKeyBefore(h[y].key, h[z].key) \/ SetKeyBefore(h[z].key, h[y].key)
  BY <1>1 DEF Listing
<1>5. q \in Seq(DOMAIN f) /\ ToSet(q) = DOMAIN f /\ SortedBy(q, Oldest(f))
  BY DEF Listing
<1>6. Len(q) \in Nat /\ \A i \in 1 .. Len(q) : q[i] \in DOMAIN f
  BY <1>5, ElementsOf
<1>7. q \in Seq(DOMAIN h)
  BY <1>1, <1>5
<1>8. SortedBy(q, R)
  <2>1. \A y, z \in DOMAIN f : << y, z >> \in Oldest(f) => << y, z >> \in R
    BY <1>1, <1>3 DEF Oldest
  <2>2. QED
    BY <1>5, <1>6, <2>1 DEF SortedBy
<1>9. \A i \in 1 .. Len(q) : << id, q[i] >> \in R <=> SetKeyBefore(x.key, f[q[i]].key)
  BY <1>1, <1>3, <1>6
<1>10. Ahead(q, R, id) = { i \in 1 .. Len(q) : SetKeyBefore(x.key, f[q[i]].key) }
  BY <1>9 DEF Ahead
<1>11. \A i \in 1 .. Len(q) : << id, q[i] >> \in R \/ << q[i], id >> \in R
  BY <1>1, <1>3, <1>6
<1> HIDE DEF R
<1>12. LET new == InsertAt(q, Min(Ahead(q, R, id) \cup {Len(q) + 1}), id)
       IN  /\ new \in Seq(DOMAIN h) /\ SortedBy(new, R) /\ ToSet(new) = ToSet(q) \cup {id}
  <2>1. id \in DOMAIN h /\ Strict(DOMAIN h, R)
    BY <1>1, <1>3
  <2>2. QED
    BY <1>7, <1>8, <1>11, <2>1, SortedInsert
<1>13. LET new == InsertAt(q, at, id)
       IN  /\ new \in Seq(DOMAIN h) /\ SortedBy(new, R) /\ ToSet(new) = DOMAIN h
  BY <1>1, <1>5, <1>10, <1>12
<1>14. QED
  BY <1>1, <1>2, <1>4, <1>13 DEF Listing, R, h

LEMMA ListingKept ==
  ASSUME NEW q, NEW f, Listing(q, f), NEW h, IsFunction(h), DOMAIN h = DOMAIN f,
         \A y \in DOMAIN f : h[y].key = f[y].key
  PROVE  Listing(q, h)
<1>1. Oldest(h) = Oldest(f)
  BY DEF Oldest
<1>2. QED
  BY <1>1 DEF Listing

-----------------------------------------------------------------------------
(***************************************************************************)
(* An operation leaves alone what it does not address.                     *)
(***************************************************************************)
LEMMA SeqUntouched ==
  ASSUME NEW s, NEW A, NEW p, NEW k, NEW pk, NEW rk, ReflectsSeq(s, A, p, k, pk, rk),
         NEW op, op.part = p /\ op.ring = k => op.action \notin VertexActions
  PROVE  ReflectsSeq(s, A \cup {op}, p, k, pk, rk)
<1>1. \A action \in VertexActions : At(A \cup {op}, action, p, k) = At(A, action, p, k)
  BY DEF At
<1>2. \A action \in VertexActions : \A v : On(A \cup {op}, action, p, k, v) = On(A, action, p, k, v)
  BY DEF At, On
<1>3. "insert_vertex" \in VertexActions /\ "move_vertex" \in VertexActions
      /\ "delete_vertex" \in VertexActions
  BY DEF VertexActions
<1>4. ASSUME NEW v \in DOMAIN s.vertex
      PROVE  ReflectsVertex(s.vertex[v], A \cup {op}, p, k, v, pk, rk)
  <2>1. ReflectsVertex(s.vertex[v], A, p, k, v, pk, rk)
    BY DEF ReflectsSeq
  <2>2. QED
    BY <1>1, <1>2, <1>3, <2>1 DEF ReflectsVertex
<1>5. QED
  BY <1>1, <1>3, <1>4 DEF ReflectsSeq

LEMMA RingUntouched ==
  ASSUME NEW ring, NEW A, NEW p, NEW k, NEW pk, ReflectsRing(ring, A, p, k, pk),
         NEW op, op.part = p /\ op.ring = k => ~ NeedsRing(op)
  PROVE  ReflectsRing(ring, A \cup {op}, p, k, pk)
<1>1. At(A \cup {op}, "remove_ring", p, k) = At(A, "remove_ring", p, k)
  BY DEF At, NeedsRing
<1>2. ReflectsSeq(ring.seq, A \cup {op}, p, k, pk, ring.key)
  BY SeqUntouched DEF ReflectsRing, NeedsRing
<1>3. QED
  BY <1>1, <1>2 DEF ReflectsRing

LEMMA PartUntouched ==
  ASSUME NEW part, NEW A, NEW p, ReflectsPart(part, A, p),
         NEW op, op.action # "add_part" => op.part # p
  PROVE  ReflectsPart(part, A \cup {op}, p)
<1>1. \A k \in DOMAIN part.ring : ReflectsRing(part.ring[k], A \cup {op}, p, k, part.key)
  <2> SUFFICES ASSUME NEW k \in DOMAIN part.ring
               PROVE  ReflectsRing(part.ring[k], A \cup {op}, p, k, part.key)
    OBVIOUS
  <2>1. ReflectsRing(part.ring[k], A, p, k, part.key)
    BY DEF ReflectsPart
  <2>2. op.part = p => ~ NeedsRing(op)
    BY DEF NeedsRing, VertexActions
  <2>3. QED
    BY <2>1, <2>2, RingUntouched
<1>2. QED
  BY <1>1 DEF ReflectsPart

-----------------------------------------------------------------------------
(***************************************************************************)
(* Growing: nothing known is forgotten.                                    *)
(***************************************************************************)
PartGrows(old, new) ==
  /\ DOMAIN old.ring \subseteq DOMAIN new.ring
  /\ \A k \in DOMAIN old.ring : DOMAIN old.ring[k].seq.vertex \subseteq DOMAIN new.ring[k].seq.vertex

Grows(g, h) ==
  /\ DOMAIN g.part \subseteq DOMAIN h.part
  /\ \A p \in DOMAIN g.part : PartGrows(g.part[p], h.part[p])

LEMMA GrowingIsOrdered ==
  /\ \A g : Grows(g, g)
  /\ \A f, g, h : Grows(f, g) /\ Grows(g, h) => Grows(f, h)
BY DEF Grows, PartGrows

LEMMA StillKnown ==
  ASSUME NEW g, NEW h, Grows(g, h)
  PROVE  /\ \A p : KnowsPart(g, p) => KnowsPart(h, p)
         /\ \A p, k : KnowsRing(g, p, k) => KnowsRing(h, p, k)
         /\ \A p, k, v : KnowsVertex(g, p, k, v) => KnowsVertex(h, p, k, v)
         /\ \A o : Ready(g, o) => Ready(h, o)
<1>1. \A p : KnowsPart(g, p) => KnowsPart(h, p)
  BY DEF Grows, KnowsPart
<1>2. \A p, k : KnowsRing(g, p, k) => KnowsRing(h, p, k)
  BY DEF Grows, PartGrows, KnowsPart, KnowsRing
<1>3. \A p, k, v : KnowsVertex(g, p, k, v) => KnowsVertex(h, p, k, v)
  BY DEF Grows, PartGrows, KnowsPart, KnowsRing, KnowsVertex, Has
<1>4. \A o : Ready(g, o) => Ready(h, o)
  BY <1>1, <1>2, <1>3 DEF Ready
<1>5. QED
  BY <1>1, <1>2, <1>3, <1>4

(* What one more operation makes of g.                                     *)
Evolves(g, A, op, h) ==
  Reflects(h, A \cup {op}) /\ Grows(g, h) /\ h.pending = g.pending

(* A change to one part.                                                   *)
LEMMA PartChanged ==
  ASSUME NEW g, NEW A, Reflects(g, A), NEW op, op.action # "add_part",
         NEW p, p = op.part, p \in DOMAIN g.part, Ready(g, op),
         NEW part, ReflectsPart(part, A \cup {op}, p), part.key = g.part[p].key,
         PartGrows(g.part[p], part),
         NEW h, h = [g EXCEPT !.part[p] = part]
  PROVE  Evolves(g, A, op, h)
<1>1. g = [parts |-> g.parts, part |-> g.part, pending |-> g.pending] /\ IsFunction(g.part)
  BY DEF Reflects, Listing
<1>2. /\ h = [parts |-> h.parts, part |-> h.part, pending |-> h.pending]
      /\ h.parts = g.parts /\ h.pending = g.pending
      /\ h.part = [g.part EXCEPT ![p] = part]
  BY <1>1
<1>3. /\ IsFunction(h.part) /\ DOMAIN h.part = DOMAIN g.part /\ h.part[p] = part
      /\ \A x \in DOMAIN g.part : x # p => h.part[x] = g.part[x]
  BY <1>1, <1>2 DEF IsFunction
<1>4. Listing(h.parts, h.part)
  <2>1. Listing(g.parts, g.part) /\ \A y \in DOMAIN g.part : h.part[y].key = g.part[y].key
    BY <1>3 DEF Reflects
  <2>2. QED
    BY <1>2, <1>3, <2>1, ListingKept
<1>5. ASSUME NEW x \in DOMAIN h.part
      PROVE  ReflectsPart(h.part[x], A \cup {op}, x)
  <2>1. CASE x = p
    BY <1>3, <2>1
  <2>2. CASE x # p
    <3>1. ReflectsPart(g.part[x], A, x) /\ h.part[x] = g.part[x]
      BY <1>3, <2>2 DEF Reflects
    <3>2. QED
      BY <2>2, <3>1, PartUntouched
  <2>3. QED
    BY <2>1, <2>2
<1>6. Grows(g, h)
  BY <1>3 DEF Grows, PartGrows
<1>7. \A o \in A \cup {op} : Ready(h, o)
  BY <1>6, StillKnown DEF Reflects
<1>8. InitialPartID(0) \in DOMAIN h.part
      /\ \A o \in A \cup {op} : o.action = "add_part" => AddedPartID(o) \in DOMAIN h.part
  BY <1>3 DEF Reflects
<1>9. Reflects(h, A \cup {op})
  BY <1>2, <1>4, <1>5, <1>7, <1>8 DEF Reflects
<1>10. QED
  BY <1>2, <1>6, <1>9 DEF Evolves

(* A change to one ring.                                                   *)
WithRing(g, p, k, ring) == [g EXCEPT !.part[p].ring[k] = ring]

LEMMA RingChanged ==
  ASSUME NEW g, NEW A, Reflects(g, A), NEW op, NeedsRing(op),
         NEW p, p = op.part, NEW k, k = op.ring, KnowsRing(g, p, k), Ready(g, op),
         NEW ring, ReflectsRing(ring, A \cup {op}, p, k, g.part[p].key),
         ring.key = g.part[p].ring[k].key,
         DOMAIN g.part[p].ring[k].seq.vertex \subseteq DOMAIN ring.seq.vertex,
         NEW h, h = WithRing(g, p, k, ring)
  PROVE  Evolves(g, A, op, h)
<1> DEFINE old == g.part[p]
           part == [old EXCEPT !.ring[k] = ring]
<1>0. op.action \notin {"add_part", "add_ring", "remove_part"}
  BY DEF NeedsRing, VertexActions
<1>1. p \in DOMAIN g.part /\ k \in DOMAIN old.ring /\ ReflectsPart(old, A, p)
  BY DEF KnowsRing, KnowsPart, Reflects
<1>2. g = [parts |-> g.parts, part |-> g.part, pending |-> g.pending] /\ IsFunction(g.part)
  BY DEF Reflects, Listing
<1>3. h = [g EXCEPT !.part[p] = part]
  BY <1>1, <1>2 DEF WithRing
<1>4. /\ old = [key |-> old.key, deleted |-> old.deleted, rings |-> old.rings, ring |-> old.ring]
      /\ IsFunction(old.ring)
  BY <1>1 DEF ReflectsPart, Listing
<1>5. /\ part = [key |-> part.key, deleted |-> part.deleted, rings |-> part.rings,
                 ring |-> part.ring]
      /\ part.key = old.key /\ part.deleted = old.deleted /\ part.rings = old.rings
      /\ part.ring = [old.ring EXCEPT ![k] = ring]
  BY <1>4
<1> HIDE DEF part
<1>6. /\ IsFunction(part.ring) /\ DOMAIN part.ring = DOMAIN old.ring /\ part.ring[k] = ring
      /\ \A x \in DOMAIN old.ring : x # k => part.ring[x] = old.ring[x]
  <2> DEFINE r == old.ring
  <2>1. IsFunction(r) /\ k \in DOMAIN r /\ part.ring = [r EXCEPT ![k] = ring]
    BY <1>1, <1>4, <1>5
  <2> HIDE DEF r
  <2>2. part.ring = [x \in DOMAIN r |-> IF x = k THEN ring ELSE r[x]]
    BY <2>1
  <2>3. QED
    BY <2>1, <2>2 DEF IsFunction, r
<1> HIDE DEF old
<1>7. Listing(part.rings, part.ring)
  <2>1. Listing(old.rings, old.ring) /\ \A y \in DOMAIN old.ring : part.ring[y].key = old.ring[y].key
    BY <1>1, <1>6 DEF ReflectsPart, old
  <2>2. QED
    BY <1>5, <1>6, <2>1, ListingKept
<1>8. ASSUME NEW x \in DOMAIN part.ring
      PROVE  ReflectsRing(part.ring[x], A \cup {op}, p, x, part.key)
  <2>1. CASE x = k
    BY <1>5, <1>6, <2>1 DEF old
  <2>2. CASE x # k
    <3>1. ReflectsRing(old.ring[x], A, p, x, old.key) /\ part.ring[x] = old.ring[x]
      BY <1>1, <1>6, <2>2 DEF ReflectsPart
    <3>2. QED
      BY <1>5, <2>2, <3>1, RingUntouched
  <2>3. QED
    BY <2>1, <2>2
<1>9. ReflectsPart(part, A \cup {op}, p)
  BY <1>0, <1>1, <1>5, <1>6, <1>7, <1>8 DEF ReflectsPart
<1>10. PartGrows(old, part)
  BY <1>6 DEF PartGrows, old
<1>11. QED
  BY <1>0, <1>1, <1>3, <1>5, <1>9, <1>10, PartChanged DEF old

-----------------------------------------------------------------------------
(***************************************************************************)
(* One operation on the vertices of a ring.                                *)
(***************************************************************************)
LEMMA TreeKept ==
  ASSUME NEW s, Tree(s), NEW id \in DOMAIN s.vertex, NEW x, IsVertex(x),
         x.parent = s.vertex[id].parent, x.key = s.vertex[id].key,
         NEW t, t = [vertex |-> t.vertex, children |-> t.children, visible |-> t.visible],
         t.children = s.children, t.vertex = [s.vertex EXCEPT ![id] = x],
         t.visible = Cardinality(VisibleVertices(t))
  PROVE  /\ Tree(t)
         /\ DOMAIN t.vertex = DOMAIN s.vertex /\ t.vertex[id] = x
         /\ \A v \in DOMAIN s.vertex : v # id => t.vertex[v] = s.vertex[v]
<1> DEFINE V == s.vertex
           W == t.vertex
<1>1. IsFunction(V) /\ Planted(V) /\ Linked(V, s.children)
      /\ \A v \in DOMAIN V : IsVertex(V[v])
  BY DEF Tree
<1>2. W = [v \in DOMAIN V |-> IF v = id THEN x ELSE V[v]]
  BY <1>1 DEF IsFunction
<1>3. /\ IsFunction(W) /\ DOMAIN W = DOMAIN V /\ W[id] = x
      /\ \A v \in DOMAIN V : v # id => W[v] = V[v]
  BY <1>2 DEF IsFunction
<1>4. \A v \in DOMAIN V : W[v].parent = V[v].parent /\ W[v].key = V[v].key
  BY <1>3
<1>5. Planted(W)
  BY <1>1, <1>3, <1>4 DEF Planted, Elder
<1>6. Younger(W) = Younger(V) /\ \A p : Below(W, p) = Below(V, p)
  BY <1>3, <1>4 DEF Younger, Elder, Below
<1>7. Linked(W, t.children)
  BY <1>1, <1>3, <1>6 DEF Linked
<1>8. \A v \in DOMAIN W : IsVertex(W[v])
  BY <1>1, <1>3
<1>9. IsFiniteSet(DOMAIN W)
  BY <1>3 DEF Tree
<1>10. QED
  BY <1>3, <1>5, <1>7, <1>8, <1>9 DEF Tree

LEMMA VertexMoved ==
  ASSUME NEW x, IsVertex(x), NEW stamp, NEW coord,
         NEW y, y = [x EXCEPT !.coord = coord, !.moveReg = stamp]
  PROVE  y = [parent |-> x.parent, key |-> x.key, coord |-> coord, deleted |-> x.deleted,
              moveReg |-> stamp]
<1>1. x = [parent |-> x.parent, key |-> x.key, coord |-> x.coord, deleted |-> x.deleted,
           moveReg |-> x.moveReg]
  BY DEF IsVertex
<1>2. DOMAIN y = {"parent", "key", "coord", "deleted", "moveReg"}
  BY <1>1
<1>3. /\ y.parent = x.parent /\ y.key = x.key /\ y.deleted = x.deleted
      /\ y.coord = coord /\ y.moveReg = stamp
  BY <1>1
<1>4. y = [f \in {"parent", "key", "coord", "deleted", "moveReg"} |-> y[f]]
  BY <1>1, <1>2
<1>5. QED
  BY <1>2, <1>3, <1>4

LEMMA VertexDeleted ==
  ASSUME NEW x, IsVertex(x), NEW y, y = [x EXCEPT !.deleted = TRUE]
  PROVE  y = [parent |-> x.parent, key |-> x.key, coord |-> x.coord, deleted |-> TRUE,
              moveReg |-> x.moveReg]
<1>1. x = [parent |-> x.parent, key |-> x.key, coord |-> x.coord, deleted |-> x.deleted,
           moveReg |-> x.moveReg]
  BY DEF IsVertex
<1>2. QED
  BY <1>1

LEMMA MoveKeepsTree ==
  ASSUME NEW s, Tree(s), NEW id \in DOMAIN s.vertex, NEW stamp, NEW coord
  PROVE  LET t == Move(s, id, stamp, coord)
         IN  /\ Tree(t) /\ DOMAIN t.vertex = DOMAIN s.vertex
             /\ \A v \in DOMAIN s.vertex : v # id => t.vertex[v] = s.vertex[v]
             /\ t.vertex[id] = [parent |-> s.vertex[id].parent, key |-> s.vertex[id].key,
                                coord |-> coord, deleted |-> s.vertex[id].deleted,
                                moveReg |-> stamp]
<1> DEFINE old == s.vertex[id]
           x == [old EXCEPT !.coord = coord, !.moveReg = stamp]
           t == Move(s, id, stamp, coord)
<1>1. /\ s = [vertex |-> s.vertex, children |-> s.children, visible |-> s.visible]
      /\ IsFunction(s.vertex) /\ s.visible = Cardinality(VisibleVertices(s)) /\ IsVertex(old)
  BY DEF Tree
<1>2. /\ old = [parent |-> old.parent, key |-> old.key, coord |-> old.coord,
                deleted |-> old.deleted, moveReg |-> old.moveReg]
      /\ old.deleted \in BOOLEAN
  BY <1>1 DEF IsVertex
<1> HIDE DEF old
<1>3. /\ x = [parent |-> old.parent, key |-> old.key, coord |-> coord,
              deleted |-> old.deleted, moveReg |-> stamp]
  BY <1>1, VertexMoved
<1>4. IsVertex(x) /\ x.parent = old.parent /\ x.key = old.key /\ x.deleted = old.deleted
  BY <1>2, <1>3 DEF IsVertex
<1>5. t = [s EXCEPT !.vertex = [@ EXCEPT ![id] = x]]
  BY <1>1 DEF Move, old
<1> HIDE DEF x
<1>6. /\ t = [vertex |-> t.vertex, children |-> t.children, visible |-> t.visible]
      /\ t.children = s.children /\ t.vertex = [s.vertex EXCEPT ![id] = x] /\ t.visible = s.visible
  BY <1>1, <1>5
<1> HIDE DEF t
<1>7. VisibleVertices(t) = VisibleVertices(s)
  <2>1. t.vertex = [v \in DOMAIN s.vertex |-> IF v = id THEN x ELSE s.vertex[v]]
    BY <1>1, <1>6 DEF IsFunction
  <2>2. DOMAIN t.vertex = DOMAIN s.vertex
        /\ \A v \in DOMAIN s.vertex : t.vertex[v].deleted = s.vertex[v].deleted
    BY <1>4, <2>1 DEF old
  <2>3. QED
    BY <2>2 DEF VisibleVertices
<1>8. /\ Tree(t) /\ DOMAIN t.vertex = DOMAIN s.vertex /\ t.vertex[id] = x
      /\ \A v \in DOMAIN s.vertex : v # id => t.vertex[v] = s.vertex[v]
  BY <1>1, <1>4, <1>6, <1>7, TreeKept DEF old
<1>9. QED
  BY <1>3, <1>8 DEF t, old

LEMMA DeleteKeepsTree ==
  ASSUME NEW s, Tree(s), NEW id \in DOMAIN s.vertex, ~ s.vertex[id].deleted
  PROVE  LET t == Delete(s, id)
         IN  /\ Tree(t) /\ DOMAIN t.vertex = DOMAIN s.vertex
             /\ \A v \in DOMAIN s.vertex : v # id => t.vertex[v] = s.vertex[v]
             /\ t.vertex[id] = [parent |-> s.vertex[id].parent, key |-> s.vertex[id].key,
                                coord |-> s.vertex[id].coord, deleted |-> TRUE,
                                moveReg |-> s.vertex[id].moveReg]
<1> DEFINE old == s.vertex[id]
           x == [old EXCEPT !.deleted = TRUE]
           t == Delete(s, id)
<1>1. /\ s = [vertex |-> s.vertex, children |-> s.children, visible |-> s.visible]
      /\ IsFunction(s.vertex) /\ s.visible = Cardinality(VisibleVertices(s)) /\ IsVertex(old)
      /\ IsFiniteSet(DOMAIN s.vertex)
  BY DEF Tree
<1>2. old = [parent |-> old.parent, key |-> old.key, coord |-> old.coord,
             deleted |-> old.deleted, moveReg |-> old.moveReg]
  BY <1>1 DEF IsVertex
<1> HIDE DEF old
<1>3. x = [parent |-> old.parent, key |-> old.key, coord |-> old.coord,
           deleted |-> TRUE, moveReg |-> old.moveReg]
  BY <1>1, VertexDeleted
<1>4. IsVertex(x) /\ x.parent = old.parent /\ x.key = old.key /\ x.deleted
  BY <1>3 DEF IsVertex
<1>5. t = [s EXCEPT !.vertex = [@ EXCEPT ![id] = x], !.visible = @ - 1]
  BY <1>1 DEF Delete, old
<1> HIDE DEF x
<1>6. /\ t = [vertex |-> t.vertex, children |-> t.children, visible |-> t.visible]
      /\ t.children = s.children /\ t.vertex = [s.vertex EXCEPT ![id] = x]
      /\ t.visible = s.visible - 1
  BY <1>1, <1>5
<1> HIDE DEF t
<1>7. t.visible = Cardinality(VisibleVertices(t))
  <2>1. t.vertex = [v \in DOMAIN s.vertex |-> IF v = id THEN x ELSE s.vertex[v]]
    BY <1>1, <1>6 DEF IsFunction
  <2>2. VisibleVertices(t) = VisibleVertices(s) \ {id}
    BY <1>4, <2>1 DEF VisibleVertices
  <2>3. id \in VisibleVertices(s)
    BY DEF VisibleVertices
  <2>4. IsFiniteSet(VisibleVertices(s))
    BY <1>1, FS_Subset DEF VisibleVertices
  <2>5. Cardinality(VisibleVertices(s) \ {id}) = Cardinality(VisibleVertices(s)) - 1
    BY <2>3, <2>4, FS_RemoveElement
  <2>6. QED
    BY <1>1, <1>6, <2>2, <2>5
<1>8. /\ Tree(t) /\ DOMAIN t.vertex = DOMAIN s.vertex /\ t.vertex[id] = x
      /\ \A v \in DOMAIN s.vertex : v # id => t.vertex[v] = s.vertex[v]
  BY <1>4, <1>6, <1>7, TreeKept DEF old
<1>9. QED
  BY <1>3, <1>8 DEF t, old

(* The setting of the lemmas below: A has taken effect, op is one more.    *)
OneMore(I, A, op) == Exchange(I) /\ A \subseteq I /\ op \in I /\ op \notin A

LEMMA OneMoreIs ==
  ASSUME NEW I, NEW A, NEW op, OneMore(I, A, op)
  PROVE  /\ IsOp(op) /\ Stamped(op)
         /\ \A o \in A : /\ IsOp(o) /\ Stamped(o) /\ RefOf(o) # RefOf(op) /\ o # op
                         /\ Newer(op, o) \/ Newer(o, op)
                         /\ Refers(op, o) => Newer(op, o)
<1>1. Orderly(I) /\ A \subseteq I /\ op \in I /\ op \notin A
      /\ (\A o \in I : IsOp(o)) /\ (\A o, b \in I : Refers(o, b) => Newer(o, b))
  BY DEF OneMore, Exchange
<1>2. \A o \in I : Stamped(o)
  BY <1>1 DEF Orderly
<1>3. \A o \in A : RefOf(o) # RefOf(op)
  BY <1>1 DEF Orderly, OneEach
<1>4. ASSUME NEW o \in A
      PROVE  Newer(op, o) \/ Newer(o, op)
  <2>1. StampOf(o) # StampOf(op)
    BY <1>3, StampIs DEF RefOf
  <2>2. QED
    BY <1>1, <1>2, <2>1, StampsAreOrdered
<1>5. QED
  BY <1>1, <1>2, <1>3, <1>4

LEMMA SeqInserted ==
  ASSUME NEW I, NEW A, NEW op, OneMore(I, A, op), op.action = "insert_vertex",
         NEW p, p = op.part, NEW k, k = op.ring, NEW pk, NEW rk, PartKey(pk), RingKey(rk),
         NEW s, ReflectsSeq(s, A, p, k, pk, rk),
         op.vertex = Root \/ Has(s, op.vertex),
         \A o \in A : /\ o.part = p /\ o.ring = k
                      /\ o.action \in {"move_vertex", "delete_vertex"}
                     => Has(s, o.vertex)
  PROVE  LET id  == InsertedVertexID(op)
             new == Insert(s, id, op.vertex, OpKey(StampOf(op)), id)
         IN  /\ ~ Has(s, id)
             /\ ReflectsSeq(new, A \cup {op}, p, k, pk, rk)
             /\ DOMAIN new.vertex = DOMAIN s.vertex \cup {id}
<1> DEFINE id  == InsertedVertexID(op)
           key == OpKey(StampOf(op))
           new == Insert(s, id, op.vertex, key, id)
           V == s.vertex
<1>1. pk.initial \in BOOLEAN /\ rk.initial \in BOOLEAN
  BY PartKeyIs, RingKeyIs
<1>2. /\ IsOp(op) /\ Stamped(op)
      /\ \A o \in A : /\ IsOp(o) /\ Stamped(o) /\ RefOf(o) # RefOf(op)
                      /\ Newer(op, o) \/ Newer(o, op)
                      /\ Refers(op, o) => Newer(op, o)
  BY OneMoreIs
<1>3. Tree(s) /\ \A v \in DOMAIN V : ReflectsVertex(V[v], A, p, k, v, pk, rk)
  BY DEF ReflectsSeq
<1>4. ASSUME NEW v \in DOMAIN V
      PROVE  \/ V[v].key.initial /\ V[v].key = InitialKey(V[v].key.pos)
                /\ v = DerivedVertexID(pk, rk, InitialKey(V[v].key.pos))
             \/ ~ V[v].key.initial
                /\ \E o \in A : V[v].key = OpKey(StampOf(o)) /\ v = InsertedVertexID(o)
  <2>1. ReflectsVertex(V[v], A, p, k, v, pk, rk)
    BY <1>3
  <2>2. CASE V[v].key.initial
    BY <2>1, <2>2 DEF ReflectsVertex
  <2>3. CASE ~ V[v].key.initial
    <3>1. PICK o \in A : V[v].key = OpKey(StampOf(o))
      BY <2>1, <2>3 DEF ReflectsVertex, At
    <3>2. v = InsertedVertexID(StampOf(o))
      BY <1>1, <2>1, <3>1, VertexIDs DEF ReflectsVertex
    <3>3. v = InsertedVertexID(o)
      BY <3>2, StampIs DEF InsertedVertexID
    <3>4. QED
      BY <2>3, <3>1, <3>3
  <2>4. QED
    BY <2>2, <2>3
<1>5. id \notin DOMAIN V
  <2> SUFFICES ASSUME id \in DOMAIN V PROVE FALSE
    OBVIOUS
  <2>1. id # DerivedVertexID(pk, rk, InitialKey(V[id].key.pos))
    BY <1>1, VertexIDs
  <2>2. PICK o \in A : id = InsertedVertexID(o)
    BY <1>4, <2>1
  <2>3. RefOf(o) = RefOf(op)
    BY <1>1, <2>2, VertexIDs
  <2>4. QED
    BY <1>2, <2>3
<1>6. ASSUME NEW v \in DOMAIN V
      PROVE  /\ SetKeyBefore(key, V[v].key) \/ SetKeyBefore(V[v].key, key)
             /\ v = op.vertex => SetKeyBefore(V[v].key, key)
  <2>1. CASE V[v].key = InitialKey(V[v].key.pos)
    <3>1. SetKeyBefore(InitialKey(V[v].key.pos), key)
      BY KeyOrder
    <3>2. QED
      BY <2>1, <3>1
  <2>2. CASE \E o \in A : V[v].key = OpKey(StampOf(o)) /\ v = InsertedVertexID(o)
    <3>1. PICK o \in A : V[v].key = OpKey(StampOf(o)) /\ v = InsertedVertexID(o)
      BY <2>2
    <3>2. /\ SetKeyBefore(key, V[v].key) <=> Newer(o, op)
          /\ SetKeyBefore(V[v].key, key) <=> Newer(op, o)
      BY <3>1, KeyOrder
    <3>3. v = op.vertex => Newer(op, o)
      BY <1>2, <3>1 DEF Refers
    <3>4. QED
      BY <1>2, <3>2, <3>3
  <2>3. QED
    BY <1>4, <2>1, <2>2
<1>7. CanHang(V, id, op.vertex, key)
  <2>1. id # Root
    BY <1>1, VertexIDs
  <2>2. ProperKey(key) /\ ~ key.initial
    BY <1>2, OpsAreStamped, OpKeyIs
  <2>3. op.vertex = Root \/ op.vertex \in DOMAIN V
    BY DEF Has
  <2> HIDE DEF id, key
  <2>4. QED
    BY <1>5, <1>6, <2>1, <2>2, <2>3 DEF CanHang
<1>8. /\ Tree(new)
      /\ DOMAIN new.vertex = DOMAIN V \cup {id}
      /\ \A v \in DOMAIN V : new.vertex[v] = V[v]
      /\ new.vertex[id] = NewVertex(op.vertex, key, id)
  <2> HIDE DEF id, key
  <2>1. QED
    BY <1>3, <1>7, InsertKeepsTree
<1> HIDE DEF new
<1>9. /\ At(A \cup {op}, "insert_vertex", p, k) = At(A, "insert_vertex", p, k) \cup {op}
      /\ \A v : On(A \cup {op}, "delete_vertex", p, k, v) = On(A, "delete_vertex", p, k, v)
      /\ \A v : On(A \cup {op}, "move_vertex", p, k, v) = On(A, "move_vertex", p, k, v)
  BY DEF At, On
<1>10. ASSUME NEW v \in DOMAIN V
       PROVE  ReflectsVertex(new.vertex[v], A \cup {op}, p, k, v, pk, rk)
  <2>1. ReflectsVertex(V[v], A, p, k, v, pk, rk) /\ new.vertex[v] = V[v]
    BY <1>3, <1>8
  <2>2. ReflectsVertex(V[v], A \cup {op}, p, k, v, pk, rk)
    BY <2>1, <1>9 DEF ReflectsVertex
  <2>3. QED
    BY <2>1, <2>2
<1>11. On(A, "delete_vertex", p, k, id) = {} /\ On(A, "move_vertex", p, k, id) = {}
  BY <1>5 DEF On, At, Has
<1>12. ReflectsVertex(new.vertex[id], A \cup {op}, p, k, id, pk, rk)
  <2>1. NewVertex(op.vertex, key, id).key = key /\ key.initial = FALSE
    BY DEF NewVertex, OpKey
  <2>2. id = DerivedVertexID(pk, rk, key)
    <3>1. DerivedVertexID(pk, rk, key) = InsertedVertexID(StampOf(op))
      BY <1>1, VertexIDs
    <3>2. QED
      BY <3>1, StampIs DEF InsertedVertexID
  <2>3. op \in At(A \cup {op}, "insert_vertex", p, k)
    BY DEF At
  <2>4. LastMove(NewVertex(op.vertex, key, id), id, On(A \cup {op}, "move_vertex", p, k, id))
    BY <1>9, <1>11 DEF LastMove, NewVertex
  <2>5. On(A \cup {op}, "delete_vertex", p, k, id) = {}
    BY <1>9, <1>11
  <2>6. /\ NewVertex(op.vertex, key, id).deleted = FALSE
        /\ NewVertex(op.vertex, key, id).parent = op.vertex
    BY DEF NewVertex
  <2> HIDE DEF id
  <2>7. QED
    BY <1>8, <2>1, <2>2, <2>3, <2>4, <2>5, <2>6 DEF ReflectsVertex
<1>13. \A i \in 1 .. Size(rk) : DerivedVertexID(pk, rk, InitialKey(i - 1)) \in DOMAIN new.vertex
  BY <1>8 DEF ReflectsSeq
<1>14. \A o \in At(A \cup {op}, "insert_vertex", p, k) : InsertedVertexID(o) \in DOMAIN new.vertex
  BY <1>8, <1>9 DEF ReflectsSeq
<1>15. \A v \in DOMAIN new.vertex : ReflectsVertex(new.vertex[v], A \cup {op}, p, k, v, pk, rk)
  BY <1>8, <1>10, <1>12
<1>16. ReflectsSeq(new, A \cup {op}, p, k, pk, rk)
  BY <1>8, <1>13, <1>14, <1>15 DEF ReflectsSeq
<1>17. QED
  BY <1>5, <1>8, <1>16 DEF new, Has

LEMMA SeqMoved ==
  ASSUME NEW I, NEW A, NEW op, OneMore(I, A, op), op.action = "move_vertex",
         NEW p, p = op.part, NEW k, k = op.ring, NEW pk, NEW rk,
         NEW s, ReflectsSeq(s, A, p, k, pk, rk), Has(s, op.vertex)
  PROVE  /\ MoveWins(s, op.vertex, StampOf(op)) =>
              LET new == Move(s, op.vertex, StampOf(op), MovedTo(op))
              IN  /\ ReflectsSeq(new, A \cup {op}, p, k, pk, rk)
                  /\ DOMAIN new.vertex = DOMAIN s.vertex
         /\ ~ MoveWins(s, op.vertex, StampOf(op)) => ReflectsSeq(s, A \cup {op}, p, k, pk, rk)
<1> DEFINE id  == op.vertex
           new == Move(s, id, StampOf(op), MovedTo(op))
           V == s.vertex
           M == On(A, "move_vertex", p, k, id)
<1>1. /\ IsOp(op) /\ Stamped(op)
      /\ \A o \in A : IsOp(o) /\ Stamped(o) /\ (Newer(op, o) \/ Newer(o, op))
  BY OneMoreIs
<1>2. /\ Tree(s) /\ id \in DOMAIN V
      /\ \A v \in DOMAIN V : ReflectsVertex(V[v], A, p, k, v, pk, rk)
  BY DEF ReflectsSeq, Has
<1>3. /\ At(A \cup {op}, "insert_vertex", p, k) = At(A, "insert_vertex", p, k)
      /\ \A v : On(A \cup {op}, "delete_vertex", p, k, v) = On(A, "delete_vertex", p, k, v)
      /\ \A v : v # id => On(A \cup {op}, "move_vertex", p, k, v) = On(A, "move_vertex", p, k, v)
      /\ On(A \cup {op}, "move_vertex", p, k, id) = M \cup {op}
  BY DEF At, On
<1>4. M \subseteq A
  BY DEF On, At
<1>5. LastMove(V[id], id, M)
  BY <1>2 DEF ReflectsVertex
<1>6. ASSUME NEW v \in DOMAIN V, v # id
      PROVE  ReflectsVertex(V[v], A \cup {op}, p, k, v, pk, rk)
  <2>1. ReflectsVertex(V[v], A, p, k, v, pk, rk)
    BY <1>2
  <2>2. QED
    BY <1>3, <1>6, <2>1 DEF ReflectsVertex
<1>7. ASSUME NEW x, x.key = V[id].key, x.parent = V[id].parent, x.deleted = V[id].deleted,
             LastMove(x, id, M \cup {op})
      PROVE  ReflectsVertex(x, A \cup {op}, p, k, id, pk, rk)
  <2>1. ReflectsVertex(V[id], A, p, k, id, pk, rk)
    BY <1>2
  <2>2. QED
    BY <1>3, <1>7, <2>1 DEF ReflectsVertex
<1>8. ASSUME NEW m \in M, V[id].moveReg = StampOf(m)
      PROVE  MoveWins(s, id, StampOf(op)) <=> Newer(op, m)
  <2>1. StampOf(m) # NoStamp
    <3>1. m.ts \in Number
      <4>1. m \in A
        BY <1>4
      <4>2. QED
        BY <1>1, <4>1 DEF IsOp
    <3>2. StampOf(m).ts # NoStamp.ts
      BY <3>1, StampIs DEF NoStamp, Number
    <3>3. QED
      BY <3>2
  <2>2. Newer(StampOf(op), StampOf(m)) <=> Newer(op, m)
    BY DEF Newer, Less, StampOf
  <2>3. QED
    BY <1>8, <2>1, <2>2 DEF MoveWins
<1>9. ASSUME MoveWins(s, id, StampOf(op))
      PROVE  \A o \in M \cup {op} : ~ Newer(o, op)
  <2>1. CASE M = {}
    BY <1>1, <2>1, StampsAreOrdered
  <2>2. CASE M # {}
    <3>1. PICK m \in M : V[id].moveReg = StampOf(m) /\ \A o \in M : ~ Newer(o, m)
      BY <1>5, <2>2 DEF LastMove
    <3>2. Newer(op, m) /\ Stamped(m)
      BY <1>1, <1>4, <1>8, <1>9, <3>1
    <3>3. ASSUME NEW o \in M
          PROVE  ~ Newer(o, op)
      <4>1. Stamped(o) /\ ~ Newer(o, m)
        BY <1>1, <1>4, <3>1
      <4>2. QED
        BY <1>1, <3>2, <4>1 DEF Stamped, Newer, Less
    <3>4. QED
      BY <1>1, <3>3, StampsAreOrdered
  <2>3. QED
    BY <2>1, <2>2
<1>10. ASSUME MoveWins(s, id, StampOf(op))
       PROVE  /\ ReflectsSeq(new, A \cup {op}, p, k, pk, rk)
              /\ DOMAIN new.vertex = DOMAIN V
  <2> DEFINE x == [parent |-> V[id].parent, key |-> V[id].key, coord |-> MovedTo(op),
                   deleted |-> V[id].deleted, moveReg |-> StampOf(op)]
  <2>1. /\ Tree(new) /\ DOMAIN new.vertex = DOMAIN V /\ new.vertex[id] = x
        /\ \A v \in DOMAIN V : v # id => new.vertex[v] = V[v]
    BY <1>2, MoveKeepsTree
  <2>2. /\ x.key = V[id].key /\ x.parent = V[id].parent
        /\ x.deleted = V[id].deleted /\ x.coord = MovedTo(op) /\ x.moveReg = StampOf(op)
    OBVIOUS
  <2> HIDE DEF x, new, M
  <2>3. LastMove(x, id, M \cup {op})
    BY <1>9, <1>10, <2>2 DEF LastMove
  <2>4. ReflectsVertex(x, A \cup {op}, p, k, id, pk, rk)
    BY <1>7, <2>2, <2>3
  <2>5. \A v \in DOMAIN new.vertex : ReflectsVertex(new.vertex[v], A \cup {op}, p, k, v, pk, rk)
    BY <1>6, <2>1, <2>4
  <2>6. QED
    BY <1>3, <2>1, <2>5 DEF ReflectsSeq
<1>11. ASSUME ~ MoveWins(s, id, StampOf(op))
       PROVE  ReflectsSeq(s, A \cup {op}, p, k, pk, rk)
  <2>1. M # {}
    BY <1>5, <1>11 DEF LastMove, MoveWins
  <2>2. PICK m \in M : V[id].moveReg = StampOf(m) /\ V[id].coord = MovedTo(m)
                       /\ \A o \in M : ~ Newer(o, m)
    BY <1>5, <2>1 DEF LastMove
  <2>3. ~ Newer(op, m)
    BY <1>8, <1>11, <2>2
  <2>4. LastMove(V[id], id, M \cup {op})
    BY <2>2, <2>3 DEF LastMove
  <2>5. ReflectsVertex(V[id], A \cup {op}, p, k, id, pk, rk)
    BY <1>7, <2>4
  <2>6. \A v \in DOMAIN V : ReflectsVertex(V[v], A \cup {op}, p, k, v, pk, rk)
    BY <1>6, <2>5
  <2>7. QED
    BY <1>3, <2>6 DEF ReflectsSeq
<1>12. QED
  BY <1>10, <1>11

LEMMA SeqDeleted ==
  ASSUME NEW I, NEW A, NEW op, OneMore(I, A, op), op.action = "delete_vertex",
         NEW p, p = op.part, NEW k, k = op.ring, NEW pk, NEW rk,
         NEW s, ReflectsSeq(s, A, p, k, pk, rk), Has(s, op.vertex)
  PROVE  /\ ~ s.vertex[op.vertex].deleted =>
              LET new == Delete(s, op.vertex)
              IN  /\ ReflectsSeq(new, A \cup {op}, p, k, pk, rk)
                  /\ DOMAIN new.vertex = DOMAIN s.vertex
         /\ s.vertex[op.vertex].deleted => ReflectsSeq(s, A \cup {op}, p, k, pk, rk)
<1> DEFINE id  == op.vertex
           new == Delete(s, id)
           V == s.vertex
<1>1. /\ Tree(s) /\ id \in DOMAIN V
      /\ \A v \in DOMAIN V : ReflectsVertex(V[v], A, p, k, v, pk, rk)
  BY DEF ReflectsSeq, Has
<1>2. /\ At(A \cup {op}, "insert_vertex", p, k) = At(A, "insert_vertex", p, k)
      /\ \A v : On(A \cup {op}, "move_vertex", p, k, v) = On(A, "move_vertex", p, k, v)
      /\ \A v : v # id => On(A \cup {op}, "delete_vertex", p, k, v) = On(A, "delete_vertex", p, k, v)
      /\ On(A \cup {op}, "delete_vertex", p, k, id) # {}
  BY DEF At, On
<1>3. ASSUME NEW v \in DOMAIN V, v # id
      PROVE  ReflectsVertex(V[v], A \cup {op}, p, k, v, pk, rk)
  <2>1. ReflectsVertex(V[v], A, p, k, v, pk, rk)
    BY <1>1
  <2>2. QED
    BY <1>2, <1>3, <2>1 DEF ReflectsVertex
<1>4. ASSUME NEW x, x.key = V[id].key, x.parent = V[id].parent, x.deleted = TRUE,
             x.coord = V[id].coord, x.moveReg = V[id].moveReg
      PROVE  ReflectsVertex(x, A \cup {op}, p, k, id, pk, rk)
  <2>1. ReflectsVertex(V[id], A, p, k, id, pk, rk)
    BY <1>1
  <2>2. LastMove(x, id, On(A, "move_vertex", p, k, id))
    BY <1>4, <2>1 DEF ReflectsVertex, LastMove
  <2>3. QED
    BY <1>2, <1>4, <2>1, <2>2 DEF ReflectsVertex
<1>5. ASSUME ~ V[id].deleted
      PROVE  /\ ReflectsSeq(new, A \cup {op}, p, k, pk, rk)
             /\ DOMAIN new.vertex = DOMAIN V
  <2> DEFINE x == [parent |-> V[id].parent, key |-> V[id].key, coord |-> V[id].coord,
                   deleted |-> TRUE, moveReg |-> V[id].moveReg]
  <2>1. /\ Tree(new) /\ DOMAIN new.vertex = DOMAIN V /\ new.vertex[id] = x
        /\ \A v \in DOMAIN V : v # id => new.vertex[v] = V[v]
    BY <1>1, <1>5, DeleteKeepsTree
  <2>2. /\ x.key = V[id].key /\ x.parent = V[id].parent
        /\ x.deleted = TRUE /\ x.coord = V[id].coord /\ x.moveReg = V[id].moveReg
    OBVIOUS
  <2> HIDE DEF x, new
  <2>3. ReflectsVertex(x, A \cup {op}, p, k, id, pk, rk)
    BY <1>4, <2>2
  <2>4. \A v \in DOMAIN new.vertex : ReflectsVertex(new.vertex[v], A \cup {op}, p, k, v, pk, rk)
    BY <1>3, <2>1, <2>3
  <2>5. QED
    BY <1>2, <2>1, <2>4 DEF ReflectsSeq
<1>6. ASSUME V[id].deleted
      PROVE  ReflectsSeq(s, A \cup {op}, p, k, pk, rk)
  <2>1. ReflectsVertex(V[id], A \cup {op}, p, k, id, pk, rk)
    <3>1. ReflectsVertex(V[id], A, p, k, id, pk, rk)
      BY <1>1
    <3>2. QED
      BY <1>2, <1>6, <3>1 DEF ReflectsVertex
  <2>2. \A v \in DOMAIN V : ReflectsVertex(V[v], A \cup {op}, p, k, v, pk, rk)
    BY <1>3, <2>1
  <2>3. QED
    BY <1>2, <2>2 DEF ReflectsSeq
<1>7. QED
  BY <1>5, <1>6

-----------------------------------------------------------------------------
(***************************************************************************)
(* One attempt to apply an operation.                                      *)
(***************************************************************************)
(* The first thing that o needs and g lacks.                               *)
Lacks(g, o, dep) ==
  \/ NeedsPart(o) /\ ~ KnowsPart(g, o.part) /\ dep = PartDep(o.part)
  \/ /\ NeedsRing(o) /\ KnowsPart(g, o.part) /\ ~ KnowsRing(g, o.part, o.ring)
     /\ dep = RingDep(o.part, o.ring)
  \/ /\ NeedsVertex(o) /\ KnowsRing(g, o.part, o.ring)
     /\ ~ KnowsVertex(g, o.part, o.ring, o.vertex)
     /\ dep = VertexDep(o.part, o.ring, o.vertex)

TakesEffect(g, A, op, result) ==
  /\ result.outcome \in {"applied", "duplicate", "superseded"}
  /\ Evolves(g, A, op, result.state)
  /\ result.outcome # "applied" => result.state = g

Answers(g, A, op, result) ==
  /\ ~ Ready(g, op) => \E dep : Lacks(g, op, dep) /\ result = Buffered(g, dep)
  /\ Ready(g, op) /\ ~ Admits(op) => result = Quarantined(g)
  /\ Ready(g, op) /\ Admits(op) => TakesEffect(g, A, op, result)

(* Where op is to be applied.                                              *)
Setting(I, A, op, g) ==
  /\ OneMore(I, A, op) /\ Reflects(g, A)
  /\ \A o \in A : Admits(o)

LEMMA KnownPart ==
  ASSUME NEW I, NEW A, NEW op, NEW g, Setting(I, A, op, g), NEW p \in DOMAIN g.part
  PROVE  ReflectsPart(g.part[p], A, p) /\ PartKey(g.part[p].key)
<1>1. ReflectsPart(g.part[p], A, p)
  BY DEF Setting, Reflects
<1>2. \A o \in A : IsOp(o)
  BY OneMoreIs DEF Setting
<1>3. QED
  BY <1>1, <1>2 DEF ReflectsPart, PartKey

LEMMA KnownRing ==
  ASSUME NEW I, NEW A, NEW op, NEW g, Setting(I, A, op, g), NEW p, NEW k, KnowsRing(g, p, k)
  PROVE  /\ ReflectsRing(g.part[p].ring[k], A, p, k, g.part[p].key)
         /\ RingKey(g.part[p].ring[k].key) /\ PartKey(g.part[p].key)
<1> DEFINE ring == g.part[p].ring[k]
<1>1. ReflectsPart(g.part[p], A, p) /\ PartKey(g.part[p].key)
  BY KnownPart DEF KnowsRing, KnowsPart
<1>2. ReflectsRing(ring, A, p, k, g.part[p].key)
  BY <1>1 DEF ReflectsPart, KnowsRing
<1>3. \A o \in A : IsOp(o)
  BY OneMoreIs DEF Setting
<1> HIDE DEF ring
<1>4. RingKey(ring.key)
  <2>1. CASE ring.key.initial
    <3>1. ring.key = InitialKey(ring.key.pos) /\ ring.key.pos + 1 \in DOMAIN Shape
      BY <1>2, <2>1 DEF ReflectsRing
    <3>2. ring.key.pos = (ring.key.pos + 1) - 1
      <4>1. ProperKey(ring.key)
        BY <1>1 DEF ReflectsPart, Listing, KnowsRing, ring
      <4>2. QED
        BY <4>1 DEF ProperKey
    <3>3. QED
      BY <3>1, <3>2 DEF RingKey
  <2>2. CASE ~ ring.key.initial
    BY <1>2, <1>3, <2>2 DEF ReflectsRing, RingKey
  <2>3. QED
    BY <2>1, <2>2
<1>5. QED
  BY <1>1, <1>2, <1>4 DEF ring

LEMMA Missing ==
  ASSUME NEW I, NEW A, NEW op, NEW g, Setting(I, A, op, g)
  PROVE  /\ NeedsPart(op) /\ ~ KnowsPart(g, op.part) =>
              Answers(g, A, op, MissingPart(g, op))
         /\ NeedsRing(op) /\ KnowsPart(g, op.part) /\ ~ KnowsRing(g, op.part, op.ring) =>
              Answers(g, A, op, MissingRing(g, op))
         /\ NeedsVertex(op) /\ KnowsRing(g, op.part, op.ring)
            /\ ~ KnowsVertex(g, op.part, op.ring, op.vertex) =>
              Answers(g, A, op, WaitForVertex(g, op))
<1>1. IsOp(op)
  BY OneMoreIs DEF Setting
<1>2. ASSUME NeedsPart(op), ~ KnowsPart(g, op.part)
      PROVE  Answers(g, A, op, MissingPart(g, op))
  <2>1. ~ Ready(g, op) /\ Lacks(g, op, PartDep(op.part))
    BY <1>2 DEF Ready, Lacks
  <2>2. IsMulti
    BY <1>1, <1>2 DEF IsOp, Setting, Reflects, KnowsPart
  <2>3. QED
    BY <2>1, <2>2 DEF MissingPart, Answers
<1>3. ASSUME NeedsRing(op), KnowsPart(g, op.part), ~ KnowsRing(g, op.part, op.ring)
      PROVE  Answers(g, A, op, MissingRing(g, op))
  <2> DEFINE part == g.part[op.part]
  <2>1. ~ Ready(g, op) /\ Lacks(g, op, RingDep(op.part, op.ring))
    BY <1>3 DEF Ready, Lacks
  <2>2. PartType = "Polygon"
    <3> SUFFICES ASSUME PartType # "Polygon" PROVE FALSE
      OBVIOUS
    <3>1. ReflectsPart(part, A, op.part) /\ PartKey(part.key)
      BY <1>3, KnownPart DEF KnowsPart
    <3>2. op.ring = BaseRing(DerivedPartID(part.key))
      BY <1>1, <1>3, <3>1 DEF IsOp, ReflectsPart
    <3>3. op.ring = DerivedRingID(part.key, InitialKey(0))
      BY <3>1, <3>2, RingIDs
    <3>4. 1 \in DOMAIN Shape /\ 1 - 1 = 0
      BY ShapeIs
    <3>5. DerivedRingID(part.key, InitialKey(0)) \in DOMAIN part.ring
      BY <3>1, <3>4 DEF ReflectsPart
    <3>6. QED
      BY <1>3, <3>3, <3>5 DEF KnowsRing
  <2>3. QED
    BY <2>1, <2>2 DEF MissingRing, Answers
<1>4. ASSUME NeedsVertex(op), KnowsRing(g, op.part, op.ring),
             ~ KnowsVertex(g, op.part, op.ring, op.vertex)
      PROVE  Answers(g, A, op, WaitForVertex(g, op))
  <2>1. ~ Ready(g, op) /\ Lacks(g, op, VertexDep(op.part, op.ring, op.vertex))
    BY <1>4 DEF Ready, Lacks
  <2>2. QED
    BY <2>1 DEF WaitForVertex, Answers
<1>5. QED
  BY <1>2, <1>3, <1>4

LEMMA VerticesPut ==
  ASSUME NEW I, NEW A, NEW op, NEW g, Setting(I, A, op, g), Ready(g, op),
         op.action \in VertexActions, NEW p, p = op.part, NEW k, k = op.ring,
         KnowsRing(g, p, k), NEW t,
         ReflectsSeq(t, A \cup {op}, p, k, g.part[p].key, g.part[p].ring[k].key),
         DOMAIN g.part[p].ring[k].seq.vertex \subseteq DOMAIN t.vertex
  PROVE  TakesEffect(g, A, op, Applied(PutVertices(g, op, t)))
<1> DEFINE ring == g.part[p].ring[k]
           new == [key |-> ring.key, exterior |-> ring.exterior, deleted |-> ring.deleted,
                   seq |-> t]
           h == PutVertices(g, op, t)
<1>1. ReflectsRing(ring, A, p, k, g.part[p].key)
  BY KnownRing
<1>2. ring = [key |-> ring.key, exterior |-> ring.exterior, deleted |-> ring.deleted,
              seq |-> ring.seq]
  BY <1>1 DEF ReflectsRing
<1>3. [ring EXCEPT !.seq = t] = new
  <2> HIDE DEF ring
  <2>1. ASSUME NEW x, x = [ring EXCEPT !.seq = t]
        PROVE  x = new
    BY <1>2, <2>1
  <2>2. QED
    BY <2>1
<1>4. h = WithRing(g, p, k, new)
  <2>1. h = [g EXCEPT !.part[p].ring[k] = [@ EXCEPT !.seq = t]]
    BY DEF PutVertices
  <2>2. [g EXCEPT !.part[p].ring[k] = [@ EXCEPT !.seq = t]] =
          [g EXCEPT !.part[p].ring[k] = [ring EXCEPT !.seq = t]]
    OBVIOUS
  <2> HIDE DEF ring, new, h
  <2>3. QED
    BY <1>3, <2>1, <2>2 DEF WithRing
<1>5. ReflectsRing(new, A \cup {op}, p, k, g.part[p].key)
  <2>1. At(A \cup {op}, "remove_ring", p, k) = At(A, "remove_ring", p, k)
    BY DEF At, VertexActions
  <2>2. /\ new.key = ring.key /\ new.exterior = ring.exterior /\ new.deleted = ring.deleted
        /\ new.seq = t
        /\ new = [key |-> new.key, exterior |-> new.exterior, deleted |-> new.deleted,
                  seq |-> new.seq]
    OBVIOUS
  <2> HIDE DEF ring, new
  <2>3. QED
    BY <1>1, <2>1, <2>2 DEF ReflectsRing, ring
<1>6. NeedsRing(op) /\ new.key = ring.key /\ new.seq = t
  BY DEF NeedsRing
<1> HIDE DEF new, h
<1>7. Evolves(g, A, op, h)
  <2>1. /\ new.key = g.part[p].ring[k].key
        /\ DOMAIN g.part[p].ring[k].seq.vertex \subseteq DOMAIN new.seq.vertex
        /\ Reflects(g, A)
    BY <1>6 DEF Setting
  <2> HIDE DEF ring
  <2> HIDE DEF ring
  <2>2. QED
    BY <1>4, <1>5, <1>6, <2>1, RingChanged
<1>8. QED
  BY <1>7 DEF TakesEffect, Applied, h

LEMMA SameTakesEffect ==
  ASSUME NEW g, NEW A, NEW op, Reflects(g, A \cup {op}), NEW result,
         result.outcome \in {"duplicate", "superseded"}, result.state = g
  PROVE  TakesEffect(g, A, op, result)
BY GrowingIsOrdered DEF TakesEffect, Evolves

(* A ring, or a part, that stays as it is.                                 *)
LEMMA RingTold ==
  ASSUME NEW I, NEW A, NEW op, NEW g, Setting(I, A, op, g), Ready(g, op),
         NeedsRing(op), NEW p, p = op.part, NEW k, k = op.ring, KnowsRing(g, p, k),
         ReflectsRing(g.part[p].ring[k], A \cup {op}, p, k, g.part[p].key)
  PROVE  Reflects(g, A \cup {op})
<1> DEFINE ring == g.part[p].ring[k]
           h == WithRing(g, p, k, ring)
<1>1. Reflects(h, A \cup {op})
  <2> HIDE DEF h
  <2>1. QED
    BY RingChanged DEF Setting, h, Evolves
<1>2. h = g
  <2> DEFINE f == g.part
             e == f[p].ring
  <2>1. g = [parts |-> g.parts, part |-> f, pending |-> g.pending] /\ IsFunction(f)
    BY DEF Setting, Reflects, Listing
  <2>2. /\ f[p] = [key |-> f[p].key, deleted |-> f[p].deleted, rings |-> f[p].rings, ring |-> e]
        /\ IsFunction(e)
    BY KnownPart DEF KnowsRing, KnowsPart, ReflectsPart, Listing
  <2>3. h = [g EXCEPT !.part = [f EXCEPT ![p] = [f[p] EXCEPT !.ring = [e EXCEPT ![k] = e[k]]]]]
    BY DEF WithRing
  <2> HIDE DEF e, h
  <2>4. [e EXCEPT ![k] = e[k]] = e
    BY <2>2 DEF IsFunction
  <2>5. ASSUME NEW x, x = [f[p] EXCEPT !.ring = e]
        PROVE  x = f[p]
    <3> DEFINE q == f[p]
    <3> HIDE DEF q
    <3>1. x = [q EXCEPT !.ring = e] /\ q = [key |-> q.key, deleted |-> q.deleted, rings |-> q.rings, ring |-> e]
      BY <2>2, <2>5 DEF q
    <3>2. x = q
      BY <3>1
    <3>3. QED
      BY <3>2 DEF q
  <2>6. [f EXCEPT ![p] = f[p]] = f
    <3> HIDE DEF f
    <3>1. QED
      BY <2>1 DEF IsFunction
  <2>7. ASSUME NEW x, x = [g EXCEPT !.part = f]
        PROVE  x = g
    <3> HIDE DEF f
    <3>1. QED
      BY <2>1, <2>7
  <2> HIDE DEF f
  <2>8. QED
    BY <2>3, <2>4, <2>5, <2>6, <2>7
<1>3. QED
  BY <1>1, <1>2

LEMMA PartTold ==
  ASSUME NEW I, NEW A, NEW op, NEW g, Setting(I, A, op, g), Ready(g, op),
         op.action # "add_part", NEW p, p = op.part, p \in DOMAIN g.part,
         ReflectsPart(g.part[p], A \cup {op}, p)
  PROVE  Reflects(g, A \cup {op})
<1>1. ASSUME NEW x \in DOMAIN g.part
      PROVE  ReflectsPart(g.part[x], A \cup {op}, x)
  <2>1. CASE x = p
    BY <2>1
  <2>2. CASE x # p
    <3>1. ReflectsPart(g.part[x], A, x)
      BY DEF Setting, Reflects
    <3>2. QED
      BY <2>2, <3>1, PartUntouched
  <2>3. QED
    BY <2>1, <2>2
<1>2. QED
  BY <1>1 DEF Setting, Reflects

LEMMA SequenceTold ==
  ASSUME NEW I, NEW A, NEW op, NEW g, Setting(I, A, op, g), Ready(g, op),
         op.action \in VertexActions, NEW p, p = op.part, NEW k, k = op.ring,
         KnowsRing(g, p, k),
         ReflectsSeq(g.part[p].ring[k].seq, A \cup {op}, p, k, g.part[p].key,
                     g.part[p].ring[k].key)
  PROVE  Reflects(g, A \cup {op})
<1> DEFINE ring == g.part[p].ring[k]
<1>1. ReflectsRing(ring, A, p, k, g.part[p].key)
  BY KnownRing
<1>2. ReflectsRing(ring, A \cup {op}, p, k, g.part[p].key)
  <2>1. At(A \cup {op}, "remove_ring", p, k) = At(A, "remove_ring", p, k)
    BY DEF At, VertexActions
  <2> HIDE DEF ring
  <2>2. QED
    BY <1>1, <2>1 DEF ReflectsRing, ring
<1>3. NeedsRing(op)
  BY DEF NeedsRing
<1>4. QED
  BY <1>2, <1>3, RingTold

LEMMA MoveAnswers ==
  ASSUME NEW I, NEW A, NEW op, NEW g, Setting(I, A, op, g), op.action = "move_vertex"
  PROVE  Answers(g, A, op, ApplyMoveVertex(g, op))
<1> DEFINE p == op.part
           k == op.ring
           result == ApplyMoveVertex(g, op)
<1>1. NeedsPart(op) /\ NeedsRing(op) /\ NeedsVertex(op) /\ Admits(op)
      /\ op.action \in VertexActions
  BY DEF NeedsPart, NeedsRing, NeedsVertex, Admits, VertexActions
<1>2. CASE ~ KnowsPart(g, p)
  <2>1. result = MissingPart(g, op)
    BY <1>2 DEF ApplyMoveVertex, ResolveRing, ResolvePart, KnowsPart
  <2>2. QED
    BY <1>1, <1>2, <2>1, Missing
<1>3. CASE KnowsPart(g, p) /\ ~ KnowsRing(g, p, k)
  <2>1. result = MissingRing(g, op)
    BY <1>3 DEF ApplyMoveVertex, ResolveRing, ResolvePart, KnowsPart, KnowsRing
  <2>2. QED
    BY <1>1, <1>3, <2>1, Missing
<1>4. CASE KnowsRing(g, p, k)
  <2> DEFINE s == g.part[p].ring[k].seq
             pk == g.part[p].key
             rk == g.part[p].ring[k].key
             new == Move(s, op.vertex, StampOf(op), MovedTo(op))
  <2>1. result = IF ~ Has(s, op.vertex) THEN WaitForVertex(g, op)
                 ELSE IF ~ MoveWins(s, op.vertex, StampOf(op)) THEN Superseded(g)
                 ELSE Applied(PutVertices(g, op, new))
    BY <1>4 DEF ApplyMoveVertex, ResolveRing, ResolvePart, KnowsPart, KnowsRing
  <2> HIDE DEF result
  <2>2. CASE ~ Has(s, op.vertex)
    <3>1. result = WaitForVertex(g, op)
      BY <2>1, <2>2
    <3>2. ~ KnowsVertex(g, p, k, op.vertex)
      BY <2>2 DEF KnowsVertex
    <3>3. Answers(g, A, op, WaitForVertex(g, op))
      BY <1>1, <1>4, <3>2, Missing
    <3>4. QED
      BY <3>1, <3>3 DEF result
  <2>3. CASE Has(s, op.vertex)
    <3>1. Ready(g, op)
      BY <1>1, <1>4, <2>3 DEF Ready, KnowsRing, KnowsVertex
    <3>2. ReflectsSeq(s, A, p, k, pk, rk)
      BY <1>4, KnownRing DEF ReflectsRing
    <3>3. OneMore(I, A, op)
      BY DEF Setting
    <3>4. /\ MoveWins(s, op.vertex, StampOf(op)) =>
               ReflectsSeq(new, A \cup {op}, p, k, pk, rk) /\ DOMAIN new.vertex = DOMAIN s.vertex
          /\ ~ MoveWins(s, op.vertex, StampOf(op)) => ReflectsSeq(s, A \cup {op}, p, k, pk, rk)
      BY <2>3, <3>2, <3>3, SeqMoved
    <3> HIDE DEF new
    <3>5. CASE MoveWins(s, op.vertex, StampOf(op))
      <4>1. TakesEffect(g, A, op, Applied(PutVertices(g, op, new)))
        BY <1>1, <1>4, <3>1, <3>4, <3>5, VerticesPut
      <4>2. QED
        BY <1>1, <2>1, <2>3, <3>1, <3>5, <4>1 DEF Answers, result
    <3>6. CASE ~ MoveWins(s, op.vertex, StampOf(op))
      <4>1. result = Superseded(g)
        BY <2>1, <2>3, <3>6
      <4>2. Reflects(g, A \cup {op})
        BY <1>1, <1>4, <3>1, <3>4, <3>6, SequenceTold
      <4>3. TakesEffect(g, A, op, result)
        BY <4>1, <4>2, SameTakesEffect DEF Superseded
      <4>4. QED
        BY <1>1, <3>1, <4>3 DEF Answers, result
    <3>7. QED
      BY <3>5, <3>6
  <2>4. QED
    BY <2>2, <2>3
<1>5. QED
  BY <1>2, <1>3, <1>4 DEF KnowsRing

LEMMA DeleteAnswers ==
  ASSUME NEW I, NEW A, NEW op, NEW g, Setting(I, A, op, g), op.action = "delete_vertex"
  PROVE  Answers(g, A, op, ApplyDeleteVertex(g, op))
<1> DEFINE p == op.part
           k == op.ring
           result == ApplyDeleteVertex(g, op)
<1>1. /\ NeedsPart(op) /\ NeedsRing(op) /\ op.action \in VertexActions
      /\ NeedsVertex(op) <=> PartType # "Point"
      /\ Admits(op) <=> PartType # "Point"
  BY DEF NeedsPart, NeedsRing, NeedsVertex, Admits, VertexActions
<1>2. CASE ~ KnowsPart(g, p)
  <2>1. result = MissingPart(g, op)
    BY <1>2 DEF ApplyDeleteVertex, ResolveRing, ResolvePart, KnowsPart
  <2>2. QED
    BY <1>1, <1>2, <2>1, Missing
<1>3. CASE KnowsPart(g, p) /\ ~ KnowsRing(g, p, k)
  <2>1. result = MissingRing(g, op)
    BY <1>3 DEF ApplyDeleteVertex, ResolveRing, ResolvePart, KnowsPart, KnowsRing
  <2>2. QED
    BY <1>1, <1>3, <2>1, Missing
<1>4. CASE KnowsRing(g, p, k)
  <2> DEFINE s == g.part[p].ring[k].seq
             pk == g.part[p].key
             rk == g.part[p].ring[k].key
             new == Delete(s, op.vertex)
  <2>1. result = IF PartType = "Point" THEN Quarantined(g)
                 ELSE IF ~ Has(s, op.vertex) THEN WaitForVertex(g, op)
                 ELSE IF s.vertex[op.vertex].deleted THEN Duplicate(g)
                 ELSE Applied(PutVertices(g, op, new))
    BY <1>4 DEF ApplyDeleteVertex, ResolveRing, ResolvePart, KnowsPart, KnowsRing
  <2> HIDE DEF result
  <2>2. CASE PartType = "Point"
    <3>1. Ready(g, op) /\ ~ Admits(op)
      BY <1>1, <1>4, <2>2 DEF Ready, KnowsRing
    <3>2. QED
      BY <2>1, <2>2, <3>1 DEF Answers, result
  <2>3. CASE PartType # "Point" /\ ~ Has(s, op.vertex)
    <3>1. result = WaitForVertex(g, op)
      BY <2>1, <2>3
    <3>2. ~ KnowsVertex(g, p, k, op.vertex)
      BY <2>3 DEF KnowsVertex
    <3>3. Answers(g, A, op, WaitForVertex(g, op))
      BY <1>1, <1>4, <2>3, <3>2, Missing
    <3>4. QED
      BY <3>1, <3>3 DEF result
  <2>4. CASE PartType # "Point" /\ Has(s, op.vertex)
    <3>1. Ready(g, op) /\ Admits(op)
      BY <1>1, <1>4, <2>4 DEF Ready, KnowsRing, KnowsVertex
    <3>2. ReflectsSeq(s, A, p, k, pk, rk)
      BY <1>4, KnownRing DEF ReflectsRing
    <3>3. OneMore(I, A, op)
      BY DEF Setting
    <3>4. /\ ~ s.vertex[op.vertex].deleted =>
               ReflectsSeq(new, A \cup {op}, p, k, pk, rk) /\ DOMAIN new.vertex = DOMAIN s.vertex
          /\ s.vertex[op.vertex].deleted => ReflectsSeq(s, A \cup {op}, p, k, pk, rk)
      BY <2>4, <3>2, <3>3, SeqDeleted
    <3> HIDE DEF new
    <3>5. CASE ~ s.vertex[op.vertex].deleted
      <4>1. TakesEffect(g, A, op, Applied(PutVertices(g, op, new)))
        BY <1>1, <1>4, <3>1, <3>4, <3>5, VerticesPut
      <4>2. QED
        BY <2>1, <2>4, <3>1, <3>5, <4>1 DEF Answers, result
    <3>6. CASE s.vertex[op.vertex].deleted
      <4>1. result = Duplicate(g)
        BY <2>1, <2>4, <3>6
      <4>2. Reflects(g, A \cup {op})
        BY <1>1, <1>4, <3>1, <3>4, <3>6, SequenceTold
      <4>3. TakesEffect(g, A, op, result)
        BY <4>1, <4>2, SameTakesEffect DEF Duplicate
      <4>4. QED
        BY <3>1, <4>3 DEF Answers, result
    <3>7. QED
      BY <3>5, <3>6
  <2>5. QED
    BY <2>2, <2>3, <2>4
<1>5. QED
  BY <1>2, <1>3, <1>4 DEF KnowsRing

LEMMA InsertAnswers ==
  ASSUME NEW I, NEW A, NEW op, NEW g, Setting(I, A, op, g), op.action = "insert_vertex"
  PROVE  Answers(g, A, op, ApplyInsertVertex(g, op))
<1> DEFINE p == op.part
           k == op.ring
           id == InsertedVertexID(op)
           result == ApplyInsertVertex(g, op)
<1>1. /\ NeedsPart(op) /\ NeedsRing(op) /\ op.action \in VertexActions
      /\ NeedsVertex(op) <=> (op.vertex # Root /\ PartType # "Point")
      /\ Admits(op) <=> PartType # "Point"
  BY DEF NeedsPart, NeedsRing, NeedsVertex, Admits, VertexActions
<1>2. CASE ~ KnowsPart(g, p)
  <2>1. result = MissingPart(g, op)
    BY <1>2 DEF ApplyInsertVertex, ResolveRing, ResolvePart, KnowsPart
  <2>2. QED
    BY <1>1, <1>2, <2>1, Missing
<1>3. CASE KnowsPart(g, p) /\ ~ KnowsRing(g, p, k)
  <2>1. result = MissingRing(g, op)
    BY <1>3 DEF ApplyInsertVertex, ResolveRing, ResolvePart, KnowsPart, KnowsRing
  <2>2. QED
    BY <1>1, <1>3, <2>1, Missing
<1>4. CASE KnowsRing(g, p, k)
  <2> DEFINE s == g.part[p].ring[k].seq
             pk == g.part[p].key
             rk == g.part[p].ring[k].key
             new == Insert(s, id, op.vertex, OpKey(StampOf(op)), id)
  <2>1. result = IF PartType = "Point" THEN Quarantined(g)
                 ELSE IF Has(s, id) THEN Duplicate(g)
                 ELSE IF op.vertex # Root /\ ~ Has(s, op.vertex) THEN WaitForVertex(g, op)
                 ELSE Applied(PutVertices(g, op, new))
    BY <1>4 DEF ApplyInsertVertex, ResolveRing, ResolvePart, KnowsPart, KnowsRing
  <2> HIDE DEF result
  <2>2. ReflectsSeq(s, A, p, k, pk, rk) /\ RingKey(rk) /\ PartKey(pk)
    BY <1>4, KnownRing DEF ReflectsRing
  <2>3. OneMore(I, A, op) /\ Reflects(g, A) /\ \A o \in A : Admits(o)
    BY DEF Setting
  <2>4. \A o \in A : /\ o.part = p /\ o.ring = k
                     /\ o.action \in {"move_vertex", "delete_vertex"}
                    => Has(s, o.vertex)
    <3> SUFFICES ASSUME NEW o \in A, o.part = p, o.ring = k,
                        o.action \in {"move_vertex", "delete_vertex"}
                 PROVE  Has(s, o.vertex)
      OBVIOUS
    <3>1. NeedsVertex(o)
      BY <2>3 DEF NeedsVertex, VertexActions, Admits
    <3>2. KnowsVertex(g, p, k, o.vertex)
      BY <2>3, <3>1 DEF Reflects, Ready
    <3>3. QED
      BY <3>2 DEF KnowsVertex
  <2>5. CASE PartType = "Point"
    <3>1. Ready(g, op) /\ ~ Admits(op)
      BY <1>1, <1>4, <2>5 DEF Ready, KnowsRing
    <3>2. QED
      BY <2>1, <2>5, <3>1 DEF Answers, result
  <2>6. ~ Has(s, id)
    <3> SUFFICES ASSUME Has(s, id) PROVE FALSE
      OBVIOUS
    <3>1. pk.initial \in BOOLEAN /\ rk.initial \in BOOLEAN
      BY <2>2, PartKeyIs, RingKeyIs
    <3>2. ReflectsVertex(s.vertex[id], A, p, k, id, pk, rk)
      BY <2>2 DEF ReflectsSeq, Has
    <3> DEFINE x == s.vertex[id]
    <3>3. CASE x.key.initial
      <4>1. id = DerivedVertexID(pk, rk, InitialKey(x.key.pos))
        BY <3>2, <3>3 DEF ReflectsVertex
      <4>2. \A i, o : DerivedVertexID(pk, rk, InitialKey(i)) # InsertedVertexID(o)
        BY <3>1, VertexIDs
      <4>3. QED
        BY <4>1, <4>2
    <3>4. CASE ~ x.key.initial
      <4>1. PICK o \in A : x.key = OpKey(StampOf(o))
        BY <3>2, <3>4 DEF ReflectsVertex, At
      <4>2. id = DerivedVertexID(pk, rk, OpKey(StampOf(o)))
        BY <3>2, <4>1 DEF ReflectsVertex
      <4>3. DerivedVertexID(pk, rk, OpKey(StampOf(o))) = InsertedVertexID(o)
        <5>1. DerivedVertexID(pk, rk, OpKey(StampOf(o))) = InsertedVertexID(StampOf(o))
          BY <3>1, VertexIDs
        <5>2. QED
          BY <5>1, StampIs DEF InsertedVertexID
      <4>4. RefOf(op) = RefOf(o)
        BY <3>1, <4>2, <4>3, VertexIDs
      <4>5. QED
        BY <2>3, <4>4, OneMoreIs
    <3>5. QED
      BY <3>3, <3>4
  <2>7. CASE PartType # "Point" /\ op.vertex # Root /\ ~ Has(s, op.vertex)
    <3>1. result = WaitForVertex(g, op)
      BY <2>1, <2>6, <2>7
    <3>2. ~ KnowsVertex(g, p, k, op.vertex)
      BY <2>7 DEF KnowsVertex
    <3>3. Answers(g, A, op, WaitForVertex(g, op))
      BY <1>1, <1>4, <2>7, <3>2, Missing
    <3>4. QED
      BY <3>1, <3>3 DEF result
  <2>8. CASE PartType # "Point" /\ (op.vertex = Root \/ Has(s, op.vertex))
    <3>1. Ready(g, op) /\ Admits(op)
      BY <1>1, <1>4, <2>8 DEF Ready, KnowsRing, KnowsVertex
    <3>2. ReflectsSeq(new, A \cup {op}, p, k, pk, rk) /\ DOMAIN new.vertex = DOMAIN s.vertex \cup {id}
      <4> HIDE DEF s, pk, rk
      <4>1. ReflectsSeq(new, A \cup {op}, p, k, pk, rk)
        BY <2>2, <2>3, <2>4, <2>8, SeqInserted
      <4>2. DOMAIN new.vertex = DOMAIN s.vertex \cup {id}
        BY DEF Insert, With
      <4>3. QED
        BY <4>1, <4>2
    <3> HIDE DEF new
    <3>3. TakesEffect(g, A, op, Applied(PutVertices(g, op, new)))
      BY <1>1, <1>4, <3>1, <3>2, VerticesPut
    <3>4. QED
      BY <2>1, <2>6, <2>8, <3>1, <3>3 DEF Answers, result
  <2>9. QED
    BY <2>5, <2>7, <2>8
<1>5. QED
  BY <1>2, <1>3, <1>4 DEF KnowsRing

LEMMA RemovePartAnswers ==
  ASSUME NEW I, NEW A, NEW op, NEW g, Setting(I, A, op, g), op.action = "remove_part"
  PROVE  Answers(g, A, op, ApplyRemovePart(g, op))
<1> DEFINE p == op.part
           part == g.part[p]
           result == ApplyRemovePart(g, op)
<1>1. /\ NeedsPart(op) <=> IsMulti
      /\ Admits(op) <=> IsMulti
      /\ ~ NeedsRing(op) /\ ~ NeedsVertex(op)
  BY DEF NeedsPart, NeedsRing, NeedsVertex, Admits, VertexActions
<1>2. CASE ~ IsMulti
  BY <1>1, <1>2 DEF ApplyRemovePart, Answers, Ready
<1>3. CASE IsMulti /\ ~ KnowsPart(g, p)
  <2>1. result = MissingPart(g, op)
    BY <1>3 DEF ApplyRemovePart, ResolvePart, KnowsPart
  <2>2. QED
    BY <1>1, <1>3, <2>1, Missing
<1>4. CASE IsMulti /\ KnowsPart(g, p)
  <2> DEFINE h == [g EXCEPT !.part[p].deleted = TRUE]
  <2>1. result = IF part.deleted THEN Duplicate(g) ELSE Applied(h)
    BY <1>4 DEF ApplyRemovePart, ResolvePart, KnowsPart
  <2> HIDE DEF result
  <2>2. Ready(g, op) /\ Admits(op) /\ p \in DOMAIN g.part
    BY <1>1, <1>4 DEF Ready, KnowsPart
  <2>3. ReflectsPart(part, A, p)
    BY <2>2, KnownPart
  <2>4. \A k \in DOMAIN part.ring : ReflectsRing(part.ring[k], A \cup {op}, p, k, part.key)
    <3> SUFFICES ASSUME NEW k \in DOMAIN part.ring
                 PROVE  ReflectsRing(part.ring[k], A \cup {op}, p, k, part.key)
      OBVIOUS
    <3>1. ReflectsRing(part.ring[k], A, p, k, part.key)
      BY <2>3 DEF ReflectsPart
    <3>2. QED
      BY <1>1, <3>1, RingUntouched
  <2>5. CASE part.deleted
    <3>1. ReflectsPart(part, A \cup {op}, p)
      BY <2>3, <2>4, <2>5 DEF ReflectsPart
    <3>2. Reflects(g, A \cup {op})
      BY <2>2, <3>1, PartTold
    <3>3. TakesEffect(g, A, op, result)
      BY <2>1, <2>5, <3>2, SameTakesEffect DEF Duplicate
    <3>4. QED
      BY <2>2, <3>3 DEF Answers, result
  <2>6. CASE ~ part.deleted
    <3> DEFINE new == [key |-> part.key, deleted |-> TRUE, rings |-> part.rings,
                       ring |-> part.ring]
    <3>1. part = [key |-> part.key, deleted |-> part.deleted, rings |-> part.rings,
                  ring |-> part.ring]
      BY <2>3 DEF ReflectsPart
    <3>2. [part EXCEPT !.deleted = TRUE] = new
      <4> HIDE DEF part
      <4>1. ASSUME NEW x, x = [part EXCEPT !.deleted = TRUE]
            PROVE  x = new
        BY <3>1, <4>1
      <4>2. QED
        BY <4>1
    <3>3. h = [g EXCEPT !.part[p] = new]
      <4>1. h = [g EXCEPT !.part[p] = [part EXCEPT !.deleted = TRUE]]
        OBVIOUS
      <4> HIDE DEF part, new, h
      <4>2. QED
        BY <3>2, <4>1
    <3>4. /\ new.key = part.key /\ new.deleted = TRUE /\ new.rings = part.rings
          /\ new.ring = part.ring
          /\ new = [key |-> new.key, deleted |-> new.deleted, rings |-> new.rings,
                    ring |-> new.ring]
      OBVIOUS
    <3> HIDE DEF new, h
    <3>5. ReflectsPart(new, A \cup {op}, p)
      <4> HIDE DEF part
      <4>1. QED
        BY <2>3, <2>4, <3>4 DEF ReflectsPart
    <3>6. PartGrows(part, new)
      BY <3>4 DEF PartGrows
    <3>7. Evolves(g, A, op, h)
      BY <2>2, <3>3, <3>4, <3>5, <3>6, PartChanged DEF Setting
    <3>8. QED
      BY <2>1, <2>2, <2>6, <3>7 DEF Answers, TakesEffect, Applied, result, h
  <2>7. QED
    BY <2>5, <2>6
<1>5. QED
  BY <1>2, <1>3, <1>4

LEMMA ExteriorIsAddressed ==
  ASSUME NEW A, \A o \in A : IsOp(o), NEW p, NEW k, NEW pk, PartKey(pk), NEW ring,
         ReflectsRing(ring, A, p, k, pk)
  PROVE  ring.exterior <=> PartType = "Polygon" /\ Last(k) = 0
<1> DEFINE key == ring.key
<1>1. k = DerivedRingID(pk, key) /\ (ring.exterior <=> PartType = "Polygon" /\ key.initial /\ key.pos = 0)
  BY DEF ReflectsRing
<1>2. CASE key.initial
  <2>1. \E a, b : k = << "ring", a, key.pos >> \/ k = << "ring", a, b, key.pos >>
    BY <1>1, <1>2 DEF DerivedRingID, InitialRingID, AddPartRingID
  <2>2. Last(k) = key.pos
    BY <2>1 DEF Last
  <2>3. QED
    BY <1>1, <1>2, <2>2
<1>3. CASE ~ key.initial
  <2>1. PICK o \in A : key = OpKey(StampOf(o))
    BY <1>3 DEF ReflectsRing
  <2>2. k = AddedRingID(o)
    BY <1>1, <2>1, RingIDs
  <2>3. Last(k) = o.seq /\ o.seq # 0
    BY <2>2 DEF AddedRingID, Last, IsOp, Number
  <2>4. QED
    BY <1>1, <1>3, <2>3
<1>4. QED
  BY <1>2, <1>3

LEMMA RemoveRingAnswers ==
  ASSUME NEW I, NEW A, NEW op, NEW g, Setting(I, A, op, g), op.action = "remove_ring"
  PROVE  Answers(g, A, op, ApplyRemoveRing(g, op))
<1> DEFINE p == op.part
           k == op.ring
           result == ApplyRemoveRing(g, op)
<1>1. /\ NeedsPart(op) /\ NeedsRing(op) /\ ~ NeedsVertex(op)
      /\ Admits(op) <=> ~ (PartType = "Polygon" /\ Last(k) = 0)
      /\ op.action \notin VertexActions
  BY DEF NeedsPart, NeedsRing, NeedsVertex, Admits, VertexActions
<1>2. CASE ~ KnowsPart(g, p)
  <2>1. result = MissingPart(g, op)
    BY <1>2 DEF ApplyRemoveRing, ResolveRing, ResolvePart, KnowsPart
  <2>2. QED
    BY <1>1, <1>2, <2>1, Missing
<1>3. CASE KnowsPart(g, p) /\ ~ KnowsRing(g, p, k)
  <2>1. result = MissingRing(g, op)
    BY <1>3 DEF ApplyRemoveRing, ResolveRing, ResolvePart, KnowsPart, KnowsRing
  <2>2. QED
    BY <1>1, <1>3, <2>1, Missing
<1>4. CASE KnowsRing(g, p, k)
  <2> DEFINE ring == g.part[p].ring[k]
             pk == g.part[p].key
             h == [g EXCEPT !.part[p].ring[k].deleted = TRUE]
  <2>1. result = IF ring.exterior THEN Quarantined(g)
                 ELSE IF ring.deleted THEN Duplicate(g) ELSE Applied(h)
    BY <1>4 DEF ApplyRemoveRing, ResolveRing, ResolvePart, KnowsPart, KnowsRing
  <2> HIDE DEF result
  <2>2. Ready(g, op)
    BY <1>1, <1>4 DEF Ready, KnowsRing
  <2>3. ReflectsRing(ring, A, p, k, pk) /\ PartKey(pk)
    BY <1>4, KnownRing
  <2>4. \A o \in A : IsOp(o)
    BY OneMoreIs DEF Setting
  <2>5. ring.exterior <=> ~ Admits(op)
    <3> HIDE DEF ring, pk
    <3>1. QED
      BY <1>1, <2>3, <2>4, ExteriorIsAddressed
  <2>6. /\ At(A \cup {op}, "remove_ring", p, k) # {}
        /\ ReflectsSeq(ring.seq, A \cup {op}, p, k, pk, ring.key)
    <3>1. ReflectsSeq(ring.seq, A, p, k, pk, ring.key)
      BY <2>3 DEF ReflectsRing
    <3>2. op \in At(A \cup {op}, "remove_ring", p, k)
      BY DEF At
    <3>3. QED
      BY <1>1, <3>1, <3>2, SeqUntouched
  <2>7. CASE ring.exterior
    BY <2>1, <2>2, <2>5, <2>7 DEF Answers, result
  <2>8. CASE ~ ring.exterior /\ ring.deleted
    <3>1. ReflectsRing(ring, A \cup {op}, p, k, pk)
      <4> HIDE DEF ring, pk
      <4>1. QED
        BY <2>3, <2>6, <2>8 DEF ReflectsRing
    <3>2. Reflects(g, A \cup {op})
      BY <1>1, <1>4, <2>2, <3>1, RingTold
    <3>3. TakesEffect(g, A, op, result)
      BY <2>1, <2>8, <3>2, SameTakesEffect DEF Duplicate
    <3>4. QED
      BY <2>2, <2>5, <2>8, <3>3 DEF Answers, result
  <2>9. CASE ~ ring.exterior /\ ~ ring.deleted
    <3> DEFINE new == [key |-> ring.key, exterior |-> ring.exterior, deleted |-> TRUE,
                       seq |-> ring.seq]
    <3>1. ring = [key |-> ring.key, exterior |-> ring.exterior, deleted |-> ring.deleted,
                  seq |-> ring.seq]
      BY <2>3 DEF ReflectsRing
    <3>2. [ring EXCEPT !.deleted = TRUE] = new
      <4> HIDE DEF ring
      <4>1. ASSUME NEW x, x = [ring EXCEPT !.deleted = TRUE]
            PROVE  x = new
        BY <3>1, <4>1
      <4>2. QED
        BY <4>1
    <3>3. h = WithRing(g, p, k, new)
      <4>1. h = [g EXCEPT !.part[p].ring[k] = [ring EXCEPT !.deleted = TRUE]]
        OBVIOUS
      <4> HIDE DEF ring, new, h
      <4>2. QED
        BY <3>2, <4>1 DEF WithRing
    <3>4. /\ new.key = ring.key /\ new.exterior = ring.exterior /\ new.deleted = TRUE
          /\ new.seq = ring.seq
          /\ new = [key |-> new.key, exterior |-> new.exterior, deleted |-> new.deleted,
                    seq |-> new.seq]
      OBVIOUS
    <3> HIDE DEF new, h
    <3>5. ReflectsRing(new, A \cup {op}, p, k, pk)
      <4> HIDE DEF ring, pk
      <4>1. QED
        BY <2>3, <2>6, <3>4 DEF ReflectsRing
    <3>6. DOMAIN ring.seq.vertex \subseteq DOMAIN new.seq.vertex
      BY <3>4
    <3>7. Evolves(g, A, op, h)
      BY <1>1, <1>4, <2>2, <3>3, <3>4, <3>5, <3>6, RingChanged DEF Setting
    <3>8. result = Applied(h) /\ Admits(op)
      BY <2>1, <2>5, <2>9 DEF h
    <3>9. TakesEffect(g, A, op, result)
      <4>1. Applied(h).outcome = "applied" /\ Applied(h).state = h
        BY DEF Applied
      <4>2. QED
        BY <3>7, <3>8, <4>1 DEF TakesEffect
    <3>10. Answers(g, A, op, result)
      BY <2>2, <3>8, <3>9 DEF Answers
    <3>11. QED
      BY <3>10 DEF result
  <2>10. QED
    BY <2>7, <2>8, <2>9
<1>5. QED
  BY <1>2, <1>3, <1>4 DEF KnowsRing

(* A key of what is there, and the key of what op adds.                    *)
LEMMA KeysCompare ==
  ASSUME NEW I, NEW A, NEW op, OneMore(I, A, op), NEW key,
         \/ key = InitialKey(key.pos)
         \/ \E o \in A : key = OpKey(StampOf(o))
  PROVE  SetKeyBefore(key, OpKey(StampOf(op))) \/ SetKeyBefore(OpKey(StampOf(op)), key)
<1>1. CASE key = InitialKey(key.pos)
  <2>1. SetKeyBefore(InitialKey(key.pos), OpKey(StampOf(op)))
    BY KeyOrder
  <2>2. QED
    BY <1>1, <2>1
<1>2. CASE \E o \in A : key = OpKey(StampOf(o))
  <2>1. PICK o \in A : key = OpKey(StampOf(o))
    BY <1>2
  <2>2. Newer(op, o) \/ Newer(o, op)
    BY OneMoreIs
  <2>3. /\ SetKeyBefore(OpKey(StampOf(o)), OpKey(StampOf(op))) <=> Newer(op, o)
        /\ SetKeyBefore(OpKey(StampOf(op)), OpKey(StampOf(o))) <=> Newer(o, op)
    BY KeyOrder
  <2>4. QED
    BY <2>1, <2>2, <2>3
<1>3. QED
  BY <1>1, <1>2

(* Both fields of one part.                                                *)
WithRings(g, p, q, f) == [g EXCEPT !.part[p].rings = q, !.part[p].ring = f]

LEMMA BothFields ==
  ASSUME NEW g, g = [parts |-> g.parts, part |-> g.part, pending |-> g.pending],
         IsFunction(g.part), NEW p \in DOMAIN g.part, NEW part, part = g.part[p],
         part = [key |-> part.key, deleted |-> part.deleted, rings |-> part.rings,
                 ring |-> part.ring],
         NEW q, NEW f, NEW h, h = WithRings(g, p, q, f)
  PROVE  h = [g EXCEPT !.part[p] = [key |-> part.key, deleted |-> part.deleted, rings |-> q,
                                    ring |-> f]]
<1> DEFINE a == [key |-> part.key, deleted |-> part.deleted, rings |-> q, ring |-> part.ring]
           b == [key |-> part.key, deleted |-> part.deleted, rings |-> q, ring |-> f]
           G == g.part
           half == [g EXCEPT !.part[p].rings = q]
<1>1. half = [g EXCEPT !.part = [G EXCEPT ![p] = a]]
  <2>1. half = [g EXCEPT !.part = [G EXCEPT ![p] = [part EXCEPT !.rings = q]]]
    OBVIOUS
  <2>2. ASSUME NEW x, x = [part EXCEPT !.rings = q]
        PROVE  x = a
    BY <2>2
  <2> HIDE DEF half, G, a
  <2>3. QED
    BY <2>1, <2>2
<1>2. h = [half EXCEPT !.part[p].ring = f]
  BY DEF WithRings
<1> HIDE DEF half
<1>3. ASSUME NEW F, F = [G EXCEPT ![p] = a]
      PROVE  /\ half.part = F /\ F[p] = a
             /\ [F EXCEPT ![p] = b] = [G EXCEPT ![p] = b]
  <2> HIDE DEF a, b
  <2>1. half.part = F
    BY <1>1, <1>3
  <2> HIDE DEF G
  <2>2. F = [x \in DOMAIN G |-> IF x = p THEN a ELSE G[x]]
    BY <1>3 DEF IsFunction, G
  <2>3. F[p] = a
    BY <2>2 DEF G
  <2>4. [F EXCEPT ![p] = b] = [G EXCEPT ![p] = b]
    BY <2>2 DEF IsFunction, G
  <2>5. QED
    BY <2>1, <2>3, <2>4
<1>4. h = [half EXCEPT !.part = [half.part EXCEPT ![p] = [half.part[p] EXCEPT !.ring = f]]]
  BY <1>2
<1>5. ASSUME NEW x, x = [a EXCEPT !.ring = f]
      PROVE  x = b
  BY <1>5
<1>6. half.part[p] = a /\ [half.part EXCEPT ![p] = b] = [G EXCEPT ![p] = b]
  <2> HIDE DEF a, b, G
  <2>1. QED
    BY <1>3
<1>7. h = [half EXCEPT !.part = [G EXCEPT ![p] = b]]
  <2> HIDE DEF a, b, G
  <2>1. [half.part[p] EXCEPT !.ring = f] = b
    BY <1>5, <1>6
  <2>2. QED
    BY <1>4, <1>6, <2>1
<1>8. QED
  <2> DEFINE A == [G EXCEPT ![p] = a]
             B == [G EXCEPT ![p] = b]
  <2>1. half = [g EXCEPT !.part = A] /\ h = [half EXCEPT !.part = B]
    BY <1>1, <1>7
  <2> HIDE DEF A, B
  <2>2. h = [g EXCEPT !.part = B]
    BY <2>1
  <2>3. QED
    BY <2>2 DEF B, b, G

LEMMA AddRingAnswers ==
  ASSUME NEW I, NEW A, NEW op, NEW g, Setting(I, A, op, g), op.action = "add_ring"
  PROVE  Answers(g, A, op, ApplyAddRing(g, op))
<1> DEFINE p == op.part
           id == AddedRingID(op)
           rk == OpKey(StampOf(op))
           ring == NewRing(rk, FALSE, [i \in 1 .. Hole |-> AddRingVertexID(op, i - 1)])
           result == ApplyAddRing(g, op)
<1>1. /\ NeedsPart(op) /\ ~ NeedsRing(op) /\ ~ NeedsVertex(op)
      /\ Admits(op) <=> PartType = "Polygon"
  BY DEF NeedsPart, NeedsRing, NeedsVertex, Admits, VertexActions
<1>2. CASE ~ KnowsPart(g, p)
  <2>1. result = MissingPart(g, op)
    BY <1>2 DEF ApplyAddRing, ResolvePart, KnowsPart
  <2>2. QED
    BY <1>1, <1>2, <2>1, Missing
<1>3. CASE KnowsPart(g, p)
  <2> DEFINE part == g.part[p]
             pk == part.key
             h == InsertRing(g, p, id, ring)
  <2>1. result = IF PartType # "Polygon" THEN Quarantined(g)
                 ELSE IF id \in DOMAIN part.ring THEN Duplicate(g)
                 ELSE Applied(h)
    BY <1>3 DEF ApplyAddRing, ResolvePart, KnowsPart
  <2> HIDE DEF result
  <2>2. Ready(g, op) /\ p \in DOMAIN g.part
    BY <1>1, <1>3 DEF Ready, KnowsPart
  <2>3. ReflectsPart(part, A, p) /\ PartKey(pk)
    BY <2>2, KnownPart
  <2>4. OneMore(I, A, op) /\ Reflects(g, A) /\ \A o \in A : Admits(o)
    BY DEF Setting
  <2>5. IsOp(op) /\ \A o \in A : IsOp(o) /\ RefOf(o) # RefOf(op)
    BY <2>4, OneMoreIs
  <2>6. ASSUME NEW k \in DOMAIN part.ring
        PROVE  /\ k # id
               /\ \/ part.ring[k].key = InitialKey(part.ring[k].key.pos)
                  \/ \E o \in A : part.ring[k].key = OpKey(StampOf(o))
    <3> DEFINE key == part.ring[k].key
    <3>1. ReflectsRing(part.ring[k], A, p, k, pk)
      BY <2>3 DEF ReflectsPart
    <3>2. k = DerivedRingID(pk, key)
      BY <3>1 DEF ReflectsRing
    <3>3. CASE key.initial
      <4>1. key = InitialKey(key.pos) /\ key.pos + 1 \in DOMAIN Shape
        BY <3>1, <3>3 DEF ReflectsRing
      <4>2. ProperKey(key)
        BY <2>3 DEF ReflectsPart, Listing
      <4>3. key.pos = (key.pos + 1) - 1
        BY <4>2 DEF ProperKey
      <4>4. DerivedRingID(pk, InitialKey((key.pos + 1) - 1)) # id
        BY <2>3, <2>5, <4>1, RingIDs
      <4> HIDE DEF key
      <4>5. k # id
        BY <3>2, <4>1, <4>3, <4>4
      <4>6. QED
        BY <4>1, <4>5 DEF key
    <3>4. CASE ~ key.initial
      <4>1. PICK o \in A : key = OpKey(StampOf(o))
        BY <3>1, <3>4 DEF ReflectsRing
      <4>2. k = AddedRingID(o)
        BY <2>3, <3>2, <4>1, RingIDs
      <4>3. RefOf(o) # RefOf(op)
        BY <2>5
      <4>4. k # id
        BY <2>3, <4>2, <4>3, RingIDs
      <4>5. QED
        BY <4>1, <4>4
    <3>5. QED
      BY <3>3, <3>4
  <2>7. CASE PartType # "Polygon"
    BY <1>1, <2>1, <2>2, <2>7 DEF Answers, result
  <2>8. CASE PartType = "Polygon"
    <3> DEFINE f == part.ring
               at == Position(part.rings, LAMBDA other : SetKeyBefore(ring.key, f[other].key))
               new == [key |-> pk, deleted |-> part.deleted,
                       rings |-> InsertAt(part.rings, at, id), ring |-> With(f, id, ring)]
    <3>1. result = Applied(h)
      BY <2>1, <2>6, <2>8
    <3>2. ring.key = rk
      BY DEF NewRing
    <3>3. ReflectsRing(ring, A \cup {op}, p, id, pk)
      <4>1. RingKey(rk)
        BY <2>5 DEF RingKey
      <4>2. id = DerivedRingID(pk, rk)
        BY <2>3, RingIDs
      <4>3. \A o \in A \cup {op} : o.part = p /\ o.ring = id => ~ NeedsRing(o)
        <5> SUFFICES ASSUME NEW o \in A, o.part = p, o.ring = id, NeedsRing(o)
                     PROVE  FALSE
          BY <1>1
        <5>1. KnowsRing(g, p, id)
          BY <2>4 DEF Reflects, Ready
        <5>2. QED
          BY <2>6, <5>1 DEF KnowsRing
      <4>4. rk.initial = FALSE
        BY DEF OpKey
      <4>5. FreshIDs(pk, rk) = [i \in 1 .. Hole |-> AddRingVertexID(op, i - 1)]
        <5>1. Size(rk) = Hole
          BY <4>4 DEF Size
        <5>2. \A i : DerivedVertexID(pk, rk, InitialKey(i - 1)) = AddRingVertexID(op, i - 1)
          <6>1. rk.stamp = StampOf(op)
            BY DEF OpKey
          <6>2. \A i : InitialKey(i - 1).initial = TRUE /\ InitialKey(i - 1).pos = i - 1
            BY DEF InitialKey
          <6> HIDE DEF rk
          <6>3. \A i : DerivedVertexID(pk, rk, InitialKey(i - 1)) = AddRingVertexID(rk.stamp, i - 1)
            BY <4>4, <6>2 DEF DerivedVertexID
          <6>4. QED
            BY <6>1, <6>3, StampIs DEF AddRingVertexID
        <5>3. QED
          BY <5>1, <5>2 DEF FreshIDs
      <4>6. op \in A \cup {op} /\ op.action = "add_ring" /\ op.part = p
        OBVIOUS
      <4> HIDE DEF rk
      <4>7. \E o \in A \cup {op} : o.action = "add_ring" /\ o.part = p /\ rk = OpKey(StampOf(o))
        BY <4>6 DEF rk
      <4>8. ReflectsRing(NewRing(rk, FALSE, FreshIDs(pk, rk)), A \cup {op}, p, id, pk)
        <5> HIDE DEF id, pk
        <5>1. QED
          BY <2>3, <4>1, <4>2, <4>3, <4>4, <4>7, FreshRing
      <4>9. QED
        BY <4>5, <4>8
    <3>4. Listing(new.rings, new.ring)
      <4>1. Listing(part.rings, f)
        BY <2>3 DEF ReflectsPart
      <4>2. ProperKey(ring.key)
        BY <2>5, <3>2, OpsAreStamped
      <4>3. \A y \in DOMAIN f : SetKeyBefore(f[y].key, ring.key) \/ SetKeyBefore(ring.key, f[y].key)
        <5> SUFFICES ASSUME NEW y \in DOMAIN f
                     PROVE  SetKeyBefore(f[y].key, ring.key) \/ SetKeyBefore(ring.key, f[y].key)
          OBVIOUS
        <5> DEFINE key == f[y].key
        <5>1. key = InitialKey(key.pos) \/ \E o \in A : key = OpKey(StampOf(o))
          BY <2>6
        <5> HIDE DEF key
        <5>2. SetKeyBefore(key, rk) \/ SetKeyBefore(rk, key)
          BY <2>4, <5>1, KeysCompare
        <5>3. QED
          BY <3>2, <5>2 DEF key
      <4>4. at = Min({ i \in 1 .. Len(part.rings) : SetKeyBefore(ring.key, f[part.rings[i]].key) }
                     \cup {Len(part.rings) + 1})
        BY DEF Position
      <4>5. id \notin DOMAIN f
        BY <2>6
      <4> HIDE DEF at, f, id, ring
      <4>6. Listing(InsertAt(part.rings, at, id), With(f, id, ring))
        BY <4>1, <4>2, <4>3, <4>4, <4>5, ListingInsert DEF f
      <4>7. QED
        BY <4>6
    <3>5. h = [g EXCEPT !.part[p] = new]
      <4> DEFINE Q == InsertAt(part.rings, at, id)
                 W == With(f, id, ring)
      <4>1. part = [key |-> part.key, deleted |-> part.deleted, rings |-> part.rings,
                    ring |-> part.ring]
        BY <2>3 DEF ReflectsPart
      <4>2. g = [parts |-> g.parts, part |-> g.part, pending |-> g.pending] /\ IsFunction(g.part)
        BY <2>4 DEF Reflects, Listing
      <4>3. h = WithRings(g, p, Q, W)
        <5> DEFINE half == [g EXCEPT !.part[p].rings = Q]
        <5>1. h = [half EXCEPT !.part[p].ring = With(half.part[p].ring, id, ring)]
          BY DEF InsertRing
        <5>2. half.part[p].ring = f
          <6> HIDE DEF Q
          <6>1. half.part = [g.part EXCEPT ![p] = [part EXCEPT !.rings = Q]]
            BY <4>2
          <6>2. half.part[p] = [part EXCEPT !.rings = Q]
            BY <2>2, <4>2, <6>1 DEF IsFunction
          <6> HIDE DEF half
          <6>3. ASSUME NEW x, x = [part EXCEPT !.rings = Q]
                PROVE  x.ring = f
            <7> HIDE DEF part
            <7>1. QED
              BY <4>1, <6>3 DEF part
          <6>4. QED
            BY <6>2, <6>3
        <5>3. h = [half EXCEPT !.part[p].ring = W]
          <6> HIDE DEF half, h, f
          <6>1. QED
            BY <5>1, <5>2
        <5>4. QED
          BY <5>3 DEF WithRings
      <4> HIDE DEF Q, W, h
      <4>4. h = [g EXCEPT !.part[p] = [key |-> part.key, deleted |-> part.deleted, rings |-> Q,
                                       ring |-> W]]
        <5> HIDE DEF part
        <5>1. part = g.part[p]
          BY DEF part
        <5>2. QED
          BY <2>2, <4>1, <4>2, <4>3, <5>1, BothFields
      <4>5. QED
        BY <4>4 DEF Q, W
    <3>6. /\ new.key = pk /\ new.deleted = part.deleted /\ new.ring = With(f, id, ring)
          /\ new = [key |-> new.key, deleted |-> new.deleted, rings |-> new.rings,
                    ring |-> new.ring]
      OBVIOUS
    <3>7. /\ DOMAIN new.ring = DOMAIN f \cup {id} /\ new.ring[id] = ring
          /\ \A k \in DOMAIN f : new.ring[k] = f[k]
      BY <2>6 DEF With
    <3> HIDE DEF new, h, ring, id
    <3>8. \A k \in DOMAIN new.ring : ReflectsRing(new.ring[k], A \cup {op}, p, k, pk)
      <4> SUFFICES ASSUME NEW k \in DOMAIN f
                   PROVE  ReflectsRing(f[k], A \cup {op}, p, k, pk)
        BY <3>3, <3>7
      <4>1. ReflectsRing(f[k], A, p, k, pk)
        BY <2>3 DEF ReflectsPart
      <4>2. QED
        BY <1>1, <4>1, RingUntouched
    <3>9. ReflectsPart(new, A \cup {op}, p)
      <4>1. ReflectsPart(part, A, p)
        BY <2>3
      <4>2. \A o \in A \cup {op} : o.action = "add_ring" /\ o.part = p => AddedRingID(o) \in DOMAIN new.ring
        BY <3>7, <4>1 DEF ReflectsPart, id
      <4>3. \A r \in DOMAIN Shape : DerivedRingID(pk, InitialKey(r - 1)) \in DOMAIN new.ring
        BY <3>7, <4>1 DEF ReflectsPart
      <4> HIDE DEF part
      <4>4. QED
        BY <3>4, <3>6, <3>8, <4>1, <4>2, <4>3 DEF ReflectsPart
    <3>10. PartGrows(part, new)
      BY <3>7 DEF PartGrows
    <3>11. Evolves(g, A, op, h)
      BY <2>2, <2>4, <3>5, <3>6, <3>9, <3>10, PartChanged
    <3>12. QED
      BY <1>1, <2>2, <2>8, <3>1, <3>11 DEF Answers, TakesEffect, Applied, result, h
  <2>9. QED
    BY <2>7, <2>8
<1>4. QED
  BY <1>2, <1>3

LEMMA AddPartAnswers ==
  ASSUME NEW I, NEW A, NEW op, NEW g, Setting(I, A, op, g), op.action = "add_part"
  PROVE  Answers(g, A, op, ApplyAddPart(g, op))
<1> DEFINE id == AddedPartID(op)
           pk == OpKey(StampOf(op))
           new == NewPart(pk, LAMBDA r : AddPartRingID(op, r),
                          LAMBDA r, i : AddPartVertexID(op, r, i))
           h == InsertPart(g, id, new)
           f == g.part
           result == ApplyAddPart(g, op)
<1>1. /\ ~ NeedsPart(op) /\ ~ NeedsRing(op) /\ ~ NeedsVertex(op)
      /\ Admits(op) <=> IsMulti
  BY DEF NeedsPart, NeedsRing, NeedsVertex, Admits, VertexActions
<1>2. Ready(g, op)
  BY <1>1 DEF Ready
<1>3. result = IF ~ IsMulti THEN Quarantined(g)
               ELSE IF id \in DOMAIN f THEN Duplicate(g)
               ELSE Applied(h)
  BY DEF ApplyAddPart
<1> HIDE DEF result
<1>4. CASE ~ IsMulti
  BY <1>1, <1>2, <1>3, <1>4 DEF Answers, result
<1>5. CASE IsMulti
  <2>1. OneMore(I, A, op) /\ Reflects(g, A)
    BY DEF Setting
  <2>2. IsOp(op) /\ \A o \in A : IsOp(o) /\ RefOf(o) # RefOf(op)
    BY <2>1, OneMoreIs
  <2>3. ASSUME NEW p \in DOMAIN f
        PROVE  /\ p # id
               /\ \/ f[p].key = InitialKey(f[p].key.pos)
                  \/ \E o \in A : f[p].key = OpKey(StampOf(o))
    <3> DEFINE key == f[p].key
    <3>1. ReflectsPart(f[p], A, p)
      BY <2>1 DEF Reflects
    <3>2. p = DerivedPartID(key)
      BY <3>1 DEF ReflectsPart
    <3>3. CASE key.initial
      <4>1. key = InitialKey(0)
        BY <3>1, <3>3 DEF ReflectsPart
      <4>2. key.pos = 0
        BY <4>1, InitialKeyIs
      <4> HIDE DEF key
      <4>3. p # id
        BY <3>2, <4>1, PartIDs
      <4>4. QED
        BY <4>1, <4>2, <4>3 DEF key
    <3>4. CASE ~ key.initial
      <4>1. PICK o \in A : key = OpKey(StampOf(o))
        BY <3>1, <3>4 DEF ReflectsPart
      <4>2. p = AddedPartID(o)
        BY <3>2, <4>1, PartIDs
      <4>3. RefOf(o) # RefOf(op)
        BY <2>2
      <4>4. p # id
        BY <4>2, <4>3, PartIDs
      <4>5. QED
        BY <4>1, <4>4
    <3>5. QED
      BY <3>3, <3>4
  <2>4. result = Applied(h)
    BY <1>3, <1>5, <2>3
  <2>5. IsFreshPart(new, pk)
    BY AddedPartIsFresh
  <2>6. new.key = pk /\ ProperKey(pk) /\ PartKey(pk)
    <3>1. ProperKey(pk) /\ PartKey(pk)
      BY <2>2, OpsAreStamped DEF PartKey
    <3>2. new.key = pk
      BY DEF NewPart
    <3>3. QED
      BY <3>1, <3>2
  <2>7. ReflectsPart(new, A \cup {op}, id)
    <3>1. \A o \in A \cup {op} : o.action # "add_part" => o.part # id
      <4> SUFFICES ASSUME NEW o \in A, o.action # "add_part", o.part = id PROVE FALSE
        OBVIOUS
      <4>1. NeedsPart(o) /\ Ready(g, o)
        BY <1>5, <2>1 DEF NeedsPart, Reflects
      <4>2. id \in DOMAIN f
        BY <4>1 DEF Ready, KnowsPart
      <4>3. QED
        BY <2>3, <4>2
    <3>2. id = DerivedPartID(pk)
      BY PartIDs
    <3>3. op \in A \cup {op}
      OBVIOUS
    <3>4. \E o \in A \cup {op} : o.action = "add_part" /\ pk = OpKey(StampOf(o))
      BY <3>3
    <3> HIDE DEF id, pk, new
    <3>5. QED
      BY <2>5, <2>6, <3>1, <3>2, <3>4, FreshPartReflects
  <2> DEFINE at == Position(g.parts, LAMBDA other : SetKeyBefore(new.key, f[other].key))
             Q == InsertAt(g.parts, at, id)
             W == With(f, id, new)
  <2>8. Listing(Q, W)
    <3>1. Listing(g.parts, f)
      BY <2>1 DEF Reflects
    <3>2. \A y \in DOMAIN f : SetKeyBefore(f[y].key, new.key) \/ SetKeyBefore(new.key, f[y].key)
      BY <2>1, <2>3, <2>6, KeysCompare
    <3>3. at = Min({ i \in 1 .. Len(g.parts) : SetKeyBefore(new.key, f[g.parts[i]].key) }
                   \cup {Len(g.parts) + 1})
      BY DEF Position
    <3>4. id \notin DOMAIN f /\ ProperKey(new.key)
      BY <2>3, <2>6
    <3> HIDE DEF at, f, id, new
    <3>5. QED
      BY <3>1, <3>2, <3>3, <3>4, ListingInsert
  <2>9. /\ h = [parts |-> h.parts, part |-> h.part, pending |-> h.pending]
        /\ h.parts = Q /\ h.part = W /\ h.pending = g.pending
    <3>1. g = [parts |-> g.parts, part |-> f, pending |-> g.pending]
      BY <2>1 DEF Reflects
    <3>2. h = [g EXCEPT !.parts = InsertAt(g.parts, at, id), !.part = With(f, id, new)]
      <4> HIDE DEF id, new
      <4>1. QED
        BY <3>1 DEF InsertPart
    <3> HIDE DEF Q, W, h, f, id, new, at
    <3>3. QED
      BY <3>1, <3>2 DEF Q, W
  <2>10. /\ DOMAIN W = DOMAIN f \cup {id} /\ W[id] = new
         /\ \A p \in DOMAIN f : W[p] = f[p]
    BY <2>3 DEF With
  <2> HIDE DEF h, Q, W, new
  <2>11. \A p \in DOMAIN W : ReflectsPart(W[p], A \cup {op}, p)
    <3> SUFFICES ASSUME NEW p \in DOMAIN f
                 PROVE  ReflectsPart(f[p], A \cup {op}, p)
      BY <2>7, <2>10
    <3>1. ReflectsPart(f[p], A, p)
      BY <2>1 DEF Reflects
    <3>2. QED
      BY <3>1, PartUntouched
  <2>12. Grows(g, h)
    BY <2>9, <2>10 DEF Grows, PartGrows
  <2>13. \A o \in A \cup {op} : Ready(h, o)
    BY <1>2, <2>1, <2>12, StillKnown DEF Reflects
  <2>14. /\ InitialPartID(0) \in DOMAIN W
         /\ \A o \in A \cup {op} : o.action = "add_part" => AddedPartID(o) \in DOMAIN W
    BY <2>1, <2>10 DEF Reflects
  <2>15. Reflects(h, A \cup {op})
    BY <2>8, <2>9, <2>11, <2>13, <2>14 DEF Reflects
  <2>16. QED
    BY <1>1, <1>2, <1>5, <2>4, <2>9, <2>12, <2>15
       DEF Answers, TakesEffect, Evolves, Applied, result
<1>6. QED
  BY <1>4, <1>5

LEMMA ApplyOnceAnswers ==
  ASSUME NEW I, NEW A, NEW op, NEW g, Setting(I, A, op, g)
  PROVE  Answers(g, A, op, ApplyOnce(g, op))
<1>1. op.action \in AllActions
  BY OneMoreIs DEF Setting, IsOp
<1>2. CASE op.action = "insert_vertex"
  BY <1>2, InsertAnswers DEF ApplyOnce
<1>3. CASE op.action = "move_vertex"
  BY <1>3, MoveAnswers DEF ApplyOnce
<1>4. CASE op.action = "delete_vertex"
  BY <1>4, DeleteAnswers DEF ApplyOnce
<1>5. CASE op.action = "add_ring"
  BY <1>5, AddRingAnswers DEF ApplyOnce
<1>6. CASE op.action = "remove_ring"
  BY <1>6, RemoveRingAnswers DEF ApplyOnce
<1>7. CASE op.action = "add_part"
  BY <1>7, AddPartAnswers DEF ApplyOnce
<1>8. CASE op.action = "remove_part"
  BY <1>8, RemovePartAnswers DEF ApplyOnce
<1>9. QED
  BY <1>1, <1>2, <1>3, <1>4, <1>5, <1>6, <1>7, <1>8 DEF AllActions, VertexActions

-----------------------------------------------------------------------------
(***************************************************************************)
(* What is known follows from the operations that have taken effect.       *)
(***************************************************************************)
Effects(I, A, g) == Exchange(I) /\ A \subseteq I /\ Reflects(g, A)

PartFrom(A, p, key) ==
  \/ p = InitialPartID(0) /\ key = InitialKey(0)
  \/ \E o \in A : o.action = "add_part" /\ p = AddedPartID(o) /\ key = OpKey(StampOf(o))

RingFrom(A, p, k, pk, key) ==
  \/ \E r \in DOMAIN Shape : k = DerivedRingID(pk, InitialKey(r - 1)) /\ key = InitialKey(r - 1)
  \/ \E o \in A : /\ o.action = "add_ring" /\ o.part = p /\ k = AddedRingID(o)
                  /\ key = OpKey(StampOf(o))

VertexFrom(A, p, k, v, pk, rk, key, parent) ==
  \/ \E i \in 1 .. Size(rk) : /\ v = DerivedVertexID(pk, rk, InitialKey(i - 1))
                              /\ key = InitialKey(i - 1)
                              /\ parent = DerivedParent(pk, rk, InitialKey(i - 1))
  \/ \E o \in At(A, "insert_vertex", p, k) :
       v = InsertedVertexID(o) /\ key = OpKey(StampOf(o)) /\ parent = o.vertex

LEMMA InsertedOnce ==
  ASSUME NEW I, Exchange(I)
  PROVE  /\ \A o \in I : IsOp(o) /\ Stamped(o)
         /\ \A o, b \in I : RefOf(o) = RefOf(b) => o = b
BY DEF Exchange, Orderly, OneEach

LEMMA OneKey ==
  ASSUME NEW I, Exchange(I)
  PROVE  /\ \A p, a, b : PartFrom(I, p, a) /\ PartFrom(I, p, b) => a = b
         /\ \A p, k, pk, a, b :
              PartKey(pk) /\ RingFrom(I, p, k, pk, a) /\ RingFrom(I, p, k, pk, b) => a = b
         /\ \A p, k, v, pk, rk, a, b, x, y :
              /\ PartKey(pk) /\ RingKey(rk)
              /\ VertexFrom(I, p, k, v, pk, rk, a, x) /\ VertexFrom(I, p, k, v, pk, rk, b, y)
              => a = b /\ x = y
<1>1. /\ \A o \in I : IsOp(o)
      /\ \A o, b \in I : RefOf(o) = RefOf(b) => o = b
  BY InsertedOnce
<1>2. ASSUME NEW p, NEW a, NEW b, PartFrom(I, p, a), PartFrom(I, p, b)
      PROVE  a = b
  <2>1. \A o, c \in I : AddedPartID(o) = AddedPartID(c) => o = c
    BY <1>1, PartIDs
  <2>2. \A o : AddedPartID(o) # InitialPartID(0)
    BY PartIDs
  <2>3. QED
    BY <1>2, <2>1, <2>2 DEF PartFrom
<1>3. ASSUME NEW p, NEW k, NEW pk, NEW a, NEW b, PartKey(pk),
             RingFrom(I, p, k, pk, a), RingFrom(I, p, k, pk, b)
      PROVE  a = b
  <2>1. \A o, c \in I : AddedRingID(o) = AddedRingID(c) => o = c
    BY <1>1, <1>3, RingIDs
  <2>2. \A r \in DOMAIN Shape, o \in I : DerivedRingID(pk, InitialKey(r - 1)) # AddedRingID(o)
    BY <1>1, <1>3, RingIDs
  <2>3. \A i, j : DerivedRingID(pk, InitialKey(i)) = DerivedRingID(pk, InitialKey(j)) => i = j
    BY <1>3, RingIDs
  <2>4. \A r, t \in DOMAIN Shape :
          DerivedRingID(pk, InitialKey(r - 1)) = DerivedRingID(pk, InitialKey(t - 1)) =>
            InitialKey(r - 1) = InitialKey(t - 1)
    <3> SUFFICES ASSUME NEW r \in DOMAIN Shape, NEW t \in DOMAIN Shape,
                        DerivedRingID(pk, InitialKey(r - 1)) = DerivedRingID(pk, InitialKey(t - 1))
                 PROVE  InitialKey(r - 1) = InitialKey(t - 1)
      OBVIOUS
    <3>1. r - 1 = t - 1
      BY <2>3
    <3>2. QED
      BY <3>1
  <2>5. QED
    BY <1>3, <2>1, <2>2, <2>4 DEF RingFrom
<1>4. ASSUME NEW p, NEW k, NEW v, NEW pk, NEW rk, NEW a, NEW b, NEW x, NEW y,
             PartKey(pk), RingKey(rk),
             VertexFrom(I, p, k, v, pk, rk, a, x), VertexFrom(I, p, k, v, pk, rk, b, y)
      PROVE  a = b /\ x = y
  <2>0. pk.initial \in BOOLEAN /\ rk.initial \in BOOLEAN
    BY <1>4, PartKeyIs, RingKeyIs
  <2>1. \A o, c \in At(I, "insert_vertex", p, k) : InsertedVertexID(o) = InsertedVertexID(c) => o = c
    <3>1. \A o, c : InsertedVertexID(o) = InsertedVertexID(c) => RefOf(o) = RefOf(c)
      BY <2>0, VertexIDs
    <3>2. QED
      BY <1>1, <3>1 DEF At
  <2>2. \A i, o : DerivedVertexID(pk, rk, InitialKey(i)) # InsertedVertexID(o)
    BY <2>0, VertexIDs
  <2>3. \A i, j : DerivedVertexID(pk, rk, InitialKey(i)) = DerivedVertexID(pk, rk, InitialKey(j)) => i = j
    BY <2>0, VertexIDs
  <2> DEFINE Early(i) == InitialKey(i - 1)
  <2>4. \A i, j \in 1 .. Size(rk) :
          DerivedVertexID(pk, rk, Early(i)) = DerivedVertexID(pk, rk, Early(j)) =>
            Early(i) = Early(j)
    <3> SUFFICES ASSUME NEW i \in 1 .. Size(rk), NEW j \in 1 .. Size(rk),
                        DerivedVertexID(pk, rk, InitialKey(i - 1)) = DerivedVertexID(pk, rk, InitialKey(j - 1))
                 PROVE  InitialKey(i - 1) = InitialKey(j - 1)
      OBVIOUS
    <3>1. i - 1 = j - 1
      BY <2>3
    <3>2. QED
      BY <3>1
  <2>5. \A i \in 1 .. Size(rk) : \A o : DerivedVertexID(pk, rk, Early(i)) # InsertedVertexID(o)
    BY <2>2
  <2>6. /\ \/ \E i \in 1 .. Size(rk) : /\ v = DerivedVertexID(pk, rk, Early(i)) /\ a = Early(i)
                                       /\ x = DerivedParent(pk, rk, Early(i))
           \/ \E o \in At(I, "insert_vertex", p, k) :
                v = InsertedVertexID(o) /\ a = OpKey(StampOf(o)) /\ x = o.vertex
        /\ \/ \E i \in 1 .. Size(rk) : /\ v = DerivedVertexID(pk, rk, Early(i)) /\ b = Early(i)
                                       /\ y = DerivedParent(pk, rk, Early(i))
           \/ \E o \in At(I, "insert_vertex", p, k) :
                v = InsertedVertexID(o) /\ b = OpKey(StampOf(o)) /\ y = o.vertex
    BY <1>4 DEF VertexFrom
  <2> HIDE DEF Early
  <2>7. QED
    BY <2>1, <2>4, <2>5, <2>6
<1>5. QED
  BY <1>2, <1>3, <1>4

LEMMA FromMore ==
  ASSUME NEW A, NEW B, A \subseteq B
  PROVE  /\ \A p, key : PartFrom(A, p, key) => PartFrom(B, p, key)
         /\ \A p, k, pk, key : RingFrom(A, p, k, pk, key) => RingFrom(B, p, k, pk, key)
         /\ \A p, k, v, pk, rk, key, parent :
              VertexFrom(A, p, k, v, pk, rk, key, parent) =>
                VertexFrom(B, p, k, v, pk, rk, key, parent)
BY DEF PartFrom, RingFrom, VertexFrom, At

LEMMA PartComesFrom ==
  ASSUME NEW I, NEW A, NEW g, Effects(I, A, g), NEW p \in DOMAIN g.part
  PROVE  /\ ReflectsPart(g.part[p], A, p) /\ PartKey(g.part[p].key)
         /\ PartFrom(A, p, g.part[p].key)
<1> DEFINE key == g.part[p].key
<1>1. ReflectsPart(g.part[p], A, p) /\ \A o \in A : IsOp(o)
  BY InsertedOnce DEF Effects, Reflects
<1>2. p = DerivedPartID(key)
  BY <1>1 DEF ReflectsPart
<1>3. CASE key.initial
  <2>1. key = InitialKey(0)
    BY <1>1, <1>3 DEF ReflectsPart
  <2> HIDE DEF key
  <2>2. p = InitialPartID(0)
    BY <1>2, <2>1, PartIDs
  <2>3. PartKey(key) /\ PartFrom(A, p, key)
    BY <2>1, <2>2 DEF PartKey, PartFrom
  <2>4. QED
    BY <1>1, <2>3 DEF key
<1>4. CASE ~ key.initial
  <2>1. PICK o \in A : o.action = "add_part" /\ key = OpKey(StampOf(o))
    BY <1>1, <1>4 DEF ReflectsPart
  <2> HIDE DEF key
  <2>2. p = AddedPartID(o)
    BY <1>2, <2>1, PartIDs
  <2>3. PartKey(key) /\ PartFrom(A, p, key)
    BY <1>1, <2>1, <2>2 DEF PartKey, PartFrom
  <2>4. QED
    BY <1>1, <2>3 DEF key
<1>5. QED
  BY <1>3, <1>4

LEMMA RingComesFrom ==
  ASSUME NEW I, NEW A, NEW g, Effects(I, A, g), NEW p, NEW k, KnowsRing(g, p, k)
  PROVE  /\ ReflectsRing(g.part[p].ring[k], A, p, k, g.part[p].key)
         /\ PartKey(g.part[p].key) /\ RingKey(g.part[p].ring[k].key)
         /\ RingFrom(A, p, k, g.part[p].key, g.part[p].ring[k].key)
<1> DEFINE part == g.part[p]
           key == part.ring[k].key
           pk == part.key
<1>1. ReflectsPart(part, A, p) /\ PartKey(pk) /\ k \in DOMAIN part.ring
  BY PartComesFrom DEF KnowsRing, KnowsPart
<1>2. ReflectsRing(part.ring[k], A, p, k, pk) /\ ProperKey(key)
  BY <1>1 DEF ReflectsPart, Listing
<1>3. k = DerivedRingID(pk, key)
  BY <1>2 DEF ReflectsRing
<1>4. \A o \in A : IsOp(o)
  BY InsertedOnce DEF Effects
<1>5. CASE key.initial
  <2>1. key = InitialKey(key.pos) /\ key.pos + 1 \in DOMAIN Shape
    BY <1>2, <1>5 DEF ReflectsRing
  <2>2. key.pos = (key.pos + 1) - 1
    BY <1>2 DEF ProperKey
  <2> HIDE DEF key, pk
  <2>3. RingKey(key) /\ RingFrom(A, p, k, pk, key)
    BY <1>3, <2>1, <2>2 DEF RingKey, RingFrom
  <2>4. QED
    BY <1>1, <1>2, <2>3 DEF key, pk
<1>6. CASE ~ key.initial
  <2>1. PICK o \in A : o.action = "add_ring" /\ o.part = p /\ key = OpKey(StampOf(o))
    BY <1>2, <1>6 DEF ReflectsRing
  <2> HIDE DEF key, pk
  <2>2. k = AddedRingID(o)
    BY <1>1, <1>3, <2>1, RingIDs
  <2>3. RingKey(key) /\ RingFrom(A, p, k, pk, key)
    BY <1>4, <2>1, <2>2 DEF RingKey, RingFrom
  <2>4. QED
    BY <1>1, <1>2, <2>3 DEF key, pk
<1>7. QED
  BY <1>5, <1>6

LEMMA VertexComesFrom ==
  ASSUME NEW I, NEW A, NEW g, Effects(I, A, g), NEW p, NEW k, NEW v, KnowsVertex(g, p, k, v)
  PROVE  LET x == g.part[p].ring[k].seq.vertex[v]
         IN  /\ ReflectsVertex(x, A, p, k, v, g.part[p].key, g.part[p].ring[k].key)
             /\ VertexFrom(A, p, k, v, g.part[p].key, g.part[p].ring[k].key, x.key, x.parent)
<1> DEFINE s == g.part[p].ring[k].seq
           x == s.vertex[v]
           pk == g.part[p].key
           rk == g.part[p].ring[k].key
<1>1. KnowsRing(g, p, k) /\ v \in DOMAIN s.vertex
  BY DEF KnowsVertex, Has
<1>2. ReflectsSeq(s, A, p, k, pk, rk) /\ PartKey(pk) /\ RingKey(rk)
  BY <1>1, RingComesFrom DEF ReflectsRing
<1>3. ReflectsVertex(x, A, p, k, v, pk, rk) /\ ProperKey(x.key)
  BY <1>1, <1>2 DEF ReflectsSeq, Tree, Planted
<1>4. pk.initial \in BOOLEAN /\ rk.initial \in BOOLEAN /\ Size(rk) \in Nat
  BY <1>2, PartKeyIs, RingKeyIs
<1> DEFINE key == x.key
           pos == key.pos
<1>5. v = DerivedVertexID(pk, rk, key)
  BY <1>3 DEF ReflectsVertex
<1>6. CASE key.initial
  <2>1. key = InitialKey(pos) /\ pos < Size(rk) /\ x.parent = DerivedParent(pk, rk, key)
    BY <1>3, <1>6 DEF ReflectsVertex
  <2>2. pos = (pos + 1) - 1 /\ pos + 1 \in 1 .. Size(rk)
    <3> DEFINE size == Size(rk)
    <3>1. pos \in Nat
      BY <1>3 DEF ProperKey
    <3>2. size \in Nat /\ pos < size
      BY <1>4, <2>1
    <3> HIDE DEF pos, size
    <3>3. pos = (pos + 1) - 1 /\ pos + 1 \in 1 .. size
      BY <3>1, <3>2
    <3>4. QED
      BY <3>3 DEF size
  <2> HIDE DEF pos, key
  <2>3. v = DerivedVertexID(pk, rk, InitialKey((pos + 1) - 1)) /\ key = InitialKey((pos + 1) - 1)
        /\ x.parent = DerivedParent(pk, rk, InitialKey((pos + 1) - 1))
    BY <1>5, <2>1, <2>2
  <2>4. VertexFrom(A, p, k, v, pk, rk, key, x.parent)
    BY <2>2, <2>3 DEF VertexFrom
  <2>5. QED
    BY <1>3, <2>4 DEF key
<1>7. CASE ~ key.initial
  <2>1. PICK o \in At(A, "insert_vertex", p, k) : key = OpKey(StampOf(o)) /\ x.parent = o.vertex
    BY <1>3, <1>7 DEF ReflectsVertex
  <2>2. v = InsertedVertexID(o)
    <3>1. DerivedVertexID(pk, rk, OpKey(StampOf(o))) = InsertedVertexID(StampOf(o))
      BY <1>4, VertexIDs
    <3> HIDE DEF key
    <3>2. QED
      BY <1>5, <2>1, <3>1, StampIs DEF InsertedVertexID
  <2> HIDE DEF key
  <2>3. VertexFrom(A, p, k, v, pk, rk, key, x.parent)
    BY <2>1, <2>2 DEF VertexFrom
  <2>4. QED
    BY <1>3, <2>3 DEF key
<1>8. QED
  BY <1>6, <1>7

LEMMA PartIsThere ==
  ASSUME NEW I, NEW A, NEW g, Effects(I, A, g), NEW p, NEW key, PartFrom(A, p, key)
  PROVE  KnowsPart(g, p) /\ g.part[p].key = key
<1>1. p \in DOMAIN g.part
  BY DEF PartFrom, Effects, Reflects
<1>2. PartFrom(A, p, g.part[p].key)
  BY <1>1, PartComesFrom
<1>3. Exchange(I) /\ A \subseteq I
  BY DEF Effects
<1>4. PartFrom(I, p, g.part[p].key) /\ PartFrom(I, p, key)
  BY <1>2, <1>3, FromMore
<1>5. QED
  BY <1>1, <1>3, <1>4, OneKey DEF KnowsPart

LEMMA RingIsThere ==
  ASSUME NEW I, NEW A, NEW g, Effects(I, A, g), NEW p, KnowsPart(g, p), NEW k, NEW key,
         RingFrom(A, p, k, g.part[p].key, key)
  PROVE  KnowsRing(g, p, k) /\ g.part[p].ring[k].key = key
<1> DEFINE pk == g.part[p].key
<1>1. ReflectsPart(g.part[p], A, p)
  BY PartComesFrom DEF KnowsPart
<1>2. KnowsRing(g, p, k)
  BY <1>1 DEF ReflectsPart, RingFrom, KnowsRing
<1>3. PartKey(pk) /\ RingFrom(A, p, k, pk, g.part[p].ring[k].key)
  BY <1>2, RingComesFrom
<1>4. Exchange(I) /\ A \subseteq I
  BY DEF Effects
<1>5. RingFrom(I, p, k, pk, g.part[p].ring[k].key) /\ RingFrom(I, p, k, pk, key)
  BY <1>3, <1>4, FromMore
<1> HIDE DEF pk
<1>6. g.part[p].ring[k].key = key
  BY <1>3, <1>4, <1>5, OneKey
<1>7. QED
  BY <1>2, <1>6

LEMMA VertexIsThere ==
  ASSUME NEW I, NEW A, NEW g, Effects(I, A, g), NEW p, NEW k, KnowsRing(g, p, k), NEW v,
         NEW key, NEW parent,
         VertexFrom(A, p, k, v, g.part[p].key, g.part[p].ring[k].key, key, parent)
  PROVE  /\ KnowsVertex(g, p, k, v)
         /\ LET x == g.part[p].ring[k].seq.vertex[v]
            IN  x.key = key /\ x.parent = parent
<1> DEFINE pk == g.part[p].key
           rk == g.part[p].ring[k].key
           x == g.part[p].ring[k].seq.vertex[v]
<1>1. /\ ReflectsRing(g.part[p].ring[k], A, p, k, pk)
      /\ PartKey(pk) /\ RingKey(rk)
  BY RingComesFrom
<1>2. KnowsVertex(g, p, k, v)
  BY <1>1 DEF ReflectsRing, ReflectsSeq, VertexFrom, KnowsVertex, Has
<1>3. VertexFrom(A, p, k, v, pk, rk, x.key, x.parent)
  BY <1>2, VertexComesFrom
<1>4. Exchange(I) /\ A \subseteq I
  BY DEF Effects
<1> HIDE DEF pk, rk
<1>5. VertexFrom(I, p, k, v, pk, rk, x.key, x.parent) /\ VertexFrom(I, p, k, v, pk, rk, key, parent)
  BY <1>3, <1>4, FromMore DEF pk, rk
<1> HIDE DEF x
<1>6. x.key = key /\ x.parent = parent
  BY <1>1, <1>4, <1>5, OneKey
<1>7. QED
  BY <1>2, <1>6 DEF x

(* Two geometries agree on where what they both know comes from.           *)
LEMMA SameKeys ==
  ASSUME NEW I, NEW A, NEW g, Effects(I, A, g), NEW B, NEW h, Effects(I, B, h)
  PROVE  /\ \A p : KnowsPart(g, p) /\ KnowsPart(h, p) => g.part[p].key = h.part[p].key
         /\ \A p, k : KnowsRing(g, p, k) /\ KnowsRing(h, p, k) =>
                        g.part[p].ring[k].key = h.part[p].ring[k].key
         /\ \A p, k, v : KnowsVertex(g, p, k, v) /\ KnowsVertex(h, p, k, v) =>
              LET x == g.part[p].ring[k].seq.vertex[v]
                  y == h.part[p].ring[k].seq.vertex[v]
              IN  x.key = y.key /\ x.parent = y.parent
<1>1. Exchange(I) /\ A \subseteq I /\ B \subseteq I
  BY DEF Effects
<1>2. ASSUME NEW p, KnowsPart(g, p), KnowsPart(h, p)
      PROVE  g.part[p].key = h.part[p].key
  <2>1. PartFrom(A, p, g.part[p].key) /\ PartFrom(B, p, h.part[p].key)
    BY <1>2, PartComesFrom DEF KnowsPart
  <2>2. PartFrom(I, p, g.part[p].key) /\ PartFrom(I, p, h.part[p].key)
    BY <1>1, <2>1, FromMore
  <2>3. QED
    BY <1>1, <2>2, OneKey
<1>3. ASSUME NEW p, NEW k, KnowsRing(g, p, k), KnowsRing(h, p, k)
      PROVE  g.part[p].ring[k].key = h.part[p].ring[k].key
  <2> DEFINE pk == g.part[p].key
             a == g.part[p].ring[k].key
             b == h.part[p].ring[k].key
  <2>1. pk = h.part[p].key
    BY <1>2, <1>3 DEF KnowsRing
  <2>2. RingFrom(A, p, k, pk, a) /\ RingFrom(B, p, k, h.part[p].key, b) /\ PartKey(pk)
    BY <1>3, RingComesFrom
  <2> HIDE DEF pk, a, b
  <2>3. RingFrom(I, p, k, pk, a) /\ RingFrom(I, p, k, pk, b)
    BY <1>1, <2>1, <2>2, FromMore
  <2>4. a = b
    BY <1>1, <2>2, <2>3, OneKey
  <2>5. QED
    BY <2>4 DEF a, b
<1>4. ASSUME NEW p, NEW k, NEW v, KnowsVertex(g, p, k, v), KnowsVertex(h, p, k, v)
      PROVE  LET x == g.part[p].ring[k].seq.vertex[v]
                 y == h.part[p].ring[k].seq.vertex[v]
             IN  x.key = y.key /\ x.parent = y.parent
  <2> DEFINE pk == g.part[p].key
             rk == g.part[p].ring[k].key
             x == g.part[p].ring[k].seq.vertex[v]
             y == h.part[p].ring[k].seq.vertex[v]
  <2>1. pk = h.part[p].key /\ rk = h.part[p].ring[k].key
    BY <1>2, <1>3, <1>4 DEF KnowsVertex, KnowsRing
  <2>2. /\ VertexFrom(A, p, k, v, pk, rk, x.key, x.parent)
        /\ VertexFrom(B, p, k, v, h.part[p].key, h.part[p].ring[k].key, y.key, y.parent)
    BY <1>4, VertexComesFrom
  <2>3. PartKey(pk) /\ RingKey(rk)
    BY <1>4, RingComesFrom DEF KnowsVertex
  <2> HIDE DEF pk, rk, x, y
  <2>4. VertexFrom(I, p, k, v, pk, rk, x.key, x.parent) /\ VertexFrom(I, p, k, v, pk, rk, y.key, y.parent)
    BY <1>1, <2>1, <2>2, FromMore
  <2>5. x.key = y.key /\ x.parent = y.parent
    BY <1>1, <2>3, <2>4, OneKey
  <2>6. QED
    BY <2>5 DEF x, y
<1>5. QED
  BY <1>2, <1>3, <1>4

(* More operations make more known.                                        *)
LEMMA MoreIsKnown ==
  ASSUME NEW I, NEW A, NEW g, Effects(I, A, g), NEW B, NEW h, Effects(I, B, h), A \subseteq B
  PROVE  Grows(g, h)
<1>1. ASSUME NEW p, KnowsPart(g, p)
      PROVE  KnowsPart(h, p)
  <2>1. PartFrom(A, p, g.part[p].key)
    BY <1>1, PartComesFrom DEF KnowsPart
  <2>2. PartFrom(B, p, g.part[p].key)
    BY <2>1, FromMore
  <2>3. QED
    BY <2>2, PartIsThere
<1>2. ASSUME NEW p, NEW k, KnowsRing(g, p, k)
      PROVE  KnowsRing(h, p, k)
  <2>1. KnowsPart(g, p) /\ KnowsPart(h, p)
    BY <1>1, <1>2 DEF KnowsRing
  <2>2. RingFrom(A, p, k, g.part[p].key, g.part[p].ring[k].key)
    BY <1>2, RingComesFrom
  <2>3. RingFrom(B, p, k, g.part[p].key, g.part[p].ring[k].key)
    BY <2>2, FromMore
  <2>4. g.part[p].key = h.part[p].key
    BY <2>1, SameKeys
  <2>5. QED
    BY <2>1, <2>3, <2>4, RingIsThere
<1>3. ASSUME NEW p, NEW k, NEW v, KnowsVertex(g, p, k, v)
      PROVE  KnowsVertex(h, p, k, v)
  <2> DEFINE x == g.part[p].ring[k].seq.vertex[v]
  <2>1. KnowsRing(g, p, k) /\ KnowsRing(h, p, k) /\ KnowsPart(g, p) /\ KnowsPart(h, p)
    BY <1>1, <1>2, <1>3 DEF KnowsVertex, KnowsRing
  <2>2. VertexFrom(A, p, k, v, g.part[p].key, g.part[p].ring[k].key, x.key, x.parent)
    BY <1>3, VertexComesFrom
  <2>3. VertexFrom(B, p, k, v, g.part[p].key, g.part[p].ring[k].key, x.key, x.parent)
    BY <2>2, FromMore
  <2>4. g.part[p].key = h.part[p].key /\ g.part[p].ring[k].key = h.part[p].ring[k].key
    BY <2>1, SameKeys
  <2> HIDE DEF x
  <2>5. QED
    BY <2>1, <2>3, <2>4, VertexIsThere
<1>4. QED
  BY <1>1, <1>2, <1>3 DEF Grows, PartGrows, KnowsPart, KnowsRing, KnowsVertex, Has

(* What one operation makes known is what it adds.                         *)
LEMMA OnlyItsOwn ==
  ASSUME NEW I, NEW A, NEW g, Effects(I, A, g), NEW op, NEW h, Effects(I, A \cup {op}, h)
  PROVE  /\ \A p : KnowsPart(h, p) => KnowsPart(g, p)
                     \/ (op.action = "add_part" /\ p = AddedPartID(op))
         /\ \A p, k : KnowsPart(g, p) /\ KnowsRing(h, p, k) => KnowsRing(g, p, k)
                        \/ (op.action = "add_ring" /\ p = op.part /\ k = AddedRingID(op))
         /\ \A p, k, v : KnowsRing(g, p, k) /\ KnowsVertex(h, p, k, v) => KnowsVertex(g, p, k, v)
              \/ (op.action = "insert_vertex" /\ p = op.part /\ k = op.ring /\ v = InsertedVertexID(op))
<1>1. ASSUME NEW p, KnowsPart(h, p), ~ (op.action = "add_part" /\ p = AddedPartID(op))
      PROVE  KnowsPart(g, p)
  <2>1. PartFrom(A \cup {op}, p, h.part[p].key)
    BY <1>1, PartComesFrom DEF KnowsPart
  <2>2. PartFrom(A, p, h.part[p].key)
    BY <1>1, <2>1 DEF PartFrom
  <2>3. QED
    BY <2>2, PartIsThere
<1>2. ASSUME NEW p, NEW k, KnowsPart(g, p), KnowsRing(h, p, k),
             ~ (op.action = "add_ring" /\ p = op.part /\ k = AddedRingID(op))
      PROVE  KnowsRing(g, p, k)
  <2>1. RingFrom(A \cup {op}, p, k, h.part[p].key, h.part[p].ring[k].key)
    BY <1>2, RingComesFrom
  <2>2. RingFrom(A, p, k, h.part[p].key, h.part[p].ring[k].key)
    BY <1>2, <2>1 DEF RingFrom
  <2>3. g.part[p].key = h.part[p].key
    BY <1>2, SameKeys DEF KnowsRing
  <2>4. QED
    BY <1>2, <2>2, <2>3, RingIsThere
<1>3. ASSUME NEW p, NEW k, NEW v, KnowsRing(g, p, k), KnowsVertex(h, p, k, v),
             ~ (op.action = "insert_vertex" /\ p = op.part /\ k = op.ring
                /\ v = InsertedVertexID(op))
      PROVE  KnowsVertex(g, p, k, v)
  <2> DEFINE y == h.part[p].ring[k].seq.vertex[v]
             pk == h.part[p].key
             rk == h.part[p].ring[k].key
  <2>1. VertexFrom(A \cup {op}, p, k, v, pk, rk, y.key, y.parent)
    BY <1>3, VertexComesFrom
  <2>2. g.part[p].key = pk /\ g.part[p].ring[k].key = rk
    BY <1>3, SameKeys DEF KnowsVertex, KnowsRing
  <2> HIDE DEF y, pk, rk
  <2>3. VertexFrom(A, p, k, v, pk, rk, y.key, y.parent)
    BY <1>3, <2>1 DEF VertexFrom, At
  <2>4. QED
    BY <1>3, <2>2, <2>3, VertexIsThere
<1>4. QED
  BY <1>1, <1>2, <1>3

-----------------------------------------------------------------------------
(***************************************************************************)
(* The queues of operations that wait.                                     *)
(***************************************************************************)
Whole(g) == g = [parts |-> g.parts, part |-> g.part, pending |-> g.pending]

InQueue(g, dep, o) ==
  dep \in DOMAIN g.pending /\ \E i \in 1 .. Len(g.pending[dep]) : o = g.pending[dep][i]

(* Everything that waits is in L, and waits in one place.                  *)
Queues(g, L) ==
  /\ Whole(g) /\ IsFunction(g.pending)
  /\ \A dep \in DOMAIN g.pending : g.pending[dep] \in Seq(L)
  /\ \A a, b \in DOMAIN g.pending :
       \A i \in 1 .. Len(g.pending[a]), j \in 1 .. Len(g.pending[b]) :
         g.pending[a][i] = g.pending[b][j] => a = b /\ i = j

LEMMA WaitingIs ==
  ASSUME NEW L, NEW g, Queues(g, L)
  PROVE  /\ \A dep : Waiting(g, dep) \in Seq(L)
         /\ \A dep, o : o \in ToSet(Waiting(g, dep)) <=> InQueue(g, dep, o)
         /\ \A o : o \in WaitingOps(g) <=> \E dep : InQueue(g, dep, o)
         /\ WaitingOps(g) \subseteq L
<1>1. ASSUME NEW dep
      PROVE  /\ Waiting(g, dep) \in Seq(L)
             /\ \A o : o \in ToSet(Waiting(g, dep)) <=> InQueue(g, dep, o)
  <2>1. CASE dep \in DOMAIN g.pending
    <3>1. Waiting(g, dep) = g.pending[dep] /\ g.pending[dep] \in Seq(L)
      BY <2>1 DEF Waiting, Queues
    <3>2. ToSet(g.pending[dep]) = { g.pending[dep][i] : i \in 1 .. Len(g.pending[dep]) }
      BY <3>1, ElementsOf
    <3>3. QED
      BY <2>1, <3>1, <3>2 DEF InQueue
  <2>2. CASE dep \notin DOMAIN g.pending
    <3>1. Waiting(g, dep) = << >>
      BY <2>2 DEF Waiting
    <3>2. << >> \in Seq(L) /\ ToSet(<< >>) = {}
      BY DEF ToSet
    <3>3. QED
      BY <2>2, <3>1, <3>2 DEF InQueue
  <2>3. QED
    BY <2>1, <2>2
<1>2. ASSUME NEW o
      PROVE  o \in WaitingOps(g) <=> \E dep : InQueue(g, dep, o)
  <2>1. \A dep \in DOMAIN g.pending : Waiting(g, dep) = g.pending[dep]
    BY DEF Waiting
  <2>2. QED
    BY <1>1, <2>1 DEF WaitingOps, InQueue
<1>3. WaitingOps(g) \subseteq L
  <2> SUFFICES ASSUME NEW o \in WaitingOps(g) PROVE o \in L
    OBVIOUS
  <2>1. PICK dep : InQueue(g, dep, o)
    BY <1>2
  <2>2. g.pending[dep] \in Seq(L)
    BY <2>1 DEF InQueue, Queues
  <2>3. QED
    BY <2>1, <2>2, ElementsOf DEF InQueue
<1>4. QED
  BY <1>1, <1>2, <1>3

LEMMA QueueIsOnce ==
  ASSUME NEW L, NEW g, Queues(g, L), NEW dep, NEW q, q = Waiting(g, dep)
  PROVE  /\ q \in Seq(L)
         /\ \A i, j \in 1 .. Len(q) : q[i] = q[j] => i = j
<1>1. q \in Seq(L)
  BY WaitingIs
<1>2. CASE dep \in DOMAIN g.pending
  BY <1>1, <1>2 DEF Waiting, Queues
<1>3. CASE dep \notin DOMAIN g.pending
  <2>1. q = << >> /\ Len(q) = 0
    BY <1>3 DEF Waiting
  <2>2. QED
    BY <1>1, <2>1
<1>4. QED
  BY <1>2, <1>3

LEMMA DequeuedIs ==
  ASSUME NEW L, NEW g, Queues(g, L), NEW dep, NEW h, h = Dequeue(g, dep)
  PROVE  /\ h.parts = g.parts /\ h.part = g.part /\ Queues(h, L)
         /\ \A d, o : InQueue(h, d, o) <=> InQueue(g, d, o) /\ d # dep
         /\ WaitingOps(h) = WaitingOps(g) \ ToSet(Waiting(g, dep))
<1> DEFINE P == g.pending
           Q == h.pending
<1>1. h.parts = g.parts /\ h.part = g.part /\ Whole(h) /\ Q = Restrict(P, DOMAIN P \ {dep})
  BY DEF Dequeue, Queues, Whole
<1>2. DOMAIN Q = DOMAIN P \ {dep} /\ \A d \in DOMAIN Q : Q[d] = P[d]
  BY <1>1 DEF Restrict
<1>3. IsFunction(Q)
  BY <1>1 DEF Restrict, IsFunction
<1> HIDE DEF P, Q
<1>4. Queues(h, L)
  <2>1. \A d \in DOMAIN Q : Q[d] \in Seq(L)
    BY <1>2 DEF Queues, P
  <2>2. \A a, b \in DOMAIN Q : \A i \in 1 .. Len(Q[a]), j \in 1 .. Len(Q[b]) :
          Q[a][i] = Q[b][j] => a = b /\ i = j
    <3>1. \A a, b \in DOMAIN P : \A i \in 1 .. Len(P[a]), j \in 1 .. Len(P[b]) :
            P[a][i] = P[b][j] => a = b /\ i = j
      BY DEF Queues, P
    <3>2. QED
      BY <1>2, <3>1
  <2>3. QED
    BY <1>1, <1>3, <2>1, <2>2 DEF Queues, Q
<1>5. ASSUME NEW d, NEW o
      PROVE  InQueue(h, d, o) <=> InQueue(g, d, o) /\ d # dep
  BY <1>2 DEF InQueue, P, Q
<1>6. \A d, e, o : InQueue(g, d, o) /\ InQueue(g, e, o) => d = e
  BY DEF InQueue, Queues
<1>7. WaitingOps(h) = WaitingOps(g) \ ToSet(Waiting(g, dep))
  <2>1. \A o : o \in WaitingOps(h) <=> o \in WaitingOps(g) \ ToSet(Waiting(g, dep))
    BY <1>4, <1>5, <1>6, WaitingIs
  <2>2. QED
    BY <2>1
<1>8. QED
  BY <1>1, <1>4, <1>5, <1>7

LEMMA EnqueuedIs ==
  ASSUME NEW L, NEW g, Queues(g, L), NEW op \in L, op \notin WaitingOps(g), NEW dep,
         NEW h, h = Enqueue(g, dep, op)
  PROVE  /\ h.parts = g.parts /\ h.part = g.part /\ Queues(h, L)
         /\ \A d, o : InQueue(h, d, o) <=> InQueue(g, d, o) \/ (d = dep /\ o = op)
         /\ WaitingOps(h) = WaitingOps(g) \cup {op}
<1> DEFINE P == g.pending
           Q == h.pending
           old == Waiting(g, dep)
           new == Append(old, op)
<1>1. h.parts = g.parts /\ h.part = g.part /\ Whole(h) /\ Q = With(P, dep, new)
  BY DEF Enqueue, Queues, Whole
<1>2. /\ DOMAIN Q = DOMAIN P \cup {dep} /\ Q[dep] = new
      /\ \A d \in DOMAIN P : d # dep => Q[d] = P[d]
  <2> HIDE DEF new
  <2>1. QED
    BY <1>1 DEF With
<1>3. IsFunction(Q)
  <2> HIDE DEF new
  <2>1. QED
    BY <1>1 DEF With, IsFunction
<1>4. old \in Seq(L)
  BY WaitingIs
<1> HIDE DEF old
<1>5. /\ new \in Seq(L) /\ Len(new) = Len(old) + 1 /\ Len(old) \in Nat
      /\ new[Len(old) + 1] = op /\ \A i \in 1 .. Len(old) : new[i] = old[i]
  BY <1>4, AppendProperties, LenProperties
<1> HIDE DEF P, Q, new
<1>6. \A d, o : InQueue(g, d, o) => o # op
  BY WaitingIs
<1>7. ASSUME NEW o
      PROVE  InQueue(g, dep, o) <=> \E i \in 1 .. Len(old) : o = old[i]
  <2>1. InQueue(g, dep, o) <=> o \in ToSet(old)
    BY WaitingIs DEF old
  <2>2. QED
    BY <1>4, <2>1, ElementsOf
<1>8. ASSUME NEW o
      PROVE  (\E i \in 1 .. Len(new) : o = new[i]) <=> InQueue(g, dep, o) \/ o = op
  <2>1. \A i : i \in 1 .. Len(new) <=> i \in 1 .. Len(old) \/ i = Len(old) + 1
    BY <1>5
  <2>2. QED
    BY <1>5, <1>7, <2>1
<1>9. ASSUME NEW d, NEW o
      PROVE  InQueue(h, d, o) <=> InQueue(g, d, o) \/ (d = dep /\ o = op)
  <2>1. CASE d = dep
    <3>1. InQueue(h, dep, o) <=> \E i \in 1 .. Len(new) : o = new[i]
      BY <1>2 DEF InQueue, Q
    <3>2. QED
      BY <1>8, <2>1, <3>1
  <2>2. CASE d # dep
    BY <1>2, <2>2 DEF InQueue, P, Q
  <2>3. QED
    BY <2>1, <2>2
<1>10. \A a, b \in DOMAIN P : \A i \in 1 .. Len(P[a]), j \in 1 .. Len(P[b]) :
         P[a][i] = P[b][j] => a = b /\ i = j
  BY DEF Queues, P
<1>11. \A i, j \in 1 .. Len(new) : new[i] = new[j] => i = j
  <2>1. \A i, j \in 1 .. Len(old) : old[i] = old[j] => i = j
    BY QueueIsOnce DEF old
  <2>2. \A i \in 1 .. Len(old) : old[i] # op
    BY <1>6, <1>7
  <2>3. \A i : i \in 1 .. Len(new) <=> i \in 1 .. Len(old) \/ i = Len(old) + 1
    BY <1>5
  <2>4. QED
    BY <1>5, <2>1, <2>2, <2>3
<1>12. ASSUME NEW a \in DOMAIN P, a # dep, NEW i \in 1 .. Len(P[a]), NEW j \in 1 .. Len(new)
       PROVE  P[a][i] # new[j]
  <2>1. InQueue(g, a, P[a][i])
    BY <1>12 DEF InQueue, P
  <2>2. \A d, e, o : InQueue(g, d, o) /\ InQueue(g, e, o) => d = e
    BY <1>10 DEF InQueue, P
  <2>3. QED
    BY <1>6, <1>8, <1>12, <2>1, <2>2
<1>13. Queues(h, L)
  <2>1. \A d \in DOMAIN Q : Q[d] \in Seq(L)
    BY <1>2, <1>5 DEF Queues, P
  <2>2. ASSUME NEW a \in DOMAIN Q, NEW b \in DOMAIN Q,
               NEW i \in 1 .. Len(Q[a]), NEW j \in 1 .. Len(Q[b]), Q[a][i] = Q[b][j]
        PROVE  a = b /\ i = j
    <3>1. CASE a = dep /\ b = dep
      BY <1>2, <1>11, <2>2, <3>1
    <3>2. CASE a = dep /\ b # dep
      <4>1. b \in DOMAIN P /\ Q[b] = P[b] /\ Q[a] = new
        BY <1>2, <3>2
      <4>2. QED
        BY <1>12, <2>2, <3>2, <4>1
    <3>3. CASE a # dep /\ b = dep
      <4>1. a \in DOMAIN P /\ Q[a] = P[a] /\ Q[b] = new
        BY <1>2, <3>3
      <4>2. QED
        BY <1>12, <2>2, <3>3, <4>1
    <3>4. CASE a # dep /\ b # dep
      BY <1>2, <1>10, <2>2, <3>4
    <3>5. QED
      BY <3>1, <3>2, <3>3, <3>4
  <2>3. QED
    BY <1>1, <1>3, <2>1, <2>2 DEF Queues, Q
<1>14. WaitingOps(h) = WaitingOps(g) \cup {op}
  <2>1. \A o : o \in WaitingOps(h) <=> o \in WaitingOps(g) \cup {op}
    BY <1>9, <1>13, WaitingIs
  <2>2. QED
    BY <2>1
<1>15. QED
  BY <1>1, <1>9, <1>13, <1>14

-----------------------------------------------------------------------------
(***************************************************************************)
(* What an operation makes available.                                      *)
(***************************************************************************)
IsList(q) == \E S : q \in Seq(S)

LEMMA ListIs ==
  ASSUME NEW q, IsList(q)
  PROVE  /\ Len(q) \in Nat /\ DOMAIN q = 1 .. Len(q)
         /\ ToSet(q) = { q[i] : i \in 1 .. Len(q) }
BY ElementsOf DEF IsList

LEMMA ListAppended ==
  ASSUME NEW q, IsList(q), NEW x
  PROVE  /\ IsList(Append(q, x)) /\ Len(Append(q, x)) = Len(q) + 1
         /\ Append(q, x)[Len(q) + 1] = x
         /\ \A i \in 1 .. Len(q) : Append(q, x)[i] = q[i]
<1>1. PICK S : q \in Seq(S)
  BY DEF IsList
<1>2. q \in Seq(S \cup {x})
  BY <1>1, SeqMonotonic
<1>3. QED
  BY <1>2, AppendProperties DEF IsList

LEMMA ListJoined ==
  ASSUME NEW p, NEW q, IsList(p), IsList(q)
  PROVE  IsList(p \o q) /\ ToSet(p \o q) = ToSet(p) \cup ToSet(q)
<1>1. PICK S : p \in Seq(S)
  BY DEF IsList
<1>2. PICK T : q \in Seq(T)
  BY DEF IsList
<1>3. p \in Seq(S \cup T) /\ q \in Seq(S \cup T)
  BY <1>1, <1>2, SeqMonotonic
<1>4. QED
  BY <1>3, Joined DEF IsList

LEMMA ListOfOne ==
  ASSUME NEW x
  PROVE  IsList(<< x >>) /\ ToSet(<< x >>) = {x} /\ Len(<< x >>) = 1 /\ << x >>[1] = x
<1>1. << x >> \in Seq({x}) /\ Len(<< x >>) = 1 /\ << x >>[1] = x
  OBVIOUS
<1>2. ToSet(<< x >>) = {x}
  <2> DEFINE q == << x >>
  <2>1. q \in Seq({x}) /\ Len(q) = 1 /\ q[1] = x
    BY <1>1
  <2> HIDE DEF q
  <2>2. ToSet(q) = { q[i] : i \in 1 .. 1 }
    BY <2>1, ElementsOf
  <2>3. QED
    BY <2>1, <2>2 DEF q
<1>3. QED
  BY <1>1, <1>2 DEF IsList

RingsTurn(c, q, n) == q \o RingDeps(c[1], c[2], c[1].part[c[2]].rings[n])

ByRing == INSTANCE Loops WITH Step <- RingsTurn, Pick <- Newest

LEMMA RingDepsAre ==
  ASSUME NEW g, NEW p, NEW k, Tree(g.part[p].ring[k].seq)
  PROVE  IsList(RingDeps(g, p, k)) /\ RingDep(p, k) \in ToSet(RingDeps(g, p, k))
<1> DEFINE s == g.part[p].ring[k].seq
           order == Walk(s)
           deps == [i \in DOMAIN order |-> VertexDep(p, k, order[i])]
<1>1. PICK R : DocOrder(s.vertex, R)
  BY OrderExists DEF Tree
<1>2. order \in Seq(DOMAIN s.vertex)
  BY <1>1, WalkIsDocumentOrder
<1>3. Len(order) \in Nat /\ DOMAIN order = 1 .. Len(order)
  BY <1>2, LenProperties
<1> HIDE DEF s, order
<1>4. IsList(deps)
  <2> DEFINE S == { VertexDep(p, k, order[i]) : i \in 1 .. Len(order) }
             n == Len(order)
  <2>1. deps = [i \in 1 .. n |-> VertexDep(p, k, order[i])]
    BY <1>3
  <2>2. \A i \in 1 .. n : VertexDep(p, k, order[i]) \in S
    OBVIOUS
  <2> HIDE DEF S
  <2>3. deps \in Seq(S)
    BY <1>3, <2>1, <2>2, IsASeq
  <2>4. QED
    BY <2>3 DEF IsList
<1>5. RingDeps(g, p, k) = << RingDep(p, k) >> \o deps
  BY DEF RingDeps, order, s
<1> HIDE DEF deps
<1>6. QED
  BY <1>4, <1>5, ListOfOne, ListJoined

LEMMA PartDepsAre ==
  ASSUME NEW g, NEW p, IsList(g.part[p].rings),
         \A k \in ToSet(g.part[p].rings) : Tree(g.part[p].ring[k].seq)
  PROVE  IsList(PartDeps(g, p)) /\ PartDep(p) \in ToSet(PartDeps(g, p))
<1> DEFINE rings == g.part[p].rings
           all == Len(rings)
           c == << g, p >>
           base == << PartDep(p) >>
           f == ByRing!Counted(c, base, all)
<1>1. all \in Nat /\ \A n \in 1 .. all : rings[n] \in ToSet(rings)
  BY ListIs
<1>2. PartDeps(g, p) = f[all]
  BY DEF PartDeps, ByRing!Counted, RingsTurn
<1>3. f[0] = base /\ \A n \in 1 .. all : f[n] = RingsTurn(c, f[n - 1], n)
  <2> HIDE DEF all, c, base
  <2>1. QED
    BY <1>1, ByRing!CountedLoop, SiteAssumption, MaxTimestampAssumption
<1>4. \A n \in 1 .. all : f[n] = f[n - 1] \o RingDeps(g, p, rings[n])
  BY <1>3 DEF RingsTurn
<1> HIDE DEF f, all, rings, base
<1> DEFINE Good == { n \in 0 .. all : IsList(f[n]) /\ PartDep(p) \in ToSet(f[n]) }
<1>5. 0 \in Good
  <2>1. IsList(base) /\ PartDep(p) \in ToSet(base)
    BY ListOfOne DEF base
  <2> HIDE DEF f
  <2>2. QED
    BY <1>1, <1>3, <2>1
<1>6. ASSUME NEW n \in 1 .. all, n - 1 \in Good
      PROVE  n \in Good
  <2>1. IsList(RingDeps(g, p, rings[n]))
    BY <1>1, RingDepsAre DEF rings
  <2> DEFINE more == RingDeps(g, p, rings[n])
             old == f[n - 1]
  <2>2. IsList(old) /\ PartDep(p) \in ToSet(old) /\ f[n] = old \o more
    BY <1>4, <1>6
  <2> HIDE DEF old, more
  <2>3. IsList(old \o more) /\ PartDep(p) \in ToSet(old \o more)
    BY <2>1, <2>2, ListJoined DEF more
  <2>4. n \in 0 .. all
    BY <1>1
  <2> HIDE DEF f
  <2>5. QED
    BY <2>2, <2>3, <2>4
<1>7. all \in Good
  <2> HIDE DEF Good
  <2>1. QED
    BY <1>1, <1>5, <1>6, CountingUp
<1>8. QED
  BY <1>2, <1>7

(* What has been added is announced.                                       *)
Announces(g, op) ==
  /\ IsList(UnlockedDeps(g, op))
  /\ op.action = "add_part" => PartDep(AddedPartID(op)) \in ToSet(UnlockedDeps(g, op))
  /\ op.action = "add_ring" =>
       RingDep(op.part, AddedRingID(op)) \in ToSet(UnlockedDeps(g, op))
  /\ op.action = "insert_vertex" =>
       VertexDep(op.part, op.ring, InsertedVertexID(op)) \in ToSet(UnlockedDeps(g, op))

LEMMA KnownRingsAreTrees ==
  ASSUME NEW A, NEW g, Reflects(g, A), NEW p, KnowsPart(g, p)
  PROVE  /\ IsList(g.part[p].rings)
         /\ ToSet(g.part[p].rings) = DOMAIN g.part[p].ring
         /\ \A k \in DOMAIN g.part[p].ring : Tree(g.part[p].ring[k].seq)
<1>1. ReflectsPart(g.part[p], A, p)
  BY DEF Reflects, KnowsPart
<1>2. QED
  BY <1>1 DEF ReflectsPart, Listing, ReflectsRing, ReflectsSeq, IsList

LEMMA AdditionsAreAnnounced ==
  ASSUME NEW A, NEW g, Reflects(g, A), NEW op \in A, IsOp(op)
  PROVE  Announces(g, op)
<1>0. Ready(g, op)
  BY DEF Reflects
<1>1. CASE op.action = "insert_vertex"
  <2>1. UnlockedDeps(g, op) = << VertexDep(op.part, op.ring, InsertedVertexID(op)) >>
    BY <1>1 DEF UnlockedDeps
  <2>2. QED
    BY <1>1, <2>1, ListOfOne DEF Announces
<1>2. CASE op.action = "add_ring"
  <2>1. UnlockedDeps(g, op) = RingDeps(g, op.part, AddedRingID(op))
    BY <1>2 DEF UnlockedDeps
  <2>2. KnowsPart(g, op.part)
    BY <1>0, <1>2 DEF Ready, NeedsPart
  <2>3. AddedRingID(op) \in DOMAIN g.part[op.part].ring
    BY <1>2, <2>2 DEF Reflects, ReflectsPart, KnowsPart
  <2>4. Tree(g.part[op.part].ring[AddedRingID(op)].seq)
    BY <2>2, <2>3, KnownRingsAreTrees
  <2>5. QED
    BY <1>2, <2>1, <2>4, RingDepsAre DEF Announces
<1>3. CASE op.action = "add_part"
  <2>1. UnlockedDeps(g, op) = PartDeps(g, AddedPartID(op))
    BY <1>3 DEF UnlockedDeps
  <2>2. KnowsPart(g, AddedPartID(op))
    BY <1>3 DEF Reflects, KnowsPart
  <2>3. QED
    BY <1>3, <2>1, <2>2, KnownRingsAreTrees, PartDepsAre DEF Announces
<1>4. CASE op.action \notin {"insert_vertex", "add_ring", "add_part"}
  <2>1. UnlockedDeps(g, op) = << >>
    BY <1>4 DEF UnlockedDeps
  <2>2. IsList(<< >>)
    BY EmptySeqFacts DEF IsList
  <2>3. QED
    BY <1>4, <2>1, <2>2 DEF Announces
<1>5. QED
  BY <1>1, <1>2, <1>3, <1>4

(* What op made available is announced to whoever lacked it.               *)
LEMMA StillLacksOrIsTold ==
  ASSUME NEW I, NEW A, NEW g, Effects(I, A, g), NEW op, NEW h, Effects(I, A \cup {op}, h),
         IsOp(op), NEW o, NEW dep, Lacks(g, o, dep), Grows(g, h)
  PROVE  Lacks(h, o, dep) \/ dep \in ToSet(UnlockedDeps(h, op))
<1>1. Announces(h, op)
  BY AdditionsAreAnnounced DEF Effects
<1>2. SUFFICES ASSUME dep \notin ToSet(UnlockedDeps(h, op)) PROVE Lacks(h, o, dep)
  OBVIOUS
<1>3. CASE NeedsPart(o) /\ ~ KnowsPart(g, o.part) /\ dep = PartDep(o.part)
  <2>1. ~ KnowsPart(h, o.part)
    <3> SUFFICES ASSUME KnowsPart(h, o.part) PROVE FALSE
      OBVIOUS
    <3>1. op.action = "add_part" /\ o.part = AddedPartID(op)
      BY <1>3, OnlyItsOwn
    <3>2. QED
      BY <1>1, <1>2, <1>3, <3>1 DEF Announces
  <2>2. QED
    BY <1>3, <2>1 DEF Lacks
<1>4. CASE /\ NeedsRing(o) /\ KnowsPart(g, o.part) /\ ~ KnowsRing(g, o.part, o.ring)
           /\ dep = RingDep(o.part, o.ring)
  <2>1. ~ KnowsRing(h, o.part, o.ring)
    <3> SUFFICES ASSUME KnowsRing(h, o.part, o.ring) PROVE FALSE
      OBVIOUS
    <3>1. op.action = "add_ring" /\ o.part = op.part /\ o.ring = AddedRingID(op)
      BY <1>4, OnlyItsOwn
    <3>2. QED
      BY <1>1, <1>2, <1>4, <3>1 DEF Announces
  <2>2. KnowsPart(h, o.part)
    BY <1>4, StillKnown
  <2>3. QED
    BY <1>4, <2>1, <2>2 DEF Lacks
<1>5. CASE /\ NeedsVertex(o) /\ KnowsRing(g, o.part, o.ring)
           /\ ~ KnowsVertex(g, o.part, o.ring, o.vertex)
           /\ dep = VertexDep(o.part, o.ring, o.vertex)
  <2>1. ~ KnowsVertex(h, o.part, o.ring, o.vertex)
    <3> SUFFICES ASSUME KnowsVertex(h, o.part, o.ring, o.vertex) PROVE FALSE
      OBVIOUS
    <3>1. /\ op.action = "insert_vertex" /\ o.part = op.part /\ o.ring = op.ring
          /\ o.vertex = InsertedVertexID(op)
      BY <1>5, OnlyItsOwn
    <3>2. QED
      BY <1>1, <1>2, <1>5, <3>1 DEF Announces
  <2>2. KnowsRing(h, o.part, o.ring)
    BY <1>5, StillKnown
  <2>3. QED
    BY <1>5, <2>1, <2>2 DEF Lacks
<1>6. QED
  BY <1>3, <1>4, <1>5 DEF Lacks

-----------------------------------------------------------------------------
(***************************************************************************)
(* What is reported.                                                       *)
(***************************************************************************)
Now(R, told, o) == IF o \in DOMAIN told THEN told[o] ELSE R[o]

(* Of L the operations in H wait.                                          *)
Tells(R, told, L, H) ==
  /\ DOMAIN told \cup DOMAIN R = L
  /\ \A o \in L : /\ Now(R, told, o) = "buffered" <=> o \in H
                  /\ Now(R, told, o) = "quarantined" <=> o \notin H /\ ~ Admits(o)

LEMMA Retold ==
  ASSUME NEW R, NEW told, NEW L, NEW H, Tells(R, told, L, H), NEW op \in L,
         NEW x, x # "buffered", x = "quarantined" <=> ~ Admits(op)
  PROVE  Tells(R, With(told, op, x), L, H \ {op})
<1> DEFINE new == With(told, op, x)
<1>1. DOMAIN new = DOMAIN told \cup {op} /\ new[op] = x
      /\ \A o \in DOMAIN told : o # op => new[o] = told[o]
  BY DEF With
<1> HIDE DEF new
<1>2. \A o : Now(R, new, o) = IF o = op THEN x ELSE Now(R, told, o)
  BY <1>1 DEF Now
<1>3. QED
  BY <1>1, <1>2 DEF Tells, new

-----------------------------------------------------------------------------
(***************************************************************************)
(* While operations are released.                                          *)
(*                                                                         *)
(* C is what does not change: every operation there is, those that have    *)
(* been delivered, what was told of them before, the geometry before, and  *)
(* the turns there are.  T has left its queue and has not been tried; V is *)
(* still to be visited, and all that was unlocked later than in turn n.    *)
(***************************************************************************)
Context(C) ==
  /\ Exchange(C.issued) /\ C.log \subseteq C.issued
  /\ C.turns \in Nat

Withheld(d, T) == WaitingOps(d.state) \cup T

Effective(L, H) == { o \in L : Admits(o) } \ H

Unvisited(d, n) == UNION { ToSet(d.unlocked[m]) : m \in n + 1 .. Len(d.unlocked) }

Waits(g, V) == \A dep, o : InQueue(g, dep, o) => Lacks(g, o, dep) \/ dep \in V

Lists(d) ==
  IsList(d.unlocked) /\ \A m \in 1 .. Len(d.unlocked) : IsList(d.unlocked[m])

Underway(C, T, V, n, d) ==
  /\ d = [state |-> d.state, unlocked |-> d.unlocked, outcomes |-> d.outcomes]
  /\ Queues(d.state, C.log)
  /\ T \subseteq C.log /\ T \cap WaitingOps(d.state) = {}
  /\ Withheld(d, T) \subseteq WaitingOps(C.start)
  /\ Reflects(d.state, Effective(C.log, Withheld(d, T)))
  /\ \A o \in C.log \ Withheld(d, T) : Ready(d.state, o)
  /\ Grows(C.start, d.state)
  /\ Tells(C.told, d.outcomes, C.log, Withheld(d, T))
  /\ Lists(d) /\ n \in 0 .. Len(d.unlocked)
  /\ Len(d.unlocked) + Cardinality(Withheld(d, T)) <= C.turns
  /\ Waits(d.state, V \cup Unvisited(d, n))

LEMMA SamePendingSameQueues ==
  ASSUME NEW L, NEW g, Queues(g, L), NEW h, Whole(h), h.pending = g.pending
  PROVE  /\ Queues(h, L) /\ WaitingOps(h) = WaitingOps(g)
         /\ \A dep, o : InQueue(h, dep, o) <=> InQueue(g, dep, o)
BY DEF Queues, WaitingOps, InQueue

(* What does not depend on the queues.                                     *)
LEMMA SamePartsSameKnowledge ==
  ASSUME NEW g, NEW h, Whole(h), h.parts = g.parts, h.part = g.part
  PROVE  /\ \A A : Reflects(g, A) => Reflects(h, A)
         /\ \A o : Ready(g, o) <=> Ready(h, o)
         /\ \A o, dep : Lacks(g, o, dep) <=> Lacks(h, o, dep)
         /\ \A f : Grows(f, g) <=> Grows(f, h)
         /\ \A f : Grows(g, f) <=> Grows(h, f)
<1>1. /\ \A p : KnowsPart(g, p) <=> KnowsPart(h, p)
      /\ \A p, k : KnowsRing(g, p, k) <=> KnowsRing(h, p, k)
      /\ \A p, k, v : KnowsVertex(g, p, k, v) <=> KnowsVertex(h, p, k, v)
  BY DEF KnowsPart, KnowsRing, KnowsVertex
<1>2. \A o : Ready(g, o) <=> Ready(h, o)
  BY <1>1 DEF Ready
<1>3. \A o, dep : Lacks(g, o, dep) <=> Lacks(h, o, dep)
  BY <1>1 DEF Lacks
<1>4. \A f : Grows(f, g) <=> Grows(f, h)
  BY DEF Grows
<1>5. \A f : Grows(g, f) <=> Grows(h, f)
  BY DEF Grows
<1>6. ASSUME NEW A, Reflects(g, A)
      PROVE  Reflects(h, A)
  BY <1>2, <1>6 DEF Reflects, Whole
<1>7. QED
  BY <1>2, <1>3, <1>4, <1>5, <1>6

LEMMA HeldIsFinite ==
  ASSUME NEW C, Context(C), NEW H, H \subseteq C.log
  PROVE  /\ IsFiniteSet(H) /\ Cardinality(H) \in Nat
         /\ \A o \in H : Cardinality(H \ {o}) = Cardinality(H) - 1
<1>1. IsFiniteSet(H)
  BY FS_Subset DEF Context, Exchange, Orderly
<1>2. QED
  BY <1>1, FS_CardinalityType, FS_RemoveElement

LEMMA ReadyToTry ==
  ASSUME NEW C, Context(C), NEW T, NEW V, NEW n, NEW d, Underway(C, T, V, n, d), NEW op \in T
  PROVE  /\ Setting(C.issued, Effective(C.log, Withheld(d, T)), op, d.state)
         /\ op \in C.log /\ op \in Withheld(d, T) /\ op \notin WaitingOps(d.state)
<1> DEFINE A == Effective(C.log, Withheld(d, T))
<1>1. op \in C.log /\ op \in Withheld(d, T) /\ op \notin WaitingOps(d.state)
  BY DEF Underway, Withheld
<1>2. A \subseteq C.log /\ op \notin A /\ \A o \in A : Admits(o)
  BY <1>1 DEF Effective
<1>3. OneMore(C.issued, A, op)
  BY <1>1, <1>2 DEF OneMore, Context
<1>4. QED
  BY <1>1, <1>2, <1>3 DEF Setting, Underway

(* It has to wait again.                                                   *)
LEMMA RequeuedKeeps ==
  ASSUME NEW C, Context(C), NEW T, NEW V, NEW n, NEW d, Underway(C, T, V, n, d), NEW op \in T,
         NEW dep, Lacks(d.state, op, dep),
         NEW e, e = [d EXCEPT !.state = Enqueue(@, dep, op)]
  PROVE  Underway(C, T \ {op}, V, n, e)
<1> DEFINE g == d.state
           h == e.state
<1>1. op \in C.log /\ op \in Withheld(d, T) /\ op \notin WaitingOps(g)
  BY ReadyToTry
<1>2. /\ e = [state |-> e.state, unlocked |-> e.unlocked, outcomes |-> e.outcomes]
      /\ h = Enqueue(g, dep, op) /\ e.unlocked = d.unlocked /\ e.outcomes = d.outcomes
  BY DEF Underway
<1>3. Queues(g, C.log)
  BY DEF Underway
<1>4. /\ h.parts = g.parts /\ h.part = g.part /\ Queues(h, C.log)
      /\ \A x, o : InQueue(h, x, o) <=> InQueue(g, x, o) \/ (x = dep /\ o = op)
      /\ WaitingOps(h) = WaitingOps(g) \cup {op}
  <2> HIDE DEF g, h
  <2>1. QED
    BY <1>1, <1>2, <1>3, EnqueuedIs
<1>5. Withheld(e, T \ {op}) = Withheld(d, T)
  BY <1>4 DEF Withheld
<1>6. Whole(h)
  BY <1>4 DEF Queues
<1>7. /\ \A A : Reflects(g, A) => Reflects(h, A)
      /\ \A o : Ready(g, o) <=> Ready(h, o)
      /\ \A o, x : Lacks(g, o, x) <=> Lacks(h, o, x)
      /\ \A f : Grows(f, g) <=> Grows(f, h)
  <2> HIDE DEF g, h
  <2>1. QED
    BY <1>4, <1>6, SamePartsSameKnowledge
<1>8. (T \ {op}) \subseteq C.log /\ (T \ {op}) \cap WaitingOps(h) = {}
  BY <1>4 DEF Underway
<1>9. Unvisited(e, n) = Unvisited(d, n) /\ Lists(e)
  BY <1>2 DEF Unvisited, Lists, Underway
<1>10. Waits(h, V \cup Unvisited(e, n))
  BY <1>4, <1>7, <1>9 DEF Underway, Waits
<1>11. QED
  BY <1>2, <1>4, <1>5, <1>7, <1>8, <1>9, <1>10 DEF Underway

(* It is done with, and the geometry stays as it is.                       *)
LEMMA DoneWithKeeps ==
  ASSUME NEW C, Context(C), NEW T, NEW V, NEW n, NEW d, Underway(C, T, V, n, d), NEW op \in T,
         NEW x, x # "buffered", x = "quarantined" <=> ~ Admits(op), Ready(d.state, op),
         Reflects(d.state, Effective(C.log, Withheld(d, T) \ {op})),
         NEW e, e = [d EXCEPT !.outcomes = With(@, op, x)]
  PROVE  Underway(C, T \ {op}, V, n, e)
<1> DEFINE g == d.state
           H == Withheld(d, T)
<1>1. op \in C.log /\ op \in H /\ op \notin WaitingOps(g)
  BY ReadyToTry
<1>2. /\ e = [state |-> e.state, unlocked |-> e.unlocked, outcomes |-> e.outcomes]
      /\ e.state = g /\ e.unlocked = d.unlocked /\ e.outcomes = With(d.outcomes, op, x)
  BY DEF Underway
<1>3. Withheld(e, T \ {op}) = H \ {op}
  BY <1>1, <1>2 DEF Withheld
<1>4. Tells(C.told, e.outcomes, C.log, H \ {op})
  <2>1. Tells(C.told, d.outcomes, C.log, H)
    BY DEF Underway
  <2> HIDE DEF H
  <2>2. QED
    BY <1>1, <1>2, <2>1, Retold
<1>5. Cardinality(H \ {op}) <= Cardinality(H) /\ Cardinality(H) \in Nat
      /\ Cardinality(H \ {op}) \in Nat
  <2>1. H \subseteq C.log
    <3>1. WaitingOps(g) \subseteq C.log
      BY WaitingIs DEF Underway
    <3>2. QED
      BY <3>1 DEF Withheld, Underway
  <2>2. Cardinality(H \ {op}) = Cardinality(H) - 1 /\ Cardinality(H) \in Nat
    BY <1>1, <2>1, HeldIsFinite
  <2>3. Cardinality(H \ {op}) \in Nat
    BY <2>1, HeldIsFinite
  <2> HIDE DEF H
  <2>4. QED
    BY <2>2, <2>3
<1>6. Unvisited(e, n) = Unvisited(d, n) /\ Lists(e)
  BY <1>2 DEF Unvisited, Lists, Underway
<1>7. \A o \in C.log \ (H \ {op}) : Ready(g, o)
  BY DEF Underway
<1>8. Len(e.unlocked) + Cardinality(H \ {op}) <= C.turns
  <2>1. Len(d.unlocked) + Cardinality(H) <= C.turns
    BY DEF Underway
  <2>2. Len(d.unlocked) \in Nat
    BY ListIs DEF Underway, Lists
  <2> HIDE DEF H
  <2>3. QED
    BY <1>2, <1>5, <2>1, <2>2 DEF Context
<1>9. /\ (T \ {op}) \subseteq C.log /\ (T \ {op}) \cap WaitingOps(e.state) = {}
      /\ (H \ {op}) \subseteq WaitingOps(C.start)
      /\ Queues(e.state, C.log) /\ Grows(C.start, e.state)
      /\ n \in 0 .. Len(e.unlocked)
      /\ Waits(e.state, V \cup Unvisited(e, n))
  BY <1>2, <1>6 DEF Underway
<1>10. Reflects(e.state, Effective(C.log, Withheld(e, T \ {op})))
  BY <1>2, <1>3
<1>11. QED
  BY <1>2, <1>3, <1>4, <1>6, <1>7, <1>8, <1>9, <1>10 DEF Underway

(* It is applied.                                                          *)
LEMMA AppliedKeeps ==
  ASSUME NEW C, Context(C), NEW T, NEW V, NEW n, NEW d, Underway(C, T, V, n, d), NEW op \in T,
         Admits(op), NEW h, Evolves(d.state, Effective(C.log, Withheld(d, T)), op, h),
         NEW e, e = Unlocking(d, op, h)
  PROVE  Underway(C, T \ {op}, V, n, e)
<1> DEFINE g == d.state
           H == Withheld(d, T)
           A == Effective(C.log, H)
<1>1. op \in C.log /\ op \in H /\ op \notin WaitingOps(g)
  BY ReadyToTry
<1>2. /\ e = [state |-> e.state, unlocked |-> e.unlocked, outcomes |-> e.outcomes]
      /\ e.state = h /\ e.unlocked = Append(d.unlocked, UnlockedDeps(h, op))
      /\ e.outcomes = With(d.outcomes, op, "applied")
  BY DEF Unlocking
<1>3. Reflects(h, A \cup {op}) /\ Grows(g, h) /\ h.pending = g.pending /\ Whole(h)
  BY DEF Evolves, Reflects, Whole
<1>4. /\ Queues(h, C.log) /\ WaitingOps(h) = WaitingOps(g)
      /\ \A dep, o : InQueue(h, dep, o) <=> InQueue(g, dep, o)
  <2>1. Queues(g, C.log)
    BY DEF Underway
  <2> HIDE DEF g
  <2>2. QED
    BY <1>3, <2>1, SamePendingSameQueues
<1>5. Withheld(e, T \ {op}) = H \ {op}
  BY <1>1, <1>2, <1>4 DEF Withheld
<1>6. Effective(C.log, H \ {op}) = A \cup {op}
  BY <1>1 DEF Effective
<1>7. Tells(C.told, e.outcomes, C.log, H \ {op})
  <2>1. Tells(C.told, d.outcomes, C.log, H)
    BY DEF Underway
  <2> HIDE DEF H
  <2>2. QED
    BY <1>1, <1>2, <2>1, Retold
<1>8. H \subseteq C.log
  <2>1. WaitingOps(g) \subseteq C.log
    BY WaitingIs DEF Underway
  <2>2. QED
    BY <2>1 DEF Withheld, Underway
<1>9. A \cup {op} \subseteq C.issued /\ A \subseteq C.issued /\ Exchange(C.issued)
  BY <1>1 DEF Effective, Context
<1>10. IsOp(op)
  BY <1>9 DEF Exchange
<1>11. Announces(h, op)
  BY <1>3, <1>10, AdditionsAreAnnounced
<1>12. /\ IsList(e.unlocked) /\ Len(e.unlocked) = Len(d.unlocked) + 1
       /\ e.unlocked[Len(d.unlocked) + 1] = UnlockedDeps(h, op)
       /\ \A m \in 1 .. Len(d.unlocked) : e.unlocked[m] = d.unlocked[m]
  <2>1. IsList(d.unlocked)
    BY DEF Underway, Lists
  <2>2. QED
    BY <1>2, <2>1, ListAppended
<1>13. Len(d.unlocked) \in Nat /\ n \in 0 .. Len(d.unlocked)
  BY ListIs DEF Underway, Lists
<1>14. \A m : m \in 1 .. Len(e.unlocked) <=> m \in 1 .. Len(d.unlocked) \/ m = Len(d.unlocked) + 1
  BY <1>12, <1>13
<1>15. Lists(e)
  BY <1>11, <1>12, <1>14 DEF Lists, Announces, Underway
<1>16. /\ ToSet(UnlockedDeps(h, op)) \subseteq Unvisited(e, n)
       /\ Unvisited(d, n) \subseteq Unvisited(e, n)
  <2>1. Len(d.unlocked) + 1 \in n + 1 .. Len(e.unlocked)
    BY <1>12, <1>13
  <2>2. \A m \in n + 1 .. Len(d.unlocked) :
          m \in n + 1 .. Len(e.unlocked) /\ m \in 1 .. Len(d.unlocked)
    BY <1>12, <1>13
  <2>3. QED
    BY <1>12, <2>1, <2>2 DEF Unvisited
<1>17. Effects(C.issued, A, g) /\ Effects(C.issued, A \cup {op}, h)
  BY <1>3, <1>9 DEF Effects, Underway
<1>18. Waits(h, V \cup Unvisited(e, n))
  <2> SUFFICES ASSUME NEW dep, NEW o, InQueue(h, dep, o)
               PROVE  Lacks(h, o, dep) \/ dep \in V \cup Unvisited(e, n)
    BY DEF Waits
  <2>1. Lacks(g, o, dep) \/ dep \in V \cup Unvisited(d, n)
    BY <1>4 DEF Underway, Waits
  <2> HIDE DEF g, A
  <2>2. Lacks(g, o, dep) => Lacks(h, o, dep) \/ dep \in ToSet(UnlockedDeps(h, op))
    BY <1>3, <1>10, <1>17, StillLacksOrIsTold
  <2>3. QED
    BY <1>16, <2>1, <2>2
<1>19. \A o \in C.log \ (H \ {op}) : Ready(h, o)
  <2>1. \A o \in C.log \ H : Ready(h, o)
    BY <1>3, StillKnown DEF Underway
  <2>2. Ready(h, op)
    BY <1>3 DEF Reflects
  <2>3. QED
    BY <2>1, <2>2
<1>20. Grows(C.start, h)
  BY <1>3, GrowingIsOrdered DEF Underway
<1>21. Len(e.unlocked) + Cardinality(H \ {op}) <= C.turns
  <2>1. Len(d.unlocked) + Cardinality(H) <= C.turns
    BY DEF Underway
  <2>2. Cardinality(H \ {op}) = Cardinality(H) - 1 /\ Cardinality(H) \in Nat
    BY <1>1, <1>8, HeldIsFinite
  <2> HIDE DEF H
  <2>3. QED
    BY <1>12, <1>13, <2>1, <2>2 DEF Context
<1>22. /\ (T \ {op}) \subseteq C.log /\ (T \ {op}) \cap WaitingOps(h) = {}
       /\ (H \ {op}) \subseteq WaitingOps(C.start)
  BY <1>4 DEF Underway
<1>23. n \in 0 .. Len(e.unlocked)
  BY <1>12, <1>13
<1> HIDE DEF A, H
<1>24. QED
  BY <1>2, <1>3, <1>4, <1>5, <1>6, <1>7, <1>15, <1>18, <1>19, <1>20, <1>21, <1>22, <1>23
  DEF Underway

LEMMA RetryKeeps ==
  ASSUME NEW C, Context(C), NEW T, NEW V, NEW n, NEW d, Underway(C, T, V, n, d), NEW op \in T
  PROVE  Underway(C, T \ {op}, V, n, Retry(d, op))
<1> DEFINE g == d.state
           H == Withheld(d, T)
           A == Effective(C.log, H)
           r == ApplyOnce(g, op)
           e == Retry(d, op)
<1>1. /\ Setting(C.issued, A, op, g)
      /\ op \in C.log /\ op \in H
  BY ReadyToTry
<1>2. Answers(g, A, op, r)
  <2> HIDE DEF A, g
  <2>1. QED
    BY <1>1, ApplyOnceAnswers
<1>3. e = Tried(d, op, r)
  BY DEF Retry
<1> HIDE DEF r, e
<1>4. CASE ~ Ready(g, op)
  <2>1. PICK dep : Lacks(g, op, dep) /\ r = Buffered(g, dep)
    BY <1>2, <1>4 DEF Answers
  <2>2. r.outcome = "buffered" /\ r.dep = dep
    BY <2>1 DEF Buffered
  <2>3. e = [d EXCEPT !.state = Enqueue(@, dep, op)]
    BY <1>3, <2>2 DEF Tried
  <2>4. QED
    BY <2>1, <2>3, RequeuedKeeps DEF e
<1>5. CASE Ready(g, op) /\ ~ Admits(op)
  <2>1. r = Quarantined(g)
    BY <1>2, <1>5 DEF Answers
  <2>2. r.outcome = "quarantined"
    BY <2>1 DEF Quarantined
  <2>3. e = [d EXCEPT !.outcomes = With(@, op, "quarantined")]
    BY <1>3, <2>2 DEF Tried
  <2>4. Effective(C.log, H \ {op}) = A
    BY <1>1, <1>5 DEF Effective
  <2>5. Reflects(g, Effective(C.log, H \ {op}))
    BY <1>1, <2>4 DEF Setting
  <2>6. QED
    BY <1>5, <2>3, <2>5, DoneWithKeeps DEF e
<1>6. CASE Ready(g, op) /\ Admits(op)
  <2>1. /\ r.outcome \in {"applied", "duplicate", "superseded"}
        /\ Evolves(g, A, op, r.state)
        /\ r.outcome # "applied" => r.state = g
    BY <1>2, <1>6 DEF Answers, TakesEffect
  <2>2. CASE r.outcome = "applied"
    <3>1. e = Unlocking(d, op, r.state)
      BY <1>3, <2>2 DEF Tried
    <3>2. QED
      BY <1>6, <2>1, <3>1, AppliedKeeps DEF e
  <2>3. CASE r.outcome # "applied"
    <3> DEFINE x == r.outcome
    <3>1. x # "buffered" /\ (x = "quarantined" <=> ~ Admits(op))
      BY <1>6, <2>1
    <3>2. e = [d EXCEPT !.outcomes = With(@, op, x)]
      BY <1>3, <2>1, <2>3 DEF Tried
    <3>3. Effective(C.log, H \ {op}) = A \cup {op}
      BY <1>1, <1>6 DEF Effective
    <3>4. Reflects(g, Effective(C.log, H \ {op}))
      BY <2>1, <2>3, <3>3 DEF Evolves
    <3> HIDE DEF x
    <3>5. QED
      BY <1>6, <3>1, <3>2, <3>4, DoneWithKeeps DEF e
  <2>4. QED
    BY <2>2, <2>3
<1>7. QED
  BY <1>4, <1>5, <1>6 DEF e

LEMMA UnderwayWithMore ==
  ASSUME NEW C, NEW T, NEW V, NEW n, NEW d, Underway(C, T, V, n, d), NEW W, V \subseteq W
  PROVE  Underway(C, T, W, n, d)
BY DEF Underway, Waits

RetryTurn(ops, d, i) == Retry(d, ops[i])

Releasing == INSTANCE Loops WITH Step <- RetryTurn, Pick <- Newest

LEMMA DequeuedKeeps ==
  ASSUME NEW C, Context(C), NEW V, NEW n, NEW d, Underway(C, {}, V, n, d), NEW dep,
         NEW e, e = [d EXCEPT !.state = Dequeue(@, dep)]
  PROVE  Underway(C, ToSet(Waiting(d.state, dep)), V \ {dep}, n, e)
<1> DEFINE g == d.state
           h == e.state
           T == ToSet(Waiting(g, dep))
<1>1. /\ e = [state |-> e.state, unlocked |-> e.unlocked, outcomes |-> e.outcomes]
      /\ h = Dequeue(g, dep) /\ e.unlocked = d.unlocked /\ e.outcomes = d.outcomes
  BY DEF Underway
<1>2. Queues(g, C.log)
  BY DEF Underway
<1>3. /\ h.parts = g.parts /\ h.part = g.part /\ Queues(h, C.log)
      /\ \A x, o : InQueue(h, x, o) <=> InQueue(g, x, o) /\ x # dep
      /\ WaitingOps(h) = WaitingOps(g) \ T
  <2> HIDE DEF g, h
  <2>1. QED
    BY <1>1, <1>2, DequeuedIs DEF g
<1>4. /\ T \subseteq WaitingOps(g) /\ WaitingOps(g) \subseteq C.log
  BY <1>2, WaitingIs
<1> HIDE DEF T
<1>5. Withheld(e, T) = Withheld(d, {})
  BY <1>3, <1>4 DEF Withheld
<1>6. Whole(h)
  BY <1>3 DEF Queues
<1>7. /\ \A A : Reflects(g, A) => Reflects(h, A)
      /\ \A o : Ready(g, o) <=> Ready(h, o)
      /\ \A o, x : Lacks(g, o, x) <=> Lacks(h, o, x)
      /\ \A f : Grows(f, g) <=> Grows(f, h)
  <2> HIDE DEF g, h
  <2>1. QED
    BY <1>3, <1>6, SamePartsSameKnowledge
<1>8. T \subseteq C.log /\ T \cap WaitingOps(h) = {}
  BY <1>3, <1>4
<1>9. Unvisited(e, n) = Unvisited(d, n) /\ Lists(e)
  BY <1>1 DEF Unvisited, Lists, Underway
<1>10. Waits(h, (V \ {dep}) \cup Unvisited(e, n))
  BY <1>3, <1>7, <1>9 DEF Underway, Waits
<1>11. Underway(C, T, V \ {dep}, n, e)
  BY <1>1, <1>3, <1>5, <1>7, <1>8, <1>9, <1>10 DEF Underway
<1>12. QED
  BY <1>11 DEF T

LEMMA ReleaseKeeps ==
  ASSUME NEW C, Context(C), NEW V, NEW n, NEW d, Underway(C, {}, V, n, d), NEW dep
  PROVE  Underway(C, {}, V \ {dep}, n, Release(d, dep))
<1> DEFINE ops == Waiting(d.state, dep)
           all == Len(ops)
           base == [d EXCEPT !.state = Dequeue(@, dep)]
           f == Releasing!Counted(ops, base, all)
           Left(i) == { ops[j] : j \in i + 1 .. all }
           W == V \ {dep}
<1>1. ops \in Seq(C.log) /\ \A i, j \in 1 .. all : ops[i] = ops[j] => i = j
  BY QueueIsOnce DEF Underway
<1>2. all \in Nat /\ ToSet(ops) = { ops[i] : i \in 1 .. all }
  BY <1>1, ElementsOf
<1>3. Release(d, dep) = f[all]
  BY DEF Release, Releasing!Counted, RetryTurn
<1>4. f[0] = base /\ \A i \in 1 .. all : f[i] = RetryTurn(ops, f[i - 1], i)
  <2> HIDE DEF all, ops, base
  <2>1. QED
    BY <1>2, Releasing!CountedLoop, SiteAssumption, MaxTimestampAssumption
<1> HIDE DEF f
<1>5. Underway(C, Left(0), W, n, base)
  <2>1. Underway(C, ToSet(ops), W, n, base)
    BY DequeuedKeeps
  <2>2. Left(0) = ToSet(ops)
    BY <1>2
  <2>3. QED
    BY <2>1, <2>2
<1> HIDE DEF base, W
<1> DEFINE Good == { i \in 0 .. all : Underway(C, Left(i), W, n, f[i]) }
<1>6. 0 \in Good
  BY <1>2, <1>4, <1>5
<1>7. ASSUME NEW i \in 1 .. all, i - 1 \in Good
      PROVE  i \in Good
  <2>1. Underway(C, Left(i - 1), W, n, f[i - 1])
    BY <1>7
  <2>2. ops[i] \in Left(i - 1) /\ Left(i - 1) \ {ops[i]} = Left(i)
    <3>1. \A j : j \in (i - 1) + 1 .. all <=> j = i \/ j \in i + 1 .. all
      BY <1>2
    <3>2. \A j \in i + 1 .. all : j \in 1 .. all /\ j # i
      BY <1>2
    <3> HIDE DEF all
    <3>3. QED
      BY <1>1, <3>1, <3>2
  <2>3. f[i] = Retry(f[i - 1], ops[i])
    BY <1>4 DEF RetryTurn
  <2> HIDE DEF Left, ops
  <2>4. Underway(C, Left(i - 1) \ {ops[i]}, W, n, Retry(f[i - 1], ops[i]))
    BY <2>1, <2>2, RetryKeeps
  <2>5. i \in 0 .. all
    BY <1>2
  <2>6. QED
    BY <2>2, <2>3, <2>4, <2>5
<1>8. all \in Good
  <2> HIDE DEF Good, all
  <2>1. QED
    BY <1>2, <1>6, <1>7, CountingUp
<1>9. Left(all) = {}
  BY <1>2
<1>10. QED
  BY <1>3, <1>8, <1>9 DEF W

VisitTurn(deps, d, i) == Release(d, deps[i])

Visiting == INSTANCE Loops WITH Step <- VisitTurn, Pick <- Newest

LEMMA ReleaseAllKeeps ==
  ASSUME NEW C, Context(C), NEW deps, IsList(deps), NEW n, NEW d,
         Underway(C, {}, ToSet(deps), n, d)
  PROVE  Underway(C, {}, {}, n, ReleaseAll(d, deps))
<1> DEFINE all == Len(deps)
           f == Visiting!Counted(deps, d, all)
           Left(i) == { deps[j] : j \in i + 1 .. all }
<1>1. all \in Nat /\ ToSet(deps) = { deps[i] : i \in 1 .. all }
  BY ListIs
<1>2. ReleaseAll(d, deps) = f[all]
  BY DEF ReleaseAll, Visiting!Counted, VisitTurn
<1>3. f[0] = d /\ \A i \in 1 .. all : f[i] = VisitTurn(deps, f[i - 1], i)
  <2> HIDE DEF all
  <2>1. QED
    BY <1>1, Visiting!CountedLoop, SiteAssumption, MaxTimestampAssumption
<1> HIDE DEF f
<1> DEFINE Good == { i \in 0 .. all : Underway(C, {}, Left(i), n, f[i]) }
<1>4. 0 \in Good
  <2>1. Left(0) = ToSet(deps)
    BY <1>1
  <2>2. QED
    BY <1>1, <1>3, <2>1
<1>5. ASSUME NEW i \in 1 .. all, i - 1 \in Good
      PROVE  i \in Good
  <2>1. Underway(C, {}, Left(i - 1), n, f[i - 1])
    BY <1>5
  <2>2. Left(i - 1) \ {deps[i]} \subseteq Left(i)
    <3>1. \A j : j \in (i - 1) + 1 .. all => j = i \/ j \in i + 1 .. all
      BY <1>1
    <3> HIDE DEF all
    <3>2. QED
      BY <3>1
  <2>3. f[i] = Release(f[i - 1], deps[i])
    BY <1>3 DEF VisitTurn
  <2> HIDE DEF Left
  <2>4. Underway(C, {}, Left(i - 1) \ {deps[i]}, n, f[i])
    BY <2>1, <2>3, ReleaseKeeps
  <2>5. Underway(C, {}, Left(i), n, f[i])
    BY <2>2, <2>4, UnderwayWithMore
  <2>6. i \in 0 .. all
    BY <1>1
  <2>7. QED
    BY <2>5, <2>6
<1>6. all \in Good
  <2> HIDE DEF Good, all
  <2>1. QED
    BY <1>1, <1>4, <1>5, CountingUp
<1>7. Left(all) = {}
  BY <1>1
<1>8. QED
  BY <1>2, <1>6, <1>7

DrainTurn(c, d, n) == IF n \in DOMAIN d.unlocked THEN ReleaseAll(d, d.unlocked[n]) ELSE d

Draining == INSTANCE Loops WITH Step <- DrainTurn, Pick <- Newest

LEMMA TurnKeeps ==
  ASSUME NEW C, Context(C), NEW n \in Nat, NEW d, Underway(C, {}, {}, n - 1, d),
         n \in DOMAIN d.unlocked
  PROVE  Underway(C, {}, {}, n, ReleaseAll(d, d.unlocked[n]))
<1> DEFINE deps == d.unlocked[n]
<1>1. Len(d.unlocked) \in Nat /\ DOMAIN d.unlocked = 1 .. Len(d.unlocked)
  BY ListIs DEF Underway, Lists
<1>2. n \in 1 .. Len(d.unlocked) /\ IsList(deps)
  BY <1>1 DEF Underway, Lists
<1>3. Unvisited(d, n - 1) \subseteq ToSet(deps) \cup Unvisited(d, n)
  <2>1. \A m \in (n - 1) + 1 .. Len(d.unlocked) : m = n \/ m \in n + 1 .. Len(d.unlocked)
    BY <1>1
  <2>2. QED
    BY <2>1 DEF Unvisited
<1>4. Waits(d.state, ToSet(deps) \cup Unvisited(d, n))
  BY <1>3 DEF Underway, Waits
<1>5. n \in 0 .. Len(d.unlocked)
  BY <1>2
<1>6. Underway(C, {}, ToSet(deps), n, d)
  BY <1>4, <1>5 DEF Underway
<1> HIDE DEF deps
<1>7. Underway(C, {}, {}, n, ReleaseAll(d, deps))
  BY <1>2, <1>6, ReleaseAllKeeps
<1>8. QED
  BY <1>7 DEF deps

(* No turn is left over: whatever an operation unlocks is visited.         *)
LEMMA DrainKeeps ==
  ASSUME NEW C, Context(C), NEW start, Underway(C, {}, {}, 0, start),
         C.turns = Cardinality(WaitingOps(start.state)) + 1
  PROVE  Underway(C, {}, {}, Len(Drain(start).unlocked), Drain(start))
<1> DEFINE all == C.turns
           f == Draining!Counted({}, start, all)
           Good == { n \in 0 .. all : \E m \in Nat :
                       /\ m <= n /\ (m = n \/ m = Len(f[n].unlocked))
                       /\ Underway(C, {}, {}, m, f[n]) }
<1>1. all \in Nat
  BY DEF Context
<1>2. Drain(start) = f[all]
  BY DEF Drain, Draining!Counted, DrainTurn
<1>3. f[0] = start /\ \A n \in 1 .. all : f[n] = DrainTurn({}, f[n - 1], n)
  <2> HIDE DEF all
  <2>1. QED
    BY <1>1, Draining!CountedLoop, SiteAssumption, MaxTimestampAssumption
<1> HIDE DEF f
<1>4. 0 \in Good
  BY <1>1, <1>3
<1>5. ASSUME NEW n \in 1 .. all, n - 1 \in Good
      PROVE  n \in Good
  <2> DEFINE d == f[n - 1]
  <2>1. PICK m \in Nat : /\ m <= n - 1 /\ (m = n - 1 \/ m = Len(d.unlocked))
                         /\ Underway(C, {}, {}, m, d)
    BY <1>5
  <2>2. f[n] = DrainTurn({}, d, n)
    BY <1>3
  <2>3. /\ Len(d.unlocked) \in Nat /\ DOMAIN d.unlocked = 1 .. Len(d.unlocked)
        /\ m <= Len(d.unlocked)
    BY <2>1, ListIs DEF Underway, Lists
  <2> HIDE DEF d
  <2>4. n \in Nat /\ n \in 0 .. all
    BY <1>1
  <2>5. CASE n \in DOMAIN d.unlocked
    <3>1. m = n - 1
      BY <2>1, <2>3, <2>5
    <3>2. f[n] = ReleaseAll(d, d.unlocked[n])
      BY <2>2, <2>5 DEF DrainTurn
    <3>3. Underway(C, {}, {}, n, f[n])
      BY <2>1, <2>4, <2>5, <3>1, <3>2, TurnKeeps
    <3>4. QED
      BY <2>4, <3>3
  <2>6. CASE n \notin DOMAIN d.unlocked
    <3>1. f[n] = d
      BY <2>2, <2>6 DEF DrainTurn
    <3>2. m = Len(d.unlocked)
      BY <2>1, <2>3, <2>4, <2>6
    <3>3. m <= n
      BY <2>1, <2>4
    <3>4. QED
      BY <2>1, <2>4, <3>1, <3>2, <3>3
  <2>7. QED
    BY <2>5, <2>6
<1>6. all \in Good
  <2> HIDE DEF Good, all
  <2>1. QED
    BY <1>1, <1>4, <1>5, CountingUp
<1> DEFINE e == f[all]
<1>7. PICK m \in Nat : m <= all /\ (m = all \/ m = Len(e.unlocked)) /\ Underway(C, {}, {}, m, e)
  BY <1>6
<1> HIDE DEF e
<1>8. Len(e.unlocked) <= all
  <2>1. Withheld(e, {}) \subseteq C.log
    BY <1>7, WaitingIs DEF Underway, Withheld
  <2>2. Cardinality(Withheld(e, {})) \in Nat
    BY <2>1, HeldIsFinite
  <2>3. Len(e.unlocked) \in Nat /\ Len(e.unlocked) + Cardinality(Withheld(e, {})) <= all
    BY <1>7, ListIs DEF Underway, Lists
  <2>4. QED
    BY <1>1, <2>2, <2>3
<1>9. m = Len(e.unlocked)
  <2>1. m \in 0 .. Len(e.unlocked) /\ Len(e.unlocked) \in Nat
    BY <1>7, ListIs DEF Underway, Lists
  <2>2. QED
    BY <1>1, <1>7, <1>8, <2>1
<1>10. Underway(C, {}, {}, Len(e.unlocked), e)
  BY <1>7, <1>9
<1>11. QED
  BY <1>2, <1>10 DEF e

-----------------------------------------------------------------------------
(***************************************************************************)
(* Between two operations.                                                 *)
(***************************************************************************)
(* Of L exactly those wait that lack something, all others have taken      *)
(* effect or are refused, and R tells which is which.                      *)
Settled(L, R, g) ==
  /\ Queues(g, L) /\ Waits(g, {})
  /\ Reflects(g, Done(g, L))
  /\ \A o \in L \ WaitingOps(g) : Ready(g, o)
  /\ Tells(R, R, L, WaitingOps(g))

Overlay(R, told) == [o \in DOMAIN told \cup DOMAIN R |-> Now(R, told, o)]

(* What one more operation makes of a settled geometry.                    *)
Settles(L, R, g, told, h) ==
  /\ Settled(L, Overlay(R, told), h)
  /\ Grows(g, h) /\ DOMAIN told \subseteq L

LEMMA OverlayTells ==
  ASSUME NEW R, NEW told, NEW L, NEW H, Tells(R, told, L, H)
  PROVE  Tells(Overlay(R, told), Overlay(R, told), L, H)
<1> DEFINE R2 == Overlay(R, told)
<1>1. DOMAIN R2 = L /\ \A o \in L : R2[o] = Now(R, told, o)
  BY DEF Overlay, Tells
<1> HIDE DEF R2
<1>2. \A o \in L : Now(R2, R2, o) = Now(R, told, o)
  BY <1>1 DEF Now
<1>3. Tells(R2, R2, L, H)
  BY <1>1, <1>2 DEF Tells
<1>4. QED
  BY <1>3 DEF R2

LEMMA DrainedIsSettled ==
  ASSUME NEW C, Context(C), NEW d, Underway(C, {}, {}, Len(d.unlocked), d)
  PROVE  /\ Settles(C.log, C.told, C.start, d.outcomes, d.state)
         /\ WaitingOps(d.state) \subseteq WaitingOps(C.start)
<1>1. Unvisited(d, Len(d.unlocked)) = {} /\ Withheld(d, {}) = WaitingOps(d.state)
  <2>1. Len(d.unlocked) \in Nat
    BY ListIs DEF Underway, Lists
  <2>2. QED
    BY <2>1 DEF Unvisited, Withheld
<1>2. Waits(d.state, {})
  BY <1>1 DEF Underway
<1>3. Tells(C.told, d.outcomes, C.log, WaitingOps(d.state))
  BY <1>1 DEF Underway
<1>4. Done(d.state, C.log) = Effective(C.log, Withheld(d, {}))
  BY <1>1 DEF Done, Effective
<1>5. DOMAIN d.outcomes \subseteq C.log
  BY <1>3 DEF Tells
<1>6. Settled(C.log, Overlay(C.told, d.outcomes), d.state)
  BY <1>1, <1>2, <1>3, <1>4, OverlayTells DEF Settled, Underway
<1>7. QED
  BY <1>1, <1>5, <1>6 DEF Settles, Underway

-----------------------------------------------------------------------------
(***************************************************************************)
(* The whole of apply.                                                     *)
(***************************************************************************)
NewArrival(I, L, R, g, op) ==
  Exchange(I) /\ L \subseteq I /\ op \in I /\ op \notin L /\ Settled(L, R, g)

LEMMA QueuesOfMore ==
  ASSUME NEW L, NEW g, Queues(g, L), NEW M, L \subseteq M
  PROVE  Queues(g, M)
BY SeqMonotonic DEF Queues

(* How op is reported, all else being as before.                           *)
LEMMA FirstReport ==
  ASSUME NEW L, NEW R, NEW g, Settled(L, R, g), NEW op, op \notin L, NEW told,
         DOMAIN told = {op}, NEW H,
         \A o \in L : o \in H <=> o \in WaitingOps(g),
         told[op] = "buffered" <=> op \in H,
         told[op] = "quarantined" <=> op \notin H /\ ~ Admits(op)
  PROVE  Tells(R, told, L \cup {op}, H)
<1>1. DOMAIN R = L /\ Tells(R, R, L, WaitingOps(g))
  BY DEF Settled, Tells
<1>2. \A o \in L : Now(R, told, o) = Now(R, R, o)
  BY <1>1 DEF Now
<1>3. Now(R, told, op) = told[op]
  BY DEF Now
<1>4. QED
  BY <1>1, <1>2, <1>3 DEF Tells

LEMMA OpSetting ==
  ASSUME NEW I, NEW L, NEW R, NEW g, NEW op, NewArrival(I, L, R, g, op)
  PROVE  /\ Setting(I, Done(g, L), op, g) /\ Whole(g)
         /\ WaitingOps(g) \subseteq L /\ op \notin WaitingOps(g)
         /\ Queues(g, L \cup {op})
<1>1. Queues(g, L) /\ Whole(g)
  BY DEF NewArrival, Settled, Queues
<1>2. WaitingOps(g) \subseteq L
  BY <1>1, WaitingIs
<1>3. Done(g, L) \subseteq L /\ \A o \in Done(g, L) : Admits(o)
  BY DEF Done
<1>4. OneMore(I, Done(g, L), op)
  BY <1>3 DEF OneMore, NewArrival
<1>5. QED
  BY <1>1, <1>2, <1>3, <1>4, QueuesOfMore DEF Setting, NewArrival, Settled

Arrives(L, R, g, op, told, h) ==
  /\ Settles(L \cup {op}, R, g, told, h)
  /\ WaitingOps(h) \subseteq WaitingOps(g) \cup {op}

LEMMA SettledByWaiting ==
  ASSUME NEW I, NEW L, NEW R, NEW g, NEW op, NewArrival(I, L, R, g, op),
         NEW dep, Lacks(g, op, dep),
         NEW told, DOMAIN told = {op}, told[op] = "buffered",
         NEW h, h = Enqueue(g, dep, op)
  PROVE  Arrives(L, R, g, op, told, h)
<1> DEFINE M == L \cup {op}
<1>1. Queues(g, M) /\ op \notin WaitingOps(g) /\ WaitingOps(g) \subseteq L /\ op \in M
  BY OpSetting
<1> HIDE DEF M
<1>2. /\ h.parts = g.parts /\ h.part = g.part /\ Queues(h, M)
      /\ \A x, o : InQueue(h, x, o) <=> InQueue(g, x, o) \/ (x = dep /\ o = op)
      /\ WaitingOps(h) = WaitingOps(g) \cup {op}
  BY <1>1, EnqueuedIs
<1>3. Whole(h)
  BY <1>2 DEF Queues
<1>4. /\ \A A : Reflects(g, A) => Reflects(h, A)
      /\ \A o : Ready(g, o) <=> Ready(h, o)
      /\ \A o, x : Lacks(g, o, x) <=> Lacks(h, o, x)
      /\ \A f : Grows(f, g) <=> Grows(f, h)
  BY <1>2, <1>3, SamePartsSameKnowledge
<1>5. Grows(g, h)
  BY <1>4, GrowingIsOrdered
<1>6. Settled(L, R, g) /\ op \notin L
  BY DEF NewArrival
<1>7. Done(h, M) = Done(g, L)
  BY <1>1, <1>2, <1>6 DEF Done, M
<1>8. Reflects(h, Done(h, M))
  BY <1>4, <1>6, <1>7 DEF Settled
<1>9. Waits(h, {})
  BY <1>2, <1>4, <1>6 DEF Waits, Settled
<1>10. \A o \in M \ WaitingOps(h) : Ready(h, o)
  BY <1>2, <1>4, <1>6 DEF M, Settled
<1>11. Tells(R, told, M, WaitingOps(h))
  <2>1. \A o \in L : o \in WaitingOps(h) <=> o \in WaitingOps(g)
    BY <1>2, <1>6
  <2>2. QED
    BY <1>2, <1>6, <2>1, FirstReport DEF M
<1>12. Settled(M, Overlay(R, told), h)
  BY <1>2, <1>8, <1>9, <1>10, <1>11, OverlayTells DEF Settled
<1>13. QED
  BY <1>2, <1>5, <1>12 DEF Arrives, Settles, M

LEMMA SettledAsItWas ==
  ASSUME NEW I, NEW L, NEW R, NEW g, NEW op, NewArrival(I, L, R, g, op),
         Ready(g, op), Admits(op) => Reflects(g, Done(g, L) \cup {op}),
         NEW told, DOMAIN told = {op}, told[op] # "buffered",
         told[op] = "quarantined" <=> ~ Admits(op)
  PROVE  Settles(L \cup {op}, R, g, told, g)
<1> DEFINE M == L \cup {op}
<1>1. Queues(g, M) /\ op \notin WaitingOps(g) /\ WaitingOps(g) \subseteq L
  BY OpSetting
<1>2. Settled(L, R, g) /\ op \notin L
  BY DEF NewArrival
<1>3. Done(g, M) = IF Admits(op) THEN Done(g, L) \cup {op} ELSE Done(g, L)
  BY <1>1, <1>2 DEF Done
<1>4. Reflects(g, Done(g, M))
  BY <1>2, <1>3 DEF Settled
<1>5. \A o \in M \ WaitingOps(g) : Ready(g, o)
  BY <1>2 DEF Settled
<1>6. Tells(R, told, M, WaitingOps(g))
  BY <1>1, <1>2, FirstReport
<1> HIDE DEF M
<1>7. Settled(M, Overlay(R, told), g)
  BY <1>1, <1>2, <1>4, <1>5, <1>6, OverlayTells DEF Settled
<1>8. DOMAIN told \subseteq M
  BY DEF M
<1>9. QED
  BY <1>7, <1>8, GrowingIsOrdered DEF Settles, M

LEMMA SettledByDraining ==
  ASSUME NEW I, NEW L, NEW R, NEW g, NEW op, NewArrival(I, L, R, g, op), Admits(op),
         NEW h, Evolves(g, Done(g, L), op, h),
         NEW told, DOMAIN told = {op}, told[op] = "applied",
         NEW d, d = Drain([state |-> h, unlocked |-> << UnlockedDeps(h, op) >>,
                           outcomes |-> told])
  PROVE  /\ Settles(L \cup {op}, R, g, d.outcomes, d.state)
         /\ WaitingOps(d.state) \subseteq WaitingOps(g)
<1> DEFINE M == L \cup {op}
           W == WaitingOps(g)
           C == [issued |-> I, log |-> M, told |-> R, start |-> g, turns |-> Cardinality(W) + 1]
           deps == UnlockedDeps(h, op)
           start == [state |-> h, unlocked |-> << deps >>, outcomes |-> told]
<1>1. Queues(g, M) /\ op \notin W /\ W \subseteq L
  BY OpSetting
<1>2. Settled(L, R, g) /\ op \notin L /\ Exchange(I) /\ L \subseteq I /\ op \in I
  BY DEF NewArrival
<1>3. IsFiniteSet(W) /\ Cardinality(W) \in Nat
  BY <1>1, <1>2, FS_Subset, FS_CardinalityType DEF Exchange, Orderly
<1>4. Context(C)
  BY <1>2, <1>3 DEF Context
<1>5. /\ C.issued = I /\ C.log = M /\ C.told = R /\ C.start = g /\ C.turns = Cardinality(W) + 1
  OBVIOUS
<1>6. /\ start = [state |-> start.state, unlocked |-> start.unlocked, outcomes |-> start.outcomes]
      /\ start.state = h /\ start.unlocked = << deps >> /\ start.outcomes = told
  OBVIOUS
<1>7. d = Drain(start)
  OBVIOUS
<1>8. /\ Reflects(h, Done(g, L) \cup {op}) /\ Grows(g, h) /\ h.pending = g.pending /\ Whole(h)
  BY DEF Evolves, Reflects, Whole
<1>9. /\ Queues(h, M) /\ WaitingOps(h) = W
      /\ \A dep, o : InQueue(h, dep, o) <=> InQueue(g, dep, o)
  <2> HIDE DEF M
  <2>1. QED
    BY <1>1, <1>8, SamePendingSameQueues
<1>10. Announces(h, op) /\ IsOp(op)
  BY <1>2, <1>8, AdditionsAreAnnounced DEF Exchange
<1> HIDE DEF C, start, deps
<1>11. Withheld(start, {}) = W
  BY <1>6, <1>9 DEF Withheld
<1>12. Effective(M, W) = Done(g, L) \cup {op}
  BY <1>1 DEF Effective, Done
<1>13. Tells(R, told, M, W)
  <2>1. "applied" # "buffered" /\ "applied" # "quarantined"
    OBVIOUS
  <2>2. QED
    BY <1>1, <1>2, <2>1, FirstReport
<1>14. IsList(<< deps >>) /\ Len(<< deps >>) = 1 /\ << deps >>[1] = deps
  BY ListOfOne
<1>15. Lists(start)
  <2>1. IsList(deps)
    BY <1>10 DEF Announces, deps
  <2>2. \A m \in 1 .. 1 : m = 1
    OBVIOUS
  <2>3. QED
    BY <1>6, <1>14, <2>1, <2>2 DEF Lists
<1>16. Unvisited(start, 0) = ToSet(deps)
  <2> DEFINE q == << deps >>
  <2>1. Len(q) = 1 /\ q[1] = deps
    BY <1>14
  <2> HIDE DEF q
  <2>2. Unvisited(start, 0) = UNION { ToSet(q[m]) : m \in 0 + 1 .. 1 }
    BY <1>6, <2>1 DEF Unvisited, q
  <2>3. \A m : m \in 0 + 1 .. 1 <=> m = 1
    OBVIOUS
  <2>4. QED
    BY <2>1, <2>2, <2>3
<1>17. Waits(h, ToSet(deps))
  <2> SUFFICES ASSUME NEW dep, NEW o, InQueue(h, dep, o)
               PROVE  Lacks(h, o, dep) \/ dep \in ToSet(deps)
    BY DEF Waits
  <2>1. Lacks(g, o, dep)
    BY <1>2, <1>9 DEF Settled, Waits
  <2>2. Effects(I, Done(g, L), g) /\ Effects(I, Done(g, L) \cup {op}, h)
    BY <1>2, <1>8 DEF Effects, Settled, Done
  <2>3. QED
    BY <1>8, <1>10, <2>1, <2>2, StillLacksOrIsTold DEF deps
<1>18. \A o \in M \ W : Ready(h, o)
  <2>1. \A o \in L \ W : Ready(h, o)
    BY <1>2, <1>8, StillKnown DEF Settled
  <2>2. Ready(h, op)
    BY <1>8 DEF Reflects
  <2>3. QED
    BY <2>1, <2>2
<1> HIDE DEF M, W
<1>19. Underway(C, {}, {}, 0, start)
  <2>1. /\ Queues(start.state, C.log)
        /\ Withheld(start, {}) \subseteq WaitingOps(C.start)
        /\ Reflects(start.state, Effective(C.log, Withheld(start, {})))
    BY <1>5, <1>6, <1>8, <1>9, <1>11, <1>12 DEF W
  <2>2. /\ \A o \in C.log \ Withheld(start, {}) : Ready(start.state, o)
        /\ Grows(C.start, start.state)
        /\ Tells(C.told, start.outcomes, C.log, Withheld(start, {}))
    BY <1>5, <1>6, <1>8, <1>11, <1>13, <1>18
  <2>3. Len(start.unlocked) = 1
    BY <1>6, <1>14
  <2>4. /\ Len(start.unlocked) + Cardinality(Withheld(start, {})) <= C.turns
        /\ 0 \in 0 .. Len(start.unlocked)
    BY <1>3, <1>5, <1>11, <2>3
  <2>5. Waits(start.state, {} \cup Unvisited(start, 0))
    BY <1>6, <1>16, <1>17
  <2>6. QED
    BY <1>6, <1>15, <2>1, <2>2, <2>4, <2>5 DEF Underway
<1>20. C.turns = Cardinality(WaitingOps(start.state)) + 1
  BY <1>5, <1>6, <1>9
<1>21. Underway(C, {}, {}, Len(d.unlocked), d)
  BY <1>4, <1>7, <1>19, <1>20, DrainKeeps
<1>22. /\ Settles(C.log, C.told, C.start, d.outcomes, d.state)
       /\ WaitingOps(d.state) \subseteq WaitingOps(C.start)
  BY <1>4, <1>21, DrainedIsSettled
<1>23. QED
  BY <1>5, <1>22 DEF M, W

(* One operation, with all that it releases, settles.                      *)
THEOREM EngineApplySettles ==
  ASSUME NEW I, NEW L, NEW R, NEW g, NEW op, NewArrival(I, L, R, g, op),
         NEW r, r = EngineApply(g, op)
  PROVE  /\ Settles(L \cup {op}, R, g, r.outcomes, r.state)
         /\ WaitingOps(r.state) \subseteq WaitingOps(g) \cup {op}
<1> DEFINE A == Done(g, L)
           x == ApplyOnce(g, op)
           told == [o \in {op} |-> x.outcome]
<1>1. Answers(g, A, op, x)
  <2>1. Setting(I, A, op, g)
    BY OpSetting
  <2> HIDE DEF A
  <2>2. QED
    BY <2>1, ApplyOnceAnswers
<1>2. r = Completed(g, op, x)
  BY DEF EngineApply
<1>3. DOMAIN told = {op} /\ told[op] = x.outcome
  OBVIOUS
<1> HIDE DEF A, x
<1>4. CASE ~ Ready(g, op)
  <2>1. PICK dep : Lacks(g, op, dep) /\ x = Buffered(g, dep)
    BY <1>1, <1>4 DEF Answers
  <2>2. x.outcome = "buffered" /\ x.dep = dep
    BY <2>1 DEF Buffered
  <2>3. r = [state |-> Enqueue(g, x.dep, op), unlocked |-> << >>, outcomes |-> told]
    BY <1>2, <2>2 DEF Completed
  <2> HIDE DEF told
  <2>4. r.state = Enqueue(g, dep, op) /\ r.outcomes = told
    BY <2>2, <2>3
  <2>5. told[op] = "buffered"
    BY <1>3, <2>2
  <2> DEFINE h == Enqueue(g, dep, op)
  <2>6. r.state = h /\ h = Enqueue(g, dep, op) /\ Lacks(g, op, dep)
    BY <2>1, <2>4
  <2> HIDE DEF h
  <2>7. Arrives(L, R, g, op, told, h)
    BY <1>3, <2>5, <2>6, SettledByWaiting
  <2>8. QED
    BY <2>4, <2>6, <2>7 DEF Arrives
<1>5. CASE Ready(g, op) /\ x.outcome \notin {"applied", "buffered"}
  <2>1. r = [state |-> g, unlocked |-> << >>, outcomes |-> told]
    BY <1>2, <1>5 DEF Completed
  <2> HIDE DEF told
  <2>2. r.state = g /\ r.outcomes = told
    BY <2>1
  <2>3. Admits(op) => Reflects(g, A \cup {op}) /\ x.outcome # "quarantined"
    BY <1>1, <1>5 DEF Answers, TakesEffect, Evolves
  <2>4. ~ Admits(op) => x.outcome = "quarantined"
    BY <1>1, <1>5 DEF Answers, Quarantined
  <2>5. /\ told[op] # "buffered"
        /\ told[op] = "quarantined" <=> ~ Admits(op)
    BY <1>3, <1>5, <2>3, <2>4
  <2>6. Admits(op) => Reflects(g, Done(g, L) \cup {op})
    BY <2>3 DEF A
  <2>7. Settles(L \cup {op}, R, g, told, g)
    BY <1>3, <1>5, <2>5, <2>6, SettledAsItWas
  <2>8. QED
    BY <2>2, <2>7
<1>6. CASE Ready(g, op) /\ x.outcome \in {"applied", "buffered"}
  <2>1. Admits(op)
    <3> SUFFICES ASSUME ~ Admits(op) PROVE FALSE
      OBVIOUS
    <3>1. x.outcome = "quarantined"
      BY <1>1, <1>6 DEF Answers, Quarantined
    <3>2. QED
      BY <1>6, <3>1
  <2>2. TakesEffect(g, A, op, x)
    BY <1>1, <1>6, <2>1 DEF Answers
  <2>3. x.outcome = "applied" /\ Evolves(g, A, op, x.state)
    BY <1>6, <2>2 DEF TakesEffect
  <2> DEFINE h == x.state
  <2>4. r = Drain([state |-> h, unlocked |-> << UnlockedDeps(h, op) >>, outcomes |-> told])
    BY <1>2, <2>3 DEF Completed
  <2>5. Evolves(g, Done(g, L), op, h)
    BY <2>3 DEF A
  <2>6. told[op] = "applied"
    BY <1>3, <2>3
  <2> HIDE DEF told, h
  <2>7. /\ Settles(L \cup {op}, R, g, r.outcomes, r.state)
        /\ WaitingOps(r.state) \subseteq WaitingOps(g)
    BY <1>3, <2>1, <2>4, <2>5, <2>6, SettledByDraining
  <2>8. QED
    BY <2>7
<1>7. QED
  BY <1>4, <1>5, <1>6

-----------------------------------------------------------------------------
(***************************************************************************)
(* A batch.                                                                *)
(***************************************************************************)
MergeTurn(c, m, op) == MergeOne(m, op)

Merging == INSTANCE Loops WITH Step <- MergeTurn, Pick <- Newest

LEMMA OldestFirst ==
  ASSUME NEW start, NEW ops, Orderly(ops)
  PROVE  \E after :
           /\ after[{}] = start
           /\ \A op \in ops : after[Older(ops, op) \cup {op}] = MergeOne(after[Older(ops, op)], op)
           /\ InStampOrder(start, ops) = after[ops]
<1> DEFINE after == Merging!Batched({}, start, ops)
<1>1. PICK size :
        /\ \A done \in SUBSET ops : size[done] \in Nat /\ size[done] <= size[ops]
        /\ \A done \in SUBSET ops : done # {} =>
             Newest(done) \in done /\ size[done \ {Newest(done)}] < size[done]
  BY BatchesHaveSizes, Zenon
<1>2. /\ after[{}] = start
      /\ \A done \in SUBSET ops : done # {} =>
           after[done] = MergeTurn({}, after[done \ {Newest(done)}], Newest(done))
  <2>1. Merging!Sized(ops, size)
    BY <1>1 DEF Merging!Sized
  <2>2. Merging!Follows(after, {}, start, ops)
    BY <2>1, Merging!BatchLoop, SiteAssumption, MaxTimestampAssumption, Zenon
  <2>3. QED
    BY <2>2 DEF Merging!Follows
<1>3. InStampOrder(start, ops) = after[ops]
  BY DEF InStampOrder, Merging!Batched, MergeTurn
<1> HIDE DEF after
<1>4. ASSUME NEW op \in ops
      PROVE  after[Older(ops, op) \cup {op}] = MergeOne(after[Older(ops, op)], op)
  <2>1. /\ Older(ops, op) \cup {op} \in SUBSET ops
        /\ Newest(Older(ops, op) \cup {op}) = op
        /\ (Older(ops, op) \cup {op}) \ {op} = Older(ops, op)
    BY NewestOfPrefix
  <2>2. QED
    BY <1>2, <2>1 DEF MergeTurn
<1>5. QED
  BY <1>2, <1>3, <1>4

(* What has been merged: a geometry and what was reported.                 *)
THEOREM BatchSettles ==
  ASSUME NEW I, Exchange(I), NEW L, L \subseteq I, NEW m, Settled(L, m.reported, m.state),
         NEW ops, ops \subseteq I, ops \cap L = {}, NEW n, n = InStampOrder(m, ops)
  PROVE  Settled(L \cup ops, n.reported, n.state) /\ Grows(m.state, n.state)
<1>1. Orderly(ops) /\ \A o \in ops : Stamped(o)
  BY FS_Subset DEF Exchange, Orderly, OneEach
<1>2. PICK after :
        /\ after[{}] = m
        /\ \A op \in ops : after[Older(ops, op) \cup {op}] = MergeOne(after[Older(ops, op)], op)
        /\ InStampOrder(m, ops) = after[ops]
  BY <1>1, OldestFirst
<1> DEFINE Fine(done) == /\ Settled(L \cup done, after[done].reported, after[done].state)
                         /\ Grows(m.state, after[done].state)
           Good == { done \in SUBSET ops : Fine(done) }
<1>3. {} \in Good
  <2>1. L \cup {} = L
    OBVIOUS
  <2>2. QED
    BY <1>2, <2>1, GrowingIsOrdered
<1>4. ASSUME NEW op \in ops, Older(ops, op) \in Good
      PROVE  Older(ops, op) \cup {op} \in Good
  <2> DEFINE done == Older(ops, op)
             K == L \cup done
             s == after[done]
             e == EngineApply(s.state, op)
             t == after[done \cup {op}]
  <2>1. Settled(K, s.reported, s.state) /\ Grows(m.state, s.state) /\ done \subseteq ops
    BY <1>4
  <2>2. op \notin K /\ K \subseteq I /\ op \in I
    BY <1>1, <2>1, StampsAreOrdered DEF Older
  <2>3. t = MergeOne(s, op)
    BY <1>2
  <2> HIDE DEF s, t, K
  <2>4. t = [state |-> e.state, reported |-> Overlay(s.reported, e.outcomes)]
    BY <2>3 DEF MergeOne, Merged, Overlay, Now
  <2>5. NewArrival(I, K, s.reported, s.state, op)
    BY <2>1, <2>2 DEF NewArrival
  <2> DEFINE R == s.reported
             g == s.state
  <2>6. Settles(K \cup {op}, s.reported, s.state, e.outcomes, e.state)
    <3>1. NewArrival(I, K, R, g, op) /\ e = EngineApply(g, op)
      BY <2>5
    <3> HIDE DEF R, g, e
    <3>2. Settles(K \cup {op}, R, g, e.outcomes, e.state)
      BY <3>1, EngineApplySettles
    <3>3. QED
      BY <3>2 DEF R, g
  <2> HIDE DEF e
  <2>7. t.state = e.state /\ t.reported = Overlay(s.reported, e.outcomes)
    BY <2>4
  <2>8. Settled(K \cup {op}, t.reported, t.state) /\ Grows(m.state, t.state)
    BY <2>1, <2>6, <2>7, GrowingIsOrdered DEF Settles
  <2>9. K \cup {op} = L \cup (done \cup {op})
    BY DEF K
  <2>10. done \cup {op} \in SUBSET ops
    BY <2>1
  <2> HIDE DEF done
  <2>11. QED
    BY <2>8, <2>9, <2>10 DEF t, done
<1>5. ops \in Good
  <2> HIDE DEF Good
  <2>1. QED
    BY <1>1, <1>3, <1>4, StampInduction
<1>6. QED
  BY <1>2, <1>5
===============================================================================
