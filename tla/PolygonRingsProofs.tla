--------------------------- MODULE PolygonRingsProofs ---------------------------
(***************************************************************************)
(* What a polygon's export keeps of a ring, for rings of any length, and   *)
(* what the repairs of its views come to.                                  *)
(***************************************************************************)
EXTENDS PolygonRings, FiniteSetTheorems, TLAPS

(* Export appends a position and parsing takes that one off again.         *)
LEMMA OpenAfterExport ==
  ASSUME NEW S, NEW r \in Seq(S)
  PROVE  OpenRing(ExportRing(r)) = r
<1>1. CASE r = << >>
  BY <1>1 DEF OpenRing, ExportRing
<1>2. CASE r # << >>
  <2> DEFINE closed == Append(r, Head(r))
  <2>1. ExportRing(r) = closed
    BY <1>2 DEF ExportRing
  <2>2. Len(r) \in Nat /\ Len(r) >= 1
    BY <1>2
  <2>3. /\ closed \in Seq(S) /\ Len(closed) = Len(r) + 1
        /\ closed[Len(closed)] = Head(r) /\ closed[1] = r[1]
    BY <1>2, <2>2
  <2>4. Head(closed) = Last(closed)
    BY <2>2, <2>3 DEF Last
  <2>5. Front(closed) = r
    <3>1. Front(closed) = SubSeq(closed, 1, Len(r))
      BY <2>2, <2>3 DEF Front
    <3>2. \A i \in 1 .. Len(r) : closed[i] = r[i]
      BY <2>2
    <3>3. QED
      BY <3>1, <3>2, <2>2, <2>3
  <2>6. QED
    BY <2>1, <2>2, <2>3, <2>4, <2>5 DEF OpenRing
<1>3. QED
  BY <1>1, <1>2

RingOfPositions == ring \in Seq(Position)

LEMMA RingIsSequence == Spec => []RingOfPositions
<1>1. Init => RingOfPositions
  BY DEF Init, RingOfPositions
<1>2. RingOfPositions /\ [Next]_ring => RingOfPositions'
  BY DEF Next, Grow, RingOfPositions
<1>3. QED
  BY <1>1, <1>2, PTL DEF Spec

(* A base rebuilt from an export is the visible ring or is refused, however *)
(* long the ring and whichever vertices coincide (parsePolygonJSON,         *)
(* marshalPolygon).                                                         *)
THEOREM ExportsParseBack == Spec => []BaseIsWhatWasVisible
<1>1. RingOfPositions => BaseIsWhatWasVisible
  BY OpenAfterExport DEF RingOfPositions, BaseIsWhatWasVisible, ParseRing
<1>2. QED
  BY <1>1, RingIsSequence, PTL

-----------------------------------------------------------------------------
(***************************************************************************)
(* The loops that drop repeated positions and bad rings, step by step.     *)
(***************************************************************************)
(* The loop of removeConsecutiveDuplicates.                                *)
DedupeTurn(r, kept, i) ==
  IF kept # << >> /\ SamePositionXY(r[i], Last(kept)) THEN kept ELSE Append(kept, r[i])

Deduping == INSTANCE Loops WITH Step <- DedupeTurn, Pick <- Max, Site <- {}, MaxTimestamp <- 1

(* Elements are visited in order: the last of the first n is n.            *)
LEMMA MaxOfRange ==
  ASSUME NEW n \in Nat, n # 0
  PROVE  Max(1 .. n) = n
<1> DEFINE Top(m) == m \in 1 .. n /\ \A k \in 1 .. n : m >= k
<1>1. Top(n)
  OBVIOUS
<1>2. \A m : Top(m) => m = n
  OBVIOUS
<1>3. Max(1 .. n) = CHOOSE m : Top(m)
  BY DEF Max
<1>4. Top(CHOOSE m : Top(m))
  BY <1>1, Zenon
<1>5. QED
  BY <1>2, <1>3, <1>4

LEMMA DedupedBatch ==
  ASSUME NEW r
  PROVE  RemoveConsecutiveDuplicates(r) = Deduping!Batched(r, << >>, DOMAIN r)[DOMAIN r]
BY DEF RemoveConsecutiveDuplicates, FoldLeft, MapThenFoldSet, Deduping!Batched, DedupeTurn

LEMMA SmallestNumber ==
  ASSUME NEW S \in SUBSET Nat, S # {}
  PROVE  \E m \in S : \A n \in S : m <= n
<1>1. {} \subseteq Nat /\ 1 \in Nat \ {0}
  OBVIOUS
<1>2. QED
  BY <1>1, Deduping!LeastNumber

(* Loops by position: a batch of the first positions ends with the last.   *)
LEMMA MaxOfPositions ==
  ASSUME NEW n \in Nat, NEW S \in SUBSET (1 .. n), S # {}
  PROVE  Max(S) \in S /\ \A k \in S : Max(S) >= k
<1> DEFINE Above == {b \in Nat : \A k \in S : b >= k}
<1>1. Above # {} /\ Above \in SUBSET Nat
  <2>1. n \in Above
    OBVIOUS
  <2>2. QED
    BY <2>1
<1>2. PICK m \in Above : \A b \in Above : m <= b
  <2> HIDE DEF Above
  <2>1. QED
    BY <1>1, SmallestNumber
<1>3. m \in S
  <2>1. SUFFICES ASSUME m \notin S PROVE FALSE
    OBVIOUS
  <2>2. PICK k \in S : TRUE
    OBVIOUS
  <2>3. \A j \in S : j < m
    BY <1>2, <2>1
  <2>4. m - 1 \in Above
    BY <2>2, <2>3
  <2>5. QED
    BY <1>2, <2>4
<1>4. QED
  BY <1>2, <1>3 DEF Max

Sizes(n) == [S \in SUBSET (1 .. n) |-> Cardinality(S)]

LEMMA SizesOfPositions ==
  ASSUME NEW n \in Nat
  PROVE  /\ \A S \in SUBSET (1 .. n) : IsFiniteSet(S)
         /\ \A S \in SUBSET (1 .. n) : Sizes(n)[S] \in Nat /\ Sizes(n)[S] <= Sizes(n)[1 .. n]
         /\ \A S \in SUBSET (1 .. n) : \A x \in S : Sizes(n)[S \ {x}] = Sizes(n)[S] - 1
<1>1. IsFiniteSet(1 .. n)
  BY FS_Interval
<1>2. ASSUME NEW S \in SUBSET (1 .. n)
      PROVE  IsFiniteSet(S) /\ Cardinality(S) \in Nat /\ Cardinality(S) <= Cardinality(1 .. n)
  <2>1. IsFiniteSet(S) /\ Cardinality(S) <= Cardinality(1 .. n)
    BY <1>1, FS_Subset
  <2>2. QED
    BY <2>1, FS_CardinalityType
<1>3. ASSUME NEW S \in SUBSET (1 .. n), NEW x \in S
      PROVE  Cardinality(S \ {x}) = Cardinality(S) - 1
  BY <1>2, FS_RemoveElement
<1>4. \A S \in SUBSET (1 .. n) : Sizes(n)[S] = Cardinality(S)
  BY DEF Sizes
<1>5. 1 .. n \in SUBSET (1 .. n)
  OBVIOUS
<1>6. \A S \in SUBSET (1 .. n) : \A x \in S : S \ {x} \in SUBSET (1 .. n)
  OBVIOUS
<1>7. QED
  BY <1>2, <1>3, <1>4, <1>5, <1>6

LEMMA SmallerWithoutLast ==
  ASSUME NEW n \in Nat, NEW S \in SUBSET (1 .. n), S # {}
  PROVE  Max(S) \in S /\ Sizes(n)[S \ {Max(S)}] < Sizes(n)[S]
<1>1. PICK m \in S : Max(S) = m
  BY MaxOfPositions
<1>2. Sizes(n)[S \ {m}] = Sizes(n)[S] - 1 /\ Sizes(n)[S] \in Nat
  BY SizesOfPositions
<1>3. QED
  BY <1>1, <1>2

LEMMA LastOfPrefix ==
  ASSUME NEW n \in Nat, NEW k \in 1 .. n
  PROVE  /\ 1 .. k \in SUBSET (1 .. n) /\ 1 .. k # {}
         /\ Max(1 .. k) = k /\ (1 .. k) \ {Max(1 .. k)} = 1 .. (k - 1)
<1>1. Max(1 .. k) = k
  BY MaxOfRange
<1>2. QED
  BY <1>1

(* The duplicates dropped, position by position.                           *)
Deduped(r, k) == Deduping!Batched(r, << >>, 1 .. Len(r))[1 .. k]

LEMMA DedupedStep ==
  ASSUME NEW S, NEW r \in Seq(S)
  PROVE  /\ RemoveConsecutiveDuplicates(r) = Deduped(r, Len(r))
         /\ Deduped(r, 0) = << >>
         /\ \A k \in 1 .. Len(r) : Deduped(r, k) = DedupeTurn(r, Deduped(r, k - 1), k)
<1> DEFINE n == Len(r)
           f == Deduping!Batched(r, << >>, 1 .. n)
<1>1. n \in Nat /\ DOMAIN r = 1 .. n
  OBVIOUS
<1>2. RemoveConsecutiveDuplicates(r) = f[1 .. n]
  BY <1>1, DedupedBatch
<1>3. Deduping!Sized(1 .. n, Sizes(n))
  <2> HIDE DEF n
  <2>1. ASSUME NEW S0 \in SUBSET (1 .. n), S0 # {}
        PROVE  Max(S0) \in S0 /\ Sizes(n)[S0 \ {Max(S0)}] < Sizes(n)[S0]
    BY <1>1, <2>1, SmallerWithoutLast
  <2>2. QED
    BY <1>1, <2>1, SizesOfPositions DEF Deduping!Sized
<1>4. Deduping!Follows(f, r, << >>, 1 .. n)
  <2> HIDE DEF n
  <2>1. {} \subseteq Nat /\ 1 \in Nat \ {0}
    OBVIOUS
  <2>2. QED
    BY <1>3, <2>1, Deduping!BatchLoop
<1> HIDE DEF f
<1>5. f[{}] = << >>
  BY <1>4 DEF Deduping!Follows
<1>6. ASSUME NEW k \in 1 .. n
      PROVE  f[1 .. k] = DedupeTurn(r, f[1 .. (k - 1)], k)
  <2> HIDE DEF n
  <2>1. /\ 1 .. k \in SUBSET (1 .. n) /\ 1 .. k # {}
        /\ Max(1 .. k) = k /\ (1 .. k) \ {Max(1 .. k)} = 1 .. (k - 1)
    BY <1>1, LastOfPrefix
  <2>2. f[1 .. k] = DedupeTurn(r, f[(1 .. k) \ {Max(1 .. k)}], Max(1 .. k))
    BY <1>4, <2>1 DEF Deduping!Follows
  <2>3. QED
    BY <2>1, <2>2
<1>7. 1 .. 0 = {}
  OBVIOUS
<1>8. QED
  BY <1>2, <1>5, <1>6, <1>7 DEF Deduped, f

(* The same of the loops that append what is good.                         *)
KeepTurn(c, kept, i) == IF c[1][i] \in c[2] THEN Append(kept, c[1][i]) ELSE kept

Keeping == INSTANCE Loops WITH Step <- KeepTurn, Pick <- Max, Site <- {}, MaxTimestamp <- 1

KeptUpTo(s, good, k) == Keeping!Batched(<< s, good >>, << >>, 1 .. Len(s))[1 .. k]

LEMMA KeptBatch ==
  ASSUME NEW s, NEW good
  PROVE  Kept(s, good) = Keeping!Batched(<< s, good >>, << >>, DOMAIN s)[DOMAIN s]
<1>1. << s, good >>[1] = s /\ << s, good >>[2] = good
  OBVIOUS
<1>2. QED
  BY <1>1 DEF Kept, FoldLeft, MapThenFoldSet, Keeping!Batched, KeepTurn

LEMMA KeptStep ==
  ASSUME NEW S, NEW s \in Seq(S), NEW good
  PROVE  /\ Kept(s, good) = KeptUpTo(s, good, Len(s))
         /\ KeptUpTo(s, good, 0) = << >>
         /\ \A k \in 1 .. Len(s) :
              KeptUpTo(s, good, k) = IF s[k] \in good
                                       THEN Append(KeptUpTo(s, good, k - 1), s[k])
                                       ELSE KeptUpTo(s, good, k - 1)
<1> DEFINE n == Len(s)
           c == << s, good >>
           f == Keeping!Batched(c, << >>, 1 .. n)
<1>1. n \in Nat /\ DOMAIN s = 1 .. n
  OBVIOUS
<1>2. Kept(s, good) = f[1 .. n]
  BY <1>1, KeptBatch
<1>3. Keeping!Sized(1 .. n, Sizes(n))
  <2> HIDE DEF n
  <2>1. ASSUME NEW S0 \in SUBSET (1 .. n), S0 # {}
        PROVE  Max(S0) \in S0 /\ Sizes(n)[S0 \ {Max(S0)}] < Sizes(n)[S0]
    BY <1>1, <2>1, SmallerWithoutLast
  <2>2. QED
    BY <1>1, <2>1, SizesOfPositions DEF Keeping!Sized
<1>4. Keeping!Follows(f, c, << >>, 1 .. n)
  <2> HIDE DEF n, c
  <2>1. {} \subseteq Nat /\ 1 \in Nat \ {0}
    OBVIOUS
  <2>2. QED
    BY <1>3, <2>1, Keeping!BatchLoop
<1> HIDE DEF f
<1>5. f[{}] = << >>
  BY <1>4 DEF Keeping!Follows
<1>6. ASSUME NEW k \in 1 .. n
      PROVE  f[1 .. k] = KeepTurn(c, f[1 .. (k - 1)], k)
  <2> HIDE DEF n, c
  <2>1. /\ 1 .. k \in SUBSET (1 .. n) /\ 1 .. k # {}
        /\ Max(1 .. k) = k /\ (1 .. k) \ {Max(1 .. k)} = 1 .. (k - 1)
    BY <1>1, LastOfPrefix
  <2>2. f[1 .. k] = KeepTurn(c, f[(1 .. k) \ {Max(1 .. k)}], Max(1 .. k))
    BY <1>4, <2>1 DEF Keeping!Follows
  <2>3. QED
    BY <2>1, <2>2
<1>7. 1 .. 0 = {}
  OBVIOUS
<1>8. c[1] = s /\ c[2] = good
  OBVIOUS
<1>9. QED
  BY <1>2, <1>5, <1>6, <1>7, <1>8 DEF KeptUpTo, KeepTurn, f

-----------------------------------------------------------------------------
(***************************************************************************)
(* The signed area is a walk along the ring and the edge that closes it,   *)
(* and what adding a position or reversing the ring does to it.            *)
(***************************************************************************)
(* Positions, and the area under an edge, twice.                           *)
Points == Int \X Int \X Int

Cross(a, b) == a[1] * b[2] - b[1] * a[2]

LEMMA CrossFacts ==
  ASSUME NEW a \in Points, NEW b \in Points
  PROVE  /\ Cross(a, b) \in Int
         /\ Cross(b, a) = - Cross(a, b)
         /\ SamePositionXY(a, b) => /\ Cross(a, b) = 0
                                    /\ \A c : Cross(a, c) = Cross(b, c) /\ Cross(c, a) = Cross(c, b)
<1>1. a[1] \in Int /\ a[2] \in Int /\ b[1] \in Int /\ b[2] \in Int
  BY DEF Points
<1>2. /\ a[1] * b[2] \in Int /\ b[1] * a[2] \in Int
      /\ a[1] * b[2] = b[2] * a[1] /\ b[1] * a[2] = a[2] * b[1]
  BY <1>1
<1>3. ASSUME SamePositionXY(a, b)
      PROVE  a[1] * b[2] = b[1] * a[2]
  <2>1. a[1] = b[1] /\ a[2] = b[2]
    BY <1>3 DEF SamePositionXY
  <2>2. QED
    BY <2>1
<1>4. Cross(a, b) \in Int
  BY <1>2 DEF Cross
<1>5. Cross(b, a) = - Cross(a, b)
  BY <1>2 DEF Cross
<1>6. SamePositionXY(a, b) => Cross(a, b) = 0
  BY <1>2, <1>3 DEF Cross
<1>7. ASSUME SamePositionXY(a, b), NEW c
      PROVE  Cross(a, c) = Cross(b, c) /\ Cross(c, a) = Cross(c, b)
  <2>1. a[1] = b[1] /\ a[2] = b[2]
    BY <1>7 DEF SamePositionXY
  <2>2. QED
    BY <2>1 DEF Cross
<1>8. QED
  BY <1>4, <1>5, <1>6, <1>7

(* Along a ring, edge by edge.                                             *)
WalkEdge(r, before, i) == before + Cross(r[i], r[i + 1])

Edges == INSTANCE Loops WITH Step <- WalkEdge, Pick <- Max, Site <- {}, MaxTimestamp <- 1

Walked(r, k) == Edges!Counted(r, 0, Len(r))[k]

LEMMA WalkedStep ==
  ASSUME NEW r \in Seq(Points)
  PROVE  /\ Walked(r, 0) = 0
         /\ \A k \in 1 .. Len(r) : Walked(r, k) = Walked(r, k - 1) + Cross(r[k], r[k + 1])
         /\ \A k \in 0 .. (Len(r) - 1) : Walked(r, k) \in Int
<1> DEFINE n == Len(r)
           f == Edges!Counted(r, 0, n)
<1>1. n \in Nat
  OBVIOUS
<1>2. {} \subseteq Nat /\ 1 \in Nat \ {0}
  OBVIOUS
<1>3. f[0] = 0 /\ \A i \in 1 .. n : f[i] = WalkEdge(r, f[i - 1], i)
  <2> HIDE DEF n
  <2>1. QED
    BY <1>1, <1>2, Edges!CountedLoop
<1> DEFINE Bad == {k \in Nat : k \in 0 .. (n - 1) /\ f[k] \notin Int}
<1> HIDE DEF f
<1>4. Bad = {}
  <2>1. SUFFICES ASSUME Bad # {} PROVE FALSE
    OBVIOUS
  <2>2. PICK k \in Bad : \A j \in Bad : k <= j
    <3>1. Bad \in SUBSET Nat
      OBVIOUS
    <3> HIDE DEF Bad
    <3>2. QED
      BY <2>1, <3>1, SmallestNumber
  <2>3. k # 0
    BY <1>3, <2>2
  <2>4. k - 1 \in 0 .. (n - 1) /\ k \in 1 .. (n - 1) /\ k + 1 \in 1 .. n
    BY <1>1, <2>2, <2>3
  <2>5. f[k - 1] \in Int
    BY <1>1, <2>2, <2>4
  <2>6. r[k] \in Points /\ r[k + 1] \in Points
    BY <2>4
  <2>7. Cross(r[k], r[k + 1]) \in Int
    BY <2>6, CrossFacts
  <2>8. f[k] = f[k - 1] + Cross(r[k], r[k + 1])
    BY <1>3, <2>4 DEF WalkEdge
  <2>9. QED
    BY <2>2, <2>5, <2>7, <2>8
<1>5. \A k \in 0 .. (n - 1) : f[k] \in Int
  BY <1>1, <1>4
<1>6. QED
  BY <1>3, <1>5 DEF Walked, WalkEdge, f

(* What twice the area sums, edge by edge.                                 *)
Edge(r, i) == r[i][1] * r[(i % Len(r)) + 1][2] - r[(i % Len(r)) + 1][1] * r[i][2]

AddEdge(r, sum, i) == Edge(r, i) + sum

AnyOf(S) == CHOOSE x \in S : TRUE

Adding == INSTANCE Loops WITH Step <- AddEdge, Pick <- AnyOf, Site <- {}, MaxTimestamp <- 1

LEMMA AreaBatch ==
  ASSUME NEW r, ~ (Len(r) < 3)
  PROVE  SignedArea(r) = Adding!Batched(r, 0, DOMAIN r)[DOMAIN r]
BY DEF SignedArea, MapThenSumSet, MapThenFoldSet, Adding!Batched, AddEdge, Edge, AnyOf

LEMMA EdgeIsCross ==
  ASSUME NEW r \in Seq(Points), NEW i \in 1 .. Len(r)
  PROVE  /\ Edge(r, i) \in Int
         /\ i < Len(r) => Edge(r, i) = Cross(r[i], r[i + 1])
         /\ i = Len(r) => Edge(r, i) = Cross(r[i], r[1])
<1>1. i < Len(r) => i % Len(r) = i
  OBVIOUS
<1>2. i = Len(r) => i % Len(r) = 0
  OBVIOUS
<1>3. i < Len(r) => Edge(r, i) = Cross(r[i], r[i + 1])
  BY <1>1 DEF Edge, Cross
<1>4. i = Len(r) => Edge(r, i) = Cross(r[i], r[1])
  BY <1>2 DEF Edge, Cross
<1>5. r[i] \in Points /\ r[1] \in Points /\ (i < Len(r) => r[i + 1] \in Points)
  OBVIOUS
<1>6. Edge(r, i) \in Int
  <2>1. CASE i < Len(r)
    BY <1>3, <1>5, <2>1, CrossFacts
  <2>2. CASE i = Len(r)
    BY <1>4, <1>5, <2>2, CrossFacts
  <2>3. QED
    BY <2>1, <2>2
<1>7. QED
  BY <1>3, <1>4, <1>6

(* The order of a sum does not matter.                                     *)
SumOf(r, S) == Adding!Batched(r, 0, 1 .. Len(r))[S]

LEMMA SumStep ==
  ASSUME NEW r \in Seq(Points)
  PROVE  /\ SumOf(r, {}) = 0
         /\ \A S \in SUBSET (1 .. Len(r)) : S # {} =>
              AnyOf(S) \in S /\ SumOf(r, S) = Edge(r, AnyOf(S)) + SumOf(r, S \ {AnyOf(S)})
<1> DEFINE n == Len(r)
           f == Adding!Batched(r, 0, 1 .. n)
<1>1. n \in Nat
  OBVIOUS
<1>2. \A S : S # {} => AnyOf(S) \in S
  BY DEF AnyOf
<1>3. Adding!Sized(1 .. n, Sizes(n))
  <2> HIDE DEF n
  <2>1. ASSUME NEW S \in SUBSET (1 .. n), S # {}
        PROVE  AnyOf(S) \in S /\ Sizes(n)[S \ {AnyOf(S)}] < Sizes(n)[S]
    <3>1. PICK m \in S : AnyOf(S) = m
      BY <1>2, <2>1
    <3>2. Sizes(n)[S \ {m}] = Sizes(n)[S] - 1 /\ Sizes(n)[S] \in Nat
      BY <1>1, SizesOfPositions
    <3>3. QED
      BY <3>1, <3>2
  <2>2. QED
    BY <1>1, <2>1, SizesOfPositions DEF Adding!Sized
<1>4. Adding!Follows(f, r, 0, 1 .. n)
  <2> HIDE DEF n
  <2>1. {} \subseteq Nat /\ 1 \in Nat \ {0}
    OBVIOUS
  <2>2. QED
    BY <1>3, <2>1, Adding!BatchLoop
<1>5. QED
  BY <1>2, <1>4 DEF Adding!Follows, SumOf, AddEdge

LEMMA SumAnyOrder ==
  ASSUME NEW r \in Seq(Points), NEW S \in SUBSET (1 .. Len(r))
  PROVE  SumOf(r, S) \in Int /\ \A x \in S : SumOf(r, S) = Edge(r, x) + SumOf(r, S \ {x})
<1> DEFINE n == Len(r)
           Right(T) == /\ SumOf(r, T) \in Int
                       /\ \A x \in T : /\ SumOf(r, T \ {x}) \in Int
                                       /\ SumOf(r, T) = Edge(r, x) + SumOf(r, T \ {x})
           Bad == {k \in Nat : \E T \in SUBSET (1 .. n) : Sizes(n)[T] = k /\ ~ Right(T)}
<1>1. n \in Nat
  OBVIOUS
<1>2. Bad = {}
  <2>1. SUFFICES ASSUME Bad # {} PROVE FALSE
    OBVIOUS
  <2>2. PICK k \in Bad : \A j \in Bad : k <= j
    <3>1. Bad \in SUBSET Nat
      OBVIOUS
    <3> HIDE DEF Bad
    <3>2. QED
      BY <2>1, <3>1, SmallestNumber
  <2>3. PICK T \in SUBSET (1 .. n) : Sizes(n)[T] = k /\ ~ Right(T)
    BY <2>2
  <2> HIDE DEF Right
  <2>4. ASSUME NEW x \in T
        PROVE  T \ {x} \in SUBSET (1 .. n) /\ Right(T \ {x})
    <3>1. T \ {x} \in SUBSET (1 .. n) /\ Sizes(n)[T \ {x}] = k - 1 /\ k \in Nat
      BY <1>1, <2>2, <2>3, SizesOfPositions
    <3>2. Sizes(n)[T \ {x}] \in Nat
      BY <1>1, <3>1, SizesOfPositions
    <3>3. k - 1 \notin Bad
      <4> HIDE DEF Bad
      <4>1. QED
        BY <2>2, <3>1, <3>2
    <3>4. QED
      BY <3>1, <3>2, <3>3
  <2>5. T # {}
    <3>1. SumOf(r, {}) = 0
      BY SumStep
    <3>2. Right({})
      BY <3>1 DEF Right
    <3>3. QED
      BY <2>3, <3>2
  <2>6. PICK y \in T : AnyOf(T) = y
    BY <2>5, SumStep
  <2>7. SumOf(r, T) = Edge(r, y) + SumOf(r, T \ {y})
    BY <2>5, <2>6, SumStep
  <2>8. SumOf(r, T \ {y}) \in Int
    BY <2>4 DEF Right
  <2>9. \A x \in T : Edge(r, x) \in Int
    BY EdgeIsCross
  <2>10. ASSUME NEW x \in T, x # y
         PROVE  SumOf(r, T) = Edge(r, x) + SumOf(r, T \ {x})
    <3> DEFINE rest == T \ {x, y}
    <3>1. (T \ {y}) \ {x} = rest /\ (T \ {x}) \ {y} = rest
      OBVIOUS
    <3>2. x \in T \ {y} /\ y \in T \ {x}
      BY <2>10
    <3>3. SumOf(r, T \ {y}) = Edge(r, x) + SumOf(r, rest)
      BY <2>4, <3>1, <3>2 DEF Right
    <3>4. SumOf(r, T \ {x}) = Edge(r, y) + SumOf(r, rest)
      BY <2>4, <3>1, <3>2 DEF Right
    <3>5. SumOf(r, rest) \in Int
      BY <2>4, <3>1, <3>2 DEF Right
    <3> HIDE DEF rest
    <3>6. QED
      BY <2>7, <2>9, <3>3, <3>4, <3>5
  <2>11. Right(T)
    <3>1. SumOf(r, T) \in Int
      BY <2>7, <2>8, <2>9
    <3>2. \A x \in T : SumOf(r, T) = Edge(r, x) + SumOf(r, T \ {x})
      BY <2>6, <2>7, <2>10
    <3>3. \A x \in T : SumOf(r, T \ {x}) \in Int
      BY <2>4 DEF Right
    <3>4. QED
      BY <3>1, <3>2, <3>3 DEF Right
  <2>12. QED
    BY <2>3, <2>11
<1>3. Sizes(n)[S] \in Nat
  BY <1>1, SizesOfPositions
<1> HIDE DEF Right
<1>4. Right(S)
  BY <1>2, <1>3
<1>5. QED
  BY <1>4 DEF Right

LEMMA SumIsWalk ==
  ASSUME NEW r \in Seq(Points), NEW k \in 0 .. (Len(r) - 1)
  PROVE  SumOf(r, 1 .. k) = Walked(r, k)
<1> DEFINE n == Len(r)
           Bad == {j \in Nat : j \in 0 .. (n - 1) /\ SumOf(r, 1 .. j) # Walked(r, j)}
<1>1. n \in Nat
  OBVIOUS
<1>2. Bad = {}
  <2>1. SUFFICES ASSUME Bad # {} PROVE FALSE
    OBVIOUS
  <2>2. PICK j \in Bad : \A i \in Bad : j <= i
    <3>1. Bad \in SUBSET Nat
      OBVIOUS
    <3> HIDE DEF Bad
    <3>2. QED
      BY <2>1, <3>1, SmallestNumber
  <2>3. j # 0
    <3>1. 1 .. 0 = {}
      OBVIOUS
    <3>2. SumOf(r, 1 .. 0) = Walked(r, 0)
      BY <3>1, SumStep, WalkedStep
    <3>3. QED
      BY <2>2, <3>2
  <2>4. j - 1 \in 0 .. (n - 1) /\ j - 1 \in Nat /\ j \in 1 .. n /\ j < n
    BY <1>1, <2>2, <2>3
  <2>5. SumOf(r, 1 .. (j - 1)) = Walked(r, j - 1)
    BY <2>2, <2>4
  <2>6. 1 .. j \in SUBSET (1 .. n) /\ j \in 1 .. j /\ (1 .. j) \ {j} = 1 .. (j - 1)
    BY <2>4
  <2>7. SumOf(r, 1 .. j) = Edge(r, j) + SumOf(r, 1 .. (j - 1))
    BY <2>6, SumAnyOrder
  <2>8. Edge(r, j) = Cross(r[j], r[j + 1]) /\ Edge(r, j) \in Int
    BY <2>4, EdgeIsCross
  <2>9. Walked(r, j) = Walked(r, j - 1) + Cross(r[j], r[j + 1]) /\ Walked(r, j - 1) \in Int
    BY <2>4, WalkedStep
  <2>10. QED
    BY <2>2, <2>5, <2>7, <2>8, <2>9
<1>3. QED
  BY <1>1, <1>2

LEMMA NoAreaBelowThree ==
  ASSUME NEW r, Len(r) < 3
  PROVE  SignedArea(r) = 0
BY DEF SignedArea, MapThenSumSet, MapThenFoldSet

(* Twice the area is what is walked and the edge that closes it, however   *)
(* short the ring.                                                         *)
LEMMA AreaIsWalk ==
  ASSUME NEW r \in Seq(Points), r # << >>
  PROVE  /\ SignedArea(r) \in Int
         /\ SignedArea(r) = Walked(r, Len(r) - 1) + Cross(r[Len(r)], r[1])
<1> DEFINE n == Len(r)
<1>1. n \in Nat /\ n >= 1 /\ n \in 1 .. n /\ n - 1 \in 0 .. (n - 1) /\ DOMAIN r = 1 .. n
  OBVIOUS
<1>2. Walked(r, n - 1) \in Int
  BY <1>1, WalkedStep
<1>3. \A i \in 1 .. n : r[i] \in Points
  OBVIOUS
<1>4. Cross(r[n], r[1]) \in Int
  BY <1>1, <1>3, CrossFacts
<1>5. SignedArea(r) = Walked(r, n - 1) + Cross(r[n], r[1])
  <2>1. CASE n >= 3
    <3>1. SignedArea(r) = SumOf(r, 1 .. n)
      BY <1>1, <2>1, AreaBatch DEF SumOf
    <3>2. (1 .. n) \ {n} = 1 .. (n - 1) /\ 1 .. n \in SUBSET (1 .. n)
      BY <1>1
    <3>3. SumOf(r, 1 .. n) = Edge(r, n) + SumOf(r, 1 .. (n - 1))
      BY <1>1, <3>2, SumAnyOrder
    <3>4. Edge(r, n) = Cross(r[n], r[1])
      BY <1>1, EdgeIsCross
    <3>5. SumOf(r, 1 .. (n - 1)) = Walked(r, n - 1)
      BY <1>1, SumIsWalk
    <3> HIDE DEF n
    <3>6. QED
      BY <1>2, <1>4, <3>1, <3>3, <3>4, <3>5
  <2>2. CASE n = 1
    <3>1. Walked(r, n - 1) = 0
      BY <2>2, WalkedStep
    <3>2. Cross(r[n], r[1]) = 0
      BY <1>3, <2>2, CrossFacts DEF SamePositionXY
    <3>3. SignedArea(r) = 0
      <4>1. Len(r) < 3
        BY <2>2
      <4>2. QED
        BY <4>1, NoAreaBelowThree
    <3>4. QED
      BY <3>1, <3>2, <3>3
  <2>3. CASE n = 2
    <3>1. Walked(r, 0) = 0 /\ Walked(r, 1) = Walked(r, 0) + Cross(r[1], r[2])
      <4>1. 1 \in 1 .. n /\ 1 - 1 = 0 /\ 1 + 1 = 2
        BY <2>3
      <4>2. Walked(r, 1) = Walked(r, 1 - 1) + Cross(r[1], r[1 + 1])
        BY <4>1, WalkedStep
      <4>3. QED
        BY <4>1, <4>2, WalkedStep
    <3>2. Cross(r[2], r[1]) = - Cross(r[1], r[2]) /\ Cross(r[1], r[2]) \in Int
      BY <1>3, <2>3, CrossFacts
    <3>3. SignedArea(r) = 0
      <4>1. Len(r) < 3
        BY <2>3
      <4>2. QED
        BY <4>1, NoAreaBelowThree
    <3>4. n - 1 = 1 /\ r[n] = r[2]
      BY <2>3
    <3>5. Walked(r, n - 1) = Walked(r, 1)
      BY <3>4
    <3> HIDE DEF n
    <3>6. QED
      BY <3>1, <3>2, <3>3, <3>4, <3>5
  <2>4. QED
    BY <1>1, <2>1, <2>2, <2>3
<1>6. QED
  BY <1>2, <1>4, <1>5

(* Rings that agree in the plane are walked alike.                         *)
LEMMA WalkedAlike ==
  ASSUME NEW r \in Seq(Points), NEW q \in Seq(Points), NEW m \in Nat,
         m < Len(r), m < Len(q), \A i \in 1 .. (m + 1) : q[i] = r[i]
  PROVE  Walked(q, m) = Walked(r, m)
<1> DEFINE Bad == {k \in Nat : k \in 0 .. m /\ Walked(q, k) # Walked(r, k)}
<1>1. Bad = {}
  <2>1. SUFFICES ASSUME Bad # {} PROVE FALSE
    OBVIOUS
  <2>2. PICK k \in Bad : \A j \in Bad : k <= j
    <3>1. Bad \in SUBSET Nat
      OBVIOUS
    <3> HIDE DEF Bad
    <3>2. QED
      BY <2>1, <3>1, SmallestNumber
  <2>3. k # 0
    <3>1. Walked(q, 0) = Walked(r, 0)
      BY WalkedStep
    <3>2. QED
      BY <2>2, <3>1
  <2>4. k - 1 \in 0 .. m /\ k - 1 \in Nat /\ k \in 1 .. Len(r) /\ k \in 1 .. Len(q)
        /\ k \in 1 .. (m + 1) /\ k + 1 \in 1 .. (m + 1)
    BY <2>2, <2>3
  <2>5. Walked(q, k - 1) = Walked(r, k - 1)
    BY <2>2, <2>4
  <2>6. q[k] = r[k] /\ q[k + 1] = r[k + 1]
    BY <2>4
  <2>7. Walked(q, k) = Walked(q, k - 1) + Cross(q[k], q[k + 1])
    BY <2>4, WalkedStep
  <2>8. Walked(r, k) = Walked(r, k - 1) + Cross(r[k], r[k + 1])
    BY <2>4, WalkedStep
  <2>9. Walked(q, k) = Walked(r, k)
    BY <2>5, <2>6, <2>7, <2>8
  <2>10. QED
    BY <2>2, <2>9
<1>2. QED
  BY <1>1

(* A position that repeats the last one adds no area, and neither does one *)
(* that repeats the first.                                                 *)
LEMMA WalkedAppend ==
  ASSUME NEW r \in Seq(Points), r # << >>, NEW p \in Points
  PROVE  /\ Append(r, p) \in Seq(Points) /\ Append(r, p) # << >>
         /\ Len(Append(r, p)) = Len(r) + 1
         /\ \A i \in 1 .. Len(r) : Append(r, p)[i] = r[i]
         /\ Append(r, p)[Len(r) + 1] = p
         /\ Walked(Append(r, p), Len(r) - 1) = Walked(r, Len(r) - 1)
         /\ Walked(Append(r, p), Len(r)) = Walked(r, Len(r) - 1) + Cross(r[Len(r)], p)
<1> DEFINE n == Len(r)
           q == Append(r, p)
<1>1. n \in Nat /\ n >= 1
  OBVIOUS
<1>2. /\ q \in Seq(Points) /\ q # << >> /\ Len(q) = n + 1
      /\ \A i \in 1 .. n : q[i] = r[i]
      /\ q[n + 1] = p
  OBVIOUS
<1> HIDE DEF q
<1>3. Walked(q, n - 1) = Walked(r, n - 1)
  <2>1. n - 1 \in Nat /\ n - 1 < n /\ n - 1 < Len(q) /\ \A i \in 1 .. ((n - 1) + 1) : q[i] = r[i]
    BY <1>1, <1>2
  <2>2. QED
    BY <1>2, <2>1, WalkedAlike
<1>4. Walked(q, n) = Walked(q, n - 1) + Cross(q[n], q[n + 1])
  <2>1. n \in 1 .. Len(q)
    BY <1>1, <1>2
  <2>2. QED
    BY <1>2, <2>1, WalkedStep
<1>5. q[n] = r[n] /\ q[n + 1] = p
  BY <1>1, <1>2
<1>6. Walked(q, n) = Walked(r, n - 1) + Cross(r[n], p)
  BY <1>3, <1>4, <1>5
<1>7. QED
  BY <1>2, <1>3, <1>6 DEF q

LEMMA ClosingKeepsArea ==
  ASSUME NEW r \in Seq(Points), r # << >>, NEW p \in Points, SamePositionXY(p, r[1])
  PROVE  SignedArea(Append(r, p)) = SignedArea(r)
<1> DEFINE n == Len(r)
           q == Append(r, p)
<1>1. n \in Nat /\ n >= 1 /\ n \in 1 .. n /\ 1 \in 1 .. n /\ n - 1 \in 0 .. (n - 1)
  OBVIOUS
<1>2. r[1] \in Points /\ r[n] \in Points
  BY <1>1
<1>3. /\ q \in Seq(Points) /\ q # << >> /\ Len(q) = n + 1
      /\ q[1] = r[1] /\ q[n + 1] = p
      /\ Walked(q, n) = Walked(r, n - 1) + Cross(r[n], p)
  BY <1>1, WalkedAppend
<1> HIDE DEF q
<1>4. Len(q) - 1 = n
  BY <1>1, <1>3
<1>5. SignedArea(q) = Walked(q, n) + Cross(q[n + 1], q[1])
  BY <1>3, <1>4, AreaIsWalk
<1>6. SignedArea(r) = Walked(r, n - 1) + Cross(r[n], r[1])
  BY AreaIsWalk
<1>7. Cross(p, r[1]) = 0 /\ Cross(r[n], p) = Cross(r[n], r[1])
  BY <1>2, CrossFacts
<1>8. Walked(r, n - 1) \in Int /\ Cross(r[n], r[1]) \in Int
  BY <1>1, <1>2, WalkedStep, CrossFacts
<1>9. SignedArea(q) = SignedArea(r)
  BY <1>3, <1>5, <1>6, <1>7, <1>8
<1>10. QED
  BY <1>9 DEF q

(* Reversing turns the walk around.                                        *)
LEMMA ReversedRing ==
  ASSUME NEW S, NEW r \in Seq(S)
  PROVE  /\ Reverse(r) \in Seq(S) /\ Len(Reverse(r)) = Len(r)
         /\ \A i \in 1 .. Len(r) : Reverse(r)[i] = r[Len(r) + 1 - i]
<1> DEFINE n == Len(r)
<1>1. n \in Nat /\ Reverse(r) = [i \in 1 .. n |-> r[(n - i) + 1]]
  BY DEF Reverse
<1>2. \A i \in 1 .. n : (n - i) + 1 \in 1 .. n /\ (n - i) + 1 = n + 1 - i
  OBVIOUS
<1>3. \A i \in 1 .. n : r[(n - i) + 1] \in S
  BY <1>2
<1>4. Reverse(r) \in Seq(S) /\ Len(Reverse(r)) = n
  <2> HIDE DEF n
  <2>1. QED
    BY <1>1, <1>3
<1>5. \A i \in 1 .. n : Reverse(r)[i] = r[n + 1 - i]
  <2> HIDE DEF n
  <2>1. QED
    BY <1>1, <1>2
<1>6. QED
  BY <1>4, <1>5

LEMMA WalkedBack ==
  ASSUME NEW r \in Seq(Points), r # << >>, NEW k \in 0 .. (Len(r) - 1)
  PROVE  Walked(Reverse(r), k) = Walked(r, Len(r) - 1 - k) - Walked(r, Len(r) - 1)
<1> DEFINE n == Len(r)
           q == Reverse(r)
           Bad == {j \in Nat : /\ j \in 0 .. (n - 1)
                               /\ Walked(q, j) # Walked(r, n - 1 - j) - Walked(r, n - 1)}
<1>1. n \in Nat /\ n >= 1
  OBVIOUS
<1>2. q \in Seq(Points) /\ Len(q) = n /\ \A i \in 1 .. n : q[i] = r[n + 1 - i]
  BY ReversedRing
<1>3. \A j \in 0 .. (n - 1) : Walked(r, j) \in Int /\ Walked(q, j) \in Int
  <2>1. \A j \in 0 .. (n - 1) : Walked(r, j) \in Int
    BY WalkedStep
  <2> HIDE DEF q
  <2>2. \A j \in 0 .. (Len(q) - 1) : Walked(q, j) \in Int
    BY <1>2, WalkedStep
  <2>3. QED
    BY <1>2, <2>1, <2>2
<1> HIDE DEF q
<1>4. Bad = {}
  <2>1. SUFFICES ASSUME Bad # {} PROVE FALSE
    OBVIOUS
  <2>2. PICK j \in Bad : \A i \in Bad : j <= i
    <3>1. Bad \in SUBSET Nat
      OBVIOUS
    <3> HIDE DEF Bad
    <3>2. QED
      BY <2>1, <3>1, SmallestNumber
  <2>3. j # 0
    <3>1. Walked(q, 0) = 0
      BY <1>2, WalkedStep
    <3>2. n - 1 - 0 = n - 1 /\ n - 1 \in 0 .. (n - 1)
      BY <1>1
    <3>3. Walked(r, n - 1) \in Int
      BY <1>3, <3>2
    <3>4. Walked(r, n - 1 - 0) - Walked(r, n - 1) = 0
      BY <3>2, <3>3
    <3>5. Walked(q, 0) = Walked(r, n - 1 - 0) - Walked(r, n - 1)
      BY <3>1, <3>4
    <3>6. QED
      BY <2>2, <3>5
  <2>4. /\ j \in Nat /\ j \in 0 .. (n - 1)
        /\ Walked(q, j) # Walked(r, n - 1 - j) - Walked(r, n - 1)
    BY <2>2
  <2>5. /\ j - 1 \in 0 .. (n - 1) /\ j - 1 \in Nat
        /\ j \in 1 .. n /\ j + 1 \in 1 .. n
        /\ n - j \in 1 .. n /\ (n - j) + 1 \in 1 .. n
        /\ n - 1 - (j - 1) = n - j /\ n - 1 - j = (n - j) - 1
        /\ n + 1 - j = (n - j) + 1 /\ n + 1 - (j + 1) = n - j
        /\ n - j \in 0 .. (n - 1) /\ (n - j) - 1 \in 0 .. (n - 1) /\ n - 1 \in 0 .. (n - 1)
    BY <1>1, <2>3, <2>4
  <2>6. Walked(q, j - 1) = Walked(r, n - 1 - (j - 1)) - Walked(r, n - 1)
    BY <2>2, <2>5
  <2>7. Walked(q, j) = Walked(q, j - 1) + Cross(q[j], q[j + 1])
    BY <1>2, <2>5, WalkedStep
  <2>8. q[j] = r[(n - j) + 1] /\ q[j + 1] = r[n - j]
    BY <1>2, <2>5
  <2>9. Walked(r, n - j) = Walked(r, (n - j) - 1) + Cross(r[n - j], r[(n - j) + 1])
    BY <2>5, WalkedStep
  <2>10. r[n - j] \in Points /\ r[(n - j) + 1] \in Points
    BY <2>5
  <2>11. /\ Cross(r[(n - j) + 1], r[n - j]) = - Cross(r[n - j], r[(n - j) + 1])
         /\ Cross(r[n - j], r[(n - j) + 1]) \in Int
    BY <2>10, CrossFacts
  <2> DEFINE c == Cross(r[n - j], r[(n - j) + 1])
             w == Walked(r, n - 1)
             u == Walked(r, (n - j) - 1)
  <2>12. c \in Int /\ w \in Int /\ u \in Int
    BY <1>3, <2>5, <2>11
  <2>13. Walked(q, j - 1) = (u + c) - w
    BY <2>5, <2>6, <2>9
  <2>14. Walked(q, j) = ((u + c) - w) + (- c)
    BY <2>7, <2>8, <2>11, <2>13
  <2>15. Walked(r, n - 1 - j) - Walked(r, n - 1) = u - w
    BY <2>5
  <2> HIDE DEF c, w, u
  <2>16. QED
    BY <2>4, <2>12, <2>14, <2>15
<1>5. Walked(q, k) = Walked(r, n - 1 - k) - Walked(r, n - 1)
  BY <1>1, <1>4
<1>6. QED
  BY <1>5 DEF q

LEMMA ReversedArea ==
  ASSUME NEW r \in Seq(Points), r # << >>
  PROVE  SignedArea(Reverse(r)) = - SignedArea(r)
<1> DEFINE n == Len(r)
           q == Reverse(r)
<1>1. /\ n \in Nat /\ n >= 1 /\ n \in 1 .. n /\ 1 \in 1 .. n /\ n - 1 \in 0 .. (n - 1)
      /\ n - 1 - (n - 1) = 0 /\ n + 1 - 1 = n /\ n + 1 - n = 1
  OBVIOUS
<1>2. q \in Seq(Points) /\ Len(q) = n /\ \A i \in 1 .. n : q[i] = r[n + 1 - i]
  BY ReversedRing
<1>3. Walked(q, n - 1) = Walked(r, n - 1 - (n - 1)) - Walked(r, n - 1)
  BY <1>1, WalkedBack
<1> HIDE DEF q
<1>4. Walked(r, 0) = 0 /\ Walked(r, n - 1) \in Int
  BY <1>1, WalkedStep
<1>5. q # << >>
  BY <1>1, <1>2
<1>6. SignedArea(q) = Walked(q, n - 1) + Cross(q[n], q[1])
  BY <1>2, <1>5, AreaIsWalk
<1>7. SignedArea(r) = Walked(r, n - 1) + Cross(r[n], r[1])
  BY AreaIsWalk
<1>8. q[1] = r[n] /\ q[n] = r[1] /\ r[1] \in Points /\ r[n] \in Points
  BY <1>1, <1>2
<1>9. Cross(r[1], r[n]) = - Cross(r[n], r[1]) /\ Cross(r[n], r[1]) \in Int
  BY <1>8, CrossFacts
<1>10. Walked(q, n - 1) = 0 - Walked(r, n - 1)
  BY <1>1, <1>3, <1>4
<1> DEFINE c == Cross(r[n], r[1])
           w == Walked(r, n - 1)
<1>11. SignedArea(q) = (0 - w) + (- c) /\ SignedArea(r) = w + c /\ w \in Int /\ c \in Int
  BY <1>4, <1>6, <1>7, <1>8, <1>9, <1>10
<1> HIDE DEF c, w
<1>12. SignedArea(q) = - SignedArea(r)
  BY <1>11
<1>13. QED
  BY <1>12 DEF q

-----------------------------------------------------------------------------
(***************************************************************************)
(* The repairs of a ring, one by one.                                      *)
(***************************************************************************)
(* Nothing repeats the position before it.                                 *)
NoRepeats(r) == \A i \in 1 .. (Len(r) - 1) : ~ SamePositionXY(r[i], r[i + 1])

(* What is kept of the first k positions.                                  *)
KeptOf(r, k, kept) ==
  /\ kept \in Seq(Points) /\ kept # << >>
  /\ kept[1] = r[1]
  /\ SamePositionXY(kept[Len(kept)], r[k])
  /\ NoRepeats(kept)
  /\ Walked(kept, Len(kept) - 1) = Walked(r, k - 1)
  /\ NoRepeats(r) => Len(kept) = k /\ \A i \in 1 .. k : kept[i] = r[i]

LEMMA SamePositions ==
  /\ \A a : SamePositionXY(a, a)
  /\ \A a, b : SamePositionXY(a, b) => SamePositionXY(b, a)
  /\ \A a, b, c : SamePositionXY(a, b) /\ SamePositionXY(b, c) => SamePositionXY(a, c)
BY DEF SamePositionXY

LEMMA CrossAlike ==
  ASSUME NEW a, NEW b, SamePositionXY(a, b), NEW c
  PROVE  Cross(a, c) = Cross(b, c)
BY DEF SamePositionXY, Cross

LEMMA FirstIsKept ==
  ASSUME NEW r \in Seq(Points), r # << >>
  PROVE  KeptOf(r, 1, Deduped(r, 1))
<1>1. 1 \in 1 .. Len(r) /\ r[1] \in Points /\ 1 - 1 = 0
  OBVIOUS
<1>2. Deduped(r, 1) = DedupeTurn(r, << >>, 1)
  BY <1>1, DedupedStep
<1>3. Deduped(r, 1) = << r[1] >>
  <2>1. Append(<< >>, r[1]) = << r[1] >>
    OBVIOUS
  <2>2. QED
    BY <1>2, <2>1 DEF DedupeTurn
<1>4. << r[1] >> \in Seq(Points) /\ << r[1] >> # << >> /\ Len(<< r[1] >>) = 1 /\ << r[1] >>[1] = r[1]
  BY <1>1
<1>5. Walked(<< r[1] >>, 0) = Walked(r, 0)
  BY <1>4, WalkedStep
<1>6. NoRepeats(<< r[1] >>)
  BY <1>4 DEF NoRepeats
<1>7. \A i \in 1 .. 1 : << r[1] >>[i] = r[i]
  OBVIOUS
<1>8. SamePositionXY(<< r[1] >>[Len(<< r[1] >>)], r[1])
  BY <1>4, SamePositions
<1> DEFINE one == << r[1] >>
<1>9. Len(one) = 1
  BY <1>4
<1> HIDE DEF one
<1>10. KeptOf(r, 1, one)
  BY <1>1, <1>4, <1>5, <1>6, <1>7, <1>8, <1>9 DEF KeptOf, one
<1>11. QED
  BY <1>3, <1>10 DEF one

LEMMA NextIsKept ==
  ASSUME NEW r \in Seq(Points), NEW k \in 2 .. Len(r), NEW kept, KeptOf(r, k - 1, kept)
  PROVE  KeptOf(r, k, DedupeTurn(r, kept, k))
<1> DEFINE m == Len(kept)
           a == kept[m]
           b == r[k - 1]
           p == r[k]
           w == Walked(kept, m - 1)
<1>1. /\ kept \in Seq(Points) /\ kept # << >> /\ kept[1] = r[1]
      /\ SamePositionXY(a, b) /\ NoRepeats(kept)
      /\ w = Walked(r, (k - 1) - 1)
      /\ NoRepeats(r) => m = k - 1 /\ \A i \in 1 .. (k - 1) : kept[i] = r[i]
  BY DEF KeptOf
<1>2. /\ m \in Nat /\ m >= 1 /\ m - 1 \in 0 .. (m - 1) /\ m \in 1 .. m
      /\ k \in Nat /\ k - 1 \in 1 .. Len(r) /\ k - 1 \in 1 .. (Len(r) - 1)
      /\ (k - 1) + 1 = k /\ k \in 1 .. Len(r)
  BY <1>1
<1>3. p \in Points /\ a \in Points /\ b \in Points
  BY <1>1, <1>2
<1>4. w \in Int
  BY <1>1, <1>2, WalkedStep
<1>5. Walked(r, k - 1) = w + Cross(b, p)
  <2>1. Walked(r, k - 1) = Walked(r, (k - 1) - 1) + Cross(r[k - 1], r[(k - 1) + 1])
    BY <1>2, WalkedStep
  <2>2. QED
    BY <1>1, <1>2, <2>1
<1>6. Cross(a, p) = Cross(b, p)
  BY <1>1, <1>3, CrossAlike
<1>7. Last(kept) = a
  BY DEF Last
<1>8. CASE SamePositionXY(p, a)
  <2>1. DedupeTurn(r, kept, k) = kept
    BY <1>1, <1>7, <1>8 DEF DedupeTurn
  <2>2. SamePositionXY(a, p)
    BY <1>8, SamePositions
  <2>3. Cross(a, p) = 0
    BY <1>3, <2>2, CrossFacts
  <2>4. w = Walked(r, k - 1)
    BY <1>4, <1>5, <1>6, <2>3
  <2>5. ~ NoRepeats(r)
    <3>1. SamePositionXY(b, p)
      BY <1>1, <2>2, SamePositions
    <3>2. SamePositionXY(r[k - 1], r[(k - 1) + 1])
      BY <1>2, <3>1
    <3>3. QED
      BY <1>2, <3>2 DEF NoRepeats
  <2> HIDE DEF m
  <2>6. KeptOf(r, k, kept)
    BY <1>1, <2>2, <2>4, <2>5 DEF KeptOf, m
  <2>7. QED
    BY <2>1, <2>6
<1>9. CASE ~ SamePositionXY(p, a)
  <2> DEFINE more == Append(kept, p)
  <2>1. DedupeTurn(r, kept, k) = more
    BY <1>7, <1>9 DEF DedupeTurn
  <2>2. /\ more \in Seq(Points) /\ more # << >> /\ Len(more) = m + 1
        /\ \A i \in 1 .. m : more[i] = kept[i]
        /\ more[m + 1] = p
        /\ Walked(more, m) = w + Cross(a, p)
    BY <1>1, <1>3, WalkedAppend
  <2> HIDE DEF more
  <2>3. more[1] = r[1] /\ more[Len(more)] = p
    BY <1>1, <1>2, <2>2
  <2>4. NoRepeats(more)
    <3>1. ASSUME NEW i \in 1 .. m
          PROVE  ~ SamePositionXY(more[i], more[i + 1])
      <4>1. CASE i = m
        <5>1. more[i] = a /\ more[i + 1] = p
          BY <1>2, <2>2, <4>1
        <5>2. QED
          BY <1>9, <5>1, SamePositions
      <4>2. CASE i # m
        <5>1. i \in 1 .. (m - 1) /\ i + 1 \in 1 .. m
          BY <1>2, <4>2
        <5>2. more[i] = kept[i] /\ more[i + 1] = kept[i + 1]
          BY <2>2, <5>1
        <5>3. ~ SamePositionXY(kept[i], kept[i + 1])
          BY <1>1, <5>1 DEF NoRepeats
        <5>4. QED
          BY <5>2, <5>3
      <4>3. QED
        BY <4>1, <4>2
    <3>2. Len(more) - 1 = m
      BY <1>2, <2>2
    <3> HIDE DEF m
    <3>3. QED
      BY <3>1, <3>2 DEF NoRepeats
  <2>5. Walked(more, Len(more) - 1) = Walked(r, k - 1)
    <3>1. Len(more) - 1 = m
      BY <1>2, <2>2
    <3>2. QED
      BY <1>5, <1>6, <2>2, <3>1
  <2>6. ASSUME NoRepeats(r)
        PROVE  Len(more) = k /\ \A i \in 1 .. k : more[i] = r[i]
    <3>1. m = k - 1 /\ \A i \in 1 .. (k - 1) : kept[i] = r[i]
      BY <1>1, <2>6
    <3>2. Len(more) = k
      BY <1>2, <2>2, <3>1
    <3>3. ASSUME NEW i \in 1 .. k
          PROVE  more[i] = r[i]
      <4>1. CASE i = k
        BY <1>2, <2>2, <3>1, <4>1
      <4>2. CASE i # k
        <5>1. i \in 1 .. (k - 1) /\ i \in 1 .. m
          BY <1>2, <3>1, <4>2
        <5>2. QED
          BY <2>2, <3>1, <5>1
      <4>3. QED
        BY <4>1, <4>2
    <3>4. QED
      BY <3>2, <3>3
  <2>7. SamePositionXY(more[Len(more)], r[k])
    BY <2>3, SamePositions
  <2>8. KeptOf(r, k, more)
    BY <2>2, <2>3, <2>4, <2>5, <2>6, <2>7 DEF KeptOf
  <2>9. QED
    BY <2>1, <2>8
<1>10. QED
  BY <1>8, <1>9

LEMMA AllAreKept ==
  ASSUME NEW r \in Seq(Points), r # << >>
  PROVE  KeptOf(r, Len(r), RemoveConsecutiveDuplicates(r))
<1> DEFINE n == Len(r)
           Bad == {k \in Nat : k \in 1 .. n /\ ~ KeptOf(r, k, Deduped(r, k))}
<1>1. n \in Nat /\ n >= 1
  OBVIOUS
<1>2. Bad = {}
  <2>1. SUFFICES ASSUME Bad # {} PROVE FALSE
    OBVIOUS
  <2>2. PICK k \in Bad : \A j \in Bad : k <= j
    <3>1. Bad \in SUBSET Nat
      OBVIOUS
    <3> HIDE DEF Bad
    <3>2. QED
      BY <2>1, <3>1, SmallestNumber
  <2>3. k # 1
    BY <2>2, FirstIsKept
  <2>4. k \in 2 .. n /\ k - 1 \in 1 .. n /\ k - 1 \in Nat /\ k \in 1 .. n
    BY <2>2, <2>3
  <2>5. KeptOf(r, k - 1, Deduped(r, k - 1))
    BY <2>2, <2>4
  <2>6. KeptOf(r, k, DedupeTurn(r, Deduped(r, k - 1), k))
    BY <2>4, <2>5, NextIsKept
  <2>7. Deduped(r, k) = DedupeTurn(r, Deduped(r, k - 1), k)
    BY <2>4, DedupedStep
  <2>8. QED
    BY <2>2, <2>6, <2>7
<1>3. KeptOf(r, n, Deduped(r, n))
  BY <1>1, <1>2
<1>4. RemoveConsecutiveDuplicates(r) = Deduped(r, n)
  BY DedupedStep
<1>5. QED
  BY <1>3, <1>4

(* Dropping repeats keeps the area, leaves none, and changes nothing where *)
(* there are none.                                                         *)
LEMMA DedupedRing ==
  ASSUME NEW r \in Seq(Points), r # << >>
  PROVE  LET q == RemoveConsecutiveDuplicates(r)
         IN  /\ q \in Seq(Points) /\ q # << >> /\ NoRepeats(q)
             /\ SignedArea(q) = SignedArea(r)
             /\ NoRepeats(r) => q = r
<1> DEFINE n == Len(r)
           q == RemoveConsecutiveDuplicates(r)
           m == Len(q)
<1>1. KeptOf(r, n, q)
  BY AllAreKept
<1> HIDE DEF q
<1>2. /\ q \in Seq(Points) /\ q # << >> /\ q[1] = r[1] /\ NoRepeats(q)
      /\ SamePositionXY(q[m], r[n])
      /\ Walked(q, m - 1) = Walked(r, n - 1)
      /\ NoRepeats(r) => m = n /\ \A i \in 1 .. n : q[i] = r[i]
  BY <1>1 DEF KeptOf
<1>3. /\ n \in Nat /\ n >= 1 /\ n \in 1 .. n /\ 1 \in 1 .. n
      /\ m \in Nat /\ m >= 1 /\ m \in 1 .. m
  BY <1>2
<1>4. r[1] \in Points /\ r[n] \in Points /\ q[m] \in Points
  BY <1>2, <1>3
<1>5. SignedArea(q) = Walked(q, m - 1) + Cross(q[m], q[1])
  BY <1>2, AreaIsWalk
<1>6. SignedArea(r) = Walked(r, n - 1) + Cross(r[n], r[1])
  BY AreaIsWalk
<1>7. Cross(q[m], r[1]) = Cross(r[n], r[1])
  BY <1>2, <1>4, CrossAlike
<1>8. SignedArea(q) = SignedArea(r)
  BY <1>2, <1>5, <1>6, <1>7
<1>9. NoRepeats(r) => q = r
  BY <1>2, <1>3
<1>10. QED
  BY <1>2, <1>8, <1>9 DEF q

LEMMA ClosedInPlane ==
  ASSUME NEW r \in Seq(Points), r # << >>
  PROVE  Closed(r) <=> SamePositionXY(r[1], r[Len(r)])
<1>1. Head(r) = r[1] /\ Last(r) = r[Len(r)]
  BY DEF Last
<1>2. QED
  BY <1>1 DEF Closed

LEMMA ClosedRing ==
  ASSUME NEW r \in Seq(Points), r # << >>
  PROVE  LET q == CloseRing(r)
         IN  /\ q \in Seq(Points) /\ q # << >>
             /\ SignedArea(q) = SignedArea(r)
             /\ NoRepeats(r) => NoRepeats(q)
             /\ CloseRing(q) = q
<1> DEFINE n == Len(r)
           q == Append(r, r[1])
<1>1. n \in Nat /\ n >= 1 /\ r[1] \in Points /\ Head(r) = r[1]
  OBVIOUS
<1>2. CASE n < 3 \/ Closed(r)
  <2>1. CloseRing(r) = r
    BY <1>2 DEF CloseRing
  <2>2. QED
    BY <2>1
<1>3. CASE ~ (n < 3 \/ Closed(r))
  <2>1. CloseRing(r) = q
    BY <1>1, <1>3 DEF CloseRing
  <2>2. /\ q \in Seq(Points) /\ q # << >> /\ Len(q) = n + 1
        /\ \A i \in 1 .. n : q[i] = r[i]
        /\ q[n + 1] = r[1]
    BY <1>1
  <2>3. SignedArea(q) = SignedArea(r)
    BY <1>1, SamePositions, ClosingKeepsArea
  <2> HIDE DEF q
  <2>4. Closed(q)
    <3>1. q[1] = r[1] /\ q[Len(q)] = r[1]
      BY <1>1, <2>2
    <3>2. QED
      BY <2>2, <3>1, SamePositions, ClosedInPlane
  <2>5. CloseRing(q) = q
    BY <2>4 DEF CloseRing
  <2>6. ASSUME NoRepeats(r)
        PROVE  NoRepeats(q)
    <3>1. ASSUME NEW i \in 1 .. n
          PROVE  ~ SamePositionXY(q[i], q[i + 1])
      <4>1. CASE i = n
        <5>1. q[i] = r[n] /\ q[i + 1] = r[1]
          BY <1>1, <2>2, <4>1
        <5>2. ~ SamePositionXY(r[1], r[n])
          BY <1>3, ClosedInPlane
        <5>3. QED
          BY <5>1, <5>2, SamePositions
      <4>2. CASE i # n
        <5>1. i \in 1 .. (n - 1) /\ i + 1 \in 1 .. n
          BY <1>1, <4>2
        <5>2. q[i] = r[i] /\ q[i + 1] = r[i + 1]
          BY <2>2, <5>1
        <5>3. QED
          BY <2>6, <5>1, <5>2 DEF NoRepeats
      <4>3. QED
        BY <4>1, <4>2
    <3>2. Len(q) - 1 = n
      BY <1>1, <2>2
    <3> HIDE DEF n
    <3>3. QED
      BY <3>1, <3>2 DEF NoRepeats
  <2>7. QED
    BY <2>1, <2>2, <2>3, <2>5, <2>6
<1>4. QED
  BY <1>2, <1>3

LEMMA ReversedKeepsNoRepeats ==
  ASSUME NEW r \in Seq(Points), NoRepeats(r)
  PROVE  NoRepeats(Reverse(r))
<1> DEFINE n == Len(r)
           q == Reverse(r)
<1>1. Len(q) = n /\ \A i \in 1 .. n : q[i] = r[n + 1 - i]
  BY ReversedRing
<1> HIDE DEF q
<1>2. ASSUME NEW i \in 1 .. (n - 1)
      PROVE  ~ SamePositionXY(q[i], q[i + 1])
  <2>1. /\ n \in Nat /\ i \in 1 .. n /\ i + 1 \in 1 .. n
        /\ n + 1 - i = (n - i) + 1 /\ n + 1 - (i + 1) = n - i /\ n - i \in 1 .. (n - 1)
    OBVIOUS
  <2>2. q[i] = r[(n - i) + 1] /\ q[i + 1] = r[n - i]
    BY <1>1, <2>1
  <2>3. ~ SamePositionXY(r[n - i], r[(n - i) + 1])
    BY <2>1 DEF NoRepeats
  <2>4. QED
    BY <2>2, <2>3, SamePositions
<1>3. NoRepeats(q)
  BY <1>1, <1>2 DEF NoRepeats
<1>4. QED
  BY <1>3 DEF q

(* A closed ring without the position that closes it.                      *)
LEMMA OpenedRing ==
  ASSUME NEW r \in Seq(Points), Len(r) >= 3, Closed(r)
  PROVE  LET f == Front(r)
         IN  /\ f \in Seq(Points) /\ f # << >> /\ Len(f) = Len(r) - 1
             /\ \A i \in 1 .. (Len(r) - 1) : f[i] = r[i]
             /\ SignedArea(f) = SignedArea(r)
             /\ r = Append(f, r[Len(r)])
<1> DEFINE n == Len(r)
           f == Front(r)
<1>1. n \in Nat /\ n >= 3 /\ n \in 1 .. n /\ 1 \in 1 .. n /\ n - 1 \in Nat
  OBVIOUS
<1>2. f = SubSeq(r, 1, n - 1)
  BY DEF Front
<1>3. /\ f \in Seq(Points) /\ Len(f) = n - 1
      /\ \A i \in 1 .. (n - 1) : f[i] = r[i]
  BY <1>1, <1>2
<1> HIDE DEF f
<1>4. f # << >> /\ f[1] = r[1]
  BY <1>1, <1>3
<1>5. r[1] \in Points /\ r[n] \in Points /\ SamePositionXY(r[n], r[1])
  <2>1. SamePositionXY(r[1], r[n])
    BY <1>1, ClosedInPlane
  <2>2. QED
    BY <1>1, <2>1, SamePositions
<1>6. r = Append(f, r[n])
  BY <1>1, <1>3, <1>5
<1>7. SignedArea(Append(f, r[n])) = SignedArea(f)
  BY <1>3, <1>4, <1>5, ClosingKeepsArea
<1>8. QED
  BY <1>3, <1>4, <1>6, <1>7 DEF f

LEMMA TurnedRing ==
  ASSUME NEW r \in Seq(Points), Len(r) >= 3
  PROVE  LET q == ReverseRing(r)
         IN  /\ q \in Seq(Points) /\ Len(q) = Len(r)
             /\ SignedArea(q) = - SignedArea(r)
             /\ NoRepeats(r) => NoRepeats(q)
             /\ Closed(r) => Closed(q)
<1> DEFINE n == Len(r)
<1>1. n \in Nat /\ n >= 3 /\ r # << >>
  OBVIOUS
<1>2. CASE ~ Closed(r)
  <2>1. ReverseRing(r) = Reverse(r)
    BY <1>2 DEF ReverseRing
  <2>2. QED
    BY <1>1, <1>2, <2>1, ReversedRing, ReversedArea, ReversedKeepsNoRepeats
<1>3. CASE Closed(r)
  <2> DEFINE f == Front(r)
             b == Reverse(f)
             p == f[n - 1]
             q == Append(b, p)
  <2>1. /\ f \in Seq(Points) /\ f # << >> /\ Len(f) = n - 1
        /\ \A i \in 1 .. (n - 1) : f[i] = r[i]
        /\ SignedArea(f) = SignedArea(r)
    BY <1>1, <1>3, OpenedRing
  <2>2. ReverseRing(r) = q
    <3>1. Last(f) = p
      BY <2>1 DEF Last
    <3>2. QED
      BY <1>1, <1>3, <3>1 DEF ReverseRing
  <2> HIDE DEF f
  <2>3. /\ b \in Seq(Points) /\ Len(b) = n - 1
        /\ \A i \in 1 .. (n - 1) : b[i] = f[n - i]
    <3>1. /\ b \in Seq(Points) /\ Len(b) = Len(f)
          /\ \A i \in 1 .. Len(f) : b[i] = f[Len(f) + 1 - i]
      BY <2>1, ReversedRing
    <3>2. \A i \in 1 .. (n - 1) : Len(f) + 1 - i = n - i
      BY <1>1, <2>1
    <3>3. QED
      BY <2>1, <3>1, <3>2
  <2>4. SignedArea(b) = - SignedArea(r)
    BY <2>1, ReversedArea
  <2>5. NoRepeats(r) => NoRepeats(f)
    <3>1. \A i \in 1 .. (Len(f) - 1) : i \in 1 .. (n - 1) /\ i + 1 \in 1 .. (n - 1)
      BY <1>1, <2>1
    <3>2. QED
      BY <2>1, <3>1 DEF NoRepeats
  <2>6. NoRepeats(r) => NoRepeats(b)
    BY <2>1, <2>5, ReversedKeepsNoRepeats
  <2>7. p \in Points /\ b[1] = p /\ b # << >>
    <3>1. n - 1 \in 1 .. (n - 1) /\ 1 \in 1 .. (n - 1)
      BY <1>1
    <3>2. QED
      BY <2>1, <2>3, <3>1
  <2> HIDE DEF b
  <2>8. /\ q \in Seq(Points) /\ Len(q) = n /\ q # << >>
        /\ \A i \in 1 .. (n - 1) : q[i] = b[i]
        /\ q[n] = p
    BY <1>1, <2>3, <2>7
  <2>9. SignedArea(q) = - SignedArea(r)
    <3>1. SamePositionXY(p, b[1])
      BY <2>7, SamePositions
    <3>2. SignedArea(q) = SignedArea(b)
      BY <2>3, <2>7, <3>1, ClosingKeepsArea
    <3>3. QED
      BY <2>4, <3>2
  <2> HIDE DEF q
  <2>10. Closed(q)
    <3>1. q[1] = p /\ q[Len(q)] = p
      BY <1>1, <2>7, <2>8
    <3>2. QED
      BY <2>8, <3>1, SamePositions, ClosedInPlane
  <2>11. ASSUME NoRepeats(r)
         PROVE  NoRepeats(q)
    <3>1. ASSUME NEW i \in 1 .. (n - 1)
          PROVE  ~ SamePositionXY(q[i], q[i + 1])
      <4>1. CASE i = n - 1
        <5>1. 1 \in 1 .. (n - 1) /\ n - 1 \in 1 .. (n - 1) /\ (n - 1) + 1 = n /\ n - (n - 1) = 1
          BY <1>1
        <5>2. q[i] = f[1] /\ q[i + 1] = p
          BY <2>3, <2>8, <4>1, <5>1
        <5>3. f[1] = r[1] /\ p = r[n - 1]
          BY <2>1, <5>1
        <5>4. ~ SamePositionXY(r[n - 1], r[n])
          <6>1. ~ SamePositionXY(r[n - 1], r[(n - 1) + 1])
            BY <2>11, <5>1 DEF NoRepeats
          <6>2. QED
            BY <5>1, <6>1
        <5>5. SamePositionXY(r[1], r[n])
          BY <1>1, <1>3, ClosedInPlane
        <5>6. ASSUME SamePositionXY(r[1], r[n - 1])
              PROVE  FALSE
          <6>1. SamePositionXY(r[n - 1], r[1])
            BY <5>6, SamePositions
          <6>2. SamePositionXY(r[n - 1], r[n])
            BY <5>5, <6>1, SamePositions
          <6>3. QED
            BY <5>4, <6>2
        <5>7. QED
          BY <5>2, <5>3, <5>6
      <4>2. CASE i # n - 1
        <5>1. i \in 1 .. (Len(b) - 1) /\ i \in 1 .. (n - 1) /\ i + 1 \in 1 .. (n - 1)
          BY <1>1, <2>3, <4>2
        <5>2. q[i] = b[i] /\ q[i + 1] = b[i + 1]
          BY <2>8, <5>1
        <5>3. QED
          BY <2>6, <2>11, <5>1, <5>2 DEF NoRepeats
      <4>3. QED
        BY <4>1, <4>2
    <3>2. Len(q) - 1 = n - 1
      BY <2>8
    <3> HIDE DEF n
    <3>3. QED
      BY <3>1, <3>2 DEF NoRepeats
  <2>12. QED
    BY <2>2, <2>8, <2>9, <2>10, <2>11
<1>4. QED
  BY <1>2, <1>3

Magnitude(area) == IF area < 0 THEN - area ELSE area

(* The repairs leave nothing to repair.                                    *)
IsRepaired(r, exterior, repairs) ==
  /\ r \in Seq(Points)
  /\ "dedupe" \in repairs => NoRepeats(r)
  /\ "close" \in repairs => Len(r) < 3 \/ Closed(r)
  /\ "orient" \in repairs => ~ Misoriented(r, exterior)

LEMMA EmptyRing ==
  /\ RemoveConsecutiveDuplicates(<< >>) = << >>
  /\ \A exterior, repairs : RepairRing(<< >>, exterior, repairs) = << >>
  /\ \A exterior, repairs : IsRepaired(<< >>, exterior, repairs)
<1> DEFINE none == << >>
<1>1. none \in Seq(Points) /\ Len(none) = 0
  OBVIOUS
<1>2. RemoveConsecutiveDuplicates(none) = << >>
  <2>1. RemoveConsecutiveDuplicates(none) = Deduped(none, Len(none)) /\ Deduped(none, 0) = << >>
    BY <1>1, DedupedStep
  <2>2. QED
    BY <1>1, <2>1
<1>3. CloseRing(none) = none
  BY <1>1 DEF CloseRing
<1>4. \A exterior : ~ Misoriented(none, exterior)
  BY <1>1 DEF Misoriented
<1>5. NoRepeats(none)
  BY <1>1 DEF NoRepeats
<1>6. \A exterior, repairs : RepairRing(none, exterior, repairs) = none
  <2> HIDE DEF none
  <2>1. RemoveConsecutiveDuplicates(none) = none
    BY <1>2 DEF none
  <2>2. QED
    BY <1>3, <1>4, <2>1 DEF RepairRing
<1>7. \A exterior, repairs : IsRepaired(none, exterior, repairs)
  BY <1>1, <1>4, <1>5 DEF IsRepaired
<1>8. QED
  BY <1>2, <1>6, <1>7

LEMMA RepairedStays ==
  ASSUME NEW r, NEW exterior \in BOOLEAN, NEW repairs, IsRepaired(r, exterior, repairs)
  PROVE  RepairRing(r, exterior, repairs) = r
<1>1. CASE r = << >>
  BY <1>1, EmptyRing
<1>2. CASE r # << >>
  <2>1. "dedupe" \in repairs => RemoveConsecutiveDuplicates(r) = r
    <3>1. ASSUME "dedupe" \in repairs
          PROVE  RemoveConsecutiveDuplicates(r) = r
      <4>1. r \in Seq(Points) /\ NoRepeats(r)
        BY <3>1 DEF IsRepaired
      <4>2. QED
        BY <1>2, <4>1, DedupedRing
    <3>2. QED
      BY <3>1
  <2>2. "close" \in repairs => CloseRing(r) = r
    BY DEF IsRepaired, CloseRing
  <2>3. "orient" \in repairs => ~ Misoriented(r, exterior)
    BY DEF IsRepaired
  <2>4. QED
    BY <2>1, <2>2, <2>3 DEF RepairRing
<1>3. QED
  BY <1>1, <1>2

LEMMA RingIsRepaired ==
  ASSUME NEW r \in Seq(Points), NEW exterior \in BOOLEAN, NEW repairs
  PROVE  LET q == RepairRing(r, exterior, repairs)
         IN  /\ IsRepaired(q, exterior, repairs)
             /\ Magnitude(SignedArea(q)) = Magnitude(SignedArea(r))
<1>1. CASE r = << >>
  BY <1>1, EmptyRing
<1>2. CASE r # << >>
  <2> DEFINE d == IF "dedupe" \in repairs THEN RemoveConsecutiveDuplicates(r) ELSE r
             c == IF "close" \in repairs THEN CloseRing(d) ELSE d
             q == IF "orient" \in repairs /\ Misoriented(c, exterior) THEN ReverseRing(c) ELSE c
  <2>1. RepairRing(r, exterior, repairs) = q
    BY DEF RepairRing
  <2>2. /\ d \in Seq(Points) /\ d # << >> /\ SignedArea(d) = SignedArea(r)
        /\ "dedupe" \in repairs => NoRepeats(d)
    BY <1>2, DedupedRing
  <2> HIDE DEF d
  <2>3. /\ c \in Seq(Points) /\ c # << >> /\ SignedArea(c) = SignedArea(d)
        /\ "dedupe" \in repairs => NoRepeats(c)
        /\ "close" \in repairs => CloseRing(c) = c
    <3>1. CASE "close" \in repairs
      <4>1. c = CloseRing(d)
        BY <3>1
      <4>2. QED
        BY <2>2, <4>1, ClosedRing
    <3>2. CASE "close" \notin repairs
      BY <2>2, <3>2
    <3>3. QED
      BY <3>1, <3>2
  <2> HIDE DEF c
  <2>4. CloseRing(c) = c => Len(c) < 3 \/ Closed(c)
    <3>1. Len(Append(c, Head(c))) = Len(c) + 1 /\ Len(c) \in Nat
      BY <2>3
    <3>2. Append(c, Head(c)) # c
      BY <3>1
    <3>3. QED
      BY <3>2 DEF CloseRing
  <2>5. SignedArea(c) \in Int
    BY <2>3, AreaIsWalk
  <2>6. CASE "orient" \in repairs /\ Misoriented(c, exterior)
    <3>1. q = ReverseRing(c)
      BY <2>6
    <3>2. Len(c) >= 3 /\ (IF exterior THEN SignedArea(c) < 0 ELSE SignedArea(c) > 0)
      BY <2>6 DEF Misoriented
    <3>3. /\ q \in Seq(Points) /\ Len(q) = Len(c)
          /\ SignedArea(q) = - SignedArea(c)
          /\ NoRepeats(c) => NoRepeats(q)
          /\ Closed(c) => Closed(q)
      BY <2>3, <3>1, <3>2, TurnedRing
    <3> HIDE DEF q
    <3>4. ~ Misoriented(q, exterior)
      BY <2>5, <3>2, <3>3 DEF Misoriented
    <3>5. IsRepaired(q, exterior, repairs)
      BY <2>3, <2>4, <3>2, <3>3, <3>4 DEF IsRepaired
    <3>6. Magnitude(SignedArea(q)) = Magnitude(SignedArea(c))
      BY <2>5, <3>3 DEF Magnitude
    <3>7. QED
      BY <2>1, <2>2, <2>3, <3>5, <3>6
  <2>7. CASE ~ ("orient" \in repairs /\ Misoriented(c, exterior))
    <3>1. q = c
      BY <2>7
    <3>2. IsRepaired(c, exterior, repairs)
      BY <2>3, <2>4, <2>7 DEF IsRepaired
    <3>3. QED
      BY <2>1, <2>2, <2>3, <3>1, <3>2
  <2>8. QED
    BY <2>6, <2>7
<1>3. QED
  BY <1>1, <1>2

(* A repaired ring that is not degenerate passes the checks of a ring.     *)
LEMMA RepairedRingIsValid ==
  ASSUME NEW r, NEW exterior \in BOOLEAN,
         IsRepaired(r, exterior, Repair), ~ Degenerate(r)
  PROVE  ValidRing(r, exterior)
<1>1. /\ r \in Seq(Points) /\ NoRepeats(r) /\ (Len(r) < 3 \/ Closed(r))
      /\ ~ Misoriented(r, exterior)
  BY DEF IsRepaired, Repair
<1>2. r # << >>
  <2>1. SUFFICES ASSUME r = << >> PROVE FALSE
    OBVIOUS
  <2>2. Degenerate(r)
    BY <2>1, EmptyRing DEF Degenerate
  <2>3. QED
    BY <2>2
<1>3. RemoveConsecutiveDuplicates(r) = r
  BY <1>1, <1>2, DedupedRing
<1>4. ~ (Len(r) < (IF Len(r) >= 2 /\ Closed(r) THEN 4 ELSE 3))
  BY <1>3 DEF Degenerate
<1>5. Len(r) \in Nat /\ Len(r) >= 4 /\ Closed(r)
  BY <1>1, <1>4
<1>6. SignedArea(r) \in Int
  BY <1>1, <1>2, AreaIsWalk
<1>7. IF exterior THEN SignedArea(r) >= 0 ELSE SignedArea(r) <= 0
  BY <1>1, <1>5, <1>6 DEF Misoriented
<1>8. QED
  BY <1>5, <1>7 DEF ValidRing

-----------------------------------------------------------------------------
(***************************************************************************)
(* Polygons and multi-polygons.                                            *)
(***************************************************************************)
(* What a loop that appends what is good has after k elements.             *)
KeptPrefix(S, s, good, k, kept) ==
  /\ kept \in Seq(S) /\ Len(kept) <= k
  /\ \A i \in 1 .. Len(kept) : kept[i] \in good /\ \E j \in i .. k : kept[i] = s[j]
  /\ Len(kept) = k => \A i \in 1 .. k : kept[i] = s[i]
  /\ (\A i \in 1 .. k : s[i] \in good) => Len(kept) = k
  /\ k >= 1 /\ s[1] \in good => Len(kept) >= 1 /\ kept[1] = s[1]

LEMMA NextOfPrefix ==
  ASSUME NEW S, NEW s \in Seq(S), NEW good, NEW k \in 1 .. Len(s),
         NEW kept, KeptPrefix(S, s, good, k - 1, kept)
  PROVE  KeptPrefix(S, s, good, k, IF s[k] \in good THEN Append(kept, s[k]) ELSE kept)
<1> DEFINE m == Len(kept)
           p == s[k]
<1>1. /\ kept \in Seq(S) /\ m <= k - 1
      /\ \A i \in 1 .. m : kept[i] \in good /\ \E j \in i .. (k - 1) : kept[i] = s[j]
      /\ m = k - 1 => \A i \in 1 .. (k - 1) : kept[i] = s[i]
      /\ (\A i \in 1 .. (k - 1) : s[i] \in good) => m = k - 1
      /\ k - 1 >= 1 /\ s[1] \in good => m >= 1 /\ kept[1] = s[1]
  BY DEF KeptPrefix
<1>2. m \in Nat /\ k \in Nat /\ k >= 1 /\ p \in S
  BY <1>1
<1>3. ASSUME NEW i \in 1 .. m
      PROVE  kept[i] \in good /\ \E j \in i .. k : kept[i] = s[j]
  <2>1. PICK j \in i .. (k - 1) : kept[i] = s[j]
    BY <1>1
  <2>2. j \in i .. k
    BY <1>2
  <2>3. QED
    BY <1>1, <2>1, <2>2
<1>4. CASE p \notin good
  <2>1. ~ (\A i \in 1 .. k : s[i] \in good)
    BY <1>2, <1>4
  <2>2. m # k /\ m <= k
    BY <1>1, <1>2
  <2>3. k >= 1 /\ s[1] \in good => m >= 1 /\ kept[1] = s[1]
    <3>1. s[1] \in good => k - 1 >= 1
      BY <1>2, <1>4
    <3>2. QED
      BY <1>1, <3>1
  <2> HIDE DEF m
  <2>4. KeptPrefix(S, s, good, k, kept)
    BY <1>1, <1>3, <2>1, <2>2, <2>3 DEF KeptPrefix, m
  <2>5. QED
    BY <1>4, <2>4
<1>5. CASE p \in good
  <2> DEFINE more == Append(kept, p)
  <2>1. /\ more \in Seq(S) /\ Len(more) = m + 1
        /\ \A i \in 1 .. m : more[i] = kept[i]
        /\ more[m + 1] = p
    BY <1>1, <1>2
  <2> HIDE DEF more
  <2>2. Len(more) <= k
    BY <1>1, <1>2, <2>1
  <2>3. ASSUME NEW i \in 1 .. Len(more)
        PROVE  more[i] \in good /\ \E j \in i .. k : more[i] = s[j]
    <3>1. CASE i = m + 1
      <4>1. more[i] = s[k] /\ k \in i .. k
        BY <1>1, <1>2, <2>1, <3>1
      <4>2. QED
        BY <1>5, <4>1
    <3>2. CASE i # m + 1
      <4>1. i \in 1 .. m
        BY <1>2, <2>1, <3>2
      <4>2. QED
        BY <1>3, <2>1, <4>1
    <3>3. QED
      BY <3>1, <3>2
  <2>4. ASSUME Len(more) = k, NEW i \in 1 .. k
        PROVE  more[i] = s[i]
    <3>1. m = k - 1
      BY <1>2, <2>1, <2>4
    <3>2. CASE i = k
      BY <1>2, <2>1, <3>1, <3>2
    <3>3. CASE i # k
      <4>1. i \in 1 .. (k - 1) /\ i \in 1 .. m
        BY <1>2, <3>1, <3>3
      <4>2. QED
        BY <1>1, <2>1, <3>1, <4>1
    <3>4. QED
      BY <3>2, <3>3
  <2>5. ASSUME \A i \in 1 .. k : s[i] \in good
        PROVE  Len(more) = k
    <3>1. \A i \in 1 .. (k - 1) : s[i] \in good
      BY <1>2, <2>5
    <3>2. QED
      BY <1>1, <1>2, <2>1, <3>1
  <2>6. ASSUME s[1] \in good
        PROVE  Len(more) >= 1 /\ more[1] = s[1]
    <3>1. CASE k - 1 >= 1
      <4>1. m >= 1 /\ kept[1] = s[1]
        BY <1>1, <2>6, <3>1
      <4>2. 1 \in 1 .. m
        BY <1>2, <4>1
      <4>3. QED
        BY <1>2, <2>1, <4>1, <4>2
    <3>2. CASE ~ (k - 1 >= 1)
      <4>1. k = 1 /\ m = 0
        BY <1>1, <1>2, <3>2
      <4>2. QED
        BY <2>1, <4>1
    <3>3. QED
      BY <3>1, <3>2
  <2>7. KeptPrefix(S, s, good, k, more)
    BY <2>1, <2>2, <2>3, <2>4, <2>5, <2>6 DEF KeptPrefix
  <2>8. QED
    BY <1>5, <2>7 DEF more
<1>6. QED
  BY <1>4, <1>5

LEMMA KeptIsGood ==
  ASSUME NEW S, NEW s \in Seq(S), NEW good
  PROVE  KeptPrefix(S, s, good, Len(s), Kept(s, good))
<1> DEFINE n == Len(s)
           Bad == {k \in Nat : k \in 0 .. n /\ ~ KeptPrefix(S, s, good, k, KeptUpTo(s, good, k))}
<1>1. n \in Nat
  OBVIOUS
<1>2. KeptPrefix(S, s, good, 0, KeptUpTo(s, good, 0))
  <2>1. KeptUpTo(s, good, 0) = << >>
    BY KeptStep
  <2>2. KeptPrefix(S, s, good, 0, << >>)
    BY DEF KeptPrefix
  <2>3. QED
    BY <2>1, <2>2
<1>3. Bad = {}
  <2>1. SUFFICES ASSUME Bad # {} PROVE FALSE
    OBVIOUS
  <2>2. PICK k \in Bad : \A j \in Bad : k <= j
    <3>1. Bad \in SUBSET Nat
      OBVIOUS
    <3> HIDE DEF Bad
    <3>2. QED
      BY <2>1, <3>1, SmallestNumber
  <2>3. k # 0
    BY <1>2, <2>2
  <2>4. k - 1 \in 0 .. n /\ k - 1 \in Nat /\ k \in 1 .. n
    BY <2>2, <2>3
  <2> DEFINE kept == KeptUpTo(s, good, k - 1)
  <2>5. KeptPrefix(S, s, good, k - 1, kept)
    BY <2>2, <2>4
  <2>6. KeptUpTo(s, good, k) = IF s[k] \in good THEN Append(kept, s[k]) ELSE kept
    <3>1. \A i \in 1 .. Len(s) :
            KeptUpTo(s, good, i) = IF s[i] \in good
                                     THEN Append(KeptUpTo(s, good, i - 1), s[i])
                                     ELSE KeptUpTo(s, good, i - 1)
      BY KeptStep
    <3>2. QED
      BY <2>4, <3>1
  <2> HIDE DEF kept
  <2>7. KeptPrefix(S, s, good, k, KeptUpTo(s, good, k))
    BY <2>4, <2>5, <2>6, NextOfPrefix
  <2>8. QED
    BY <2>2, <2>7
<1>4. KeptPrefix(S, s, good, n, KeptUpTo(s, good, n))
  BY <1>1, <1>3
<1>5. Kept(s, good) = KeptUpTo(s, good, n)
  BY KeptStep
<1>6. QED
  BY <1>4, <1>5

(* A repaired polygon.                                                     *)
Rings == Seq(Points)

PolygonIsRepaired(rings, repairs) ==
  /\ rings \in Seq(Rings)
  /\ \A i \in 1 .. Len(rings) : IsRepaired(rings[i], i = 1, repairs)
  /\ "drop" \in repairs => \A i \in 1 .. Len(rings) : ~ Degenerate(rings[i])

HasAreaOf(r, q) == Magnitude(SignedArea(r)) = Magnitude(SignedArea(q))

LEMMA EachRing ==
  ASSUME NEW rings \in Seq(Rings), NEW repairs
  PROVE  LET repaired == [i \in DOMAIN rings |-> RepairRing(rings[i], i = 1, repairs)]
         IN  /\ repaired \in Seq(Rings) /\ Len(repaired) = Len(rings)
             /\ DOMAIN repaired = 1 .. Len(rings)
             /\ \A i \in 1 .. Len(rings) : /\ IsRepaired(repaired[i], i = 1, repairs)
                                           /\ HasAreaOf(repaired[i], rings[i])
<1> DEFINE repaired == [i \in DOMAIN rings |-> RepairRing(rings[i], i = 1, repairs)]
           n == Len(rings)
<1>1. n \in Nat /\ DOMAIN rings = 1 .. n
  OBVIOUS
<1>2. ASSUME NEW i \in 1 .. n
      PROVE  /\ repaired[i] \in Rings
             /\ IsRepaired(repaired[i], i = 1, repairs)
             /\ HasAreaOf(repaired[i], rings[i])
  <2>1. rings[i] \in Seq(Points) /\ (i = 1) \in BOOLEAN
    BY DEF Rings
  <2>2. repaired[i] = RepairRing(rings[i], i = 1, repairs)
    BY <1>1
  <2> HIDE DEF repaired
  <2>3. /\ IsRepaired(repaired[i], i = 1, repairs)
        /\ Magnitude(SignedArea(repaired[i])) = Magnitude(SignedArea(rings[i]))
    <3> DEFINE first == i = 1
    <3>1. first \in BOOLEAN /\ repaired[i] = RepairRing(rings[i], first, repairs)
      BY <2>1, <2>2
    <3> HIDE DEF first
    <3>2. /\ IsRepaired(repaired[i], first, repairs)
          /\ Magnitude(SignedArea(repaired[i])) = Magnitude(SignedArea(rings[i]))
      BY <2>1, <3>1, RingIsRepaired
    <3>3. QED
      BY <3>2 DEF first
  <2>4. repaired[i] \in Seq(Points)
    BY <2>3 DEF IsRepaired
  <2>5. QED
    BY <2>3, <2>4 DEF HasAreaOf, Rings
<1>3. repaired = [i \in 1 .. n |-> repaired[i]]
  BY <1>1
<1> HIDE DEF repaired, n
<1>4. repaired \in Seq(Rings) /\ Len(repaired) = n /\ DOMAIN repaired = 1 .. n
  BY <1>1, <1>2, <1>3
<1>5. QED
  BY <1>2, <1>4 DEF repaired, n

LEMMA PolygonStays ==
  ASSUME NEW rings, NEW repairs, PolygonIsRepaired(rings, repairs), rings # << >>
  PROVE  RepairPolygonRings(rings, repairs) = rings
<1> DEFINE n == Len(rings)
           repaired == [i \in DOMAIN rings |-> RepairRing(rings[i], i = 1, repairs)]
<1>1. rings \in Seq(Rings) /\ n \in Nat /\ n >= 1 /\ DOMAIN rings = 1 .. n
  BY DEF PolygonIsRepaired
<1>2. ASSUME NEW i \in 1 .. n
      PROVE  RepairRing(rings[i], i = 1, repairs) = rings[i]
  <2>1. IsRepaired(rings[i], i = 1, repairs) /\ (i = 1) \in BOOLEAN
    BY DEF PolygonIsRepaired
  <2>2. QED
    BY <2>1, RepairedStays
<1>3. repaired = rings
  BY <1>1, <1>2
<1> HIDE DEF repaired
<1>4. CASE "drop" \notin repairs
  BY <1>3, <1>4 DEF RepairPolygonRings, repaired
<1>5. CASE "drop" \in repairs
  <2> DEFINE good == {r \in ToSet(rings) : ~ Degenerate(r)}
  <2>1. \A i \in 1 .. n : ~ Degenerate(rings[i])
    BY <1>5 DEF PolygonIsRepaired
  <2>2. \A i \in 1 .. n : rings[i] \in good
    BY <1>1, <2>1 DEF ToSet
  <2> HIDE DEF good
  <2>3. KeptPrefix(Rings, rings, good, n, Kept(rings, good))
    BY <1>1, KeptIsGood
  <2>4. Kept(rings, good) = rings
    <3>1. /\ Kept(rings, good) \in Seq(Rings) /\ Len(Kept(rings, good)) = n
          /\ \A i \in 1 .. n : Kept(rings, good)[i] = rings[i]
      BY <2>2, <2>3 DEF KeptPrefix
    <3>2. QED
      BY <1>1, <3>1
  <2>5. ~ Degenerate(Head(rings))
    BY <1>1, <2>1
  <2>6. RepairPolygonRings(rings, repairs) = Kept(rings, good)
    <3>1. RepairPolygonRings(rings, repairs) =
            IF "drop" \notin repairs
              THEN repaired
              ELSE IF Degenerate(Head(repaired))
                     THEN << >>
                     ELSE Kept(repaired, {r \in ToSet(repaired) : ~ Degenerate(r)})
      BY DEF RepairPolygonRings, repaired
    <3>2. QED
      BY <1>3, <1>5, <2>5, <3>1 DEF good
  <2>7. QED
    BY <2>4, <2>6
<1>6. QED
  BY <1>4, <1>5

LEMMA PolygonIsLeftRepaired ==
  ASSUME NEW rings \in Seq(Rings), rings # << >>, NEW repairs
  PROVE  LET q == RepairPolygonRings(rings, repairs)
         IN  /\ PolygonIsRepaired(q, repairs)
             /\ \A i \in 1 .. Len(q) : \E j \in 1 .. Len(rings) : HasAreaOf(q[i], rings[j])
             /\ Len(q) = Len(rings) => \A i \in 1 .. Len(q) : HasAreaOf(q[i], rings[i])
<1> DEFINE n == Len(rings)
           repaired == [i \in DOMAIN rings |-> RepairRing(rings[i], i = 1, repairs)]
           good == {r \in ToSet(repaired) : ~ Degenerate(r)}
           q == RepairPolygonRings(rings, repairs)
<1>1. n \in Nat /\ n >= 1
  OBVIOUS
<1>2. /\ repaired \in Seq(Rings) /\ Len(repaired) = n
      /\ \A i \in 1 .. n : /\ IsRepaired(repaired[i], i = 1, repairs)
                           /\ HasAreaOf(repaired[i], rings[i])
  BY EachRing
<1>3. q = IF "drop" \notin repairs
            THEN repaired
            ELSE IF Degenerate(Head(repaired)) THEN << >> ELSE Kept(repaired, good)
  BY DEF RepairPolygonRings
<1>4. repaired # << >> /\ Head(repaired) = repaired[1]
  BY <1>1, <1>2
<1>5. \A r \in good : ~ Degenerate(r)
  OBVIOUS
<1>6. ~ Degenerate(repaired[1]) => repaired[1] \in good
  BY <1>1, <1>2 DEF ToSet
<1> HIDE DEF repaired, q, good
<1>7. CASE "drop" \notin repairs
  <2>1. q = repaired
    BY <1>3, <1>7
  <2>2. PolygonIsRepaired(repaired, repairs)
    BY <1>2, <1>7 DEF PolygonIsRepaired
  <2>3. QED
    BY <1>2, <2>1, <2>2 DEF q
<1>8. CASE "drop" \in repairs /\ Degenerate(Head(repaired))
  <2>1. q = << >>
    BY <1>3, <1>8
  <2>2. PolygonIsRepaired(<< >>, repairs) /\ Len(<< >>) = 0
    BY DEF PolygonIsRepaired
  <2> DEFINE none == << >>
  <2>3. PolygonIsRepaired(none, repairs) /\ Len(none) = 0 /\ q = none
    BY <2>1, <2>2
  <2> HIDE DEF none
  <2>4. 1 .. Len(q) = {} /\ PolygonIsRepaired(q, repairs)
    BY <2>3
  <2>5. QED
    BY <2>4 DEF q
<1>9. CASE "drop" \in repairs /\ ~ Degenerate(Head(repaired))
  <2>1. q = Kept(repaired, good) /\ repaired[1] \in good
    BY <1>3, <1>4, <1>6, <1>9
  <2>2. KeptPrefix(Rings, repaired, good, n, q)
    BY <1>2, <2>1, KeptIsGood
  <2>3. /\ q \in Seq(Rings) /\ Len(q) <= n
        /\ \A i \in 1 .. Len(q) : q[i] \in good /\ \E j \in i .. n : q[i] = repaired[j]
        /\ Len(q) = n => \A i \in 1 .. n : q[i] = repaired[i]
        /\ Len(q) >= 1 /\ q[1] = repaired[1]
    BY <1>1, <2>1, <2>2 DEF KeptPrefix
  <2>4. ASSUME NEW i \in 1 .. Len(q)
        PROVE  /\ IsRepaired(q[i], i = 1, repairs)
               /\ ~ Degenerate(q[i])
               /\ \E j \in 1 .. n : HasAreaOf(q[i], rings[j])
    <3>1. PICK j \in i .. n : q[i] = repaired[j]
      BY <2>3
    <3>2. j \in 1 .. n
      BY <1>1
    <3>3. IsRepaired(q[i], i = 1, repairs)
      <4>1. CASE i = 1
        <5>1. IsRepaired(repaired[1], 1 = 1, repairs) /\ q[1] = repaired[1]
          BY <1>1, <1>2, <2>3
        <5>2. (i = 1) = (1 = 1)
          BY <4>1
        <5>3. QED
          BY <4>1, <5>1, <5>2
      <4>2. CASE i # 1
        <5>1. j # 1
          BY <4>2
        <5>2. IsRepaired(repaired[j], j = 1, repairs) /\ (j = 1) = (i = 1)
          BY <1>2, <3>2, <4>2, <5>1
        <5>3. QED
          BY <3>1, <5>2
      <4>3. QED
        BY <4>1, <4>2
    <3>4. HasAreaOf(q[i], rings[j])
      BY <1>2, <3>1, <3>2
    <3>5. QED
      BY <1>5, <2>3, <3>2, <3>3, <3>4
  <2>5. PolygonIsRepaired(q, repairs)
    BY <2>3, <2>4 DEF PolygonIsRepaired
  <2>6. ASSUME Len(q) = n, NEW i \in 1 .. Len(q)
        PROVE  HasAreaOf(q[i], rings[i])
    BY <1>2, <2>3, <2>6
  <2>7. QED
    BY <2>4, <2>5, <2>6 DEF q
<1>10. QED
  BY <1>7, <1>8, <1>9

LEMMA PointsOfExport ==
  ASSUME NEW r \in Seq(Position)
  PROVE  r \in Rings /\ ExportRing(r) \in Rings
<1>1. Position \subseteq Points
  BY PositionAssumption DEF Points
<1>2. r \in Rings
  BY <1>1 DEF Rings
<1>3. ExportRing(r) \in Rings
  <2>1. CASE r = << >>
    BY <1>2, <2>1 DEF ExportRing
  <2>2. CASE r # << >>
    <3>1. Head(r) \in Points
      BY <1>1, <2>2
    <3>2. QED
      BY <1>2, <2>2, <3>1 DEF ExportRing, Rings
  <2>3. QED
    BY <2>1, <2>2
<1>4. QED
  BY <1>2, <1>3

LEMMA PolygonsAreRings ==
  ASSUME RingOfPositions, NEW rings \in Polygons
  PROVE  rings \in Seq(Rings) /\ rings # << >>
<1>1. PICK r \in {ring, ExportRing(ring)} : rings = << r >> \/ rings = << ExportRing(Shell), r >>
  BY DEF Polygons
<1>2. r \in Rings
  BY PointsOfExport DEF RingOfPositions
<1>3. ExportRing(Shell) \in Rings
  BY PositionAssumption, PointsOfExport
<1>4. << r >> \in Seq(Rings) /\ << r >> # << >>
  BY <1>2
<1>5. << ExportRing(Shell), r >> \in Seq(Rings) /\ << ExportRing(Shell), r >> # << >>
  BY <1>2, <1>3
<1>6. QED
  BY <1>1, <1>4, <1>5

LEMMA RepairedPolygonIsValid ==
  ASSUME NEW rings \in Seq(Rings), rings # << >>,
         RepairPolygonRings(rings, Repair) # << >>
  PROVE  ValidPolygonRings(RepairPolygonRings(rings, Repair))
<1> DEFINE q == RepairPolygonRings(rings, Repair)
<1>1. PolygonIsRepaired(q, Repair) /\ q # << >>
  BY PolygonIsLeftRepaired
<1> HIDE DEF q
<1>2. "drop" \in Repair
  BY DEF Repair
<1>3. q \in Seq(Rings) /\ DOMAIN q = 1 .. Len(q)
  BY <1>1 DEF PolygonIsRepaired
<1>4. ASSUME NEW i \in 1 .. Len(q)
      PROVE  ValidRing(q[i], i = 1)
  <2> DEFINE first == i = 1
  <2>1. first \in BOOLEAN /\ IsRepaired(q[i], first, Repair) /\ ~ Degenerate(q[i])
    BY <1>1, <1>2 DEF PolygonIsRepaired
  <2> HIDE DEF first
  <2>2. ValidRing(q[i], first)
    BY <2>1, RepairedRingIsValid
  <2>3. QED
    BY <2>2 DEF first
<1>5. ValidPolygonRings(q)
  BY <1>1, <1>3, <1>4 DEF ValidPolygonRings
<1>6. QED
  BY <1>5 DEF q

(* A multi-polygon keeps the polygons that were not dropped.               *)
LEMMA RepairedViewsAreValid ==
  ASSUME NEW polygons \in Seq(Seq(Rings)), \A i \in 1 .. Len(polygons) : polygons[i] # << >>,
         NEW view \in ToSet(RepairMultiPolygon(polygons, Repair))
  PROVE  ValidPolygonRings(view)
<1> DEFINE repaired == [i \in DOMAIN polygons |-> RepairPolygonRings(polygons[i], Repair)]
           n == Len(polygons)
           good == ToSet(repaired) \ {<< >>}
           kept == Kept(repaired, good)
<1>1. n \in Nat /\ DOMAIN polygons = 1 .. n
  OBVIOUS
<1>2. \A i \in 1 .. n : repaired[i] = RepairPolygonRings(polygons[i], Repair)
  BY <1>1
<1>3. ASSUME NEW i \in 1 .. n
      PROVE  repaired[i] \in Seq(Rings)
  <2>1. polygons[i] \in Seq(Rings) /\ polygons[i] # << >>
    BY <1>1
  <2>2. PolygonIsRepaired(RepairPolygonRings(polygons[i], Repair), Repair)
    BY <2>1, PolygonIsLeftRepaired
  <2>3. QED
    BY <1>2, <2>2 DEF PolygonIsRepaired
<1>4. repaired \in Seq(Seq(Rings)) /\ Len(repaired) = n /\ DOMAIN repaired = 1 .. n
  <2>1. repaired = [i \in 1 .. n |-> repaired[i]]
    BY <1>1
  <2> DEFINE T == Seq(Rings)
  <2>2. n \in Nat /\ \A i \in 1 .. n : repaired[i] \in T
    BY <1>1, <1>3
  <2> HIDE DEF repaired, n, T
  <2>3. repaired \in Seq(T) /\ Len(repaired) = n /\ DOMAIN repaired = 1 .. n
    BY <2>1, <2>2
  <2>4. QED
    BY <2>3 DEF T
<1>5. RepairMultiPolygon(polygons, Repair) = kept
  BY DEF RepairMultiPolygon, Repair
<1> HIDE DEF repaired
<1>6. KeptPrefix(Seq(Rings), repaired, good, n, kept)
  <2> HIDE DEF good
  <2>1. QED
    BY <1>4, KeptIsGood
<1>7. /\ kept \in Seq(Seq(Rings))
      /\ \A i \in 1 .. Len(kept) : kept[i] \in good
  <2> HIDE DEF kept
  <2>1. QED
    BY <1>6 DEF KeptPrefix
<1>8. view \in good
  <2> HIDE DEF kept, good
  <2>1. PICK i \in DOMAIN kept : view = kept[i]
    BY <1>5 DEF ToSet
  <2>2. i \in 1 .. Len(kept)
    BY <1>7, <2>1
  <2>3. QED
    BY <1>7, <2>1, <2>2
<1>9. PICK i \in 1 .. n : view = RepairPolygonRings(polygons[i], Repair)
  BY <1>2, <1>4, <1>8 DEF ToSet
<1>10. view # << >> /\ polygons[i] \in Seq(Rings) /\ polygons[i] # << >>
  BY <1>1, <1>8
<1>11. QED
  BY <1>9, <1>10, RepairedPolygonIsValid

(* Whatever vertices concurrent edits leave in a ring: after all repairs   *)
(* the views of polygons and multi-polygons pass every check that          *)
(* ValidatePolygonRings makes itself (RepairPolygonRings,                  *)
(* repairGeometryView).                                                    *)
THEOREM RepairedViewsAlwaysPass == Spec => []RepairedViewsPass
<1>1. RingOfPositions => RepairedViewsPass
  <2>1. SUFFICES ASSUME RingOfPositions, NEW rings \in Polygons
                 PROVE  /\ RepairPolygonRings(rings, Repair) # << >> =>
                             ValidPolygonRings(RepairPolygonRings(rings, Repair))
                        /\ \A view \in ToSet(RepairMultiPolygon(
                                               << rings, << ExportRing(Shell) >> >>, Repair)) :
                             ValidPolygonRings(view)
    BY DEF RepairedViewsPass
  <2>2. rings \in Seq(Rings) /\ rings # << >>
    BY <2>1, PolygonsAreRings
  <2>3. ExportRing(Shell) \in Rings
    BY PositionAssumption, PointsOfExport
  <2> DEFINE shell == << ExportRing(Shell) >>
             both == << rings, shell >>
  <2>4. shell \in Seq(Rings) /\ shell # << >>
    BY <2>3
  <2> HIDE DEF shell
  <2>5. both \in Seq(Seq(Rings)) /\ \A i \in 1 .. Len(both) : both[i] # << >>
    BY <2>2, <2>4
  <2> HIDE DEF both
  <2>6. \A view \in ToSet(RepairMultiPolygon(both, Repair)) : ValidPolygonRings(view)
    BY <2>5, RepairedViewsAreValid
  <2>7. RepairPolygonRings(rings, Repair) # << >> =>
          ValidPolygonRings(RepairPolygonRings(rings, Repair))
    BY <2>2, RepairedPolygonIsValid
  <2>8. QED
    BY <2>6, <2>7 DEF both, shell
<1>2. QED
  BY <1>1, RingIsSequence, PTL

(* Whichever repairs are selected, they change neither the area of a ring  *)
(* that stays nor, applied again, anything at all (RepairPolygonRings).    *)
THEOREM RepairsAlwaysKeepTheShape == Spec => []RepairsKeepTheShape
<1>1. RingOfPositions => RepairsKeepTheShape
  <2>1. ASSUME RingOfPositions, NEW rings \in Polygons, NEW repairs \in SUBSET Repair
        PROVE  LET repaired == RepairPolygonRings(rings, repairs)
                   Size(r)  == LET area == SignedArea(r) IN IF area < 0 THEN - area ELSE area
               IN  /\ \A i \in DOMAIN repaired :
                        /\ Size(repaired[i]) \in {Size(r) : r \in ToSet(rings)}
                        /\ Len(repaired) = Len(rings) => Size(repaired[i]) = Size(rings[i])
                   /\ repaired # << >> => RepairPolygonRings(repaired, repairs) = repaired
    <3> DEFINE repaired == RepairPolygonRings(rings, repairs)
               Size(r)  == LET area == SignedArea(r) IN IF area < 0 THEN - area ELSE area
    <3>1. rings \in Seq(Rings) /\ rings # << >>
      BY <2>1, PolygonsAreRings
    <3>2. /\ PolygonIsRepaired(repaired, repairs)
          /\ \A i \in 1 .. Len(repaired) : \E j \in 1 .. Len(rings) : HasAreaOf(repaired[i], rings[j])
          /\ Len(repaired) = Len(rings) =>
               \A i \in 1 .. Len(repaired) : HasAreaOf(repaired[i], rings[i])
      BY <3>1, PolygonIsLeftRepaired
    <3>3. \A r, q : HasAreaOf(r, q) => Size(r) = Size(q)
      BY DEF HasAreaOf, Magnitude
    <3> HIDE DEF repaired, Size
    <3>4. DOMAIN repaired = 1 .. Len(repaired)
      BY <3>2 DEF PolygonIsRepaired
    <3>5. ASSUME NEW i \in DOMAIN repaired
          PROVE  /\ Size(repaired[i]) \in {Size(r) : r \in ToSet(rings)}
                 /\ Len(repaired) = Len(rings) => Size(repaired[i]) = Size(rings[i])
      <4>1. PICK j \in 1 .. Len(rings) : HasAreaOf(repaired[i], rings[j])
        BY <3>2, <3>4
      <4>2. rings[j] \in ToSet(rings)
        BY <3>1 DEF ToSet
      <4>3. Size(repaired[i]) = Size(rings[j])
        BY <3>3, <4>1
      <4>4. QED
        BY <3>2, <3>3, <3>4, <4>2, <4>3
    <3>6. repaired # << >> => RepairPolygonRings(repaired, repairs) = repaired
      BY <3>2, PolygonStays
    <3>7. QED
      BY <3>5, <3>6 DEF repaired, Size
  <2>2. QED
    BY <2>1 DEF RepairsKeepTheShape
<1>2. QED
  BY <1>1, RingIsSequence, PTL
=============================================================================
