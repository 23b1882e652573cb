--------------------------- MODULE SiteClocksProofs ---------------------------
(***************************************************************************)
(* Facts about the operators of SiteClocks, for every MaxTimestamp.        *)
(***************************************************************************)
EXTENDS SiteClocks, FiniteSetTheorems, WellFoundedInduction, NaturalsInduction, TLAPS

(* A non-empty set of naturals has a least element.                        *)
LEMMA LeastNumber ==
  ASSUME NEW S \in SUBSET Nat, S # {}
  PROVE  \E m \in S : \A n \in S : m <= n
<1>1. \E m \in S : \A n \in S : ~ (<<n, m>> \in OpToRel(<, Nat))
  BY NatLessThanWellFounded, WFMin, Zenon
<1>2. PICK m \in S : \A n \in S : ~ (<<n, m>> \in OpToRel(<, Nat))
  BY <1>1
<1>3. OpToRel(<, Nat) = {p \in Nat \X Nat : p[1] < p[2]}
  BY DEF OpToRel
<1>4. ASSUME NEW n \in S PROVE m <= n
  <2>1. ~ (<<n, m>> \in {p \in Nat \X Nat : p[1] < p[2]})
    BY <1>2, <1>3, Zenon
  <2>2. QED
    BY <2>1
<1>5. QED
  BY <1>4

(* Max of FiniteSetsExt is the greatest element of a set of counts.        *)
LEMMA MaxOfCounts ==
  ASSUME NEW S \in SUBSET Count, S # {}
  PROVE  Max(S) \in S /\ \A n \in S : Max(S) >= n
<1> DEFINE Above == {b \in Nat : \A n \in S : b >= n}
<1>1. Above # {}
  BY MaxTimestampAssumption DEF Count
<1>2. PICK m \in Above : \A b \in Above : m <= b
  BY <1>1, LeastNumber
<1>3. m \in S
  <2>1. SUFFICES ASSUME m \notin S PROVE FALSE
    OBVIOUS
  <2>2. PICK n \in S : TRUE
    OBVIOUS
  <2>3. \A k \in S : k < m
    BY <1>2, <2>1, MaxTimestampAssumption DEF Count
  <2>4. m - 1 \in Above
    BY <2>2, <2>3, MaxTimestampAssumption DEF Count
  <2>5. QED
    BY <1>2, <2>4
<1>4. QED
  BY <1>2, <1>3 DEF Max

(* The loop of observe ends, at the first number that is missing.          *)
LEMMA AdvanceStops ==
  ASSUME NEW n \in Count, NEW S \in SUBSET Number
  PROVE  /\ Advance(n, S) \in Count
         /\ Advance(n, S) >= n
         /\ (n+1) .. Advance(n, S) \subseteq S
         /\ Advance(n, S) + 1 \notin S
<1> DEFINE Missing == {k \in Nat : k > n /\ k \notin S}
<1>1. MaxTimestamp \in Missing
  BY MaxTimestampAssumption DEF Count, Number
<1>2. PICK k \in Missing : \A j \in Missing : k <= j
  BY <1>1, LeastNumber
<1>3. k - 1 \in n .. MaxTimestamp
  BY <1>1, <1>2, MaxTimestampAssumption DEF Count
<1>4. (n+1) .. (k-1) \subseteq S
  BY <1>2 DEF Count
<1>5. (k-1) + 1 \notin S
  BY <1>2
<1>6. /\ Advance(n, S) \in n .. MaxTimestamp
      /\ (n+1) .. Advance(n, S) \subseteq S
      /\ Advance(n, S) + 1 \notin S
  BY <1>3, <1>4, <1>5 DEF Advance
<1>7. Advance(n, S) \in Count
  <2>1. CASE Advance(n, S) = n
    BY <2>1
  <2>2. CASE Advance(n, S) > n
    BY <1>6, <2>2, MaxTimestampAssumption DEF Count, Number
  <2>3. QED
    BY <1>6, <2>1, <2>2 DEF Count
<1>8. QED
  BY <1>6, <1>7 DEF Count

(* It is the only place where the loop can end.                            *)
LEMMA AdvanceUnique ==
  ASSUME NEW n \in Count, NEW S \in SUBSET Number, NEW m \in Nat,
         m >= n, (n+1) .. m \subseteq S, m + 1 \notin S
  PROVE  Advance(n, S) = m
<1> DEFINE a == Advance(n, S)
<1>1. /\ a \in Nat
      /\ a >= n
      /\ (n+1) .. a \subseteq S
      /\ a + 1 \notin S
  BY AdvanceStops, MaxTimestampAssumption DEF Count
<1>2. ~ (a < m)
  BY <1>1 DEF Count
<1>3. ~ (m < a)
  BY <1>1 DEF Count
<1>4. QED
  BY <1>1, <1>2, <1>3

(* The state of a frontier clock, and what it stands for: the numbers up   *)
(* to the frontier and the staged ones.                                    *)
ClockState == [frontier : Count, staged : SUBSET Number]

Held(f) == (1 .. f.frontier) \cup f.staged

(* Observing a batch adds exactly its numbers to what a clock holds, never *)
(* moves the frontier back, and leaves a real gap before anything staged.  *)
LEMMA ObserveAllExact ==
  ASSUME NEW f \in ClockState, NEW seqs \in SUBSET Number
  PROVE  LET g == ObserveAll(f, seqs)
         IN  /\ g \in ClockState
             /\ g.frontier >= f.frontier
             /\ Held(g) = Held(f) \cup seqs
             /\ \A n \in g.staged : n > g.frontier + 1
<1> DEFINE known == f.staged \cup seqs
           m == Advance(f.frontier, known)
           g == ObserveAll(f, seqs)
<1>1. f.frontier \in Count /\ known \in SUBSET Number
  BY DEF ClockState
<1>2. /\ m \in Count
      /\ m >= f.frontier
      /\ (f.frontier + 1) .. m \subseteq known
      /\ m + 1 \notin known
  BY <1>1, AdvanceStops
<1>3. g = [frontier |-> m, staged |-> {n \in known : n > m}]
  BY DEF ObserveAll
<1> HIDE DEF m, known, g
<1>4. g \in ClockState
  BY <1>1, <1>2, <1>3 DEF ClockState
<1>5. g.frontier >= f.frontier
  BY <1>2, <1>3
<1>6. Held(g) = Held(f) \cup seqs
  <2>1. Held(g) = (1 .. m) \cup {n \in known : n > m}
    BY <1>3 DEF Held
  <2>2. (1 .. m) \cup {n \in known : n > m} = (1 .. f.frontier) \cup known
    <3>1. ASSUME NEW n \in 1 .. m PROVE n \in (1 .. f.frontier) \cup known
      BY <1>1, <1>2, MaxTimestampAssumption DEF Count
    <3>2. ASSUME NEW n \in 1 .. f.frontier PROVE n \in 1 .. m
      BY <1>1, <1>2, MaxTimestampAssumption DEF Count
    <3>3. ASSUME NEW n \in known PROVE n \in (1 .. m) \cup {k \in known : k > m}
      BY <1>1, <1>2, MaxTimestampAssumption DEF Count, Number
    <3>4. QED
      BY <3>1, <3>2, <3>3
  <2>3. Held(f) \cup seqs = (1 .. f.frontier) \cup known
    BY DEF Held, known
  <2>4. QED
    BY <2>1, <2>2, <2>3
<1>7. ASSUME NEW n \in g.staged
      PROVE  n > g.frontier + 1
  <2>1. n \in known /\ n > m
    BY <1>3
  <2>2. n # m + 1
    BY <1>2, <2>1
  <2>3. QED
    BY <1>1, <1>2, <1>3, <2>1, <2>2, MaxTimestampAssumption DEF Count, Number
<1>8. QED
  BY <1>4, <1>5, <1>6, <1>7 DEF g

-----------------------------------------------------------------------------
(***************************************************************************)
(* Finite sets of operations in stamp order.                               *)
(***************************************************************************)
LEMMA MinimalSubset ==
  ASSUME NEW S, IsFiniteSet(S), NEW Bad \in SUBSET (SUBSET S), Bad # {}
  PROVE  \E T \in Bad : \A U \in Bad : U \subseteq T => U = T
<1>1. IsWellFoundedOn(StrictSubsetOrdering(S), SUBSET S)
  BY FS_StrictSubsetOrderingWellFounded, FS_FiniteSubsetsOfFinite, Zenon
<1>2. PICK T \in Bad : \A U \in Bad : ~ (<<U, T>> \in StrictSubsetOrdering(S))
  BY <1>1, WFMin, Zenon
<1>3. ASSUME NEW U \in Bad, U \subseteq T
      PROVE  U = T
  BY <1>2, <1>3 DEF StrictSubsetOrdering
<1>4. QED
  BY <1>3

Stamped(op) == op.ts \in Nat /\ op.site \in Nat /\ op.seq \in Nat

LEMMA StampsAreOrdered ==
  ASSUME NEW a, NEW b, Stamped(a), Stamped(b)
  PROVE  /\ ~ Newer(a, a)
         /\ Newer(a, b) \/ Newer(b, a) \/ StampOf(a) = StampOf(b)
         /\ ~ (Newer(a, b) /\ Newer(b, a))
         /\ StampOf(a) = StampOf(b) => ~ Newer(a, b)
BY DEF Stamped, Newer, Less, StampOf

LEMMA NewerIsTransitive ==
  ASSUME NEW a, NEW b, NEW c, Stamped(a), Stamped(b), Stamped(c), ~ Newer(b, a), Newer(b, c)
  PROVE  ~ Newer(c, a)
BY DEF Stamped, Newer, Less

(* A finite set of operations has a newest one.                            *)
LEMMA NewestExists ==
  ASSUME NEW S, IsFiniteSet(S), S # {}, \A op \in S : Stamped(op)
  PROVE  Newest(S) \in S /\ \A op \in S : ~ Newer(op, Newest(S))
<1> DEFINE Last(T) == \E m \in T : \A op \in T : ~ Newer(op, m)
           Bad == {T \in SUBSET S : T # {} /\ ~ Last(T)}
<1>1. Bad = {}
  <2> SUFFICES ASSUME Bad # {} PROVE FALSE
    OBVIOUS
  <2>1. PICK T \in Bad : \A U \in Bad : U \subseteq T => U = T
    <3>1. Bad \in SUBSET (SUBSET S)
      OBVIOUS
    <3> HIDE DEF Bad
    <3>2. QED
      BY <3>1, MinimalSubset
  <2>2. PICK x \in T : TRUE
    BY <2>1
  <2>3. CASE T = {x}
    <3>1. Last(T)
      BY <2>1, <2>3, StampsAreOrdered
    <3>2. QED
      BY <2>1, <3>1
  <2>4. CASE T # {x}
    <3>1. T \ {x} \in SUBSET S /\ T \ {x} # {} /\ T \ {x} # T
      BY <2>1, <2>2, <2>4
    <3>2. Last(T \ {x})
      BY <2>1, <3>1
    <3>3. PICK m \in T \ {x} : \A op \in T \ {x} : ~ Newer(op, m)
      BY <3>2
    <3>4. Stamped(x) /\ Stamped(m) /\ \A op \in T : Stamped(op)
      BY <2>1, <2>2, <3>3
    <3>5. CASE Newer(x, m)
      <4>1. ASSUME NEW op \in T PROVE ~ Newer(op, x)
        <5>1. CASE op = x
          BY <3>4, <5>1, StampsAreOrdered
        <5>2. CASE op # x
          <6>1. ~ Newer(op, m)
            BY <3>3, <5>2
          <6>2. QED
            BY <3>4, <3>5, <6>1, NewerIsTransitive DEF Stamped, Newer, Less
        <5>3. QED
          BY <5>1, <5>2
      <4>2. Last(T)
        BY <2>2, <4>1
      <4>3. QED
        BY <2>1, <4>2
    <3>6. CASE ~ Newer(x, m)
      <4>1. Last(T)
        BY <3>3, <3>6
      <4>2. QED
        BY <2>1, <4>1
    <3>7. QED
      BY <3>5, <3>6
  <2>5. QED
    BY <2>3, <2>4
<1>2. Last(S)
  BY <1>1
<1>3. QED
  BY <1>2 DEF Newest

(* An identity stands for one operation.                                   *)
OneEach(ops) == \A a \in ops, b \in ops : RefOf(a) = RefOf(b) => a = b

LEMMA NewestIs ==
  ASSUME NEW S, IsFiniteSet(S), \A op \in S : Stamped(op), OneEach(S),
         NEW m \in S, \A op \in S : ~ Newer(op, m)
  PROVE  Newest(S) = m
<1>1. Newest(S) \in S /\ ~ Newer(m, Newest(S))
  BY NewestExists
<1>2. StampOf(Newest(S)) = StampOf(m)
  BY <1>1, StampsAreOrdered
<1>3. QED
  BY <1>1, <1>2 DEF StampOf, RefOf, OneEach

(* One more operation is the newest or changes nothing.                    *)
LEMMA NewestOfMore ==
  ASSUME NEW S, NEW op, IsFiniteSet(S), \A a \in S \cup {op} : Stamped(a), OneEach(S \cup {op})
  PROVE  Newest(S \cup {op}) =
           IF S = {} \/ Newer(op, Newest(S)) THEN op ELSE Newest(S)
<1>1. IsFiniteSet(S \cup {op})
  BY FS_AddElement
<1>2. CASE S = {}
  BY <1>1, <1>2, StampsAreOrdered, NewestIs
<1>3. CASE S # {}
  <2>1. Newest(S) \in S /\ \A a \in S : ~ Newer(a, Newest(S))
    BY <1>3, NewestExists
  <2>2. CASE Newer(op, Newest(S))
    <3>1. \A a \in S \cup {op} : ~ Newer(a, op)
      <4>1. ASSUME NEW a \in S PROVE ~ Newer(a, op)
        BY <2>1, <2>2 DEF Stamped, Newer, Less
      <4>2. QED
        BY <4>1, StampsAreOrdered
    <3>2. QED
      BY <1>1, <2>2, <3>1, NewestIs
  <2>3. CASE ~ Newer(op, Newest(S))
    BY <1>1, <1>3, <2>1, <2>3, NewestIs
  <2>4. QED
    BY <2>2, <2>3
<1>4. QED
  BY <1>2, <1>3

Orderly(ops) == IsFiniteSet(ops) /\ OneEach(ops) /\ \A op \in ops : Stamped(op)

Older(ops, op) == {a \in ops : Newer(op, a)}

(* What holds of the empty set and of every operation with all that are    *)
(* older, if it holds of those, holds of the whole batch.                  *)
LEMMA StampInduction ==
  ASSUME NEW ops, Orderly(ops), NEW Good, {} \in Good,
         \A op \in ops : Older(ops, op) \in Good => Older(ops, op) \cup {op} \in Good
  PROVE  ops \in Good
<1> DEFINE Prefix(done) == \A a \in done, b \in ops \ done : Newer(b, a)
           Bad == {done \in SUBSET ops : Prefix(done) /\ done \notin Good}
<1>1. IsFiniteSet(ops) /\ OneEach(ops) /\ \A op \in ops : Stamped(op)
  BY DEF Orderly
<1>2. SUFFICES ASSUME ops \notin Good PROVE FALSE
  OBVIOUS
<1>3. Bad # {}
  BY <1>2
<1>4. PICK T \in Bad : \A U \in Bad : U \subseteq T => U = T
  <2>1. Bad \in SUBSET (SUBSET ops)
    OBVIOUS
  <2> HIDE DEF Bad
  <2>2. QED
    BY <1>1, <1>3, <2>1, MinimalSubset
<1>5. T \in SUBSET ops /\ Prefix(T) /\ T \notin Good /\ T # {}
  BY <1>4
<1> DEFINE m == Newest(T)
<1>6. m \in T /\ \A a \in T : ~ Newer(a, m)
  BY <1>1, <1>5, FS_Subset, NewestExists
<1>7. ASSUME NEW a \in T, a # m
      PROVE  Newer(m, a)
  <2>1. StampOf(a) # StampOf(m)
    BY <1>1, <1>5, <1>6, <1>7 DEF OneEach, StampOf, RefOf
  <2>2. Stamped(a) /\ Stamped(m)
    BY <1>1, <1>5, <1>6
  <2> HIDE DEF m
  <2>3. QED
    BY <1>6, <2>1, <2>2, StampsAreOrdered
<1> HIDE DEF m
<1>8. Older(ops, m) = T \ {m}
  <2>1. ASSUME NEW a \in ops, Newer(m, a)
        PROVE  a \in T /\ a # m
    <3>1. Stamped(a) /\ Stamped(m) /\ m \in ops
      BY <1>1, <1>5, <1>6
    <3>2. a # m
      BY <2>1, <3>1, StampsAreOrdered
    <3>3. ~ Newer(a, m)
      BY <2>1, <3>1, StampsAreOrdered
    <3>4. QED
      BY <1>5, <1>6, <3>2, <3>3
  <2>2. QED
    BY <1>5, <1>7, <2>1 DEF Older
<1>9. Prefix(T \ {m})
  BY <1>5, <1>6, <1>7
<1>10. T \ {m} \in Good
  BY <1>4, <1>5, <1>6, <1>9
<1>11. Older(ops, m) \cup {m} = T
  BY <1>6, <1>8
<1>12. QED
  BY <1>5, <1>6, <1>8, <1>10, <1>11

(* The newest of an operation and all that are older is that operation.    *)
LEMMA NewestOfPrefix ==
  ASSUME NEW ops, Orderly(ops), NEW op \in ops
  PROVE  /\ Older(ops, op) \cup {op} \in SUBSET ops
         /\ Newest(Older(ops, op) \cup {op}) = op
         /\ (Older(ops, op) \cup {op}) \ {op} = Older(ops, op)
<1> DEFINE done == Older(ops, op) \cup {op}
<1>1. IsFiniteSet(ops) /\ OneEach(ops) /\ \A a \in ops : Stamped(a)
  BY DEF Orderly
<1>2. done \in SUBSET ops /\ IsFiniteSet(done) /\ OneEach(done)
  BY <1>1, FS_Subset DEF Older, OneEach
<1>3. \A a \in done : ~ Newer(a, op)
  BY <1>1, StampsAreOrdered DEF Older
<1>4. Newest(done) = op
  BY <1>1, <1>2, <1>3, NewestIs
<1>5. done \ {op} = Older(ops, op)
  BY <1>1, StampsAreOrdered DEF Older
<1>6. QED
  BY <1>2, <1>4, <1>5

(* What makes the loop over a batch end.                                   *)
LEMMA BatchesHaveSizes ==
  ASSUME NEW ops, Orderly(ops)
  PROVE  \E size :
           /\ \A done \in SUBSET ops : size[done] \in Nat /\ size[done] <= size[ops]
           /\ \A done \in SUBSET ops : done # {} =>
                Newest(done) \in done /\ size[done \ {Newest(done)}] < size[done]
<1> DEFINE size == [done \in SUBSET ops |-> Cardinality(done)]
<1>1. IsFiniteSet(ops) /\ \A a \in ops : Stamped(a)
  BY DEF Orderly
<1>2. ASSUME NEW done \in SUBSET ops
      PROVE  /\ Cardinality(done) \in Nat
             /\ Cardinality(done) <= Cardinality(ops)
             /\ done # {} => /\ Newest(done) \in done
                             /\ Cardinality(done \ {Newest(done)}) < Cardinality(done)
  <2>1. IsFiniteSet(done) /\ Cardinality(done) <= Cardinality(ops)
    BY <1>1, FS_Subset
  <2>2. Cardinality(done) \in Nat
    BY <2>1, FS_CardinalityType
  <2>3. done # {} => Newest(done) \in done
    BY <1>1, <2>1, NewestExists
  <2>4. done # {} => Cardinality(done \ {Newest(done)}) = Cardinality(done) - 1
    BY <2>1, <2>3, FS_RemoveElement
  <2>5. QED
    BY <2>1, <2>2, <2>3, <2>4
<1>3. \A done \in SUBSET ops : done # {} => done \ {Newest(done)} \in SUBSET ops
  OBVIOUS
<1>4. /\ \A done \in SUBSET ops : size[done] \in Nat /\ size[done] <= size[ops]
      /\ \A done \in SUBSET ops : done # {} =>
           Newest(done) \in done /\ size[done \ {Newest(done)}] < size[done]
  BY <1>2, <1>3
<1>5. QED
  BY <1>4
=============================================================================
