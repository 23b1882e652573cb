------------------------ MODULE GeometryReplicasProofs ------------------------
(***************************************************************************)
(* What holds of replicas of a geometry, for any number of them and of     *)
(* peers, any operations and any delivery: the inductive invariant, the    *)
(* properties that rest on it, the sequential replay that a geometry       *)
(* equals, and the snapshot that brings it back.                           *)
(***************************************************************************)
EXTENDS GeometryEngineProofs

-----------------------------------------------------------------------------
(***************************************************************************)
(* An operation nobody can have referred to releases nothing.              *)
(***************************************************************************)
LEMMA OldestExists ==
  ASSUME NEW ops, Orderly(ops), ops # {}
  PROVE  \E m \in ops : \A o \in ops : ~ Newer(m, o)
<1> DEFINE HasOldest(S) == \E m \in S : \A o \in S : ~ Newer(m, o)
           Good == { S \in SUBSET ops : S = {} \/ HasOldest(S) }
<1>1. \A o \in ops : Stamped(o)
  BY DEF Orderly
<1>2. {} \in Good
  OBVIOUS
<1>3. ASSUME NEW op \in ops, Older(ops, op) \in Good
      PROVE  Older(ops, op) \cup {op} \in Good
  <2> DEFINE S == Older(ops, op)
  <2>1. S \in SUBSET ops /\ \A o \in S : Newer(op, o)
    BY DEF Older
  <2>2. CASE S = {}
    <3>1. S \cup {op} = {op} /\ ~ Newer(op, op)
      BY <1>1, <2>2, StampsAreOrdered
    <3>2. HasOldest(S \cup {op})
      BY <3>1
    <3>3. QED
      BY <2>1, <3>2
  <2>3. CASE HasOldest(S)
    <3>1. PICK m \in S : \A o \in S : ~ Newer(m, o)
      BY <2>3
    <3>2. ~ Newer(m, op)
      BY <1>1, <2>1, <3>1, StampsAreOrdered
    <3>3. HasOldest(S \cup {op})
      BY <3>1, <3>2
    <3>4. QED
      BY <2>1, <3>3
  <2>4. S = {} \/ HasOldest(S)
    BY <1>3
  <2>5. QED
    BY <2>2, <2>3, <2>4
<1>4. ops \in Good
  <2> HIDE DEF Good
  <2>1. QED
    BY <1>2, <1>3, StampInduction
<1>5. QED
  BY <1>4

(* What an operation needs comes from the base or from what it refers to.  *)
LEMMA ReadyWithReferred ==
  ASSUME NEW I, NEW A, NEW g, Effects(I, A, g), NEW B, NEW h, Effects(I, B, h),
         NEW o, Ready(h, o), \A b \in B : Refers(o, b) => b \in A
  PROVE  Ready(g, o)
<1>1. ASSUME KnowsPart(h, o.part)
      PROVE  KnowsPart(g, o.part)
  <2>1. PartFrom(B, o.part, h.part[o.part].key)
    BY <1>1, PartComesFrom DEF KnowsPart
  <2>2. PartFrom(A, o.part, h.part[o.part].key)
    BY <2>1 DEF PartFrom, Refers
  <2>3. QED
    BY <2>2, PartIsThere
<1>2. ASSUME KnowsRing(h, o.part, o.ring)
      PROVE  KnowsRing(g, o.part, o.ring)
  <2> DEFINE key == h.part[o.part].ring[o.ring].key
             pk == h.part[o.part].key
  <2>1. KnowsPart(g, o.part) /\ KnowsPart(h, o.part)
    BY <1>1, <1>2 DEF KnowsRing
  <2>2. RingFrom(B, o.part, o.ring, pk, key)
    BY <1>2, RingComesFrom
  <2>3. pk = g.part[o.part].key
    BY <2>1, SameKeys
  <2> HIDE DEF key, pk
  <2>4. RingFrom(A, o.part, o.ring, pk, key)
    BY <2>2 DEF RingFrom, Refers
  <2>5. QED
    BY <2>1, <2>3, <2>4, RingIsThere
<1>3. ASSUME KnowsVertex(h, o.part, o.ring, o.vertex)
      PROVE  KnowsVertex(g, o.part, o.ring, o.vertex)
  <2> DEFINE x == h.part[o.part].ring[o.ring].seq.vertex[o.vertex]
             key == x.key
             parent == x.parent
             pk == h.part[o.part].key
             rk == h.part[o.part].ring[o.ring].key
  <2>1. KnowsRing(g, o.part, o.ring) /\ KnowsRing(h, o.part, o.ring)
        /\ KnowsPart(g, o.part) /\ KnowsPart(h, o.part)
    BY <1>2, <1>3 DEF KnowsVertex, KnowsRing
  <2>2. VertexFrom(B, o.part, o.ring, o.vertex, pk, rk, key, parent)
    BY <1>3, VertexComesFrom
  <2>3. pk = g.part[o.part].key /\ rk = g.part[o.part].ring[o.ring].key
    BY <2>1, SameKeys
  <2> HIDE DEF key, pk, rk, parent
  <2>4. VertexFrom(A, o.part, o.ring, o.vertex, pk, rk, key, parent)
    BY <2>2 DEF VertexFrom, At, Refers
  <2>5. QED
    BY <2>1, <2>3, <2>4, VertexIsThere
<1>4. QED
  BY <1>1, <1>2, <1>3 DEF Ready

LEMMA LackingIsNotReady ==
  ASSUME NEW g, NEW o, NEW dep, Lacks(g, o, dep)
  PROVE  ~ Ready(g, o)
BY DEF Lacks, Ready

LEMMA NothingIsReleased ==
  ASSUME NEW I, NEW L, NEW R, NEW g, NEW op, NewArrival(I, L, R, g, op),
         \A o \in L : ~ Refers(o, op),
         NEW told, NEW h, Arrives(L, R, g, op, told, h)
  PROVE  WaitingOps(h) \ {op} = WaitingOps(g)
<1> DEFINE M == L \cup {op}
           A == Done(g, L)
           B == Done(h, M)
           X == WaitingOps(g) \ WaitingOps(h)
<1>1. /\ Exchange(I) /\ L \subseteq I /\ M \subseteq I
      /\ Settled(L, R, g) /\ Settled(M, Overlay(R, told), h)
      /\ WaitingOps(h) \subseteq WaitingOps(g) \cup {op}
  BY DEF NewArrival, Arrives, Settles
<1>2. op \notin WaitingOps(g) /\ WaitingOps(g) \subseteq L
  BY OpSetting
<1>3. SUFFICES ASSUME X # {} PROVE FALSE
  BY <1>1, <1>2
<1>4. Orderly(X)
  <2>1. Orderly(I) /\ X \subseteq I
    BY <1>1, <1>2 DEF Exchange
  <2> HIDE DEF X
  <2>2. QED
    BY <2>1, FS_Subset DEF Orderly, OneEach
<1>5. PICK o \in X : \A b \in X : ~ Newer(o, b)
  <2> HIDE DEF X
  <2>1. QED
    BY <1>3, <1>4, OldestExists
<1>6. o \in L /\ o \in WaitingOps(g) /\ Ready(h, o)
  BY <1>1, <1>2, <1>5 DEF Settled
<1>7. Effects(I, A, g) /\ Effects(I, B, h) /\ A \subseteq B
  <2>1. A \subseteq I /\ B \subseteq I /\ Reflects(g, A) /\ Reflects(h, B)
    BY <1>1 DEF Settled, Done
  <2>2. A \subseteq B
    BY <1>1 DEF Done, NewArrival
  <2> HIDE DEF A, B
  <2>3. QED
    BY <1>1, <2>1, <2>2 DEF Effects
<1>8. ASSUME NEW b \in B, Refers(o, b)
      PROVE  b \in A
  <2>1. Newer(o, b)
    BY <1>1, <1>6, <1>8 DEF Exchange, Done
  <2>2. b \notin X /\ b # op
    BY <1>5, <1>6, <1>8, <2>1
  <2>3. QED
    BY <1>8, <2>2 DEF Done
<1> HIDE DEF A, B
<1>9. Ready(g, o)
  BY <1>6, <1>7, <1>8, ReadyWithReferred
<1>10. \E dep : InQueue(g, dep, o)
  BY <1>1, <1>6, WaitingIs DEF Settled
<1>11. QED
  BY <1>1, <1>9, <1>10, LackingIsNotReady DEF Settled, Waits

-----------------------------------------------------------------------------
(***************************************************************************)
(* What replicas and peers issue.                                          *)
(***************************************************************************)
LEMMA AddressesAreKnown ==
  /\ \A g : \A ring \in Rings(g) : KnowsRing(g, ring[1], ring[2])
                                     /\ ring = << ring[1], ring[2] >>
  /\ \A g, p, k : KnowsRing(g, p, k) => << p, k >> \in Rings(g)
  /\ \A g : \A a \in Addresses(g) : KnowsVertex(g, a[1], a[2], a[3])
<1>1. ASSUME NEW g, NEW ring \in Rings(g)
      PROVE  KnowsRing(g, ring[1], ring[2]) /\ ring = << ring[1], ring[2] >>
  <2>1. PICK p \in DOMAIN g.part : ring \in { << p, k >> : k \in DOMAIN g.part[p].ring }
    BY DEF Rings
  <2>2. QED
    BY <2>1 DEF KnowsRing, KnowsPart
<1>2. \A g, p, k : KnowsRing(g, p, k) => << p, k >> \in Rings(g)
  BY DEF Rings, KnowsRing, KnowsPart
<1>3. ASSUME NEW g, NEW a \in Addresses(g)
      PROVE  KnowsVertex(g, a[1], a[2], a[3])
  <2>0. PICK ring \in Rings(g) :
          a \in { << ring[1], ring[2], v >> : v \in DOMAIN VerticesOf(g, ring).vertex }
    BY DEF Addresses
  <2>1. PICK v \in DOMAIN VerticesOf(g, ring).vertex : a = << ring[1], ring[2], v >>
    BY <2>0
  <2>2. KnowsRing(g, ring[1], ring[2])
    BY <1>1
  <2>3. a[1] = ring[1] /\ a[2] = ring[2] /\ a[3] = v
    BY <2>1
  <2>4. QED
    BY <2>1, <2>2, <2>3 DEF KnowsVertex, Has, VerticesOf
<1>4. QED
  BY <1>1, <1>2, <1>3

(* What o addresses in g.                                                  *)
Addressed(g, o, p, k, v) ==
  /\ KnowsVertex(g, p, k, v)
  /\ o.action \in AllActions
  /\ o.part = IF o.action = "add_part" THEN Root ELSE p
  /\ o.ring = IF NeedsRing(o) THEN k ELSE Root
  /\ o.vertex = v \/ (o.vertex = Root /\ o.action \notin {"move_vertex", "delete_vertex"})

LEMMA CommandIs ==
  ASSUME NEW g, NEW site, NEW seq, NEW ts, NEW o \in Commands(g, site, seq, ts)
  PROVE  /\ o.site = site /\ o.seq = seq /\ o.ts = ts
         /\ \E p, k, v : Addressed(g, o, p, k, v)
<1>1. PICK a \in Addresses(g) :
        o \in { Op(site, seq, ts, "insert_vertex", a[1], a[2], Root),
                Op(site, seq, ts, "insert_vertex", a[1], a[2], a[3]),
                Op(site, seq, ts, "move_vertex", a[1], a[2], a[3]),
                Op(site, seq, ts, "delete_vertex", a[1], a[2], a[3]),
                Op(site, seq, ts, "add_ring", a[1], Root, Root),
                Op(site, seq, ts, "remove_ring", a[1], a[2], Root),
                Op(site, seq, ts, "add_part", Root, Root, Root),
                Op(site, seq, ts, "remove_part", a[1], Root, Root) }
  BY DEF Commands
<1> DEFINE p == a[1]
           k == a[2]
           v == a[3]
<1>2. KnowsVertex(g, p, k, v)
  BY AddressesAreKnown
<1> HIDE DEF p, k, v
<1>3. \E action, x, y, z :
        /\ o = Op(site, seq, ts, action, x, y, z)
        /\ \/ action = "insert_vertex" /\ x = p /\ y = k /\ z \in {Root, v}
           \/ action \in {"move_vertex", "delete_vertex"} /\ x = p /\ y = k /\ z = v
           \/ action \in {"add_ring", "remove_part"} /\ x = p /\ y = Root /\ z = Root
           \/ action = "remove_ring" /\ x = p /\ y = k /\ z = Root
           \/ action = "add_part" /\ x = Root /\ y = Root /\ z = Root
  BY <1>1 DEF p, k, v
<1>4. PICK action, x, y, z :
        /\ o = Op(site, seq, ts, action, x, y, z)
        /\ \/ action = "insert_vertex" /\ x = p /\ y = k /\ z \in {Root, v}
           \/ action \in {"move_vertex", "delete_vertex"} /\ x = p /\ y = k /\ z = v
           \/ action \in {"add_ring", "remove_part"} /\ x = p /\ y = Root /\ z = Root
           \/ action = "remove_ring" /\ x = p /\ y = k /\ z = Root
           \/ action = "add_part" /\ x = Root /\ y = Root /\ z = Root
  BY <1>3
<1>5. /\ o.site = site /\ o.seq = seq /\ o.ts = ts /\ o.action = action
      /\ o.part = x /\ o.ring = y /\ o.vertex = z
  BY <1>4 DEF Op
<1>6. Addressed(g, o, p, k, v)
  BY <1>2, <1>4, <1>5 DEF Addressed, AllActions, VertexActions, NeedsRing
<1>7. QED
  BY <1>5, <1>6

(* Of what the operations A have brought about a new one is issued.        *)
Issuing(I, A, g, o) ==
  /\ Effects(I, A, g) /\ \A x \in A : Admits(x)
  /\ o.site \in Site /\ o.seq \in Number /\ o.ts \in Number
  /\ \E p, k, v : Addressed(g, o, p, k, v)

LEMMA IssuedIsOp ==
  ASSUME NEW I, NEW A, NEW g, NEW o, Issuing(I, A, g, o)
  PROVE  IsOp(o)
<1>1. PICK p, k, v : Addressed(g, o, p, k, v)
  BY DEF Issuing
<1>2. Effects(I, A, g) /\ KnowsVertex(g, p, k, v) /\ KnowsRing(g, p, k) /\ KnowsPart(g, p)
  BY <1>1 DEF Issuing, Addressed, KnowsVertex, KnowsRing
<1> DEFINE pk == g.part[p].key
           rk == g.part[p].ring[k].key
<1>3. PartFrom(A, p, pk) /\ PartKey(pk) /\ ReflectsPart(g.part[p], A, p)
  BY <1>2, PartComesFrom DEF KnowsPart
<1>4. RingFrom(A, p, k, pk, rk)
  BY <1>2, RingComesFrom
<1>5. v # Root
  <2>1. Tree(g.part[p].ring[k].seq)
    BY <1>2, KnownRingsAreTrees DEF Effects, KnowsRing
  <2>2. QED
    BY <1>2, <2>1 DEF Tree, Planted, KnowsVertex, Has
<1>6. p = DerivedPartID(pk)
  BY <1>3 DEF ReflectsPart
<1> HIDE DEF pk, rk
<1>7. ASSUME NeedsPart(o), ~ IsMulti
      PROVE  o.part = InitialPartID(0)
  <2>1. p = InitialPartID(0)
    BY <1>3, <1>7 DEF PartFrom, Issuing, Admits
  <2>2. QED
    BY <1>1, <1>7, <2>1 DEF Addressed, NeedsPart
<1>8. ASSUME NeedsRing(o), PartType # "Polygon"
      PROVE  o.ring = BaseRing(o.part)
  <2>1. PICK r \in DOMAIN Shape : k = DerivedRingID(pk, InitialKey(r - 1))
    BY <1>4, <1>8 DEF RingFrom, Issuing, Admits
  <2>2. r - 1 = 0
    <3>1. Len(Shape) = 1
      BY <1>8, GeometryAssumption
    <3>2. QED
      BY <3>1, ShapeIs
  <2>3. k = BaseRing(p)
    BY <1>3, <1>6, <2>1, <2>2, RingIDs
  <2>4. o.action # "add_part"
    BY <1>8 DEF NeedsRing, VertexActions
  <2>5. QED
    BY <1>1, <1>8, <2>3, <2>4 DEF Addressed
<1>9. NeedsVertex(o) => o.vertex # Root
  BY <1>1, <1>5 DEF Addressed, NeedsVertex, VertexActions
<1>10. QED
  BY <1>1, <1>7, <1>8, <1>9 DEF IsOp, Issuing, Addressed

LEMMA IssuedRefersBack ==
  ASSUME NEW I, NEW A, NEW g, NEW o, Issuing(I, A, g, o), NEW b, IsOp(b), Refers(o, b)
  PROVE  \E x \in A : RefOf(x) = RefOf(b)
<1>1. PICK p, k, v : Addressed(g, o, p, k, v)
  BY DEF Issuing
<1>2. Effects(I, A, g) /\ KnowsVertex(g, p, k, v) /\ KnowsRing(g, p, k) /\ KnowsPart(g, p)
  BY <1>1 DEF Issuing, Addressed, KnowsVertex, KnowsRing
<1> DEFINE pk == g.part[p].key
           rk == g.part[p].ring[k].key
           s == g.part[p].ring[k].seq
<1>3. PartFrom(A, p, pk) /\ PartKey(pk) /\ RingKey(rk)
  BY <1>2, PartComesFrom, RingComesFrom DEF KnowsPart
<1>4. RingFrom(A, p, k, pk, rk)
  BY <1>2, RingComesFrom
<1>5. \E key, parent : VertexFrom(A, p, k, v, pk, rk, key, parent)
  BY <1>2, VertexComesFrom
<1>6. pk.initial \in BOOLEAN /\ rk.initial \in BOOLEAN
  BY <1>3, PartKeyIs, RingKeyIs
<1> HIDE DEF pk, rk
<1>7. ASSUME NEW x, Root = AddedPartID(x) \/ Root = AddedRingID(x) \/ Root = InsertedVertexID(x)
      PROVE  FALSE
  BY <1>7 DEF Root, AddedPartID, AddedRingID, InsertedVertexID
<1>8. ASSUME o.part = AddedPartID(b)
      PROVE  \E x \in A : RefOf(x) = RefOf(b)
  <2>1. p = AddedPartID(b)
    BY <1>1, <1>7, <1>8 DEF Addressed
  <2>2. QED
    BY <1>3, <2>1, PartIDs DEF PartFrom
<1>9. ASSUME o.ring = AddedRingID(b)
      PROVE  \E x \in A : RefOf(x) = RefOf(b)
  <2>1. k = AddedRingID(b)
    BY <1>1, <1>7, <1>9 DEF Addressed
  <2>2. \A r \in DOMAIN Shape : DerivedRingID(pk, InitialKey(r - 1)) # AddedRingID(b)
    BY <1>3, RingIDs
  <2>3. \A x : AddedRingID(x) = AddedRingID(b) => RefOf(x) = RefOf(b)
    BY <1>3, RingIDs
  <2>4. QED
    BY <1>4, <2>1, <2>2, <2>3 DEF RingFrom
<1>10. ASSUME o.vertex = InsertedVertexID(b)
       PROVE  \E x \in A : RefOf(x) = RefOf(b)
  <2>1. v = InsertedVertexID(b)
    BY <1>1, <1>7, <1>10 DEF Addressed
  <2>2. \A i : DerivedVertexID(pk, rk, InitialKey(i)) # InsertedVertexID(b)
    BY <1>6, VertexIDs
  <2>3. \A x : InsertedVertexID(x) = InsertedVertexID(b) => RefOf(x) = RefOf(b)
    BY <1>6, VertexIDs
  <2>4. QED
    BY <1>5, <2>1, <2>2, <2>3 DEF VertexFrom, At
<1>11. QED
  BY <1>8, <1>9, <1>10 DEF Refers

-----------------------------------------------------------------------------
(***************************************************************************)
(* Everything that has been issued.                                        *)
(***************************************************************************)
(* Whatever an operation refers to has been issued, and is older.          *)
Grounded(I) ==
  \A o \in I : \A b : IsOp(b) /\ Refers(o, b) => \E x \in I : RefOf(x) = RefOf(b) /\ Newer(o, x)

Exchanged(I) == Orderly(I) /\ (\A o \in I : IsOp(o)) /\ Grounded(I)

LEMMA ExchangedIs ==
  ASSUME NEW I, Exchanged(I)
  PROVE  Exchange(I)
BY DEF Exchanged, Grounded, Exchange, Orderly, OneEach

LEMMA OneMoreIssued ==
  ASSUME NEW I, Exchanged(I), NEW A, A \subseteq I, NEW g, NEW o, Issuing(I, A, g, o),
         \A x \in I : RefOf(x) # RefOf(o), \A x \in A : x.ts < o.ts
  PROVE  /\ Exchanged(I \cup {o}) /\ o \notin I
         /\ \A x \in I : ~ Refers(x, o)
<1>1. IsOp(o) /\ Stamped(o)
  BY IssuedIsOp, OpsAreStamped
<1>2. \A x \in I : ~ Refers(x, o)
  BY <1>1 DEF Exchanged, Grounded
<1>3. Orderly(I \cup {o})
  <2>1. IsFiniteSet(I \cup {o})
    BY FS_AddElement DEF Exchanged, Orderly
  <2>2. OneEach(I \cup {o})
    BY DEF Exchanged, Orderly, OneEach
  <2>3. QED
    BY <1>1, <2>1, <2>2 DEF Exchanged, Orderly
<1>4. Grounded(I \cup {o})
  <2>1. ASSUME NEW b, IsOp(b), Refers(o, b)
        PROVE  \E x \in I \cup {o} : RefOf(x) = RefOf(b) /\ Newer(o, x)
    <3>1. PICK x \in A : RefOf(x) = RefOf(b)
      BY <2>1, IssuedRefersBack
    <3>2. Newer(o, x)
      BY <3>1 DEF Newer, Less
    <3>3. QED
      BY <3>1, <3>2
  <2>2. QED
    BY <2>1 DEF Exchanged, Grounded
<1>5. \A x \in I \cup {o} : IsOp(x)
  BY <1>1 DEF Exchanged
<1>6. QED
  BY <1>2, <1>3, <1>4, <1>5 DEF Exchanged

LEMMA NumbersAre ==
  /\ MaxTimestamp \in Nat /\ MaxTimestamp # 0 /\ 0 \in Count
  /\ \A n : n \in Number <=> n \in Nat /\ n >= 1 /\ n < MaxTimestamp
  /\ \A n : n \in Count <=> n \in Nat /\ n < MaxTimestamp
BY MaxTimestampAssumption DEF Number, Count

LEMMA LatestIs ==
  ASSUME NEW n \in Count, NEW ops, \A o \in ops : o.ts \in Number
  PROVE  /\ LatestTimestamp(n, ops) \in Count /\ n <= LatestTimestamp(n, ops)
         /\ \A o \in ops : o.ts <= LatestTimestamp(n, ops)
<1> DEFINE S == {n} \cup { o.ts : o \in ops }
<1>1. S \in SUBSET Count /\ S # {} /\ n \in S /\ \A o \in ops : o.ts \in S
  BY NumbersAre
<1>2. LatestTimestamp(n, ops) = Max(S)
  BY DEF LatestTimestamp
<1> HIDE DEF S
<1>3. Max(S) \in S /\ \A x \in S : x <= Max(S)
  BY <1>1, MaxOfCounts
<1>4. QED
  BY <1>1, <1>2, <1>3

LEMMA LatestOfMore ==
  ASSUME NEW n \in Count, NEW ops, NEW more, ops \subseteq more, \A o \in more : o.ts \in Number
  PROVE  LatestTimestamp(n, ops) <= LatestTimestamp(n, more)
<1> DEFINE S == {n} \cup { o.ts : o \in ops }
           T == {n} \cup { o.ts : o \in more }
<1>1. S \in SUBSET Count /\ S # {} /\ T \in SUBSET Count /\ S \subseteq T
  BY NumbersAre
<1>2. LatestTimestamp(n, ops) = Max(S) /\ LatestTimestamp(n, more) = Max(T)
  BY DEF LatestTimestamp
<1> HIDE DEF S, T
<1>3. Max(S) \in S /\ \A x \in T : x <= Max(T)
  BY <1>1, MaxOfCounts
<1>4. QED
  BY <1>1, <1>2, <1>3

-----------------------------------------------------------------------------
(***************************************************************************)
(* The invariant.                                                          *)
(***************************************************************************)
IssuedBy(s) == { o \in issued : o.site = s }

ReplicaInv(r) ==
  /\ clock[r] \in Count /\ localSeq[r] \in Count
  /\ log[r] \subseteq issued /\ \A o \in log[r] : o.ts <= clock[r]
  /\ Settled(log[r], reported[r], engine[r])
  /\ \A o \in IssuedBy(r) : o.seq <= localSeq[r]

PeerInv(s) ==
  /\ \A o \in IssuedBy(s) : o.seq <= Cardinality(IssuedBy(s))
  /\ Cardinality(IssuedBy(s)) <= LatestTimestamp(0, issued)

IInv ==
  /\ Exchanged(issued)
  /\ DOMAIN engine = Replica /\ DOMAIN clock = Replica /\ DOMAIN localSeq = Replica
  /\ DOMAIN log = Replica /\ DOMAIN reported = Replica
  /\ \A r \in Replica : ReplicaInv(r)
  /\ \A s \in Peer : PeerInv(s)

LEMMA SettledTells ==
  ASSUME NEW L, NEW R, NEW g, Settled(L, R, g)
  PROVE  /\ DOMAIN R = L /\ Tells(R, R, L, WaitingOps(g))
         /\ \A o \in L : /\ R[o] = "buffered" <=> o \in WaitingOps(g)
                         /\ R[o] = "quarantined" <=> o \notin WaitingOps(g) /\ ~ Admits(o)
         /\ WaitingOps(g) \subseteq L
<1>1. Tells(R, R, L, WaitingOps(g)) /\ Queues(g, L)
  BY DEF Settled
<1>2. DOMAIN R = L /\ \A o \in L : Now(R, R, o) = R[o]
  BY <1>1 DEF Tells, Now
<1>3. WaitingOps(g) \subseteq L
  BY <1>1, WaitingIs DEF Queues
<1>4. QED
  BY <1>1, <1>2, <1>3 DEF Tells

(* A local operation is reported alone: it releases nothing.               *)
LEMMA LocallySettled ==
  ASSUME NEW I, NEW L, NEW R, NEW g, NEW op, NewArrival(I, L, R, g, op),
         \A o \in L : ~ Refers(o, op),
         NEW r, r = EngineApply(g, op), r.outcomes[op] = "applied"
  PROVE  /\ Settled(L \cup {op}, With(R, op, "applied"), r.state) /\ Grows(g, r.state)
         /\ Admits(op) /\ op \notin WaitingOps(r.state)
<1> DEFINE told == r.outcomes
           h == r.state
           M == L \cup {op}
           R1 == Overlay(R, told)
           R2 == With(R, op, "applied")
<1>1. Settles(M, R, g, told, h) /\ WaitingOps(h) \subseteq WaitingOps(g) \cup {op}
  BY EngineApplySettles
<1>2. Settled(M, R1, h) /\ Grows(g, h) /\ DOMAIN told \subseteq M
  BY <1>1 DEF Settles
<1>3. WaitingOps(h) \ {op} = WaitingOps(g)
  <2> HIDE DEF told, h
  <2>1. Arrives(L, R, g, op, told, h)
    BY <1>1 DEF Arrives
  <2>2. QED
    BY <2>1, NothingIsReleased
<1>4. Settled(L, R, g) /\ op \notin L
  BY DEF NewArrival
<1>5. DOMAIN R = L /\ \A o \in L : /\ R[o] = "buffered" <=> o \in WaitingOps(g)
                                   /\ R[o] = "quarantined" <=> o \notin WaitingOps(g) /\ ~ Admits(o)
  BY <1>4, SettledTells
<1>6. DOMAIN R1 = M /\ DOMAIN R1 = DOMAIN told \cup DOMAIN R
  BY <1>2, SettledTells DEF Overlay
<1>7. op \in DOMAIN told
  BY <1>4, <1>5, <1>6
<1>8. R1[op] = "applied"
  BY <1>7 DEF Overlay, Now
<1>9. op \notin WaitingOps(h) /\ Admits(op)
  BY <1>2, <1>8, SettledTells
<1>10. DOMAIN R2 = M /\ R2[op] = "applied" /\ \A o \in L : R2[o] = R[o]
  BY <1>4, <1>5 DEF With
<1> HIDE DEF R2
<1>11. \A o \in M : Now(R2, R2, o) = R2[o]
  BY <1>10 DEF Now
<1>12. Tells(R2, R2, M, WaitingOps(h))
  <2>1. ASSUME NEW o \in M
        PROVE  /\ R2[o] = "buffered" <=> o \in WaitingOps(h)
               /\ R2[o] = "quarantined" <=> o \notin WaitingOps(h) /\ ~ Admits(o)
    <3>1. CASE o = op
      BY <3>1, <1>9, <1>10
    <3>2. CASE o # op
      BY <3>2, <1>3, <1>5, <1>10
    <3>3. QED
      BY <3>1, <3>2
  <2>2. QED
    BY <2>1, <1>10, <1>11 DEF Tells
<1>13. Settled(M, R2, h)
  BY <1>2, <1>12 DEF Settled
<1>14. QED
  BY <1>2, <1>9, <1>13 DEF R2

LEMMA InitialSettled == Settled({}, << >>, NewGeometryState)
<1> DEFINE g == NewGeometryState
<1>1. Reflects(g, {}) /\ g.pending = << >>
  BY InitialReflects
<1> HIDE DEF g
<1>2. DOMAIN g.pending = {}
  BY <1>1
<1>3. WaitingOps(g) = {} /\ \A dep, o : ~ InQueue(g, dep, o)
  BY <1>2 DEF WaitingOps, InQueue
<1>4. Queues(g, {})
  <2>1. IsFunction(<< >>)
    BY DEF IsFunction
  <2>2. QED
    BY <1>1, <1>2, <1>3, <2>1 DEF Queues, Whole, Reflects
<1>5. Done(g, {}) = {}
  BY DEF Done
<1>6. Tells(<< >>, << >>, {}, {})
  BY DEF Tells
<1>7. QED
  BY <1>1, <1>3, <1>4, <1>5, <1>6 DEF Settled, Waits, g

LEMMA InitInv == Init => IInv
<1> SUFFICES ASSUME Init PROVE IInv
  OBVIOUS
<1>1. Exchanged({})
  BY FS_EmptySet DEF Exchanged, Orderly, OneEach, Grounded
<1>2. \A s : IssuedBy(s) = {}
  BY DEF IssuedBy, Init
<1>3. \A r \in Replica : ReplicaInv(r)
  BY <1>2, InitialSettled, NumbersAre DEF ReplicaInv, Init
<1>4. \A s \in Peer : PeerInv(s)
  <2>1. LatestTimestamp(0, {}) \in Count
    BY NumbersAre, LatestIs
  <2>2. issued = {} /\ Cardinality({}) = 0 /\ 0 <= LatestTimestamp(0, {})
    BY <2>1, FS_EmptySet DEF Init, Count
  <2>3. QED
    BY <1>2, <2>2 DEF PeerInv
<1>5. QED
  BY <1>1, <1>3, <1>4 DEF IInv, Init

(* What one step leaves alone.                                             *)
SameReplica(r) ==
  /\ clock'[r] = clock[r] /\ localSeq'[r] = localSeq[r] /\ log'[r] = log[r]
  /\ reported'[r] = reported[r] /\ engine'[r] = engine[r]

LEMMA SameReplicaInv ==
  ASSUME NEW r \in Replica, ReplicaInv(r), SameReplica(r), issued \subseteq issued',
         IssuedBy(r)' \subseteq IssuedBy(r)
  PROVE  ReplicaInv(r)'
BY DEF ReplicaInv, SameReplica

LEMMA StampsAreNumbers ==
  ASSUME IInv
  PROVE  /\ \A o \in issued : o.ts \in Number /\ o.seq \in Number /\ o.site \in Site
         /\ IsFiniteSet(issued)
BY DEF IInv, Exchanged, IsOp, Orderly

LEMMA SamePeerInv ==
  ASSUME NEW s \in Peer, IInv, issued \subseteq issued', \A o \in issued' : o.ts \in Number,
         IssuedBy(s)' = IssuedBy(s)
  PROVE  PeerInv(s)'
<1>1. /\ LatestTimestamp(0, issued) \in Count /\ LatestTimestamp(0, issued') \in Count
      /\ LatestTimestamp(0, issued) <= LatestTimestamp(0, issued')
  BY NumbersAre, StampsAreNumbers, LatestIs, LatestOfMore
<1>2. IsFiniteSet(IssuedBy(s)) /\ Cardinality(IssuedBy(s)) \in Nat
  BY StampsAreNumbers, FS_Subset, FS_CardinalityType DEF IssuedBy
<1>3. QED
  BY <1>1, <1>2, NumbersAre DEF IInv, PeerInv

(* The setting in which r issues op.                                       *)
LEMMA LocalIssue ==
  ASSUME IInv, NEW r \in Replica, ~ Exhausted(r),
         NEW op \in Commands(engine[r], r, localSeq[r] + 1, clock[r] + 1)
  PROVE  /\ op.site = r /\ op.seq = localSeq[r] + 1 /\ op.ts = clock[r] + 1
         /\ Exchanged(issued \cup {op}) /\ op \notin issued
         /\ \A x \in issued : ~ Refers(x, op)
         /\ NewArrival(issued \cup {op}, log[r], reported[r], engine[r], op)
<1> DEFINE A == Done(engine[r], log[r])
<1>1. /\ op.site = r /\ op.seq = localSeq[r] + 1 /\ op.ts = clock[r] + 1
      /\ \E p, k, v : Addressed(engine[r], op, p, k, v)
  BY CommandIs
<1>2. ReplicaInv(r) /\ Exchanged(issued)
  BY DEF IInv
<1>3. Settled(log[r], reported[r], engine[r])
  BY <1>2 DEF ReplicaInv
<1>4. clock[r] \in Count /\ localSeq[r] \in Count /\ log[r] \subseteq issued
  BY <1>2 DEF ReplicaInv
<1>5. op.ts \in Number /\ op.seq \in Number /\ op.site \in Site
  BY <1>1, <1>4, NumbersAre, ReplicaAssumption DEF Exhausted
<1>6. A \subseteq log[r] /\ \A x \in A : Admits(x)
  BY DEF Done
<1>7. Effects(issued, A, engine[r])
  BY <1>2, <1>3, <1>4, <1>6, ExchangedIs DEF Effects, Settled
<1>8. Issuing(issued, A, engine[r], op)
  BY <1>1, <1>5, <1>6, <1>7 DEF Issuing
<1>9. \A x \in issued : RefOf(x) # RefOf(op)
  <2> SUFFICES ASSUME NEW x \in issued, RefOf(x) = RefOf(op) PROVE FALSE
    OBVIOUS
  <2>1. x.site = r /\ x.seq = localSeq[r] + 1
    BY <1>1 DEF RefOf
  <2>2. x.seq <= localSeq[r]
    BY <1>2, <2>1 DEF ReplicaInv, IssuedBy
  <2>3. QED
    BY <1>4, <2>1, <2>2, NumbersAre
<1>10. \A x \in A : x.ts < op.ts
  BY <1>1, <1>2, <1>4, <1>6, NumbersAre, StampsAreNumbers DEF ReplicaInv
<1>11. A \subseteq issued
  BY <1>4, <1>6
<1> HIDE DEF A
<1>12. /\ Exchanged(issued \cup {op}) /\ op \notin issued
       /\ \A x \in issued : ~ Refers(x, op)
  BY <1>2, <1>8, <1>9, <1>10, <1>11, OneMoreIssued
<1>13. Exchange(issued \cup {op})
  BY <1>12, ExchangedIs
<1>14. NewArrival(issued \cup {op}, log[r], reported[r], engine[r], op)
  BY <1>3, <1>4, <1>12, <1>13 DEF NewArrival
<1>15. QED
  BY <1>1, <1>12, <1>14

(* What Apply makes of r.                                                  *)
LEMMA LocalStepIs ==
  ASSUME IInv, LocalStep
  PROVE  \E r \in Replica : \E op \in Commands(engine[r], r, localSeq[r] + 1, clock[r] + 1) :
           /\ ~ Exhausted(r) /\ ValidLocalOp(engine[r], op)
           /\ EngineApply(engine[r], op).outcomes[op] = "applied"
           /\ engine'[r] = EngineApply(engine[r], op).state
           /\ clock'[r] = clock[r] + 1 /\ localSeq'[r] = localSeq[r] + 1
           /\ log'[r] = log[r] \cup {op} /\ reported'[r] = With(reported[r], op, "applied")
           /\ issued' = issued \cup {op}
           /\ \A q \in Replica : q # r => SameReplica(q)
           /\ DOMAIN engine' = Replica /\ DOMAIN clock' = Replica /\ DOMAIN localSeq' = Replica
           /\ DOMAIN log' = Replica /\ DOMAIN reported' = Replica
<1>1. PICK r \in Replica :
        \E op \in Commands(engine[r], r, localSeq[r] + 1, clock[r] + 1) : Apply(r, op)
  BY DEF LocalStep
<1>2. PICK op \in Commands(engine[r], r, localSeq[r] + 1, clock[r] + 1) : Apply(r, op)
  BY <1>1
<1>3. /\ DOMAIN engine = Replica /\ DOMAIN clock = Replica /\ DOMAIN localSeq = Replica
      /\ DOMAIN log = Replica /\ DOMAIN reported = Replica
  BY DEF IInv
<1>4. PICK result \in {EngineApply(engine[r], op)} :
        /\ result.outcomes[op] = "applied"
        /\ engine' = [engine EXCEPT ![r] = result.state]
  BY <1>2 DEF Apply
<1>5. /\ ~ Exhausted(r) /\ ValidLocalOp(engine[r], op)
      /\ clock' = [clock EXCEPT ![r] = @ + 1]
      /\ localSeq' = [localSeq EXCEPT ![r] = @ + 1]
      /\ log' = [log EXCEPT ![r] = @ \cup {op}]
      /\ reported' = [reported EXCEPT ![r] = With(@, op, "applied")]
      /\ issued' = issued \cup {op}
  BY <1>2 DEF Apply
<1>6. result = EngineApply(engine[r], op)
  BY <1>4
<1>7. /\ engine'[r] = EngineApply(engine[r], op).state
      /\ EngineApply(engine[r], op).outcomes[op] = "applied"
  BY <1>3, <1>4, <1>6
<1>8. /\ clock'[r] = clock[r] + 1 /\ localSeq'[r] = localSeq[r] + 1
      /\ log'[r] = log[r] \cup {op} /\ reported'[r] = With(reported[r], op, "applied")
  BY <1>3, <1>5
<1>9. \A q \in Replica : q # r => SameReplica(q)
  BY <1>3, <1>4, <1>5 DEF SameReplica
<1>10. /\ DOMAIN engine' = Replica /\ DOMAIN clock' = Replica /\ DOMAIN localSeq' = Replica
       /\ DOMAIN log' = Replica /\ DOMAIN reported' = Replica
  BY <1>3, <1>4, <1>5
<1>11. QED
  BY <1>5, <1>7, <1>8, <1>9, <1>10

LEMMA LocalStepInv ==
  ASSUME IInv, LocalStep
  PROVE  IInv'
<1>1. PICK r \in Replica :
        \E op \in Commands(engine[r], r, localSeq[r] + 1, clock[r] + 1) :
           /\ ~ Exhausted(r) /\ ValidLocalOp(engine[r], op)
           /\ EngineApply(engine[r], op).outcomes[op] = "applied"
           /\ engine'[r] = EngineApply(engine[r], op).state
           /\ clock'[r] = clock[r] + 1 /\ localSeq'[r] = localSeq[r] + 1
           /\ log'[r] = log[r] \cup {op} /\ reported'[r] = With(reported[r], op, "applied")
           /\ issued' = issued \cup {op}
           /\ \A q \in Replica : q # r => SameReplica(q)
           /\ DOMAIN engine' = Replica /\ DOMAIN clock' = Replica /\ DOMAIN localSeq' = Replica
           /\ DOMAIN log' = Replica /\ DOMAIN reported' = Replica
  BY LocalStepIs
<1>2. PICK op \in Commands(engine[r], r, localSeq[r] + 1, clock[r] + 1) :
           /\ ~ Exhausted(r) /\ ValidLocalOp(engine[r], op)
           /\ EngineApply(engine[r], op).outcomes[op] = "applied"
           /\ engine'[r] = EngineApply(engine[r], op).state
           /\ clock'[r] = clock[r] + 1 /\ localSeq'[r] = localSeq[r] + 1
           /\ log'[r] = log[r] \cup {op} /\ reported'[r] = With(reported[r], op, "applied")
           /\ issued' = issued \cup {op}
           /\ \A q \in Replica : q # r => SameReplica(q)
           /\ DOMAIN engine' = Replica /\ DOMAIN clock' = Replica /\ DOMAIN localSeq' = Replica
           /\ DOMAIN log' = Replica /\ DOMAIN reported' = Replica
  BY <1>1
<1>3. /\ op.site = r /\ op.seq = localSeq[r] + 1 /\ op.ts = clock[r] + 1
      /\ Exchanged(issued \cup {op}) /\ op \notin issued
      /\ \A x \in issued : ~ Refers(x, op)
      /\ NewArrival(issued \cup {op}, log[r], reported[r], engine[r], op)
  BY <1>2, LocalIssue
<1>4. ReplicaInv(r)
  BY DEF IInv
<1>5. clock[r] \in Count /\ localSeq[r] \in Count /\ log[r] \subseteq issued
  BY <1>4 DEF ReplicaInv
<1>6. Settled(log'[r], reported'[r], engine'[r])
  <2>1. \A o \in log[r] : ~ Refers(o, op)
    BY <1>3, <1>5
  <2>2. QED
    BY <1>2, <1>3, <2>1, LocallySettled
<1>7. ReplicaInv(r)'
  <2>1. clock'[r] \in Count /\ localSeq'[r] \in Count
    BY <1>2, <1>5, NumbersAre DEF Exhausted
  <2>2. log'[r] \subseteq issued' /\ \A o \in log'[r] : o.ts <= clock'[r]
    BY <1>2, <1>3, <1>4, <1>5, NumbersAre, StampsAreNumbers DEF ReplicaInv
  <2>3. \A o \in IssuedBy(r)' : o.seq <= localSeq'[r]
    BY <1>2, <1>3, <1>4, <1>5, NumbersAre, StampsAreNumbers DEF ReplicaInv, IssuedBy
  <2>4. QED
    BY <1>6, <2>1, <2>2, <2>3 DEF ReplicaInv
<1>8. ASSUME NEW q \in Replica, q # r
      PROVE  ReplicaInv(q)'
  <2>1. IssuedBy(q)' \subseteq IssuedBy(q) /\ issued \subseteq issued'
    BY <1>2, <1>3, <1>8 DEF IssuedBy
  <2>2. ReplicaInv(q) /\ SameReplica(q)
    BY <1>2, <1>8 DEF IInv
  <2>3. QED
    BY <2>1, <2>2, SameReplicaInv
<1>9. Exchanged(issued')
  BY <1>2, <1>3
<1>10. ASSUME NEW s \in Peer
       PROVE  PeerInv(s)'
  <2>1. IssuedBy(s)' = IssuedBy(s) /\ issued \subseteq issued'
    BY <1>2, <1>3, ReplicaAssumption DEF IssuedBy
  <2>2. \A o \in issued' : o.ts \in Number
    BY <1>9 DEF Exchanged, IsOp
  <2>3. QED
    BY <2>1, <2>2, SamePeerInv
<1>11. QED
  BY <1>2, <1>7, <1>8, <1>9, <1>10 DEF IInv

LEMMA PeerStepInv ==
  ASSUME IInv, PeerStep
  PROVE  IInv'
<1> DEFINE top == LatestTimestamp(0, issued)
<1>1. PICK site \in Peer, r \in Replica :
        \E op \in Commands(engine[r], site, Cardinality({o \in issued : o.site = site}) + 1,
                           top + 1) : issued' = issued \cup {op}
  BY DEF PeerStep
<1> DEFINE n == Cardinality(IssuedBy(site))
<1>2. PICK op \in Commands(engine[r], site, n + 1, top + 1) : issued' = issued \cup {op}
  BY <1>1 DEF IssuedBy
<1>3. UNCHANGED << engine, clock, localSeq, log, reported >> /\ top + 1 \in Number
  BY DEF PeerStep
<1>4. /\ op.site = site /\ op.seq = n + 1 /\ op.ts = top + 1
      /\ \E p, k, v : Addressed(engine[r], op, p, k, v)
  BY CommandIs
<1>5. top \in Count /\ \A o \in issued : o.ts <= top
  BY StampsAreNumbers, NumbersAre, LatestIs
<1>6. IsFiniteSet(IssuedBy(site)) /\ n \in Nat
  BY StampsAreNumbers, FS_Subset, FS_CardinalityType DEF IssuedBy
<1>7. PeerInv(site) /\ ReplicaInv(r) /\ Exchanged(issued)
  BY DEF IInv
<1>8. n <= top /\ \A o \in IssuedBy(site) : o.seq <= n
  BY <1>7 DEF PeerInv
<1> HIDE DEF top, n
<1>9. op.ts \in Number /\ op.seq \in Number /\ op.site \in Site
  BY <1>3, <1>4, <1>5, <1>6, <1>8, NumbersAre, ReplicaAssumption
<1> DEFINE A == Done(engine[r], log[r])
<1>10. A \subseteq issued /\ \A x \in A : Admits(x)
  BY <1>7 DEF Done, ReplicaInv
<1>11. Effects(issued, A, engine[r])
  BY <1>7, <1>10, ExchangedIs DEF Effects, ReplicaInv, Settled
<1>12. Issuing(issued, A, engine[r], op)
  BY <1>4, <1>9, <1>10, <1>11 DEF Issuing
<1>13. \A x \in issued : RefOf(x) # RefOf(op)
  <2> SUFFICES ASSUME NEW x \in issued, RefOf(x) = RefOf(op) PROVE FALSE
    OBVIOUS
  <2>1. x.site = site /\ x.seq = n + 1
    BY <1>4 DEF RefOf
  <2>2. x.seq <= n
    BY <1>8, <2>1 DEF IssuedBy
  <2>3. QED
    BY <1>6, <2>1, <2>2
<1>14. \A x \in A : x.ts < op.ts
  BY <1>4, <1>5, <1>10, NumbersAre, StampsAreNumbers
<1> HIDE DEF A
<1>15. Exchanged(issued \cup {op}) /\ op \notin issued
  BY <1>7, <1>10, <1>12, <1>13, <1>14, OneMoreIssued
<1>16. Exchanged(issued') /\ issued \subseteq issued' /\ \A o \in issued' : o.ts \in Number
  BY <1>2, <1>15 DEF Exchanged, IsOp
<1>17. ASSUME NEW q \in Replica
       PROVE  ReplicaInv(q)'
  <2>1. IssuedBy(q)' \subseteq IssuedBy(q)
    BY <1>2, <1>4, ReplicaAssumption DEF IssuedBy
  <2>2. ReplicaInv(q) /\ SameReplica(q)
    BY <1>3 DEF IInv, SameReplica
  <2>3. QED
    BY <1>16, <2>1, <2>2, SameReplicaInv
<1>18. ASSUME NEW s \in Peer
       PROVE  PeerInv(s)'
  <2>1. CASE s # site
    <3>1. IssuedBy(s)' = IssuedBy(s)
      BY <1>2, <1>4, <2>1 DEF IssuedBy
    <3>2. QED
      BY <1>16, <3>1, SamePeerInv
  <2>2. CASE s = site
    <3>1. IssuedBy(s)' = IssuedBy(s) \cup {op} /\ op \notin IssuedBy(s)
      BY <1>2, <1>4, <1>15, <2>2 DEF IssuedBy
    <3>2. Cardinality(IssuedBy(s)') = n + 1
      BY <1>6, <2>2, <3>1, FS_AddElement DEF n
    <3>3. top + 1 <= LatestTimestamp(0, issued') /\ LatestTimestamp(0, issued') \in Count
      BY <1>2, <1>4, <1>16, LatestIs, NumbersAre
    <3>4. n + 1 <= LatestTimestamp(0, issued')
      BY <1>5, <1>6, <1>8, <3>3, NumbersAre
    <3>5. \A o \in IssuedBy(s)' : o.seq <= n + 1
      BY <1>4, <1>6, <1>8, <2>2, <3>1, NumbersAre, StampsAreNumbers DEF IssuedBy
    <3>6. QED
      BY <3>2, <3>4, <3>5 DEF PeerInv
  <2>3. QED
    BY <2>1, <2>2
<1>19. QED
  BY <1>3, <1>16, <1>17, <1>18 DEF IInv

(* What a batch makes of r.                                                *)
LEMMA MergedIs ==
  ASSUME IInv, NEW r \in Replica, NEW ops, ops \subseteq issued
  PROVE  LET m == MergeAll(r, ops)
         IN  Settled(log[r] \cup ops, m.reported, m.state) /\ Grows(engine[r], m.state)
<1> DEFINE start == [state |-> engine[r], reported |-> reported[r]]
           new == ops \ log[r]
           m == InStampOrder(start, new)
<1>1. ReplicaInv(r) /\ Exchange(issued)
  BY ExchangedIs DEF IInv
<1>2. start.state = engine[r] /\ start.reported = reported[r]
  OBVIOUS
<1>3. Settled(log[r], start.reported, start.state) /\ log[r] \subseteq issued
  BY <1>1, <1>2 DEF ReplicaInv
<1>4. new \subseteq issued /\ new \cap log[r] = {} /\ log[r] \cup new = log[r] \cup ops
  OBVIOUS
<1>5. m = MergeAll(r, ops)
  BY DEF MergeAll
<1>6. m = InStampOrder(start, new)
  OBVIOUS
<1> HIDE DEF start, new, m
<1>7. Settled(log[r] \cup new, m.reported, m.state) /\ Grows(start.state, m.state)
  BY <1>1, <1>3, <1>4, <1>6, BatchSettles
<1>8. QED
  BY <1>2, <1>4, <1>5, <1>7

(* One replica learns of operations that have been issued.                 *)
Learns(r, ops) ==
  /\ ops \subseteq issued /\ log'[r] = log[r] \cup ops
  /\ engine'[r] = MergeAll(r, ops).state /\ reported'[r] = MergeAll(r, ops).reported
  /\ clock'[r] \in Count /\ clock[r] <= clock'[r] /\ \A o \in ops : o.ts <= clock'[r]
  /\ localSeq' = localSeq /\ issued' = issued
  /\ \A q \in Replica : q # r => SameReplica(q)
  /\ DOMAIN engine' = Replica /\ DOMAIN clock' = Replica
  /\ DOMAIN log' = Replica /\ DOMAIN reported' = Replica

LEMMA MergeStepIs ==
  ASSUME IInv, MergeStep
  PROVE  \E r \in Replica : \E ops : Learns(r, ops)
<1>1. PICK r \in Replica :
        \/ \E ops \in SUBSET issued : MergeOps(r, ops)
        \/ \E q \in Replica : Merge(r, q)
  BY DEF MergeStep
<1>2. /\ DOMAIN engine = Replica /\ DOMAIN clock = Replica /\ DOMAIN localSeq = Replica
      /\ DOMAIN log = Replica /\ DOMAIN reported = Replica
      /\ \A q \in Replica : ReplicaInv(q)
  BY DEF IInv
<1>3. ASSUME NEW ops, ops \subseteq issued, NEW top, top \in Count, clock[r] <= top,
             \A o \in ops : o.ts <= top, NEW merged, merged = MergeAll(r, ops),
             engine' = [engine EXCEPT ![r] = merged.state],
             log' = [log EXCEPT ![r] = @ \cup ops],
             reported' = [reported EXCEPT ![r] = merged.reported],
             clock' = [clock EXCEPT ![r] = top], UNCHANGED << localSeq, issued >>
      PROVE  Learns(r, ops)
  <2>1. \A q \in Replica : q # r => SameReplica(q)
    BY <1>2, <1>3 DEF SameReplica
  <2>2. QED
    BY <1>2, <1>3, <2>1 DEF Learns
<1>4. ASSUME NEW ops, ops \subseteq issued
      PROVE  LET top == LatestTimestamp(clock[r], ops)
             IN  top \in Count /\ clock[r] <= top /\ \A o \in ops : o.ts <= top
  BY <1>2, <1>4, StampsAreNumbers, LatestIs DEF ReplicaInv
<1>5. CASE \E ops \in SUBSET issued : MergeOps(r, ops)
  <2>1. PICK ops \in SUBSET issued : MergeOps(r, ops)
    BY <1>5
  <2>2. PICK merged \in {MergeAll(r, ops)} :
          /\ engine' = [engine EXCEPT ![r] = merged.state]
          /\ log' = [log EXCEPT ![r] = @ \cup ops]
          /\ reported' = [reported EXCEPT ![r] = merged.reported]
          /\ clock' = [clock EXCEPT ![r] = LatestTimestamp(@, ops)]
          /\ UNCHANGED << localSeq, issued >>
    BY <2>1 DEF MergeOps
  <2> DEFINE top == LatestTimestamp(clock[r], ops)
  <2>3. top \in Count /\ clock[r] <= top /\ \A o \in ops : o.ts <= top
    BY <1>4
  <2>4. clock' = [clock EXCEPT ![r] = top]
    BY <2>2
  <2> HIDE DEF top
  <2>5. QED
    BY <1>3, <2>2, <2>3, <2>4
<1>6. CASE \E q \in Replica : Merge(r, q)
  <2>1. PICK q \in Replica : Merge(r, q)
    BY <1>6
  <2>2. PICK merged \in {MergeAll(r, log[q])} :
          /\ engine' = [engine EXCEPT ![r] = merged.state]
          /\ log' = [log EXCEPT ![r] = @ \cup log[q]]
          /\ reported' = [reported EXCEPT ![r] = merged.reported]
          /\ clock' = [clock EXCEPT ![r] = Max({LatestTimestamp(@, log[q]), clock[q]})]
          /\ UNCHANGED << localSeq, issued >>
    BY <2>1 DEF Merge
  <2> DEFINE ops == log[q]
             late == LatestTimestamp(clock[r], ops)
             S == {late, clock[q]}
             top == Max(S)
  <2>3. ops \subseteq issued /\ clock[q] \in Count /\ clock[r] \in Count
    BY <1>2 DEF ReplicaInv
  <2>4. late \in Count /\ clock[r] <= late /\ \A o \in ops : o.ts <= late
    BY <1>4, <2>3
  <2>5. clock' = [clock EXCEPT ![r] = top]
    BY <2>2
  <2>6. S \in SUBSET Count /\ S # {} /\ late \in S /\ clock[q] \in S
    BY <2>3, <2>4
  <2> HIDE DEF S
  <2>7. top \in Count /\ late <= top
    BY <2>6, MaxOfCounts
  <2>8. clock[r] <= top /\ \A o \in ops : o.ts <= top
    BY <2>3, <2>4, <2>7, NumbersAre, StampsAreNumbers
  <2> HIDE DEF top, ops
  <2>9. log' = [log EXCEPT ![r] = @ \cup ops] /\ merged = MergeAll(r, ops)
    BY <2>2 DEF ops
  <2>10. QED
    BY <1>3, <2>2, <2>3, <2>5, <2>7, <2>8, <2>9
<1>7. QED
  BY <1>1, <1>5, <1>6

LEMMA LearnsInv ==
  ASSUME IInv, NEW r \in Replica, NEW ops, Learns(r, ops)
  PROVE  IInv' /\ Grows(engine[r], engine'[r])
<1>1. /\ Settled(log'[r], reported'[r], engine'[r]) /\ Grows(engine[r], engine'[r])
  BY MergedIs DEF Learns
<1>2. ReplicaInv(r)
  BY DEF IInv
<1>3. ReplicaInv(r)'
  <2>1. log'[r] \subseteq issued' /\ \A o \in log'[r] : o.ts <= clock'[r]
    BY <1>2, NumbersAre, StampsAreNumbers DEF ReplicaInv, Learns
  <2>2. QED
    BY <1>1, <1>2, <2>1 DEF ReplicaInv, Learns, IssuedBy
<1>4. ASSUME NEW q \in Replica, q # r
      PROVE  ReplicaInv(q)'
  <2>1. ReplicaInv(q) /\ SameReplica(q)
    BY <1>4 DEF IInv, Learns
  <2>2. issued' = issued /\ IssuedBy(q)' = IssuedBy(q)
    BY DEF Learns, IssuedBy
  <2>3. QED
    BY <1>4, <2>1, <2>2, SameReplicaInv
<1>5. ASSUME NEW s \in Peer
      PROVE  PeerInv(s)'
  BY DEF IInv, PeerInv, Learns, IssuedBy
<1>6. QED
  BY <1>1, <1>3, <1>4, <1>5 DEF IInv, Learns

LEMMA SameInv ==
  ASSUME IInv, UNCHANGED vars
  PROVE  IInv'
BY DEF IInv, vars, ReplicaInv, PeerInv, IssuedBy

(* What every replica holds is what the operations it was given come to:   *)
(* those that wait lack something, all others have taken effect or are     *)
(* refused, and clocks and numbers are ahead of what they number.          *)
THEOREM InvariantHolds == Spec => []IInv
<1>1. Init => IInv
  BY InitInv
<1>2. IInv /\ [Next]_vars => IInv'
  <2> SUFFICES ASSUME IInv, [Next]_vars PROVE IInv'
    OBVIOUS
  <2>1. CASE LocalStep
    BY <2>1, LocalStepInv
  <2>2. CASE PeerStep
    BY <2>2, PeerStepInv
  <2>3. CASE MergeStep
    BY <2>3, MergeStepIs, LearnsInv
  <2>4. CASE UNCHANGED vars
    BY <2>4, SameInv
  <2>5. QED
    BY <2>1, <2>2, <2>3, <2>4 DEF Next
<1>3. QED
  BY <1>1, <1>2, PTL DEF Spec

-----------------------------------------------------------------------------
(***************************************************************************)
(* What follows from the invariant.                                        *)
(***************************************************************************)
LEMMA ListingIs ==
  ASSUME NEW q, NEW f, Listing(q, f)
  PROVE  ToSet(q) = DOMAIN f /\ Len(q) = Cardinality(DOMAIN f)
<1>1. Strict(DOMAIN f, Oldest(f)) /\ q \in Seq(DOMAIN f) /\ SortedBy(q, Oldest(f))
  BY OldestIsStrict DEF Listing
<1>2. \A i, j \in 1 .. Len(q) : q[i] = q[j] => i = j
  BY <1>1, SortedOnce
<1>3. ToSet(q) = DOMAIN f
  BY DEF Listing
<1>4. QED
  BY <1>1, <1>2, <1>3, LengthIsCardinality

LEMMA TreeWalk ==
  ASSUME NEW s, Tree(s)
  PROVE  /\ Planted(s.vertex) /\ IsFiniteSet(DOMAIN s.vertex)
         /\ Walk(s) \in Seq(DOMAIN s.vertex) /\ ToSet(Walk(s)) = DOMAIN s.vertex
         /\ Len(Walk(s)) = Cardinality(DOMAIN s.vertex)
<1>1. Planted(s.vertex) /\ IsFiniteSet(DOMAIN s.vertex)
  BY DEF Tree
<1>2. PICK R : DocOrder(s.vertex, R)
  BY <1>1, OrderExists
<1>3. QED
  BY <1>1, <1>2, WalkIsDocumentOrder

LEMMA ReplicaEffects ==
  ASSUME IInv, NEW r \in Replica
  PROVE  /\ Exchange(issued) /\ ReplicaInv(r)
         /\ Effects(issued, Done(engine[r], log[r]), engine[r])
<1>1. Exchange(issued) /\ ReplicaInv(r)
  BY ExchangedIs DEF IInv
<1>2. QED
  BY <1>1 DEF Effects, ReplicaInv, Settled, Done

LEMMA RingsAreKnown ==
  ASSUME NEW g, NEW ring \in Rings(g)
  PROVE  /\ KnowsRing(g, ring[1], ring[2]) /\ ring[1] \in DOMAIN g.part
         /\ VerticesOf(g, ring) = g.part[ring[1]].ring[ring[2]].seq
BY AddressesAreKnown DEF KnowsRing, KnowsPart, VerticesOf

LEMMA IInvTypeOK == IInv => TypeOK
<1> SUFFICES ASSUME IInv, NEW r \in Replica
             PROVE  LET g == engine[r]
                    IN  /\ clock[r] \in Count /\ localSeq[r] \in Count
                        /\ log[r] \subseteq issued
                        /\ DOMAIN reported[r] = log[r]
                        /\ Len(g.parts) = Cardinality(DOMAIN g.part) /\ ToSet(g.parts) = DOMAIN g.part
                        /\ \A p \in DOMAIN g.part :
                             /\ ToSet(g.part[p].rings) = DOMAIN g.part[p].ring
                             /\ Len(g.part[p].rings) = Cardinality(DOMAIN g.part[p].ring)
                        /\ \A ring \in Rings(g) :
                             LET order == Walk(VerticesOf(g, ring))
                             IN  /\ ToSet(order) = DOMAIN VerticesOf(g, ring).vertex
                                 /\ Len(order) = Cardinality(DOMAIN VerticesOf(g, ring).vertex)
  BY DEF TypeOK
<1> DEFINE g == engine[r]
           A == Done(g, log[r])
<1>1. ReplicaInv(r) /\ Effects(issued, A, g)
  BY ReplicaEffects
<1>2. clock[r] \in Count /\ localSeq[r] \in Count /\ log[r] \subseteq issued
  BY <1>1 DEF ReplicaInv
<1>3. DOMAIN reported[r] = log[r]
  BY <1>1, SettledTells DEF ReplicaInv
<1> HIDE DEF g, A
<1>4. Listing(g.parts, g.part) /\ \A p \in DOMAIN g.part : Listing(g.part[p].rings, g.part[p].ring)
  BY <1>1 DEF Effects, Reflects, ReflectsPart
<1>5. /\ ToSet(g.parts) = DOMAIN g.part /\ Len(g.parts) = Cardinality(DOMAIN g.part)
      /\ \A p \in DOMAIN g.part : /\ ToSet(g.part[p].rings) = DOMAIN g.part[p].ring
                                  /\ Len(g.part[p].rings) = Cardinality(DOMAIN g.part[p].ring)
  BY <1>4, ListingIs
<1>6. ASSUME NEW ring \in Rings(g)
      PROVE  LET order == Walk(VerticesOf(g, ring))
             IN  /\ ToSet(order) = DOMAIN VerticesOf(g, ring).vertex
                 /\ Len(order) = Cardinality(DOMAIN VerticesOf(g, ring).vertex)
  <2> DEFINE s == VerticesOf(g, ring)
  <2>1. KnowsRing(g, ring[1], ring[2]) /\ s = g.part[ring[1]].ring[ring[2]].seq
    BY RingsAreKnown
  <2>2. Tree(s)
    BY <1>1, <2>1, KnownRingsAreTrees DEF Effects, KnowsRing
  <2> HIDE DEF s
  <2>3. ToSet(Walk(s)) = DOMAIN s.vertex /\ Len(Walk(s)) = Cardinality(DOMAIN s.vertex)
    BY <2>2, TreeWalk
  <2>4. QED
    BY <2>3 DEF s
<1>7. QED
  BY <1>2, <1>3, <1>5, <1>6 DEF g

LEMMA IInvReportsAreCurrent == IInv => ReportsAreCurrent
<1> SUFFICES ASSUME IInv, NEW r \in Replica
             PROVE  WaitingOps(engine[r]) = { op \in log[r] : reported[r][op] = "buffered" }
  BY DEF ReportsAreCurrent
<1>1. Settled(log[r], reported[r], engine[r])
  BY DEF IInv, ReplicaInv
<1>2. QED
  BY <1>1, SettledTells

LEMMA IInvQuarantineAgrees == IInv => QuarantineAgrees
<1> SUFFICES ASSUME IInv, NEW r \in Replica, NEW q \in Replica, NEW op \in log[r] \cap log[q],
                    reported[r][op] = "quarantined", reported[q][op] # "buffered"
             PROVE  reported[q][op] = "quarantined"
  BY DEF QuarantineAgrees
<1>1. Settled(log[r], reported[r], engine[r]) /\ Settled(log[q], reported[q], engine[q])
  BY DEF IInv, ReplicaInv
<1>2. ~ Admits(op)
  BY <1>1, SettledTells
<1>3. QED
  BY <1>1, <1>2, SettledTells

(* Clocks stay in range, and the orders of parts, rings and vertices list  *)
(* every entry once.                                                       *)
THEOREM GeometriesAreWellFormed == Spec => []TypeOK
BY InvariantHolds, IInvTypeOK, PTL

(* What was last reported as buffered is what waits: the outcomes of a     *)
(* merge name every operation that a drain releases.                       *)
THEOREM ReportsStayCurrent == Spec => []ReportsAreCurrent
BY InvariantHolds, IInvReportsAreCurrent, PTL

(* Whether an operation is refused does not depend on who received it or   *)
(* when.                                                                   *)
THEOREM QuarantineIsShared == Spec => []QuarantineAgrees
BY InvariantHolds, IInvQuarantineAgrees, PTL

-----------------------------------------------------------------------------
(***************************************************************************)
(* Two views of one ring.                                                  *)
(***************************************************************************)
SeqAt(g, p, k) == g.part[p].ring[k].seq

(* Both know the ring, each what the operations it has had effect of made. *)
TwoViews(I, A, g, B, h, p, k) ==
  /\ Effects(I, A, g) /\ Effects(I, B, h)
  /\ KnowsRing(g, p, k) /\ KnowsRing(h, p, k)

LEMMA TwoViewsAgree ==
  ASSUME NEW I, NEW A, NEW g, NEW B, NEW h, NEW p, NEW k, TwoViews(I, A, g, B, h, p, k)
  PROVE  LET V == SeqAt(g, p, k).vertex
             W == SeqAt(h, p, k).vertex
         IN  /\ Tree(SeqAt(g, p, k)) /\ Tree(SeqAt(h, p, k))
             /\ Planted(V) /\ Planted(W) /\ IsFiniteSet(DOMAIN V) /\ IsFiniteSet(DOMAIN W)
             /\ \A v \in DOMAIN V \cap DOMAIN W : V[v].key = W[v].key /\ V[v].parent = W[v].parent
<1> DEFINE V == SeqAt(g, p, k).vertex
           W == SeqAt(h, p, k).vertex
<1>1. Tree(SeqAt(g, p, k)) /\ Tree(SeqAt(h, p, k))
  BY KnownRingsAreTrees DEF TwoViews, Effects, SeqAt, KnowsRing
<1>2. Planted(V) /\ Planted(W) /\ IsFiniteSet(DOMAIN V) /\ IsFiniteSet(DOMAIN W)
  BY <1>1 DEF Tree
<1>3. ASSUME NEW v \in DOMAIN V \cap DOMAIN W
      PROVE  V[v].key = W[v].key /\ V[v].parent = W[v].parent
  <2>1. KnowsVertex(g, p, k, v) /\ KnowsVertex(h, p, k, v)
    BY DEF TwoViews, KnowsVertex, Has, SeqAt
  <2>2. QED
    BY <2>1, SameKeys DEF TwoViews, SeqAt
<1>4. QED
  BY <1>1, <1>2, <1>3

(* Only one knows v, so an operation brought it.                           *)
LEMMA OnlyOneKnows ==
  ASSUME NEW I, NEW A, NEW g, NEW B, NEW h, NEW p, NEW k, TwoViews(I, A, g, B, h, p, k),
         NEW v \in DOMAIN SeqAt(g, p, k).vertex, v \notin DOMAIN SeqAt(h, p, k).vertex
  PROVE  \E o \in I : v = InsertedVertexID(o) /\ SeqAt(g, p, k).vertex[v].key = OpKey(StampOf(o))
<1> DEFINE pk == g.part[p].key
           rk == g.part[p].ring[k].key
           x == SeqAt(g, p, k).vertex[v]
<1>1. KnowsVertex(g, p, k, v)
  BY DEF TwoViews, KnowsVertex, Has, SeqAt
<1>2. VertexFrom(A, p, k, v, pk, rk, x.key, x.parent)
  BY <1>1, VertexComesFrom DEF TwoViews, SeqAt
<1>3. pk = h.part[p].key /\ rk = h.part[p].ring[k].key
  BY SameKeys DEF TwoViews, KnowsRing
<1>4. ReflectsSeq(SeqAt(h, p, k), B, p, k, pk, rk)
  <2>1. ReflectsRing(h.part[p].ring[k], B, p, k, pk)
    BY <1>3, RingComesFrom DEF TwoViews
  <2>2. QED
    BY <1>3, <2>1 DEF ReflectsRing, SeqAt
<1> HIDE DEF pk, rk, x
<1>5. \A i \in 1 .. Size(rk) : v # DerivedVertexID(pk, rk, InitialKey(i - 1))
  BY <1>4 DEF ReflectsSeq
<1>6. PICK o \in A : v = InsertedVertexID(o) /\ x.key = OpKey(StampOf(o))
  BY <1>2, <1>5 DEF VertexFrom, At
<1>7. o \in I
  BY DEF TwoViews, Effects
<1>8. QED
  BY <1>6, <1>7 DEF x

LEMMA TwoViewsCompare ==
  ASSUME NEW I, NEW A, NEW g, NEW B, NEW h, NEW p, NEW k, TwoViews(I, A, g, B, h, p, k),
         NEW v \in DOMAIN SeqAt(g, p, k).vertex, NEW w \in DOMAIN SeqAt(h, p, k).vertex, v # w
  PROVE  LET a == SeqAt(g, p, k).vertex[v].key
             b == SeqAt(h, p, k).vertex[w].key
         IN  SetKeyBefore(a, b) \/ SetKeyBefore(b, a)
<1> DEFINE V == SeqAt(g, p, k).vertex
           W == SeqAt(h, p, k).vertex
<1>1. /\ Planted(V) /\ Planted(W)
      /\ \A u \in DOMAIN V \cap DOMAIN W : V[u].key = W[u].key
  BY TwoViewsAgree
<1>2. CASE v \in DOMAIN W
  BY <1>1, <1>2 DEF Planted, Elder
<1>3. CASE w \in DOMAIN V
  BY <1>1, <1>3 DEF Planted, Elder
<1>4. CASE v \notin DOMAIN W /\ w \notin DOMAIN V
  <2>1. PICK o \in I : v = InsertedVertexID(o) /\ V[v].key = OpKey(StampOf(o))
    BY <1>4, OnlyOneKnows
  <2>2. TwoViews(I, B, h, A, g, p, k)
    BY DEF TwoViews
  <2>3. PICK b \in I : w = InsertedVertexID(b) /\ W[w].key = OpKey(StampOf(b))
    BY <1>4, <2>2, OnlyOneKnows
  <2>4. o # b
    BY <2>1, <2>3
  <2>5. Newer(o, b) \/ Newer(b, o)
    <3>1. Stamped(o) /\ Stamped(b) /\ RefOf(o) # RefOf(b)
      BY <2>4, InsertedOnce DEF TwoViews, Effects
    <3>2. StampOf(o) # StampOf(b)
      BY <3>1 DEF StampOf, RefOf
    <3>3. QED
      BY <3>1, <3>2, StampsAreOrdered
  <2>6. Less(StampOf(b), StampOf(o)) \/ Less(StampOf(o), StampOf(b))
    BY <2>5 DEF Newer, Less, StampOf
  <2>7. QED
    BY <2>1, <2>3, <2>6 DEF SetKeyBefore, OpKey
<1>5. QED
  BY <1>2, <1>3, <1>4

(* One order for both.                                                     *)
LEMMA OneOrderForBoth ==
  ASSUME NEW I, NEW A, NEW g, NEW B, NEW h, NEW p, NEW k, TwoViews(I, A, g, B, h, p, k)
  PROVE  \E R : DocOrder(SeqAt(g, p, k).vertex, R) /\ DocOrder(SeqAt(h, p, k).vertex, R)
<1> DEFINE V == SeqAt(g, p, k).vertex
           W == SeqAt(h, p, k).vertex
           U == [u \in DOMAIN V \cup DOMAIN W |-> IF u \in DOMAIN V THEN V[u] ELSE W[u]]
<1>1. /\ Planted(V) /\ Planted(W) /\ IsFiniteSet(DOMAIN V) /\ IsFiniteSet(DOMAIN W)
      /\ \A v \in DOMAIN V \cap DOMAIN W : V[v].key = W[v].key /\ V[v].parent = W[v].parent
  BY TwoViewsAgree
<1>2. \A v \in DOMAIN V, w \in DOMAIN W :
        v # w => SetKeyBefore(V[v].key, W[w].key) \/ SetKeyBefore(W[w].key, V[v].key)
  BY TwoViewsCompare
<1>3. \A v \in DOMAIN V : V[v].key.initial => v \in DOMAIN W
  <2> SUFFICES ASSUME NEW v \in DOMAIN V, v \notin DOMAIN W PROVE ~ V[v].key.initial
    OBVIOUS
  <2>1. \E o \in I : V[v].key = OpKey(StampOf(o))
    BY OnlyOneKnows
  <2>2. QED
    BY <2>1 DEF OpKey
<1>4. \A v \in DOMAIN W : W[v].key.initial => v \in DOMAIN V
  <2> SUFFICES ASSUME NEW v \in DOMAIN W, v \notin DOMAIN V PROVE ~ W[v].key.initial
    OBVIOUS
  <2>1. TwoViews(I, B, h, A, g, p, k)
    BY DEF TwoViews
  <2>2. \E o \in I : W[v].key = OpKey(StampOf(o))
    BY <2>1, OnlyOneKnows
  <2>3. QED
    BY <2>2 DEF OpKey
<1> HIDE DEF V, W
<1>5. /\ DOMAIN U = DOMAIN V \cup DOMAIN W
      /\ \A v \in DOMAIN V : U[v].key = V[v].key /\ U[v].parent = V[v].parent
      /\ \A v \in DOMAIN W : U[v].key = W[v].key /\ U[v].parent = W[v].parent
  BY <1>1
<1> HIDE DEF U
<1>6. Planted(U)
  <2>1. ASSUME NEW v \in DOMAIN U
        PROVE  /\ ProperKey(U[v].key) /\ v # Root
               /\ U[v].parent = Root \/ (U[v].parent \in DOMAIN U /\ Elder(U, U[v].parent, v))
    BY <1>1, <1>5 DEF Planted, Elder
  <2>2. \A v, w \in DOMAIN U : v # w => Elder(U, v, w) \/ Elder(U, w, v)
    BY <1>1, <1>2, <1>5 DEF Planted, Elder
  <2>3. ASSUME NEW v \in DOMAIN U, NEW w \in DOMAIN U, U[v].key.initial, U[w].key.initial,
               U[v].parent = U[w].parent
        PROVE  v = w
    <3>1. v \in DOMAIN V /\ w \in DOMAIN V
      BY <1>4, <1>5, <2>3
    <3>2. QED
      BY <1>1, <1>5, <2>3, <3>1 DEF Planted
  <2>4. QED
    BY <2>1, <2>2, <2>3 DEF Planted
<1>7. IsFiniteSet(DOMAIN U)
  BY <1>1, <1>5, FS_Union
<1>8. PICK R : DocOrder(U, R)
  BY <1>6, <1>7, OrderExists
<1>9. ASSUME NEW D \in SUBSET DOMAIN U, NEW X, DOMAIN X = D,
             \A v \in D : U[v].key = X[v].key /\ U[v].parent = X[v].parent
      PROVE  DocOrder(X, R)
  <2>1. /\ Strict(DOMAIN U, R)
        /\ \A a, b \in DOMAIN U : a # b => << a, b >> \in R \/ << b, a >> \in R
        /\ \A a, b \in DOMAIN U : Elder(U, a, b) =>
             (<< b, a >> \in R <=> U[b].parent = Root \/ << U[b].parent, a >> \in R)
    BY <1>8 DEF DocOrder, OrderOn
  <2>2. Strict(D, R)
    BY <2>1 DEF Strict
  <2>3. \A a, b \in D : Elder(X, a, b) <=> Elder(U, a, b)
    BY <1>9 DEF Elder
  <2>4. QED
    BY <1>9, <2>1, <2>2, <2>3 DEF DocOrder, OrderOn
<1>10. DocOrder(V, R) /\ DocOrder(W, R)
  BY <1>5, <1>9
<1>11. QED
  BY <1>10 DEF V, W

LEMMA IInvSameOrder == IInv => SameOrder
<1> SUFFICES ASSUME IInv, NEW r \in Replica, NEW q \in Replica,
                    NEW ring \in Rings(engine[r]) \cap Rings(engine[q])
             PROVE  LET here  == Walk(VerticesOf(engine[r], ring))
                        there == Walk(VerticesOf(engine[q], ring))
                    IN  \A v \in ToSet(here) \cap ToSet(there), w \in ToSet(here) \cap ToSet(there) :
                          Precedes(here, v, w) <=> Precedes(there, v, w)
  BY DEF SameOrder
<1> DEFINE p == ring[1]
           k == ring[2]
           A == Done(engine[r], log[r])
           B == Done(engine[q], log[q])
           s == SeqAt(engine[r], p, k)
           t == SeqAt(engine[q], p, k)
<1>1. s = VerticesOf(engine[r], ring) /\ t = VerticesOf(engine[q], ring)
  BY DEF SeqAt, VerticesOf
<1>2. TwoViews(issued, A, engine[r], B, engine[q], p, k)
  BY ReplicaEffects, RingsAreKnown DEF TwoViews
<1> HIDE DEF A, B, p, k
<1>3. PICK R : DocOrder(s.vertex, R) /\ DocOrder(t.vertex, R)
  BY <1>2, OneOrderForBoth
<1>4. Tree(s) /\ Tree(t)
  BY <1>2, TwoViewsAgree
<1> HIDE DEF s, t
<1>5. /\ Walk(s) \in Seq(DOMAIN s.vertex) /\ SortedBy(Walk(s), R)
      /\ Walk(t) \in Seq(DOMAIN t.vertex) /\ SortedBy(Walk(t), R)
  BY <1>3, <1>4, WalkIsDocumentOrder
<1>6. Strict(DOMAIN s.vertex, R) /\ Strict(DOMAIN t.vertex, R)
  BY <1>3 DEF DocOrder, OrderOn
<1>7. ASSUME NEW v \in ToSet(Walk(s)) \cap ToSet(Walk(t)), NEW w \in ToSet(Walk(s)) \cap ToSet(Walk(t))
      PROVE  Precedes(Walk(s), v, w) <=> Precedes(Walk(t), v, w)
  BY <1>5, <1>6, PrecedesIs
<1>8. QED
  BY <1>1, <1>7

(* Replicas list the vertices they share in one order, whatever else each  *)
(* of them has received.                                                   *)
THEOREM VerticesKeepOneOrder == Spec => []SameOrder
BY InvariantHolds, IInvSameOrder, PTL

-----------------------------------------------------------------------------
(***************************************************************************)
(* From one state to the next.                                             *)
(***************************************************************************)
(* Nothing is unlearned.                                                   *)
LEMMA StepGrows ==
  ASSUME IInv, [Next]_vars
  PROVE  /\ IInv' /\ issued \subseteq issued'
         /\ \A r \in Replica : log[r] \subseteq log'[r] /\ Grows(engine[r], engine'[r])
<1>1. CASE LocalStep
  <2>1. PICK r \in Replica :
          \E op \in Commands(engine[r], r, localSeq[r] + 1, clock[r] + 1) :
             /\ ~ Exhausted(r)
             /\ EngineApply(engine[r], op).outcomes[op] = "applied"
             /\ engine'[r] = EngineApply(engine[r], op).state
             /\ log'[r] = log[r] \cup {op} /\ issued' = issued \cup {op}
             /\ \A q \in Replica : q # r => SameReplica(q)
    BY <1>1, LocalStepIs
  <2>2. PICK op \in Commands(engine[r], r, localSeq[r] + 1, clock[r] + 1) :
             /\ ~ Exhausted(r)
             /\ EngineApply(engine[r], op).outcomes[op] = "applied"
             /\ engine'[r] = EngineApply(engine[r], op).state
             /\ log'[r] = log[r] \cup {op} /\ issued' = issued \cup {op}
             /\ \A q \in Replica : q # r => SameReplica(q)
    BY <2>1
  <2>3. /\ \A x \in issued : ~ Refers(x, op)
        /\ NewArrival(issued \cup {op}, log[r], reported[r], engine[r], op)
    BY <2>2, LocalIssue
  <2>4. \A o \in log[r] : ~ Refers(o, op)
    BY <2>3 DEF IInv, ReplicaInv
  <2>5. Grows(engine[r], engine'[r])
    BY <2>2, <2>3, <2>4, LocallySettled
  <2>6. \A q \in Replica : q # r => log[q] \subseteq log'[q] /\ Grows(engine[q], engine'[q])
    BY <2>2, GrowingIsOrdered DEF SameReplica
  <2>7. QED
    BY <1>1, <2>2, <2>5, <2>6, LocalStepInv
<1>2. CASE PeerStep
  <2>1. \A r \in Replica : log[r] = log'[r] /\ engine[r] = engine'[r]
    BY <1>2 DEF PeerStep
  <2>2. issued \subseteq issued'
    BY <1>2 DEF PeerStep
  <2>3. QED
    BY <1>2, <2>1, <2>2, PeerStepInv, GrowingIsOrdered
<1>3. CASE MergeStep
  <2>1. PICK r \in Replica : \E ops : Learns(r, ops)
    BY <1>3, MergeStepIs
  <2>2. PICK ops : Learns(r, ops)
    BY <2>1
  <2>3. IInv' /\ Grows(engine[r], engine'[r])
    BY <2>2, LearnsInv
  <2>4. log[r] \subseteq log'[r] /\ issued \subseteq issued'
    BY <2>2 DEF Learns
  <2>5. \A q \in Replica : q # r => log[q] \subseteq log'[q] /\ Grows(engine[q], engine'[q])
    BY <2>2, GrowingIsOrdered DEF Learns, SameReplica
  <2>6. QED
    BY <2>3, <2>4, <2>5
<1>4. CASE UNCHANGED vars
  <2>1. \A r \in Replica : log[r] = log'[r] /\ engine[r] = engine'[r]
    BY <1>4 DEF vars
  <2>2. issued \subseteq issued'
    BY <1>4 DEF vars
  <2>3. QED
    BY <1>4, <2>1, <2>2, SameInv, GrowingIsOrdered
<1>5. QED
  BY <1>1, <1>2, <1>3, <1>4 DEF Next

(* Nor does anything go back to its queue.                                 *)
LEMMA DoneStaysDone ==
  ASSUME NEW L, NEW R, NEW g, Settled(L, R, g), NEW M, NEW Q, NEW h, Settled(M, Q, h),
         L \subseteq M, Grows(g, h)
  PROVE  Done(g, L) \subseteq Done(h, M)
<1> SUFFICES ASSUME NEW o \in Done(g, L), o \in WaitingOps(h) PROVE FALSE
  BY DEF Done
<1>1. Ready(g, o)
  BY DEF Settled, Done
<1>2. Ready(h, o)
  BY <1>1, StillKnown
<1>3. PICK dep : InQueue(h, dep, o)
  BY WaitingIs DEF Settled
<1>4. Lacks(h, o, dep)
  BY <1>3 DEF Settled, Waits
<1>5. QED
  BY <1>2, <1>4, LackingIsNotReady

LEMMA StepViews ==
  ASSUME IInv, [Next]_vars, NEW r \in Replica
  PROVE  LET A == Done(engine[r], log[r])
             B == Done(engine'[r], log'[r])
         IN  /\ A \subseteq B /\ Grows(engine[r], engine'[r])
             /\ Effects(issued', A, engine[r]) /\ Effects(issued', B, engine'[r])
<1> DEFINE A == Done(engine[r], log[r])
           B == Done(engine'[r], log'[r])
<1>1. /\ IInv' /\ issued \subseteq issued'
      /\ log[r] \subseteq log'[r] /\ Grows(engine[r], engine'[r])
  BY StepGrows
<1>2. Settled(log[r], reported[r], engine[r]) /\ log[r] \subseteq issued
  BY DEF IInv, ReplicaInv
<1>3. Settled(log'[r], reported'[r], engine'[r]) /\ log'[r] \subseteq issued'
  BY <1>1 DEF IInv, ReplicaInv
<1>4. Exchange(issued')
  BY <1>1, ExchangedIs DEF IInv
<1>5. A \subseteq B
  BY <1>1, <1>2, <1>3, DoneStaysDone
<1>6. Effects(issued', A, engine[r]) /\ Effects(issued', B, engine'[r])
  BY <1>1, <1>2, <1>3, <1>4 DEF Effects, Settled, Done
<1>7. QED
  BY <1>1, <1>5, <1>6

(* A vertex as more operations take effect.                                *)
LEMMA VertexAges ==
  ASSUME NEW I, NEW A, NEW g, NEW B, NEW h, NEW p, NEW k, TwoViews(I, A, g, B, h, p, k),
         A \subseteq B, NEW v \in DOMAIN SeqAt(g, p, k).vertex,
         v \in DOMAIN SeqAt(h, p, k).vertex
  PROVE  LET x == SeqAt(g, p, k).vertex[v]
             y == SeqAt(h, p, k).vertex[v]
         IN  (x.deleted => y.deleted) /\ ~ Less(y.moveReg, x.moveReg)
<1> DEFINE x == SeqAt(g, p, k).vertex[v]
           y == SeqAt(h, p, k).vertex[v]
           old == On(A, "move_vertex", p, k, v)
           new == On(B, "move_vertex", p, k, v)
<1>1. KnowsVertex(g, p, k, v) /\ KnowsVertex(h, p, k, v)
  BY DEF TwoViews, KnowsVertex, Has, SeqAt
<1>2. /\ x.deleted <=> On(A, "delete_vertex", p, k, v) # {}
      /\ LastMove(x, v, old)
  <2>1. Effects(I, A, g)
    BY DEF TwoViews
  <2>2. ReflectsVertex(x, A, p, k, v, g.part[p].key, g.part[p].ring[k].key)
    BY <1>1, <2>1, VertexComesFrom DEF SeqAt
  <2> HIDE DEF x, y
  <2>3. QED
    BY <2>2 DEF ReflectsVertex
<1>3. /\ y.deleted <=> On(B, "delete_vertex", p, k, v) # {}
      /\ LastMove(y, v, new)
  <2>1. Effects(I, B, h)
    BY DEF TwoViews
  <2>2. ReflectsVertex(y, B, p, k, v, h.part[p].key, h.part[p].ring[k].key)
    BY <1>1, <2>1, VertexComesFrom DEF SeqAt
  <2> HIDE DEF x, y
  <2>3. QED
    BY <2>2 DEF ReflectsVertex
<1>4. On(A, "delete_vertex", p, k, v) \subseteq On(B, "delete_vertex", p, k, v)
  BY DEF On, At
<1>5. old \subseteq new /\ new \subseteq I
  BY DEF On, At, TwoViews, Effects
<1>6. \A o \in new : Stamped(o)
  BY <1>5, InsertedOnce DEF TwoViews, Effects
<1> HIDE DEF x, y, old, new
<1>7. ~ Less(y.moveReg, x.moveReg)
  <2>1. CASE old = {}
    <3>1. x.moveReg = NoStamp
      BY <1>2, <2>1 DEF LastMove
    <3>2. y.moveReg = NoStamp \/ \E m \in new : y.moveReg = StampOf(m)
      BY <1>3 DEF LastMove
    <3>3. ASSUME NEW m \in new
          PROVE  ~ Less(StampOf(m), NoStamp)
      BY <1>6 DEF NoStamp, StampOf, Less, Stamped
    <3>4. ~ Less(NoStamp, NoStamp)
      BY DEF NoStamp, Less
    <3>5. QED
      BY <3>1, <3>2, <3>3, <3>4
  <2>2. CASE old # {}
    <3>1. PICK m \in old : x.moveReg = StampOf(m)
      BY <1>2, <2>2 DEF LastMove
    <3>2. PICK n \in new : y.moveReg = StampOf(n) /\ \A o \in new : ~ Newer(o, n)
      BY <1>3, <1>5, <2>2 DEF LastMove
    <3>3. ~ Newer(m, n)
      BY <1>5, <3>2
    <3>4. QED
      BY <3>1, <3>2, <3>3 DEF Newer, Less, StampOf
  <2>3. QED
    BY <2>1, <2>2
<1>8. x.deleted => y.deleted
  BY <1>2, <1>3, <1>4
<1>9. QED
  BY <1>7, <1>8 DEF x, y

LEMMA StepKeepsVertices ==
  ASSUME IInv, [Next]_vars, NEW r \in Replica, NEW ring \in Rings(engine[r])
  PROVE  LET old == VerticesOf(engine[r], ring)
             new == VerticesOf(engine[r], ring)'
         IN  \A v \in DOMAIN old.vertex :
               /\ Has(new, v)
               /\ old.vertex[v].deleted => new.vertex[v].deleted
               /\ ~ Less(new.vertex[v].moveReg, old.vertex[v].moveReg)
<1> DEFINE p == ring[1]
           k == ring[2]
           g == engine[r]
           h == engine'[r]
           s == SeqAt(g, p, k)
           t == SeqAt(h, p, k)
           A == Done(engine[r], log[r])
           B == Done(engine'[r], log'[r])
<1>1. s = VerticesOf(engine[r], ring) /\ t = VerticesOf(engine[r], ring)'
  BY DEF SeqAt, VerticesOf
<1>2. A \subseteq B /\ Grows(g, h) /\ Effects(issued', A, g) /\ Effects(issued', B, h)
  BY StepViews
<1>3. KnowsRing(g, p, k)
  BY RingsAreKnown
<1>4. KnowsRing(h, p, k)
  BY <1>2, <1>3, StillKnown
<1>5. DOMAIN s.vertex \subseteq DOMAIN t.vertex
  BY <1>2, <1>3 DEF Grows, PartGrows, KnowsRing, KnowsPart, SeqAt
<1>6. TwoViews(issued', A, g, B, h, p, k)
  BY <1>2, <1>3, <1>4 DEF TwoViews
<1> HIDE DEF p, k, g, h, A, B
<1>7. ASSUME NEW v \in DOMAIN s.vertex
      PROVE  /\ Has(t, v) /\ (s.vertex[v].deleted => t.vertex[v].deleted)
             /\ ~ Less(t.vertex[v].moveReg, s.vertex[v].moveReg)
  <2>1. v \in DOMAIN t.vertex
    BY <1>5
  <2>2. /\ s.vertex[v].deleted => t.vertex[v].deleted
        /\ ~ Less(t.vertex[v].moveReg, s.vertex[v].moveReg)
    BY <1>2, <1>6, <2>1, VertexAges
  <2>3. QED
    BY <2>1, <2>2 DEF Has
<1> HIDE DEF s, t
<1>8. QED
  BY <1>1, <1>7

(* No operation, merge or drain brings a deleted vertex back or replaces a *)
(* position by an older one.                                               *)
THEOREM NothingDeletedComesBack == Spec => NothingComesBack
<1>1. IInv /\ [Next]_vars =>
        [ \A r \in Replica : \A ring \in Rings(engine[r]) :
            LET old == VerticesOf(engine[r], ring)
                new == VerticesOf(engine[r], ring)'
            IN  \A v \in DOMAIN old.vertex :
                  /\ Has(new, v)
                  /\ old.vertex[v].deleted => new.vertex[v].deleted
                  /\ ~ Less(new.vertex[v].moveReg, old.vertex[v].moveReg) ]_vars
  BY StepKeepsVertices
<1>2. QED
  BY <1>1, InvariantHolds, PTL DEF Spec, NothingComesBack

-----------------------------------------------------------------------------
(***************************************************************************)
(* Where the newest vertex appears.                                        *)
(***************************************************************************)
RightBehind(order, w, n) == order[Min({ i \in DOMAIN order : order[i] = w }) + 1] = n

LEMMA NewestIsFirstChild ==
  ASSUME NEW s, Tree(s), NEW n \in DOMAIN s.vertex, NEW w, w = s.vertex[n].parent,
         \A v \in DOMAIN s.vertex : v # n => Elder(s.vertex, v, n)
  PROVE  RightBehind(<< Root >> \o Walk(s), w, n)
<1> DEFINE V == s.vertex
           D == DOMAIN V
           q == Walk(s)
           order == << Root >> \o q
           found == { i \in DOMAIN order : order[i] = w }
           at == Min(found)
<1>1. Planted(V) /\ IsFiniteSet(D)
  BY DEF Tree
<1>2. PICK R : DocOrder(V, R)
  BY <1>1, OrderExists
<1>3. q \in Seq(D) /\ SortedBy(q, R) /\ ToSet(q) = D
  BY <1>2, WalkIsDocumentOrder
<1>4. /\ Strict(D, R) /\ \A a, b \in D : a # b => << a, b >> \in R \/ << b, a >> \in R
      /\ \A a, b \in D : Elder(V, a, b) =>
           (<< b, a >> \in R <=> V[b].parent = Root \/ << V[b].parent, a >> \in R)
  BY <1>2 DEF DocOrder, OrderOn
<1>5. Root \notin D /\ (w = Root \/ w \in D)
  BY <1>1 DEF Planted
<1> HIDE DEF q
<1>6. /\ Len(q) \in Nat /\ DOMAIN q = 1 .. Len(q) /\ ToSet(q) = { q[i] : i \in 1 .. Len(q) }
      /\ \A i \in 1 .. Len(q) : q[i] \in D
  BY <1>3, ElementsOf
<1>7. /\ Len(order) = Len(q) + 1 /\ DOMAIN order = 1 .. Len(q) + 1
      /\ order[1] = Root /\ \A i \in 1 .. Len(q) : order[i + 1] = q[i]
  BY <1>3, <1>6
<1>8. PICK j \in 1 .. Len(q) : q[j] = n
  BY <1>3, <1>6
<1>9. \A i \in 1 .. Len(q) : q[i] = n => i = j
  BY <1>3, <1>4, <1>8, SortedOnce
<1>10. ASSUME NEW u \in D, u # n
       PROVE  << n, u >> \in R <=> w = Root \/ << w, u >> \in R
  BY <1>4, <1>10 DEF V
<1>11. \A a, b \in D : << a, b >> \in R => << b, a >> \notin R
  BY <1>4 DEF Strict
<1>16. n \in D /\ (w \in D /\ w # n => Elder(V, w, n)) /\ V[n].parent = w
  OBVIOUS
<1>17. ~ Elder(V, n, n) /\ (w \in D => Elder(V, w, n))
  BY <1>1, <1>5, <1>16, AgesAreOrdered DEF Planted
<1> HIDE DEF order
<1>12. found \in SUBSET Nat
  BY <1>6, <1>7
<1> HIDE DEF V, D
<1>13. CASE w = Root
  <2>1. j = 1
    <3> SUFFICES ASSUME j # 1 PROVE FALSE
      OBVIOUS
    <3>1. 1 \in 1 .. Len(q) /\ 1 < j /\ q[1] # n
      BY <1>6, <1>9
    <3>2. << q[1], n >> \in R
      BY <1>3, <1>6, <1>8, <3>1 DEF SortedBy
    <3>3. << n, q[1] >> \in R
      BY <1>6, <1>10, <1>13, <3>1
    <3>4. QED
      BY <1>6, <1>8, <1>11, <3>1, <3>2, <3>3
  <2>2. 1 \in found
    BY <1>6, <1>7, <1>13
  <2> HIDE DEF found
  <2>3. at \in found /\ at <= 1
    BY <1>12, <2>2, MinOfNumbers
  <2>4. at = 1
    BY <1>6, <1>7, <2>3 DEF found
  <2>5. QED
    BY <1>7, <1>8, <2>1, <2>4 DEF order, found, q, V, RightBehind
<1>14. CASE w \in D
  <2>1. w # n
    BY <1>14, <1>17
  <2>2. PICK i \in 1 .. Len(q) : q[i] = w
    BY <1>3, <1>6, <1>14
  <2>3. << w, w >> \notin R /\ w # Root
    BY <1>4, <1>5, <1>14 DEF Strict
  <2>4. << n, w >> \notin R
    BY <1>10, <1>14, <2>1, <2>3
  <2>5. i < j
    <3> SUFFICES ASSUME j <= i PROVE FALSE
      BY <1>6
    <3>1. j < i
      BY <1>8, <2>1, <2>2
    <3>2. << n, w >> \in R
      BY <1>3, <1>8, <2>2, <3>1 DEF SortedBy
    <3>3. QED
      BY <2>4, <3>2
  <2>6. j = i + 1
    <3> SUFFICES ASSUME j # i + 1 PROVE FALSE
      OBVIOUS
    <3>1. i + 1 \in 1 .. Len(q) /\ i < i + 1 /\ i + 1 < j
      BY <1>6, <2>5
    <3>2. << w, q[i + 1] >> \in R /\ << q[i + 1], n >> \in R
      BY <1>3, <1>8, <2>2, <3>1 DEF SortedBy
    <3>3. q[i + 1] # n /\ q[i + 1] \in D
      BY <1>6, <1>9, <3>1
    <3>4. << n, q[i + 1] >> \in R
      BY <1>10, <3>2, <3>3
    <3>5. QED
      BY <1>6, <1>8, <1>11, <3>2, <3>3, <3>4
  <2>7. \A m \in found : m = i + 1
    <3> SUFFICES ASSUME NEW m \in found PROVE m = i + 1
      OBVIOUS
    <3>1. m \in 1 .. Len(q) + 1 /\ order[m] = w /\ m # 1
      BY <1>7, <2>3
    <3>2. m - 1 \in 1 .. Len(q) /\ (m - 1) + 1 = m
      BY <1>6, <3>1
    <3>3. q[m - 1] = w
      BY <1>7, <3>1, <3>2
    <3>4. m - 1 = i
      BY <1>3, <1>4, <2>2, <3>2, <3>3, SortedOnce
    <3>5. QED
      BY <3>2, <3>4
  <2>8. i + 1 \in found
    BY <1>6, <1>7, <2>2
  <2> HIDE DEF found
  <2>9. at = i + 1
    BY <1>12, <2>7, <2>8, MinOfNumbers
  <2>10. QED
    BY <1>7, <1>8, <2>6, <2>9 DEF order, found, q, V, RightBehind
<1>15. QED
  BY <1>5, <1>13, <1>14

LEMMA VertexKeyIs ==
  ASSUME NEW I, NEW A, NEW g, Effects(I, A, g), NEW p, NEW k, KnowsRing(g, p, k), NEW v,
         NEW key, NEW parent,
         VertexFrom(A, p, k, v, g.part[p].key, g.part[p].ring[k].key, key, parent)
  PROVE  /\ v \in DOMAIN SeqAt(g, p, k).vertex
         /\ SeqAt(g, p, k).vertex[v].key = key /\ SeqAt(g, p, k).vertex[v].parent = parent
<1>1. /\ KnowsVertex(g, p, k, v)
      /\ LET x == g.part[p].ring[k].seq.vertex[v]
         IN  x.key = key /\ x.parent = parent
  BY VertexIsThere
<1>2. QED
  BY <1>1 DEF SeqAt, KnowsVertex, Has

(* Of a geometry that has had no newer operation.                          *)
LEMMA LastInsertIsNewest ==
  ASSUME NEW I, NEW B, NEW h, Effects(I, B, h), NEW op \in B, op.action = "insert_vertex",
         \A o \in B : o = op \/ Newer(op, o)
  PROVE  LET s == SeqAt(h, op.part, op.ring)
             n == InsertedVertexID(op)
         IN  /\ Tree(s) /\ n \in DOMAIN s.vertex /\ s.vertex[n].parent = op.vertex
             /\ \A v \in DOMAIN s.vertex : v # n => Elder(s.vertex, v, n)
<1> DEFINE p == op.part
           k == op.ring
           s == SeqAt(h, p, k)
           n == InsertedVertexID(op)
           pk == h.part[p].key
           rk == h.part[p].ring[k].key
<1>1. Ready(h, op)
  BY DEF Effects, Reflects
<1>2. KnowsRing(h, p, k)
  BY <1>1 DEF Ready, NeedsRing, VertexActions
<1>3. Tree(s)
  BY <1>2, KnownRingsAreTrees DEF Effects, SeqAt, KnowsRing
<1>4. VertexFrom(B, p, k, n, pk, rk, OpKey(StampOf(op)), op.vertex)
  BY DEF VertexFrom, At
<1>5. /\ n \in DOMAIN s.vertex /\ s.vertex[n].key = OpKey(StampOf(op))
      /\ s.vertex[n].parent = op.vertex
  <2> HIDE DEF n, p, k
  <2> DEFINE key == OpKey(StampOf(op))
             parent == op.vertex
  <2>2. VertexFrom(B, p, k, n, h.part[p].key, h.part[p].ring[k].key, key, parent)
    BY <1>4
  <2> HIDE DEF key, parent
  <2>3. /\ n \in DOMAIN SeqAt(h, p, k).vertex
        /\ SeqAt(h, p, k).vertex[n].key = key /\ SeqAt(h, p, k).vertex[n].parent = parent
    BY <1>2, <2>2, VertexKeyIs
  <2>4. QED
    BY <2>3 DEF key, parent
<1>6. ASSUME NEW v \in DOMAIN s.vertex, v # n
      PROVE  Elder(s.vertex, v, n)
  <2> DEFINE x == s.vertex[v]
  <2>1. KnowsVertex(h, p, k, v)
    BY <1>2 DEF KnowsVertex, Has, SeqAt
  <2>2. VertexFrom(B, p, k, v, pk, rk, x.key, x.parent)
    BY <2>1, VertexComesFrom DEF SeqAt
  <2> HIDE DEF x, pk, rk
  <2>3. x.key.initial = TRUE \/ \E o \in B : v = InsertedVertexID(o) /\ x.key = OpKey(StampOf(o))
    <3>1. CASE \E i \in 1 .. Size(rk) : x.key = InitialKey(i - 1)
      BY <3>1 DEF InitialKey
    <3>2. CASE \E o \in At(B, "insert_vertex", p, k) :
                 v = InsertedVertexID(o) /\ x.key = OpKey(StampOf(o))
      BY <3>2 DEF At
    <3>3. QED
      BY <2>2, <3>1, <3>2 DEF VertexFrom
  <2>4. ASSUME NEW o \in B, v = InsertedVertexID(o), x.key = OpKey(StampOf(o))
        PROVE  SetKeyBefore(x.key, OpKey(StampOf(op)))
    <3>1. o # op
      BY <1>6, <2>4
    <3>2. Less(StampOf(o), StampOf(op))
      BY <3>1 DEF Newer, Less, StampOf
    <3>3. QED
      BY <2>4, <3>2 DEF SetKeyBefore, OpKey
  <2>5. x.key.initial = TRUE => SetKeyBefore(x.key, OpKey(StampOf(op)))
    BY DEF SetKeyBefore, OpKey
  <2>6. SetKeyBefore(x.key, OpKey(StampOf(op)))
    BY <2>3, <2>4, <2>5
  <2>7. QED
    BY <1>5, <2>6 DEF Elder, x
<1>7. QED
  BY <1>3, <1>5, <1>6

LEMMA StepInsertsRightBehind ==
  ASSUME IInv, [Next]_vars, NEW r \in Replica, localSeq'[r] > localSeq[r],
         NEW op \in log'[r] \ log[r], op.action = "insert_vertex"
  PROVE  LET order == << Root >> \o Walk(VerticesOf(engine'[r], << op.part, op.ring >>))
             at    == Min({ i \in DOMAIN order : order[i] = op.vertex })
         IN  order[at + 1] = InsertedVertexID(op)
<1>1. ReplicaInv(r)
  BY DEF IInv
<1>2. localSeq[r] \in Nat /\ clock[r] \in Nat
  BY <1>1, NumbersAre DEF ReplicaInv
<1>3. localSeq'[r] # localSeq[r]
  BY <1>2
<1>4. LocalStep
  <2>1. CASE PeerStep
    BY <1>3, <2>1 DEF PeerStep
  <2>2. CASE MergeStep
    BY <1>3, <2>2, MergeStepIs DEF Learns
  <2>3. CASE UNCHANGED vars
    BY <1>3, <2>3 DEF vars
  <2>4. QED
    BY <2>1, <2>2, <2>3 DEF Next
<1>5. PICK q \in Replica : \E o \in Commands(engine[q], q, localSeq[q] + 1, clock[q] + 1) :
           /\ ~ Exhausted(q) /\ log'[q] = log[q] \cup {o} /\ issued' = issued \cup {o}
           /\ EngineApply(engine[q], o).outcomes[o] = "applied"
           /\ engine'[q] = EngineApply(engine[q], o).state
           /\ \A x \in Replica : x # q => SameReplica(x)
  BY <1>4, LocalStepIs
<1>6. q = r
  BY <1>3, <1>5 DEF SameReplica
<1>7. PICK o \in Commands(engine[r], r, localSeq[r] + 1, clock[r] + 1) :
           /\ ~ Exhausted(r) /\ log'[r] = log[r] \cup {o} /\ issued' = issued \cup {o}
           /\ EngineApply(engine[r], o).outcomes[o] = "applied"
           /\ engine'[r] = EngineApply(engine[r], o).state
  BY <1>5, <1>6
<1>8. o = op
  BY <1>7
<1>9. /\ op.ts = clock[r] + 1 /\ \A x \in issued : ~ Refers(x, op)
      /\ NewArrival(issued \cup {op}, log[r], reported[r], engine[r], op)
  BY <1>7, <1>8, LocalIssue
<1>10. Admits(op) /\ op \notin WaitingOps(engine'[r])
  <2>1. \A x \in log[r] : ~ Refers(x, op)
    BY <1>1, <1>9 DEF ReplicaInv
  <2>2. QED
    BY <1>7, <1>8, <1>9, <2>1, LocallySettled
<1> DEFINE B == Done(engine'[r], log'[r])
           s == SeqAt(engine'[r], op.part, op.ring)
<1>11. op \in B /\ B \subseteq log[r] \cup {op}
  BY <1>7, <1>8, <1>10 DEF Done
<1>12. \A x \in B : x = op \/ x.ts < op.ts
  BY <1>1, <1>2, <1>9, <1>11, NumbersAre, StampsAreNumbers DEF ReplicaInv
<1>13. Effects(issued', B, engine'[r])
  BY StepViews
<1> HIDE DEF B
<1>14. /\ Tree(s) /\ InsertedVertexID(op) \in DOMAIN s.vertex
       /\ s.vertex[InsertedVertexID(op)].parent = op.vertex
       /\ \A v \in DOMAIN s.vertex :
            v # InsertedVertexID(op) => Elder(s.vertex, v, InsertedVertexID(op))
  <2>1. \A x \in B : x = op \/ Newer(op, x)
    BY <1>12 DEF Newer, Less
  <2>2. QED
    BY <1>11, <1>13, <2>1, LastInsertIsNewest
<1>15. s = VerticesOf(engine'[r], << op.part, op.ring >>)
  BY DEF SeqAt, VerticesOf
<1> HIDE DEF s
<1> DEFINE n == InsertedVertexID(op)
           w == op.vertex
<1>16. RightBehind(<< Root >> \o Walk(s), w, n)
  <2> HIDE DEF n, w
  <2>1. /\ Tree(s) /\ n \in DOMAIN s.vertex /\ w = s.vertex[n].parent
        /\ \A v \in DOMAIN s.vertex : v # n => Elder(s.vertex, v, n)
    BY <1>14 DEF n, w
  <2>2. QED
    BY <2>1, NewestIsFirstChild
<1>17. QED
  BY <1>15, <1>16 DEF RightBehind

(* A vertex is where the editor put it, right behind its predecessor.      *)
THEOREM LocalInsertsAppearInPlace == Spec => InsertsRightBehind
<1>1. IInv /\ [Next]_vars =>
        [ \A r \in Replica :
            localSeq'[r] > localSeq[r] =>
              \A op \in log'[r] \ log[r] : op.action = "insert_vertex" =>
                LET order == << Root >> \o Walk(VerticesOf(engine'[r], << op.part, op.ring >>))
                    at    == Min({ i \in DOMAIN order : order[i] = op.vertex })
                IN  order[at + 1] = InsertedVertexID(op) ]_vars
  BY StepInsertsRightBehind
<1>2. QED
  BY <1>1, InvariantHolds, PTL DEF Spec, InsertsRightBehind

-----------------------------------------------------------------------------
(***************************************************************************)
(* What has been delivered decides what has taken effect.                  *)
(***************************************************************************)
THEOREM DoneGrowsWithLog ==
  ASSUME NEW I, Exchange(I), NEW L, L \subseteq I, NEW M, M \subseteq I,
         \A o \in L : Admits(o) => o \in M,
         NEW R, NEW g, Settled(L, R, g), NEW Q, NEW h, Settled(M, Q, h)
  PROVE  Done(g, L) \subseteq Done(h, M)
<1> DEFINE A == Done(g, L)
           B == Done(h, M)
           Bad == A \ B
<1>1. A \subseteq M /\ B \subseteq M /\ A \subseteq I /\ B \subseteq I
  BY DEF Done
<1>2. Effects(I, A, g) /\ Effects(I, B, h)
  BY <1>1 DEF Effects, Settled
<1>3. SUFFICES ASSUME Bad # {} PROVE FALSE
  OBVIOUS
<1>4. Orderly(Bad)
  <2>1. IsFiniteSet(Bad)
    BY <1>1, FS_Subset DEF Exchange, Orderly
  <2>2. QED
    BY <1>1, <2>1 DEF Exchange, Orderly, OneEach
<1> HIDE DEF A, B
<1>5. PICK o \in Bad : \A b \in Bad : ~ Newer(o, b)
  BY <1>3, <1>4, OldestExists
<1>6. o \in WaitingOps(h) /\ Ready(g, o)
  BY DEF A, B, Done, Settled
<1>7. \A b \in A : Refers(o, b) => b \in B
  BY <1>1, <1>5 DEF Exchange
<1>8. Ready(h, o)
  BY <1>2, <1>6, <1>7, ReadyWithReferred
<1>9. PICK dep : InQueue(h, dep, o)
  BY <1>6, WaitingIs DEF Settled
<1>10. Lacks(h, o, dep)
  BY <1>9 DEF Settled, Waits
<1>11. QED
  BY <1>8, <1>10, LackingIsNotReady

-----------------------------------------------------------------------------
(***************************************************************************)
(* What one site's deletes leave of a ring.                                *)
(***************************************************************************)
(* The vertices that no operation of S deletes.                            *)
Spared(g, S, p, k) ==
  { v \in DOMAIN SeqAt(g, p, k).vertex : On(S, "delete_vertex", p, k, v) = {} }

EnoughLeft(g, S) ==
  \A p, k : KnowsRing(g, p, k) => Cardinality(Spared(g, S, p, k)) >= FewestVertices

LEMMA FewestIs ==
  /\ FewestVertices \in Nat /\ FewestVertices <= Hole /\ FewestVertices <= Floor
  /\ \A r \in DOMAIN Shape : FewestVertices <= Shape[r]
<1>1. FewestVertices \in 1 .. 3 /\ FewestVertices <= Floor
  BY GeometryAssumption DEF FewestVertices, PartType, Multi, Floor
<1>2. QED
  BY <1>1, GeometryAssumption

LEMMA RingHasEnough ==
  ASSUME NEW I, NEW A, NEW g, Effects(I, A, g), NEW p, NEW k, KnowsRing(g, p, k)
  PROVE  /\ IsFiniteSet(DOMAIN SeqAt(g, p, k).vertex)
         /\ Cardinality(DOMAIN SeqAt(g, p, k).vertex) >= FewestVertices
<1> DEFINE D == DOMAIN SeqAt(g, p, k).vertex
           pk == g.part[p].key
           rk == g.part[p].ring[k].key
           n == Size(rk)
           q == [i \in 1 .. n |-> DerivedVertexID(pk, rk, InitialKey(i - 1))]
<1>1. /\ ReflectsRing(g.part[p].ring[k], A, p, k, pk) /\ PartKey(pk) /\ RingKey(rk)
  BY RingComesFrom
<1>2. ReflectsSeq(SeqAt(g, p, k), A, p, k, pk, rk)
  BY <1>1 DEF ReflectsRing, SeqAt
<1>3. IsFiniteSet(D)
  BY <1>2 DEF ReflectsSeq, Tree
<1>4. pk.initial \in BOOLEAN /\ rk.initial \in BOOLEAN /\ n \in Nat
  BY <1>1, PartKeyIs, RingKeyIs
<1>5. FewestVertices <= n
  <2>1. rk.initial => rk.pos + 1 \in DOMAIN Shape
    BY <1>1, RingKeyIs
  <2>2. QED
    BY <1>4, <2>1, FewestIs DEF Size
<1>6. \A i \in 1 .. n : DerivedVertexID(pk, rk, InitialKey(i - 1)) \in D
  BY <1>2 DEF ReflectsSeq
<1>7. \A i, j : DerivedVertexID(pk, rk, InitialKey(i)) = DerivedVertexID(pk, rk, InitialKey(j)) => i = j
  BY <1>4, VertexIDs
<1> HIDE DEF D, pk, rk, n
<1>8. q \in Seq(D) /\ Len(q) = n
  BY <1>4, <1>6
<1>9. \A i, j \in 1 .. Len(q) : q[i] = q[j] => i = j
  <2> SUFFICES ASSUME NEW i \in 1 .. n, NEW j \in 1 .. n, q[i] = q[j] PROVE i = j
    BY <1>8
  <2>1. i - 1 = j - 1
    BY <1>7
  <2>2. QED
    BY <1>4, <2>1
<1>10. ToSet(q) \subseteq D
  BY <1>8, ElementsOf
<1> HIDE DEF q
<1>11. Cardinality(ToSet(q)) = n /\ IsFiniteSet(ToSet(q))
  BY <1>8, <1>9, LengthIsCardinality
<1>12. n <= Cardinality(D) /\ Cardinality(D) \in Nat
  BY <1>3, <1>10, <1>11, FS_Subset, FS_CardinalityType
<1>13. QED
  BY <1>3, <1>4, <1>5, <1>12, FewestIs DEF D

LEMMA MoreIsEnough ==
  ASSUME NEW S, NEW T, S \subseteq T, IsFiniteSet(T), Cardinality(S) >= FewestVertices
  PROVE  Cardinality(T) >= FewestVertices
BY FS_Subset, FS_CardinalityType, FewestIs

(* Rings that are new to g have lost nothing yet to what g has known.      *)
LEMMA EnoughAfterGrowing ==
  ASSUME NEW I, NEW A, NEW g, Effects(I, A, g), NEW S, S \subseteq A, EnoughLeft(g, S),
         NEW B, NEW h, Effects(I, B, h), Grows(g, h)
  PROVE  EnoughLeft(h, S)
<1> SUFFICES ASSUME NEW p, NEW k, KnowsRing(h, p, k)
             PROVE  Cardinality(Spared(h, S, p, k)) >= FewestVertices
  BY DEF EnoughLeft
<1>1. /\ IsFiniteSet(DOMAIN SeqAt(h, p, k).vertex)
      /\ Cardinality(DOMAIN SeqAt(h, p, k).vertex) >= FewestVertices
  BY RingHasEnough
<1>2. Spared(h, S, p, k) \subseteq DOMAIN SeqAt(h, p, k).vertex
  BY DEF Spared
<1>3. CASE KnowsRing(g, p, k)
  <2>1. DOMAIN SeqAt(g, p, k).vertex \subseteq DOMAIN SeqAt(h, p, k).vertex
    BY <1>3 DEF Grows, PartGrows, KnowsRing, KnowsPart, SeqAt
  <2>2. Spared(g, S, p, k) \subseteq Spared(h, S, p, k)
    BY <2>1 DEF Spared
  <2>3. IsFiniteSet(Spared(h, S, p, k))
    BY <1>1, <1>2, FS_Subset
  <2>4. QED
    BY <1>3, <2>2, <2>3, MoreIsEnough DEF EnoughLeft
<1>4. CASE ~ KnowsRing(g, p, k)
  <2>1. ASSUME NEW o \in S, o.action = "delete_vertex", o.part = p, o.ring = k
        PROVE  FALSE
    <3>1. Ready(g, o)
      BY DEF Effects, Reflects
    <3>2. QED
      BY <1>4, <2>1, <3>1 DEF Ready, NeedsRing, VertexActions
  <2>2. \A v : On(S, "delete_vertex", p, k, v) = {}
    BY <2>1 DEF On, At
  <2>3. Spared(h, S, p, k) = DOMAIN SeqAt(h, p, k).vertex
    BY <2>2 DEF Spared
  <2>4. QED
    BY <1>1, <2>3
<1>5. QED
  BY <1>3, <1>4

(* A validated operation of its own.                                       *)
LEMMA EnoughAfterOwn ==
  ASSUME NEW I, NEW A, NEW g, Effects(I, A, g), NEW S, S \subseteq A, EnoughLeft(g, S),
         NEW B, NEW h, Effects(I, B, h), Grows(g, h), NEW op, ValidLocalOp(g, op)
  PROVE  EnoughLeft(h, S \cup {op})
<1> SUFFICES ASSUME NEW p, NEW k, KnowsRing(h, p, k)
             PROVE  Cardinality(Spared(h, S \cup {op}, p, k)) >= FewestVertices
  BY DEF EnoughLeft
<1> DEFINE T == Spared(h, S \cup {op}, p, k)
<1>1. Cardinality(Spared(h, S, p, k)) >= FewestVertices
  BY EnoughAfterGrowing DEF EnoughLeft
<1>2. CASE ~ (op.action = "delete_vertex" /\ op.part = p /\ op.ring = k)
  <2>1. \A v : On(S \cup {op}, "delete_vertex", p, k, v) = On(S, "delete_vertex", p, k, v)
    BY <1>2 DEF On, At
  <2>2. T = Spared(h, S, p, k)
    BY <2>1 DEF Spared
  <2>3. QED
    BY <1>1, <2>2
<1>3. CASE op.action = "delete_vertex" /\ op.part = p /\ op.ring = k
  <2> DEFINE s == SeqAt(g, p, k)
             shown == VisibleVertices(s)
  <2>1. KnowsRing(g, p, k) /\ s.visible - 1 >= Floor
    BY <1>3 DEF ValidLocalOp, VertexActions, KnowsRing, KnowsPart, SeqAt
  <2>2. Tree(s)
    BY <2>1, KnownRingsAreTrees DEF Effects, SeqAt, KnowsRing
  <2>3. IsFiniteSet(shown) /\ s.visible = Cardinality(shown)
    <3>1. shown \subseteq DOMAIN s.vertex
      BY DEF VisibleVertices
    <3>2. QED
      BY <2>2, <3>1, FS_Subset DEF Tree
  <2>4. DOMAIN s.vertex \subseteq DOMAIN SeqAt(h, p, k).vertex
    BY <2>1 DEF Grows, PartGrows, KnowsRing, KnowsPart, SeqAt
  <2>5. shown \ {op.vertex} \subseteq T
    <3> SUFFICES ASSUME NEW v \in shown, v # op.vertex PROVE v \in T
      OBVIOUS
    <3>1. v \in DOMAIN s.vertex /\ ~ s.vertex[v].deleted
      BY DEF VisibleVertices
    <3>2. KnowsVertex(g, p, k, v)
      BY <2>1, <3>1 DEF KnowsVertex, Has, SeqAt
    <3> DEFINE x == g.part[p].ring[k].seq.vertex[v]
    <3>3. ReflectsVertex(x, A, p, k, v, g.part[p].key, g.part[p].ring[k].key)
      BY <3>2, VertexComesFrom
    <3>4. ~ x.deleted
      BY <3>1 DEF SeqAt
    <3> HIDE DEF x
    <3>5. On(A, "delete_vertex", p, k, v) = {}
      BY <3>3, <3>4 DEF ReflectsVertex
    <3>6. On(S \cup {op}, "delete_vertex", p, k, v) = {}
      BY <3>5 DEF On, At
    <3>7. QED
      BY <2>4, <3>1, <3>6 DEF Spared
  <2>6. IsFiniteSet(T)
    <3>1. IsFiniteSet(DOMAIN SeqAt(h, p, k).vertex)
      BY RingHasEnough
    <3>2. T \subseteq DOMAIN SeqAt(h, p, k).vertex
      BY DEF Spared
    <3>3. QED
      BY <3>1, <3>2, FS_Subset
  <2> HIDE DEF shown, s, T
  <2>7. Cardinality(shown) \in Nat /\ Cardinality(shown \ {op.vertex}) >= Cardinality(shown) - 1
        /\ Cardinality(shown \ {op.vertex}) \in Nat
    BY <2>3, FS_RemoveElement, FS_CardinalityType, FS_Subset
  <2>8. Cardinality(shown \ {op.vertex}) >= FewestVertices
    <3>1. Floor \in Nat
      BY DEF Floor
    <3>2. QED
      BY <2>1, <2>3, <2>7, <3>1, FewestIs
  <2>9. Cardinality(T) >= FewestVertices
    BY <2>5, <2>6, <2>8, MoreIsEnough
  <2>10. QED
    BY <2>9 DEF T
<1>4. QED
  BY <1>2, <1>3

(* Every replica has had effect of what it issued itself, and that has     *)
(* left enough of every ring it knows.                                     *)
OwnInv(d) ==
  /\ IssuedBy(d) \subseteq Done(engine[d], log[d])
  /\ EnoughLeft(engine[d], IssuedBy(d))

FloorInv ==
  /\ \A o \in issued : o.site \in Replica \cup Peer
  /\ \A d \in Replica : OwnInv(d)

LEMMA InitFloorInv == Init => FloorInv
<1> SUFFICES ASSUME Init PROVE FloorInv
  OBVIOUS
<1>1. IInv
  BY InitInv
<1>2. ASSUME NEW d \in Replica
      PROVE  OwnInv(d)
  <2>1. IssuedBy(d) = {}
    BY DEF IssuedBy, Init
  <2>2. Effects(issued, Done(engine[d], log[d]), engine[d])
    BY <1>1, ReplicaEffects
  <2>3. \A p, k : Spared(engine[d], {}, p, k) = DOMAIN SeqAt(engine[d], p, k).vertex
    BY DEF Spared, On, At
  <2>4. EnoughLeft(engine[d], {})
    BY <2>2, <2>3, RingHasEnough DEF EnoughLeft
  <2>5. QED
    BY <2>1, <2>4 DEF OwnInv
<1>3. QED
  BY <1>2 DEF FloorInv, Init

LEMMA OwnInvStays ==
  ASSUME IInv, [Next]_vars, NEW d \in Replica, OwnInv(d), IssuedBy(d)' = IssuedBy(d)
  PROVE  OwnInv(d)'
<1> DEFINE A == Done(engine[d], log[d])
           B == Done(engine'[d], log'[d])
           S == IssuedBy(d)
<1>1. /\ A \subseteq B /\ Grows(engine[d], engine'[d])
      /\ Effects(issued', A, engine[d]) /\ Effects(issued', B, engine'[d])
  BY StepViews
<1>2. S \subseteq A /\ EnoughLeft(engine[d], S)
  BY DEF OwnInv
<1>3. EnoughLeft(engine'[d], S)
  <2> HIDE DEF A, B, S
  <2>1. QED
    BY <1>1, <1>2, EnoughAfterGrowing
<1>4. QED
  BY <1>1, <1>2, <1>3 DEF OwnInv

LEMMA LocalStepFloorInv ==
  ASSUME IInv, FloorInv, LocalStep
  PROVE  FloorInv'
<1>1. PICK r \in Replica :
        \E op \in Commands(engine[r], r, localSeq[r] + 1, clock[r] + 1) :
           /\ ~ Exhausted(r) /\ ValidLocalOp(engine[r], op)
           /\ EngineApply(engine[r], op).outcomes[op] = "applied"
           /\ engine'[r] = EngineApply(engine[r], op).state
           /\ log'[r] = log[r] \cup {op} /\ issued' = issued \cup {op}
  BY LocalStepIs
<1>2. PICK op \in Commands(engine[r], r, localSeq[r] + 1, clock[r] + 1) :
           /\ ~ Exhausted(r) /\ ValidLocalOp(engine[r], op)
           /\ EngineApply(engine[r], op).outcomes[op] = "applied"
           /\ engine'[r] = EngineApply(engine[r], op).state
           /\ log'[r] = log[r] \cup {op} /\ issued' = issued \cup {op}
  BY <1>1
<1>3. /\ op.site = r /\ \A x \in issued : ~ Refers(x, op)
      /\ NewArrival(issued \cup {op}, log[r], reported[r], engine[r], op)
  BY <1>2, LocalIssue
<1>4. Admits(op) /\ op \notin WaitingOps(engine'[r])
  <2>1. \A x \in log[r] : ~ Refers(x, op)
    BY <1>3 DEF IInv, ReplicaInv
  <2>2. QED
    BY <1>2, <1>3, <2>1, LocallySettled
<1>5. [Next]_vars
  BY DEF Next
<1>6. ASSUME NEW d \in Replica
      PROVE  OwnInv(d)'
  <2>1. OwnInv(d)
    BY DEF FloorInv
  <2>2. CASE d # r
    <3>1. IssuedBy(d)' = IssuedBy(d)
      BY <1>2, <1>3, <2>2 DEF IssuedBy
    <3>2. QED
      BY <1>5, <2>1, <3>1, OwnInvStays
  <2>3. CASE d = r
    <3> DEFINE A == Done(engine[d], log[d])
               B == Done(engine'[d], log'[d])
               S == IssuedBy(d)
    <3>1. /\ A \subseteq B /\ Grows(engine[d], engine'[d])
          /\ Effects(issued', A, engine[d]) /\ Effects(issued', B, engine'[d])
      BY <1>5, StepViews
    <3>2. S \subseteq A /\ EnoughLeft(engine[d], S)
      BY <2>1 DEF OwnInv
    <3>3. op \in B
      BY <1>2, <1>4, <2>3 DEF Done
    <3>4. IssuedBy(d)' = S \cup {op}
      BY <1>2, <1>3, <2>3 DEF IssuedBy
    <3>5. EnoughLeft(engine'[d], S \cup {op})
      <4> HIDE DEF A, B, S
      <4>1. QED
        BY <1>2, <2>3, <3>1, <3>2, EnoughAfterOwn
    <3>6. QED
      BY <3>1, <3>2, <3>3, <3>4, <3>5 DEF OwnInv
  <2>4. QED
    BY <2>2, <2>3
<1>7. QED
  BY <1>2, <1>3, <1>6 DEF FloorInv

LEMMA StepFloorInv ==
  ASSUME IInv, FloorInv, [Next]_vars
  PROVE  FloorInv'
<1>1. CASE LocalStep
  BY <1>1, LocalStepFloorInv
<1>2. CASE PeerStep
  <2>1. PICK site \in Peer, r \in Replica :
          \E op \in Commands(engine[r], site, Cardinality({o \in issued : o.site = site}) + 1,
                             LatestTimestamp(0, issued) + 1) : issued' = issued \cup {op}
    BY <1>2 DEF PeerStep
  <2>2. PICK op : op.site = site /\ issued' = issued \cup {op}
    BY <2>1, CommandIs
  <2>3. \A d \in Replica : IssuedBy(d)' = IssuedBy(d)
    BY <2>2, ReplicaAssumption DEF IssuedBy
  <2>4. QED
    BY <2>2, <2>3, OwnInvStays DEF FloorInv
<1>3. CASE MergeStep \/ UNCHANGED vars
  <2>1. issued' = issued
    BY <1>3, MergeStepIs DEF Learns, vars
  <2>2. \A d \in Replica : IssuedBy(d)' = IssuedBy(d)
    BY <2>1 DEF IssuedBy
  <2>3. QED
    BY <2>1, <2>2, OwnInvStays DEF FloorInv
<1>4. QED
  BY <1>1, <1>2, <1>3 DEF Next

LEMMA SeveralOrOne ==
  ASSUME NEW S, IsFiniteSet(S), ~ Cardinality(S) > 1, NEW a \in S, NEW b \in S
  PROVE  a = b
<1>1. Cardinality(S) \in Nat /\ Cardinality(S) # 0
  BY FS_CardinalityType, FS_EmptySet
<1>2. Cardinality(S) = 1
  BY <1>1
<1>3. \E x : S = {x}
  BY <1>2, FS_Singleton
<1>4. QED
  BY <1>3

LEMMA FloorHolds == IInv /\ FloorInv => FloorFallsOnlyTogether
<1> SUFFICES ASSUME IInv, FloorInv, NEW r \in Replica, NEW ring \in Rings(engine[r]),
                    log[r] = issued,
                    Cardinality(VisibleVertices(VerticesOf(engine[r], ring))) < FewestVertices
             PROVE  LET deleters == {op.site : op \in
                                      {o \in log[r] : /\ o.action = "delete_vertex"
                                                      /\ << o.part, o.ring >> = ring}}
                    IN  Cardinality(deleters) > 1 \/ deleters \cap Peer # {}
  BY DEF FloorFallsOnlyTogether
<1> DEFINE deletes == {o \in log[r] : /\ o.action = "delete_vertex"
                                      /\ << o.part, o.ring >> = ring}
           deleters == { op.site : op \in deletes }
           p == ring[1]
           k == ring[2]
           s == SeqAt(engine[r], p, k)
           B == Done(engine[r], log[r])
<1>1. SUFFICES ASSUME ~ (Cardinality(deleters) > 1), deleters \cap Peer = {} PROVE FALSE
  OBVIOUS
<1>2. KnowsRing(engine[r], p, k) /\ ring = << p, k >> /\ s = VerticesOf(engine[r], ring)
  BY AddressesAreKnown DEF VerticesOf, SeqAt
<1>3. Effects(issued, B, engine[r]) /\ Exchange(issued)
  BY ReplicaEffects
<1>4. \A o \in deletes : o \in issued /\ o.action = "delete_vertex" /\ o.part = p /\ o.ring = k
  BY <1>2
<1>5. \A o \in issued : o.action = "delete_vertex" /\ o.part = p /\ o.ring = k => o \in deletes
  BY <1>2
<1> HIDE DEF deletes, p, k
<1>6. IsFiniteSet(deleters)
  <2>1. IsFiniteSet(deletes)
    BY <1>4, StampsAreNumbers, FS_Subset
  <2> DEFINE f == [ op \in deletes |-> op.site ]
  <2>2. f \in Surjection(deletes, deleters)
    BY DEF Surjection
  <2> HIDE DEF f, deleters
  <2>3. QED
    BY <2>1, <2>2, FS_Surjection
<1>7. ASSUME NEW v \in DOMAIN s.vertex, s.vertex[v].deleted
      PROVE  \E o \in B : o.action = "delete_vertex" /\ o.part = p /\ o.ring = k /\ o.vertex = v
  <2>1. KnowsVertex(engine[r], p, k, v)
    BY <1>2 DEF KnowsVertex, Has, SeqAt
  <2> DEFINE x == engine[r].part[p].ring[k].seq.vertex[v]
  <2>2. ReflectsVertex(x, B, p, k, v, engine[r].part[p].key, engine[r].part[p].ring[k].key)
    BY <1>3, <2>1, VertexComesFrom
  <2>3. x.deleted
    BY <1>7 DEF SeqAt
  <2> HIDE DEF x
  <2>4. QED
    BY <2>2, <2>3 DEF ReflectsVertex, On, At
<1>8. B \subseteq issued
  BY <1>3 DEF Effects
<1>9. IsFiniteSet(VisibleVertices(s))
  <2>1. IsFiniteSet(DOMAIN s.vertex)
    BY <1>2, <1>3, RingHasEnough
  <2>2. QED
    BY <2>1, FS_Subset DEF VisibleVertices
<1> HIDE DEF B
<1>10. CASE deletes = {}
  <2>1. VisibleVertices(s) = DOMAIN s.vertex
    BY <1>5, <1>7, <1>8, <1>10 DEF VisibleVertices
  <2>2. Cardinality(DOMAIN s.vertex) >= FewestVertices /\ IsFiniteSet(DOMAIN s.vertex)
    BY <1>2, <1>3, RingHasEnough
  <2>3. QED
    BY <1>2, <2>1, <2>2, FewestIs, FS_CardinalityType
<1>11. CASE deletes # {}
  <2>1. PICK o \in deletes : TRUE
    BY <1>11
  <2> DEFINE d == o.site
             S == IssuedBy(d)
             A == Done(engine[d], log[d])
             spared == Spared(engine[d], S, p, k)
  <2>2. d \in Replica /\ \A b \in deletes : b.site = d
    BY <1>1, <1>4, <1>6, SeveralOrOne DEF FloorInv
  <2>3. S \subseteq A /\ EnoughLeft(engine[d], S) /\ o \in S
    BY <1>4, <2>2 DEF FloorInv, OwnInv, IssuedBy
  <2>4. Effects(issued, A, engine[d]) /\ log[d] \subseteq issued
    BY <2>2, ReplicaEffects DEF ReplicaInv
  <2>5. KnowsRing(engine[d], p, k)
    <3>1. Ready(engine[d], o)
      BY <2>3, <2>4 DEF Effects, Reflects
    <3>2. QED
      BY <1>4, <3>1 DEF Ready, NeedsRing, VertexActions
  <2>6. A \subseteq B
    <3>1. /\ Settled(log[d], reported[d], engine[d])
          /\ Settled(log[r], reported[r], engine[r])
      BY <2>2 DEF IInv, ReplicaInv
    <3>2. QED
      BY <1>3, <2>4, <3>1, DoneGrowsWithLog DEF B
  <2>7. DOMAIN SeqAt(engine[d], p, k).vertex \subseteq DOMAIN s.vertex
    <3>1. Grows(engine[d], engine[r])
      BY <1>3, <2>4, <2>6, MoreIsKnown
    <3>2. QED
      BY <2>5, <3>1 DEF Grows, PartGrows, KnowsRing, KnowsPart, SeqAt
  <2>8. spared \subseteq VisibleVertices(s)
    <3> SUFFICES ASSUME NEW v \in spared PROVE v \in VisibleVertices(s)
      OBVIOUS
    <3>1. v \in DOMAIN SeqAt(engine[d], p, k).vertex /\ On(S, "delete_vertex", p, k, v) = {}
      BY DEF Spared
    <3>2. ASSUME NEW b \in B, b.action = "delete_vertex", b.part = p, b.ring = k, b.vertex = v
          PROVE  FALSE
      <4>1. b \in S
        BY <1>5, <1>8, <2>2, <3>2 DEF IssuedBy
      <4>2. QED
        BY <3>1, <3>2, <4>1 DEF On, At
    <3>3. QED
      BY <1>7, <2>7, <3>1, <3>2 DEF VisibleVertices
  <2>9. Cardinality(spared) >= FewestVertices
    BY <2>3, <2>5 DEF EnoughLeft
  <2> HIDE DEF spared
  <2>10. Cardinality(VisibleVertices(s)) >= FewestVertices
    BY <1>9, <2>8, <2>9, MoreIsEnough
  <2>11. QED
    BY <1>2, <1>9, <2>10, FewestIs, FS_CardinalityType
<1>12. QED
  BY <1>10, <1>11

(* Where everything has been delivered, a ring that is too short was made  *)
(* so by several sites, or by one that does not check its commands.        *)
THEOREM OneSiteKeepsTheFloor == Spec => []FloorFallsOnlyTogether
<1>1. Init => IInv /\ FloorInv
  BY InitInv, InitFloorInv
<1>2. (IInv /\ FloorInv) /\ [Next]_vars => (IInv /\ FloorInv)'
  BY StepGrows, StepFloorInv
<1>3. QED
  BY <1>1, <1>2, FloorHolds, PTL DEF Spec

-----------------------------------------------------------------------------
(***************************************************************************)
(* What has taken effect decides all but the queues.                       *)
(***************************************************************************)
LEMMA SameListing ==
  ASSUME NEW p, NEW f, Listing(p, f), NEW q, NEW h, Listing(q, h), DOMAIN f = DOMAIN h,
         \A x \in DOMAIN f : f[x].key = h[x].key
  PROVE  p = q
<1>1. Oldest(f) = Oldest(h)
  BY DEF Oldest
<1>2. Strict(DOMAIN f, Oldest(f))
  BY OldestIsStrict DEF Listing
<1>3. /\ p \in Seq(DOMAIN f) /\ SortedBy(p, Oldest(f)) /\ ToSet(p) = DOMAIN f
      /\ q \in Seq(DOMAIN f) /\ SortedBy(q, Oldest(f)) /\ ToSet(q) = DOMAIN f
  BY <1>1 DEF Listing
<1>4. QED
  BY <1>2, <1>3, SameSorted

LEMMA SameParts ==
  ASSUME NEW I, NEW A, NEW g, Effects(I, A, g), NEW B, NEW h, Effects(I, B, h),
         DOMAIN g.part = DOMAIN h.part
  PROVE  g.parts = h.parts
<1>1. \A p \in DOMAIN g.part : g.part[p].key = h.part[p].key
  BY SameKeys DEF KnowsPart
<1>2. Listing(g.parts, g.part) /\ Listing(h.parts, h.part)
  BY DEF Effects, Reflects
<1>3. QED
  BY <1>1, <1>2, SameListing

LEMMA SameRings ==
  ASSUME NEW I, NEW A, NEW g, Effects(I, A, g), NEW B, NEW h, Effects(I, B, h),
         NEW p, p \in DOMAIN g.part, p \in DOMAIN h.part,
         DOMAIN g.part[p].ring = DOMAIN h.part[p].ring
  PROVE  g.part[p].rings = h.part[p].rings
<1> DEFINE f == g.part[p].ring
           e == h.part[p].ring
<1>1. \A k \in DOMAIN f : f[k].key = e[k].key
  BY SameKeys DEF KnowsRing, KnowsPart
<1>2. Listing(g.part[p].rings, f) /\ Listing(h.part[p].rings, e)
  BY PartComesFrom DEF ReflectsPart
<1> HIDE DEF f, e
<1>3. DOMAIN f = DOMAIN e
  BY DEF f, e
<1>4. QED
  BY <1>1, <1>2, <1>3, SameListing

LEMMA SameWalk ==
  ASSUME NEW I, NEW A, NEW g, NEW B, NEW h, NEW p, NEW k, TwoViews(I, A, g, B, h, p, k),
         DOMAIN SeqAt(g, p, k).vertex = DOMAIN SeqAt(h, p, k).vertex
  PROVE  Walk(SeqAt(g, p, k)) = Walk(SeqAt(h, p, k))
<1> DEFINE s == SeqAt(g, p, k)
           t == SeqAt(h, p, k)
           D == DOMAIN s.vertex
<1>1. Tree(s) /\ Tree(t) /\ D = DOMAIN t.vertex
  BY TwoViewsAgree
<1>2. PICK R : DocOrder(s.vertex, R) /\ DocOrder(t.vertex, R)
  BY OneOrderForBoth
<1> HIDE DEF s, t
<1>3. Strict(D, R)
  BY <1>2 DEF DocOrder, OrderOn
<1>4. Walk(s) \in Seq(D) /\ SortedBy(Walk(s), R) /\ ToSet(Walk(s)) = D
  BY <1>1, <1>2, WalkIsDocumentOrder
<1>5. Walk(t) \in Seq(D) /\ SortedBy(Walk(t), R) /\ ToSet(Walk(t)) = D
  BY <1>1, <1>2, WalkIsDocumentOrder
<1> HIDE DEF D
<1>6. Walk(s) = Walk(t)
  BY <1>3, <1>4, <1>5, SameSorted
<1>7. QED
  BY <1>6 DEF s, t

(* The newest of some moves is one.                                        *)
LEMMA OneLastMove ==
  ASSUME NEW I, Exchange(I), NEW moves, moves \subseteq I, NEW x, NEW y, NEW v,
         LastMove(x, v, moves), LastMove(y, v, moves)
  PROVE  x.coord = y.coord /\ x.moveReg = y.moveReg
<1>1. CASE moves = {}
  BY <1>1 DEF LastMove
<1>2. CASE moves # {}
  <2>1. PICK m \in moves : /\ x.moveReg = StampOf(m) /\ x.coord = MovedTo(m)
                           /\ \A o \in moves : ~ Newer(o, m)
    BY <1>2 DEF LastMove
  <2>2. PICK n \in moves : /\ y.moveReg = StampOf(n) /\ y.coord = MovedTo(n)
                           /\ \A o \in moves : ~ Newer(o, n)
    BY <1>2 DEF LastMove
  <2>3. RefOf(m) = RefOf(n)
    <3>1. Stamped(m) /\ Stamped(n)
      BY InsertedOnce
    <3>2. ~ Newer(m, n) /\ ~ Newer(n, m)
      BY <2>1, <2>2
    <3>3. StampOf(m) = StampOf(n)
      BY <3>1, <3>2, StampsAreOrdered
    <3>4. QED
      BY <3>3, StampIs DEF RefOf
  <2>4. m = n
    BY <2>3, InsertedOnce
  <2>5. QED
    BY <2>1, <2>2, <2>4
<1>3. QED
  BY <1>1, <1>2

VertexAt(g, p, k, v) == SeqAt(g, p, k).vertex[v]

LEMMA SameVertex ==
  ASSUME NEW I, NEW A, NEW g, NEW B, NEW h, NEW p, NEW k, TwoViews(I, A, g, B, h, p, k),
         NEW v \in DOMAIN SeqAt(g, p, k).vertex, v \in DOMAIN SeqAt(h, p, k).vertex
  PROVE  /\ (On(A, "delete_vertex", p, k, v) = {} <=> On(B, "delete_vertex", p, k, v) = {}) =>
              VertexAt(g, p, k, v).deleted = VertexAt(h, p, k, v).deleted
         /\ On(A, "move_vertex", p, k, v) = On(B, "move_vertex", p, k, v) =>
              /\ VertexAt(g, p, k, v).coord = VertexAt(h, p, k, v).coord
              /\ VertexAt(g, p, k, v).moveReg = VertexAt(h, p, k, v).moveReg
<1> DEFINE x == VertexAt(g, p, k, v)
           y == VertexAt(h, p, k, v)
<1>1. KnowsVertex(g, p, k, v) /\ KnowsVertex(h, p, k, v)
  BY DEF TwoViews, KnowsVertex, Has, SeqAt
<1>2. /\ x.deleted <=> On(A, "delete_vertex", p, k, v) # {}
      /\ LastMove(x, v, On(A, "move_vertex", p, k, v))
  <2>1. ReflectsVertex(x, A, p, k, v, g.part[p].key, g.part[p].ring[k].key)
    BY <1>1, VertexComesFrom DEF TwoViews, VertexAt, SeqAt
  <2> HIDE DEF x
  <2>2. QED
    BY <2>1 DEF ReflectsVertex
<1>3. /\ y.deleted <=> On(B, "delete_vertex", p, k, v) # {}
      /\ LastMove(y, v, On(B, "move_vertex", p, k, v))
  <2>1. ReflectsVertex(y, B, p, k, v, h.part[p].key, h.part[p].ring[k].key)
    BY <1>1, VertexComesFrom DEF TwoViews, VertexAt, SeqAt
  <2> HIDE DEF y
  <2>2. QED
    BY <2>1 DEF ReflectsVertex
<1>4. x.deleted \in BOOLEAN /\ y.deleted \in BOOLEAN
  <2>1. Tree(SeqAt(g, p, k)) /\ Tree(SeqAt(h, p, k))
    BY TwoViewsAgree
  <2>2. QED
    BY <2>1 DEF Tree, IsVertex, VertexAt
<1>5. Exchange(I) /\ A \subseteq I
  BY DEF TwoViews, Effects
<1> HIDE DEF x, y
<1>6. (On(A, "delete_vertex", p, k, v) = {} <=> On(B, "delete_vertex", p, k, v) = {})
        => x.deleted = y.deleted
  BY <1>2, <1>3, <1>4
<1>7. ASSUME On(A, "move_vertex", p, k, v) = On(B, "move_vertex", p, k, v)
      PROVE  x.coord = y.coord /\ x.moveReg = y.moveReg
  <2> DEFINE moves == On(A, "move_vertex", p, k, v)
  <2>1. moves \subseteq I
    BY <1>5 DEF On, At
  <2>2. LastMove(x, v, moves) /\ LastMove(y, v, moves)
    BY <1>2, <1>3, <1>7
  <2> HIDE DEF moves
  <2>3. QED
    BY <1>5, <2>1, <2>2, OneLastMove
<1>8. QED
  BY <1>6, <1>7 DEF x, y

(* The operations on a ring are the same ones.                             *)
SameOnRing(A, B, p, k) ==
  \A o : NeedsRing(o) /\ o.part = p /\ o.ring = k => (o \in A <=> o \in B)

SameOnPart(A, B, p) == \A o : o.action # "add_part" /\ o.part = p => (o \in A <=> o \in B)

(* Those on its vertices are.                                              *)
SameOnSeq(A, B, p, k) ==
  \A o : o.action \in VertexActions /\ o.part = p /\ o.ring = k => (o \in A <=> o \in B)

LEMMA SameAt ==
  ASSUME NEW A, NEW B, NEW p, NEW k, SameOnSeq(A, B, p, k), NEW action \in VertexActions
  PROVE  /\ At(A, action, p, k) = At(B, action, p, k)
         /\ \A v : On(A, action, p, k, v) = On(B, action, p, k, v)
<1>1. At(A, action, p, k) = At(B, action, p, k)
  BY DEF SameOnSeq, At
<1>2. QED
  BY <1>1 DEF On

LEMMA SameVertices ==
  ASSUME NEW I, NEW A, NEW g, NEW B, NEW h, NEW p, NEW k, TwoViews(I, A, g, B, h, p, k),
         At(A, "insert_vertex", p, k) \subseteq At(B, "insert_vertex", p, k)
  PROVE  DOMAIN SeqAt(g, p, k).vertex \subseteq DOMAIN SeqAt(h, p, k).vertex
<1> SUFFICES ASSUME NEW v \in DOMAIN SeqAt(g, p, k).vertex
             PROVE  v \in DOMAIN SeqAt(h, p, k).vertex
  OBVIOUS
<1> DEFINE pk == g.part[p].key
           rk == g.part[p].ring[k].key
           x == g.part[p].ring[k].seq.vertex[v]
<1>1. KnowsVertex(g, p, k, v)
  BY DEF TwoViews, KnowsVertex, Has, SeqAt
<1>2. VertexFrom(A, p, k, v, pk, rk, x.key, x.parent)
  BY <1>1, VertexComesFrom DEF TwoViews
<1>3. pk = h.part[p].key /\ rk = h.part[p].ring[k].key
  BY SameKeys DEF TwoViews, KnowsRing
<1> DEFINE key == x.key
           parent == x.parent
<1> HIDE DEF pk, rk, key, parent
<1>4. VertexFrom(B, p, k, v, pk, rk, key, parent)
  <2>1. VertexFrom(A, p, k, v, pk, rk, key, parent)
    BY <1>2 DEF key, parent
  <2>2. QED
    BY <2>1 DEF VertexFrom
<1>5. VertexFrom(B, p, k, v, h.part[p].key, h.part[p].ring[k].key, key, parent)
  BY <1>3, <1>4
<1>6. QED
  BY <1>5, VertexKeyIs DEF TwoViews

LEMMA SameTree ==
  ASSUME NEW s, NEW t, Tree(s), Tree(t), s.vertex = t.vertex
  PROVE  s = t
<1> DEFINE V == s.vertex
<1>1. /\ Planted(V) /\ Linked(V, s.children) /\ Linked(V, t.children)
      /\ s = [vertex |-> V, children |-> s.children, visible |-> s.visible]
      /\ t = [vertex |-> V, children |-> t.children, visible |-> t.visible]
      /\ s.visible = Cardinality(VisibleVertices(s)) /\ t.visible = Cardinality(VisibleVertices(t))
  BY DEF Tree
<1>2. s.visible = t.visible
  BY <1>1 DEF VisibleVertices
<1>3. Strict(DOMAIN V, Younger(V))
  BY <1>1, AgesAreOrdered
<1>4. ASSUME NEW p \in DOMAIN V \cup {Root}
      PROVE  s.children[p] = t.children[p]
  <2> DEFINE a == s.children[p]
             b == t.children[p]
  <2>1. /\ a \in Seq(DOMAIN V) /\ ToSet(a) = Below(V, p) /\ SortedBy(a, Younger(V))
        /\ b \in Seq(DOMAIN V) /\ ToSet(b) = Below(V, p) /\ SortedBy(b, Younger(V))
    BY <1>1 DEF Linked
  <2>2. ToSet(a) = ToSet(b)
    BY <2>1
  <2> HIDE DEF a, b, V
  <2>3. a = b
    BY <1>3, <2>1, <2>2, SameSorted
  <2>4. QED
    BY <2>3 DEF a, b
<1>5. s.children = t.children
  <2> DEFINE c == s.children
             d == t.children
  <2>1. /\ c = [x \in DOMAIN c |-> c[x]] /\ DOMAIN c = DOMAIN V \cup {Root}
        /\ d = [x \in DOMAIN d |-> d[x]] /\ DOMAIN d = DOMAIN V \cup {Root}
    BY <1>1 DEF Linked, IsFunction
  <2>2. \A x \in DOMAIN c : c[x] = d[x]
    BY <1>4, <2>1
  <2> HIDE DEF c, d, V
  <2>3. c = d
    BY <2>1, <2>2
  <2>4. QED
    BY <2>3 DEF c, d
<1> HIDE DEF V
<1>6. QED
  BY <1>1, <1>2, <1>5

LEMMA SameSeq ==
  ASSUME NEW I, NEW A, NEW g, NEW B, NEW h, NEW p, NEW k, TwoViews(I, A, g, B, h, p, k),
         SameOnSeq(A, B, p, k)
  PROVE  SeqAt(g, p, k) = SeqAt(h, p, k)
<1> DEFINE s == SeqAt(g, p, k)
           t == SeqAt(h, p, k)
<1>1. /\ Tree(s) /\ Tree(t)
      /\ \A v \in DOMAIN s.vertex \cap DOMAIN t.vertex :
           s.vertex[v].key = t.vertex[v].key /\ s.vertex[v].parent = t.vertex[v].parent
  BY TwoViewsAgree
<1>2. DOMAIN s.vertex = DOMAIN t.vertex
  <2>1. At(A, "insert_vertex", p, k) = At(B, "insert_vertex", p, k)
    BY SameAt DEF VertexActions
  <2>2. DOMAIN s.vertex \subseteq DOMAIN t.vertex
    BY <2>1, SameVertices
  <2>3. TwoViews(I, B, h, A, g, p, k)
    BY DEF TwoViews
  <2>4. DOMAIN t.vertex \subseteq DOMAIN s.vertex
    BY <2>1, <2>3, SameVertices
  <2>5. QED
    BY <2>2, <2>4
<1>3. ASSUME NEW v \in DOMAIN s.vertex
      PROVE  s.vertex[v] = t.vertex[v]
  <2>1. /\ On(A, "delete_vertex", p, k, v) = On(B, "delete_vertex", p, k, v)
        /\ On(A, "move_vertex", p, k, v) = On(B, "move_vertex", p, k, v)
    BY SameAt DEF VertexActions
  <2> DEFINE x == VertexAt(g, p, k, v)
             y == VertexAt(h, p, k, v)
  <2>2. x.deleted = y.deleted /\ x.coord = y.coord /\ x.moveReg = y.moveReg
    BY <1>2, <2>1, SameVertex
  <2>3. x.key = y.key /\ x.parent = y.parent
    BY <1>1, <1>2 DEF VertexAt
  <2>4. IsVertex(x) /\ IsVertex(y)
    BY <1>1, <1>2 DEF Tree, VertexAt
  <2> HIDE DEF x, y
  <2>5. x = y
    BY <2>2, <2>3, <2>4 DEF IsVertex
  <2>6. QED
    BY <2>5 DEF x, y, VertexAt
<1>4. s.vertex = t.vertex
  <2> DEFINE V == s.vertex
             W == t.vertex
  <2>1. IsFunction(V) /\ IsFunction(W)
    BY <1>1 DEF Tree
  <2>2. DOMAIN V = DOMAIN W /\ \A v \in DOMAIN V : V[v] = W[v]
    BY <1>2, <1>3
  <2> HIDE DEF V, W
  <2>3. V = W
    BY <2>1, <2>2 DEF IsFunction
  <2>4. QED
    BY <2>3 DEF V, W
<1> HIDE DEF s, t
<1>5. s = t
  BY <1>1, <1>4, SameTree
<1>6. QED
  BY <1>5 DEF s, t

LEMMA SameRing ==
  ASSUME NEW I, NEW A, NEW g, NEW B, NEW h, NEW p, NEW k, TwoViews(I, A, g, B, h, p, k),
         SameOnRing(A, B, p, k)
  PROVE  g.part[p].ring[k] = h.part[p].ring[k]
<1> DEFINE x == g.part[p].ring[k]
           y == h.part[p].ring[k]
           pk == g.part[p].key
<1>1. /\ ReflectsRing(x, A, p, k, g.part[p].key) /\ ReflectsRing(y, B, p, k, h.part[p].key)
      /\ x.key = y.key /\ x.seq = y.seq
  <2>1. x.key = y.key
    BY SameKeys DEF TwoViews
  <2>2. x.seq = y.seq
    <3>1. SameOnSeq(A, B, p, k)
      BY DEF SameOnRing, SameOnSeq, NeedsRing
    <3>2. QED
      BY <3>1, SameSeq DEF SeqAt
  <2>3. QED
    BY <2>1, <2>2, RingComesFrom DEF TwoViews
<1>2. At(A, "remove_ring", p, k) = At(B, "remove_ring", p, k)
  BY DEF SameOnRing, NeedsRing, At
<1> HIDE DEF x, y
<1>3. x.deleted = y.deleted /\ x.exterior = y.exterior
  BY <1>1, <1>2 DEF ReflectsRing
<1>4. x = y
  BY <1>1, <1>3 DEF ReflectsRing
<1>5. QED
  BY <1>4 DEF x, y

LEMMA SameRingIDs ==
  ASSUME NEW I, NEW A, NEW g, Effects(I, A, g), NEW B, NEW h, Effects(I, B, h), NEW p,
         KnowsPart(g, p), KnowsPart(h, p),
         \A o \in A : o.action = "add_ring" /\ o.part = p => o \in B
  PROVE  DOMAIN g.part[p].ring \subseteq DOMAIN h.part[p].ring
<1> SUFFICES ASSUME NEW k \in DOMAIN g.part[p].ring
             PROVE  k \in DOMAIN h.part[p].ring
  OBVIOUS
<1> DEFINE pk == g.part[p].key
           rk == g.part[p].ring[k].key
<1>1. RingFrom(A, p, k, pk, rk)
  BY RingComesFrom DEF KnowsRing
<1>2. pk = h.part[p].key
  BY SameKeys
<1> HIDE DEF pk, rk
<1>3. RingFrom(B, p, k, pk, rk)
  BY <1>1 DEF RingFrom
<1>4. RingFrom(B, p, k, h.part[p].key, rk)
  BY <1>2, <1>3
<1>5. QED
  BY <1>4, RingIsThere DEF KnowsRing

LEMMA SamePart ==
  ASSUME NEW I, NEW A, NEW g, Effects(I, A, g), NEW B, NEW h, Effects(I, B, h), NEW p,
         KnowsPart(g, p), KnowsPart(h, p), SameOnPart(A, B, p)
  PROVE  g.part[p] = h.part[p]
<1> DEFINE x == g.part[p]
           y == h.part[p]
<1>1. ReflectsPart(x, A, p) /\ ReflectsPart(y, B, p) /\ x.key = y.key
  BY PartComesFrom, SameKeys DEF KnowsPart
<1>2. DOMAIN x.ring = DOMAIN y.ring
  <2>1. DOMAIN x.ring \subseteq DOMAIN y.ring
    BY SameRingIDs DEF SameOnPart
  <2>2. DOMAIN y.ring \subseteq DOMAIN x.ring
    BY SameRingIDs DEF SameOnPart
  <2>3. QED
    BY <2>1, <2>2
<1>3. x.rings = y.rings
  BY <1>2, SameRings DEF KnowsPart
<1>4. \A k \in DOMAIN x.ring : x.ring[k] = y.ring[k]
  <2> SUFFICES ASSUME NEW k \in DOMAIN x.ring PROVE x.ring[k] = y.ring[k]
    OBVIOUS
  <2>1. TwoViews(I, A, g, B, h, p, k)
    BY <1>2 DEF TwoViews, KnowsRing
  <2>2. SameOnRing(A, B, p, k)
    BY DEF SameOnPart, SameOnRing, NeedsRing, VertexActions
  <2>3. QED
    BY <2>1, <2>2, SameRing
<1> HIDE DEF x, y
<1>5. x.ring = y.ring
  <2> DEFINE f == x.ring
             e == y.ring
  <2>1. IsFunction(f) /\ IsFunction(e)
    BY <1>1 DEF ReflectsPart, Listing
  <2>2. DOMAIN f = DOMAIN e /\ \A k \in DOMAIN f : f[k] = e[k]
    BY <1>2, <1>4
  <2> HIDE DEF f, e
  <2>3. f = e
    BY <2>1, <2>2 DEF IsFunction
  <2>4. QED
    BY <2>3 DEF f, e
<1>6. x.deleted = y.deleted
  BY <1>1 DEF ReflectsPart, SameOnPart
<1>7. x = y
  BY <1>1, <1>3, <1>5, <1>6 DEF ReflectsPart
<1>8. QED
  BY <1>7 DEF x, y

LEMMA SamePartIDs ==
  ASSUME NEW I, NEW A, NEW g, Effects(I, A, g), NEW B, NEW h, Effects(I, B, h),
         \A o \in A : o.action = "add_part" => o \in B
  PROVE  DOMAIN g.part \subseteq DOMAIN h.part
<1> SUFFICES ASSUME NEW p \in DOMAIN g.part PROVE p \in DOMAIN h.part
  OBVIOUS
<1> DEFINE key == g.part[p].key
<1>1. PartFrom(A, p, key)
  BY PartComesFrom
<1> HIDE DEF key
<1>2. PartFrom(B, p, key)
  BY <1>1 DEF PartFrom
<1>3. QED
  BY <1>2, PartIsThere DEF KnowsPart

(* The operations that have taken effect decide what a geometry is.        *)
THEOREM EffectsDecide ==
  ASSUME NEW I, NEW A, NEW g, Effects(I, A, g), NEW h, Effects(I, A, h)
  PROVE  g.parts = h.parts /\ g.part = h.part
<1>1. DOMAIN g.part = DOMAIN h.part
  <2>1. DOMAIN g.part \subseteq DOMAIN h.part
    BY SamePartIDs
  <2>2. DOMAIN h.part \subseteq DOMAIN g.part
    BY SamePartIDs
  <2>3. QED
    BY <2>1, <2>2
<1>2. g.parts = h.parts
  BY <1>1, SameParts
<1>3. \A p \in DOMAIN g.part : g.part[p] = h.part[p]
  <2> SUFFICES ASSUME NEW p \in DOMAIN g.part PROVE g.part[p] = h.part[p]
    OBVIOUS
  <2>1. KnowsPart(g, p) /\ KnowsPart(h, p) /\ SameOnPart(A, A, p)
    BY <1>1 DEF KnowsPart, SameOnPart
  <2>2. QED
    BY <2>1, SamePart
<1>4. IsFunction(g.part) /\ IsFunction(h.part)
  BY DEF Effects, Reflects, Listing
<1>5. QED
  BY <1>1, <1>2, <1>3, <1>4 DEF IsFunction

LEMMA SameLists ==
  ASSUME NEW g, NEW h, g.parts = h.parts, g.part = h.part
  PROVE  ListOf(g) = ListOf(h)
BY DEF ListOf

-----------------------------------------------------------------------------
(***************************************************************************)
(* The lists that are read off a geometry.                                 *)
(***************************************************************************)
VertexEntry(s, v) == [id |-> v, coord |-> s.vertex[v].coord, deleted |-> s.vertex[v].deleted]

VertexEntries(s) == [i \in DOMAIN Walk(s) |-> VertexEntry(s, Walk(s)[i])]

RingEntry(g, p, k) ==
  [id |-> k, deleted |-> g.part[p].ring[k].deleted, vertices |-> VertexEntries(SeqAt(g, p, k))]

RingEntries(g, p) ==
  [r \in DOMAIN g.part[p].rings |-> RingEntry(g, p, g.part[p].rings[r])]

PartEntry(g, p) == [id |-> p, deleted |-> g.part[p].deleted, rings |-> RingEntries(g, p)]

LEMMA ListOfIs ==
  ASSUME NEW g
  PROVE  ListOf(g) = [i \in DOMAIN g.parts |-> PartEntry(g, g.parts[i])]
<1>1. ASSUME NEW p
      PROVE  /\ [id |-> p, deleted |-> g.part[p].deleted,
                 rings |-> [r \in DOMAIN g.part[p].rings |->
                              ListOfRing(g.part[p].rings[r], g.part[p].ring[g.part[p].rings[r]])]]
                  = PartEntry(g, p)
  <2>1. ASSUME NEW k
        PROVE  ListOfRing(k, g.part[p].ring[k]) = RingEntry(g, p, k)
    BY DEF ListOfRing, RingEntry, VertexEntries, VertexEntry, SeqAt
  <2>2. QED
    BY <2>1 DEF PartEntry, RingEntries
<1>2. QED
  BY <1>1 DEF ListOf

(* A list with x in the place of the entry id.                             *)
Replaced(list, id, x) == [i \in DOMAIN list |-> IF list[i].id = id THEN x ELSE list[i]]

LEMMA PartsReplaced ==
  ASSUME NEW I, NEW A, NEW g, Effects(I, A, g), NEW B, NEW h, Effects(I, B, h),
         DOMAIN g.part = DOMAIN h.part, NEW id,
         \A p \in DOMAIN g.part : p # id => g.part[p] = h.part[p]
  PROVE  Replaced(ListOf(g), id, PartEntry(h, id)) = ListOf(h)
<1>1. g.parts = h.parts
  BY SameParts
<1>2. \A i \in DOMAIN g.parts : g.parts[i] \in DOMAIN g.part
  <2>1. Listing(g.parts, g.part)
    BY DEF Effects, Reflects
  <2>2. QED
    BY <2>1, ElementsOf DEF Listing
<1>3. \A p \in DOMAIN g.part : p # id => PartEntry(g, p) = PartEntry(h, p)
  BY DEF PartEntry, RingEntries, RingEntry, SeqAt
<1> DEFINE list == ListOf(g)
<1>4. list = [i \in DOMAIN g.parts |-> PartEntry(g, g.parts[i])]
  BY ListOfIs
<1>5. \A p : PartEntry(g, p).id = p
  BY DEF PartEntry
<1> HIDE DEF list
<1>6. DOMAIN list = DOMAIN g.parts
  BY <1>4
<1>7. ASSUME NEW i \in DOMAIN g.parts
      PROVE  (IF list[i].id = id THEN PartEntry(h, id) ELSE list[i]) = PartEntry(h, g.parts[i])
  <2>1. list[i] = PartEntry(g, g.parts[i]) /\ list[i].id = g.parts[i]
    BY <1>4, <1>5
  <2>2. QED
    BY <1>2, <1>3, <2>1
<1>8. Replaced(list, id, PartEntry(h, id)) = [i \in DOMAIN g.parts |-> PartEntry(h, g.parts[i])]
  BY <1>6, <1>7 DEF Replaced
<1>9. QED
  BY <1>1, <1>8, ListOfIs DEF list

LEMMA RingsReplaced ==
  ASSUME NEW I, NEW A, NEW g, Effects(I, A, g), NEW B, NEW h, Effects(I, B, h), NEW p,
         KnowsPart(g, p), KnowsPart(h, p), DOMAIN g.part[p].ring = DOMAIN h.part[p].ring,
         NEW id,
         \A k \in DOMAIN g.part[p].ring : k # id => g.part[p].ring[k] = h.part[p].ring[k]
  PROVE  Replaced(RingEntries(g, p), id, RingEntry(h, p, id)) = RingEntries(h, p)
<1> DEFINE q == g.part[p].rings
<1>1. q = h.part[p].rings
  BY SameRings DEF KnowsPart
<1>2. \A i \in DOMAIN q : q[i] \in DOMAIN g.part[p].ring
  <2>1. Listing(q, g.part[p].ring)
    BY PartComesFrom DEF KnowsPart, ReflectsPart
  <2>2. QED
    BY <2>1, ElementsOf DEF Listing
<1>3. \A k \in DOMAIN g.part[p].ring : k # id => RingEntry(g, p, k) = RingEntry(h, p, k)
  BY DEF RingEntry, SeqAt
<1> DEFINE list == RingEntries(g, p)
<1>4. list = [i \in DOMAIN q |-> RingEntry(g, p, q[i])]
  BY DEF RingEntries
<1>5. RingEntries(h, p) = [i \in DOMAIN q |-> RingEntry(h, p, q[i])]
  BY <1>1 DEF RingEntries
<1>6. \A k : RingEntry(g, p, k).id = k
  BY DEF RingEntry
<1> HIDE DEF list, q
<1>7. DOMAIN list = DOMAIN q
  BY <1>4
<1>8. ASSUME NEW i \in DOMAIN q
      PROVE  (IF list[i].id = id THEN RingEntry(h, p, id) ELSE list[i]) = RingEntry(h, p, q[i])
  <2>1. list[i] = RingEntry(g, p, q[i]) /\ list[i].id = q[i]
    BY <1>4, <1>6
  <2>2. QED
    BY <1>2, <1>3, <2>1
<1>9. Replaced(list, id, RingEntry(h, p, id)) = [i \in DOMAIN q |-> RingEntry(h, p, q[i])]
  BY <1>7, <1>8 DEF Replaced
<1>10. QED
  BY <1>5, <1>9 DEF list

(* The newest operation, about to be performed on what all others made.    *)
LastStep(I, A, op, g, h) ==
  /\ Effects(I, A, g) /\ Effects(I, A \cup {op}, h)
  /\ op \in I /\ op \notin A /\ \A o \in A : Newer(op, o)
  /\ (\A o \in A : Admits(o)) /\ Admits(op) /\ Ready(g, op)

LEMMA LastStepIs ==
  ASSUME NEW I, NEW A, NEW op, NEW g, NEW h, LastStep(I, A, op, g, h)
  PROVE  /\ IsOp(op) /\ Exchange(I) /\ Grows(g, h)
         /\ \A o \in A : IsOp(o) /\ ~ Refers(o, op) /\ o # op
<1>1. Exchange(I) /\ A \subseteq I /\ op \in I
  BY DEF LastStep, Effects
<1>2. Grows(g, h)
  BY MoreIsKnown DEF LastStep
<1>3. IsOp(op) /\ Stamped(op) /\ \A o \in A : IsOp(o) /\ Stamped(o)
  BY <1>1, InsertedOnce
<1>4. \A o \in A : ~ Newer(o, op) /\ o # op
  BY <1>3, StampsAreOrdered DEF LastStep, Newer
<1>5. \A o \in A : ~ Refers(o, op)
  BY <1>1, <1>4 DEF Exchange
<1>6. QED
  BY <1>1, <1>2, <1>3, <1>4, <1>5

(* What it is that the lists hold under an ID.                             *)
LEMMA PartUnder ==
  ASSUME NEW g, NEW p, NEW i \in DOMAIN ListOf(g), ListOf(g)[i].id = p
  PROVE  ListOf(g)[i] = PartEntry(g, p)
<1> DEFINE list == ListOf(g)
<1>1. list = [j \in DOMAIN g.parts |-> PartEntry(g, g.parts[j])]
  BY ListOfIs
<1>2. list[i].id = p /\ i \in DOMAIN list
  OBVIOUS
<1> HIDE DEF list
<1>3. list[i] = PartEntry(g, g.parts[i])
  BY <1>1, <1>2
<1>4. PartEntry(g, g.parts[i]).id = g.parts[i]
  BY DEF PartEntry
<1>5. QED
  BY <1>2, <1>3, <1>4 DEF list

LEMMA RingUnder ==
  ASSUME NEW g, NEW p, NEW k, NEW i \in DOMAIN RingEntries(g, p), RingEntries(g, p)[i].id = k
  PROVE  RingEntries(g, p)[i] = RingEntry(g, p, k)
<1>1. RingEntries(g, p)[i] = RingEntry(g, p, g.part[p].rings[i])
  BY DEF RingEntries
<1>2. RingEntry(g, p, g.part[p].rings[i]).id = g.part[p].rings[i]
  BY DEF RingEntry
<1>3. QED
  BY <1>1, <1>2

LEMMA VertexUnder ==
  ASSUME NEW s, NEW v, NEW i \in DOMAIN VertexEntries(s), VertexEntries(s)[i].id = v
  PROVE  VertexEntries(s)[i] = VertexEntry(s, v)
<1>1. VertexEntries(s)[i] = VertexEntry(s, Walk(s)[i])
  BY DEF VertexEntries
<1>2. VertexEntry(s, Walk(s)[i]).id = Walk(s)[i]
  BY DEF VertexEntry
<1>3. QED
  BY <1>1, <1>2

(* Only the part that is addressed changes, and of it only the ring.       *)
LEMMA OtherPartsStay ==
  ASSUME NEW I, NEW A, NEW op, NEW g, NEW h, LastStep(I, A, op, g, h), op.action # "add_part"
  PROVE  /\ DOMAIN g.part = DOMAIN h.part
         /\ \A p \in DOMAIN g.part : p # op.part => g.part[p] = h.part[p]
<1>1. Effects(I, A, g) /\ Effects(I, A \cup {op}, h) /\ Grows(g, h)
  BY LastStepIs DEF LastStep
<1>2. DOMAIN g.part = DOMAIN h.part
  <2>1. \A p : KnowsPart(h, p) => KnowsPart(g, p)
    BY <1>1, OnlyItsOwn
  <2>2. QED
    BY <1>1, <2>1 DEF Grows, KnowsPart
<1>3. ASSUME NEW p \in DOMAIN g.part, p # op.part PROVE g.part[p] = h.part[p]
  <2>1. KnowsPart(g, p) /\ KnowsPart(h, p)
    BY <1>2 DEF KnowsPart
  <2>2. SameOnPart(A, A \cup {op}, p)
    BY <1>3 DEF SameOnPart
  <2>3. QED
    BY <1>1, <2>1, <2>2, SamePart
<1>4. QED
  BY <1>2, <1>3

LEMMA OtherRingsStay ==
  ASSUME NEW I, NEW A, NEW op, NEW g, NEW h, LastStep(I, A, op, g, h),
         op.action \notin {"add_part", "add_ring"}, NEW p, p = op.part, KnowsPart(g, p)
  PROVE  /\ KnowsPart(h, p) /\ DOMAIN g.part[p].ring = DOMAIN h.part[p].ring
         /\ \A k \in DOMAIN g.part[p].ring : (NeedsRing(op) /\ k = op.ring)
              \/ g.part[p].ring[k] = h.part[p].ring[k]
<1>1. Effects(I, A, g) /\ Effects(I, A \cup {op}, h) /\ Grows(g, h)
  BY LastStepIs DEF LastStep
<1>2. KnowsPart(h, p)
  BY <1>1, StillKnown
<1>3. DOMAIN g.part[p].ring = DOMAIN h.part[p].ring
  <2>1. \A k : KnowsRing(h, p, k) => KnowsRing(g, p, k)
    BY <1>1, OnlyItsOwn
  <2>2. \A k : KnowsRing(g, p, k) => KnowsRing(h, p, k)
    BY <1>1, StillKnown
  <2>3. QED
    BY <1>2, <2>1, <2>2 DEF KnowsRing
<1>4. ASSUME NEW k \in DOMAIN g.part[p].ring, ~ (NeedsRing(op) /\ k = op.ring)
      PROVE  g.part[p].ring[k] = h.part[p].ring[k]
  <2>1. TwoViews(I, A, g, A \cup {op}, h, p, k)
    BY <1>1, <1>2, <1>3 DEF TwoViews, KnowsRing
  <2>2. SameOnRing(A, A \cup {op}, p, k)
    BY <1>4 DEF SameOnRing
  <2>3. QED
    BY <2>1, <2>2, SameRing
<1>5. QED
  BY <1>2, <1>3, <1>4

TombstonedPart(id, rings) == [id |-> id, deleted |-> TRUE, rings |-> rings]

TombstonedRing(id, vertices) == [id |-> id, deleted |-> TRUE, vertices |-> vertices]

TombstonedVertex(id, coord) == [id |-> id, coord |-> coord, deleted |-> TRUE]

LEMMA TombstonedPartIs ==
  ASSUME NEW id, NEW deleted, NEW rings, NEW x,
         x = [id |-> id, deleted |-> deleted, rings |-> rings], NEW y, y = Tombstoned(x)
  PROVE  y = TombstonedPart(id, rings)
BY DEF Tombstoned, TombstonedPart

LEMMA TombstonedRingIs ==
  ASSUME NEW id, NEW deleted, NEW vertices, NEW x,
         x = [id |-> id, deleted |-> deleted, vertices |-> vertices], NEW y, y = Tombstoned(x)
  PROVE  y = TombstonedRing(id, vertices)
BY DEF Tombstoned, TombstonedRing

LEMMA TombstonedVertexIs ==
  ASSUME NEW id, NEW deleted, NEW coord, NEW x,
         x = [id |-> id, coord |-> coord, deleted |-> deleted], NEW y, y = Tombstoned(x)
  PROVE  y = TombstonedVertex(id, coord)
BY DEF Tombstoned, TombstonedVertex

LEMMA PerformRemovePart ==
  ASSUME NEW I, NEW A, NEW op, NEW g, NEW h, LastStep(I, A, op, g, h),
         op.action = "remove_part"
  PROVE  Perform(ListOf(g), op) = ListOf(h)
<1> DEFINE p == op.part
           list == ListOf(g)
<1>1. Effects(I, A, g) /\ Effects(I, A \cup {op}, h) /\ KnowsPart(g, p)
  BY DEF LastStep, Ready, NeedsPart, Admits
<1>2. /\ DOMAIN g.part = DOMAIN h.part
      /\ \A q \in DOMAIN g.part : q # p => g.part[q] = h.part[q]
  BY OtherPartsStay
<1>3. Replaced(list, p, PartEntry(h, p)) = ListOf(h)
  BY <1>1, <1>2, PartsReplaced
<1>4. Tombstoned(PartEntry(g, p)) = PartEntry(h, p)
  <2>1. KnowsPart(h, p) /\ DOMAIN g.part[p].ring = DOMAIN h.part[p].ring
        /\ \A k \in DOMAIN g.part[p].ring : g.part[p].ring[k] = h.part[p].ring[k]
    BY <1>1, OtherRingsStay DEF NeedsRing, VertexActions
  <2>2. g.part[p].rings = h.part[p].rings
    BY <1>1, <2>1, SameRings DEF KnowsPart
  <2>3. \A r \in DOMAIN g.part[p].rings : g.part[p].rings[r] \in DOMAIN g.part[p].ring
    <3>1. Listing(g.part[p].rings, g.part[p].ring)
      BY <1>1, PartComesFrom DEF KnowsPart, ReflectsPart
    <3>2. QED
      BY <3>1, ElementsOf DEF Listing
  <2>4. RingEntries(g, p) = RingEntries(h, p)
    BY <2>1, <2>2, <2>3 DEF RingEntries, RingEntry, SeqAt
  <2>5. h.part[p].deleted = TRUE
    <3>1. ReflectsPart(h.part[p], A \cup {op}, p)
      BY <1>1, <2>1, PartComesFrom DEF KnowsPart
    <3>2. QED
      BY <3>1 DEF ReflectsPart
  <2>6. PartEntry(h, p) = TombstonedPart(p, RingEntries(g, p))
    BY <2>4, <2>5, Zenon DEF PartEntry, TombstonedPart
  <2>7. PartEntry(g, p) = [id |-> p, deleted |-> g.part[p].deleted, rings |-> RingEntries(g, p)]
    BY DEF PartEntry
  <2>8. QED
    BY <2>6, <2>7, TombstonedPartIs
<1>5. \A i \in DOMAIN list : list[i].id = p => Tombstoned(list[i]) = PartEntry(h, p)
  BY <1>4, PartUnder
<1> HIDE DEF list
<1>6. Perform(list, op) = OnPart(list, op, Tombstoned)
  BY DEF Perform
<1>7. OnPart(list, op, Tombstoned) = Replaced(list, p, PartEntry(h, p))
  BY <1>5 DEF OnPart, Update, Replaced
<1>8. QED
  BY <1>3, <1>6, <1>7 DEF list

PartWith(entry, rings) == [entry EXCEPT !.rings = rings]

RingChanges(I, A, op, g, h, p, k) ==
  /\ TwoViews(I, A, g, A \cup {op}, h, p, k)
  /\ Replaced(ListOf(g), p, PartEntry(h, p)) = ListOf(h)
  /\ Replaced(RingEntries(g, p), k, RingEntry(h, p, k)) = RingEntries(h, p)
  /\ PartEntry(h, p) = PartWith(PartEntry(g, p), RingEntries(h, p))

LEMMA RingStep ==
  ASSUME NEW I, NEW A, NEW op, NEW g, NEW h, LastStep(I, A, op, g, h), NeedsRing(op),
         NEW p, p = op.part, NEW k, k = op.ring
  PROVE  RingChanges(I, A, op, g, h, p, k)
<1>1. /\ Effects(I, A, g) /\ Effects(I, A \cup {op}, h)
      /\ KnowsRing(g, p, k) /\ KnowsPart(g, p)
  BY DEF LastStep, Ready, KnowsRing
<1>2. op.action \notin {"add_part", "add_ring", "remove_part"}
  BY DEF NeedsRing, VertexActions
<1>3. /\ DOMAIN g.part = DOMAIN h.part
      /\ \A q \in DOMAIN g.part : q # p => g.part[q] = h.part[q]
  BY <1>2, OtherPartsStay
<1>4. /\ KnowsPart(h, p) /\ DOMAIN g.part[p].ring = DOMAIN h.part[p].ring
      /\ \A q \in DOMAIN g.part[p].ring : q # k => g.part[p].ring[q] = h.part[p].ring[q]
  BY <1>1, <1>2, OtherRingsStay
<1>5. KnowsRing(h, p, k)
  BY <1>1, <1>4 DEF KnowsRing
<1>6. Replaced(ListOf(g), p, PartEntry(h, p)) = ListOf(h)
  BY <1>1, <1>3, PartsReplaced
<1>7. Replaced(RingEntries(g, p), k, RingEntry(h, p, k)) = RingEntries(h, p)
  BY <1>1, <1>4, RingsReplaced
<1>8. g.part[p].deleted = h.part[p].deleted
  <2>1. ReflectsPart(g.part[p], A, p) /\ ReflectsPart(h.part[p], A \cup {op}, p)
    BY <1>1, <1>4, PartComesFrom DEF KnowsPart
  <2>2. QED
    BY <1>2, <2>1 DEF ReflectsPart
<1> DEFINE x == PartEntry(g, p)
           q == RingEntries(h, p)
           d == g.part[p].deleted
<1>9. x = [id |-> p, deleted |-> d, rings |-> RingEntries(g, p)]
  BY DEF PartEntry
<1>10. PartEntry(h, p) = [id |-> p, deleted |-> d, rings |-> q]
  BY <1>8 DEF PartEntry
<1> HIDE DEF x, q, d
<1>11. [x EXCEPT !.rings = q] = [id |-> p, deleted |-> d, rings |-> q]
  BY <1>9
<1>12. PartEntry(h, p) = [x EXCEPT !.rings = q]
  BY <1>10, <1>11
<1>13. QED
  BY <1>1, <1>5, <1>6, <1>7, <1>12 DEF RingChanges, TwoViews, PartWith, x, q

LEMMA PerformRemoveRing ==
  ASSUME NEW I, NEW A, NEW op, NEW g, NEW h, LastStep(I, A, op, g, h),
         op.action = "remove_ring", NEW p, p = op.part, NEW k, k = op.ring
  PROVE  Perform(ListOf(g), op) = ListOf(h)
<1>1. NeedsRing(op)
  BY DEF NeedsRing
<1>2. /\ TwoViews(I, A, g, A \cup {op}, h, p, k)
      /\ Replaced(ListOf(g), p, PartEntry(h, p)) = ListOf(h)
      /\ Replaced(RingEntries(g, p), k, RingEntry(h, p, k)) = RingEntries(h, p)
      /\ PartEntry(h, p) = PartWith(PartEntry(g, p), RingEntries(h, p))
  <2>1. RingChanges(I, A, op, g, h, p, k)
    BY <1>1, RingStep
  <2>2. QED
    BY <2>1 DEF RingChanges
<1> DEFINE list == ListOf(g)
           rings == RingEntries(g, p)
<1>3. Tombstoned(RingEntry(g, p, k)) = RingEntry(h, p, k)
  <2>1. SameOnSeq(A, A \cup {op}, p, k)
    BY DEF SameOnSeq, VertexActions
  <2>2. SeqAt(g, p, k) = SeqAt(h, p, k)
    BY <1>2, <2>1, SameSeq
  <2>3. h.part[p].ring[k].deleted = TRUE
    <3>1. ReflectsRing(h.part[p].ring[k], A \cup {op}, p, k, h.part[p].key)
      BY <1>2, RingComesFrom DEF TwoViews
    <3>2. op \in At(A \cup {op}, "remove_ring", p, k)
      BY DEF At
    <3>3. QED
      BY <3>1, <3>2 DEF ReflectsRing
  <2> DEFINE q == VertexEntries(SeqAt(g, p, k))
             d == g.part[p].ring[k].deleted
  <2>4. RingEntry(g, p, k) = [id |-> k, deleted |-> d, vertices |-> q]
    BY DEF RingEntry
  <2>5. RingEntry(h, p, k) = [id |-> k, deleted |-> TRUE, vertices |-> q]
    BY <2>2, <2>3, Zenon DEF RingEntry
  <2>6. RingEntry(h, p, k) = TombstonedRing(k, q)
    BY <2>5, Zenon DEF TombstonedRing
  <2> HIDE DEF q, d
  <2>7. QED
    BY <2>4, <2>6, TombstonedRingIs
<1>4. \A i \in DOMAIN rings : rings[i].id = k => Tombstoned(rings[i]) = RingEntry(h, p, k)
  <2>1. \A i \in DOMAIN rings : rings[i].id = k => rings[i] = RingEntry(g, p, k)
    BY RingUnder
  <2> HIDE DEF rings
  <2>2. QED
    BY <1>3, <2>1
<1>5. \A i \in DOMAIN list : list[i].id = p => list[i] = PartEntry(g, p)
  BY PartUnder
<1>6. PartEntry(g, p).rings = rings
  BY DEF PartEntry
<1> HIDE DEF list, rings
<1>7. Perform(list, op) = OnRing(list, op, Tombstoned)
  BY DEF Perform
<1>8. Update(rings, k, Tombstoned) = RingEntries(h, p)
  <2>1. Update(rings, k, Tombstoned) = Replaced(rings, k, RingEntry(h, p, k))
    BY <1>4 DEF Update, Replaced
  <2>2. QED
    BY <1>2, <2>1 DEF rings
<1>9. ASSUME NEW i \in DOMAIN list, list[i].id = p
      PROVE  PartWith(list[i], Update(list[i].rings, k, Tombstoned)) = PartEntry(h, p)
  BY <1>2, <1>5, <1>6, <1>8, <1>9
<1>10. OnRing(list, op, Tombstoned) =
         [i \in DOMAIN list |-> IF list[i].id = op.part
            THEN PartWith(list[i], Update(list[i].rings, op.ring, Tombstoned)) ELSE list[i]]
  BY Zenon DEF OnRing, OnPart, Update, PartWith
<1>11. OnRing(list, op, Tombstoned) = Replaced(list, p, PartEntry(h, p))
  BY <1>9, <1>10 DEF Replaced
<1>12. QED
  BY <1>2, <1>7, <1>11 DEF list

RingWith(entry, vertices) == [entry EXCEPT !.vertices = vertices]

VertexChanges(I, A, op, g, h, p, k) ==
  /\ RingChanges(I, A, op, g, h, p, k)
  /\ RingEntry(h, p, k) = RingWith(RingEntry(g, p, k), VertexEntries(SeqAt(h, p, k)))

LEMMA VertexStep ==
  ASSUME NEW I, NEW A, NEW op, NEW g, NEW h, LastStep(I, A, op, g, h),
         op.action \in VertexActions, NEW p, p = op.part, NEW k, k = op.ring
  PROVE  VertexChanges(I, A, op, g, h, p, k)
<1>1. NeedsRing(op)
  BY DEF NeedsRing
<1>2. RingChanges(I, A, op, g, h, p, k)
  BY <1>1, RingStep
<1>3. g.part[p].ring[k].deleted = h.part[p].ring[k].deleted
  <2>1. TwoViews(I, A, g, A \cup {op}, h, p, k)
    BY <1>2 DEF RingChanges
  <2>2. /\ ReflectsRing(g.part[p].ring[k], A, p, k, g.part[p].key)
        /\ ReflectsRing(h.part[p].ring[k], A \cup {op}, p, k, h.part[p].key)
    BY <2>1, RingComesFrom DEF TwoViews
  <2>3. At(A, "remove_ring", p, k) = At(A \cup {op}, "remove_ring", p, k)
    BY DEF At, VertexActions
  <2>4. QED
    BY <2>2, <2>3 DEF ReflectsRing
<1> DEFINE x == RingEntry(g, p, k)
           d == g.part[p].ring[k].deleted
           q == VertexEntries(SeqAt(h, p, k))
<1>4. x = [id |-> k, deleted |-> d, vertices |-> VertexEntries(SeqAt(g, p, k))]
  BY DEF RingEntry
<1>5. RingEntry(h, p, k) = [id |-> k, deleted |-> d, vertices |-> q]
  BY <1>3 DEF RingEntry
<1> HIDE DEF x, d, q
<1>6. RingWith(x, q) = [id |-> k, deleted |-> d, vertices |-> q]
  BY <1>4 DEF RingWith
<1>7. RingEntry(h, p, k) = RingWith(x, q)
  BY <1>5, <1>6
<1>8. QED
  BY <1>2, <1>7 DEF VertexChanges, x, q

(* What moves and deletes leave alone.                                     *)
VertexStays(A, op, g, h, p, k) ==
  LET s == SeqAt(g, p, k)
      t == SeqAt(h, p, k)
  IN  /\ Walk(s) = Walk(t) /\ DOMAIN s.vertex = DOMAIN t.vertex
      /\ ToSet(Walk(s)) = DOMAIN s.vertex /\ DOMAIN Walk(s) = 1 .. Len(Walk(s))
      /\ \A i \in DOMAIN Walk(s) : Walk(s)[i] \in DOMAIN s.vertex
      /\ \A v \in DOMAIN s.vertex :
           /\ op.action = "move_vertex" \/ v # op.vertex => VertexEntry(s, v).deleted = VertexEntry(t, v).deleted
           /\ op.action = "delete_vertex" \/ v # op.vertex => VertexEntry(s, v).coord = VertexEntry(t, v).coord

LEMMA OtherVerticesStay ==
  ASSUME NEW I, NEW A, NEW op, NEW g, NEW h, LastStep(I, A, op, g, h),
         op.action \in {"move_vertex", "delete_vertex"}, NEW p, p = op.part, NEW k, k = op.ring
  PROVE  VertexStays(A, op, g, h, p, k)
<1> DEFINE s == SeqAt(g, p, k)
           t == SeqAt(h, p, k)
           B == A \cup {op}
<1>1. TwoViews(I, A, g, B, h, p, k)
  <2>1. op.action \in VertexActions
    BY DEF VertexActions
  <2>2. VertexChanges(I, A, op, g, h, p, k)
    BY <2>1, VertexStep
  <2>3. QED
    BY <2>2 DEF VertexChanges, RingChanges
<1>2. DOMAIN s.vertex = DOMAIN t.vertex
  <2>1. Effects(I, A, g) /\ Effects(I, B, h) /\ Grows(g, h)
    BY LastStepIs DEF LastStep
  <2>2. KnowsRing(g, p, k) /\ KnowsRing(h, p, k)
    BY <1>1 DEF TwoViews
  <2>3. \A v : KnowsVertex(h, p, k, v) => KnowsVertex(g, p, k, v)
    BY <2>1, <2>2, OnlyItsOwn
  <2>4. \A v : KnowsVertex(g, p, k, v) => KnowsVertex(h, p, k, v)
    BY <2>1, StillKnown
  <2>5. QED
    BY <2>2, <2>3, <2>4 DEF KnowsVertex, Has, SeqAt
<1>3. Walk(s) = Walk(t)
  BY <1>1, <1>2, SameWalk
<1>4. Tree(s)
  BY <1>1, TwoViewsAgree
<1>5. /\ ToSet(Walk(s)) = DOMAIN s.vertex /\ DOMAIN Walk(s) = 1 .. Len(Walk(s))
      /\ \A i \in DOMAIN Walk(s) : Walk(s)[i] \in DOMAIN s.vertex
  <2>1. Walk(s) \in Seq(DOMAIN s.vertex) /\ ToSet(Walk(s)) = DOMAIN s.vertex
    BY <1>4, TreeWalk
  <2> HIDE DEF s
  <2>2. QED
    BY <2>1, ElementsOf
<1>6. ASSUME NEW v \in DOMAIN s.vertex
      PROVE  /\ op.action = "move_vertex" \/ v # op.vertex => s.vertex[v].deleted = t.vertex[v].deleted
             /\ op.action = "delete_vertex" \/ v # op.vertex => s.vertex[v].coord = t.vertex[v].coord
  <2>1. /\ (On(A, "delete_vertex", p, k, v) = {} <=> On(B, "delete_vertex", p, k, v) = {}) =>
              VertexAt(g, p, k, v).deleted = VertexAt(h, p, k, v).deleted
        /\ On(A, "move_vertex", p, k, v) = On(B, "move_vertex", p, k, v) =>
              VertexAt(g, p, k, v).coord = VertexAt(h, p, k, v).coord
    BY <1>1, <1>2, SameVertex
  <2>2. op.action = "move_vertex" \/ v # op.vertex =>
          On(A, "delete_vertex", p, k, v) = On(B, "delete_vertex", p, k, v)
    BY DEF On, At
  <2>3. op.action = "delete_vertex" \/ v # op.vertex =>
          On(A, "move_vertex", p, k, v) = On(B, "move_vertex", p, k, v)
    BY DEF On, At
  <2>4. QED
    BY <2>1, <2>2, <2>3 DEF VertexAt
<1> HIDE DEF s, t
<1>7. ASSUME NEW v
      PROVE  /\ VertexEntry(s, v).deleted = s.vertex[v].deleted
             /\ VertexEntry(t, v).deleted = t.vertex[v].deleted
             /\ VertexEntry(s, v).coord = s.vertex[v].coord
             /\ VertexEntry(t, v).coord = t.vertex[v].coord
  BY DEF VertexEntry
<1>8. QED
  BY <1>2, <1>3, <1>5, <1>6, <1>7 DEF VertexStays, s, t

LEMMA VerticesReplaced ==
  ASSUME NEW A, NEW op, NEW g, NEW h, NEW p, NEW k, VertexStays(A, op, g, h, p, k)
  PROVE  Replaced(VertexEntries(SeqAt(g, p, k)), op.vertex, VertexEntry(SeqAt(h, p, k), op.vertex))
           = VertexEntries(SeqAt(h, p, k))
<1> DEFINE s == SeqAt(g, p, k)
           t == SeqAt(h, p, k)
           list == VertexEntries(s)
           v == op.vertex
<1>1. /\ Walk(s) = Walk(t) /\ \A i \in DOMAIN Walk(s) : Walk(s)[i] \in DOMAIN s.vertex
      /\ \A w \in DOMAIN s.vertex : w # v =>
           /\ VertexEntry(s, w).deleted = VertexEntry(t, w).deleted
           /\ VertexEntry(s, w).coord = VertexEntry(t, w).coord
  BY DEF VertexStays
<1> HIDE DEF s, t
<1>2. \A w \in DOMAIN s.vertex : w # v => VertexEntry(s, w) = VertexEntry(t, w)
  BY <1>1 DEF VertexEntry
<1>3. list = [i \in DOMAIN Walk(s) |-> VertexEntry(s, Walk(s)[i])]
  BY DEF VertexEntries
<1>4. VertexEntries(t) = [i \in DOMAIN Walk(s) |-> VertexEntry(t, Walk(s)[i])]
  BY <1>1 DEF VertexEntries
<1>5. \A w : VertexEntry(s, w).id = w
  BY DEF VertexEntry
<1> HIDE DEF list, v
<1>6. DOMAIN list = DOMAIN Walk(s)
  BY <1>3
<1>7. ASSUME NEW i \in DOMAIN Walk(s)
      PROVE  (IF list[i].id = v THEN VertexEntry(t, v) ELSE list[i]) = VertexEntry(t, Walk(s)[i])
  <2>1. list[i] = VertexEntry(s, Walk(s)[i]) /\ list[i].id = Walk(s)[i]
    BY <1>3, <1>5
  <2>2. QED
    BY <1>1, <1>2, <2>1
<1>8. Replaced(list, v, VertexEntry(t, v)) = [i \in DOMAIN Walk(s) |-> VertexEntry(t, Walk(s)[i])]
  BY <1>6, <1>7 DEF Replaced
<1>9. QED
  BY <1>4, <1>8 DEF s, t, list, v

(* The lists with other vertices in one ring.                              *)
RingsWith(rings, k, vertices) ==
  [r \in DOMAIN rings |-> IF rings[r].id = k THEN RingWith(rings[r], vertices) ELSE rings[r]]

PartsWith(list, p, rings) ==
  [i \in DOMAIN list |-> IF list[i].id = p THEN PartWith(list[i], rings) ELSE list[i]]

LEMMA VerticesLifted ==
  ASSUME NEW I, NEW A, NEW op, NEW g, NEW h, NEW p, NEW k, VertexChanges(I, A, op, g, h, p, k)
  PROVE  PartsWith(ListOf(g), p, RingsWith(RingEntries(g, p), k, VertexEntries(SeqAt(h, p, k))))
           = ListOf(h)
<1> DEFINE vertices == VertexEntries(SeqAt(h, p, k))
           rings == RingEntries(g, p)
           list == ListOf(g)
<1>1. /\ Replaced(list, p, PartEntry(h, p)) = ListOf(h)
      /\ Replaced(rings, k, RingEntry(h, p, k)) = RingEntries(h, p)
      /\ PartEntry(h, p) = PartWith(PartEntry(g, p), RingEntries(h, p))
      /\ RingEntry(h, p, k) = RingWith(RingEntry(g, p, k), vertices)
  BY DEF VertexChanges, RingChanges
<1>2. \A r \in DOMAIN rings : rings[r].id = k => rings[r] = RingEntry(g, p, k)
  BY RingUnder
<1>3. \A i \in DOMAIN list : list[i].id = p => list[i] = PartEntry(g, p)
  BY PartUnder
<1> HIDE DEF list, rings, vertices
<1>4. RingsWith(rings, k, vertices) = Replaced(rings, k, RingEntry(h, p, k))
  BY <1>1, <1>2 DEF RingsWith, Replaced
<1>5. PartsWith(list, p, RingEntries(h, p)) = Replaced(list, p, PartEntry(h, p))
  BY <1>1, <1>3 DEF PartsWith, Replaced
<1>6. QED
  BY <1>1, <1>4, <1>5 DEF list, rings, vertices

(* What the entry of a part and of a ring hold.                            *)
LEMMA RingsUnder ==
  ASSUME NEW g, NEW p, NEW i \in DOMAIN ListOf(g), ListOf(g)[i].id = p
  PROVE  ListOf(g)[i].rings = RingEntries(g, p)
BY PartUnder DEF PartEntry

LEMMA VerticesUnder ==
  ASSUME NEW g, NEW p, NEW k, NEW i \in DOMAIN RingEntries(g, p), RingEntries(g, p)[i].id = k
  PROVE  RingEntries(g, p)[i].vertices = VertexEntries(SeqAt(g, p, k))
BY RingUnder DEF RingEntry

LEMMA PerformDelete ==
  ASSUME NEW I, NEW A, NEW op, NEW g, NEW h, LastStep(I, A, op, g, h),
         op.action = "delete_vertex", NEW p, p = op.part, NEW k, k = op.ring
  PROVE  Perform(ListOf(g), op) = ListOf(h)
<1> DEFINE s == SeqAt(g, p, k)
           t == SeqAt(h, p, k)
           v == op.vertex
           list == ListOf(g)
           rings == RingEntries(g, p)
           Vertices(q) == Update(q, v, Tombstoned)
<1>1. VertexChanges(I, A, op, g, h, p, k)
  <2>1. op.action \in VertexActions
    BY DEF VertexActions
  <2>2. QED
    BY <2>1, VertexStep
<1>2. VertexStays(A, op, g, h, p, k)
  <2>1. op.action \in {"move_vertex", "delete_vertex"}
    OBVIOUS
  <2>2. QED
    BY <2>1, OtherVerticesStay
<1>3. KnowsVertex(g, p, k, v) /\ KnowsVertex(h, p, k, v)
  <2>1. Ready(g, op) /\ Admits(op) /\ Grows(g, h)
    BY LastStepIs DEF LastStep
  <2>2. KnowsVertex(g, p, k, v)
    BY <2>1 DEF Ready, NeedsVertex, VertexActions, Admits
  <2>3. QED
    BY <2>1, <2>2, StillKnown
<1>4. t.vertex[v].deleted = TRUE
  <2>1. Effects(I, A \cup {op}, h)
    BY DEF LastStep
  <2>2. ReflectsVertex(t.vertex[v], A \cup {op}, p, k, v, h.part[p].key, h.part[p].ring[k].key)
    BY <1>3, <2>1, VertexComesFrom DEF SeqAt
  <2>3. op \in On(A \cup {op}, "delete_vertex", p, k, v)
    BY DEF On, At
  <2>4. QED
    BY <2>2, <2>3 DEF ReflectsVertex
<1>5. VertexEntry(t, v) = TombstonedVertex(v, s.vertex[v].coord)
  <2>1. v \in DOMAIN s.vertex
    BY <1>3 DEF KnowsVertex, Has, SeqAt
  <2>2. VertexEntry(s, v).coord = VertexEntry(t, v).coord
    BY <1>2, <2>1 DEF VertexStays
  <2>3. s.vertex[v].coord = t.vertex[v].coord
    BY <2>2 DEF VertexEntry
  <2> HIDE DEF s, t, v
  <2>4. QED
    BY <1>4, <2>3, Zenon DEF VertexEntry, TombstonedVertex
<1>6. Tombstoned(VertexEntry(s, v)) = VertexEntry(t, v)
  <2> DEFINE c == s.vertex[v].coord
             d == s.vertex[v].deleted
  <2>1. VertexEntry(s, v) = [id |-> v, coord |-> c, deleted |-> d]
    BY DEF VertexEntry
  <2>2. VertexEntry(t, v) = TombstonedVertex(v, c)
    BY <1>5
  <2> HIDE DEF c, d, s, t, v
  <2>3. QED
    BY <2>1, <2>2, TombstonedVertexIs
<1>7. Vertices(VertexEntries(s)) = VertexEntries(t)
  <2> DEFINE q == VertexEntries(s)
  <2>1. Replaced(q, v, VertexEntry(t, v)) = VertexEntries(t)
    BY <1>2, VerticesReplaced
  <2>2. \A i \in DOMAIN q : q[i].id = v => q[i] = VertexEntry(s, v)
    BY VertexUnder
  <2> HIDE DEF q, s, t, v
  <2>3. Update(q, v, Tombstoned) = Replaced(q, v, VertexEntry(t, v))
    BY <1>6, <2>2 DEF Update, Replaced
  <2>4. QED
    BY <2>1, <2>3 DEF q
<1>8. \A i \in DOMAIN list : list[i].id = p => list[i].rings = rings
  BY RingsUnder
<1>9. \A r \in DOMAIN rings : rings[r].id = k => rings[r].vertices = VertexEntries(s)
  BY VerticesUnder
<1>10. PartsWith(list, p, RingsWith(rings, k, VertexEntries(t))) = ListOf(h)
  BY <1>1, VerticesLifted
<1> HIDE DEF list, rings, s, t, v
<1>11. Perform(list, op) =
         [i \in DOMAIN list |-> IF list[i].id = p
            THEN PartWith(list[i],
                   [r \in DOMAIN list[i].rings |-> IF list[i].rings[r].id = k
                      THEN RingWith(list[i].rings[r], Vertices(list[i].rings[r].vertices))
                      ELSE list[i].rings[r]])
            ELSE list[i]]
  <2> HIDE DEF Vertices
  <2>1. Perform(list, op) = OnVertex(list, op, Tombstoned)
    BY DEF Perform
  <2>2. \A q : Vertices(q) = [j \in DOMAIN q |-> IF q[j].id = op.vertex THEN Tombstoned(q[j]) ELSE q[j]]
    BY DEF Vertices, Update, v
  <2>3. QED
    BY <2>1, <2>2 DEF OnVertex, OnRing, OnPart, Update, PartWith, RingWith
<1> HIDE DEF Vertices
<1>12. [r \in DOMAIN rings |-> IF rings[r].id = k
          THEN RingWith(rings[r], Vertices(rings[r].vertices)) ELSE rings[r]]
        = RingsWith(rings, k, VertexEntries(t))
  BY <1>7, <1>9 DEF RingsWith
<1>13. Perform(list, op) = PartsWith(list, p, RingsWith(rings, k, VertexEntries(t)))
  BY <1>8, <1>11, <1>12 DEF PartsWith
<1>14. QED
  BY <1>10, <1>13 DEF list

LEMMA PerformMove ==
  ASSUME NEW I, NEW A, NEW op, NEW g, NEW h, LastStep(I, A, op, g, h),
         op.action = "move_vertex", NEW p, p = op.part, NEW k, k = op.ring
  PROVE  Perform(ListOf(g), op) = ListOf(h)
<1> DEFINE s == SeqAt(g, p, k)
           t == SeqAt(h, p, k)
           v == op.vertex
           list == ListOf(g)
           rings == RingEntries(g, p)
           Moved(x) == [x EXCEPT !.coord = MovedTo(op)]
           Vertices(q) == Update(q, v, Moved)
<1>1. VertexChanges(I, A, op, g, h, p, k)
  <2>1. op.action \in VertexActions
    BY DEF VertexActions
  <2>2. QED
    BY <2>1, VertexStep
<1>2. VertexStays(A, op, g, h, p, k)
  <2>1. op.action \in {"move_vertex", "delete_vertex"}
    OBVIOUS
  <2>2. QED
    BY <2>1, OtherVerticesStay
<1>3. KnowsVertex(g, p, k, v) /\ KnowsVertex(h, p, k, v)
  <2>1. Ready(g, op) /\ Admits(op) /\ Grows(g, h)
    BY LastStepIs DEF LastStep
  <2>2. KnowsVertex(g, p, k, v)
    BY <2>1 DEF Ready, NeedsVertex, VertexActions, Admits
  <2>3. QED
    BY <2>1, <2>2, StillKnown
<1>4. t.vertex[v].coord = MovedTo(op)
  <2> DEFINE moves == On(A \cup {op}, "move_vertex", p, k, v)
             x == t.vertex[v]
  <2>1. Effects(I, A \cup {op}, h) /\ \A o \in A : Newer(op, o)
    BY DEF LastStep
  <2>2. ReflectsVertex(x, A \cup {op}, p, k, v, h.part[p].key, h.part[p].ring[k].key)
    BY <1>3, <2>1, VertexComesFrom DEF SeqAt
  <2>3. op \in moves
    BY DEF On, At
  <2>4. moves \subseteq A \cup {op}
    BY DEF On, At
  <2>5. LastMove(x, v, moves)
    BY <2>2 DEF ReflectsVertex
  <2> HIDE DEF moves, x
  <2>6. PICK m \in moves : x.coord = MovedTo(m) /\ \A o \in moves : ~ Newer(o, m)
    BY <2>3, <2>5 DEF LastMove
  <2>7. m = op
    BY <2>1, <2>3, <2>4, <2>6
  <2>8. QED
    BY <2>6, <2>7 DEF x
<1>5. VertexEntry(t, v).deleted = VertexEntry(s, v).deleted
  <2>1. v \in DOMAIN s.vertex
    BY <1>3 DEF KnowsVertex, Has, SeqAt
  <2>2. QED
    BY <1>2, <2>1 DEF VertexStays
<1>6. Moved(VertexEntry(s, v)) = VertexEntry(t, v)
  <2> DEFINE c == s.vertex[v].coord
             d == s.vertex[v].deleted
             x == VertexEntry(s, v)
             new == MovedTo(op)
  <2>1. x = [id |-> v, coord |-> c, deleted |-> d]
    BY DEF VertexEntry
  <2>2. t.vertex[v].deleted = d
    BY <1>5 DEF VertexEntry
  <2>3. VertexEntry(t, v) = [id |-> v, coord |-> new, deleted |-> d]
    BY <1>4, <2>2 DEF VertexEntry
  <2> HIDE DEF c, d, s, t, v, x, new
  <2>4. [x EXCEPT !.coord = new] = [id |-> v, coord |-> new, deleted |-> d]
    BY <2>1
  <2>5. QED
    BY <2>3, <2>4 DEF x, new
<1>7. Vertices(VertexEntries(s)) = VertexEntries(t)
  <2> DEFINE q == VertexEntries(s)
  <2>1. Replaced(q, v, VertexEntry(t, v)) = VertexEntries(t)
    BY <1>2, VerticesReplaced
  <2>2. \A i \in DOMAIN q : q[i].id = v => q[i] = VertexEntry(s, v)
    BY VertexUnder
  <2> HIDE DEF q, s, t, v, Moved
  <2>3. Update(q, v, Moved) = Replaced(q, v, VertexEntry(t, v))
    BY <1>6, <2>2 DEF Update, Replaced
  <2>4. QED
    BY <2>1, <2>3 DEF q
<1>8. \A i \in DOMAIN list : list[i].id = p => list[i].rings = rings
  BY RingsUnder
<1>9. \A r \in DOMAIN rings : rings[r].id = k => rings[r].vertices = VertexEntries(s)
  BY VerticesUnder
<1>10. PartsWith(list, p, RingsWith(rings, k, VertexEntries(t))) = ListOf(h)
  BY <1>1, VerticesLifted
<1> HIDE DEF list, rings, s, t, v
<1>11. Perform(list, op) =
         [i \in DOMAIN list |-> IF list[i].id = p
            THEN PartWith(list[i],
                   [r \in DOMAIN list[i].rings |-> IF list[i].rings[r].id = k
                      THEN RingWith(list[i].rings[r], Vertices(list[i].rings[r].vertices))
                      ELSE list[i].rings[r]])
            ELSE list[i]]
  <2> HIDE DEF Vertices
  <2>1. Perform(list, op) = OnVertex(list, op, Moved)
    BY DEF Perform
  <2>2. \A q : Vertices(q) = [j \in DOMAIN q |-> IF q[j].id = op.vertex THEN Moved(q[j]) ELSE q[j]]
    BY DEF Vertices, Update, v
  <2>3. QED
    BY <2>1, <2>2 DEF OnVertex, OnRing, OnPart, Update, PartWith, RingWith
<1> HIDE DEF Vertices
<1>12. [r \in DOMAIN rings |-> IF rings[r].id = k
          THEN RingWith(rings[r], Vertices(rings[r].vertices)) ELSE rings[r]]
        = RingsWith(rings, k, VertexEntries(t))
  BY <1>7, <1>9 DEF RingsWith
<1>13. Perform(list, op) = PartsWith(list, p, RingsWith(rings, k, VertexEntries(t)))
  BY <1>8, <1>11, <1>12 DEF PartsWith
<1>14. QED
  BY <1>10, <1>13 DEF list

LEMMA PutFirst ==
  ASSUME NEW S, NEW q \in Seq(S), NEW e \in S
  PROVE  << e >> \o q = InsertAt(q, 1, e)
<1> DEFINE new == InsertAt(q, 1, e)
           old == << e >> \o q
<1>1. Len(q) \in Nat /\ 1 \in 1 .. Len(q) + 1
  OBVIOUS
<1>2. /\ new \in Seq(S) /\ Len(new) = Len(q) + 1
      /\ \A i \in 1 .. Len(q) + 1 :
           new[i] = IF i < 1 THEN q[i] ELSE IF i = 1 THEN e ELSE q[i - 1]
  BY <1>1, InsertedAt
<1>3. /\ old \in Seq(S) /\ Len(old) = Len(q) + 1
      /\ \A i \in 1 .. Len(q) + 1 : old[i] = IF i = 1 THEN e ELSE q[i - 1]
  OBVIOUS
<1> HIDE DEF old, new
<1>4. \A i \in 1 .. Len(q) + 1 : old[i] = new[i]
  BY <1>1, <1>2, <1>3
<1>5. old = new
  <2>1. Len(old) = Len(new) /\ \A i \in 1 .. Len(old) : old[i] = new[i]
    BY <1>2, <1>3, <1>4
  <2>2. QED
    BY <1>2, <1>3, <2>1, SeqEqual
<1>6. QED
  BY <1>5 DEF old, new

LEMMA PlacedInOrder ==
  ASSUME NEW S, NEW R, Strict(S, R), NEW q \in Seq(S), SortedBy(q, R), NEW e \in S,
         NEW at \in 1 .. Len(q) + 1,
         \A i \in 1 .. Len(q) : (i < at => << q[i], e >> \in R) /\ (i >= at => << e, q[i] >> \in R)
  PROVE  LET new == InsertAt(q, at, e)
         IN  new \in Seq(S) /\ SortedBy(new, R) /\ ToSet(new) = ToSet(q) \cup {e}
<1> DEFINE new == InsertAt(q, at, e)
<1>1. Len(q) \in Nat /\ ToSet(q) = { q[i] : i \in 1 .. Len(q) }
  BY ElementsOf
<1>2. /\ new \in Seq(S) /\ Len(new) = Len(q) + 1
      /\ \A i \in 1 .. Len(q) + 1 :
           new[i] = IF i < at THEN q[i] ELSE IF i = at THEN e ELSE q[i - 1]
  BY InsertedAt
<1> HIDE DEF new
<1>3. SortedBy(new, R)
  <2> SUFFICES ASSUME NEW i \in 1 .. Len(new), NEW j \in 1 .. Len(new), i < j
               PROVE  << new[i], new[j] >> \in R
    BY DEF SortedBy
  <2>1. CASE j < at
    <3>1. new[i] = q[i] /\ new[j] = q[j] /\ i \in 1 .. Len(q) /\ j \in 1 .. Len(q)
      BY <1>1, <1>2, <2>1
    <3>2. QED
      BY <3>1 DEF SortedBy
  <2>2. CASE j = at
    <3>1. new[j] = e /\ new[i] = q[i] /\ i \in 1 .. Len(q) /\ i < at
      BY <1>1, <1>2, <2>2
    <3>2. QED
      BY <3>1
  <2>3. CASE j > at
    <3>1. new[j] = q[j - 1] /\ j - 1 \in 1 .. Len(q) /\ j - 1 >= at
      BY <1>1, <1>2, <2>3
    <3>2. CASE i < at
      <4>1. new[i] = q[i] /\ i \in 1 .. Len(q) /\ i < j - 1
        BY <1>1, <1>2, <3>1, <3>2
      <4>2. QED
        BY <3>1, <4>1 DEF SortedBy
    <3>3. CASE i = at
      <4>1. new[i] = e
        BY <1>1, <1>2, <3>3
      <4>2. QED
        BY <3>1, <4>1
    <3>4. CASE i > at
      <4>1. new[i] = q[i - 1] /\ i - 1 \in 1 .. Len(q) /\ i - 1 < j - 1
        BY <1>1, <1>2, <3>4
      <4>2. QED
        BY <3>1, <4>1 DEF SortedBy
    <3>5. QED
      BY <1>1, <3>2, <3>3, <3>4
  <2>4. QED
    BY <1>1, <2>1, <2>2, <2>3
<1>4. ToSet(new) = ToSet(q) \cup {e}
  <2>1. ToSet(new) = { new[i] : i \in 1 .. Len(q) + 1 }
    BY <1>2, ElementsOf
  <2>2. ASSUME NEW x PROVE x \in ToSet(new) <=> x \in ToSet(q) \cup {e}
    <3>1. x \in ToSet(new) => x \in ToSet(q) \cup {e}
      BY <1>1, <1>2, <2>1
    <3>2. ASSUME x \in ToSet(q) PROVE x \in ToSet(new)
      <4>1. PICK i \in 1 .. Len(q) : x = q[i]
        BY <1>1, <3>2
      <4>2. i < at => new[i] = x
        BY <1>1, <1>2, <4>1
      <4>3. i >= at => new[i + 1] = x
        BY <1>1, <1>2, <4>1
      <4>4. QED
        BY <1>1, <2>1, <4>2, <4>3
    <3>3. e \in ToSet(new)
      BY <1>1, <1>2, <2>1
    <3>4. QED
      BY <3>1, <3>2, <3>3
  <2>3. QED
    BY <2>2
<1>5. QED
  BY <1>2, <1>3, <1>4 DEF new

(* One more vertex, the newest of all: the walk is the walk without it,    *)
(* with the vertex right behind its parent.                                *)
OneMoreVertex(s, t, n) ==
  /\ Tree(s) /\ Tree(t) /\ n \notin DOMAIN s.vertex
  /\ DOMAIN t.vertex = DOMAIN s.vertex \cup {n}
  /\ \A v \in DOMAIN s.vertex : Elder(t.vertex, v, n)
  /\ t.vertex[n].parent \in DOMAIN s.vertex \cup {Root}
  /\ \E R : DocOrder(s.vertex, R) /\ DocOrder(t.vertex, R)

PlaceOf(w, parent, at) ==
  \/ parent = Root /\ at = 1
  \/ \E i \in 1 .. Len(w) : w[i] = parent /\ at = i + 1

LEMMA OneMoreWalk ==
  ASSUME NEW s, NEW t, NEW n, OneMoreVertex(s, t, n), NEW at \in Nat,
         PlaceOf(Walk(s), t.vertex[n].parent, at)
  PROVE  Walk(t) = InsertAt(Walk(s), at, n) /\ at \in 1 .. Len(Walk(s)) + 1
<1> DEFINE D == DOMAIN t.vertex
           V == t.vertex
           w == Walk(s)
           u == t.vertex[n].parent
<1>1. PICK R : DocOrder(s.vertex, R) /\ DocOrder(V, R)
  BY DEF OneMoreVertex
<1>2. w \in Seq(DOMAIN s.vertex) /\ SortedBy(w, R) /\ ToSet(w) = DOMAIN s.vertex
  BY <1>1, WalkIsDocumentOrder DEF OneMoreVertex
<1>3. Walk(t) \in Seq(D) /\ SortedBy(Walk(t), R) /\ ToSet(Walk(t)) = D
  BY <1>1, WalkIsDocumentOrder DEF OneMoreVertex
<1>4. /\ Strict(D, R) /\ \A a, b \in D : a # b => << a, b >> \in R \/ << b, a >> \in R
      /\ \A a, b \in D : Elder(V, a, b) =>
           (<< b, a >> \in R <=> V[b].parent = Root \/ << V[b].parent, a >> \in R)
  BY <1>1 DEF DocOrder, OrderOn
<1>5. /\ D = DOMAIN s.vertex \cup {n} /\ n \in D /\ n \notin DOMAIN s.vertex
      /\ Root \notin DOMAIN s.vertex
      /\ \A v \in DOMAIN s.vertex : Elder(V, v, n)
  BY DEF OneMoreVertex, Tree, Planted
<1>6. ASSUME NEW a \in DOMAIN s.vertex
      PROVE  /\ << n, a >> \in R <=> u = Root \/ << u, a >> \in R
             /\ << n, a >> \in R \/ << a, n >> \in R
  BY <1>4, <1>5
<1> HIDE DEF w
<1>7. w \in Seq(D)
  BY <1>2, <1>5
<1>8. Len(w) \in Nat /\ \A i \in 1 .. Len(w) : w[i] \in DOMAIN s.vertex
  BY <1>2, ElementsOf
<1> HIDE DEF D, V, u
<1>9. /\ at \in 1 .. Len(w) + 1
      /\ \A i \in 1 .. Len(w) : (i < at => << w[i], n >> \in R) /\ (i >= at => << n, w[i] >> \in R)
  <2>1. CASE u = Root /\ at = 1
    BY <1>6, <1>8, <2>1
  <2>2. ASSUME NEW j \in 1 .. Len(w), w[j] = u, at = j + 1
        PROVE  <1>9!1 /\ <1>9!2
    <3>1. at \in 1 .. Len(w) + 1
      BY <1>8, <2>2
    <3>2. u # Root /\ u \in D /\ << u, u >> \notin R
      BY <1>4, <1>5, <1>8, <2>2 DEF Strict
    <3>3. ASSUME NEW i \in 1 .. Len(w), i < at
          PROVE  << w[i], n >> \in R
      <4>1. i = j \/ << w[i], u >> \in R
        BY <1>2, <1>8, <2>2, <3>3 DEF SortedBy
      <4>2. << u, w[i] >> \notin R
        BY <1>4, <1>5, <1>8, <2>2, <3>2, <4>1 DEF Strict
      <4>3. << n, w[i] >> \notin R
        BY <1>6, <1>8, <3>2, <4>2
      <4>4. QED
        BY <1>6, <1>8, <4>3
    <3>4. ASSUME NEW i \in 1 .. Len(w), i >= at
          PROVE  << n, w[i] >> \in R
      <4>1. << u, w[i] >> \in R
        BY <1>2, <1>8, <2>2, <3>4 DEF SortedBy
      <4>2. QED
        BY <1>6, <1>8, <4>1
    <3>5. QED
      BY <3>1, <3>3, <3>4
  <2>3. QED
    BY <2>1, <2>2 DEF PlaceOf, u, V, w
<1>10. /\ InsertAt(w, at, n) \in Seq(D) /\ SortedBy(InsertAt(w, at, n), R)
       /\ ToSet(InsertAt(w, at, n)) = ToSet(w) \cup {n}
  <2>1. SortedBy(w, R) /\ Strict(D, R) /\ n \in D
    BY <1>2, <1>4, <1>5 DEF D
  <2>2. QED
    BY <1>7, <1>9, <2>1, PlacedInOrder
<1>11. Walk(t) = InsertAt(w, at, n)
  <2> DEFINE x == Walk(t)
             y == InsertAt(w, at, n)
  <2>1. ToSet(x) = ToSet(y) /\ x \in Seq(D) /\ y \in Seq(D) /\ SortedBy(x, R) /\ SortedBy(y, R)
    BY <1>2, <1>3, <1>5, <1>10 DEF D
  <2> HIDE DEF x, y
  <2>2. x = y
    BY <1>4, <2>1, SameSorted
  <2>3. QED
    BY <2>2 DEF x, y
<1>12. QED
  BY <1>9, <1>11 DEF w

InsertsOne(s, t, op) ==
  LET n == InsertedVertexID(op)
  IN  /\ OneMoreVertex(s, t, n) /\ t.vertex[n].parent = op.vertex
      /\ VertexEntry(t, n) = ListVertex(n)
      /\ \A v \in DOMAIN s.vertex : VertexEntry(s, v) = VertexEntry(t, v)

LEMMA InsertStep ==
  ASSUME NEW I, NEW A, NEW op, NEW g, NEW h, LastStep(I, A, op, g, h),
         op.action = "insert_vertex", NEW p, p = op.part, NEW k, k = op.ring
  PROVE  InsertsOne(SeqAt(g, p, k), SeqAt(h, p, k), op)
<1> DEFINE s == SeqAt(g, p, k)
           t == SeqAt(h, p, k)
           n == InsertedVertexID(op)
           B == A \cup {op}
<1>1. TwoViews(I, A, g, B, h, p, k)
  <2>1. op.action \in VertexActions
    BY DEF VertexActions
  <2>2. VertexChanges(I, A, op, g, h, p, k)
    BY <2>1, VertexStep
  <2>3. QED
    BY <2>2 DEF VertexChanges, RingChanges
<1>2. /\ Effects(I, A, g) /\ Effects(I, B, h) /\ Grows(g, h) /\ Exchange(I)
      /\ KnowsRing(g, p, k) /\ KnowsRing(h, p, k)
      /\ A \subseteq I /\ op \in I
      /\ \A o \in A : IsOp(o) /\ ~ Refers(o, op) /\ o # op
  BY <1>1, LastStepIs DEF LastStep, TwoViews, Effects
<1>3. /\ Tree(t) /\ n \in DOMAIN t.vertex /\ t.vertex[n].parent = op.vertex
      /\ \A v \in DOMAIN t.vertex : v # n => Elder(t.vertex, v, n)
  <2>1. \A o \in B : o = op \/ Newer(op, o)
    BY DEF LastStep
  <2> DEFINE C == B
  <2>2. Effects(I, C, h) /\ op \in C /\ \A o \in C : o = op \/ Newer(op, o)
    BY <1>2, <2>1
  <2> HIDE DEF C
  <2>3. QED
    BY <2>2, LastInsertIsNewest
<1>4. n \notin DOMAIN s.vertex
  <2> SUFFICES ASSUME n \in DOMAIN s.vertex PROVE FALSE
    OBVIOUS
  <2> DEFINE x == s.vertex[n]
             pk == g.part[p].key
             rk == g.part[p].ring[k].key
  <2>1. KnowsVertex(g, p, k, n)
    BY <1>2 DEF KnowsVertex, Has, SeqAt
  <2>2. VertexFrom(A, p, k, n, pk, rk, x.key, x.parent)
    BY <1>2, <2>1, VertexComesFrom DEF SeqAt
  <2>3. PartKey(pk) /\ RingKey(rk)
    BY <1>2, RingComesFrom
  <2>4. pk.initial \in BOOLEAN /\ rk.initial \in BOOLEAN
    BY <2>3, PartKeyIs, RingKeyIs
  <2> HIDE DEF pk, rk, x
  <2>5. \A i : DerivedVertexID(pk, rk, InitialKey(i)) # n
    BY <2>4, VertexIDs
  <2>6. \E o \in A : n = InsertedVertexID(o)
    BY <2>2, <2>5 DEF VertexFrom, At
  <2>7. PICK o \in A : n = InsertedVertexID(o)
    BY <2>6
  <2>8. RefOf(o) = RefOf(op)
    BY <2>4, <2>7, VertexIDs
  <2>9. o = op
    BY <1>2, <2>8, InsertedOnce
  <2>10. QED
    BY <1>2, <2>9
<1>5. DOMAIN t.vertex = DOMAIN s.vertex \cup {n}
  <2>1. \A v : KnowsVertex(h, p, k, v) => KnowsVertex(g, p, k, v) \/ v = n
    BY <1>2, OnlyItsOwn
  <2>2. \A v : KnowsVertex(g, p, k, v) => KnowsVertex(h, p, k, v)
    BY <1>2, StillKnown
  <2>3. \A v : v \in DOMAIN t.vertex <=> KnowsVertex(h, p, k, v)
    BY <1>2 DEF KnowsVertex, Has, SeqAt
  <2>4. \A v : v \in DOMAIN s.vertex <=> KnowsVertex(g, p, k, v)
    BY <1>2 DEF KnowsVertex, Has, SeqAt
  <2> HIDE DEF s, t, n
  <2>5. QED
    BY <1>3, <2>1, <2>2, <2>3, <2>4
<1>6. op.vertex \in DOMAIN s.vertex \cup {Root}
  <2>1. Ready(g, op) /\ Admits(op)
    BY DEF LastStep
  <2>2. CASE op.vertex # Root
    <3>1. KnowsVertex(g, p, k, op.vertex)
      BY <2>1, <2>2 DEF Ready, NeedsVertex, VertexActions, Admits
    <3>2. QED
      BY <3>1 DEF KnowsVertex, Has, SeqAt
  <2>3. QED
    BY <2>2
<1>7. Tree(s) /\ \E R : DocOrder(s.vertex, R) /\ DocOrder(t.vertex, R)
  BY <1>1, TwoViewsAgree, OneOrderForBoth
<1>8. OneMoreVertex(s, t, n)
  <2> HIDE DEF s, t, n
  <2>1. \A v \in DOMAIN s.vertex : Elder(t.vertex, v, n)
    BY <1>3, <1>4, <1>5
  <2>2. QED
    BY <1>3, <1>4, <1>5, <1>6, <1>7, <2>1 DEF OneMoreVertex
<1>9. VertexEntry(t, n) = ListVertex(n)
  <2> DEFINE x == t.vertex[n]
  <2>1. KnowsVertex(h, p, k, n)
    BY <1>2, <1>3 DEF KnowsVertex, Has, SeqAt
  <2>2. ReflectsVertex(x, B, p, k, n, h.part[p].key, h.part[p].ring[k].key)
    BY <1>2, <2>1, VertexComesFrom DEF SeqAt
  <2>3. \A o \in A : o.vertex # n
    BY <1>2 DEF Refers
  <2>4. On(B, "delete_vertex", p, k, n) = {} /\ On(B, "move_vertex", p, k, n) = {}
    BY <2>3 DEF On, At
  <2>5. x.deleted \in BOOLEAN
    BY <1>3 DEF Tree, IsVertex
  <2> HIDE DEF x, n
  <2>6. ~ x.deleted
    BY <2>2, <2>4 DEF ReflectsVertex
  <2>7. x.coord = n
    BY <2>2, <2>4 DEF ReflectsVertex, LastMove
  <2>8. x.deleted = FALSE
    BY <2>5, <2>6
  <2>9. QED
    BY <2>7, <2>8, Zenon DEF VertexEntry, ListVertex, x
<1>10. ASSUME NEW v \in DOMAIN s.vertex
       PROVE  VertexEntry(s, v) = VertexEntry(t, v)
  <2>1. v \in DOMAIN t.vertex
    BY <1>5
  <2>2. On(A, "delete_vertex", p, k, v) = On(B, "delete_vertex", p, k, v)
        /\ On(A, "move_vertex", p, k, v) = On(B, "move_vertex", p, k, v)
    BY DEF On, At
  <2>3. /\ (On(A, "delete_vertex", p, k, v) = {} <=> On(B, "delete_vertex", p, k, v) = {}) =>
              VertexAt(g, p, k, v).deleted = VertexAt(h, p, k, v).deleted
        /\ On(A, "move_vertex", p, k, v) = On(B, "move_vertex", p, k, v) =>
              VertexAt(g, p, k, v).coord = VertexAt(h, p, k, v).coord
    BY <1>1, <2>1, SameVertex
  <2>4. s.vertex[v].deleted = t.vertex[v].deleted /\ s.vertex[v].coord = t.vertex[v].coord
    BY <2>2, <2>3 DEF VertexAt
  <2> HIDE DEF s, t
  <2>5. QED
    BY <2>4 DEF VertexEntry
<1>11. QED
  <2> HIDE DEF s, t, B
  <2>1. InsertsOne(s, t, op)
    BY <1>3, <1>8, <1>9, <1>10 DEF InsertsOne
  <2>2. QED
    BY <2>1 DEF s, t

LEMMA EntriesInserted ==
  ASSUME NEW s, NEW t, NEW op, InsertsOne(s, t, op), NEW at \in Nat,
         PlaceOf(Walk(s), op.vertex, at)
  PROVE  VertexEntries(t) = InsertAt(VertexEntries(s), at, ListVertex(InsertedVertexID(op)))
<1> DEFINE n == InsertedVertexID(op)
           w == Walk(s)
           z == Walk(t)
           E == VertexEntries(s)
           F == VertexEntries(t)
           x == ListVertex(n)
           S == { E[i] : i \in 1 .. Len(w) } \cup {x}
           new == InsertAt(E, at, x)
<1>1. /\ OneMoreVertex(s, t, n) /\ t.vertex[n].parent = op.vertex /\ VertexEntry(t, n) = x
      /\ \A v \in DOMAIN s.vertex : VertexEntry(s, v) = VertexEntry(t, v)
  BY DEF InsertsOne
<1>2. z = InsertAt(w, at, n) /\ at \in 1 .. Len(w) + 1
  <2> HIDE DEF n
  <2>1. PlaceOf(Walk(s), t.vertex[n].parent, at)
    BY <1>1
  <2>2. QED
    BY <1>1, <2>1, OneMoreWalk
<1>3. Tree(s) /\ Tree(t) /\ DOMAIN t.vertex = DOMAIN s.vertex \cup {n}
  BY <1>1 DEF OneMoreVertex
<1>4. w \in Seq(DOMAIN s.vertex)
  BY <1>3, TreeWalk
<1> HIDE DEF n, x
<1>5. /\ Len(w) \in Nat /\ DOMAIN w = 1 .. Len(w)
      /\ \A i \in 1 .. Len(w) : w[i] \in DOMAIN s.vertex
  <2> HIDE DEF w
  <2>1. QED
    BY <1>4, ElementsOf
<1>6. /\ z \in Seq(DOMAIN t.vertex) /\ Len(z) = Len(w) + 1
      /\ \A i \in 1 .. Len(w) + 1 :
           z[i] = IF i < at THEN w[i] ELSE IF i = at THEN n ELSE w[i - 1]
  <2> HIDE DEF w, z
  <2> DEFINE D == DOMAIN t.vertex
  <2>1. w \in Seq(D) /\ n \in D
    BY <1>3, <1>4
  <2> HIDE DEF D
  <2>2. /\ InsertAt(w, at, n) \in Seq(D) /\ Len(InsertAt(w, at, n)) = Len(w) + 1
        /\ \A i \in 1 .. Len(w) + 1 :
             InsertAt(w, at, n)[i] = IF i < at THEN w[i] ELSE IF i = at THEN n ELSE w[i - 1]
    BY <1>2, <2>1, InsertedAt
  <2>3. QED
    BY <1>2, <2>2 DEF D
<1>7. DOMAIN z = 1 .. Len(w) + 1
  <2> HIDE DEF w, z
  <2>1. QED
    BY <1>5, <1>6
<1>8. E = [i \in 1 .. Len(w) |-> VertexEntry(s, w[i])]
  BY <1>5 DEF VertexEntries
<1>9. F = [i \in 1 .. Len(w) + 1 |-> VertexEntry(t, z[i])]
  BY <1>7 DEF VertexEntries
<1> HIDE DEF w, z, E, F
<1>10. E \in Seq(S) /\ Len(E) = Len(w) /\ x \in S
  <2>1. E \in [1 .. Len(w) -> S]
    BY <1>8 DEF S
  <2>2. x \in S
    BY DEF S
  <2> HIDE DEF S
  <2>3. QED
    BY <1>5, <2>1, <2>2
<1> HIDE DEF S
<1>11. /\ new \in Seq(S) /\ Len(new) = Len(w) + 1
       /\ \A i \in 1 .. Len(w) + 1 :
            new[i] = IF i < at THEN E[i] ELSE IF i = at THEN x ELSE E[i - 1]
  BY <1>2, <1>10, InsertedAt
<1> HIDE DEF new
<1>12. ASSUME NEW i \in 1 .. Len(w) + 1
       PROVE  F[i] = new[i]
  <2>1. F[i] = VertexEntry(t, z[i])
    BY <1>9
  <2>2. CASE i < at
    <3>1. i \in 1 .. Len(w) /\ z[i] = w[i] /\ new[i] = E[i]
      BY <1>2, <1>5, <1>6, <1>11, <2>2
    <3>2. QED
      BY <1>1, <1>5, <1>8, <2>1, <3>1
  <2>3. CASE i = at
    <3>1. z[i] = n /\ new[i] = x
      BY <1>6, <1>11, <2>3
    <3>2. QED
      BY <1>1, <2>1, <3>1
  <2>4. CASE i > at
    <3>1. i - 1 \in 1 .. Len(w) /\ z[i] = w[i - 1] /\ new[i] = E[i - 1]
      BY <1>2, <1>5, <1>6, <1>11, <2>4
    <3>2. QED
      BY <1>1, <1>5, <1>8, <2>1, <3>1
  <2>5. QED
    BY <1>2, <2>2, <2>3, <2>4
<1>13. F = new
  <2>1. new = [i \in 1 .. Len(w) + 1 |-> new[i]]
    BY <1>5, <1>11
  <2>2. QED
    BY <1>9, <1>12, <2>1
<1>14. QED
  BY <1>13 DEF F, new, E, x, n

LEMMA InsertedBehind ==
  ASSUME NEW s, NEW t, NEW op, InsertsOne(s, t, op)
  PROVE  InsertBehind(VertexEntries(s), op) = VertexEntries(t)
<1> DEFINE n == InsertedVertexID(op)
           w == Walk(s)
           E == VertexEntries(s)
           x == ListVertex(n)
           u == op.vertex
           at == { i \in DOMAIN E : E[i].id = u }
<1>1. /\ Tree(s) /\ (u = Root \/ u \in DOMAIN s.vertex) /\ Root \notin DOMAIN s.vertex
      /\ \E R : DocOrder(s.vertex, R)
  BY DEF InsertsOne, OneMoreVertex, Tree, Planted
<1>2. w \in Seq(DOMAIN s.vertex) /\ ToSet(w) = DOMAIN s.vertex
  BY <1>1, TreeWalk
<1>3. E = [i \in DOMAIN w |-> VertexEntry(s, w[i])]
  BY DEF VertexEntries
<1>4. \A v : VertexEntry(s, v).id = v
  BY DEF VertexEntry
<1>5. \A i, j \in 1 .. Len(w) : w[i] = w[j] => i = j
  <2>1. PICK R : DocOrder(s.vertex, R)
    BY <1>1
  <2>2. SortedBy(w, R) /\ Strict(DOMAIN s.vertex, R)
    BY <1>1, <2>1, WalkIsDocumentOrder DEF DocOrder, OrderOn
  <2> HIDE DEF w
  <2>3. QED
    BY <1>2, <2>2, SortedOnce
<1> HIDE DEF w
<1>6. /\ Len(w) \in Nat /\ DOMAIN w = 1 .. Len(w)
      /\ ToSet(w) = { w[i] : i \in 1 .. Len(w) }
  BY <1>2, ElementsOf
<1> HIDE DEF E
<1>7. DOMAIN E = 1 .. Len(w) /\ \A i \in 1 .. Len(w) : E[i].id = w[i]
  BY <1>3, <1>4, <1>6
<1>8. \A m \in Nat : PlaceOf(w, u, m) => VertexEntries(t) = InsertAt(E, m, x)
  <2> SUFFICES ASSUME NEW m \in Nat, PlaceOf(w, u, m)
               PROVE  VertexEntries(t) = InsertAt(E, m, x)
    OBVIOUS
  <2>1. PlaceOf(Walk(s), op.vertex, m)
    BY DEF w
  <2>2. QED
    BY <2>1, EntriesInserted DEF E
<1>9. InsertBehind(E, op) =
        IF u = Root THEN << x >> \o E
        ELSE IF at = {} THEN E ELSE InsertAt(E, Min(at) + 1, x)
  BY DEF InsertBehind
<1> HIDE DEF x, at
<1>10. CASE u = Root
  <2>1. PlaceOf(w, u, 1)
    BY <1>10 DEF PlaceOf
  <2>2. VertexEntries(t) = InsertAt(E, 1, x)
    BY <1>8, <2>1
  <2> DEFINE S == { E[i] : i \in 1 .. Len(w) } \cup {x}
  <2>3. DOMAIN E = 1 .. Len(w) /\ E \in [1 .. Len(w) -> S] /\ x \in S
    BY <1>3, <1>6
  <2> HIDE DEF S
  <2>4. E \in Seq(S) /\ x \in S
    BY <1>6, <2>3
  <2>5. << x >> \o E = InsertAt(E, 1, x)
    BY <2>4, PutFirst
  <2>6. QED
    BY <1>9, <1>10, <2>2, <2>5 DEF E
<1>11. CASE u \in DOMAIN s.vertex
  <2>1. PICK i \in 1 .. Len(w) : w[i] = u
    BY <1>2, <1>6, <1>11
  <2>2. at = {i}
    BY <1>5, <1>7, <2>1 DEF at
  <2>3. Min(at) = i /\ at # {}
    BY <2>2, MinOfNumbers
  <2>4. PlaceOf(w, u, i + 1)
    BY <2>1 DEF PlaceOf
  <2>5. VertexEntries(t) = InsertAt(E, i + 1, x)
    BY <1>8, <2>4
  <2>6. u # Root
    BY <1>1, <1>11
  <2>7. QED
    BY <1>9, <2>3, <2>5, <2>6 DEF E
<1>12. QED
  BY <1>1, <1>10, <1>11

LEMMA PerformInsert ==
  ASSUME NEW I, NEW A, NEW op, NEW g, NEW h, LastStep(I, A, op, g, h),
         op.action = "insert_vertex", NEW p, p = op.part, NEW k, k = op.ring
  PROVE  Perform(ListOf(g), op) = ListOf(h)
<1> DEFINE s == SeqAt(g, p, k)
           t == SeqAt(h, p, k)
           list == ListOf(g)
           rings == RingEntries(g, p)
<1>1. VertexChanges(I, A, op, g, h, p, k)
  <2>1. op.action \in VertexActions
    BY DEF VertexActions
  <2>2. QED
    BY <2>1, VertexStep
<1>2. InsertBehind(VertexEntries(s), op) = VertexEntries(t)
  BY InsertStep, InsertedBehind
<1>3. \A i \in DOMAIN list : list[i].id = p => list[i].rings = rings
  BY RingsUnder
<1>4. \A r \in DOMAIN rings : rings[r].id = k => rings[r].vertices = VertexEntries(s)
  BY VerticesUnder
<1>5. PartsWith(list, p, RingsWith(rings, k, VertexEntries(t))) = ListOf(h)
  BY <1>1, VerticesLifted
<1> HIDE DEF list, rings, s, t
<1>6. Perform(list, op) =
         [i \in DOMAIN list |-> IF list[i].id = p
            THEN PartWith(list[i],
                   [r \in DOMAIN list[i].rings |-> IF list[i].rings[r].id = k
                      THEN RingWith(list[i].rings[r], InsertBehind(list[i].rings[r].vertices, op))
                      ELSE list[i].rings[r]])
            ELSE list[i]]
  BY DEF Perform, OnRing, OnPart, Update, PartWith, RingWith
<1>7. [r \in DOMAIN rings |-> IF rings[r].id = k
          THEN RingWith(rings[r], InsertBehind(rings[r].vertices, op)) ELSE rings[r]]
        = RingsWith(rings, k, VertexEntries(t))
  BY <1>2, <1>4 DEF RingsWith
<1>8. Perform(list, op) = PartsWith(list, p, RingsWith(rings, k, VertexEntries(t)))
  BY <1>3, <1>6, <1>7 DEF PartsWith
<1>9. QED
  BY <1>5, <1>8 DEF list

-----------------------------------------------------------------------------
(***************************************************************************)
(* What is added fresh: its vertices are a chain in the order of their IDs. *)
(***************************************************************************)
ChainOf(V, ids) ==
  /\ DOMAIN V = ToSet(ids)
  /\ \A i \in 1 .. Len(ids) :
       V[ids[i]].parent = IF i = 1 THEN Root ELSE ids[i - 1]

LEMMA ChainWalk ==
  ASSUME NEW s, Tree(s), NEW ids \in Seq(DOMAIN s.vertex), ChainOf(s.vertex, ids)
  PROVE  Walk(s) = ids
<1> DEFINE V == s.vertex
           D == DOMAIN V
           n == Len(ids)
<1>1. Planted(V) /\ IsFiniteSet(D)
  BY DEF Tree
<1>2. PICK R : DocOrder(V, R)
  BY <1>1, OrderExists
<1>3. Walk(s) \in Seq(D) /\ SortedBy(Walk(s), R) /\ ToSet(Walk(s)) = D
  BY <1>2, WalkIsDocumentOrder
<1>4. Strict(D, R)
  BY <1>2 DEF DocOrder, OrderOn
<1>5. \A v \in D : V[v].parent # Root => V[v].parent \in D /\ << V[v].parent, v >> \in R
  BY <1>1, <1>2, FamilyOrder
<1>6. n \in Nat /\ (\A i \in 1 .. n : ids[i] \in D) /\ Root \notin D
  BY <1>1, ElementsOf DEF Planted
<1>7. \A i \in 2 .. n : << ids[i - 1], ids[i] >> \in R
  <2> SUFFICES ASSUME NEW i \in 2 .. n PROVE << ids[i - 1], ids[i] >> \in R
    OBVIOUS
  <2>1. i \in 1 .. n /\ i # 1 /\ i - 1 \in 1 .. n
    BY <1>6
  <2>2. V[ids[i]].parent = ids[i - 1]
    BY <2>1 DEF ChainOf
  <2>3. QED
    BY <1>5, <1>6, <2>1, <2>2
<1> HIDE DEF D, n
<1>8. \A i \in 1 .. n, j \in 1 .. n : i < j => << ids[i], ids[j] >> \in R
  <2> SUFFICES ASSUME NEW i \in 1 .. n
               PROVE  \A j \in 1 .. n : i < j => << ids[i], ids[j] >> \in R
    OBVIOUS
  <2> DEFINE Good == { j \in 0 .. n : i < j => << ids[i], ids[j] >> \in R }
  <2>1. 0 \in Good
    BY <1>6
  <2>2. ASSUME NEW j \in 1 .. n, j - 1 \in Good
        PROVE  j \in Good
    <3>1. CASE i < j - 1
      <4>1. j - 1 \in 1 .. n /\ j \in 2 .. n
        BY <1>6, <3>1
      <4>2. << ids[i], ids[j - 1] >> \in R /\ << ids[j - 1], ids[j] >> \in R
        BY <1>7, <2>2, <3>1, <4>1
      <4>3. << ids[i], ids[j] >> \in R
        BY <1>4, <1>6, <4>1, <4>2 DEF Strict
      <4>4. QED
        BY <1>6, <4>3
    <3>2. CASE i = j - 1
      <4>1. j \in 2 .. n
        BY <1>6, <3>2
      <4>2. QED
        BY <1>6, <1>7, <3>2, <4>1
    <3>3. CASE i > j - 1
      BY <1>6, <3>3
    <3>4. QED
      BY <1>6, <3>1, <3>2, <3>3
  <2> HIDE DEF Good
  <2>3. \A j \in 0 .. n : j \in Good
    BY <1>6, <2>1, <2>2, CountingUp
  <2>4. QED
    BY <2>3 DEF Good
<1>9. SortedBy(ids, R)
  BY <1>8 DEF SortedBy, n
<1>10. ids \in Seq(D) /\ ToSet(ids) = D
  BY DEF ChainOf, D
<1> DEFINE w == Walk(s)
<1>11. w \in Seq(D) /\ SortedBy(w, R) /\ ToSet(w) = ToSet(ids)
  BY <1>3, <1>10
<1> HIDE DEF w
<1>12. w = ids
  BY <1>4, <1>9, <1>10, <1>11, SameSorted
<1>13. QED
  BY <1>12 DEF w

Unaddressed(B, p, k) == \A o \in B : o.part = p /\ o.ring = k => ~ NeedsRing(o)

LEMMA FreshIDsAre ==
  ASSUME NEW pk, NEW rk, PartKey(pk), RingKey(rk), NEW ids, ids = FreshIDs(pk, rk),
         NEW n, n = Size(rk)
  PROVE  /\ n \in Nat /\ Len(ids) = n /\ DOMAIN ids = 1 .. n
         /\ \A i \in 1 .. n : ids[i] = DerivedVertexID(pk, rk, InitialKey(i - 1))
         /\ ToSet(ids) = { ids[i] : i \in 1 .. n }
         /\ \A S : (\A i \in 1 .. n : ids[i] \in S) => ids \in Seq(S)
<1>1. n \in Nat
  BY RingKeyIs
<1>2. ids = [i \in 1 .. n |-> DerivedVertexID(pk, rk, InitialKey(i - 1))]
  BY DEF FreshIDs
<1>3. DOMAIN ids = 1 .. n /\ \A i \in 1 .. n : ids[i] = DerivedVertexID(pk, rk, InitialKey(i - 1))
  BY <1>2
<1>4. ASSUME NEW S, \A i \in 1 .. n : ids[i] \in S
      PROVE  ids \in Seq(S) /\ Len(ids) = n
  <2>1. ids \in [1 .. n -> S]
    BY <1>2, <1>4
  <2>2. QED
    BY <1>1, <1>3, <2>1
<1>5. Len(ids) = n
  <2> DEFINE S == { ids[i] : i \in 1 .. n }
  <2>1. \A i \in 1 .. n : ids[i] \in S
    OBVIOUS
  <2> HIDE DEF S
  <2>2. QED
    BY <1>4, <2>1
<1>6. ToSet(ids) = { ids[i] : i \in 1 .. n }
  BY <1>3 DEF ToSet
<1>7. QED
  BY <1>1, <1>3, <1>4, <1>5, <1>6

LEMMA FreshRingEntry ==
  ASSUME NEW I, NEW B, NEW h, Effects(I, B, h), NEW p, NEW k, KnowsRing(h, p, k),
         Unaddressed(B, p, k), NEW pk, pk = h.part[p].key, NEW rk, rk = h.part[p].ring[k].key
  PROVE  RingEntry(h, p, k) = ListRing(k, FreshIDs(pk, rk))
<1> DEFINE s == SeqAt(h, p, k)
           V == s.vertex
           ids == FreshIDs(pk, rk)
           n == Size(rk)
<1>1. ReflectsRing(h.part[p].ring[k], B, p, k, pk) /\ PartKey(pk) /\ RingKey(rk)
  BY RingComesFrom
<1>2. /\ n \in Nat /\ Len(ids) = n /\ DOMAIN ids = 1 .. n
      /\ \A i \in 1 .. n : ids[i] = DerivedVertexID(pk, rk, InitialKey(i - 1))
      /\ ToSet(ids) = { ids[i] : i \in 1 .. n }
      /\ \A S : (\A i \in 1 .. n : ids[i] \in S) => ids \in Seq(S)
  BY <1>1, FreshIDsAre
<1> HIDE DEF ids, n
<1>3. Tree(s)
  BY <1>1 DEF ReflectsRing, ReflectsSeq, SeqAt
<1>4. \A v : v \in DOMAIN V <=> KnowsVertex(h, p, k, v)
  BY DEF KnowsVertex, Has, SeqAt
<1>5. \A action \in VertexActions \cup {"remove_ring"} : At(B, action, p, k) = {}
  BY DEF Unaddressed, At, NeedsRing
<1>6. ASSUME NEW v \in DOMAIN V
      PROVE  /\ \E i \in 1 .. n : v = ids[i]
             /\ V[v].coord = v /\ V[v].deleted = FALSE
  <2> DEFINE x == V[v]
  <2>1. /\ ReflectsVertex(x, B, p, k, v, pk, rk)
        /\ VertexFrom(B, p, k, v, pk, rk, x.key, x.parent)
    BY <1>4, VertexComesFrom DEF SeqAt
  <2>2. x.deleted \in BOOLEAN
    BY <1>3 DEF Tree, IsVertex
  <2> HIDE DEF x
  <2>3. At(B, "insert_vertex", p, k) = {}
    BY <1>5 DEF VertexActions
  <2>4. \E i \in 1 .. n : v = ids[i]
    BY <1>2, <2>1, <2>3 DEF VertexFrom, n
  <2>5. On(B, "delete_vertex", p, k, v) = {} /\ On(B, "move_vertex", p, k, v) = {}
    BY <1>5 DEF On, VertexActions
  <2>6. ~ x.deleted
    BY <2>1, <2>5 DEF ReflectsVertex
  <2>7. x.coord = v
    BY <2>1, <2>5 DEF ReflectsVertex, LastMove
  <2>8. x.deleted = FALSE
    BY <2>2, <2>6
  <2>9. QED
    BY <2>4, <2>7, <2>8, Zenon DEF x
<1>7. ASSUME NEW i \in 1 .. n
      PROVE  /\ ids[i] \in DOMAIN V
             /\ V[ids[i]].parent = IF i = 1 THEN Root ELSE ids[i - 1]
  <2> DEFINE v == ids[i]
             key == InitialKey(i - 1)
             parent == DerivedParent(pk, rk, InitialKey(i - 1))
  <2>1. VertexFrom(B, p, k, v, pk, rk, key, parent)
    BY <1>2 DEF VertexFrom, n
  <2>2. VertexFrom(B, p, k, v, h.part[p].key, h.part[p].ring[k].key, key, parent)
    BY <2>1
  <2>3. parent = IF i = 1 THEN Root ELSE ids[i - 1]
    <3>1. InitialKey(i - 1).pos = i - 1
      BY DEF InitialKey
    <3>2. CASE i = 1
      BY <3>1, <3>2 DEF DerivedParent
    <3>3. CASE i # 1
      <4>1. i - 1 \in 1 .. n /\ i - 1 # 0
        BY <1>2, <3>3
      <4>2. QED
        BY <1>2, <3>1, <3>3, <4>1 DEF DerivedParent
    <3>4. QED
      BY <3>2, <3>3
  <2> HIDE DEF v, key, parent
  <2>4. v \in DOMAIN SeqAt(h, p, k).vertex /\ SeqAt(h, p, k).vertex[v].parent = parent
    BY <2>2, VertexKeyIs
  <2>5. QED
    BY <2>3, <2>4 DEF v
<1> HIDE DEF s
<1>8. ChainOf(V, ids) /\ ids \in Seq(DOMAIN V)
  <2> DEFINE D == DOMAIN V
  <2>1. (\A v \in D : \E i \in 1 .. n : v = ids[i]) /\ \A i \in 1 .. n : ids[i] \in D
    BY <1>6, <1>7
  <2> HIDE DEF D
  <2>2. D = { ids[i] : i \in 1 .. n }
    BY <2>1
  <2>3. ids \in Seq(D)
    BY <1>2, <2>1
  <2>4. D = ToSet(ids)
    BY <1>2, <2>2
  <2>5. \A i \in 1 .. Len(ids) : V[ids[i]].parent = IF i = 1 THEN Root ELSE ids[i - 1]
    BY <1>2, <1>7
  <2>6. QED
    BY <2>3, <2>4, <2>5 DEF ChainOf, D
<1>9. Walk(s) = ids
  BY <1>3, <1>8, ChainWalk
<1>10. \A i \in 1 .. n : VertexEntry(s, ids[i]) = ListVertex(ids[i])
  <2> SUFFICES ASSUME NEW i \in 1 .. n PROVE VertexEntry(s, ids[i]) = ListVertex(ids[i])
    OBVIOUS
  <2> DEFINE v == ids[i]
  <2>1. s.vertex[v].coord = v /\ s.vertex[v].deleted = FALSE
    BY <1>6, <1>7, Zenon
  <2> HIDE DEF v
  <2>2. VertexEntry(s, v) = ListVertex(v)
    BY <2>1, Zenon DEF VertexEntry, ListVertex
  <2>3. QED
    BY <2>2 DEF v
<1>11. VertexEntries(s) = [i \in DOMAIN ids |-> ListVertex(ids[i])]
  BY <1>2, <1>9, <1>10 DEF VertexEntries
<1>12. h.part[p].ring[k].deleted = FALSE
  BY <1>1, <1>5 DEF ReflectsRing
<1>13. RingEntry(h, p, k) = ListRing(k, ids)
  BY <1>11, <1>12, Zenon DEF RingEntry, ListRing, s
<1>14. QED
  BY <1>13 DEF ids

-----------------------------------------------------------------------------
(***************************************************************************)
(* What was added last is listed last.                                     *)
(***************************************************************************)
LEMMA ListedLast ==
  ASSUME NEW q, NEW f, Listing(q, f), NEW r, NEW h, Listing(r, h), NEW id, id \notin DOMAIN f,
         DOMAIN h = DOMAIN f \cup {id},
         \A y \in DOMAIN f : SetKeyBefore(h[y].key, h[id].key),
         \A y \in DOMAIN f : f[y].key = h[y].key
  PROVE  r = Append(q, id)
<1> DEFINE D == DOMAIN h
           R == Oldest(h)
<1>1. Strict(D, R) /\ \A x, y \in D : << x, y >> \in R <=> SetKeyBefore(h[x].key, h[y].key)
  BY OldestIsStrict DEF Listing
<1>2. q \in Seq(DOMAIN f) /\ ToSet(q) = DOMAIN f /\ SortedBy(q, Oldest(f))
  BY DEF Listing
<1>3. Len(q) \in Nat /\ \A i \in 1 .. Len(q) : q[i] \in DOMAIN f
  BY <1>2, ElementsOf
<1>4. q \in Seq(D) /\ id \in D
  BY <1>2
<1>5. SortedBy(q, R)
  <2>1. \A y, z \in DOMAIN f : << y, z >> \in Oldest(f) => << y, z >> \in R
    BY <1>1 DEF Oldest
  <2>2. QED
    BY <1>2, <1>3, <2>1 DEF SortedBy
<1>6. AllBefore(ToSet(q), {id}, R)
  BY <1>1, <1>2 DEF AllBefore
<1> HIDE DEF R
<1>7. Append(q, id) \in Seq(D) /\ ToSet(Append(q, id)) = D /\ SortedBy(Append(q, id), R)
  BY <1>2, <1>4, <1>5, <1>6, Appended
<1>8. r \in Seq(D) /\ ToSet(r) = D /\ SortedBy(r, R)
  BY DEF Listing, R
<1> HIDE DEF D
<1>9. QED
  BY <1>1, <1>7, <1>8, SameSorted

LEMMA EntriesAppended ==
  ASSUME NEW S, NEW q \in Seq(S), NEW id, NEW r, r = Append(q, id),
         NEW e, IsFunction(e), DOMAIN e = DOMAIN q,
         NEW f, IsFunction(f), DOMAIN f = DOMAIN r,
         \A i \in DOMAIN q : f[i] = e[i]
  PROVE  f = Append(e, f[Len(q) + 1])
<1> DEFINE n == Len(q)
           z == f[n + 1]
           T == { e[i] : i \in 1 .. n } \cup {z}
<1>1. n \in Nat /\ DOMAIN q = 1 .. n /\ DOMAIN r = 1 .. n + 1
  OBVIOUS
<1>2. e = [i \in 1 .. n |-> e[i]] /\ f = [i \in 1 .. n + 1 |-> f[i]]
  BY <1>1 DEF IsFunction
<1>3. e \in [1 .. n -> T] /\ z \in T
  BY <1>2
<1> HIDE DEF n, T
<1>4. e \in Seq(T) /\ Len(e) = n /\ z \in T
  <2> HIDE DEF z
  <2>1. QED
    BY <1>1, <1>3
<1>5. Append(e, z) = [i \in 1 .. n + 1 |-> IF i = n + 1 THEN z ELSE e[i]]
  <2> DEFINE a == Append(e, z)
  <2> HIDE DEF z
  <2>1. /\ a \in Seq(T) /\ Len(a) = n + 1 /\ a[n + 1] = z
        /\ \A i \in 1 .. n : a[i] = e[i]
    BY <1>4, AppendProperties
  <2> HIDE DEF a
  <2>2. a = [i \in 1 .. n + 1 |-> a[i]]
    BY <1>1, <2>1
  <2>3. QED
    BY <1>1, <2>1, <2>2 DEF a
<1>6. \A i \in 1 .. n + 1 : f[i] = IF i = n + 1 THEN z ELSE e[i]
  BY <1>1
<1>7. f = [i \in 1 .. n + 1 |-> IF i = n + 1 THEN z ELSE e[i]]
  <2> HIDE DEF z
  <2>1. QED
    BY <1>2, <1>6
<1>8. QED
  BY <1>5, <1>7 DEF n

LEMMA AddedVertexIDs ==
  ASSUME NEW op, NEW pk, NEW rk, rk = OpKey(StampOf(op))
  PROVE  FreshIDs(pk, rk) = [i \in 1 .. Hole |-> AddRingVertexID(op, i - 1)]
<1>1. rk.initial = FALSE /\ rk.stamp = StampOf(op)
  BY OpKeyIs
<1>2. Size(rk) = Hole
  BY <1>1 DEF Size
<1>3. \A i : InitialKey(i - 1).initial = TRUE /\ InitialKey(i - 1).pos = i - 1
  BY InitialKeyIs
<1>4. \A i : DerivedVertexID(pk, rk, InitialKey(i - 1)) = AddRingVertexID(rk.stamp, i - 1)
  BY <1>1, <1>3 DEF DerivedVertexID
<1>5. \A i : DerivedVertexID(pk, rk, InitialKey(i - 1)) = AddRingVertexID(op, i - 1)
  BY <1>1, <1>4, StampIs DEF AddRingVertexID
<1>6. QED
  BY <1>2, <1>5 DEF FreshIDs

(* Rings of the base, and those added so far, come before the newest.      *)
LEMMA NewestKeyIsLast ==
  ASSUME NEW A, NEW op, \A o \in A : Newer(op, o), NEW key,
         (\E i : key = InitialKey(i)) \/ \E o \in A : key = OpKey(StampOf(o))
  PROVE  SetKeyBefore(key, OpKey(StampOf(op)))
BY KeyOrder

OneMoreRing(g, h, p, k) ==
  /\ KnowsPart(g, p) /\ KnowsPart(h, p)
  /\ k \notin DOMAIN g.part[p].ring
  /\ DOMAIN h.part[p].ring = DOMAIN g.part[p].ring \cup {k}
  /\ \A j \in DOMAIN g.part[p].ring : g.part[p].ring[j] = h.part[p].ring[j]
  /\ h.part[p].rings = Append(g.part[p].rings, k)

LEMMA AddRingStep ==
  ASSUME NEW I, NEW A, NEW op, NEW g, NEW h, LastStep(I, A, op, g, h),
         op.action = "add_ring", NEW p, p = op.part, NEW k, k = AddedRingID(op)
  PROVE  /\ OneMoreRing(g, h, p, k)
         /\ h.part[p].ring[k].key = OpKey(StampOf(op))
<1> DEFINE B == A \cup {op}
           key == OpKey(StampOf(op))
           pk == g.part[p].key
           f == g.part[p].ring
           e == h.part[p].ring
<1>1. /\ Effects(I, A, g) /\ Effects(I, B, h) /\ Grows(g, h) /\ Exchange(I) /\ IsOp(op)
      /\ A \subseteq I /\ op \in I /\ \A o \in A : IsOp(o) /\ o # op /\ Newer(op, o)
  BY LastStepIs DEF LastStep, Effects
<1>2. KnowsPart(g, p) /\ KnowsPart(h, p)
  BY <1>1, StillKnown DEF LastStep, Ready, NeedsPart
<1>3. KnowsRing(h, p, k) /\ h.part[p].ring[k].key = key
  <2>1. \E o \in B : o.action = "add_ring" /\ o.part = p /\ k = AddedRingID(o) /\ key = OpKey(StampOf(o))
    OBVIOUS
  <2> HIDE DEF key, B
  <2>2. RingFrom(B, p, k, h.part[p].key, key)
    BY <2>1 DEF RingFrom
  <2>3. QED
    BY <1>1, <1>2, <2>2, RingIsThere
<1>4. ASSUME NEW j \in DOMAIN f
      PROVE  /\ j # k
             /\ (\E i : f[j].key = InitialKey(i)) \/ \E o \in A : f[j].key = OpKey(StampOf(o))
  <2>1. RingFrom(A, p, j, pk, f[j].key) /\ PartKey(pk)
    BY <1>1, <1>2, RingComesFrom DEF KnowsRing
  <2>2. CASE \E r \in DOMAIN Shape : j = DerivedRingID(pk, InitialKey(r - 1)) /\ f[j].key = InitialKey(r - 1)
    BY <1>1, <2>1, <2>2, RingIDs
  <2>3. CASE \E o \in A : j = AddedRingID(o) /\ f[j].key = OpKey(StampOf(o))
    <3>1. PICK o \in A : j = AddedRingID(o) /\ f[j].key = OpKey(StampOf(o))
      BY <2>3
    <3>2. RefOf(o) # RefOf(op)
      BY <1>1, InsertedOnce
    <3>3. j # k
      BY <2>1, <3>1, <3>2, RingIDs
    <3>4. QED
      BY <3>1, <3>3
  <2>4. QED
    BY <2>1, <2>2, <2>3 DEF RingFrom
<1>5. DOMAIN e = DOMAIN f \cup {k}
  <2>1. \A j : KnowsRing(h, p, j) => KnowsRing(g, p, j) \/ j = k
    BY <1>1, <1>2, OnlyItsOwn
  <2>2. \A j : KnowsRing(g, p, j) => KnowsRing(h, p, j)
    BY <1>1, StillKnown
  <2>3. QED
    BY <1>2, <1>3, <2>1, <2>2 DEF KnowsRing
<1>6. \A j \in DOMAIN f : f[j] = e[j]
  <2> SUFFICES ASSUME NEW j \in DOMAIN f PROVE f[j] = e[j]
    OBVIOUS
  <2>1. TwoViews(I, A, g, B, h, p, j)
    BY <1>1, <1>2, <1>5 DEF TwoViews, KnowsRing
  <2>2. SameOnRing(A, B, p, j)
    BY DEF SameOnRing, NeedsRing, VertexActions
  <2>3. QED
    BY <2>1, <2>2, SameRing
<1>7. Listing(g.part[p].rings, f) /\ Listing(h.part[p].rings, e)
  BY <1>1, <1>2, PartComesFrom DEF ReflectsPart, KnowsPart
<1>8. \A j \in DOMAIN f : SetKeyBefore(e[j].key, e[k].key)
  <2> SUFFICES ASSUME NEW j \in DOMAIN f PROVE SetKeyBefore(e[j].key, e[k].key)
    OBVIOUS
  <2>1. SetKeyBefore(f[j].key, OpKey(StampOf(op)))
    BY <1>1, <1>4, NewestKeyIsLast
  <2>2. QED
    BY <1>3, <1>6, <2>1
<1>9. h.part[p].rings = Append(g.part[p].rings, k)
  <2> DEFINE q == g.part[p].rings
             r == h.part[p].rings
  <2>1. Listing(q, f) /\ Listing(r, e)
    BY <1>7
  <2>2. k \notin DOMAIN f /\ \A j \in DOMAIN f : f[j].key = e[j].key
    BY <1>4, <1>6
  <2> HIDE DEF q, r, f, e
  <2>3. r = Append(q, k)
    BY <1>5, <1>8, <2>1, <2>2, ListedLast
  <2>4. QED
    BY <2>3 DEF q, r
<1>10. QED
  BY <1>2, <1>3, <1>4, <1>5, <1>6, <1>9 DEF OneMoreRing

LEMMA PerformAddRing ==
  ASSUME NEW I, NEW A, NEW op, NEW g, NEW h, LastStep(I, A, op, g, h),
         op.action = "add_ring", NEW p, p = op.part, NEW k, k = AddedRingID(op)
  PROVE  Perform(ListOf(g), op) = ListOf(h)
<1> DEFINE B == A \cup {op}
           list == ListOf(g)
           ring == ListRing(AddedRingID(op), [i \in 1 .. Hole |-> AddRingVertexID(op, i - 1)])
           x == g.part[p].rings
           n == Len(x)
<1>1. /\ Effects(I, A, g) /\ Effects(I, B, h)
      /\ \A o \in A : ~ Refers(o, op)
  BY LastStepIs DEF LastStep
<1>2. /\ KnowsPart(g, p) /\ KnowsPart(h, p)
      /\ k \notin DOMAIN g.part[p].ring
      /\ DOMAIN h.part[p].ring = DOMAIN g.part[p].ring \cup {k}
      /\ \A j \in DOMAIN g.part[p].ring : g.part[p].ring[j] = h.part[p].ring[j]
      /\ h.part[p].rings = Append(x, k)
      /\ h.part[p].ring[k].key = OpKey(StampOf(op))
  <2>1. OneMoreRing(g, h, p, k) /\ h.part[p].ring[k].key = OpKey(StampOf(op))
    BY AddRingStep
  <2>2. QED
    BY <2>1 DEF OneMoreRing
<1>3. Replaced(list, p, PartEntry(h, p)) = ListOf(h)
  <2>1. /\ DOMAIN g.part = DOMAIN h.part
        /\ \A q \in DOMAIN g.part : q # p => g.part[q] = h.part[q]
    BY OtherPartsStay
  <2>2. QED
    BY <1>1, <2>1, PartsReplaced
<1>4. RingEntry(h, p, k) = ring
  <2> DEFINE pk == h.part[p].key
             rk == h.part[p].ring[k].key
  <2>1. KnowsRing(h, p, k)
    BY <1>2 DEF KnowsRing
  <2>2. Unaddressed(B, p, k)
    BY <1>1 DEF Unaddressed, Refers, NeedsRing, VertexActions
  <2>3. RingEntry(h, p, k) = ListRing(k, FreshIDs(pk, rk))
    <3> HIDE DEF pk, rk, B
    <3>1. pk = h.part[p].key /\ rk = h.part[p].ring[k].key
      BY DEF pk, rk
    <3>2. QED
      BY <1>1, <2>1, <2>2, <3>1, FreshRingEntry
  <2>4. rk = OpKey(StampOf(op))
    BY <1>2
  <2> HIDE DEF pk, rk
  <2>5. FreshIDs(pk, rk) = [i \in 1 .. Hole |-> AddRingVertexID(op, i - 1)]
    BY <2>4, AddedVertexIDs
  <2>6. QED
    BY <2>3, <2>5
<1>5. ReflectsPart(g.part[p], A, p) /\ ReflectsPart(h.part[p], B, p)
  BY <1>1, <1>2, PartComesFrom DEF KnowsPart
<1>6. x \in Seq(DOMAIN g.part[p].ring)
  BY <1>5 DEF ReflectsPart, Listing
<1>7. n \in Nat /\ DOMAIN x = 1 .. n /\ \A i \in 1 .. n : x[i] \in DOMAIN g.part[p].ring
  BY <1>6, ElementsOf
<1>8. RingEntries(h, p) = Append(RingEntries(g, p), ring)
  <2> DEFINE e == RingEntries(g, p)
             f == RingEntries(h, p)
             y == h.part[p].rings
             D == DOMAIN g.part[p].ring
  <2>1. e = [r \in DOMAIN x |-> RingEntry(g, p, x[r])] /\ f = [r \in DOMAIN y |-> RingEntry(h, p, y[r])]
    BY DEF RingEntries
  <2>2. y = Append(x, k) /\ x \in Seq(D)
    BY <1>2, <1>6
  <2>3. \A j \in D : RingEntry(g, p, j) = RingEntry(h, p, j)
    BY <1>2 DEF RingEntry, SeqAt
  <2>4. \A i \in 1 .. n : x[i] \in D
    BY <1>7
  <2>5. IsFunction(e) /\ DOMAIN e = DOMAIN x /\ IsFunction(f) /\ DOMAIN f = DOMAIN y
    BY <2>1 DEF IsFunction
  <2> HIDE DEF e, f, x, y, D, n, ring
  <2>6. /\ DOMAIN y = 1 .. n + 1 /\ y[n + 1] = k /\ \A i \in 1 .. n : y[i] = x[i]
    <3>1. IsList(x)
      BY <2>2 DEF IsList
    <3>2. /\ IsList(y) /\ Len(y) = n + 1 /\ y[n + 1] = k
          /\ \A i \in 1 .. n : y[i] = x[i]
      BY <2>2, <3>1, ListAppended DEF n
    <3>3. QED
      BY <3>2, ListIs
  <2>7. \A i \in DOMAIN x : f[i] = e[i]
    <3> SUFFICES ASSUME NEW i \in 1 .. n PROVE f[i] = e[i]
      BY <1>7
    <3>1. i \in DOMAIN y /\ i \in DOMAIN x
      BY <1>7, <2>6
    <3>2. f[i] = RingEntry(h, p, x[i]) /\ e[i] = RingEntry(g, p, x[i])
      BY <2>1, <2>6, <3>1
    <3>3. QED
      BY <2>3, <2>4, <3>2
  <2>8. f[n + 1] = ring
    <3>1. n + 1 \in DOMAIN y
      BY <1>7, <2>6
    <3>2. QED
      BY <1>4, <2>1, <2>6, <3>1
  <2>9. f = Append(e, f[Len(x) + 1])
    BY <2>2, <2>5, <2>7, EntriesAppended
  <2>10. QED
    BY <2>8, <2>9 DEF n, e, f
<1>9. PartEntry(h, p) = PartWith(PartEntry(g, p), Append(RingEntries(g, p), ring))
  <2>1. g.part[p].deleted = h.part[p].deleted
    BY <1>5 DEF ReflectsPart
  <2> DEFINE e == PartEntry(g, p)
             q == RingEntries(h, p)
             d == g.part[p].deleted
  <2>2. e = [id |-> p, deleted |-> d, rings |-> RingEntries(g, p)]
    BY DEF PartEntry
  <2>3. PartEntry(h, p) = [id |-> p, deleted |-> d, rings |-> q]
    BY <2>1 DEF PartEntry
  <2> HIDE DEF e, q, d
  <2>4. PartWith(e, q) = [id |-> p, deleted |-> d, rings |-> q]
    BY <2>2 DEF PartWith
  <2>5. PartEntry(h, p) = PartWith(e, q)
    BY <2>3, <2>4
  <2>6. QED
    BY <1>8, <2>5 DEF e, q
<1>10. \A i \in DOMAIN list : list[i].id = p => list[i] = PartEntry(g, p)
  BY PartUnder
<1>11. PartEntry(g, p).rings = RingEntries(g, p)
  BY DEF PartEntry
<1> HIDE DEF list
<1>12. Perform(list, op) =
         [i \in DOMAIN list |-> IF list[i].id = op.part
            THEN PartWith(list[i], Append(list[i].rings, ring)) ELSE list[i]]
  BY Zenon DEF Perform, OnPart, Update, PartWith
<1> HIDE DEF ring
<1>13. \A i \in DOMAIN list : list[i].id = p =>
         PartWith(list[i], Append(list[i].rings, ring)) = PartEntry(h, p)
  BY <1>9, <1>10, <1>11
<1>14. Perform(list, op) = Replaced(list, p, PartEntry(h, p))
  BY <1>12, <1>13 DEF Replaced
<1>15. QED
  BY <1>3, <1>14 DEF list

-----------------------------------------------------------------------------
(***************************************************************************)
(* A part that nothing addresses yet is as it was added.                   *)
(***************************************************************************)
FreshEntry(p, pk) ==
  [id |-> p, deleted |-> FALSE,
   rings |-> [r \in DOMAIN Shape |-> ListRing(DerivedRingID(pk, InitialKey(r - 1)),
                                              FreshIDs(pk, InitialKey(r - 1)))]]

FreshRings(h, p, pk) ==
  LET ID(r) == DerivedRingID(pk, InitialKey(r - 1))
  IN  /\ h.part[p].rings = [r \in DOMAIN Shape |-> ID(r)]
      /\ \A r \in DOMAIN Shape :
           KnowsRing(h, p, ID(r)) /\ h.part[p].ring[ID(r)].key = InitialKey(r - 1)

LEMMA FreshRingsAre ==
  ASSUME NEW I, NEW B, NEW h, Effects(I, B, h), NEW p, KnowsPart(h, p),
         \A o \in B : o.action # "add_part" => o.part # p,
         NEW pk, pk = h.part[p].key, NEW part, IsFreshPart(part, pk)
  PROVE  FreshRings(h, p, pk)
<1> DEFINE ID(r) == DerivedRingID(pk, InitialKey(r - 1))
           f == h.part[p].ring
           e == part.ring
<1>1. ReflectsPart(h.part[p], B, p) /\ PartKey(pk)
  BY PartComesFrom DEF KnowsPart
<1>2. ReflectsPart(part, B, p)
  <2>1. p = DerivedPartID(pk)
        /\ (~ pk.initial => \E o \in B : o.action = "add_part" /\ pk = OpKey(StampOf(o)))
    BY <1>1 DEF ReflectsPart
  <2>2. QED
    BY <1>1, <2>1, FreshPartReflects
<1>3. /\ part.rings = [r \in DOMAIN Shape |-> ID(r)]
      /\ DOMAIN e = { ID(r) : r \in DOMAIN Shape }
      /\ \A r \in DOMAIN Shape : e[ID(r)].key = InitialKey(r - 1)
  <2>1. DOMAIN e = { ID(r) : r \in DOMAIN Shape }
    BY DEF IsFreshPart
  <2>2. part.rings = [r \in DOMAIN Shape |-> ID(r)]
    <3>1. part = [key |-> pk, deleted |-> FALSE, rings |-> [r \in DOMAIN Shape |-> ID(r)],
                  ring |-> part.ring]
      BY DEF IsFreshPart
    <3> DEFINE q == [r \in DOMAIN Shape |-> ID(r)]
    <3> HIDE DEF q
    <3>2. part.rings = q
      BY <3>1 DEF q
    <3>3. QED
      BY <3>2 DEF q
  <2>3. ASSUME NEW r \in DOMAIN Shape PROVE e[ID(r)].key = InitialKey(r - 1)
    <3>1. e[ID(r)] = NewRing(InitialKey(r - 1), PartType = "Polygon" /\ r = 1,
                             FreshIDs(pk, InitialKey(r - 1)))
      BY DEF IsFreshPart
    <3>2. QED
      BY <3>1 DEF NewRing
  <2>4. QED
    BY <2>1, <2>2, <2>3
<1>4. ASSUME NEW r \in DOMAIN Shape
      PROVE  KnowsRing(h, p, ID(r)) /\ f[ID(r)].key = InitialKey(r - 1)
  <2> DEFINE k == ID(r)
             key == InitialKey(r - 1)
  <2>1. RingFrom(B, p, k, h.part[p].key, key)
    BY DEF RingFrom
  <2> HIDE DEF k, key
  <2>2. KnowsRing(h, p, k) /\ h.part[p].ring[k].key = key
    BY <2>1, RingIsThere
  <2>3. QED
    BY <2>2 DEF k, key
<1>5. ASSUME NEW k \in DOMAIN f
      PROVE  \E r \in DOMAIN Shape : k = ID(r)
  <2>1. RingFrom(B, p, k, pk, f[k].key)
    BY RingComesFrom DEF KnowsRing
  <2>2. \A o \in B : ~ (o.action = "add_ring" /\ o.part = p)
    OBVIOUS
  <2>3. QED
    BY <2>1, <2>2 DEF RingFrom
<1>6. DOMAIN f = DOMAIN e
  BY <1>3, <1>4, <1>5 DEF KnowsRing
<1>7. \A k \in DOMAIN f : f[k].key = e[k].key
  BY <1>3, <1>4, <1>5
<1>8. Listing(h.part[p].rings, f) /\ Listing(part.rings, e)
  BY <1>1, <1>2 DEF ReflectsPart
<1>9. h.part[p].rings = part.rings
  <2> HIDE DEF f, e
  <2>1. QED
    BY <1>6, <1>7, <1>8, SameListing
<1>10. QED
  BY <1>3, <1>4, <1>9 DEF FreshRings

LEMMA FreshPartEntry ==
  ASSUME NEW I, NEW B, NEW h, Effects(I, B, h), NEW p, KnowsPart(h, p),
         \A o \in B : o.action # "add_part" => o.part # p,
         NEW pk, pk = h.part[p].key, NEW part, IsFreshPart(part, pk)
  PROVE  PartEntry(h, p) = FreshEntry(p, pk)
<1> DEFINE ID(r) == DerivedRingID(pk, InitialKey(r - 1))
           q == h.part[p].rings
<1>0. FreshRings(h, p, pk)
  BY FreshRingsAre
<1>1. q = [r \in DOMAIN Shape |-> ID(r)]
  BY <1>0 DEF FreshRings
<1>2. \A r \in DOMAIN Shape : KnowsRing(h, p, ID(r)) /\ h.part[p].ring[ID(r)].key = InitialKey(r - 1)
  BY <1>0 DEF FreshRings
<1>3. ASSUME NEW r \in DOMAIN Shape
      PROVE  RingEntry(h, p, ID(r)) = ListRing(ID(r), FreshIDs(pk, InitialKey(r - 1)))
  <2> DEFINE k == ID(r)
             rk == InitialKey(r - 1)
  <2>1. KnowsRing(h, p, k) /\ h.part[p].ring[k].key = rk
    BY <1>2
  <2>2. Unaddressed(B, p, k)
    BY DEF Unaddressed, NeedsRing, VertexActions
  <2> HIDE DEF k, rk
  <2>3. RingEntry(h, p, k) = ListRing(k, FreshIDs(pk, rk))
    BY <2>1, <2>2, FreshRingEntry
  <2>4. QED
    BY <2>3 DEF k, rk
<1> DEFINE rings == [r \in DOMAIN Shape |-> ListRing(ID(r), FreshIDs(pk, InitialKey(r - 1)))]
<1>4. RingEntries(h, p) = rings
  <2>1. RingEntries(h, p) = [r \in DOMAIN q |-> RingEntry(h, p, q[r])]
    BY DEF RingEntries
  <2>2. DOMAIN q = DOMAIN Shape /\ \A r \in DOMAIN Shape : q[r] = ID(r)
    BY <1>1
  <2> HIDE DEF q
  <2>3. RingEntries(h, p) = [r \in DOMAIN Shape |-> RingEntry(h, p, ID(r))]
    BY <2>1, <2>2
  <2>4. QED
    BY <1>3, <2>3
<1>5. h.part[p].deleted = FALSE
  <2>1. ReflectsPart(h.part[p], B, p)
    BY PartComesFrom DEF KnowsPart
  <2>2. QED
    BY <2>1 DEF ReflectsPart
<1> HIDE DEF rings
<1>6. PartEntry(h, p) = [id |-> p, deleted |-> FALSE, rings |-> rings]
  BY <1>4, <1>5, Zenon DEF PartEntry
<1>7. QED
  BY <1>6 DEF FreshEntry, rings

(* The two kinds of part there are, as the lists show them.                *)
LEMMA BaseListIs == BaseList = << FreshEntry(InitialPartID(0), InitialKey(0)) >>
<1> DEFINE pk == InitialKey(0)
<1>1. \A n : DerivedRingID(pk, InitialKey(n)) = InitialRingID(0, n)
  BY InitialKeyIs DEF DerivedRingID
<1>2. \A n, i : DerivedVertexID(pk, InitialKey(n), InitialKey(i)) = InitialVertexID(n, i)
  BY InitialKeyIs DEF DerivedVertexID
<1> HIDE DEF pk
<1>3. ASSUME NEW r \in DOMAIN Shape
      PROVE  FreshIDs(pk, InitialKey(r - 1)) = [i \in 1 .. Shape[r] |-> InitialVertexID(r - 1, i - 1)]
  <2>1. FreshIDs(pk, InitialKey(r - 1)) =
         [i \in 1 .. Shape[r] |-> DerivedVertexID(pk, InitialKey(r - 1), InitialKey(i - 1))]
    BY SizeOfInitial
  <2>2. QED
    BY <1>2, <2>1
<1>4. [r \in DOMAIN Shape |-> ListRing(DerivedRingID(pk, InitialKey(r - 1)),
                                       FreshIDs(pk, InitialKey(r - 1)))]
      = [r \in DOMAIN Shape |-> ListRing(InitialRingID(0, r - 1),
                                         [i \in 1 .. Shape[r] |-> InitialVertexID(r - 1, i - 1)])]
  BY <1>1, <1>3
<1>5. FreshEntry(InitialPartID(0), pk) =
        ListPart(InitialPartID(0), LAMBDA r : InitialRingID(0, r), InitialVertexID)
  BY <1>4, Zenon DEF FreshEntry, ListPart
<1>6. QED
  BY <1>5, Zenon DEF BaseList, pk

AddedPartEntry(op) ==
  ListPart(AddedPartID(op), LAMBDA r : AddPartRingID(op, r), LAMBDA r, i : AddPartVertexID(op, r, i))

LEMMA AddedPartEntryIs ==
  ASSUME NEW op, NEW pk, pk = OpKey(StampOf(op))
  PROVE  AddedPartEntry(op) = FreshEntry(AddedPartID(op), pk)
<1>0. pk.initial = FALSE /\ pk.stamp = StampOf(op)
  BY OpKeyIs
<1>1. \A n : DerivedRingID(pk, InitialKey(n)) = AddPartRingID(op, n)
  BY <1>0, InitialKeyIs, StampIs DEF DerivedRingID, AddPartRingID
<1>2. \A n, i : DerivedVertexID(pk, InitialKey(n), InitialKey(i)) = AddPartVertexID(op, n, i)
  BY <1>0, InitialKeyIs, StampIs DEF DerivedVertexID, AddPartVertexID
<1>3. ASSUME NEW r \in DOMAIN Shape
      PROVE  FreshIDs(pk, InitialKey(r - 1)) = [i \in 1 .. Shape[r] |-> AddPartVertexID(op, r - 1, i - 1)]
  <2>1. FreshIDs(pk, InitialKey(r - 1)) =
         [i \in 1 .. Shape[r] |-> DerivedVertexID(pk, InitialKey(r - 1), InitialKey(i - 1))]
    BY SizeOfInitial
  <2>2. QED
    BY <1>2, <2>1
<1>4. [r \in DOMAIN Shape |-> ListRing(DerivedRingID(pk, InitialKey(r - 1)),
                                       FreshIDs(pk, InitialKey(r - 1)))]
      = [r \in DOMAIN Shape |-> ListRing(AddPartRingID(op, r - 1),
                                         [i \in 1 .. Shape[r] |-> AddPartVertexID(op, r - 1, i - 1)])]
  BY <1>1, <1>3
<1>5. QED
  BY <1>4, Zenon DEF FreshEntry, ListPart, AddedPartEntry

OneMorePart(g, h, p) ==
  /\ p \notin DOMAIN g.part /\ DOMAIN h.part = DOMAIN g.part \cup {p}
  /\ \A q \in DOMAIN g.part : g.part[q] = h.part[q]
  /\ h.parts = Append(g.parts, p)

LEMMA AddPartStep ==
  ASSUME NEW I, NEW A, NEW op, NEW g, NEW h, LastStep(I, A, op, g, h),
         op.action = "add_part", NEW p, p = AddedPartID(op)
  PROVE  OneMorePart(g, h, p) /\ h.part[p].key = OpKey(StampOf(op))
<1> DEFINE B == A \cup {op}
           key == OpKey(StampOf(op))
           f == g.part
           e == h.part
<1>1. /\ Effects(I, A, g) /\ Effects(I, B, h) /\ Grows(g, h) /\ Exchange(I) /\ IsOp(op)
      /\ A \subseteq I /\ op \in I /\ \A o \in A : IsOp(o) /\ o # op /\ Newer(op, o)
  BY LastStepIs DEF LastStep, Effects
<1>2. KnowsPart(h, p) /\ h.part[p].key = key
  <2>1. \E o \in B : o.action = "add_part" /\ p = AddedPartID(o) /\ key = OpKey(StampOf(o))
    OBVIOUS
  <2> HIDE DEF key, B
  <2>2. PartFrom(B, p, key)
    BY <2>1 DEF PartFrom
  <2>3. QED
    BY <1>1, <2>2, PartIsThere
<1>3. ASSUME NEW q \in DOMAIN f
      PROVE  /\ q # p
             /\ (\E i : f[q].key = InitialKey(i)) \/ \E o \in A : f[q].key = OpKey(StampOf(o))
  <2>1. PartFrom(A, q, f[q].key)
    BY <1>1, PartComesFrom
  <2>2. CASE q = InitialPartID(0) /\ f[q].key = InitialKey(0)
    BY <2>2, PartIDs
  <2>3. CASE \E o \in A : q = AddedPartID(o) /\ f[q].key = OpKey(StampOf(o))
    <3>1. PICK o \in A : q = AddedPartID(o) /\ f[q].key = OpKey(StampOf(o))
      BY <2>3
    <3>2. RefOf(o) # RefOf(op)
      BY <1>1, InsertedOnce
    <3>3. q # p
      BY <3>1, <3>2, PartIDs
    <3>4. QED
      BY <3>1, <3>3
  <2>4. QED
    BY <2>1, <2>2, <2>3 DEF PartFrom
<1>4. DOMAIN e = DOMAIN f \cup {p}
  <2>1. \A q : KnowsPart(h, q) => KnowsPart(g, q) \/ q = p
    BY <1>1, OnlyItsOwn
  <2>2. QED
    BY <1>1, <1>2, <2>1 DEF KnowsPart, Grows
<1>5. \A q \in DOMAIN f : f[q] = e[q]
  <2> SUFFICES ASSUME NEW q \in DOMAIN f PROVE f[q] = e[q]
    OBVIOUS
  <2>1. KnowsPart(g, q) /\ KnowsPart(h, q)
    BY <1>4 DEF KnowsPart
  <2>2. SameOnPart(A, B, q)
    BY DEF SameOnPart
  <2>3. QED
    BY <1>1, <2>1, <2>2, SamePart
<1>6. Listing(g.parts, f) /\ Listing(h.parts, e)
  BY <1>1 DEF Effects, Reflects
<1>7. \A q \in DOMAIN f : SetKeyBefore(e[q].key, e[p].key)
  <2> SUFFICES ASSUME NEW q \in DOMAIN f PROVE SetKeyBefore(e[q].key, e[p].key)
    OBVIOUS
  <2>1. SetKeyBefore(f[q].key, OpKey(StampOf(op)))
    BY <1>1, <1>3, NewestKeyIsLast
  <2>2. QED
    BY <1>2, <1>5, <2>1
<1>8. h.parts = Append(g.parts, p)
  <2> DEFINE q == g.parts
             r == h.parts
  <2>1. Listing(q, f) /\ Listing(r, e)
    BY <1>6
  <2>2. p \notin DOMAIN f /\ \A j \in DOMAIN f : f[j].key = e[j].key
    BY <1>3, <1>5
  <2> HIDE DEF q, r, f, e
  <2>3. r = Append(q, p)
    BY <1>4, <1>7, <2>1, <2>2, ListedLast
  <2>4. QED
    BY <2>3 DEF q, r
<1>9. QED
  BY <1>2, <1>3, <1>4, <1>5, <1>8 DEF OneMorePart

LEMMA PerformAddPart ==
  ASSUME NEW I, NEW A, NEW op, NEW g, NEW h, LastStep(I, A, op, g, h),
         op.action = "add_part", NEW p, p = AddedPartID(op)
  PROVE  Perform(ListOf(g), op) = ListOf(h)
<1> DEFINE B == A \cup {op}
           new == AddedPartEntry(op)
           x == g.parts
           y == h.parts
           n == Len(x)
           D == DOMAIN g.part
<1>1. Effects(I, A, g) /\ Effects(I, B, h) /\ \A o \in A : ~ Refers(o, op)
  BY LastStepIs DEF LastStep
<1>2. /\ p \notin D /\ DOMAIN h.part = D \cup {p}
      /\ \A q \in D : g.part[q] = h.part[q]
      /\ y = Append(x, p) /\ h.part[p].key = OpKey(StampOf(op))
  <2>1. OneMorePart(g, h, p) /\ h.part[p].key = OpKey(StampOf(op))
    BY AddPartStep
  <2>2. QED
    BY <2>1 DEF OneMorePart
<1>3. PartEntry(h, p) = new
  <2> DEFINE pk == h.part[p].key
  <2>1. KnowsPart(h, p)
    BY <1>2 DEF KnowsPart
  <2>2. \A o \in B : o.action # "add_part" => o.part # p
    BY <1>1 DEF Refers
  <2>3. pk = OpKey(StampOf(op))
    BY <1>2
  <2>4. PICK part : IsFreshPart(part, OpKey(StampOf(op)))
    BY AddedPartIsFresh
  <2> HIDE DEF pk, B
  <2>5. pk = h.part[p].key /\ IsFreshPart(part, pk)
    BY <2>3, <2>4 DEF pk
  <2>6. PartEntry(h, p) = FreshEntry(p, pk)
    BY <1>1, <2>1, <2>2, <2>5, FreshPartEntry
  <2>7. new = FreshEntry(p, pk)
    BY <2>3, AddedPartEntryIs
  <2>8. QED
    BY <2>6, <2>7
<1>4. x \in Seq(D)
  BY <1>1 DEF Effects, Reflects, Listing
<1>5. n \in Nat /\ DOMAIN x = 1 .. n /\ \A i \in 1 .. n : x[i] \in D
  BY <1>4, ElementsOf
<1>6. ListOf(h) = Append(ListOf(g), new)
  <2> DEFINE e == ListOf(g)
             f == ListOf(h)
  <2>1. e = [i \in DOMAIN x |-> PartEntry(g, x[i])] /\ f = [i \in DOMAIN y |-> PartEntry(h, y[i])]
    BY ListOfIs
  <2>2. y = Append(x, p) /\ x \in Seq(D)
    BY <1>2, <1>4
  <2>3. \A q \in D : PartEntry(g, q) = PartEntry(h, q)
    BY <1>2 DEF PartEntry, RingEntries, RingEntry, SeqAt
  <2>4. \A i \in 1 .. n : x[i] \in D
    BY <1>5
  <2> HIDE DEF e, f, x, y, D, n, new
  <2>5. IsFunction(e) /\ DOMAIN e = DOMAIN x /\ IsFunction(f) /\ DOMAIN f = DOMAIN y
    BY <2>1 DEF IsFunction
  <2>6. /\ DOMAIN y = 1 .. n + 1 /\ y[n + 1] = p /\ \A i \in 1 .. n : y[i] = x[i]
    <3>1. IsList(x)
      BY <2>2 DEF IsList
    <3>2. /\ IsList(y) /\ Len(y) = n + 1 /\ y[n + 1] = p
          /\ \A i \in 1 .. n : y[i] = x[i]
      BY <2>2, <3>1, ListAppended DEF n
    <3>3. QED
      BY <3>2, ListIs
  <2>7. \A i \in DOMAIN x : f[i] = e[i]
    <3> SUFFICES ASSUME NEW i \in 1 .. n PROVE f[i] = e[i]
      BY <1>5
    <3>1. i \in DOMAIN y /\ i \in DOMAIN x
      BY <1>5, <2>6
    <3>2. f[i] = PartEntry(h, x[i]) /\ e[i] = PartEntry(g, x[i])
      BY <2>1, <2>6, <3>1
    <3>3. QED
      BY <2>3, <2>4, <3>2
  <2>8. f[n + 1] = new
    <3>1. n + 1 \in DOMAIN y
      BY <1>5, <2>6
    <3>2. QED
      BY <1>3, <2>1, <2>6, <3>1
  <2>9. f = Append(e, f[Len(x) + 1])
    BY <2>2, <2>5, <2>7, EntriesAppended
  <2>10. QED
    BY <2>8, <2>9 DEF n, e, f
<1> DEFINE list == ListOf(g)
<1> HIDE DEF list
<1>7. Perform(list, op) = Append(list, new)
  BY Zenon DEF Perform, AddedPartEntry
<1>8. QED
  BY <1>6, <1>7 DEF list

(* The newest operation, carried out on the list, gives the list of what   *)
(* the engine makes of it.                                                 *)
LEMMA PerformIsStep ==
  ASSUME NEW I, NEW A, NEW op, NEW g, NEW h, LastStep(I, A, op, g, h)
  PROVE  Perform(ListOf(g), op) = ListOf(h)
<1>1. op.action \in AllActions
  BY LastStepIs DEF IsOp
<1>2. CASE op.action = "insert_vertex"
  BY <1>2, PerformInsert
<1>3. CASE op.action = "move_vertex"
  BY <1>3, PerformMove
<1>4. CASE op.action = "delete_vertex"
  BY <1>4, PerformDelete
<1>5. CASE op.action = "add_ring"
  BY <1>5, PerformAddRing
<1>6. CASE op.action = "remove_ring"
  BY <1>6, PerformRemoveRing
<1>7. CASE op.action = "add_part"
  BY <1>7, PerformAddPart
<1>8. CASE op.action = "remove_part"
  BY <1>8, PerformRemovePart
<1>9. QED
  BY <1>1, <1>2, <1>3, <1>4, <1>5, <1>6, <1>7, <1>8 DEF AllActions, VertexActions

-----------------------------------------------------------------------------
(***************************************************************************)
(* An operation whose target is missing changes nothing.                   *)
(***************************************************************************)
ChangedVertices(op, vertices) ==
  CASE op.action = "insert_vertex" -> InsertBehind(vertices, op)
    [] op.action = "move_vertex" ->
         Update(vertices, op.vertex, LAMBDA vertex : [vertex EXCEPT !.coord = MovedTo(op)])
    [] op.action = "delete_vertex" -> Update(vertices, op.vertex, Tombstoned)

ChangedRing(op, ring) ==
  IF op.action = "remove_ring" THEN Tombstoned(ring)
                               ELSE RingWith(ring, ChangedVertices(op, ring.vertices))

ChangedRings(op, rings) ==
  [r \in DOMAIN rings |-> IF rings[r].id = op.ring THEN ChangedRing(op, rings[r]) ELSE rings[r]]

ChangedParts(op, list) ==
  [i \in DOMAIN list |-> IF list[i].id = op.part THEN PartWith(list[i], ChangedRings(op, list[i].rings))
                                                 ELSE list[i]]

LEMMA PerformOnRing ==
  ASSUME NEW op, NeedsRing(op), NEW list
  PROVE  Perform(list, op) = ChangedParts(op, list)
<1>1. CASE op.action = "insert_vertex"
  <2>1. Perform(list, op) =
          [i \in DOMAIN list |-> IF list[i].id = op.part
             THEN PartWith(list[i],
                    [r \in DOMAIN list[i].rings |-> IF list[i].rings[r].id = op.ring
                       THEN RingWith(list[i].rings[r], InsertBehind(list[i].rings[r].vertices, op))
                       ELSE list[i].rings[r]])
             ELSE list[i]]
    BY <1>1 DEF Perform, OnRing, OnPart, Update, PartWith, RingWith
  <2>2. \A ring : ChangedRing(op, ring) = RingWith(ring, InsertBehind(ring.vertices, op))
    BY <1>1 DEF ChangedRing, ChangedVertices
  <2>3. \A rings : ChangedRings(op, rings) =
          [r \in DOMAIN rings |-> IF rings[r].id = op.ring
             THEN RingWith(rings[r], InsertBehind(rings[r].vertices, op)) ELSE rings[r]]
    BY <2>2 DEF ChangedRings
  <2>4. ChangedParts(op, list) =
          [i \in DOMAIN list |-> IF list[i].id = op.part
             THEN PartWith(list[i],
                    [r \in DOMAIN list[i].rings |-> IF list[i].rings[r].id = op.ring
                       THEN RingWith(list[i].rings[r], InsertBehind(list[i].rings[r].vertices, op))
                       ELSE list[i].rings[r]])
             ELSE list[i]]
    BY <2>3 DEF ChangedParts
  <2>5. QED
    BY <2>1, <2>4
<1>2. CASE op.action = "move_vertex"
  <2> DEFINE Moved(q) == Update(q, op.vertex, LAMBDA vertex : [vertex EXCEPT !.coord = MovedTo(op)])
  <2>1. Perform(list, op) =
          [i \in DOMAIN list |-> IF list[i].id = op.part
             THEN PartWith(list[i],
                    [r \in DOMAIN list[i].rings |-> IF list[i].rings[r].id = op.ring
                       THEN RingWith(list[i].rings[r], Moved(list[i].rings[r].vertices))
                       ELSE list[i].rings[r]])
             ELSE list[i]]
    <3>1. Perform(list, op) = OnVertex(list, op, LAMBDA vertex : [vertex EXCEPT !.coord = MovedTo(op)])
      BY <1>2 DEF Perform
    <3>2. QED
      BY <3>1 DEF OnVertex, OnRing, OnPart, Update, PartWith, RingWith
  <2>2. \A ring : ChangedRing(op, ring) = RingWith(ring, Moved(ring.vertices))
    BY <1>2 DEF ChangedRing, ChangedVertices
  <2> HIDE DEF Moved
  <2>3. \A rings : ChangedRings(op, rings) =
          [r \in DOMAIN rings |-> IF rings[r].id = op.ring
             THEN RingWith(rings[r], Moved(rings[r].vertices)) ELSE rings[r]]
    BY <2>2 DEF ChangedRings
  <2>4. ChangedParts(op, list) =
          [i \in DOMAIN list |-> IF list[i].id = op.part
             THEN PartWith(list[i],
                    [r \in DOMAIN list[i].rings |-> IF list[i].rings[r].id = op.ring
                       THEN RingWith(list[i].rings[r], Moved(list[i].rings[r].vertices))
                       ELSE list[i].rings[r]])
             ELSE list[i]]
    BY <2>3 DEF ChangedParts
  <2>5. QED
    BY <2>1, <2>4
<1>3. CASE op.action = "delete_vertex"
  <2> DEFINE Gone(q) == Update(q, op.vertex, Tombstoned)
  <2>1. Perform(list, op) =
          [i \in DOMAIN list |-> IF list[i].id = op.part
             THEN PartWith(list[i],
                    [r \in DOMAIN list[i].rings |-> IF list[i].rings[r].id = op.ring
                       THEN RingWith(list[i].rings[r], Gone(list[i].rings[r].vertices))
                       ELSE list[i].rings[r]])
             ELSE list[i]]
    <3>1. Perform(list, op) = OnVertex(list, op, Tombstoned)
      BY <1>3 DEF Perform
    <3>2. QED
      BY <3>1 DEF OnVertex, OnRing, OnPart, Update, PartWith, RingWith
  <2>2. \A ring : ChangedRing(op, ring) = RingWith(ring, Gone(ring.vertices))
    BY <1>3 DEF ChangedRing, ChangedVertices
  <2> HIDE DEF Gone
  <2>3. \A rings : ChangedRings(op, rings) =
          [r \in DOMAIN rings |-> IF rings[r].id = op.ring
             THEN RingWith(rings[r], Gone(rings[r].vertices)) ELSE rings[r]]
    BY <2>2 DEF ChangedRings
  <2>4. ChangedParts(op, list) =
          [i \in DOMAIN list |-> IF list[i].id = op.part
             THEN PartWith(list[i],
                    [r \in DOMAIN list[i].rings |-> IF list[i].rings[r].id = op.ring
                       THEN RingWith(list[i].rings[r], Gone(list[i].rings[r].vertices))
                       ELSE list[i].rings[r]])
             ELSE list[i]]
    BY <2>3 DEF ChangedParts
  <2>5. QED
    BY <2>1, <2>4
<1>4. CASE op.action = "remove_ring"
  <2>1. \A ring : ChangedRing(op, ring) = Tombstoned(ring)
    BY <1>4 DEF ChangedRing
  <2>2. Perform(list, op) = OnRing(list, op, Tombstoned)
    BY <1>4 DEF Perform
  <2>3. QED
    BY <2>1, <2>2 DEF OnRing, OnPart, Update, PartWith, ChangedParts, ChangedRings
<1>5. QED
  BY <1>1, <1>2, <1>3, <1>4 DEF NeedsRing, VertexActions

LEMMA EntriesAreKnown ==
  ASSUME NEW I, NEW A, NEW g, Effects(I, A, g)
  PROVE  /\ IsFunction(ListOf(g))
         /\ \A i \in DOMAIN ListOf(g) : KnowsPart(g, ListOf(g)[i].id)
         /\ \A p : KnowsPart(g, p) =>
              /\ IsFunction(RingEntries(g, p))
              /\ \A r \in DOMAIN RingEntries(g, p) : KnowsRing(g, p, RingEntries(g, p)[r].id)
         /\ \A p, k : KnowsRing(g, p, k) =>
              LET q == VertexEntries(SeqAt(g, p, k))
              IN  /\ IsFunction(q)
                  /\ \A i \in DOMAIN q : KnowsVertex(g, p, k, q[i].id)
<1>1. IsFunction(ListOf(g)) /\ \A i \in DOMAIN ListOf(g) : KnowsPart(g, ListOf(g)[i].id)
  <2>1. ListOf(g) = [i \in DOMAIN g.parts |-> PartEntry(g, g.parts[i])]
    BY ListOfIs
  <2>2. \A i \in DOMAIN g.parts : g.parts[i] \in DOMAIN g.part
    <3>1. Listing(g.parts, g.part)
      BY DEF Effects, Reflects
    <3>2. QED
      BY <3>1, ElementsOf DEF Listing
  <2>3. \A p : PartEntry(g, p).id = p
    BY DEF PartEntry
  <2>4. QED
    BY <2>1, <2>2, <2>3 DEF IsFunction, KnowsPart
<1>2. ASSUME NEW p, KnowsPart(g, p)
      PROVE  /\ IsFunction(RingEntries(g, p))
             /\ \A r \in DOMAIN RingEntries(g, p) : KnowsRing(g, p, RingEntries(g, p)[r].id)
  <2> DEFINE q == g.part[p].rings
  <2>1. RingEntries(g, p) = [r \in DOMAIN q |-> RingEntry(g, p, q[r])]
    BY DEF RingEntries
  <2>2. \A r \in DOMAIN q : q[r] \in DOMAIN g.part[p].ring
    <3>1. Listing(q, g.part[p].ring)
      BY <1>2, PartComesFrom DEF ReflectsPart, KnowsPart
    <3>2. QED
      BY <3>1, ElementsOf DEF Listing
  <2>3. \A k : RingEntry(g, p, k).id = k
    BY DEF RingEntry
  <2> HIDE DEF q
  <2>4. QED
    BY <1>2, <2>1, <2>2, <2>3 DEF IsFunction, KnowsRing
<1>3. ASSUME NEW p, NEW k, KnowsRing(g, p, k), NEW q, q = VertexEntries(SeqAt(g, p, k))
      PROVE  IsFunction(q) /\ \A i \in DOMAIN q : KnowsVertex(g, p, k, q[i].id)
  <2> DEFINE s == SeqAt(g, p, k)
             w == Walk(s)
  <2>1. q = [i \in DOMAIN w |-> VertexEntry(s, w[i])]
    BY <1>3 DEF VertexEntries
  <2>2. \A i \in DOMAIN w : w[i] \in DOMAIN s.vertex
    <3>1. Tree(s)
      BY <1>3, RingComesFrom DEF ReflectsRing, ReflectsSeq, SeqAt
    <3>2. Walk(s) \in Seq(DOMAIN s.vertex)
      BY <3>1, TreeWalk
    <3>3. QED
      BY <3>2, ElementsOf
  <2>3. \A v : VertexEntry(s, v).id = v
    BY DEF VertexEntry
  <2>4. \A v \in DOMAIN s.vertex : KnowsVertex(g, p, k, v)
    BY <1>3 DEF KnowsVertex, Has, SeqAt
  <2> HIDE DEF w, s
  <2>5. QED
    BY <2>1, <2>2, <2>3, <2>4 DEF IsFunction
<1>4. QED
  BY <1>1, <1>2, <1>3

LEMMA RewrittenRing ==
  ASSUME NEW op, NEW rings, IsFunction(rings),
         \A r \in DOMAIN rings : rings[r].id = op.ring => ChangedRing(op, rings[r]) = rings[r]
  PROVE  ChangedRings(op, rings) = rings
<1>1. ChangedRings(op, rings) = [r \in DOMAIN rings |-> rings[r]]
  BY DEF ChangedRings
<1>2. QED
  BY <1>1 DEF IsFunction

LEMMA RewrittenPart ==
  ASSUME NEW op, NEW g, IsFunction(ListOf(g)),
         \A i \in DOMAIN ListOf(g) : ListOf(g)[i].id = op.part =>
           ChangedRings(op, RingEntries(g, op.part)) = RingEntries(g, op.part)
  PROVE  ChangedParts(op, ListOf(g)) = ListOf(g)
<1> DEFINE list == ListOf(g)
           p == op.part
<1>1. ASSUME NEW i \in DOMAIN list, list[i].id = p
      PROVE  PartWith(list[i], ChangedRings(op, list[i].rings)) = list[i]
  <2>1. list[i] = PartEntry(g, p) /\ list[i].rings = RingEntries(g, p)
    BY <1>1, PartUnder, RingsUnder
  <2>2. ChangedRings(op, list[i].rings) = list[i].rings
    BY <1>1, <2>1
  <2> DEFINE q == RingEntries(g, p)
             d == g.part[p].deleted
             x == list[i]
  <2>3. x = [id |-> p, deleted |-> d, rings |-> q]
    BY <2>1 DEF PartEntry
  <2>4. ChangedRings(op, x.rings) = q
    BY <2>1, <2>2
  <2> HIDE DEF q, d, x
  <2>5. PartWith(x, q) = x
    BY <2>3 DEF PartWith
  <2>6. QED
    BY <2>4, <2>5 DEF x
<1>2. ChangedParts(op, list) = [i \in DOMAIN list |-> list[i]]
  BY <1>1 DEF ChangedParts
<1>3. QED
  BY <1>2 DEF IsFunction

LEMMA PartMissing ==
  ASSUME NEW I, NEW A, NEW g, Effects(I, A, g), NEW op, op.action # "add_part",
         op.action \in AllActions, ~ KnowsPart(g, op.part)
  PROVE  Perform(ListOf(g), op) = ListOf(g)
<1> DEFINE list == ListOf(g)
<1>1. IsFunction(list) /\ \A i \in DOMAIN list : list[i].id # op.part
  BY EntriesAreKnown
<1> HIDE DEF list
<1>2. list = [i \in DOMAIN list |-> list[i]]
  BY <1>1 DEF IsFunction
<1>3. CASE op.action = "add_ring"
  <2> DEFINE F(part) == [part EXCEPT !.rings =
              Append(@, ListRing(AddedRingID(op), [i \in 1 .. Hole |-> AddRingVertexID(op, i - 1)]))]
  <2>1. Perform(list, op) = OnPart(list, op, F)
    BY <1>3 DEF Perform
  <2> HIDE DEF F
  <2>2. Perform(list, op) = [i \in DOMAIN list |-> IF list[i].id = op.part THEN F(list[i]) ELSE list[i]]
    BY <2>1 DEF OnPart, Update
  <2>3. QED
    BY <1>1, <1>2, <2>2 DEF list
<1>4. CASE op.action = "remove_part"
  <2>1. Perform(list, op) = OnPart(list, op, Tombstoned)
    BY <1>4 DEF Perform
  <2>2. Perform(list, op) = [i \in DOMAIN list |-> IF list[i].id = op.part THEN Tombstoned(list[i]) ELSE list[i]]
    BY <2>1 DEF OnPart, Update
  <2>3. QED
    BY <1>1, <1>2, <2>2 DEF list
<1>5. CASE op.action \notin {"add_ring", "remove_part"}
  <2>1. NeedsRing(op)
    BY <1>5 DEF NeedsRing, VertexActions, AllActions
  <2>2. Perform(list, op) = ChangedParts(op, list)
    BY <2>1, PerformOnRing
  <2>3. ChangedParts(op, list) = list
    BY <1>1, RewrittenPart DEF list
  <2>4. QED
    BY <2>2, <2>3 DEF list
<1>6. QED
  BY <1>3, <1>4, <1>5

LEMMA RingMissing ==
  ASSUME NEW I, NEW A, NEW g, Effects(I, A, g), NEW op, NeedsRing(op),
         ~ KnowsRing(g, op.part, op.ring)
  PROVE  Perform(ListOf(g), op) = ListOf(g)
<1> DEFINE list == ListOf(g)
           p == op.part
<1>1. IsFunction(list) /\ \A i \in DOMAIN list : KnowsPart(g, list[i].id)
  BY EntriesAreKnown
<1>2. ASSUME NEW i \in DOMAIN list, list[i].id = p
      PROVE  ChangedRings(op, RingEntries(g, p)) = RingEntries(g, p)
  <2>1. KnowsPart(g, p)
    BY <1>1, <1>2
  <2>2. /\ IsFunction(RingEntries(g, p))
        /\ \A r \in DOMAIN RingEntries(g, p) : RingEntries(g, p)[r].id # op.ring
    BY <2>1, EntriesAreKnown
  <2>3. QED
    BY <2>2, RewrittenRing
<1>3. ChangedParts(op, ListOf(g)) = ListOf(g)
  BY <1>1, <1>2, RewrittenPart
<1>4. QED
  BY <1>3, PerformOnRing

LEMMA VertexMissing ==
  ASSUME NEW I, NEW A, NEW g, Effects(I, A, g), NEW op, op.action \in VertexActions,
         op.action = "insert_vertex" => op.vertex # Root,
         NEW p, p = op.part, NEW k, k = op.ring,
         KnowsRing(g, p, k), ~ KnowsVertex(g, p, k, op.vertex)
  PROVE  Perform(ListOf(g), op) = ListOf(g)
<1> DEFINE list == ListOf(g)
           E == VertexEntries(SeqAt(g, p, k))
           rings == RingEntries(g, p)
<1>1. IsFunction(E) /\ \A i \in DOMAIN E : E[i].id # op.vertex
  BY EntriesAreKnown
<1> HIDE DEF E
<1>2. E = [i \in DOMAIN E |-> E[i]]
  BY <1>1 DEF IsFunction
<1>3. ChangedVertices(op, E) = E
  <2>1. CASE op.action = "insert_vertex"
    <3>1. { i \in DOMAIN E : E[i].id = op.vertex } = {}
      BY <1>1
    <3>2. InsertBehind(E, op) = E
      BY <2>1, <3>1 DEF InsertBehind
    <3>3. QED
      BY <2>1, <3>2 DEF ChangedVertices
  <2>2. CASE op.action = "move_vertex"
    <3> DEFINE F(vertex) == [vertex EXCEPT !.coord = MovedTo(op)]
    <3>1. ChangedVertices(op, E) = Update(E, op.vertex, F)
      BY <2>2 DEF ChangedVertices
    <3> HIDE DEF F
    <3>2. ChangedVertices(op, E) = [i \in DOMAIN E |-> IF E[i].id = op.vertex THEN F(E[i]) ELSE E[i]]
      BY <3>1 DEF Update
    <3>3. QED
      BY <1>1, <1>2, <3>2
  <2>3. CASE op.action = "delete_vertex"
    <3>1. ChangedVertices(op, E) = Update(E, op.vertex, Tombstoned)
      BY <2>3 DEF ChangedVertices
    <3>2. ChangedVertices(op, E) = [i \in DOMAIN E |-> IF E[i].id = op.vertex THEN Tombstoned(E[i]) ELSE E[i]]
      BY <3>1 DEF Update
    <3>3. QED
      BY <1>1, <1>2, <3>2
  <2>4. QED
    BY <2>1, <2>2, <2>3 DEF VertexActions
<1>4. IsFunction(list) /\ IsFunction(rings)
  BY EntriesAreKnown DEF KnowsRing
<1>5. ASSUME NEW r \in DOMAIN rings, rings[r].id = k
      PROVE  ChangedRing(op, rings[r]) = rings[r]
  <2> DEFINE x == rings[r]
             d == g.part[p].ring[k].deleted
  <2>1. x = RingEntry(g, p, k)
    BY <1>5, RingUnder
  <2>2. x = [id |-> k, deleted |-> d, vertices |-> E]
    BY <2>1 DEF RingEntry, E
  <2> HIDE DEF x, d
  <2>3. ChangedRing(op, x) = RingWith(x, ChangedVertices(op, x.vertices))
    BY DEF ChangedRing, VertexActions
  <2>4. x.vertices = E
    BY <2>2
  <2>5. RingWith(x, E) = x
    BY <2>2 DEF RingWith
  <2>6. QED
    BY <1>3, <2>3, <2>4, <2>5 DEF x
<1>6. ChangedRings(op, rings) = rings
  BY <1>4, <1>5, RewrittenRing
<1>7. ChangedParts(op, ListOf(g)) = ListOf(g)
  BY <1>4, <1>6, RewrittenPart
<1>8. QED
  <2>1. NeedsRing(op)
    BY DEF NeedsRing
  <2>2. QED
    BY <1>7, <2>1, PerformOnRing

LEMMA NothingToDo ==
  ASSUME NEW I, NEW A, NEW g, Effects(I, A, g), NEW op, IsOp(op), Admits(op), ~ Ready(g, op)
  PROVE  Perform(ListOf(g), op) = ListOf(g)
<1>1. op.action \in AllActions
  BY DEF IsOp
<1>2. CASE NeedsPart(op) /\ ~ KnowsPart(g, op.part)
  <2>1. op.action # "add_part"
    BY <1>2 DEF NeedsPart
  <2>2. QED
    BY <1>1, <1>2, <2>1, PartMissing
<1>3. CASE NeedsRing(op) /\ ~ KnowsRing(g, op.part, op.ring)
  BY <1>3, RingMissing
<1>4. CASE /\ NeedsVertex(op) /\ ~ KnowsVertex(g, op.part, op.ring, op.vertex)
           /\ NeedsRing(op) => KnowsRing(g, op.part, op.ring)
  <2>1. op.action \in VertexActions /\ (op.action = "insert_vertex" => op.vertex # Root)
    BY <1>4 DEF NeedsVertex
  <2>2. KnowsRing(g, op.part, op.ring)
    BY <1>4, <2>1 DEF NeedsRing
  <2>3. QED
    BY <1>4, <2>1, <2>2, VertexMissing
<1>5. QED
  BY <1>2, <1>3, <1>4 DEF Ready

-----------------------------------------------------------------------------
(***************************************************************************)
(* The replay: every state it goes through is the list of a geometry that  *)
(* was given the same operations, oldest first.                            *)
(***************************************************************************)
PerformTurn(c, list, op) == Perform(list, op)

Replaying == INSTANCE Loops WITH Step <- PerformTurn, Pick <- Newest

LEMMA ReplayedOldestFirst ==
  ASSUME NEW P, Orderly(P)
  PROVE  \E after :
           /\ after[{}] = BaseList
           /\ \A op \in P : after[Older(P, op) \cup {op}] = Perform(after[Older(P, op)], op)
           /\ \A ops : P = {o \in ops : Admits(o)} => Replay(ops) = after[P]
<1> DEFINE after == Replaying!Batched({}, BaseList, P)
<1>1. PICK size :
        /\ \A done \in SUBSET P : size[done] \in Nat /\ size[done] <= size[P]
        /\ \A done \in SUBSET P : done # {} =>
             Newest(done) \in done /\ size[done \ {Newest(done)}] < size[done]
  BY BatchesHaveSizes, Zenon
<1>2. /\ after[{}] = BaseList
      /\ \A done \in SUBSET P : done # {} =>
           after[done] = PerformTurn({}, after[done \ {Newest(done)}], Newest(done))
  <2>1. Replaying!Sized(P, size)
    BY <1>1 DEF Replaying!Sized
  <2>2. Replaying!Follows(after, {}, BaseList, P)
    BY <2>1, Replaying!BatchLoop, SiteAssumption, MaxTimestampAssumption, Zenon
  <2>3. QED
    BY <2>2 DEF Replaying!Follows
<1>3. ASSUME NEW ops, P = {o \in ops : Admits(o)}
      PROVE  Replay(ops) = after[P]
  BY <1>3 DEF Replay, Replaying!Batched, PerformTurn
<1> HIDE DEF after
<1>4. ASSUME NEW op \in P
      PROVE  after[Older(P, op) \cup {op}] = Perform(after[Older(P, op)], op)
  <2>1. /\ Older(P, op) \cup {op} \in SUBSET P
        /\ Newest(Older(P, op) \cup {op}) = op
        /\ (Older(P, op) \cup {op}) \ {op} = Older(P, op)
    BY NewestOfPrefix
  <2>2. QED
    BY <1>2, <2>1 DEF PerformTurn
<1>5. QED
  BY <1>2, <1>3, <1>4

LEMMA BaseIsListed == ListOf(NewGeometryState) = BaseList
<1> DEFINE g == NewGeometryState
           id == InitialPartID(0)
           part == NewPart(InitialKey(0), LAMBDA r : InitialRingID(0, r), InitialVertexID)
           pk == InitialKey(0)
<1>1. g.parts = << id >> /\ g.part = [p \in {id} |-> part]
  BY DEF NewGeometryState
<1>2. IsFreshPart(part, pk)
  BY BasePartIsFresh
<1>3. part.key = pk
  BY <1>2 DEF IsFreshPart
<1> HIDE DEF part
<1>4. Effects({}, {}, g)
  <2>1. Exchange({})
    BY FS_EmptySet DEF Exchange, Orderly, OneEach
  <2>2. QED
    BY <2>1, InitialReflects DEF Effects
<1>5. KnowsPart(g, id) /\ g.part[id].key = pk
  BY <1>1, <1>3 DEF KnowsPart
<1>6. ListOf(g) = [i \in DOMAIN g.parts |-> PartEntry(g, g.parts[i])]
  BY ListOfIs
<1> HIDE DEF g
<1>7. PartEntry(g, id) = FreshEntry(id, pk)
  <2> DEFINE p == id
             key == pk
  <2>1. KnowsPart(g, p) /\ key = g.part[p].key /\ IsFreshPart(part, key)
    BY <1>2, <1>5
  <2> HIDE DEF p, key
  <2>2. PartEntry(g, p) = FreshEntry(p, key)
    BY <1>4, <2>1, FreshPartEntry
  <2>3. QED
    BY <2>2 DEF p, key
<1>8. ListOf(g) = << PartEntry(g, id) >>
  <2> DEFINE e == PartEntry(g, id)
  <2> HIDE DEF e
  <2>1. g.parts = << id >> /\ DOMAIN g.parts = {1} /\ g.parts[1] = id
    BY <1>1
  <2>2. ListOf(g) = [i \in {1} |-> e]
    BY <1>6, <2>1 DEF e
  <2>3. [i \in {1} |-> e] = << e >>
    OBVIOUS
  <2>4. QED
    BY <2>2, <2>3 DEF e
<1>9. QED
  BY <1>7, <1>8, BaseListIs DEF g

(* The newest operation takes effect at once or not at all.                *)
NewestOfAll(I, P, op) ==
  /\ Exchange(I) /\ P \subseteq I /\ op \in I
  /\ (\A o \in P : Newer(op, o) /\ Admits(o)) /\ Admits(op)

LEMMA NewestArrives ==
  ASSUME NEW I, NEW P, NEW op, NewestOfAll(I, P, op), NEW R, NEW g, Settled(P, R, g)
  PROVE  NewArrival(I, P, R, g, op) /\ (\A o \in P : ~ Refers(o, op)) /\ IsOp(op)
<1>1. op \notin P /\ \A o \in P : ~ Newer(o, op)
  BY StampsAreOrdered DEF NewestOfAll, Exchange, Orderly
<1>2. QED
  BY <1>1 DEF NewestOfAll, NewArrival, Exchange

LEMMA OnlyNewestIsLeft ==
  ASSUME NEW P, NEW op, op \notin P, Admits(op), NEW g, NEW h,
         WaitingOps(h) \ {op} = WaitingOps(g)
  PROVE  Done(h, P \cup {op}) = IF op \in WaitingOps(h) THEN Done(g, P) ELSE Done(g, P) \cup {op}
BY DEF Done

Listed(P, list) == \E R, g : Settled(P, R, g) /\ ListOf(g) = list

LEMMA ReplayStep ==
  ASSUME NEW I, NEW P, NEW op, NewestOfAll(I, P, op), NEW R, NEW g, Settled(P, R, g)
  PROVE  Listed(P \cup {op}, Perform(ListOf(g), op))
<1> DEFINE e == EngineApply(g, op)
           h == e.state
           told == e.outcomes
           A == Done(g, P)
           B == Done(h, P \cup {op})
           Q == Overlay(R, told)
<1>1. NewArrival(I, P, R, g, op) /\ (\A o \in P : ~ Refers(o, op)) /\ IsOp(op)
  BY NewestArrives
<1>2. /\ Settles(P \cup {op}, R, g, told, h)
      /\ WaitingOps(h) \subseteq WaitingOps(g) \cup {op}
  BY <1>1, EngineApplySettles
<1> HIDE DEF e
<1>3. Settled(P \cup {op}, Q, h) /\ Grows(g, h)
  BY <1>2 DEF Settles
<1>4. WaitingOps(h) \ {op} = WaitingOps(g)
  <2>1. Arrives(P, R, g, op, told, h)
    BY <1>2 DEF Arrives
  <2> HIDE DEF told, h
  <2>2. QED
    BY <1>1, <2>1, NothingIsReleased
<1>5. op \notin P /\ Admits(op) /\ op \in I /\ P \subseteq I /\ Exchange(I)
  BY <1>1 DEF NewestOfAll, NewArrival
<1> HIDE DEF h, told, Q
<1>6. B = IF op \in WaitingOps(h) THEN A ELSE A \cup {op}
  BY <1>4, <1>5, OnlyNewestIsLeft
<1>7. A \subseteq P /\ B \subseteq P \cup {op}
  BY DEF Done
<1>8. Reflects(g, A) /\ Reflects(h, B)
  BY <1>3 DEF Settled
<1>9. Effects(I, A, g) /\ Effects(I, B, h)
  BY <1>5, <1>7, <1>8 DEF Effects
<1> HIDE DEF A, B
<1>10. CASE op \notin WaitingOps(h)
  <2>1. B = A \cup {op}
    BY <1>6, <1>10
  <2>2. Ready(h, op)
    BY <1>3, <1>10 DEF Settled
  <2>3. ~ Refers(op, op)
    BY <1>5, StampsAreOrdered DEF Exchange, Orderly
  <2>4. Ready(g, op)
    BY <1>9, <2>1, <2>2, <2>3, ReadyWithReferred
  <2>5. LastStep(I, A, op, g, h)
    BY <1>5, <1>7, <1>9, <2>1, <2>4 DEF LastStep, NewestOfAll
  <2>6. Perform(ListOf(g), op) = ListOf(h)
    BY <2>5, PerformIsStep
  <2>7. QED
    BY <1>3, <2>6 DEF Listed
<1>11. CASE op \in WaitingOps(h)
  <2>1. B = A
    BY <1>6, <1>11
  <2>2. ListOf(g) = ListOf(h)
    BY <1>9, <2>1, EffectsDecide, SameLists
  <2>3. PICK dep : InQueue(h, dep, op)
    BY <1>3, <1>11, WaitingIs DEF Settled
  <2>4. Lacks(h, op, dep)
    BY <1>3, <2>3 DEF Settled, Waits
  <2>5. ~ Ready(h, op)
    BY <2>4, LackingIsNotReady
  <2>6. ~ Ready(g, op)
    BY <1>3, <2>5, StillKnown
  <2>7. Perform(ListOf(g), op) = ListOf(g)
    BY <1>1, <1>5, <1>9, <2>6, NothingToDo
  <2>8. QED
    BY <1>3, <2>2, <2>7 DEF Listed
<1>12. QED
  BY <1>10, <1>11

LEMMA ReplayIsListed ==
  ASSUME NEW I, Exchange(I), NEW P, P \subseteq I, \A o \in P : Admits(o)
  PROVE  \E R, g : /\ Settled(P, R, g)
                   /\ \A L : P = {o \in L : Admits(o)} => ListOf(g) = Replay(L)
<1>1. Orderly(P)
  BY FS_Subset DEF Exchange, Orderly, OneEach
<1>2. PICK after :
        /\ after[{}] = BaseList
        /\ \A op \in P : after[Older(P, op) \cup {op}] = Perform(after[Older(P, op)], op)
        /\ \A L : P = {o \in L : Admits(o)} => Replay(L) = after[P]
  BY <1>1, ReplayedOldestFirst
<1> DEFINE Fine(done) == Listed(done, after[done])
           Good == { done \in SUBSET P : Fine(done) }
<1>3. {} \in Good
  BY <1>2, InitialSettled, BaseIsListed DEF Listed
<1>4. ASSUME NEW op \in P, Older(P, op) \in Good
      PROVE  Older(P, op) \cup {op} \in Good
  <2> DEFINE older == Older(P, op)
  <2>1. older \subseteq P /\ \A o \in older : Newer(op, o)
    BY DEF Older
  <2>2. PICK R, g : Settled(older, R, g) /\ ListOf(g) = after[older]
    BY <1>4 DEF Listed
  <2>3. NewestOfAll(I, older, op)
    BY <1>1, <2>1 DEF NewestOfAll
  <2>4. after[older \cup {op}] = Perform(after[older], op)
    BY <1>2
  <2> HIDE DEF older
  <2>5. Listed(older \cup {op}, Perform(ListOf(g), op))
    BY <2>2, <2>3, ReplayStep
  <2>6. older \cup {op} \in SUBSET P /\ Fine(older \cup {op})
    BY <2>1, <2>2, <2>4, <2>5
  <2>7. QED
    BY <2>6 DEF older
<1>5. P \in Good
  <2> HIDE DEF Good
  <2>1. QED
    BY <1>1, <1>3, <1>4, StampInduction
<1>6. QED
  BY <1>2, <1>5 DEF Listed

(* A geometry that settled with a set of operations, however they came, is *)
(* what performing them one by one in stamp order makes of the base.       *)
THEOREM SettledIsReplayed ==
  ASSUME NEW I, Exchange(I), NEW L, L \subseteq I, NEW R, NEW g, Settled(L, R, g)
  PROVE  ListOf(g) = Replay(L)
<1> DEFINE P == {o \in L : Admits(o)}
<1>1. P \subseteq L /\ P \subseteq I /\ \A o \in L : Admits(o) => o \in P
  OBVIOUS
<1>2. PICK Q, h : Settled(P, Q, h) /\ ListOf(h) = Replay(L)
  BY ReplayIsListed
<1>3. Done(g, L) \subseteq Done(h, P)
  BY <1>1, <1>2, DoneGrowsWithLog
<1>4. Done(h, P) \subseteq Done(g, L)
  BY <1>1, <1>2, DoneGrowsWithLog
<1> DEFINE A == Done(g, L)
<1> HIDE DEF P
<1>5. Effects(I, A, g) /\ Effects(I, A, h)
  <2>1. Reflects(g, A) /\ Reflects(h, Done(h, P))
    BY <1>2 DEF Settled
  <2>2. Done(h, P) = A
    BY <1>3, <1>4
  <2>3. A \subseteq I
    BY DEF Done
  <2> HIDE DEF A
  <2>4. QED
    BY <2>1, <2>2, <2>3 DEF Effects
<1> HIDE DEF A
<1>6. ListOf(g) = ListOf(h)
  BY <1>5, EffectsDecide, SameLists
<1>7. QED
  BY <1>2, <1>6

(* Strong convergence: on every replica, in every state, the geometry is   *)
(* what one editor would end up with who performs the operations it has    *)
(* merged one after the other in stamp order, whatever the order, the      *)
(* batches and the repetitions they were merged in; replicas that have     *)
(* merged the same operations therefore show the same geometry.            *)
THEOREM GeometryIsItsReplay == Spec => []SameAsReplay
<1>1. IInv => SameAsReplay
  <2> SUFFICES ASSUME IInv, NEW r \in Replica
               PROVE  ListOf(engine[r]) = Replay(log[r])
    BY DEF SameAsReplay
  <2>1. /\ Exchange(issued) /\ log[r] \subseteq issued
        /\ Settled(log[r], reported[r], engine[r])
    BY ReplicaEffects DEF ReplicaInv
  <2>2. QED
    BY <2>1, SettledIsReplayed
<1>2. QED
  BY <1>1, InvariantHolds, PTL

-----------------------------------------------------------------------------
(***************************************************************************)
(* What a snapshot is read back to: vertex by vertex, in document order,   *)
(* the tree it was taken of.                                               *)
(***************************************************************************)
VertexRecord(s, v) ==
  LET x == s.vertex[v]
  IN  [id |-> v, parent |-> x.parent, key |-> x.key, coord |-> x.coord,
       deleted |-> x.deleted, moveReg |-> x.moveReg]

(* So much of s is there.                                                  *)
Restored(t, s, D) ==
  Tree(t) /\ DOMAIN t.vertex = D /\ \A v \in D : t.vertex[v] = s.vertex[v]

LEMMA HangsAsBefore ==
  ASSUME NEW s, Tree(s), NEW D, D \subseteq DOMAIN s.vertex, NEW t, Restored(t, s, D),
         NEW id \in DOMAIN s.vertex, id \notin D,
         s.vertex[id].parent = Root \/ s.vertex[id].parent \in D
  PROVE  CanHang(t.vertex, id, s.vertex[id].parent, s.vertex[id].key)
<1> DEFINE V == s.vertex
           W == t.vertex
           x == V[id]
<1>1. Planted(V) /\ DOMAIN W = D /\ \A v \in D : W[v] = V[v] /\ v \in DOMAIN V
  BY DEF Tree, Restored
<1> HIDE DEF V, W
<1>2. ProperKey(x.key) /\ id # Root /\ id \notin DOMAIN W
  BY <1>1 DEF Planted, V
<1>3. \A v \in DOMAIN W : SetKeyBefore(x.key, W[v].key) \/ SetKeyBefore(W[v].key, x.key)
  BY <1>1 DEF Planted, Elder, V
<1>4. x.parent = Root \/ (x.parent \in DOMAIN W /\ SetKeyBefore(W[x.parent].key, x.key))
  BY <1>1 DEF Planted, Elder, V
<1>5. x.key.initial => \A v \in Below(W, x.parent) : ~ W[v].key.initial
  BY <1>1 DEF Planted, Below, V
<1>6. QED
  BY <1>2, <1>3, <1>4, <1>5 DEF CanHang, V, W

LEMMA RegisterSet ==
  ASSUME NEW t, Tree(t), NEW id \in DOMAIN t.vertex, NEW m
  PROVE  [t EXCEPT !.vertex[id].moveReg = m] = Move(t, id, m, t.vertex[id].coord)
<1> DEFINE V == t.vertex
           x == V[id]
           c == t.children
           n == t.visible
<1>1. /\ t = [vertex |-> V, children |-> c, visible |-> n]
      /\ IsFunction(V) /\ IsVertex(x)
  BY DEF Tree
<1>2. x = [parent |-> x.parent, key |-> x.key, coord |-> x.coord, deleted |-> x.deleted,
           moveReg |-> x.moveReg]
  BY <1>1 DEF IsVertex
<1> HIDE DEF x
<1>3. [x EXCEPT !.coord = x.coord, !.moveReg = m] = [x EXCEPT !.moveReg = m]
  BY <1>2
<1>4. [t EXCEPT !.vertex[id].moveReg = m] = [t EXCEPT !.vertex = [@ EXCEPT ![id] = [x EXCEPT !.moveReg = m]]]
  BY <1>1 DEF x
<1>5. Move(t, id, m, x.coord) =
        [t EXCEPT !.vertex = [@ EXCEPT ![id] = [x EXCEPT !.coord = x.coord, !.moveReg = m]]]
  BY <1>1 DEF Move, x
<1>6. QED
  BY <1>3, <1>4, <1>5 DEF x

LEMMA VertexRestored ==
  ASSUME NEW s, Tree(s), NEW D, D \subseteq DOMAIN s.vertex, NEW t, Restored(t, s, D),
         NEW id \in DOMAIN s.vertex, id \notin D,
         s.vertex[id].parent = Root \/ s.vertex[id].parent \in D
  PROVE  Restored(RestoreVertex(t, VertexRecord(s, id)), s, D \cup {id})
<1> DEFINE x == s.vertex[id]
           v == VertexRecord(s, id)
           a == Insert(t, id, x.parent, x.key, x.coord)
           b == [a EXCEPT !.vertex[id].moveReg = x.moveReg]
           y == a.vertex[id]
<1>1. /\ v.id = id /\ v.parent = x.parent /\ v.key = x.key /\ v.coord = x.coord
      /\ v.deleted = x.deleted /\ v.moveReg = x.moveReg
  BY DEF VertexRecord
<1>2. RestoreVertex(t, v) = IF x.deleted THEN Delete(b, id) ELSE b
  <2> HIDE DEF v
  <2>1. QED
    BY <1>1 DEF RestoreVertex
<1>3. IsVertex(x) /\ Tree(t) /\ DOMAIN t.vertex = D /\ \A w \in D : t.vertex[w] = s.vertex[w]
  BY DEF Tree, Restored
<1>4. x = [parent |-> x.parent, key |-> x.key, coord |-> x.coord, deleted |-> x.deleted,
           moveReg |-> x.moveReg] /\ x.deleted \in BOOLEAN
  BY <1>3 DEF IsVertex
<1>5. CanHang(t.vertex, id, x.parent, x.key)
  BY HangsAsBefore
<1> HIDE DEF x, v
<1>6. /\ Tree(a) /\ DOMAIN a.vertex = D \cup {id}
      /\ \A w \in D : a.vertex[w] = s.vertex[w]
      /\ y = NewVertex(x.parent, x.key, x.coord)
  BY <1>3, <1>5, InsertKeepsTree
<1>7. /\ y.parent = x.parent /\ y.key = x.key /\ y.coord = x.coord /\ y.deleted = FALSE
  <2> DEFINE p == x.parent
             k == x.key
             c == x.coord
             z == NewVertex(p, k, c)
  <2> HIDE DEF p, k, c, a
  <2>1. z.parent = p /\ z.key = k /\ z.coord = c /\ z.deleted = FALSE
    BY DEF NewVertex
  <2>2. y = z
    BY <1>6 DEF p, k, c
  <2> HIDE DEF z, y
  <2>3. QED
    BY <2>1, <2>2 DEF p, k, c
<1> HIDE DEF a
<1>8. b = Move(a, id, x.moveReg, y.coord)
  BY <1>6, RegisterSet
<1> HIDE DEF b, y
<1>9. /\ Tree(b) /\ DOMAIN b.vertex = D \cup {id}
      /\ \A w \in D : b.vertex[w] = s.vertex[w]
      /\ b.vertex[id] = [parent |-> x.parent, key |-> x.key, coord |-> x.coord,
                         deleted |-> FALSE, moveReg |-> x.moveReg]
  <2> DEFINE m == x.moveReg
             c == y.coord
             u == Move(a, id, m, c)
  <2> HIDE DEF m, c
  <2>1. /\ Tree(u) /\ DOMAIN u.vertex = DOMAIN a.vertex
        /\ \A w \in DOMAIN a.vertex : w # id => u.vertex[w] = a.vertex[w]
        /\ u.vertex[id] = [parent |-> a.vertex[id].parent, key |-> a.vertex[id].key,
                           coord |-> c, deleted |-> a.vertex[id].deleted, moveReg |-> m]
    BY <1>6, MoveKeepsTree
  <2>2. b = u
    BY <1>8 DEF m, c
  <2> HIDE DEF u
  <2>3. a.vertex[id] = y /\ c = x.coord /\ m = x.moveReg
    BY <1>7 DEF y, c, m
  <2>4. QED
    BY <1>6, <1>7, <2>1, <2>2, <2>3
<1>10. CASE ~ x.deleted
  <2>1. x.deleted = FALSE
    BY <1>4, <1>10
  <2>2. b.vertex[id] = x
    BY <1>4, <1>9, <2>1
  <2>3. RestoreVertex(t, v) = b
    BY <1>2, <1>10
  <2>4. \A w \in D \cup {id} : b.vertex[w] = s.vertex[w]
    BY <1>9, <2>2 DEF x
  <2>5. QED
    BY <1>9, <2>3, <2>4 DEF Restored, v
<1>11. CASE x.deleted
  <2> DEFINE d == Delete(b, id)
  <2>1. x.deleted = TRUE
    BY <1>4, <1>11
  <2>2. ~ b.vertex[id].deleted
    BY <1>9
  <2>3. /\ Tree(d) /\ DOMAIN d.vertex = DOMAIN b.vertex
        /\ \A w \in DOMAIN b.vertex : w # id => d.vertex[w] = b.vertex[w]
        /\ d.vertex[id] = [parent |-> b.vertex[id].parent, key |-> b.vertex[id].key,
                           coord |-> b.vertex[id].coord, deleted |-> TRUE,
                           moveReg |-> b.vertex[id].moveReg]
    BY <1>9, <2>2, DeleteKeepsTree
  <2> HIDE DEF d
  <2>4. d.vertex[id] = [parent |-> x.parent, key |-> x.key, coord |-> x.coord,
                        deleted |-> TRUE, moveReg |-> x.moveReg]
    BY <1>9, <2>3
  <2>5. d.vertex[id] = x
    BY <1>4, <2>1, <2>4
  <2>6. RestoreVertex(t, v) = d
    BY <1>2, <1>11 DEF d
  <2>7. \A w \in D \cup {id} : d.vertex[w] = s.vertex[w]
    BY <1>9, <2>3, <2>5 DEF x
  <2>8. QED
    BY <1>9, <2>3, <2>6, <2>7 DEF Restored, v
<1>12. QED
  BY <1>10, <1>11

LEMMA SnapshotVerticesAre ==
  ASSUME NEW s
  PROVE  SnapshotVertices(s) = [i \in DOMAIN Walk(s) |-> VertexRecord(s, Walk(s)[i])]
BY DEF SnapshotVertices, VertexRecord

(* A parent is walked before its children.                                 *)
LEMMA ParentsFirst ==
  ASSUME NEW s, Tree(s), NEW w, w = Walk(s)
  PROVE  /\ Len(w) \in Nat /\ DOMAIN w = 1 .. Len(w)
         /\ \A i, j \in 1 .. Len(w) : w[i] = w[j] => i = j
         /\ DOMAIN s.vertex = { w[i] : i \in 1 .. Len(w) }
         /\ \A i \in 1 .. Len(w) :
              /\ w[i] \in DOMAIN s.vertex
              /\ s.vertex[w[i]].parent = Root
                   \/ \E j \in 1 .. i - 1 : w[j] = s.vertex[w[i]].parent
<1> DEFINE V == s.vertex
<1>1. Planted(V) /\ IsFiniteSet(DOMAIN V)
  BY DEF Tree
<1>2. PICK R : DocOrder(V, R)
  BY <1>1, OrderExists
<1>3. w \in Seq(DOMAIN V) /\ SortedBy(w, R) /\ ToSet(w) = DOMAIN V
  BY <1>2, WalkIsDocumentOrder
<1>4. Strict(DOMAIN V, R)
  BY <1>2 DEF DocOrder, OrderOn
<1> HIDE DEF V
<1>5. /\ Len(w) \in Nat /\ DOMAIN w = 1 .. Len(w) /\ ToSet(w) = { w[i] : i \in 1 .. Len(w) }
      /\ \A i \in 1 .. Len(w) : w[i] \in DOMAIN V
  <2> DEFINE S == DOMAIN V
  <2>1. w \in Seq(S)
    BY <1>3
  <2> HIDE DEF S
  <2>2. /\ Len(w) \in Nat /\ DOMAIN w = 1 .. Len(w) /\ ToSet(w) = { w[i] : i \in 1 .. Len(w) }
        /\ \A i \in 1 .. Len(w) : w[i] \in S
    BY <2>1, ElementsOf
  <2>3. QED
    BY <2>2 DEF S
<1>6. \A i, j \in 1 .. Len(w) : w[i] = w[j] => i = j
  BY <1>3, <1>4, SortedOnce
<1>7. ASSUME NEW i \in 1 .. Len(w), V[w[i]].parent # Root
      PROVE  \E j \in 1 .. i - 1 : w[j] = V[w[i]].parent
  <2> DEFINE p == V[w[i]].parent
  <2>1. p \in DOMAIN V /\ << p, w[i] >> \in R
    BY <1>1, <1>2, <1>5, <1>7, FamilyOrder
  <2>2. PICK j \in 1 .. Len(w) : w[j] = p
    BY <1>3, <1>5, <2>1
  <2> HIDE DEF p
  <2>3. i # j /\ ~ (i < j)
    <3>1. i # j
      BY <1>4, <2>1, <2>2 DEF Strict
    <3>2. ASSUME i < j PROVE FALSE
      <4>1. << w[i], w[j] >> \in R
        BY <1>3, <3>2 DEF SortedBy
      <4>2. << w[i], w[i] >> \in R
        BY <1>4, <1>5, <2>1, <2>2, <4>1 DEF Strict
      <4>3. QED
        BY <1>4, <1>5, <4>2 DEF Strict
    <3>3. QED
      BY <3>1, <3>2
  <2>4. j \in 1 .. i - 1
    BY <1>5, <2>3
  <2>5. QED
    BY <2>2, <2>4 DEF p
<1>8. QED
  BY <1>3, <1>5, <1>6, <1>7 DEF V

RestoreTurn(vertices, t, n) == RestoreVertex(t, vertices[n])

Restoring == INSTANCE Loops WITH Step <- RestoreTurn, Pick <- Newest

LEMMA SeqRestored ==
  ASSUME NEW s, Tree(s)
  PROVE  RestoreSeq(SnapshotVertices(s)) = s
<1> DEFINE w == Walk(s)
           vs == SnapshotVertices(s)
           all == Len(w)
           f == Restoring!Counted(vs, NewVertexSeq, all)
           Upto(n) == { w[i] : i \in 1 .. n }
<1>1. /\ all \in Nat /\ DOMAIN w = 1 .. all
      /\ \A i, j \in 1 .. all : w[i] = w[j] => i = j
      /\ DOMAIN s.vertex = Upto(all)
      /\ \A i \in 1 .. all :
           /\ w[i] \in DOMAIN s.vertex
           /\ s.vertex[w[i]].parent = Root \/ \E j \in 1 .. i - 1 : w[j] = s.vertex[w[i]].parent
  BY ParentsFirst
<1>2. vs = [i \in 1 .. all |-> VertexRecord(s, w[i])]
  BY <1>1, SnapshotVerticesAre
<1>3. Len(vs) = all
  <2> HIDE DEF vs, w
  <2>1. DOMAIN vs = 1 .. all /\ vs \in [1 .. all -> { vs[i] : i \in 1 .. all }]
    BY <1>2
  <2>2. QED
    BY <1>1, <2>1
<1> HIDE DEF vs
<1>4. RestoreSeq(vs) = f[all]
  BY <1>3 DEF RestoreSeq, Restoring!Counted, RestoreTurn
<1> HIDE DEF w
<1>5. f[0] = NewVertexSeq /\ \A i \in 1 .. all : f[i] = RestoreTurn(vs, f[i - 1], i)
  <2> HIDE DEF all
  <2>1. QED
    BY <1>1, Restoring!CountedLoop, SiteAssumption, MaxTimestampAssumption
<1> HIDE DEF f
<1> DEFINE Good == { n \in 0 .. all : Restored(f[n], s, Upto(n)) }
<1>6. 0 \in Good
  <2>1. DOMAIN NewVertexSeq.vertex = {}
    BY DEF NewVertexSeq
  <2>2. Upto(0) = {}
    OBVIOUS
  <2> HIDE DEF Upto
  <2>3. Restored(NewVertexSeq, s, Upto(0))
    BY <2>1, <2>2, EmptyTree DEF Restored
  <2>4. QED
    BY <1>1, <1>5, <2>3
<1>7. ASSUME NEW n \in 1 .. all, n - 1 \in Good
      PROVE  n \in Good
  <2> DEFINE D == Upto(n - 1)
             t == f[n - 1]
             id == w[n]
  <2>1. n \in 0 .. all /\ n - 1 \in Nat /\ Restored(t, s, D)
    BY <1>1, <1>7
  <2>2. id \notin D /\ D \subseteq DOMAIN s.vertex /\ id \in DOMAIN s.vertex
    BY <1>1
  <2>3. s.vertex[id].parent = Root \/ s.vertex[id].parent \in D
    BY <1>1
  <2>4. Upto(n) = D \cup {id}
    BY <1>1
  <2>5. vs[n] = VertexRecord(s, id)
    BY <1>2
  <2>6. f[n] = RestoreVertex(t, VertexRecord(s, id))
    BY <1>5, <2>5 DEF RestoreTurn
  <2> HIDE DEF D, t, id, Upto
  <2>7. Restored(RestoreVertex(t, VertexRecord(s, id)), s, D \cup {id})
    BY <2>1, <2>2, <2>3, VertexRestored
  <2>8. QED
    BY <2>1, <2>4, <2>6, <2>7
<1>8. all \in Good
  <2> HIDE DEF Good
  <2>1. \A i \in 0 .. all : i \in Good
    BY <1>1, <1>6, <1>7, CountingUp
  <2>2. QED
    BY <1>1, <2>1
<1> DEFINE t == f[all]
<1>9. Tree(t) /\ DOMAIN t.vertex = DOMAIN s.vertex /\ \A v \in DOMAIN s.vertex : t.vertex[v] = s.vertex[v]
  BY <1>1, <1>8 DEF Restored
<1> HIDE DEF t
<1>10. t.vertex = s.vertex
  BY <1>9 DEF Tree, IsFunction
<1>11. QED
  BY <1>4, <1>9, <1>10, SameTree DEF t, vs

PlaceOfID(e, id) == CHOOSE i \in DOMAIN e : e[i].id = id

Indexes(e, q, f) ==
  /\ { e[i].id : i \in DOMAIN e } = DOMAIN f /\ IDs(e) = q
  /\ \A id \in DOMAIN f : PlaceOfID(e, id) \in DOMAIN e /\ q[PlaceOfID(e, id)] = id

LEMMA EntriesByID ==
  ASSUME NEW q, NEW f, Listing(q, f), NEW e, IsFunction(e), DOMAIN e = DOMAIN q,
         \A i \in DOMAIN e : e[i].id = q[i]
  PROVE  Indexes(e, q, f)
<1>1. /\ DOMAIN q = 1 .. Len(q) /\ { q[i] : i \in 1 .. Len(q) } = DOMAIN f
      /\ q = [i \in 1 .. Len(q) |-> q[i]]
  <2>1. q \in Seq(DOMAIN f) /\ ToSet(q) = DOMAIN f
    BY DEF Listing
  <2>2. /\ DOMAIN q = 1 .. Len(q) /\ ToSet(q) = { q[i] : i \in 1 .. Len(q) }
    BY <2>1, ElementsOf
  <2>3. q = [i \in 1 .. Len(q) |-> q[i]]
    BY <2>1
  <2>4. QED
    BY <2>1, <2>2, <2>3
<1>2. { e[i].id : i \in DOMAIN e } = DOMAIN f
  BY <1>1
<1>3. IDs(e) = q
  BY <1>1 DEF IDs
<1>4. ASSUME NEW id \in DOMAIN f
      PROVE  PlaceOfID(e, id) \in DOMAIN e /\ q[PlaceOfID(e, id)] = id
  <2>1. \E i \in DOMAIN e : e[i].id = id
    BY <1>2
  <2> DEFINE i == CHOOSE i \in DOMAIN e : e[i].id = id
  <2>2. i \in DOMAIN e /\ e[i].id = id
    BY <2>1
  <2> HIDE DEF i
  <2>3. i \in DOMAIN e /\ q[i] = id
    BY <2>2
  <2>4. QED
    BY <2>3 DEF i, PlaceOfID
<1>5. QED
  BY <1>2, <1>3, <1>4 DEF Indexes

LEMMA RingRestored ==
  ASSUME NEW ring, NEW A, NEW p, NEW k, NEW pk, ReflectsRing(ring, A, p, k, pk)
  PROVE  RestoreRing(SnapshotRing(k, ring)) = ring
<1> DEFINE s == ring.seq
           vs == SnapshotVertices(s)
           rs == SnapshotRing(k, ring)
<1>1. /\ ring = [key |-> ring.key, exterior |-> ring.exterior, deleted |-> ring.deleted,
                 seq |-> s]
      /\ Tree(s)
  BY DEF ReflectsRing, ReflectsSeq
<1>2. RestoreSeq(vs) = s
  BY <1>1, SeqRestored
<1> HIDE DEF vs
<1>3. /\ rs.key = ring.key /\ rs.exterior = ring.exterior /\ rs.deleted = ring.deleted
      /\ rs.vertices = vs
  BY DEF SnapshotRing, vs
<1> HIDE DEF rs
<1>4. RestoreRing(rs) = [key |-> ring.key, exterior |-> ring.exterior, deleted |-> ring.deleted,
                         seq |-> s]
  BY <1>2, <1>3 DEF RestoreRing
<1>5. QED
  BY <1>1, <1>4 DEF rs

SnapshotRings(part) ==
  [i \in DOMAIN part.rings |-> SnapshotRing(part.rings[i], part.ring[part.rings[i]])]

LEMMA SnapshotPartIs ==
  ASSUME NEW p, NEW part, NEW ps, ps = SnapshotPart(p, part)
  PROVE  /\ ps.id = p /\ ps.key = part.key /\ ps.deleted = part.deleted
         /\ ps.rings = SnapshotRings(part)
<1> DEFINE q == SnapshotRings(part)
<1>1. ps = [id |-> p, key |-> part.key, deleted |-> part.deleted, rings |-> q]
  BY DEF SnapshotPart, SnapshotRings
<1> HIDE DEF q
<1>2. QED
  BY <1>1 DEF q

LEMMA SnapshotRingIs ==
  ASSUME NEW k, NEW ring, NEW rs, rs = SnapshotRing(k, ring)
  PROVE  /\ rs.id = k /\ rs.key = ring.key /\ rs.deleted = ring.deleted
         /\ rs.exterior = ring.exterior /\ rs.vertices = SnapshotVertices(ring.seq)
<1> DEFINE q == SnapshotVertices(ring.seq)
<1>1. rs = [id |-> k, key |-> ring.key, exterior |-> ring.exterior, deleted |-> ring.deleted,
            vertices |-> q]
  BY DEF SnapshotRing
<1> HIDE DEF q
<1>2. QED
  BY <1>1 DEF q

LEMMA SnapshotRingsAre ==
  ASSUME NEW part, NEW A, NEW p, ReflectsPart(part, A, p), NEW e, e = SnapshotRings(part)
  PROVE  /\ { e[i].id : i \in DOMAIN e } = DOMAIN part.ring /\ IDs(e) = part.rings
         /\ IsFunction(e) /\ DOMAIN e = DOMAIN part.rings
         /\ \A i \in DOMAIN e : e[i].id = part.rings[i]
         /\ \A id \in DOMAIN part.ring :
              RestoreRing(e[CHOOSE i \in DOMAIN e : e[i].id = id]) = part.ring[id]
<1> DEFINE q == part.rings
           f == part.ring
<1>1. Listing(q, f) /\ \A k \in DOMAIN f : ReflectsRing(f[k], A, p, k, part.key)
  BY DEF ReflectsPart
<1>2. e = [i \in DOMAIN q |-> SnapshotRing(q[i], f[q[i]])]
  BY DEF SnapshotRings
<1> HIDE DEF q, f
<1>3. IsFunction(e) /\ DOMAIN e = DOMAIN q /\ \A i \in DOMAIN e : e[i] = SnapshotRing(q[i], f[q[i]])
  BY <1>2 DEF IsFunction
<1>4. \A i \in DOMAIN e : e[i].id = q[i]
  BY <1>3, SnapshotRingIs
<1>5. Indexes(e, q, f)
  BY <1>1, <1>3, <1>4, EntriesByID
<1>6. ASSUME NEW id \in DOMAIN f
      PROVE  RestoreRing(e[CHOOSE i \in DOMAIN e : e[i].id = id]) = f[id]
  <2> DEFINE i == PlaceOfID(e, id)
  <2>1. i \in DOMAIN e /\ q[i] = id
    BY <1>5 DEF Indexes
  <2> HIDE DEF i
  <2>2. e[i] = SnapshotRing(id, f[id])
    BY <1>3, <2>1
  <2>3. RestoreRing(SnapshotRing(id, f[id])) = f[id]
    BY <1>1, RingRestored
  <2>4. RestoreRing(e[i]) = f[id]
    BY <2>2, <2>3
  <2>5. QED
    BY <2>4 DEF i, PlaceOfID
<1>7. QED
  BY <1>3, <1>4, <1>5, <1>6 DEF q, f, Indexes

LEMMA PartRestored ==
  ASSUME NEW part, NEW A, NEW p, ReflectsPart(part, A, p)
  PROVE  RestorePart(SnapshotPart(p, part)) = part
<1> DEFINE ps == SnapshotPart(p, part)
           e == SnapshotRings(part)
           f == part.ring
<1>1. /\ part = [key |-> part.key, deleted |-> part.deleted, rings |-> part.rings,
                 ring |-> f]
      /\ IsFunction(f)
  BY DEF ReflectsPart, Listing
<1>2. ps.key = part.key /\ ps.deleted = part.deleted /\ ps.rings = e
  BY SnapshotPartIs
<1>3. /\ { e[i].id : i \in DOMAIN e } = DOMAIN f /\ IDs(e) = part.rings
      /\ \A id \in DOMAIN f : RestoreRing(e[CHOOSE i \in DOMAIN e : e[i].id = id]) = f[id]
  BY SnapshotRingsAre
<1> HIDE DEF ps, e, f
<1>4. ByID(e, RestoreRing) = [id \in DOMAIN f |-> f[id]]
  <2>1. ByID(e, RestoreRing) =
          [id \in DOMAIN f |-> RestoreRing(e[CHOOSE i \in DOMAIN e : e[i].id = id])]
    BY <1>3 DEF ByID
  <2>2. QED
    BY <1>3, <2>1
<1>5. ByID(e, RestoreRing) = f
  BY <1>1, <1>4 DEF IsFunction
<1>6. RestorePart(ps) = [key |-> part.key, deleted |-> part.deleted, rings |-> part.rings, ring |-> f]
  BY <1>2, <1>3, <1>5 DEF RestorePart
<1>7. QED
  BY <1>1, <1>6 DEF ps

LEMMA SnapshotPartsAre ==
  ASSUME NEW g, NEW A, Reflects(g, A), NEW e, e = SnapshotGeometry(g)
  PROVE  /\ { e[i].id : i \in DOMAIN e } = DOMAIN g.part /\ IDs(e) = g.parts
         /\ IsFunction(e) /\ DOMAIN e = DOMAIN g.parts
         /\ \A i \in DOMAIN e : e[i] = SnapshotPart(g.parts[i], g.part[g.parts[i]])
         /\ \A id \in DOMAIN g.part :
              RestorePart(e[CHOOSE i \in DOMAIN e : e[i].id = id]) = g.part[id]
<1> DEFINE q == g.parts
           f == g.part
<1>1. Listing(q, f) /\ \A p \in DOMAIN f : ReflectsPart(f[p], A, p)
  BY DEF Reflects
<1>2. e = [i \in DOMAIN q |-> SnapshotPart(q[i], f[q[i]])]
  BY DEF SnapshotGeometry
<1> HIDE DEF q, f
<1>3. IsFunction(e) /\ DOMAIN e = DOMAIN q /\ \A i \in DOMAIN e : e[i] = SnapshotPart(q[i], f[q[i]])
  BY <1>2 DEF IsFunction
<1>4. \A i \in DOMAIN e : e[i].id = q[i]
  BY <1>3, SnapshotPartIs
<1>5. Indexes(e, q, f)
  BY <1>1, <1>3, <1>4, EntriesByID
<1>6. ASSUME NEW id \in DOMAIN f
      PROVE  RestorePart(e[CHOOSE i \in DOMAIN e : e[i].id = id]) = f[id]
  <2> DEFINE i == PlaceOfID(e, id)
  <2>1. i \in DOMAIN e /\ q[i] = id
    BY <1>5 DEF Indexes
  <2> HIDE DEF i
  <2>2. e[i] = SnapshotPart(id, f[id])
    BY <1>3, <2>1
  <2>3. RestorePart(SnapshotPart(id, f[id])) = f[id]
    BY <1>1, PartRestored
  <2>4. RestorePart(e[i]) = f[id]
    BY <2>2, <2>3
  <2>5. QED
    BY <2>4 DEF i, PlaceOfID
<1>7. QED
  BY <1>3, <1>5, <1>6 DEF q, f, Indexes

LEMMA GeometryRestored ==
  ASSUME NEW g, NEW A, Reflects(g, A), NEW h, h = RestoreGeometry(SnapshotGeometry(g))
  PROVE  h = [parts |-> g.parts, part |-> g.part, pending |-> << >>]
<1> DEFINE e == SnapshotGeometry(g)
           f == g.part
<1>1. IsFunction(f)
  BY DEF Reflects, Listing
<1>2. /\ { e[i].id : i \in DOMAIN e } = DOMAIN f /\ IDs(e) = g.parts
      /\ \A id \in DOMAIN f : RestorePart(e[CHOOSE i \in DOMAIN e : e[i].id = id]) = f[id]
  BY SnapshotPartsAre
<1>0. h = RestoreGeometry(e)
  OBVIOUS
<1> HIDE DEF e, f
<1>3. ByID(e, RestorePart) = [id \in DOMAIN f |-> f[id]]
  <2>1. ByID(e, RestorePart) =
          [id \in DOMAIN f |-> RestorePart(e[CHOOSE i \in DOMAIN e : e[i].id = id])]
    BY <1>2 DEF ByID
  <2>2. QED
    BY <1>2, <2>1
<1>4. ByID(e, RestorePart) = f
  BY <1>1, <1>3 DEF IsFunction
<1>5. QED
  BY <1>0, <1>2, <1>4 DEF RestoreGeometry, f

-----------------------------------------------------------------------------
(***************************************************************************)
(* What a restart makes of a geometry.                                     *)
(***************************************************************************)
LEMMA ReportsDecideNothing ==
  ASSUME NEW m, NEW n, m.state = n.state, NEW ops, Orderly(ops)
  PROVE  InStampOrder(m, ops).state = InStampOrder(n, ops).state
<1>1. PICK a :
        /\ a[{}] = m
        /\ \A op \in ops : a[Older(ops, op) \cup {op}] = MergeOne(a[Older(ops, op)], op)
        /\ InStampOrder(m, ops) = a[ops]
  BY OldestFirst
<1>2. PICK b :
        /\ b[{}] = n
        /\ \A op \in ops : b[Older(ops, op) \cup {op}] = MergeOne(b[Older(ops, op)], op)
        /\ InStampOrder(n, ops) = b[ops]
  BY OldestFirst
<1>3. \A x, op : MergeOne(x, op).state = EngineApply(x.state, op).state
  BY DEF MergeOne, Merged
<1> DEFINE Good == { done \in SUBSET ops : a[done].state = b[done].state }
<1>4. {} \in Good
  BY <1>1, <1>2
<1>5. ASSUME NEW op \in ops, Older(ops, op) \in Good
      PROVE  Older(ops, op) \cup {op} \in Good
  <2> DEFINE older == Older(ops, op)
             x == a[older]
             y == b[older]
  <2>1. older \subseteq ops /\ x.state = y.state
    BY <1>5
  <2>2. a[older \cup {op}] = MergeOne(x, op) /\ b[older \cup {op}] = MergeOne(y, op)
    BY <1>1, <1>2
  <2> HIDE DEF older, x, y
  <2>3. MergeOne(x, op).state = MergeOne(y, op).state
    BY <1>3, <2>1
  <2>4. older \cup {op} \in SUBSET ops /\ a[older \cup {op}].state = b[older \cup {op}].state
    BY <2>1, <2>2, <2>3
  <2>5. QED
    BY <2>4 DEF older
<1>6. ops \in Good
  <2> HIDE DEF Good
  <2>1. QED
    BY <1>4, <1>5, StampInduction
<1>7. QED
  BY <1>1, <1>2, <1>6

LEMMA WaitsForOne ==
  ASSUME NEW g, NEW o, NEW a, NEW b, Lacks(g, o, a), Lacks(g, o, b)
  PROVE  a = b
BY DEF Lacks, KnowsRing

LEMMA WaitingIsLacking ==
  ASSUME NEW L, NEW R, NEW g, Settled(L, R, g), NEW o \in L
  PROVE  /\ o \in WaitingOps(g) <=> ~ Ready(g, o)
         /\ \A dep : InQueue(g, dep, o) <=> o \in WaitingOps(g) /\ Lacks(g, o, dep)
<1>1. /\ \A dep : InQueue(g, dep, o) => Lacks(g, o, dep)
      /\ o \notin WaitingOps(g) => Ready(g, o)
      /\ o \in WaitingOps(g) <=> \E dep : InQueue(g, dep, o)
  BY WaitingIs DEF Settled, Waits
<1>2. \A dep : Lacks(g, o, dep) => ~ Ready(g, o)
  BY LackingIsNotReady
<1>3. QED
  BY <1>1, <1>2, WaitsForOne

(* A geometry with nothing waiting.                                        *)
Quiet(g) == [parts |-> g.parts, part |-> g.part, pending |-> << >>]

LEMMA QuietSettled ==
  ASSUME NEW L, NEW R, NEW g, Settled(L, R, g), NEW A, A = Done(g, L),
         NEW Q, Q = [o \in A |-> "applied"]
  PROVE  Settled(A, Q, Quiet(g))
<1> DEFINE h == Quiet(g)
<1>1. /\ h = [parts |-> h.parts, part |-> h.part, pending |-> h.pending]
      /\ h.parts = g.parts /\ h.part = g.part /\ h.pending = << >>
  BY DEF Quiet
<1> HIDE DEF h
<1>2. DOMAIN h.pending = {}
  BY <1>1
<1>3. WaitingOps(h) = {} /\ \A dep, o : ~ InQueue(h, dep, o)
  BY <1>2 DEF WaitingOps, InQueue
<1>4. Queues(h, A)
  <2>1. IsFunction(<< >>)
    BY DEF IsFunction
  <2>2. QED
    BY <1>1, <1>2, <1>3, <2>1 DEF Queues, Whole
<1>5. (\A o \in A : Admits(o)) /\ Done(h, A) = A
  BY <1>3 DEF Done
<1>6. Reflects(g, A) /\ Whole(h)
  BY <1>1 DEF Settled, Whole
<1>7. Reflects(h, A)
  BY <1>1, <1>6, SamePartsSameKnowledge
<1>8. Tells(Q, Q, A, {})
  <2>1. DOMAIN Q = A /\ \A o \in A : Q[o] = "applied"
    OBVIOUS
  <2>2. \A o \in A : Now(Q, Q, o) = "applied"
    BY <2>1 DEF Now
  <2>3. QED
    BY <1>5, <2>1, <2>2 DEF Tells
<1>9. Waits(h, {})
  BY <1>3 DEF Waits
<1>10. \A o \in A : Ready(h, o)
  BY <1>7 DEF Reflects
<1>11. QED
  BY <1>3, <1>4, <1>5, <1>7, <1>8, <1>9, <1>10 DEF Settled, h

ReloadedAs(g, back) ==
  /\ back.parts = g.parts /\ back.part = g.part
  /\ \A dep : ToSet(Waiting(back, dep)) = ToSet(Waiting(g, dep))

LEMMA Reloaded ==
  ASSUME NEW I, Exchange(I), NEW L, L \subseteq I, NEW R, NEW g, Settled(L, R, g)
  PROVE  ReloadedAs(g, Reload(g))
<1> DEFINE A == Done(g, L)
           W == WaitingOps(g)
           Q == [o \in A |-> "applied"]
           h == Quiet(g)
           m == [state |-> h, reported |-> Q]
           n == InStampOrder(m, W)
           b == n.state
           M == A \cup W
<1>1. /\ Queues(g, L) /\ W \subseteq L /\ A \subseteq L /\ A \cap W = {}
      /\ \A o \in L : Admits(o) => o \in M
  BY WaitingIs DEF Settled, Done
<1>2. Settled(A, Q, h)
  BY QuietSettled
<1>3. m.state = h /\ m.reported = Q
  OBVIOUS
<1>4. Orderly(W)
  BY <1>1, FS_Subset DEF Exchange, Orderly, OneEach
<1> HIDE DEF A, W, Q, m
<1>5. Settled(M, n.reported, b)
  <2>1. Settled(A, m.reported, m.state)
    BY <1>2, <1>3
  <2>2. A \subseteq I /\ W \subseteq I /\ W \cap A = {}
    BY <1>1
  <2> HIDE DEF n, h
  <2>3. n = InStampOrder(m, W)
    BY DEF n
  <2>4. QED
    BY <2>1, <2>2, <2>3, BatchSettles
<1>6. b = Reload(g)
  <2> DEFINE z == [state |-> RestoreGeometry(SnapshotGeometry(g)), reported |-> << >>]
  <2>1. Reload(g) = InStampOrder(z, W).state
    BY DEF Reload, W
  <2>2. RestoreGeometry(SnapshotGeometry(g)) = h
    BY GeometryRestored DEF Settled, Quiet
  <2>3. z.state = m.state
    BY <1>3, <2>2
  <2> HIDE DEF z, h
  <2>4. QED
    BY <1>4, <2>1, <2>3, ReportsDecideNothing
<1> HIDE DEF h, n, b, M
<1>7. M \subseteq L /\ M \subseteq I
  BY <1>1 DEF M
<1>8. Done(b, M) = A
  <2>1. Done(b, M) \subseteq Done(g, L)
    BY <1>5, <1>7, DoneGrowsWithLog
  <2>2. Done(g, L) \subseteq Done(b, M)
    BY <1>1, <1>5, <1>7, DoneGrowsWithLog
  <2>3. QED
    BY <2>1, <2>2 DEF A
<1>9. Effects(I, A, g) /\ Effects(I, A, b)
  <2>1. Reflects(g, A) /\ Reflects(b, A)
    BY <1>5, <1>8 DEF Settled, A
  <2>2. QED
    BY <1>1, <2>1 DEF Effects
<1>10. b.parts = g.parts /\ b.part = g.part
  BY <1>9, EffectsDecide
<1>11. /\ \A o : Ready(g, o) <=> Ready(b, o)
       /\ \A o, dep : Lacks(g, o, dep) <=> Lacks(b, o, dep)
  <2>1. Whole(b)
    BY <1>5 DEF Settled, Queues
  <2>2. QED
    BY <1>10, <2>1, SamePartsSameKnowledge
<1>12. Queues(b, M) /\ WaitingOps(b) \subseteq M
  BY <1>5, WaitingIs DEF Settled
<1>13. ASSUME NEW o
       PROVE  o \in WaitingOps(b) <=> o \in W
  <2>1. CASE o \in M
    <3>1. o \in L
      BY <1>7, <2>1
    <3>2. o \in WaitingOps(b) <=> ~ Ready(b, o)
      BY <1>5, <2>1, WaitingIsLacking
    <3>3. o \in W <=> ~ Ready(g, o)
      BY <3>1, WaitingIsLacking DEF W
    <3>4. QED
      BY <1>11, <3>2, <3>3
  <2>2. CASE o \notin M
    BY <1>12, <2>2 DEF M
  <2>3. QED
    BY <2>1, <2>2
<1>14. ASSUME NEW dep, NEW o
       PROVE  InQueue(b, dep, o) <=> InQueue(g, dep, o)
  <2>1. InQueue(b, dep, o) => o \in W
    BY <1>12, <1>13, WaitingIs
  <2>2. InQueue(g, dep, o) => o \in W
    BY <1>1, WaitingIs DEF W
  <2>3. CASE o \in W
    <3>1. o \in L /\ o \in M
      BY <1>1, <2>3 DEF M
    <3>2. InQueue(b, dep, o) <=> o \in WaitingOps(b) /\ Lacks(b, o, dep)
      BY <1>5, <3>1, WaitingIsLacking
    <3>3. InQueue(g, dep, o) <=> o \in W /\ Lacks(g, o, dep)
      BY <3>1, WaitingIsLacking DEF W
    <3>4. QED
      BY <1>11, <1>13, <3>2, <3>3
  <2>4. QED
    BY <2>1, <2>2, <2>3
<1>15. ASSUME NEW dep
       PROVE  ToSet(Waiting(b, dep)) = ToSet(Waiting(g, dep))
  <2>1. \A o : o \in ToSet(Waiting(b, dep)) <=> InQueue(b, dep, o)
    BY <1>12, WaitingIs
  <2>2. \A o : o \in ToSet(Waiting(g, dep)) <=> InQueue(g, dep, o)
    BY <1>1, WaitingIs
  <2>3. QED
    BY <1>14, <2>1, <2>2
<1>16. QED
  BY <1>6, <1>10, <1>15 DEF ReloadedAs

(* What a snapshot lists, it lists once and in the order of the keys.      *)
LEMMA ListedStrictly ==
  ASSUME NEW q, NEW f, Listing(q, f), NEW e, IsFunction(e), DOMAIN e = DOMAIN q,
         IDs(e) = q, \A i \in DOMAIN e : e[i].key = f[q[i]].key
  PROVE  DistinctIDs(e) /\ StrictlyOrdered(e) /\ Len(e) = Len(q) /\ DOMAIN e = 1 .. Len(q)
<1> DEFINE S == DOMAIN f
           R == Oldest(f)
<1>1. /\ Strict(S, R)
      /\ \A x, y \in S : << x, y >> \in R <=> SetKeyBefore(f[x].key, f[y].key)
  BY OldestIsStrict DEF Listing
<1>2. q \in Seq(S) /\ SortedBy(q, R)
  BY DEF Listing
<1> HIDE DEF S, R
<1>3. Len(q) \in Nat /\ DOMAIN q = 1 .. Len(q) /\ \A i \in 1 .. Len(q) : q[i] \in S
  BY <1>2, ElementsOf
<1>4. DistinctIDs(e)
  <2>1. \A i, j \in 1 .. Len(q) : q[i] = q[j] => i = j
    BY <1>1, <1>2, SortedOnce
  <2>2. QED
    BY <1>3, <2>1 DEF DistinctIDs, IsInjective
<1>5. Len(e) = Len(q)
  <2> DEFINE n == Len(q)
             X == { e[i] : i \in 1 .. n }
  <2>1. e = [i \in 1 .. n |-> e[i]]
    BY <1>3 DEF IsFunction
  <2>2. n \in Nat
    BY <1>3
  <2>3. \A i \in 1 .. n : e[i] \in X
    OBVIOUS
  <2> HIDE DEF n, X
  <2>4. e \in Seq(X)
    BY <2>1, <2>2, <2>3
  <2>5. Len(e) \in Nat /\ DOMAIN e = 1 .. Len(e)
    BY <2>4
  <2>6. DOMAIN e = 1 .. n
    BY <2>1
  <2>7. QED
    BY <2>2, <2>5, <2>6 DEF n
<1>6. StrictlyOrdered(e)
  <2>1. \A i \in 1 .. Len(q) - 1 : << q[i], q[i + 1] >> \in R
    BY <1>2, <1>3 DEF SortedBy
  <2>2. ASSUME NEW i \in 1 .. Len(q) - 1
        PROVE  SetKeyBefore(f[q[i]].key, f[q[i + 1]].key)
    <3>1. i \in 1 .. Len(q) /\ i + 1 \in 1 .. Len(q)
      BY <1>3
    <3>2. q[i] \in S /\ q[i + 1] \in S
      BY <1>3, <3>1
    <3>3. QED
      BY <1>1, <2>1, <3>2
  <2>3. QED
    BY <1>3, <1>5, <2>2 DEF StrictlyOrdered
<1>7. QED
  BY <1>3, <1>4, <1>5, <1>6

(* Those of the base come first, each at its position.                     *)
InitialUpTo(q, f, n) ==
  /\ n <= Len(q)
  /\ \A i \in 1 .. n : f[q[i]].key = InitialKey(i - 1)
  /\ \A i \in 1 .. Len(q) : f[q[i]].key.initial => f[q[i]].key = InitialKey(i - 1)

LEMMA InitialComeFirst ==
  ASSUME NEW q, NEW f, Listing(q, f), NEW n \in Nat,
         \A x \in DOMAIN f : f[x].key.initial => \E j \in 1 .. n : f[x].key = InitialKey(j - 1),
         \A j \in 1 .. n : \E x \in DOMAIN f : f[x].key = InitialKey(j - 1)
  PROVE  InitialUpTo(q, f, n)
<1> DEFINE S == DOMAIN f
           R == Oldest(f)
           Key(i) == f[q[i]].key
<1>1. /\ Strict(S, R)
      /\ \A x, y \in S : << x, y >> \in R <=> SetKeyBefore(f[x].key, f[y].key)
  BY OldestIsStrict DEF Listing
<1>2. q \in Seq(S) /\ SortedBy(q, R) /\ ToSet(q) = S
  BY DEF Listing
<1> HIDE DEF R
<1>3. /\ Len(q) \in Nat /\ DOMAIN q = 1 .. Len(q)
      /\ ToSet(q) = { q[i] : i \in 1 .. Len(q) }
      /\ \A i \in 1 .. Len(q) : q[i] \in S
  BY <1>2, ElementsOf
<1>4. \A i, j \in 1 .. Len(q) : i < j => SetKeyBefore(Key(i), Key(j))
  BY <1>1, <1>2, <1>3 DEF SortedBy
<1>5. \A i, j \in 1 .. Len(q) : i < j => Key(i) # Key(j)
  <2>1. \A x \in S : ~ SetKeyBefore(f[x].key, f[x].key)
    BY KeysAreOrdered DEF Listing
  <2>2. QED
    BY <1>3, <1>4, <2>1
<1>6. \A i, j \in Nat : SetKeyBefore(InitialKey(i), InitialKey(j)) <=> i < j
  BY KeyOrder
<1>7. \A j : /\ InitialKey(j).initial = TRUE
             /\ \A x : SetKeyBefore(x, InitialKey(j)) => x.initial
  BY InitialKeyIs DEF SetKeyBefore
<1>8. \A i \in 1 .. Len(q) : Key(i).initial => \E j \in 1 .. n : Key(i) = InitialKey(j - 1)
  BY <1>3
<1>9. ASSUME NEW j \in 1 .. n
      PROVE  \E i \in 1 .. Len(q) : Key(i) = InitialKey(j - 1)
  <2>1. PICK x \in S : f[x].key = InitialKey(j - 1)
    OBVIOUS
  <2>2. PICK i \in 1 .. Len(q) : q[i] = x
    BY <1>2, <1>3
  <2>3. QED
    BY <2>1, <2>2
<1> DEFINE Good == { i \in 0 .. n : i <= Len(q) /\ \A m \in 1 .. i : Key(m) = InitialKey(m - 1) }
<1> HIDE DEF S, Key
<1>10. ASSUME NEW i \in 1 .. n, i - 1 \in Good
       PROVE  i \in Good
  <2>1. i - 1 <= Len(q) /\ \A m \in 1 .. i - 1 : Key(m) = InitialKey(m - 1)
    BY <1>10
  <2>2. PICK m \in 1 .. Len(q) : Key(m) = InitialKey(i - 1)
    BY <1>9
  <2>3. m >= i
    <3>1. SUFFICES ASSUME m < i PROVE FALSE
      BY <1>3
    <3>2. Key(m) = InitialKey(m - 1)
      BY <1>3, <2>1, <3>1
    <3>3. m - 1 = i - 1
      <4>1. InitialKey(m - 1) = InitialKey(i - 1)
        BY <2>2, <3>2
      <4>2. InitialKey(m - 1).pos = m - 1 /\ InitialKey(i - 1).pos = i - 1
        BY InitialKeyIs
      <4>3. QED
        BY <4>1, <4>2
    <3>4. QED
      BY <1>3, <3>1, <3>3
  <2>4. i \in 1 .. Len(q)
    BY <1>3, <2>3
  <2>5. m = i
    <3>1. SUFFICES ASSUME i < m PROVE FALSE
      BY <1>3, <2>3
    <3>2. SetKeyBefore(Key(i), InitialKey(i - 1))
      BY <1>4, <2>2, <2>4, <3>1
    <3>3. PICK j \in 1 .. n : Key(i) = InitialKey(j - 1)
      BY <1>7, <1>8, <2>4, <3>2
    <3>4. j < i
      <4>1. j - 1 \in Nat /\ i - 1 \in Nat
        OBVIOUS
      <4>2. j - 1 < i - 1
        BY <1>6, <3>2, <3>3, <4>1
      <4>3. QED
        BY <4>2
    <3>5. Key(j) = InitialKey(j - 1)
      BY <2>1, <3>4
    <3>6. QED
      BY <1>3, <1>5, <2>4, <3>3, <3>4, <3>5
  <2>6. \A l \in 1 .. i : Key(l) = InitialKey(l - 1)
    BY <2>1, <2>2, <2>5
  <2>7. QED
    BY <2>4, <2>6
<1>11. 0 \in Good
  BY <1>3
<1> HIDE DEF Good
<1>12. \A i \in 0 .. n : i \in Good
  BY <1>10, <1>11, CountingUp
<1>13. n <= Len(q) /\ \A i \in 1 .. n : Key(i) = InitialKey(i - 1)
  BY <1>12 DEF Good
<1>14. ASSUME NEW i \in 1 .. Len(q), Key(i).initial
       PROVE  Key(i) = InitialKey(i - 1)
  <2>1. PICK j \in 1 .. n : Key(i) = InitialKey(j - 1)
    BY <1>8, <1>14
  <2>2. j \in 1 .. Len(q) /\ Key(j) = Key(i)
    BY <1>3, <1>13, <2>1
  <2>3. i = j
    BY <1>3, <1>5, <2>2
  <2>4. QED
    BY <2>1, <2>3
<1>15. QED
  BY <1>13, <1>14 DEF InitialUpTo, Key

(* The clocks of a snapshot cover what has taken effect.                   *)
Saving(I, A, g, T, applied) ==
  /\ Effects(I, A, g)
  /\ \A o \in A : Admits(o) /\ Plausible(StampOf(o), T, applied)

LEMMA SnapshotSeqIs ==
  ASSUME NEW s, Tree(s), NEW vs, vs = SnapshotVertices(s), NEW w, w = Walk(s)
  PROVE  /\ DOMAIN vs = DOMAIN w /\ IDs(vs) = w /\ Len(vs) = Len(w)
         /\ \A i \in DOMAIN w :
              LET x == s.vertex[w[i]]
              IN  /\ vs[i].id = w[i] /\ vs[i].parent = x.parent /\ vs[i].key = x.key
                  /\ vs[i].deleted = x.deleted /\ vs[i].moveReg = x.moveReg
<1>1. vs = [i \in DOMAIN w |-> VertexRecord(s, w[i])]
  BY SnapshotVerticesAre
<1>2. w \in Seq(DOMAIN s.vertex) /\ Len(w) \in Nat /\ DOMAIN w = 1 .. Len(w)
  BY TreeWalk, ElementsOf
<1>3. \A v : LET r == VertexRecord(s, v)
                 x == s.vertex[v]
             IN  /\ r.id = v /\ r.parent = x.parent /\ r.key = x.key
                 /\ r.deleted = x.deleted /\ r.moveReg = x.moveReg
  BY DEF VertexRecord
<1> DEFINE n == Len(w)
           X == { VertexRecord(s, w[i]) : i \in 1 .. n }
<1>4. Len(vs) = n
  <2>1. n \in Nat /\ vs = [i \in 1 .. n |-> VertexRecord(s, w[i])]
    BY <1>1, <1>2
  <2> HIDE DEF n
  <2>2. \A i \in 1 .. n : VertexRecord(s, w[i]) \in X
    OBVIOUS
  <2> HIDE DEF X
  <2>3. vs \in Seq(X)
    BY <2>1, <2>2
  <2>4. Len(vs) \in Nat /\ DOMAIN vs = 1 .. Len(vs)
    BY <2>3
  <2>5. DOMAIN vs = 1 .. n
    BY <2>1
  <2>6. QED
    BY <2>1, <2>4, <2>5
<1>5. IDs(vs) = w
  <2>1. w = [i \in DOMAIN w |-> w[i]]
    BY <1>2
  <2>2. DOMAIN vs = DOMAIN w /\ \A i \in DOMAIN w : vs[i].id = w[i]
    BY <1>1, <1>3
  <2>3. QED
    BY <2>1, <2>2 DEF IDs
<1>6. QED
  BY <1>1, <1>3, <1>4, <1>5

(* The part and the ring of g that p and k name, written and checked.      *)
SnapshotSetting(I, A, g, T, applied, p, k) ==
  Saving(I, A, g, T, applied) /\ KnowsRing(g, p, k)

LEMMA VertexIsValid ==
  ASSUME NEW I, NEW A, NEW g, NEW T, NEW applied, NEW p, NEW k,
         SnapshotSetting(I, A, g, T, applied, p, k),
         NEW v, v \in DOMAIN SeqAt(g, p, k).vertex, NEW x, x = VertexAt(g, p, k, v)
  PROVE  LET pk == g.part[p].key
             rk == g.part[p].ring[k].key
         IN  /\ x.key.initial => x.parent = DerivedParent(pk, rk, x.key)
             /\ v = DerivedVertexID(pk, rk, x.key)
             /\ ~ x.key.initial => Plausible(x.key.stamp, T, applied)
             /\ x.moveReg # NoStamp => Plausible(x.moveReg, T, applied)
<1> DEFINE pk == g.part[p].key
           rk == g.part[p].ring[k].key
<1>1. ReflectsVertex(x, A, p, k, v, pk, rk)
  <2>1. KnowsVertex(g, p, k, v) /\ Effects(I, A, g)
    BY DEF SnapshotSetting, Saving, KnowsVertex, Has, SeqAt
  <2>2. QED
    BY <2>1, VertexComesFrom DEF VertexAt, SeqAt
<1>2. \A o \in A : Plausible(StampOf(o), T, applied)
  BY DEF SnapshotSetting, Saving
<1> HIDE DEF pk, rk
<1>3. ASSUME ~ x.key.initial
      PROVE  Plausible(x.key.stamp, T, applied)
  <2>1. PICK o \in A : x.key = OpKey(StampOf(o))
    BY <1>1, <1>3 DEF ReflectsVertex, At
  <2>2. x.key.stamp = StampOf(o)
    BY <2>1, OpKeyIs
  <2>3. QED
    BY <1>2, <2>2
<1>4. ASSUME x.moveReg # NoStamp
      PROVE  Plausible(x.moveReg, T, applied)
  <2>1. PICK o \in A : x.moveReg = StampOf(o)
    BY <1>1, <1>4 DEF ReflectsVertex, LastMove, On, At
  <2>2. QED
    BY <1>2, <2>1
<1>5. QED
  BY <1>1, <1>3, <1>4 DEF ReflectsVertex, pk, rk

(* A point stays the one vertex it came with.                              *)
LEMMA PointIsOne ==
  ASSUME NEW I, NEW A, NEW g, NEW T, NEW applied, NEW p, NEW k,
         SnapshotSetting(I, A, g, T, applied, p, k), PartType = "Point",
         NEW s, s = SeqAt(g, p, k)
  PROVE  Len(Walk(s)) = 1 /\ \A v \in DOMAIN s.vertex : ~ s.vertex[v].deleted
<1> DEFINE pk == g.part[p].key
           rk == g.part[p].ring[k].key
           first == DerivedVertexID(pk, rk, InitialKey(0))
<1>1. /\ ReflectsRing(g.part[p].ring[k], A, p, k, pk)
      /\ RingKey(rk)
  BY RingComesFrom DEF SnapshotSetting, Saving
<1>2. ReflectsSeq(s, A, p, k, pk, rk)
  BY <1>1 DEF ReflectsRing, SeqAt
<1>3. \A o \in A : o.action \notin {"insert_vertex", "delete_vertex", "add_ring"}
  <2>1. PartType # "Polygon"
    OBVIOUS
  <2>2. \A o \in A : Admits(o)
    BY DEF SnapshotSetting, Saving
  <2>3. QED
    BY <2>1, <2>2 DEF Admits
<1>4. Size(rk) = 1
  <2>1. rk.initial
    BY <1>1, <1>3 DEF ReflectsRing
  <2>2. rk.pos + 1 \in DOMAIN Shape
    BY <1>1, <2>1, RingKeyIs
  <2>3. Shape = << 1 >>
    BY GeometryAssumption
  <2>4. Shape[rk.pos + 1] = 1
    BY <2>2, <2>3
  <2>5. QED
    BY <2>1, <2>4 DEF Size
<1> HIDE DEF pk, rk
<1>5. ASSUME NEW v \in DOMAIN s.vertex
      PROVE  v = first /\ ~ s.vertex[v].deleted
  <2> DEFINE x == s.vertex[v]
  <2>1. ReflectsVertex(x, A, p, k, v, pk, rk)
    BY <1>2 DEF ReflectsSeq
  <2>2. x.key.initial
    BY <1>3, <2>1 DEF ReflectsVertex, At
  <2>3. ProperKey(x.key)
    BY <1>2 DEF ReflectsSeq, Tree, Planted
  <2>4. x.key = InitialKey(x.key.pos) /\ x.key.pos < 1
    BY <1>4, <2>1, <2>2 DEF ReflectsVertex
  <2>5. x.key.pos = 0
    BY <2>3, <2>4 DEF ProperKey
  <2>6. On(A, "delete_vertex", p, k, v) = {}
    BY <1>3 DEF On, At
  <2> HIDE DEF x
  <2>7. x.key = InitialKey(0)
    BY <2>4, <2>5
  <2>8. v = first /\ ~ x.deleted
    BY <2>1, <2>6, <2>7 DEF ReflectsVertex
  <2>9. QED
    BY <2>8 DEF x
<1>6. first \in DOMAIN s.vertex
  <2>1. \A i \in 1 .. 1 : DerivedVertexID(pk, rk, InitialKey(i - 1)) \in DOMAIN s.vertex
    BY <1>2, <1>4 DEF ReflectsSeq
  <2>2. DerivedVertexID(pk, rk, InitialKey(1 - 1)) \in DOMAIN s.vertex
    BY <2>1
  <2>3. QED
    BY <2>2
<1> HIDE DEF first
<1>7. DOMAIN s.vertex = {first}
  BY <1>5, <1>6
<1>8. Len(Walk(s)) = Cardinality(DOMAIN s.vertex)
  BY <1>2, TreeWalk DEF ReflectsSeq
<1>9. Cardinality({first}) = 1
  BY FS_Singleton
<1>10. QED
  BY <1>5, <1>7, <1>8, <1>9

LEMMA VerticesDiffer ==
  ASSUME NEW s, Tree(s), NEW v \in DOMAIN s.vertex, NEW w \in DOMAIN s.vertex, v # w
  PROVE  s.vertex[v].key # s.vertex[w].key
<1>1. Elder(s.vertex, v, w) \/ Elder(s.vertex, w, v)
  BY DEF Tree, Planted
<1>2. ProperKey(s.vertex[v].key)
  BY DEF Tree, Planted
<1>3. ~ SetKeyBefore(s.vertex[v].key, s.vertex[v].key)
  BY <1>2, KeysAreOrdered
<1>4. QED
  BY <1>1, <1>3 DEF Elder

LEMMA RingIsValid ==
  ASSUME NEW I, NEW A, NEW g, NEW T, NEW applied, NEW p, NEW k,
         SnapshotSetting(I, A, g, T, applied, p, k),
         NEW rs, rs = SnapshotRing(k, g.part[p].ring[k]), NEW pk, pk = g.part[p].key
  PROVE  ValidRing(rs, pk, T, applied)
<1> DEFINE ring == g.part[p].ring[k]
           s == SeqAt(g, p, k)
           w == Walk(s)
           vs == SnapshotVertices(s)
           rk == ring.key
<1>1. ReflectsRing(ring, A, p, k, pk)
  BY RingComesFrom DEF SnapshotSetting, Saving
<1>2. s = ring.seq
  BY DEF SeqAt
<1>3. Tree(s)
  BY <1>1, <1>2 DEF ReflectsRing, ReflectsSeq
<1>4. rs.key = rk /\ rs.vertices = vs
  BY <1>2, SnapshotRingIs
<1>5. Walk(RestoreRing(rs).seq) = w
  <2>1. RestoreRing(rs) = ring
    BY <1>1, RingRestored
  <2>2. QED
    BY <1>2, <2>1
<1> HIDE DEF ring, s, w, vs
<1>6. /\ Len(w) \in Nat /\ DOMAIN w = 1 .. Len(w)
      /\ \A i, j \in 1 .. Len(w) : w[i] = w[j] => i = j
      /\ \A i \in 1 .. Len(w) :
           /\ w[i] \in DOMAIN s.vertex
           /\ s.vertex[w[i]].parent = Root
                \/ \E j \in 1 .. i - 1 : w[j] = s.vertex[w[i]].parent
  BY <1>3, ParentsFirst DEF w
<1>7. /\ DOMAIN vs = DOMAIN w /\ IDs(vs) = w /\ Len(vs) = Len(w)
      /\ \A i \in DOMAIN w :
           LET x == s.vertex[w[i]]
           IN  /\ vs[i].id = w[i] /\ vs[i].parent = x.parent /\ vs[i].key = x.key
               /\ vs[i].deleted = x.deleted /\ vs[i].moveReg = x.moveReg
  BY <1>3, SnapshotSeqIs DEF w, vs
<1>8. ASSUME NEW i \in DOMAIN vs
      PROVE  LET v == vs[i]
             IN  /\ v.parent = Root \/ \E j \in 1 .. (i - 1) : vs[j].id = v.parent
                 /\ v.key.initial => v.parent = DerivedParent(pk, rk, v.key)
                 /\ v.id = DerivedVertexID(pk, rk, v.key)
                 /\ ~ v.key.initial => Plausible(v.key.stamp, T, applied)
                 /\ v.moveReg # NoStamp => Plausible(v.moveReg, T, applied)
  <2> DEFINE id == w[i]
             x == s.vertex[id]
             y == vs[i]
  <2>1. i \in 1 .. Len(w) /\ id \in DOMAIN s.vertex
    BY <1>6, <1>7
  <2>2. y.id = id /\ y.parent = x.parent /\ y.key = x.key /\ y.moveReg = x.moveReg
    BY <1>7
  <2>3. y.parent = Root \/ \E j \in 1 .. (i - 1) : vs[j].id = y.parent
    <3>1. CASE x.parent = Root
      BY <2>2, <3>1
    <3>2. CASE \E j \in 1 .. i - 1 : w[j] = x.parent
      <4>1. PICK j \in 1 .. i - 1 : w[j] = x.parent
        BY <3>2
      <4>2. j \in DOMAIN w
        BY <1>6, <2>1, <4>1
      <4>3. vs[j].id = w[j]
        BY <1>7, <4>2
      <4>4. QED
        BY <2>2, <4>1, <4>3
    <3>3. QED
      BY <1>6, <2>1, <3>1, <3>2
  <2>4. id \in DOMAIN SeqAt(g, p, k).vertex /\ x = VertexAt(g, p, k, id)
    BY <2>1 DEF s, VertexAt
  <2> HIDE DEF id, x
  <2>5. /\ x.key.initial => x.parent = DerivedParent(pk, rk, x.key)
        /\ id = DerivedVertexID(pk, rk, x.key)
        /\ ~ x.key.initial => Plausible(x.key.stamp, T, applied)
        /\ x.moveReg # NoStamp => Plausible(x.moveReg, T, applied)
    <3>1. rk = g.part[p].ring[k].key
      BY DEF ring
    <3> HIDE DEF rk
    <3>2. QED
      BY <2>4, <3>1, VertexIsValid
  <2> HIDE DEF rk, y
  <2>6. /\ y.key.initial => y.parent = DerivedParent(pk, rk, y.key)
        /\ y.id = DerivedVertexID(pk, rk, y.key)
        /\ ~ y.key.initial => Plausible(y.key.stamp, T, applied)
        /\ y.moveReg # NoStamp => Plausible(y.moveReg, T, applied)
    BY <2>2, <2>5
  <2>7. QED
    BY <2>3, <2>6 DEF y
<1>9. ASSUME NEW i \in DOMAIN vs, NEW j \in DOMAIN vs, i # j
      PROVE  /\ vs[i].id # vs[j].id
             /\ << vs[i].parent, vs[i].key >> # << vs[j].parent, vs[j].key >>
  <2>1. w[i] # w[j] /\ w[i] \in DOMAIN s.vertex /\ w[j] \in DOMAIN s.vertex
    BY <1>6, <1>7, <1>9
  <2>2. s.vertex[w[i]].key # s.vertex[w[j]].key
    BY <1>3, <2>1, VerticesDiffer
  <2>3. /\ vs[i].id = w[i] /\ vs[i].key = s.vertex[w[i]].key
        /\ vs[j].id = w[j] /\ vs[j].key = s.vertex[w[j]].key
    BY <1>7
  <2>4. QED
    BY <2>1, <2>2, <2>3
<1>10. ASSUME PartType = "Point"
       PROVE  Len(vs) = 1 /\ ~ vs[1].deleted
  <2>1. Len(w) = 1 /\ \A v \in DOMAIN s.vertex : ~ s.vertex[v].deleted
    BY <1>10, PointIsOne DEF w, s
  <2>2. 1 \in DOMAIN w /\ w[1] \in DOMAIN s.vertex
    BY <1>6, <2>1
  <2>3. QED
    BY <1>7, <2>1, <2>2
<1> HIDE DEF rk
<1>11. QED
  BY <1>4, <1>5, <1>7, <1>8, <1>9, <1>10 DEF ValidRing

LEMMA LastOfBaseRing ==
  ASSUME NEW p
  PROVE  Last(BaseRing(p)) = 0
<1>1. CASE p = InitialPartID(0)
  <2>1. BaseRing(p) = << "ring", 0, 0 >>
    BY <1>1 DEF BaseRing, InitialRingID
  <2>2. QED
    BY <2>1 DEF Last
<1>2. CASE p # InitialPartID(0)
  <2>1. BaseRing(p) = << "ring", p[2], p[3], 0 >>
    BY <1>2 DEF BaseRing
  <2>2. QED
    BY <2>1 DEF Last
<1>3. QED
  BY <1>1, <1>2

(* The rings of the shape come first, and the exterior is never removed.   *)
LEMMA RingsInPlace ==
  ASSUME NEW I, NEW A, NEW g, NEW T, NEW applied, Saving(I, A, g, T, applied),
         NEW p \in DOMAIN g.part
  PROVE  InitialUpTo(g.part[p].rings, g.part[p].ring, Len(Shape))
<1> DEFINE q == g.part[p].rings
           f == g.part[p].ring
           pk == g.part[p].key
           n == Len(Shape)
<1>1. Effects(I, A, g) /\ KnowsPart(g, p)
  BY DEF Saving, KnowsPart
<1>2. Listing(q, f)
  BY <1>1, PartComesFrom DEF ReflectsPart
<1>3. n \in Nat /\ DOMAIN Shape = 1 .. n
  BY ShapeIs
<1> HIDE DEF q, f, pk, n
<1>4. ASSUME NEW k \in DOMAIN f, f[k].key.initial
      PROVE  \E j \in 1 .. n : f[k].key = InitialKey(j - 1)
  <2>1. KnowsRing(g, p, k)
    BY <1>1, <1>4 DEF KnowsRing, f
  <2>2. RingKey(f[k].key)
    BY <1>1, <2>1, RingComesFrom DEF f
  <2> DEFINE j == f[k].key.pos + 1
  <2>3. f[k].key = InitialKey(f[k].key.pos) /\ j \in 1 .. n /\ f[k].key.pos \in Nat
    BY <1>3, <1>4, <2>2, RingKeyIs
  <2>4. f[k].key.pos = j - 1
    BY <2>3
  <2>5. QED
    BY <2>3, <2>4
<1>5. ASSUME NEW j \in 1 .. n
      PROVE  \E k \in DOMAIN f : f[k].key = InitialKey(j - 1)
  <2> DEFINE k == DerivedRingID(pk, InitialKey(j - 1))
  <2>1. RingFrom(A, p, k, pk, InitialKey(j - 1))
    BY <1>3 DEF RingFrom
  <2> HIDE DEF k
  <2>2. KnowsRing(g, p, k) /\ f[k].key = InitialKey(j - 1)
    BY <1>1, <2>1, RingIsThere DEF pk, f
  <2>3. QED
    BY <2>2 DEF KnowsRing, f
<1>6. InitialUpTo(q, f, n)
  BY <1>2, <1>3, <1>4, <1>5, InitialComeFirst
<1>7. QED
  BY <1>6 DEF q, f, n

(* What is checked of one ring of a part, the i-th.                        *)
RingInPart(rs, pk, i, T, applied) ==
  /\ rs.id = DerivedRingID(pk, rs.key)
  /\ rs.key.initial => rs.key.pos = i - 1
  /\ ~ rs.key.initial => /\ PartType = "Polygon"
                         /\ Plausible(rs.key.stamp, T, applied)
  /\ rs.exterior <=> PartType = "Polygon" /\ i = 1
  /\ rs.exterior => ~ rs.deleted
  /\ ValidRing(rs, pk, T, applied)

LEMMA RingInPartIsValid ==
  ASSUME NEW I, NEW A, NEW g, NEW T, NEW applied, Saving(I, A, g, T, applied),
         NEW p \in DOMAIN g.part, NEW q, q = g.part[p].rings, NEW i \in 1 .. Len(q),
         NEW k, k = q[i], KnowsRing(g, p, k),
         NEW pk, pk = g.part[p].key, NEW rs, rs = SnapshotRing(k, g.part[p].ring[k])
  PROVE  RingInPart(rs, pk, i, T, applied)
<1> DEFINE ring == g.part[p].ring[k]
           rk == ring.key
<1>1. SnapshotSetting(I, A, g, T, applied, p, k) /\ Effects(I, A, g)
  BY DEF SnapshotSetting, Saving
<1>2. ReflectsRing(ring, A, p, k, pk) /\ PartKey(pk) /\ RingKey(rk)
  BY <1>1, RingComesFrom
<1>3. /\ rs.id = k /\ rs.key = rk /\ rs.deleted = ring.deleted
      /\ rs.exterior = ring.exterior
  BY SnapshotRingIs
<1>4. ValidRing(rs, pk, T, applied)
  BY <1>1, RingIsValid
<1>5. InitialUpTo(q, g.part[p].ring, Len(Shape))
  BY RingsInPlace
<1>6. rk.initial => rk = InitialKey(i - 1)
  BY <1>5 DEF InitialUpTo
<1>7. i = 1 => rk = InitialKey(0)
  <2>1. 1 \in 1 .. Len(Shape)
    BY ShapeIs
  <2>2. g.part[p].ring[q[1]].key = InitialKey(1 - 1)
    BY <1>5, <2>1 DEF InitialUpTo
  <2>3. QED
    BY <2>2
<1> HIDE DEF ring, rk
<1>8. rk.initial => rk.pos = i - 1
  BY <1>6, InitialKeyIs
<1>9. ASSUME ~ rk.initial
      PROVE  PartType = "Polygon" /\ Plausible(rk.stamp, T, applied)
  <2>1. PICK o \in A : o.action = "add_ring" /\ rk = OpKey(StampOf(o))
    BY <1>2, <1>9 DEF ReflectsRing, rk
  <2>2. Admits(o) /\ Plausible(StampOf(o), T, applied)
    BY DEF Saving
  <2>3. rk.stamp = StampOf(o)
    BY <2>1, OpKeyIs
  <2>4. QED
    BY <2>1, <2>2, <2>3 DEF Admits
<1>10. rk.initial /\ rk.pos = 0 <=> i = 1
  <2>1. rk.initial /\ rk.pos = 0 => i = 1
    BY <1>8
  <2>2. i = 1 => rk.initial /\ rk.pos = 0
    BY <1>7, InitialKeyIs
  <2>3. QED
    BY <2>1, <2>2
<1>11. ring.exterior <=> PartType = "Polygon" /\ i = 1
  BY <1>2, <1>10 DEF ReflectsRing, rk
<1>12. ASSUME ring.exterior, ring.deleted
       PROVE  FALSE
  <2>1. PartType = "Polygon" /\ rk = InitialKey(0)
    BY <1>7, <1>11, <1>12
  <2>2. k = DerivedRingID(pk, InitialKey(0))
    BY <1>2, <2>1 DEF ReflectsRing, rk
  <2>3. k = BaseRing(DerivedPartID(pk))
    BY <1>2, <2>2, RingIDs
  <2>4. Last(k) = 0
    BY <2>3, LastOfBaseRing
  <2>5. PICK o \in A : o.action = "remove_ring" /\ o.ring = k
    BY <1>2, <1>12 DEF ReflectsRing, At
  <2>6. Admits(o)
    BY DEF Saving
  <2>7. QED
    BY <2>1, <2>4, <2>5, <2>6 DEF Admits
<1>13. k = DerivedRingID(pk, rk)
  BY <1>2 DEF ReflectsRing, rk
<1>14. QED
  BY <1>3, <1>4, <1>8, <1>9, <1>11, <1>12, <1>13 DEF RingInPart

LEMMA PartIsValid ==
  ASSUME NEW I, NEW A, NEW g, NEW T, NEW applied, Saving(I, A, g, T, applied),
         NEW p \in DOMAIN g.part, NEW ps, ps = SnapshotPart(p, g.part[p])
  PROVE  ValidPart(ps, T, applied)
<1> DEFINE part == g.part[p]
           q == part.rings
           f == part.ring
           pk == part.key
           e == SnapshotRings(part)
<1>1. ReflectsPart(part, A, p) /\ Effects(I, A, g) /\ KnowsPart(g, p)
  BY PartComesFrom DEF Saving, KnowsPart
<1>2. Listing(q, f)
  BY <1>1 DEF ReflectsPart
<1>3. ps.key = pk /\ ps.rings = e
  BY SnapshotPartIs
<1>4. IDs(e) = q /\ IsFunction(e) /\ DOMAIN e = DOMAIN q
  BY <1>1, SnapshotRingsAre
<1>5. \A i \in DOMAIN q : e[i] = SnapshotRing(q[i], f[q[i]])
  BY DEF SnapshotRings
<1>6. InitialUpTo(q, f, Len(Shape))
  BY RingsInPlace
<1> HIDE DEF part, e
<1>7. \A i \in DOMAIN e : e[i].key = f[q[i]].key
  BY <1>4, <1>5, SnapshotRingIs
<1>8. DistinctIDs(e) /\ StrictlyOrdered(e) /\ Len(e) = Len(q) /\ DOMAIN e = 1 .. Len(q)
  BY <1>2, <1>4, <1>7, ListedStrictly
<1>9. \A i \in 1 .. Len(q) : q[i] \in DOMAIN f /\ KnowsRing(g, p, q[i])
  <2>1. q \in Seq(DOMAIN f)
    BY <1>2 DEF Listing
  <2>2. QED
    BY <1>1, <2>1, ElementsOf DEF KnowsRing, part
<1>10. Len(Shape) \in Nat /\ Len(Shape) >= 1 /\ Len(q) \in Nat
  <2>1. q \in Seq(DOMAIN f)
    BY <1>2 DEF Listing
  <2>2. Len(q) \in Nat
    BY <2>1, ElementsOf
  <2>3. QED
    BY <2>2, ShapeIs
<1>11. ASSUME NEW i \in DOMAIN e
       PROVE  RingInPart(e[i], pk, i, T, applied)
  <2>1. i \in 1 .. Len(q) /\ KnowsRing(g, p, q[i])
    BY <1>8, <1>9
  <2>2. e[i] = SnapshotRing(q[i], g.part[p].ring[q[i]])
    BY <1>4, <1>5 DEF part
  <2>3. q = g.part[p].rings /\ pk = g.part[p].key
    BY DEF part
  <2> HIDE DEF q, f, pk
  <2>4. QED
    BY <2>1, <2>2, <2>3, RingInPartIsValid
<1>12. e # << >>
  <2>1. Len(e) >= 1
    BY <1>6, <1>8, <1>10 DEF InitialUpTo
  <2>2. QED
    BY <1>8, <1>10, <2>1
<1>13. ASSUME PartType # "Polygon"
       PROVE  Len(e) = 1
  <2>1. Len(Shape) = 1
    BY <1>13, GeometryAssumption
  <2>2. ASSUME NEW i \in 1 .. Len(q)
        PROVE  i = 1
    <3> DEFINE key == f[q[i]].key
    <3>1. RingKey(key) /\ ReflectsRing(f[q[i]], A, p, q[i], pk)
      BY <1>1, <1>9, RingComesFrom DEF part
    <3>2. key.initial
      <4>1. SUFFICES ASSUME ~ key.initial PROVE FALSE
        OBVIOUS
      <4>2. PICK o \in A : o.action = "add_ring"
        BY <3>1, <4>1 DEF ReflectsRing
      <4>3. QED
        BY <1>13, <4>2 DEF Saving, Admits
    <3>3. key.pos + 1 \in DOMAIN Shape
      BY <3>1, <3>2, RingKeyIs
    <3>4. key = InitialKey(i - 1)
      BY <1>6, <3>2 DEF InitialUpTo
    <3>5. key.pos = i - 1
      BY <3>4, InitialKeyIs
    <3>6. DOMAIN Shape = 1 .. 1
      BY <2>1, ShapeIs
    <3> HIDE DEF key
    <3>7. QED
      BY <3>3, <3>5, <3>6
  <2>3. Len(q) >= 1
    BY <1>6, <2>1 DEF InitialUpTo
  <2>4. Len(q) \in 1 .. Len(q)
    BY <1>10, <2>3
  <2>5. QED
    BY <1>8, <2>2, <2>4
<1> HIDE DEF q, f, pk
<1>14. QED
  BY <1>3, <1>8, <1>11, <1>12, <1>13 DEF ValidPart, RingInPart

(* The part a geometry starts with is listed first.                        *)
LEMMA PartsInPlace ==
  ASSUME NEW I, NEW A, NEW g, Effects(I, A, g)
  PROVE  InitialUpTo(g.parts, g.part, 1)
<1> DEFINE q == g.parts
           f == g.part
<1>1. Listing(q, f)
  BY DEF Effects, Reflects
<1>2. \A p \in DOMAIN f : PartKey(f[p].key)
  BY PartComesFrom
<1>3. KnowsPart(g, InitialPartID(0)) /\ f[InitialPartID(0)].key = InitialKey(0)
  <2>1. PartFrom(A, InitialPartID(0), InitialKey(0))
    BY DEF PartFrom
  <2>2. QED
    BY <2>1, PartIsThere
<1>4. InitialPartID(0) \in DOMAIN f
  BY <1>3 DEF KnowsPart
<1> HIDE DEF q, f
<1>5. ASSUME NEW p \in DOMAIN f, f[p].key.initial
      PROVE  \E j \in 1 .. 1 : f[p].key = InitialKey(j - 1)
  <2>1. f[p].key = InitialKey(1 - 1)
    BY <1>2, <1>5, PartKeyIs
  <2>2. QED
    BY <2>1
<1>6. ASSUME NEW j \in 1 .. 1
      PROVE  \E p \in DOMAIN f : f[p].key = InitialKey(j - 1)
  <2>1. j - 1 = 0
    OBVIOUS
  <2>2. QED
    BY <1>3, <1>4, <2>1
<1>7. InitialUpTo(q, f, 1)
  BY <1>1, <1>5, <1>6, InitialComeFirst
<1>8. QED
  BY <1>7 DEF q, f

LEMMA GeometrySnapshotIsValid ==
  ASSUME NEW I, NEW A, NEW g, NEW T, NEW applied, Saving(I, A, g, T, applied)
  PROVE  ValidGeometrySnapshot(SnapshotGeometry(g), T, applied)
<1> DEFINE q == g.parts
           f == g.part
           e == SnapshotGeometry(g)
<1>1. Effects(I, A, g) /\ \A o \in A : Admits(o) /\ Plausible(StampOf(o), T, applied)
  BY DEF Saving
<1>2. Listing(q, f) /\ Reflects(g, A)
  BY <1>1 DEF Effects, Reflects
<1>3. /\ IDs(e) = q /\ IsFunction(e) /\ DOMAIN e = DOMAIN q
      /\ \A i \in DOMAIN e : e[i] = SnapshotPart(q[i], f[q[i]])
  BY <1>2, SnapshotPartsAre
<1>4. InitialUpTo(q, f, 1)
  BY <1>1, PartsInPlace
<1> HIDE DEF e
<1>5. \A i \in DOMAIN e : /\ e[i].id = q[i] /\ e[i].key = f[q[i]].key
                          /\ e[i].deleted = f[q[i]].deleted
  BY <1>3, SnapshotPartIs
<1>6. DistinctIDs(e) /\ StrictlyOrdered(e) /\ Len(e) = Len(q) /\ DOMAIN e = 1 .. Len(q)
  BY <1>2, <1>3, <1>5, ListedStrictly
<1>7. Len(q) \in Nat /\ \A i \in 1 .. Len(q) : q[i] \in DOMAIN f
  <2>1. q \in Seq(DOMAIN f)
    BY <1>2 DEF Listing
  <2>2. QED
    BY <2>1, ElementsOf
<1>8. \A p \in DOMAIN f : ReflectsPart(f[p], A, p) /\ PartKey(f[p].key)
  BY <1>1, PartComesFrom
<1>9. ASSUME NEW i \in DOMAIN e
      PROVE  ValidPart(e[i], T, applied)
  <2>1. q[i] \in DOMAIN g.part /\ e[i] = SnapshotPart(q[i], g.part[q[i]])
    BY <1>3, <1>6, <1>7
  <2> HIDE DEF q, f
  <2>2. QED
    BY <2>1, PartIsValid
<1> HIDE DEF q, f
<1>10. ASSUME NEW i \in DOMAIN e
       PROVE  /\ e[i].id = DerivedPartID(e[i].key)
              /\ e[i].key.initial => e[i].key.pos = i - 1
              /\ ~ e[i].key.initial => IsMulti /\ Plausible(e[i].key.stamp, T, applied)
  <2> DEFINE p == q[i]
             key == f[p].key
  <2>1. i \in 1 .. Len(q) /\ p \in DOMAIN f /\ e[i].id = p /\ e[i].key = key
    BY <1>5, <1>6, <1>7
  <2>2. ReflectsPart(f[p], A, p)
    BY <1>8, <2>1
  <2>3. key.initial => key = InitialKey(i - 1)
    BY <1>4, <2>1 DEF InitialUpTo
  <2>4. p = DerivedPartID(key)
    BY <2>2 DEF ReflectsPart
  <2>5. ASSUME ~ key.initial
        PROVE  IsMulti /\ Plausible(key.stamp, T, applied)
    <3>1. PICK o \in A : o.action = "add_part" /\ key = OpKey(StampOf(o))
      BY <2>2, <2>5 DEF ReflectsPart
    <3>2. key.stamp = StampOf(o)
      BY <3>1, OpKeyIs
    <3>3. QED
      BY <1>1, <3>1, <3>2 DEF Admits
  <2> HIDE DEF p, key
  <2>6. key.initial => key.pos = i - 1
    BY <2>3, InitialKeyIs
  <2>7. QED
    BY <2>1, <2>4, <2>5, <2>6
<1>11. ASSUME ~ IsMulti
       PROVE  Len(e) = 1 /\ ~ e[1].deleted
  <2>1. \A o \in A : o.action \notin {"add_part", "remove_part"}
    BY <1>1, <1>11 DEF Admits
  <2>2. ASSUME NEW i \in 1 .. Len(q)
        PROVE  i = 1
    <3> DEFINE key == f[q[i]].key
    <3>1. ReflectsPart(f[q[i]], A, q[i]) /\ PartKey(key)
      BY <1>7, <1>8
    <3>2. key.initial
      BY <2>1, <3>1 DEF ReflectsPart
    <3>3. key = InitialKey(0)
      BY <3>1, <3>2, PartKeyIs
    <3>4. key = InitialKey(i - 1)
      BY <1>4, <3>2 DEF InitialUpTo
    <3> HIDE DEF key
    <3>5. InitialKey(i - 1).pos = i - 1 /\ InitialKey(0).pos = 0
      BY InitialKeyIs
    <3>6. i - 1 = 0
      BY <3>3, <3>4, <3>5
    <3>7. QED
      BY <3>6
  <2>3. Len(q) >= 1
    BY <1>4 DEF InitialUpTo
  <2>4. 1 \in 1 .. Len(q) /\ Len(q) \in 1 .. Len(q)
    BY <1>7, <2>3
  <2>5. Len(e) = 1
    BY <1>6, <2>2, <2>4
  <2>6. ReflectsPart(f[q[1]], A, q[1])
    BY <1>7, <1>8, <2>4
  <2>7. ~ f[q[1]].deleted
    BY <2>1, <2>6 DEF ReflectsPart
  <2>8. QED
    BY <1>5, <1>6, <2>4, <2>5, <2>7
<1>12. ValidGeometrySnapshot(e, T, applied)
  BY <1>6, <1>9, <1>10, <1>11 DEF ValidGeometrySnapshot
<1>13. QED
  BY <1>12 DEF e

(* The number up to which the operations of a site are known.              *)
LatestOf(ops, s) == Max({0} \cup {op.seq : op \in {o \in ops : o.site = s}})

LEMMA LatestCovers ==
  ASSUME NEW ops, \A o \in ops : o.seq \in Number, NEW op \in ops
  PROVE  op.seq <= LatestOf(ops, op.site)
<1> DEFINE S == {0} \cup {o.seq : o \in {x \in ops : x.site = op.site}}
<1>1. S \subseteq Count /\ S # {} /\ op.seq \in S
  BY NumbersAre
<1> HIDE DEF S
<1>2. Max(S) \in S /\ \A n \in S : Max(S) >= n
  BY <1>1, MaxOfCounts
<1>3. Max(S) \in Nat /\ op.seq \in Nat
  BY <1>1, <1>2, NumbersAre
<1>4. QED
  BY <1>1, <1>2, <1>3 DEF LatestOf, S

LEMMA IInvReloadIsFaithful == IInv => ReloadIsFaithful
<1> SUFFICES ASSUME IInv, NEW r \in Replica
             PROVE  LET g    == engine[r]
                        back == Reload(g)
                    IN  /\ ValidGeometrySnapshot(SnapshotGeometry(g), clock[r],
                             [s \in Site |-> LatestOf(log[r], s)])
                        /\ back.parts = g.parts /\ back.part = g.part
                        /\ \A dep \in DOMAIN back.pending \cup DOMAIN g.pending :
                             ToSet(Waiting(back, dep)) = ToSet(Waiting(g, dep))
  BY DEF ReloadIsFaithful, LatestOf
<1> DEFINE g == engine[r]
           L == log[r]
           A == Done(g, L)
           applied == [s \in Site |-> LatestOf(L, s)]
<1>1. Exchange(issued) /\ ReplicaInv(r) /\ Effects(issued, A, g)
  BY ReplicaEffects
<1>2. /\ Settled(L, reported[r], g) /\ L \subseteq issued
      /\ \A o \in L : o.ts <= clock[r]
  BY <1>1 DEF ReplicaInv
<1>3. \A o \in issued : o.seq \in Number /\ o.site \in Site
  BY StampsAreNumbers
<1>4. ASSUME NEW o \in A
      PROVE  Admits(o) /\ Plausible(StampOf(o), clock[r], applied)
  <2>1. o \in L /\ Admits(o)
    BY <1>4 DEF Done
  <2>2. o.ts <= clock[r] /\ o.site \in Site
    BY <1>2, <1>3, <2>1
  <2>3. o.seq <= LatestOf(L, o.site)
    BY <1>2, <1>3, <2>1, LatestCovers
  <2>4. applied[o.site] = LatestOf(L, o.site)
    BY <2>2
  <2> HIDE DEF applied
  <2>5. QED
    BY <2>1, <2>2, <2>3, <2>4, StampIs DEF Plausible
<1> HIDE DEF g, L, A, applied
<1>5. Saving(issued, A, g, clock[r], applied)
  BY <1>1, <1>4 DEF Saving
<1>6. ValidGeometrySnapshot(SnapshotGeometry(g), clock[r], applied)
  BY <1>5, GeometrySnapshotIsValid
<1>7. ReloadedAs(g, Reload(g))
  BY <1>1, <1>2, Reloaded
<1>8. QED
  BY <1>6, <1>7 DEF ReloadedAs, g, L, applied

(* The snapshot of a geometry is accepted whenever it is taken, and        *)
(* reading it back and applying the operations that waited gives the same  *)
(* parts, rings, vertices, tombstones and registers, and the same queues.  *)
THEOREM ReloadsBringEverythingBack == Spec => []ReloadIsFaithful
<1>1. IInv => ReloadIsFaithful
  BY IInvReloadIsFaithful
<1>2. QED
  BY <1>1, InvariantHolds, PTL
===============================================================================
