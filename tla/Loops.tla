--------------------------------- MODULE Loops ---------------------------------
(***************************************************************************)
(* The loops of the code are recursive functions here, which TLA+ defines  *)
(* by CHOOSE: there has to be one.  Step is the body of a loop; a module   *)
(* that proves something about a loop instantiates this one with its body. *)
(***************************************************************************)
EXTENDS SiteClocksProofs

CONSTANTS
  Step(_, _, _),        \* context, value so far, where the loop is
  Pick(_)               \* the last of a batch

(* A loop that counts from 1 to n.                                         *)
Counted(c, base, n) ==
  LET f[i \in 0 .. n] == IF i = 0 THEN base ELSE Step(c, f[i - 1], i)
  IN  f

(* A loop over a batch, which ends with the last of it.                    *)
Batched(c, base, ops) ==
  LET f[done \in SUBSET ops] ==
        IF done = {} THEN base ELSE Step(c, f[done \ {Pick(done)}], Pick(done))
  IN  f

(* What makes it end, and what it comes to.                                *)
Sized(ops, size) ==
  /\ \A done \in SUBSET ops : size[done] \in Nat /\ size[done] <= size[ops]
  /\ \A done \in SUBSET ops : done # {} =>
       Pick(done) \in done /\ size[done \ {Pick(done)}] < size[done]

Follows(f, c, base, ops) ==
  /\ f[{}] = base
  /\ \A done \in SUBSET ops : done # {} =>
       f[done] = Step(c, f[done \ {Pick(done)}], Pick(done))

THEOREM CountedLoop ==
  ASSUME NEW c, NEW base, NEW n \in Nat
  PROVE  LET f == Counted(c, base, n)
         IN  f[0] = base /\ \A i \in 1 .. n : f[i] = Step(c, f[i - 1], i)
<1> DEFINE Works(g, m) == g[0] = base /\ \A i \in 1 .. m : g[i] = Step(c, g[i - 1], i)
           Bad == {m \in Nat : ~ \E g : Works(g, m)}
<1>1. \E g : Works(g, 0)
  <2> DEFINE g == [i \in {0} |-> base]
  <2>1. Works(g, 0)
    OBVIOUS
  <2>2. QED
    BY <2>1
<1>2. ASSUME NEW m \in Nat, NEW g, Works(g, m)
      PROVE  \E h : Works(h, m + 1)
  <2> DEFINE h == [i \in 0 .. m + 1 |-> IF i = m + 1 THEN Step(c, g[m], m + 1) ELSE g[i]]
  <2>1. h[0] = base
    BY <1>2
  <2>2. ASSUME NEW i \in 1 .. m + 1
        PROVE  h[i] = Step(c, h[i - 1], i)
    <3>1. h[i - 1] = g[i - 1]
      OBVIOUS
    <3>2. CASE i = m + 1
      <4>1. h[i] = Step(c, g[m], m + 1)
        BY <3>2
      <4>2. g[m] = g[i - 1] /\ m + 1 = i
        BY <3>2
      <4> HIDE DEF h
      <4>3. QED
        BY <3>1, <4>1, <4>2
    <3>3. CASE i # m + 1
      <4>1. h[i] = g[i] /\ i \in 1 .. m
        BY <3>3
      <4> HIDE DEF h
      <4>2. QED
        BY <1>2, <3>1, <4>1
    <3>4. QED
      BY <3>2, <3>3
  <2> HIDE DEF h
  <2>3. Works(h, m + 1)
    BY <2>1, <2>2
  <2>4. QED
    BY <2>3
<1>3. Bad = {}
  <2> SUFFICES ASSUME Bad # {} PROVE FALSE
    OBVIOUS
  <2>1. PICK m \in Bad : \A k \in Bad : m <= k
    <3>1. Bad \in SUBSET Nat
      OBVIOUS
    <3> HIDE DEF Bad
    <3>2. QED
      BY <3>1, LeastNumber
  <2>2. m # 0 /\ m \in Nat /\ ~ \E g : Works(g, m)
    BY <1>1, <2>1
  <2>3. m - 1 \in Nat /\ m = (m - 1) + 1
    BY <2>2
  <2>4. m - 1 \notin Bad
    <3> HIDE DEF Bad
    <3>1. QED
      BY <2>1, <2>2, <2>3
  <2>5. PICK g : Works(g, m - 1)
    BY <2>3, <2>4
  <2> HIDE DEF Works
  <2>6. QED
    BY <1>2, <2>2, <2>3, <2>5
<1>4. PICK g : Works(g, n)
  BY <1>3
<1> DEFINE Body(a) == [i \in 0 .. n |-> IF i = 0 THEN base ELSE Step(c, a[i - 1], i)]
           h == [i \in 0 .. n |-> g[i]]
           f == Counted(c, base, n)
<1>5. h = Body(h)
  <2>1. ASSUME NEW i \in 0 .. n
        PROVE  g[i] = IF i = 0 THEN base ELSE Step(c, g[i - 1], i)
    BY <1>4
  <2>2. ASSUME NEW i \in 1 .. n
        PROVE  h[i - 1] = g[i - 1]
    OBVIOUS
  <2>3. QED
    BY <2>1, <2>2
<1> HIDE DEF h
<1>6. f = CHOOSE a : a = Body(a)
  BY DEF Counted
<1> HIDE DEF f
<1>7. f = Body(f)
  BY <1>5, <1>6, Zenon
<1>8. Body(f)[0] = base
  OBVIOUS
<1>9. ASSUME NEW i \in 1 .. n
      PROVE  Body(f)[i] = Step(c, f[i - 1], i)
  OBVIOUS
<1> HIDE DEF Body
<1>10. QED
  BY <1>7, <1>8, <1>9 DEF f

THEOREM BatchLoop ==
  ASSUME NEW c, NEW base, NEW ops, NEW size, Sized(ops, size)
  PROVE  Follows(Batched(c, base, ops), c, base, ops)
<1> USE DEF Sized
<1> DEFINE Value(g, x) == IF x = {} THEN base ELSE Step(c, g[x \ {Pick(x)}], Pick(x))
           UpTo(n) == {x \in SUBSET ops : size[x] <= n}
           Works(g, n) == \A x \in UpTo(n) : g[x] = Value(g, x)
           Bad == {n \in Nat : ~ \E g : Works(g, n)}
<1>1. ASSUME NEW n \in Nat, NEW g, \A x \in SUBSET ops : size[x] < n => g[x] = Value(g, x)
      PROVE  \E h : Works(h, n)
  <2> DEFINE h == [x \in SUBSET ops |-> IF size[x] < n THEN g[x] ELSE Value(g, x)]
  <2>1. ASSUME NEW x \in UpTo(n)
        PROVE  Value(h, x) = Value(g, x)
    <3>1. CASE x # {}
      <4>1. x \ {Pick(x)} \in SUBSET ops /\ size[x \ {Pick(x)}] < n
        <5>1. x \in SUBSET ops /\ size[x] <= n /\ x \ {Pick(x)} \in SUBSET ops
          OBVIOUS
        <5>2. /\ size[x] \in Nat /\ size[x \ {Pick(x)}] \in Nat
              /\ size[x \ {Pick(x)}] < size[x]
          BY <3>1, <5>1
        <5>3. QED
          BY <5>1, <5>2
      <4>2. h[x \ {Pick(x)}] = g[x \ {Pick(x)}]
        BY <4>1
      <4>3. QED
        BY <3>1, <4>2
    <3>2. QED
      BY <3>1
  <2>2. ASSUME NEW x \in UpTo(n)
        PROVE  h[x] = Value(g, x)
    BY <1>1
  <2>3. Works(h, n)
    BY <2>1, <2>2
  <2>4. QED
    BY <2>3
<1>2. Bad = {}
  <2> SUFFICES ASSUME Bad # {} PROVE FALSE
    OBVIOUS
  <2>1. PICK n \in Bad : \A m \in Bad : n <= m
    <3>1. Bad \in SUBSET Nat
      OBVIOUS
    <3> HIDE DEF Bad
    <3>2. QED
      BY <3>1, LeastNumber
  <2>2. n \in Nat /\ ~ \E g : Works(g, n)
    BY <2>1
  <2>3. CASE n = 0
    <3>1. \A g : \A x \in SUBSET ops : size[x] < n => g[x] = Value(g, x)
      BY <2>3
    <3> HIDE DEF Works, Value
    <3>2. QED
      BY <1>1, <2>2, <3>1
  <2>4. CASE n # 0
    <3>1. n - 1 \in Nat
      BY <2>2, <2>4
    <3>2. n - 1 \notin Bad
      <4> HIDE DEF Bad
      <4>1. QED
        BY <2>1, <2>2, <3>1
    <3>3. PICK g : Works(g, n - 1)
      BY <3>1, <3>2
    <3>4. \A x \in SUBSET ops : size[x] < n => g[x] = Value(g, x)
      <4>1. ASSUME NEW x \in SUBSET ops, size[x] < n
            PROVE  x \in UpTo(n - 1)
        <5>1. size[x] \in Nat
          OBVIOUS
        <5>2. QED
          BY <2>2, <4>1, <5>1
      <4> HIDE DEF UpTo, Value
      <4>2. QED
        BY <3>3, <4>1
    <3> HIDE DEF Works, Value
    <3>5. QED
      BY <1>1, <2>2, <3>4
  <2>5. QED
    BY <2>3, <2>4
<1>3. PICK g : Works(g, size[ops])
  BY <1>2
<1>4. \A x \in SUBSET ops : g[x] = Value(g, x)
  BY <1>3
<1> DEFINE Body(a) == [x \in SUBSET ops |->
                         IF x = {} THEN base ELSE Step(c, a[x \ {Pick(x)}], Pick(x))]
           h == [x \in SUBSET ops |-> g[x]]
           f == Batched(c, base, ops)
<1>5. h = Body(h)
  <2>1. ASSUME NEW x \in SUBSET ops
        PROVE  Value(h, x) = Value(g, x)
    OBVIOUS
  <2>2. QED
    BY <1>4, <2>1
<1> HIDE DEF h
<1>6. f = CHOOSE a : a = Body(a)
  BY DEF Batched
<1> HIDE DEF f
<1>7. f = Body(f)
  BY <1>5, <1>6, Zenon
<1>8. Body(f)[{}] = base
  OBVIOUS
<1>9. ASSUME NEW x \in SUBSET ops, x # {}
      PROVE  Body(f)[x] = Step(c, f[x \ {Pick(x)}], Pick(x))
  BY <1>9
<1> HIDE DEF Body
<1>10. QED
  BY <1>7, <1>8, <1>9 DEF f, Follows
=============================================================================
