-------------------------- MODULE DocumentSyncProofs --------------------------
(***************************************************************************)
(* Safety of DocumentSync for any replicas, sites, payloads and bounds,    *)
(* with or without the reuse of site IDs: first what a replica holds, then *)
(* its own operations, how they are numbered and kept until acknowledged.  *)
(* Then what holds where site IDs are not reused, and that DocumentSync    *)
(* implements OpExchange.  Last, what holds of DocumentEpochs, across cuts.*)
(***************************************************************************)
EXTENDS DocumentEpochs, SiteClocksProofs, FiniteSetTheorems

(* The inductive invariant.  A restart replaces a replica's state by a     *)
(* snapshot's, so what holds of replicas must hold of saved snapshots too. *)
IInv ==
  /\ TypeOK
  /\ FrontierExact
  /\ CompactedIsHeld
  /\ LogComplete
  /\ ClockDominates
  /\ SnapshotsExact

-----------------------------------------------------------------------------
(* Lemmas about the operators of DocumentSync.                             *)

LEMMA MaxOfTwo ==
  ASSUME NEW m \in Count, NEW n \in Count
  PROVE  /\ Max({m, n}) \in Count
         /\ Max({m, n}) >= m
         /\ Max({m, n}) >= n
         /\ Max({m, n}) = m \/ Max({m, n}) = n
BY MaxOfCounts

LEMMA MergeClocksType ==
  ASSUME NEW a \in VectorClock, NEW b \in VectorClock
  PROVE  /\ MergeClocks(a, b) \in VectorClock
         /\ \A s \in Site : /\ MergeClocks(a, b)[s] >= a[s]
                            /\ MergeClocks(a, b)[s] >= b[s]
                            /\ MergeClocks(a, b)[s] = a[s] \/ MergeClocks(a, b)[s] = b[s]
<1>1. \A s \in Site : a[s] \in Count /\ b[s] \in Count
  BY DEF VectorClock
<1>2. \A s \in Site : MergeClocks(a, b)[s] = Max({a[s], b[s]})
  BY DEF MergeClocks
<1>3. \A s \in Site : Max({a[s], b[s]}) \in Count
  BY <1>1, MaxOfTwo
<1>4. MergeClocks(a, b) \in VectorClock
  BY <1>3 DEF MergeClocks, VectorClock
<1>5. QED
  BY <1>1, <1>2, <1>4, MaxOfTwo

LEMMA LatestTimestampBounds ==
  ASSUME NEW n \in Count, NEW ops \in SUBSET Op
  PROVE  /\ LatestTimestamp(n, ops) \in Count
         /\ LatestTimestamp(n, ops) >= n
         /\ \A op \in ops : op.ts <= LatestTimestamp(n, ops)
<1> DEFINE S == {n} \cup {op.ts : op \in ops}
<1>1. \A op \in ops : op.ts \in Count
  BY MaxTimestampAssumption DEF Op, Number, Count
<1>2. S \in SUBSET Count /\ S # {}
  BY <1>1
<1>3. Max(S) \in S /\ \A m \in S : Max(S) >= m
  BY <1>2, MaxOfCounts
<1>4. Max(S) \in Count
  BY <1>2, <1>3
<1>5. LatestTimestamp(n, ops) = Max(S)
  BY DEF LatestTimestamp
<1> HIDE DEF S
<1>6. n \in S /\ \A op \in ops : op.ts \in S
  BY DEF S
<1>7. \A op \in ops : op.ts <= Max(S)
  BY <1>1, <1>3, <1>4, <1>6, MaxTimestampAssumption DEF Count
<1>8. QED
  BY <1>3, <1>4, <1>5, <1>6, <1>7

LEMMA SeqsAreNumbers ==
  ASSUME NEW ops \in SUBSET Op, NEW s \in Site
  PROVE  SeqsOf(ops, s) \in SUBSET Number
BY DEF SeqsOf, Op

(* Since compaction never runs ahead, knowledge is the frontier.           *)
LEMMA KnowledgeIsFrontier ==
  ASSUME TypeOK, CompactedIsHeld, NEW r \in Replica
  PROVE  /\ Knowledge(r) \in VectorClock
         /\ \A s \in Site : Knowledge(r)[s] = frontier[r][s].frontier
<1> DEFINE f == [s \in Site |-> frontier[r][s].frontier]
<1>1. compacted[r] \in VectorClock
  BY DEF TypeOK
<1>2. \A s \in Site : frontier[r][s].frontier \in Count
  BY DEF TypeOK
<1>3. f \in VectorClock
  BY <1>2 DEF VectorClock
<1>4. \A s \in Site : f[s] = frontier[r][s].frontier /\ compacted[r][s] <= f[s]
  BY DEF CompactedIsHeld
<1>5. Knowledge(r) = MergeClocks(compacted[r], f)
  BY DEF Knowledge
<1> HIDE DEF f
<1>6. \A s \in Site : MergeClocks(compacted[r], f)[s] = f[s]
  BY <1>1, <1>3, <1>4, MergeClocksType, MaxTimestampAssumption DEF VectorClock, Count
<1>7. QED
  BY <1>1, <1>3, <1>4, <1>5, <1>6, MergeClocksType

(* What recording operations does to one replica, and to no other.         *)
LEMMA RecordEffect ==
  ASSUME TypeOK, NEW r \in Replica, NEW ops \in SUBSET Op, Record(r, ops)
  PROVE  /\ log' \in [Replica -> SUBSET Op]
         /\ content' \in [Replica -> SUBSET Op]
         /\ frontier' \in [Replica -> [Site -> ClockState]]
         /\ log'[r] = log[r] \cup ops
         /\ content'[r] = content[r] \cup ops
         /\ \A s \in Site :
              /\ frontier'[r][s].frontier >= frontier[r][s].frontier
              /\ Held(frontier'[r][s]) = Held(frontier[r][s]) \cup SeqsOf(ops, s)
              /\ \A n \in frontier'[r][s].staged : n > frontier'[r][s].frontier + 1
         /\ \A q \in Replica \ {r} :
              log'[q] = log[q] /\ content'[q] = content[q] /\ frontier'[q] = frontier[q]
<1>1. /\ log \in [Replica -> SUBSET Op]
      /\ content \in [Replica -> SUBSET Op]
      /\ frontier \in [Replica -> [Site -> ClockState]]
  BY DEF TypeOK, ClockState
<1>2. /\ log' = [log EXCEPT ![r] = log[r] \cup ops]
      /\ content' = [content EXCEPT ![r] = content[r] \cup ops]
      /\ frontier' = [frontier EXCEPT ![r] =
                        [s \in Site |-> ObserveAll(frontier[r][s], SeqsOf(ops, s))]]
  BY DEF Record
<1>3. ASSUME NEW s \in Site
      PROVE  LET g == ObserveAll(frontier[r][s], SeqsOf(ops, s))
             IN  /\ g \in ClockState
                 /\ g.frontier >= frontier[r][s].frontier
                 /\ Held(g) = Held(frontier[r][s]) \cup SeqsOf(ops, s)
                 /\ \A n \in g.staged : n > g.frontier + 1
  <2>1. frontier[r][s] \in ClockState
    BY <1>1
  <2>2. SeqsOf(ops, s) \in SUBSET Number
    BY SeqsAreNumbers
  <2>3. QED
    BY <2>1, <2>2, ObserveAllExact
<1>4. \A s \in Site : frontier'[r][s] = ObserveAll(frontier[r][s], SeqsOf(ops, s))
  BY <1>1, <1>2
<1>5. frontier' \in [Replica -> [Site -> ClockState]]
  BY <1>1, <1>2, <1>3
<1>6. log' \in [Replica -> SUBSET Op] /\ content' \in [Replica -> SUBSET Op]
  BY <1>1, <1>2
<1>7. \A s \in Site :
        /\ frontier'[r][s].frontier >= frontier[r][s].frontier
        /\ Held(frontier'[r][s]) = Held(frontier[r][s]) \cup SeqsOf(ops, s)
        /\ \A n \in frontier'[r][s].staged : n > frontier'[r][s].frontier + 1
  BY <1>3, <1>4
<1>8. QED
  BY <1>1, <1>2, <1>5, <1>6, <1>7

(* The state invariants survive any step that records operations and moves *)
(* the clock and the compaction watermark no further than it may.          *)
LEMMA RecordPreserves ==
  ASSUME IInv, NEW r \in Replica, NEW ops \in SUBSET Op, Record(r, ops),
         clock' \in [Replica -> Count],
         compacted' \in [Replica -> VectorClock],
         \A q \in Replica \ {r} : clock'[q] = clock[q] /\ compacted'[q] = compacted[q],
         clock'[r] >= clock[r],
         \A op \in ops : op.ts <= clock'[r],
         \A s \in Site : /\ compacted'[r][s] >= compacted[r][s]
                         /\ compacted'[r][s] <= frontier[r][s].frontier
  PROVE  FrontierExact' /\ CompactedIsHeld' /\ LogComplete' /\ ClockDominates'
<1> USE MaxTimestampAssumption
<1>1. /\ log' \in [Replica -> SUBSET Op]
      /\ content' \in [Replica -> SUBSET Op]
      /\ frontier' \in [Replica -> [Site -> ClockState]]
      /\ log'[r] = log[r] \cup ops
      /\ content'[r] = content[r] \cup ops
      /\ \A s \in Site :
           /\ frontier'[r][s].frontier >= frontier[r][s].frontier
           /\ Held(frontier'[r][s]) = Held(frontier[r][s]) \cup SeqsOf(ops, s)
           /\ \A n \in frontier'[r][s].staged : n > frontier'[r][s].frontier + 1
      /\ \A q \in Replica \ {r} :
           log'[q] = log[q] /\ content'[q] = content[q] /\ frontier'[q] = frontier[q]
  BY RecordEffect DEF IInv
<1>2. FrontierExact'
  <2>1. ASSUME NEW q \in Replica, NEW s \in Site
        PROVE  /\ SeqsOf(content'[q], s) = Held(frontier'[q][s])
               /\ \A n \in frontier'[q][s].staged : n > frontier'[q][s].frontier + 1
    <3>1. /\ SeqsOf(content[q], s) = Held(frontier[q][s])
          /\ \A n \in frontier[q][s].staged : n > frontier[q][s].frontier + 1
      BY DEF IInv, FrontierExact, Held
    <3>2. CASE q = r
      <4>1. SeqsOf(content'[r], s) = SeqsOf(content[r], s) \cup SeqsOf(ops, s)
        <5>1. content'[r] = content[r] \cup ops
          BY <1>1
        <5>2. QED
          BY <5>1 DEF SeqsOf
      <4>2. SeqsOf(content'[r], s) = Held(frontier'[r][s])
        BY <1>1, <3>1, <3>2, <4>1
      <4>3. QED
        BY <1>1, <3>2, <4>2
    <3>3. CASE q # r
      BY <1>1, <3>1, <3>3
    <3>4. QED
      BY <3>2, <3>3
  <2>2. QED
    BY <2>1 DEF FrontierExact, Held
<1>3. CompactedIsHeld'
  <2>1. ASSUME NEW q \in Replica, NEW s \in Site
        PROVE  compacted'[q][s] <= frontier'[q][s].frontier
    <3>1. CASE q = r
      <4>1. /\ frontier'[r][s].frontier \in Nat
            /\ frontier[r][s].frontier \in Nat
            /\ compacted'[r][s] \in Nat
        BY <1>1 DEF IInv, TypeOK, ClockState, VectorClock, Count
      <4>2. QED
        BY <1>1, <3>1, <4>1
    <3>2. CASE q # r
      BY <1>1, <3>2 DEF IInv, CompactedIsHeld
    <3>3. QED
      BY <3>1, <3>2
  <2>2. QED
    BY <2>1 DEF CompactedIsHeld
<1>4. LogComplete'
  <2>1. ASSUME NEW q \in Replica
        PROVE  /\ log'[q] \subseteq content'[q]
               /\ \A op \in content'[q] : op.seq > compacted'[q][op.site] => op \in log'[q]
    <3>1. /\ log[q] \subseteq content[q]
          /\ \A op \in content[q] : op.seq > compacted[q][op.site] => op \in log[q]
      BY DEF IInv, LogComplete
    <3>2. CASE q = r
      <4>1. log'[q] \subseteq content'[q]
        BY <1>1, <3>1, <3>2
      <4>2. ASSUME NEW op \in content[r], op.seq > compacted'[r][op.site]
            PROVE  op \in log[r]
        <5>1. /\ op.seq \in Nat
              /\ op.site \in Site
          BY DEF IInv, TypeOK, Op, Number
        <5>2. compacted[r][op.site] \in Nat /\ compacted'[r][op.site] \in Nat
          BY <5>1 DEF IInv, TypeOK, VectorClock, Count
        <5>3. QED
          BY <3>1, <3>2, <4>2, <5>1, <5>2
      <4>3. QED
        BY <1>1, <3>2, <4>1, <4>2
    <3>3. CASE q # r
      BY <1>1, <3>1, <3>3
    <3>4. QED
      BY <3>2, <3>3
  <2>2. QED
    BY <2>1 DEF LogComplete
<1>5. ClockDominates'
  <2>1. ASSUME NEW q \in Replica, NEW op \in content'[q]
        PROVE  op.ts <= clock'[q]
    <3>1. CASE q = r /\ op \in content[r]
      <4>1. op.ts \in Nat /\ clock[r] \in Nat /\ clock'[r] \in Nat
        BY <3>1 DEF IInv, TypeOK, Op, Number, Count
      <4>2. op.ts <= clock[r]
        BY <3>1 DEF IInv, ClockDominates
      <4>3. QED
        BY <3>1, <4>1, <4>2
    <3>2. CASE q = r /\ op \in ops
      BY <3>2
    <3>3. CASE q # r
      BY <1>1, <3>3 DEF IInv, ClockDominates
    <3>4. QED
      BY <1>1, <3>1, <3>2, <3>3
  <2>2. QED
    BY <2>1 DEF ClockDominates
<1>6. QED
  BY <1>2, <1>3, <1>4, <1>5

-----------------------------------------------------------------------------
(* Saved snapshots only change when one is taken.                          *)
LEMMA SnapshotsKept ==
  ASSUME IInv, UNCHANGED store
  PROVE  SnapshotsExact'
BY DEF IInv, SnapshotsExact

(* A local command.                                                        *)
LEMMA ApplyInv ==
  ASSUME IInv, NEW r \in Replica, NEW p \in Payload, Apply(r, p)
  PROVE  IInv'
<1> USE MaxTimestampAssumption
<1> DEFINE op == [site |-> siteID[r], seq |-> localSeq[r] + 1,
                  ts |-> clock[r] + 1, payload |-> p]
<1>1. /\ ~ Exhausted(r)
      /\ Record(r, {op})
      /\ clock' = [clock EXCEPT ![r] = clock[r] + 1]
      /\ localSeq' = [localSeq EXCEPT ![r] = localSeq[r] + 1]
      /\ UNCHANGED << siteID, compacted, syncedThrough, issuedThrough,
                      store, inFlight, batches, restores >>
  BY DEF Apply
<1>2. TypeOK
  BY DEF IInv
<1>3. clock[r] + 1 \in Number /\ localSeq[r] + 1 \in Number
  BY <1>1, <1>2 DEF Exhausted, TypeOK, Count, Number
<1>4. {op} \in SUBSET Op
  BY <1>2, <1>3 DEF TypeOK, Op
<1>5. op.ts = clock[r] + 1
  OBVIOUS
<1> HIDE DEF op
<1>6. clock' \in [Replica -> Count] /\ localSeq' \in [Replica -> Count]
  BY <1>1, <1>2, <1>3 DEF TypeOK, Count, Number
<1>7. /\ log' \in [Replica -> SUBSET Op]
      /\ content' \in [Replica -> SUBSET Op]
      /\ frontier' \in [Replica -> [Site -> ClockState]]
  BY <1>1, <1>2, <1>4, RecordEffect
<1>8. TypeOK'
  BY <1>1, <1>2, <1>6, <1>7 DEF TypeOK, ClockState
<1>9. FrontierExact' /\ CompactedIsHeld' /\ LogComplete' /\ ClockDominates'
  <2>1. \A q \in Replica \ {r} : clock'[q] = clock[q] /\ compacted'[q] = compacted[q]
    BY <1>1, <1>2 DEF TypeOK
  <2>2. clock'[r] = clock[r] + 1 /\ clock[r] \in Nat
    BY <1>1, <1>2 DEF TypeOK, Count
  <2>3. \A o \in {op} : o.ts <= clock'[r]
    BY <1>5, <2>2
  <2>4. compacted' \in [Replica -> VectorClock]
    BY <1>1, <1>2 DEF TypeOK
  <2>5. ASSUME NEW s \in Site
        PROVE  /\ compacted'[r][s] >= compacted[r][s]
               /\ compacted'[r][s] <= frontier[r][s].frontier
    <3>1. compacted'[r][s] = compacted[r][s] /\ compacted[r][s] \in Nat
      BY <1>1, <1>2 DEF TypeOK, VectorClock, Count
    <3>2. QED
      BY <3>1 DEF IInv, CompactedIsHeld
  <2>6. clock'[r] >= clock[r]
    BY <2>2
  <2>7. QED
    BY <1>1, <1>4, <1>6, <2>1, <2>3, <2>4, <2>5, <2>6, RecordPreserves
<1>10. SnapshotsExact'
  BY <1>1, SnapshotsKept
<1>11. QED
  BY <1>8, <1>9, <1>10 DEF IInv

(* An outbox batch, or operations read from anywhere else.                 *)
LEMMA MergeOpsInv ==
  ASSUME IInv, NEW r \in Replica, NEW batch, batch.ops \in SUBSET Op, MergeOps(r, batch)
  PROVE  IInv'
<1> USE MaxTimestampAssumption
<1> DEFINE ops == Unseen(r, batch.ops)
           latest == LatestTimestamp(clock[r], batch.ops)
<1>1. /\ Record(r, ops)
      /\ clock' = [clock EXCEPT ![r] = latest]
      /\ UNCHANGED << siteID, localSeq, compacted, syncedThrough, issuedThrough,
                      store, inFlight, batches, restores >>
  BY DEF MergeOps
<1>2. TypeOK
  BY DEF IInv
<1>3. batch.ops \in SUBSET Op
  OBVIOUS
<1>4. ops \in SUBSET Op /\ ops \subseteq batch.ops
  BY <1>3 DEF Unseen
<1>5. clock[r] \in Count
  BY <1>2 DEF TypeOK
<1>6. /\ latest \in Count
      /\ latest >= clock[r]
      /\ \A op \in batch.ops : op.ts <= latest
  BY <1>3, <1>5, LatestTimestampBounds
<1> HIDE DEF ops, latest
<1>7. clock' \in [Replica -> Count]
  BY <1>1, <1>2, <1>6 DEF TypeOK
<1>8. TypeOK'
  BY <1>1, <1>2, <1>4, <1>7, RecordEffect DEF TypeOK, ClockState
<1>9. FrontierExact' /\ CompactedIsHeld' /\ LogComplete' /\ ClockDominates'
  <2>1. \A q \in Replica \ {r} : clock'[q] = clock[q] /\ compacted'[q] = compacted[q]
    BY <1>1, <1>2 DEF TypeOK
  <2>2. clock'[r] = latest
    BY <1>1, <1>2 DEF TypeOK
  <2>3. compacted' \in [Replica -> VectorClock]
    BY <1>1, <1>2 DEF TypeOK
  <2>4. ASSUME NEW s \in Site
        PROVE  /\ compacted'[r][s] >= compacted[r][s]
               /\ compacted'[r][s] <= frontier[r][s].frontier
    <3>1. compacted'[r][s] = compacted[r][s] /\ compacted[r][s] \in Nat
      BY <1>1, <1>2 DEF TypeOK, VectorClock, Count
    <3>2. QED
      BY <3>1 DEF IInv, CompactedIsHeld
  <2>5. clock'[r] >= clock[r] /\ \A op \in ops : op.ts <= clock'[r]
    BY <1>4, <1>6, <2>2
  <2>6. QED
    BY <1>1, <1>4, <1>7, <2>1, <2>3, <2>4, <2>5, RecordPreserves
<1>10. SnapshotsExact'
  BY <1>1, SnapshotsKept
<1>11. QED
  BY <1>8, <1>9, <1>10 DEF IInv

(* What a replica sends has the type of a message.                         *)
LEMMA DeltaType ==
  ASSUME IInv, NEW q \in Replica, NEW vc
  PROVE  DeltaSince(q, vc) \in Message
<1>1. Knowledge(q) \in VectorClock
  BY KnowledgeIsFrontier DEF IInv
<1>2. DeltaOps(q, vc) \in SUBSET Op
  BY DEF IInv, TypeOK, DeltaOps
<1>3. siteID[q] \in Site /\ clock[q] \in Count /\ compacted[q] \in VectorClock
  BY DEF IInv, TypeOK
<1>4. QED
  BY <1>1, <1>2, <1>3 DEF DeltaSince, Message

(* A delta or a captured document: the compaction check makes the adopted  *)
(* watermark one that is held.                                             *)
LEMMA MergeDocumentInv ==
  ASSUME IInv, NEW r \in Replica, NEW delta \in Message, MergeDocument(r, delta),
         UNCHANGED inFlight
  PROVE  IInv'
<1> USE MaxTimestampAssumption
<1> DEFINE ops == Unseen(r, delta.ops)
           latest == LatestTimestamp(clock[r], delta.ops)
           now == Max({latest, delta.clock})
           folded == MergeClocks(compacted[r], delta.compacted)
<1>1. /\ Accepted(r, delta)
      /\ Record(r, ops)
      /\ compacted' = [compacted EXCEPT ![r] = folded]
      /\ clock' = [clock EXCEPT ![r] = now]
      /\ UNCHANGED << siteID, localSeq, syncedThrough, issuedThrough,
                      store, inFlight, batches, restores >>
  BY DEF MergeDocument
<1>2. TypeOK
  BY DEF IInv
<1>3. /\ delta.ops \in SUBSET Op
      /\ delta.clock \in Count
      /\ delta.compacted \in VectorClock
  BY DEF Message
<1>4. ops \in SUBSET Op /\ ops \subseteq delta.ops
  BY <1>3 DEF Unseen
<1>5. clock[r] \in Count /\ compacted[r] \in VectorClock
  BY <1>2 DEF TypeOK
<1>6. /\ latest \in Count
      /\ latest >= clock[r]
      /\ \A op \in delta.ops : op.ts <= latest
  BY <1>3, <1>5, LatestTimestampBounds
<1>7. now \in Count /\ now >= latest
  BY <1>3, <1>6, MaxOfTwo
<1>8. /\ folded \in VectorClock
      /\ \A s \in Site : /\ folded[s] >= compacted[r][s]
                         /\ folded[s] = compacted[r][s] \/ folded[s] = delta.compacted[s]
  BY <1>3, <1>5, MergeClocksType
<1>9. \A s \in Site : delta.compacted[s] <= frontier[r][s].frontier
  <2>1. CoveredBy(delta.compacted, Knowledge(r))
    BY <1>1 DEF Accepted, CompactionGap
  <2>2. QED
    BY <2>1, KnowledgeIsFrontier DEF CoveredBy, IInv
<1> HIDE DEF ops, latest, now, folded
<1>10. clock' \in [Replica -> Count]
  BY <1>1, <1>2, <1>7 DEF TypeOK
<1>11. compacted' \in [Replica -> VectorClock]
  BY <1>1, <1>2, <1>8 DEF TypeOK
<1>12. TypeOK'
  BY <1>1, <1>2, <1>4, <1>10, <1>11, RecordEffect DEF TypeOK, ClockState
<1>13. FrontierExact' /\ CompactedIsHeld' /\ LogComplete' /\ ClockDominates'
  <2>1. \A q \in Replica \ {r} : clock'[q] = clock[q] /\ compacted'[q] = compacted[q]
    BY <1>1, <1>2 DEF TypeOK
  <2>2. clock'[r] = now /\ compacted'[r] = folded
    BY <1>1, <1>2 DEF TypeOK
  <2>3. clock'[r] >= clock[r]
    BY <1>5, <1>6, <1>7, <2>2 DEF Count
  <2>4. \A op \in ops : op.ts <= clock'[r]
    BY <1>4, <1>6, <1>7, <2>2 DEF Count, Op, Number
  <2>5. \A s \in Site : /\ compacted'[r][s] >= compacted[r][s]
                        /\ compacted'[r][s] <= frontier[r][s].frontier
    BY <1>8, <1>9, <2>2 DEF IInv, CompactedIsHeld
  <2>6. QED
    BY <1>1, <1>4, <1>10, <1>11, <2>1, <2>3, <2>4, <2>5, RecordPreserves
<1>14. SnapshotsExact'
  BY <1>1, SnapshotsKept
<1>15. QED
  BY <1>12, <1>13, <1>14 DEF IInv

-----------------------------------------------------------------------------
(* Steps that touch neither what a replica holds nor the saved snapshots.  *)
LEMMA QuietStep ==
  ASSUME IInv, TypeOK',
         UNCHANGED << clock, log, content, frontier, compacted, store >>
  PROVE  IInv'
BY DEF IInv, FrontierExact, CompactedIsHeld, LogComplete, ClockDominates, SnapshotsExact

LEMMA WatermarkType ==
  ASSUME TypeOK, NEW r \in Replica
  PROVE  Watermark(r) \in Count
<1> DEFINE S == {syncedThrough[r]} \cup {op.seq : op \in Outbox(r)}
<1>1. \A op \in Outbox(r) : op.seq \in Count
  BY MaxTimestampAssumption DEF TypeOK, Outbox, Op, Number, Count
<1>2. S \in SUBSET Count /\ S # {}
  BY <1>1 DEF TypeOK
<1>3. Max(S) \in S
  BY <1>2, MaxOfCounts
<1>4. QED
  BY <1>2, <1>3 DEF Watermark

LEMMA OutboxInv ==
  ASSUME IInv, NEW r \in Replica,
         PendingOps(r) \/ \E batch \in batches : MarkSynced(r, batch)
  PROVE  IInv'
<1>1. TypeOK
  BY DEF IInv
<1>2. CASE PendingOps(r)
  <2>1. Outbox(r) \in SUBSET Op /\ siteID[r] \in Site /\ Watermark(r) \in Count
    BY <1>1, WatermarkType DEF TypeOK, Outbox
  <2>2. Batch(r) \subseteq [site : Site, ops : SUBSET Op, watermark : Count]
    BY <2>1 DEF Batch
  <2>3. issuedThrough[r] \in Count
    BY <1>1 DEF TypeOK
  <2>4. Max({issuedThrough[r], Watermark(r)}) \in Count
    BY <2>1, <2>3, MaxOfTwo
  <2>5. issuedThrough' \in [Replica -> Count]
    BY <1>1, <1>2, <2>4 DEF TypeOK, PendingOps
  <2>6. TypeOK'
    BY <1>1, <1>2, <2>2, <2>5 DEF TypeOK, PendingOps
  <2>7. QED
    BY <1>2, <2>6, QuietStep DEF PendingOps
<1>3. ASSUME NEW batch \in batches, MarkSynced(r, batch)
      PROVE  IInv'
  <2>1. batch.watermark \in Count
    BY <1>1 DEF TypeOK
  <2>2. TypeOK'
    BY <1>1, <1>3, <2>1 DEF TypeOK, MarkSynced
  <2>3. QED
    BY <1>3, <2>2, QuietStep DEF MarkSynced
<1>4. QED
  BY <1>2, <1>3

LEMMA SendInv ==
  ASSUME IInv, NEW message \in Message, Send(message)
  PROVE  IInv'
<1>1. TypeOK'
  BY DEF IInv, TypeOK, Send, document
<1>2. QED
  BY <1>1, QuietStep DEF Send, document

LEMMA LoseInv ==
  ASSUME IInv, NEW message, Lose(message)
  PROVE  IInv'
<1>1. TypeOK'
  BY DEF IInv, TypeOK, Lose, document
<1>2. QED
  BY <1>1, QuietStep DEF Lose, document

-----------------------------------------------------------------------------
LEMMA AppliedType ==
  ASSUME TypeOK, NEW r \in Replica
  PROVE  Applied(r) \in VectorClock
<1>1. ASSUME NEW s \in Site
      PROVE  Max({compacted[r][s]} \cup SeqsOf(log[r], s)) \in Count
  <2> DEFINE S == {compacted[r][s]} \cup SeqsOf(log[r], s)
  <2>1. SeqsOf(log[r], s) \in SUBSET Number
    BY SeqsAreNumbers DEF TypeOK
  <2>2. S \in SUBSET Count /\ S # {}
    <3>1. compacted[r][s] \in Count
      BY DEF TypeOK, VectorClock
    <3>2. Number \subseteq Count
      BY MaxTimestampAssumption DEF Number, Count
    <3>3. QED
      BY <2>1, <3>1, <3>2
  <2>3. Max(S) \in S
    BY <2>2, MaxOfCounts
  <2>4. QED
    BY <2>2, <2>3
<1>2. QED
  BY <1>1 DEF Applied, VectorClock

(* A snapshot accounts for exactly what its replica holds.                 *)
LEMMA SnapshotIsExact ==
  ASSUME IInv, NEW r \in Replica, NEW pending \in SUBSET log[r]
  PROVE  /\ SnapshotOf(r, pending) \in SnapshotRecord
         /\ ExactSnapshot(SnapshotOf(r, pending))
<1> USE MaxTimestampAssumption
<1> DEFINE snap == SnapshotOf(r, pending)
<1>1. TypeOK
  BY DEF IInv
<1>2. /\ Knowledge(r) \in VectorClock
      /\ \A s \in Site : Knowledge(r)[s] = frontier[r][s].frontier
  BY KnowledgeIsFrontier DEF IInv
<1>3. /\ snap.site = siteID[r]
      /\ snap.clock = clock[r]
      /\ snap.vc = Knowledge(r)
      /\ snap.outbox = Outbox(r)
      /\ snap.retained = DeltaOps(r, Knowledge(r))
      /\ snap.pending = pending
      /\ snap.content = content[r]
  BY DEF SnapshotOf
<1>4. snap \in SnapshotRecord
  <2>1. Applied(r) \in VectorClock
    BY <1>1, AppliedType
  <2>2. /\ siteID[r] \in Site /\ clock[r] \in Count /\ syncedThrough[r] \in Count
        /\ content[r] \in SUBSET Op /\ log[r] \in SUBSET Op
    BY <1>1 DEF TypeOK
  <2>3. Outbox(r) \in SUBSET Op /\ DeltaOps(r, Knowledge(r)) \in SUBSET Op
    BY <2>2 DEF Outbox, DeltaOps
  <2>4. QED
    BY <1>2, <2>1, <2>2, <2>3 DEF SnapshotOf, SnapshotRecord
<1>5. Kept(snap) \subseteq snap.content
  BY <1>3 DEF Kept, Outbox, DeltaOps, IInv, LogComplete
<1>6. snap.retained = {op \in snap.content : op.seq > snap.vc[op.site]}
  <2>1. ASSUME NEW op \in content[r], op.seq > Knowledge(r)[op.site]
        PROVE  op \in log[r]
    <3>1. op.seq \in Nat /\ op.site \in Site
      BY <1>1 DEF TypeOK, Op, Number
    <3>2. /\ compacted[r][op.site] \in Nat
          /\ Knowledge(r)[op.site] \in Nat
          /\ compacted[r][op.site] <= Knowledge(r)[op.site]
      BY <1>1, <1>2, <3>1 DEF TypeOK, VectorClock, Count, IInv, CompactedIsHeld
    <3>3. QED
      BY <2>1, <3>1, <3>2 DEF IInv, LogComplete
  <2>2. log[r] \subseteq content[r]
    BY DEF IInv, LogComplete
  <2>3. QED
    BY <1>3, <2>1, <2>2 DEF DeltaOps
<1>7. ASSUME NEW s \in Site
      PROVE  1 .. snap.vc[s] \subseteq SeqsOf(snap.content, s)
  <2>1. SeqsOf(content[r], s) = (1 .. frontier[r][s].frontier) \cup frontier[r][s].staged
    BY DEF IInv, FrontierExact
  <2>2. QED
    BY <1>2, <1>3, <2>1
<1>8. \A op \in snap.content : op.ts <= snap.clock
  BY <1>3 DEF IInv, ClockDominates
<1> HIDE DEF snap
<1>9. ExactSnapshot(snap)
  BY <1>5, <1>6, <1>7, <1>8 DEF ExactSnapshot
<1>10. QED
  BY <1>4, <1>9 DEF snap

(* Taking a snapshot.                                                      *)
LEMMA SnapshotInv ==
  ASSUME IInv, NEW r \in Replica, NEW pending \in SUBSET log[r], Snapshot(r, pending)
  PROVE  IInv'
<1>1. TypeOK
  BY DEF IInv
<1>2. store' = [store EXCEPT ![r] = {SnapshotOf(r, pending)}]
  BY DEF Snapshot
<1>3. /\ SnapshotOf(r, pending) \in SnapshotRecord
      /\ ExactSnapshot(SnapshotOf(r, pending))
  BY SnapshotIsExact
<1>4. TypeOK'
  BY <1>1, <1>2, <1>3 DEF TypeOK, Snapshot, document
<1>5. SnapshotsExact'
  <2>1. ASSUME NEW q \in Replica, NEW snap \in store'[q]
        PROVE  ExactSnapshot(snap)
    BY <1>1, <1>2, <1>3, <2>1 DEF TypeOK, IInv, SnapshotsExact
  <2>2. QED
    BY <2>1 DEF SnapshotsExact, ExactSnapshot
<1>6. FrontierExact' /\ CompactedIsHeld' /\ LogComplete' /\ ClockDominates'
  BY DEF IInv, Snapshot, document, FrontierExact, CompactedIsHeld, LogComplete, ClockDominates
<1>7. QED
  BY <1>4, <1>5, <1>6 DEF IInv

(* A restart: the snapshot's exactness becomes the replica's.              *)
LEMMA RestoreInv ==
  ASSUME IInv, NEW r \in Replica, NEW snap \in SnapshotRecord, ExactSnapshot(snap),
         NEW s \in Site, Restore(r, snap, s)
  PROVE  IInv'
<1> USE MaxTimestampAssumption
<1> DEFINE Start(t) == [frontier |-> snap.vc[t], staged |-> {}]
           Clock(t) == ObserveAll(Start(t), SeqsOf(Kept(snap), t))
<1>1. TypeOK
  BY DEF IInv
<1>2. snap \in SnapshotRecord
  OBVIOUS
<1>3. /\ snap.clock \in Count
      /\ snap.vc \in VectorClock
      /\ snap.applied \in VectorClock
      /\ snap.syncedThrough \in Count
      /\ snap.content \in SUBSET Op
      /\ Kept(snap) \in SUBSET Op
  BY <1>2 DEF SnapshotRecord, Kept
<1>4. /\ Kept(snap) \subseteq snap.content
      /\ snap.retained = {op \in snap.content : op.seq > snap.vc[op.site]}
      /\ \A t \in Site : 1 .. snap.vc[t] \subseteq SeqsOf(snap.content, t)
      /\ \A op \in snap.content : op.ts <= snap.clock
  BY DEF ExactSnapshot
<1>5. ASSUME NEW t \in Site
      PROVE  /\ Clock(t) \in ClockState
             /\ Clock(t).frontier >= snap.vc[t]
             /\ Held(Clock(t)) = (1 .. snap.vc[t]) \cup SeqsOf(Kept(snap), t)
             /\ \A n \in Clock(t).staged : n > Clock(t).frontier + 1
  <2>1. Start(t) \in ClockState
    BY <1>3 DEF ClockState, VectorClock
  <2>2. SeqsOf(Kept(snap), t) \in SUBSET Number
    BY <1>3, SeqsAreNumbers
  <2>3. Start(t).frontier = snap.vc[t] /\ Held(Start(t)) = 1 .. snap.vc[t]
    BY DEF Held
  <2> HIDE DEF Start
  <2>4. QED
    BY <2>1, <2>2, <2>3, ObserveAllExact
<1>6. ASSUME NEW t \in Site
      PROVE  SeqsOf(snap.content, t) = (1 .. snap.vc[t]) \cup SeqsOf(Kept(snap), t)
  <2>1. snap.vc[t] \in Nat
    BY <1>3 DEF VectorClock, Count
  <2>2. ASSUME NEW op \in snap.content, op.site = t
        PROVE  op.seq \in 1 .. snap.vc[t] \/ op \in Kept(snap)
    <3>1. op.seq \in Nat /\ op.seq >= 1
      BY <1>3, <2>2 DEF Op, Number
    <3>2. CASE op.seq > snap.vc[t]
      BY <1>4, <2>2, <3>2 DEF Kept
    <3>3. CASE ~ (op.seq > snap.vc[t])
      BY <2>1, <3>1, <3>3
    <3>4. QED
      BY <3>2, <3>3
  <2>3. SeqsOf(Kept(snap), t) \subseteq SeqsOf(snap.content, t)
    BY <1>4 DEF SeqsOf
  <2>4. QED
    BY <1>4, <2>2, <2>3 DEF SeqsOf
<1>7. /\ siteID' = [siteID EXCEPT ![r] = s]
      /\ clock' = [clock EXCEPT ![r] = snap.clock]
      /\ localSeq' = [localSeq EXCEPT ![r] = ResumeSeq(snap, s)]
      /\ log' = [log EXCEPT ![r] = Kept(snap)]
      /\ content' = [content EXCEPT ![r] = snap.content]
      /\ frontier' = [frontier EXCEPT ![r] = [t \in Site |-> Clock(t)]]
      /\ compacted' = [compacted EXCEPT ![r] = snap.vc]
      /\ syncedThrough' = [syncedThrough EXCEPT ![r] =
                             IF s = snap.site THEN snap.syncedThrough ELSE 0]
      /\ issuedThrough' = [issuedThrough EXCEPT ![r] = 0]
      /\ restores' = restores + 1
      /\ inFlight' \subseteq inFlight
      /\ store' = store /\ batches' = batches
  BY DEF Restore
<1>8. ResumeSeq(snap, s) \in Count
  <2>1. snap.vc[s] \in Count /\ snap.applied[s] \in Count
    BY <1>3 DEF VectorClock
  <2>2. QED
    BY <2>1, MaxOfTwo DEF ResumeSeq
<1> HIDE DEF Clock
<1>9. TypeOK'
  <2>1. 0 \in Count
    BY DEF Count
  <2>2. (IF s = snap.site THEN snap.syncedThrough ELSE 0) \in Count
    BY <1>3, <2>1
  <2>3. [t \in Site |-> Clock(t)] \in [Site -> ClockState]
    BY <1>5
  <2>4. /\ frontier' \in [Replica -> [Site -> ClockState]]
        /\ log' \in [Replica -> SUBSET Op]
        /\ content' \in [Replica -> SUBSET Op]
        /\ compacted' \in [Replica -> VectorClock]
    BY <1>1, <1>3, <1>7, <2>3 DEF TypeOK, ClockState
  <2>5. /\ siteID' \in [Replica -> Site]
        /\ clock' \in [Replica -> Count]
        /\ localSeq' \in [Replica -> Count]
        /\ syncedThrough' \in [Replica -> Count]
        /\ issuedThrough' \in [Replica -> Count]
    BY <1>1, <1>3, <1>7, <1>8, <2>1, <2>2 DEF TypeOK
  <2>6. restores' \in Nat /\ inFlight' \subseteq Message
    BY <1>1, <1>7 DEF TypeOK
  <2>7. QED
    BY <1>1, <1>7, <2>4, <2>5, <2>6 DEF TypeOK, ClockState
<1>10. /\ content'[r] = snap.content
       /\ log'[r] = Kept(snap)
       /\ compacted'[r] = snap.vc
       /\ clock'[r] = snap.clock
       /\ \A t \in Site : frontier'[r][t] = Clock(t)
       /\ \A p \in Replica \ {r} :
            /\ content'[p] = content[p] /\ log'[p] = log[p]
            /\ compacted'[p] = compacted[p] /\ clock'[p] = clock[p]
            /\ frontier'[p] = frontier[p]
  BY <1>1, <1>7 DEF TypeOK
<1>11. FrontierExact'
  <2>1. ASSUME NEW p \in Replica, NEW t \in Site
        PROVE  /\ SeqsOf(content'[p], t) = Held(frontier'[p][t])
               /\ \A n \in frontier'[p][t].staged : n > frontier'[p][t].frontier + 1
    <3>1. CASE p = r
      BY <1>5, <1>6, <1>10, <3>1
    <3>2. CASE p # r
      BY <1>10, <3>2 DEF IInv, FrontierExact, Held
    <3>3. QED
      BY <3>1, <3>2
  <2>2. QED
    BY <2>1 DEF FrontierExact, Held
<1>12. CompactedIsHeld'
  <2>1. ASSUME NEW p \in Replica, NEW t \in Site
        PROVE  compacted'[p][t] <= frontier'[p][t].frontier
    <3>1. CASE p = r
      <4>1. snap.vc[t] \in Nat /\ Clock(t).frontier \in Nat
        BY <1>3, <1>5 DEF VectorClock, ClockState, Count
      <4>2. QED
        BY <1>5, <1>10, <3>1, <4>1
    <3>2. CASE p # r
      BY <1>10, <3>2 DEF IInv, CompactedIsHeld
    <3>3. QED
      BY <3>1, <3>2
  <2>2. QED
    BY <2>1 DEF CompactedIsHeld
<1>13. LogComplete'
  BY <1>4, <1>10 DEF IInv, LogComplete, Kept
<1>14. ClockDominates'
  BY <1>4, <1>10 DEF IInv, ClockDominates
<1>15. SnapshotsExact'
  BY <1>7, SnapshotsKept
<1>16. QED
  BY <1>9, <1>11, <1>12, <1>13, <1>14, <1>15 DEF IInv

-----------------------------------------------------------------------------
LEMMA InitIInv == Init => IInv
<1> SUFFICES ASSUME Init PROVE IInv
  OBVIOUS
<1> USE MaxTimestampAssumption, ReplicaAssumption
<1>1. 0 \in Count
  BY DEF Count
<1>2. NoKnowledge \in VectorClock
  BY <1>1 DEF NoKnowledge, VectorClock
<1>3. TypeOK
  BY <1>1, <1>2 DEF Init, TypeOK
<1>4. FrontierExact
  BY DEF Init, FrontierExact, SeqsOf
<1>5. CompactedIsHeld /\ LogComplete /\ ClockDominates /\ SnapshotsExact
  BY DEF Init, CompactedIsHeld, NoKnowledge, LogComplete, ClockDominates, SnapshotsExact
<1>6. QED
  BY <1>3, <1>4, <1>5 DEF IInv

LEMMA NextIInv == IInv /\ [Next]_vars => IInv'
<1> SUFFICES ASSUME IInv, [Next]_vars PROVE IInv'
  OBVIOUS
<1>1. CASE LocalStep
  BY <1>1, ApplyInv, OutboxInv DEF LocalStep
<1>2. CASE SendStep
  <2>1. ASSUME NEW r \in Replica, NEW q \in Replica
        PROVE  CapturedDocument(r, q) \in Message
    <3>1. DeltaSince(q, NoKnowledge) \in Message
      BY DeltaType
    <3>2. QED
      BY <3>1 DEF CapturedDocument, Message
  <2>2. QED
    BY <1>2, <2>1, DeltaType, SendInv DEF SendStep
<1>3. CASE MergeStep
  <2>1. ASSUME NEW r \in Replica, NEW delta \in inFlight, MergeInFlight(r, delta)
        PROVE  IInv'
    <3>1. delta \in Message
      BY DEF IInv, TypeOK
    <3>2. QED
      BY <2>1, <3>1, MergeDocumentInv DEF MergeInFlight
  <2>2. ASSUME NEW r \in Replica, NEW q \in Replica, Pull(r, q)
        PROVE  IInv'
    <3>1. DeltaSince(q, Knowledge(r)) \in Message
      BY DeltaType
    <3>2. QED
      BY <2>2, <3>1, MergeDocumentInv DEF Pull
  <2>3. \A batch \in batches : batch.ops \in SUBSET Op
    BY DEF IInv, TypeOK
  <2>4. QED
    BY <1>3, <2>1, <2>2, <2>3, MergeOpsInv DEF MergeStep
<1>4. CASE \E message \in inFlight : Lose(message)
  BY <1>4, LoseInv
<1>5. CASE RestartStep
  <2>1. ASSUME NEW r \in Replica,
               NEW pending \in SUBSET MayWait(r),
               Snapshot(r, pending)
        PROVE  IInv'
    <3>1. pending \in SUBSET log[r]
      BY DEF MayWait
    <3>2. QED
      BY <2>1, <3>1, SnapshotInv
  <2>2. \A q \in Replica : \A snap \in store[q] :
          snap \in SnapshotRecord /\ ExactSnapshot(snap)
    BY DEF IInv, TypeOK, SnapshotsExact
  <2>3. QED
    BY <1>5, <2>1, <2>2, RestoreInv DEF RestartStep
<1>6. CASE UNCHANGED vars
  <2>1. TypeOK'
    BY <1>6 DEF vars, document, IInv, TypeOK
  <2>2. QED
    BY <1>6, <2>1, QuietStep DEF vars, document
<1>7. QED
  BY <1>1, <1>2, <1>3, <1>4, <1>5, <1>6 DEF Next

LEMMA Invariance == Spec => []IInv
BY InitIInv, NextIInv, PTL DEF Spec

(* Every variable keeps its type: no clock, sequence number or watermark   *)
(* reaches MaxTimestamp, whatever is merged or restored.                   *)
THEOREM TypeCorrect == Spec => []TypeOK
<1>1. IInv => TypeOK
  BY DEF IInv
<1>2. QED
  BY Invariance, <1>1, PTL

(* The vector clock a replica shows its peers is exactly what it holds, so *)
(* a missing operation is always asked for again.                          *)
THEOREM FrontierIsExact == Spec => []FrontierExact
<1>1. IInv => FrontierExact
  BY DEF IInv
<1>2. QED
  BY Invariance, <1>1, PTL

(* An operation ignored as compacted is one whose effects are here.        *)
THEOREM CompactedOperationsAreHeld == Spec => []CompactedIsHeld
<1>1. IInv => CompactedIsHeld
  BY DEF IInv
<1>2. QED
  BY Invariance, <1>1, PTL

(* What a peer may still ask for is in the log.                            *)
THEOREM LogIsComplete == Spec => []LogComplete
<1>1. IInv => LogComplete
  BY DEF IInv
<1>2. QED
  BY Invariance, <1>1, PTL

(* The Lamport clock dominates everything held: the next local operation   *)
(* wins every comparison with what its author has seen.                    *)
THEOREM LamportClockDominates == Spec => []ClockDominates
<1>1. IInv => ClockDominates
  BY DEF IInv
<1>2. QED
  BY Invariance, <1>1, PTL

(* A saved snapshot accounts for exactly what it folded in.                *)
THEOREM SnapshotsAreExact == Spec => []SnapshotsExact
<1>1. IInv => SnapshotsExact
  BY DEF IInv
<1>2. QED
  BY Invariance, <1>1, PTL

-----------------------------------------------------------------------------
(***************************************************************************)
(* History: what no step other than a restart takes away from a replica.   *)
(***************************************************************************)
(* A step leaves r with everything it had.  Knowledge is read off the      *)
(* frontier clock, which is what the merge extends.                        *)
Grows(r) ==
  /\ content[r] \subseteq content'[r]
  /\ \A s \in Site : frontier[r][s].frontier <= frontier'[r][s].frontier
  /\ \A s \in Site : compacted[r][s] <= compacted'[r][s]
  /\ syncedThrough[r] <= syncedThrough'[r]
  /\ clock[r] <= clock'[r]

LEMMA FieldTypes ==
  ASSUME TypeOK, NEW r \in Replica
  PROVE  /\ clock[r] \in Nat
         /\ syncedThrough[r] \in Nat
         /\ \A s \in Site : compacted[r][s] \in Nat /\ frontier[r][s].frontier \in Nat
BY DEF TypeOK, VectorClock, Count

(* Recording operations, with a clock and a watermark that do not go back. *)
LEMMA RecordGrows ==
  ASSUME TypeOK, NEW r \in Replica, NEW ops \in SUBSET Op, Record(r, ops),
         UNCHANGED syncedThrough,
         NEW n \in Count, clock' = [clock EXCEPT ![r] = n], n >= clock[r],
         NEW c \in VectorClock, compacted' = [compacted EXCEPT ![r] = c],
         \A s \in Site : c[s] >= compacted[r][s]
  PROVE  \A q \in Replica : Grows(q)
<1> TAKE q \in Replica
<1> USE MaxTimestampAssumption
<1>1. /\ content'[r] = content[r] \cup ops
      /\ \A s \in Site : frontier'[r][s].frontier >= frontier[r][s].frontier
      /\ frontier' \in [Replica -> [Site -> ClockState]]
      /\ \A p \in Replica \ {r} : content'[p] = content[p] /\ frontier'[p] = frontier[p]
  BY RecordEffect
<1>2. /\ clock[q] \in Nat
      /\ syncedThrough[q] \in Nat
      /\ \A s \in Site : compacted[q][s] \in Nat /\ frontier[q][s].frontier \in Nat
  BY FieldTypes
<1>3. CASE q = r
  <2>1. clock'[r] = n /\ compacted'[r] = c /\ syncedThrough'[r] = syncedThrough[r]
    BY DEF TypeOK
  <2>2. n \in Nat /\ \A s \in Site : c[s] \in Nat /\ frontier'[r][s].frontier \in Nat
    BY <1>1 DEF VectorClock, ClockState, Count
  <2>3. QED
    BY <1>1, <1>2, <1>3, <2>1, <2>2 DEF Grows
<1>4. CASE q # r
  <2>1. /\ clock'[q] = clock[q] /\ compacted'[q] = compacted[q]
        /\ syncedThrough'[q] = syncedThrough[q]
    BY <1>4 DEF TypeOK
  <2>2. QED
    BY <1>1, <1>2, <1>4, <2>1 DEF Grows
<1>5. QED
  BY <1>3, <1>4

(* Nothing of a replica but its acknowledgements moves.                    *)
LEMMA QuietGrows ==
  ASSUME TypeOK, UNCHANGED << clock, content, frontier, compacted >>,
         \A q \in Replica : syncedThrough'[q] >= syncedThrough[q]
  PROVE  \A q \in Replica : Grows(q)
<1> TAKE q \in Replica
<1>1. /\ clock[q] \in Nat
      /\ syncedThrough[q] \in Nat
      /\ \A s \in Site : compacted[q][s] \in Nat /\ frontier[q][s].frontier \in Nat
  BY FieldTypes
<1>2. clock[q] <= clock'[q]
  BY <1>1
<1>3. /\ \A s \in Site : frontier[q][s].frontier <= frontier'[q][s].frontier
      /\ \A s \in Site : compacted[q][s] <= compacted'[q][s]
  BY <1>1
<1>4. QED
  BY <1>2, <1>3 DEF Grows
-----------------------------------------------------------------------------
LEMMA ApplyGrows ==
  ASSUME IInv, NEW r \in Replica, NEW p \in Payload, Apply(r, p)
  PROVE  \A q \in Replica : Grows(q)
<1> DEFINE op == [site |-> siteID[r], seq |-> localSeq[r] + 1,
                  ts |-> clock[r] + 1, payload |-> p]
<1>1. TypeOK
  BY DEF IInv
<1>2. /\ ~ Exhausted(r)
      /\ Record(r, {op})
      /\ clock' = [clock EXCEPT ![r] = clock[r] + 1]
      /\ UNCHANGED << compacted, syncedThrough >>
  BY DEF Apply
<1>3. clock[r] + 1 \in Number /\ localSeq[r] + 1 \in Number
  BY <1>1, <1>2, MaxTimestampAssumption DEF Exhausted, TypeOK, Count, Number
<1>4. {op} \in SUBSET Op
  BY <1>1, <1>3 DEF TypeOK, Op
<1> HIDE DEF op
<1>5. clock[r] + 1 \in Count /\ clock[r] + 1 >= clock[r]
  BY <1>1, <1>3, MaxTimestampAssumption DEF TypeOK, Count, Number
<1>6. compacted[r] \in VectorClock /\ compacted' = [compacted EXCEPT ![r] = compacted[r]]
  BY <1>1, <1>2 DEF TypeOK
<1>7. \A s \in Site : compacted[r][s] >= compacted[r][s]
  BY <1>1, FieldTypes
<1>8. QED
  BY <1>1, <1>2, <1>4, <1>5, <1>6, <1>7, RecordGrows

LEMMA MergeOpsGrows ==
  ASSUME IInv, NEW r \in Replica, NEW batch \in batches, MergeOps(r, batch)
  PROVE  \A q \in Replica : Grows(q)
<1> DEFINE ops == Unseen(r, batch.ops)
           latest == LatestTimestamp(clock[r], batch.ops)
<1>1. TypeOK
  BY DEF IInv
<1>2. /\ Record(r, ops)
      /\ clock' = [clock EXCEPT ![r] = latest]
      /\ UNCHANGED << compacted, syncedThrough >>
  BY DEF MergeOps
<1>3. batch.ops \in SUBSET Op /\ clock[r] \in Count
  BY <1>1 DEF TypeOK
<1>4. ops \in SUBSET Op
  BY <1>3 DEF Unseen
<1>5. latest \in Count /\ latest >= clock[r]
  BY <1>3, LatestTimestampBounds
<1> HIDE DEF ops, latest
<1>6. compacted[r] \in VectorClock /\ compacted' = [compacted EXCEPT ![r] = compacted[r]]
  BY <1>1, <1>2 DEF TypeOK
<1>7. \A s \in Site : compacted[r][s] >= compacted[r][s]
  BY <1>1, FieldTypes
<1>8. QED
  BY <1>1, <1>2, <1>4, <1>5, <1>6, <1>7, RecordGrows

LEMMA MergeDocumentGrows ==
  ASSUME IInv, NEW r \in Replica, NEW delta \in Message, MergeDocument(r, delta)
  PROVE  \A q \in Replica : Grows(q)
<1> DEFINE ops == Unseen(r, delta.ops)
           latest == LatestTimestamp(clock[r], delta.ops)
           now == Max({latest, delta.clock})
           folded == MergeClocks(compacted[r], delta.compacted)
<1>1. TypeOK
  BY DEF IInv
<1>2. /\ Record(r, ops)
      /\ compacted' = [compacted EXCEPT ![r] = folded]
      /\ clock' = [clock EXCEPT ![r] = now]
      /\ UNCHANGED syncedThrough
  BY DEF MergeDocument
<1>3. /\ delta.ops \in SUBSET Op
      /\ delta.clock \in Count
      /\ delta.compacted \in VectorClock
  BY DEF Message
<1>4. ops \in SUBSET Op
  BY <1>3 DEF Unseen
<1>5. clock[r] \in Count /\ compacted[r] \in VectorClock
  BY <1>1 DEF TypeOK
<1>6. latest \in Count /\ latest >= clock[r]
  BY <1>3, <1>5, LatestTimestampBounds
<1>7. now \in Count /\ now >= latest
  BY <1>3, <1>6, MaxOfTwo
<1>8. folded \in VectorClock /\ \A s \in Site : folded[s] >= compacted[r][s]
  BY <1>3, <1>5, MergeClocksType
<1> HIDE DEF ops, latest, now, folded
<1>9. now >= clock[r]
  BY <1>5, <1>6, <1>7, MaxTimestampAssumption DEF Count
<1>10. QED
  BY <1>1, <1>2, <1>4, <1>7, <1>8, <1>9, RecordGrows

LEMMA OutboxGrows ==
  ASSUME IInv, NEW r \in Replica,
         PendingOps(r) \/ \E batch \in batches : MarkSynced(r, batch)
  PROVE  \A q \in Replica : Grows(q)
<1>1. TypeOK
  BY DEF IInv
<1>2. CASE PendingOps(r)
  <2>1. \A q \in Replica : syncedThrough'[q] >= syncedThrough[q]
    BY <1>1, <1>2, FieldTypes DEF PendingOps
  <2>2. QED
    BY <1>1, <1>2, <2>1, QuietGrows DEF PendingOps
<1>3. ASSUME NEW batch \in batches, MarkSynced(r, batch)
      PROVE  \A q \in Replica : Grows(q)
  <2>1. batch.watermark \in Nat
    BY <1>1 DEF TypeOK, Count
  <2>2. \A q \in Replica : syncedThrough'[q] >= syncedThrough[q]
    BY <1>1, <1>3, <2>1, FieldTypes DEF MarkSynced, TypeOK
  <2>3. QED
    BY <1>1, <1>3, <2>2, QuietGrows DEF MarkSynced
<1>4. QED
  BY <1>2, <1>3

(* Steps that leave every document alone.                                  *)
LEMMA StillGrows ==
  ASSUME IInv, UNCHANGED document
  PROVE  \A q \in Replica : Grows(q)
<1>1. TypeOK
  BY DEF IInv
<1>2. \A q \in Replica : syncedThrough'[q] >= syncedThrough[q]
  BY <1>1, FieldTypes DEF document
<1>3. QED
  BY <1>1, <1>2, QuietGrows DEF document

(* Only a restart may take anything away.                                  *)
LEMMA NextGrows ==
  ASSUME IInv, [Next]_vars, restores' = restores
  PROVE  \A q \in Replica : Grows(q)
<1>1. CASE LocalStep
  BY <1>1, ApplyGrows, OutboxGrows DEF LocalStep
<1>2. CASE SendStep
  <2>1. UNCHANGED document
    BY <1>2 DEF SendStep, Send
  <2>2. QED
    BY <2>1, StillGrows
<1>3. CASE MergeStep
  <2>1. ASSUME NEW r \in Replica, NEW delta \in inFlight, MergeInFlight(r, delta)
        PROVE  \A q \in Replica : Grows(q)
    <3>1. delta \in Message
      BY DEF IInv, TypeOK
    <3>2. QED
      BY <2>1, <3>1, MergeDocumentGrows DEF MergeInFlight
  <2>2. ASSUME NEW r \in Replica, NEW p \in Replica, Pull(r, p)
        PROVE  \A q \in Replica : Grows(q)
    <3>1. DeltaSince(p, Knowledge(r)) \in Message
      BY DeltaType
    <3>2. QED
      BY <2>2, <3>1, MergeDocumentGrows DEF Pull
  <2>3. QED
    BY <1>3, <2>1, <2>2, MergeOpsGrows DEF MergeStep
<1>4. CASE \E message \in inFlight : Lose(message)
  BY <1>4, StillGrows DEF Lose
<1>5. CASE RestartStep
  <2>1. ASSUME NEW r \in Replica, NEW pending, Snapshot(r, pending)
        PROVE  \A q \in Replica : Grows(q)
    BY <2>1, StillGrows DEF Snapshot
  <2>2. ASSUME NEW r \in Replica, NEW snap, NEW s, Restore(r, snap, s)
        PROVE  FALSE
    <3>1. restores' = restores + 1 /\ restores \in Nat
      BY <2>2 DEF Restore, IInv, TypeOK
    <3>2. QED
      BY <3>1
  <2>3. QED
    BY <1>5, <2>1, <2>2 DEF RestartStep
<1>6. CASE UNCHANGED vars
  BY <1>6, StillGrows DEF vars
<1>7. QED
  BY <1>1, <1>2, <1>3, <1>4, <1>5, <1>6 DEF Next

-----------------------------------------------------------------------------
(* The vector clock a replica shows is its frontier; stated of a whole     *)
(* state so that it can be used of the next one too.                       *)
KnowledgeShown ==
  \A r \in Replica : \A s \in Site : Knowledge(r)[s] = frontier[r][s].frontier

LEMMA ShownByInvariant == IInv => KnowledgeShown
BY KnowledgeIsFrontier DEF IInv, KnowledgeShown

(* Short of a restart no step of any replica, its own or a peer's, takes   *)
(* back operations, knowledge, acknowledgements or time: merging, folding  *)
(* under a compaction watermark and acknowledging are monotone.            *)
THEOREM ReplicasNeverForget == Spec => NeverForgets
<1> DEFINE Monotone ==
      restores' = restores =>
        \A r \in Replica :
          /\ content[r] \subseteq content'[r]
          /\ CoveredBy(Knowledge(r), Knowledge(r)')
          /\ CoveredBy(compacted[r], compacted'[r])
          /\ syncedThrough'[r] >= syncedThrough[r]
          /\ clock'[r] >= clock[r]
<1>1. IInv /\ KnowledgeShown /\ KnowledgeShown' /\ [Next]_vars => Monotone
  <2> SUFFICES ASSUME IInv, KnowledgeShown, KnowledgeShown', [Next]_vars,
                      restores' = restores, NEW r \in Replica
               PROVE  /\ content[r] \subseteq content'[r]
                      /\ CoveredBy(Knowledge(r), Knowledge(r)')
                      /\ CoveredBy(compacted[r], compacted'[r])
                      /\ syncedThrough'[r] >= syncedThrough[r]
                      /\ clock'[r] >= clock[r]
    OBVIOUS
  <2>1. IInv'
    BY NextIInv
  <2>2. Grows(r)
    BY NextGrows
  <2>3. CoveredBy(Knowledge(r), Knowledge(r)')
    BY <2>2 DEF Grows, KnowledgeShown, CoveredBy
  <2>4. /\ clock[r] \in Nat /\ clock'[r] \in Nat
        /\ syncedThrough[r] \in Nat /\ syncedThrough'[r] \in Nat
    BY <2>1 DEF IInv, TypeOK, Count
  <2>5. QED
    BY <2>2, <2>3, <2>4 DEF Grows, CoveredBy
<1>2. QED
  BY <1>1, Invariance, ShownByInvariant, PTL DEF Spec, NeverForgets

-----------------------------------------------------------------------------
(***************************************************************************)
(* A replica's own operations: how they are numbered, that the outbox      *)
(* offers every one not acknowledged, and that a snapshot taken of them    *)
(* can be restored.  None of it needs site IDs to be used properly: every  *)
(* argument looks at one replica and at the snapshots it may restart from. *)
(***************************************************************************)
(* The site's own operations here are 1..localSeq; with FrontierExact this *)
(* is OwnNumbering.                                                        *)
OwnSeqs == \A r \in Replica : SeqsOf(content[r], siteID[r]) = 1 .. localSeq[r]

(* Own operations that are not acknowledged stay in the log, even when a   *)
(* peer's compaction watermark covers them.                                *)
UnackedLogged ==
  \A r \in Replica : \A op \in content[r] :
    op.site = siteID[r] /\ op.seq > syncedThrough[r] => op \in log[r]

(* Inside one replica an identity stands for one operation.                *)
LocallyUnique == \A r \in Replica : ~ Collide(content[r], content[r])

AckedWereIssued == \A r \in Replica : syncedThrough[r] <= localSeq[r]

(* Some batch handed out the n-th operation of s.                          *)
HandedOut(s, n) == \E batch \in batches : batch.site = s /\ n \in {op.seq : op \in batch.ops}

AckedWereHandedOut ==
  \A r \in Replica : \A n \in 1 .. syncedThrough[r] : HandedOut(siteID[r], n)

(* Acknowledging a batch acknowledges nothing that was not handed out.     *)
WatermarksHandedOut ==
  \A batch \in batches : \A n \in 1 .. batch.watermark : HandedOut(batch.site, n)

(* The same facts of a saved snapshot, which may become a replica's state. *)
OwnSnapshot(snap) ==
  /\ ValidSnapshot(snap)
  /\ snap.vc[snap.site] = snap.applied[snap.site]
  /\ \A op \in snap.content : op.seq <= snap.applied[op.site]
  /\ \A op \in snap.content :
       op.site = snap.site /\ op.seq > snap.syncedThrough => op \in snap.outbox
  /\ ~ Collide(snap.content, snap.content)
  /\ \A n \in 1 .. snap.syncedThrough : HandedOut(snap.site, n)

OwnSnapshots == \A r \in Replica : \A snap \in store[r] : OwnSnapshot(snap)

LocalInv ==
  /\ OwnSeqs
  /\ UnackedLogged
  /\ LocallyUnique
  /\ AckedWereIssued
  /\ AckedWereHandedOut
  /\ WatermarksHandedOut
  /\ OwnSnapshots

-----------------------------------------------------------------------------
(* A frontier clock that holds exactly 1..n has nothing staged.            *)
LEMMA HeldExactly ==
  ASSUME NEW f \in ClockState, NEW n \in Count, Held(f) = 1 .. n,
         \A m \in f.staged : m > f.frontier + 1
  PROVE  f = [frontier |-> n, staged |-> {}]
<1> USE MaxTimestampAssumption
<1>1. /\ f.frontier \in Nat
      /\ f.staged \subseteq Nat
      /\ n \in Nat
      /\ (1 .. f.frontier) \cup f.staged = 1 .. n
  BY DEF ClockState, Count, Number, Held
<1>2. f.frontier <= n
  <2>1. CASE f.frontier = 0
    BY <1>1, <2>1
  <2>2. CASE f.frontier # 0
    <3>1. f.frontier \in 1 .. f.frontier
      BY <1>1, <2>2
    <3>2. QED
      BY <1>1, <3>1
  <2>3. QED
    BY <2>1, <2>2
<1>3. f.frontier + 1 \notin (1 .. f.frontier) \cup f.staged
  BY <1>1
<1>4. f.frontier = n
  BY <1>1, <1>2, <1>3
<1>5. f.staged = {}
  BY <1>1, <1>4
<1>6. QED
  BY <1>4, <1>5 DEF ClockState

LEMMA OwnNumberingHolds ==
  ASSUME TypeOK, FrontierExact, OwnSeqs
  PROVE  OwnNumbering
<1> SUFFICES ASSUME NEW r \in Replica
             PROVE  frontier[r][siteID[r]] = [frontier |-> localSeq[r], staged |-> {}]
  BY DEF OwnNumbering
<1>1. /\ siteID[r] \in Site
      /\ localSeq[r] \in Count
      /\ frontier[r][siteID[r]] \in ClockState
  BY DEF TypeOK, ClockState
<1>2. /\ Held(frontier[r][siteID[r]]) = 1 .. localSeq[r]
      /\ \A m \in frontier[r][siteID[r]].staged : m > frontier[r][siteID[r]].frontier + 1
  BY <1>1 DEF FrontierExact, Held, OwnSeqs
<1>3. QED
  BY <1>1, <1>2, HeldExactly

(* What snapshot() records as applied of every site.                       *)
LEMMA AppliedIsHighest ==
  ASSUME TypeOK, NEW r \in Replica, NEW s \in Site
  PROVE  /\ Applied(r)[s] \in Nat
         /\ Applied(r)[s] >= compacted[r][s]
         /\ \A n \in SeqsOf(log[r], s) : Applied(r)[s] >= n
         /\ Applied(r)[s] \in {compacted[r][s]} \cup SeqsOf(log[r], s)
<1> DEFINE S == {compacted[r][s]} \cup SeqsOf(log[r], s)
<1>1. S \in SUBSET Count /\ S # {}
  <2>1. compacted[r][s] \in Count
    BY DEF TypeOK, VectorClock
  <2>2. SeqsOf(log[r], s) \in SUBSET Number
    BY SeqsAreNumbers DEF TypeOK
  <2>3. QED
    BY <2>1, <2>2, MaxTimestampAssumption DEF Number, Count
<1>2. Max(S) \in S /\ \A n \in S : Max(S) >= n
  BY <1>1, MaxOfCounts
<1>3. Applied(r)[s] = Max(S)
  BY DEF Applied
<1>4. compacted[r][s] \in S /\ SeqsOf(log[r], s) \subseteq S
  OBVIOUS
<1>5. Max(S) \in Nat
  BY <1>1, <1>2 DEF Count
<1>6. Applied(r)[s] \in S
  BY <1>2, <1>3
<1>7. \A n \in S : Applied(r)[s] >= n
  BY <1>2, <1>3
<1>8. QED
  BY <1>3, <1>4, <1>5, <1>6, <1>7

LEMMA AppliedCoversContent ==
  ASSUME TypeOK, LogComplete, NEW r \in Replica, NEW op \in content[r]
  PROVE  op.seq <= Applied(r)[op.site]
<1>1. op.seq \in Nat /\ op.site \in Site
  BY DEF TypeOK, Op, Number
<1>2. compacted[r][op.site] \in Nat
  BY <1>1 DEF TypeOK, VectorClock, Count
<1>3. /\ Applied(r)[op.site] \in Nat
      /\ Applied(r)[op.site] >= compacted[r][op.site]
      /\ \A n \in SeqsOf(log[r], op.site) : Applied(r)[op.site] >= n
  BY <1>1, AppliedIsHighest
<1>4. CASE op.seq > compacted[r][op.site]
  <2>1. op.seq \in SeqsOf(log[r], op.site)
    BY <1>4 DEF LogComplete, SeqsOf
  <2>2. QED
    BY <1>1, <1>3, <2>1
<1>5. CASE ~ (op.seq > compacted[r][op.site])
  BY <1>1, <1>2, <1>3, <1>5
<1>6. QED
  BY <1>4, <1>5

-----------------------------------------------------------------------------
(* The outbox is exactly the operations after the acknowledged ones.       *)
LEMMA OutboxIsExact ==
  ASSUME TypeOK, LogComplete, OwnSeqs, UnackedLogged, NEW r \in Replica
  PROVE  {op.seq : op \in Outbox(r)} = (syncedThrough[r] + 1) .. localSeq[r]
<1>1. /\ syncedThrough[r] \in Nat
      /\ localSeq[r] \in Nat
      /\ \A op \in content[r] : op.seq \in Nat
  BY DEF TypeOK, Count, Op, Number
<1>2. ASSUME NEW op \in Outbox(r)
      PROVE  op.seq \in (syncedThrough[r] + 1) .. localSeq[r]
  <2>1. op \in content[r] /\ op.site = siteID[r] /\ op.seq > syncedThrough[r]
    BY DEF Outbox, LogComplete
  <2>2. op.seq \in 1 .. localSeq[r]
    BY <2>1 DEF OwnSeqs, SeqsOf
  <2>3. QED
    BY <1>1, <2>1, <2>2
<1>3. ASSUME NEW n \in (syncedThrough[r] + 1) .. localSeq[r]
      PROVE  \E op \in Outbox(r) : op.seq = n
  <2>1. n \in 1 .. localSeq[r] /\ n > syncedThrough[r]
    BY <1>1
  <2>2. PICK op \in content[r] : op.site = siteID[r] /\ op.seq = n
    BY <2>1 DEF OwnSeqs, SeqsOf
  <2>3. QED
    BY <2>1, <2>2 DEF UnackedLogged, Outbox
<1>4. QED
  BY <1>2, <1>3

(* As many as validateSnapshot counts.                                     *)
LEMMA OutboxSize ==
  ASSUME TypeOK, LogComplete, LocalInv, NEW r \in Replica
  PROVE  Cardinality(Outbox(r)) = localSeq[r] - syncedThrough[r]
<1> DEFINE N == (syncedThrough[r] + 1) .. localSeq[r]
           g == [n \in N |-> CHOOSE op \in Outbox(r) : op.seq = n]
<1>1. syncedThrough[r] \in Nat /\ localSeq[r] \in Nat /\ syncedThrough[r] <= localSeq[r]
  BY DEF TypeOK, Count, LocalInv, AckedWereIssued
<1>2. {op.seq : op \in Outbox(r)} = N
  BY OutboxIsExact DEF LocalInv
<1>3. \A n \in N : g[n] \in Outbox(r) /\ g[n].seq = n
  BY <1>2
<1>4. ASSUME NEW a \in Outbox(r), NEW b \in Outbox(r), a.seq = b.seq
      PROVE  a = b
  <2>1. a \in content[r] /\ b \in content[r] /\ SameRef(a, b)
    BY <1>4 DEF SameRef, Outbox, LogComplete
  <2>2. ~ Collide(content[r], content[r])
    BY DEF LocalInv, LocallyUnique
  <2>3. QED
    BY <2>1, <2>2 DEF Collide
<1>5. g \in Bijection(N, Outbox(r))
  <2>1. g \in [N -> Outbox(r)]
    BY <1>3
  <2>2. \A m, n \in N : g[m] = g[n] => m = n
    BY <1>3
  <2>3. ASSUME NEW op \in Outbox(r)
        PROVE  \E n \in N : g[n] = op
    <3>1. op.seq \in N
      BY <1>2
    <3>2. g[op.seq] \in Outbox(r) /\ g[op.seq].seq = op.seq
      BY <1>3, <3>1
    <3> HIDE DEF g
    <3>3. g[op.seq] = op
      BY <1>4, <3>2
    <3>4. QED
      BY <3>1, <3>3
  <2> HIDE DEF g, N
  <2>4. g \in Injection(N, Outbox(r))
    BY <2>1, <2>2 DEF Injection, IsInjective
  <2>5. g \in Surjection(N, Outbox(r))
    BY <2>1, <2>3 DEF Surjection
  <2>6. QED
    BY <2>4, <2>5 DEF Bijection
<1>6. ExistsBijection(N, Outbox(r))
  BY <1>5 DEF ExistsBijection
<1>7. IsFiniteSet(N) /\ Cardinality(N) = localSeq[r] - syncedThrough[r]
  <2>1. syncedThrough[r] + 1 \in Int /\ localSeq[r] \in Int
    BY <1>1
  <2>2. /\ IsFiniteSet(N)
        /\ Cardinality(N) = IF syncedThrough[r] + 1 > localSeq[r]
                              THEN 0 ELSE localSeq[r] - (syncedThrough[r] + 1) + 1
    BY <2>1, FS_Interval, Zenon
  <2>3. QED
    BY <1>1, <2>2
<1> HIDE DEF N
<1>8. QED
  BY <1>6, <1>7, FS_Bijection
-----------------------------------------------------------------------------
(* Batches are only added, so what was handed out stays handed out.        *)
LEMMA SnapshotsStay ==
  ASSUME OwnSnapshots, batches \subseteq batches', UNCHANGED store
  PROVE  OwnSnapshots'
<1>1. ASSUME NEW r \in Replica, NEW snap \in store[r], NEW n \in 1 .. snap.syncedThrough
      PROVE  \E batch \in batches' : batch.site = snap.site /\ n \in {op.seq : op \in batch.ops}
  BY DEF OwnSnapshots, OwnSnapshot, HandedOut
<1>2. QED
  BY <1>1 DEF OwnSnapshots, OwnSnapshot, HandedOut

LEMMA HandedOutStays ==
  ASSUME AckedWereHandedOut, WatermarksHandedOut,
         UNCHANGED << siteID, syncedThrough, batches >>
  PROVE  AckedWereHandedOut' /\ WatermarksHandedOut'
BY DEF AckedWereHandedOut, WatermarksHandedOut, HandedOut

(* What a merge takes in extends nobody's own numbering and stands for     *)
(* identities not known here.                                              *)
LEMMA UnseenIsForeign ==
  ASSUME TypeOK, LogComplete, NEW r \in Replica, NEW ops \in SUBSET Op, Acceptable(r, ops)
  PROVE  /\ SeqsOf(Unseen(r, ops), siteID[r]) \subseteq 1 .. localSeq[r]
         /\ ~ Collide(Unseen(r, ops), content[r])
         /\ ~ Collide(Unseen(r, ops), Unseen(r, ops))
<1>1. SeqsOf(Unseen(r, ops), siteID[r]) \subseteq 1 .. localSeq[r]
  <2>1. ASSUME NEW op \in Unseen(r, ops), op.site = siteID[r]
        PROVE  op.seq \in 1 .. localSeq[r]
    <3>1. op \in ops /\ op.seq <= localSeq[r]
      BY <2>1 DEF Unseen, Acceptable
    <3>2. op.seq \in Nat /\ op.seq >= 1 /\ localSeq[r] \in Nat
      BY <3>1 DEF Op, Number, TypeOK, Count
    <3>3. QED
      BY <3>1, <3>2
  <2>2. QED
    BY <2>1 DEF SeqsOf
<1>2. ~ Collide(Unseen(r, ops), content[r])
  <2>1. ASSUME NEW op \in Unseen(r, ops), NEW known \in content[r], SameRef(op, known)
        PROVE  FALSE
    <3>1. known.seq > compacted[r][known.site] /\ known \notin log[r]
      BY <2>1 DEF Unseen, SameRef
    <3>2. QED
      BY <3>1 DEF LogComplete
  <2>2. QED
    BY <2>1 DEF Collide
<1>3. ~ Collide(Unseen(r, ops), Unseen(r, ops))
  BY DEF Acceptable, Collide, Unseen
<1>4. QED
  BY <1>1, <1>2, <1>3

(* Recording operations of others, or the next one of one's own.           *)
LEMMA RecordKeepsLocal ==
  ASSUME TypeOK, LocalInv, NEW r \in Replica, NEW ops \in SUBSET Op, Record(r, ops),
         NEW n \in Nat, localSeq' = [localSeq EXCEPT ![r] = n], n >= localSeq[r],
         (1 .. localSeq[r]) \cup SeqsOf(ops, siteID[r]) = 1 .. n,
         ~ Collide(ops, content[r]), ~ Collide(ops, ops),
         UNCHANGED << siteID, syncedThrough, store, batches >>
  PROVE  LocalInv'
<1>1. /\ log'[r] = log[r] \cup ops
      /\ content'[r] = content[r] \cup ops
      /\ \A q \in Replica \ {r} : log'[q] = log[q] /\ content'[q] = content[q]
  BY RecordEffect
<1>2. localSeq'[r] = n /\ \A q \in Replica \ {r} : localSeq'[q] = localSeq[q]
  BY DEF TypeOK
<1>3. OwnSeqs'
  <2>1. ASSUME NEW q \in Replica
        PROVE  SeqsOf(content'[q], siteID[q]) = 1 .. localSeq'[q]
    <3>1. CASE q = r
      <4>1. SeqsOf(content'[r], siteID[r])
              = SeqsOf(content[r], siteID[r]) \cup SeqsOf(ops, siteID[r])
        BY <1>1 DEF SeqsOf
      <4>2. SeqsOf(content[r], siteID[r]) = 1 .. localSeq[r]
        BY DEF LocalInv, OwnSeqs
      <4>3. QED
        BY <1>2, <3>1, <4>1, <4>2
    <3>2. CASE q # r
      BY <1>1, <1>2, <3>2 DEF LocalInv, OwnSeqs
    <3>3. QED
      BY <3>1, <3>2
  <2>2. QED
    BY <2>1 DEF OwnSeqs
<1>4. UnackedLogged'
  <2>1. ASSUME NEW q \in Replica, NEW op \in content'[q],
               op.site = siteID[q], op.seq > syncedThrough[q]
        PROVE  op \in log'[q]
    BY <1>1, <2>1 DEF LocalInv, UnackedLogged
  <2>2. QED
    BY <2>1 DEF UnackedLogged
<1>5. LocallyUnique'
  <2>1. ASSUME NEW q \in Replica, NEW a \in content'[q], NEW b \in content'[q], SameRef(a, b)
        PROVE  a = b
    <3>1. ~ Collide(content[q], content[q])
      BY DEF LocalInv, LocallyUnique
    <3>2. CASE q = r
      <4>1. SameRef(b, a)
        BY <2>1 DEF SameRef
      <4>2. (a \in content[r] \/ a \in ops) /\ (b \in content[r] \/ b \in ops)
        BY <1>1, <3>2
      <4>3. QED
        BY <2>1, <3>1, <3>2, <4>1, <4>2 DEF Collide
    <3>3. CASE q # r
      BY <1>1, <2>1, <3>1, <3>3 DEF Collide
    <3>4. QED
      BY <3>2, <3>3
  <2>2. QED
    BY <2>1 DEF LocallyUnique, Collide
<1>6. AckedWereIssued'
  <2>1. ASSUME NEW q \in Replica
        PROVE  syncedThrough[q] <= localSeq'[q]
    <3>1. syncedThrough[q] <= localSeq[q] /\ syncedThrough[q] \in Nat /\ localSeq[q] \in Nat
      BY DEF LocalInv, AckedWereIssued, TypeOK, Count
    <3>2. QED
      BY <1>2, <3>1
  <2>2. QED
    BY <2>1 DEF AckedWereIssued
<1>7. AckedWereHandedOut' /\ WatermarksHandedOut' /\ OwnSnapshots'
  BY SnapshotsStay, HandedOutStays DEF LocalInv
<1>8. QED
  BY <1>3, <1>4, <1>5, <1>6, <1>7 DEF LocalInv

LEMMA ApplyLocal ==
  ASSUME IInv, LocalInv, NEW r \in Replica, NEW p \in Payload, Apply(r, p)
  PROVE  LocalInv'
<1> DEFINE op == [site |-> siteID[r], seq |-> localSeq[r] + 1,
                  ts |-> clock[r] + 1, payload |-> p]
<1>1. TypeOK
  BY DEF IInv
<1>2. /\ ~ Exhausted(r)
      /\ Record(r, {op})
      /\ localSeq' = [localSeq EXCEPT ![r] = localSeq[r] + 1]
      /\ UNCHANGED << siteID, syncedThrough, store, batches >>
  BY DEF Apply
<1>3. clock[r] + 1 \in Number /\ localSeq[r] + 1 \in Number
  BY <1>1, <1>2, MaxTimestampAssumption DEF Exhausted, TypeOK, Count, Number
<1>4. {op} \in SUBSET Op
  BY <1>1, <1>3 DEF TypeOK, Op
<1>5. op.site = siteID[r] /\ op.seq = localSeq[r] + 1
  OBVIOUS
<1> HIDE DEF op
<1>6. localSeq[r] \in Nat
  BY <1>1 DEF TypeOK, Count
<1>7. (1 .. localSeq[r]) \cup SeqsOf({op}, siteID[r]) = 1 .. (localSeq[r] + 1)
  <2>1. SeqsOf({op}, siteID[r]) = {localSeq[r] + 1}
    BY <1>5 DEF SeqsOf
  <2>2. QED
    BY <1>6, <2>1
<1>8. ~ Collide({op}, content[r])
  <2>1. ASSUME NEW known \in content[r], SameRef(op, known)
        PROVE  FALSE
    <3>1. known.site = siteID[r] /\ known.seq = localSeq[r] + 1
      BY <1>5, <2>1 DEF SameRef
    <3>2. localSeq[r] + 1 \in 1 .. localSeq[r]
      BY <3>1 DEF LocalInv, OwnSeqs, SeqsOf
    <3>3. QED
      BY <1>6, <3>2
  <2>2. QED
    BY <2>1 DEF Collide
<1>9. ~ Collide({op}, {op})
  BY DEF Collide
<1>10. localSeq[r] + 1 \in Nat /\ localSeq[r] + 1 >= localSeq[r]
  BY <1>6
<1>11. QED
  BY <1>1, <1>2, <1>4, <1>7, <1>8, <1>9, <1>10, RecordKeepsLocal

(* Any accepted batch, delta or captured document.                         *)
LEMMA MergeLocal ==
  ASSUME IInv, LocalInv, NEW r \in Replica, NEW ops \in SUBSET Op,
         Acceptable(r, ops), Record(r, Unseen(r, ops)),
         UNCHANGED << siteID, localSeq, syncedThrough, store, batches >>
  PROVE  LocalInv'
<1>1. TypeOK /\ LogComplete
  BY DEF IInv
<1>2. /\ SeqsOf(Unseen(r, ops), siteID[r]) \subseteq 1 .. localSeq[r]
      /\ ~ Collide(Unseen(r, ops), content[r])
      /\ ~ Collide(Unseen(r, ops), Unseen(r, ops))
  BY <1>1, UnseenIsForeign
<1>3. Unseen(r, ops) \in SUBSET Op
  BY DEF Unseen
<1>4. localSeq[r] \in Nat /\ localSeq' = [localSeq EXCEPT ![r] = localSeq[r]]
  BY <1>1 DEF TypeOK, Count
<1>5. (1 .. localSeq[r]) \cup SeqsOf(Unseen(r, ops), siteID[r]) = 1 .. localSeq[r]
  BY <1>2
<1>6. localSeq[r] >= localSeq[r]
  BY <1>4
<1>7. QED
  BY <1>1, <1>2, <1>3, <1>4, <1>5, <1>6, RecordKeepsLocal
-----------------------------------------------------------------------------
(* Handing out the outbox.                                                 *)
LEMMA WatermarkIsIssued ==
  ASSUME TypeOK, LogComplete, LocalInv, NEW r \in Replica
  PROVE  /\ Watermark(r) \in Nat
         /\ Watermark(r) <= localSeq[r]
<1> DEFINE S == {syncedThrough[r]} \cup {op.seq : op \in Outbox(r)}
<1>1. Watermark(r) \in Count
  BY WatermarkType
<1>2. /\ syncedThrough[r] \in Count
      /\ \A op \in Outbox(r) : op.seq \in Count
  BY MaxTimestampAssumption DEF TypeOK, Outbox, Op, Number, Count
<1>3. Max(S) \in S
  <2>1. S \in SUBSET Count /\ S # {}
    BY <1>2
  <2>2. QED
    BY <2>1, MaxOfCounts
<1>4. Watermark(r) = Max(S)
  BY DEF Watermark
<1>5. {op.seq : op \in Outbox(r)} = (syncedThrough[r] + 1) .. localSeq[r]
  BY OutboxIsExact DEF LocalInv
<1>6. syncedThrough[r] <= localSeq[r]
  BY DEF LocalInv, AckedWereIssued
<1>7. \A n \in S : n <= localSeq[r]
  BY <1>5, <1>6
<1> HIDE DEF S
<1>8. QED
  BY <1>1, <1>3, <1>4, <1>7 DEF Count

LEMMA PendingOpsLocal ==
  ASSUME IInv, LocalInv, NEW r \in Replica, PendingOps(r)
  PROVE  LocalInv'
<1>1. TypeOK /\ LogComplete
  BY DEF IInv
<1>2. /\ batches' = batches \cup Batch(r)
      /\ UNCHANGED << siteID, localSeq, log, content, syncedThrough, store >>
  BY DEF PendingOps
<1>3. OwnSeqs' /\ UnackedLogged' /\ LocallyUnique' /\ AckedWereIssued'
  BY <1>2 DEF LocalInv, OwnSeqs, UnackedLogged, LocallyUnique, AckedWereIssued
<1>4. OwnSnapshots'
  BY <1>2, SnapshotsStay DEF LocalInv
<1>5. \A s, n : HandedOut(s, n) =>
        \E batch \in batches' : batch.site = s /\ n \in {op.seq : op \in batch.ops}
  BY <1>2 DEF HandedOut
<1>6. AckedWereHandedOut'
  BY <1>2, <1>5 DEF LocalInv, AckedWereHandedOut, HandedOut
<1>7. WatermarksHandedOut'
  <2>1. ASSUME NEW batch \in batches', NEW n \in 1 .. batch.watermark
        PROVE  \E b \in batches' : b.site = batch.site /\ n \in {op.seq : op \in b.ops}
    <3>1. CASE batch \in batches
      BY <1>5, <3>1 DEF LocalInv, WatermarksHandedOut
    <3>2. CASE batch \in Batch(r)
      <4>1. /\ batch.site = siteID[r]
            /\ batch.ops = Outbox(r)
            /\ batch.watermark = Watermark(r)
        BY <3>2 DEF Batch
      <4>2. /\ syncedThrough[r] \in Nat
            /\ localSeq[r] \in Nat
            /\ Watermark(r) \in Nat
            /\ Watermark(r) <= localSeq[r]
        BY <1>1, WatermarkIsIssued DEF TypeOK, Count
      <4>3. CASE n <= syncedThrough[r]
        <5>1. n \in 1 .. syncedThrough[r]
          BY <4>1, <4>2, <4>3
        <5>2. QED
          BY <1>5, <4>1, <5>1 DEF LocalInv, AckedWereHandedOut
      <4>4. CASE ~ (n <= syncedThrough[r])
        <5>1. n \in (syncedThrough[r] + 1) .. localSeq[r]
          BY <4>1, <4>2, <4>4
        <5>2. n \in {op.seq : op \in Outbox(r)}
          BY <1>1, <5>1, OutboxIsExact DEF LocalInv
        <5>3. QED
          BY <1>2, <3>2, <4>1, <5>2
      <4>5. QED
        BY <4>3, <4>4
    <3>3. QED
      BY <1>2, <3>1, <3>2
  <2>2. QED
    BY <2>1 DEF WatermarksHandedOut, HandedOut
<1>8. QED
  BY <1>3, <1>4, <1>6, <1>7 DEF LocalInv

(* Acknowledging, however late.                                            *)
LEMMA MarkSyncedLocal ==
  ASSUME IInv, LocalInv, NEW r \in Replica, NEW batch \in batches, MarkSynced(r, batch)
  PROVE  LocalInv'
<1>1. TypeOK
  BY DEF IInv
<1>2. /\ batch.site = siteID[r]
      /\ batch.watermark > syncedThrough[r]
      /\ batch.watermark <= localSeq[r]
      /\ syncedThrough' = [syncedThrough EXCEPT ![r] = batch.watermark]
      /\ UNCHANGED << siteID, localSeq, log, content, store, batches >>
  BY DEF MarkSynced
<1>3. batch.watermark \in Nat /\ \A q \in Replica : syncedThrough[q] \in Nat
  BY <1>1 DEF TypeOK, Count
<1>4. /\ syncedThrough'[r] = batch.watermark
      /\ \A q \in Replica \ {r} : syncedThrough'[q] = syncedThrough[q]
  BY <1>1, <1>2 DEF TypeOK
<1>5. OwnSeqs' /\ LocallyUnique' /\ OwnSnapshots' /\ WatermarksHandedOut'
  BY <1>2, SnapshotsStay
     DEF LocalInv, OwnSeqs, LocallyUnique, WatermarksHandedOut, HandedOut
<1>6. UnackedLogged'
  <2>1. ASSUME NEW q \in Replica, NEW op \in content[q],
               op.site = siteID[q], op.seq > syncedThrough'[q]
        PROVE  op \in log[q]
    <3>1. op.seq \in Nat
      BY <1>1 DEF TypeOK, Op, Number
    <3>2. op.seq > syncedThrough[q]
      BY <1>2, <1>3, <1>4, <2>1, <3>1
    <3>3. QED
      BY <2>1, <3>2 DEF LocalInv, UnackedLogged
  <2>2. QED
    BY <1>2, <2>1 DEF UnackedLogged
<1>7. AckedWereIssued'
  BY <1>2, <1>4 DEF LocalInv, AckedWereIssued
<1>8. AckedWereHandedOut'
  <2>1. ASSUME NEW q \in Replica, NEW n \in 1 .. syncedThrough'[q]
        PROVE  HandedOut(siteID[q], n)
    <3>1. CASE q = r
      <4>1. n \in 1 .. batch.watermark
        BY <1>4, <2>1, <3>1
      <4>2. QED
        BY <1>2, <3>1, <4>1 DEF LocalInv, WatermarksHandedOut
    <3>2. CASE q # r
      BY <1>4, <3>2 DEF LocalInv, AckedWereHandedOut
    <3>3. QED
      BY <3>1, <3>2
  <2>2. QED
    BY <1>2, <2>1 DEF AckedWereHandedOut, HandedOut
<1>9. QED
  BY <1>5, <1>6, <1>7, <1>8 DEF LocalInv

(* Sending and losing messages.                                            *)
LEMMA MessageLocal ==
  ASSUME LocalInv, UNCHANGED << document, store, batches >>
  PROVE  LocalInv'
<1>1. UNCHANGED << siteID, localSeq, log, content, syncedThrough, store, batches >>
  BY DEF document
<1>2. OwnSeqs' /\ UnackedLogged' /\ LocallyUnique' /\ AckedWereIssued'
  BY <1>1 DEF LocalInv, OwnSeqs, UnackedLogged, LocallyUnique, AckedWereIssued
<1>3. AckedWereHandedOut' /\ WatermarksHandedOut' /\ OwnSnapshots'
  BY <1>1, SnapshotsStay, HandedOutStays DEF LocalInv
<1>4. QED
  BY <1>2, <1>3 DEF LocalInv

-----------------------------------------------------------------------------
(* A snapshot of a replica passes the checks of the next restart.          *)
LEMMA SnapshotIsOwn ==
  ASSUME IInv, LocalInv, NEW r \in Replica, NEW pending \in SUBSET MayWait(r)
  PROVE  OwnSnapshot(SnapshotOf(r, pending))
<1> DEFINE snap == SnapshotOf(r, pending)
           own == siteID[r]
<1>1. TypeOK /\ FrontierExact /\ CompactedIsHeld /\ LogComplete /\ ClockDominates
  BY DEF IInv
<1>2. /\ snap.site = own
      /\ snap.clock = clock[r]
      /\ snap.vc = Knowledge(r)
      /\ snap.applied = Applied(r)
      /\ snap.syncedThrough = syncedThrough[r]
      /\ snap.outbox = Outbox(r)
      /\ snap.retained = DeltaOps(r, Knowledge(r))
      /\ snap.pending = pending
      /\ snap.content = content[r]
  BY DEF SnapshotOf
<1> HIDE DEF snap
<1>3. /\ own \in Site
      /\ localSeq[r] \in Nat
      /\ syncedThrough[r] \in Nat
      /\ compacted[r][own] \in Nat
  BY <1>1 DEF TypeOK, VectorClock, Count
<1>4. \A s \in Site : /\ Knowledge(r)[s] = frontier[r][s].frontier
                      /\ frontier[r][s].frontier \in Nat
                      /\ Applied(r)[s] \in Nat
  BY <1>1, KnowledgeIsFrontier, AppliedIsHighest DEF TypeOK, Count
<1>5. \A op \in content[r] : op.seq <= Applied(r)[op.site]
  BY <1>1, AppliedCoversContent
<1>6. Knowledge(r)[own] = localSeq[r]
  <2>1. frontier[r][own] = [frontier |-> localSeq[r], staged |-> {}]
    BY <1>1, OwnNumberingHolds DEF LocalInv, OwnNumbering
  <2>2. QED
    BY <1>3, <1>4, <2>1
<1>7. Applied(r)[own] = localSeq[r]
  <2>1. Applied(r)[own] \in {compacted[r][own]} \cup SeqsOf(log[r], own)
    BY <1>1, <1>3, AppliedIsHighest
  <2>2. compacted[r][own] <= localSeq[r]
    BY <1>1, <1>3, <1>4, <1>6 DEF CompactedIsHeld
  <2>3. SeqsOf(log[r], own) \subseteq 1 .. localSeq[r]
    BY <1>1 DEF LogComplete, LocalInv, OwnSeqs, SeqsOf
  <2>4. Applied(r)[own] <= localSeq[r]
    BY <1>3, <2>1, <2>2, <2>3
  <2>5. CASE localSeq[r] = 0
    BY <1>3, <1>4, <2>4, <2>5
  <2>6. CASE localSeq[r] # 0
    <3>1. localSeq[r] \in 1 .. localSeq[r]
      BY <1>3, <2>6
    <3>2. PICK op \in content[r] : op.site = own /\ op.seq = localSeq[r]
      BY <3>1 DEF LocalInv, OwnSeqs, SeqsOf
    <3>3. localSeq[r] <= Applied(r)[own]
      BY <1>5, <3>2
    <3>4. QED
      BY <1>3, <1>4, <2>4, <3>3
  <2>7. QED
    BY <2>5, <2>6
<1>8. CoveredBy(Knowledge(r), Applied(r))
  <2>1. ASSUME NEW s \in Site
        PROVE  Knowledge(r)[s] <= Applied(r)[s]
    <3>1. CASE frontier[r][s].frontier = 0
      BY <1>4, <3>1
    <3>2. CASE frontier[r][s].frontier # 0
      <4>1. frontier[r][s].frontier \in 1 .. frontier[r][s].frontier
        BY <1>4, <3>2
      <4>2. frontier[r][s].frontier \in SeqsOf(content[r], s)
        BY <1>1, <4>1 DEF FrontierExact
      <4>3. PICK op \in content[r] : op.site = s /\ op.seq = frontier[r][s].frontier
        BY <4>2 DEF SeqsOf
      <4>4. QED
        BY <1>4, <1>5, <4>3
    <3>3. QED
      BY <3>1, <3>2
  <2>2. QED
    BY <2>1 DEF CoveredBy
<1>9. /\ Outbox(r) \subseteq content[r]
      /\ DeltaOps(r, Knowledge(r)) \subseteq content[r]
      /\ pending \subseteq content[r]
  BY <1>1 DEF Outbox, DeltaOps, MayWait, LogComplete
<1>10. ~ Collide(content[r], content[r])
  BY DEF LocalInv, LocallyUnique
<1>11. ASSUME NEW ops \in {snap.retained, snap.outbox, snap.pending}
       PROVE  OpsAreCovered(snap, ops)
  <2>1. ops \subseteq content[r]
    BY <1>2, <1>9, <1>11
  <2>2. snap.retained \cup snap.outbox \cup snap.pending \subseteq content[r]
    BY <1>2, <1>9
  <2>3. ~ Collide(ops, snap.retained \cup snap.outbox \cup snap.pending)
    BY <1>10, <2>1, <2>2 DEF Collide
  <2>4. \A op \in ops : op.ts <= snap.clock /\ op.seq <= snap.applied[op.site]
    BY <1>1, <1>2, <1>5, <2>1 DEF ClockDominates
  <2>5. QED
    BY <2>3, <2>4 DEF OpsAreCovered
<1>12. ValidSnapshot(snap)
  <2>1. snap.syncedThrough <= snap.applied[snap.site]
    BY <1>2, <1>7 DEF LocalInv, AckedWereIssued
  <2>2. \A op \in snap.retained : op.seq > snap.vc[op.site]
    BY <1>2 DEF DeltaOps
  <2>3. \A op \in snap.outbox : op.site = snap.site /\ op.seq > snap.syncedThrough
    BY <1>2 DEF Outbox
  <2>4. Cardinality(snap.outbox) = snap.applied[snap.site] - snap.syncedThrough
    BY <1>1, <1>2, <1>7, OutboxSize
  <2>5. \A op \in snap.pending :
          op.payload \in EditPayload /\ (op.seq > snap.vc[op.site] => op \in snap.retained)
    BY <1>2 DEF MayWait, DeltaOps
  <2>6. QED
    BY <1>2, <1>8, <1>11, <2>1, <2>2, <2>3, <2>4, <2>5 DEF ValidSnapshot
<1>13. \A op \in content[r] :
         op.site = own /\ op.seq > syncedThrough[r] => op \in Outbox(r)
  BY DEF LocalInv, UnackedLogged, Outbox
<1>14. \A n \in 1 .. syncedThrough[r] : HandedOut(own, n)
  BY DEF LocalInv, AckedWereHandedOut
<1>15. OwnSnapshot(snap)
  BY <1>2, <1>5, <1>6, <1>7, <1>10, <1>12, <1>13, <1>14 DEF OwnSnapshot
<1>16. QED
  BY <1>15 DEF snap
LEMMA SnapshotLocal ==
  ASSUME IInv, LocalInv, NEW r \in Replica, NEW pending \in SUBSET MayWait(r),
         Snapshot(r, pending)
  PROVE  LocalInv'
<1>1. TypeOK
  BY DEF IInv
<1>2. /\ store' = [store EXCEPT ![r] = {SnapshotOf(r, pending)}]
      /\ UNCHANGED << siteID, localSeq, log, content, syncedThrough, batches >>
  BY DEF Snapshot, document
<1>3. OwnSeqs' /\ UnackedLogged' /\ LocallyUnique' /\ AckedWereIssued'
  BY <1>2 DEF LocalInv, OwnSeqs, UnackedLogged, LocallyUnique, AckedWereIssued
<1>4. AckedWereHandedOut' /\ WatermarksHandedOut'
  BY <1>2, HandedOutStays DEF LocalInv
<1>5. OwnSnapshot(SnapshotOf(r, pending))
  BY SnapshotIsOwn
<1>6. ASSUME NEW q \in Replica, NEW snap \in store'[q]
      PROVE  OwnSnapshot(snap)
  <2>1. CASE q = r
    <3>1. snap = SnapshotOf(r, pending)
      BY <1>1, <1>2, <1>6, <2>1 DEF TypeOK
    <3>2. QED
      BY <1>5, <3>1
  <2>2. CASE q # r
    <3>1. snap \in store[q]
      BY <1>1, <1>2, <1>6, <2>2 DEF TypeOK
    <3>2. QED
      BY <3>1 DEF LocalInv, OwnSnapshots
  <2>3. QED
    BY <2>1, <2>2
<1>7. OwnSnapshots'
  BY <1>2, <1>6 DEF OwnSnapshots, OwnSnapshot, HandedOut
<1>8. QED
  BY <1>3, <1>4, <1>7 DEF LocalInv

(* A restart, under the snapshot's site ID or a fresh one: in both cases   *)
(* numbering resumes behind the last own operation the snapshot folded in. *)
LEMMA RestoreLocal ==
  ASSUME IInv, LocalInv, NEW r \in Replica, NEW snap \in SnapshotRecord,
         ExactSnapshot(snap), OwnSnapshot(snap), NEW s \in Site, Restore(r, snap, s)
  PROVE  LocalInv'
<1> DEFINE acked == IF s = snap.site THEN snap.syncedThrough ELSE 0
<1>1. TypeOK
  BY DEF IInv
<1>2. /\ ValidSnapshot(snap)
      /\ s # snap.site => snap.applied[s] = 0
      /\ siteID' = [siteID EXCEPT ![r] = s]
      /\ localSeq' = [localSeq EXCEPT ![r] = ResumeSeq(snap, s)]
      /\ log' = [log EXCEPT ![r] = Kept(snap)]
      /\ content' = [content EXCEPT ![r] = snap.content]
      /\ syncedThrough' = [syncedThrough EXCEPT ![r] = acked]
      /\ UNCHANGED << store, batches >>
  BY DEF Restore
<1>3. /\ siteID'[r] = s
      /\ localSeq'[r] = ResumeSeq(snap, s)
      /\ log'[r] = Kept(snap)
      /\ content'[r] = snap.content
      /\ syncedThrough'[r] = acked
      /\ \A p \in Replica \ {r} :
           /\ siteID'[p] = siteID[p] /\ localSeq'[p] = localSeq[p]
           /\ log'[p] = log[p] /\ content'[p] = content[p]
           /\ syncedThrough'[p] = syncedThrough[p]
  BY <1>1, <1>2 DEF TypeOK
<1>4. /\ snap.vc \in VectorClock
      /\ snap.applied \in VectorClock
      /\ snap.syncedThrough \in Nat
      /\ snap.content \in SUBSET Op
  BY DEF SnapshotRecord, Count
<1>5. snap.vc[s] \in Nat /\ snap.applied[s] \in Nat /\ snap.vc[s] <= snap.applied[s]
  BY <1>2, <1>4 DEF VectorClock, Count, ValidSnapshot, CoveredBy
<1>6. /\ snap.vc[snap.site] = snap.applied[snap.site]
      /\ \A op \in snap.content : op.seq <= snap.applied[op.site]
      /\ \A op \in snap.content :
           op.site = snap.site /\ op.seq > snap.syncedThrough => op \in snap.outbox
      /\ ~ Collide(snap.content, snap.content)
      /\ \A n \in 1 .. snap.syncedThrough : HandedOut(snap.site, n)
  BY DEF OwnSnapshot
<1>7. snap.vc[s] = snap.applied[s]
  BY <1>2, <1>5, <1>6
<1>8. ResumeSeq(snap, s) = snap.vc[s]
  <2>1. snap.vc[s] \in Count
    BY <1>4 DEF VectorClock
  <2>2. \/ Max({snap.vc[s], snap.applied[s]}) = snap.vc[s]
        \/ Max({snap.vc[s], snap.applied[s]}) = snap.applied[s]
    BY <1>7, <2>1, MaxOfTwo
  <2>3. QED
    BY <1>7, <2>2 DEF ResumeSeq
<1> HIDE DEF acked
<1>9. acked \in Nat /\ acked <= snap.vc[s]
  BY <1>2, <1>4, <1>5, <1>6 DEF acked, ValidSnapshot
<1>10. SeqsOf(snap.content, s) = 1 .. snap.vc[s]
  <2>1. 1 .. snap.vc[s] \subseteq SeqsOf(snap.content, s)
    BY DEF ExactSnapshot
  <2>2. ASSUME NEW op \in snap.content, op.site = s
        PROVE  op.seq \in 1 .. snap.vc[s]
    <3>1. op.seq \in Nat /\ op.seq >= 1
      BY <1>4 DEF Op, Number
    <3>2. op.seq <= snap.applied[s]
      BY <1>6, <2>2
    <3>3. QED
      BY <1>5, <1>7, <3>1, <3>2
  <2>3. QED
    BY <2>1, <2>2 DEF SeqsOf
<1>11. OwnSeqs'
  <2>1. ASSUME NEW p \in Replica
        PROVE  SeqsOf(content'[p], siteID'[p]) = 1 .. localSeq'[p]
    <3>1. CASE p = r
      BY <1>3, <1>8, <1>10, <3>1
    <3>2. CASE p # r
      BY <1>3, <3>2 DEF LocalInv, OwnSeqs
    <3>3. QED
      BY <3>1, <3>2
  <2>2. QED
    BY <2>1 DEF OwnSeqs
<1>12. UnackedLogged'
  <2>1. ASSUME NEW p \in Replica, NEW op \in content'[p],
               op.site = siteID'[p], op.seq > syncedThrough'[p]
        PROVE  op \in log'[p]
    <3>1. CASE p = r
      <4>1. op \in snap.content /\ op.site = s /\ op.seq > acked
        BY <1>3, <2>1, <3>1
      <4>2. CASE s = snap.site
        <5>1. op \in snap.outbox
          BY <1>6, <4>1, <4>2 DEF acked
        <5>2. QED
          BY <1>3, <3>1, <5>1 DEF Kept
      <4>3. CASE s # snap.site
        <5>1. op.seq \in SeqsOf(snap.content, s)
          BY <4>1 DEF SeqsOf
        <5>2. snap.vc[s] = 0
          BY <1>2, <1>7, <4>3
        <5>3. QED
          BY <1>10, <5>1, <5>2
      <4>4. QED
        BY <4>2, <4>3
    <3>2. CASE p # r
      BY <1>3, <2>1, <3>2 DEF LocalInv, UnackedLogged
    <3>3. QED
      BY <3>1, <3>2
  <2>2. QED
    BY <2>1 DEF UnackedLogged
<1>13. LocallyUnique'
  <2>1. ASSUME NEW p \in Replica
        PROVE  ~ Collide(content'[p], content'[p])
    BY <1>3, <1>6 DEF LocalInv, LocallyUnique
  <2>2. QED
    BY <2>1 DEF LocallyUnique, Collide
<1>14. AckedWereIssued'
  <2>1. ASSUME NEW p \in Replica
        PROVE  syncedThrough'[p] <= localSeq'[p]
    <3>1. CASE p = r
      BY <1>3, <1>8, <1>9, <3>1
    <3>2. CASE p # r
      BY <1>3, <3>2 DEF LocalInv, AckedWereIssued
    <3>3. QED
      BY <3>1, <3>2
  <2>2. QED
    BY <2>1 DEF AckedWereIssued
<1>15. AckedWereHandedOut'
  <2>1. ASSUME NEW p \in Replica, NEW n \in 1 .. syncedThrough'[p]
        PROVE  HandedOut(siteID'[p], n)
    <3>1. CASE p = r /\ s = snap.site
      BY <1>3, <1>6, <2>1, <3>1 DEF acked
    <3>2. CASE p = r /\ s # snap.site
      BY <1>3, <2>1, <3>2 DEF acked
    <3>3. CASE p # r
      BY <1>3, <2>1, <3>3 DEF LocalInv, AckedWereHandedOut
    <3>4. QED
      BY <3>1, <3>2, <3>3
  <2>2. QED
    BY <1>2, <2>1 DEF AckedWereHandedOut, HandedOut
<1>16. WatermarksHandedOut' /\ OwnSnapshots'
  BY <1>2, SnapshotsStay DEF LocalInv, WatermarksHandedOut, HandedOut
<1>17. QED
  BY <1>11, <1>12, <1>13, <1>14, <1>15, <1>16 DEF LocalInv

-----------------------------------------------------------------------------
LEMMA InitLocalInv == Init => LocalInv
<1> SUFFICES ASSUME Init PROVE LocalInv
  OBVIOUS
<1>1. OwnSeqs /\ UnackedLogged /\ LocallyUnique
  BY DEF Init, OwnSeqs, UnackedLogged, LocallyUnique, Collide, SeqsOf
<1>2. AckedWereIssued /\ AckedWereHandedOut
  BY DEF Init, AckedWereIssued, AckedWereHandedOut
<1>3. WatermarksHandedOut /\ OwnSnapshots
  BY DEF Init, WatermarksHandedOut, OwnSnapshots
<1>4. QED
  BY <1>1, <1>2, <1>3 DEF LocalInv

LEMMA NextLocalInv == IInv /\ LocalInv /\ [Next]_vars => LocalInv'
<1> SUFFICES ASSUME IInv, LocalInv, [Next]_vars PROVE LocalInv'
  OBVIOUS
<1>1. CASE LocalStep
  BY <1>1, ApplyLocal, PendingOpsLocal, MarkSyncedLocal DEF LocalStep
<1>2. CASE SendStep
  BY <1>2, MessageLocal DEF SendStep, Send
<1>3. CASE MergeStep
  <2>1. ASSUME NEW r \in Replica, NEW delta \in Message, MergeDocument(r, delta)
        PROVE  LocalInv'
    <3>1. delta.ops \in SUBSET Op
      BY DEF Message
    <3>2. /\ Acceptable(r, delta.ops)
          /\ Record(r, Unseen(r, delta.ops))
          /\ UNCHANGED << siteID, localSeq, syncedThrough, store, batches >>
      BY <2>1 DEF MergeDocument, Accepted
    <3>3. QED
      BY <3>1, <3>2, MergeLocal
  <2>2. ASSUME NEW r \in Replica, NEW delta \in inFlight, MergeInFlight(r, delta)
        PROVE  LocalInv'
    <3>1. delta \in Message
      BY DEF IInv, TypeOK
    <3>2. QED
      BY <2>1, <2>2, <3>1 DEF MergeInFlight
  <2>3. ASSUME NEW r \in Replica, NEW q \in Replica, Pull(r, q)
        PROVE  LocalInv'
    <3>1. DeltaSince(q, Knowledge(r)) \in Message
      BY DeltaType
    <3>2. QED
      BY <2>1, <2>3, <3>1 DEF Pull
  <2>4. ASSUME NEW r \in Replica, NEW batch \in batches, MergeOps(r, batch)
        PROVE  LocalInv'
    <3>1. batch.ops \in SUBSET Op
      BY DEF IInv, TypeOK
    <3>2. /\ Acceptable(r, batch.ops)
          /\ Record(r, Unseen(r, batch.ops))
          /\ UNCHANGED << siteID, localSeq, syncedThrough, store, batches >>
      BY <2>4 DEF MergeOps
    <3>3. QED
      BY <3>1, <3>2, MergeLocal
  <2>5. QED
    BY <1>3, <2>2, <2>3, <2>4 DEF MergeStep
<1>4. CASE \E message \in inFlight : Lose(message)
  BY <1>4, MessageLocal DEF Lose
<1>5. CASE RestartStep
  <2>1. \A q \in Replica : \A snap \in store[q] :
          snap \in SnapshotRecord /\ ExactSnapshot(snap) /\ OwnSnapshot(snap)
    BY DEF IInv, TypeOK, SnapshotsExact, LocalInv, OwnSnapshots
  <2>2. QED
    BY <1>5, <2>1, SnapshotLocal, RestoreLocal DEF RestartStep
<1>6. CASE UNCHANGED vars
  BY <1>6, MessageLocal DEF vars
<1>7. QED
  BY <1>1, <1>2, <1>3, <1>4, <1>5, <1>6 DEF Next

LEMMA LocalInvariance == Spec => []LocalInv
BY InitLocalInv, NextLocalInv, Invariance, PTL DEF Spec

(* A site's own operations here are exactly 1..localSeq: no merge extends  *)
(* them, no restart, under an old site ID or a new one, skips or repeats a *)
(* number the snapshot knows of.                                           *)
THEOREM OwnNumberingIsExact == Spec => []OwnNumbering
<1>1. IInv /\ LocalInv => OwnNumbering
  BY OwnNumberingHolds DEF IInv, LocalInv
<1>2. QED
  BY Invariance, LocalInvariance, <1>1, PTL

(* The outbox offers precisely the operations that are not acknowledged,   *)
(* and whatever is acknowledged was in some batch, even when a batch of an *)
(* earlier incarnation is acknowledged to its successor.                   *)
THEOREM OutboxIsComplete == Spec => []OutboxComplete
<1>1. IInv /\ LocalInv => OutboxComplete
  BY OutboxIsExact
     DEF IInv, LocalInv, OutboxComplete, AckedWereHandedOut, HandedOut
<1>2. QED
  BY Invariance, LocalInvariance, <1>1, PTL

(* Whatever was merged, lost or compacted, a snapshot the library writes   *)
(* passes the checks of a restore, the count of its outbox included.       *)
THEOREM SnapshotsAreRestorable == Spec => []SnapshotsRestorable
<1>1. LocalInv => SnapshotsRestorable
  BY DEF LocalInv, OwnSnapshots, OwnSnapshot, SnapshotsRestorable
<1>2. QED
  BY LocalInvariance, <1>1, PTL

-----------------------------------------------------------------------------
(***************************************************************************)
(* What replicas owe to a proper use of site IDs: each operation has an    *)
(* identity of its own, so that equal knowledge means equal state and a    *)
(* vector clock tells a peer exactly what it lacks.                        *)
(***************************************************************************)

(* The contract of NewSiteID and of the package comment: processes start   *)
(* under different site IDs, and a site ID is resumed only from a snapshot *)
(* that covers what the site distributed.                                  *)
IdentityContract ==
  /\ ~ IdentityReuse
  /\ \A r \in Replica, q \in Replica : HomeSite[r] = HomeSite[q] => r = q

OneHolder == \A r \in Replica, q \in Replica : siteID[r] = siteID[q] => r = q

(* Nothing of a site is ahead of the process that holds its ID.            *)
HolderLeads ==
  \A r \in Replica : \A op \in Everything : op.site = siteID[r] => op.seq <= localSeq[r]

IdentityInv ==
  /\ IdentityContract
  /\ OneHolder
  /\ HolderLeads
  /\ UniqueIdentity
  /\ SiteOrder

-----------------------------------------------------------------------------
LEMMA EverythingTyped ==
  ASSUME TypeOK
  PROVE  Everything \in SUBSET Op
BY DEF TypeOK, Everything, SnapshotRecord, Message

LEMMA InEverything ==
  ASSUME NEW op
  PROVE  op \in Everything <=>
           \/ \E r \in Replica : op \in content[r]
           \/ \E r \in Replica : \E snap \in store[r] : op \in snap.content
           \/ \E message \in inFlight \cup batches : op \in message.ops
BY DEF Everything

(* The holder of a site ID has every operation of the site.                *)
LEMMA HolderHasAll ==
  ASSUME TypeOK, OwnSeqs, HolderLeads, UniqueIdentity,
         NEW r \in Replica, NEW op \in Everything, op.site = siteID[r]
  PROVE  op \in content[r]
<1>1. op.seq \in Nat /\ op.seq >= 1 /\ localSeq[r] \in Nat
  BY EverythingTyped DEF TypeOK, Op, Number, Count
<1>2. op.seq \in 1 .. localSeq[r]
  BY <1>1 DEF HolderLeads
<1>3. PICK own \in content[r] : own.site = siteID[r] /\ own.seq = op.seq
  BY <1>2 DEF OwnSeqs, SeqsOf
<1>4. own \in Everything /\ SameRef(own, op)
  BY <1>3, InEverything DEF SameRef
<1>5. own = op
  BY <1>4 DEF UniqueIdentity, Collide
<1>6. QED
  BY <1>5

(* Steps that create no operation and change no site ID.                   *)
LEMMA NothingNew ==
  ASSUME IdentityInv, Everything' \subseteq Everything, UNCHANGED << siteID, localSeq >>
  PROVE  IdentityInv'
<1>1. OneHolder'
  BY DEF IdentityInv, OneHolder
<1>2. HolderLeads'
  BY DEF IdentityInv, HolderLeads
<1>3. UniqueIdentity'
  BY DEF IdentityInv, UniqueIdentity, Collide
<1>4. SiteOrder'
  BY DEF IdentityInv, SiteOrder
<1>5. QED
  BY <1>1, <1>2, <1>3, <1>4 DEF IdentityInv, IdentityContract

(* Recording operations that exist already.                                *)
LEMMA RecordCreatesNothing ==
  ASSUME TypeOK, NEW r \in Replica, NEW ops \in SUBSET Op, Record(r, ops),
         ops \subseteq Everything, UNCHANGED << store, inFlight, batches >>
  PROVE  Everything' \subseteq Everything
<1>1. \A q \in Replica : content'[q] \subseteq content[q] \cup ops
  BY RecordEffect
<1>2. QED
  BY <1>1 DEF Everything

-----------------------------------------------------------------------------
(* The only step that creates an operation: its number is beyond every     *)
(* number of the site, its timestamp above every timestamp of the site.    *)
LEMMA ApplyIdentity ==
  ASSUME IInv, LocalInv, IdentityInv, NEW r \in Replica, NEW p \in Payload, Apply(r, p)
  PROVE  IdentityInv'
<1> DEFINE op == [site |-> siteID[r], seq |-> localSeq[r] + 1,
                  ts |-> clock[r] + 1, payload |-> p]
<1>1. TypeOK /\ ClockDominates
  BY DEF IInv
<1>2. /\ ~ Exhausted(r)
      /\ Record(r, {op})
      /\ localSeq' = [localSeq EXCEPT ![r] = localSeq[r] + 1]
      /\ UNCHANGED << siteID, store, inFlight, batches >>
  BY DEF Apply
<1>3. clock[r] + 1 \in Number /\ localSeq[r] + 1 \in Number
  BY <1>1, <1>2, MaxTimestampAssumption DEF Exhausted, TypeOK, Count, Number
<1>4. op \in Op
  BY <1>1, <1>3 DEF TypeOK, Op
<1>5. op.site = siteID[r] /\ op.seq = localSeq[r] + 1 /\ op.ts = clock[r] + 1
  OBVIOUS
<1> HIDE DEF op
<1>6. localSeq[r] \in Nat /\ clock[r] \in Nat
  BY <1>1 DEF TypeOK, Count
<1>7. /\ localSeq'[r] = localSeq[r] + 1
      /\ \A q \in Replica \ {r} : localSeq'[q] = localSeq[q]
  BY <1>1, <1>2 DEF TypeOK
<1>8. Everything' \subseteq Everything \cup {op}
  <2>1. \A q \in Replica : content'[q] \subseteq content[q] \cup {op}
    BY <1>1, <1>2, <1>4, RecordEffect
  <2>2. QED
    BY <1>2, <2>1 DEF Everything
<1>9. ASSUME NEW a \in Everything, a.site = siteID[r]
      PROVE  a.seq < op.seq /\ a.ts < op.ts
  <2>1. a.seq \in Nat /\ a.ts \in Nat
    BY <1>1, EverythingTyped DEF Op, Number
  <2>2. a \in content[r]
    BY <1>1, <1>9, HolderHasAll DEF LocalInv, IdentityInv
  <2>3. a.seq <= localSeq[r] /\ a.ts <= clock[r]
    BY <1>1, <1>9, <2>2 DEF IdentityInv, HolderLeads, ClockDominates
  <2>4. QED
    BY <1>5, <1>6, <2>1, <2>3
<1>10. OneHolder'
  BY <1>2 DEF IdentityInv, OneHolder
<1>11. HolderLeads'
  <2>1. ASSUME NEW q \in Replica, NEW a \in Everything', a.site = siteID[q]
        PROVE  a.seq <= localSeq'[q]
    <3>1. CASE a = op
      <4>1. q = r
        BY <1>5, <2>1, <3>1 DEF IdentityInv, OneHolder
      <4>2. QED
        BY <1>5, <1>6, <1>7, <3>1, <4>1
    <3>2. CASE a \in Everything
      <4>1. a.seq <= localSeq[q] /\ a.seq \in Nat /\ localSeq[q] \in Nat
        BY <1>1, <2>1, <3>2, EverythingTyped
           DEF IdentityInv, HolderLeads, TypeOK, Count, Op, Number
      <4>2. QED
        BY <1>7, <4>1
    <3>3. QED
      BY <1>8, <2>1, <3>1, <3>2
  <2>2. QED
    BY <1>2, <2>1 DEF HolderLeads
<1>12. UniqueIdentity'
  <2>1. ASSUME NEW a \in Everything', NEW b \in Everything', SameRef(a, b)
        PROVE  a = b
    <3>1. CASE a \in Everything /\ b \in Everything
      BY <2>1, <3>1 DEF IdentityInv, UniqueIdentity, Collide
    <3>2. CASE a \in Everything /\ b = op
      <4>1. a.site = siteID[r] /\ a.seq = op.seq
        BY <1>5, <2>1, <3>2 DEF SameRef
      <4>2. a.seq < op.seq
        BY <1>9, <3>2, <4>1
      <4>3. QED
        BY <1>5, <1>6, <4>1, <4>2
    <3>3. CASE a = op /\ b \in Everything
      <4>1. b.site = siteID[r] /\ b.seq = op.seq
        BY <1>5, <2>1, <3>3 DEF SameRef
      <4>2. b.seq < op.seq
        BY <1>9, <3>3, <4>1
      <4>3. QED
        BY <1>5, <1>6, <4>1, <4>2
    <3>4. QED
      BY <1>8, <2>1, <3>1, <3>2, <3>3
  <2>2. QED
    BY <2>1 DEF UniqueIdentity, Collide
<1>13. SiteOrder'
  <2>1. ASSUME NEW a \in Everything', NEW b \in Everything', a.site = b.site, a.seq < b.seq
        PROVE  a.ts < b.ts
    <3>1. CASE a \in Everything /\ b \in Everything
      BY <2>1, <3>1 DEF IdentityInv, SiteOrder
    <3>2. CASE a \in Everything /\ b = op
      BY <1>5, <1>9, <2>1, <3>2
    <3>3. CASE a = op /\ b \in Everything
      <4>1. b.seq < op.seq /\ b.seq \in Nat
        BY <1>1, <1>5, <1>9, <2>1, <3>3, EverythingTyped DEF Op, Number
      <4>2. QED
        BY <1>5, <1>6, <2>1, <3>3, <4>1
    <3>4. CASE a = op /\ b = op
      BY <1>5, <1>6, <2>1, <3>4
    <3>5. QED
      BY <1>8, <2>1, <3>1, <3>2, <3>3, <3>4
  <2>2. QED
    BY <2>1 DEF SiteOrder
<1>14. QED
  BY <1>10, <1>11, <1>12, <1>13 DEF IdentityInv, IdentityContract

(* A restart: what others may hold of the resumed site is covered.         *)
LEMMA RestoreIdentity ==
  ASSUME IInv, LocalInv, IdentityInv, NEW r \in Replica, NEW q \in Replica,
         NEW snap \in store[q], NEW s \in Site, Restore(r, snap, s)
  PROVE  IdentityInv'
<1>1. TypeOK
  BY DEF IInv
<1>2. /\ SoleHolder(r, s)
      /\ CoversDistributed(r, snap, s)
      /\ siteID' = [siteID EXCEPT ![r] = s]
      /\ localSeq' = [localSeq EXCEPT ![r] = ResumeSeq(snap, s)]
      /\ content' = [content EXCEPT ![r] = snap.content]
      /\ inFlight' \subseteq inFlight
      /\ UNCHANGED << store, batches >>
  BY DEF Restore, IdentityInv, IdentityContract
<1>3. /\ siteID'[r] = s
      /\ localSeq'[r] = ResumeSeq(snap, s)
      /\ content'[r] = snap.content
      /\ \A p \in Replica \ {r} :
           siteID'[p] = siteID[p] /\ localSeq'[p] = localSeq[p] /\ content'[p] = content[p]
  BY <1>1, <1>2 DEF TypeOK
<1>4. ASSUME NEW op \in Everything'
      PROVE  op \in Distributed(r) /\ op \in Everything
  <2>1. CASE \E p \in Replica : op \in content'[p]
    BY <1>3, <2>1 DEF Distributed, Everything
  <2>2. CASE \E p \in Replica : \E sn \in store[p] : op \in sn.content
    BY <2>2 DEF Distributed, Everything
  <2>3. CASE \E message \in inFlight \cup batches : op \in message.ops
    BY <2>3 DEF Distributed, Everything
  <2>4. QED
    BY <1>2, <1>4, <2>1, <2>2, <2>3 DEF Everything
<1>5. OneHolder'
  BY <1>2, <1>3 DEF IdentityInv, OneHolder, SoleHolder
<1>6. HolderLeads'
  <2>1. snap.vc[s] \in Count /\ snap.applied[s] \in Count
    BY <1>1 DEF TypeOK, SnapshotRecord, VectorClock
  <2>2. ResumeSeq(snap, s) \in Count /\ ResumeSeq(snap, s) >= snap.applied[s]
    BY <2>1, MaxOfTwo DEF ResumeSeq
  <2>3. ASSUME NEW p \in Replica, NEW op \in Everything', op.site = siteID'[p]
        PROVE  op.seq <= localSeq'[p]
    <3>1. op \in Distributed(r) /\ op \in Everything
      BY <1>4
    <3>2. CASE p = r
      <4>1. op.seq <= snap.applied[s] /\ op.seq \in Nat
        BY <1>1, <1>2, <1>3, <2>3, <3>1, <3>2, EverythingTyped
           DEF CoversDistributed, Op, Number
      <4>2. QED
        BY <1>3, <2>1, <2>2, <3>2, <4>1 DEF Count
    <3>3. CASE p # r
      BY <1>3, <2>3, <3>1, <3>3 DEF IdentityInv, HolderLeads
    <3>4. QED
      BY <3>2, <3>3
  <2>4. QED
    BY <2>3 DEF HolderLeads
<1>7. UniqueIdentity' /\ SiteOrder'
  BY <1>4 DEF IdentityInv, UniqueIdentity, Collide, SiteOrder
<1>8. QED
  BY <1>5, <1>6, <1>7 DEF IdentityInv, IdentityContract

-----------------------------------------------------------------------------
(* What is sent, handed out or saved exists already.                       *)
LEMMA DeltaCarriesContent ==
  ASSUME LogComplete, NEW q \in Replica, NEW vc
  PROVE  DeltaSince(q, vc).ops \subseteq content[q]
BY DEF LogComplete, DeltaSince, DeltaOps

LEMMA SendIdentity ==
  ASSUME IdentityInv, NEW q \in Replica, NEW message, message.ops \subseteq content[q],
         Send(message)
  PROVE  IdentityInv'
<1>1. Everything' \subseteq Everything
  BY DEF Send, document, Everything
<1>2. QED
  BY <1>1, NothingNew DEF Send, document

LEMMA MergeIdentity ==
  ASSUME TypeOK, IdentityInv, NEW r \in Replica, NEW ops \in SUBSET Op,
         ops \subseteq Everything, Record(r, Unseen(r, ops)),
         UNCHANGED << siteID, localSeq, store, inFlight, batches >>
  PROVE  IdentityInv'
<1>1. Unseen(r, ops) \in SUBSET Op /\ Unseen(r, ops) \subseteq Everything
  BY DEF Unseen
<1>2. Everything' \subseteq Everything
  BY <1>1, RecordCreatesNothing
<1>3. QED
  BY <1>2, NothingNew

LEMMA QuietIdentity ==
  ASSUME IdentityInv, UNCHANGED << siteID, localSeq, content, store >>,
         inFlight' \subseteq inFlight, batches' = batches
  PROVE  IdentityInv'
<1>1. Everything' \subseteq Everything
  BY DEF Everything
<1>2. QED
  BY <1>1, NothingNew

LEMMA OutboxIdentity ==
  ASSUME IInv, IdentityInv, NEW r \in Replica, PendingOps(r)
  PROVE  IdentityInv'
<1>1. \A batch \in Batch(r) : batch.ops \subseteq content[r]
  BY DEF Batch, Outbox, IInv, LogComplete
<1>2. /\ batches' = batches \cup Batch(r)
      /\ UNCHANGED << siteID, localSeq, content, store, inFlight >>
  BY DEF PendingOps
<1>3. Everything' \subseteq Everything
  BY <1>1, <1>2 DEF Everything
<1>4. QED
  BY <1>2, <1>3, NothingNew

LEMMA SnapshotIdentity ==
  ASSUME IInv, IdentityInv, NEW r \in Replica, NEW pending, Snapshot(r, pending)
  PROVE  IdentityInv'
<1>1. /\ store' = [store EXCEPT ![r] = {SnapshotOf(r, pending)}]
      /\ UNCHANGED << siteID, localSeq, content, inFlight, batches >>
  BY DEF Snapshot, document
<1>2. ASSUME NEW q \in Replica, NEW snap \in store'[q]
      PROVE  snap \in store[q] \/ snap.content = content[r]
  BY <1>1, <1>2 DEF SnapshotOf, IInv, TypeOK
<1>3. Everything' \subseteq Everything
  BY <1>1, <1>2 DEF Everything
<1>4. QED
  BY <1>1, <1>3, NothingNew
-----------------------------------------------------------------------------
LEMMA InitIdentityInv == IdentityContract /\ Init => IdentityInv
<1> SUFFICES ASSUME IdentityContract, Init PROVE IdentityInv
  OBVIOUS
<1>1. Everything = {}
  BY DEF Init, Everything
<1>2. OneHolder
  BY DEF Init, OneHolder, IdentityContract
<1>3. HolderLeads /\ UniqueIdentity /\ SiteOrder
  BY <1>1 DEF HolderLeads, UniqueIdentity, Collide, SiteOrder
<1>4. QED
  BY <1>2, <1>3 DEF IdentityInv

LEMMA NextIdentityInv == IInv /\ LocalInv /\ IdentityInv /\ [Next]_vars => IdentityInv'
<1> SUFFICES ASSUME IInv, LocalInv, IdentityInv, [Next]_vars PROVE IdentityInv'
  OBVIOUS
<1>1. TypeOK /\ LogComplete
  BY DEF IInv
<1>2. CASE LocalStep
  <2>1. ASSUME NEW r \in Replica, NEW batch \in batches, MarkSynced(r, batch)
        PROVE  IdentityInv'
    BY <2>1, QuietIdentity DEF MarkSynced
  <2>2. QED
    BY <1>2, <2>1, ApplyIdentity, OutboxIdentity DEF LocalStep
<1>3. CASE SendStep
  <2>1. ASSUME NEW r \in Replica, NEW q \in Replica
        PROVE  CapturedDocument(r, q).ops \subseteq content[q]
    <3>1. DeltaSince(q, NoKnowledge).ops \subseteq content[q]
      BY <1>1, DeltaCarriesContent
    <3>2. CapturedDocument(r, q).ops = DeltaSince(q, NoKnowledge).ops
      BY DEF CapturedDocument, DeltaSince
    <3>3. QED
      BY <3>1, <3>2
  <2>2. \A q \in Replica : \A vc : DeltaSince(q, vc).ops \subseteq content[q]
    BY <1>1, DeltaCarriesContent
  <2>3. QED
    BY <1>3, <2>1, <2>2, SendIdentity DEF SendStep
<1>4. CASE MergeStep
  <2>1. ASSUME NEW r \in Replica, NEW delta \in inFlight, MergeInFlight(r, delta)
        PROVE  IdentityInv'
    <3>1. delta.ops \in SUBSET Op
      BY <1>1 DEF TypeOK, Message
    <3>2. delta.ops \subseteq Everything
      BY DEF Everything
    <3>3. /\ Record(r, Unseen(r, delta.ops))
          /\ UNCHANGED << siteID, localSeq, store, inFlight, batches >>
      BY <2>1 DEF MergeInFlight, MergeDocument
    <3>4. QED
      BY <1>1, <3>1, <3>2, <3>3, MergeIdentity
  <2>2. ASSUME NEW r \in Replica, NEW batch \in batches, MergeOps(r, batch)
        PROVE  IdentityInv'
    <3>1. batch.ops \in SUBSET Op
      BY <1>1 DEF TypeOK
    <3>2. batch.ops \subseteq Everything
      BY DEF Everything
    <3>3. /\ Record(r, Unseen(r, batch.ops))
          /\ UNCHANGED << siteID, localSeq, store, inFlight, batches >>
      BY <2>2 DEF MergeOps
    <3>4. QED
      BY <1>1, <3>1, <3>2, <3>3, MergeIdentity
  <2>3. ASSUME NEW r \in Replica, NEW q \in Replica, Pull(r, q)
        PROVE  IdentityInv'
    <3> DEFINE delta == DeltaSince(q, Knowledge(r))
    <3>1. delta.ops \subseteq content[q]
      BY <1>1, DeltaCarriesContent
    <3>2. delta.ops \in SUBSET Op /\ delta.ops \subseteq Everything
      BY <1>1, <3>1 DEF TypeOK, Everything
    <3>3. /\ Record(r, Unseen(r, delta.ops))
          /\ UNCHANGED << siteID, localSeq, store, inFlight, batches >>
      BY <2>3 DEF Pull, MergeDocument
    <3> HIDE DEF delta
    <3>4. QED
      BY <1>1, <3>2, <3>3, MergeIdentity
  <2>4. QED
    BY <1>4, <2>1, <2>2, <2>3 DEF MergeStep
<1>5. CASE \E message \in inFlight : Lose(message)
  BY <1>5, QuietIdentity DEF Lose, document
<1>6. CASE RestartStep
  BY <1>6, SnapshotIdentity, RestoreIdentity DEF RestartStep
<1>7. CASE UNCHANGED vars
  BY <1>7, QuietIdentity DEF vars, document
<1>8. QED
  BY <1>2, <1>3, <1>4, <1>5, <1>6, <1>7 DEF Next

LEMMA IdentityInvariance == IdentityContract /\ Spec => []IdentityInv
BY InitIdentityInv, NextIdentityInv, Invariance, LocalInvariance, PTL DEF Spec

(* Under the identity contract no two operations ever share a site and a   *)
(* sequence number, wherever copies of them are: in replicas, in saved     *)
(* snapshots, in messages and in batches.                                  *)
THEOREM IdentitiesAreUnique == IdentityContract /\ Spec => []UniqueIdentity
<1>1. IdentityInv => UniqueIdentity
  BY DEF IdentityInv
<1>2. QED
  BY IdentityInvariance, <1>1, PTL

(* A site's timestamps grow with its sequence numbers, across restarts, so *)
(* last-writer-wins never lets an author's earlier edit beat a later one.  *)
THEOREM SitesAreOrdered == IdentityContract /\ Spec => []SiteOrder
<1>1. IdentityInv => SiteOrder
  BY DEF IdentityInv
<1>2. QED
  BY IdentityInvariance, <1>1, PTL

(* What q and r know of a site by the same number is the same operation.   *)
LEMMA SameNumberSameOperation ==
  ASSUME UniqueIdentity, NEW r \in Replica, NEW q \in Replica, NEW op \in content[q],
         op.seq \in SeqsOf(content[r], op.site)
  PROVE  op \in content[r]
<1>1. PICK other \in content[r] : other.site = op.site /\ other.seq = op.seq
  BY DEF SeqsOf
<1>2. op \in Everything /\ other \in Everything /\ SameRef(op, other)
  BY <1>1, InEverything DEF SameRef
<1>3. op = other
  BY <1>2 DEF UniqueIdentity, Collide
<1>4. QED
  BY <1>3

(* Replicas whose frontier clocks agree hold the same operations, and so   *)
(* the same features.                                                      *)
THEOREM ReplicasConverge == IdentityContract /\ Spec => []Convergence
<1>1. IInv /\ IdentityInv => Convergence
  <2> SUFFICES ASSUME IInv, IdentityInv, NEW r \in Replica, NEW q \in Replica,
                      frontier[r] = frontier[q]
               PROVE  content[r] = content[q]
    BY DEF Convergence
  <2>1. ASSUME NEW a \in Replica, NEW b \in Replica, frontier[a] = frontier[b],
               NEW op \in content[a]
        PROVE  op \in content[b]
    <3>1. op.site \in Site
      BY DEF IInv, TypeOK, Op
    <3>2. \A c \in Replica, s \in Site :
            SeqsOf(content[c], s) = (1 .. frontier[c][s].frontier) \cup frontier[c][s].staged
      BY DEF IInv, FrontierExact
    <3>3. op.seq \in SeqsOf(content[a], op.site)
      BY DEF SeqsOf
    <3>4. QED
      BY <2>1, <3>1, <3>2, <3>3, SameNumberSameOperation DEF IdentityInv
  <2>2. QED
    BY <2>1
<1>2. QED
  BY Invariance, IdentityInvariance, <1>1, PTL

(* Whether or not the peer has restarted: what a delta leaves out the peer *)
(* holds already, the compacted operations of the sender included.         *)
LEMMA DeltaLeavesNothingOut == IInv /\ IdentityInv => DeltaComplete
<1> SUFFICES ASSUME IInv, IdentityInv, NEW r \in Replica, NEW q \in Replica,
                    ~ CompactionGap(r, DeltaSince(q, Knowledge(r))),
                    NEW op \in content[q],
                    op \notin content[r]
             PROVE  op \in DeltaSince(q, Knowledge(r)).ops
  BY DEF DeltaComplete
<1>1. op.site \in Site /\ op.seq \in Nat /\ op.seq >= 1
  BY DEF IInv, TypeOK, Op, Number
<1>2. /\ Knowledge(r)[op.site] = frontier[r][op.site].frontier
      /\ frontier[r][op.site].frontier \in Nat
      /\ compacted[q][op.site] \in Nat
  BY <1>1, KnowledgeIsFrontier DEF IInv, TypeOK, VectorClock, Count
<1>3. compacted[q][op.site] <= Knowledge(r)[op.site]
  <2>1. DeltaSince(q, Knowledge(r)).compacted = compacted[q]
    BY DEF DeltaSince
  <2>2. CoveredBy(compacted[q], Knowledge(r))
    BY <2>1 DEF CompactionGap
  <2>3. QED
    BY <1>1, <2>2 DEF CoveredBy
<1>4. op.seq > Knowledge(r)[op.site]
  <2>1. SUFFICES ASSUME ~ (op.seq > Knowledge(r)[op.site]) PROVE FALSE
    OBVIOUS
  <2>2. op.seq \in 1 .. frontier[r][op.site].frontier
    BY <1>1, <1>2, <2>1
  <2>3. \A s \in Site :
          SeqsOf(content[r], s) = (1 .. frontier[r][s].frontier) \cup frontier[r][s].staged
    BY DEF IInv, FrontierExact
  <2>4. op.seq \in SeqsOf(content[r], op.site)
    BY <1>1, <2>2, <2>3
  <2>5. QED
    BY <2>4, SameNumberSameOperation DEF IdentityInv
<1>5. op.seq > compacted[q][op.site]
  BY <1>1, <1>2, <1>3, <1>4
<1>6. op \in log[q]
  BY <1>5 DEF IInv, LogComplete
<1>7. QED
  BY <1>4, <1>6 DEF DeltaSince, DeltaOps

(* A delta computed from a peer's vector clock brings the peer all that    *)
(* the sender holds, compacted operations included.                        *)
THEOREM DeltasAreComplete == IdentityContract /\ Spec => []DeltaComplete
BY Invariance, IdentityInvariance, DeltaLeavesNothingOut, PTL

-----------------------------------------------------------------------------
(***************************************************************************)
(* DocumentSync implements OpExchange: under the identity contract what    *)
(* replicas do with logs, vector clocks, staged gaps, compaction and       *)
(* snapshots amounts to the union of sets of operations.                   *)
(***************************************************************************)

(* Everything the invariants say of one state.                             *)
SyncInv == IInv /\ LocalInv /\ IdentityInv

LEMMA SameAnywhere == Exchange!Anywhere = Everything
<1>1. ASSUME NEW op
      PROVE  op \in Exchange!Anywhere <=>
               \/ \E r \in Replica : op \in content[r]
               \/ \E r \in Replica : \E ops \in Saved[r] : op \in ops
               \/ \E ops \in Sent : op \in ops
  BY DEF Exchange!Anywhere
<1>2. ASSUME NEW op, NEW r \in Replica
      PROVE  (\E ops \in Saved[r] : op \in ops) <=> \E snap \in store[r] : op \in snap.content
  BY DEF Saved
<1>3. ASSUME NEW op
      PROVE  (\E ops \in Sent : op \in ops) <=>
               \E message \in inFlight \cup batches : op \in message.ops
  BY DEF Sent
<1>4. \A op : op \in Exchange!Anywhere <=> op \in Everything
  BY <1>1, <1>2, <1>3, InEverything
<1>5. QED
  BY <1>4

(* What a merge drops as a duplicate or as compacted is really there, so   *)
(* a merge unites the content with all it is given.                        *)
LEMMA MergeIsUnion ==
  ASSUME SyncInv, NEW r \in Replica, NEW ops \in SUBSET Op, ops \subseteq Everything,
         Record(r, Unseen(r, ops))
  PROVE  content' = [content EXCEPT ![r] = content[r] \cup ops]
<1>1. TypeOK /\ FrontierExact /\ CompactedIsHeld /\ LogComplete /\ UniqueIdentity
  BY DEF SyncInv, IInv, IdentityInv
<1>2. ASSUME NEW op \in ops, op \notin Unseen(r, ops)
      PROVE  op \in content[r]
  <2>1. op.site \in Site /\ op.seq \in Nat /\ op.seq >= 1
    BY DEF Op, Number
  <2>2. CASE \E known \in log[r] : SameRef(op, known)
    <3>1. PICK known \in log[r] : SameRef(op, known)
      BY <2>2
    <3>2. known \in content[r]
      BY <1>1 DEF LogComplete
    <3>3. op \in Everything /\ known \in Everything
      BY <3>2, InEverything
    <3>4. QED
      BY <1>1, <3>1, <3>2, <3>3 DEF UniqueIdentity, Collide
  <2>3. CASE ~ (op.seq > compacted[r][op.site])
    <3>1. /\ compacted[r][op.site] \in Nat
          /\ frontier[r][op.site].frontier \in Nat
          /\ compacted[r][op.site] <= frontier[r][op.site].frontier
      BY <1>1, <2>1 DEF TypeOK, VectorClock, Count, CompactedIsHeld
    <3>2. op.seq \in 1 .. frontier[r][op.site].frontier
      BY <2>1, <2>3, <3>1
    <3>3. op.seq \in SeqsOf(content[r], op.site)
      BY <1>1, <2>1, <3>2 DEF FrontierExact
    <3>4. PICK own \in content[r] : own.site = op.site /\ own.seq = op.seq
      BY <3>3 DEF SeqsOf
    <3>5. op \in Everything /\ own \in Everything /\ SameRef(op, own)
      BY <3>4, InEverything DEF SameRef
    <3>6. QED
      BY <1>1, <3>4, <3>5 DEF UniqueIdentity, Collide
  <2>4. QED
    BY <1>2, <2>2, <2>3 DEF Unseen
<1>3. content[r] \cup Unseen(r, ops) = content[r] \cup ops
  BY <1>2 DEF Unseen
<1>4. QED
  BY <1>3 DEF Record

-----------------------------------------------------------------------------
(* One lemma per action: the step it is for a reader who sees only sets.   *)
LEMMA InvisibleStep ==
  ASSUME UNCHANGED << content, store, inFlight, batches >>
  PROVE  UNCHANGED Exchange!vars
BY DEF Exchange!vars, Saved, Sent

LEMMA ApplyIssues ==
  ASSUME SyncInv, NEW r \in Replica, NEW p \in Payload, Apply(r, p)
  PROVE  \E op \in Op : Exchange!Issue(r, op)
<1> DEFINE op == [site |-> siteID[r], seq |-> localSeq[r] + 1,
                  ts |-> clock[r] + 1, payload |-> p]
<1>1. TypeOK /\ ClockDominates /\ HolderLeads
  BY DEF SyncInv, IInv, IdentityInv
<1>2. /\ ~ Exhausted(r)
      /\ content' = [content EXCEPT ![r] = content[r] \cup {op}]
      /\ UNCHANGED << store, inFlight, batches >>
  BY DEF Apply, Record
<1>3. clock[r] + 1 \in Number /\ localSeq[r] + 1 \in Number
  BY <1>1, <1>2, MaxTimestampAssumption DEF Exhausted, TypeOK, Count, Number
<1>4. op \in Op
  BY <1>1, <1>3 DEF TypeOK, Op
<1>5. op.site = siteID[r] /\ op.seq = localSeq[r] + 1 /\ op.ts = clock[r] + 1
  OBVIOUS
<1>6. UNCHANGED << Saved, Sent >>
  BY <1>2 DEF Saved, Sent
<1> HIDE DEF op
<1>7. localSeq[r] \in Nat /\ clock[r] \in Nat
  BY <1>1 DEF TypeOK, Count
<1>8. ASSUME NEW other \in content[r]
      PROVE  other.ts < op.ts
  <2>1. other.ts <= clock[r] /\ other.ts \in Nat
    BY <1>1 DEF ClockDominates, TypeOK, Op, Number
  <2>2. QED
    BY <1>5, <1>7, <2>1
<1>9. ASSUME NEW other \in Everything, other.site = op.site
      PROVE  other.seq < op.seq
  <2>1. other.seq <= localSeq[r]
    BY <1>1, <1>5, <1>9 DEF HolderLeads
  <2>2. other.seq \in Nat
    BY <1>1, EverythingTyped DEF Op, Number
  <2>3. QED
    BY <1>5, <1>7, <2>1, <2>2
<1>10. Exchange!Issue(r, op)
  BY <1>2, <1>6, <1>8, <1>9, SameAnywhere DEF Exchange!Issue
<1>11. QED
  BY <1>4, <1>10

LEMMA PullJoins ==
  ASSUME SyncInv, NEW r \in Replica, NEW q \in Replica, Pull(r, q)
  PROVE  Exchange!Join(r, q)
<1> DEFINE delta == DeltaSince(q, Knowledge(r))
<1>1. TypeOK /\ LogComplete /\ DeltaComplete
  BY DeltaLeavesNothingOut DEF SyncInv, IInv
<1>2. /\ ~ CompactionGap(r, delta)
      /\ Record(r, Unseen(r, delta.ops))
      /\ UNCHANGED << store, inFlight, batches >>
  BY DEF Pull, MergeDocument, Accepted
<1>3. delta.ops \subseteq content[q]
  BY <1>1, DeltaCarriesContent
<1>4. content[q] \subseteq content[r] \cup delta.ops
  BY <1>1, <1>2 DEF DeltaComplete
<1>5. delta.ops \in SUBSET Op /\ delta.ops \subseteq Everything
  BY <1>1, <1>3 DEF TypeOK, Everything
<1> HIDE DEF delta
<1>6. content' = [content EXCEPT ![r] = content[r] \cup delta.ops]
  BY <1>2, <1>5, MergeIsUnion
<1>7. content[r] \cup delta.ops = content[r] \cup content[q]
  BY <1>3, <1>4
<1>8. UNCHANGED << Saved, Sent >>
  BY <1>2 DEF Saved, Sent
<1>9. QED
  BY <1>6, <1>7, <1>8 DEF Exchange!Join

LEMMA MergeDelivers ==
  ASSUME SyncInv, NEW r \in Replica, NEW message \in inFlight \cup batches,
         Record(r, Unseen(r, message.ops)), UNCHANGED << store, inFlight, batches >>
  PROVE  \E ops \in Sent : Exchange!Deliver(r, ops)
<1>1. message.ops \in SUBSET Op /\ message.ops \subseteq Everything
  BY DEF SyncInv, IInv, TypeOK, Message, Everything
<1>2. content' = [content EXCEPT ![r] = content[r] \cup message.ops]
  BY <1>1, MergeIsUnion
<1>3. message.ops \in Sent /\ UNCHANGED << Saved, Sent >>
  BY DEF Saved, Sent
<1>4. Exchange!Deliver(r, message.ops)
  BY <1>2, <1>3 DEF Exchange!Deliver
<1>5. QED
  BY <1>3, <1>4

LEMMA SendPuts ==
  ASSUME NEW q \in Replica, NEW message, message.ops \subseteq content[q],
         inFlight' = inFlight \cup {message}, UNCHANGED << content, store, batches >>
  PROVE  Exchange!Put(q)
<1>1. Sent' = Sent \cup {message.ops}
  BY DEF Sent
<1>2. UNCHANGED Saved
  BY DEF Saved
<1>3. QED
  BY <1>1, <1>2 DEF Exchange!Put

LEMMA PendingOpsPuts ==
  ASSUME SyncInv, NEW r \in Replica, PendingOps(r)
  PROVE  Exchange!Put(r) \/ UNCHANGED Exchange!vars
<1>1. /\ batches' = batches \cup Batch(r)
      /\ UNCHANGED << content, store, inFlight >>
  BY DEF PendingOps
<1>2. UNCHANGED Saved
  BY <1>1 DEF Saved
<1>3. CASE Outbox(r) = {}
  <2>1. UNCHANGED << content, store, inFlight, batches >>
    BY <1>1, <1>3 DEF Batch
  <2>2. QED
    BY <2>1, InvisibleStep
<1>4. CASE Outbox(r) # {}
  <2> DEFINE batch == [site |-> siteID[r], ops |-> Outbox(r), watermark |-> Watermark(r)]
  <2>1. Batch(r) = {batch} /\ batch.ops = Outbox(r)
    BY <1>4 DEF Batch
  <2> HIDE DEF batch
  <2>2. Outbox(r) \subseteq content[r]
    BY DEF Outbox, SyncInv, IInv, LogComplete
  <2>3. Sent' = Sent \cup {batch.ops}
    BY <1>1, <2>1 DEF Sent
  <2>4. QED
    BY <1>1, <1>2, <2>1, <2>2, <2>3 DEF Exchange!Put
<1>5. QED
  BY <1>3, <1>4

LEMMA LoseDrops ==
  ASSUME NEW message \in inFlight, Lose(message)
  PROVE  Exchange!Drop
<1>1. /\ inFlight' = inFlight \ {message}
      /\ UNCHANGED << content, store, batches >>
  BY DEF Lose, document
<1>2. UNCHANGED Saved /\ Sent' \in SUBSET Sent
  BY <1>1 DEF Saved, Sent
<1>3. QED
  BY <1>1, <1>2 DEF Exchange!Drop

LEMMA SnapshotSaves ==
  ASSUME SyncInv, NEW r \in Replica, NEW pending, Snapshot(r, pending)
  PROVE  Exchange!Save(r)
<1>1. /\ store' = [store EXCEPT ![r] = {SnapshotOf(r, pending)}]
      /\ UNCHANGED << content, inFlight, batches >>
  BY DEF Snapshot, document
<1>2. \A q \in Replica : store'[q] = IF q = r THEN {SnapshotOf(r, pending)} ELSE store[q]
  BY <1>1 DEF SyncInv, IInv, TypeOK
<1>3. SnapshotOf(r, pending).content = content[r]
  BY DEF SnapshotOf
<1>4. \A q \in Replica : Saved'[q] = IF q = r THEN {content[r]} ELSE Saved[q]
  BY <1>2, <1>3 DEF Saved
<1>5. Saved' = [Saved EXCEPT ![r] = {content[r]}]
  BY <1>4 DEF Saved
<1>6. UNCHANGED Sent
  BY <1>1 DEF Sent
<1>7. QED
  BY <1>1, <1>5, <1>6 DEF Exchange!Save

LEMMA RestoreRestarts ==
  ASSUME NEW r \in Replica, NEW q \in Replica, NEW snap \in store[q], NEW s \in Site,
         Restore(r, snap, s)
  PROVE  \E ops \in Saved[q] : Exchange!Restart(r, ops)
<1>1. /\ content' = [content EXCEPT ![r] = snap.content]
      /\ inFlight' \subseteq inFlight
      /\ UNCHANGED << store, batches >>
  BY DEF Restore
<1>2. snap.content \in Saved[q] /\ UNCHANGED Saved
  BY <1>1 DEF Saved
<1>3. Sent' \in SUBSET Sent
  BY <1>1 DEF Sent
<1>4. QED
  BY <1>1, <1>2, <1>3 DEF Exchange!Restart

-----------------------------------------------------------------------------
LEMMA StepIsExchange == SyncInv /\ [Next]_vars => [Exchange!Next]_(Exchange!vars)
<1> SUFFICES ASSUME SyncInv, [Next]_vars
             PROVE  Exchange!Next \/ UNCHANGED Exchange!vars
  OBVIOUS
<1>1. CASE LocalStep
  <2>1. ASSUME NEW r \in Replica, NEW p \in Payload, Apply(r, p)
        PROVE  Exchange!Next
    BY <2>1, ApplyIssues DEF Exchange!Next
  <2>2. ASSUME NEW r \in Replica, PendingOps(r)
        PROVE  Exchange!Next \/ UNCHANGED Exchange!vars
    BY <2>2, PendingOpsPuts DEF Exchange!Next
  <2>3. ASSUME NEW r \in Replica, NEW batch \in batches, MarkSynced(r, batch)
        PROVE  UNCHANGED Exchange!vars
    <3>1. UNCHANGED << content, store, inFlight, batches >>
      BY <2>3 DEF MarkSynced
    <3>2. QED
      BY <3>1, InvisibleStep
  <2>4. QED
    BY <1>1, <2>1, <2>2, <2>3 DEF LocalStep
<1>2. CASE SendStep
  <2>1. ASSUME NEW q \in Replica, NEW vc, Send(DeltaSince(q, vc))
        PROVE  Exchange!Next
    <3>1. DeltaSince(q, vc).ops \subseteq content[q]
      BY DeltaCarriesContent DEF SyncInv, IInv
    <3>2. Exchange!Put(q)
      BY <2>1, <3>1, SendPuts DEF Send, document
    <3>3. QED
      BY <3>2 DEF Exchange!Next
  <2>2. ASSUME NEW q \in Replica, NEW r \in Replica, Send(CapturedDocument(r, q))
        PROVE  Exchange!Next
    <3>1. CapturedDocument(r, q).ops = DeltaSince(q, NoKnowledge).ops
      BY DEF CapturedDocument, DeltaSince
    <3>2. CapturedDocument(r, q).ops \subseteq content[q]
      BY <3>1, DeltaCarriesContent DEF SyncInv, IInv
    <3>3. Exchange!Put(q)
      BY <2>2, <3>2, SendPuts DEF Send, document
    <3>4. QED
      BY <3>3 DEF Exchange!Next
  <2>3. QED
    BY <1>2, <2>1, <2>2 DEF SendStep
<1>3. CASE MergeStep
  <2>1. ASSUME NEW r \in Replica, NEW delta \in inFlight, MergeInFlight(r, delta)
        PROVE  Exchange!Next
    BY <2>1, MergeDelivers DEF MergeInFlight, MergeDocument, Exchange!Next
  <2>2. ASSUME NEW r \in Replica, NEW batch \in batches, MergeOps(r, batch)
        PROVE  Exchange!Next
    BY <2>2, MergeDelivers DEF MergeOps, Exchange!Next
  <2>3. ASSUME NEW r \in Replica, NEW q \in Replica, Pull(r, q)
        PROVE  Exchange!Next
    BY <2>3, PullJoins DEF Exchange!Next
  <2>4. QED
    BY <1>3, <2>1, <2>2, <2>3 DEF MergeStep
<1>4. CASE \E message \in inFlight : Lose(message)
  BY <1>4, LoseDrops DEF Exchange!Next
<1>5. CASE RestartStep
  BY <1>5, SnapshotSaves, RestoreRestarts DEF RestartStep, Exchange!Next
<1>6. CASE UNCHANGED vars
  <2>1. UNCHANGED << content, store, inFlight, batches >>
    BY <1>6 DEF vars, document
  <2>2. QED
    BY <2>1, InvisibleStep
<1>7. QED
  BY <1>1, <1>2, <1>3, <1>4, <1>5, <1>6 DEF Next

(* Under the identity contract every behaviour of the replicas is one of   *)
(* the union of sets: a delta filtered by the peer's vector clock brings   *)
(* all its sender holds, a merge drops nothing it does not hold already,   *)
(* and a restart returns exactly to what was saved.                        *)
THEOREM SyncImplementsExchange == IdentityContract /\ Spec => ImplementsExchange
<1>1. Init => Exchange!Init
  BY DEF Init, Exchange!Init, Saved, Sent
<1>2. SyncInv /\ [Next]_vars => [Exchange!Next]_(Exchange!vars)
  BY StepIsExchange
<1>3. IdentityContract /\ Spec => []SyncInv
  BY Invariance, LocalInvariance, IdentityInvariance, PTL DEF SyncInv
<1>4. QED
  BY <1>1, <1>2, <1>3, PTL DEF Spec, ImplementsExchange, Exchange!Spec
-----------------------------------------------------------------------------
(***************************************************************************)
(* What holds of documents and the store across cuts, for any number of    *)
(* sessions, sites and epochs.  Numbering starts over with every cut while *)
(* batches, stored results and checkpoints of old epochs stay around, and  *)
(* still: no operation of one epoch enters another one; Since withholds    *)
(* nothing a session lacks; a document ID names one base; what was         *)
(* acknowledged is stored, and the store has no gap.                       *)
(*                                                                         *)
(* Each of the five needs an invariant of its own, on top of those before. *)
(***************************************************************************)

IsFunctionOn(f, S) == f = [x \in S |-> f[x]]

Fields ==
  /\ documentID \in [Replica -> Epoch]
  /\ IsFunctionOn(base, Replica)
  /\ IsFunctionOn(content, Replica)
  /\ IsFunctionOn(log, Replica)
  /\ IsFunctionOn(fetched, Replica)
  /\ IsFunctionOn(durable, Epoch)
  /\ IsFunctionOn(checkpoint, Epoch)
  /\ IsFunctionOn(cut, Epoch)

AllOf(ops, e) == \A op \in ops : op.payload = e

HeldApart == \A r \in Replica : AllOf(content[r], documentID[r]) /\ AllOf(log[r], documentID[r])

BatchesApart == \A batch \in batches : batch.ops # {} /\ AllOf(batch.ops, EpochOf(batch))

StoredApart == \A e \in Epoch : AllOf(durable[e], e)

FetchedApart ==
  \A r \in Replica : \A result \in fetched[r] : AllOf(result.ops, result.documentID)

SavedApart ==
  \A e \in Epoch : \A saved \in checkpoint[e] :
    AllOf(saved.snapshot.content, e) /\ AllOf(Kept(saved.snapshot), e)

(* A cut is announced of an epoch that has a successor.                    *)
CutsLead == \A e \in Epoch : cut[e] # {} => e + 1 \in Epoch

(* EpochsStayApart is not inductive: what may enter a document later, from *)
(* a batch, a result of Since or a checkpoint, has to be told apart too.   *)
EpochInv ==
  /\ Fields /\ HeldApart /\ BatchesApart /\ StoredApart
  /\ FetchedApart /\ SavedApart /\ CutsLead

LEMMA EpochInitInv == EpochInit => EpochInv
<1> SUFFICES ASSUME EpochInit PROVE EpochInv
  OBVIOUS
<1>1. 0 \in Epoch
  BY EpochAssumption DEF Epoch
<1>2. /\ content = [r \in Replica |-> {}] /\ log = [r \in Replica |-> {}]
      /\ batches = {}
      /\ documentID = [r \in Replica |-> 0] /\ base = [r \in Replica |-> {}]
      /\ fetched = [r \in Replica |-> {}]
      /\ cut = [e \in Epoch |-> {}] /\ durable = [e \in Epoch |-> {}]
      /\ checkpoint = [e \in Epoch |-> {}]
  BY DEF EpochInit, Init
<1>3. Fields
  BY <1>1, <1>2 DEF Fields, IsFunctionOn
<1>4. QED
  BY <1>2, <1>3 DEF EpochInv, HeldApart, BatchesApart, StoredApart, FetchedApart,
       SavedApart, CutsLead, AllOf

(* A document takes in operations of its own epoch.                        *)
LEMMA RecordStaysApart ==
  ASSUME Fields, HeldApart, NEW r \in Replica, NEW ops, AllOf(ops, documentID[r]),
         Record(r, ops), UNCHANGED documentID
  PROVE  /\ IsFunctionOn(content, Replica)' /\ IsFunctionOn(log, Replica)'
         /\ HeldApart'
<1>1. /\ content' = [content EXCEPT ![r] = content[r] \cup ops]
      /\ log' = [log EXCEPT ![r] = log[r] \cup ops]
  BY DEF Record
<1>2. IsFunctionOn(content, Replica) /\ IsFunctionOn(log, Replica)
  BY DEF Fields
<1>3. IsFunctionOn(content, Replica)' /\ IsFunctionOn(log, Replica)'
  BY <1>1, <1>2 DEF IsFunctionOn
<1>4. /\ content'[r] = content[r] \cup ops /\ log'[r] = log[r] \cup ops
      /\ \A q \in Replica \ {r} : content'[q] = content[q] /\ log'[q] = log[q]
  BY <1>1, <1>2 DEF IsFunctionOn
<1>5. QED
  BY <1>3, <1>4 DEF HeldApart, AllOf

(* A step that changes one document and nothing beside it.                 *)
LEMMA DocumentStepInv ==
  ASSUME EpochInv, NEW r \in Replica, NEW ops, AllOf(ops, documentID[r]),
         Record(r, ops), UNCHANGED << batches, epochVars >>
  PROVE  EpochInv'
<1>1. UNCHANGED << batches, documentID, base, cut, durable, checkpoint, fetched >>
  BY DEF epochVars
<1>2. /\ IsFunctionOn(content, Replica)' /\ IsFunctionOn(log, Replica)'
      /\ HeldApart'
  BY <1>1, RecordStaysApart DEF EpochInv
<1>3. Fields'
  BY <1>1, <1>2 DEF EpochInv, Fields, IsFunctionOn
<1>4. BatchesApart' /\ StoredApart' /\ FetchedApart' /\ SavedApart' /\ CutsLead'
  BY <1>1 DEF EpochInv, BatchesApart, StoredApart, FetchedApart, SavedApart, CutsLead, EpochOf
<1>5. QED
  BY <1>2, <1>3, <1>4 DEF EpochInv

LEMMA EditInv ==
  ASSUME EpochInv, NEW r \in Replica, Edit(r)
  PROVE  EpochInv'
<1> DEFINE op == [site |-> siteID[r], seq |-> localSeq[r] + 1,
                  ts |-> clock[r] + 1, payload |-> documentID[r]]
<1>1. Record(r, {op}) /\ UNCHANGED << batches, epochVars >>
  BY DEF Edit, Apply
<1>2. AllOf({op}, documentID[r])
  BY DEF AllOf
<1>3. QED
  BY <1>1, <1>2, DocumentStepInv

(* The batch is one of this epoch, its namespace was compared.             *)
LEMMA ReceiveInv ==
  ASSUME EpochInv, NEW r \in Replica, NEW batch \in batches, Receive(r, batch)
  PROVE  EpochInv'
<1>1. /\ documentID[r] = EpochOf(batch)
      /\ Record(r, Unseen(r, batch.ops))
      /\ UNCHANGED << batches, epochVars >>
  BY DEF Receive, SameDocument, MergeOps
<1>2. AllOf(Unseen(r, batch.ops), documentID[r])
  BY <1>1 DEF EpochInv, BatchesApart, AllOf, Unseen
<1>3. QED
  BY <1>1, <1>2, DocumentStepInv

LEMMA PullFromInv ==
  ASSUME EpochInv, NEW r \in Replica, NEW q \in Replica, PullFrom(r, q)
  PROVE  EpochInv'
<1> DEFINE delta == DeltaSince(q, Knowledge(r))
<1>1. /\ documentID[r] = documentID[q]
      /\ Record(r, Unseen(r, delta.ops))
      /\ UNCHANGED << batches, epochVars >>
  BY DEF PullFrom, SameDocument, Pull, MergeDocument
<1>2. delta.ops = DeltaOps(q, Knowledge(r))
  BY DEF DeltaSince
<1>3. AllOf(Unseen(r, delta.ops), documentID[r])
  BY <1>1, <1>2 DEF EpochInv, HeldApart, AllOf, Unseen, DeltaOps
<1>4. QED
  BY <1>1, <1>3, DocumentStepInv

(* What is handed out comes from the log, so it is of one epoch.           *)
LEMMA PublishInv ==
  ASSUME EpochInv, NEW r \in Replica, Publish(r)
  PROVE  EpochInv'
<1>1. /\ batches' = batches \cup Batch(r)
      /\ UNCHANGED << content, log, documentID, base, cut, durable, checkpoint, fetched >>
  BY DEF Publish, PendingOps, epochVars
<1>2. ASSUME NEW batch \in Batch(r)
      PROVE  batch.ops # {} /\ AllOf(batch.ops, EpochOf(batch))
  <2>1. batch.ops = Outbox(r) /\ Outbox(r) # {}
    BY DEF Batch
  <2>2. AllOf(batch.ops, documentID[r])
    BY <2>1 DEF EpochInv, HeldApart, AllOf, Outbox
  <2>3. EpochOf(batch) = documentID[r]
    BY <2>1, <2>2 DEF EpochOf, AllOf
  <2>4. QED
    BY <2>1, <2>2, <2>3
<1>3. BatchesApart'
  BY <1>1, <1>2 DEF EpochInv, BatchesApart, AllOf, EpochOf
<1>4. Fields' /\ HeldApart' /\ StoredApart' /\ FetchedApart' /\ SavedApart' /\ CutsLead'
  BY <1>1 DEF EpochInv, Fields, IsFunctionOn, HeldApart, StoredApart, FetchedApart,
       SavedApart, CutsLead, AllOf
<1>5. QED
  BY <1>3, <1>4 DEF EpochInv

(* A step that touches neither documents nor batches: acknowledgements.    *)
LEMMA AcknowledgeInv ==
  ASSUME EpochInv, NEW r \in Replica, NEW batch \in batches, Acknowledge(r, batch)
  PROVE  EpochInv'
<1>1. UNCHANGED << batches, content, log, documentID, base, cut, durable, checkpoint, fetched >>
  BY DEF Acknowledge, MarkSynced, epochVars
<1>2. QED
  BY <1>1 DEF EpochInv, Fields, IsFunctionOn, HeldApart, BatchesApart, StoredApart,
       FetchedApart, SavedApart, CutsLead, AllOf, EpochOf

-----------------------------------------------------------------------------
LEMMA StoreAppendInv ==
  ASSUME EpochInv, NEW batch \in batches, StoreAppend(EpochOf(batch), batch.ops)
  PROVE  EpochInv'
<1> DEFINE e == EpochOf(batch)
<1>1. /\ durable' = [durable EXCEPT ![e] = durable[e] \cup batch.ops]
      /\ UNCHANGED << content, log, batches, documentID, base, cut, checkpoint, fetched >>
  BY DEF StoreAppend, vars, document
<1>2. AllOf(batch.ops, e)
  BY DEF EpochInv, BatchesApart
<1> HIDE DEF e
<1>3. IsFunctionOn(durable, Epoch)
  BY DEF EpochInv, Fields
<1>4. IsFunctionOn(durable, Epoch)'
  BY <1>1, <1>3 DEF IsFunctionOn
<1>5. \A d \in Epoch : durable'[d] = IF d = e THEN durable[e] \cup batch.ops ELSE durable[d]
  BY <1>1, <1>3 DEF IsFunctionOn
<1>6. StoredApart'
  BY <1>2, <1>5 DEF EpochInv, StoredApart, AllOf
<1>7. Fields'
  BY <1>1, <1>4 DEF EpochInv, Fields, IsFunctionOn
<1>8. HeldApart' /\ BatchesApart' /\ FetchedApart' /\ SavedApart' /\ CutsLead'
  BY <1>1 DEF EpochInv, HeldApart, BatchesApart, FetchedApart, SavedApart, CutsLead,
       AllOf, EpochOf
<1>9. QED
  BY <1>6, <1>7, <1>8 DEF EpochInv

LEMMA FetchInv ==
  ASSUME EpochInv, NEW r \in Replica, Fetch(r)
  PROVE  EpochInv'
<1> DEFINE result == [documentID |-> documentID[r],
                      ops |-> StoredBeyond(documentID[r], Knowledge(r))]
<1>1. /\ fetched' = [fetched EXCEPT ![r] = {result}]
      /\ UNCHANGED << content, log, batches, documentID, base, cut, durable, checkpoint >>
  BY DEF Fetch, vars, document
<1>2. AllOf(result.ops, result.documentID)
  <2>1. documentID[r] \in Epoch
    BY DEF EpochInv, Fields
  <2>2. QED
    BY <2>1 DEF EpochInv, StoredApart, AllOf, StoredBeyond
<1> HIDE DEF result
<1>3. IsFunctionOn(fetched, Replica)
  BY DEF EpochInv, Fields
<1>4. IsFunctionOn(fetched, Replica)'
  BY <1>1, <1>3 DEF IsFunctionOn
<1>5. \A q \in Replica : fetched'[q] = IF q = r THEN {result} ELSE fetched[q]
  BY <1>1, <1>3 DEF IsFunctionOn
<1>6. FetchedApart'
  BY <1>2, <1>5 DEF EpochInv, FetchedApart
<1>7. Fields'
  BY <1>1, <1>4 DEF EpochInv, Fields, IsFunctionOn
<1>8. HeldApart' /\ BatchesApart' /\ StoredApart' /\ SavedApart' /\ CutsLead'
  BY <1>1 DEF EpochInv, HeldApart, BatchesApart, StoredApart, SavedApart, CutsLead,
       AllOf, EpochOf
<1>9. QED
  BY <1>6, <1>7, <1>8 DEF EpochInv

(* A result read before a cut is refused after it.                         *)
LEMMA MergeFetchedInv ==
  ASSUME EpochInv, NEW r \in Replica, NEW result \in fetched[r], MergeFetched(r, result)
  PROVE  EpochInv'
<1>1. /\ documentID[r] = result.documentID
      /\ Record(r, Unseen(r, result.ops))
      /\ fetched' = [fetched EXCEPT ![r] = {}]
      /\ UNCHANGED << batches, documentID, base, cut, durable, checkpoint >>
  BY DEF MergeFetched, SameDocument, MergeOps
<1>2. AllOf(Unseen(r, result.ops), documentID[r])
  BY <1>1 DEF EpochInv, FetchedApart, AllOf, Unseen
<1>3. /\ IsFunctionOn(content, Replica)' /\ IsFunctionOn(log, Replica)'
      /\ HeldApart'
  BY <1>1, <1>2, RecordStaysApart DEF EpochInv
<1>4. IsFunctionOn(fetched, Replica)
  BY DEF EpochInv, Fields
<1>5. IsFunctionOn(fetched, Replica)'
  BY <1>1, <1>4 DEF IsFunctionOn
<1>6. \A q \in Replica : fetched'[q] = IF q = r THEN {} ELSE fetched[q]
  BY <1>1, <1>4 DEF IsFunctionOn
<1>7. FetchedApart'
  BY <1>6 DEF EpochInv, FetchedApart
<1>8. Fields'
  BY <1>1, <1>3, <1>5 DEF EpochInv, Fields, IsFunctionOn
<1>9. BatchesApart' /\ StoredApart' /\ SavedApart' /\ CutsLead'
  BY <1>1 DEF EpochInv, BatchesApart, StoredApart, SavedApart, CutsLead, EpochOf
<1>10. QED
  BY <1>3, <1>7, <1>8, <1>9 DEF EpochInv

LEMMA CheckpointInv ==
  ASSUME EpochInv, NEW r \in Replica, Checkpoint(r)
  PROVE  EpochInv'
<1> DEFINE saved == [base |-> base[r], snapshot |-> SnapshotOf(r, {})]
<1>1. /\ checkpoint' = [checkpoint EXCEPT ![documentID[r]] = {saved}]
      /\ UNCHANGED << content, log, batches, documentID, base, cut, durable, fetched >>
  BY DEF Checkpoint, vars, document
<1>2. AllOf(saved.snapshot.content, documentID[r]) /\ AllOf(Kept(saved.snapshot), documentID[r])
  <2>1. /\ saved.snapshot.content = content[r]
        /\ saved.snapshot.retained = DeltaOps(r, Knowledge(r))
        /\ saved.snapshot.outbox = Outbox(r)
        /\ saved.snapshot.pending = {}
    BY DEF SnapshotOf
  <2>2. saved.snapshot.retained \subseteq log[r] /\ saved.snapshot.outbox \subseteq log[r]
    BY <2>1 DEF DeltaOps, Outbox
  <2>3. QED
    BY <2>1, <2>2 DEF EpochInv, HeldApart, AllOf, Kept
<1> HIDE DEF saved
<1>3. IsFunctionOn(checkpoint, Epoch)
  BY DEF EpochInv, Fields
<1>4. IsFunctionOn(checkpoint, Epoch)'
  BY <1>1, <1>3 DEF IsFunctionOn
<1>5. \A e \in Epoch : checkpoint'[e] = IF e = documentID[r] THEN {saved} ELSE checkpoint[e]
  BY <1>1, <1>3 DEF IsFunctionOn
<1>6. SavedApart'
  BY <1>2, <1>5 DEF EpochInv, SavedApart
<1>7. Fields'
  BY <1>1, <1>4 DEF EpochInv, Fields, IsFunctionOn
<1>8. HeldApart' /\ BatchesApart' /\ StoredApart' /\ FetchedApart' /\ CutsLead'
  BY <1>1 DEF EpochInv, HeldApart, BatchesApart, StoredApart, FetchedApart, CutsLead,
       AllOf, EpochOf
<1>9. QED
  BY <1>6, <1>7, <1>8 DEF EpochInv

(* The process takes over the namespace of the checkpoint with its content.*)
LEMMA RehydrateInv ==
  ASSUME EpochInv, NEW r \in Replica, NEW e \in Epoch, NEW s \in Site,
         NEW saved \in checkpoint[e], Rehydrate(r, e, saved, s)
  PROVE  EpochInv'
<1>1. /\ content' = [content EXCEPT ![r] = saved.snapshot.content]
      /\ log' = [log EXCEPT ![r] = Kept(saved.snapshot)]
      /\ documentID' = [documentID EXCEPT ![r] = e]
      /\ base' = [base EXCEPT ![r] = saved.base]
      /\ fetched' = [fetched EXCEPT ![r] = {}]
      /\ UNCHANGED << batches, cut, durable, checkpoint >>
  BY DEF Rehydrate, Restore
<1>2. AllOf(saved.snapshot.content, e) /\ AllOf(Kept(saved.snapshot), e)
  BY DEF EpochInv, SavedApart
<1>3. /\ IsFunctionOn(content, Replica) /\ IsFunctionOn(log, Replica)
      /\ IsFunctionOn(fetched, Replica) /\ IsFunctionOn(base, Replica)
      /\ documentID \in [Replica -> Epoch]
  BY DEF EpochInv, Fields
<1>4. /\ IsFunctionOn(content, Replica)' /\ IsFunctionOn(log, Replica)'
      /\ IsFunctionOn(fetched, Replica)' /\ IsFunctionOn(base, Replica)'
      /\ documentID' \in [Replica -> Epoch]
  BY <1>1, <1>3 DEF IsFunctionOn
<1>5. /\ content'[r] = saved.snapshot.content /\ log'[r] = Kept(saved.snapshot)
      /\ documentID'[r] = e /\ fetched'[r] = {}
      /\ \A q \in Replica \ {r} :
           /\ content'[q] = content[q] /\ log'[q] = log[q]
           /\ documentID'[q] = documentID[q] /\ fetched'[q] = fetched[q]
  BY <1>1, <1>3 DEF IsFunctionOn
<1>6. HeldApart' /\ FetchedApart'
  BY <1>2, <1>5 DEF EpochInv, HeldApart, FetchedApart
<1>7. Fields'
  BY <1>1, <1>4 DEF EpochInv, Fields, IsFunctionOn
<1>8. BatchesApart' /\ StoredApart' /\ SavedApart' /\ CutsLead'
  BY <1>1 DEF EpochInv, BatchesApart, StoredApart, SavedApart, CutsLead, EpochOf
<1>9. QED
  BY <1>6, <1>7, <1>8 DEF EpochInv

-----------------------------------------------------------------------------
LEMMA AnnounceInv ==
  ASSUME EpochInv, NEW r \in Replica, Announce(r)
  PROVE  EpochInv'
<1>1. /\ documentID[r] < LastEpoch
      /\ cut' = [cut EXCEPT ![documentID[r]] = {Knowledge(r)}]
      /\ UNCHANGED << content, log, batches, documentID, base, durable, checkpoint, fetched >>
  BY DEF Announce, vars, document
<1>2. documentID[r] \in Epoch /\ IsFunctionOn(cut, Epoch)
  BY DEF EpochInv, Fields
<1>3. documentID[r] + 1 \in Epoch
  BY <1>1, <1>2, EpochAssumption DEF Epoch
<1>4. IsFunctionOn(cut, Epoch)'
  BY <1>1, <1>2 DEF IsFunctionOn
<1>5. \A e \in Epoch : e # documentID[r] => cut'[e] = cut[e]
  BY <1>1, <1>2 DEF IsFunctionOn
<1>6. CutsLead'
  BY <1>3, <1>5 DEF EpochInv, CutsLead
<1>7. Fields'
  BY <1>1, <1>4 DEF EpochInv, Fields, IsFunctionOn
<1>8. HeldApart' /\ BatchesApart' /\ StoredApart' /\ FetchedApart' /\ SavedApart'
  BY <1>1 DEF EpochInv, HeldApart, BatchesApart, StoredApart, FetchedApart, SavedApart,
       AllOf, EpochOf
<1>9. QED
  BY <1>6, <1>7, <1>8 DEF EpochInv

(* A document enters the new epoch with nothing of the old one.            *)
LEMMA RebaseInv ==
  ASSUME EpochInv, NEW r \in Replica, NEW stable \in cut[documentID[r]], Rebase(r, stable)
  PROVE  EpochInv'
<1>1. /\ documentID' = [documentID EXCEPT ![r] = documentID[r] + 1]
      /\ base' = [base EXCEPT ![r] = Folded(r)]
      /\ content' = [content EXCEPT ![r] = {}]
      /\ log' = [log EXCEPT ![r] = {}]
      /\ UNCHANGED << batches, cut, durable, checkpoint, fetched >>
  BY DEF Rebase
<1>2. /\ IsFunctionOn(content, Replica) /\ IsFunctionOn(log, Replica)
      /\ IsFunctionOn(base, Replica) /\ documentID \in [Replica -> Epoch]
  BY DEF EpochInv, Fields
<1>3. documentID[r] + 1 \in Epoch
  BY <1>2 DEF EpochInv, CutsLead
<1>4. /\ IsFunctionOn(content, Replica)' /\ IsFunctionOn(log, Replica)'
      /\ IsFunctionOn(base, Replica)' /\ documentID' \in [Replica -> Epoch]
  BY <1>1, <1>2, <1>3 DEF IsFunctionOn
<1>5. /\ content'[r] = {} /\ log'[r] = {}
      /\ \A q \in Replica \ {r} :
           content'[q] = content[q] /\ log'[q] = log[q] /\ documentID'[q] = documentID[q]
  BY <1>1, <1>2 DEF IsFunctionOn
<1>6. HeldApart'
  BY <1>5 DEF EpochInv, HeldApart, AllOf
<1>7. Fields'
  BY <1>1, <1>4 DEF EpochInv, Fields, IsFunctionOn
<1>8. BatchesApart' /\ StoredApart' /\ FetchedApart' /\ SavedApart' /\ CutsLead'
  BY <1>1 DEF EpochInv, BatchesApart, StoredApart, FetchedApart, SavedApart, CutsLead, EpochOf
<1>9. QED
  BY <1>6, <1>7, <1>8 DEF EpochInv

LEMMA EpochNextInv == EpochInv /\ [EpochNext]_<< vars, epochVars >> => EpochInv'
<1> SUFFICES ASSUME EpochInv, [EpochNext]_<< vars, epochVars >> PROVE EpochInv'
  OBVIOUS
<1>1. CASE SessionStep
  BY <1>1, EditInv, PublishInv, ReceiveInv, AcknowledgeInv, PullFromInv DEF SessionStep
<1>2. CASE StoreStep
  BY <1>2, StoreAppendInv, FetchInv, MergeFetchedInv, CheckpointInv, RehydrateInv DEF StoreStep
<1>3. CASE CutStep
  BY <1>3, AnnounceInv, RebaseInv DEF CutStep
<1>4. CASE UNCHANGED << vars, epochVars >>
  <2>1. UNCHANGED << batches, content, log, documentID, base, cut, durable, checkpoint, fetched >>
    BY <1>4 DEF vars, document, epochVars
  <2>2. QED
    BY <2>1 DEF EpochInv, Fields, IsFunctionOn, HeldApart, BatchesApart, StoredApart,
         FetchedApart, SavedApart, CutsLead, AllOf, EpochOf
<1>5. QED
  BY <1>1, <1>2, <1>3, <1>4 DEF EpochNext

LEMMA EpochInvAlways == EpochSpec => []EpochInv
BY EpochInitInv, EpochNextInv, PTL DEF EpochSpec

(* Whatever is published, stored, fetched, saved and announced, and        *)
(* however long it waits, the documents and the store of an epoch hold     *)
(* operations of that epoch only (MergeOps, MemStore.Since, Rebase).       *)
THEOREM EpochsAreApart == EpochSpec => []EpochsStayApart
<1>1. EpochInv => EpochsStayApart
  BY DEF EpochInv, HeldApart, StoredApart, EpochsStayApart, AllOf
<1>2. QED
  BY <1>1, EpochInvAlways, PTL

-----------------------------------------------------------------------------
(***************************************************************************)
(* The documents of an epoch keep what DocumentSync promises of them, now  *)
(* that they also start over at a cut and are rehydrated from a store.     *)
(***************************************************************************)
SavedOwn ==
  \A e \in Epoch : \A saved \in checkpoint[e] :
    /\ saved.snapshot \in SnapshotRecord
    /\ ExactSnapshot(saved.snapshot)
    /\ OwnSnapshot(saved.snapshot)

StoredTyped ==
  /\ \A e \in Epoch : durable[e] \subseteq Op
  /\ \A r \in Replica : \A result \in fetched[r] : result.ops \subseteq Op

DocumentsInv == IInv /\ LocalInv /\ SavedOwn /\ StoredTyped

(* Batches are only added, so a checkpoint stays one that may be resumed.  *)
LEMMA SavedOwnStays ==
  ASSUME SavedOwn, batches \subseteq batches', UNCHANGED checkpoint
  PROVE  SavedOwn'
<1>1. ASSUME NEW e \in Epoch, NEW saved \in checkpoint[e],
             NEW n \in 1 .. saved.snapshot.syncedThrough
      PROVE  \E batch \in batches' :
               batch.site = saved.snapshot.site /\ n \in {op.seq : op \in batch.ops}
  BY DEF SavedOwn, OwnSnapshot, HandedOut
<1>2. QED
  BY <1>1 DEF SavedOwn, OwnSnapshot, HandedOut

(* A step of a document beside which nothing moves.                        *)
LEMMA DocumentOnly ==
  ASSUME DocumentsInv, IInv', LocalInv', batches \subseteq batches', UNCHANGED epochVars
  PROVE  DocumentsInv'
<1>1. SavedOwn'
  BY SavedOwnStays DEF DocumentsInv, epochVars
<1>2. StoredTyped'
  BY DEF DocumentsInv, StoredTyped, epochVars
<1>3. QED
  BY <1>1, <1>2 DEF DocumentsInv

LEMMA EditDocuments ==
  ASSUME EpochInv, DocumentsInv, NEW r \in Replica, Edit(r)
  PROVE  DocumentsInv'
<1>1. documentID[r] \in Payload
  BY EpochAssumption DEF EpochInv, Fields
<1>2. Apply(r, documentID[r]) /\ UNCHANGED epochVars
  BY DEF Edit
<1>3. IInv' /\ LocalInv'
  BY <1>1, <1>2, ApplyInv, ApplyLocal DEF DocumentsInv
<1>4. batches' = batches
  BY <1>2 DEF Apply
<1>5. QED
  BY <1>2, <1>3, <1>4, DocumentOnly

LEMMA OutboxDocuments ==
  ASSUME DocumentsInv, NEW r \in Replica,
         Publish(r) \/ \E batch \in batches : Acknowledge(r, batch)
  PROVE  DocumentsInv'
<1>1. CASE Publish(r)
  <2>1. PendingOps(r) /\ UNCHANGED epochVars
    BY <1>1 DEF Publish
  <2>2. IInv' /\ LocalInv'
    BY <2>1, OutboxInv, PendingOpsLocal DEF DocumentsInv
  <2>3. batches \subseteq batches'
    BY <2>1 DEF PendingOps
  <2>4. QED
    BY <2>1, <2>2, <2>3, DocumentOnly
<1>2. ASSUME NEW batch \in batches, Acknowledge(r, batch)
      PROVE  DocumentsInv'
  <2>1. MarkSynced(r, batch) /\ UNCHANGED epochVars
    BY <1>2 DEF Acknowledge
  <2>2. IInv' /\ LocalInv'
    BY <2>1, OutboxInv, MarkSyncedLocal DEF DocumentsInv
  <2>3. batches' = batches
    BY <2>1 DEF MarkSynced
  <2>4. QED
    BY <2>1, <2>2, <2>3, DocumentOnly
<1>3. QED
  BY <1>1, <1>2

(* Merging a batch or a stored result, of whatever origin.                 *)
LEMMA MergeKeepsDocument ==
  ASSUME IInv, LocalInv, NEW r \in Replica, NEW batch, batch.ops \in SUBSET Op,
         MergeOps(r, batch)
  PROVE  IInv' /\ LocalInv' /\ batches' = batches
<1>1. /\ Acceptable(r, batch.ops)
      /\ Record(r, Unseen(r, batch.ops))
      /\ UNCHANGED << siteID, localSeq, syncedThrough, store, batches >>
  BY DEF MergeOps
<1>2. IInv'
  BY MergeOpsInv
<1>3. LocalInv'
  BY <1>1, MergeLocal
<1>4. QED
  BY <1>1, <1>2, <1>3

LEMMA ReceiveDocuments ==
  ASSUME DocumentsInv, NEW r \in Replica, NEW batch \in batches, Receive(r, batch)
  PROVE  DocumentsInv'
<1>1. MergeOps(r, batch) /\ UNCHANGED epochVars
  BY DEF Receive
<1>2. batch.ops \in SUBSET Op
  BY DEF DocumentsInv, IInv, TypeOK
<1>3. IInv' /\ LocalInv' /\ batches' = batches
  BY <1>1, <1>2, MergeKeepsDocument DEF DocumentsInv
<1>4. QED
  BY <1>1, <1>3, DocumentOnly

LEMMA PullFromDocuments ==
  ASSUME DocumentsInv, NEW r \in Replica, NEW q \in Replica, PullFrom(r, q)
  PROVE  DocumentsInv'
<1> DEFINE delta == DeltaSince(q, Knowledge(r))
<1>1. MergeDocument(r, delta) /\ UNCHANGED inFlight /\ UNCHANGED epochVars
  BY DEF PullFrom, Pull
<1>2. delta \in Message
  BY DeltaType DEF DocumentsInv
<1> HIDE DEF delta
<1>3. delta.ops \in SUBSET Op
  BY <1>2 DEF Message
<1>4. /\ Acceptable(r, delta.ops)
      /\ Record(r, Unseen(r, delta.ops))
      /\ UNCHANGED << siteID, localSeq, syncedThrough, store, batches >>
  BY <1>1 DEF MergeDocument, Accepted
<1>5. IInv'
  BY <1>1, <1>2, MergeDocumentInv DEF DocumentsInv
<1>6. LocalInv'
  BY <1>3, <1>4, MergeLocal DEF DocumentsInv
<1>7. QED
  BY <1>1, <1>4, <1>5, <1>6, DocumentOnly
(* Steps of the store and announcements leave every document alone.        *)
LEMMA StillDocuments ==
  ASSUME IInv, LocalInv, UNCHANGED vars
  PROVE  IInv' /\ LocalInv'
<1>1. TypeOK'
  BY DEF IInv, TypeOK, vars, document
<1>2. IInv'
  BY <1>1, QuietStep DEF vars, document
<1>3. LocalInv'
  BY MessageLocal DEF vars
<1>4. QED
  BY <1>2, <1>3

LEMMA StoreAppendDocuments ==
  ASSUME EpochInv, DocumentsInv, NEW batch \in batches,
         StoreAppend(EpochOf(batch), batch.ops)
  PROVE  DocumentsInv'
<1>1. /\ durable' = [durable EXCEPT ![EpochOf(batch)] = durable[EpochOf(batch)] \cup batch.ops]
      /\ UNCHANGED << vars, checkpoint, fetched >>
  BY DEF StoreAppend
<1>2. batch.ops \subseteq Op
  BY DEF DocumentsInv, IInv, TypeOK
<1>3. \A e \in Epoch : durable'[e] \subseteq durable[e] \cup batch.ops
  BY <1>1 DEF EpochInv, Fields, IsFunctionOn
<1>4. StoredTyped'
  BY <1>1, <1>2, <1>3 DEF DocumentsInv, StoredTyped
<1>5. batches' = batches
  BY <1>1 DEF vars
<1>6. QED
  BY <1>1, <1>4, <1>5, StillDocuments, SavedOwnStays DEF DocumentsInv

LEMMA FetchDocuments ==
  ASSUME EpochInv, DocumentsInv, NEW r \in Replica, Fetch(r)
  PROVE  DocumentsInv'
<1> DEFINE result == [documentID |-> documentID[r],
                      ops |-> StoredBeyond(documentID[r], Knowledge(r))]
<1>1. /\ fetched' = [fetched EXCEPT ![r] = {result}]
      /\ UNCHANGED << vars, checkpoint, durable >>
  BY DEF Fetch
<1>2. result.ops \subseteq Op
  BY DEF EpochInv, Fields, DocumentsInv, StoredTyped, StoredBeyond
<1> HIDE DEF result
<1>3. \A q \in Replica : fetched'[q] \subseteq fetched[q] \cup {result}
  BY <1>1 DEF EpochInv, Fields, IsFunctionOn
<1>4. StoredTyped'
  BY <1>1, <1>2, <1>3 DEF DocumentsInv, StoredTyped
<1>5. batches' = batches
  BY <1>1 DEF vars
<1>6. QED
  BY <1>1, <1>4, <1>5, StillDocuments, SavedOwnStays DEF DocumentsInv

LEMMA MergeFetchedDocuments ==
  ASSUME EpochInv, DocumentsInv, NEW r \in Replica, NEW result \in fetched[r],
         MergeFetched(r, result)
  PROVE  DocumentsInv'
<1>1. /\ MergeOps(r, result)
      /\ fetched' = [fetched EXCEPT ![r] = {}]
      /\ UNCHANGED << durable, checkpoint >>
  BY DEF MergeFetched
<1>2. result.ops \in SUBSET Op
  BY DEF DocumentsInv, StoredTyped
<1>3. IInv' /\ LocalInv' /\ batches' = batches
  BY <1>1, <1>2, MergeKeepsDocument DEF DocumentsInv
<1>4. \A q \in Replica : fetched'[q] \subseteq fetched[q]
  BY <1>1 DEF EpochInv, Fields, IsFunctionOn
<1>5. StoredTyped'
  BY <1>1, <1>4 DEF DocumentsInv, StoredTyped
<1>6. QED
  BY <1>1, <1>3, <1>5, SavedOwnStays DEF DocumentsInv

LEMMA CheckpointDocuments ==
  ASSUME EpochInv, DocumentsInv, NEW r \in Replica, Checkpoint(r)
  PROVE  DocumentsInv'
<1> DEFINE saved == [base |-> base[r], snapshot |-> SnapshotOf(r, {})]
<1>1. /\ checkpoint' = [checkpoint EXCEPT ![documentID[r]] = {saved}]
      /\ UNCHANGED << vars, durable, fetched >>
  BY DEF Checkpoint
<1>2. saved.snapshot = SnapshotOf(r, {})
  OBVIOUS
<1>3. /\ saved.snapshot \in SnapshotRecord
      /\ ExactSnapshot(saved.snapshot)
      /\ OwnSnapshot(saved.snapshot)
  BY <1>2, SnapshotIsExact, SnapshotIsOwn DEF DocumentsInv
<1> HIDE DEF saved
<1>4. \A e \in Epoch : checkpoint'[e] \subseteq checkpoint[e] \cup {saved}
  BY <1>1 DEF EpochInv, Fields, IsFunctionOn
<1>5. batches' = batches
  BY <1>1 DEF vars
<1>6. SavedOwn'
  <2>1. \A e \in Epoch : \A other \in checkpoint'[e] :
          /\ other.snapshot \in SnapshotRecord
          /\ ExactSnapshot(other.snapshot)
          /\ OwnSnapshot(other.snapshot)
    BY <1>3, <1>4 DEF DocumentsInv, SavedOwn
  <2>2. QED
    BY <1>5, <2>1 DEF SavedOwn, OwnSnapshot, HandedOut
<1>7. StoredTyped'
  BY <1>1 DEF DocumentsInv, StoredTyped
<1>8. QED
  BY <1>1, <1>6, <1>7, StillDocuments DEF DocumentsInv

LEMMA RehydrateDocuments ==
  ASSUME EpochInv, DocumentsInv, NEW r \in Replica, NEW e \in Epoch, NEW s \in Site,
         NEW saved \in checkpoint[e], Rehydrate(r, e, saved, s)
  PROVE  DocumentsInv'
<1>1. /\ Restore(r, saved.snapshot, s)
      /\ fetched' = [fetched EXCEPT ![r] = {}]
      /\ UNCHANGED << durable, checkpoint >>
  BY DEF Rehydrate
<1>2. /\ saved.snapshot \in SnapshotRecord
      /\ ExactSnapshot(saved.snapshot)
      /\ OwnSnapshot(saved.snapshot)
  BY DEF DocumentsInv, SavedOwn
<1>3. IInv' /\ LocalInv'
  BY <1>1, <1>2, RestoreInv, RestoreLocal DEF DocumentsInv
<1>4. batches' = batches
  BY <1>1 DEF Restore
<1>5. \A q \in Replica : fetched'[q] \subseteq fetched[q]
  BY <1>1 DEF EpochInv, Fields, IsFunctionOn
<1>6. StoredTyped'
  BY <1>1, <1>5 DEF DocumentsInv, StoredTyped
<1>7. QED
  BY <1>1, <1>3, <1>4, <1>6, SavedOwnStays DEF DocumentsInv

LEMMA AnnounceDocuments ==
  ASSUME DocumentsInv, NEW r \in Replica, Announce(r)
  PROVE  DocumentsInv'
<1>1. UNCHANGED << vars, durable, checkpoint, fetched >>
  BY DEF Announce
<1>2. batches' = batches
  BY <1>1 DEF vars
<1>3. StoredTyped'
  BY <1>1 DEF DocumentsInv, StoredTyped
<1>4. QED
  BY <1>1, <1>2, <1>3, StillDocuments, SavedOwnStays DEF DocumentsInv

-----------------------------------------------------------------------------
(* A cut empties one document; DocumentSync knows no such step.            *)
LEMMA RebaseEffect ==
  ASSUME EpochInv, TypeOK, NEW r \in Replica, NEW stable, Rebase(r, stable)
  PROVE  /\ content'[r] = {} /\ log'[r] = {}
         /\ clock'[r] = 0 /\ localSeq'[r] = 0 /\ syncedThrough'[r] = 0
         /\ compacted'[r] = NoKnowledge
         /\ \A s \in Site : frontier'[r][s] = [frontier |-> 0, staged |-> {}]
         /\ documentID'[r] = documentID[r] + 1
         /\ base'[r] = Folded(r)
         /\ \A q \in Replica \ {r} :
              /\ content'[q] = content[q] /\ log'[q] = log[q]
              /\ clock'[q] = clock[q] /\ localSeq'[q] = localSeq[q]
              /\ syncedThrough'[q] = syncedThrough[q]
              /\ compacted'[q] = compacted[q] /\ frontier'[q] = frontier[q]
              /\ documentID'[q] = documentID[q] /\ base'[q] = base[q]
         /\ UNCHANGED << siteID, store, batches, cut, durable, checkpoint, fetched, minted >>
<1>1. /\ documentID \in [Replica -> Epoch] /\ base = [q \in Replica |-> base[q]]
  BY DEF EpochInv, Fields, IsFunctionOn
<1>2. /\ documentID' = [documentID EXCEPT ![r] = documentID[r] + 1]
      /\ base' = [base EXCEPT ![r] = Folded(r)]
      /\ clock' = [clock EXCEPT ![r] = 0]
      /\ localSeq' = [localSeq EXCEPT ![r] = 0]
      /\ content' = [content EXCEPT ![r] = {}]
      /\ log' = [log EXCEPT ![r] = {}]
      /\ frontier' = [frontier EXCEPT ![r] = [s \in Site |-> [frontier |-> 0, staged |-> {}]]]
      /\ compacted' = [compacted EXCEPT ![r] = NoKnowledge]
      /\ syncedThrough' = [syncedThrough EXCEPT ![r] = 0]
      /\ UNCHANGED << siteID, store, batches, cut, durable, checkpoint, fetched, minted >>
  BY DEF Rebase, Watermarks
<1>3. QED
  BY <1>1, <1>2 DEF TypeOK

LEMMA RebaseIInv ==
  ASSUME EpochInv, IInv, NEW r \in Replica, NEW stable, Rebase(r, stable)
  PROVE  IInv'
<1> USE MaxTimestampAssumption
<1>1. TypeOK
  BY DEF IInv
<1>2. /\ content'[r] = {} /\ log'[r] = {}
      /\ clock'[r] = 0
      /\ compacted'[r] = NoKnowledge
      /\ \A s \in Site : frontier'[r][s] = [frontier |-> 0, staged |-> {}]
      /\ \A q \in Replica \ {r} :
           /\ content'[q] = content[q] /\ log'[q] = log[q]
           /\ clock'[q] = clock[q]
           /\ compacted'[q] = compacted[q] /\ frontier'[q] = frontier[q]
      /\ UNCHANGED store
  BY <1>1, RebaseEffect
<1>3. 0 \in Count /\ NoKnowledge \in VectorClock /\ \A s \in Site : NoKnowledge[s] = 0
  BY DEF Count, NoKnowledge, VectorClock
<1>4. TypeOK'
  <2>1. /\ clock' = [clock EXCEPT ![r] = 0]
        /\ localSeq' = [localSeq EXCEPT ![r] = 0]
        /\ content' = [content EXCEPT ![r] = {}]
        /\ log' = [log EXCEPT ![r] = {}]
        /\ frontier' = [frontier EXCEPT ![r] = [s \in Site |-> [frontier |-> 0, staged |-> {}]]]
        /\ compacted' = [compacted EXCEPT ![r] = NoKnowledge]
        /\ syncedThrough' = [syncedThrough EXCEPT ![r] = 0]
        /\ issuedThrough' = [issuedThrough EXCEPT ![r] = 0]
        /\ UNCHANGED << siteID, store, inFlight, batches, restores >>
    BY DEF Rebase, Watermarks
  <2>2. /\ clock' \in [Replica -> Count] /\ localSeq' \in [Replica -> Count]
        /\ content' \in [Replica -> SUBSET Op] /\ log' \in [Replica -> SUBSET Op]
        /\ compacted' \in [Replica -> VectorClock]
        /\ syncedThrough' \in [Replica -> Count] /\ issuedThrough' \in [Replica -> Count]
    BY <1>1, <1>3, <2>1 DEF TypeOK
  <2>3. [s \in Site |-> [frontier |-> 0, staged |-> {}]]
          \in [Site -> [frontier : Count, staged : SUBSET Number]]
    BY <1>3
  <2>4. frontier' \in [Replica -> [Site -> [frontier : Count, staged : SUBSET Number]]]
    BY <1>1, <2>1, <2>3 DEF TypeOK
  <2>5. QED
    BY <1>1, <2>1, <2>2, <2>4 DEF TypeOK
<1>5. FrontierExact'
  <2>1. \A s : SeqsOf({}, s) = {}
    BY DEF SeqsOf
  <2>2. ASSUME NEW q \in Replica, NEW s \in Site
        PROVE  /\ SeqsOf(content'[q], s) = (1 .. frontier'[q][s].frontier) \cup frontier'[q][s].staged
               /\ \A n \in frontier'[q][s].staged : n > frontier'[q][s].frontier + 1
    <3>1. CASE q = r
      <4>1. frontier'[q][s].frontier = 0 /\ frontier'[q][s].staged = {}
        BY <1>2, <3>1
      <4>2. SeqsOf(content'[q], s) = {}
        BY <1>2, <2>1, <3>1
      <4>3. QED
        BY <4>1, <4>2
    <3>2. CASE q # r
      BY <1>2, <3>2 DEF IInv, FrontierExact
    <3>3. QED
      BY <3>1, <3>2
  <2>3. QED
    BY <2>2 DEF FrontierExact
<1>6. CompactedIsHeld'
  <2>1. ASSUME NEW q \in Replica, NEW s \in Site
        PROVE  compacted'[q][s] <= frontier'[q][s].frontier
    BY <1>2, <1>3 DEF IInv, CompactedIsHeld
  <2>2. QED
    BY <2>1 DEF CompactedIsHeld
<1>7. LogComplete' /\ ClockDominates'
  BY <1>2 DEF IInv, LogComplete, ClockDominates
<1>8. SnapshotsExact'
  BY <1>2, SnapshotsKept
<1>9. QED
  BY <1>4, <1>5, <1>6, <1>7, <1>8 DEF IInv

LEMMA RebaseLocal ==
  ASSUME EpochInv, IInv, LocalInv, NEW r \in Replica, NEW stable, Rebase(r, stable)
  PROVE  LocalInv'
<1>1. /\ content'[r] = {} /\ localSeq'[r] = 0 /\ syncedThrough'[r] = 0
      /\ \A q \in Replica \ {r} :
           /\ content'[q] = content[q] /\ log'[q] = log[q]
           /\ localSeq'[q] = localSeq[q] /\ syncedThrough'[q] = syncedThrough[q]
      /\ UNCHANGED << siteID, store, batches >>
  BY RebaseEffect DEF IInv
<1>2. OwnSeqs'
  <2>1. SeqsOf({}, siteID[r]) = {} /\ 1 .. 0 = {}
    BY DEF SeqsOf
  <2>2. ASSUME NEW q \in Replica
        PROVE  SeqsOf(content'[q], siteID[q]) = 1 .. localSeq'[q]
    BY <1>1, <2>1 DEF LocalInv, OwnSeqs
  <2>3. QED
    BY <1>1, <2>2 DEF OwnSeqs
<1>3. UnackedLogged' /\ AckedWereIssued'
  BY <1>1 DEF LocalInv, UnackedLogged, AckedWereIssued
<1>4. LocallyUnique'
  <2>1. ASSUME NEW q \in Replica
        PROVE  ~ Collide(content'[q], content'[q])
    BY <1>1 DEF LocalInv, LocallyUnique, Collide
  <2>2. QED
    BY <2>1 DEF LocallyUnique, Collide
<1>5. AckedWereHandedOut'
  <2>1. ASSUME NEW q \in Replica, NEW n \in 1 .. syncedThrough'[q]
        PROVE  HandedOut(siteID[q], n)
    BY <1>1, <2>1 DEF LocalInv, AckedWereHandedOut
  <2>2. QED
    BY <1>1, <2>1 DEF AckedWereHandedOut, HandedOut
<1>6. WatermarksHandedOut' /\ OwnSnapshots'
  BY <1>1, SnapshotsStay DEF LocalInv, WatermarksHandedOut, HandedOut
<1>7. QED
  BY <1>2, <1>3, <1>4, <1>5, <1>6 DEF LocalInv

LEMMA RebaseDocuments ==
  ASSUME EpochInv, DocumentsInv, NEW r \in Replica, NEW stable, Rebase(r, stable)
  PROVE  DocumentsInv'
<1>1. IInv' /\ LocalInv'
  BY RebaseIInv, RebaseLocal DEF DocumentsInv
<1>2. UNCHANGED << batches, durable, checkpoint, fetched >>
  BY DEF Rebase
<1>3. StoredTyped'
  BY <1>2 DEF DocumentsInv, StoredTyped
<1>4. QED
  BY <1>1, <1>2, <1>3, SavedOwnStays DEF DocumentsInv

LEMMA EpochInitDocuments == EpochInit => DocumentsInv
<1> SUFFICES ASSUME EpochInit PROVE DocumentsInv
  OBVIOUS
<1>1. IInv /\ LocalInv
  BY InitIInv, InitLocalInv DEF EpochInit
<1>2. SavedOwn /\ StoredTyped
  BY DEF EpochInit, SavedOwn, StoredTyped
<1>3. QED
  BY <1>1, <1>2 DEF DocumentsInv

LEMMA EpochNextDocuments ==
  EpochInv /\ DocumentsInv /\ [EpochNext]_<< vars, epochVars >> => DocumentsInv'
<1> SUFFICES ASSUME EpochInv, DocumentsInv, [EpochNext]_<< vars, epochVars >>
             PROVE  DocumentsInv'
  OBVIOUS
<1>1. CASE SessionStep
  BY <1>1, EditDocuments, OutboxDocuments, ReceiveDocuments, PullFromDocuments DEF SessionStep
<1>2. CASE StoreStep
  BY <1>2, StoreAppendDocuments, FetchDocuments, MergeFetchedDocuments, CheckpointDocuments,
     RehydrateDocuments DEF StoreStep
<1>3. CASE CutStep
  BY <1>3, AnnounceDocuments, RebaseDocuments DEF CutStep
<1>4. CASE UNCHANGED << vars, epochVars >>
  <2>1. IInv' /\ LocalInv'
    BY <1>4, StillDocuments DEF DocumentsInv
  <2>2. batches' = batches
    BY <1>4 DEF vars
  <2>3. QED
    BY <1>4, <2>1, <2>2, DocumentOnly
<1>5. QED
  BY <1>1, <1>2, <1>3, <1>4 DEF EpochNext

LEMMA DocumentsInvAlways == EpochSpec => []DocumentsInv
BY EpochInitDocuments, EpochNextDocuments, EpochInvAlways, PTL DEF EpochSpec

-----------------------------------------------------------------------------
(***************************************************************************)
(* Identities.  Numbering starts over in a new epoch, under the same site  *)
(* ID: within one epoch an identity still stands for one operation,        *)
(* wherever copies of it are, folded into a base included.                 *)
(***************************************************************************)
(* Processes start under different site IDs, see NewSiteID.                *)
HomesDiffer == \A r \in Replica, q \in Replica : HomeSite[r] = HomeSite[q] => r = q

OpsOf(b) == {f.op : f \in b}

Around ==
  UNION ( {content[r] : r \in Replica}
            \cup {batch.ops : batch \in batches}
            \cup {durable[e] : e \in Epoch}
            \cup {result.ops : result \in UNION {fetched[r] : r \in Replica}}
            \cup {saved.snapshot.content : saved \in UNION {checkpoint[e] : e \in Epoch}}
            \cup {OpsOf(base[r]) : r \in Replica}
            \cup {OpsOf(saved.base) : saved \in UNION {checkpoint[e] : e \in Epoch}} )

AroundTyped == \A op \in Around : op \in Op /\ op.payload \in Epoch

(* A site ID is spent when a process runs under it.                        *)
AllMinted ==
  /\ \A r \in Replica : siteID[r] \in minted
  /\ \A op \in Around : op.site \in minted

(* Of the epoch it is in, nothing of a site is ahead of its holder; of a   *)
(* later epoch there is nothing.                                           *)
NothingAhead ==
  \A r \in Replica : \A op \in Around :
    op.site = siteID[r] =>
      \/ op.payload < documentID[r]
      \/ op.payload = documentID[r] /\ op.seq <= localSeq[r]

OneMeaning ==
  \A a \in Around, b \in Around : SameRef(a, b) /\ a.payload = b.payload => a = b

NamesInv == AroundTyped /\ OneHolder /\ AllMinted /\ NothingAhead /\ OneMeaning

LEMMA AroundHas ==
  /\ \A r \in Replica : content[r] \subseteq Around /\ \A f \in base[r] : f.op \in Around
  /\ \A batch \in batches : batch.ops \subseteq Around
  /\ \A r \in Replica : \A result \in fetched[r] : result.ops \subseteq Around
  /\ \A e \in Epoch :
       /\ durable[e] \subseteq Around
       /\ \A saved \in checkpoint[e] :
            saved.snapshot.content \subseteq Around /\ \A f \in saved.base : f.op \in Around
<1>1. \A r \in Replica : content[r] \subseteq Around
  BY DEF Around
<1>2. \A batch \in batches : batch.ops \subseteq Around
  BY DEF Around
<1>3. \A r \in Replica : \A result \in fetched[r] : result.ops \subseteq Around
  BY DEF Around
<1>4. \A e \in Epoch : durable[e] \subseteq Around
  BY DEF Around
<1>5. \A e \in Epoch : \A saved \in checkpoint[e] : saved.snapshot.content \subseteq Around
  BY DEF Around
<1>6. \A r \in Replica : OpsOf(base[r]) \subseteq Around
  BY DEF Around
<1>7. \A e \in Epoch : \A saved \in checkpoint[e] : OpsOf(saved.base) \subseteq Around
  BY DEF Around
<1>8. QED
  BY <1>1, <1>2, <1>3, <1>4, <1>5, <1>6, <1>7 DEF OpsOf

LEMMA AroundNext ==
  ASSUME NEW ops,
         \A r \in Replica : content'[r] \subseteq ops /\ \A f \in base'[r] : f.op \in ops,
         \A batch \in batches' : batch.ops \subseteq ops,
         \A r \in Replica : \A result \in fetched'[r] : result.ops \subseteq ops,
         \A e \in Epoch :
           /\ durable'[e] \subseteq ops
           /\ \A saved \in checkpoint'[e] :
                saved.snapshot.content \subseteq ops /\ \A f \in saved.base : f.op \in ops
  PROVE  Around' \subseteq ops
<1>1. /\ \A r \in Replica : OpsOf(base'[r]) \subseteq ops
      /\ \A e \in Epoch : \A saved \in checkpoint'[e] : OpsOf(saved.base) \subseteq ops
  BY DEF OpsOf
<1>2. QED
  BY <1>1 DEF Around

(* A step that makes no operation and moves nobody.                        *)
LEMMA NothingMade ==
  ASSUME NamesInv, Around' \subseteq Around, UNCHANGED << siteID, localSeq, documentID, minted >>
  PROVE  NamesInv'
<1>1. AroundTyped' /\ AllMinted' /\ OneMeaning'
  BY DEF NamesInv, AroundTyped, AllMinted, OneMeaning
<1>2. OneHolder' /\ NothingAhead'
  BY DEF NamesInv, OneHolder, NothingAhead
<1>3. QED
  BY <1>1, <1>2 DEF NamesInv

(* A merge copies operations that are around already.                      *)
LEMMA MergeMakesNothing ==
  ASSUME TypeOK, NEW r \in Replica, NEW ops \in SUBSET Op, ops \subseteq Around,
         Record(r, Unseen(r, ops)), \A q \in Replica : fetched'[q] \subseteq fetched[q],
         UNCHANGED << batches, base, durable, checkpoint >>
  PROVE  Around' \subseteq Around
<1>1. Unseen(r, ops) \in SUBSET Op /\ Unseen(r, ops) \subseteq Around
  BY DEF Unseen
<1>2. \A q \in Replica : content'[q] \subseteq content[q] \cup Unseen(r, ops)
  BY <1>1, RecordEffect
<1>3. \A q \in Replica : content'[q] \subseteq Around
  BY <1>1, <1>2, AroundHas
<1>4. \A q \in Replica : \A result \in fetched'[q] : result.ops \subseteq Around
  BY AroundHas
<1>5. QED
  BY <1>3, <1>4, AroundHas, AroundNext

(* The one step that makes an operation.                                   *)
LEMMA EditNames ==
  ASSUME EpochInv, DocumentsInv, NamesInv, NEW r \in Replica, Edit(r)
  PROVE  NamesInv'
<1> DEFINE op == [site |-> siteID[r], seq |-> localSeq[r] + 1,
                  ts |-> clock[r] + 1, payload |-> documentID[r]]
<1>1. TypeOK /\ documentID[r] \in Epoch
  BY DEF DocumentsInv, IInv, EpochInv, Fields
<1>2. /\ ~ Exhausted(r)
      /\ Record(r, {op})
      /\ localSeq' = [localSeq EXCEPT ![r] = localSeq[r] + 1]
      /\ UNCHANGED << siteID, batches, documentID, base, durable, checkpoint, fetched, minted >>
  BY DEF Edit, Apply, epochVars
<1>3. clock[r] + 1 \in Number /\ localSeq[r] + 1 \in Number
  BY <1>1, <1>2, MaxTimestampAssumption DEF Exhausted, TypeOK, Count, Number
<1>4. op \in Op
  BY <1>1, <1>3, EpochAssumption DEF TypeOK, Op
<1>5. op.site = siteID[r] /\ op.seq = localSeq[r] + 1 /\ op.payload = documentID[r]
  OBVIOUS
<1> HIDE DEF op
<1>6. /\ localSeq'[r] = localSeq[r] + 1
      /\ \A q \in Replica \ {r} : localSeq'[q] = localSeq[q]
      /\ \A q \in Replica : localSeq[q] \in Nat /\ documentID[q] \in Nat
  BY <1>1, <1>2 DEF TypeOK, Count, EpochInv, Fields, Epoch
<1>7. Around' \subseteq Around \cup {op}
  <2>1. \A q \in Replica : content'[q] \subseteq content[q] \cup {op}
    BY <1>1, <1>2, <1>4, RecordEffect
  <2>2. \A q \in Replica : content'[q] \subseteq Around \cup {op}
    BY <2>1, AroundHas
  <2>3. QED
    BY <1>2, <2>2, AroundHas, AroundNext
<1>8. ASSUME NEW a \in Around, a.site = op.site, a.payload = op.payload
      PROVE  a.seq # op.seq
  <2>1. a.payload \in Nat /\ a.seq \in Nat
    BY <1>1 DEF NamesInv, AroundTyped, Epoch, Op, Number
  <2>2. a.seq <= localSeq[r]
    BY <1>5, <1>6, <1>8, <2>1 DEF NamesInv, NothingAhead
  <2>3. QED
    BY <1>5, <1>6, <2>1, <2>2
<1>9. AroundTyped' /\ AllMinted'
  BY <1>1, <1>2, <1>4, <1>5, <1>7 DEF NamesInv, AroundTyped, AllMinted
<1>10. OneHolder'
  BY <1>2 DEF NamesInv, OneHolder
<1>11. NothingAhead'
  <2>1. ASSUME NEW q \in Replica, NEW a \in Around', a.site = siteID[q]
        PROVE  \/ a.payload < documentID[q]
               \/ a.payload = documentID[q] /\ a.seq <= localSeq'[q]
    <3>1. CASE a = op
      <4>1. q = r
        BY <1>5, <2>1, <3>1 DEF NamesInv, OneHolder
      <4>2. QED
        BY <1>5, <1>6, <3>1, <4>1
    <3>2. CASE a \in Around
      <4>1. \/ a.payload < documentID[q]
            \/ a.payload = documentID[q] /\ a.seq <= localSeq[q]
        BY <2>1, <3>2 DEF NamesInv, NothingAhead
      <4>2. a.seq \in Nat
        BY <3>2 DEF NamesInv, AroundTyped, Op, Number
      <4>3. QED
        BY <1>6, <4>1, <4>2
    <3>3. QED
      BY <1>7, <2>1, <3>1, <3>2
  <2>2. QED
    BY <1>2, <2>1 DEF NothingAhead
<1>12. OneMeaning'
  <2>1. ASSUME NEW a \in Around', NEW b \in Around', SameRef(a, b), a.payload = b.payload
        PROVE  a = b
    <3>1. CASE a \in Around /\ b \in Around
      BY <2>1, <3>1 DEF NamesInv, OneMeaning
    <3>2. CASE a \in Around /\ b = op
      BY <1>8, <2>1, <3>2 DEF SameRef
    <3>3. CASE a = op /\ b \in Around
      BY <1>8, <2>1, <3>3 DEF SameRef
    <3>4. QED
      BY <1>7, <2>1, <3>1, <3>2, <3>3
  <2>2. QED
    BY <2>1 DEF OneMeaning
<1>13. QED
  BY <1>9, <1>10, <1>11, <1>12 DEF NamesInv
LEMMA PublishNames ==
  ASSUME DocumentsInv, NamesInv, NEW r \in Replica, Publish(r)
  PROVE  NamesInv'
<1>1. /\ batches' = batches \cup Batch(r)
      /\ UNCHANGED << siteID, localSeq, content, documentID, base, durable, checkpoint,
                      fetched, minted >>
  BY DEF Publish, PendingOps, epochVars
<1>2. \A batch \in Batch(r) : batch.ops \subseteq content[r]
  BY DEF Batch, Outbox, DocumentsInv, IInv, LogComplete
<1>3. \A batch \in batches' : batch.ops \subseteq Around
  BY <1>1, <1>2, AroundHas
<1>4. Around' \subseteq Around
  BY <1>1, <1>3, AroundHas, AroundNext
<1>5. QED
  BY <1>1, <1>4, NothingMade

LEMMA ReceiveNames ==
  ASSUME DocumentsInv, NamesInv, NEW r \in Replica, NEW batch \in batches, Receive(r, batch)
  PROVE  NamesInv'
<1>1. /\ Record(r, Unseen(r, batch.ops))
      /\ UNCHANGED << siteID, localSeq, batches, documentID, base, durable, checkpoint,
                      fetched, minted >>
  BY DEF Receive, MergeOps, epochVars
<1>2. TypeOK /\ batch.ops \in SUBSET Op /\ batch.ops \subseteq Around
  BY AroundHas DEF DocumentsInv, IInv, TypeOK
<1>3. Around' \subseteq Around
  BY <1>1, <1>2, MergeMakesNothing
<1>4. QED
  BY <1>1, <1>3, NothingMade

LEMMA PullFromNames ==
  ASSUME DocumentsInv, NamesInv, NEW r \in Replica, NEW q \in Replica, PullFrom(r, q)
  PROVE  NamesInv'
<1> DEFINE ops == DeltaOps(q, Knowledge(r))
<1>1. /\ Record(r, Unseen(r, ops))
      /\ UNCHANGED << siteID, localSeq, batches, documentID, base, durable, checkpoint,
                      fetched, minted >>
  BY DEF PullFrom, Pull, MergeDocument, DeltaSince, epochVars
<1>2. TypeOK /\ ops \in SUBSET Op /\ ops \subseteq Around
  BY AroundHas DEF DocumentsInv, IInv, TypeOK, LogComplete, DeltaOps
<1> HIDE DEF ops
<1>3. Around' \subseteq Around
  BY <1>1, <1>2, MergeMakesNothing
<1>4. QED
  BY <1>1, <1>3, NothingMade

LEMMA AcknowledgeNames ==
  ASSUME NamesInv, NEW r \in Replica, NEW batch \in batches, Acknowledge(r, batch)
  PROVE  NamesInv'
<1>1. UNCHANGED << siteID, localSeq, content, batches, documentID, base, durable, checkpoint,
                   fetched, minted >>
  BY DEF Acknowledge, MarkSynced, epochVars
<1>2. Around' \subseteq Around
  BY <1>1, AroundHas, AroundNext
<1>3. QED
  BY <1>1, <1>2, NothingMade

LEMMA StoreAppendNames ==
  ASSUME EpochInv, NamesInv, NEW batch \in batches, StoreAppend(EpochOf(batch), batch.ops)
  PROVE  NamesInv'
<1>1. /\ durable' = [durable EXCEPT ![EpochOf(batch)] = durable[EpochOf(batch)] \cup batch.ops]
      /\ UNCHANGED << siteID, localSeq, content, batches, documentID, base, checkpoint,
                      fetched, minted >>
  BY DEF StoreAppend, vars, document
<1>2. \A e \in Epoch : durable'[e] \subseteq durable[e] \cup batch.ops
  BY <1>1 DEF EpochInv, Fields, IsFunctionOn
<1>3. \A e \in Epoch : durable'[e] \subseteq Around
  BY <1>2, AroundHas
<1>4. Around' \subseteq Around
  BY <1>1, <1>3, AroundHas, AroundNext
<1>5. QED
  BY <1>1, <1>4, NothingMade

LEMMA FetchNames ==
  ASSUME EpochInv, NamesInv, NEW r \in Replica, Fetch(r)
  PROVE  NamesInv'
<1> DEFINE result == [documentID |-> documentID[r],
                      ops |-> StoredBeyond(documentID[r], Knowledge(r))]
<1>1. /\ fetched' = [fetched EXCEPT ![r] = {result}]
      /\ UNCHANGED << siteID, localSeq, content, batches, documentID, base, checkpoint,
                      durable, minted >>
  BY DEF Fetch, vars, document
<1>2. result.ops \subseteq Around
  <2>1. documentID[r] \in Epoch /\ result.ops \subseteq durable[documentID[r]]
    BY DEF EpochInv, Fields, StoredBeyond
  <2>2. QED
    BY <2>1, AroundHas
<1> HIDE DEF result
<1>3. \A q \in Replica : fetched'[q] \subseteq fetched[q] \cup {result}
  BY <1>1 DEF EpochInv, Fields, IsFunctionOn
<1>4. \A q \in Replica : \A other \in fetched'[q] : other.ops \subseteq Around
  BY <1>2, <1>3, AroundHas
<1>5. Around' \subseteq Around
  BY <1>1, <1>4, AroundHas, AroundNext
<1>6. QED
  BY <1>1, <1>5, NothingMade

LEMMA MergeFetchedNames ==
  ASSUME EpochInv, DocumentsInv, NamesInv, NEW r \in Replica, NEW result \in fetched[r],
         MergeFetched(r, result)
  PROVE  NamesInv'
<1>1. /\ Record(r, Unseen(r, result.ops))
      /\ fetched' = [fetched EXCEPT ![r] = {}]
      /\ UNCHANGED << siteID, localSeq, batches, documentID, base, durable, checkpoint, minted >>
  BY DEF MergeFetched, MergeOps
<1>2. TypeOK /\ result.ops \in SUBSET Op /\ result.ops \subseteq Around
  BY AroundHas DEF DocumentsInv, IInv, StoredTyped
<1>3. \A q \in Replica : fetched'[q] \subseteq fetched[q]
  BY <1>1 DEF EpochInv, Fields, IsFunctionOn
<1>4. Around' \subseteq Around
  BY <1>1, <1>2, <1>3, MergeMakesNothing
<1>5. QED
  BY <1>1, <1>4, NothingMade

LEMMA CheckpointNames ==
  ASSUME EpochInv, NamesInv, NEW r \in Replica, Checkpoint(r)
  PROVE  NamesInv'
<1> DEFINE saved == [base |-> base[r], snapshot |-> SnapshotOf(r, {})]
<1>1. /\ checkpoint' = [checkpoint EXCEPT ![documentID[r]] = {saved}]
      /\ UNCHANGED << siteID, localSeq, content, batches, documentID, base, durable,
                      fetched, minted >>
  BY DEF Checkpoint, vars, document
<1>2. saved.base = base[r] /\ saved.snapshot.content = content[r]
  BY DEF SnapshotOf
<1> HIDE DEF saved
<1>3. \A e \in Epoch : checkpoint'[e] \subseteq checkpoint[e] \cup {saved}
  BY <1>1 DEF EpochInv, Fields, IsFunctionOn
<1>4. \A e \in Epoch : \A other \in checkpoint'[e] :
        other.snapshot.content \subseteq Around /\ \A f \in other.base : f.op \in Around
  BY <1>2, <1>3, AroundHas
<1>5. Around' \subseteq Around
  BY <1>1, <1>4, AroundHas, AroundNext
<1>6. QED
  BY <1>1, <1>5, NothingMade

(* Under a site ID that was never minted nothing is around yet.            *)
LEMMA RehydrateNames ==
  ASSUME EpochInv, DocumentsInv, NamesInv, NEW r \in Replica, NEW e \in Epoch, NEW s \in Site,
         NEW saved \in checkpoint[e], Rehydrate(r, e, saved, s)
  PROVE  NamesInv'
<1>1. TypeOK
  BY DEF DocumentsInv, IInv
<1>2. /\ s \notin minted
      /\ siteID' = [siteID EXCEPT ![r] = s]
      /\ content' = [content EXCEPT ![r] = saved.snapshot.content]
      /\ localSeq' = [localSeq EXCEPT ![r] = ResumeSeq(saved.snapshot, s)]
      /\ documentID' = [documentID EXCEPT ![r] = e]
      /\ base' = [base EXCEPT ![r] = saved.base]
      /\ fetched' = [fetched EXCEPT ![r] = {}]
      /\ minted' = minted \cup {s}
      /\ UNCHANGED << batches, durable, checkpoint >>
  BY DEF Rehydrate, Restore, Fresh
<1>3. /\ siteID'[r] = s /\ content'[r] = saved.snapshot.content
      /\ base'[r] = saved.base /\ fetched'[r] = {}
      /\ \A q \in Replica \ {r} :
           /\ siteID'[q] = siteID[q] /\ content'[q] = content[q] /\ localSeq'[q] = localSeq[q]
           /\ documentID'[q] = documentID[q] /\ base'[q] = base[q] /\ fetched'[q] = fetched[q]
  BY <1>1, <1>2 DEF TypeOK, EpochInv, Fields, IsFunctionOn
<1>4. Around' \subseteq Around
  <2>1. \A q \in Replica : content'[q] \subseteq Around /\ \A f \in base'[q] : f.op \in Around
    BY <1>3, AroundHas
  <2>2. \A q \in Replica : \A result \in fetched'[q] : result.ops \subseteq Around
    BY <1>3, AroundHas
  <2>3. QED
    BY <1>2, <2>1, <2>2, AroundHas, AroundNext
<1>5. AroundTyped' /\ OneMeaning'
  BY <1>4 DEF NamesInv, AroundTyped, OneMeaning
<1>6. OneHolder' /\ AllMinted'
  BY <1>2, <1>3, <1>4 DEF NamesInv, OneHolder, AllMinted
<1>7. NothingAhead'
  <2>1. ASSUME NEW q \in Replica, NEW op \in Around, op.site = siteID'[q]
        PROVE  /\ siteID'[q] = siteID[q]
               /\ localSeq'[q] = localSeq[q] /\ documentID'[q] = documentID[q]
    BY <1>2, <1>3, <2>1 DEF NamesInv, AllMinted
  <2>2. QED
    BY <1>4, <2>1 DEF NamesInv, NothingAhead
<1>8. QED
  BY <1>5, <1>6, <1>7 DEF NamesInv

LEMMA AnnounceNames ==
  ASSUME NamesInv, NEW r \in Replica, Announce(r)
  PROVE  NamesInv'
<1>1. UNCHANGED << siteID, localSeq, content, batches, documentID, base, durable, checkpoint,
                   fetched, minted >>
  BY DEF Announce, vars, document
<1>2. Around' \subseteq Around
  BY <1>1, AroundHas, AroundNext
<1>3. QED
  BY <1>1, <1>2, NothingMade

(* Numbering starts over, in an epoch nothing of the site is in yet.       *)
LEMMA RebaseNames ==
  ASSUME EpochInv, DocumentsInv, NamesInv, NEW r \in Replica, NEW stable, Rebase(r, stable)
  PROVE  NamesInv'
<1>1. TypeOK
  BY DEF DocumentsInv, IInv
<1>2. /\ content'[r] = {} /\ localSeq'[r] = 0
      /\ documentID'[r] = documentID[r] + 1
      /\ base'[r] = Folded(r)
      /\ \A q \in Replica \ {r} :
           /\ content'[q] = content[q] /\ localSeq'[q] = localSeq[q]
           /\ documentID'[q] = documentID[q] /\ base'[q] = base[q]
      /\ UNCHANGED << siteID, batches, durable, checkpoint, fetched, minted >>
  BY <1>1, RebaseEffect
<1>3. \A f \in Folded(r) : f.op \in Around
  BY AroundHas DEF Folded
<1>4. Around' \subseteq Around
  <2>1. \A q \in Replica : content'[q] \subseteq Around /\ \A f \in base'[q] : f.op \in Around
    BY <1>2, <1>3, AroundHas
  <2>2. QED
    BY <1>2, <2>1, AroundHas, AroundNext
<1>5. AroundTyped' /\ AllMinted' /\ OneMeaning' /\ OneHolder'
  BY <1>2, <1>4 DEF NamesInv, AroundTyped, AllMinted, OneMeaning, OneHolder
<1>6. NothingAhead'
  <2>1. ASSUME NEW q \in Replica, NEW op \in Around, op.site = siteID[q]
        PROVE  \/ op.payload < documentID'[q]
               \/ op.payload = documentID'[q] /\ op.seq <= localSeq'[q]
    <3>1. op.payload \in Nat /\ documentID[q] \in Nat
      BY DEF NamesInv, AroundTyped, EpochInv, Fields, Epoch
    <3>2. \/ op.payload < documentID[q]
          \/ op.payload = documentID[q] /\ op.seq <= localSeq[q]
      BY <2>1 DEF NamesInv, NothingAhead
    <3>3. QED
      BY <1>2, <3>1, <3>2
  <2>2. QED
    BY <1>2, <1>4, <2>1 DEF NothingAhead
<1>7. QED
  BY <1>5, <1>6 DEF NamesInv

LEMMA EpochInitNames == HomesDiffer /\ EpochInit => NamesInv
<1> SUFFICES ASSUME HomesDiffer, EpochInit PROVE NamesInv
  OBVIOUS
<1>1. Around = {}
  BY DEF EpochInit, Init, Around, OpsOf
<1>2. siteID = HomeSite /\ minted = {HomeSite[r] : r \in Replica}
  BY DEF EpochInit, Init
<1>3. OneHolder
  BY <1>2 DEF OneHolder, HomesDiffer
<1>4. AroundTyped /\ AllMinted /\ NothingAhead /\ OneMeaning
  BY <1>1, <1>2 DEF AroundTyped, AllMinted, NothingAhead, OneMeaning
<1>5. QED
  BY <1>3, <1>4 DEF NamesInv

LEMMA EpochNextNames ==
  EpochInv /\ DocumentsInv /\ NamesInv /\ [EpochNext]_<< vars, epochVars >> => NamesInv'
<1> SUFFICES ASSUME EpochInv, DocumentsInv, NamesInv, [EpochNext]_<< vars, epochVars >>
             PROVE  NamesInv'
  OBVIOUS
<1>1. CASE SessionStep
  BY <1>1, EditNames, PublishNames, ReceiveNames, AcknowledgeNames, PullFromNames DEF SessionStep
<1>2. CASE StoreStep
  BY <1>2, StoreAppendNames, FetchNames, MergeFetchedNames, CheckpointNames, RehydrateNames
     DEF StoreStep
<1>3. CASE CutStep
  BY <1>3, AnnounceNames, RebaseNames DEF CutStep
<1>4. CASE UNCHANGED << vars, epochVars >>
  <2>1. UNCHANGED << siteID, localSeq, content, batches, documentID, base, durable, checkpoint,
                     fetched, minted >>
    BY <1>4 DEF vars, document, epochVars
  <2>2. Around' \subseteq Around
    BY <2>1, AroundHas, AroundNext
  <2>3. QED
    BY <2>1, <2>2, NothingMade
<1>5. QED
  BY <1>1, <1>2, <1>3, <1>4 DEF EpochNext

LEMMA NamesInvAlways == HomesDiffer /\ EpochSpec => []NamesInv
BY EpochInitNames, EpochNextNames, EpochInvAlways, DocumentsInvAlways, PTL DEF EpochSpec

(* Whatever a session holds beyond gaps, and however it came by it, what   *)
(* MemStore.Since withholds for its vector clock it has: the clock shows   *)
(* no number of which the session does not hold the very operation the     *)
(* store has under that number.                                            *)
THEOREM ReadingBeyondTheClockIsEnough == HomesDiffer /\ EpochSpec => []SinceIsComplete
<1>1. EpochInv /\ DocumentsInv /\ NamesInv => SinceIsComplete
  <2> SUFFICES ASSUME EpochInv, DocumentsInv, NamesInv, NEW r \in Replica,
                      NEW op \in durable[documentID[r]], ~ (op.seq > Knowledge(r)[op.site])
               PROVE  op \in content[r]
    BY DEF SinceIsComplete, StoredBeyond
  <2>1. documentID[r] \in Epoch /\ op.payload = documentID[r]
    BY DEF EpochInv, Fields, StoredApart, AllOf
  <2>2. op \in Around /\ op.site \in Site /\ op.seq \in Nat /\ op.seq >= 1
    BY <2>1, AroundHas DEF NamesInv, AroundTyped, Op, Number
  <2>3. /\ Knowledge(r)[op.site] = frontier[r][op.site].frontier
        /\ frontier[r][op.site].frontier \in Nat
    BY <2>2, KnowledgeIsFrontier DEF DocumentsInv, IInv, TypeOK, Count
  <2>4. op.seq \in 1 .. frontier[r][op.site].frontier
    BY <2>2, <2>3
  <2>5. op.seq \in SeqsOf(content[r], op.site)
    BY <2>2, <2>4 DEF DocumentsInv, IInv, FrontierExact
  <2>6. PICK held \in content[r] : held.site = op.site /\ held.seq = op.seq
    BY <2>5 DEF SeqsOf
  <2>7. held \in Around /\ held.payload = op.payload
    BY <2>1, AroundHas DEF EpochInv, HeldApart, AllOf
  <2>8. held = op
    BY <2>2, <2>6, <2>7 DEF NamesInv, OneMeaning, SameRef
  <2>9. QED
    BY <2>8
<1>2. QED
  BY <1>1, EpochInvAlways, DocumentsInvAlways, NamesInvAlways, PTL

-----------------------------------------------------------------------------
(***************************************************************************)
(* The base of a new epoch.  Each epoch is left under one clock, and what  *)
(* a base has of an epoch is what that clock covers, no more and no less.  *)
(***************************************************************************)
OneCut == \A e \in Epoch : cut[e] \subseteq VectorClock /\ \A a \in cut[e], b \in cut[e] : a = b

FoldedSeqs(b, e, s) == {f.op.seq : f \in {g \in b : g.epoch = e /\ g.op.site = s}}

FoldedUpTo(b, d) ==
  /\ \A f \in b : /\ f = [epoch |-> f.epoch, op |-> f.op]
                  /\ f.epoch \in Epoch /\ f.epoch < d
                  /\ f.op.payload = f.epoch
  /\ \A e \in Epoch :
       e < d => /\ cut[e] # {}
                /\ \A stable \in cut[e], s \in Site : FoldedSeqs(b, e, s) = 1 .. stable[s]

BasesInv ==
  /\ OneCut
  /\ \A r \in Replica : FoldedUpTo(base[r], documentID[r])
  /\ \A e \in Epoch : \A saved \in checkpoint[e] : FoldedUpTo(saved.base, e)

(* A clock once announced is the clock of its epoch for good.              *)
LEMMA FoldedStays ==
  ASSUME NEW b, NEW d, FoldedUpTo(b, d),
         \A e \in Epoch : cut[e] # {} => cut'[e] = cut[e]
  PROVE  FoldedUpTo(b, d)'
BY DEF FoldedUpTo, FoldedSeqs

LEMMA BasesStay ==
  ASSUME BasesInv, UNCHANGED << documentID, base, cut, checkpoint >>
  PROVE  BasesInv'
<1>1. OneCut'
  BY DEF BasesInv, OneCut
<1>2. \A b, d : FoldedUpTo(b, d) => FoldedUpTo(b, d)'
  BY FoldedStays
<1>3. QED
  BY <1>1, <1>2 DEF BasesInv, FoldedUpTo, FoldedSeqs
LEMMA CheckpointBases ==
  ASSUME EpochInv, BasesInv, NEW r \in Replica, Checkpoint(r)
  PROVE  BasesInv'
<1> DEFINE saved == [base |-> base[r], snapshot |-> SnapshotOf(r, {})]
<1>1. /\ checkpoint' = [checkpoint EXCEPT ![documentID[r]] = {saved}]
      /\ UNCHANGED << documentID, base, cut >>
  BY DEF Checkpoint
<1>2. saved.base = base[r]
  OBVIOUS
<1> HIDE DEF saved
<1>3. \A e \in Epoch : checkpoint'[e] = IF e = documentID[r] THEN {saved} ELSE checkpoint[e]
  BY <1>1 DEF EpochInv, Fields, IsFunctionOn
<1>4. \A e \in Epoch : \A other \in checkpoint'[e] : FoldedUpTo(other.base, e)
  BY <1>2, <1>3 DEF BasesInv
<1>5. OneCut'
  BY <1>1 DEF BasesInv, OneCut
<1>6. \A b, d : FoldedUpTo(b, d) => FoldedUpTo(b, d)'
  BY <1>1, FoldedStays
<1>7. QED
  BY <1>1, <1>4, <1>5, <1>6 DEF BasesInv, FoldedUpTo, FoldedSeqs

LEMMA RehydrateBases ==
  ASSUME EpochInv, BasesInv, NEW r \in Replica, NEW e \in Epoch, NEW s \in Site,
         NEW saved \in checkpoint[e], Rehydrate(r, e, saved, s)
  PROVE  BasesInv'
<1>1. /\ documentID' = [documentID EXCEPT ![r] = e]
      /\ base' = [base EXCEPT ![r] = saved.base]
      /\ UNCHANGED << cut, checkpoint >>
  BY DEF Rehydrate
<1>2. /\ documentID'[r] = e /\ base'[r] = saved.base
      /\ \A q \in Replica \ {r} : documentID'[q] = documentID[q] /\ base'[q] = base[q]
  BY <1>1 DEF EpochInv, Fields, IsFunctionOn
<1>3. \A q \in Replica : FoldedUpTo(base'[q], documentID'[q])
  BY <1>2 DEF BasesInv
<1>4. OneCut'
  BY <1>1 DEF BasesInv, OneCut
<1>5. \A b, d : FoldedUpTo(b, d) => FoldedUpTo(b, d)'
  BY <1>1, FoldedStays
<1>6. QED
  BY <1>1, <1>3, <1>4, <1>5 DEF BasesInv, FoldedUpTo, FoldedSeqs

LEMMA AnnounceBases ==
  ASSUME EpochInv, DocumentsInv, BasesInv, NEW r \in Replica, Announce(r)
  PROVE  BasesInv'
<1>1. /\ cut[documentID[r]] = {}
      /\ cut' = [cut EXCEPT ![documentID[r]] = {Knowledge(r)}]
      /\ UNCHANGED << documentID, base, checkpoint >>
  BY DEF Announce
<1>2. Knowledge(r) \in VectorClock
  BY KnowledgeIsFrontier DEF DocumentsInv, IInv
<1>3. \A e \in Epoch :
        cut'[e] = IF e = documentID[r] THEN {Knowledge(r)} ELSE cut[e]
  BY <1>1 DEF EpochInv, Fields, IsFunctionOn
<1>4. OneCut'
  BY <1>2, <1>3 DEF BasesInv, OneCut
<1>5. \A e \in Epoch : cut[e] # {} => cut'[e] = cut[e]
  BY <1>1, <1>3
<1>6. \A b, d : FoldedUpTo(b, d) => FoldedUpTo(b, d)'
  BY <1>5, FoldedStays
<1>7. QED
  BY <1>1, <1>4, <1>6 DEF BasesInv, FoldedUpTo, FoldedSeqs

(* What Rebase verifies: the clock that was announced is exactly what the  *)
(* replica holds.                                                          *)
LEMMA SettledIsHeld ==
  ASSUME IInv, NEW r \in Replica, NEW stable \in VectorClock, Settled(r, stable), NEW s \in Site
  PROVE  SeqsOf(content[r], s) = 1 .. stable[s]
<1>1. /\ Knowledge(r)[s] = frontier[r][s].frontier
      /\ frontier[r][s].frontier \in Nat /\ stable[s] \in Nat
  BY KnowledgeIsFrontier DEF IInv, TypeOK, VectorClock, Count
<1>2. stable[s] <= Knowledge(r)[s] /\ Knowledge(r)[s] <= stable[s]
  BY DEF Settled, CoveredBy
<1>3. stable[s] = frontier[r][s].frontier
  BY <1>1, <1>2
<1>4. frontier[r][s].staged = {}
  BY DEF Settled
<1>5. QED
  BY <1>3, <1>4 DEF IInv, FrontierExact

LEMMA RebaseBases ==
  ASSUME EpochInv, DocumentsInv, BasesInv, NEW r \in Replica,
         NEW stable \in cut[documentID[r]], Rebase(r, stable)
  PROVE  BasesInv'
<1> DEFINE d == documentID[r]
<1>1. TypeOK
  BY DEF DocumentsInv, IInv
<1>2. /\ documentID'[r] = d + 1 /\ base'[r] = Folded(r)
      /\ \A q \in Replica \ {r} : documentID'[q] = documentID[q] /\ base'[q] = base[q]
      /\ UNCHANGED << cut, checkpoint >>
  BY <1>1, RebaseEffect
<1>3. d \in Epoch /\ \A e \in Epoch : e \in Nat
  BY DEF EpochInv, Fields, Epoch
<1>4. stable \in VectorClock /\ \A other \in cut[d] : other = stable
  BY <1>3 DEF BasesInv, OneCut
<1>5. \A s \in Site : SeqsOf(content[r], s) = 1 .. stable[s]
  BY <1>4, SettledIsHeld DEF DocumentsInv, Rebase
<1>6. Folded(r) = base[r] \cup {[epoch |-> d, op |-> op] : op \in content[r]}
  BY DEF Folded
<1>7. FoldedUpTo(base[r], d)
  BY DEF BasesInv
<1> HIDE DEF d
<1>8. ASSUME NEW f \in Folded(r)
      PROVE  /\ f = [epoch |-> f.epoch, op |-> f.op]
             /\ f.epoch \in Epoch /\ f.epoch < d + 1
             /\ f.op.payload = f.epoch
  <2>1. CASE f \in base[r]
    <3>1. /\ f = [epoch |-> f.epoch, op |-> f.op]
          /\ f.epoch \in Epoch /\ f.epoch < d
          /\ f.op.payload = f.epoch
      BY <1>7, <2>1 DEF FoldedUpTo
    <3>2. f.epoch < d + 1
      BY <1>3, <3>1
    <3>3. QED
      BY <3>1, <3>2
  <2>2. CASE \E op \in content[r] : f = [epoch |-> d, op |-> op]
    <3>1. \A op \in content[r] : op.payload = d
      BY DEF d, EpochInv, HeldApart, AllOf
    <3>2. d < d + 1
      BY <1>3
    <3>3. QED
      BY <1>3, <2>2, <3>1, <3>2
  <2>3. QED
    BY <1>6, <2>1, <2>2
<1>9. ASSUME NEW e \in Epoch, e < d + 1, NEW s \in Site
      PROVE  /\ cut[e] # {}
             /\ \A other \in cut[e] : FoldedSeqs(Folded(r), e, s) = 1 .. other[s]
  <2>1. CASE e = d
    <3>1. FoldedSeqs(Folded(r), d, s) = SeqsOf(content[r], s)
      <4>1. \A f \in base[r] : f.epoch # d
        BY <1>3, <1>7 DEF FoldedUpTo
      <4>2. ASSUME NEW n
            PROVE  n \in FoldedSeqs(Folded(r), d, s) <=> n \in SeqsOf(content[r], s)
        <5>1. ASSUME n \in FoldedSeqs(Folded(r), d, s)
              PROVE  n \in SeqsOf(content[r], s)
          <6>1. PICK f \in Folded(r) : f.epoch = d /\ f.op.site = s /\ f.op.seq = n
            BY <5>1 DEF FoldedSeqs
          <6>2. PICK op \in content[r] : f = [epoch |-> d, op |-> op]
            BY <1>6, <4>1, <6>1
          <6>3. op.site = s /\ op.seq = n
            BY <6>1, <6>2
          <6>4. QED
            BY <6>3 DEF SeqsOf
        <5>2. ASSUME n \in SeqsOf(content[r], s)
              PROVE  n \in FoldedSeqs(Folded(r), d, s)
          <6>1. PICK op \in content[r] : op.site = s /\ op.seq = n
            BY <5>2 DEF SeqsOf
          <6> DEFINE f == [epoch |-> d, op |-> op]
          <6>2. f \in Folded(r) /\ f.epoch = d /\ f.op = op
            BY <1>6
          <6> HIDE DEF f
          <6>3. QED
            BY <6>1, <6>2 DEF FoldedSeqs
        <5>3. QED
          BY <5>1, <5>2
      <4>3. QED
        BY <4>2
    <3>2. QED
      BY <1>4, <1>5, <2>1, <3>1 DEF d
  <2>2. CASE e # d
    <3>1. e < d
      BY <1>3, <1>9, <2>2
    <3>2. FoldedSeqs(Folded(r), e, s) = FoldedSeqs(base[r], e, s)
      <4>1. {g \in Folded(r) : g.epoch = e /\ g.op.site = s}
              = {g \in base[r] : g.epoch = e /\ g.op.site = s}
        BY <1>6, <2>2
      <4>2. QED
        BY <4>1 DEF FoldedSeqs
    <3>3. QED
      BY <1>7, <3>1, <3>2 DEF FoldedUpTo
  <2>3. QED
    BY <2>1, <2>2
<1>10. Site # {} => FoldedUpTo(Folded(r), d + 1)
  BY <1>8, <1>9 DEF FoldedUpTo
<1>11. FoldedUpTo(base'[r], documentID'[r])
  <2>1. Site # {}
    BY <1>1 DEF TypeOK
  <2>2. QED
    BY <1>2, <1>10, <2>1
<1>12. \A q \in Replica : FoldedUpTo(base'[q], documentID'[q])
  BY <1>2, <1>11 DEF BasesInv
<1>13. OneCut'
  BY <1>2 DEF BasesInv, OneCut
<1>14. \A b, k : FoldedUpTo(b, k) => FoldedUpTo(b, k)'
  BY <1>2, FoldedStays
<1>15. QED
  BY <1>2, <1>12, <1>13, <1>14 DEF BasesInv, FoldedUpTo, FoldedSeqs

LEMMA EpochInitBases == EpochInit => BasesInv
<1> SUFFICES ASSUME EpochInit PROVE BasesInv
  OBVIOUS
<1>1. /\ documentID = [r \in Replica |-> 0] /\ base = [r \in Replica |-> {}]
      /\ cut = [e \in Epoch |-> {}] /\ checkpoint = [e \in Epoch |-> {}]
  BY DEF EpochInit
<1>2. \A e \in Epoch : ~ (e < 0)
  BY DEF Epoch
<1>3. FoldedUpTo({}, 0)
  BY <1>2 DEF FoldedUpTo
<1>4. QED
  BY <1>1, <1>3 DEF BasesInv, OneCut

LEMMA EpochNextBases ==
  EpochInv /\ DocumentsInv /\ BasesInv /\ [EpochNext]_<< vars, epochVars >> => BasesInv'
<1> SUFFICES ASSUME EpochInv, DocumentsInv, BasesInv, [EpochNext]_<< vars, epochVars >>
             PROVE  BasesInv'
  OBVIOUS
<1>1. CASE SessionStep
  <2>1. UNCHANGED << documentID, base, cut, checkpoint >>
    BY <1>1 DEF SessionStep, Edit, Publish, Receive, Acknowledge, PullFrom, epochVars
  <2>2. QED
    BY <2>1, BasesStay
<1>2. CASE StoreStep
  <2>1. ASSUME NEW batch, StoreAppend(EpochOf(batch), batch.ops)
        PROVE  BasesInv'
    BY <2>1, BasesStay DEF StoreAppend
  <2>2. ASSUME NEW r, Fetch(r)
        PROVE  BasesInv'
    BY <2>2, BasesStay DEF Fetch
  <2>3. ASSUME NEW r, NEW result, MergeFetched(r, result)
        PROVE  BasesInv'
    BY <2>3, BasesStay DEF MergeFetched
  <2>4. QED
    BY <1>2, <2>1, <2>2, <2>3, CheckpointBases, RehydrateBases DEF StoreStep
<1>3. CASE CutStep
  BY <1>3, AnnounceBases, RebaseBases DEF CutStep
<1>4. CASE UNCHANGED << vars, epochVars >>
  BY <1>4, BasesStay DEF epochVars
<1>5. QED
  BY <1>1, <1>2, <1>3, <1>4 DEF EpochNext

LEMMA BasesInvAlways == EpochSpec => []BasesInv
BY EpochInitBases, EpochNextBases, EpochInvAlways, DocumentsInvAlways, PTL DEF EpochSpec

(* What one base holds another of the same document ID holds.              *)
LEMMA SameCutSameOperations ==
  ASSUME NamesInv, NEW b, NEW c, NEW d,
         FoldedUpTo(b, d), FoldedUpTo(c, d),
         \A f \in b \cup c : f.op \in Around
  PROVE  b \subseteq c
<1> SUFFICES ASSUME NEW f \in b PROVE f \in c
  OBVIOUS
<1>1. /\ f = [epoch |-> f.epoch, op |-> f.op]
      /\ f.epoch \in Epoch /\ f.epoch < d
      /\ f.op.payload = f.epoch
  BY DEF FoldedUpTo
<1>2. f.op \in Around /\ f.op.site \in Site
  BY DEF NamesInv, AroundTyped, Op
<1>3. PICK stable \in cut[f.epoch] :
        FoldedSeqs(b, f.epoch, f.op.site) = FoldedSeqs(c, f.epoch, f.op.site)
  BY <1>1, <1>2 DEF FoldedUpTo
<1>4. f.op.seq \in FoldedSeqs(c, f.epoch, f.op.site)
  BY <1>3 DEF FoldedSeqs
<1>5. PICK g \in c : g.epoch = f.epoch /\ g.op.site = f.op.site /\ g.op.seq = f.op.seq
  BY <1>4 DEF FoldedSeqs
<1>6. g = [epoch |-> g.epoch, op |-> g.op] /\ g.op.payload = g.epoch /\ g.op \in Around
  BY <1>5 DEF FoldedUpTo
<1>7. g.op = f.op
  BY <1>1, <1>2, <1>5, <1>6 DEF NamesInv, OneMeaning, SameRef
<1>8. QED
  BY <1>1, <1>5, <1>6, <1>7

(* Replicas that enter an epoch under one clock, each after deliveries of  *)
(* its own, at different times, or from a checkpoint, stand on the same    *)
(* base: the document ID alone names the history that was folded.          *)
THEOREM OneBaseForEachDocumentID == HomesDiffer /\ EpochSpec => []OneBasePerEpoch
<1>1. NamesInv /\ BasesInv => OneBasePerEpoch
  <2> SUFFICES ASSUME NamesInv, BasesInv, NEW r \in Replica, NEW q \in Replica,
                      documentID[r] = documentID[q]
               PROVE  base[r] = base[q]
    BY DEF OneBasePerEpoch
  <2>1. FoldedUpTo(base[r], documentID[r]) /\ FoldedUpTo(base[q], documentID[r])
    BY DEF BasesInv
  <2>2. \A f \in base[r] \cup base[q] : f.op \in Around
    BY AroundHas
  <2>3. base[r] \subseteq base[q] /\ base[q] \subseteq base[r]
    BY <2>1, <2>2, SameCutSameOperations
  <2>4. QED
    BY <2>3
<1>2. QED
  BY <1>1, NamesInvAlways, BasesInvAlways, PTL

-----------------------------------------------------------------------------
(***************************************************************************)
(* The store.  Acknowledging a batch is safe because of what the batch     *)
(* carries: with what is stored of its epoch already it reaches down to    *)
(* the first operation of the site.  A watermark acknowledged after a cut  *)
(* would speak of numbers of another epoch, so callers must not do that.   *)
(***************************************************************************)
BatchesFollow ==
  \A batch \in batches :
    /\ EpochOf(batch) \in Epoch
    /\ \A op \in batch.ops : op.site = batch.site /\ op.seq <= batch.watermark
    /\ 1 .. batch.watermark \subseteq
         SeqsOf(batch.ops, batch.site) \cup SeqsOf(durable[EpochOf(batch)], batch.site)

(* A process cannot resume under the site ID of a checkpoint.              *)
SitesSpent ==
  /\ \A r \in Replica : siteID[r] \in minted
  /\ \A e \in Epoch : \A saved \in checkpoint[e] : saved.snapshot.site \in minted

StoreInv == AcknowledgedIsStored /\ StoreHasNoGap /\ BatchesFollow /\ SitesSpent

LEMMA SeqsGrow ==
  ASSUME NEW a, NEW b, a \subseteq b, NEW s
  PROVE  SeqsOf(a, s) \subseteq SeqsOf(b, s)
BY DEF SeqsOf

(* A step that stores nothing and neither hands out nor acknowledges.      *)
LEMMA StoreStays ==
  ASSUME StoreInv, UNCHANGED << durable, batches, siteID, documentID, syncedThrough,
                                checkpoint, minted >>
  PROVE  StoreInv'
BY DEF StoreInv, AcknowledgedIsStored, StoreHasNoGap, BatchesFollow, SitesSpent, SeqsOf, EpochOf

LEMMA WatermarkCovers ==
  ASSUME TypeOK, NEW r \in Replica, NEW op \in Outbox(r)
  PROVE  op.seq <= Watermark(r)
<1> DEFINE S == {syncedThrough[r]} \cup {o.seq : o \in Outbox(r)}
<1>1. /\ syncedThrough[r] \in Count
      /\ \A o \in Outbox(r) : o.seq \in Count
  BY MaxTimestampAssumption DEF TypeOK, Outbox, Op, Number, Count
<1>2. S \in SUBSET Count /\ S # {}
  BY <1>1
<1>3. Max(S) \in S /\ \A n \in S : Max(S) >= n
  BY <1>2, MaxOfCounts
<1>4. op.seq \in S
  OBVIOUS
<1>5. Watermark(r) = Max(S)
  BY DEF Watermark
<1>6. op.seq \in Nat /\ Max(S) \in Nat
  BY <1>1, <1>2, <1>3 DEF Count
<1> HIDE DEF S
<1>7. QED
  BY <1>3, <1>4, <1>5, <1>6

(* What is handed out starts where the acknowledged operations end.        *)
LEMMA PublishStore ==
  ASSUME EpochInv, DocumentsInv, StoreInv, NEW r \in Replica, Publish(r)
  PROVE  StoreInv'
<1>1. /\ batches' = batches \cup Batch(r)
      /\ UNCHANGED << durable, siteID, documentID, syncedThrough, checkpoint, minted >>
  BY DEF Publish, PendingOps, epochVars
<1>2. AcknowledgedIsStored' /\ StoreHasNoGap' /\ SitesSpent'
  BY <1>1 DEF StoreInv, AcknowledgedIsStored, StoreHasNoGap, SitesSpent, SeqsOf
<1>3. ASSUME NEW batch \in Batch(r)
      PROVE  /\ EpochOf(batch) \in Epoch
             /\ \A op \in batch.ops : op.site = batch.site /\ op.seq <= batch.watermark
             /\ 1 .. batch.watermark \subseteq
                  SeqsOf(batch.ops, batch.site) \cup SeqsOf(durable[EpochOf(batch)], batch.site)
  <2>1. TypeOK /\ LogComplete
    BY DEF DocumentsInv, IInv
  <2>2. /\ batch.site = siteID[r] /\ batch.ops = Outbox(r) /\ Outbox(r) # {}
        /\ batch.watermark = Watermark(r)
    BY DEF Batch
  <2>3. EpochOf(batch) = documentID[r]
    <3>1. \A op \in batch.ops : op.payload = documentID[r]
      BY <2>2 DEF EpochInv, HeldApart, AllOf, Outbox
    <3>2. QED
      BY <2>2, <3>1 DEF EpochOf
  <2>4. /\ Watermark(r) \in Nat /\ Watermark(r) <= localSeq[r]
        /\ syncedThrough[r] \in Nat /\ localSeq[r] \in Nat
    BY <2>1, WatermarkIsIssued DEF DocumentsInv, TypeOK, Count
  <2>5. {op.seq : op \in Outbox(r)} = (syncedThrough[r] + 1) .. localSeq[r]
    BY <2>1, OutboxIsExact DEF DocumentsInv, LocalInv
  <2>6. SeqsOf(Outbox(r), siteID[r]) = {op.seq : op \in Outbox(r)}
    BY DEF SeqsOf, Outbox
  <2>7. ASSUME NEW n \in 1 .. Watermark(r)
        PROVE  n \in SeqsOf(Outbox(r), siteID[r]) \cup SeqsOf(durable[documentID[r]], siteID[r])
    <3>1. CASE n <= syncedThrough[r]
      <4>1. n \in 1 .. syncedThrough[r]
        BY <2>4, <3>1
      <4>2. QED
        BY <4>1 DEF StoreInv, AcknowledgedIsStored
    <3>2. CASE ~ (n <= syncedThrough[r])
      <4>1. n \in (syncedThrough[r] + 1) .. localSeq[r]
        BY <2>4, <3>2
      <4>2. QED
        BY <2>5, <2>6, <4>1
    <3>3. QED
      BY <3>1, <3>2
  <2>8. \A op \in batch.ops : op.site = batch.site /\ op.seq <= batch.watermark
    BY <2>1, <2>2, WatermarkCovers DEF Outbox
  <2>9. documentID[r] \in Epoch
    BY DEF EpochInv, Fields
  <2>10. QED
    BY <2>2, <2>3, <2>7, <2>8, <2>9
<1>4. BatchesFollow'
  BY <1>1, <1>3 DEF StoreInv, BatchesFollow, SeqsOf, EpochOf
<1>5. QED
  BY <1>2, <1>4 DEF StoreInv

(* Stored of this epoch, with everything before it.                        *)
LEMMA AcknowledgeStore ==
  ASSUME EpochInv, DocumentsInv, StoreInv, ~ LateAcks,
         NEW r \in Replica, NEW batch \in batches, Acknowledge(r, batch)
  PROVE  StoreInv'
<1> DEFINE e == documentID[r]
<1>1. /\ batch.ops \subseteq durable[e]
      /\ EpochOf(batch) = e
      /\ batch.site = siteID[r]
      /\ syncedThrough' = [syncedThrough EXCEPT ![r] = batch.watermark]
      /\ UNCHANGED << durable, batches, siteID, documentID, checkpoint, minted >>
  BY DEF Acknowledge, MarkSynced, epochVars
<1> HIDE DEF e
<1>2. SeqsOf(batch.ops, batch.site) \subseteq SeqsOf(durable[e], batch.site)
  BY <1>1, SeqsGrow
<1>3. 1 .. batch.watermark \subseteq SeqsOf(durable[e], siteID[r])
  BY <1>1, <1>2 DEF StoreInv, BatchesFollow
<1>4. ASSUME NEW q \in Replica
      PROVE  1 .. syncedThrough'[q] \subseteq SeqsOf(durable[documentID[q]], siteID[q])
  <2>1. /\ syncedThrough'[r] = batch.watermark
        /\ q # r => syncedThrough'[q] = syncedThrough[q]
    BY <1>1 DEF DocumentsInv, IInv, TypeOK
  <2>2. QED
    BY <1>3, <2>1 DEF StoreInv, AcknowledgedIsStored, e
<1>5. AcknowledgedIsStored'
  BY <1>1, <1>4 DEF AcknowledgedIsStored, SeqsOf
<1>6. StoreHasNoGap' /\ BatchesFollow' /\ SitesSpent'
  BY <1>1 DEF StoreInv, StoreHasNoGap, BatchesFollow, SitesSpent, SeqsOf, EpochOf
<1>7. QED
  BY <1>5, <1>6 DEF StoreInv

LEMMA StoreAppendStore ==
  ASSUME EpochInv, DocumentsInv, StoreInv, NEW batch \in batches,
         StoreAppend(EpochOf(batch), batch.ops)
  PROVE  StoreInv'
<1> DEFINE e == EpochOf(batch)
<1>1. /\ durable' = [durable EXCEPT ![e] = durable[e] \cup batch.ops]
      /\ UNCHANGED << batches, siteID, documentID, syncedThrough, checkpoint, minted >>
  BY DEF StoreAppend, vars, document
<1>2. /\ batch.ops # {} /\ batch.site \in Site /\ batch.watermark \in Nat
      /\ \A op \in batch.ops : op.seq \in Nat /\ op.site = batch.site /\ op.seq <= batch.watermark
  BY DEF EpochInv, BatchesApart, DocumentsInv, IInv, TypeOK, Count, Op, Number,
         StoreInv, BatchesFollow
<1>3. 1 .. batch.watermark \subseteq
        SeqsOf(batch.ops, batch.site) \cup SeqsOf(durable[e], batch.site)
  BY DEF StoreInv, BatchesFollow
<1> HIDE DEF e
<1>4. \A d \in Epoch : durable'[d] = IF d = e THEN durable[e] \cup batch.ops ELSE durable[d]
  BY <1>1 DEF EpochInv, Fields, IsFunctionOn
<1>5. \A d \in Epoch : \A s : SeqsOf(durable[d], s) \subseteq SeqsOf(durable'[d], s)
  <2>1. \A d \in Epoch : durable[d] \subseteq durable'[d]
    BY <1>4
  <2>2. QED
    BY <2>1, SeqsGrow
<1>6. AcknowledgedIsStored'
  <2>1. \A q \in Replica : documentID[q] \in Epoch
    BY DEF EpochInv, Fields
  <2>2. \A q \in Replica : 1 .. syncedThrough[q] \subseteq SeqsOf(durable'[documentID[q]], siteID[q])
    BY <1>5, <2>1 DEF StoreInv, AcknowledgedIsStored
  <2>3. QED
    BY <1>1, <2>2 DEF AcknowledgedIsStored, SeqsOf
<1>7. StoreHasNoGap'
  <2>1. ASSUME NEW d \in Epoch, NEW op \in durable'[d]
        PROVE  1 .. op.seq \subseteq SeqsOf(durable'[d], op.site)
    <3>1. CASE op \in durable[d]
      BY <1>5, <3>1 DEF StoreInv, StoreHasNoGap
    <3>2. CASE d = e /\ op \in batch.ops
      <4>1. 1 .. op.seq \subseteq 1 .. batch.watermark
        BY <1>2, <3>2
      <4>2. SeqsOf(batch.ops, batch.site) \subseteq SeqsOf(durable'[d], batch.site)
        BY <1>4, <3>2, SeqsGrow
      <4>3. QED
        BY <1>2, <1>3, <1>5, <3>2, <4>1, <4>2
    <3>3. QED
      BY <1>4, <2>1, <3>1, <3>2
  <2>2. QED
    BY <2>1 DEF StoreHasNoGap, SeqsOf
<1>8. BatchesFollow'
  <2>1. ASSUME NEW other \in batches
        PROVE  1 .. other.watermark \subseteq
                 SeqsOf(other.ops, other.site) \cup SeqsOf(durable'[EpochOf(other)], other.site)
    BY <1>5 DEF StoreInv, BatchesFollow
  <2>2. QED
    BY <1>1, <2>1 DEF StoreInv, BatchesFollow, SeqsOf, EpochOf
<1>9. SitesSpent'
  BY <1>1 DEF StoreInv, SitesSpent
<1>10. QED
  BY <1>6, <1>7, <1>8, <1>9 DEF StoreInv

LEMMA CheckpointStore ==
  ASSUME EpochInv, StoreInv, NEW r \in Replica, Checkpoint(r)
  PROVE  StoreInv'
<1> DEFINE saved == [base |-> base[r], snapshot |-> SnapshotOf(r, {})]
<1>1. /\ checkpoint' = [checkpoint EXCEPT ![documentID[r]] = {saved}]
      /\ UNCHANGED << durable, batches, siteID, documentID, syncedThrough, minted >>
  BY DEF Checkpoint, vars, document
<1>2. saved.snapshot.site = siteID[r]
  BY DEF SnapshotOf
<1> HIDE DEF saved
<1>3. \A e \in Epoch : checkpoint'[e] \subseteq checkpoint[e] \cup {saved}
  BY <1>1 DEF EpochInv, Fields, IsFunctionOn
<1>4. SitesSpent'
  BY <1>1, <1>2, <1>3 DEF StoreInv, SitesSpent
<1>5. AcknowledgedIsStored' /\ StoreHasNoGap' /\ BatchesFollow'
  BY <1>1 DEF StoreInv, AcknowledgedIsStored, StoreHasNoGap, BatchesFollow, SeqsOf, EpochOf
<1>6. QED
  BY <1>4, <1>5 DEF StoreInv

(* Under a site ID of its own a rehydrated process has nothing to ack.     *)
LEMMA RehydrateStore ==
  ASSUME EpochInv, DocumentsInv, StoreInv, NEW r \in Replica, NEW e \in Epoch, NEW s \in Site,
         NEW saved \in checkpoint[e], Rehydrate(r, e, saved, s)
  PROVE  StoreInv'
<1>1. /\ s \notin minted
      /\ siteID' = [siteID EXCEPT ![r] = s]
      /\ documentID' = [documentID EXCEPT ![r] = e]
      /\ syncedThrough' = [syncedThrough EXCEPT ![r] =
                              IF s = saved.snapshot.site THEN saved.snapshot.syncedThrough ELSE 0]
      /\ minted' = minted \cup {s}
      /\ UNCHANGED << durable, batches, checkpoint >>
  BY DEF Rehydrate, Restore, Fresh
<1>2. s # saved.snapshot.site
  BY <1>1 DEF StoreInv, SitesSpent
<1>3. /\ siteID'[r] = s /\ syncedThrough'[r] = 0
      /\ \A q \in Replica \ {r} :
           /\ siteID'[q] = siteID[q] /\ documentID'[q] = documentID[q]
           /\ syncedThrough'[q] = syncedThrough[q]
  BY <1>1, <1>2 DEF EpochInv, Fields, DocumentsInv, IInv, TypeOK
<1>4. \A q \in Replica : 1 .. syncedThrough'[q] \subseteq SeqsOf(durable[documentID'[q]], siteID'[q])
  <2>1. 1 .. 0 = {}
    OBVIOUS
  <2>2. QED
    BY <1>3, <2>1 DEF StoreInv, AcknowledgedIsStored
<1>5. AcknowledgedIsStored'
  BY <1>1, <1>4 DEF AcknowledgedIsStored, SeqsOf
<1>6. StoreHasNoGap' /\ BatchesFollow' /\ SitesSpent'
  BY <1>1, <1>3 DEF StoreInv, StoreHasNoGap, BatchesFollow, SitesSpent, SeqsOf, EpochOf
<1>7. QED
  BY <1>5, <1>6 DEF StoreInv

LEMMA RebaseStore ==
  ASSUME EpochInv, DocumentsInv, StoreInv, NEW r \in Replica, NEW stable, Rebase(r, stable)
  PROVE  StoreInv'
<1>1. /\ syncedThrough'[r] = 0
      /\ \A q \in Replica \ {r} :
           documentID'[q] = documentID[q] /\ syncedThrough'[q] = syncedThrough[q]
      /\ UNCHANGED << siteID, batches, durable, checkpoint, minted >>
  BY RebaseEffect DEF DocumentsInv, IInv
<1>2. \A q \in Replica : 1 .. syncedThrough'[q] \subseteq SeqsOf(durable[documentID'[q]], siteID[q])
  <2>1. 1 .. 0 = {}
    OBVIOUS
  <2>2. QED
    BY <1>1, <2>1 DEF StoreInv, AcknowledgedIsStored
<1>3. AcknowledgedIsStored'
  BY <1>1, <1>2 DEF AcknowledgedIsStored, SeqsOf
<1>4. StoreHasNoGap' /\ BatchesFollow' /\ SitesSpent'
  BY <1>1 DEF StoreInv, StoreHasNoGap, BatchesFollow, SitesSpent, SeqsOf, EpochOf
<1>5. QED
  BY <1>3, <1>4 DEF StoreInv

LEMMA EpochInitStore == EpochInit => StoreInv
<1> SUFFICES ASSUME EpochInit PROVE StoreInv
  OBVIOUS
<1>1. 1 .. 0 = {}
  OBVIOUS
<1>2. AcknowledgedIsStored
  BY <1>1 DEF EpochInit, Init, AcknowledgedIsStored
<1>3. StoreHasNoGap /\ BatchesFollow /\ SitesSpent
  BY DEF EpochInit, Init, StoreHasNoGap, BatchesFollow, SitesSpent
<1>4. QED
  BY <1>2, <1>3 DEF StoreInv

LEMMA EpochNextStore ==
  EpochInv /\ DocumentsInv /\ ~ LateAcks /\ StoreInv /\ [EpochNext]_<< vars, epochVars >>
    => StoreInv'
<1> SUFFICES ASSUME EpochInv, DocumentsInv, ~ LateAcks, StoreInv,
                    [EpochNext]_<< vars, epochVars >>
             PROVE  StoreInv'
  OBVIOUS
<1> DEFINE Nothing == UNCHANGED << durable, batches, siteID, documentID, syncedThrough,
                                   checkpoint, minted >>
<1>1. ASSUME NEW r \in Replica, Edit(r) PROVE Nothing
  BY <1>1 DEF Edit, Apply, epochVars
<1>2. ASSUME NEW r \in Replica, NEW batch, MergeOps(r, batch)
      PROVE  UNCHANGED << batches, siteID, syncedThrough >>
  BY <1>2 DEF MergeOps
<1>3. ASSUME NEW r \in Replica, NEW batch \in batches, Receive(r, batch) PROVE Nothing
  BY <1>2, <1>3 DEF Receive, epochVars
<1>4. ASSUME NEW r \in Replica, NEW q \in Replica, PullFrom(r, q) PROVE Nothing
  BY <1>4 DEF PullFrom, Pull, MergeDocument, epochVars
<1>5. ASSUME NEW r \in Replica, NEW result \in fetched[r], MergeFetched(r, result) PROVE Nothing
  BY <1>2, <1>5 DEF MergeFetched
<1>6. ASSUME NEW r \in Replica, Fetch(r) \/ Announce(r) PROVE Nothing
  BY <1>6 DEF Fetch, Announce, vars, document
<1>7. UNCHANGED << vars, epochVars >> => Nothing
  BY DEF vars, document, epochVars
<1>8. Nothing => StoreInv'
  BY StoreStays
<1> HIDE DEF Nothing
<1>9. CASE SessionStep
  BY <1>1, <1>3, <1>4, <1>8, <1>9, PublishStore, AcknowledgeStore DEF SessionStep
<1>10. CASE StoreStep
  BY <1>5, <1>6, <1>8, <1>10, StoreAppendStore, CheckpointStore, RehydrateStore DEF StoreStep
<1>11. CASE CutStep
  BY <1>6, <1>8, <1>11, RebaseStore DEF CutStep
<1>12. QED
  BY <1>7, <1>8, <1>9, <1>10, <1>11 DEF EpochNext

LEMMA StoreInvAlways == ~ LateAcks /\ EpochSpec => []StoreInv
<1> SUFFICES ASSUME ~ LateAcks PROVE EpochSpec => []StoreInv
  OBVIOUS
<1>1. EpochInv /\ DocumentsInv /\ StoreInv /\ [EpochNext]_<< vars, epochVars >> => StoreInv'
  BY EpochNextStore
<1>2. QED
  BY <1>1, EpochInitStore, EpochInvAlways, DocumentsInvAlways, PTL DEF EpochSpec

(* MarkSynced lets a replica forget to publish: whatever it covers is in   *)
(* the store of the document ID the replica works under, whatever happened *)
(* in between, a cut or a restart included, if callers acknowledge before  *)
(* they cut.                                                               *)
THEOREM AcknowledgedOperationsAreStored == ~ LateAcks /\ EpochSpec => []AcknowledgedIsStored
<1>1. StoreInv => AcknowledgedIsStored
  BY DEF StoreInv
<1>2. QED
  BY <1>1, StoreInvAlways, PTL

(* AppendOps checks nothing of what comes before an operation, and still,  *)
(* in whatever order the batches of PendingOps reach it, the store has no  *)
(* gap: a reader that starts from nothing can apply all of it.             *)
THEOREM TheStoreHasNoGap == ~ LateAcks /\ EpochSpec => []StoreHasNoGap
<1>1. StoreInv => StoreHasNoGap
  BY DEF StoreInv
<1>2. QED
  BY <1>1, StoreInvAlways, PTL
===============================================================================
