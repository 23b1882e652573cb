----------------------------- MODULE DocumentSync -----------------------------
(***************************************************************************)
(* Replicas of one Document and the three ways they exchange operations    *)
(* (document.go, sync.go): vector-clock deltas, the PendingOps/MarkSynced  *)
(* outbox, and snapshots restored after a crash.                           *)
(*                                                                         *)
(* What an operation does to features is left to other modules: a replica  *)
(* here holds the SET of operations that entered its features, its         *)
(* "content", because the feature state is a function of that set.         *)
(* Deltas, batches and captured documents wait in sets from which they are *)
(* merged any number of times, in any order, or never.                     *)
(***************************************************************************)
EXTENDS SiteClocks

CONSTANTS
  Replica,        \* the processes that hold a Document
  HomeSite,       \* the site ID each process starts with
  Payload,        \* what an operation can carry
  EditPayload,    \* the payloads that may have to wait for a dependency
  IdentityReuse,  \* may a site ID be resumed from a stale snapshot?
  MaxInFlight,    \* bound on deltas and captured documents in flight
  MaxBatches,     \* bound on outbox batches handed out
  MaxRestores     \* bound on restarts from a snapshot

ASSUME ReplicaAssumption ==
  /\ HomeSite \in [Replica -> Site]
  /\ EditPayload \subseteq Payload
  /\ IdentityReuse \in BOOLEAN

VARIABLES
  siteID,         \* Document.siteID
  clock,          \* Document.clock, the Lamport timestamp
  localSeq,       \* Document.localSeq
  log,            \* Document.ops and Document.seen
  content,        \* the operations folded into Document.features
  frontier,       \* Document.frontier
  compacted,      \* Document.compacted
  syncedThrough,  \* Document.syncedThrough
  issuedThrough,  \* Document.issuedThrough
  store,          \* the snapshot each process saved last
  inFlight,       \* deltas sent and documents captured by Merge
  batches,        \* results of PendingOps, with their watermarks
  restores        \* number of restarts so far

document == << siteID, clock, localSeq, log, content, frontier, compacted,
               syncedThrough, issuedThrough >>
vars == << document, store, inFlight, batches, restores >>

Op == [site : Site, seq : Number, ts : Number, payload : Payload]

SameRef(a, b) == a.site = b.site /\ a.seq = b.seq

SeqsOf(ops, s) == { op.seq : op \in { o \in ops : o.site = s } }

(* Two operations with one identity and different payloads: an identity    *)
(* collision.                                                              *)
Collide(A, B) == \E a \in A, b \in B : SameRef(a, b) /\ a # b

\* Mutant of Knowledge: the highest number seen, gaps or not.
KnowledgeOfHighest(r) ==
  [s \in Site |-> Max({compacted[r][s]} \cup SeqsOf(log[r], s))]

Knowledge(r) ==
  MergeClocks(compacted[r], [s \in Site |-> frontier[r][s].frontier])

-----------------------------------------------------------------------------
Init ==
  /\ siteID = HomeSite
  /\ clock = [r \in Replica |-> 0]
  /\ localSeq = [r \in Replica |-> 0]
  /\ log = [r \in Replica |-> {}]
  /\ content = [r \in Replica |-> {}]
  /\ frontier = [r \in Replica |-> [s \in Site |-> [frontier |-> 0, staged |-> {}]]]
  /\ compacted = [r \in Replica |-> NoKnowledge]
  /\ syncedThrough = [r \in Replica |-> 0]
  /\ issuedThrough = [r \in Replica |-> 0]
  /\ store = [r \in Replica |-> {}]
  /\ inFlight = {}
  /\ batches = {}
  /\ restores = 0

(* recordOp for every operation of a set, after it entered the features.   *)
Record(r, ops) ==
  /\ log' = [log EXCEPT ![r] = @ \cup ops]
  /\ content' = [content EXCEPT ![r] = @ \cup ops]
  /\ frontier' = [frontier EXCEPT ![r] =
                    [s \in Site |-> ObserveAll(@[s], SeqsOf(ops, s))]]

-----------------------------------------------------------------------------
\* Mutant of Exhausted: off by one.
ExhaustedLate(r) == clock[r] + 1 > MaxTimestamp \/ localSeq[r] + 1 > MaxTimestamp

(* The clock or the sequence number would reach the exclusive bound.       *)
Exhausted(r) == clock[r] + 1 >= MaxTimestamp \/ localSeq[r] + 1 >= MaxTimestamp

(* A local command.                                                        *)
Apply(r, p) ==
  LET op == [site |-> siteID[r], seq |-> localSeq[r] + 1,
             ts |-> clock[r] + 1, payload |-> p]
  IN  /\ ~ Exhausted(r)
      /\ Record(r, {op})
      /\ clock' = [clock EXCEPT ![r] = @ + 1]
      /\ localSeq' = [localSeq EXCEPT ![r] = @ + 1]
      /\ UNCHANGED << siteID, compacted, syncedThrough, issuedThrough,
                      store, inFlight, batches, restores >>

-----------------------------------------------------------------------------
(***************************************************************************)
(* Merging.  Acceptable: the checks mergeOpsLocked makes on the whole      *)
(* batch before it touches state.  Unseen: what is left once duplicates    *)
(* and compacted operations are dropped.                                   *)
(***************************************************************************)
\* Mutant of Acceptable: own operations are welcome from anywhere.
AcceptableFromAnyone(r, ops) == ~ Collide(ops, log[r]) /\ ~ Collide(ops, ops)

Acceptable(r, ops) ==
  /\ \A op \in ops : op.site = siteID[r] => op.seq <= localSeq[r]
  /\ ~ Collide(ops, log[r])
  /\ ~ Collide(ops, ops)

\* Mutant of Unseen: nothing at or below the highest number seen is news.
UnseenAboveHighest(r, ops) ==
  { op \in ops : \A known \in log[r] : known.site = op.site => op.seq > known.seq }

Unseen(r, ops) ==
  { op \in ops : /\ op.seq > compacted[r][op.site]
                 /\ \A known \in log[r] : ~ SameRef(op, known) }

\* Mutants of LatestTimestamp: the local clock, the batch is not looked at.
LocalTimestamp(n, ops) == n
BatchTimestamp(n, ops) == Max({0} \cup {op.ts : op \in ops})

LatestTimestamp(n, ops) == Max({n} \cup {op.ts : op \in ops})

(* MergeOps with a batch some replica's PendingOps returned.               *)
MergeOps(r, batch) ==
  /\ Acceptable(r, batch.ops)
  /\ Record(r, Unseen(r, batch.ops))
  /\ clock' = [clock EXCEPT ![r] = LatestTimestamp(@, batch.ops)]
  /\ UNCHANGED << siteID, localSeq, compacted, syncedThrough, issuedThrough,
                  store, inFlight, batches, restores >>

\* Mutant of DeltaOps: off by one.
DeltaOpsPastNext(q, vc) == { op \in log[q] : op.seq > vc[op.site] + 1 }

DeltaOps(q, vc) == { op \in log[q] : op.seq > vc[op.site] }

DeltaSince(q, vc) ==
  [kind |-> "delta", to |-> Replica, site |-> siteID[q], clock |-> clock[q],
   vc |-> Knowledge(q), compacted |-> compacted[q], ops |-> DeltaOps(q, vc)]

(* What the Merge of r copies under the lock of q before it takes its own. *)
CapturedDocument(r, q) ==
  [DeltaSince(q, NoKnowledge) EXCEPT !.kind = "document", !.to = {r}]

(* validateDeltaMetadata                                                   *)
WellFormed(delta) ==
  /\ CoveredBy(delta.compacted, delta.vc)
  /\ \A op \in delta.ops : op.ts <= delta.clock

(* A sender that runs under this replica's own site ID and has got further *)
SenderConflicts(r, delta) ==
  /\ delta.kind = "delta"
  /\ delta.site = siteID[r]
  /\ delta.vc[delta.site] > localSeq[r]

CompactionGap(r, delta) == ~ CoveredBy(delta.compacted, Knowledge(r))

Accepted(r, delta) ==
  /\ delta.kind = "delta" => WellFormed(delta)
  /\ ~ SenderConflicts(r, delta)
  /\ ~ CompactionGap(r, delta)
  /\ Acceptable(r, delta.ops)

MergeDocument(r, delta) ==
  /\ Accepted(r, delta)
  /\ Record(r, Unseen(r, delta.ops))
  /\ compacted' = [compacted EXCEPT ![r] = MergeClocks(@, delta.compacted)]
  /\ clock' = [clock EXCEPT ![r] = Max({LatestTimestamp(@, delta.ops), delta.clock})]
  /\ UNCHANGED << siteID, localSeq, syncedThrough, issuedThrough,
                  store, batches, restores >>

MergeInFlight(r, delta) ==
  /\ r \in delta.to
  /\ MergeDocument(r, delta)
  /\ UNCHANGED inFlight

(* a.MergeDelta(b.DeltaSince(a.VectorClock())) in one call, the pull of    *)
(* the README.                                                             *)
Pull(r, q) ==
  /\ r # q
  /\ MergeDocument(r, DeltaSince(q, Knowledge(r)))
  /\ UNCHANGED inFlight

(* A delta for a peer whose vector clock arrived earlier, for nobody in    *)
(* particular (a nil clock), or a document captured by Merge.              *)
Send(message) ==
  /\ Cardinality(inFlight) < MaxInFlight
  /\ inFlight' = inFlight \cup {message}
  /\ UNCHANGED << document, store, batches, restores >>

Lose(message) ==
  /\ inFlight' = inFlight \ {message}
  /\ UNCHANGED << document, store, batches, restores >>

-----------------------------------------------------------------------------
(* The outbox.                                                             *)
\* Mutants of Outbox: everybody's operations; only what is not folded yet;
\* only what was not handed out before.
OutboxSinceIssued(r) == { op \in log[r] : op.site = siteID[r] /\ op.seq > issuedThrough[r] }
OutboxOfEverySite(r) == { op \in log[r] : op.seq > syncedThrough[r] }
OutboxUnfolded(r) ==
  { op \in log[r] : /\ op.site = siteID[r]
                    /\ op.seq > syncedThrough[r]
                    /\ op.seq > compacted[r][op.site] }

Outbox(r) == { op \in log[r] : op.site = siteID[r] /\ op.seq > syncedThrough[r] }

Watermark(r) == Max({syncedThrough[r]} \cup {op.seq : op \in Outbox(r)})

(* What PendingOps returns; an empty outbox leaves nothing to transmit.    *)
Batch(r) ==
  IF Outbox(r) = {}
    THEN {}
    ELSE {[site |-> siteID[r], ops |-> Outbox(r), watermark |-> Watermark(r)]}

PendingOps(r) ==
  /\ Cardinality(batches) < MaxBatches
  /\ batches' = batches \cup Batch(r)
  /\ issuedThrough' = [issuedThrough EXCEPT ![r] = Max({@, Watermark(r)})]
  /\ UNCHANGED << siteID, clock, localSeq, log, content, frontier, compacted,
                  syncedThrough, store, inFlight, restores >>

\* Mutant of MarkSynced: acknowledges everything local, sent or not.
MarkSyncedEverything(r, batch) ==
  /\ batch.site = siteID[r]
  /\ batch.watermark > syncedThrough[r]
  /\ syncedThrough' = [syncedThrough EXCEPT ![r] = localSeq[r]]
  /\ UNCHANGED << siteID, clock, localSeq, log, content, frontier, compacted,
                  issuedThrough, store, inFlight, batches, restores >>

(* The caller acknowledges a batch, perhaps long after it was handed out   *)
(* and perhaps to the successor of the Document that issued it.            *)
MarkSynced(r, batch) ==
  /\ batch.site = siteID[r]
  /\ batch.watermark > syncedThrough[r]
  /\ batch.watermark <= issuedThrough[r]
  /\ batch.watermark <= localSeq[r]
  /\ syncedThrough' = [syncedThrough EXCEPT ![r] = batch.watermark]
  /\ UNCHANGED << siteID, clock, localSeq, log, content, frontier, compacted,
                  issuedThrough, store, inFlight, batches, restores >>

-----------------------------------------------------------------------------
(***************************************************************************)
(* Snapshots.  "pending" are edits still waiting for a dependency when the *)
(* snapshot is taken; which edits wait is not tracked here, so any edit of *)
(* another site may: an own one was applied when it was issued.            *)
(***************************************************************************)
MayWait(r) == { op \in log[r] : op.payload \in EditPayload /\ op.site # siteID[r] }

Applied(r) ==
  [s \in Site |-> Max({compacted[r][s]} \cup SeqsOf(log[r], s))]

SnapshotOf(r, pending) ==
  [site |-> siteID[r], clock |-> clock[r], vc |-> Knowledge(r), applied |-> Applied(r),
   syncedThrough |-> syncedThrough[r], outbox |-> Outbox(r),
   retained |-> DeltaOps(r, Knowledge(r)), pending |-> pending, content |-> content[r]]

Snapshot(r, pending) ==
  /\ restores < MaxRestores
  /\ store' = [store EXCEPT ![r] = {SnapshotOf(r, pending)}]
  /\ UNCHANGED << document, inFlight, batches, restores >>

(* The conditions validateSnapshot puts on clocks and operation sets.      *)
OpsAreCovered(snap, ops) ==
  /\ \A op \in ops : op.ts <= snap.clock /\ op.seq <= snap.applied[op.site]
  /\ ~ Collide(ops, snap.retained \cup snap.outbox \cup snap.pending)

ValidSnapshot(snap) ==
  /\ CoveredBy(snap.vc, snap.applied)
  /\ snap.syncedThrough <= snap.applied[snap.site]
  /\ \A ops \in {snap.retained, snap.outbox, snap.pending} : OpsAreCovered(snap, ops)
  /\ \A op \in snap.retained : op.seq > snap.vc[op.site]
  /\ \A op \in snap.outbox : op.site = snap.site /\ op.seq > snap.syncedThrough
  /\ Cardinality(snap.outbox) = snap.applied[snap.site] - snap.syncedThrough
  /\ \A op \in snap.pending :
       op.payload \in EditPayload /\ (op.seq > snap.vc[op.site] => op \in snap.retained)

(* Everything of a site that left the process r: in another replica, in    *)
(* another process's snapshot, or under way.                               *)
Distributed(r) ==
  UNION ( {content[q] : q \in Replica \ {r}}
            \cup {snap.content : snap \in UNION {store[q] : q \in Replica}}
            \cup {message.ops : message \in inFlight \cup batches} )

(* What NewSiteID and the package comment ask of the caller: a site ID is  *)
(* held by one process at a time, and resumed only from a snapshot that    *)
(* covers every operation the site distributed.                            *)
SoleHolder(r, s) == \A q \in Replica \ {r} : siteID[q] # s

CoversDistributed(r, snap, s) ==
  \A op \in Distributed(r) : op.site = s => op.seq <= snap.applied[s]

\* Mutant of ResumeSeq: the acknowledged watermark.
ResumeAfterAck(snap, s) == snap.syncedThrough

(* Where local numbering goes on.                                          *)
ResumeSeq(snap, s) == Max({snap.vc[s], snap.applied[s]})

\* Mutant of Kept: the retained operations beyond a gap are forgotten.
KeptOutbox(snap) == snap.outbox

(* The operations that re-enter the log; their effects are in the content. *)
Kept(snap) == snap.retained \cup snap.outbox \cup snap.pending

(* The process r restarts from a snapshot under site ID s.                 *)
Restore(r, snap, s) ==
  /\ restores < MaxRestores
  /\ ValidSnapshot(snap)
  /\ s # snap.site => snap.applied[s] = 0
  /\ SoleHolder(r, s)
  /\ IdentityReuse \/ CoversDistributed(r, snap, s)
  /\ siteID' = [siteID EXCEPT ![r] = s]
  /\ clock' = [clock EXCEPT ![r] = snap.clock]
  /\ localSeq' = [localSeq EXCEPT ![r] = ResumeSeq(snap, s)]
  /\ log' = [log EXCEPT ![r] = Kept(snap)]
  /\ content' = [content EXCEPT ![r] = snap.content]
  /\ frontier' = [frontier EXCEPT ![r] =
       [t \in Site |-> ObserveAll([frontier |-> snap.vc[t], staged |-> {}],
                                  SeqsOf(Kept(snap), t))]]
  /\ compacted' = [compacted EXCEPT ![r] = snap.vc]
  /\ syncedThrough' = [syncedThrough EXCEPT ![r] =
                         IF s = snap.site THEN snap.syncedThrough ELSE 0]
  /\ issuedThrough' = [issuedThrough EXCEPT ![r] = 0]
  /\ restores' = restores + 1
  /\ inFlight' = {message \in inFlight : message.to # {r}}
  /\ UNCHANGED << store, batches >>

-----------------------------------------------------------------------------
LocalStep ==
  \E r \in Replica :
    \/ \E p \in Payload : Apply(r, p)
    \/ PendingOps(r)
    \/ \E batch \in batches : MarkSynced(r, batch)

SendStep ==
  \E q \in Replica :
    \/ \E r \in Replica \ {q} : Send(DeltaSince(q, Knowledge(r)))
    \/ Send(DeltaSince(q, NoKnowledge))
    \/ \E r \in Replica \ {q} : Send(CapturedDocument(r, q))

MergeStep ==
  \E r \in Replica :
    \/ \E delta \in inFlight : MergeInFlight(r, delta)
    \/ \E batch \in batches : MergeOps(r, batch)
    \/ \E q \in Replica : Pull(r, q)

RestartStep ==
  \E r \in Replica :
    \/ \E pending \in SUBSET MayWait(r) : Snapshot(r, pending)
    \/ \E q \in Replica : \E snap \in store[q], s \in Site : Restore(r, snap, s)

Next ==
  \/ LocalStep
  \/ SendStep
  \/ MergeStep
  \/ \E message \in inFlight : Lose(message)
  \/ RestartStep

Spec == Init /\ [][Next]_vars

(* Transports keep pulling from every peer, keep publishing the outbox and *)
(* deliver what was published to everybody; nothing else is owed a step.   *)
FairSpec ==
  /\ Spec
  /\ \A r \in Replica, q \in Replica : WF_vars(Pull(r, q))
  /\ \A r \in Replica : WF_vars(PendingOps(r))
  /\ \A r \in Replica : WF_vars(\E batch \in batches : MergeOps(r, batch))

-----------------------------------------------------------------------------
(***************************************************************************)
(* Properties.                                                             *)
(***************************************************************************)
Message ==
  [kind : {"delta", "document"}, to : SUBSET Replica, site : Site, clock : Count,
   vc : VectorClock, compacted : VectorClock, ops : SUBSET Op]

SnapshotRecord ==
  [site : Site, clock : Count, vc : VectorClock, applied : VectorClock,
   syncedThrough : Count, outbox : SUBSET Op, retained : SUBSET Op,
   pending : SUBSET Op, content : SUBSET Op]

(* Every variable holds what its Go field can hold.                        *)
TypeOK ==
  /\ siteID \in [Replica -> Site]
  /\ clock \in [Replica -> Count]
  /\ localSeq \in [Replica -> Count]
  /\ log \in [Replica -> SUBSET Op]
  /\ content \in [Replica -> SUBSET Op]
  /\ frontier \in [Replica -> [Site -> [frontier : Count, staged : SUBSET Number]]]
  /\ compacted \in [Replica -> VectorClock]
  /\ syncedThrough \in [Replica -> Count]
  /\ issuedThrough \in [Replica -> Count]
  /\ store \in [Replica -> SUBSET SnapshotRecord]
  /\ inFlight \subseteq Message
  /\ batches \subseteq [site : Site, ops : SUBSET Op, watermark : Count]
  /\ restores \in Nat

(* The frontier clock is exact: what a replica holds of a site is 1..n and *)
(* the staged numbers, and staged numbers lie beyond a real gap, whatever  *)
(* was lost, repeated, reordered or restored.                              *)
FrontierExact ==
  \A r \in Replica, s \in Site :
    LET f == frontier[r][s]
    IN  /\ SeqsOf(content[r], s) = (1 .. f.frontier) \cup f.staged
        /\ \A n \in f.staged : n > f.frontier + 1

(* The compaction watermark never runs ahead of what the replica holds,    *)
(* so that "at or below the watermark" always means "already here".        *)
CompactedIsHeld ==
  \A r \in Replica, s \in Site : compacted[r][s] <= frontier[r][s].frontier

(* Operations above the compaction watermark can still be handed to peers. *)
LogComplete ==
  \A r \in Replica :
    /\ log[r] \subseteq content[r]
    /\ \A op \in content[r] : op.seq > compacted[r][op.site] => op \in log[r]

(* Local numbering has no gap and nobody else extends it: the site's own   *)
(* operations here are exactly 1..localSeq.                                *)
OwnNumbering ==
  \A r \in Replica :
    frontier[r][siteID[r]] = [frontier |-> localSeq[r], staged |-> {}]

(* The Lamport clock is at or above every timestamp held, so the next      *)
(* local operation outranks everything its author has seen.                *)
ClockDominates == \A r \in Replica : \A op \in content[r] : op.ts <= clock[r]

Everything ==
  UNION ( {content[r] : r \in Replica}
            \cup {snap.content : snap \in UNION {store[r] : r \in Replica}}
            \cup {message.ops : message \in inFlight \cup batches} )

(* One identity, one operation, across replicas, snapshots and messages.   *)
UniqueIdentity == ~ Collide(Everything, Everything)

(* A site's later operations carry later timestamps, across restarts too.  *)
SiteOrder ==
  \A a \in Everything, b \in Everything :
    a.site = b.site /\ a.seq < b.seq => a.ts < b.ts

(* Equal knowledge means equal state.                                      *)
Convergence ==
  \A r \in Replica, q \in Replica : frontier[r] = frontier[q] => content[r] = content[q]

(* Filtering by the peer's vector clock withholds nothing the peer lacks,  *)
(* unless the peer refuses the delta for its compaction gap.               *)
DeltaComplete ==
  \A r \in Replica, q \in Replica :
    LET delta == DeltaSince(q, Knowledge(r))
    IN  ~ CompactionGap(r, delta) => content[q] \subseteq content[r] \cup delta.ops

(* A local operation that was not acknowledged is still offered to the     *)
(* transport, across crashes, and an acknowledged one was handed out.      *)
OutboxComplete ==
  \A r \in Replica :
    /\ {op.seq : op \in Outbox(r)} = (syncedThrough[r] + 1) .. localSeq[r]
    /\ \A n \in 1 .. syncedThrough[r] :
         \E batch \in batches : batch.site = siteID[r] /\ n \in {op.seq : op \in batch.ops}

(* A snapshot the library wrote is never one it refuses to restore.        *)
SnapshotsRestorable == \A r \in Replica : \A snap \in store[r] : ValidSnapshot(snap)

ExactSnapshot(snap) ==
  /\ Kept(snap) \subseteq snap.content
  /\ snap.retained = {op \in snap.content : op.seq > snap.vc[op.site]}
  /\ \A s \in Site : 1 .. snap.vc[s] \subseteq SeqsOf(snap.content, s)
  /\ \A op \in snap.content : op.ts <= snap.clock

(* A saved snapshot accounts for what it folded in: the numbers its clock  *)
(* covers and the retained operations beyond the gaps, no more, no less.   *)
SnapshotsExact == \A r \in Replica : \A snap \in store[r] : ExactSnapshot(snap)

(* Short of a restart a replica never forgets: neither operations nor      *)
(* knowledge nor acknowledgements nor time.                                *)
NeverForgets ==
  [][ restores' = restores =>
        \A r \in Replica :
          /\ content[r] \subseteq content'[r]
          /\ CoveredBy(Knowledge(r), Knowledge(r)')
          /\ CoveredBy(compacted[r], compacted'[r])
          /\ syncedThrough'[r] >= syncedThrough[r]
          /\ clock'[r] >= clock[r] ]_vars

(* Sync by vector clocks implements the union of sets: filtering, the log, *)
(* compaction, staging and restored watermarks lose and invent nothing.    *)
Saved == [r \in Replica |-> {snap.content : snap \in store[r]}]

Sent == {message.ops : message \in inFlight \cup batches}

Exchange == INSTANCE OpExchange WITH known <- content, saved <- Saved, sent <- Sent

ImplementsExchange == Exchange!Spec

(* Sync heals itself: once local edits stop, all replicas come to hold the *)
(* same operations, whatever was lost and whoever restarted meanwhile.     *)
EventuallyEqual ==
  <>[](\A r \in Replica, q \in Replica :
         content[r] = content[q] /\ Knowledge(r) = Knowledge(q))

-----------------------------------------------------------------------------
(***************************************************************************)
(* What the documentation says and the code does not do.                   *)
(***************************************************************************)

(* doc.go:38-41: an identity minted twice after a stale restore is         *)
(* detected and the merge refused, so a delta merges only between replicas *)
(* that agree on what every identity stands for.                           *)
ReuseIsRefused ==
  [][ \A r \in Replica, q \in Replica :
        Pull(r, q) => ~ Collide(content[r], content[q]) ]_vars

(* sync.go:168-170: the outbox in a snapshot survives so that PendingOps   *)
(* can publish it after restore.                                           *)
OutboxSurvivesRestore ==
  [][ \A r \in Replica : \A snap \in UNION {store[q] : q \in Replica}, s \in Site :
        Restore(r, snap, s) => snap.outbox \subseteq Outbox(r)' ]_vars
=============================================================================
