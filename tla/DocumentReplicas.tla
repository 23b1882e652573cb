---------------------------- MODULE DocumentReplicas ----------------------------
(***************************************************************************)
(* Replicas of one Document that apply local commands and merge the        *)
(* operations of others (document.go), batch by batch, in whatever order   *)
(* a transport delivers them.  DocumentSync has the clocks that choose the *)
(* batches; here a batch is any set of operations somebody has issued.     *)
(*                                                                         *)
(* Peers whose implementation tags its edits carelessly take part as       *)
(* sources of operations only.                                             *)
(***************************************************************************)
EXTENDS DocumentFeatures

CONSTANTS
  Replica,        \* the replicas, named by their site IDs
  Peer,           \* sites of careless peers
  Types,          \* the types of operation that are used
  MaxOps,         \* bound on the operations issued altogether
  MaxPeerOps,     \* bound on those of them that peers issue
  MaxRestores     \* bound on restarts from a snapshot

ASSUME ReplicaAssumption ==
  /\ Replica \subseteq Site
  /\ Peer \subseteq Site \ Replica
  /\ MaxOps \in Nat /\ MaxPeerOps \in Nat /\ MaxRestores \in Nat

VARIABLES
  doc,            \* Document.features and Document.pendingGen
  clock,          \* Document.clock
  localSeq,       \* Document.localSeq
  log,            \* Document.ops and Document.seen
  compacted,      \* Document.compacted
  received,       \* every operation that reached the replica, compacted ones too
  reported,       \* the operations reported as buffered and as nothing else since
  issued,         \* every operation under way
  restores        \* number of restarts so far

vars == << doc, clock, localSeq, log, compacted, received, reported, issued, restores >>

Init ==
  /\ doc = [r \in Replica |-> NewDocument]
  /\ clock = [r \in Replica |-> 0]
  /\ localSeq = [r \in Replica |-> 0]
  /\ log = [r \in Replica |-> {}]
  /\ compacted = [r \in Replica |-> NoKnowledge]
  /\ received = [r \in Replica |-> {}]
  /\ reported = [r \in Replica |-> {}]
  /\ issued = {}
  /\ restores = 0

Refs(ops) == { RefOf(op) : op \in ops }

SeqsOf(ops, s) == { op.seq : op \in { o \in ops : o.site = s } }

(* What the frontier clock says: DocumentSync shows it to be exact.        *)
Knowledge(r) == [s \in Site |-> Advance(0, SeqsOf(received[r], s))]

History(ops, vc) == [seen |-> Refs(ops), compacted |-> vc]

Used(shapes) == { shape \in shapes : shape.type \in Types }

-----------------------------------------------------------------------------
Exhausted(r) == clock[r] + 1 >= MaxTimestamp \/ localSeq[r] + 1 >= MaxTimestamp

(* A local command; what it releases is not reported to anybody.           *)
Apply(r, shape) ==
  LET op     == Issue(r, localSeq[r] + 1, clock[r] + 1, shape)
      result == ApplyOp(doc[r], History(log[r], compacted[r]), op)
  IN  /\ ~ Exhausted(r)
      /\ result.outcomes[op] = "applied"
      /\ doc' = [doc EXCEPT ![r] = result.doc]
      /\ clock' = [clock EXCEPT ![r] = @ + 1]
      /\ localSeq' = [localSeq EXCEPT ![r] = @ + 1]
      /\ log' = [log EXCEPT ![r] = @ \cup {op}]
      /\ received' = [received EXCEPT ![r] = @ \cup {op}]
      /\ issued' = issued \cup {op}
      /\ UNCHANGED << compacted, reported, restores >>

LocalStep ==
  /\ Cardinality(issued) < MaxOps
  /\ \E r \in Replica : \E shape \in Used(Commands(doc[r])) : Apply(r, shape)

\* Mutant of LatestTimestamp: the batch is not looked at.
LocalTimestamp(n, ops) == n

LatestTimestamp(n, ops) == Max({n} \cup {op.ts : op \in ops})

(* A peer tags an edit with any identity it has heard of.                  *)
PeerStep ==
  /\ Cardinality(issued) < MaxOps
  /\ Cardinality({op \in issued : op.site \in Peer}) < MaxPeerOps
  /\ LatestTimestamp(0, issued) + 1 \in Number
  /\ \E site \in Peer, f \in Feature, gen \in {NoRef} \cup Refs(issued) :
       issued' = issued \cup
         {Issue(site, Cardinality({op \in issued : op.site = site}) + 1,
                LatestTimestamp(0, issued) + 1, EditGeometry(f, gen))}
  /\ UNCHANGED << doc, clock, localSeq, log, compacted, received, reported, restores >>

-----------------------------------------------------------------------------
(* Neither compacted nor in the log.                                       *)
Unseen(r, ops) == {op \in ops : op.seq > compacted[r][op.site]} \ log[r]

(* One operation enters log and features; what it releases is reported.    *)
MergeOne(m, vc, op) ==
  LET result == ApplyOp(m.doc, History(m.log, vc), op)
  IN  [doc |-> result.doc, log |-> m.log \cup {op},
       reported |-> (m.reported \ DOMAIN result.outcomes) \cup
         {o \in DOMAIN result.outcomes : result.outcomes[o] = "buffered"}]

(* All of ops, one after the other: the newest comes last.                 *)
InStampOrder(start, vc, ops) ==
  LET after[done \in SUBSET ops] ==
        IF done = {}
          THEN start
          ELSE LET op == Newest(done) IN MergeOne(after[done \ {op}], vc, op)
  IN  after[ops]

MergeAll(r, ops) ==
  InStampOrder([doc |-> doc[r], log |-> log[r], reported |-> reported[r]],
               compacted[r], Unseen(r, ops))

MergeBatch(r, ops, remoteClock, remoteCompacted) ==
  LET merged == MergeAll(r, ops)
  IN  /\ \A op \in ops : op.site = r => op.seq <= localSeq[r]
      /\ doc' = [doc EXCEPT ![r] = merged.doc]
      /\ log' = [log EXCEPT ![r] = merged.log]
      /\ compacted' = [compacted EXCEPT ![r] = MergeClocks(@, remoteCompacted)]
      /\ received' = [received EXCEPT ![r] = @ \cup ops]
      /\ reported' = [reported EXCEPT ![r] = merged.reported]
      /\ clock' = [clock EXCEPT ![r] = Max({LatestTimestamp(@, ops), remoteClock})]
      /\ UNCHANGED << localSeq, issued, restores >>

MergeOps(r, ops) == MergeBatch(r, ops, 0, NoKnowledge)

(* Merge copies the log and the clocks of q; a copy that is merged late is *)
(* one of the sets MergeOps may be given.                                  *)
Merge(r, q) ==
  /\ r # q
  /\ CoveredBy(compacted[q], Knowledge(r))
  /\ MergeBatch(r, log[q], clock[q], compacted[q])

MergeStep ==
  \E r \in Replica :
    \/ \E ops \in SUBSET issued : MergeOps(r, ops)
    \/ \E q \in Replica : Merge(r, q)

-----------------------------------------------------------------------------
(***************************************************************************)
(* Restarts.  Nothing is acknowledged here, so the outbox of a snapshot is *)
(* every local operation; snapshots that are older than what the replica   *)
(* has distributed are the matter of DocumentSync.                         *)
(***************************************************************************)
SnapshotOf(r) ==
  [clock |-> clock[r],
   vc |-> Knowledge(r),
   applied |-> [s \in Site |-> Max({compacted[r][s]} \cup SeqsOf(log[r], s))],
   retained |-> {op \in log[r] : op.seq > Knowledge(r)[op.site]},
   outbox |-> {op \in log[r] : op.site = r},
   pending |-> doc[r].pendingGen,
   features |-> FeatureSnapshots(doc[r].features)]

ValidSnapshot(snap) ==
  /\ \A f \in DOMAIN snap.features :
       ValidFeatureSnapshot(snap.features[f], snap.clock, snap.applied)
  /\ \A op \in snap.pending : op.seq > snap.vc[op.site] => op \in snap.retained

(* What the records say, before the pending edits are looked at.           *)
Reloaded(snap) ==
  [doc |-> [features |-> RestoreFeatures(snap.features), pendingGen |-> {}],
   log |-> (snap.retained \ snap.pending) \cup snap.outbox,
   reported |-> {}]

Awaited(snap) == snap.pending \ snap.outbox

\* Mutant of Restored: pending edits wait again and are not in the log.
RestoredUnrecorded(snap) ==
  [InStampOrder(Reloaded(snap), snap.vc, Awaited(snap)) EXCEPT !.log = Reloaded(snap).log]

(* Retained and unsent operations re-enter the log, their effects being in *)
(* the features; pending edits are applied again, in stamp order.          *)
Restored(snap) == InStampOrder(Reloaded(snap), snap.vc, Awaited(snap))

(* A replica restarts from its own snapshot, or one whose site has issued  *)
(* nothing starts over from the snapshot of another one.                   *)
Restart(r, q) ==
  LET snap == SnapshotOf(q)
      back == Restored(snap)
  IN  /\ restores < MaxRestores
      /\ ValidSnapshot(snap)
      /\ q # r => SeqsOf(issued, r) = {}
      /\ doc' = [doc EXCEPT ![r] = back.doc]
      /\ clock' = [clock EXCEPT ![r] = snap.clock]
      /\ localSeq' = [localSeq EXCEPT ![r] = Max({snap.vc[r], snap.applied[r]})]
      /\ log' = [log EXCEPT ![r] = back.log]
      /\ compacted' = [compacted EXCEPT ![r] = snap.vc]
      /\ received' = [received EXCEPT ![r] = received[q]]
      /\ reported' = [reported EXCEPT ![r] = {}]
      /\ restores' = restores + 1
      /\ UNCHANGED issued

RestartStep == \E r \in Replica, q \in Replica : Restart(r, q)

Next == LocalStep \/ PeerStep \/ MergeStep \/ RestartStep

Spec == Init /\ [][Next]_vars

-----------------------------------------------------------------------------
(***************************************************************************)
(* What a document promises, stated on the set of operations a replica     *)
(* has received and nothing else: of every register the newest write, of   *)
(* every feature the newest generation and the edits tagged with it.       *)
(***************************************************************************)
Of(ops, f, types) == {op \in ops : op.feature = f /\ op.type \in types}

Generations(ops, f) == Of(ops, f, {"insert_feature", "set_geometry"})

Writes(ops, f, p) ==
  {op \in Of(ops, f, {"insert_feature", "set_property", "delete_property"}) :
     p \in op.properties}

NewestStamp(ops) == IF ops = {} THEN NoStamp ELSE StampOf(Newest(ops))

NewestRef(ops) == IF ops = {} THEN NoRef ELSE RefOf(Newest(ops))

HasGeometry(ops, f) ==
  IF Generations(ops, f) = {} THEN f \in BaseFeature
                              ELSE Newest(Generations(ops, f)).geometry

EditsOf(ops, f, gen) == {e \in Of(ops, f, {"edit_geometry"}) : e.gen = gen}

MeantFeature(ops, f) ==
  LET gen == NewestRef(Generations(ops, f))
  IN  [isBase |-> f \in BaseFeature,
       createReg |-> NewestStamp(Of(ops, f, {"insert_feature"})),
       deleteReg |-> NewestStamp(Of(ops, f, {"delete_feature"})),
       genID |-> gen,
       genStamp |-> NewestStamp(Generations(ops, f)),
       geometry |-> IF HasGeometry(ops, f) THEN GeometryWith(EditsOf(ops, f, gen))
                                           ELSE NoGeometry,
       seenGens |-> Refs(Generations(ops, f)) \cup {NoRef : g \in {f} \cap BaseFeature},
       properties |-> [p \in Property |->
         [ref |-> NewestStamp(Writes(ops, f, p)),
          deleted |-> /\ Writes(ops, f, p) # {}
                      /\ Newest(Writes(ops, f, p)).type = "delete_property"]]]

-----------------------------------------------------------------------------
(***************************************************************************)
(* Properties.                                                             *)
(***************************************************************************)

(* Every variable holds what its Go field can hold.                        *)
TypeOK ==
  \A r \in Replica :
    /\ clock[r] \in Count /\ localSeq[r] \in Count
    /\ log[r] \subseteq received[r] /\ received[r] \subseteq issued
    /\ compacted[r] \in VectorClock
    /\ doc[r].pendingGen \subseteq log[r]
    /\ reported[r] \subseteq received[r]

(* Whatever was delivered in whatever order, batch and repetition, the     *)
(* features are what the set of received operations means.                 *)
FeaturesAreMeant ==
  \A r \in Replica : \A f \in Feature :
    doc[r].features[f] = MeantFeature(received[r], f)

(* Edits whose generation is missing wait: none is dropped before it came, *)
(* none is stranded once it is there.                                      *)
WaitingIsMissing ==
  \A r \in Replica :
    LET edits == {e \in received[r] : e.type = "edit_geometry"}
        gens  == UNION {Generations(received[r], f) : f \in Feature}
    IN  /\ {e \in edits : e.gen \notin {NoRef} \cup Refs(received[r])} \subseteq doc[r].pendingGen
        /\ doc[r].pendingGen \subseteq {e \in edits : e.gen \notin {NoRef} \cup Refs(gens)}

(* A snapshot taken at any moment is accepted and brings everything back:  *)
(* every register, every generation seen, every edit that still waits.     *)
RestartIsFaithful ==
  \A r \in Replica :
    LET snap == SnapshotOf(r)
        back == Restored(snap)
    IN  /\ ValidSnapshot(snap)
        /\ back.doc.features = doc[r].features
        /\ back.doc.pendingGen = {e \in doc[r].pendingGen : e.gen \notin Refs(received[r])}
        /\ {op \in received[r] : op.seq > snap.vc[op.site]} \subseteq back.log

(* No edit starts to wait for a generation that can no longer come, be the *)
(* operation it names still in the log or compacted by a restart.          *)
EditsWaitForMissing ==
  [][ \A r \in Replica : \A e \in doc'[r].pendingGen \ doc[r].pendingGen :
        e.gen \notin Refs(received'[r]) ]_vars

(* A command takes effect where it was given, whatever that replica has    *)
(* merged before: the user never sees an own edit lose on arrival.         *)
LocalEditsTakeEffect ==
  [][ \A r \in Replica : localSeq'[r] > localSeq[r] =>
        \A op \in log'[r] \ log[r] :
          LET feature == doc'[r].features[op.feature]
          IN  /\ op.type = "insert_feature" => Visible(feature)
              /\ op.type = "delete_feature" => ~ Visible(feature)
              /\ op.type \in {"insert_feature", "set_geometry"} =>
                   feature.genID = RefOf(op)
              /\ op.type = "edit_geometry" => op \in feature.geometry.edits
              /\ \A p \in op.properties : feature.properties[p].ref = StampOf(op) ]_vars

(* A geometry never shows an edit made to another geometry or another      *)
(* feature, and never an edit its author had not made on that geometry.    *)
EditsStayInTheirGeneration ==
  \A r \in Replica : \A f \in Feature :
    LET feature == doc[r].features[f]
    IN  \A e \in feature.geometry.edits :
          /\ e.feature = f
          /\ e.gen = feature.genID
          /\ Newer(StampOf(e), feature.genStamp)

-----------------------------------------------------------------------------
(***************************************************************************)
(* What the documentation says and the code does not do.                   *)
(***************************************************************************)

(* document.go:70-78: an operation a merge reported as buffered is waiting *)
(* until it is reported as applied, superseded or quarantined.             *)
BufferedMeansWaiting == \A r \in Replica : reported[r] \subseteq doc[r].pendingGen
=============================================================================
