---------------------------- MODULE DocumentEpochs ----------------------------
(***************************************************************************)
(* One Document over several epochs and the MemStore beside it (rebase.go, *)
(* memstore.go): sessions publish their outbox to the store, checkpoint,   *)
(* and are rehydrated from a checkpoint and the stored operations beyond   *)
(* it; Rebase folds the history into the base of a new document ID.        *)
(*                                                                         *)
(* Documents are those of DocumentSync.  An operation carries the epoch it *)
(* was issued in: no code reads it, the properties and the caller do.      *)
(***************************************************************************)
EXTENDS DocumentSync

CONSTANTS
  LastEpoch,  \* bound on cuts: document IDs are 0..LastEpoch
  MaxOps,     \* bound on operations held somewhere
  LateAcks    \* may a watermark be acknowledged after a cut?

Epoch == 0 .. LastEpoch

ASSUME EpochAssumption ==
  LastEpoch \in Nat /\ Epoch \subseteq Payload /\ LateAcks \in BOOLEAN

VARIABLES
  documentID,  \* Document.documentID
  base,        \* Document.baseHash: the operations folded into the base
  cut,         \* the clock announced for leaving each epoch, once there is one
  durable,     \* MemStore.documents
  checkpoint,  \* MemStore.snapshots, under one snapshot ID
  fetched,     \* what a process read with Since and has not merged yet
  minted       \* the site IDs some process has ever run under

epochVars == << documentID, base, cut, durable, checkpoint, fetched, minted >>

(* The epoch of a batch is the document ID the caller published it under.  *)
EpochOf(batch) == (CHOOSE op \in batch.ops : TRUE).payload

EpochInit ==
  /\ Init
  /\ documentID = [r \in Replica |-> 0]
  /\ base = [r \in Replica |-> {}]
  /\ cut = [e \in Epoch |-> {}]
  /\ durable = [e \in Epoch |-> {}]
  /\ checkpoint = [e \in Epoch |-> {}]
  /\ fetched = [r \in Replica |-> {}]
  /\ minted = {HomeSite[r] : r \in Replica}

-----------------------------------------------------------------------------
(***************************************************************************)
(* Sessions.  MergeOps compares document IDs, MergeDelta base hashes too.  *)
(***************************************************************************)
\* Mutant of SameDocument: the namespace is not compared.
AnyDocument(r, e) == TRUE

SameDocument(r, e) == documentID[r] = e

(* The base after the next cut.                                            *)
Folded(r) == base[r] \cup { [epoch |-> documentID[r], op |-> op] : op \in content[r] }

Edit(r) ==
  /\ Cardinality(UNION {Folded(q) : q \in Replica}) < MaxOps
  /\ Apply(r, documentID[r])
  /\ UNCHANGED epochVars

Publish(r) == PendingOps(r) /\ UNCHANGED epochVars

Receive(r, batch) ==
  /\ SameDocument(r, EpochOf(batch))
  /\ MergeOps(r, batch)
  /\ UNCHANGED epochVars

PullFrom(r, q) ==
  /\ SameDocument(r, documentID[q])
  /\ base[r] = base[q]
  /\ Pull(r, q)
  /\ UNCHANGED epochVars

(* The caller acknowledges what the store took.                            *)
Acknowledge(r, batch) ==
  /\ batch.ops \subseteq durable[EpochOf(batch)]
  /\ LateAcks \/ EpochOf(batch) = documentID[r]
  /\ MarkSynced(r, batch)
  /\ UNCHANGED epochVars

-----------------------------------------------------------------------------
(***************************************************************************)
(* The store.                                                              *)
(***************************************************************************)
StoreAppend(e, ops) ==
  /\ ~ Collide(ops, durable[e])
  /\ ~ Collide(ops, ops)
  /\ durable' = [durable EXCEPT ![e] = @ \cup ops]
  /\ UNCHANGED << vars, documentID, base, cut, checkpoint, fetched, minted >>

StoredBeyond(e, vc) == { op \in durable[e] : op.seq > vc[op.site] }

(* Since, by a rehydrated session that merges the result later.            *)
Fetch(r) ==
  /\ siteID[r] # HomeSite[r]
  /\ fetched' = [fetched EXCEPT ![r] =
                   {[documentID |-> documentID[r],
                     ops |-> StoredBeyond(documentID[r], Knowledge(r))]}]
  /\ UNCHANGED << vars, documentID, base, cut, durable, checkpoint, minted >>

MergeFetched(r, result) ==
  /\ SameDocument(r, result.documentID)
  /\ MergeOps(r, result)
  /\ fetched' = [fetched EXCEPT ![r] = {}]
  /\ UNCHANGED << documentID, base, cut, durable, checkpoint, minted >>

(* Snapshot and Save: a later checkpoint replaces the one before it.       *)
Checkpoint(r) ==
  /\ restores < MaxRestores
  /\ checkpoint' = [checkpoint EXCEPT ![documentID[r]] =
                      {[base |-> base[r], snapshot |-> SnapshotOf(r, {})]}]
  /\ UNCHANGED << vars, documentID, base, cut, durable, fetched, minted >>

(* A site ID nobody has ever used, as the README's example takes one.      *)
Fresh(s) == s \notin minted

(* Load and NewDocumentFromSnapshot, in a process that crashed or that     *)
(* enters a new epoch from the snapshot of its receipt.                    *)
Rehydrate(r, e, saved, s) ==
  /\ Fresh(s)
  /\ Restore(r, saved.snapshot, s)
  /\ documentID' = [documentID EXCEPT ![r] = e]
  /\ base' = [base EXCEPT ![r] = saved.base]
  /\ fetched' = [fetched EXCEPT ![r] = {}]
  /\ minted' = minted \cup {s}
  /\ UNCHANGED << cut, durable, checkpoint >>

-----------------------------------------------------------------------------
(***************************************************************************)
(* The cut.  A coordinator announces one stable clock, and a replica that  *)
(* moves on passes that clock to Rebase.  Editing need not stop: a replica *)
(* whose knowledge differs from the clock is refused and stays behind.     *)
(***************************************************************************)
Announce(r) ==
  /\ documentID[r] < LastEpoch
  /\ cut[documentID[r]] = {}
  /\ cut' = [cut EXCEPT ![documentID[r]] = {Knowledge(r)}]
  /\ UNCHANGED << vars, documentID, base, durable, checkpoint, fetched, minted >>

\* Mutant of Settled: delivery gaps are not looked for.
SettledOverGaps(r, stable) == stable = Knowledge(r) /\ syncedThrough[r] = localSeq[r]

(* What Rebase verifies of clocks and outbox.  Waiting edits and rings no  *)
(* base may have refuse it too: here, a step that is not taken.            *)
Settled(r, stable) ==
  /\ CoveredBy(stable, Knowledge(r)) /\ CoveredBy(Knowledge(r), stable)
  /\ \A s \in Site : frontier[r][s].staged = {}
  /\ syncedThrough[r] = localSeq[r]

\* Mutant of Watermarks: the outbox is not reset.
WatermarksKept(r) == UNCHANGED << syncedThrough, issuedThrough >>

(* The outbox of the new epoch starts empty, under the same site ID.       *)
Watermarks(r) ==
  /\ syncedThrough' = [syncedThrough EXCEPT ![r] = 0]
  /\ issuedThrough' = [issuedThrough EXCEPT ![r] = 0]

Rebase(r, stable) ==
  /\ Settled(r, stable)
  /\ documentID' = [documentID EXCEPT ![r] = @ + 1]
  /\ base' = [base EXCEPT ![r] = Folded(r)]
  /\ clock' = [clock EXCEPT ![r] = 0]
  /\ localSeq' = [localSeq EXCEPT ![r] = 0]
  /\ content' = [content EXCEPT ![r] = {}]
  /\ log' = [log EXCEPT ![r] = {}]
  /\ frontier' = [frontier EXCEPT ![r] = [s \in Site |-> [frontier |-> 0, staged |-> {}]]]
  /\ compacted' = [compacted EXCEPT ![r] = NoKnowledge]
  /\ Watermarks(r)
  /\ UNCHANGED << siteID, store, inFlight, batches, restores,
                  cut, durable, checkpoint, fetched, minted >>

-----------------------------------------------------------------------------
SessionStep ==
  \E r \in Replica :
    \/ Edit(r)
    \/ Publish(r)
    \/ \E batch \in batches : Receive(r, batch) \/ Acknowledge(r, batch)
    \/ \E q \in Replica : PullFrom(r, q)

StoreStep ==
  \/ \E batch \in batches : StoreAppend(EpochOf(batch), batch.ops)
  \/ \E r \in Replica :
       \/ Fetch(r)
       \/ \E result \in fetched[r] : MergeFetched(r, result)
       \/ Checkpoint(r)
       \/ \E e \in Epoch, s \in Site : \E saved \in checkpoint[e] : Rehydrate(r, e, saved, s)

CutStep ==
  \E r \in Replica :
    \/ Announce(r)
    \/ \E stable \in cut[documentID[r]] : Rebase(r, stable)

EpochNext == SessionStep \/ StoreStep \/ CutStep

EpochSpec == EpochInit /\ [][EpochNext]_<< vars, epochVars >>

-----------------------------------------------------------------------------
(***************************************************************************)
(* Properties.                                                             *)
(***************************************************************************)

(* Replicas that moved on under one announced clock, at different times    *)
(* and after different deliveries, stand on the same base: a document ID   *)
(* names one history.                                                      *)
OneBasePerEpoch ==
  \A r \in Replica, q \in Replica : documentID[r] = documentID[q] => base[r] = base[q]

(* Identities start over in a new epoch, so that an operation of another   *)
(* epoch would be taken for one of this: none gets in, by a late batch, a  *)
(* stored result read before the cut or a checkpoint.                      *)
EpochsStayApart ==
  /\ \A r \in Replica : \A op \in content[r] : op.payload = documentID[r]
  /\ \A e \in Epoch : \A op \in durable[e] : op.payload = e

(* What a replica need not publish any more is in the store of its epoch.  *)
AcknowledgedIsStored ==
  \A r \in Replica :
    1 .. syncedThrough[r] \subseteq SeqsOf(durable[documentID[r]], siteID[r])

(* Reading the store beyond the vector clock of a replica, rehydrated or   *)
(* not, brings it everything stored, whatever it holds beyond gaps.        *)
SinceIsComplete ==
  \A r \in Replica :
    durable[documentID[r]] \subseteq
      content[r] \cup StoredBeyond(documentID[r], Knowledge(r))

(* The store never holds an operation of a site without its predecessors,  *)
(* so that a reader is never left with a gap that nothing can fill.        *)
StoreHasNoGap ==
  \A e \in Epoch : \A op \in durable[e] :
    1 .. op.seq \subseteq SeqsOf(durable[e], op.site)
=============================================================================
