# Verification of geo-crdt

TLA+ models of the replicated core of `geo-crdt`, TLC runs over small
instances of them, and theorems that TLAPS proves for every value of the
constants. `PROJECT.json` maps each definition to the lines it stands for and
lists the runs, the mutated definitions each property was seen to reject, the
findings, the hazards and the theorems. Line numbers refer to `src/`.

## The system

The library keeps a collection of GeoJSON features on several replicas, with no
server. It sends nothing itself: an application calls it, carries what it
returns to other replicas, and stores it.

| Component | State | Operations | What makes it correct |
| --- | --- | --- | --- |
| Clocks, `clock.go` | per site: the contiguous frontier and the numbers staged beyond a gap | `observe`, `mergeVectorClocks`, `coveredBy` | a gap is never hidden; the order of observation is irrelevant |
| Document synchronisation, `document.go`, `sync.go` | Lamport clock, local numbering, operation log, frontier, compaction watermark, outbox watermarks | `Apply`, `Merge`, `MergeOps`, `DeltaSince`, `MergeDelta`, `PendingOps`, `MarkSynced`, `Snapshot`, `NewDocumentFromSnapshot` | what a replica claims to know it holds; what a peer lacks it is sent; nothing leaves the outbox unsent; identities are unique; equal knowledge is equal state |
| Document state, `document.go` | per feature: create, delete and property registers, the geometry generation; edits waiting for a generation | `applyOpLocked` for six operation types | the state is a function of the set of operations received |
| Geometry engine, `geometry.go` | parts, rings, operations waiting for a part, ring or vertex | seven geometry operations, `drain`, `validateLocalOp` | the same, and what is released is reported |
| Vertex sequence, `seq.go` | an ordered tree of vertices with tombstones and move registers | `insert`, `move`, `delete`, `walk` | one order everywhere, consistent with where users inserted |
| Standalone geometry replica, `geometry_crdt.go` | one engine with clock, log and outbox | `Apply`, `Merge`, `MergeOps`, `PendingOps`, `MarkSynced` | as for documents |
| Snapshot encoding and validation, `sync.go`, `snapshot_validation.go` | features and geometries as records | `snapshotFeature`, `restoreFeature`, `validateSnapshot` | restore is the inverse of snapshot; what was written is accepted |
| Epoch rebase, `rebase.go` | a new document namespace | `Rebase` | a document ID names one history; nothing of another epoch gets in; acknowledged is stored |
| Memory store, `memstore.go` | operations per document, snapshots | `Append`, `Since`, `Save`, `Load` | no operation without its predecessors; a reader misses nothing stored |
| Polygon validation and repair, `validate.go`, `geometry.go` | none | export, parse, predicates and views | a base is what was visible; repaired views are valid and keep their shape |
| GeoJSON, properties, types, examples | none | parsing, formatting | outside the replicated state |

How they interact. `Document.Apply` builds an operation, applies it to a
feature (which may hand it to the feature's geometry engine, and that to a
vertex sequence), appends it to the log and observes its number. `Merge`,
`MergeOps` and `MergeDelta` check a whole batch first, then apply and record
what is new in stamp order. `PendingOps` and `DeltaSince` read the log;
`Snapshot` folds log, features and watermarks into one record that
`NewDocumentFromSnapshot` reads back. Each `Document` is guarded by one mutex,
so an operation of one replica is one step; the exception is `Merge`, which
copies the remote document under the remote lock and merges the copy later,
under its own.

What is hard in this system is order and loss: operations reach replicas
late, repeated, overlapping, before what they depend on, or never; replicas
crash and resume from old snapshots under old or new identities; deltas are
computed from clocks that are out of date. The list of hazards in
`PROJECT.json` names each with its line.

## The modules

```
SiteClocks ─┬─ FrontierClock ─── FrontierClockProofs
            ├─ DocumentSync ─┬─ (implements OpExchange)
            │                └─ DocumentEpochs ──────────── DocumentSyncProofs
            ├─ DocumentFeatures ── DocumentReplicas ─────── DocumentReplicasProofs
            ├─ VertexSeq ── GeometryEngine ─┬─ SequentialGeometry ─┬─ GeometryReplicas ─┐
            │                               └─ GeometrySnapshot ───┘                    │
            │                             GeometryReplicasProofs ── GeometryEngineProofs ┘
            └─ SiteClocksProofs ── Loops    (facts that the other proofs cite)
PolygonRings ── PolygonRingsProofs

MCDocumentSync, MCDocumentEpochs, MCDocumentFeatures, MCGeometry, MCPolygonRings: instances for TLC
```

**SiteClocks** has the data of `clock.go`: stamps and their order, vector clocks,
`Observe`. A site ID is a number, so that `<` is the order that breaks ties.
`ObserveAll` is the effect of a batch; **FrontierClock** feeds numbers to one
clock one at a time and shows that the batch operator is right about it.

**DocumentSync** models who knows what. The variables are the fields of
`Document` by their names; `log` stands for `ops` and `seen`, `content` for the
set of operations folded into `features`. The set is enough here because the
other two groups of modules show that features are a function of it. `store` holds each
process's last snapshot, `inFlight` deltas and captured documents, `batches` results
of `PendingOps`. A message can be merged any number of times, by anybody it is
for, in any order, or lost. `Restore` is a crash and a restart from a
snapshot, under the snapshot's site ID or another; `IdentityReuse` says whether
callers break the contract of `NewSiteID` and resume an ID from a snapshot that does
not cover what the site distributed. Payloads are compared for equality, as hashes are.

**OpExchange** is the abstract specification of all this: replicas hold sets of operations and
unite them. It has no vector clocks, frontiers, logs, compaction or outboxes, and an operation never takes the
identity of another one. `DocumentSync` implements it with `known` mapped to `content`, `saved` to the
contents of snapshots and `sent` to the operations of messages and batches.

**DocumentEpochs** puts several documents into several epochs and `MemStore` beside them. It extends
`DocumentSync` and uses its actions: a session publishes its outbox, the caller
appends the batch to the store and acknowledges it, checkpoints are saved, a process is
rehydrated from a checkpoint under a site ID nobody has used and then reads the store with
`Since` and merges what it read, in two steps, as the persistence example does. `Announce` and `Rebase`
are the coordinated cut: a clock is announced once per epoch, and each replica moves on whenever its
knowledge equals that clock, while others edit, publish and pull. The payload of an
operation is the epoch it was issued in. No code reads it; the properties do.
The base is the set of operations folded so far, which is what `baseHash` stands for. `minted` holds the
site IDs some process has ever run under: a fresh one (`Fresh`, what `NewSiteID` returns) is none of them, not
even one whose operations are nowhere left but in a base.

**DocumentFeatures** applies one operation to the features of a document:
liveness registers, property registers, generations, waiting edits. A value is
named by the stamp that wrote it, and the geometry of a generation is the set
of edits that reached its engine. **DocumentReplicas** lets replicas apply local
commands and merge any set of operations somebody issued, one batch at a time, and restart from a snapshot: `SnapshotFeature`,
`RestoreFeature` and `Restored` are the records of `sync.go` and the order in which they are read back, pending
edits last. `MergeOne` is one operation entering features, log and report, `InStampOrder` a batch of them, the
oldest first: a merge and the pending edits of a restart both go through it. `CannotCome` is the check an edit without a generation meets,
against the log and against the compaction watermark a restart leaves.
`MeantFeature` is the abstract specification: what a feature should be, said of the *set*
of operations a replica has received, with no registers, queues or order of arrival.
`Peer` sites are replicas of another implementation of the protocol that tag
edits with identities which define no geometry of that feature; they only produce operations.

**VertexSeq** and **GeometryEngine** are `seq.go` and `geometry.go`: the tree, the
dependency queues, the drain, what each operation does or waits for, and what
`validateLocalOp` admits. IDs are tuples of the fields the code joins with colons.
**SequentialGeometry** is the abstract specification: one editor with plain
nested lists who performs the operations in stamp order, with no trees, keys,
registers or queues. **GeometryReplicas** has replicas of one geometry as in
`geometry_crdt.go`, with peers that do not validate their commands. **GeometrySnapshot** is
the geometry half of a snapshot: the records of parts, rings and vertices, the
rebuilding of a sequence from them, and the checks of `validateGeometrySnapshot`, among them the
IDs that must follow from the keys.

**PolygonRings** has the views of a polygon over integer positions: closing a ring on export, opening
and refusing it on parse (the way `Rebase` gets its new base), the four repairs and their order, and
`ValidatePolygonRings`. Its state is the open ring of visible vertices, which concurrent moves and
deletes can make any sequence of positions.

Definitions marked "Mutant of" change the operator below them the way a bug
would. No specification uses them; each was put in place of the original once, and the property it
is listed with was then violated.

## Runs

Every run is bounded: `MaxTimestamp` is the exclusive bound of the code, made
small, and `MaxOps`,
`MaxInFlight`, `MaxBatches` and `MaxRestores` cap what is issued, under
way, handed out and restarted. A system that has used up its bounds may stop, as a real one may
that nobody edits, so deadlock is not checked anywhere.

| Run | Instance | Shows |
| --- | --- | --- |
| `sync_resume` | 2 replicas, timestamps to 2, 2 batches in any order, 1 restart with waiting edits, also from a stale snapshot | gaps survive snapshot and restart, what lies beyond them can be sent, numbering stays gapless, nothing is acknowledged that was not handed out, every snapshot written can be restored |
| `sync_restart` | 2 replicas, a spare site ID, timestamps to 2, 1 message, 1 restart | every step is a step of `OpExchange`; no identity is minted twice under the contract; deltas withhold nothing; equal knowledge is equal state; nothing is forgotten |
| `sync_recovers` | 2 replicas, pulls, outbox, 1 restart, a message that may be lost | they become equal although pulls are refused for a compaction gap |
| `geo_line` | line of 2 vertices, 2 replicas and a peer, 3 inserts, moves, deletes and 1 of the peer | every replica equals the sequential replay, a snapshot of any state restores it, reports are current, nothing comes back, only several sites together take a ring below what a base needs |
| `geo_polygons` | multi-polygon of a triangle, 2 replicas and a peer, 3 operations on parts, rings and vertices, 1 of them a peer's on parts or rings | order of parts and rings, waiting for them, agreement on refusals, snapshots with derived IDs |
| `doc_features` | an old and a new feature, one property, 2 replicas and a peer, 3 operations of every type | registers and generations hold what is meant; a local command takes effect; no geometry takes an edit that is not meant for it |
| `doc_generations` | one base feature, 2 replicas and a peer, 3 operations on its geometry, 1 restart | edits wait for what is missing and no longer; a document restarted from a snapshot goes on as one that never stopped |
| `epochs` | 2 sessions, 3 site IDs, 2 operations, 2 batches, 1 restart, 1 cut | a document ID names one base; no operation crosses a cut; what need not be published is stored; the store has no gap and reading it misses nothing |
| `rings` | rings of up to 5 vertices over 6 positions, as exterior and as hole, all 16 selections of repairs | a base is what was visible; repaired views pass the checks; repairs keep the shape and repeat for free |

Why the bounds are enough to be interesting. A gap needs two operations of a
site, which timestamps to 2 allow; gaps behind gaps are left to the theorems. Two batches are the least
that can be delivered out of order. One restart with an old snapshot and one message from before it is
the least in which knowledge and log disagree; a chain of waiting needs an insert, an insert after it and
an edit of that one, which is three operations; a generation that loses on arrival while an edit waits
for it needs three. In `epochs` two operations are what it takes to have one on each side of
the cut, or two of one site of which the second is delivered first; one restart gives a
session that reads the store in two steps. Only a rehydrated session reads the store with `Since`: others
get what they lack by batches and pulls. Five vertices are the least in which a ring that revisits a position is not
degenerate, and six positions hold both a height that differs where the plane position does not and a
middle point that makes rings self-touching. Site IDs are ordered and break ties, so no run uses symmetry.

Two questions that runs of their own could put are answered by theorems for every value of the constants:
the order of calls of `observe` (`FrontierClock`), and exchange
between more than two replicas (`DocumentSync`, whose properties and whose refinement are proved for any
number).

Each violated mutant in `PROJECT.json` is evidence that the case in question is
reached: for example `DrainOnce` is refuted only if an operation waits for one
that itself was waiting.

Fairness. `sync_recovers` assumes weak fairness of `Pull` between every
two replicas, of `PendingOps`, and of the delivery of a published batch. The library
schedules nothing, so this is fairness of the application: the pull and
push loops of the package README. Sending, losing, acknowledging, snapshots, restarts
and edits are owed no step. Weak fairness suffices because a pull that has something to
bring stays possible until it is made, unless it is refused; and a refused pull is made up for
by the outbox, which is why the second loop is needed.

## Findings

Each is a run that TLC ends with a counterexample.

- `finding_identity_reuse`: `doc.go:38-41` says that a collision of identities
  after a stale restore is detected. It is when both operations meet in one
  merge; a delta filtered by the vector clock never sends the second one, and the
  replicas differ for good.
- `finding_outbox_lost`: a snapshot with unsent operations, restored under the fresh
  site ID that is called the safe default, never publishes them through `PendingOps`. Pulls still
  carry them if the compaction watermark permits.
- `finding_dropped_edit`: an edit that waits for a geometry which then loses is
  dropped without a report, while the same case of an insert is reported as superseded.

Seen in the code while modelling, with no run of their own:

- A restored replica reports its own unsent operations as compacted
  (`sync.go:447`), and peers refuse with `ErrCompactionGap` a delta that contains everything they lack;
  `sync_recovers` depends on the outbox for this reason.
- Deleting a vertex that is already a tombstone passes validation (`geometry.go:767`)
  and then fails to apply, a case `document.go:310` calls a bug. `Apply` in `GeometryReplicas` has it as a
  step that is not taken.
- `applyRemoveRing` and `validateLocalOp` refuse only a ring marked exterior (`geometry.go:597`, `geometry.go:805`),
  which the ring of a point or line never is: `remove_ring` is accepted there and tombstones the only ring for good.
  `ops.go:28` and `ops.go:268` say that it tombstones an interior ring of a polygon. The model follows the code.
- `AddedRingID` and `InitialRingID` share a format (`ops.go:95`, `types.go:109`): a site whose
  ID is `0` derives the ID of a hole of the base. The runs use site IDs from 1, the theorems assume `RingIDAssumption`.
- An edit that names an operation which defines no geometry is quarantined or waits for ever,
  depending on which of the two arrived first (`document.go:787-794`). While it waits,
  `Rebase` is refused.
  `WaitingIsMissing` leaves such edits open, `EditsWaitForMissing` says that none is queued once the operation is known.
- The watermark of a batch handed out before a cut can be acknowledged after it (`rebase.go:86-87` resets
  the numbering under the same site ID), and then stands for operations of the new epoch that were never
  published. `document.go:247-249` calls the pair of `PendingOps` and `MarkSynced` race-free. With `LateAcks = TRUE`
  in `epochs.cfg`, TLC finds `AcknowledgedIsStored` violated; the run keeps to callers who
  drop old watermarks at a cut.
- `Document.MergeOps` compares document IDs but, unlike `MergeDelta`, no base hashes, so operations can be merged across
  documents of one ID and different bases. `OneBasePerEpoch` shows that a coordinated cut makes no such documents.
- An edit that waits for an operation which is known but defines no generation is released by a restart: it is
  quarantined when the pending edits are applied again. `RestartIsFaithful` says what comes back
  is what still waits for something missing.
- `types.go:157-158` describes degenerate rings as those with fewer than three distinct vertices;
  `degenerateRing` counts consecutive positions, so a ring that runs back and forth between two positions
  stays. `types.go:131` and `types.go:136` say that snapshots are validated and repaired; `snapshotLocked` does neither,
  views do.
- Whether a register write is reported as applied or as superseded depends on the order
  of arrival (`document.go:755`), although the state does not; `document.go:60-61` says otherwise.

## Proofs

`FrontierClockProofs` proves for one clock, from the assumptions that site IDs are
numbers and `MaxTimestamp` is positive, that whatever is observed, in whatever order,
the clock equals the one that observes the whole set at once, and that a gap is visible.
The inductive invariant is `GapsAreVisible` with the types: the number
after the frontier has been neither observed nor staged, all up to it has been,
and exactly the rest is staged. `SiteClocksProofs` has the facts about maxima and about the loop of `observe` that
these proofs and the next ones share.

`DocumentSyncProofs` proves for any number of replicas, sites, payloads and
bounds, with the identity contract kept or broken,

- `TypeOK`: every field stays in its range, the exclusive bound included,
- `FrontierExact`: the operations held of a site are `1..frontier` and the staged ones,
- `CompactedIsHeld`: the compaction watermark never exceeds the frontier,
- `LogComplete`: everything above the watermark is in the log,
- `ClockDominates`: the Lamport clock is at or above every timestamp held,
- `SnapshotsExact`: a saved snapshot accounts for what it folded in.

None is inductive alone. Merging a delta adopts the sender's watermark, so
`LogComplete` needs `CompactedIsHeld`, which needs the refusal of compaction gaps and
`FrontierExact`; a restart replaces a replica by a snapshot, so whatever is claimed of
replicas must be claimed of saved snapshots, which is `SnapshotsExact`. Their
conjunction `IInv` is inductive: `InitIInv`, one lemma per action (`ApplyInv`, `MergeOpsInv`,
`MergeDocumentInv`, `OutboxInv`, `SendInv`, `LoseInv`, `SnapshotInv`, `RestoreInv`),
and `NextIInv` that puts them together. `RecordPreserves` is the step they share: recording
operations under a clock that covers their timestamps and a watermark that was held before.

The module goes on with history: `NeverForgets` follows from `IInv`, since every step that is not a restart
leaves each replica's content, frontier, watermarks and clock at or above what they were
(`Grows`, one lemma per action); since knowledge is the frontier (`KnowledgeIsFrontier`, which
needs `CompactedIsHeld`), the vector clock shown to peers never goes back either.

Its second part proves `OwnNumbering`, `OutboxComplete` and `SnapshotsRestorable`, again
with or without the identity contract. The strengthening `LocalInv` says that the
replica's own operations are `1..localSeq` (`OwnSeqs`), that unacknowledged ones are in
the log even below the compaction watermark (`UnackedLogged`), that inside one replica an
identity stands for one operation (`LocallyUnique`), that acknowledgements stay within what was
issued and handed out, and the same of saved snapshots. `OwnSeqs` survives a merge because
`mergeOpsLocked` refuses own operations beyond `localSeq`, and a restart because a snapshot's clock
and its applied numbers agree on its own site. `OutboxSize` counts the outbox, the
count `validateSnapshot` compares, by a bijection with the unacknowledged numbers.

Its third part assumes the identity contract (`IdentityContract`: distinct home sites, no resumption from
a snapshot that misses distributed operations) and proves `UniqueIdentity`,
`SiteOrder`, `Convergence` and `DeltaComplete`. `IdentityInv` adds `OneHolder` and
`HolderLeads`: no copy of a site's operation, in any replica, snapshot, message
or batch, is numbered beyond the process that holds the site ID. With `LocalInv` that process then holds every
operation of its site (`HolderHasAll`), so the next one it issues has a number and a timestamp above
all of them. Only `Restore` needs the contract: that is where
`finding_identity_reuse` breaks it.

Its last part proves `SyncImplementsExchange`, that under the identity contract `DocumentSync` implements
`OpExchange`. From the conjunction of the three invariants it shows for each action which step it is for
a reader who sees only sets. The core is `MergeIsUnion`: what a merge drops as a duplicate or as compacted is
really there, so merging unites the content with everything the message carries; a pull therefore
brings all its peer holds, although it transmits only what lies beyond a vector clock.

The module ends with epochs, and proves all five properties of `DocumentEpochs` for any number of sessions, sites and epochs, each
with an invariant of its own on top of those before. None is inductive, since what is wrong may still be waiting in
a batch, a fetched result or a checkpoint while numbering starts over with every cut.

- `EpochInv`, for `EpochsStayApart`: logs, batches, fetched results and every operation set of a checkpoint belong to
  one epoch each, and a cut is announced only where there is a next epoch. Late acknowledgements are allowed.
- `DocumentsInv`: what the proofs of `DocumentSync` say of documents and snapshots (`IInv`, `LocalInv`) still holds when
  documents start over at a cut, and of checkpoints (`SavedOwn`). The facts about merging and restoring are the
  lemmas above; `RebaseIInv` and `RebaseLocal` are new.
- `NamesInv`, for `SinceIsComplete`: within an epoch an identity stands for one operation wherever copies of it are,
  bases included (`OneMeaning`), because a site ID has one holder, nothing of a site is ahead of that holder in its epoch
  (`NothingAhead`) and a fresh ID was never used (`AllMinted`). Then `Since` may skip by number what the vector clock covers.
- `BasesInv`, for `OneBasePerEpoch`: an epoch is left under one clock (`OneCut`), and a base contains of every epoch before
  it exactly the numbers up to that clock (`FoldedUpTo`). This is where `Settled` is needed: the clock equals
  the knowledge and no gap has anything behind it. With `OneMeaning`, equal numbers are equal operations.
- `StoreInv`, for `AcknowledgedIsStored` and `StoreHasNoGap`: a batch reaches down to the first operation of its site once
  what is stored of its epoch is added (`BatchesFollow`), and nobody resumes the site ID of a checkpoint (`SitesSpent`).

Two theorems assume `HomesDiffer`, that processes start under different site IDs, which is what `NewSiteID` is
for; two assume `~ LateAcks`, that callers drop old watermarks at a cut, without which TLC refutes the first of them.

`DocumentReplicasProofs` proves all seven properties of `DocumentReplicas` for any number of replicas, peers, features,
properties and operations, in whatever order, batches and repetitions these arrive. The argument goes from
one operation to a run.

- `Means(d, ops)` says that the features of document `d` are what `ops` mean and that its queue holds edits of `ops` whose
  generation is missing, all of those whose operation is missing altogether included.
- `ApplyMeans`: an operation takes a document that means `recv` to one that means `recv` and the operation, provided
  log and watermark know exactly `recv` (`Knows`). There is one lemma per type of operation (`GenerationMeans`,
  `DeleteMeans`, `PropertyMeans`, `EditMeans`), over lemmas that say how the newest of a set changes when an operation joins it.
- `BatchMeans`: so does a batch. Applying a batch is a recursive function over its subsets, so this is an induction over
  the stamps of a finite set (`StampInduction`), proved from a minimal counterexample with `WFMin` of the library. It gives more: an edit
  waits after the batch only if what it names was neither received nor older in the batch.
- `Sound` is what holds of one replica: `Means`, with clock above everything received, log and watermark that account for
  it, own operations numbered up to `localSeq`, and no own edit waiting. The last is needed by a snapshot, whose outbox
  enters the log before pending edits are applied, and holds because a command that would wait is refused.
- `IssuedInv` is what holds of the operations under way: identities are unique, and an edit names the base or an
  operation that exists and is older. A peer's numbers stay below the timestamps in use, so that they stay in range. That it is older is why
  applying in stamp order suffices: in a batch and in a restart, what an edit names is applied before it.
- `CommandIsSound`, `MergeIsSound` and `RestartIsSound` preserve `Sound`; the last rests on `FeatureComesBack` (restoring is the
  inverse of taking a snapshot, on features that mean something), `SnapshotIsValid` and `RestoredMeans`.

`ReplicasInv` is `IssuedInv` with `Sound` of every replica. `FeaturesAreMeant`, `WaitingIsMissing`, `EditsStayInTheirGeneration`,
`RestartIsFaithful` and `TypeOK` follow from it; the two action properties take one lemma per action more
(`MergeKeeps`, `RestartKeeps`, `CommandOutcome`). The watermark here is the exact one
of `FrontierClock` (`KnowledgeIsExact`). Nothing is assumed beyond the modules' named assumptions: replicas and peers are different sites, and the
zero identity is none that an operation can have.

`GeometryEngineProofs` and `GeometryReplicasProofs` prove every property of `GeometryReplicas` for any base, any
number of replicas and peers and any operations, delivered in whatever order and batches. The first module is about the
engine, the second about replicas of it.

- A ring's vertices are a tree. `WalkIsDocumentOrder` says that the loop of `walk`, with its stack, lists every vertex
  once, in `DocOrder`: parents before children, newer siblings and all that hangs on them before older ones. Two trees
  agree on the order of the vertices they share.
- `Reflects(g, A)` says what it means that the operations `A` have had their effect on geometry `g`: which parts,
  rings and vertices there are, their keys and parents, who deleted them and which move is the newest. It says nothing of the
  order in which `A` came. `Done(g, L)` are the operations of log `L` that are admitted and do not wait.
- `Answers` is about one attempt: an operation waits for something it really lacks, is quarantined, or takes effect, so that
  `g` then reflects `A` and the operation. One lemma per operation.
- The drain empties the queue of everything that has just become available, and what it releases makes more available.
  `Underway` is the invariant of its two nested loops: which operations have been taken from a queue and not been
  tried again, which dependencies have not been visited. At its end `Settled` holds: what waits, waits in the queue of a
  dependency that is missing, everything else has had its effect or is quarantined, and what was reported says so
  (`EngineApplySettles`, one operation; `BatchSettles`, a batch).
- `IInv` is the inductive invariant of the replicas: what was issued is well formed, unique, and refers only to older
  operations (`Exchanged`); every replica's geometry is settled with its log (`ReplicaInv`), and the numbers of a peer stay
  below the timestamps in use (`PeerInv`). That an operation is newer than what it refers to is why nothing waits for
  itself. `TypeOK`, `ReportsAreCurrent` and `QuarantineAgrees` follow.
- `SameOrder` (`TwoViewsAgree`), `NothingComesBack` and `InsertsRightBehind` compare two states or two replicas: the
  order of two vertices is a function of their keys and parents, effects only grow, and a local insert has the newest key.
- `FloorFallsOnlyTogether` needs more than `IInv`. `FloorInv` says that a replica has had the effect of all its own operations, and
  that on its geometry *its own* deletes alone leave every ring what a base needs. `DoneGrowsWithLog` carries this to
  the replicas that received them: with more operations delivered no fewer have had effect.
- `SameAsReplay` has two halves. `EffectsDecide`: two geometries that reflect the same operations are equal, so it
  is enough to look at any one order of arrival. `SettledIsReplayed` takes the order of stamps, where
  each step is the one of the newest operation so far: `PerformIsStep` shows for each of the seven operations that adding it to a
  tree and listing the tree is inserting it into the list, `NothingToDo` that the sequential editor ignores what
  an engine would keep waiting. `ReplayStep` puts them together, by induction over the stamps of a finite set.
- `ReloadIsFaithful`: the records of a sequence, read back in the order in which they were written, build the same tree,
  since parents come first (`SnapshotSeqIs`, `Restored`); the same of parts and rings; and the waiting operations, applied again, wait again
  (`Reloaded`). `GeometrySnapshotIsValid` goes through the checks of `validateGeometrySnapshot`: lists are strictly
  ordered by key (`ListedStrictly`), what the base came with is still first and complete (`InitialComeFirst`), IDs follow from keys, and
  every stamp is one the document has seen (`LatestCovers`).

One assumption is made beyond types. `RingIDAssumption` excludes the site ID `0` where the base has several rings: there `AddedRingID`
and `InitialRingID` name two rings alike (see the observations), and `Reflects` would be false of what the engine then does.

`Loops` is about the loops of the models. A recursive function is a `CHOOSE`, of which nothing is known until there is
shown to be one: `CountedLoop` and `BatchLoop` do so for loops that count and for loops over a finite batch, and other
modules instantiate them with the body of their loop.

`PolygonRingsProofs` proves all three properties of `PolygonRings`, for rings of any length over any positions.
`OpenAfterExport` shows that parsing takes off exactly the position that export appended, hence `BaseIsWhatWasVisible`. For the
repairs, twice the area is a walk along the edges and the edge that closes the ring (`AreaIsWalk`, which needs that the
order of a sum does not matter, `SumAnyOrder`). Then dropping repeats and closing keep it and reversing negates it (`DedupedRing`, `ClosedRing`,
`TurnedRing`), each without undoing what the others did: `IsRepaired` is what they leave together (`RingIsRepaired`), and a
ring that is so is left alone (`RepairedStays`). A ring that has no repeats, is closed unless shorter than three, and is not degenerate has
four positions, and with the orientation that is what the checks ask (`RepairedRingIsValid`).

Checked by TLC only: `EventuallyEqual`, since liveness under fairness is beyond the prover. Every other property of the passing runs is
a theorem. The findings are counterexamples of TLC.

## Not modelled

Coordinates (outside `PolygonRings`), layouts, GeoJSON text and property values are data that no property here tells
apart; `geojson.go` and `properties.go` parse and format them and keep no state. Derived IDs are tuples, so
collisions through a colon inside a site ID are not represented.
Payloads that fail to parse, and envelope checks, reject an operation before it has an effect and are left
out. `GeometryCRDT` has an outbox of its own that repeats the one of `Document`. Document operations are not
composed with the geometry engine: the geometry of a generation is the set of edits that reached its engine,
which `SameAsReplay` shows to determine it. The refusals of `Rebase` for waiting edits and for rings no base may
have are steps not taken in `DocumentEpochs`. Floating-point rounding in `signedAreaXY` and the library
that checks OGC validity are outside: positions are integers, and `ValidPolygonRings` is what `ValidatePolygonRings` tests itself.

## Plan

1. *Done.* Clocks; synchronisation with restarts; document state; geometry.
   Every safety property of synchronisation proved.
2. *Done.* Snapshots of features and geometries, with restarts and compaction; epochs and the store; views of polygons;
   the abstract exchange and the proof that synchronisation implements it.
3. *Done.* Theorems: the meaning of a set of operations and every property of `DocumentReplicas`; every property of
   `DocumentEpochs`.
4. *Done.* Theorems: every property of `GeometryReplicas` and of `PolygonRings`, the drain and the replay being
   recursive functions now.
5. `DocumentReplicas` over `GeometryEngine` instead of sets of edits, for `Rebase` from engine states and the refusals
   for waiting edits.
