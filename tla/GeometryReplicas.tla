---------------------------- MODULE GeometryReplicas ----------------------------
(***************************************************************************)
(* Replicas of one geometry that apply local operations and merge the      *)
(* operations of others (geometry_crdt.go), batch by batch, in whatever    *)
(* order a transport delivers them.                                        *)
(*                                                                         *)
(* Peers whose implementation does not validate its commands take part as  *)
(* sources of operations only.                                             *)
(***************************************************************************)
EXTENDS SequentialGeometry

CONSTANTS
  Replica,        \* the replicas, named by their site IDs
  Peer,           \* sites of peers that do not validate
  Actions,        \* the actions that are used
  PeerActions,    \* those of them that peers use
  MaxOps,         \* bound on the operations issued altogether
  MaxPeerOps      \* bound on those of them that peers issue

ASSUME ReplicaAssumption ==
  /\ Replica \subseteq Site
  /\ Peer \subseteq Site \ Replica
  /\ PeerActions \subseteq Actions
  /\ MaxOps \in Nat /\ MaxPeerOps \in Nat

(* Of a site named "0" the second ring added would have the ID of a ring   *)
(* that a base of several rings came with.                                 *)
ASSUME RingIDAssumption == 0 \in Site => Len(Shape) = 1

VARIABLES
  engine,         \* GeometryCRDT.state
  clock,          \* GeometryCRDT.clock
  localSeq,       \* GeometryCRDT.localSeq
  log,            \* GeometryCRDT.ops and GeometryCRDT.seen
  reported,       \* how each operation was reported to the caller last
  issued          \* every operation under way

vars == << engine, clock, localSeq, log, reported, issued >>

Init ==
  /\ engine = [r \in Replica |-> NewGeometryState]
  /\ clock = [r \in Replica |-> 0]
  /\ localSeq = [r \in Replica |-> 0]
  /\ log = [r \in Replica |-> {}]
  /\ reported = [r \in Replica |-> << >>]
  /\ issued = {}

-----------------------------------------------------------------------------
(* The rings of a geometry, each by the part it is in and its own ID.      *)
Rings(g) ==
  UNION { { << p, k >> : k \in DOMAIN g.part[p].ring } : p \in DOMAIN g.part }

VerticesOf(g, ring) == g.part[ring[1]].ring[ring[2]].seq

(* The vertices, each by its part, its ring and its own ID.                *)
Addresses(g) ==
  UNION { { << ring[1], ring[2], v >> : v \in DOMAIN VerticesOf(g, ring).vertex } :
            ring \in Rings(g) }

Op(site, seq, ts, action, p, k, v) ==
  [site |-> site, seq |-> seq, ts |-> ts, action |-> action, part |-> p, ring |-> k,
   vertex |-> v]

Commands(g, site, seq, ts) ==
  { op \in
      UNION { { Op(site, seq, ts, "insert_vertex", a[1], a[2], Root),
                Op(site, seq, ts, "insert_vertex", a[1], a[2], a[3]),
                Op(site, seq, ts, "move_vertex", a[1], a[2], a[3]),
                Op(site, seq, ts, "delete_vertex", a[1], a[2], a[3]),
                Op(site, seq, ts, "add_ring", a[1], Root, Root),
                Op(site, seq, ts, "remove_ring", a[1], a[2], Root),
                Op(site, seq, ts, "add_part", Root, Root, Root),
                Op(site, seq, ts, "remove_part", a[1], Root, Root) } : a \in Addresses(g) } :
      op.action \in Actions }

Exhausted(r) == clock[r] + 1 >= MaxTimestamp \/ localSeq[r] + 1 >= MaxTimestamp

(* A local operation.  (A bound variable names the result, so that it is   *)
(* computed once.)                                                         *)
Apply(r, op) ==
  /\ ~ Exhausted(r)
  /\ ValidLocalOp(engine[r], op)
  /\ \E result \in {EngineApply(engine[r], op)} :
       /\ result.outcomes[op] = "applied"
       /\ engine' = [engine EXCEPT ![r] = result.state]
  /\ clock' = [clock EXCEPT ![r] = @ + 1]
  /\ localSeq' = [localSeq EXCEPT ![r] = @ + 1]
  /\ log' = [log EXCEPT ![r] = @ \cup {op}]
  /\ reported' = [reported EXCEPT ![r] = With(@, op, "applied")]
  /\ issued' = issued \cup {op}

LocalStep ==
  /\ Cardinality(issued) < MaxOps
  /\ \E r \in Replica :
       \E op \in Commands(engine[r], r, localSeq[r] + 1, clock[r] + 1) : Apply(r, op)

\* Mutant of LatestTimestamp: the batch is not looked at.
LocalTimestamp(n, ops) == n

LatestTimestamp(n, ops) == Max({n} \cup {op.ts : op \in ops})

(* A peer issues an operation that addresses anything anybody knows.       *)
PeerStep ==
  /\ Cardinality(issued) < MaxOps
  /\ Cardinality({op \in issued : op.site \in Peer}) < MaxPeerOps
  /\ LatestTimestamp(0, issued) + 1 \in Number
  /\ \E site \in Peer, r \in Replica :
       \E op \in Commands(engine[r], site, Cardinality({o \in issued : o.site = site}) + 1,
                          LatestTimestamp(0, issued) + 1) :
         /\ op.action \in PeerActions
         /\ issued' = issued \cup {op}
  /\ UNCHANGED << engine, clock, localSeq, log, reported >>

-----------------------------------------------------------------------------
(* One operation, with what it releases: the last report counts.           *)
Merged(m, result) ==
  LET told == result.outcomes
  IN  [state |-> result.state,
       reported |-> [o \in DOMAIN told \cup DOMAIN m.reported |->
                       IF o \in DOMAIN told THEN told[o] ELSE m.reported[o]]]

MergeOne(m, op) == Merged(m, EngineApply(m.state, op))

(* All of ops, one after the other: the newest comes last.                 *)
InStampOrder(start, ops) ==
  LET after[done \in SUBSET ops] ==
        IF done = {}
          THEN start
          ELSE LET op == Newest(done) IN MergeOne(after[done \ {op}], op)
  IN  after[ops]

(* Every operation that is new.                                            *)
MergeAll(r, ops) ==
  InStampOrder([state |-> engine[r], reported |-> reported[r]], ops \ log[r])

MergeOps(r, ops) ==
  \E merged \in {MergeAll(r, ops)} :
    /\ \A op \in ops : op.site = r => op.seq <= localSeq[r]
    /\ engine' = [engine EXCEPT ![r] = merged.state]
    /\ log' = [log EXCEPT ![r] = @ \cup ops]
    /\ reported' = [reported EXCEPT ![r] = merged.reported]
    /\ clock' = [clock EXCEPT ![r] = LatestTimestamp(@, ops)]
    /\ UNCHANGED << localSeq, issued >>

(* Merge copies the log and the clock of q; a copy that is merged late is  *)
(* one of the sets MergeOps may be given.                                  *)
Merge(r, q) ==
  \E merged \in {MergeAll(r, log[q])} :
    /\ r # q
    /\ engine' = [engine EXCEPT ![r] = merged.state]
    /\ log' = [log EXCEPT ![r] = @ \cup log[q]]
    /\ reported' = [reported EXCEPT ![r] = merged.reported]
    /\ clock' = [clock EXCEPT ![r] = Max({LatestTimestamp(@, log[q]), clock[q]})]
    /\ UNCHANGED << localSeq, issued >>

MergeStep ==
  \E r \in Replica :
    \/ \E ops \in SUBSET issued : MergeOps(r, ops)
    \/ \E q \in Replica : Merge(r, q)

Next == LocalStep \/ PeerStep \/ MergeStep

Spec == Init /\ [][Next]_vars

-----------------------------------------------------------------------------
(***************************************************************************)
(* Properties.                                                             *)
(***************************************************************************)
(* Every variable holds what its Go field can hold; the orders list every  *)
(* part, ring and vertex once.                                             *)
TypeOK ==
  \A r \in Replica :
    LET g == engine[r]
    IN  /\ clock[r] \in Count /\ localSeq[r] \in Count
        /\ log[r] \subseteq issued
        /\ DOMAIN reported[r] = log[r]
        /\ Len(g.parts) = Cardinality(DOMAIN g.part) /\ ToSet(g.parts) = DOMAIN g.part
        /\ \A p \in DOMAIN g.part :
             /\ ToSet(g.part[p].rings) = DOMAIN g.part[p].ring
             /\ Len(g.part[p].rings) = Cardinality(DOMAIN g.part[p].ring)
        /\ \A ring \in Rings(g) :
             LET order == Walk(VerticesOf(g, ring))
             IN  /\ ToSet(order) = DOMAIN VerticesOf(g, ring).vertex
                 /\ Len(order) = Cardinality(DOMAIN VerticesOf(g, ring).vertex)

(* Whatever was delivered in whatever order, a geometry is what performing *)
(* the same operations one by one in stamp order would have made of it.    *)
SameAsReplay == \A r \in Replica : ListOf(engine[r]) = Replay(log[r])

Precedes(order, v, w) ==
  \E i, j \in DOMAIN order : i < j /\ order[i] = v /\ order[j] = w

(* Two replicas never see the vertices they both have in different orders, *)
(* even while they know different operations.                              *)
SameOrder ==
  \A r \in Replica, q \in Replica :
    \A ring \in Rings(engine[r]) \cap Rings(engine[q]) :
      LET here  == Walk(VerticesOf(engine[r], ring))
          there == Walk(VerticesOf(engine[q], ring))
      IN  \A v \in ToSet(here) \cap ToSet(there), w \in ToSet(here) \cap ToSet(there) :
            Precedes(here, v, w) <=> Precedes(there, v, w)

(* A vertex inserted locally appears right behind its predecessor.         *)
InsertsRightBehind ==
  [][ \A r \in Replica :
        localSeq'[r] > localSeq[r] =>
          \A op \in log'[r] \ log[r] : op.action = "insert_vertex" =>
            LET order == << Root >> \o Walk(VerticesOf(engine'[r], << op.part, op.ring >>))
                at    == Min({ i \in DOMAIN order : order[i] = op.vertex })
            IN  order[at + 1] = InsertedVertexID(op) ]_vars

(* Nothing deleted comes back and no position gives way to an older one.   *)
NothingComesBack ==
  [][ \A r \in Replica : \A ring \in Rings(engine[r]) :
        LET old == VerticesOf(engine[r], ring)
            new == VerticesOf(engine[r], ring)'
        IN  \A v \in DOMAIN old.vertex :
              /\ Has(new, v)
              /\ old.vertex[v].deleted => new.vertex[v].deleted
              /\ ~ Less(new.vertex[v].moveReg, old.vertex[v].moveReg) ]_vars

(* What a restart makes of a geometry: the snapshot read back, and the     *)
(* waiting operations applied to it again in stamp order.                  *)
Reload(g) ==
  InStampOrder([state |-> RestoreGeometry(SnapshotGeometry(g)), reported |-> << >>],
               WaitingOps(g)).state

(* The snapshot of a geometry is accepted whenever it is taken, and brings *)
(* back every part, ring, vertex, tombstone, register and count, and every *)
(* operation to the queue it waited in.                                    *)
ReloadIsFaithful ==
  \A r \in Replica :
    LET g    == engine[r]
        back == Reload(g)
    IN  /\ ValidGeometrySnapshot(SnapshotGeometry(g), clock[r],
             [s \in Site |-> Max({0} \cup {op.seq : op \in {o \in log[r] : o.site = s}})])
        /\ back.parts = g.parts /\ back.part = g.part
        /\ \A dep \in DOMAIN back.pending \cup DOMAIN g.pending :
             ToSet(Waiting(back, dep)) = ToSet(Waiting(g, dep))

(* A ring falls below what a base geometry needs, which Rebase then would  *)
(* refuse, only where two sites deleted from it, or one that does not      *)
(* validate.                                                               *)
FloorFallsOnlyTogether ==
  \A r \in Replica : \A ring \in Rings(engine[r]) :
    LET deleters == {op.site : op \in
                      {o \in log[r] : /\ o.action = "delete_vertex"
                                     /\ << o.part, o.ring >> = ring}}
    IN  /\ log[r] = issued
        /\ Cardinality(VisibleVertices(VerticesOf(engine[r], ring))) < FewestVertices
        => Cardinality(deleters) > 1 \/ deleters \cap Peer # {}

(* A caller was told "buffered" last of exactly the operations that wait:  *)
(* a released operation is always reported again.                          *)
ReportsAreCurrent ==
  \A r \in Replica :
    WaitingOps(engine[r]) = { op \in log[r] : reported[r][op] = "buffered" }

(* Operations are quarantined everywhere or nowhere, once they stop        *)
(* waiting.                                                                *)
QuarantineAgrees ==
  \A r \in Replica, q \in Replica : \A op \in log[r] \cap log[q] :
    /\ reported[r][op] = "quarantined"
    /\ reported[q][op] # "buffered"
    => reported[q][op] = "quarantined"
=============================================================================
