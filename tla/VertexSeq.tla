------------------------------- MODULE VertexSeq -------------------------------
(***************************************************************************)
(* The vertices of one ring (seq.go): an ordered tree in which every       *)
(* vertex hangs below the vertex it was inserted after, with tombstones    *)
(* for deleted vertices and a last-writer register for each position.      *)
(*                                                                         *)
(* An ID is a tuple where the code joins the same fields with ":"; a site  *)
(* is a number, as a string of digits would be.  A coordinate is named by  *)
(* the ID it came with or the move that wrote it.                          *)
(***************************************************************************)
EXTENDS SiteClocks, SequencesExt

Root == << >>                           \* the virtual root; also "no ID"

InitialPartID(p)          == << "part", p >>
InitialRingID(p, r)       == << "ring", p, r >>
InitialVertexID(r, i)     == << "init", r, i >>
AddedPartID(op)           == << "part", op.site, op.seq >>
AddedRingID(op)           == << "ring", op.site, op.seq >>
InsertedVertexID(op)      == << "op", op.site, op.seq >>
AddRingVertexID(op, i)    == << "v", op.site, op.seq, i >>
AddPartRingID(op, r)      == << "ring", op.site, op.seq, r >>
AddPartVertexID(op, r, i) == << "v", op.site, op.seq, r, i >>

MovedTo(op) == << "moved", op.site, op.seq >>

-----------------------------------------------------------------------------
(***************************************************************************)
(* Ordering keys.                                                          *)
(***************************************************************************)
InitialKey(pos) == [initial |-> TRUE, pos |-> pos, stamp |-> NoStamp]

OpKey(stamp) == [initial |-> FALSE, pos |-> 0, stamp |-> stamp]

\* Mutant of SiblingBefore: timestamps alone.
SiblingByTimestamp(a, b) ==
  \/ ~ a.initial /\ b.initial
  \/ a.initial /\ b.initial /\ a.pos < b.pos
  \/ ~ a.initial /\ ~ b.initial /\ b.stamp.ts < a.stamp.ts

(* Siblings below one vertex: inserted ones first, newest first.           *)
SiblingBefore(a, b) ==
  \/ ~ a.initial /\ b.initial
  \/ a.initial /\ b.initial /\ a.pos < b.pos
  \/ ~ a.initial /\ ~ b.initial /\ Less(b.stamp, a.stamp)

(* Where to put a new entry among sorted ones: before the first that it is *)
(* ahead of.                                                               *)
Position(siblings, IsAheadOf(_)) ==
  Min({ i \in 1 .. Len(siblings) : IsAheadOf(siblings[i]) } \cup {Len(siblings) + 1})

-----------------------------------------------------------------------------
(***************************************************************************)
(* The tree.                                                               *)
(***************************************************************************)
NewVertexSeq == [vertex |-> << >>, children |-> [p \in {Root} |-> << >>], visible |-> 0]

(* The map f with y at x.                                                  *)
With(f, x, y) == [z \in DOMAIN f \cup {x} |-> IF z = x THEN y ELSE f[z]]

Has(s, id) == id \in DOMAIN s.vertex

NewVertex(parent, key, coord) ==
  [parent |-> parent, key |-> key, coord |-> coord, deleted |-> FALSE, moveReg |-> NoStamp]

\* Mutant of Insert: below another vertex, the siblings are not written back.
InsertUnlinked(s, id, parent, key, coord) ==
  [vertex |-> With(s.vertex, id, NewVertex(parent, key, coord)),
   children |-> With([s.children EXCEPT ![parent] = IF @ = << >> THEN << id >> ELSE @],
                     id, << >>),
   visible |-> s.visible + 1]

Insert(s, id, parent, key, coord) ==
  LET at == Position(s.children[parent],
                     LAMBDA sibling : SiblingBefore(key, s.vertex[sibling].key))
  IN  [vertex |-> With(s.vertex, id, NewVertex(parent, key, coord)),
       children |-> With([s.children EXCEPT ![parent] = InsertAt(@, at, id)], id, << >>),
       visible |-> s.visible + 1]

(* Vertices that come together form a chain in their order.                *)
Chain(ids) ==
  LET chain[n \in 0 .. Len(ids)] ==
        IF n = 0
          THEN NewVertexSeq
          ELSE Insert(chain[n - 1], ids[n], IF n = 1 THEN Root ELSE ids[n - 1],
                      InitialKey(n - 1), ids[n])
  IN  chain[Len(ids)]

\* Mutant of MoveWins: the last write to arrive wins.
MoveAlwaysWins(s, id, stamp) == TRUE

MoveWins(s, id, stamp) ==
  s.vertex[id].moveReg = NoStamp \/ Newer(stamp, s.vertex[id].moveReg)

Move(s, id, stamp, coord) ==
  [s EXCEPT !.vertex[id].coord = coord, !.vertex[id].moveReg = stamp]

Delete(s, id) == [s EXCEPT !.vertex[id].deleted = TRUE, !.visible = @ - 1]

(* One vertex is visited, and its children come to the top of the stack.   *)
WalkStep(s, w) ==
  IF w.stack = << >>
    THEN w
    ELSE [order |-> Append(w.order, Head(w.stack)),
          stack |-> s.children[Head(w.stack)] \o Tail(w.stack)]

(* Document order: depth first.  As many steps as there are vertices.      *)
Walk(s) ==
  LET all == Cardinality(DOMAIN s.vertex)
      walked[n \in 0 .. all] ==
        IF n = 0
          THEN [order |-> << >>, stack |-> s.children[Root]]
          ELSE WalkStep(s, walked[n - 1])
  IN  walked[all].order

(* What is shown, in the order of Walk.                                    *)
VisibleVertices(s) == {id \in DOMAIN s.vertex : ~ s.vertex[id].deleted}
=============================================================================
