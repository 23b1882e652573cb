---------------------------- MODULE DocumentFeatures ----------------------------
(***************************************************************************)
(* What operations do to the features of a Document (document.go): each    *)
(* feature is a bundle of last-writer-wins registers for its liveness, its *)
(* geometry generation and its properties, and geometry edits wait until   *)
(* the generation they are tagged with arrives.                            *)
(*                                                                         *)
(* A written value is named by the stamp of the operation that wrote it.   *)
(* The geometry of a generation is the set of edits that reached its       *)
(* engine, of which GeometryReplicas says what they amount to; every edit  *)
(* here is one an engine applies at once, an insert at the head of a line. *)
(***************************************************************************)
EXTENDS SiteClocks

CONSTANTS
  Feature,        \* feature IDs
  BaseFeature,    \* the features of the base collection, with geometry
  Property,       \* property keys
  NoRef           \* the zero OpRef: the base generation

ASSUME FeatureAssumption == BaseFeature \subseteq Feature /\ NoRef \notin Site \X Number

-----------------------------------------------------------------------------
(***************************************************************************)
(* Operations.  "geometry" says whether an insert or a set carries one.    *)
(***************************************************************************)
Command(type, feature, geometry, properties, gen) ==
  [type |-> type, feature |-> feature, geometry |-> geometry,
   properties |-> properties, gen |-> gen]

Issue(site, seq, ts, shape) ==
  [site |-> site, seq |-> seq, ts |-> ts,
   type |-> shape.type, feature |-> shape.feature, geometry |-> shape.geometry,
   properties |-> shape.properties, gen |-> shape.gen]

InsertFeature(f, geometry, ps) == Command("insert_feature", f, geometry, ps, NoRef)
DeleteFeature(f)               == Command("delete_feature", f, FALSE, {}, NoRef)
SetGeometry(f, geometry)       == Command("set_geometry", f, geometry, {}, NoRef)
SetProperty(f, p)              == Command("set_property", f, FALSE, {p}, NoRef)
DeleteProperty(f, p)           == Command("delete_property", f, FALSE, {p}, NoRef)
EditGeometry(f, gen)           == Command("edit_geometry", f, FALSE, {}, gen)

-----------------------------------------------------------------------------
(***************************************************************************)
(* Features.                                                               *)
(***************************************************************************)
NoGeometry == [present |-> FALSE, edits |-> {}]

GeometryWith(edits) == [present |-> TRUE, edits |-> edits]

Unwritten == [ref |-> NoStamp, deleted |-> FALSE]

(* A feature nothing was said about: from the base, or an invisible shell. *)
Untouched(f) ==
  [isBase |-> f \in BaseFeature, createReg |-> NoStamp, deleteReg |-> NoStamp,
   genID |-> NoRef, genStamp |-> NoStamp,
   geometry |-> IF f \in BaseFeature THEN GeometryWith({}) ELSE NoGeometry,
   seenGens |-> IF f \in BaseFeature THEN {NoRef} ELSE {},
   properties |-> [p \in Property |-> Unwritten]]

NewDocument == [features |-> [f \in Feature |-> Untouched(f)], pendingGen |-> {}]

Visible(feature) ==
  IF feature.deleteReg = NoStamp
    THEN feature.isBase \/ feature.createReg # NoStamp
    ELSE Newer(feature.createReg, feature.deleteReg)

-----------------------------------------------------------------------------
(***************************************************************************)
(* Applying one operation.  A result is [doc, outcomes]: the document and  *)
(* what is reported of the operation and of those it released.             *)
(***************************************************************************)
Result(doc, op, outcome) == [doc |-> doc, outcomes |-> [o \in {op} |-> outcome]]

PutFeature(doc, op, feature) == [doc EXCEPT !.features[op.feature] = feature]

\* Mutant of WriteRegister: the last write to arrive wins.
WriteRegisterAlways(register, op) == [ref |-> StampOf(op), deleted |-> op.type = "delete_property"]

WriteRegister(register, op) ==
  IF register.ref # NoStamp /\ ~ Newer(StampOf(op), register.ref)
    THEN register
    ELSE [ref |-> StampOf(op), deleted |-> op.type = "delete_property"]

WriteProperties(feature, op) ==
  [feature EXCEPT !.properties =
     [p \in Property |-> IF p \in op.properties THEN WriteRegister(@[p], op) ELSE @[p]]]

NewerStamp(a, b) == IF Newer(a, b) THEN a ELSE b

WaitingFor(doc, op) == {e \in doc.pendingGen : e.gen = RefOf(op)}

\* Mutant of Forget: the operations that waited for this one stay.
ForgetNone(doc, op) == doc

Forget(doc, op) == [doc EXCEPT !.pendingGen = {e \in @ : e.gen # RefOf(op)}]

(* A generation that loses is remembered as seen.                          *)
LoseGeneration(feature, op) == [feature EXCEPT !.seenGens = @ \cup {RefOf(op)}]

(* A generation that wins starts with the edits that waited for it.        *)
WinGeneration(feature, op, edits) ==
  [feature EXCEPT !.seenGens = @ \cup {RefOf(op)},
                  !.genID = RefOf(op),
                  !.genStamp = StampOf(op),
                  !.geometry = IF op.geometry THEN GeometryWith(edits) ELSE NoGeometry]

\* Mutants of Released: edits that waited are dropped with the queue; edits
\* of other features are let in.
ReleasedNone(waiting, op) == {}
ReleasedAll(waiting, op) == waiting

Released(waiting, op) == {e \in waiting : e.feature = op.feature}

AdoptGeneration(doc, feature, op) ==
  LET waiting == WaitingFor(doc, op)
      ours    == Released(waiting, op)
  IN  IF ~ Newer(StampOf(op), feature.genStamp)
        THEN [doc |-> PutFeature(Forget(doc, op), op, LoseGeneration(feature, op)),
              outcomes |-> [o \in {op} \cup waiting |->
                              IF o = op THEN "applied" ELSE "superseded"]]
        ELSE [doc |-> PutFeature(Forget(doc, op), op, WinGeneration(feature, op, ours)),
              outcomes |-> [o \in {op} \cup waiting |->
                              IF o = op \/ (o \in ours /\ op.geometry) THEN "applied"
                                                                      ELSE "quarantined"]]

ApplyInsertFeature(doc, op) ==
  LET feature == doc.features[op.feature]
      written == [WriteProperties(feature, op) EXCEPT
                    !.createReg = NewerStamp(StampOf(op), @)]
  IN  AdoptGeneration(doc, written, op)

ApplyDeleteFeature(doc, op) ==
  LET feature == doc.features[op.feature]
  IN  IF ~ Newer(StampOf(op), feature.deleteReg)
        THEN Result(doc, op, "superseded")
        ELSE Result(PutFeature(doc, op, [feature EXCEPT !.deleteReg = StampOf(op)]),
                    op, "applied")

(* A losing set_geometry discards the edits that waited for it unreported. *)
ApplySetGeometry(doc, op) ==
  LET feature == doc.features[op.feature]
  IN  IF ~ Newer(StampOf(op), feature.genStamp)
        THEN Result(PutFeature(Forget(doc, op), op, LoseGeneration(feature, op)),
                    op, "superseded")
        ELSE AdoptGeneration(doc, feature, op)

ApplyWriteProperty(doc, op) ==
  LET feature == doc.features[op.feature]
      written == WriteProperties(feature, op)
  IN  Result(PutFeature(doc, op, written), op,
             IF written = feature THEN "superseded" ELSE "applied")

\* Mutant of CannotCome: only the log is consulted.
CannotComeByLog(history, gen) == gen \in history.seen

(* The operation an edit names as its generation was here and defined none *)
(* for the feature, by the log or, once that is compacted, by the clock.   *)
CannotCome(history, gen) ==
  gen[2] <= history.compacted[gen[1]] \/ gen \in history.seen

ApplyEditGeometry(doc, history, op) ==
  LET feature == doc.features[op.feature]
  IN  CASE op.gen \in feature.seenGens /\ op.gen = feature.genID ->
             IF ~ feature.geometry.present
               THEN Result(doc, op, "quarantined")
               ELSE Result(PutFeature(doc, op,
                             [feature EXCEPT !.geometry.edits = @ \cup {op}]),
                           op, "applied")
        [] op.gen \in feature.seenGens /\ op.gen # feature.genID ->
             Result(doc, op, "superseded")
        [] op.gen \notin feature.seenGens /\ (op.gen = NoRef \/ CannotCome(history, op.gen)) ->
             Result(doc, op, "quarantined")
        [] OTHER -> Result([doc EXCEPT !.pendingGen = @ \cup {op}], op, "buffered")

(* history: the identities seen in the log and what is compacted below it. *)
ApplyOp(doc, history, op) ==
  CASE op.type = "insert_feature"  -> ApplyInsertFeature(doc, op)
    [] op.type = "delete_feature"  -> ApplyDeleteFeature(doc, op)
    [] op.type = "set_geometry"    -> ApplySetGeometry(doc, op)
    [] op.type \in {"set_property", "delete_property"} -> ApplyWriteProperty(doc, op)
    [] op.type = "edit_geometry"   -> ApplyEditGeometry(doc, history, op)

-----------------------------------------------------------------------------
(***************************************************************************)
(* Snapshots of features.  Unset registers, the zero generation and shells *)
(* of features nothing is known of are not written.                        *)
(***************************************************************************)
EmptyFeature(f, feature) == feature = Untouched(f) /\ ~ feature.isBase

\* Mutant of SnapshotFeature: generations that lost are not written.
SnapshotCurrentGeneration(feature) == [feature EXCEPT !.seenGens = {feature.genID} \ {NoRef}]

SnapshotFeature(feature) == [feature EXCEPT !.seenGens = @ \ {NoRef}]

FeatureSnapshots(features) ==
  [f \in {g \in Feature : ~ EmptyFeature(g, features[g])} |-> SnapshotFeature(features[f])]

RestoreFeature(fs) ==
  [fs EXCEPT !.seenGens = @ \cup {NoRef : base \in {fs.isBase} \cap {TRUE}}
                            \cup ({fs.genID} \ {NoRef}),
             !.genStamp = IF fs.genID = NoRef THEN NoStamp ELSE @]

RestoreFeatures(snapshots) ==
  [f \in Feature |-> IF f \in DOMAIN snapshots THEN RestoreFeature(snapshots[f])
                                              ELSE Untouched(f)]

StampsOf(fs) ==
  {fs.createReg, fs.deleteReg, fs.genStamp} \cup {fs.properties[p].ref : p \in Property}

(* What a restore demands of each feature, beyond the shape of its fields. *)
ValidFeatureSnapshot(fs, lastTimestamp, applied) ==
  /\ \A stamp \in StampsOf(fs) \ {NoStamp} :
       stamp.ts <= lastTimestamp /\ stamp.seq <= applied[stamp.site]
  /\ \A gen \in fs.seenGens : gen[2] <= applied[gen[1]]
  /\ fs.genID = NoRef => fs.genStamp = NoStamp
  /\ fs.genID # NoRef => fs.genID \in fs.seenGens /\ fs.genID = RefOf(fs.genStamp)
  /\ fs.geometry.present => fs.isBase \/ fs.genID # NoRef

(* What a local command must satisfy, and the operation it becomes.        *)
Commands(doc) ==
  LET shown  == {f \in Feature : Visible(doc.features[f])}
      edited == {f \in shown : doc.features[f].geometry.present}
  IN  { InsertFeature(f, g, ps) : f \in Feature, g \in BOOLEAN, ps \in SUBSET Property }
        \cup { DeleteFeature(f) : f \in shown }
        \cup { SetGeometry(f, g) : f \in shown, g \in BOOLEAN }
        \cup { SetProperty(f, p) : f \in shown, p \in Property }
        \cup { DeleteProperty(f, p) : f \in shown, p \in Property }
        \cup { EditGeometry(f, doc.features[f].genID) : f \in edited }
=============================================================================
