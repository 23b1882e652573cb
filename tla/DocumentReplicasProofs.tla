------------------------ MODULE DocumentReplicasProofs ------------------------
(***************************************************************************)
(* A document is what the set of operations it has received means, for any *)
(* number of replicas, features and operations, in whatever batches and    *)
(* order they arrive, restarts included.                                   *)
(*                                                                         *)
(* From one operation to a run: ApplyMeans says what one operation does to *)
(* a document that means what it has received, BatchMeans what a batch     *)
(* does, by induction over the stamps of the batch.  Sound is what holds   *)
(* of one replica, IssuedInv of the operations under way; ReplicasInv, the *)
(* two together, is inductive.  The theorems are at the end.               *)
(***************************************************************************)
EXTENDS DocumentReplicas, SiteClocksProofs

-----------------------------------------------------------------------------
(***************************************************************************)
(* InStampOrder is what its recursive function says.                       *)
(***************************************************************************)
MergeInto(vc, s, op) == MergeOne(s, vc, op)

Merging == INSTANCE Loops WITH Step <- MergeInto, Pick <- Newest

-----------------------------------------------------------------------------
(***************************************************************************)
(* The meaning of a set of operations with one operation more.             *)
(***************************************************************************)
GenerationType == {"insert_feature", "set_geometry"}

OpType == GenerationType \cup
            {"delete_feature", "set_property", "delete_property", "edit_geometry"}

Operation ==
  [site : Site, seq : Number, ts : Number, type : OpType, feature : Feature,
   geometry : BOOLEAN, properties : SUBSET Property, gen : {NoRef} \cup (Site \X Number)]

Meaningful(ops) == IsFiniteSet(ops) /\ ops \subseteq Operation /\ OneEach(ops)

LEMMA OperationsAreStamped ==
  ASSUME NEW op \in Operation
  PROVE  Stamped(op) /\ op.ts > 0 /\ RefOf(op) # NoRef
<1>1. op.ts \in Number /\ op.seq \in Number /\ op.site \in Site
  BY DEF Operation
<1>2. Stamped(op) /\ op.ts > 0
  <2>1. op.ts \in Nat /\ op.seq \in Nat /\ op.ts > 0
    BY <1>1, MaxTimestampAssumption DEF Number
  <2>2. QED
    BY <1>1, <2>1, SiteAssumption DEF Stamped
<1>3. RefOf(op) \in Site \X Number
  BY <1>1 DEF RefOf
<1>4. QED
  BY <1>2, <1>3, FeatureAssumption

LEMMA PartIsMeaningful ==
  ASSUME NEW ops, Meaningful(ops), NEW part \in SUBSET ops
  PROVE  Meaningful(part)
BY FS_Subset DEF Meaningful, OneEach

(* The registers: NewestStamp and NewestRef take note of what is newer.    *)
LEMMA NewestStampOfMore ==
  ASSUME NEW S, NEW op, Meaningful(S \cup {op})
  PROVE  LET wins == Newer(StampOf(op), NewestStamp(S))
         IN  /\ Newest(S \cup {op}) = IF wins THEN op ELSE Newest(S)
             /\ NewestStamp(S \cup {op}) = IF wins THEN StampOf(op) ELSE NewestStamp(S)
             /\ NewestRef(S \cup {op}) = IF wins THEN RefOf(op) ELSE NewestRef(S)
             /\ ~ wins => S # {}
<1>1. \A a \in S \cup {op} : Stamped(a) /\ a.ts > 0
  BY OperationsAreStamped DEF Meaningful
<1>2. IsFiniteSet(S) /\ OneEach(S \cup {op})
  <2>1. S \in SUBSET (S \cup {op})
    OBVIOUS
  <2>2. QED
    BY <2>1, FS_Subset DEF Meaningful
<1>3. Newest(S \cup {op}) = IF S = {} \/ Newer(op, Newest(S)) THEN op ELSE Newest(S)
  BY <1>1, <1>2, NewestOfMore
<1>4. Newer(StampOf(op), NewestStamp(S)) <=> (S = {} \/ Newer(op, Newest(S)))
  <2>1. CASE S = {}
    BY <1>1, <2>1 DEF NewestStamp, Newer, Less, StampOf, NoStamp
  <2>2. CASE S # {}
    BY <2>2 DEF NewestStamp, Newer, Less, StampOf
  <2>3. QED
    BY <2>1, <2>2
<1>5. QED
  BY <1>3, <1>4 DEF NewestStamp, NewestRef

LEMMA NewestRefIsOne ==
  ASSUME NEW S, Meaningful(S), S # {}
  PROVE  NewestRef(S) \in Refs(S) /\ NewestRef(S) # NoRef /\ Newest(S) \in S
<1>1. \A a \in S : Stamped(a) /\ RefOf(a) # NoRef
  BY OperationsAreStamped DEF Meaningful
<1>2. Newest(S) \in S
  BY <1>1, NewestExists DEF Meaningful
<1>3. QED
  BY <1>1, <1>2 DEF NewestRef, Refs

RegisterOf(ops, f, p) ==
  [ref |-> NewestStamp(Writes(ops, f, p)),
   deleted |-> /\ Writes(ops, f, p) # {}
               /\ Newest(Writes(ops, f, p)).type = "delete_property"]

Created(ops, f) == NewestStamp(Of(ops, f, {"insert_feature"}))

Deleted(ops, f) == NewestStamp(Of(ops, f, {"delete_feature"}))

SeenBy(ops, f) == Refs(Generations(ops, f)) \cup {NoRef : g \in {f} \cap BaseFeature}

GeometryOf(ops, f) ==
  IF HasGeometry(ops, f)
    THEN GeometryWith(EditsOf(ops, f, NewestRef(Generations(ops, f))))
    ELSE NoGeometry

LEMMA MeantFields ==
  ASSUME NEW ops, NEW f
  PROVE  MeantFeature(ops, f) =
           [isBase |-> f \in BaseFeature,
            createReg |-> Created(ops, f), deleteReg |-> Deleted(ops, f),
            genID |-> NewestRef(Generations(ops, f)),
            genStamp |-> NewestStamp(Generations(ops, f)),
            geometry |-> GeometryOf(ops, f),
            seenGens |-> SeenBy(ops, f),
            properties |-> [p \in Property |-> RegisterOf(ops, f, p)]]
BY DEF MeantFeature, Created, Deleted, GeometryOf, SeenBy, RegisterOf

(* An operation says nothing of another feature.                           *)
LEMMA OthersUntouched ==
  ASSUME NEW ops, NEW op, NEW f, op.feature # f
  PROVE  MeantFeature(ops \cup {op}, f) = MeantFeature(ops, f)
<1>1. ASSUME NEW types
      PROVE  Of(ops \cup {op}, f, types) = Of(ops, f, types)
  BY DEF Of
<1>2. /\ Generations(ops \cup {op}, f) = Generations(ops, f)
      /\ Of(ops \cup {op}, f, {"insert_feature"}) = Of(ops, f, {"insert_feature"})
      /\ Of(ops \cup {op}, f, {"delete_feature"}) = Of(ops, f, {"delete_feature"})
      /\ \A gen : EditsOf(ops \cup {op}, f, gen) = EditsOf(ops, f, gen)
      /\ \A p : Writes(ops \cup {op}, f, p) = Writes(ops, f, p)
  BY <1>1 DEF Generations, EditsOf, Writes
<1>3. HasGeometry(ops \cup {op}, f) = HasGeometry(ops, f)
  BY <1>2 DEF HasGeometry
<1>4. /\ Created(ops \cup {op}, f) = Created(ops, f)
      /\ Deleted(ops \cup {op}, f) = Deleted(ops, f)
      /\ GeometryOf(ops \cup {op}, f) = GeometryOf(ops, f)
      /\ SeenBy(ops \cup {op}, f) = SeenBy(ops, f)
  BY <1>2, <1>3 DEF Created, Deleted, GeometryOf, SeenBy
<1>5. ASSUME NEW p
      PROVE  RegisterOf(ops \cup {op}, f, p) = RegisterOf(ops, f, p)
  <2>1. Writes(ops \cup {op}, f, p) = Writes(ops, f, p)
    BY <1>2
  <2>2. QED
    BY <2>1 DEF RegisterOf
<1>6. QED
  BY <1>2, <1>4, <1>5, MeantFields

-----------------------------------------------------------------------------
(***************************************************************************)
(* Registers.                                                              *)
(***************************************************************************)
LEMMA CreatedMore ==
  ASSUME NEW ops, NEW op, Meaningful(ops \cup {op}), NEW f, op.feature = f
  PROVE  Created(ops \cup {op}, f) =
           IF op.type = "insert_feature" THEN NewerStamp(StampOf(op), Created(ops, f))
                                         ELSE Created(ops, f)
<1>1. CASE op.type = "insert_feature"
  <2>1. Of(ops \cup {op}, f, {"insert_feature"}) = Of(ops, f, {"insert_feature"}) \cup {op}
    BY <1>1 DEF Of
  <2>2. Meaningful(Of(ops, f, {"insert_feature"}) \cup {op})
    <3>1. Of(ops, f, {"insert_feature"}) \cup {op} \in SUBSET (ops \cup {op})
      BY DEF Of
    <3>2. QED
      BY <3>1, PartIsMeaningful
  <2>3. QED
    BY <1>1, <2>1, <2>2, NewestStampOfMore DEF Created, NewerStamp
<1>2. CASE op.type # "insert_feature"
  <2>1. Of(ops \cup {op}, f, {"insert_feature"}) = Of(ops, f, {"insert_feature"})
    BY <1>2 DEF Of
  <2>2. QED
    BY <1>2, <2>1 DEF Created
<1>3. QED
  BY <1>1, <1>2

LEMMA DeletedMore ==
  ASSUME NEW ops, NEW op, Meaningful(ops \cup {op}), NEW f, op.feature = f
  PROVE  Deleted(ops \cup {op}, f) =
           IF op.type = "delete_feature" /\ Newer(StampOf(op), Deleted(ops, f))
             THEN StampOf(op)
             ELSE Deleted(ops, f)
<1>1. CASE op.type = "delete_feature"
  <2>1. Of(ops \cup {op}, f, {"delete_feature"}) = Of(ops, f, {"delete_feature"}) \cup {op}
    BY <1>1 DEF Of
  <2>2. Meaningful(Of(ops, f, {"delete_feature"}) \cup {op})
    <3>1. Of(ops, f, {"delete_feature"}) \cup {op} \in SUBSET (ops \cup {op})
      BY DEF Of
    <3>2. QED
      BY <3>1, PartIsMeaningful
  <2>3. QED
    BY <1>1, <2>1, <2>2, NewestStampOfMore DEF Deleted
<1>2. CASE op.type # "delete_feature"
  <2>1. Of(ops \cup {op}, f, {"delete_feature"}) = Of(ops, f, {"delete_feature"})
    BY <1>2 DEF Of
  <2>2. QED
    BY <1>2, <2>1 DEF Deleted
<1>3. QED
  BY <1>1, <1>2

WriteType == {"insert_feature", "set_property", "delete_property"}

LEMMA RegisterMore ==
  ASSUME NEW ops, NEW op, Meaningful(ops \cup {op}), NEW p, NEW f, op.feature = f
  PROVE  RegisterOf(ops \cup {op}, f, p) =
           IF op.type \in WriteType /\ p \in op.properties
             THEN WriteRegister(RegisterOf(ops, f, p), op)
             ELSE RegisterOf(ops, f, p)
<1>1. CASE op.type \in WriteType /\ p \in op.properties
  <2> DEFINE S == Writes(ops, f, p)
             wins == Newer(StampOf(op), NewestStamp(S))
  <2>1. Writes(ops \cup {op}, f, p) = S \cup {op}
    BY <1>1 DEF Writes, Of, WriteType
  <2>2. Meaningful(S \cup {op}) /\ Meaningful(S)
    <3>1. S \cup {op} \in SUBSET (ops \cup {op}) /\ S \in SUBSET (ops \cup {op})
      BY DEF Writes, Of
    <3>2. QED
      BY <3>1, PartIsMeaningful
  <2>3. /\ Newest(S \cup {op}) = IF wins THEN op ELSE Newest(S)
        /\ NewestStamp(S \cup {op}) = IF wins THEN StampOf(op) ELSE NewestStamp(S)
        /\ ~ wins => S # {}
    BY <2>2, NewestStampOfMore
  <2>4. NewestStamp(S) = NoStamp => wins
    <3>1. S # {} => StampOf(Newest(S)).ts > 0
      BY <2>2, NewestRefIsOne, OperationsAreStamped DEF Meaningful, StampOf
    <3>2. S # {} => NewestStamp(S) # NoStamp
      BY <3>1 DEF NewestStamp, NoStamp, StampOf
    <3>3. QED
      BY <2>3, <3>2
  <2>5. WriteRegister(RegisterOf(ops, f, p), op) =
          IF wins THEN [ref |-> StampOf(op), deleted |-> op.type = "delete_property"]
                  ELSE RegisterOf(ops, f, p)
    BY <2>4 DEF WriteRegister, RegisterOf
  <2>6. RegisterOf(ops \cup {op}, f, p) =
          [ref |-> NewestStamp(S \cup {op}),
           deleted |-> Newest(S \cup {op}).type = "delete_property"]
    BY <2>1 DEF RegisterOf
  <2>7. RegisterOf(ops, f, p) =
          [ref |-> NewestStamp(S),
           deleted |-> S # {} /\ Newest(S).type = "delete_property"]
    BY DEF RegisterOf
  <2> HIDE DEF S, wins
  <2>8. QED
    BY <1>1, <2>3, <2>5, <2>6, <2>7
<1>2. CASE ~ (op.type \in WriteType /\ p \in op.properties)
  <2>1. Writes(ops \cup {op}, f, p) = Writes(ops, f, p)
    BY <1>2 DEF Writes, Of, WriteType
  <2>2. QED
    BY <1>2, <2>1 DEF RegisterOf
<1>3. QED
  BY <1>1, <1>2

-----------------------------------------------------------------------------
(***************************************************************************)
(* Generations.                                                            *)
(***************************************************************************)
FeatureOf(ops, f, createReg, deleteReg, properties) ==
  [isBase |-> f \in BaseFeature, createReg |-> createReg, deleteReg |-> deleteReg,
   genID |-> NewestRef(Generations(ops, f)),
   genStamp |-> NewestStamp(Generations(ops, f)),
   geometry |-> GeometryOf(ops, f),
   seenGens |-> SeenBy(ops, f),
   properties |-> properties]

Registers(ops, f) == [p \in Property |-> RegisterOf(ops, f, p)]

LEMMA MeantIsFeature ==
  ASSUME NEW ops, NEW f
  PROVE  MeantFeature(ops, f) =
           FeatureOf(ops, f, Created(ops, f), Deleted(ops, f), Registers(ops, f))
BY MeantFields DEF FeatureOf, Registers

LEMMA GenerationMore ==
  ASSUME NEW ops, NEW op, Meaningful(ops \cup {op}), NEW f, op.feature = f,
         op.type \in GenerationType
  PROVE  LET wins == Newer(StampOf(op), NewestStamp(Generations(ops, f)))
             all  == Generations(ops \cup {op}, f)
         IN  /\ NewestStamp(all) =
                  IF wins THEN StampOf(op) ELSE NewestStamp(Generations(ops, f))
             /\ NewestRef(all) = IF wins THEN RefOf(op) ELSE NewestRef(Generations(ops, f))
             /\ SeenBy(ops \cup {op}, f) = SeenBy(ops, f) \cup {RefOf(op)}
             /\ GeometryOf(ops \cup {op}, f) =
                  IF ~ wins THEN GeometryOf(ops, f)
                            ELSE IF op.geometry THEN GeometryWith(EditsOf(ops, f, RefOf(op)))
                                                ELSE NoGeometry
<1> DEFINE S == Generations(ops, f)
           wins == Newer(StampOf(op), NewestStamp(S))
<1>1. Generations(ops \cup {op}, f) = S \cup {op}
  BY DEF Generations, Of, GenerationType
<1>2. Meaningful(S \cup {op})
  <2>1. S \cup {op} \in SUBSET (ops \cup {op})
    BY DEF Generations, Of
  <2>2. QED
    BY <2>1, PartIsMeaningful
<1>3. /\ Newest(S \cup {op}) = IF wins THEN op ELSE Newest(S)
      /\ NewestStamp(S \cup {op}) = IF wins THEN StampOf(op) ELSE NewestStamp(S)
      /\ NewestRef(S \cup {op}) = IF wins THEN RefOf(op) ELSE NewestRef(S)
      /\ ~ wins => S # {}
  BY <1>2, NewestStampOfMore
<1>4. SeenBy(ops \cup {op}, f) = SeenBy(ops, f) \cup {RefOf(op)}
  BY <1>1 DEF SeenBy, Refs
<1>5. \A gen : EditsOf(ops \cup {op}, f, gen) = EditsOf(ops, f, gen)
  <2>1. Of(ops \cup {op}, f, {"edit_geometry"}) = Of(ops, f, {"edit_geometry"})
    BY DEF Of, GenerationType
  <2>2. QED
    BY <2>1 DEF EditsOf
<1>6. HasGeometry(ops \cup {op}, f) = IF wins THEN op.geometry ELSE HasGeometry(ops, f)
  <2>1. S \cup {op} # {}
    OBVIOUS
  <2>2. HasGeometry(ops \cup {op}, f) = Newest(S \cup {op}).geometry
    BY <1>1, <2>1 DEF HasGeometry
  <2>3. ~ wins => HasGeometry(ops, f) = Newest(S).geometry
    BY <1>3 DEF HasGeometry
  <2> HIDE DEF S, wins
  <2>4. QED
    BY <1>3, <2>2, <2>3
<1> HIDE DEF wins
<1>7. GeometryOf(ops \cup {op}, f) =
        IF ~ wins THEN GeometryOf(ops, f)
                  ELSE IF op.geometry THEN GeometryWith(EditsOf(ops, f, RefOf(op)))
                                      ELSE NoGeometry
  BY <1>1, <1>3, <1>5, <1>6 DEF GeometryOf
<1>8. QED
  BY <1>1, <1>3, <1>4, <1>7 DEF wins

StillWaiting(pending, op) == {e \in pending : e.gen # RefOf(op)}

(* How the two fields of a document are replaced.                          *)
LEMMA ForgetRecord ==
  ASSUME NEW F, NEW P, NEW d, d = [features |-> F, pendingGen |-> P], NEW op
  PROVE  Forget(d, op) = [features |-> F, pendingGen |-> StillWaiting(P, op)]
<1>1. ASSUME NEW e, e = Forget(d, op)
      PROVE  e = [features |-> F, pendingGen |-> StillWaiting(P, op)]
  BY <1>1 DEF Forget, StillWaiting
<1>2. QED
  BY <1>1

LEMMA PutRecord ==
  ASSUME NEW F, NEW P, NEW d, d = [features |-> F, pendingGen |-> P], NEW op, NEW feature
  PROVE  PutFeature(d, op, feature) =
           [features |-> [F EXCEPT ![op.feature] = feature], pendingGen |-> P]
<1>1. ASSUME NEW e, e = PutFeature(d, op, feature)
      PROVE  e = [features |-> [F EXCEPT ![op.feature] = feature], pendingGen |-> P]
  BY <1>1 DEF PutFeature
<1>2. QED
  BY <1>1

(* What waited for a generation is let into it or dropped with it.         *)
LEMMA AdoptMeans ==
  ASSUME NEW recv, NEW op, Meaningful(recv \cup {op}), op.type \in GenerationType,
         NEW F, NEW P, NEW d, d = [features |-> F, pendingGen |-> P],
         NEW c, NEW x, NEW ps, NEW old, old = FeatureOf(recv, op.feature, c, x, ps),
         Released(WaitingFor(d, op), op) = EditsOf(recv, op.feature, RefOf(op))
  PROVE  AdoptGeneration(d, old, op).doc =
           [features |-> [F EXCEPT ![op.feature] =
                            FeatureOf(recv \cup {op}, op.feature, c, x, ps)],
            pendingGen |-> StillWaiting(P, op)]
<1> DEFINE f == op.feature
           new == FeatureOf(recv \cup {op}, f, c, x, ps)
           Q == StillWaiting(P, op)
           wins == Newer(StampOf(op), NewestStamp(Generations(recv, f)))
           edits == EditsOf(recv, f, RefOf(op))
<1>1. /\ NewestStamp(Generations(recv \cup {op}, f)) =
           IF wins THEN StampOf(op) ELSE NewestStamp(Generations(recv, f))
      /\ NewestRef(Generations(recv \cup {op}, f)) =
           IF wins THEN RefOf(op) ELSE NewestRef(Generations(recv, f))
      /\ SeenBy(recv \cup {op}, f) = SeenBy(recv, f) \cup {RefOf(op)}
      /\ GeometryOf(recv \cup {op}, f) =
           IF ~ wins THEN GeometryOf(recv, f)
                     ELSE IF op.geometry THEN GeometryWith(edits) ELSE NoGeometry
  BY GenerationMore
<1>2. old.genStamp = NewestStamp(Generations(recv, f))
  BY DEF FeatureOf
<1>3. Forget(d, op) = [features |-> F, pendingGen |-> Q]
  BY ForgetRecord
<1>4. \A feature : PutFeature(Forget(d, op), op, feature) =
                     [features |-> [F EXCEPT ![f] = feature], pendingGen |-> Q]
  <2> HIDE DEF Q
  <2>1. ASSUME NEW feature, NEW e, e = Forget(d, op)
        PROVE  PutFeature(e, op, feature) =
                 [features |-> [F EXCEPT ![f] = feature], pendingGen |-> Q]
    BY <1>3, <2>1, PutRecord
  <2>2. QED
    BY <2>1
<1>5. Released(WaitingFor(d, op), op) = edits
  OBVIOUS
<1>6. ~ wins => LoseGeneration(old, op) = new
  <2>1. ASSUME ~ wins, NEW e, e = LoseGeneration(old, op)
        PROVE  e = new
    BY <1>1, <2>1 DEF LoseGeneration, FeatureOf
  <2>2. QED
    BY <2>1
<1>7. wins => WinGeneration(old, op, edits) = new
  <2>1. ASSUME wins, NEW e, e = WinGeneration(old, op, edits)
        PROVE  e = new
    BY <1>1, <2>1 DEF WinGeneration, FeatureOf
  <2>2. QED
    BY <2>1
<1>8. AdoptGeneration(d, old, op).doc =
        IF ~ wins THEN PutFeature(Forget(d, op), op, LoseGeneration(old, op))
                  ELSE PutFeature(Forget(d, op), op, WinGeneration(old, op, edits))
  BY <1>2, <1>5 DEF AdoptGeneration
<1> HIDE DEF f, new, Q, wins, edits
<1>9. AdoptGeneration(d, old, op).doc = [features |-> [F EXCEPT ![f] = new], pendingGen |-> Q]
  BY <1>4, <1>6, <1>7, <1>8
<1>10. QED
  BY <1>9 DEF f, new, Q

-----------------------------------------------------------------------------
(***************************************************************************)
(* One operation takes the meaning of a set to the meaning of the set with *)
(* one operation more.                                                     *)
(***************************************************************************)
DocumentOf(ops, pending) ==
  [features |-> [f \in Feature |-> MeantFeature(ops, f)], pendingGen |-> pending]

IsEdit(op) == op.type = "edit_geometry"

(* The edits that wait: all whose generation has not come, and none whose  *)
(* generation has.                                                         *)
Queue(pending, ops) ==
  /\ pending \subseteq {e \in ops : IsEdit(e)}
  /\ \A e \in ops : IsEdit(e) /\ e.gen # NoRef /\ e.gen \notin Refs(ops) => e \in pending
  /\ \A e \in pending : e.gen # NoRef /\ \A g \in ops : g.type \in GenerationType => RefOf(g) # e.gen

(* Log and compaction watermark together know what has been here.          *)
Knows(history, ops) ==
  \A ref \in Site \X Number :
    ref \in Refs(ops) <=> ref[2] <= history.compacted[ref[1]] \/ ref \in history.seen

LEMMA OneFeatureChanges ==
  ASSUME NEW recv, NEW op, op.feature \in Feature,
         NEW F, F = [f \in Feature |-> MeantFeature(recv, f)]
  PROVE  /\ F[op.feature] = MeantFeature(recv, op.feature)
         /\ [F EXCEPT ![op.feature] = MeantFeature(recv \cup {op}, op.feature)]
              = [f \in Feature |-> MeantFeature(recv \cup {op}, f)]
BY OthersUntouched

LEMMA OpFields ==
  ASSUME NEW recv, NEW op, Meaningful(recv \cup {op}), op \notin recv
  PROVE  /\ op \in Operation /\ op.feature \in Feature /\ RefOf(op) \notin Refs(recv)
         /\ RefOf(op) # NoRef /\ op.type \in OpType
         /\ op.gen = NoRef \/ op.gen \in Site \X Number
<1>1. op \in Operation
  BY DEF Meaningful
<1>2. op.feature \in Feature /\ op.type \in OpType /\ op.gen \in {NoRef} \cup (Site \X Number)
  BY <1>1 DEF Operation
<1>3. RefOf(op) \notin Refs(recv)
  BY DEF Meaningful, OneEach, Refs
<1>4. QED
  BY <1>1, <1>2, <1>3, OperationsAreStamped

(* Only generations and edits touch the geometry.                          *)
LEMMA GeometryStays ==
  ASSUME NEW recv, NEW op, op.type \notin GenerationType, ~ IsEdit(op), NEW f
  PROVE  \A c, x, ps : FeatureOf(recv \cup {op}, f, c, x, ps) = FeatureOf(recv, f, c, x, ps)
<1>1. Generations(recv \cup {op}, f) = Generations(recv, f)
  BY DEF Generations, Of, GenerationType
<1>2. \A gen : EditsOf(recv \cup {op}, f, gen) = EditsOf(recv, f, gen)
  <2>1. Of(recv \cup {op}, f, {"edit_geometry"}) = Of(recv, f, {"edit_geometry"})
    BY DEF Of, IsEdit
  <2>2. QED
    BY <2>1 DEF EditsOf
<1>3. HasGeometry(recv \cup {op}, f) = HasGeometry(recv, f)
  BY <1>1 DEF HasGeometry
<1>4. /\ GeometryOf(recv \cup {op}, f) = GeometryOf(recv, f)
      /\ SeenBy(recv \cup {op}, f) = SeenBy(recv, f)
  BY <1>1, <1>2, <1>3 DEF GeometryOf, SeenBy
<1>5. QED
  BY <1>1, <1>4 DEF FeatureOf

LEMMA RegistersMore ==
  ASSUME NEW recv, NEW op, Meaningful(recv \cup {op}), op.type \in WriteType
  PROVE  Registers(recv \cup {op}, op.feature) =
           [p \in Property |-> IF p \in op.properties
                                 THEN WriteRegister(Registers(recv, op.feature)[p], op)
                                 ELSE Registers(recv, op.feature)[p]]
<1>1. \A p, f : op.feature = f =>
        RegisterOf(recv \cup {op}, f, p) =
          IF op.type \in WriteType /\ p \in op.properties
            THEN WriteRegister(RegisterOf(recv, f, p), op)
            ELSE RegisterOf(recv, f, p)
  BY RegisterMore
<1>2. QED
  BY <1>1 DEF Registers

LEMMA RegistersStay ==
  ASSUME NEW recv, NEW op, op.type \notin WriteType, NEW f
  PROVE  Registers(recv \cup {op}, f) = Registers(recv, f)
<1>1. ASSUME NEW p
      PROVE  RegisterOf(recv \cup {op}, f, p) = RegisterOf(recv, f, p)
  <2>1. Writes(recv \cup {op}, f, p) = Writes(recv, f, p)
    BY DEF Writes, Of, WriteType
  <2>2. QED
    BY <2>1 DEF RegisterOf
<1>2. QED
  BY <1>1 DEF Registers

LEMMA GenerationMeans ==
  ASSUME NEW recv, NEW op, Meaningful(recv \cup {op}), op \notin recv,
         op.type \in GenerationType,
         NEW P, Queue(P, recv), NEW d, d = DocumentOf(recv, P), NEW history
  PROVE  /\ ApplyOp(d, history, op).doc = DocumentOf(recv \cup {op}, StillWaiting(P, op))
         /\ Queue(StillWaiting(P, op), recv \cup {op})
<1> DEFINE f == op.feature
           all == recv \cup {op}
           F == [g \in Feature |-> MeantFeature(recv, g)]
<1>1. /\ f \in Feature /\ RefOf(op) \notin Refs(recv) /\ RefOf(op) # NoRef
  BY OpFields
<1>2. d = [features |-> F, pendingGen |-> P]
  BY DEF DocumentOf
<1>3. Released(WaitingFor(d, op), op) = EditsOf(recv, f, RefOf(op))
  <2>1. WaitingFor(d, op) = {e \in P : e.gen = RefOf(op)}
    BY <1>2 DEF WaitingFor
  <2>2. QED
    BY <1>1, <2>1 DEF Queue, Released, EditsOf, Of, IsEdit
<1>4. Queue(StillWaiting(P, op), all)
  <2>1. ~ IsEdit(op)
    BY DEF IsEdit, GenerationType
  <2>2. Refs(all) = Refs(recv) \cup {RefOf(op)}
    BY DEF Refs
  <2>3. QED
    BY <2>1, <2>2 DEF Queue, StillWaiting
<1>5. /\ F[f] = FeatureOf(recv, f, Created(recv, f), Deleted(recv, f), Registers(recv, f))
      /\ [F EXCEPT ![f] = FeatureOf(all, f, Created(all, f), Deleted(all, f), Registers(all, f))]
           = [g \in Feature |-> MeantFeature(all, g)]
  BY <1>1, OneFeatureChanges, MeantIsFeature
<1>6. /\ Deleted(all, f) = Deleted(recv, f)
      /\ Created(all, f) = IF op.type = "insert_feature"
                             THEN NewerStamp(StampOf(op), Created(recv, f))
                             ELSE Created(recv, f)
  BY CreatedMore, DeletedMore DEF GenerationType
<1> DEFINE c == Created(all, f)
           x == Deleted(all, f)
           ps == Registers(all, f)
<1>7. ASSUME NEW old, old = FeatureOf(recv, f, c, x, ps)
      PROVE  AdoptGeneration(d, old, op).doc = DocumentOf(all, StillWaiting(P, op))
  <2> HIDE DEF c, x, ps, F
  <2>1. AdoptGeneration(d, old, op).doc =
          [features |-> [F EXCEPT ![f] = FeatureOf(all, f, c, x, ps)],
           pendingGen |-> StillWaiting(P, op)]
    BY <1>2, <1>3, <1>7, AdoptMeans
  <2>2. QED
    BY <1>5, <2>1 DEF DocumentOf, c, x, ps
<1>8. d.features[f] = F[f]
  BY <1>2
<1>9. CASE op.type = "insert_feature"
  <2> DEFINE written == [WriteProperties(F[f], op) EXCEPT
                           !.createReg = NewerStamp(StampOf(op), @)]
  <2>1. ps = [p \in Property |-> IF p \in op.properties
                                   THEN WriteRegister(Registers(recv, f)[p], op)
                                   ELSE Registers(recv, f)[p]]
    BY <1>9, RegistersMore DEF WriteType
  <2>2. written = FeatureOf(recv, f, c, x, ps)
    <3> HIDE DEF F, c, x, ps
    <3>1. ASSUME NEW o, o = F[f], NEW w, w = WriteProperties(o, op)
          PROVE  w = FeatureOf(recv, f, Created(recv, f), Deleted(recv, f), ps)
      BY <1>5, <2>1, <3>1 DEF WriteProperties, FeatureOf
    <3>2. ASSUME NEW w, w = FeatureOf(recv, f, Created(recv, f), Deleted(recv, f), ps),
                 NEW e, e = [w EXCEPT !.createReg = NewerStamp(StampOf(op), @)]
          PROVE  e = FeatureOf(recv, f, c, x, ps)
      BY <1>6, <1>9, <3>2 DEF FeatureOf, c, x
    <3>3. QED
      BY <3>1, <3>2
  <2>3. ApplyOp(d, history, op) = AdoptGeneration(d, written, op)
    BY <1>8, <1>9 DEF ApplyOp, ApplyInsertFeature
  <2> HIDE DEF written
  <2>4. QED
    BY <1>4, <1>7, <2>2, <2>3
<1>10. CASE op.type = "set_geometry"
  <2>1. ps = Registers(recv, f)
    <3>1. op.type \notin WriteType
      BY <1>10 DEF WriteType
    <3>2. \A g : Registers(recv \cup {op}, g) = Registers(recv, g)
      BY <3>1, RegistersStay
    <3>3. QED
      BY <3>1, <3>2
  <2>2. F[f] = FeatureOf(recv, f, c, x, ps)
    BY <1>5, <1>6, <1>10, <2>1
  <2>3. ApplyOp(d, history, op).doc = AdoptGeneration(d, F[f], op).doc
    BY <1>8, <1>10 DEF ApplyOp, ApplySetGeometry, AdoptGeneration, Result
  <2> HIDE DEF F
  <2>4. QED
    BY <1>4, <1>7, <2>2, <2>3
<1>11. QED
  BY <1>9, <1>10 DEF GenerationType

LEMMA DocumentStays ==
  ASSUME NEW recv, NEW op, NEW P, op.feature \in Feature,
         MeantFeature(recv \cup {op}, op.feature) = MeantFeature(recv, op.feature)
  PROVE  DocumentOf(recv \cup {op}, P) = DocumentOf(recv, P)
<1>1. \A f \in Feature : MeantFeature(recv \cup {op}, f) = MeantFeature(recv, f)
  BY OthersUntouched
<1>2. QED
  BY <1>1 DEF DocumentOf

LEMMA DocumentChanges ==
  ASSUME NEW recv, NEW op, NEW P, NEW d, d = DocumentOf(recv, P), op.feature \in Feature
  PROVE  /\ d.features[op.feature] = MeantFeature(recv, op.feature)
         /\ d.pendingGen = P
         /\ PutFeature(d, op, MeantFeature(recv \cup {op}, op.feature)) =
              DocumentOf(recv \cup {op}, P)
<1> DEFINE F == [f \in Feature |-> MeantFeature(recv, f)]
           new == MeantFeature(recv \cup {op}, op.feature)
<1>1. d = [features |-> F, pendingGen |-> P]
  BY DEF DocumentOf
<1>2. F[op.feature] = MeantFeature(recv, op.feature)
  OBVIOUS
<1>3. ASSUME NEW G, G = F
      PROVE  [G EXCEPT ![op.feature] = new] = [f \in Feature |-> MeantFeature(recv \cup {op}, f)]
  BY <1>3, OthersUntouched
<1> HIDE DEF F, new
<1>4. PutFeature(d, op, new) = [features |-> [F EXCEPT ![op.feature] = new], pendingGen |-> P]
  BY <1>1, PutRecord
<1>5. QED
  BY <1>1, <1>2, <1>3, <1>4 DEF DocumentOf, new

LEMMA QueueStays ==
  ASSUME NEW recv, NEW op, op.type \notin GenerationType, ~ IsEdit(op), NEW P, Queue(P, recv)
  PROVE  Queue(P, recv \cup {op})
<1>1. Refs(recv) \subseteq Refs(recv \cup {op})
  BY DEF Refs
<1>2. QED
  BY <1>1 DEF Queue

LEMMA PropertyMeans ==
  ASSUME NEW recv, NEW op, Meaningful(recv \cup {op}), op \notin recv,
         op.type \in {"set_property", "delete_property"},
         NEW P, Queue(P, recv), NEW d, d = DocumentOf(recv, P), NEW history
  PROVE  /\ ApplyOp(d, history, op).doc = DocumentOf(recv \cup {op}, P)
         /\ Queue(P, recv \cup {op})
<1> DEFINE f == op.feature
           all == recv \cup {op}
<1>1. f \in Feature
  BY OpFields
<1>2. op.type \notin GenerationType /\ ~ IsEdit(op) /\ op.type \in WriteType
  BY DEF GenerationType, IsEdit, WriteType
<1>3. Queue(P, all)
  BY <1>2, QueueStays
<1>4. ASSUME NEW old, old = MeantFeature(recv, f), NEW w, w = WriteProperties(old, op)
      PROVE  w = MeantFeature(all, f)
  <2>1. old = FeatureOf(recv, f, Created(recv, f), Deleted(recv, f), Registers(recv, f))
    BY <1>4, MeantIsFeature
  <2>2. Registers(all, f) = [p \in Property |-> IF p \in op.properties
                                                 THEN WriteRegister(Registers(recv, f)[p], op)
                                                 ELSE Registers(recv, f)[p]]
    BY <1>2, RegistersMore
  <2>3. Created(all, f) = Created(recv, f) /\ Deleted(all, f) = Deleted(recv, f)
    BY <1>2, CreatedMore, DeletedMore DEF GenerationType
  <2> HIDE DEF f, all
  <2>4. w = FeatureOf(recv, f, Created(recv, f), Deleted(recv, f), Registers(all, f))
    BY <1>4, <2>1, <2>2 DEF WriteProperties, FeatureOf
  <2>5. \A c, x, ps : FeatureOf(all, f, c, x, ps) = FeatureOf(recv, f, c, x, ps)
    BY <1>2, GeometryStays DEF all
  <2>6. QED
    BY <2>3, <2>4, <2>5, MeantIsFeature
<1>5. d.features[f] = MeantFeature(recv, f) /\ PutFeature(d, op, MeantFeature(all, f)) = DocumentOf(all, P)
  BY <1>1, DocumentChanges
<1>6. ApplyOp(d, history, op).doc = PutFeature(d, op, WriteProperties(d.features[f], op))
  BY DEF ApplyOp, ApplyWriteProperty, Result
<1>7. WriteProperties(d.features[f], op) = MeantFeature(all, f)
  BY <1>4, <1>5
<1>8. QED
  BY <1>3, <1>5, <1>6, <1>7

LEMMA DeleteMeans ==
  ASSUME NEW recv, NEW op, Meaningful(recv \cup {op}), op \notin recv,
         op.type = "delete_feature",
         NEW P, Queue(P, recv), NEW d, d = DocumentOf(recv, P), NEW history
  PROVE  /\ ApplyOp(d, history, op).doc = DocumentOf(recv \cup {op}, P)
         /\ Queue(P, recv \cup {op})
<1> DEFINE f == op.feature
           all == recv \cup {op}
           wins == Newer(StampOf(op), Deleted(recv, f))
<1>1. f \in Feature
  BY OpFields
<1>2. op.type \notin GenerationType /\ ~ IsEdit(op) /\ op.type \notin WriteType
  BY DEF GenerationType, IsEdit, WriteType
<1>3. Queue(P, all)
  BY <1>2, QueueStays
<1>4. /\ Created(all, f) = Created(recv, f)
      /\ Deleted(all, f) = IF wins THEN StampOf(op) ELSE Deleted(recv, f)
      /\ Registers(all, f) = Registers(recv, f)
  <2>1. Registers(all, f) = Registers(recv, f)
    BY <1>2, RegistersStay
  <2>2. QED
    BY <2>1, CreatedMore, DeletedMore
<1>5. MeantFeature(all, f) = FeatureOf(recv, f, Created(recv, f), Deleted(all, f), Registers(recv, f))
  <2>1. \A c, x, ps : FeatureOf(all, f, c, x, ps) = FeatureOf(recv, f, c, x, ps)
    BY <1>2, GeometryStays
  <2>2. QED
    BY <1>4, <2>1, MeantIsFeature
<1>6. MeantFeature(recv, f) = FeatureOf(recv, f, Created(recv, f), Deleted(recv, f), Registers(recv, f))
  BY MeantIsFeature
<1>7. /\ d.features[f] = MeantFeature(recv, f)
      /\ PutFeature(d, op, MeantFeature(all, f)) = DocumentOf(all, P)
  BY <1>1, DocumentChanges
<1>8. d.features[f].deleteReg = Deleted(recv, f)
  BY <1>6, <1>7 DEF FeatureOf
<1>9. CASE ~ wins
  <2>1. ApplyOp(d, history, op).doc = d
    BY <1>8, <1>9 DEF ApplyOp, ApplyDeleteFeature, Result
  <2>2. MeantFeature(all, f) = MeantFeature(recv, f)
    BY <1>4, <1>5, <1>6, <1>9
  <2>3. DocumentOf(all, P) = DocumentOf(recv, P)
    BY <1>1, <2>2, DocumentStays
  <2>4. QED
    BY <1>3, <2>1, <2>3
<1>10. CASE wins
  <2>1. ApplyOp(d, history, op).doc =
          PutFeature(d, op, [d.features[f] EXCEPT !.deleteReg = StampOf(op)])
    BY <1>8, <1>10 DEF ApplyOp, ApplyDeleteFeature, Result
  <2>2. ASSUME NEW old, old = d.features[f], NEW e, e = [old EXCEPT !.deleteReg = StampOf(op)]
        PROVE  e = MeantFeature(all, f)
    <3> HIDE DEF f, all
    <3>1. e = FeatureOf(recv, f, Created(recv, f), StampOf(op), Registers(recv, f))
      BY <1>6, <1>7, <2>2 DEF FeatureOf
    <3>2. QED
      BY <1>4, <1>5, <1>10, <3>1
  <2>3. QED
    BY <1>3, <1>7, <2>1, <2>2
<1>11. QED
  BY <1>9, <1>10

LEMMA EditMore ==
  ASSUME NEW recv, NEW op, IsEdit(op), NEW f, op.feature = f
  PROVE  LET gen  == NewestRef(Generations(recv, f))
             take == HasGeometry(recv, f) /\ op.gen = gen
         IN  /\ Generations(recv \cup {op}, f) = Generations(recv, f)
             /\ SeenBy(recv \cup {op}, f) = SeenBy(recv, f)
             /\ GeometryOf(recv \cup {op}, f) =
                  IF take THEN GeometryWith(EditsOf(recv, f, gen) \cup {op})
                          ELSE GeometryOf(recv, f)
             /\ Created(recv \cup {op}, f) = Created(recv, f)
             /\ Deleted(recv \cup {op}, f) = Deleted(recv, f)
             /\ Registers(recv \cup {op}, f) = Registers(recv, f)
<1>1. Generations(recv \cup {op}, f) = Generations(recv, f)
  BY DEF Generations, Of, IsEdit
<1>2. \A gen : EditsOf(recv \cup {op}, f, gen) =
                 IF op.gen = gen THEN EditsOf(recv, f, gen) \cup {op} ELSE EditsOf(recv, f, gen)
  BY DEF EditsOf, Of, IsEdit
<1>3. HasGeometry(recv \cup {op}, f) = HasGeometry(recv, f)
  BY <1>1 DEF HasGeometry
<1>4. Registers(recv \cup {op}, f) = Registers(recv, f)
  <2>1. op.type \notin WriteType
    BY DEF IsEdit, WriteType
  <2>2. QED
    BY <2>1, RegistersStay
<1>5. /\ Of(recv \cup {op}, f, {"insert_feature"}) = Of(recv, f, {"insert_feature"})
      /\ Of(recv \cup {op}, f, {"delete_feature"}) = Of(recv, f, {"delete_feature"})
  BY DEF Of, IsEdit
<1>6. QED
  BY <1>1, <1>2, <1>3, <1>4, <1>5 DEF SeenBy, GeometryOf, Created, Deleted

Bundle(base, c, x, id, stamp, g, seen, ps) ==
  [isBase |-> base, createReg |-> c, deleteReg |-> x, genID |-> id, genStamp |-> stamp,
   geometry |-> g, seenGens |-> seen, properties |-> ps]

Only(op, word) == [o \in {op} |-> word]

(* An edit is taken, kept waiting or dropped.                              *)
EditOutcome(result, recv, op, P, Q) ==
  /\ Q = P \/ Q = P \cup {op}
  /\ result.doc = DocumentOf(recv \cup {op}, Q)
  /\ Queue(Q, recv \cup {op})
  /\ op \in Q => op.gen \notin Refs(recv)
  /\ op \in Q => result.outcomes = Only(op, "buffered")
  /\ op \notin Q => \E word \in {"applied", "superseded", "quarantined"} :
                       result.outcomes = Only(op, word)

LEMMA EditMeans ==
  ASSUME NEW recv, NEW op, Meaningful(recv \cup {op}), op \notin recv, IsEdit(op),
         NEW P, Queue(P, recv), NEW d, d = DocumentOf(recv, P),
         NEW history, Knows(history, recv)
  PROVE  \E Q : EditOutcome(ApplyOp(d, history, op), recv, op, P, Q)
<1> DEFINE f == op.feature
           all == recv \cup {op}
           gens == Generations(recv, f)
           gen == NewestRef(gens)
           here == op.gen \in SeenBy(recv, f)
           take == HasGeometry(recv, f) /\ op.gen = gen
           old == d.features[f]
<1>1. /\ f \in Feature /\ RefOf(op) \notin Refs(recv)
      /\ op.gen = NoRef \/ op.gen \in Site \X Number
  BY OpFields
<1>2. /\ Generations(all, f) = gens
      /\ SeenBy(all, f) = SeenBy(recv, f)
      /\ GeometryOf(all, f) =
           IF take THEN GeometryWith(EditsOf(recv, f, gen) \cup {op}) ELSE GeometryOf(recv, f)
      /\ Created(all, f) = Created(recv, f)
      /\ Deleted(all, f) = Deleted(recv, f)
      /\ Registers(all, f) = Registers(recv, f)
  BY EditMore
<1>3. /\ old = MeantFeature(recv, f)
      /\ d.pendingGen = P
      /\ PutFeature(d, op, MeantFeature(all, f)) = DocumentOf(all, P)
  BY <1>1, DocumentChanges
<1>4. MeantFeature(recv, f) =
        FeatureOf(recv, f, Created(recv, f), Deleted(recv, f), Registers(recv, f))
  BY MeantIsFeature
<1>5. MeantFeature(all, f) =
        FeatureOf(all, f, Created(recv, f), Deleted(recv, f), Registers(recv, f))
  BY <1>2, MeantIsFeature
<1>6. /\ old.seenGens = SeenBy(recv, f)
      /\ old.genID = gen
      /\ old.geometry = GeometryOf(recv, f)
      /\ old.geometry.present <=> HasGeometry(recv, f)
  BY <1>3, <1>4 DEF FeatureOf, GeometryOf, GeometryWith, NoGeometry
<1>7. op \notin P
  BY DEF Queue
<1>8. ~ take => DocumentOf(all, P) = d
  <2>1. ASSUME ~ take PROVE MeantFeature(all, f) = MeantFeature(recv, f)
    BY <1>2, <1>4, <1>5, <2>1 DEF FeatureOf
  <2>2. QED
    BY <1>1, <2>1, DocumentStays
<1>9. Refs(all) = Refs(recv) \cup {RefOf(op)}
  BY DEF Refs
<1>10. op.gen = NoRef \/ op.gen \in Refs(recv) => Queue(P, all)
  BY <1>9 DEF Queue, IsEdit, GenerationType
<1>11. gen \in SeenBy(recv, f) \/ ~ HasGeometry(recv, f)
  <2>1. CASE gens = {}
    BY <2>1 DEF NewestRef, SeenBy, HasGeometry
  <2>2. CASE gens # {}
    <3>1. Meaningful(gens)
      <4>1. gens \in SUBSET all
        BY DEF Generations, Of
      <4>2. QED
        BY <4>1, PartIsMeaningful
    <3>2. QED
      BY <2>2, <3>1, NewestRefIsOne DEF SeenBy
  <2>3. QED
    BY <2>1, <2>2
<1>12. here => op.gen = NoRef \/ op.gen \in Refs(recv)
  BY DEF SeenBy, Refs, Generations, Of
<1> DEFINE result == ApplyOp(d, history, op)
           dropped == \E word \in {"applied", "superseded", "quarantined"} :
                        result.outcomes = Only(op, word)
<1>13. CASE here /\ take
  <2>1. result = Result(PutFeature(d, op, [old EXCEPT !.geometry.edits = @ \cup {op}]), op, "applied")
    <3>1. result = ApplyEditGeometry(d, history, op)
      BY DEF ApplyOp, IsEdit
    <3>2. QED
      BY <1>6, <1>13, <3>1 DEF ApplyEditGeometry
  <2>2. ASSUME NEW before, before = old, NEW e, e = [before EXCEPT !.geometry.edits = @ \cup {op}]
        PROVE  e = MeantFeature(all, f)
    <3>1. GeometryOf(recv, f) = GeometryWith(EditsOf(recv, f, gen))
      BY <1>13 DEF GeometryOf
    <3>2. GeometryOf(all, f) = GeometryWith(EditsOf(recv, f, gen) \cup {op})
      BY <1>2, <1>13
    <3> HIDE DEF f, all, gen, old, take, here, gens
    <3>3. before = FeatureOf(recv, f, Created(recv, f), Deleted(recv, f), Registers(recv, f))
      BY <1>3, <1>4, <2>2
    <3>4. before = Bundle(f \in BaseFeature, Created(recv, f), Deleted(recv, f),
                          NewestRef(gens), NewestStamp(gens), GeometryWith(EditsOf(recv, f, gen)),
                          SeenBy(recv, f), Registers(recv, f))
      BY <3>1, <3>3 DEF FeatureOf, Bundle, gens
    <3>5. e = Bundle(f \in BaseFeature, Created(recv, f), Deleted(recv, f),
                     NewestRef(gens), NewestStamp(gens), GeometryWith(EditsOf(recv, f, gen) \cup {op}),
                     SeenBy(recv, f), Registers(recv, f))
      <4>1. before.geometry = [present |-> TRUE, edits |-> EditsOf(recv, f, gen)]
        BY <3>4 DEF GeometryWith, Bundle
      <4>2. e.geometry = [[present |-> TRUE, edits |-> EditsOf(recv, f, gen)]
                             EXCEPT !.edits = @ \cup {op}]
        BY <2>2, <3>4, <4>1 DEF Bundle
      <4>3. e.geometry = GeometryWith(EditsOf(recv, f, gen) \cup {op})
        BY <4>2 DEF GeometryWith
      <4>4. QED
        BY <2>2, <3>4, <4>3 DEF Bundle
    <3>6. e = FeatureOf(all, f, Created(recv, f), Deleted(recv, f), Registers(recv, f))
      BY <1>2, <3>2, <3>5 DEF FeatureOf, Bundle
    <3>7. QED
      BY <1>5, <3>6
  <2>3. [old EXCEPT !.geometry.edits = @ \cup {op}] = MeantFeature(all, f)
    BY <2>2
  <2>4. result = Result(DocumentOf(all, P), op, "applied")
    BY <1>3, <2>1, <2>3
  <2>5. result.doc = DocumentOf(all, P) /\ dropped
    BY <2>4 DEF Result, Only
  <2>6. QED
    BY <1>7, <1>10, <1>12, <1>13, <2>5 DEF EditOutcome
<1>14. CASE (here \/ op.gen = NoRef \/ CannotCome(history, op.gen)) /\ ~ take
  <2>1. result.doc = d /\ dropped
    <3>1. result = ApplyEditGeometry(d, history, op)
      BY DEF ApplyOp, IsEdit
    <3>2. \E word \in {"superseded", "quarantined"} : result = Result(d, op, word)
      BY <1>6, <1>14, <3>1 DEF ApplyEditGeometry
    <3>3. QED
      BY <3>2 DEF Result, Only
  <2>2. op.gen = NoRef \/ op.gen \in Refs(recv)
    <3>1. CannotCome(history, op.gen) /\ op.gen # NoRef => op.gen \in Refs(recv)
      BY <1>1 DEF Knows, CannotCome
    <3>2. QED
      BY <1>12, <1>14, <3>1
  <2>3. QED
    BY <1>7, <1>8, <1>10, <1>14, <2>1, <2>2 DEF EditOutcome
<1>15. CASE ~ here /\ op.gen # NoRef /\ ~ CannotCome(history, op.gen) /\ ~ take
  <2>1. result = Result([d EXCEPT !.pendingGen = @ \cup {op}], op, "buffered")
    <3>1. result = ApplyEditGeometry(d, history, op)
      BY DEF ApplyOp, IsEdit
    <3>2. QED
      BY <1>6, <1>15, <3>1 DEF ApplyEditGeometry
  <2>2. [d EXCEPT !.pendingGen = @ \cup {op}] = DocumentOf(all, P \cup {op})
    <3>1. DocumentOf(all, P) = d
      BY <1>8, <1>15
    <3>2. ASSUME NEW e, e = [d EXCEPT !.pendingGen = @ \cup {op}]
          PROVE  e = DocumentOf(all, P \cup {op})
      BY <3>1, <3>2 DEF DocumentOf
    <3>3. QED
      BY <3>2
  <2>3. op.gen \notin Refs(recv)
    BY <1>1, <1>15 DEF Knows, CannotCome
  <2>4. Queue(P \cup {op}, all)
    <3>1. \A g \in all : g.type \in GenerationType => RefOf(g) # op.gen
      BY <2>3 DEF IsEdit, GenerationType, Refs
    <3>2. ~ (op.type \in GenerationType)
      BY DEF IsEdit, GenerationType
    <3>3. QED
      BY <1>9, <1>15, <3>1, <3>2 DEF Queue
  <2>5. result.doc = DocumentOf(all, P \cup {op}) /\ result.outcomes = Only(op, "buffered")
    BY <2>1, <2>2 DEF Result, Only
  <2>6. QED
    BY <2>3, <2>4, <2>5 DEF EditOutcome
<1>16. ~ (~ here /\ take)
  BY <1>11
<1>17. QED
  BY <1>13, <1>14, <1>15, <1>16

(* A document that says what ops mean.                                     *)
Means(d, ops) == d = DocumentOf(ops, d.pendingGen) /\ Queue(d.pendingGen, ops)

LEMMA PendingOf ==
  ASSUME NEW ops, NEW P, Queue(P, ops)
  PROVE  Means(DocumentOf(ops, P), ops) /\ DocumentOf(ops, P).pendingGen = P
<1>1. DocumentOf(ops, P).pendingGen = P
  BY DEF DocumentOf
<1>2. QED
  BY <1>1 DEF Means

LEMMA OnlyEditsWait ==
  ASSUME NEW d, NEW op, NEW history, op.type \in OpType, ~ IsEdit(op)
  PROVE  LET outcomes == ApplyOp(d, history, op).outcomes
         IN  /\ op \in DOMAIN outcomes
             /\ DOMAIN outcomes \subseteq {op} \cup d.pendingGen
             /\ \A o \in DOMAIN outcomes : outcomes[o] # "buffered"
<1> DEFINE outcomes == ApplyOp(d, history, op).outcomes
           Fine(r) == /\ op \in DOMAIN r.outcomes
                      /\ DOMAIN r.outcomes \subseteq {op} \cup d.pendingGen
                      /\ \A o \in DOMAIN r.outcomes : r.outcomes[o] # "buffered"
<1>1. ASSUME NEW e, NEW word \in {"applied", "superseded", "quarantined"}
      PROVE  Fine(Result(e, op, word))
  BY DEF Result
<1>2. ASSUME NEW feature
      PROVE  Fine(AdoptGeneration(d, feature, op))
  <2>1. WaitingFor(d, op) \subseteq d.pendingGen
    BY DEF WaitingFor
  <2>2. CASE ~ Newer(StampOf(op), feature.genStamp)
    <3>1. AdoptGeneration(d, feature, op).outcomes =
            [o \in {op} \cup WaitingFor(d, op) |-> IF o = op THEN "applied" ELSE "superseded"]
      BY <2>2 DEF AdoptGeneration
    <3>2. QED
      BY <2>1, <3>1
  <2>3. CASE Newer(StampOf(op), feature.genStamp)
    <3>1. AdoptGeneration(d, feature, op).outcomes =
            [o \in {op} \cup WaitingFor(d, op) |->
               IF o = op \/ (o \in Released(WaitingFor(d, op), op) /\ op.geometry)
                 THEN "applied" ELSE "quarantined"]
      BY <2>3 DEF AdoptGeneration
    <3>2. QED
      BY <2>1, <3>1
  <2>4. QED
    BY <2>2, <2>3
<1> HIDE DEF Fine
<1>3. CASE op.type = "insert_feature"
  <2>1. \E feature : ApplyOp(d, history, op) = AdoptGeneration(d, feature, op)
    BY <1>3 DEF ApplyOp, ApplyInsertFeature
  <2>2. QED
    BY <1>2, <2>1 DEF Fine
<1>4. CASE op.type = "set_geometry"
  <2>1. \/ \E feature : ApplyOp(d, history, op) = AdoptGeneration(d, feature, op)
        \/ \E e : ApplyOp(d, history, op) = Result(e, op, "superseded")
    BY <1>4 DEF ApplyOp, ApplySetGeometry
  <2>2. QED
    BY <1>1, <1>2, <2>1 DEF Fine
<1>5. CASE op.type = "delete_feature"
  <2>1. \/ \E e : ApplyOp(d, history, op) = Result(e, op, "superseded")
        \/ \E e : ApplyOp(d, history, op) = Result(e, op, "applied")
    BY <1>5 DEF ApplyOp, ApplyDeleteFeature
  <2>2. QED
    BY <1>1, <2>1 DEF Fine
<1>6. CASE op.type \in {"set_property", "delete_property"}
  <2>1. \/ \E e : ApplyOp(d, history, op) = Result(e, op, "superseded")
        \/ \E e : ApplyOp(d, history, op) = Result(e, op, "applied")
    BY <1>6 DEF ApplyOp, ApplyWriteProperty
  <2>2. QED
    BY <1>1, <2>1 DEF Fine
<1>7. QED
  BY <1>3, <1>4, <1>5, <1>6 DEF OpType, GenerationType, IsEdit

(* What an operation does to a document that means recv.                   *)
AppliedWell(result, d, recv, op) ==
  LET Q == result.doc.pendingGen
  IN  /\ Means(result.doc, recv \cup {op})
      /\ Q \subseteq d.pendingGen \cup {op}
      /\ op \in Q => op.gen \notin Refs(recv) /\ result.outcomes[op] # "applied"
      /\ op \in DOMAIN result.outcomes
      /\ \A o \in DOMAIN result.outcomes : result.outcomes[o] = "buffered" => o = op

LEMMA ApplyMeans ==
  ASSUME NEW recv, NEW op, Meaningful(recv \cup {op}), op \notin recv,
         NEW d, Means(d, recv), NEW history, Knows(history, recv)
  PROVE  AppliedWell(ApplyOp(d, history, op), d, recv, op)
<1> DEFINE P == d.pendingGen
           result == ApplyOp(d, history, op)
           Q == result.doc.pendingGen
           all == recv \cup {op}
<1>1. Queue(P, recv) /\ d = DocumentOf(recv, P) /\ op \notin P
  BY DEF Means, Queue
<1>2. op.type \in OpType
  BY OpFields
<1>3. CASE ~ IsEdit(op)
  <2>1. \E R \in {P, StillWaiting(P, op)} : result.doc = DocumentOf(all, R) /\ Queue(R, all)
    <3>1. CASE op.type \in GenerationType
      BY <1>1, <3>1, GenerationMeans
    <3>2. CASE op.type = "delete_feature"
      BY <1>1, <3>2, DeleteMeans
    <3>3. CASE op.type \in {"set_property", "delete_property"}
      BY <1>1, <3>3, PropertyMeans
    <3>4. QED
      BY <1>2, <1>3, <3>1, <3>2, <3>3 DEF OpType, IsEdit
  <2>2. PICK R \in {P, StillWaiting(P, op)} : result.doc = DocumentOf(all, R) /\ Queue(R, all)
    BY <2>1
  <2>3. Means(result.doc, all) /\ Q = R
    BY <2>2, PendingOf
  <2>4. R \subseteq P
    BY <2>2 DEF StillWaiting
  <2>5. /\ op \in DOMAIN result.outcomes
        /\ \A o \in DOMAIN result.outcomes : result.outcomes[o] # "buffered"
    BY <1>2, <1>3, OnlyEditsWait
  <2>6. QED
    BY <1>1, <2>3, <2>4, <2>5 DEF AppliedWell
<1>4. CASE IsEdit(op)
  <2>1. PICK R : EditOutcome(result, recv, op, P, R)
    BY <1>1, <1>4, EditMeans
  <2>2. Means(result.doc, all) /\ Q = R
    BY <2>1, PendingOf DEF EditOutcome
  <2>3. \E word : result.outcomes = Only(op, word) /\ (op \in R => word # "applied")
    BY <2>1 DEF EditOutcome
  <2>4. QED
    BY <1>1, <2>1, <2>2, <2>3 DEF Only, EditOutcome, AppliedWell
<1>5. QED
  BY <1>3, <1>4

-----------------------------------------------------------------------------
(***************************************************************************)
(* Batches: the oldest operation first.                                    *)
(***************************************************************************)
LEMMA MeaningfulIsOrderly ==
  ASSUME NEW ops, Meaningful(ops)
  PROVE  Orderly(ops)
BY OperationsAreStamped DEF Meaningful, Orderly

LEMMA OldestFirst ==
  ASSUME NEW start, NEW vc, NEW ops, Meaningful(ops)
  PROVE  \E after :
           /\ after[{}] = start
           /\ \A op \in ops :
                after[Older(ops, op) \cup {op}] = MergeOne(after[Older(ops, op)], vc, op)
           /\ InStampOrder(start, vc, ops) = after[ops]
<1> DEFINE after == Merging!Batched(vc, start, ops)
<1>1. Orderly(ops)
  BY MeaningfulIsOrderly
<1>2. PICK size :
        /\ \A done \in SUBSET ops : size[done] \in Nat /\ size[done] <= size[ops]
        /\ \A done \in SUBSET ops : done # {} =>
             Newest(done) \in done /\ size[done \ {Newest(done)}] < size[done]
  BY <1>1, BatchesHaveSizes, Zenon
<1>3. /\ after[{}] = start
      /\ \A done \in SUBSET ops : done # {} =>
           after[done] = MergeInto(vc, after[done \ {Newest(done)}], Newest(done))
  <2>1. Merging!Sized(ops, size)
    BY <1>2 DEF Merging!Sized
  <2>2. Merging!Follows(after, vc, start, ops)
    BY <2>1, Merging!BatchLoop, SiteAssumption, MaxTimestampAssumption, Zenon
  <2>3. QED
    BY <2>2 DEF Merging!Follows
<1>4. InStampOrder(start, vc, ops) = after[ops]
  BY DEF InStampOrder, Merging!Batched, MergeInto
<1> HIDE DEF after
<1>5. ASSUME NEW op \in ops
      PROVE  after[Older(ops, op) \cup {op}] = MergeOne(after[Older(ops, op)], vc, op)
  <2>1. /\ Older(ops, op) \cup {op} \in SUBSET ops
        /\ Newest(Older(ops, op) \cup {op}) = op
        /\ (Older(ops, op) \cup {op}) \ {op} = Older(ops, op)
    BY <1>1, NewestOfPrefix
  <2>2. QED
    BY <1>3, <2>1 DEF MergeInto
<1>6. QED
  BY <1>3, <1>4, <1>5
LEMMA KnowsMore ==
  ASSUME NEW ops, NEW vc, NEW recv, NEW more, Knows(History(ops, vc), recv)
  PROVE  Knows(History(ops \cup more, vc), recv \cup more)
<1>1. Refs(ops \cup more) = Refs(ops) \cup Refs(more) /\ Refs(recv \cup more) = Refs(recv) \cup Refs(more)
  BY DEF Refs
<1>2. QED
  BY <1>1 DEF Knows, History

(* A batch takes a document to what it means with the batch.               *)
Batched(m, start, recv, ops, done) ==
  /\ Means(m.doc, recv \cup done)
  /\ m.log = start.log \cup done
  /\ m.reported \subseteq start.reported \cup done
  /\ m.doc.pendingGen \subseteq start.doc.pendingGen \cup done
  /\ \A e \in m.doc.pendingGen \cap done : e.gen \notin Refs(recv \cup Older(ops, e))

LEMMA BatchMeans ==
  ASSUME NEW start, NEW vc, NEW recv, NEW ops, Meaningful(recv \cup ops), ops \cap recv = {},
         Means(start.doc, recv), Knows(History(start.log, vc), recv)
  PROVE  Batched(InStampOrder(start, vc, ops), start, recv, ops, ops)
<1>1. Meaningful(ops)
  <2>1. ops \in SUBSET (recv \cup ops)
    OBVIOUS
  <2>2. QED
    BY <2>1, PartIsMeaningful
<1>2. PICK after :
        /\ after[{}] = start
        /\ \A op \in ops :
             after[Older(ops, op) \cup {op}] = MergeOne(after[Older(ops, op)], vc, op)
        /\ InStampOrder(start, vc, ops) = after[ops]
  BY <1>1, OldestFirst
<1> DEFINE Good == {done \in SUBSET ops : Batched(after[done], start, recv, ops, done)}
<1>3. {} \in Good
  <2>1. recv \cup {} = recv
    OBVIOUS
  <2>2. Batched(start, start, recv, ops, {})
    BY <2>1 DEF Batched
  <2>3. QED
    BY <1>2, <2>2
<1>4. ASSUME NEW op \in ops, Older(ops, op) \in Good
      PROVE  Older(ops, op) \cup {op} \in Good
  <2> DEFINE done == Older(ops, op)
             have == recv \cup done
             more == done \cup {op}
             m == after[done]
             result == ApplyOp(m.doc, History(m.log, vc), op)
  <2>1. done \in SUBSET ops /\ Batched(m, start, recv, ops, done)
    BY <1>4
  <2>2. op \notin done
    <3>1. op \in Operation
      BY <1>1 DEF Meaningful
    <3>2. Stamped(op)
      BY <3>1, OperationsAreStamped
    <3>3. QED
      BY <3>2, StampsAreOrdered DEF Older
  <2>3. Meaningful(have \cup {op}) /\ op \notin have
    <3>1. have \cup {op} \in SUBSET (recv \cup ops)
      BY <2>1
    <3>2. QED
      BY <2>2, <3>1, PartIsMeaningful
  <2>4. Knows(History(m.log, vc), have)
    BY <2>1, KnowsMore DEF Batched
  <2> DEFINE Q == result.doc.pendingGen
  <2> HIDE DEF have, m, done
  <2>5. AppliedWell(result, m.doc, have, op)
    <3>1. Means(m.doc, have)
      BY <2>1 DEF Batched, have
    <3>2. QED
      BY <2>3, <2>4, <3>1, ApplyMeans
  <2>6. after[more] =
          [doc |-> result.doc, log |-> m.log \cup {op},
           reported |-> (m.reported \ DOMAIN result.outcomes) \cup
             {o \in DOMAIN result.outcomes : result.outcomes[o] = "buffered"}]
    BY <1>2 DEF MergeOne, m, done
  <2>7. recv \cup more = have \cup {op}
    BY DEF have
  <2> HIDE DEF result
  <2>8. Batched(after[more], start, recv, ops, more)
    <3>1. after[more].doc = result.doc /\ after[more].log = m.log \cup {op}
      BY <2>6
    <3>2. after[more].reported \subseteq m.reported \cup {op}
      BY <2>5, <2>6 DEF AppliedWell
    <3>3. \A e \in Q \cap more : e.gen \notin Refs(recv \cup Older(ops, e))
      <4>1. CASE op \in Q
        BY <2>1, <2>5, <4>1 DEF Batched, AppliedWell, have, done
      <4>2. CASE op \notin Q
        BY <2>1, <2>5, <4>2 DEF Batched, AppliedWell
      <4>3. QED
        BY <4>1, <4>2
    <3>4. QED
      BY <2>1, <2>5, <2>7, <3>1, <3>2, <3>3 DEF Batched, AppliedWell
  <2>9. more \in SUBSET ops
    BY <2>1
  <2>10. QED
    BY <2>8, <2>9 DEF done
<1>5. ops \in Good
  <2> HIDE DEF Good
  <2>1. QED
    BY <1>1, <1>3, <1>4, StampInduction, MeaningfulIsOrderly
<1>6. QED
  BY <1>2, <1>5

-----------------------------------------------------------------------------
(***************************************************************************)
(* What holds of the operations under way, and of one replica.             *)
(***************************************************************************)
IssuedInv(all) ==
  /\ Meaningful(all)
  /\ \A op \in all : op.site \in Replica \cup Peer
  /\ \A op \in all : op.gen # NoRef => \E g \in all : RefOf(g) = op.gen /\ g.ts < op.ts
  /\ \A s \in Peer :
       LET own == {op \in all : op.site = s}
       IN  /\ Cardinality(own) <= LatestTimestamp(0, all)
           /\ \A op \in own : op.seq <= Cardinality(own)

(* Clock, watermark, log and features of replica r agree on what it has    *)
(* received.  Its own edits never wait: a command that would is refused.   *)
Sound(r, all, d, c, n, l, vc, recv, rep) ==
  /\ c \in Count /\ n \in Count /\ vc \in VectorClock
  /\ l \subseteq recv /\ recv \subseteq all /\ rep \subseteq recv
  /\ Means(d, recv)
  /\ d.pendingGen \subseteq l
  /\ \A op \in recv : op.ts <= c
  /\ \A op \in recv : op.seq <= vc[op.site] \/ op \in l
  /\ \A s \in Site : 1 .. vc[s] \subseteq SeqsOf(recv, s)
  /\ \A op \in all : op.site = r => op \in recv /\ op.seq <= n
  /\ \A e \in d.pendingGen : e.site # r

LEMMA OperationFields ==
  ASSUME NEW op \in Operation
  PROVE  /\ op.site \in Site /\ op.seq \in Number /\ op.ts \in Number
         /\ op.seq \in Nat /\ op.ts \in Nat /\ op.seq > 0 /\ op.ts > 0
         /\ op.seq \in Count /\ op.ts \in Count
BY MaxTimestampAssumption DEF Operation, Number, Count

LEMMA OneOperation ==
  ASSUME NEW all, Meaningful(all), NEW a \in all, NEW b \in all, a.site = b.site, a.seq = b.seq
  PROVE  a = b
BY DEF Meaningful, OneEach, RefOf

LEMMA LatestOf ==
  ASSUME NEW n \in Count, NEW ops \in SUBSET Operation
  PROVE  /\ LatestTimestamp(n, ops) \in Count
         /\ LatestTimestamp(n, ops) >= n
         /\ \A op \in ops : op.ts <= LatestTimestamp(n, ops)
         /\ LatestTimestamp(n, ops) = n \/ \E op \in ops : LatestTimestamp(n, ops) = op.ts
<1> DEFINE S == {n} \cup {op.ts : op \in ops}
<1>1. S \in SUBSET Count /\ S # {}
  BY OperationFields
<1>2. Max(S) \in S /\ \A k \in S : Max(S) >= k
  BY <1>1, MaxOfCounts
<1>3. \A k \in S : k \in Int
  BY <1>1 DEF Count
<1> HIDE DEF S
<1>4. LatestTimestamp(n, ops) = Max(S)
  BY DEF LatestTimestamp, S
<1>5. /\ n \in S /\ \A op \in ops : op.ts \in S
      /\ \A k \in S : k = n \/ \E op \in ops : k = op.ts
  BY DEF S
<1>6. QED
  BY <1>1, <1>2, <1>3, <1>4, <1>5

(* Log and watermark know what has been received.                          *)
LEMMA LogAndClockKnow ==
  ASSUME NEW recv, Meaningful(recv), NEW l \in SUBSET recv, NEW vc \in VectorClock,
         \A op \in recv : op.seq <= vc[op.site] \/ op \in l,
         \A s \in Site : 1 .. vc[s] \subseteq SeqsOf(recv, s)
  PROVE  Knows(History(l, vc), recv)
<1> SUFFICES ASSUME NEW ref \in Site \X Number
             PROVE  ref \in Refs(recv) <=> ref[2] <= vc[ref[1]] \/ ref \in Refs(l)
  BY DEF Knows, History
<1> DEFINE s == ref[1]
           n == ref[2]
<1>1. s \in Site /\ n \in Number /\ ref = << s, n >> /\ vc[s] \in Count
  BY DEF VectorClock
<1>2. ASSUME ref \in Refs(recv)
      PROVE  n <= vc[s] \/ ref \in Refs(l)
  <2>1. PICK op \in recv : ref = RefOf(op)
    BY <1>2 DEF Refs
  <2>2. op.site = s /\ op.seq = n
    BY <2>1 DEF RefOf
  <2>3. QED
    BY <2>1, <2>2 DEF Refs
<1>3. ASSUME n <= vc[s]
      PROVE  ref \in Refs(recv)
  <2>1. n \in 1 .. vc[s]
    BY <1>1, <1>3, MaxTimestampAssumption DEF Number, Count
  <2>2. PICK op \in recv : op.site = s /\ op.seq = n
    BY <1>1, <2>1 DEF SeqsOf
  <2>3. QED
    BY <1>1, <2>2 DEF Refs, RefOf
<1>4. ref \in Refs(l) => ref \in Refs(recv)
  BY DEF Refs
<1>5. QED
  BY <1>2, <1>3, <1>4

LEMMA SoundKnows ==
  ASSUME NEW r, NEW all, IssuedInv(all), NEW d, NEW c, NEW n, NEW l, NEW vc, NEW recv, NEW rep,
         Sound(r, all, d, c, n, l, vc, recv, rep)
  PROVE  Knows(History(l, vc), recv) /\ Meaningful(recv) /\ Meaningful(all)
<1>1. Meaningful(all) /\ recv \in SUBSET all
  BY DEF IssuedInv, Sound
<1>2. Meaningful(recv)
  BY <1>1, PartIsMeaningful
<1>3. QED
  BY <1>1, <1>2, LogAndClockKnow DEF Sound

(* What the frontier clock says of a set of operations.                    *)
KnowledgeOf(recv) == [s \in Site |-> Advance(0, SeqsOf(recv, s))]

LEMMA KnowledgeIsExact ==
  ASSUME NEW recv, Meaningful(recv)
  PROVE  /\ KnowledgeOf(recv) \in VectorClock
         /\ \A s \in Site : 1 .. KnowledgeOf(recv)[s] \subseteq SeqsOf(recv, s)
         /\ \A vc \in VectorClock :
              (\A s \in Site : 1 .. vc[s] \subseteq SeqsOf(recv, s)) => CoveredBy(vc, KnowledgeOf(recv))
<1>1. ASSUME NEW s \in Site
      PROVE  SeqsOf(recv, s) \in SUBSET Number
  BY OperationFields DEF SeqsOf, Meaningful
<1>2. 0 \in Count
  BY MaxTimestampAssumption DEF Count
<1>3. ASSUME NEW s \in Site
      PROVE  /\ KnowledgeOf(recv)[s] \in Count
             /\ 1 .. KnowledgeOf(recv)[s] \subseteq SeqsOf(recv, s)
             /\ KnowledgeOf(recv)[s] + 1 \notin SeqsOf(recv, s)
  <2> DEFINE m == Advance(0, SeqsOf(recv, s))
  <2>1. m \in Count /\ (0+1) .. m \subseteq SeqsOf(recv, s) /\ m + 1 \notin SeqsOf(recv, s)
    BY <1>1, <1>2, AdvanceStops
  <2>2. KnowledgeOf(recv)[s] = m
    BY DEF KnowledgeOf
  <2> HIDE DEF m
  <2>3. QED
    BY <2>1, <2>2
<1>4. KnowledgeOf(recv) \in VectorClock
  <2>1. ASSUME NEW K, K = KnowledgeOf(recv)
        PROVE  K \in VectorClock
    BY <1>3, <2>1 DEF VectorClock, KnowledgeOf
  <2>2. QED
    BY <2>1
<1>5. ASSUME NEW vc \in VectorClock, \A s \in Site : 1 .. vc[s] \subseteq SeqsOf(recv, s),
             NEW s \in Site
      PROVE  vc[s] <= KnowledgeOf(recv)[s]
  <2>1. vc[s] \in Nat /\ KnowledgeOf(recv)[s] \in Nat
    BY <1>3, MaxTimestampAssumption DEF VectorClock, Count
  <2>2. KnowledgeOf(recv)[s] + 1 \notin 1 .. vc[s]
    BY <1>3, <1>5
  <2>3. QED
    BY <2>1, <2>2
<1>6. QED
  BY <1>3, <1>4, <1>5 DEF CoveredBy

-----------------------------------------------------------------------------
(***************************************************************************)
(* Operations that are issued.                                             *)
(***************************************************************************)
LEMMA OthersStaySound ==
  ASSUME NEW r, NEW all, NEW d, NEW c, NEW n, NEW l, NEW vc, NEW recv, NEW rep,
         Sound(r, all, d, c, n, l, vc, recv, rep), NEW op, op.site # r
  PROVE  Sound(r, all \cup {op}, d, c, n, l, vc, recv, rep)
BY DEF Sound

LEMMA IssuedMore ==
  ASSUME NEW all, IssuedInv(all), NEW op \in Operation, op.site \in Replica \cup Peer,
         RefOf(op) \notin Refs(all),
         op.gen # NoRef => \E g \in all : RefOf(g) = op.gen /\ g.ts < op.ts,
         op.site \in Peer => /\ op.seq = Cardinality({o \in all : o.site = op.site}) + 1
                             /\ op.ts > LatestTimestamp(0, all)
  PROVE  IssuedInv(all \cup {op})
<1> DEFINE more == all \cup {op}
           Own(ops, s) == {o \in ops : o.site = s}
<1>1. Meaningful(all)
  BY DEF IssuedInv
<1>2. Meaningful(more)
  <2>1. IsFiniteSet(more)
    BY <1>1, FS_AddElement DEF Meaningful
  <2>2. OneEach(more)
    BY <1>1 DEF Meaningful, OneEach, Refs
  <2>3. QED
    BY <1>1, <2>1, <2>2 DEF Meaningful
<1>3. \A o \in more : o.site \in Replica \cup Peer
  BY DEF IssuedInv
<1>4. \A o \in more : o.gen # NoRef => \E g \in more : RefOf(g) = o.gen /\ g.ts < o.ts
  BY DEF IssuedInv
<1>5. /\ LatestTimestamp(0, all) \in Nat /\ LatestTimestamp(0, more) \in Nat
      /\ LatestTimestamp(0, all) <= LatestTimestamp(0, more)
      /\ op.ts <= LatestTimestamp(0, more) /\ op.ts \in Nat
  <2>1. 0 \in Count /\ all \in SUBSET Operation /\ more \in SUBSET Operation
    BY <1>1, <1>2, MaxTimestampAssumption DEF Count, Meaningful
  <2>2. op \in more /\ \A o \in all : o \in more
    OBVIOUS
  <2> HIDE DEF more
  <2>3. LatestTimestamp(0, all) \in Count /\ LatestTimestamp(0, more) \in Count
    BY <2>1, LatestOf
  <2>4. 0 <= LatestTimestamp(0, more) /\ \A o \in more : o.ts <= LatestTimestamp(0, more)
    BY <2>1, LatestOf
  <2>5. LatestTimestamp(0, all) = 0 \/ \E o \in all : LatestTimestamp(0, all) = o.ts
    BY <2>1, LatestOf
  <2>6. op.ts \in Nat
    BY OperationFields
  <2>7. QED
    BY <2>2, <2>3, <2>4, <2>5, <2>6, MaxTimestampAssumption DEF Count
<1>6. ASSUME NEW s \in Peer
      PROVE  /\ Cardinality(Own(more, s)) <= LatestTimestamp(0, more)
             /\ \A o \in Own(more, s) : o.seq <= Cardinality(Own(more, s))
  <2>1. /\ IsFiniteSet(Own(all, s)) /\ Cardinality(Own(all, s)) \in Nat
        /\ Cardinality(Own(all, s)) <= LatestTimestamp(0, all)
        /\ \A o \in Own(all, s) : o.seq <= Cardinality(Own(all, s))
        /\ \A o \in Own(all, s) : o.seq \in Nat
    <3>1. IsFiniteSet(Own(all, s))
      BY <1>1, FS_Subset DEF Meaningful
    <3>2. Cardinality(Own(all, s)) \in Nat
      BY <3>1, FS_CardinalityType
    <3>3. \A o \in Own(all, s) : o.seq \in Nat
      BY <1>1, OperationFields DEF Meaningful
    <3>4. /\ Cardinality(Own(all, s)) <= LatestTimestamp(0, all)
          /\ \A o \in Own(all, s) : o.seq <= Cardinality(Own(all, s))
      BY DEF IssuedInv
    <3>5. QED
      BY <3>1, <3>2, <3>3, <3>4
  <2>2. CASE op.site = s
    <3>1. Own(more, s) = Own(all, s) \cup {op} /\ op \notin Own(all, s)
      BY <2>2 DEF Refs
    <3>2. Cardinality(Own(more, s)) = Cardinality(Own(all, s)) + 1
      BY <2>1, <3>1, FS_AddElement
    <3>3. op.seq = Cardinality(Own(all, s)) + 1 /\ op.ts > LatestTimestamp(0, all)
      BY <2>2
    <3> DEFINE k == Cardinality(Own(all, s))
    <3> HIDE DEF Own, more, k
    <3>4. k \in Nat /\ k + 1 <= LatestTimestamp(0, more)
      BY <1>5, <2>1, <3>3 DEF k
    <3>5. \A o \in Own(more, s) : o.seq <= k + 1
      <4>1. ASSUME NEW o \in Own(all, s) PROVE o.seq <= k + 1
        BY <2>1, <3>4 DEF k
      <4>2. op.seq <= k + 1
        BY <3>3, <3>4 DEF k
      <4>3. QED
        BY <3>1, <4>1, <4>2
    <3>6. QED
      BY <3>2, <3>4, <3>5 DEF k
  <2>3. CASE op.site # s
    <3>1. Own(more, s) = Own(all, s)
      BY <2>3
    <3> HIDE DEF Own
    <3>2. QED
      BY <1>5, <2>1, <3>1
  <2>4. QED
    BY <2>2, <2>3
<1>7. QED
  BY <1>2, <1>3, <1>4, <1>6 DEF IssuedInv

(* What the validation of a command leaves.                                *)
LEMMA CommandFields ==
  ASSUME NEW d, NEW shape \in Commands(d)
  PROVE  /\ shape.type \in OpType /\ shape.feature \in Feature
         /\ shape.geometry \in BOOLEAN /\ shape.properties \in SUBSET Property
         /\ IF IsEdit(shape)
              THEN /\ d.features[shape.feature].geometry.present
                   /\ shape.gen = d.features[shape.feature].genID
              ELSE shape.gen = NoRef
         /\ shape.properties # {} => shape.type \in WriteType
<1> USE DEF Command, IsEdit, OpType, GenerationType, WriteType
<1>1. CASE \E f \in Feature, g \in BOOLEAN, ps \in SUBSET Property : shape = InsertFeature(f, g, ps)
  BY <1>1 DEF InsertFeature
<1>2. CASE \E f \in Feature : shape = DeleteFeature(f)
  BY <1>2 DEF DeleteFeature
<1>3. CASE \E f \in Feature, g \in BOOLEAN : shape = SetGeometry(f, g)
  BY <1>3 DEF SetGeometry
<1>4. CASE \E f \in Feature, p \in Property : shape = SetProperty(f, p)
  BY <1>4 DEF SetProperty
<1>5. CASE \E f \in Feature, p \in Property : shape = DeleteProperty(f, p)
  BY <1>5 DEF DeleteProperty
<1>6. CASE \E f \in Feature : d.features[f].geometry.present /\ shape = EditGeometry(f, d.features[f].genID)
  BY <1>6 DEF EditGeometry
<1>7. QED
  BY <1>1, <1>2, <1>3, <1>4, <1>5, <1>6 DEF Commands

(* The features of a document that means recv.                             *)
LEMMA MeansFeature ==
  ASSUME NEW d, NEW recv, Means(d, recv), NEW f \in Feature
  PROVE  /\ d.features[f] = MeantFeature(recv, f)
         /\ d.features[f].genID = NewestRef(Generations(recv, f))
         /\ d.features[f].genStamp = NewestStamp(Generations(recv, f))
         /\ d.features[f].geometry.present <=> HasGeometry(recv, f)
         /\ d.features[f].geometry = GeometryOf(recv, f)
         /\ d.features[f].createReg = Created(recv, f)
         /\ d.features[f].deleteReg = Deleted(recv, f)
         /\ \A p \in Property : d.features[f].properties[p] = RegisterOf(recv, f, p)
<1>1. d.features[f] = MeantFeature(recv, f)
  <2>1. d = DocumentOf(recv, d.pendingGen)
    BY DEF Means
  <2>2. d.features = [g \in Feature |-> MeantFeature(recv, g)]
    BY <2>1 DEF DocumentOf
  <2>3. QED
    BY <2>2
<1>2. MeantFeature(recv, f) =
        FeatureOf(recv, f, Created(recv, f), Deleted(recv, f), Registers(recv, f))
  BY MeantIsFeature
<1>3. QED
  BY <1>1, <1>2 DEF FeatureOf, GeometryOf, GeometryWith, NoGeometry, Registers

-----------------------------------------------------------------------------
(***************************************************************************)
(* A local command.                                                        *)
(***************************************************************************)
LEMMA CommandIsIssued ==
  ASSUME NEW all, IssuedInv(all), NEW r \in Replica, NEW d, NEW c, NEW n, NEW l, NEW vc,
         NEW recv, NEW rep, Sound(r, all, d, c, n, l, vc, recv, rep),
         c + 1 < MaxTimestamp, n + 1 < MaxTimestamp, NEW shape \in Commands(d),
         NEW op, op = Issue(r, n + 1, c + 1, shape)
  PROVE  /\ op.site = r /\ op.seq = n + 1 /\ op.ts = c + 1
         /\ op.type = shape.type /\ op.feature = shape.feature /\ op.geometry = shape.geometry
         /\ op.properties = shape.properties /\ op.gen = shape.gen
         /\ \A o \in recv : o.ts < op.ts
         /\ op \notin recv
         /\ IssuedInv(all \cup {op})
<1>1. /\ op.site = r /\ op.seq = n + 1 /\ op.ts = c + 1
      /\ op.type = shape.type /\ op.feature = shape.feature /\ op.geometry = shape.geometry
      /\ op.properties = shape.properties /\ op.gen = shape.gen
  BY DEF Issue
<1>2. Meaningful(all) /\ recv \in SUBSET all /\ r \in Site
  BY ReplicaAssumption DEF IssuedInv, Sound
<1>3. Meaningful(recv)
  BY <1>2, PartIsMeaningful
<1>4. \A o \in recv : o.ts < op.ts
  <2>1. ASSUME NEW o \in recv PROVE o.ts < c + 1
    <3>1. o.ts \in Nat
      BY <1>3, OperationFields DEF Meaningful
    <3>2. o.ts <= c /\ c \in Nat
      BY MaxTimestampAssumption DEF Sound, Count
    <3>3. QED
      BY <3>1, <3>2
  <2>2. QED
    BY <1>1, <2>1
<1>5. \A o \in all : o.site = r => o.seq # n + 1
  <2>1. ASSUME NEW o \in all, o.site = r PROVE o.seq # n + 1
    <3>1. o.seq \in Nat
      BY <1>2, OperationFields DEF Meaningful
    <3>2. o.seq <= n /\ n \in Nat
      BY <2>1, MaxTimestampAssumption DEF Sound, Count
    <3>3. QED
      BY <3>1, <3>2
  <2>2. QED
    BY <2>1
<1>6. RefOf(op) \notin Refs(all) /\ op \notin recv
  BY <1>1, <1>2, <1>5 DEF RefOf, Refs
<1>7. /\ shape.type \in OpType /\ shape.feature \in Feature
      /\ shape.geometry \in BOOLEAN /\ shape.properties \in SUBSET Property
      /\ IF IsEdit(shape) THEN shape.gen = d.features[shape.feature].genID
                          ELSE shape.gen = NoRef
  BY CommandFields
<1>8. shape.gen # NoRef => shape.gen \in Refs(recv)
  <2>1. ASSUME shape.gen # NoRef PROVE shape.gen \in Refs(recv)
    <3> DEFINE gens == Generations(recv, shape.feature)
    <3>1. shape.gen = NewestRef(gens)
      <4>1. Means(d, recv)
        BY DEF Sound
      <4>2. QED
        BY <1>7, <2>1, <4>1, MeansFeature
    <3>2. gens # {}
      BY <2>1, <3>1 DEF NewestRef
    <3>3. gens \in SUBSET recv
      BY DEF Generations, Of
    <3>4. NewestRef(gens) \in Refs(gens)
      BY <1>3, <3>2, <3>3, PartIsMeaningful, NewestRefIsOne
    <3>5. QED
      BY <3>1, <3>3, <3>4 DEF Refs
  <2>2. QED
    BY <2>1
<1>9. op \in Operation
  <2>1. c + 1 \in Number /\ n + 1 \in Number
    BY MaxTimestampAssumption DEF Sound, Count, Number
  <2>2. shape.gen \in {NoRef} \cup (Site \X Number)
    <3>1. Refs(recv) \subseteq Site \X Number
      BY <1>3, OperationFields DEF Refs, RefOf, Meaningful
    <3>2. QED
      BY <1>8, <3>1
  <2>3. op = [site |-> r, seq |-> n + 1, ts |-> c + 1,
              type |-> shape.type, feature |-> shape.feature, geometry |-> shape.geometry,
              properties |-> shape.properties, gen |-> shape.gen]
    BY DEF Issue
  <2>4. QED
    BY <1>2, <1>7, <2>1, <2>2, <2>3 DEF Operation
<1>10. op.gen # NoRef => \E g \in all : RefOf(g) = op.gen /\ g.ts < op.ts
  BY <1>1, <1>2, <1>4, <1>8 DEF Refs
<1>11. op.site \in Replica \cup Peer /\ op.site \notin Peer
  BY <1>1, ReplicaAssumption
<1>12. IssuedInv(all \cup {op})
  BY <1>6, <1>9, <1>10, <1>11, IssuedMore
<1>13. QED
  BY <1>1, <1>4, <1>6, <1>12

LEMMA CommandIsSound ==
  ASSUME NEW all, IssuedInv(all), NEW r \in Replica, NEW d, NEW c, NEW n, NEW l, NEW vc,
         NEW recv, NEW rep, Sound(r, all, d, c, n, l, vc, recv, rep),
         c + 1 < MaxTimestamp, n + 1 < MaxTimestamp, NEW shape \in Commands(d),
         NEW op, op = Issue(r, n + 1, c + 1, shape),
         NEW result, result = ApplyOp(d, History(l, vc), op), result.outcomes[op] = "applied"
  PROVE  Sound(r, all \cup {op}, result.doc, c + 1, n + 1, l \cup {op}, vc, recv \cup {op}, rep)
<1>1. /\ op.site = r /\ op.seq = n + 1 /\ op.ts = c + 1
      /\ \A o \in recv : o.ts < op.ts
      /\ op \notin recv
      /\ IssuedInv(all \cup {op})
  BY CommandIsIssued
<1>2. Knows(History(l, vc), recv)
  BY SoundKnows
<1>3. Meaningful(recv \cup {op})
  <2>1. recv \cup {op} \in SUBSET (all \cup {op})
    BY DEF Sound
  <2>2. QED
    BY <1>1, <2>1, PartIsMeaningful DEF IssuedInv
<1>4. AppliedWell(result, d, recv, op)
  <2>1. Means(d, recv)
    BY DEF Sound
  <2>2. QED
    BY <1>1, <1>2, <1>3, <2>1, ApplyMeans
<1>5. Means(result.doc, recv \cup {op}) /\ result.doc.pendingGen \subseteq d.pendingGen
  BY <1>4 DEF AppliedWell
<1>6. c + 1 \in Count /\ n + 1 \in Count /\ c \in Nat /\ n \in Nat
  BY MaxTimestampAssumption DEF Sound, Count
<1>7. \A o \in recv \cup {op} : o.ts <= c + 1
  <2>1. ASSUME NEW o \in recv PROVE o.ts <= c + 1
    <3>1. o.ts \in Nat
      BY <1>3, OperationFields DEF Meaningful
    <3>2. QED
      BY <1>1, <1>6, <3>1
  <2>2. QED
    BY <1>1, <1>6, <2>1
<1>8. \A s \in Site : SeqsOf(recv, s) \subseteq SeqsOf(recv \cup {op}, s)
  BY DEF SeqsOf
<1>9. \A o \in all \cup {op} : o.site = r => o \in recv \cup {op} /\ o.seq <= n + 1
  <2>1. ASSUME NEW o \in all, o.site = r PROVE o \in recv /\ o.seq <= n + 1
    <3>1. o.seq \in Nat
      BY <1>1, OperationFields DEF Meaningful, IssuedInv
    <3>2. o \in recv /\ o.seq <= n
      BY <2>1 DEF Sound
    <3>3. QED
      BY <1>6, <3>1, <3>2
  <2>2. QED
    BY <1>1, <1>6, <2>1
<1>10. QED
  BY <1>5, <1>6, <1>7, <1>8, <1>9 DEF Sound

LEMMA NewestIsLatest ==
  ASSUME NEW S, Meaningful(S), NEW op \in S, \A o \in S : o = op \/ o.ts < op.ts
  PROVE  /\ Newest(S) = op /\ NewestStamp(S) = StampOf(op) /\ NewestRef(S) = RefOf(op)
<1>1. IsFiniteSet(S) /\ OneEach(S) /\ \A o \in S : Stamped(o)
  BY OperationsAreStamped DEF Meaningful
<1>2. \A o \in S : ~ Newer(o, op)
  BY <1>1 DEF Stamped, Newer, Less
<1>3. Newest(S) = op
  BY <1>1, <1>2, NewestIs
<1>4. QED
  BY <1>3 DEF NewestStamp, NewestRef

LEMMA EditIsTaken ==
  ASSUME NEW recv, NEW op, IsEdit(op), HasGeometry(recv, op.feature),
         op.gen = NewestRef(Generations(recv, op.feature))
  PROVE  op \in GeometryOf(recv \cup {op}, op.feature).edits
<1> DEFINE f == op.feature
           more == recv \cup {op}
<1>1. Generations(more, f) = Generations(recv, f)
  BY DEF Generations, Of, IsEdit
<1>2. HasGeometry(more, f)
  BY <1>1 DEF HasGeometry
<1>3. op \in EditsOf(more, f, NewestRef(Generations(more, f)))
  BY <1>1 DEF EditsOf, Of, IsEdit
<1> HIDE DEF f, more
<1>4. op \in GeometryOf(more, f).edits
  BY <1>2, <1>3 DEF GeometryOf, GeometryWith
<1>5. QED
  BY <1>4 DEF f, more

(* What the author of a command sees of it.                                *)
TakesEffect(feature, op) ==
  /\ op.type = "insert_feature" => Visible(feature)
  /\ op.type = "delete_feature" => ~ Visible(feature)
  /\ op.type \in {"insert_feature", "set_geometry"} => feature.genID = RefOf(op)
  /\ op.type = "edit_geometry" => op \in feature.geometry.edits
  /\ \A p \in op.properties : feature.properties[p].ref = StampOf(op)

LEMMA CommandTakesEffect ==
  ASSUME NEW all, IssuedInv(all), NEW r \in Replica, NEW d, NEW c, NEW n, NEW l, NEW vc,
         NEW recv, NEW rep, Sound(r, all, d, c, n, l, vc, recv, rep),
         c + 1 < MaxTimestamp, n + 1 < MaxTimestamp, NEW shape \in Commands(d),
         NEW op, op = Issue(r, n + 1, c + 1, shape),
         NEW after, Means(after, recv \cup {op})
  PROVE  TakesEffect(after.features[op.feature], op)
<1> DEFINE f == op.feature
           more == recv \cup {op}
           feature == after.features[f]
<1>1. /\ op.type = shape.type /\ f = shape.feature
      /\ op.properties = shape.properties /\ op.gen = shape.gen
      /\ \A o \in recv : o.ts < op.ts
      /\ IssuedInv(all \cup {op})
  BY CommandIsIssued
<1>2. Meaningful(more)
  <2>1. more \in SUBSET (all \cup {op})
    BY DEF Sound
  <2>2. QED
    BY <1>1, <2>1, PartIsMeaningful DEF IssuedInv
<1>3. ASSUME NEW S \in SUBSET more, op \in S
      PROVE  NewestStamp(S) = StampOf(op) /\ NewestRef(S) = RefOf(op)
  <2>1. Meaningful(S)
    BY <1>2, PartIsMeaningful
  <2>2. \A o \in S : o = op \/ o.ts < op.ts
    BY <1>1
  <2>3. QED
    BY <1>3, <2>1, <2>2, NewestIsLatest
<1>4. /\ shape.type \in OpType /\ f \in Feature
      /\ shape.properties \in SUBSET Property
      /\ IsEdit(shape) => /\ d.features[f].geometry.present
                          /\ shape.gen = d.features[f].genID
      /\ shape.properties # {} => shape.type \in WriteType
  BY <1>1, CommandFields
<1>5. /\ feature.genID = NewestRef(Generations(more, f))
      /\ feature.geometry = GeometryOf(more, f)
      /\ feature.createReg = Created(more, f)
      /\ feature.deleteReg = Deleted(more, f)
      /\ \A p \in Property : feature.properties[p] = RegisterOf(more, f, p)
  <2>1. Means(after, more)
    OBVIOUS
  <2> HIDE DEF more, f
  <2>2. QED
    BY <1>4, <2>1, MeansFeature
<1>6. \A o \in more : Stamped(o) /\ o.ts > 0
  BY <1>2, OperationsAreStamped DEF Meaningful
<1>7. StampOf(op) # NoStamp
  <2>1. StampOf(op).ts > 0
    BY <1>6 DEF StampOf
  <2>2. QED
    BY <2>1 DEF NoStamp
<1>8. ASSUME NEW types
      PROVE  /\ NewestStamp(Of(more, f, types)) = NoStamp
                  \/ \E o \in more : NewestStamp(Of(more, f, types)) = StampOf(o)
             /\ op.type \notin types => NewestStamp(Of(more, f, types)) = NoStamp
                  \/ \E o \in recv : NewestStamp(Of(more, f, types)) = StampOf(o)
  <2> DEFINE S == Of(more, f, types)
  <2>1. S \in SUBSET more /\ (op.type \notin types => S \in SUBSET recv)
    BY DEF Of
  <2>2. Meaningful(S)
    BY <1>2, <2>1, PartIsMeaningful
  <2>3. S # {} => Newest(S) \in S
    BY <2>2, NewestRefIsOne
  <2> HIDE DEF S
  <2>4. QED
    BY <2>1, <2>3 DEF NewestStamp, S
<1>9. ASSUME op.type = "insert_feature"
      PROVE  Visible(feature)
  <2>1. op \in Of(more, f, {"insert_feature"}) /\ Of(more, f, {"insert_feature"}) \in SUBSET more
    BY <1>9 DEF Of
  <2>2. feature.createReg = StampOf(op)
    BY <1>3, <1>5, <2>1 DEF Created
  <2>3. \/ feature.deleteReg = NoStamp
        \/ \E o \in recv : feature.deleteReg = StampOf(o)
    BY <1>5, <1>8, <1>9 DEF Deleted
  <2>4. \A o \in recv : Newer(StampOf(op), StampOf(o))
    BY <1>1, <1>6 DEF Newer, Less, StampOf
  <2>5. QED
    BY <1>7, <2>2, <2>3, <2>4 DEF Visible
<1>10. ASSUME op.type = "delete_feature"
       PROVE  ~ Visible(feature)
  <2>1. op \in Of(more, f, {"delete_feature"}) /\ Of(more, f, {"delete_feature"}) \in SUBSET more
    BY <1>10 DEF Of
  <2>2. feature.deleteReg = StampOf(op)
    BY <1>3, <1>5, <2>1 DEF Deleted
  <2>3. \/ feature.createReg = NoStamp
        \/ \E o \in recv : feature.createReg = StampOf(o)
    BY <1>5, <1>8, <1>10 DEF Created
  <2>4. \A o \in recv : ~ Newer(StampOf(o), StampOf(op))
    BY <1>1, <1>6 DEF Newer, Less, StampOf, Stamped
  <2>5. ~ Newer(NoStamp, StampOf(op))
    BY <1>6 DEF Newer, Less, StampOf, NoStamp, Stamped
  <2>6. QED
    BY <1>7, <2>2, <2>3, <2>4, <2>5 DEF Visible
<1>11. ASSUME op.type \in {"insert_feature", "set_geometry"}
       PROVE  feature.genID = RefOf(op)
  <2>1. op \in Generations(more, f) /\ Generations(more, f) \in SUBSET more
    BY <1>11 DEF Generations, Of
  <2>2. QED
    BY <1>3, <1>5, <2>1
<1>12. ASSUME op.type = "edit_geometry"
       PROVE  op \in feature.geometry.edits
  <2>1. IsEdit(op) /\ IsEdit(shape)
    BY <1>1, <1>12 DEF IsEdit
  <2>2. HasGeometry(recv, f) /\ op.gen = NewestRef(Generations(recv, f))
    <3>1. Means(d, recv)
      BY DEF Sound
    <3>2. QED
      BY <1>1, <1>4, <2>1, <3>1, MeansFeature
  <2>3. op \in GeometryOf(more, f).edits
    BY <2>1, <2>2, EditIsTaken
  <2>4. QED
    BY <1>5, <2>3
<1>13. ASSUME NEW p \in op.properties
       PROVE  feature.properties[p].ref = StampOf(op)
  <2>1. op.type \in WriteType /\ p \in Property
    BY <1>1, <1>4
  <2>2. op \in Writes(more, f, p) /\ Writes(more, f, p) \in SUBSET more
    BY <2>1 DEF Writes, Of, WriteType
  <2>3. feature.properties[p].ref = NewestStamp(Writes(more, f, p))
    <3> HIDE DEF more, f, feature
    <3>1. feature.properties[p] = RegisterOf(more, f, p)
      BY <1>5, <2>1
    <3>2. RegisterOf(more, f, p).ref = NewestStamp(Writes(more, f, p))
      BY DEF RegisterOf
    <3>3. QED
      BY <3>1, <3>2
  <2>4. QED
    BY <1>3, <2>2, <2>3
<1>14. QED
  BY <1>9, <1>10, <1>11, <1>12, <1>13 DEF TakesEffect

-----------------------------------------------------------------------------
(***************************************************************************)
(* A batch is merged.                                                      *)
(***************************************************************************)
LEMMA MaxOfTwo ==
  ASSUME NEW a \in Count, NEW b \in Count
  PROVE  Max({a, b}) \in Count /\ Max({a, b}) >= a /\ Max({a, b}) >= b
         /\ (Max({a, b}) = a \/ Max({a, b}) = b)
<1>1. {a, b} \in SUBSET Count /\ {a, b} # {}
  OBVIOUS
<1>2. Max({a, b}) \in {a, b} /\ \A k \in {a, b} : Max({a, b}) >= k
  BY <1>1, MaxOfCounts
<1>3. QED
  BY <1>2

(* The identity an edit names is that of an older operation.               *)
LEMMA GenerationIsOlder ==
  ASSUME NEW all, IssuedInv(all), NEW e \in all, e.gen # NoRef, NEW g \in all, RefOf(g) = e.gen
  PROVE  g.ts < e.ts /\ Newer(e, g)
<1>1. Meaningful(all)
  BY DEF IssuedInv
<1>2. PICK h \in all : RefOf(h) = e.gen /\ h.ts < e.ts
  BY DEF IssuedInv
<1>3. h = g
  BY <1>1, <1>2 DEF Meaningful, OneEach
<1>4. QED
  BY <1>2, <1>3 DEF Newer, Less

LEMMA FreshIsNotReceived ==
  ASSUME NEW r, NEW all, IssuedInv(all), NEW d, NEW c, NEW n, NEW l, NEW vc, NEW recv, NEW rep,
         Sound(r, all, d, c, n, l, vc, recv, rep), NEW ops \in SUBSET all
  PROVE  {op \in ops : op.seq > vc[op.site]} \ l = ops \ recv
<1>1. Meaningful(all) /\ vc \in VectorClock
  BY DEF IssuedInv, Sound
<1>2. ASSUME NEW op \in ops
      PROVE  (op.seq > vc[op.site] /\ op \notin l) <=> op \notin recv
  <2>1. op.site \in Site /\ op.seq \in Nat /\ op.seq > 0 /\ vc[op.site] \in Nat
    BY <1>1, OperationFields, MaxTimestampAssumption DEF Meaningful, VectorClock, Count
  <2>2. ASSUME op \in recv PROVE op.seq <= vc[op.site] \/ op \in l
    BY <2>2 DEF Sound
  <2>3. ASSUME op \in l PROVE op \in recv
    BY <2>3 DEF Sound
  <2>4. ASSUME op.seq <= vc[op.site] PROVE op \in recv
    <3>1. op.seq \in 1 .. vc[op.site]
      BY <2>1, <2>4
    <3>2. PICK o \in recv : o.site = op.site /\ o.seq = op.seq
      BY <2>1, <3>1 DEF Sound, SeqsOf
    <3>3. o = op
      BY <1>1, <3>2, OneOperation DEF Sound
    <3>4. QED
      BY <3>3
  <2>5. QED
    BY <2>1, <2>2, <2>3, <2>4
<1>3. QED
  BY <1>2

(* What MergeAll starts from, and what it applies.                         *)
Start(d, l, rep) == [doc |-> d, log |-> l, reported |-> rep]

Fresh(ops, vc, l) == {op \in ops : op.seq > vc[op.site]} \ l

MergedWell(m, all, r, d, c, n, vc, recv, ops, c2, more) ==
  /\ Sound(r, all, m.doc, Max({LatestTimestamp(c, ops), c2}), n, m.log,
           MergeClocks(vc, more), recv \cup ops, m.reported)
  /\ \A e \in m.doc.pendingGen \ d.pendingGen : e.gen \notin Refs(recv \cup ops)

LEMMA MergeIsSound ==
  ASSUME NEW all, IssuedInv(all), NEW r, NEW d, NEW c, NEW n, NEW l, NEW vc,
         NEW recv, NEW rep, Sound(r, all, d, c, n, l, vc, recv, rep),
         NEW ops \in SUBSET all, NEW c2 \in Count,
         NEW more \in VectorClock, CoveredBy(more, KnowledgeOf(recv)),
         NEW start, start = Start(d, l, rep),
         NEW fresh, fresh = Fresh(ops, vc, l),
         NEW m, m = InStampOrder(start, vc, fresh)
  PROVE  MergedWell(m, all, r, d, c, n, vc, recv, ops, c2, more)
<1> DEFINE union == recv \cup ops
           latest == Max({LatestTimestamp(c, ops), c2})
           clocks == MergeClocks(vc, more)
<1>1. /\ Knows(History(l, vc), recv) /\ Meaningful(recv) /\ Meaningful(all)
      /\ recv \in SUBSET all
  <2>1. recv \in SUBSET all
    BY DEF Sound
  <2>2. QED
    BY <2>1, SoundKnows
<1>2. fresh = ops \ recv
  BY FreshIsNotReceived DEF Fresh
<1>3. recv \cup fresh = union /\ fresh \cap recv = {}
  BY <1>2
<1>4. Batched(m, start, recv, fresh, fresh)
  <2>1. Meaningful(recv \cup fresh)
    BY <1>1, <1>3, PartIsMeaningful
  <2>2. Means(start.doc, recv) /\ start.log = l
    BY DEF Sound, Start
  <2>3. QED
    BY <1>1, <1>3, <2>1, <2>2, BatchMeans
<1>5. /\ Means(m.doc, union)
      /\ m.log = l \cup fresh
      /\ m.reported \subseteq rep \cup fresh
      /\ m.doc.pendingGen \subseteq d.pendingGen \cup fresh
      /\ \A e \in m.doc.pendingGen \cap fresh : e.gen \notin Refs(recv \cup Older(fresh, e))
  BY <1>3, <1>4 DEF Batched, Start
<1>6. /\ latest \in Count /\ latest >= c /\ \A op \in ops : op.ts <= latest
  <2>1. c \in Count /\ ops \in SUBSET Operation
    BY <1>1 DEF Sound, Meaningful
  <2>2. /\ LatestTimestamp(c, ops) \in Count
        /\ LatestTimestamp(c, ops) >= c
        /\ \A op \in ops : op.ts <= LatestTimestamp(c, ops)
    BY <2>1, LatestOf
  <2>3. latest \in Count /\ latest >= LatestTimestamp(c, ops)
    BY <2>2, MaxOfTwo
  <2>4. \A op \in ops : op.ts \in Nat
    BY <2>1, OperationFields
  <2> HIDE DEF latest
  <2>5. QED
    BY <2>1, <2>2, <2>3, <2>4, MaxTimestampAssumption DEF Count
<1>7. \A op \in union : op.ts <= latest
  <2>1. ASSUME NEW op \in recv PROVE op.ts <= latest
    <3>1. op.ts \in Nat /\ op.ts <= c /\ c \in Nat /\ latest \in Nat
      BY <1>1, <1>6, OperationFields, MaxTimestampAssumption DEF Meaningful, Sound, Count
    <3> HIDE DEF latest
    <3>2. QED
      BY <1>6, <3>1
  <2>2. QED
    BY <1>6, <2>1
<1>8. ASSUME NEW s \in Site
      PROVE  /\ vc[s] \in Count /\ more[s] \in Count
             /\ clocks[s] \in Count /\ clocks[s] >= vc[s]
             /\ clocks[s] = vc[s] \/ clocks[s] = more[s]
  <2>1. vc[s] \in Count /\ more[s] \in Count
    BY DEF Sound, VectorClock
  <2>2. clocks[s] = Max({vc[s], more[s]})
    BY DEF MergeClocks
  <2>3. QED
    BY <2>1, <2>2, MaxOfTwo
<1>9. clocks \in VectorClock
  BY <1>8 DEF MergeClocks, VectorClock
<1>10. \A op \in union : op.seq <= clocks[op.site] \/ op \in m.log
  <2>1. ASSUME NEW op \in recv PROVE op.seq <= clocks[op.site] \/ op \in l
    <3>1. op.seq \in Nat /\ op.site \in Site
      BY <1>1, OperationFields DEF Meaningful
    <3>2. op.seq <= vc[op.site] \/ op \in l
      BY DEF Sound
    <3>3. vc[op.site] \in Nat /\ clocks[op.site] \in Nat /\ clocks[op.site] >= vc[op.site]
      BY <1>8, <3>1, MaxTimestampAssumption DEF Count
    <3> HIDE DEF clocks
    <3>4. QED
      BY <3>1, <3>2, <3>3
  <2>2. QED
    BY <1>3, <1>5, <2>1
<1>11. \A s \in Site : 1 .. clocks[s] \subseteq SeqsOf(union, s)
  <2>1. ASSUME NEW s \in Site
        PROVE  1 .. vc[s] \subseteq SeqsOf(recv, s) /\ 1 .. more[s] \subseteq SeqsOf(recv, s)
    <3>1. 1 .. vc[s] \subseteq SeqsOf(recv, s)
      BY DEF Sound
    <3>2. 1 .. KnowledgeOf(recv)[s] \subseteq SeqsOf(recv, s) /\ KnowledgeOf(recv)[s] \in Count
      BY <1>1, KnowledgeIsExact DEF VectorClock
    <3>3. more[s] <= KnowledgeOf(recv)[s]
      BY DEF CoveredBy
    <3>4. 1 .. more[s] \subseteq 1 .. KnowledgeOf(recv)[s]
      BY <1>8, <3>2, <3>3, MaxTimestampAssumption DEF Count
    <3>5. QED
      BY <3>1, <3>2, <3>4
  <2>2. \A s : SeqsOf(recv, s) \subseteq SeqsOf(union, s)
    BY DEF SeqsOf
  <2> HIDE DEF clocks, union
  <2>3. QED
    BY <1>8, <2>1, <2>2
<1>12. \A op \in all : op.site = r => op \in union /\ op.seq <= n
  BY DEF Sound
<1>13. \A e \in m.doc.pendingGen : e.site # r
  <2>1. \A e \in fresh : e.site # r
    BY <1>2 DEF Sound
  <2>2. \A e \in d.pendingGen : e.site # r
    BY DEF Sound
  <2>3. QED
    BY <1>5, <2>1, <2>2
<1>14. Sound(r, all, m.doc, latest, n, m.log, clocks, union, m.reported)
  <2>1. n \in Count /\ l \subseteq recv /\ rep \subseteq recv /\ d.pendingGen \subseteq l
    BY DEF Sound
  <2>2. /\ m.log \subseteq union /\ union \subseteq all /\ m.reported \subseteq union
        /\ m.doc.pendingGen \subseteq m.log
    BY <1>1, <1>3, <1>5, <2>1
  <2> HIDE DEF latest, clocks, union
  <2>3. QED
    BY <1>5, <1>6, <1>7, <1>9, <1>10, <1>11, <1>12, <1>13, <2>1, <2>2 DEF Sound
<1>15. ASSUME NEW e \in m.doc.pendingGen \ d.pendingGen
       PROVE  e.gen \notin Refs(union)
  <2>1. e \in fresh /\ e.gen \notin Refs(recv \cup Older(fresh, e))
    BY <1>5, <1>15
  <2>2. SUFFICES ASSUME NEW g \in union, RefOf(g) = e.gen
                 PROVE  FALSE
    BY DEF Refs
  <2>3. g \in all /\ e \in all
    BY <1>1, <1>2, <2>1, <2>2
  <2>4. e.gen # NoRef
    BY <1>1, <2>2, <2>3, OperationsAreStamped DEF Meaningful
  <2>5. Newer(e, g)
    BY <2>2, <2>3, <2>4, GenerationIsOlder
  <2>6. g \in recv \cup Older(fresh, e)
    BY <1>3, <2>5 DEF Older
  <2>7. QED
    BY <2>1, <2>2, <2>6 DEF Refs
<1>16. QED
  BY <1>14, <1>15 DEF MergedWell

-----------------------------------------------------------------------------
(***************************************************************************)
(* A snapshot is taken and restored.                                       *)
(***************************************************************************)
Regenerated(fs, seen, stamp) == [fs EXCEPT !.seenGens = seen, !.genStamp = stamp]

LEMMA BundleWith ==
  ASSUME NEW base, NEW c, NEW x, NEW id, NEW st, NEW g, NEW se, NEW ps,
         NEW w, w = Bundle(base, c, x, id, st, g, se, ps), NEW seen, NEW stamp
  PROVE  Regenerated(w, seen, stamp) = Bundle(base, c, x, id, stamp, g, seen, ps)
<1>1. ASSUME NEW v, v = [w EXCEPT !.seenGens = seen]
      PROVE  v = Bundle(base, c, x, id, st, g, seen, ps)
  BY <1>1 DEF Bundle
<1>2. ASSUME NEW v, v = Bundle(base, c, x, id, st, g, seen, ps),
             NEW b, b = [v EXCEPT !.genStamp = stamp]
      PROVE  b = Bundle(base, c, x, id, stamp, g, seen, ps)
  BY <1>2 DEF Bundle
<1>3. QED
  BY <1>1, <1>2 DEF Regenerated

LEMMA FeatureComesBack ==
  ASSUME NEW recv, Meaningful(recv), NEW f, NEW feature, feature = MeantFeature(recv, f),
         NEW fs, fs = SnapshotFeature(feature)
  PROVE  RestoreFeature(fs) = feature
<1> DEFINE gens == Generations(recv, f)
<1>1. feature = FeatureOf(recv, f, Created(recv, f), Deleted(recv, f), Registers(recv, f))
  BY MeantIsFeature
<1>2. gens \in SUBSET recv
  BY DEF Generations, Of
<1>3. NoRef \notin Refs(gens)
  BY <1>2, OperationsAreStamped DEF Refs, Meaningful
<1>4. gens # {} => NewestRef(gens) \in Refs(gens)
  BY <1>2, PartIsMeaningful, NewestRefIsOne
<1>5. gens = {} => NewestRef(gens) = NoRef /\ NewestStamp(gens) = NoStamp
  BY DEF NewestRef, NewestStamp
<1>6. SeenBy(recv, f) = Refs(gens) \cup {NoRef : g \in {f} \cap BaseFeature}
  BY DEF SeenBy
<1>7. ASSUME NEW base, base = (f \in BaseFeature)
      PROVE  (SeenBy(recv, f) \ {NoRef}) \cup {NoRef : b \in {base} \cap {TRUE}}
               \cup ({NewestRef(gens)} \ {NoRef}) = SeenBy(recv, f)
  <2>1. SeenBy(recv, f) \ {NoRef} = Refs(gens)
    BY <1>3, <1>6
  <2>2. {NoRef : b \in {base} \cap {TRUE}} = {NoRef : g \in {f} \cap BaseFeature}
    <3>1. base = TRUE <=> f \in BaseFeature
      BY <1>7
    <3>2. QED
      BY <3>1
  <2>3. {NewestRef(gens)} \ {NoRef} \subseteq Refs(gens)
    BY <1>4, <1>5
  <2>4. QED
    BY <1>6, <2>1, <2>2, <2>3
<1>8. NewestRef(gens) = NoRef => NewestStamp(gens) = NoStamp
  BY <1>3, <1>4, <1>5
<1> HIDE DEF gens
<1>9. fs = [isBase |-> f \in BaseFeature,
            createReg |-> Created(recv, f), deleteReg |-> Deleted(recv, f),
            genID |-> NewestRef(gens), genStamp |-> NewestStamp(gens),
            geometry |-> GeometryOf(recv, f),
            seenGens |-> SeenBy(recv, f) \ {NoRef},
            properties |-> Registers(recv, f)]
  BY <1>1 DEF SnapshotFeature, FeatureOf, gens
<1>10. ASSUME NEW back, back = RestoreFeature(fs)
       PROVE  back = feature
  <2>1. /\ fs.isBase = (f \in BaseFeature) /\ fs.genID = NewestRef(gens)
        /\ fs.seenGens = SeenBy(recv, f) \ {NoRef} /\ fs.genStamp = NewestStamp(gens)
    BY <1>9
  <2>2. fs.seenGens \cup {NoRef : base \in {fs.isBase} \cap {TRUE}} \cup ({fs.genID} \ {NoRef})
          = SeenBy(recv, f)
    BY <1>7, <2>1
  <2>3. (IF fs.genID = NoRef THEN NoStamp ELSE fs.genStamp) = NewestStamp(gens)
    BY <1>8, <2>1
  <2>4. back = Regenerated(fs, SeenBy(recv, f), NewestStamp(gens))
    BY <1>10, <2>2, <2>3 DEF RestoreFeature, Regenerated
  <2>5. back = Bundle(f \in BaseFeature, Created(recv, f), Deleted(recv, f),
                      NewestRef(gens), NewestStamp(gens), GeometryOf(recv, f),
                      SeenBy(recv, f), Registers(recv, f))
    <3>1. fs = Bundle(f \in BaseFeature, Created(recv, f), Deleted(recv, f),
                      NewestRef(gens), NewestStamp(gens), GeometryOf(recv, f),
                      SeenBy(recv, f) \ {NoRef}, Registers(recv, f))
      BY <1>9 DEF Bundle
    <3>2. ASSUME NEW base, base = (f \in BaseFeature), NEW se, se = SeenBy(recv, f) \ {NoRef}
          PROVE  back = Bundle(base, Created(recv, f), Deleted(recv, f),
                               NewestRef(gens), NewestStamp(gens), GeometryOf(recv, f),
                               SeenBy(recv, f), Registers(recv, f))
      <4>1. fs = Bundle(base, Created(recv, f), Deleted(recv, f),
                        NewestRef(gens), NewestStamp(gens), GeometryOf(recv, f),
                        se, Registers(recv, f))
        BY <3>1, <3>2
      <4>2. QED
        BY <2>4, <4>1, BundleWith
    <3>3. QED
      BY <3>2
  <2>6. QED
    BY <1>1, <2>5 DEF FeatureOf, Bundle, gens
<1>11. QED
  BY <1>10

LEMMA FeaturesComeBack ==
  ASSUME NEW recv, Meaningful(recv), NEW F, F = [f \in Feature |-> MeantFeature(recv, f)]
  PROVE  RestoreFeatures(FeatureSnapshots(F)) = F
<1> DEFINE kept == {g \in Feature : ~ EmptyFeature(g, F[g])}
           snaps == FeatureSnapshots(F)
<1>1. DOMAIN snaps = kept /\ \A f \in kept : snaps[f] = SnapshotFeature(F[f])
  BY DEF FeatureSnapshots
<1>2. ASSUME NEW f \in Feature
      PROVE  (IF f \in DOMAIN snaps THEN RestoreFeature(snaps[f]) ELSE Untouched(f)) = F[f]
  <2>1. CASE f \in kept
    <3>1. F[f] = MeantFeature(recv, f) /\ snaps[f] = SnapshotFeature(F[f])
      BY <1>1, <2>1
    <3>2. RestoreFeature(snaps[f]) = F[f]
      BY <3>1, FeatureComesBack
    <3>3. QED
      BY <1>1, <2>1, <3>2
  <2>2. CASE f \notin kept
    <3>1. F[f] = Untouched(f)
      BY <2>2 DEF EmptyFeature
    <3>2. QED
      BY <1>1, <2>2, <3>1
  <2>3. QED
    BY <2>1, <2>2
<1> HIDE DEF snaps
<1>3. RestoreFeatures(snaps) = [f \in Feature |-> F[f]]
  BY <1>2 DEF RestoreFeatures
<1>4. QED
  BY <1>3 DEF snaps

(* Pending edits are applied to the features again: the ones that named an *)
(* operation that has come and defined nothing are dropped now.            *)
StillMissing(pending, recv) == {e \in pending : e.gen \notin Refs(recv)}

LEMMA ReapplyMeans ==
  ASSUME NEW recv, NEW pending, Queue(pending, recv), NEW op \in pending, op.feature \in Feature,
         NEW P, NEW d, d = DocumentOf(recv, P), NEW history,
         CannotCome(history, op.gen) <=> op.gen \in Refs(recv)
  PROVE  ApplyOp(d, history, op).doc =
           DocumentOf(recv, IF op.gen \in Refs(recv) THEN P ELSE P \cup {op})
<1> DEFINE f == op.feature
<1>1. /\ IsEdit(op) /\ op.gen # NoRef
      /\ \A g \in recv : g.type \in GenerationType => RefOf(g) # op.gen
  BY DEF Queue
<1>2. d.features[f].seenGens = SeenBy(recv, f)
  <2>1. d.features[f] = MeantFeature(recv, f)
    BY DEF DocumentOf
  <2>2. QED
    BY <2>1, MeantIsFeature DEF FeatureOf
<1>3. op.gen \notin SeenBy(recv, f)
  BY <1>1 DEF SeenBy, Refs, Generations, Of, GenerationType
<1>4. ApplyOp(d, history, op) = ApplyEditGeometry(d, history, op)
  BY <1>1 DEF ApplyOp, IsEdit
<1>5. CASE op.gen \in Refs(recv)
  BY <1>2, <1>3, <1>4, <1>5 DEF ApplyEditGeometry, Result
<1>6. CASE op.gen \notin Refs(recv)
  <2>1. ApplyOp(d, history, op) = Result([d EXCEPT !.pendingGen = @ \cup {op}], op, "buffered")
    BY <1>1, <1>2, <1>3, <1>4, <1>6 DEF ApplyEditGeometry
  <2>2. ASSUME NEW e, e = [d EXCEPT !.pendingGen = @ \cup {op}]
        PROVE  e = DocumentOf(recv, P \cup {op})
    BY <2>2 DEF DocumentOf
  <2>3. QED
    BY <1>6, <2>1, <2>2 DEF Result
<1>7. QED
  BY <1>5, <1>6

Reapplied(m, start, recv, done) ==
  /\ m.doc = DocumentOf(recv, StillMissing(done, recv))
  /\ m.log = start.log \cup done

LEMMA ReloadMeans ==
  ASSUME NEW recv, Meaningful(recv), NEW pending, Queue(pending, recv),
         NEW start, start.doc = DocumentOf(recv, {}), NEW vc,
         \A e \in pending :
           CannotCome(History(start.log \cup Older(pending, e), vc), e.gen) <=> e.gen \in Refs(recv)
  PROVE  Reapplied(InStampOrder(start, vc, pending), start, recv, pending)
<1>1. Meaningful(pending)
  <2>1. pending \in SUBSET recv
    BY DEF Queue
  <2>2. QED
    BY <2>1, PartIsMeaningful
<1>2. PICK after :
        /\ after[{}] = start
        /\ \A op \in pending :
             after[Older(pending, op) \cup {op}] = MergeOne(after[Older(pending, op)], vc, op)
        /\ InStampOrder(start, vc, pending) = after[pending]
  BY <1>1, OldestFirst
<1> DEFINE Good == {done \in SUBSET pending : Reapplied(after[done], start, recv, done)}
<1>3. {} \in Good
  <2>1. StillMissing({}, recv) = {}
    BY DEF StillMissing
  <2>2. QED
    BY <1>2, <2>1 DEF Reapplied
<1>4. ASSUME NEW op \in pending, Older(pending, op) \in Good
      PROVE  Older(pending, op) \cup {op} \in Good
  <2> DEFINE done == Older(pending, op)
             more == done \cup {op}
             m == after[done]
             P == StillMissing(done, recv)
  <2>1. done \in SUBSET pending /\ m.doc = DocumentOf(recv, P) /\ m.log = start.log \cup done
    BY <1>4 DEF Reapplied
  <2>2. op.feature \in Feature
    BY <1>1 DEF Meaningful, Operation
  <2>3. CannotCome(History(m.log, vc), op.gen) <=> op.gen \in Refs(recv)
    BY <2>1
  <2>4. StillMissing(more, recv) = IF op.gen \in Refs(recv) THEN P ELSE P \cup {op}
    BY DEF StillMissing
  <2> HIDE DEF m, P
  <2>5. ApplyOp(m.doc, History(m.log, vc), op).doc = DocumentOf(recv, StillMissing(more, recv))
    <3> HIDE DEF done, more
    <3>1. ApplyOp(m.doc, History(m.log, vc), op).doc =
            DocumentOf(recv, IF op.gen \in Refs(recv) THEN P ELSE P \cup {op})
      BY <2>1, <2>2, <2>3, ReapplyMeans
    <3>2. QED
      BY <2>4, <3>1
  <2>6. after[more] = MergeOne(m, vc, op)
    BY <1>2 DEF m
  <2>7. Reapplied(after[more], start, recv, more)
    <3>1. MergeOne(m, vc, op).doc = ApplyOp(m.doc, History(m.log, vc), op).doc
      BY DEF MergeOne
    <3>2. MergeOne(m, vc, op).log = m.log \cup {op}
      BY DEF MergeOne
    <3>3. QED
      BY <2>1, <2>5, <2>6, <3>1, <3>2 DEF Reapplied
  <2>8. QED
    BY <2>1, <2>7
<1>5. pending \in Good
  <2> HIDE DEF Good
  <2>1. QED
    BY <1>1, <1>3, <1>4, StampInduction, MeaningfulIsOrderly
<1>6. QED
  BY <1>2, <1>5

Highest(vc, l, s) == Max({vc[s]} \cup SeqsOf(l, s))

(* SnapshotOf of a replica that is in this state.                          *)
Snap(r, d, c, l, vc, recv) ==
  [clock |-> c,
   vc |-> KnowledgeOf(recv),
   applied |-> [s \in Site |-> Highest(vc, l, s)],
   retained |-> {op \in l : op.seq > KnowledgeOf(recv)[op.site]},
   outbox |-> {op \in l : op.site = r},
   pending |-> d.pendingGen,
   features |-> FeatureSnapshots(d.features)]

LEMMA AppliedIsLatest ==
  ASSUME NEW recv, Meaningful(recv), NEW l \in SUBSET recv, NEW vc \in VectorClock,
         \A op \in recv : op.seq <= vc[op.site] \/ op \in l,
         \A s \in Site : 1 .. vc[s] \subseteq SeqsOf(recv, s),
         NEW s \in Site
  PROVE  /\ Highest(vc, l, s) \in Count
         /\ \A op \in recv : op.site = s => op.seq <= Highest(vc, l, s)
         /\ Highest(vc, l, s) = 0 \/ \E op \in recv : op.site = s /\ op.seq = Highest(vc, l, s)
<1> DEFINE S == {vc[s]} \cup SeqsOf(l, s)
           top == Max(S)
<1>1. vc[s] \in Count /\ vc[s] \in Nat
  BY MaxTimestampAssumption DEF VectorClock, Count
<1>2. S \in SUBSET Count /\ S # {}
  BY <1>1, OperationFields DEF SeqsOf, Meaningful
<1>3. top \in S /\ \A k \in S : top >= k
  BY <1>2, MaxOfCounts
<1>4. \A k \in S : k \in Nat
  BY <1>2, MaxTimestampAssumption DEF Count
<1>5. ASSUME NEW op \in recv, op.site = s
      PROVE  op.seq <= top
  <2>1. op.seq \in Nat
    BY OperationFields DEF Meaningful
  <2>2. op \in l => op.seq \in S
    BY <1>5 DEF SeqsOf
  <2>3. vc[s] \in S
    OBVIOUS
  <2> HIDE DEF S, top
  <2>4. QED
    BY <1>1, <1>3, <1>4, <1>5, <2>1, <2>2, <2>3
<1>6. top = 0 \/ \E op \in recv : op.site = s /\ op.seq = top
  <2>1. CASE top \in SeqsOf(l, s)
    BY <2>1 DEF SeqsOf
  <2>2. CASE top = vc[s] /\ vc[s] # 0
    <3>1. vc[s] \in 1 .. vc[s]
      BY <1>1, <2>2
    <3>2. vc[s] \in SeqsOf(recv, s)
      BY <3>1
    <3>3. QED
      BY <2>2, <3>2 DEF SeqsOf
  <2> HIDE DEF top
  <2>3. QED
    BY <1>3, <2>1, <2>2
<1> HIDE DEF top
<1>7. QED
  BY <1>2, <1>3, <1>5, <1>6 DEF top, Highest

(* A stamp of a feature is that of an operation it has received.           *)
LEMMA StampsAreReceived ==
  ASSUME NEW recv, Meaningful(recv), NEW f, NEW feature, feature = MeantFeature(recv, f),
         NEW stamp \in StampsOf(SnapshotFeature(feature)) \ {NoStamp}
  PROVE  \E op \in recv : stamp = StampOf(op)
<1>1. feature = FeatureOf(recv, f, Created(recv, f), Deleted(recv, f), Registers(recv, f))
  BY MeantIsFeature
<1>2. ASSUME NEW fs, fs = SnapshotFeature(feature)
      PROVE  /\ fs.createReg = Created(recv, f) /\ fs.deleteReg = Deleted(recv, f)
             /\ fs.genStamp = NewestStamp(Generations(recv, f))
             /\ fs.properties = Registers(recv, f)
  BY <1>1, <1>2 DEF SnapshotFeature, FeatureOf
<1>3. \E S \in SUBSET recv : stamp = NewestStamp(S)
  <2>1. \/ stamp = Created(recv, f) \/ stamp = Deleted(recv, f)
        \/ stamp = NewestStamp(Generations(recv, f))
        \/ \E p \in Property : stamp = NewestStamp(Writes(recv, f, p))
    <3>1. \A p \in Property : Registers(recv, f)[p].ref = NewestStamp(Writes(recv, f, p))
      BY DEF Registers, RegisterOf
    <3>2. QED
      BY <1>2, <3>1 DEF StampsOf
  <2>2. \A types : Of(recv, f, types) \in SUBSET recv
    BY DEF Of
  <2>3. \A p : Writes(recv, f, p) \in SUBSET recv
    BY <2>2 DEF Writes
  <2>4. QED
    BY <2>1, <2>2, <2>3 DEF Created, Deleted, Generations
<1>4. PICK S \in SUBSET recv : stamp = NewestStamp(S)
  BY <1>3
<1>5. S # {}
  BY <1>4 DEF NewestStamp
<1>6. Newest(S) \in S
  BY <1>5, PartIsMeaningful, NewestRefIsOne
<1>7. QED
  BY <1>4, <1>5, <1>6 DEF NewestStamp

LEMMA FeatureIsValid ==
  ASSUME NEW recv, Meaningful(recv), NEW f, NEW feature, feature = MeantFeature(recv, f),
         NEW c, \A op \in recv : op.ts <= c,
         NEW applied, \A op \in recv : op.seq <= applied[op.site]
  PROVE  ValidFeatureSnapshot(SnapshotFeature(feature), c, applied)
<1> DEFINE gens == Generations(recv, f)
           fs == SnapshotFeature(feature)
<1>1. feature = FeatureOf(recv, f, Created(recv, f), Deleted(recv, f), Registers(recv, f))
  BY MeantIsFeature
<1>2. /\ fs.isBase = (f \in BaseFeature) /\ fs.genID = NewestRef(gens)
      /\ fs.genStamp = NewestStamp(gens) /\ fs.geometry = GeometryOf(recv, f)
      /\ fs.seenGens = SeenBy(recv, f) \ {NoRef}
  <2>1. ASSUME NEW g, g = SnapshotFeature(feature)
        PROVE  /\ g.isBase = (f \in BaseFeature) /\ g.genID = NewestRef(gens)
               /\ g.genStamp = NewestStamp(gens) /\ g.geometry = GeometryOf(recv, f)
               /\ g.seenGens = SeenBy(recv, f) \ {NoRef}
    BY <1>1, <2>1 DEF SnapshotFeature, FeatureOf
  <2>2. QED
    BY <2>1
<1>3. gens \in SUBSET recv
  BY DEF Generations, Of
<1>4. \A stamp \in StampsOf(fs) \ {NoStamp} :
        stamp.ts <= c /\ stamp.seq <= applied[stamp.site]
  <2>1. ASSUME NEW stamp \in StampsOf(fs) \ {NoStamp}
        PROVE  stamp.ts <= c /\ stamp.seq <= applied[stamp.site]
    <3>1. PICK op \in recv : stamp = StampOf(op)
      BY StampsAreReceived
    <3>2. QED
      BY <3>1 DEF StampOf
  <2>2. QED
    BY <2>1
<1>5. \A gen \in fs.seenGens : gen[2] <= applied[gen[1]]
  BY <1>2, <1>3 DEF SeenBy, Refs, RefOf
<1>6. \A g \in gens : RefOf(g) # NoRef
  BY <1>3, OperationsAreStamped DEF Meaningful
<1>7. CASE gens = {}
  <2>1. NewestRef(gens) = NoRef /\ NewestStamp(gens) = NoStamp
    BY <1>7 DEF NewestRef, NewestStamp
  <2>2. fs.geometry.present => fs.isBase
    <3>1. HasGeometry(recv, f) <=> f \in BaseFeature
      BY <1>7 DEF HasGeometry
    <3> HIDE DEF fs
    <3>2. f \notin BaseFeature => fs.geometry = NoGeometry
      BY <1>2, <3>1 DEF GeometryOf
    <3>3. f \notin BaseFeature => ~ fs.geometry.present
      BY <3>2 DEF NoGeometry
    <3>4. f \in BaseFeature => fs.isBase
      BY <1>2
    <3>5. QED
      BY <3>3, <3>4
  <2> HIDE DEF fs, gens
  <2>3. QED
    BY <1>2, <1>4, <1>5, <2>1, <2>2 DEF ValidFeatureSnapshot, fs
<1>8. CASE gens # {}
  <2>1. Newest(gens) \in gens /\ NewestRef(gens) \in Refs(gens) /\ NewestRef(gens) # NoRef
    BY <1>3, <1>8, PartIsMeaningful, NewestRefIsOne
  <2>2. NewestRef(gens) \in SeenBy(recv, f) \ {NoRef}
    BY <2>1 DEF SeenBy
  <2>3. NewestRef(gens) = RefOf(NewestStamp(gens))
    BY <1>8 DEF NewestRef, NewestStamp, StampOf, RefOf
  <2> HIDE DEF fs, gens
  <2>4. QED
    BY <1>2, <1>4, <1>5, <2>1, <2>2, <2>3 DEF ValidFeatureSnapshot, fs
<1>9. QED
  BY <1>7, <1>8

LEMMA SnapshotIsValid ==
  ASSUME NEW all, IssuedInv(all), NEW q, NEW d, NEW c, NEW n, NEW l, NEW vc,
         NEW recv, NEW rep, Sound(q, all, d, c, n, l, vc, recv, rep),
         NEW snap, snap = Snap(q, d, c, l, vc, recv)
  PROVE  ValidSnapshot(snap)
<1>1. Meaningful(recv)
  BY SoundKnows
<1>2. \A op \in recv : op.seq <= snap.applied[op.site]
  <2>1. ASSUME NEW op \in recv PROVE op.seq <= snap.applied[op.site]
    <3>1. op.site \in Site
      BY <1>1, OperationFields DEF Meaningful
    <3>2. op.seq <= Highest(vc, l, op.site)
      <4>1. /\ l \in SUBSET recv /\ vc \in VectorClock
            /\ \A o \in recv : o.seq <= vc[o.site] \/ o \in l
            /\ \A s \in Site : 1 .. vc[s] \subseteq SeqsOf(recv, s)
        BY DEF Sound
      <4>2. QED
        BY <1>1, <3>1, <4>1, AppliedIsLatest
    <3>3. QED
      BY <3>1, <3>2 DEF Snap
  <2>2. QED
    BY <2>1
<1>3. \A op \in recv : op.ts <= snap.clock
  BY DEF Sound, Snap
<1>4. ASSUME NEW f \in DOMAIN snap.features
      PROVE  ValidFeatureSnapshot(snap.features[f], snap.clock, snap.applied)
  <2>1. f \in Feature /\ snap.features[f] = SnapshotFeature(d.features[f])
    <3>1. snap.features = FeatureSnapshots(d.features)
      BY DEF Snap
    <3>2. QED
      BY <1>4, <3>1 DEF FeatureSnapshots
  <2>2. d.features[f] = MeantFeature(recv, f)
    <3>1. Means(d, recv)
      BY DEF Sound
    <3>2. QED
      BY <2>1, <3>1, MeansFeature
  <2>3. QED
    BY <1>1, <1>2, <1>3, <2>1, <2>2, FeatureIsValid
<1>5. \A op \in snap.pending : op.seq > snap.vc[op.site] => op \in snap.retained
  <2>1. /\ snap.pending = d.pendingGen
        /\ snap.retained = {op \in l : op.seq > snap.vc[op.site]}
    BY DEF Snap
  <2>2. d.pendingGen \subseteq l
    BY DEF Sound
  <2>3. QED
    BY <2>1, <2>2
<1>6. QED
  BY <1>4, <1>5 DEF ValidSnapshot

(* What the records bring back.                                            *)
LEMMA RecordsComeBack ==
  ASSUME NEW all, IssuedInv(all), NEW q, NEW d, NEW c, NEW n, NEW l, NEW vc,
         NEW recv, NEW rep, Sound(q, all, d, c, n, l, vc, recv, rep),
         NEW snap, snap = Snap(q, d, c, l, vc, recv)
  PROVE  /\ Reloaded(snap).doc = DocumentOf(recv, {})
         /\ Reloaded(snap).log \subseteq recv
         /\ {op \in recv : op.seq > snap.vc[op.site]} \subseteq Reloaded(snap).log \cup d.pendingGen
         /\ Awaited(snap) = d.pendingGen
<1>1. Meaningful(recv)
  BY SoundKnows
<1>2. /\ l \subseteq recv /\ Means(d, recv)
      /\ \A op \in recv : op.seq <= vc[op.site] \/ op \in l
      /\ vc \in VectorClock
      /\ \A s \in Site : 1 .. vc[s] \subseteq SeqsOf(recv, s)
      /\ \A e \in d.pendingGen : e.site # q
  BY DEF Sound
<1>3. /\ snap.vc = KnowledgeOf(recv)
      /\ snap.retained = {op \in l : op.seq > snap.vc[op.site]}
      /\ snap.outbox = {op \in l : op.site = q}
      /\ snap.pending = d.pendingGen
      /\ snap.features = FeatureSnapshots(d.features)
  BY DEF Snap
<1>4. Awaited(snap) = d.pendingGen
  BY <1>2, <1>3 DEF Awaited
<1>5. /\ Reloaded(snap).doc = [features |-> RestoreFeatures(snap.features), pendingGen |-> {}]
      /\ Reloaded(snap).log = (snap.retained \ snap.pending) \cup snap.outbox
  BY DEF Reloaded
<1>6. RestoreFeatures(snap.features) = [f \in Feature |-> MeantFeature(recv, f)]
  <2>1. d = DocumentOf(recv, d.pendingGen)
    BY <1>2 DEF Means
  <2>2. d.features = [f \in Feature |-> MeantFeature(recv, f)]
    BY <2>1 DEF DocumentOf
  <2>3. RestoreFeatures(FeatureSnapshots(d.features)) = d.features
    BY <1>1, <2>2, FeaturesComeBack
  <2>4. QED
    BY <1>3, <2>2, <2>3
<1>7. Reloaded(snap).doc = DocumentOf(recv, {})
  BY <1>5, <1>6 DEF DocumentOf
<1>8. ASSUME NEW op \in recv, op.seq > snap.vc[op.site]
      PROVE  op \in snap.retained
  <2>1. op.site \in Site /\ op.seq \in Nat
    BY <1>1, OperationFields DEF Meaningful
  <2>2. vc[op.site] <= snap.vc[op.site] /\ snap.vc \in VectorClock
    BY <1>1, <1>2, <1>3, <2>1, KnowledgeIsExact DEF CoveredBy
  <2>3. vc[op.site] \in Nat /\ snap.vc[op.site] \in Nat
    BY <1>2, <2>1, <2>2, MaxTimestampAssumption DEF VectorClock, Count
  <2>4. op \in l
    BY <1>2, <1>8, <2>1, <2>2, <2>3
  <2>5. QED
    BY <1>3, <1>8, <2>4
<1>9. QED
  BY <1>2, <1>3, <1>4, <1>5, <1>7, <1>8

LEMMA RestoredMeans ==
  ASSUME NEW all, IssuedInv(all), NEW q, NEW d, NEW c, NEW n, NEW l, NEW vc,
         NEW recv, NEW rep, Sound(q, all, d, c, n, l, vc, recv, rep),
         NEW snap, snap = Snap(q, d, c, l, vc, recv),
         NEW back, back = Restored(snap)
  PROVE  /\ Means(back.doc, recv)
         /\ back.doc.features = d.features
         /\ back.doc.pendingGen = StillMissing(d.pendingGen, recv)
         /\ {op \in recv : op.seq > snap.vc[op.site]} \subseteq back.log
         /\ back.log \subseteq recv
         /\ d.pendingGen \subseteq back.log
<1> DEFINE start == Reloaded(snap)
           pending == d.pendingGen
           K == KnowledgeOf(recv)
<1>1. Meaningful(recv) /\ Meaningful(all)
  BY SoundKnows
<1>2. /\ start.doc = DocumentOf(recv, {})
      /\ start.log \subseteq recv
      /\ {op \in recv : op.seq > snap.vc[op.site]} \subseteq start.log \cup pending
      /\ Awaited(snap) = pending
  BY RecordsComeBack
<1>3. snap.vc = K
  BY DEF Snap
<1>4. Queue(pending, recv) /\ d = DocumentOf(recv, pending) /\ recv \in SUBSET all
  BY DEF Sound, Means
<1>5. ASSUME NEW e \in pending
      PROVE  CannotCome(History(start.log \cup Older(pending, e), K), e.gen) <=> e.gen \in Refs(recv)
  <2> DEFINE have == start.log \cup Older(pending, e)
  <2>1. e \in recv /\ e.gen # NoRef
    BY <1>4, <1>5 DEF Queue
  <2>2. e.gen \in Site \X Number
    BY <1>1, <2>1 DEF Meaningful, Operation
  <2>3. have \subseteq recv
    BY <1>2, <1>4 DEF Older, Queue
  <2>4. ASSUME e.gen \in Refs(have)
        PROVE  e.gen \in Refs(recv)
    BY <2>3, <2>4 DEF Refs
  <2>5. K \in VectorClock /\ \A s \in Site : 1 .. K[s] \subseteq SeqsOf(recv, s)
    BY <1>1, KnowledgeIsExact
  <2>6. ASSUME e.gen[2] <= K[e.gen[1]]
        PROVE  e.gen \in Refs(recv)
    <3> DEFINE s == e.gen[1]
               k == e.gen[2]
    <3>1. s \in Site /\ k \in Number /\ e.gen = << s, k >>
      BY <2>2
    <3>2. k \in 1 .. K[s]
      BY <2>5, <2>6, <3>1, MaxTimestampAssumption DEF Number, VectorClock, Count
    <3>3. PICK g \in recv : g.site = s /\ g.seq = k
      BY <2>5, <3>1, <3>2 DEF SeqsOf
    <3>4. QED
      BY <3>1, <3>3 DEF Refs, RefOf
  <2>7. ASSUME e.gen \in Refs(recv)
        PROVE  e.gen[2] <= K[e.gen[1]] \/ e.gen \in Refs(have)
    <3>1. PICK g \in recv : RefOf(g) = e.gen
      BY <2>7 DEF Refs
    <3>2. g.site = e.gen[1] /\ g.seq = e.gen[2] /\ g.seq \in Nat /\ g.site \in Site
      BY <1>1, <3>1, OperationFields DEF RefOf, Meaningful
    <3>3. CASE g.seq > K[g.site]
      <4>1. g \in start.log \cup pending
        BY <1>2, <1>3, <3>3
      <4>2. Newer(e, g)
        BY <1>4, <2>1, <3>1, GenerationIsOlder
      <4>3. g \in have
        BY <4>1, <4>2 DEF Older
      <4>4. QED
        BY <3>1, <4>3 DEF Refs
    <3>4. CASE ~ (g.seq > K[g.site])
      <4>1. K[g.site] \in Nat
        BY <2>5, <3>2, MaxTimestampAssumption DEF VectorClock, Count
      <4>2. g.seq <= K[g.site]
        BY <3>2, <3>4, <4>1
      <4>3. QED
        BY <3>2, <4>2
    <3>5. QED
      BY <3>3, <3>4
  <2>8. QED
    BY <2>4, <2>6, <2>7 DEF CannotCome, History
<1>6. back = InStampOrder(start, K, pending)
  BY <1>2, <1>3 DEF Restored
<1> HIDE DEF start, pending, K
<1>7. Reapplied(back, start, recv, pending)
  BY <1>1, <1>2, <1>4, <1>5, <1>6, ReloadMeans
<1>8. back.doc = DocumentOf(recv, StillMissing(pending, recv)) /\ back.log = start.log \cup pending
  BY <1>7 DEF Reapplied
<1>9. Queue(StillMissing(pending, recv), recv)
  BY <1>4 DEF Queue, StillMissing
<1>10. /\ Means(back.doc, recv) /\ back.doc.pendingGen = StillMissing(pending, recv)
  BY <1>8, <1>9, PendingOf
<1>11. back.doc.features = d.features
  BY <1>4, <1>8 DEF DocumentOf
<1>12. pending \subseteq recv
  BY <1>4 DEF Queue
<1>13. QED
  BY <1>2, <1>8, <1>10, <1>11, <1>12 DEF pending

(* A replica that restarts has issued nothing beyond the snapshot.         *)
LEMMA RestartIsSound ==
  ASSUME NEW all, IssuedInv(all), NEW q, NEW d, NEW c, NEW n, NEW l, NEW vc,
         NEW recv, NEW rep, Sound(q, all, d, c, n, l, vc, recv, rep),
         NEW snap, snap = Snap(q, d, c, l, vc, recv),
         NEW back, back = Restored(snap),
         NEW r \in Replica, r # q => \A op \in all : op.site # r,
         NEW bound \in Count, \A op \in all : op.site = r => op.seq <= bound
  PROVE  /\ Max({snap.vc[r], snap.applied[r]}) <= bound
         /\ Sound(r, all, back.doc, snap.clock, Max({snap.vc[r], snap.applied[r]}),
                  back.log, snap.vc, recv, {})
<1> DEFINE top == Max({snap.vc[r], snap.applied[r]})
           K == KnowledgeOf(recv)
           applied == Highest(vc, l, r)
<1>1. Meaningful(recv) /\ r \in Site
  BY SoundKnows, ReplicaAssumption
<1>2. /\ l \in SUBSET recv /\ recv \in SUBSET all /\ Means(d, recv) /\ vc \in VectorClock
      /\ \A op \in recv : op.seq <= vc[op.site] \/ op \in l
      /\ \A s \in Site : 1 .. vc[s] \subseteq SeqsOf(recv, s)
      /\ \A op \in recv : op.ts <= c
      /\ c \in Count
      /\ \A op \in all : op.site = q => op \in recv
      /\ \A e \in d.pendingGen : e.site # q
  BY DEF Sound
<1>3. snap.vc = K /\ snap.clock = c /\ snap.applied[r] = applied
  BY <1>1 DEF Snap
<1>4. /\ Means(back.doc, recv)
      /\ back.doc.pendingGen = StillMissing(d.pendingGen, recv)
      /\ {op \in recv : op.seq > snap.vc[op.site]} \subseteq back.log
      /\ back.log \subseteq recv
      /\ d.pendingGen \subseteq back.log
  BY RestoredMeans
<1>5. /\ K \in VectorClock /\ \A s \in Site : 1 .. K[s] \subseteq SeqsOf(recv, s)
      /\ K[r] \in Count
  BY <1>1, KnowledgeIsExact DEF VectorClock
<1>6. /\ applied \in Count
      /\ \A op \in recv : op.site = r => op.seq <= applied
      /\ applied = 0 \/ \E op \in recv : op.site = r /\ op.seq = applied
  BY <1>1, <1>2, AppliedIsLatest
<1> HIDE DEF applied, K
<1>7. /\ top \in Count /\ top >= K[r] /\ top >= applied
      /\ top = K[r] \/ top = applied
  BY <1>3, <1>5, <1>6, MaxOfTwo
<1> HIDE DEF top
<1>8. K[r] = 0 \/ \E op \in recv : op.site = r /\ op.seq = K[r]
  <2>1. K[r] # 0 => K[r] \in 1 .. K[r]
    BY <1>5, MaxTimestampAssumption DEF Count
  <2>2. K[r] # 0 => K[r] \in SeqsOf(recv, r)
    BY <1>1, <1>5, <2>1
  <2>3. QED
    BY <2>2 DEF SeqsOf
<1>9. top = 0 \/ \E op \in recv : op.site = r /\ op.seq = top
  BY <1>6, <1>7, <1>8
<1>10. top <= bound
  BY <1>2, <1>9, MaxTimestampAssumption DEF Count
<1>11. \A op \in all : op.site = r => op \in recv /\ op.seq <= top
  <2>1. ASSUME NEW op \in all, op.site = r
        PROVE  op \in recv /\ op.seq <= top
    <3>1. op \in recv
      BY <1>2, <2>1
    <3>2. op.seq <= applied /\ op.seq \in Nat
      BY <1>1, <1>6, <2>1, <3>1, OperationFields DEF Meaningful
    <3>3. QED
      BY <1>6, <1>7, <3>1, <3>2, MaxTimestampAssumption DEF Count
  <2>2. QED
    BY <2>1
<1>12. \A op \in recv : op.seq <= K[op.site] \/ op \in back.log
  <2>1. ASSUME NEW op \in recv, op \notin back.log
        PROVE  op.seq <= K[op.site]
    <3>1. op.site \in Site /\ op.seq \in Nat
      BY <1>1, OperationFields DEF Meaningful
    <3>2. K[op.site] \in Nat
      BY <1>5, <3>1, MaxTimestampAssumption DEF VectorClock, Count
    <3>3. QED
      BY <1>3, <1>4, <2>1, <3>1, <3>2
  <2>2. QED
    BY <2>1
<1>13. \A e \in back.doc.pendingGen : e.site # r
  <2>1. d.pendingGen \subseteq all
    BY <1>2 DEF Means, Queue
  <2>2. QED
    BY <1>2, <1>4, <2>1 DEF StillMissing
<1>14. back.doc.pendingGen \subseteq back.log
  BY <1>4 DEF StillMissing
<1>15. Sound(r, all, back.doc, c, top, back.log, K, recv, {})
  BY <1>2, <1>4, <1>5, <1>7, <1>11, <1>12, <1>13, <1>14 DEF Sound
<1>16. QED
  BY <1>3, <1>10, <1>15 DEF top

-----------------------------------------------------------------------------
(***************************************************************************)
(* The inductive invariant.                                                *)
(***************************************************************************)
SoundAt(r) ==
  Sound(r, issued, doc[r], clock[r], localSeq[r], log[r], compacted[r], received[r], reported[r])

Shape ==
  /\ DOMAIN doc = Replica /\ DOMAIN clock = Replica /\ DOMAIN localSeq = Replica
  /\ DOMAIN log = Replica /\ DOMAIN compacted = Replica /\ DOMAIN received = Replica
  /\ DOMAIN reported = Replica

ReplicasInv ==
  /\ Shape
  /\ IssuedInv(issued)
  /\ \A r \in Replica : SoundAt(r)

LEMMA NothingMeant ==
  ASSUME NEW f \in Feature
  PROVE  MeantFeature({}, f) = Untouched(f)
<1>1. \A types : Of({}, f, types) = {}
  BY DEF Of
<1>2. Generations({}, f) = {} /\ (\A p : Writes({}, f, p) = {}) /\ \A gen : EditsOf({}, f, gen) = {}
  BY <1>1 DEF Generations, Writes, EditsOf
<1>3. /\ Created({}, f) = NoStamp /\ Deleted({}, f) = NoStamp
      /\ NewestRef(Generations({}, f)) = NoRef /\ NewestStamp(Generations({}, f)) = NoStamp
  BY <1>1, <1>2 DEF Created, Deleted, NewestRef, NewestStamp
<1>4. GeometryOf({}, f) = IF f \in BaseFeature THEN GeometryWith({}) ELSE NoGeometry
  BY <1>2 DEF GeometryOf, HasGeometry
<1>5. SeenBy({}, f) = IF f \in BaseFeature THEN {NoRef} ELSE {}
  BY <1>2 DEF SeenBy, Refs
<1>6. \A p : RegisterOf({}, f, p) = Unwritten
  BY <1>2 DEF RegisterOf, Unwritten, NewestStamp
<1>7. Registers({}, f) = [p \in Property |-> Unwritten]
  BY <1>6 DEF Registers
<1>8. MeantFeature({}, f) = FeatureOf({}, f, NoStamp, NoStamp, [p \in Property |-> Unwritten])
  BY <1>3, <1>7, MeantIsFeature
<1>9. QED
  BY <1>3, <1>4, <1>5, <1>8 DEF FeatureOf, Untouched

LEMMA ReplicasInit ==
  ASSUME Init
  PROVE  ReplicasInv
<1>1. Shape
  BY DEF Init, Shape
<1>2. IssuedInv({})
  <2>1. Meaningful({})
    BY FS_EmptySet DEF Meaningful, OneEach
  <2>2. \A s \in Peer : Cardinality({op \in {} : op.site = s}) <= LatestTimestamp(0, {})
    <3>1. LatestTimestamp(0, {}) >= 0
      <4>1. 0 \in Count /\ {} \in SUBSET Operation
        BY MaxTimestampAssumption DEF Count
      <4>2. QED
        BY <4>1, LatestOf
    <3>2. LatestTimestamp(0, {}) \in Nat
      <4>1. 0 \in Count /\ {} \in SUBSET Operation
        BY MaxTimestampAssumption DEF Count
      <4>2. LatestTimestamp(0, {}) \in Count
        BY <4>1, LatestOf
      <4>3. QED
        BY <4>2, MaxTimestampAssumption DEF Count
    <3>3. \A s : {op \in {} : op.site = s} = {}
      OBVIOUS
    <3>4. QED
      BY <3>1, <3>2, <3>3, FS_EmptySet
  <2>3. QED
    BY <2>1, <2>2 DEF IssuedInv
<1>3. Means(NewDocument, {}) /\ NewDocument.pendingGen = {}
  <2>1. [f \in Feature |-> Untouched(f)] = [f \in Feature |-> MeantFeature({}, f)]
    BY NothingMeant
  <2>2. NewDocument = DocumentOf({}, {})
    BY <2>1 DEF NewDocument, DocumentOf
  <2>3. Queue({}, {})
    BY DEF Queue
  <2>4. QED
    BY <2>2, <2>3, PendingOf
<1>4. ASSUME NEW r \in Replica
      PROVE  SoundAt(r)
  <2>1. 0 \in Count /\ NoKnowledge \in VectorClock
    BY MaxTimestampAssumption DEF NoKnowledge, VectorClock, Count
  <2>2. \A s \in Site : 1 .. NoKnowledge[s] \subseteq SeqsOf({}, s)
    BY DEF NoKnowledge
  <2>3. Sound(r, {}, NewDocument, 0, 0, {}, NoKnowledge, {}, {})
    BY <1>3, <2>1, <2>2 DEF Sound
  <2>4. QED
    BY <2>3 DEF Init, SoundAt
<1>5. QED
  BY <1>1, <1>2, <1>4 DEF Init, ReplicasInv

(* A step at r leaves the other replicas alone.                            *)
OthersStay(r) ==
  \A s \in Replica \ {r} :
    /\ doc'[s] = doc[s] /\ clock'[s] = clock[s] /\ localSeq'[s] = localSeq[s]
    /\ log'[s] = log[s] /\ compacted'[s] = compacted[s]
    /\ received'[s] = received[s] /\ reported'[s] = reported[s]

LEMMA ApplyKeeps ==
  ASSUME ReplicasInv, NEW r \in Replica, NEW shape \in Commands(doc[r]), Apply(r, shape)
  PROVE  ReplicasInv'
<1> DEFINE op == Issue(r, localSeq[r] + 1, clock[r] + 1, shape)
           result == ApplyOp(doc[r], History(log[r], compacted[r]), op)
<1>1. /\ Shape /\ IssuedInv(issued) /\ \A s \in Replica : SoundAt(s)
  BY DEF ReplicasInv
<1>2. /\ Shape'
      /\ issued' = issued \cup {op} /\ OthersStay(r)
      /\ doc'[r] = result.doc /\ clock'[r] = clock[r] + 1 /\ localSeq'[r] = localSeq[r] + 1
      /\ log'[r] = log[r] \cup {op} /\ compacted'[r] = compacted[r]
      /\ received'[r] = received[r] \cup {op} /\ reported'[r] = reported[r]
      /\ result.outcomes[op] = "applied"
  <2> HIDE DEF result
  <2>1. Shape'
    BY <1>1 DEF Apply, Shape
  <2>2. QED
    BY <1>1, <2>1 DEF Apply, Shape, OthersStay, result
<1>3. Sound(r, issued, doc[r], clock[r], localSeq[r], log[r], compacted[r], received[r], reported[r])
  BY <1>1 DEF SoundAt
<1>4. clock[r] + 1 < MaxTimestamp /\ localSeq[r] + 1 < MaxTimestamp
  <2>1. clock[r] \in Nat /\ localSeq[r] \in Nat
    BY <1>3, MaxTimestampAssumption DEF Sound, Count
  <2>2. QED
    BY <2>1, MaxTimestampAssumption DEF Apply, Exhausted
<1>5. op.site = r /\ IssuedInv(issued \cup {op})
  BY <1>1, <1>3, <1>4, CommandIsIssued
<1>6. Sound(r, issued \cup {op}, result.doc, clock[r] + 1, localSeq[r] + 1, log[r] \cup {op},
            compacted[r], received[r] \cup {op}, reported[r])
  BY <1>1, <1>2, <1>3, <1>4, CommandIsSound
<1> HIDE DEF op, result
<1>7. SoundAt(r)'
  BY <1>2, <1>6 DEF SoundAt
<1>8. ASSUME NEW s \in Replica, s # r
      PROVE  SoundAt(s)'
  <2>1. Sound(s, issued, doc[s], clock[s], localSeq[s], log[s], compacted[s], received[s], reported[s])
    BY <1>1 DEF SoundAt
  <2>2. Sound(s, issued \cup {op}, doc[s], clock[s], localSeq[s], log[s], compacted[s],
              received[s], reported[s])
    BY <1>5, <1>8, <2>1, OthersStaySound
  <2>3. QED
    BY <1>2, <1>8, <2>2 DEF SoundAt, OthersStay
<1>9. QED
  BY <1>2, <1>5, <1>7, <1>8 DEF ReplicasInv

LEMMA PeerStepKeeps ==
  ASSUME ReplicasInv, PeerStep
  PROVE  ReplicasInv'
<1>1. PICK site \in Peer, f \in Feature, gen \in {NoRef} \cup Refs(issued) :
        issued' = issued \cup
          {Issue(site, Cardinality({op \in issued : op.site = site}) + 1,
                 LatestTimestamp(0, issued) + 1, EditGeometry(f, gen))}
  BY DEF PeerStep
<1> DEFINE own == {op \in issued : op.site = site}
           k == Cardinality(own)
           latest == LatestTimestamp(0, issued)
           op == Issue(site, k + 1, latest + 1, EditGeometry(f, gen))
<1>2. /\ Shape /\ IssuedInv(issued) /\ Meaningful(issued) /\ \A s \in Replica : SoundAt(s)
  BY DEF ReplicasInv, IssuedInv
<1>3. latest + 1 \in Number
  BY DEF PeerStep
<1>4. /\ op.site = site /\ op.seq = k + 1 /\ op.ts = latest + 1 /\ op.gen = gen
      /\ op = [site |-> site, seq |-> k + 1, ts |-> latest + 1,
               type |-> "edit_geometry", feature |-> f, geometry |-> FALSE,
               properties |-> {}, gen |-> gen]
  BY DEF Issue, EditGeometry, Command
<1>5. k \in Nat /\ latest \in Nat /\ k <= latest
  <2>1. IsFiniteSet(own)
    BY <1>2, FS_Subset DEF Meaningful
  <2>2. k \in Nat
    BY <2>1, FS_CardinalityType
  <2>3. 0 \in Count /\ issued \in SUBSET Operation
    BY <1>2, MaxTimestampAssumption DEF Count, Meaningful
  <2>4. latest \in Nat
    BY <2>3, LatestOf, MaxTimestampAssumption DEF Count
  <2>5. k <= latest
    BY <1>2 DEF IssuedInv
  <2>6. QED
    BY <2>2, <2>4, <2>5
<1>6. \A o \in issued : o.site = site => o.seq <= k
  BY <1>2 DEF IssuedInv
<1>7. \A o \in issued : o.ts <= latest /\ o.ts \in Nat /\ o.seq \in Nat /\ RefOf(o) \in Site \X Number
  <2>1. 0 \in Count /\ issued \in SUBSET Operation
    BY <1>2, MaxTimestampAssumption DEF Count, Meaningful
  <2>2. QED
    BY <2>1, LatestOf, OperationFields DEF RefOf
<1>8. op \in Operation
  <2>1. k + 1 \in Number
    BY <1>3, <1>5, MaxTimestampAssumption DEF Number
  <2>2. site \in Site
    BY ReplicaAssumption
  <2>3. gen \in {NoRef} \cup (Site \X Number)
    BY <1>7 DEF Refs
  <2>4. "edit_geometry" \in OpType
    BY DEF OpType, GenerationType
  <2> HIDE DEF k, latest, op
  <2>5. QED
    BY <1>3, <1>4, <2>1, <2>2, <2>3, <2>4 DEF Operation, WriteType
<1>9. RefOf(op) \notin Refs(issued)
  <2> HIDE DEF k, latest, op
  <2>1. \A o \in issued : ~ (o.site = site /\ o.seq = k + 1)
    BY <1>5, <1>6, <1>7
  <2>2. QED
    BY <1>4, <2>1 DEF RefOf, Refs
<1>10. gen # NoRef => \E g \in issued : RefOf(g) = gen /\ g.ts < latest + 1
  <2> HIDE DEF k, latest, op
  <2>1. QED
    BY <1>5, <1>7 DEF Refs
<1>11. IssuedInv(issued \cup {op})
  <2>1. op.seq = Cardinality({o \in issued : o.site = op.site}) + 1
    BY <1>4
  <2>2. op.ts > LatestTimestamp(0, issued)
    <3>1. latest + 1 > latest
      BY <1>5
    <3>2. QED
      BY <1>4, <3>1
  <2>3. op.gen # NoRef => \E g \in issued : RefOf(g) = op.gen /\ g.ts < op.ts
    BY <1>4, <1>10
  <2>4. op.site \in Replica \cup Peer
    BY <1>4
  <2> HIDE DEF op
  <2>5. QED
    BY <1>2, <1>8, <1>9, <2>1, <2>2, <2>3, <2>4, IssuedMore
<1>12. issued' = issued \cup {op}
       /\ UNCHANGED << doc, clock, localSeq, log, compacted, received, reported >>
  BY <1>1 DEF PeerStep
<1> HIDE DEF op
<1>13. ASSUME NEW s \in Replica
       PROVE  SoundAt(s)'
  <2>1. op.site # s
    BY <1>4, ReplicaAssumption
  <2>2. Sound(s, issued, doc[s], clock[s], localSeq[s], log[s], compacted[s], received[s], reported[s])
    BY <1>2 DEF SoundAt
  <2>3. Sound(s, issued \cup {op}, doc[s], clock[s], localSeq[s], log[s], compacted[s],
              received[s], reported[s])
    BY <2>1, <2>2, OthersStaySound
  <2>4. QED
    BY <1>12, <2>3 DEF SoundAt
<1>14. Shape'
  BY <1>2, <1>12 DEF Shape
<1>15. QED
  BY <1>11, <1>12, <1>13, <1>14 DEF ReplicasInv

(* What a merge may be given: a clock and a watermark that are known.      *)
LEMMA MergeBatchKeeps ==
  ASSUME ReplicasInv, NEW r \in Replica, NEW ops \in SUBSET issued, NEW c2 \in Count,
         NEW more \in VectorClock, CoveredBy(more, KnowledgeOf(received[r])),
         MergeBatch(r, ops, c2, more)
  PROVE  /\ ReplicasInv'
         /\ \A e \in doc'[r].pendingGen \ doc[r].pendingGen : e.gen \notin Refs(received'[r])
         /\ OthersStay(r)
<1> DEFINE m == MergeAll(r, ops)
           start == Start(doc[r], log[r], reported[r])
           fresh == Fresh(ops, compacted[r], log[r])
<1>1. /\ Shape /\ IssuedInv(issued) /\ \A s \in Replica : SoundAt(s)
  BY DEF ReplicasInv
<1>2. /\ Shape' /\ issued' = issued /\ OthersStay(r)
      /\ doc'[r] = m.doc /\ log'[r] = m.log /\ reported'[r] = m.reported
      /\ clock'[r] = Max({LatestTimestamp(clock[r], ops), c2})
      /\ localSeq'[r] = localSeq[r]
      /\ compacted'[r] = MergeClocks(compacted[r], more)
      /\ received'[r] = received[r] \cup ops
  <2> HIDE DEF m
  <2>1. Shape'
    BY <1>1 DEF MergeBatch, Shape
  <2>2. QED
    BY <1>1, <2>1 DEF MergeBatch, Shape, OthersStay, m
<1>3. m = InStampOrder(start, compacted[r], fresh)
  BY DEF MergeAll, Unseen, Start, Fresh
<1>4. Sound(r, issued, doc[r], clock[r], localSeq[r], log[r], compacted[r], received[r], reported[r])
  BY <1>1 DEF SoundAt
<1> HIDE DEF m
<1>5. /\ Sound(r, issued, m.doc, Max({LatestTimestamp(clock[r], ops), c2}), localSeq[r], m.log,
               MergeClocks(compacted[r], more), received[r] \cup ops, m.reported)
      /\ \A e \in m.doc.pendingGen \ doc[r].pendingGen : e.gen \notin Refs(received[r] \cup ops)
  <2>1. ASSUME NEW st, st = Start(doc[r], log[r], reported[r]),
               NEW fr, fr = Fresh(ops, compacted[r], log[r]),
               NEW w, w = InStampOrder(st, compacted[r], fr)
        PROVE  MergedWell(w, issued, r, doc[r], clock[r], localSeq[r], compacted[r],
                          received[r], ops, c2, more)
    BY <1>1, <1>4, <2>1, MergeIsSound
  <2>2. QED
    BY <1>3, <2>1 DEF MergedWell
<1>6. SoundAt(r)'
  BY <1>2, <1>5 DEF SoundAt
<1>7. ASSUME NEW s \in Replica, s # r
      PROVE  SoundAt(s)'
  BY <1>1, <1>2, <1>7 DEF SoundAt, OthersStay
<1>8. QED
  BY <1>1, <1>2, <1>5, <1>6, <1>7 DEF ReplicasInv

LEMMA MergeKeeps ==
  ASSUME ReplicasInv, NEW r \in Replica,
         \/ \E ops \in SUBSET issued : MergeOps(r, ops)
         \/ \E q \in Replica : Merge(r, q)
  PROVE  /\ ReplicasInv'
         /\ \A e \in doc'[r].pendingGen \ doc[r].pendingGen : e.gen \notin Refs(received'[r])
         /\ OthersStay(r)
<1>1. /\ IssuedInv(issued)
      /\ \A s \in Replica :
           Sound(s, issued, doc[s], clock[s], localSeq[s], log[s], compacted[s], received[s], reported[s])
  BY DEF ReplicasInv, SoundAt
<1>2. Knowledge(r) = KnowledgeOf(received[r])
  BY DEF Knowledge, KnowledgeOf
<1>3. CASE \E ops \in SUBSET issued : MergeOps(r, ops)
  <2>1. PICK ops \in SUBSET issued : MergeOps(r, ops)
    BY <1>3
  <2>2. 0 \in Count /\ NoKnowledge \in VectorClock
    BY MaxTimestampAssumption DEF NoKnowledge, VectorClock, Count
  <2>3. CoveredBy(NoKnowledge, KnowledgeOf(received[r]))
    <3>1. Meaningful(received[r])
      BY <1>1, SoundKnows
    <3>2. \A s \in Site : 1 .. NoKnowledge[s] \subseteq SeqsOf(received[r], s)
      BY DEF NoKnowledge
    <3>3. QED
      BY <2>2, <3>1, <3>2, KnowledgeIsExact
  <2>4. QED
    BY <2>1, <2>2, <2>3, MergeBatchKeeps DEF MergeOps
<1>4. CASE \E q \in Replica : Merge(r, q)
  <2>1. PICK q \in Replica : Merge(r, q)
    BY <1>4
  <2>2. log[q] \in SUBSET issued /\ clock[q] \in Count /\ compacted[q] \in VectorClock
    BY <1>1 DEF Sound
  <2>3. CoveredBy(compacted[q], KnowledgeOf(received[r])) /\ MergeBatch(r, log[q], clock[q], compacted[q])
    BY <1>2, <2>1 DEF Merge
  <2>4. QED
    BY <2>2, <2>3, MergeBatchKeeps
<1>5. QED
  BY <1>3, <1>4

(* A command that would wait is refused, and a new stamp is the newest.    *)
LEMMA CommandOutcome ==
  ASSUME ReplicasInv, NEW r \in Replica, NEW shape \in Commands(doc[r]), Apply(r, shape)
  PROVE  \E op :
           /\ log'[r] = log[r] \cup {op}
           /\ doc'[r].pendingGen \subseteq doc[r].pendingGen
           /\ TakesEffect(doc'[r].features[op.feature], op)
<1> DEFINE op == Issue(r, localSeq[r] + 1, clock[r] + 1, shape)
           result == ApplyOp(doc[r], History(log[r], compacted[r]), op)
<1>1. Shape /\ IssuedInv(issued) /\ SoundAt(r) /\ SoundAt(r)'
  <2>1. ReplicasInv'
    BY ApplyKeeps
  <2>2. QED
    BY <2>1 DEF ReplicasInv
<1>2. Sound(r, issued, doc[r], clock[r], localSeq[r], log[r], compacted[r], received[r], reported[r])
  BY <1>1 DEF SoundAt
<1>3. clock[r] + 1 < MaxTimestamp /\ localSeq[r] + 1 < MaxTimestamp
  <2>1. clock[r] \in Nat /\ localSeq[r] \in Nat
    BY <1>2, MaxTimestampAssumption DEF Sound, Count
  <2>2. QED
    BY <2>1, MaxTimestampAssumption DEF Apply, Exhausted
<1>4. /\ log'[r] = log[r] \cup {op} /\ received'[r] = received[r] \cup {op}
      /\ doc'[r] = result.doc /\ result.outcomes[op] = "applied"
  <2> HIDE DEF result, op
  <2>1. QED
    BY <1>1 DEF Apply, Shape, result, op
<1>5. Means(doc'[r], received[r] \cup {op})
  <2>1. Means(doc'[r], received'[r])
    BY <1>1 DEF SoundAt, Sound
  <2>2. QED
    BY <1>4, <2>1
<1>6. TakesEffect(doc'[r].features[op.feature], op)
  BY <1>1, <1>2, <1>3, <1>5, CommandTakesEffect
<1>7. op.site = r /\ op \notin received[r] /\ IssuedInv(issued \cup {op})
  BY <1>1, <1>2, <1>3, CommandIsIssued
<1> HIDE DEF op
<1>8. AppliedWell(result, doc[r], received[r], op)
  <2>1. Meaningful(received[r] \cup {op})
    <3>1. received[r] \cup {op} \in SUBSET (issued \cup {op})
      BY <1>2 DEF Sound
    <3>2. QED
      BY <1>7, <3>1, PartIsMeaningful DEF IssuedInv
  <2>2. Knows(History(log[r], compacted[r]), received[r])
    BY <1>1, <1>2, SoundKnows
  <2>3. Means(doc[r], received[r])
    BY <1>2 DEF Sound
  <2>4. QED
    BY <1>7, <2>1, <2>2, <2>3, ApplyMeans
<1>9. doc'[r].pendingGen \subseteq doc[r].pendingGen
  BY <1>4, <1>8 DEF AppliedWell
<1>10. QED
  BY <1>4, <1>6, <1>9

LEMMA SnapshotIsSnap ==
  ASSUME NEW r \in Replica
  PROVE  SnapshotOf(r) = Snap(r, doc[r], clock[r], log[r], compacted[r], received[r])
BY DEF SnapshotOf, Snap, Knowledge, KnowledgeOf, Highest

(* What a replica has after it restarted from a snapshot of q.             *)
LEMMA RestartKeeps ==
  ASSUME ReplicasInv, NEW r \in Replica, NEW q \in Replica, Restart(r, q)
  PROVE  /\ ReplicasInv'
         /\ localSeq'[r] <= localSeq[r]
         /\ doc'[r].pendingGen = StillMissing(doc[q].pendingGen, received'[r])
         /\ OthersStay(r)
<1> DEFINE snap == SnapshotOf(q)
           back == Restored(snap)
           top == Max({snap.vc[r], snap.applied[r]})
<1>1. /\ Shape /\ IssuedInv(issued) /\ \A s \in Replica : SoundAt(s)
  BY DEF ReplicasInv
<1>2. /\ Shape' /\ issued' = issued /\ OthersStay(r)
      /\ doc'[r] = back.doc /\ clock'[r] = snap.clock /\ localSeq'[r] = top
      /\ log'[r] = back.log /\ compacted'[r] = snap.vc
      /\ received'[r] = received[q] /\ reported'[r] = {}
      /\ q # r => SeqsOf(issued, r) = {}
  <2> HIDE DEF snap, back
  <2>1. Shape'
    BY <1>1 DEF Restart, Shape
  <2>2. QED
    BY <1>1, <2>1 DEF Restart, Shape, OthersStay, snap, back
<1>3. \A s \in Replica :
        Sound(s, issued, doc[s], clock[s], localSeq[s], log[s], compacted[s], received[s], reported[s])
  BY <1>1 DEF SoundAt
<1>4. localSeq[r] \in Count /\ \A op \in issued : op.site = r => op.seq <= localSeq[r]
  BY <1>3 DEF Sound
<1>5. r # q => \A op \in issued : op.site # r
  BY <1>2 DEF SeqsOf
<1>6. snap = Snap(q, doc[q], clock[q], log[q], compacted[q], received[q])
  BY SnapshotIsSnap
<1> HIDE DEF snap, back
<1>7. back = Restored(snap)
  BY DEF back
<1>8. /\ top <= localSeq[r]
      /\ Sound(r, issued, back.doc, snap.clock, top, back.log, snap.vc, received[q], {})
  BY <1>1, <1>3, <1>4, <1>5, <1>6, <1>7, RestartIsSound
<1>9. back.doc.pendingGen = StillMissing(doc[q].pendingGen, received[q])
  BY <1>1, <1>3, <1>6, <1>7, RestoredMeans
<1> HIDE DEF top
<1>10. SoundAt(r)'
  BY <1>2, <1>8 DEF SoundAt
<1>11. ASSUME NEW s \in Replica, s # r
       PROVE  SoundAt(s)'
  BY <1>1, <1>2, <1>11 DEF SoundAt, OthersStay
<1>12. QED
  BY <1>1, <1>2, <1>8, <1>9, <1>10, <1>11 DEF ReplicasInv

LEMMA StutterKeeps ==
  ASSUME ReplicasInv, UNCHANGED vars
  PROVE  ReplicasInv'
BY DEF ReplicasInv, Shape, SoundAt, vars

LEMMA ReplicasStep ==
  ASSUME ReplicasInv, [Next]_vars
  PROVE  ReplicasInv'
<1>1. CASE LocalStep
  <2>1. PICK r \in Replica : \E shape \in Commands(doc[r]) : Apply(r, shape)
    BY <1>1 DEF LocalStep, Used
  <2>2. QED
    BY <2>1, ApplyKeeps
<1>2. CASE PeerStep
  BY <1>2, PeerStepKeeps
<1>3. CASE MergeStep
  BY <1>3, MergeKeeps DEF MergeStep
<1>4. CASE RestartStep
  BY <1>4, RestartKeeps DEF RestartStep
<1>5. CASE UNCHANGED vars
  BY <1>5, StutterKeeps
<1>6. QED
  BY <1>1, <1>2, <1>3, <1>4, <1>5 DEF Next

LEMMA ReplicasInvariant == Spec => []ReplicasInv
<1>1. Init => ReplicasInv
  BY ReplicasInit
<1>2. ReplicasInv /\ [Next]_vars => ReplicasInv'
  BY ReplicasStep
<1>3. QED
  BY <1>1, <1>2, PTL DEF Spec

-----------------------------------------------------------------------------
(***************************************************************************)
(* Theorems.                                                               *)
(***************************************************************************)

(* Every field holds what its Go field can hold: clocks and sequence       *)
(* numbers stay below their bound, the log and everything reported have    *)
(* been received, an edit that waits is in the log (document.go).          *)
THEOREM DocumentsKeepTheirTypes == Spec => []TypeOK
<1>1. ReplicasInv => TypeOK
  BY DEF ReplicasInv, SoundAt, Sound, TypeOK
<1>2. QED
  BY <1>1, ReplicasInvariant, PTL

(* Replicas that have received the same operations show the same features, *)
(* in whatever order, batches and repetitions those came and however often *)
(* a replica restarted (Document.applyOp, Document.MergeOps, Restore).     *)
THEOREM FeaturesAreWhatWasReceived == Spec => []FeaturesAreMeant
<1>1. ReplicasInv => FeaturesAreMeant
  <2> SUFFICES ASSUME ReplicasInv, NEW r \in Replica, NEW f \in Feature
               PROVE  doc[r].features[f] = MeantFeature(received[r], f)
    BY DEF FeaturesAreMeant
  <2>1. Means(doc[r], received[r])
    BY DEF ReplicasInv, SoundAt, Sound
  <2>2. QED
    BY <2>1, MeansFeature
<1>2. QED
  BY <1>1, ReplicasInvariant, PTL

(* A geometry shows no edit of another feature, of another geometry, or    *)
(* one that is older than the geometry it is made to (applyEditGeometry,   *)
(* adoptGeneration): no replica issues one, no peer can.                   *)
THEOREM EditsKeepToTheirGeneration == Spec => []EditsStayInTheirGeneration
<1>1. ReplicasInv => EditsStayInTheirGeneration
  <2> SUFFICES ASSUME ReplicasInv, NEW r \in Replica, NEW f \in Feature,
                      NEW e \in doc[r].features[f].geometry.edits
               PROVE  LET feature == doc[r].features[f]
                      IN  /\ e.feature = f /\ e.gen = feature.genID
                          /\ Newer(StampOf(e), feature.genStamp)
    BY DEF EditsStayInTheirGeneration
  <2> DEFINE recv == received[r]
             gens == Generations(recv, f)
  <2>1. Means(doc[r], recv) /\ IssuedInv(issued) /\ recv \in SUBSET issued
    BY DEF ReplicasInv, SoundAt, Sound
  <2>2. Meaningful(recv) /\ Meaningful(issued)
    BY <2>1, PartIsMeaningful DEF IssuedInv
  <2>3. /\ doc[r].features[f].geometry = GeometryOf(recv, f)
        /\ doc[r].features[f].genID = NewestRef(gens)
        /\ doc[r].features[f].genStamp = NewestStamp(gens)
    BY <2>1, MeansFeature
  <2>4. e \in recv /\ e.feature = f /\ e.gen = NewestRef(gens)
    BY <2>3 DEF GeometryOf, GeometryWith, NoGeometry, EditsOf, Of
  <2>5. Stamped(e) /\ e.ts > 0
    BY <2>2, <2>4, OperationsAreStamped DEF Meaningful
  <2>6. CASE gens = {}
    <3>1. NewestStamp(gens) = NoStamp
      BY <2>6 DEF NewestStamp
    <3>2. Newer(StampOf(e), NoStamp)
      BY <2>5 DEF Newer, Less, StampOf, NoStamp, Stamped
    <3>3. QED
      BY <2>3, <2>4, <3>1, <3>2
  <2>7. CASE gens # {}
    <3>1. gens \in SUBSET recv
      BY DEF Generations, Of
    <3>2. Newest(gens) \in gens /\ NewestRef(gens) # NoRef
      BY <2>2, <2>7, <3>1, PartIsMeaningful, NewestRefIsOne
    <3>3. NewestRef(gens) = RefOf(Newest(gens)) /\ NewestStamp(gens) = StampOf(Newest(gens))
      BY <2>7 DEF NewestRef, NewestStamp
    <3>4. Newer(e, Newest(gens))
      BY <2>1, <2>4, <3>1, <3>2, <3>3, GenerationIsOlder
    <3>5. Newer(StampOf(e), StampOf(Newest(gens)))
      BY <3>4 DEF Newer, Less, StampOf
    <3>6. QED
      BY <2>3, <2>4, <3>3, <3>5
  <2>8. QED
    BY <2>6, <2>7
<1>2. QED
  BY <1>1, ReplicasInvariant, PTL

(* An edit whose generation has not come waits; one whose generation is    *)
(* there does not (Document.pendingGen).                                   *)
THEOREM EditsWaitForWhatIsMissing == Spec => []WaitingIsMissing
<1>1. ReplicasInv => WaitingIsMissing
  <2> SUFFICES ASSUME ReplicasInv, NEW r \in Replica
               PROVE  LET edits == {e \in received[r] : e.type = "edit_geometry"}
                          gens  == UNION {Generations(received[r], f) : f \in Feature}
                      IN  /\ {e \in edits : e.gen \notin {NoRef} \cup Refs(received[r])}
                               \subseteq doc[r].pendingGen
                          /\ doc[r].pendingGen \subseteq
                               {e \in edits : e.gen \notin {NoRef} \cup Refs(gens)}
    BY DEF WaitingIsMissing
  <2>1. Queue(doc[r].pendingGen, received[r]) /\ Meaningful(received[r])
    <3>1. Means(doc[r], received[r]) /\ IssuedInv(issued) /\ received[r] \in SUBSET issued
      BY DEF ReplicasInv, SoundAt, Sound
    <3>2. QED
      BY <3>1, PartIsMeaningful DEF Means, IssuedInv
  <2>2. \A f : \A g \in Generations(received[r], f) : g \in received[r] /\ g.type \in GenerationType
    BY DEF Generations, Of, GenerationType
  <2>3. QED
    BY <2>1, <2>2 DEF Queue, IsEdit, Refs
<1>2. QED
  BY <1>1, ReplicasInvariant, PTL

(* The snapshot of a replica is accepted in every state, and a document    *)
(* restored from it shows the same features, waits for the same edits and  *)
(* can still send every operation its watermark does not cover.            *)
THEOREM RestartsAreFaithful == Spec => []RestartIsFaithful
<1>1. ReplicasInv => RestartIsFaithful
  <2> SUFFICES ASSUME ReplicasInv, NEW r \in Replica,
                      NEW snap, snap = SnapshotOf(r), NEW back, back = Restored(snap)
               PROVE  /\ ValidSnapshot(snap)
                      /\ back.doc.features = doc[r].features
                      /\ back.doc.pendingGen =
                           {e \in doc[r].pendingGen : e.gen \notin Refs(received[r])}
                      /\ {op \in received[r] : op.seq > snap.vc[op.site]} \subseteq back.log
    BY DEF RestartIsFaithful
  <2>1. /\ IssuedInv(issued)
        /\ Sound(r, issued, doc[r], clock[r], localSeq[r], log[r], compacted[r],
                 received[r], reported[r])
    BY DEF ReplicasInv, SoundAt
  <2>2. snap = Snap(r, doc[r], clock[r], log[r], compacted[r], received[r])
    BY SnapshotIsSnap
  <2>3. ValidSnapshot(snap)
    BY <2>1, <2>2, SnapshotIsValid
  <2>4. QED
    BY <2>1, <2>2, <2>3, RestoredMeans DEF StillMissing
<1>2. QED
  BY <1>1, ReplicasInvariant, PTL

(* No edit begins to wait for an operation that has already been received, *)
(* be it in the log or compacted below the watermark (applyEditGeometry).  *)
THEOREM NoEditIsStranded == Spec => EditsWaitForMissing
<1> DEFINE Waits(r) == \A e \in doc'[r].pendingGen \ doc[r].pendingGen : e.gen \notin Refs(received'[r])
<1>1. ASSUME ReplicasInv, [Next]_vars, NEW r \in Replica
      PROVE  Waits(r)
  <2>1. CASE LocalStep
    <3>1. PICK s \in Replica : \E shape \in Commands(doc[s]) : Apply(s, shape)
      BY <2>1 DEF LocalStep, Used
    <3>2. PICK shape \in Commands(doc[s]) : Apply(s, shape)
      BY <3>1
    <3>3. Shape
      BY <1>1 DEF ReplicasInv
    <3>4. CASE s # r
      <4>1. doc'[r] = doc[r]
        BY <3>2, <3>3, <3>4 DEF Apply, Shape
      <4>2. QED
        BY <4>1
    <3>5. CASE s = r
      <4>1. doc'[r].pendingGen \subseteq doc[r].pendingGen
        BY <1>1, <3>2, <3>5, CommandOutcome
      <4>2. QED
        BY <4>1
    <3>6. QED
      BY <3>4, <3>5
  <2>2. CASE PeerStep
    BY <2>2 DEF PeerStep
  <2>3. CASE MergeStep
    <3>1. PICK s \in Replica : \/ \E ops \in SUBSET issued : MergeOps(s, ops)
                               \/ \E q \in Replica : Merge(s, q)
      BY <2>3 DEF MergeStep
    <3>2. Waits(s) /\ OthersStay(s)
      BY <1>1, <3>1, MergeKeeps
    <3>3. QED
      BY <3>2 DEF OthersStay
  <2>4. CASE RestartStep
    <3>1. PICK s \in Replica, q \in Replica : Restart(s, q)
      BY <2>4 DEF RestartStep
    <3>2. doc'[s].pendingGen = StillMissing(doc[q].pendingGen, received'[s]) /\ OthersStay(s)
      BY <1>1, <3>1, RestartKeeps
    <3>3. QED
      BY <3>2 DEF OthersStay, StillMissing
  <2>5. CASE UNCHANGED vars
    BY <2>5 DEF vars
  <2>6. QED
    BY <1>1, <2>1, <2>2, <2>3, <2>4, <2>5 DEF Next
<1>2. ReplicasInv /\ [Next]_vars =>
        [\A r \in Replica : \A e \in doc'[r].pendingGen \ doc[r].pendingGen :
           e.gen \notin Refs(received'[r])]_vars
  BY <1>1
<1>3. QED
  BY <1>2, ReplicasInvariant, PTL DEF Spec, EditsWaitForMissing

(* A command takes effect on the replica that gives it, whatever it has    *)
(* merged: the stamp it gets is newer than all it has received.            *)
THEOREM CommandsTakeEffect == Spec => LocalEditsTakeEffect
<1> DEFINE Effective(r) ==
             localSeq'[r] > localSeq[r] =>
               \A op \in log'[r] \ log[r] : TakesEffect(doc'[r].features[op.feature], op)
<1>1. ASSUME ReplicasInv, [Next]_vars, NEW r \in Replica
      PROVE  Effective(r)
  <2>1. localSeq[r] \in Nat
    BY <1>1, MaxTimestampAssumption DEF ReplicasInv, SoundAt, Sound, Count
  <2>2. CASE LocalStep
    <3>1. PICK s \in Replica : \E shape \in Commands(doc[s]) : Apply(s, shape)
      BY <2>2 DEF LocalStep, Used
    <3>2. PICK shape \in Commands(doc[s]) : Apply(s, shape)
      BY <3>1
    <3>3. Shape
      BY <1>1 DEF ReplicasInv
    <3>4. CASE s # r
      <4>1. localSeq'[r] = localSeq[r]
        BY <3>2, <3>3, <3>4 DEF Apply, Shape
      <4>2. QED
        BY <2>1, <4>1
    <3>5. CASE s = r
      BY <1>1, <3>2, <3>5, CommandOutcome
    <3>6. QED
      BY <3>4, <3>5
  <2>3. CASE PeerStep
    BY <2>1, <2>3 DEF PeerStep
  <2>4. CASE MergeStep
    <3>1. localSeq' = localSeq
      BY <2>4 DEF MergeStep, MergeOps, Merge, MergeBatch
    <3>2. QED
      BY <2>1, <3>1
  <2>5. CASE RestartStep
    <3>1. PICK s \in Replica, q \in Replica : Restart(s, q)
      BY <2>5 DEF RestartStep
    <3>2. localSeq'[s] <= localSeq[s] /\ OthersStay(s) /\ localSeq'[s] \in Nat
      <4>1. localSeq'[s] <= localSeq[s] /\ OthersStay(s) /\ ReplicasInv'
        BY <1>1, <3>1, RestartKeeps
      <4>2. localSeq'[s] \in Nat
        BY <4>1, MaxTimestampAssumption DEF ReplicasInv, SoundAt, Sound, Count
      <4>3. QED
        BY <4>1, <4>2
    <3>3. QED
      BY <2>1, <3>2 DEF OthersStay
  <2>6. CASE UNCHANGED vars
    BY <2>1, <2>6 DEF vars
  <2>7. QED
    BY <1>1, <2>2, <2>3, <2>4, <2>5, <2>6 DEF Next
<1>2. ReplicasInv /\ [Next]_vars =>
        [\A r \in Replica : localSeq'[r] > localSeq[r] =>
           \A op \in log'[r] \ log[r] :
             LET feature == doc'[r].features[op.feature]
             IN  /\ op.type = "insert_feature" => Visible(feature)
                 /\ op.type = "delete_feature" => ~ Visible(feature)
                 /\ op.type \in {"insert_feature", "set_geometry"} =>
                      feature.genID = RefOf(op)
                 /\ op.type = "edit_geometry" => op \in feature.geometry.edits
                 /\ \A p \in op.properties : feature.properties[p].ref = StampOf(op)]_vars
  BY <1>1 DEF TakesEffect
<1>3. QED
  BY <1>2, ReplicasInvariant, PTL DEF Spec, LocalEditsTakeEffect
=============================================================================
