-------------------------- MODULE FrontierClockProofs -------------------------
(***************************************************************************)
(* Whatever the order in which sequence numbers are observed, and however  *)
(* often, the frontier clock shows the same frontier and the same gaps.    *)
(***************************************************************************)
EXTENDS FrontierClock, SiteClocksProofs

(* The inductive invariant: types, and the clock told from what was        *)
(* observed.  Uniqueness of Advance makes OrderIrrelevant follow from it.  *)
Inv == TypeOK /\ GapsAreVisible

LEMMA InitInv == Init => Inv
<1> SUFFICES ASSUME Init PROVE Inv
  OBVIOUS
<1>1. TypeOK
  BY MaxTimestampAssumption DEF Init, TypeOK, Count
<1>2. GapsAreVisible
  BY MaxTimestampAssumption DEF Init, GapsAreVisible, Count
<1>3. QED
  BY <1>1, <1>2 DEF Inv

LEMMA ObserveOneInv ==
  ASSUME Inv, NEW seq \in Number, ObserveOne(seq)
  PROVE  Inv'
<1> USE MaxTimestampAssumption DEF Count, Number
<1>1. /\ state.frontier \in Count
      /\ state.staged \in SUBSET Number
      /\ state = [frontier |-> state.frontier, staged |-> state.staged]
      /\ observed \in SUBSET Number
      /\ base \in Count
  BY DEF Inv, TypeOK
<1>2. /\ state.frontier + 1 \notin observed \cup state.staged
      /\ (base + 1) .. state.frontier \subseteq observed
      /\ state.frontier >= base
      /\ state.staged = {n \in observed : n > state.frontier}
  BY DEF Inv, GapsAreVisible
<1>3. state' = Observe(state, seq) /\ observed' = observed \cup {seq} /\ base' = base
  BY DEF ObserveOne
<1>4. CASE seq <= state.frontier
  <2>1. state' = state
    BY <1>3, <1>4 DEF Observe
  <2>2. TypeOK'
    BY <1>1, <1>3, <2>1 DEF TypeOK
  <2>3. GapsAreVisible'
    BY <1>1, <1>2, <1>3, <1>4, <2>1 DEF GapsAreVisible
  <2>4. QED
    BY <2>2, <2>3 DEF Inv
<1>5. CASE seq = state.frontier + 1
  <2> DEFINE m == Advance(seq, state.staged)
  <2>1. /\ m \in Count
        /\ m >= seq
        /\ (seq+1) .. m \subseteq state.staged
        /\ m + 1 \notin state.staged
    BY <1>1, AdvanceStops
  <2>2. state' = [frontier |-> m, staged |-> state.staged \ (seq .. m)]
    BY <1>1, <1>3, <1>5 DEF Observe
  <2> HIDE DEF m
  <2>3. TypeOK'
    BY <1>1, <1>3, <2>1, <2>2 DEF TypeOK
  <2>4. /\ state'.frontier = m
        /\ state'.staged = state.staged \ (seq .. m)
    BY <2>2
  <2>5. state'.staged = {n \in observed' : n > m}
    BY <1>1, <1>2, <1>3, <1>5, <2>1, <2>4
  <2>6. (base + 1) .. m \subseteq observed'
    BY <1>1, <1>2, <1>3, <1>5, <2>1
  <2>7. m + 1 \notin observed'
    BY <1>1, <1>2, <1>3, <1>5, <2>1
  <2>8. GapsAreVisible'
    BY <1>1, <1>2, <1>3, <1>5, <2>1, <2>4, <2>5, <2>6, <2>7 DEF GapsAreVisible
  <2>9. QED
    BY <2>3, <2>8 DEF Inv
<1>6. CASE seq > state.frontier + 1
  <2>1. state' = [state EXCEPT !.staged = @ \cup {seq}]
    BY <1>1, <1>3, <1>6 DEF Observe
  <2>2. state'.frontier = state.frontier /\ state'.staged = state.staged \cup {seq}
    BY <1>1, <2>1
  <2>3. TypeOK'
    BY <1>1, <1>3, <2>1 DEF TypeOK
  <2>4. GapsAreVisible'
    BY <1>1, <1>2, <1>3, <1>6, <2>2 DEF GapsAreVisible
  <2>5. QED
    BY <2>3, <2>4 DEF Inv
<1>7. QED
  BY <1>1, <1>4, <1>5, <1>6

LEMMA Invariance == Spec => []Inv
<1>1. Inv /\ [Next]_vars => Inv'
  <2> SUFFICES ASSUME Inv, [Next]_vars PROVE Inv'
    OBVIOUS
  <2>1. CASE Next
    BY <2>1, ObserveOneInv DEF Next
  <2>2. CASE UNCHANGED vars
    BY <2>2 DEF vars, Inv, TypeOK, GapsAreVisible
  <2>3. QED
    BY <2>1, <2>2
<1>2. QED
  BY InitInv, <1>1, PTL DEF Spec

(* A gap in what was received never disappears behind the frontier, for    *)
(* any number of operations: the claim "gaps are detectable exactly" of    *)
(* clock.go.                                                               *)
THEOREM GapsAreAlwaysVisible == Spec => []GapsAreVisible
<1>1. Inv => GapsAreVisible
  BY DEF Inv
<1>2. QED
  BY Invariance, <1>1, PTL

(* Types, for any MaxTimestamp.                                            *)
THEOREM TypeCorrect == Spec => []TypeOK
<1>1. Inv => TypeOK
  BY DEF Inv
<1>2. QED
  BY Invariance, <1>1, PTL

(* One observe per operation, in any order, ends where ObserveAll ends.    *)
LEMMA InvImpliesOrderIrrelevant == Inv => OrderIrrelevant
<1> SUFFICES ASSUME Inv PROVE OrderIrrelevant
  OBVIOUS
<1> USE MaxTimestampAssumption DEF Count, Number
<1>1. /\ state.frontier \in Count
      /\ state = [frontier |-> state.frontier, staged |-> state.staged]
      /\ observed \in SUBSET Number
      /\ base \in Count
  BY DEF Inv, TypeOK
<1>2. /\ state.frontier + 1 \notin observed
      /\ (base + 1) .. state.frontier \subseteq observed
      /\ state.frontier >= base
      /\ state.staged = {n \in observed : n > state.frontier}
      /\ state.frontier >= base
  BY DEF Inv, GapsAreVisible
<1>3. Advance(base, observed) = state.frontier
  BY <1>1, <1>2, AdvanceUnique
<1>4. QED
  BY <1>1, <1>2, <1>3 DEF OrderIrrelevant, ObserveAll

(* The order of observation makes no difference.                           *)
THEOREM OrderIsIrrelevant == Spec => []OrderIrrelevant
BY Invariance, InvImpliesOrderIrrelevant, PTL
=============================================================================
