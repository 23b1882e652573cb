---------------------------- MODULE FrontierClock -----------------------------
(***************************************************************************)
(* The frontierClock of clock.go for one site: sequence numbers are        *)
(* observed one at a time, in any order and more than once, by a clock     *)
(* that starts at a snapshot's watermark or at 0.                          *)
(***************************************************************************)
EXTENDS SiteClocks

VARIABLES
  base,      \* the frontier the clock was created with
  state,     \* frontier and staged
  observed   \* every number observe was called with

vars == << base, state, observed >>

Init ==
  /\ base \in Count
  /\ state = [frontier |-> base, staged |-> {}]
  /\ observed = {}

ObserveOne(seq) ==
  /\ state' = Observe(state, seq)
  /\ observed' = observed \cup {seq}
  /\ UNCHANGED base

Next == \E seq \in Number : ObserveOne(seq)

Spec == Init /\ [][Next]_vars

-----------------------------------------------------------------------------
(* Every variable holds what its Go field can hold.                        *)
TypeOK ==
  /\ base \in Count
  /\ state \in [frontier : Count, staged : SUBSET Number]
  /\ observed \subseteq Number

(* Calls of observe commute and repeat for free: the clock is always what  *)
(* observing the whole set at once gives, however the calls were ordered.  *)
OrderIrrelevant == state = ObserveAll([frontier |-> base, staged |-> {}], observed)

(* A gap stays visible until it is filled: the number after the frontier   *)
(* has not been observed, and everything up to the frontier has.           *)
GapsAreVisible ==
  /\ state.frontier >= base
  /\ state.frontier + 1 \notin observed \cup state.staged
  /\ (base + 1) .. state.frontier \subseteq observed
  /\ state.staged = {n \in observed : n > state.frontier}
=============================================================================
