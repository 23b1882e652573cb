------------------------------ MODULE SiteClocks ------------------------------
(***************************************************************************)
(* The clocks of clock.go: stamps that order operations totally, vector    *)
(* clocks that count the contiguous operations known of every site, and    *)
(* the frontier clock that stages what arrives beyond a delivery gap.      *)
(*                                                                         *)
(* Site IDs are naturals, so that "<" stands for the string order the code *)
(* breaks ties with.  A vector clock is total: an absent map entry is 0.   *)
(***************************************************************************)
EXTENDS Integers, FiniteSetsExt

CONSTANTS
  Site,           \* the site IDs
  MaxTimestamp    \* exclusive bound of timestamps and sequence numbers

ASSUME SiteAssumption == Site \subseteq Nat

ASSUME MaxTimestampAssumption == MaxTimestamp \in Nat \ {0}

Count == 0 .. (MaxTimestamp - 1)        \* 0: "no operation yet"

Number == 1 .. (MaxTimestamp - 1)       \* what an operation is numbered with

VectorClock == [Site -> Count]

NoKnowledge == [s \in Site |-> 0]

-----------------------------------------------------------------------------
(***************************************************************************)
(* Stamps.  Anything with the fields ts, site and seq can be compared.     *)
(***************************************************************************)
NoStamp == [ts |-> 0, site |-> 0, seq |-> 0]    \* stamps base state

RefOf(op) == << op.site, op.seq >>

StampOf(op) == [ts |-> op.ts, site |-> op.site, seq |-> op.seq]

Less(a, b) ==
  \/ a.ts < b.ts
  \/ a.ts = b.ts /\ a.site < b.site
  \/ a.ts = b.ts /\ a.site = b.site /\ a.seq < b.seq

Newer(a, b) == Less(b, a)

Newest(ops) == CHOOSE op \in ops : \A other \in ops : ~ Newer(other, op)

-----------------------------------------------------------------------------
(***************************************************************************)
(* Vector clocks.                                                          *)
(***************************************************************************)
MergeClocks(a, b) == [s \in Site |-> Max({a[s], b[s]})]

CoveredBy(a, b) == \A s \in Site : a[s] <= b[s]

-----------------------------------------------------------------------------
(***************************************************************************)
(* The frontier of one site.                                               *)
(***************************************************************************)
(* Where the loop of observe stops when it starts at n and consumes the    *)
(* successors it finds in S.                                               *)
Advance(n, S) ==
  CHOOSE m \in n .. MaxTimestamp : (n+1) .. m \subseteq S /\ m + 1 \notin S

Observe(f, seq) ==
  IF seq <= f.frontier
    THEN f
    ELSE IF seq = f.frontier + 1
           THEN LET m == Advance(seq, f.staged)
                IN  [frontier |-> m, staged |-> f.staged \ (seq .. m)]
           ELSE [f EXCEPT !.staged = @ \cup {seq}]

\* Mutant of ObserveAll: a high-water mark, blind to gaps.
ObserveAllHighWater(f, seqs) ==
  [frontier |-> Max({f.frontier} \cup seqs), staged |-> {}]

(***************************************************************************)
(* observe called once for every number of a batch, in any order: the      *)
(* module FrontierClock shows that the order makes no difference.          *)
(***************************************************************************)
ObserveAll(f, seqs) ==
  LET known == f.staged \cup seqs
      m     == Advance(f.frontier, known)
  IN  [frontier |-> m, staged |-> {n \in known : n > m}]
=============================================================================
