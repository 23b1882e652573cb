----------------------------- MODULE OpExchange ------------------------------
(***************************************************************************)
(* What synchronisation promises, without vector clocks, frontiers, logs   *)
(* or compaction: replicas hold sets of operations and unite them.  A pull *)
(* brings everything its peer holds, a message what its sender put into    *)
(* it, a restart what some process saved, and no operation ever takes the  *)
(* identity of another one.                                                *)
(***************************************************************************)
EXTENDS Integers

CONSTANTS
  Replica,  \* the processes that hold a Document
  Op        \* what they exchange: records with a site, a seq and a ts

VARIABLES
  known,    \* the operations each replica has folded into its features
  saved,    \* the sets of operations each process can restart with
  sent      \* the sets of operations under way

vars == << known, saved, sent >>

Anywhere ==
  UNION ( {known[r] : r \in Replica} \cup (UNION {saved[r] : r \in Replica}) \cup sent )

Init ==
  /\ known = [r \in Replica |-> {}]
  /\ saved = [r \in Replica |-> {}]
  /\ sent = {}

(* A local command: later than all its author knows, numbered beyond all   *)
(* that exists of its site.                                                *)
Issue(r, op) ==
  /\ \A other \in known[r] : other.ts < op.ts
  /\ \A other \in Anywhere : other.site = op.site => other.seq < op.seq
  /\ known' = [known EXCEPT ![r] = @ \cup {op}]
  /\ UNCHANGED << saved, sent >>

Join(r, q) ==
  /\ known' = [known EXCEPT ![r] = @ \cup known[q]]
  /\ UNCHANGED << saved, sent >>

Put(q) ==
  /\ \E ops \in SUBSET known[q] : sent' = sent \cup {ops}
  /\ UNCHANGED << known, saved >>

Deliver(r, ops) ==
  /\ known' = [known EXCEPT ![r] = @ \cup ops]
  /\ UNCHANGED << saved, sent >>

Drop ==
  /\ sent' \in SUBSET sent
  /\ UNCHANGED << known, saved >>

Save(r) ==
  /\ saved' = [saved EXCEPT ![r] = {known[r]}]
  /\ UNCHANGED << known, sent >>

Restart(r, ops) ==
  /\ known' = [known EXCEPT ![r] = ops]
  /\ sent' \in SUBSET sent
  /\ UNCHANGED saved

Next ==
  \/ \E r \in Replica, op \in Op : Issue(r, op)
  \/ \E r \in Replica, q \in Replica : Join(r, q)
  \/ \E q \in Replica : Put(q)
  \/ \E r \in Replica, ops \in sent : Deliver(r, ops)
  \/ Drop
  \/ \E r \in Replica : Save(r)
  \/ \E r \in Replica, q \in Replica : \E ops \in saved[q] : Restart(r, ops)

Spec == Init /\ [][Next]_vars
=============================================================================
