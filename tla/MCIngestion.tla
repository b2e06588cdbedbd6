----------------------------- MODULE MCIngestion -----------------------------
(* MemoryIngestion for TLC: two nodes, one of them maybe updated, a memory   *)
(* log, and two edges between what the earlier phases create.                *)
EXTENDS MemoryIngestion

CONSTANTS n1, n2, u1, m1, e1, e2

MCPhase == [a \in Actions |-> CASE a \in {n1, n2, u1} -> 1 [] a = m1 -> 2 [] OTHER -> 3]
MCId    == [a \in Actions |-> a]
MCEnds  == [a \in Actions |-> CASE a = e1 -> {n1, n2} [] a = e2 -> {n1, m1} [] OTHER -> {}]

=============================================================================
