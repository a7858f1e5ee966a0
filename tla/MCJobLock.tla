----------------------------- MODULE MCJobLock -----------------------------
(* JobLock during a rolling deploy: two Node instances, one of which has   *)
(* two overlapping ticks.                                                  *)
EXTENDS JobLock

CONSTANTS node1, node2, tickA, tickB, tickC

MCInstance == {node1, node2}
MCInvocation == {tickA, tickB, tickC}
MCHost == [i \in MCInvocation |-> IF i = tickC THEN node2 ELSE node1]
=============================================================================
