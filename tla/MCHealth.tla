------------------------------ MODULE MCHealth ------------------------------
(* Constants of HealthChecker for TLC; the cfg files choose among them. *)
EXTENDS HealthChecker, TLC

CONSTANTS c1, c2, t1, t2

OneService == {c1}
NoServices == {}
TwoServices == {c1, c2}
TwoThreads == {t1, t2}
NoNamesFolded == [n \in {} |-> n]

ThreadSymmetry == Permutations(TwoThreads)
=============================================================================
