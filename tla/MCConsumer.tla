----------------------------- MODULE MCConsumer -----------------------------
(* Constants of Consumer for TLC; the cfg files choose among them. *)
EXTENDS Consumer

CONSTANTS loop, w1, w2, k1, k2, k3

OneWorker == {w1}
TwoWorkers == {w1, w2}
ThreeConsumers == {k1, k2, k3}
=============================================================================
