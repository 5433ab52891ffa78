---------------------------- MODULE MCImplement ----------------------------
(* Implement on a small instance: two interchangeable workers.             *)
EXTENDS Implement, TLC

CONSTANTS w1, w2

WorkerSymmetry == Permutations(Workers)
=============================================================================
