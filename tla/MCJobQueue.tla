---------------------------- MODULE MCJobQueue ----------------------------
(* JobQueue on small instances. *)
EXTENDS JobQueue, TLC

CONSTANTS w1, w2, a1, a2

OneJob == {1}
Own == [j \in Jobs |-> a1]            \* every job is of one application

WorkerSymmetry == Permutations(Workers)
=============================================================================
