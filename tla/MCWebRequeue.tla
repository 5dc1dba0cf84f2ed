--------------------------- MODULE MCWebRequeue ---------------------------
(* WebRequeue on one job. *)
EXTENDS WebRequeue

CONSTANTS w1, a1

OneJob == {1}
Own == [j \in Jobs |-> a1]
=============================================================================
