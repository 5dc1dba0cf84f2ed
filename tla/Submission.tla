---------------------------- MODULE Submission ----------------------------
(***************************************************************************)
(* What the queue promises about the one thing it must not do twice: the   *)
(* physical submission of an application.  Each job is                      *)
(*    open     not submitted, the automation may still work on it or not    *)
(*    armed    the intent to submit is durable, submit was not clicked      *)
(*    sent     submit was clicked and the outcome is not settled            *)
(*    unknown  nobody knows whether it was submitted: only the operator     *)
(*             may reopen it                                                *)
(*    settled  it was submitted and the outcome is recorded                 *)
(* A click happens only when armed, and an armed job that is not settled    *)
(* becomes unknown: between two clicks of a job lies a Reopen.              *)
(***************************************************************************)
CONSTANT Jobs

VARIABLE phase

Phases == {"open", "armed", "sent", "unknown", "settled"}

Init == phase = [j \in Jobs |-> "open"]

Move(S, from, to) ==
    /\ \A j \in S : phase[j] \in from
    /\ phase' = [j \in Jobs |-> IF j \in S THEN to ELSE phase[j]]

Arm(j) == Move({j}, {"open"}, "armed")

Send(j) == Move({j}, {"armed"}, "sent")

Settle(j) == Move({j}, {"sent"}, "settled")

(* The operator confirmed it while its worker was still waiting for evidence. *)
Reconfirm(j) == Move({j}, {"settled"}, "sent")

(* The operator submitted an armed job by hand, and the automation did not. *)
Withdraw(j) == Move({j}, {"armed"}, "open")

(* A crash, a stop or a doubt: it can hit several jobs at once. *)
Lose(S) == Move(S, {"armed", "sent"}, "unknown")

Reopen(j) == Move({j}, {"unknown"}, "open")

Next ==
    \/ \E j \in Jobs : \/ Arm(j) \/ Send(j) \/ Settle(j)
                       \/ Reconfirm(j) \/ Withdraw(j) \/ Reopen(j)
    \/ \E S \in SUBSET Jobs : Lose(S)

Spec == Init /\ [][Next]_phase

(* No submission stays in the air for ever. *)
Resolved == \A j \in Jobs : phase[j] \in {"armed", "sent"}
                              ~> phase[j] \notin {"armed", "sent"}
=============================================================================
