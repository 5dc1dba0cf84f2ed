------------------------------ MODULE Delivery ------------------------------
(***************************************************************************)
(* What the notification outbox promises of an alert, whoever sends it and  *)
(* however many send it at once: it is called delivered only after it       *)
(* reached the operator, given up only after enough attempts, never raised  *)
(* again once it is settled, and never kept waiting by failures for more    *)
(* attempts than the senders that may cross account for.                    *)
(***************************************************************************)
EXTENDS Integers

CONSTANTS
  Alerts,
  MaxRetries,   \* attempts after which an alert is given up
  Senders       \* how many may attempt the same alert at once

VARIABLES
  fate,         \* "none", "pending", "delivered" or "failed"
  tries,        \* the attempts recorded
  reached       \* the alert has reached the operator

vars == <<fate, tries, reached>>

Init ==
  /\ fate = [a \in Alerts |-> "none"]
  /\ tries = [a \in Alerts |-> 0]
  /\ reached = [a \in Alerts |-> FALSE]

Raise(a) ==
  /\ fate[a] = "none"
  /\ fate' = [fate EXCEPT ![a] = "pending"]
  /\ UNCHANGED <<tries, reached>>

(* A push arrives; nothing need be known of it yet, nor ever. *)
Reach(a) ==
  /\ fate[a] # "none"
  /\ reached' = [reached EXCEPT ![a] = TRUE]
  /\ UNCHANGED <<fate, tries>>

(* One more attempt is recorded.  Every sender but one may owe a retry when   *)
(* the last attempt is made, and all of them may be making their last.        *)
Attempt(a, outcome) ==
  /\ fate[a] # "none"
  /\ outcome = "pending" => fate[a] = "pending" /\ tries[a] < MaxRetries + Senders - 2
  /\ outcome = "delivered" => reached[a]
  /\ outcome = "failed" => tries[a] + 1 >= MaxRetries
  /\ tries[a] < MaxRetries + 2 * (Senders - 1)
  /\ fate' = [fate EXCEPT ![a] = outcome]
  /\ tries' = [tries EXCEPT ![a] = @ + 1]
  /\ UNCHANGED reached

Next == \E a \in Alerts :
  \/ Raise(a)
  \/ Reach(a)
  \/ \E outcome \in {"pending", "delivered", "failed"} : Attempt(a, outcome)

Spec == Init /\ [][Next]_vars
=============================================================================
