------------------------------- MODULE Outbox -------------------------------
(***************************************************************************)
(* The notification outbox: alerts written durably to the table            *)
(* notification_outbox, and the drainers (process_outbox of ntfy.py) that   *)
(* push them to the operator's phone: the worker loop, the threads that     *)
(* enqueue_notification starts, the dispatch endpoint of the dashboard.     *)
(* Nothing keeps two of them from draining at once: a drainer reads a batch *)
(* of rows, sends each over HTTP with no transaction open, and records the  *)
(* outcome by the count of attempts it read.                                *)
(***************************************************************************)
EXTENDS Integers, FiniteSets

CONSTANTS
  Jobs,        \* jobs that may become ambiguous; their alert's dedup_key is the job's
  Events,      \* every other alert: no caller names a dedup_key, so each has a fresh one
  Drainers,    \* the threads that may run process_outbox at the same time
  Loop,        \* the drainer of them that is the worker loop
  MaxRetries   \* MAX_OUTBOX_RETRIES

ASSUME OutboxAssumptions ==
  /\ Jobs \cap Events = {}
  /\ IsFiniteSet(Drainers)
  /\ Loop \in Drainers
  /\ MaxRetries \in Nat \ {0}

Alerts == Jobs \cup Events

VARIABLES
  outbox,      \* notification_outbox, a row per dedup_key
  batch,       \* what each drainer still holds of the rows it read, with its answers
  received,    \* history: the push service, or the fallback script, got the alert
  ambiguous,   \* the jobs in state ambiguous_submission
  alerted,     \* history: when the job became ambiguous, this last time, an alert was
               \* raised or still to be pushed
  busy         \* the worker loop has a job in hand, which may wait at a challenge

vars == <<outbox, batch, received, ambiguous, alerted, busy>>

(* A row: its status ("none": not inserted), attempt_count, and whether     *)
(* next_retry_at has passed.                                                *)
Rows == [status: {"none", "pending", "delivered", "failed"}, attempts: Nat, due: BOOLEAN]

(* An item of a batch: the row's attempt_count when it was read, and what   *)
(* dispatch_single_notification answered.                                   *)
Items == [alert: Alerts, attempts: Nat, answer: {"unsent", "ok", "error"}]

TypeOK ==
  /\ outbox \in [Alerts -> Rows]
  /\ batch \in [Drainers -> SUBSET Items]
  /\ received \in [Alerts -> BOOLEAN]
  /\ ambiguous \in [Jobs -> BOOLEAN]
  /\ alerted \in [Jobs -> BOOLEAN]
  /\ busy \in BOOLEAN

NoRow == [status |-> "none", attempts |-> 0, due |-> TRUE]
NewRow == [NoRow EXCEPT !.status = "pending"]

Init ==
  /\ outbox = [a \in Alerts |-> NoRow]
  /\ batch = [d \in Drainers |-> {}]
  /\ received = [a \in Alerts |-> FALSE]
  /\ ambiguous = [j \in Jobs |-> FALSE]
  /\ alerted = [j \in Jobs |-> FALSE]
  /\ busy = FALSE

-----------------------------------------------------------------------------
(* Raising alerts *)

(* enqueue_notification, _enqueue_notification_on_conn: a failure that wants *)
(* the operator, disk pressure, an emergency stop. The in-app notification   *)
(* written beside it is another table.                                       *)
Enqueue(e) ==
  /\ outbox[e].status = "none"
  /\ outbox' = [outbox EXCEPT ![e] = NewRow]
  /\ UNCHANGED <<batch, received, ambiguous, alerted, busy>>

(* A job's submission is given up: its alert is raised in the transaction    *)
(* that moves the job, unless the outbox has a row of that dedup_key.        *)
MarkAmbiguous(j) ==
  LET existing == outbox[j].status # "none"
  IN /\ ~ambiguous[j]
     /\ ambiguous' = [ambiguous EXCEPT ![j] = TRUE]
     /\ outbox' = [outbox EXCEPT ![j] = IF existing THEN @ ELSE NewRow]
     /\ alerted' = [alerted EXCEPT ![j] = outbox[j].status \in {"none", "pending"}]
     /\ UNCHANGED <<batch, received, busy>>

(* The operator resolves the submission by force and the job is retried.     *)
ResolveForRetry(j) ==
  /\ ambiguous[j]
  /\ ambiguous' = [ambiguous EXCEPT ![j] = FALSE]
  /\ UNCHANGED <<outbox, batch, received, alerted, busy>>

-----------------------------------------------------------------------------
(* process_outbox *)

Due == {a \in Alerts : outbox[a].status = "pending" /\ outbox[a].due}

(* get_pending_notifications: some of the rows that are due, for LIMIT leaves *)
(* out the youngest of many.  The loop drains when it has no job in hand: it  *)
(* is stopped, paused, taken over, or finds nothing to claim.                 *)
Read(d) ==
  /\ batch[d] = {}
  /\ d = Loop => ~busy
  /\ \E found \in SUBSET Due :
       /\ found # {}
       /\ batch' = [batch EXCEPT ![d] =
            {[alert |-> a, attempts |-> outbox[a].attempts, answer |-> "unsent"] : a \in found}]
  /\ UNCHANGED <<outbox, received, ambiguous, alerted, busy>>

(* dispatch_single_notification: an alert may reach the phone although the   *)
(* answer is an error, for a response is lost or comes too late.             *)
Dispatch(d) ==
  /\ \A i \in batch[d] : i.answer = "unsent"
  /\ \E i \in batch[d], ok, arrived \in BOOLEAN :
       /\ ok => arrived
       /\ batch' = [batch EXCEPT ![d] =
            (@ \ {i}) \cup {[i EXCEPT !.answer = IF ok THEN "ok" ELSE "error"]}]
       /\ received' = [received EXCEPT ![i.alert] = @ \/ arrived]
  /\ UNCHANGED <<outbox, ambiguous, alerted, busy>>

(* mark_notification_sent and mark_notification_retry: the row is found by    *)
(* its id alone, whatever its status and count have become.                    *)
Sent(row, status) == [status |-> status, attempts |-> row.attempts + 1, due |-> TRUE]

(* Mutant: a retry makes its row pending again, whatever it was. *)
RetryReopens(row) == [row EXCEPT !.status = "pending", !.attempts = @ + 1, !.due = FALSE]

(* Mutant: a retry is not counted. *)
RetryUncounted(row) == [row EXCEPT !.due = FALSE]

(* Mutant: a status of its own for the rows that wait for a retry. *)
RetryNamesItself(row) == [row EXCEPT !.status = "retrying", !.attempts = @ + 1, !.due = FALSE]

RetryLater(row) == [row EXCEPT !.attempts = @ + 1, !.due = FALSE]

(* Mutant: what was sent counts as delivered, until it has been sent too often. *)
OutcomeIgnoresAnswer(i, row) ==
  IF i.attempts + 1 >= MaxRetries THEN Sent(row, "failed") ELSE Sent(row, "delivered")

(* Mutant: an alert is given up at its first error. *)
OutcomeGivesUpAtOnce(i, row) == Sent(row, IF i.answer = "ok" THEN "delivered" ELSE "failed")

(* Mutant: the attempt that just failed is not counted in the decision. *)
OutcomeRetriesOnceMore(i, row) ==
  IF i.answer = "ok" THEN Sent(row, "delivered")
  ELSE IF i.attempts >= MaxRetries THEN Sent(row, "failed")
  ELSE RetryLater(row)

(* Mutant: a retry writes the count it read and one more, not the row's. *)
OutcomeOverwritesCount(i, row) ==
  IF i.answer = "ok" THEN Sent(row, "delivered")
  ELSE IF i.attempts + 1 >= MaxRetries THEN Sent(row, "failed")
  ELSE [row EXCEPT !.attempts = i.attempts + 1, !.due = FALSE]

Outcome(i, row) ==
  IF i.answer = "ok" THEN Sent(row, "delivered")
  ELSE IF i.attempts + 1 >= MaxRetries THEN Sent(row, "failed")
  ELSE RetryLater(row)

Mark(d) ==
  /\ \E i \in batch[d] :
       /\ i.answer # "unsent"
       /\ outbox' = [outbox EXCEPT ![i.alert] = Outcome(i, @)]
       /\ batch' = [batch EXCEPT ![d] = @ \ {i}]
  /\ UNCHANGED <<received, ambiguous, alerted, busy>>

(* The drainer's process is killed, or a write raises and the rest of the     *)
(* batch is abandoned.                                                        *)
Abandon(d) ==
  /\ batch[d] # {}
  /\ batch' = [batch EXCEPT ![d] = {}]
  /\ UNCHANGED <<outbox, received, ambiguous, alerted, busy>>

(* run_worker_loop goes on to a job when it has drained, and comes back from *)
(* it, unless the job waits for an operator for ever (process_claimed_job).  *)
TakeJob ==
  /\ ~busy
  /\ batch[Loop] = {}
  /\ busy' = TRUE
  /\ UNCHANGED <<outbox, batch, received, ambiguous, alerted>>

RunOutOfJobs ==
  /\ busy
  /\ busy' = FALSE
  /\ UNCHANGED <<outbox, batch, received, ambiguous, alerted>>

(* next_retry_at passes. *)
RetryDue(a) ==
  /\ ~outbox[a].due
  /\ outbox' = [outbox EXCEPT ![a].due = TRUE]
  /\ UNCHANGED <<batch, received, ambiguous, alerted, busy>>

-----------------------------------------------------------------------------
Drain(d) == Read(d) \/ Dispatch(d) \/ Mark(d) \/ Abandon(d)

Next ==
  \/ \E e \in Events : Enqueue(e)
  \/ \E j \in Jobs : MarkAmbiguous(j) \/ ResolveForRetry(j)
  \/ \E d \in Drainers : Drain(d)
  \/ \E a \in Alerts : RetryDue(a)
  \/ TakeJob \/ RunOutOfJobs

Spec == Init /\ [][Next]_vars

(* The worker loop drains each time it has no job in hand, sends with a      *)
(* timeout, and is restarted when it dies: it may die in any batch, but not   *)
(* in every one before it has sent an alert or recorded an outcome.  Nothing  *)
(* is fair about RunOutOfJobs: at a challenge that is the operator's to say.  *)
FairSpec ==
  /\ Spec
  /\ SF_vars(Read(Loop))
  /\ SF_vars(Dispatch(Loop))
  /\ SF_vars(Mark(Loop))
  /\ \A a \in Alerts : WF_vars(RetryDue(a))

-----------------------------------------------------------------------------
(* An alert the outbox calls delivered did reach the phone, however its        *)
(* drainers crossed and whichever answers were lost.                           *)
DeliveredWasReceived ==
  \A a \in Alerts : outbox[a].status = "delivered" => received[a]

(* No alert is given up before MAX_OUTBOX_RETRIES outcomes were recorded,       *)
(* although a drainer decides on the count it read before it sent.              *)
GivesUpOnlyAfterRetries ==
  \A a \in Alerts : outbox[a].status = "failed" => outbox[a].attempts >= MaxRetries

(* Drainers that cross make more than MAX_OUTBOX_RETRIES attempts, since each   *)
(* decides on a stale count; but each goes over by two at most: one retry it    *)
(* was owed when it read, one last attempt.                                     *)
OverrunIsBounded ==
  \A a \in Alerts : outbox[a].attempts <= MaxRetries + 2 * (Cardinality(Drainers) - 1)

(* A late answer, or a raised alert, never makes a settled alert pending: it    *)
(* would be pushed again.                                                       *)
Settled(a) == outbox[a].status \in {"delivered", "failed"}
SettledStaysSettled == [][\A a \in Alerts : Settled(a) => Settled(a)']_vars

(* If no challenge keeps the worker loop for ever (process_outbox runs there    *)
(* between jobs only), every alert raised is in the end delivered, or given up  *)
(* and visible as such, although drainers die and push attempts fail.           *)
LoopComesBack == []<>~busy
AlertsSettle ==
  LoopComesBack => \A a \in Alerts : outbox[a].status = "pending" ~> Settled(a)

Promise == INSTANCE Delivery
             WITH fate <- [a \in Alerts |-> outbox[a].status],
                  tries <- [a \in Alerts |-> outbox[a].attempts],
                  reached <- received, Senders <- Cardinality(Drainers)

(* The rows and the drainers that cross over them (process_outbox) keep        *)
(* Delivery's promise for every alert: each outcome is one more attempt, and    *)
(* a row that still waits has had no more of them than the drainers that may     *)
(* cross account for.                                                          *)
ImplementsDelivery == Promise!Spec

(* What reconcile_stranded_jobs ("emits critical notifications") and the        *)
(* documentation's fanout say: an ambiguous submission alerts the operator. The  *)
(* second ambiguity of a job whose first alert was delivered alerts nobody.      *)
AmbiguityIsAlerted == \A j \in Jobs : ambiguous[j] => alerted[j]
=============================================================================
