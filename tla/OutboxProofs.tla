---------------------------- MODULE OutboxProofs ----------------------------
(***************************************************************************)
(* Proofs about Outbox for any alerts, any finite set of drainers and any   *)
(* number of retries.  Crossed says what a drainer may believe of a row it  *)
(* read; Paid counts the attempts that may still come; and the rows, with    *)
(* what is paid for, implement Delivery.                                    *)
(***************************************************************************)
EXTENDS Outbox, FiniteSetTheorems, TLAPS

(* What a drainer holds is an old reading of a row that exists, one of each  *)
(* row, and an answer "ok" means that the alert arrived.                     *)
Crossed ==
  \A d \in Drainers :
    /\ \A i \in batch[d] :
         /\ outbox[i.alert].status # "none"
         /\ i.attempts <= outbox[i.alert].attempts
         /\ i.answer = "ok" => received[i.alert]
    /\ \A i, k \in batch[d] : i.alert = k.alert => i = k

RowsAreHonest == DeliveredWasReceived /\ GivesUpOnlyAfterRetries

Inv == TypeOK /\ Crossed /\ RowsAreHonest

-----------------------------------------------------------------------------
(* What the outcome of an attempt makes of a row.                            *)
LEMMA OutcomeFacts ==
  ASSUME NEW i \in Items, NEW row \in Rows, row.status # "none", i.attempts <= row.attempts
  PROVE  /\ Outcome(i, row) \in Rows
         /\ Outcome(i, row).attempts = row.attempts + 1
         /\ Outcome(i, row).status # "none"
         /\ row.status \in {"delivered", "failed"}
              => Outcome(i, row).status \in {"delivered", "failed"}
         /\ Outcome(i, row).status = "delivered" => row.status = "delivered" \/ i.answer = "ok"
         /\ Outcome(i, row).status = "failed"
              => row.status = "failed" \/ row.attempts + 1 >= MaxRetries
         /\ Outcome(i, row).status = "pending"
              => row.status = "pending" /\ i.attempts + 1 < MaxRetries
<1>1. i.attempts \in Nat /\ row.attempts \in Nat /\ row.due \in BOOLEAN /\ MaxRetries \in Nat
      /\ row.status \in {"pending", "delivered", "failed"}
  BY OutboxAssumptions DEF Items, Rows
<1>2. \A s \in {"delivered", "failed"} :
        /\ Sent(row, s) \in Rows
        /\ Sent(row, s).attempts = row.attempts + 1 /\ Sent(row, s).status = s
  BY <1>1 DEF Sent, Rows
<1>3. /\ RetryLater(row) \in Rows
      /\ RetryLater(row).attempts = row.attempts + 1 /\ RetryLater(row).status = row.status
  <2> DEFINE n == row.attempts + 1
  <2>1. n \in Nat /\ RetryLater(row) = [row EXCEPT !.attempts = n, !.due = FALSE]
    BY <1>1 DEF RetryLater
  <2> HIDE DEF n
  <2> QED BY <2>1 DEF Rows, n
<1>4. CASE i.answer = "ok"
  BY <1>1, <1>2, <1>4 DEF Outcome
<1>5. CASE i.answer # "ok" /\ i.attempts + 1 >= MaxRetries
  BY <1>1, <1>2, <1>5 DEF Outcome
<1>6. CASE i.answer # "ok" /\ ~ (i.attempts + 1 >= MaxRetries)
  BY <1>1, <1>3, <1>6 DEF Outcome
<1> QED BY <1>4, <1>5, <1>6

(* A row that is inserted, or becomes due, keeps what the invariant needs.   *)
LEMMA RowFacts ==
  /\ NewRow \in Rows /\ NewRow.status = "pending" /\ NewRow.attempts = 0
  /\ NoRow \in Rows /\ NoRow.status = "none" /\ NoRow.attempts = 0
  /\ \A row \in Rows :
       /\ row.attempts \in Nat
       /\ [row EXCEPT !.due = TRUE] \in Rows
       /\ [row EXCEPT !.due = TRUE].status = row.status
       /\ [row EXCEPT !.due = TRUE].attempts = row.attempts
BY DEF NewRow, NoRow, Rows

(* The initial state has the invariant.                                      *)
LEMMA InitInv == Init => Inv
<1> SUFFICES ASSUME Init PROVE Inv
  OBVIOUS
<1>1. TypeOK
  <2>1. busy \in BOOLEAN
    BY DEF Init
  <2>2. /\ outbox \in [Alerts -> Rows] /\ batch \in [Drainers -> SUBSET Items]
        /\ received \in [Alerts -> BOOLEAN] /\ ambiguous \in [Jobs -> BOOLEAN]
        /\ alerted \in [Jobs -> BOOLEAN]
    BY DEF Init, NoRow, Rows
  <2> QED BY <2>1, <2>2 DEF TypeOK
<1>2. Crossed /\ RowsAreHonest
  BY DEF Init, Crossed, RowsAreHonest, DeliveredWasReceived, GivesUpOnlyAfterRetries, NoRow
<1> QED BY <1>1, <1>2 DEF Inv

(* A change of rows keeps the invariant if no row disappears, counts down or  *)
(* is settled dishonestly.                                                   *)
LEMMA NewRowsKeepInv ==
  ASSUME Inv, outbox' \in [Alerts -> Rows], UNCHANGED <<batch, received>>,
         ambiguous' \in [Jobs -> BOOLEAN], alerted' \in [Jobs -> BOOLEAN], busy' \in BOOLEAN,
         \A a \in Alerts :
           /\ outbox[a].status # "none"
                => outbox'[a].status # "none" /\ outbox'[a].attempts >= outbox[a].attempts
           /\ outbox'[a].status \in {"delivered", "failed"}
                => outbox'[a].status = outbox[a].status
  PROVE  Inv'
<1>1. TypeOK'
  BY DEF Inv, TypeOK
<1>2. Crossed'
  <2> SUFFICES ASSUME NEW d \in Drainers, NEW i \in batch[d]
               PROVE  outbox'[i.alert].status # "none" /\ i.attempts <= outbox'[i.alert].attempts
    BY DEF Inv, Crossed
  <2>1. /\ i \in Items /\ outbox[i.alert].status # "none" /\ i.alert \in Alerts
        /\ i.attempts <= outbox[i.alert].attempts
    BY DEF Inv, TypeOK, Crossed, Items
  <2>2. i.attempts \in Nat /\ outbox[i.alert].attempts \in Nat /\ outbox'[i.alert].attempts \in Nat
    BY <2>1 DEF Inv, TypeOK, Items, Rows
  <2> QED BY <2>1, <2>2
<1>3. RowsAreHonest'
  <2> SUFFICES ASSUME NEW a \in Alerts
               PROVE  /\ outbox'[a].status = "delivered" => received[a]
                      /\ outbox'[a].status = "failed" => outbox'[a].attempts >= MaxRetries
    BY DEF RowsAreHonest, DeliveredWasReceived, GivesUpOnlyAfterRetries
  <2>1. outbox[a].attempts \in Nat /\ outbox'[a].attempts \in Nat
    BY DEF Inv, TypeOK, Rows
  <2> QED BY <2>1, OutboxAssumptions
        DEF Inv, RowsAreHonest, DeliveredWasReceived, GivesUpOnlyAfterRetries
<1> QED BY <1>1, <1>2, <1>3 DEF Inv

(* Raising and resolving, and the passing of a retry time.                   *)
LEMMA RowStepsKeepInv ==
  ASSUME Inv, \/ \E e \in Events : Enqueue(e)
              \/ \E j \in Jobs : MarkAmbiguous(j) \/ ResolveForRetry(j)
              \/ \E a \in Alerts : RetryDue(a)
  PROVE  Inv'
<1>0. /\ \A a \in Alerts : outbox[a] \in Rows /\ outbox[a].attempts \in Nat
      /\ Events \subseteq Alerts /\ Jobs \subseteq Alerts
  BY RowFacts DEF Inv, TypeOK, Alerts
<1>1. ASSUME NEW e \in Events, Enqueue(e) PROVE Inv'
  <2>1. outbox' \in [Alerts -> Rows] /\ outbox'[e] = NewRow
        /\ \A a \in Alerts : a # e => outbox'[a] = outbox[a]
    BY <1>0, <1>1, RowFacts DEF Enqueue, Inv, TypeOK
  <2>2. outbox[e].status = "none" /\ UNCHANGED <<batch, received, ambiguous, alerted, busy>>
    BY <1>1 DEF Enqueue
  <2> QED BY <1>0, <2>1, <2>2, RowFacts, NewRowsKeepInv DEF Inv, TypeOK
<1>2. ASSUME NEW j \in Jobs, MarkAmbiguous(j) PROVE Inv'
  <2>1. \A a \in Alerts : (outbox'[a] = outbox[a]
                            \/ (outbox'[a] = NewRow /\ outbox[a].status = "none"))
    <3>1. outbox \in [Alerts -> Rows] /\ j \in Alerts
      BY <1>0 DEF Inv, TypeOK
    <3>2. outbox[j].status = "none" => outbox' = [outbox EXCEPT ![j] = NewRow]
      BY <1>2 DEF MarkAmbiguous
    <3>3. outbox[j].status # "none" => outbox' = [outbox EXCEPT ![j] = outbox[j]]
      BY <1>2 DEF MarkAmbiguous
    <3> QED BY <3>1, <3>2, <3>3
  <2>2. /\ outbox' \in [Alerts -> Rows] /\ ambiguous' \in [Jobs -> BOOLEAN]
        /\ alerted' \in [Jobs -> BOOLEAN] /\ busy' \in BOOLEAN /\ UNCHANGED <<batch, received>>
    BY <1>0, <1>2, RowFacts DEF MarkAmbiguous, Inv, TypeOK
  <2> QED BY <1>0, <2>1, <2>2, RowFacts, NewRowsKeepInv
<1>3. ASSUME NEW j \in Jobs, ResolveForRetry(j) PROVE Inv'
  BY <1>0, <1>3, NewRowsKeepInv DEF ResolveForRetry, Inv, TypeOK
<1>4. ASSUME NEW a \in Alerts, RetryDue(a) PROVE Inv'
  <2>1. outbox' = [outbox EXCEPT ![a] = [outbox[a] EXCEPT !.due = TRUE]]
        /\ UNCHANGED <<batch, received, ambiguous, alerted, busy>>
    BY <1>4 DEF RetryDue
  <2> QED BY <1>0, <2>1, RowFacts, NewRowsKeepInv DEF Inv, TypeOK
<1> QED BY <1>1, <1>2, <1>3, <1>4

(* A drainer reads rows that are due.                                        *)
LEMMA ReadKeepsInv ==
  ASSUME Inv, NEW d \in Drainers, Read(d)
  PROVE  Inv'
<1> DEFINE Item(a) == [alert |-> a, attempts |-> outbox[a].attempts, answer |-> "unsent"]
<1>1. PICK found \in SUBSET Due : batch' = [batch EXCEPT ![d] = {Item(a) : a \in found}]
  BY DEF Read
<1>2. \A a \in found : Item(a) \in Items /\ a \in Alerts /\ outbox[a].status = "pending"
  BY DEF Due, Items, Inv, TypeOK, Rows
<1>3. TypeOK'
  BY <1>1, <1>2 DEF Read, Inv, TypeOK
<1>4. Crossed'
  BY <1>1, <1>2 DEF Read, Inv, TypeOK, Crossed, Rows
<1>5. RowsAreHonest'
  BY DEF Read, Inv, RowsAreHonest, DeliveredWasReceived, GivesUpOnlyAfterRetries
<1> QED BY <1>3, <1>4, <1>5 DEF Inv

(* A drainer sends an alert.                                                 *)
LEMMA DispatchKeepsInv ==
  ASSUME Inv, NEW d \in Drainers, Dispatch(d)
  PROVE  Inv'
<1>1. PICK i \in batch[d], ok \in BOOLEAN, arrived \in BOOLEAN :
        /\ ok => arrived
        /\ batch' = [batch EXCEPT ![d] =
             (@ \ {i}) \cup {[i EXCEPT !.answer = IF ok THEN "ok" ELSE "error"]}]
        /\ received' = [received EXCEPT ![i.alert] = @ \/ arrived]
        /\ UNCHANGED <<outbox, ambiguous, alerted, busy>>
  BY DEF Dispatch
<1> DEFINE k == [i EXCEPT !.answer = IF ok THEN "ok" ELSE "error"]
<1>2. i \in Items /\ k \in Items /\ k.alert = i.alert /\ k.attempts = i.attempts
      /\ (k.answer = "ok" => arrived) /\ i.alert \in Alerts
  BY <1>1 DEF Inv, TypeOK, Items
<1>3. batch' = [batch EXCEPT ![d] = (@ \ {i}) \cup {k}]
  BY <1>1
<1> HIDE DEF k
<1>4. \A a \in Alerts : received[a] => received'[a]
  BY <1>1 DEF Inv, TypeOK
<1>5. arrived => received'[i.alert]
  BY <1>1, <1>2 DEF Inv, TypeOK
<1>6. TypeOK'
  <2>1. received' \in [Alerts -> BOOLEAN]
    BY <1>1, <1>2 DEF Inv, TypeOK
  <2>2. batch' \in [Drainers -> SUBSET Items]
    BY <1>2, <1>3 DEF Inv, TypeOK
  <2> QED BY <1>1, <2>1, <2>2 DEF Inv, TypeOK
<1>7. Crossed'
  <2> SUFFICES ASSUME NEW c \in Drainers
               PROVE  /\ \A x \in batch'[c] :
                           /\ outbox[x.alert].status # "none"
                           /\ x.attempts <= outbox[x.alert].attempts
                           /\ x.answer = "ok" => received'[x.alert]
                      /\ \A x, y \in batch'[c] : x.alert = y.alert => x = y
    BY <1>1 DEF Crossed
  <2>1. \A x \in batch[c] : x.alert \in Alerts
    BY DEF Inv, TypeOK, Items
  <2>2. CASE c # d
    BY <2>1, <2>2, <1>3, <1>4 DEF Inv, TypeOK, Crossed
  <2>3. CASE c = d
    <3>1. batch'[c] = (batch[c] \ {i}) \cup {k}
      BY <2>3, <1>3 DEF Inv, TypeOK
    <3> QED BY <2>1, <2>3, <3>1, <1>1, <1>2, <1>4, <1>5 DEF Inv, Crossed
  <2> QED BY <2>2, <2>3
<1>8. RowsAreHonest'
  BY <1>1, <1>4 DEF Inv, RowsAreHonest, DeliveredWasReceived, GivesUpOnlyAfterRetries
<1> QED BY <1>6, <1>7, <1>8 DEF Inv

(* A drainer records an outcome.                                             *)
LEMMA MarkKeepsInv ==
  ASSUME Inv, NEW d \in Drainers, Mark(d)
  PROVE  Inv'
<1>1. PICK i \in batch[d] :
        /\ outbox' = [outbox EXCEPT ![i.alert] = Outcome(i, @)]
        /\ batch' = [batch EXCEPT ![d] = @ \ {i}]
        /\ UNCHANGED <<received, ambiguous, alerted, busy>>
  BY DEF Mark
<1> DEFINE row == outbox[i.alert]
<1>2. /\ i \in Items /\ i.alert \in Alerts /\ row \in Rows
      /\ row.status # "none" /\ i.attempts <= row.attempts
      /\ i.answer = "ok" => received[i.alert]
  BY DEF Inv, TypeOK, Items, Crossed
<1>3. /\ Outcome(i, row) \in Rows
      /\ Outcome(i, row).attempts = row.attempts + 1
      /\ Outcome(i, row).status # "none"
      /\ Outcome(i, row).status = "delivered" => row.status = "delivered" \/ i.answer = "ok"
      /\ Outcome(i, row).status = "failed"
           => row.status = "failed" \/ row.attempts + 1 >= MaxRetries
  BY <1>2, OutcomeFacts
<1>4. outbox' = [outbox EXCEPT ![i.alert] = Outcome(i, row)]
  BY <1>1
<1>5. TypeOK'
  BY <1>1, <1>2, <1>3, <1>4 DEF Inv, TypeOK
<1>6. \A a \in Alerts : /\ outbox[a].attempts \in Nat /\ outbox'[a].attempts \in Nat
                        /\ outbox'[a].attempts >= outbox[a].attempts
                        /\ outbox[a].status # "none" => outbox'[a].status # "none"
  BY <1>2, <1>3, <1>4, <1>5 DEF Inv, TypeOK, Rows
<1>7. Crossed'
  <2>1. \A c \in Drainers : batch'[c] \subseteq batch[c]
    BY <1>1 DEF Inv, TypeOK
  <2>2. \A c \in Drainers : \A x \in batch[c] : x.alert \in Alerts /\ x.attempts \in Nat
    BY DEF Inv, TypeOK, Items
  <2> QED BY <1>1, <1>6, <2>1, <2>2 DEF Inv, Crossed
<1>8. RowsAreHonest'
  <2> SUFFICES ASSUME NEW a \in Alerts
               PROVE  /\ outbox'[a].status = "delivered" => received[a]
                      /\ outbox'[a].status = "failed" => outbox'[a].attempts >= MaxRetries
    BY <1>1 DEF RowsAreHonest, DeliveredWasReceived, GivesUpOnlyAfterRetries
  <2>1. CASE a = i.alert
    <3>1. outbox'[a] = Outcome(i, row)
      BY <2>1, <1>4 DEF Inv, TypeOK
    <3> QED BY <2>1, <3>1, <1>2, <1>3, <1>6, OutboxAssumptions
         DEF Inv, RowsAreHonest, DeliveredWasReceived, GivesUpOnlyAfterRetries
  <2>2. CASE a # i.alert
    BY <2>2, <1>4 DEF Inv, TypeOK, RowsAreHonest, DeliveredWasReceived, GivesUpOnlyAfterRetries
  <2> QED BY <2>1, <2>2
<1> QED BY <1>5, <1>7, <1>8 DEF Inv

(* Every step keeps the invariant.                                           *)
LEMMA StepKeepsInv == Inv /\ [Next]_vars => Inv'
<1> SUFFICES ASSUME Inv, [Next]_vars PROVE Inv'
  OBVIOUS
<1>1. CASE \/ \E e \in Events : Enqueue(e)
           \/ \E j \in Jobs : MarkAmbiguous(j) \/ ResolveForRetry(j)
           \/ \E a \in Alerts : RetryDue(a)
  BY <1>1, RowStepsKeepInv
<1>2. ASSUME NEW d \in Drainers, Read(d) PROVE Inv'
  BY <1>2, ReadKeepsInv
<1>3. ASSUME NEW d \in Drainers, Dispatch(d) PROVE Inv'
  BY <1>3, DispatchKeepsInv
<1>4. ASSUME NEW d \in Drainers, Mark(d) PROVE Inv'
  BY <1>4, MarkKeepsInv
<1>5. ASSUME NEW d \in Drainers, Abandon(d) PROVE Inv'
  BY <1>5 DEF Abandon, Inv, TypeOK, Crossed, RowsAreHonest, DeliveredWasReceived,
              GivesUpOnlyAfterRetries
<1>6. CASE TakeJob \/ RunOutOfJobs \/ UNCHANGED vars
  <2>1. busy' \in BOOLEAN
    BY <1>6, Zenon DEF TakeJob, RunOutOfJobs, vars, Inv, TypeOK
  <2>2. UNCHANGED <<outbox, batch, received, ambiguous, alerted>>
    BY <1>6, Zenon DEF TakeJob, RunOutOfJobs, vars
  <2> QED BY <2>1, <2>2 DEF Inv, TypeOK, Crossed, RowsAreHonest, DeliveredWasReceived,
             GivesUpOnlyAfterRetries
<1> QED BY <1>1, <1>2, <1>3, <1>4, <1>5, <1>6 DEF Next, Drain

(* The types of the outbox and of what its drainers hold.                    *)
THEOREM OutboxTypes == Spec => []TypeOK
BY InitInv, StepKeepsInv, PTL DEF Spec, Inv

(* What the outbox calls delivered has arrived, whichever drainers crossed.  *)
THEOREM NoFalseDelivery == Spec => []DeliveredWasReceived
BY InitInv, StepKeepsInv, PTL DEF Spec, Inv, RowsAreHonest

(* No alert is given up before MaxRetries outcomes were recorded.            *)
THEOREM NoEarlyGiveUp == Spec => []GivesUpOnlyAfterRetries
BY InitInv, StepKeepsInv, PTL DEF Spec, Inv, RowsAreHonest

(* A settled row stays settled in every step.                                *)
LEMMA StepKeepsSettled ==
  ASSUME Inv, [Next]_vars, NEW a \in Alerts, Settled(a)
  PROVE  Settled(a)'
<1>0. outbox \in [Alerts -> Rows]
  BY DEF Inv, TypeOK
<1>1. ASSUME NEW e \in Events, Enqueue(e) PROVE Settled(a)'
  BY <1>0, <1>1 DEF Enqueue, Settled
<1>2. ASSUME NEW j \in Jobs, MarkAmbiguous(j) PROVE Settled(a)'
  <2>1. outbox[j].status = "none" => outbox' = [outbox EXCEPT ![j] = NewRow]
    BY <1>2 DEF MarkAmbiguous
  <2>2. outbox[j].status # "none" => outbox' = [outbox EXCEPT ![j] = outbox[j]]
    BY <1>2 DEF MarkAmbiguous
  <2> QED BY <1>0, <2>1, <2>2 DEF Settled
<1>3. ASSUME NEW b \in Alerts, RetryDue(b) PROVE Settled(a)'
  <2>1. outbox' = [outbox EXCEPT ![b] = [outbox[b] EXCEPT !.due = TRUE]]
    BY <1>3 DEF RetryDue
  <2> QED BY <1>0, <2>1, RowFacts DEF Settled
<1>4. ASSUME NEW d \in Drainers, Mark(d) PROVE Settled(a)'
  <2>1. PICK i \in batch[d] : outbox' = [outbox EXCEPT ![i.alert] = Outcome(i, outbox[i.alert])]
    BY <1>4 DEF Mark
  <2>2. /\ i \in Items /\ i.alert \in Alerts /\ outbox[i.alert] \in Rows
        /\ outbox[i.alert].status # "none" /\ i.attempts <= outbox[i.alert].attempts
    BY DEF Inv, TypeOK, Items, Crossed
  <2>3. outbox[i.alert].status \in {"delivered", "failed"}
          => Outcome(i, outbox[i.alert]).status \in {"delivered", "failed"}
    BY <2>2, OutcomeFacts
  <2> QED BY <1>0, <2>1, <2>2, <2>3 DEF Settled
<1>5. ASSUME UNCHANGED outbox PROVE Settled(a)'
  BY <1>5 DEF Settled
<1> QED
  BY <1>1, <1>2, <1>3, <1>4, <1>5
     DEF Next, Drain, Read, Dispatch, Abandon, ResolveForRetry, TakeJob, RunOutOfJobs, vars

(* A late answer never makes a settled alert pending again.                  *)
THEOREM SettledAlertsAreNotResent == Spec => SettledStaysSettled
<1>1. Inv /\ [Next]_vars => [\A a \in Alerts : Settled(a) => Settled(a)']_vars
  BY StepKeepsSettled
<1> QED BY <1>1, InitInv, StepKeepsInv, PTL DEF Spec, SettledStaysSettled

-----------------------------------------------------------------------------
(* The drainers that hold a row: a Retrier will write a retry, or a success;  *)
(* a Closer will settle the row whatever the answer is.                       *)
Holds(i, a, closing) == i.alert = a /\ ((i.attempts + 1 >= MaxRetries) <=> closing)
Holders(a, closing) == {d \in Drainers : \E i \in batch[d] : Holds(i, a, closing)}
Retriers(a) == Holders(a, FALSE)
Closers(a) == Holders(a, TRUE)

N == Cardinality(Drainers)

(* The attempts made and those that are still owed.  While a row is pending,   *)
(* every drainer may become a closer of it; once it is settled, only those     *)
(* that hold it remain.                                                        *)
Owed(a) == outbox[a].attempts + Cardinality(Retriers(a))
PaidFor(a) ==
  /\ outbox[a].status \in {"none", "pending"} => Owed(a) <= MaxRetries - 2 + N
  /\ Settled(a) => Owed(a) + Cardinality(Closers(a)) <= MaxRetries - 2 + 2 * N
Paid == \A a \in Alerts : PaidFor(a)

(* There are finitely many drainers, and the loop is one.                      *)
LEMMA Counted ==
  /\ N \in Nat /\ N >= 1 /\ IsFiniteSet(Drainers)
  /\ \A S \in SUBSET Drainers :
       IsFiniteSet(S) /\ Cardinality(S) \in Nat /\ Cardinality(S) <= N
<1>1. IsFiniteSet(Drainers) /\ Loop \in Drainers
  BY OutboxAssumptions
<1>2. N \in Nat /\ N # 0
  BY <1>1, FS_CardinalityType, FS_EmptySet DEF N
<1>3. ASSUME NEW S \in SUBSET Drainers
      PROVE  IsFiniteSet(S) /\ Cardinality(S) \in Nat /\ Cardinality(S) <= N
  BY <1>1, FS_Subset, FS_CardinalityType DEF N
<1> QED BY <1>1, <1>2, <1>3

(* One drainer leaves a set of drainers.                                       *)
LEMMA OneLeaves ==
  ASSUME NEW S \in SUBSET Drainers, NEW d \in S
  PROVE  Cardinality(S \ {d}) = Cardinality(S) - 1
BY Counted, FS_RemoveElement

(* A set of drainers that does not grow does not count more.                    *)
LEMMA FewerCount ==
  ASSUME NEW S \in SUBSET Drainers, NEW T \in SUBSET S
  PROVE  Cardinality(T) <= Cardinality(S)
BY Counted, FS_Subset

(* An alert whose row keeps its status and count, and gains no holder, stays   *)
(* paid for.                                                                  *)
LEMMA FewerHoldersPay ==
  ASSUME Inv, Paid, NEW a \in Alerts,
         outbox'[a].status = outbox[a].status, outbox'[a].attempts = outbox[a].attempts,
         Retriers(a)' \subseteq Retriers(a), Closers(a)' \subseteq Closers(a)
  PROVE  PaidFor(a)'
<1>1. Retriers(a) \in SUBSET Drainers /\ Closers(a) \in SUBSET Drainers
  BY DEF Retriers, Closers, Holders
<1>2. /\ Cardinality(Retriers(a)') <= Cardinality(Retriers(a))
      /\ Cardinality(Closers(a)') <= Cardinality(Closers(a))
      /\ Cardinality(Retriers(a)) \in Nat /\ Cardinality(Closers(a)) \in Nat
      /\ Cardinality(Retriers(a)') \in Nat /\ Cardinality(Closers(a)') \in Nat
  BY <1>1, FewerCount, Counted
<1>3. outbox[a].attempts \in Nat /\ N \in Nat /\ MaxRetries \in Nat
  BY Counted, OutboxAssumptions DEF Inv, TypeOK, Rows
<1>4. Owed(a) = outbox[a].attempts + Cardinality(Retriers(a))
      /\ Owed(a)' = outbox[a].attempts + Cardinality(Retriers(a)')
  BY DEF Owed
<1>5. Settled(a)' => Settled(a)
  BY DEF Settled
<1> QED BY <1>2, <1>3, <1>4, <1>5 DEF Paid, PaidFor

(* Nobody holds a row, nothing was attempted.                                  *)
LEMMA UnheldPays ==
  ASSUME NEW a \in Alerts, outbox[a].status \in {"none", "pending"}, outbox[a].attempts = 0,
         \A d \in Drainers : \A i \in batch[d] : i.alert # a
  PROVE  PaidFor(a)
<1>1. Retriers(a) = {} /\ Closers(a) = {}
  BY DEF Retriers, Closers, Holders, Holds
<1>2. Owed(a) = 0
  BY <1>1, FS_EmptySet DEF Owed
<1> QED BY <1>2, Counted, OutboxAssumptions DEF PaidFor, Settled

(* The initial state owes nothing.                                             *)
LEMMA InitPaid == Init => Paid
BY UnheldPays DEF Init, NoRow, Paid

(* A row is inserted.                                                          *)
LEMMA InsertPays ==
  ASSUME Inv, Paid, NEW b \in Alerts, outbox[b].status = "none",
         outbox' = [outbox EXCEPT ![b] = NewRow], UNCHANGED batch
  PROVE  Paid'
<1>1. outbox \in [Alerts -> Rows]
  BY DEF Inv, TypeOK
<1> SUFFICES ASSUME NEW a \in Alerts PROVE PaidFor(a)'
  BY DEF Paid
<1>2. Retriers(a)' = Retriers(a) /\ Closers(a)' = Closers(a)
  BY DEF Retriers, Closers, Holders
<1>3. CASE a # b
  BY <1>1, <1>2, <1>3, FewerHoldersPay
<1>4. CASE a = b
  <2>1. Retriers(a) = {} /\ Closers(a) = {}
    BY <1>4 DEF Inv, Crossed, Retriers, Closers, Holders, Holds
  <2>2. outbox'[a].status = "pending" /\ outbox'[a].attempts = 0
    BY <1>1, <1>4, RowFacts
  <2>3. Owed(a)' = 0
    BY <1>2, <2>1, <2>2, FS_EmptySet DEF Owed
  <2> QED BY <2>2, <2>3, Counted, OutboxAssumptions DEF PaidFor, Settled
<1> QED BY <1>3, <1>4

(* Steps that leave every row's status and count, and every drainer's reading. *)
LEMMA QuietPays ==
  ASSUME Inv, Paid,
         \A a \in Alerts : /\ outbox'[a].status = outbox[a].status
                           /\ outbox'[a].attempts = outbox[a].attempts,
         \A d \in Drainers : \A k \in batch'[d] : \E i \in batch[d] :
            k.alert = i.alert /\ k.attempts = i.attempts
  PROVE  Paid'
<1> SUFFICES ASSUME NEW a \in Alerts PROVE PaidFor(a)'
  BY DEF Paid
<1>1. ASSUME NEW closing \in BOOLEAN PROVE Holders(a, closing)' \subseteq Holders(a, closing)
  BY DEF Holders, Holds
<1>2. Retriers(a)' \subseteq Retriers(a) /\ Closers(a)' \subseteq Closers(a)
  BY <1>1 DEF Retriers, Closers
<1> QED BY <1>2, FewerHoldersPay

(* A drainer reads pending rows: it may become a Retrier only of a row that is  *)
(* far from its last attempt.                                                  *)
LEMMA ReadPays ==
  ASSUME Inv, Paid, NEW d \in Drainers, Read(d)
  PROVE  Paid'
<1> DEFINE Item(a) == [alert |-> a, attempts |-> outbox[a].attempts, answer |-> "unsent"]
<1>1. PICK found \in SUBSET Due : batch' = [batch EXCEPT ![d] = {Item(a) : a \in found}]
  BY DEF Read
<1>2. batch[d] = {} /\ UNCHANGED outbox /\ batch \in [Drainers -> SUBSET Items]
  BY DEF Read, Inv, TypeOK
<1> SUFFICES ASSUME NEW a \in Alerts PROVE PaidFor(a)'
  BY DEF Paid
<1>3. outbox[a].attempts \in Nat /\ N \in Nat /\ N >= 1 /\ MaxRetries \in Nat
  BY Counted, OutboxAssumptions DEF Inv, TypeOK, Rows
<1>4. CASE a \notin found
  <2>1. Retriers(a)' \subseteq Retriers(a) /\ Closers(a)' \subseteq Closers(a)
    BY <1>1, <1>2, <1>4 DEF Retriers, Closers, Holders, Holds
  <2> QED BY <1>2, <2>1, FewerHoldersPay
<1>5. CASE a \in found
  <2>1. outbox[a].status = "pending"
    BY <1>5 DEF Due
  <2>2. Owed(a) <= MaxRetries - 2 + N
    BY <2>1 DEF Paid, PaidFor
  <2>3. /\ Cardinality(Retriers(a)) \in Nat
        /\ Cardinality(Retriers(a)') \in Nat /\ Cardinality(Retriers(a)') <= N
    BY Counted DEF Retriers, Holders
  <2>4. CASE outbox[a].attempts + 1 < MaxRetries
    <3>1. Owed(a)' <= MaxRetries - 2 + N
      BY <1>2, <1>3, <2>3, <2>4 DEF Owed
    <3> QED BY <1>2, <2>1, <3>1 DEF PaidFor, Settled
  <2>5. CASE outbox[a].attempts + 1 >= MaxRetries
    <3>1. Retriers(a)' \subseteq Retriers(a)
      BY <1>1, <1>2, <2>5 DEF Retriers, Holders, Holds
    <3>2. Cardinality(Retriers(a)') <= Cardinality(Retriers(a))
      BY <3>1, FewerCount DEF Retriers, Holders
    <3>3. Owed(a)' <= MaxRetries - 2 + N
      BY <1>2, <1>3, <2>2, <2>3, <3>2 DEF Owed
    <3> QED BY <1>2, <2>1, <3>3 DEF PaidFor, Settled
  <2> QED BY <1>3, <2>4, <2>5
<1> QED BY <1>4, <1>5

(* A drainer records an outcome: one attempt more, one that is no longer owed.  *)
LEMMA MarkPays ==
  ASSUME Inv, Paid, NEW d \in Drainers, Mark(d)
  PROVE  Paid'
<1>1. PICK i \in batch[d] :
        /\ outbox' = [outbox EXCEPT ![i.alert] = Outcome(i, outbox[i.alert])]
        /\ batch' = [batch EXCEPT ![d] = batch[d] \ {i}]
  BY DEF Mark
<1>2. /\ batch \in [Drainers -> SUBSET Items] /\ outbox \in [Alerts -> Rows]
      /\ i \in Items /\ i.alert \in Alerts /\ i.attempts \in Nat
      /\ outbox[i.alert].status # "none" /\ i.attempts <= outbox[i.alert].attempts
      /\ \A k \in batch[d] : k.alert = i.alert => k = i
  BY DEF Inv, TypeOK, Items, Crossed
<1> SUFFICES ASSUME NEW a \in Alerts PROVE PaidFor(a)'
  BY DEF Paid
<1>3. Retriers(a)' \subseteq Retriers(a) /\ Closers(a)' \subseteq Closers(a)
  BY <1>1, <1>2 DEF Retriers, Closers, Holders, Holds
<1>4. CASE a # i.alert
  BY <1>1, <1>2, <1>3, <1>4, FewerHoldersPay
<1>5. CASE a = i.alert
  <2> DEFINE n == outbox[a].attempts
             r == Cardinality(Retriers(a))
             c == Cardinality(Closers(a))
             rr == Cardinality(Retriers(a)')
             cc == Cardinality(Closers(a)')
  <2>1. outbox'[a] = Outcome(i, outbox[a])
    BY <1>1, <1>2, <1>5
  <2>2. /\ outbox'[a].attempts = n + 1
        /\ outbox'[a].status # "none"
        /\ Settled(a) => Settled(a)'
        /\ outbox'[a].status = "pending"
             => outbox[a].status = "pending" /\ i.attempts + 1 < MaxRetries
    BY <1>2, <1>5, <2>1, OutcomeFacts DEF Settled
  <2>3. /\ n \in Nat /\ r \in Nat /\ c \in Nat /\ rr \in Nat /\ cc \in Nat
        /\ N \in Nat /\ N >= 1 /\ MaxRetries \in Nat /\ c <= N
    BY Counted, OutboxAssumptions, <1>2 DEF Rows, Retriers, Closers, Holders
  <2>4. Retriers(a) \in SUBSET Drainers /\ Closers(a) \in SUBSET Drainers
    BY DEF Retriers, Closers, Holders
  <2>5. outbox[a].status \in {"pending"} \/ Settled(a)
    BY <1>2, <1>5 DEF Settled, Rows
  <2>6. Owed(a) = n + r /\ Owed(a)' = n + 1 + rr
    BY <2>2 DEF Owed
  <2>7. d \notin Retriers(a)' /\ d \notin Closers(a)'
    BY <1>1, <1>2, <1>5 DEF Retriers, Closers, Holders, Holds
  <2>8. CASE i.attempts + 1 < MaxRetries
    <3>1. d \in Retriers(a)
      BY <1>2, <1>5, <2>3, <2>8 DEF Retriers, Holders, Holds
    <3>2. Retriers(a)' \in SUBSET (Retriers(a) \ {d}) /\ Retriers(a) \ {d} \in SUBSET Drainers
      BY <1>3, <2>4, <2>7
    <3>3. rr <= r - 1 /\ cc <= c
      BY <1>3, <2>4, <3>1, <3>2, OneLeaves, FewerCount
    <3> HIDE DEF n, r, c, rr, cc
    <3> QED BY <2>2, <2>3, <2>5, <2>6, <3>3 DEF Paid, PaidFor, Settled, cc, c
  <2>9. CASE i.attempts + 1 >= MaxRetries
    <3>1. d \in Closers(a)
      BY <1>2, <1>5, <2>9 DEF Closers, Holders, Holds
    <3>2. Closers(a)' \in SUBSET (Closers(a) \ {d}) /\ Closers(a) \ {d} \in SUBSET Drainers
      BY <1>3, <2>4, <2>7
    <3>3. cc <= c - 1 /\ rr <= r
      BY <1>3, <2>4, <3>1, <3>2, OneLeaves, FewerCount
    <3>4. Settled(a)' /\ outbox'[a].status \notin {"none", "pending"}
      BY <1>2, <1>5, <2>1, <2>2, <2>3, <2>9, OutcomeFacts DEF Settled, Rows
    <3> HIDE DEF n, r, c, rr, cc
    <3> QED BY <2>2, <2>3, <2>5, <2>6, <3>3, <3>4 DEF Paid, PaidFor, cc, c
  <2> QED BY <1>2, <2>3, <2>8, <2>9
<1> QED BY <1>4, <1>5

(* Every step keeps what is owed within its bound.                              *)
LEMMA StepPays == Inv /\ Paid /\ [Next]_vars => Paid'
<1> SUFFICES ASSUME Inv, Paid, [Next]_vars PROVE Paid'
  OBVIOUS
<1>1. ASSUME NEW e \in Events, Enqueue(e) PROVE Paid'
  BY <1>1, InsertPays DEF Enqueue, Alerts
<1>2. ASSUME NEW j \in Jobs, MarkAmbiguous(j) PROVE Paid'
  <2>1. CASE outbox[j].status = "none"
    BY <1>2, <2>1, InsertPays DEF MarkAmbiguous, Alerts
  <2>2. CASE outbox[j].status # "none"
    <3>1. outbox' = [outbox EXCEPT ![j] = outbox[j]] /\ UNCHANGED batch
      BY <1>2, <2>2 DEF MarkAmbiguous
    <3> QED BY <3>1, QuietPays DEF Inv, TypeOK
  <2> QED BY <2>1, <2>2
<1>3. ASSUME NEW b \in Alerts, RetryDue(b) PROVE Paid'
  <2>1. outbox' = [outbox EXCEPT ![b] = [outbox[b] EXCEPT !.due = TRUE]] /\ UNCHANGED batch
    BY <1>3 DEF RetryDue
  <2> QED BY <2>1, RowFacts, QuietPays DEF Inv, TypeOK
<1>4. ASSUME NEW d \in Drainers, Dispatch(d) PROVE Paid'
  <2>1. PICK i \in batch[d], ok \in BOOLEAN :
          batch' = [batch EXCEPT ![d] =
             (batch[d] \ {i}) \cup {[i EXCEPT !.answer = IF ok THEN "ok" ELSE "error"]}]
    BY <1>4 DEF Dispatch
  <2>2. UNCHANGED outbox /\ batch \in [Drainers -> SUBSET Items]
    BY <1>4 DEF Dispatch, Inv, TypeOK
  <2>3. i \in Items
    BY <2>2
  <2>4. \A c \in Drainers : \A k \in batch'[c] : \E x \in batch[c] :
          k.alert = x.alert /\ k.attempts = x.attempts
    BY <2>1, <2>2, <2>3 DEF Items
  <2> QED BY <2>2, <2>4, QuietPays
<1>5. ASSUME NEW d \in Drainers, Abandon(d) PROVE Paid'
  BY <1>5, QuietPays DEF Abandon, Inv, TypeOK
<1>6. ASSUME NEW j \in Jobs, ResolveForRetry(j) PROVE Paid'
  BY <1>6, QuietPays DEF ResolveForRetry
<1>7. CASE TakeJob \/ RunOutOfJobs \/ UNCHANGED vars
  BY <1>7, QuietPays DEF TakeJob, RunOutOfJobs, vars
<1> QED
  BY <1>1, <1>2, <1>3, <1>4, <1>5, <1>6, <1>7, ReadPays, MarkPays DEF Next, Drain

(* What is owed bounds what was attempted.                                      *)
LEMMA PaidBounds == Inv /\ Paid => OverrunIsBounded
<1> SUFFICES ASSUME Inv, Paid, NEW a \in Alerts
             PROVE  outbox[a].attempts <= MaxRetries + 2 * (N - 1)
  BY DEF OverrunIsBounded, N
<1>1. /\ outbox[a].attempts \in Nat /\ N \in Nat /\ N >= 1 /\ MaxRetries \in Nat
      /\ outbox[a].status \in {"none", "pending"} \/ Settled(a)
  BY Counted, OutboxAssumptions DEF Inv, TypeOK, Rows, Settled
<1>2. Cardinality(Retriers(a)) \in Nat /\ Cardinality(Closers(a)) \in Nat
  BY Counted DEF Retriers, Closers, Holders
<1>3. Owed(a) = outbox[a].attempts + Cardinality(Retriers(a))
  BY DEF Owed
<1> QED BY <1>1, <1>2, <1>3 DEF Paid, PaidFor

(* Drainers that cross overrun MaxRetries by at most two attempts each but one.  *)
THEOREM BoundedOverrun == Spec => []OverrunIsBounded
<1>1. Init => Inv /\ Paid
  BY InitInv, InitPaid
<1>2. Inv /\ Paid /\ [Next]_vars => Inv' /\ Paid'
  BY StepKeepsInv, StepPays
<1> QED BY <1>1, <1>2, PaidBounds, PTL DEF Spec

-----------------------------------------------------------------------------
(* Delivery is implemented *)

Fates == [a \in Alerts |-> outbox[a].status]
Tries == [a \in Alerts |-> outbox[a].attempts]

(* Nothing is attempted of an alert before it is raised. *)
Untried == \A a \in Alerts : outbox[a].status = "none" => outbox[a].attempts = 0

(* What the refinement rests on. *)
Kept == Inv /\ Paid /\ Untried /\ OverrunIsBounded

(* An alert is raised: its row is inserted. *)
LEMMA InsertRaises ==
  ASSUME Kept, NEW a \in Alerts, outbox[a].status = "none",
         outbox' = [outbox EXCEPT ![a] = NewRow], received' = received
  PROVE  Untried' /\ Promise!Raise(a)
<1>1. outbox \in [Alerts -> Rows] /\ outbox[a].attempts = 0
  BY DEF Kept, Inv, TypeOK, Untried
<1>2. outbox'[a] = NewRow /\ \A b \in Alerts \ {a} : outbox'[b] = outbox[b]
  BY <1>1
<1>3. Fates' = [Fates EXCEPT ![a] = "pending"]
  BY <1>1, <1>2, RowFacts DEF Fates
<1>4. Tries' = Tries
  BY <1>1, <1>2, RowFacts DEF Tries
<1>5. Untried'
  BY <1>2, RowFacts DEF Kept, Untried
<1> QED
  BY <1>3, <1>4, <1>5 DEF Promise!Raise, Fates, Tries

(* A row that keeps its status and its count means nothing to the promise. *)
LEMMA QuietStutters ==
  ASSUME Kept, \A a \in Alerts : /\ outbox'[a].status = outbox[a].status
                                 /\ outbox'[a].attempts = outbox[a].attempts
  PROVE  Untried' /\ Fates' = Fates /\ Tries' = Tries
BY DEF Kept, Untried, Fates, Tries

(* A drainer sends one of the alerts it holds. *)
LEMMA DispatchReaches ==
  ASSUME Kept, NEW d \in Drainers, Dispatch(d)
  PROVE  Untried' /\ [Promise!Next]_<<Fates, Tries, received>>
<1>1. outbox' = outbox /\ Untried' /\ Fates' = Fates /\ Tries' = Tries
  BY QuietStutters DEF Dispatch
<1>2. PICK i \in batch[d], arrived \in BOOLEAN :
        received' = [received EXCEPT ![i.alert] = received[i.alert] \/ arrived]
  BY DEF Dispatch
<1>3. i.alert \in Alerts /\ outbox[i.alert].status # "none" /\ received \in [Alerts -> BOOLEAN]
  BY DEF Kept, Inv, TypeOK, Items, Crossed
<1>4. CASE received[i.alert] \/ arrived
  <2>1. received' = [received EXCEPT ![i.alert] = TRUE]
    BY <1>2, <1>3, <1>4, Zenon
  <2>2. Promise!Reach(i.alert)
    BY <1>1, <1>3, <2>1 DEF Promise!Reach, Fates, Tries
  <2> QED
    BY <1>1, <1>3, <2>2 DEF Promise!Next
<1>5. CASE ~(received[i.alert] \/ arrived)
  <2>1. received' = received
    BY <1>2, <1>3, <1>5
  <2> QED
    BY <1>1, <2>1
<1> QED
  BY <1>4, <1>5

(* An outcome is one more attempt: what is paid for bounds them. *)
LEMMA MarkAttempts ==
  ASSUME Kept, NEW d \in Drainers, Mark(d), Inv', Paid', OverrunIsBounded'
  PROVE  Untried' /\ \E a \in Alerts, outcome \in {"pending", "delivered", "failed"} :
                       Promise!Attempt(a, outcome)
<1>1. PICK i \in batch[d] :
        outbox' = [outbox EXCEPT ![i.alert] = Outcome(i, outbox[i.alert])]
  BY DEF Mark
<1> DEFINE a == i.alert
           row == outbox[a]
           new == Outcome(i, row)
<1>2. /\ i \in Items /\ a \in Alerts /\ row \in Rows /\ outbox \in [Alerts -> Rows]
      /\ row.status # "none" /\ i.attempts <= row.attempts
      /\ i.answer = "ok" => received[a]
      /\ received' = received
  BY DEF Mark, Kept, Inv, TypeOK, Items, Crossed
<1>3. /\ new \in Rows /\ new.attempts = row.attempts + 1 /\ new.status # "none"
      /\ new.status = "delivered" => row.status = "delivered" \/ i.answer = "ok"
      /\ new.status = "failed" => row.status = "failed" \/ row.attempts + 1 >= MaxRetries
      /\ new.status = "pending" => row.status = "pending"
  BY <1>2, OutcomeFacts
<1>4. outbox'[a] = new /\ \A b \in Alerts \ {a} : outbox'[b] = outbox[b]
  BY <1>1, <1>2
<1> HIDE DEF a, row, new
<1>5. Untried'
  BY <1>3, <1>4 DEF Kept, Untried
<1>6. /\ Fates' = [Fates EXCEPT ![a] = new.status]
      /\ Fates[a] = row.status
  BY <1>2, <1>4 DEF Fates, row
<1>7. /\ Tries' = [Tries EXCEPT ![a] = Tries[a] + 1]
      /\ Tries[a] = row.attempts
  BY <1>2, <1>3, <1>4 DEF Tries, row
<1>8. row.attempts \in Nat /\ MaxRetries \in Nat /\ N \in Nat
      /\ new.status \in {"pending", "delivered", "failed"}
  BY <1>2, <1>3, Counted, OutboxAssumptions DEF Rows
<1>9. new.status = "pending" => row.status = "pending" /\ row.attempts < MaxRetries + N - 2
  <2>1. Cardinality(Retriers(a)') \in Nat
    BY Counted DEF Retriers, Holders
  <2>2. ASSUME new.status = "pending" PROVE new.attempts + Cardinality(Retriers(a)') <= MaxRetries - 2 + N
    BY <1>2, <1>4, <2>2 DEF Paid, PaidFor, Owed
  <2> QED
    BY <1>3, <1>8, <2>1, <2>2
<1>10. new.status = "delivered" => received[a]
  BY <1>2, <1>3 DEF Kept, Inv, RowsAreHonest, DeliveredWasReceived, row
<1>11. new.status = "failed" => row.attempts + 1 >= MaxRetries
  <2>1. row.status = "failed" => row.attempts >= MaxRetries
    BY <1>2 DEF Kept, Inv, RowsAreHonest, GivesUpOnlyAfterRetries, row
  <2> QED
    BY <1>3, <1>8, <2>1
<1>12. row.attempts < MaxRetries + 2 * (N - 1)
  <2>1. new.attempts <= MaxRetries + 2 * (N - 1)
    BY <1>2, <1>4 DEF OverrunIsBounded, N
  <2> QED
    BY <1>3, <1>8, <2>1
<1>13. PICK outcome \in {"pending", "delivered", "failed"} : outcome = new.status
  BY <1>8
<1>14. Promise!Attempt(a, outcome)
  BY <1>2, <1>3, <1>6, <1>7, <1>9, <1>10, <1>11, <1>12, <1>13
     DEF Promise!Attempt, Fates, Tries, N
<1> QED
  BY <1>2, <1>5, <1>14

(* Every step of the outbox is a step of the promise, or none. *)
LEMMA StepImplements ==
  ASSUME Kept, [Next]_vars, Inv', Paid', OverrunIsBounded'
  PROVE  Untried' /\ [Promise!Next]_<<Fates, Tries, received>>
<1>1. outbox \in [Alerts -> Rows] /\ Jobs \subseteq Alerts /\ Events \subseteq Alerts
  BY DEF Kept, Inv, TypeOK, Alerts
<1>2. ASSUME NEW a \in Alerts, outbox[a].status = "none",
             outbox' = [outbox EXCEPT ![a] = NewRow], received' = received
      PROVE  Untried' /\ [Promise!Next]_<<Fates, Tries, received>>
  BY <1>2, InsertRaises DEF Promise!Next
<1>3. CASE outbox' = outbox /\ received' = received
  BY <1>3, QuietStutters
<1>4. ASSUME NEW e \in Events, Enqueue(e)
      PROVE  Untried' /\ [Promise!Next]_<<Fates, Tries, received>>
  BY <1>1, <1>2, <1>4 DEF Enqueue
<1>5. ASSUME NEW j \in Jobs, MarkAmbiguous(j)
      PROVE  Untried' /\ [Promise!Next]_<<Fates, Tries, received>>
  <2>1. CASE outbox[j].status = "none"
    <3>1. outbox' = [outbox EXCEPT ![j] = NewRow] /\ received' = received
      BY <1>5, <2>1 DEF MarkAmbiguous
    <3> QED
      BY <1>1, <1>2, <2>1, <3>1
  <2>2. CASE outbox[j].status # "none"
    <3>1. outbox' = [outbox EXCEPT ![j] = outbox[j]] /\ received' = received
      BY <1>5, <2>2 DEF MarkAmbiguous
    <3> QED
      BY <1>1, <1>3, <3>1
  <2> QED
    BY <2>1, <2>2
<1>6. ASSUME NEW a \in Alerts, RetryDue(a)
      PROVE  Untried' /\ [Promise!Next]_<<Fates, Tries, received>>
  <2>1. outbox' = [outbox EXCEPT ![a] = [outbox[a] EXCEPT !.due = TRUE]] /\ received' = received
    BY <1>6 DEF RetryDue
  <2>2. \A b \in Alerts : /\ outbox'[b].status = outbox[b].status
                          /\ outbox'[b].attempts = outbox[b].attempts
    BY <1>1, <2>1, RowFacts
  <2> QED
    BY <2>1, <2>2, QuietStutters
<1>7. ASSUME NEW d \in Drainers, Mark(d)
      PROVE  Untried' /\ [Promise!Next]_<<Fates, Tries, received>>
  BY <1>7, MarkAttempts DEF Promise!Next
<1> QED
  BY <1>3, <1>4, <1>5, <1>6, <1>7, DispatchReaches
     DEF Next, Drain, Read, Abandon, ResolveForRetry, TakeJob, RunOutOfJobs, vars

(* The rows of the outbox, whatever the drainers that cross over them do,     *)
(* keep the promise of Delivery.                                              *)
THEOREM DeliveryImplemented == Spec => ImplementsDelivery
<1>1. Init => Inv /\ Paid
  BY InitInv, InitPaid
<1>2. Inv /\ Paid /\ [Next]_vars => Inv' /\ Paid'
  BY StepKeepsInv, StepPays
<1>3. Init => Untried /\ Promise!Init
  BY DEF Init, Untried, Promise!Init, NoRow
<1>4. (Inv /\ Paid /\ OverrunIsBounded /\ Untried /\ [Next]_vars
         /\ Inv' /\ Paid' /\ OverrunIsBounded')
        => Untried' /\ [Promise!Next]_<<Fates, Tries, received>>
  BY StepImplements DEF Kept
<1> QED
  BY <1>1, <1>2, <1>3, <1>4, PaidBounds, PTL
     DEF Spec, ImplementsDelivery, Promise!Spec, Promise!vars, Fates, Tries
=============================================================================
