------------------------ MODULE JobQueueRefinement ------------------------
(***************************************************************************)
(* The proof that JobQueue implements Submission, for any set of jobs and   *)
(* workers.  A step either leaves the phase of every job alone, loses the   *)
(* submissions it finds in flight, or moves one job along an arrow of       *)
(* Submission; the lemmas say which, action by action.                      *)
(***************************************************************************)
EXTENDS JobQueueProofs

Uncertain == InFlight \cup {"ambiguous_submission"}

(* A row whose submission, if it has one, goes on as it was. *)
Quiet(j) ==
    /\ clicked'[j] = clicked[j]
    /\ \/ job'[j].state = job[j].state
       \/ job[j].state \notin Uncertain /\ job'[j].state \notin Uncertain

(* A submission in flight that becomes ambiguous. *)
Lost(j) ==
    /\ clicked'[j] = clicked[j]
    /\ job[j].state \in InFlight
    /\ job'[j].state = "ambiguous_submission"

(* The arrows of Submission. *)
Arrows == {<<"open", "armed">>, <<"armed", "sent">>, <<"sent", "settled">>,
           <<"settled", "sent">>, <<"armed", "open">>, <<"unknown", "open">>}

(* No click is forgotten, by IInv: there is a phase for every row. *)
PhaseOf(r, c) ==
    CASE r.state \in InFlight -> IF c THEN "sent" ELSE "armed"
      [] r.state = "ambiguous_submission" -> "unknown"
      [] OTHER -> IF c THEN "settled" ELSE "open"

(* Under the invariant the phase of a job is a function of its state and click. *)
LEMMA PhaseOfRow ==
    ASSUME IInv, IInv', NEW j \in Jobs
    PROVE  /\ Phase(j) = PhaseOf(job[j], clicked[j])
           /\ Phase(j)' = PhaseOf(job'[j], clicked'[j])
BY DEF IInv, ClickIsAccountedFor, Phase, PhaseOf, InFlight

(* A step that keeps every phase, or loses some submissions in flight, is one   *)
(* of Submission or a stutter.                                                 *)
LEMMA QuietOrLost ==
    ASSUME IInv, IInv', \A j \in Jobs : Quiet(j) \/ Lost(j)
    PROVE  [Promise!Next]_PhaseMap
<1> DEFINE S == {j \in Jobs : ~Quiet(j)}
<1>1. ASSUME NEW j \in S PROVE Phase(j) \in {"armed", "sent"} /\ Phase(j)' = "unknown"
  BY PhaseOfRow DEF Lost, PhaseOf, InFlight
<1>2. ASSUME NEW j \in Jobs \ S PROVE Phase(j)' = Phase(j)
  BY PhaseOfRow DEF Quiet, PhaseOf, Uncertain, InFlight
<1> HIDE DEF S
<1>3. Promise!Lose(S)
  <2>1. \A j \in S : j \in Jobs
    BY DEF S
  <2> QED
    BY <1>1, <1>2, <2>1 DEF Promise!Lose, Promise!Move, PhaseMap
<1>4. S \in SUBSET Jobs
  BY DEF S
<1> QED
  BY <1>3, <1>4 DEF Promise!Next

(* A step that moves the phase of one job along an arrow is one of Submission.  *)
LEMMA OneMoves ==
    ASSUME IInv, IInv', NEW j \in Jobs, \A i \in Jobs \ {j} : Quiet(i),
           Phase(j)' = Phase(j) \/ <<Phase(j), Phase(j)'>> \in Arrows
    PROVE  [Promise!Next]_PhaseMap
<1>1. ASSUME NEW i \in Jobs \ {j} PROVE Phase(i)' = Phase(i)
  BY PhaseOfRow DEF Quiet, PhaseOf, Uncertain, InFlight
<1>2. CASE Phase(j)' = Phase(j)
  BY <1>1, <1>2 DEF PhaseMap
<1>3. CASE <<Phase(j), Phase(j)'>> \in Arrows
  <2>1. ASSUME NEW from, NEW to, Phase(j) = from, Phase(j)' = to
        PROVE  Promise!Move({j}, {from}, to)
    BY <1>1, <2>1 DEF Promise!Move, PhaseMap
  <2> QED
    BY <1>3, <2>1 DEF Arrows, Promise!Next, Promise!Arm, Promise!Send, Promise!Settle,
                      Promise!Reconfirm, Promise!Withdraw, Promise!Reopen
<1> QED
  BY <1>2, <1>3

(* What IInv says of a row, for the steps below. *)
LEMMA RowFacts ==
    ASSUME IInv, NEW j \in Jobs
    PROVE  /\ job[j] \in Row /\ clicked[j] \in BOOLEAN
           /\ job[j].state \notin Accounted => ~clicked[j]
           /\ job[j].state \in {"absent", "ambiguous_submission"} => job[j].owner = None
BY IInvParts DEF RowOK

(* One row is written, and it stays outside the submission. *)
LEMMA OneQuietRow ==
    ASSUME IInv, IInv', NEW j \in Jobs, NEW r, job' = [job EXCEPT ![j] = r], UNCHANGED clicked,
           r.state = job[j].state \/ (job[j].state \notin Uncertain /\ r.state \notin Uncertain)
    PROVE  [Promise!Next]_PhaseMap
<1>1. \A i \in Jobs : job'[i] = IF i = j THEN r ELSE job[i]
  BY IInvParts
<1>2. \A i \in Jobs : Quiet(i)
  BY <1>1 DEF Quiet
<1> QED
  BY <1>2, QuietOrLost

(* One submission in flight is given up. *)
LEMMA OneLost ==
    ASSUME IInv, IInv', NEW j \in Jobs, job[j].state \in InFlight,
           job' = [job EXCEPT ![j] = Ambiguous(job[j])], UNCHANGED clicked
    PROVE  [Promise!Next]_PhaseMap
<1>1. Ambiguous(job[j]).state = "ambiguous_submission"
  BY RowFacts DEF Ambiguous, Row
<1>2. \A i \in Jobs : job'[i] = IF i = j THEN Ambiguous(job[j]) ELSE job[i]
  BY IInvParts
<1>3. \A i \in Jobs : Quiet(i) \/ Lost(i)
  BY <1>1, <1>2 DEF Quiet, Lost
<1> QED
  BY <1>3, QuietOrLost

(* A step that writes no row and clicks nothing. *)
LEMMA NoRow ==
    ASSUME IInv, IInv', UNCHANGED <<job, clicked>>
    PROVE  [Promise!Next]_PhaseMap
<1>1. \A i \in Jobs : Quiet(i)
  BY DEF Quiet
<1> QED
  BY <1>1, QuietOrLost

-----------------------------------------------------------------------------
(* A worker writes a state into the row of its job. *)
LEMMA HolderWrites ==
    ASSUME IInv, IInv', NEW w \in Workers, Working(w), Holds(w), UNCHANGED clicked,
           NEW r, job' = [job EXCEPT ![wk[w].job] = r]
    PROVE  /\ wk[w].job \in Jobs
           /\ \A i \in Jobs \ {wk[w].job} : Quiet(i)
           /\ wk[w].pc \in AfterIntent => job[wk[w].job].state \in Committed
<1>1. /\ wk[w].job \in Jobs
      /\ Consistent(wk[w].pc, job[wk[w].job], clicked[wk[w].job])
  BY WorkerGoes
<1>2. \A i \in Jobs \ {wk[w].job} : job'[i] = job[i]
  BY <1>1, IInvParts
<1> QED
  BY <1>1, <1>2 DEF Quiet, Consistent

(* Before the click, whatever the worker writes keeps an open job open, arms it, *)
(* or withdraws it.                                                              *)
LEMMA WritesBeforeClick ==
    ASSUME IInv, IInv', NEW w \in Workers, Working(w), Holds(w), wk[w].pc \in BeforeClick,
           NEW r, job' = [job EXCEPT ![wk[w].job] = r], UNCHANGED clicked,
           r.state # "ambiguous_submission"
    PROVE  [Promise!Next]_PhaseMap
<1>0. PICK k \in Jobs : k = wk[w].job
  BY HolderWrites
<1>1. \A i \in Jobs \ {k} : Quiet(i)
  BY <1>0, HolderWrites
<1>2. /\ job'[k].state # "ambiguous_submission"
      /\ job[k].state # "ambiguous_submission"
      /\ ~clicked[k] /\ ~clicked'[k]
  <2>1. job'[k] = r
    BY <1>0, IInvParts
  <2>2. job[k].state # "ambiguous_submission"
    BY <1>0, RowFacts, NoneAssumption DEF Holds
  <2>3. ~clicked[k]
    BY <1>0, WorkerGoes DEF Consistent
  <2> QED
    BY <2>1, <2>2, <2>3
<1>3. Phase(k)' = Phase(k) \/ <<Phase(k), Phase(k)'>> \in Arrows
  <2>1. Phase(k) = IF job[k].state \in InFlight THEN "armed" ELSE "open"
    BY <1>2, PhaseOfRow DEF PhaseOf, InFlight
  <2>2. Phase(k)' = IF job'[k].state \in InFlight THEN "armed" ELSE "open"
    BY <1>2, PhaseOfRow DEF PhaseOf, InFlight
  <2> QED
    BY <2>1, <2>2 DEF Arrows
<1> QED
  BY <1>1, <1>3, OneMoves

(* After the click, it keeps the job sent, settles it, or sends a settled one. *)
LEMMA WritesAfterClick ==
    ASSUME IInv, IInv', NEW w \in Workers, Working(w), Holds(w), wk[w].pc \in AfterClick,
           NEW r, job' = [job EXCEPT ![wk[w].job] = r], UNCHANGED clicked,
           r.state # "ambiguous_submission"
    PROVE  [Promise!Next]_PhaseMap
<1>0. PICK k \in Jobs : k = wk[w].job
  BY HolderWrites
<1>1. \A i \in Jobs \ {k} : Quiet(i)
  BY <1>0, HolderWrites
<1>2. /\ job'[k].state # "ambiguous_submission"
      /\ job[k].state # "ambiguous_submission"
      /\ clicked[k] /\ clicked'[k]
  <2>1. job'[k] = r
    BY <1>0, IInvParts
  <2>2. job[k].state # "ambiguous_submission"
    BY <1>0, RowFacts, NoneAssumption DEF Holds
  <2>3. clicked[k]
    BY <1>0, WorkerGoes DEF Consistent
  <2> QED
    BY <2>1, <2>2, <2>3
<1>3. Phase(k)' = Phase(k) \/ <<Phase(k), Phase(k)'>> \in Arrows
  <2>1. Phase(k) = IF job[k].state \in InFlight THEN "sent" ELSE "settled"
    BY <1>2, PhaseOfRow DEF PhaseOf, InFlight
  <2>2. Phase(k)' = IF job'[k].state \in InFlight THEN "sent" ELSE "settled"
    BY <1>2, PhaseOfRow DEF PhaseOf, InFlight
  <2> QED
    BY <2>1, <2>2 DEF Arrows
<1> QED
  BY <1>1, <1>3, OneMoves

(* Each step of a worker is a step of Submission or a stutter.                 *)
LEMMA WorkerStepRefines ==
    ASSUME IInv, IInv', NEW w \in Workers, WorkerStep(w)
    PROVE  [Promise!Next]_PhaseMap
<1> DEFINE k == wk[w].job
           r == job[k]
<1>1. CASE \/ Poll(w) \/ WorkerGone(w) \/ PauseForAuth(w) \/ PauseAfterFailure(w)
           \/ LeaveBrowser(w) \/ SafetyGate(w) \/ BeginFence(w) \/ FenceRefused(w)
           \/ FinishFence(w) \/ ClickRaised(w)
  <2>1. UNCHANGED <<job, clicked>>
    BY <1>1 DEF Poll, WorkerGone, PauseForAuth, PauseAfterFailure, LeaveBrowser,
                SafetyGate, BeginFence, FenceRefused, FinishFence, ClickRaised
  <2> QED
    BY <2>1, NoRow
<1>2. ASSUME NEW dismissed, Claim(w, dismissed) PROVE [Promise!Next]_PhaseMap
  <2>1. PICK j \in Jobs : Claimable(j) /\ job' = [job EXCEPT ![j] = ClaimedBy(job[j], w)]
    BY <1>2 DEF Claim
  <2>2. ClaimedBy(job[j], w).state = "claimed"
    BY RowFacts DEF ClaimedBy, Row
  <2>3. job[j].state \notin Uncertain /\ "claimed" \notin Uncertain
    BY <2>1 DEF Claimable, Uncertain, InFlight, PreSubmit
  <2>4. UNCHANGED clicked
    BY <1>2 DEF Claim
  <2> HIDE DEF ClaimedBy
  <2> QED
    BY <2>1, <2>2, <2>3, <2>4, OneQuietRow
<1>3. CASE Renew(w)
  <2>1. k \in Jobs /\ r \in Row /\ job' = [job EXCEPT ![k] = [r EXCEPT !.lease = "live"]]
        /\ UNCHANGED clicked
    BY <1>3, WorkerGoes DEF Renew, RowOK
  <2>2. [r EXCEPT !.lease = "live"].state = r.state
    BY <2>1 DEF Row
  <2> QED
    BY <2>1, <2>2, OneQuietRow
<1>4. CASE Navigate(w) \/ AuthReopened(w)
  <2>1. CASE Owns(w)
    <3>1. PICK q \in Row : /\ job' = [job EXCEPT ![k] = q]
                           /\ q.state \in {"navigating", "auth_required"}
      <4>1. k \in Jobs /\ r \in Row
        BY <1>4, WorkerGoes DEF Navigate, AuthReopened, Working, RowOK
      <4>2. CASE Navigate(w)
        <5> DEFINE q == [r EXCEPT !.state = "navigating", !.auth = FALSE]
        <5>1. job' = [job EXCEPT ![k] = q]
          BY <2>1, <4>2 DEF Navigate
        <5>2. q \in Row /\ q.state = "navigating"
          BY <4>1, StateNames DEF Row
        <5> QED
          BY <5>1, <5>2
      <4>3. CASE AuthReopened(w)
        <5> DEFINE q == [r EXCEPT !.state = "auth_required"]
        <5>1. job' = [job EXCEPT ![k] = q]
          BY <2>1, <4>3 DEF AuthReopened
        <5>2. q \in Row /\ q.state = "auth_required"
          BY <4>1, StateNames DEF Row, Challenge
        <5> QED
          BY <5>1, <5>2
      <4> QED
        BY <1>4, <4>2, <4>3
    <3>2. Working(w) /\ Holds(w) /\ wk[w].pc \in BeforeClick /\ UNCHANGED clicked
      BY <1>4, <2>1 DEF Navigate, AuthReopened, Working, Owns, BeforeClick
    <3> QED
      BY <3>1, <3>2, WritesBeforeClick
  <2>2. CASE ~Owns(w)
    BY <1>4, <2>2, NoRow DEF Navigate, AuthReopened
  <2> QED
    BY <2>1, <2>2
<1>5. ASSUME NEW q, Transition(w, Lease, q), Working(w), UNCHANGED clicked,
             q.state # "ambiguous_submission",
             wk[w].pc \in BeforeClick \cup AfterClick
      PROVE  [Promise!Next]_PhaseMap
  <2>1. Holds(w) /\ job' = [job EXCEPT ![k] = q]
    BY <1>5 DEF Transition, Owns
  <2> QED
    BY <1>5, <2>1, WritesBeforeClick, WritesAfterClick
<1>6. ASSUME NEW leases, NEW q, Transition(w, leases, q), Working(w), leases \subseteq Lease
      PROVE  Transition(w, Lease, q) /\ r \in Row
  BY <1>6, WorkerGoes DEF Transition, RowOK
<1>7. LiveLease \subseteq Lease /\ SubmitMargin \subseteq Lease /\ AnyLease \subseteq Lease
  BY DEF LiveLease, SubmitMargin, AnyLease, Lease
<1>8. ASSUME NEW leases, leases \subseteq Lease,
             NEW s \in Challenge \cup Terminal \cup {"submit_intent"},
             Transition(w, leases, [r EXCEPT !.state = s]),
             wk[w].pc \in BeforeClick \cup AfterClick, UNCHANGED clicked
      PROVE  [Promise!Next]_PhaseMap
  <2>1. Working(w)
    BY <1>8 DEF Working, BeforeClick, AfterClick
  <2>2. r \in Row /\ Transition(w, Lease, [r EXCEPT !.state = s])
    BY <1>6, <1>8, <2>1
  <2>3. [r EXCEPT !.state = s].state # "ambiguous_submission"
    BY <1>8, <2>2 DEF Row, Challenge, Terminal
  <2> QED
    BY <1>5, <1>8, <2>1, <2>2, <2>3
<1>9. ASSUME NEW category \in Challenge, FailInteractive(w, category)
      PROVE  [Promise!Next]_PhaseMap
  BY <1>7, <1>8, <1>9 DEF FailInteractive, BeforeClick
<1>10. CASE FailPermanent(w) \/ FillOnly(w) \/ SettleConfirmed(w) \/ SettleRejected(w)
            \/ RecordIntent(w)
  BY <1>7, <1>8, <1>10 DEF FailPermanent, FillOnly, SettleConfirmed, SettleRejected,
     RecordIntent, Terminal, BeforeClick, AfterClick
<1>11. CASE FailTransient(w) \/ Reschedule(w)
  <2>1. PICK q : Transition(w, LiveLease, q) /\ q.state \in {"retry_wait", "failed_permanent"}
    <3>1. r \in Row
      BY <1>11, WorkerGoes DEF FailTransient, Reschedule, Working, RowOK
    <3> DEFINE t == [r EXCEPT !.state = "retry_wait", !.due = FALSE, !.auth = FALSE]
               f == [r EXCEPT !.state = "failed_permanent"]
               p == [r EXCEPT !.state = "retry_wait", !.due = FALSE, !.auth = FALSE,
                              !.attempts = IF @ > 0 THEN @ - 1 ELSE 0]
    <3>2. t.state = "retry_wait" /\ f.state = "failed_permanent" /\ p.state = "retry_wait"
      BY <3>1 DEF Row
    <3>3. FailTransient(w) => Transition(w, LiveLease, IF r.attempts < MaxRetries THEN t ELSE f)
      BY DEF FailTransient
    <3>4. Reschedule(w) => Transition(w, LiveLease, p)
      BY DEF Reschedule
    <3> HIDE DEF t, f, p
    <3> QED
      BY <1>11, <3>2, <3>3, <3>4
  <2>2. Working(w) /\ wk[w].pc \in BeforeClick /\ UNCHANGED clicked
    BY <1>11 DEF FailTransient, Reschedule, Working, BeforeClick
  <2> QED
    BY <1>5, <1>6, <1>7, <2>1, <2>2
<1>12. CASE Click(w)
  <2>1. PICK j \in Jobs : j = k
    BY <1>12, WorkerGoes DEF Click, Working
  <2>2. job[j].state = "submit_intent" /\ ~clicked[j]
    BY <1>12, <2>1, IInvParts, WorkerGoes
       DEF Click, ClickIsUndisturbed, Working, Owns, Consistent, BeforeClick
  <2>3. clicked'[j] /\ UNCHANGED job /\ \A i \in Jobs \ {j} : clicked'[i] = clicked[i]
    BY <1>12, <2>1, IInvParts DEF Click
  <2>4. Phase(j) = "armed" /\ Phase(j)' = "sent"
    BY <2>2, <2>3, PhaseOfRow DEF PhaseOf, InFlight
  <2>5. \A i \in Jobs \ {j} : Quiet(i)
    BY <2>3 DEF Quiet
  <2> QED
    BY <2>4, <2>5, OneMoves DEF Arrows
<1>13. CASE Verifying(w)
  <2>1. CASE Owns(w)
    <3> DEFINE q == [r EXCEPT !.state = "verifying"]
    <3>1. r \in Row
      BY <1>13, WorkerGoes DEF Verifying, Working, RowOK
    <3>2. q.state # "ambiguous_submission"
      BY <3>1 DEF Row
    <3>3. /\ job' = [job EXCEPT ![k] = q] /\ UNCHANGED clicked
          /\ Working(w) /\ Holds(w) /\ wk[w].pc \in AfterClick
      BY <1>13, <2>1 DEF Verifying, Owns, Working, AfterClick
    <3> HIDE DEF q
    <3> QED
      BY <3>2, <3>3, WritesAfterClick
  <2>2. CASE ~Owns(w)
    BY <1>13, <2>2, NoRow DEF Verifying
  <2> QED
    BY <2>1, <2>2
<1>14. CASE SettleAmbiguous(w)
  <2>1. /\ job' = [job EXCEPT ![k] = Ambiguous(r)] /\ UNCHANGED clicked
        /\ Working(w) /\ Holds(w) /\ wk[w].pc \in AfterIntent
    BY <1>14 DEF SettleAmbiguous, Working, AfterIntent
  <2>2. k \in Jobs /\ r.state \in InFlight
    BY <1>14, <2>1, HolderWrites DEF SettleAmbiguous, Committed, PreSubmit
  <2> QED
    BY <2>1, <2>2, OneLost
<1> QED
  BY <1>1, <1>2, <1>3, <1>4, <1>9, <1>10, <1>11, <1>12, <1>13, <1>14
     DEF WorkerStep, PreSubmitStep, SubmitStep

-----------------------------------------------------------------------------
(* So is each step on one job.                                                 *)
LEMMA JobStepRefines ==
    ASSUME IInv, IInv', NEW j \in Jobs, JobStep(j)
    PROVE  [Promise!Next]_PhaseMap
<1> DEFINE r == job[j]
<1>1. /\ r \in Row /\ clicked[j] \in BOOLEAN
      /\ r.state \notin Accounted => ~clicked[j]
  BY RowFacts
<1>2. CASE Sweep(j) \/ ClearStateMark(j)
  BY <1>2, OneLost DEF Sweep, ClearStateMark
<1>3. CASE \/ Enqueue(j) \/ LeaseAges(j) \/ RetryDue(j) \/ Cancel(j)
           \/ ReopenAuth(j) \/ ResumeJob(j)
  <2>1. UNCHANGED clicked
    BY <1>3 DEF Enqueue, LeaseAges, RetryDue, Cancel, ReopenAuth, ResumeJob
  <2>2. PICK q : /\ job' = [job EXCEPT ![j] = q]
                 /\ \/ q.state = r.state
                    \/ r.state \notin Uncertain /\ q.state \notin Uncertain
    <3>1. CASE Enqueue(j)
      <4> DEFINE q == [r EXCEPT !.state = "ready"]
      <4>1. job' = [job EXCEPT ![j] = q] /\ r.state = "absent"
        BY <3>1 DEF Enqueue
      <4>2. q.state = "ready"
        BY <1>1 DEF Row
      <4> HIDE DEF q
      <4> QED
        BY <4>1, <4>2 DEF Uncertain, InFlight
    <3>2. CASE LeaseAges(j) \/ RetryDue(j)
      <4> DEFINE aged == [r EXCEPT !.lease = IF @ = "live" THEN "short" ELSE "expired"]
                 due == [r EXCEPT !.due = TRUE]
      <4>1. aged.state = r.state /\ due.state = r.state
        BY <1>1 DEF Row
      <4>2. job' = [job EXCEPT ![j] = aged] \/ job' = [job EXCEPT ![j] = due]
        BY <3>2 DEF LeaseAges, RetryDue
      <4> HIDE DEF aged, due
      <4> QED
        BY <4>1, <4>2
    <3>3. CASE Cancel(j)
      <4> DEFINE q == [r EXCEPT !.cancelled = TRUE,
                         !.state = IF @ \in Queued \cup Challenge THEN "cancelled" ELSE @]
      <4>1. job' = [job EXCEPT ![j] = q]
        BY <3>3 DEF Cancel
      <4>2. q.state = IF r.state \in Queued \cup Challenge THEN "cancelled" ELSE r.state
        BY <1>1 DEF Row
      <4> HIDE DEF q
      <4> QED
        BY <4>1, <4>2 DEF Queued, Challenge, Uncertain, InFlight
    <3>4. CASE ReopenAuth(j)
      <4> DEFINE q == [Released(r) EXCEPT !.auth = TRUE]
      <4>1. job' = [job EXCEPT ![j] = q]
        BY <3>4 DEF ReopenAuth
      <4>2. q.state = "ready"
        BY <1>1 DEF Row, Released
      <4> HIDE DEF q
      <4> QED
        BY <3>4, <4>1, <4>2 DEF ReopenAuth, Uncertain, InFlight
    <3>5. CASE ResumeJob(j)
      <4>1. Released(r).state = "ready"
        BY <1>1 DEF Row, Released
      <4> QED
        BY <3>5, <4>1 DEF ResumeJob, Resumable, Challenge, PreSubmit, Uncertain, InFlight
    <3> QED
      BY <1>3, <3>1, <3>2, <3>3, <3>4, <3>5
  <2> QED
    BY <2>1, <2>2, OneQuietRow
<1>4. CASE Skip(j)
  <2>1. CASE r.state \in InFlight
    BY <1>4, <2>1, OneLost DEF Skip, InFlight, Queued, PreSubmit, Challenge
  <2>2. CASE r.state \in Queued \cup PreSubmit \cup Challenge
    <3> DEFINE q == [Fresh(Released(r)) EXCEPT !.state = "skipped", !.cancelled = TRUE]
    <3>1. job' = [job EXCEPT ![j] = q] /\ UNCHANGED clicked
      BY <1>4, <2>2 DEF Skip, InFlight, Queued, PreSubmit, Challenge
    <3>2. q.state = "skipped"
      BY <1>1 DEF Row, Released, Fresh
    <3> HIDE DEF q
    <3>3. r.state \notin Uncertain /\ q.state \notin Uncertain
      BY <2>2, <3>2 DEF InFlight, Queued, PreSubmit, Challenge, Uncertain
    <3> QED
      BY <3>1, <3>3, OneQuietRow
  <2> QED
    BY <1>4, <2>1, <2>2 DEF Skip
<1>5. ASSUME NEW force \in BOOLEAN, Resolve(j, force) PROVE [Promise!Next]_PhaseMap
  <2> DEFINE q == [Fresh(Released(r)) EXCEPT !.cancelled = FALSE]
  <2>1. /\ job' = [job EXCEPT ![j] = q]
        /\ clicked' = IF r.state = "ambiguous_submission"
                      THEN [clicked EXCEPT ![j] = FALSE] ELSE clicked
        /\ r.state \in Challenge \cup {"skipped", "ambiguous_submission"}
    BY <1>5 DEF Resolve
  <2>2. q.state = "ready"
    BY <1>1 DEF Row, Released, Fresh
  <2> HIDE DEF q
  <2>3. /\ \A i \in Jobs : job'[i] = IF i = j THEN q ELSE job[i]
        /\ \A i \in Jobs \ {j} : clicked'[i] = clicked[i]
        /\ ~clicked'[j]
    BY <1>1, <2>1, IInvParts DEF Challenge, Accounted, InFlight
  <2>4. \A i \in Jobs \ {j} : Quiet(i)
    BY <2>3 DEF Quiet
  <2>5. Phase(j)' = "open"
    BY <2>2, <2>3, PhaseOfRow DEF PhaseOf, InFlight
  <2>6. Phase(j) \in {"open", "unknown"}
    BY <1>1, <2>1, PhaseOfRow DEF PhaseOf, Challenge, Accounted, InFlight
  <2> QED
    BY <2>4, <2>5, <2>6, OneMoves DEF Arrows
<1>6. CASE ResumeConfirmed(j)
  <2> DEFINE q == [r EXCEPT !.state = "applied"]
  <2>1. /\ job' = [job EXCEPT ![j] = q] /\ UNCHANGED clicked
        /\ r.state \in Resumable \cup InFlight
    BY <1>6 DEF ResumeConfirmed
  <2>2. q.state = "applied"
    BY <1>1 DEF Row
  <2> HIDE DEF q
  <2>3. \A i \in Jobs : job'[i] = IF i = j THEN q ELSE job[i]
    BY <2>1, IInvParts
  <2>4. \A i \in Jobs \ {j} : Quiet(i)
    BY <2>1, <2>3 DEF Quiet
  <2>5. Phase(j)' = IF clicked[j] THEN "settled" ELSE "open"
    BY <2>1, <2>2, <2>3, PhaseOfRow DEF PhaseOf, InFlight
  <2>6. Phase(j) = IF r.state \in InFlight THEN IF clicked[j] THEN "sent" ELSE "armed"
                   ELSE "open"
    BY <1>1, <2>1, PhaseOfRow DEF PhaseOf, Resumable, Challenge, PreSubmit, Accounted, InFlight
  <2>7. r.state \notin InFlight => ~clicked[j]
    BY <1>1, <2>1 DEF Resumable, Challenge, PreSubmit, Accounted, InFlight
  <2> QED
    BY <2>4, <2>5, <2>6, <2>7, OneMoves DEF Arrows
<1> QED
  BY <1>2, <1>3, <1>4, <1>5, <1>6 DEF JobStep

(* So is each step on the controls; a stop may lose several submissions.       *)
LEMMA ControlStepRefines ==
    ASSUME IInv, IInv', ControlStep
    PROVE  [Promise!Next]_PhaseMap
<1>1. CASE EmergencyStop
  <2>1. ASSUME NEW j \in Jobs PROVE Quiet(j) \/ Lost(j)
    <3>1. job[j] \in Row /\ clicked'[j] = clicked[j]
      BY <1>1, RowFacts DEF EmergencyStop
    <3>2. CASE job[j].state \in InFlight
      <4>1. job'[j] = Ambiguous(job[j])
        BY <1>1, <3>2 DEF EmergencyStop, PreSubmit, InFlight
      <4> QED
        BY <3>1, <3>2, <4>1 DEF Lost, Ambiguous, Row
    <3>3. CASE job[j].state \in PreSubmit
      <4>1. job'[j] = Fresh(Released(job[j]))
        BY <1>1, <3>3 DEF EmergencyStop, PreSubmit, InFlight
      <4>2. Fresh(Released(job[j])).state = "ready"
        BY <3>1 DEF Fresh, Released, Row
      <4> QED
        BY <3>1, <3>3, <4>1, <4>2 DEF Quiet, Uncertain, PreSubmit, InFlight
    <3>4. CASE job[j].state \notin PreSubmit \cup InFlight
      BY <1>1, <3>1, <3>4 DEF EmergencyStop, Quiet
    <3> QED
      BY <3>2, <3>3, <3>4
  <2> QED
    BY <2>1, QuietOrLost
<1>2. CASE ClearStateReset
  <2> DEFINE q(j) == [Fresh(Released(job[j])) EXCEPT !.auth = FALSE]
  <2>1. ASSUME NEW j \in Jobs PROVE Quiet(j)
    <3>1. job[j] \in Row /\ clicked'[j] = clicked[j]
      BY <1>2, RowFacts DEF ClearStateReset
    <3>2. \/ job'[j] = job[j]
          \/ job'[j] = q(j) /\ job[j].state \in PreSubmit \cup Challenge
      BY <1>2 DEF ClearStateReset
    <3>3. q(j).state = "ready"
      BY <3>1 DEF Fresh, Released, Row
    <3> QED
      BY <3>1, <3>2, <3>3 DEF Quiet, Uncertain, PreSubmit, Challenge, InFlight
  <2> QED
    BY <2>1, QuietOrLost
<1>3. CASE \/ Pause \/ ClearStop \/ ResumeIdle \/ ClaimTakeover \/ ReleaseTakeover
           \/ TakeoverLapses \/ BackupQuiesces \/ BackupReleases
  <2>1. UNCHANGED <<job, clicked>>
    BY <1>3 DEF Pause, ClearStop, ResumeIdle, ClaimTakeover, ReleaseTakeover,
                TakeoverLapses, BackupQuiesces, BackupReleases
  <2> QED
    BY <2>1, NoRow
<1> QED
  BY <1>1, <1>2, <1>3 DEF ControlStep

(* So is the daemon's shutdown.                                                *)
LEMMA ShutdownRefines ==
    ASSUME IInv, IInv', NEW w \in Workers, ShutdownReconcile(w)
    PROVE  [Promise!Next]_PhaseMap
<1>1. ASSUME NEW j \in Jobs PROVE Quiet(j) \/ Lost(j)
  <2> DEFINE r == job[j]
  <2>1. r \in Row /\ clicked'[j] = clicked[j]
    BY RowFacts DEF ShutdownReconcile
  <2>2. CASE j \notin Unfinished(w)
    BY <2>1, <2>2 DEF ShutdownReconcile, Quiet
  <2>3. CASE j \in Unfinished(w)
    <3>1. job'[j] = HandedBack(r) /\ r.state # "ambiguous_submission"
      BY <2>3, RowFacts, NoneAssumption DEF ShutdownReconcile, Unfinished
    <3>2. CASE r.state \in InFlight
      <4>1. HandedBack(r) = Ambiguous(r)
        BY <3>2 DEF HandedBack, InFlight, Challenge
      <4> QED
        BY <2>1, <3>1, <3>2, <4>1 DEF Lost, Ambiguous, Row
    <3>3. CASE r.state \in Challenge
      <4>1. HandedBack(r) = [Fresh(r) EXCEPT !.owner = None, !.lease = "none", !.auth = FALSE]
        BY <3>3 DEF HandedBack, InFlight, Challenge
      <4>2. HandedBack(r).state = r.state
        BY <2>1, <4>1 DEF Fresh, Row
      <4> QED
        BY <2>1, <3>1, <4>2 DEF Quiet
    <3>4. CASE r.state \notin InFlight \cup Challenge
      <4>1. HandedBack(r) = [Fresh(Released(r)) EXCEPT !.auth = FALSE]
        BY <3>1, <3>4 DEF HandedBack
      <4>2. HandedBack(r).state = "ready"
        BY <2>1, <4>1 DEF Fresh, Released, Row
      <4> QED
        BY <2>1, <3>1, <3>4, <4>2 DEF Quiet, Uncertain, InFlight
    <3> QED
      BY <3>2, <3>3, <3>4
  <2> QED
    BY <2>2, <2>3
<1> QED
  BY <1>1, QuietOrLost

-----------------------------------------------------------------------------
(* JobQueue implements Submission: whatever workers, sweeps, stops, backups    *)
(* and operators do, in any order, a job is clicked only when its intent is    *)
(* durable, and between two clicks lies a forced resolution.                   *)
THEOREM QueueImplementsSubmission == Spec => ImplementsSubmission
<1>1. Init => Promise!Init
  <2> SUFFICES ASSUME Init PROVE PhaseMap = [j \in Jobs |-> "open"]
    BY DEF Promise!Init
  <2>1. \A j \in Jobs : job[j].state = "absent" /\ ~clicked[j]
    BY DEF Init, Absent
  <2> QED
    BY <2>1 DEF PhaseMap, Phase, InFlight
<1>2. IInv /\ [Next]_vars => [Promise!Next]_PhaseMap
  <2> SUFFICES ASSUME IInv, IInv', [Next]_vars PROVE [Promise!Next]_PhaseMap
    BY NextKeepsIInv
  <2>1. CASE UNCHANGED vars
    BY <2>1, NoRow DEF vars
  <2> QED
    BY <2>1, WorkerStepRefines, ShutdownRefines, JobStepRefines, ControlStepRefines
       DEF Next
<1> QED
  BY <1>1, <1>2, Inductive, PTL DEF Spec, ImplementsSubmission, Promise!Spec
=============================================================================
