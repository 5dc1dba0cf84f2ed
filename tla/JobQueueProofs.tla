-------------------------- MODULE JobQueueProofs --------------------------
(***************************************************************************)
(* Proofs about JobQueue for any set of jobs and workers and any bounds:    *)
(* its types, the three invariants about the click, and that it implements  *)
(* Submission.  All of them rest on the inductive invariant IInv.           *)
(*                                                                         *)
(* IInv splits into what it says of one row (RowOK), of one worker (Knows)  *)
(* and of the fence (ClickIsUndisturbed).  StepKeepsIInv puts the three     *)
(* back together, for any step; the lemmas after it show, action by action, *)
(* that a step keeps each of them.                                         *)
(***************************************************************************)
EXTENDS JobQueue, TLAPS

Accounted == InFlight \cup {"applied", "failed_permanent", "ambiguous_submission"}
Committed == InFlight \cup {"applied"}

Worker == [pc : Pc, job : Jobs \cup {None}, gen : 0 .. MaxGen, auth : BOOLEAN]

(* What IInv says of the row r of one job; c tells whether it was clicked. *)
RowOK(r, c) ==
    /\ r \in Row
    /\ r.state \in PreSubmit \cup InFlight => r.gen < MaxGen
    /\ r.attempts <= r.gen
    /\ c => r.state \in Accounted
    /\ r.state \in {"absent", "ambiguous_submission"} => r.owner = None

(* What IInv says of the types of one worker. *)
WorkerOK(w) ==
    /\ wk[w] \in Worker
    /\ Working(w) => wk[w].job \in Jobs /\ wk[w].gen < MaxGen

-----------------------------------------------------------------------------
(* IInv gives its parts. *)
LEMMA IInvParts ==
    ASSUME IInv
    PROVE  /\ \A j \in Jobs : RowOK(job[j], clicked[j])
           /\ \A w \in Workers : WorkerOK(w) /\ Knows(w)
           /\ ClickIsUndisturbed
           /\ job \in [Jobs -> Row] /\ wk \in [Workers -> Worker]
           /\ clicked \in [Jobs -> BOOLEAN]
           /\ ctl \in Control /\ fence \in Workers \cup {None}
BY DEF IInv, TypeOK, GenRoom, ClickIsAccountedFor, HolderKnows, AmbiguousIsUnowned,
       RowOK, WorkerOK, Worker, Accounted

(* And its parts give IInv back after a step. *)
LEMMA StepKeepsIInv ==
    ASSUME job' \in [Jobs -> Row], wk' \in [Workers -> Worker],
           clicked' \in [Jobs -> BOOLEAN],
           ctl' \in Control, fence' \in Workers \cup {None},
           \A j \in Jobs : RowOK(job[j], clicked[j])',
           \A w \in Workers : WorkerOK(w)' /\ Knows(w)',
           ClickIsUndisturbed'
    PROVE  IInv'
BY DEF IInv, TypeOK, GenRoom, ClickIsAccountedFor, HolderKnows, AmbiguousIsUnowned,
       RowOK, WorkerOK, Worker, Accounted

(* The names of the states are states. *)
LEMMA StateNames ==
    /\ {"ready", "retry_wait", "claimed", "navigating", "submit_intent", "verifying",
        "ambiguous_submission"} \subseteq JobState
    /\ Challenge \subseteq JobState
    /\ Terminal \subseteq JobState
BY DEF JobState, PreSubmit, InFlight, Queued

(* No operation changes a row but for its state, a cleared owner, a bump of the *)
(* generation where there is room, and the flags: each update is a row again.   *)
LEMMA RowUpdates ==
    ASSUME NEW r \in Row
    PROVE  /\ \A s \in JobState : [r EXCEPT !.state = s] \in Row
           /\ Released(r) \in Row
           /\ r.gen < MaxGen => Fresh(r) \in Row
           /\ r.gen < MaxGen => Ambiguous(r) \in Row
           /\ r.gen < MaxGen => Fresh(Released(r)) \in Row
<1>1. ASSUME NEW s \in JobState PROVE [r EXCEPT !.state = s] \in Row
  BY DEF Row
<1>2. Released(r) \in Row
  BY StateNames DEF Row, Released, Lease
<1>3. ASSUME NEW q \in Row, q.gen < MaxGen PROVE Fresh(q) \in Row
  BY <1>3, BoundAssumption DEF Row, Fresh
<1>4. ASSUME r.gen < MaxGen PROVE Ambiguous(r) \in Row
  <2>1. r.gen + 1 \in 0 .. MaxGen
    BY <1>4, BoundAssumption DEF Row
  <2>2. "ambiguous_submission" \in JobState
    BY StateNames
  <2> QED
    BY <2>1, <2>2, Zenon DEF Ambiguous, Row, Lease
<1>5. Released(r).gen = r.gen
  BY DEF Released, Row
<1> QED
  BY <1>1, <1>2, <1>3, <1>4, <1>5

(* What the updates keep of RowOK. *)
LEMMA RowOKUpdates ==
    ASSUME NEW r, NEW c \in BOOLEAN, RowOK(r, c)
    PROVE  /\ r.state \notin Accounted => ~c
           /\ r.gen < MaxGen => RowOK(Ambiguous(r), c)
           /\ ~c => RowOK(Released(r), c)
           /\ r.gen < MaxGen /\ ~c => RowOK(Fresh(Released(r)), c)
           /\ \A b \in BOOLEAN : RowOK([r EXCEPT !.auth = b], c)
           /\ \A b \in BOOLEAN : RowOK([r EXCEPT !.cancelled = b], c)
           /\ \A b \in BOOLEAN : RowOK([r EXCEPT !.due = b], c)
           /\ \A l \in Lease : RowOK([r EXCEPT !.lease = l], c)
           /\ \A s \in JobState \ {"absent", "ambiguous_submission"} :
                /\ s \in PreSubmit \cup InFlight => r.gen < MaxGen
                /\ c => s \in Accounted
                => RowOK([r EXCEPT !.state = s], c)
<1>0. r \in Row
  BY DEF RowOK
<1>1. r.state \notin Accounted => ~c
  BY DEF RowOK
<1>2. ASSUME r.gen < MaxGen PROVE RowOK(Ambiguous(r), c)
  <2>1. /\ Ambiguous(r).state = "ambiguous_submission"
        /\ Ambiguous(r).owner = None
        /\ Ambiguous(r).gen = r.gen + 1
        /\ Ambiguous(r).attempts = r.attempts
    BY <1>0 DEF Ambiguous, Row
  <2>2. Ambiguous(r) \in Row
    BY <1>0, <1>2, RowUpdates
  <2> QED
    BY <1>0, <2>1, <2>2, BoundAssumption DEF RowOK, Row, Accounted, PreSubmit, InFlight
<1>3. ASSUME NEW q, RowOK(q, c), ~c PROVE RowOK(Released(q), c)
  <2>1. /\ Released(q).state = "ready"
        /\ Released(q).gen = q.gen
        /\ Released(q).attempts = q.attempts
    BY <1>3 DEF Released, RowOK, Row
  <2>2. Released(q) \in Row
    BY <1>3, RowUpdates DEF RowOK
  <2> QED
    BY <1>3, <2>1, <2>2 DEF RowOK, PreSubmit, InFlight
<1>4. ASSUME r.gen < MaxGen, ~c PROVE RowOK(Fresh(Released(r)), c)
  <2>1. /\ Fresh(Released(r)).state = "ready"
        /\ Fresh(Released(r)).gen = r.gen + 1
        /\ Fresh(Released(r)).attempts = r.attempts
    BY <1>0 DEF Fresh, Released, Row
  <2>2. Fresh(Released(r)) \in Row
    BY <1>0, <1>4, RowUpdates
  <2> QED
    BY <1>0, <1>4, <2>1, <2>2, BoundAssumption DEF RowOK, Row, PreSubmit, InFlight
<1>5. ASSUME NEW b \in BOOLEAN
      PROVE  /\ RowOK([r EXCEPT !.auth = b], c)
             /\ RowOK([r EXCEPT !.cancelled = b], c)
             /\ RowOK([r EXCEPT !.due = b], c)
  BY <1>0 DEF RowOK, Row
<1>6. ASSUME NEW l \in Lease PROVE RowOK([r EXCEPT !.lease = l], c)
  BY <1>0 DEF RowOK, Row
<1>7. ASSUME NEW s \in JobState \ {"absent", "ambiguous_submission"},
             s \in PreSubmit \cup InFlight => r.gen < MaxGen,
             c => s \in Accounted
      PROVE  RowOK([r EXCEPT !.state = s], c)
  BY <1>0, <1>7 DEF RowOK, Row
<1> QED
  BY <1>1, <1>2, <1>3, <1>4, <1>5, <1>6, <1>7

-----------------------------------------------------------------------------
(* Steps in which no worker moves. *)

(* Where a row still has an owner, the owner's knowledge of it stays true. *)
Kept(j) ==
    job'[j].owner # None =>
        /\ job'[j].owner = job[j].owner
        /\ job'[j].gen = job[j].gen
        /\ clicked'[j] = clicked[j]
        /\ job[j].state \in Committed => job'[j].state \in Committed

(* While nobody holds the fence, no worker is in it. *)
LEMMA FenceFree ==
    ASSUME IInv, DbFree, UNCHANGED <<wk, fence>>
    PROVE  ClickIsUndisturbed'
<1>1. \A w \in Workers : wk[w].pc \notin {"fence", "clicked"}
  BY IInvParts, NoneAssumption DEF ClickIsUndisturbed, DbFree
<1> QED
  BY <1>1 DEF ClickIsUndisturbed

(* A step of nobody's: no worker moves, and what it writes keeps each row and   *)
(* what its holder knows.                                                      *)
LEMMA OperatorStep ==
    ASSUME IInv, UNCHANGED <<wk, fence>>,
           job' \in [Jobs -> Row], clicked' \in [Jobs -> BOOLEAN], ctl' \in Control,
           \A j \in Jobs : RowOK(job[j], clicked[j])' /\ Kept(j),
           ClickIsUndisturbed'
    PROVE  IInv'
<1>1. ASSUME NEW w \in Workers PROVE WorkerOK(w)' /\ Knows(w)'
  <2>1. WorkerOK(w)'
    BY IInvParts DEF WorkerOK, Working
  <2>2. ASSUME Working(w)', Holds(w)' PROVE Knows(w)'
    <3>1. /\ wk[w].job \in Jobs
          /\ job'[wk[w].job].owner # None
      BY <2>1, <2>2, NoneAssumption DEF WorkerOK, Holds
    <3>2. Working(w) /\ Holds(w) /\ Kept(wk[w].job)
      BY <2>2, <3>1 DEF Kept, Working, Holds
    <3> QED
      BY <3>1, <3>2, IInvParts DEF Knows, Kept, Committed
  <2> QED
    BY <2>1, <2>2 DEF Knows
<1>2. wk' \in [Workers -> Worker] /\ fence' \in Workers \cup {None}
  BY IInvParts
<1> QED
  BY <1>1, <1>2, StepKeepsIInv

(* Only one row is written. *)
LEMMA OneRow ==
    ASSUME IInv, UNCHANGED <<wk, fence, clicked>>,
           NEW j \in Jobs, NEW r, job' = [job EXCEPT ![j] = r],
           RowOK(r, clicked[j]),
           r.owner # None => /\ r.owner = job[j].owner
                             /\ r.gen = job[j].gen
                             /\ job[j].state \in Committed => r.state \in Committed,
           ctl' \in Control,
           ClickIsUndisturbed'
    PROVE  IInv'
<1>1. job' \in [Jobs -> Row] /\ clicked' \in [Jobs -> BOOLEAN]
  BY IInvParts DEF RowOK
<1>2. ASSUME NEW k \in Jobs PROVE RowOK(job[k], clicked[k])' /\ Kept(k)
  <2>1. job'[k] = IF k = j THEN r ELSE job[k]
    BY IInvParts
  <2> QED
    BY <2>1, IInvParts DEF Kept
<1> QED
  BY <1>1, <1>2, OperatorStep

(* Only the controls are written. *)
LEMMA OnlyControl ==
    ASSUME IInv, DbFree, UNCHANGED <<job, wk, fence, clicked>>, ctl' \in Control
    PROVE  IInv'
<1>1. ASSUME NEW k \in Jobs PROVE RowOK(job[k], clicked[k])' /\ Kept(k)
  BY IInvParts DEF Kept
<1> QED
  BY <1>1, IInvParts, FenceFree, OperatorStep

(* The steps on one job: enqueue, ageing, sweep, cancel, skip, resolve, resume. *)
LEMMA JobStepKeepsIInv ==
    ASSUME IInv, NEW j \in Jobs, JobStep(j)
    PROVE  IInv'
<1> DEFINE r == job[j]
           c == clicked[j]
<1>1. /\ r \in Row /\ c \in BOOLEAN /\ RowOK(r, c)
      /\ r.state \in PreSubmit \cup InFlight => r.gen < MaxGen
      /\ r.state \notin Accounted => ~c
      /\ r.state \in {"absent", "ambiguous_submission"} => r.owner = None
  BY IInvParts, RowOKUpdates DEF RowOK
<1>2. ctl \in Control
  BY IInvParts
<1>3. UNCHANGED <<wk, fence>> /\ DbFree => ClickIsUndisturbed'
  BY FenceFree
<1>4. Ambiguous(r).owner = None /\ Released(r).owner = None
      /\ Fresh(Released(r)).owner = None
  BY <1>1 DEF Row, Ambiguous, Released, Fresh
<1>5. CASE Enqueue(j)
  <2>1. job' = [job EXCEPT ![j] = [r EXCEPT !.state = "ready"]]
    BY <1>5 DEF Enqueue
  <2>2. RowOK([r EXCEPT !.state = "ready"], c)
    BY <1>1, <1>5, RowOKUpdates, StateNames DEF Enqueue, PreSubmit, InFlight, Accounted
  <2>3. [r EXCEPT !.state = "ready"].owner = None
    BY <1>1, <1>5 DEF Enqueue, Row
  <2> QED
    BY <1>2, <1>3, <1>5, <2>1, <2>2, <2>3, OneRow DEF Enqueue
<1>6. CASE LeaseAges(j)
  <2> DEFINE l == IF r.lease = "live" THEN "short" ELSE "expired"
  <2>1. job' = [job EXCEPT ![j] = [r EXCEPT !.lease = l]]
    BY <1>6 DEF LeaseAges
  <2>2. RowOK([r EXCEPT !.lease = l], c)
    BY <1>1, RowOKUpdates DEF Lease
  <2>3. /\ [r EXCEPT !.lease = l].owner = r.owner
        /\ [r EXCEPT !.lease = l].gen = r.gen
        /\ [r EXCEPT !.lease = l].state = r.state
        /\ [r EXCEPT !.lease = l].cancelled = r.cancelled
    BY <1>1 DEF Row
  <2>4. ClickIsUndisturbed'
    BY <1>6, <2>1, <2>3, IInvParts
       DEF LeaseAges, ClickIsUndisturbed, Owns, Holds, Operable, WorkerOK, Working
  <2> HIDE DEF l
  <2> QED
    BY <1>2, <1>6, <2>1, <2>2, <2>3, <2>4, OneRow DEF LeaseAges
<1>7. CASE RetryDue(j)
  <2>1. job' = [job EXCEPT ![j] = [r EXCEPT !.due = TRUE]]
    BY <1>7 DEF RetryDue
  <2>2. RowOK([r EXCEPT !.due = TRUE], c)
    BY <1>1, RowOKUpdates
  <2>3. /\ [r EXCEPT !.due = TRUE].owner = r.owner
        /\ [r EXCEPT !.due = TRUE].gen = r.gen
        /\ [r EXCEPT !.due = TRUE].state = r.state
        /\ [r EXCEPT !.due = TRUE].cancelled = r.cancelled
    BY <1>1 DEF Row
  <2>4. ClickIsUndisturbed'
    BY <1>7, <2>1, <2>3, IInvParts
       DEF RetryDue, ClickIsUndisturbed, Owns, Holds, Operable, WorkerOK, Working
  <2> QED
    BY <1>2, <1>7, <2>1, <2>2, <2>3, <2>4, OneRow DEF RetryDue
<1>8. CASE Sweep(j)
  <2>1. RowOK(Ambiguous(r), c)
    BY <1>1, <1>8, RowOKUpdates DEF Sweep
  <2>2. job' = [job EXCEPT ![j] = Ambiguous(r)] /\ ctl' \in Control
    BY <1>2, <1>8 DEF Sweep, Control
  <2> QED
    BY <1>3, <1>4, <1>8, <2>1, <2>2, OneRow DEF Sweep
<1>9. CASE ClearStateMark(j)
  <2>1. RowOK(Ambiguous(r), c)
    BY <1>1, <1>9, RowOKUpdates DEF ClearStateMark
  <2>2. job' = [job EXCEPT ![j] = Ambiguous(r)] /\ ctl' \in Control
    BY <1>2, <1>9 DEF ClearStateMark, Control
  <2> QED
    BY <1>3, <1>4, <1>9, <2>1, <2>2, OneRow DEF ClearStateMark
<1>10. CASE Cancel(j)
  <2> DEFINE q == [r EXCEPT !.cancelled = TRUE]
             s == IF r.state \in Queued \cup Challenge THEN "cancelled" ELSE r.state
  <2>1. job' = [job EXCEPT ![j] = [q EXCEPT !.state = s]]
    BY <1>10 DEF Cancel
  <2>2. RowOK(q, c) /\ q.state = r.state /\ q.owner = r.owner /\ q.gen = r.gen /\ q \in Row
    BY <1>1, RowOKUpdates DEF Row, RowOK
  <2>3. CASE r.state \in Queued \cup Challenge
    <3>1. RowOK([q EXCEPT !.state = "cancelled"], c)
      BY <1>1, <2>2, <2>3, RowOKUpdates, StateNames
         DEF Terminal, Queued, Challenge, PreSubmit, InFlight, Accounted
    <3>2. [q EXCEPT !.state = "cancelled"].owner = r.owner
          /\ [q EXCEPT !.state = "cancelled"].gen = r.gen
          /\ r.state \notin Committed
      BY <2>2, <2>3 DEF Row, Committed, InFlight, Queued, Challenge
    <3> QED
      BY <1>2, <1>3, <1>10, <2>1, <2>3, <3>1, <3>2, OneRow DEF Cancel
  <2>4. CASE r.state \notin Queued \cup Challenge
    <3>1. [q EXCEPT !.state = s] = q
      BY <2>2, <2>4 DEF Row
    <3> HIDE DEF q, s
    <3> QED
      BY <1>2, <1>3, <1>10, <2>1, <2>2, <3>1, OneRow DEF Cancel
  <2> QED
    BY <2>3, <2>4
<1>11. CASE Skip(j)
  <2>1. CASE r.state \in InFlight
    <3>1. RowOK(Ambiguous(r), c)
      BY <1>1, <2>1, RowOKUpdates
    <3>2. job' = [job EXCEPT ![j] = Ambiguous(r)] /\ ctl' \in Control
      BY <1>2, <1>11, <2>1 DEF Skip, Control, InFlight, Queued, PreSubmit, Challenge
    <3> QED
      BY <1>3, <1>4, <1>11, <3>1, <3>2, OneRow DEF Skip
  <2>2. CASE r.state \in Queued \cup PreSubmit \cup Challenge
    <3> DEFINE q == Fresh(Released(r))
               t == [[q EXCEPT !.state = "skipped"] EXCEPT !.cancelled = TRUE]
    <3>1. RowOK(q, c) /\ ~c
      BY <1>1, <1>11, <2>2, RowOKUpdates
         DEF Skip, Queued, PreSubmit, Challenge, Accounted, InFlight
    <3>2. RowOK([q EXCEPT !.state = "skipped"], c)
      BY <1>1, <3>1, RowOKUpdates, StateNames DEF Terminal, PreSubmit, InFlight
    <3>3. RowOK(t, c)
      BY <1>1, <3>2, RowOKUpdates
    <3>4. job' = [job EXCEPT ![j] = t] /\ UNCHANGED ctl
      BY <1>11, <2>2 DEF Skip, InFlight, Queued, PreSubmit, Challenge
    <3>5. t.owner = None
      BY <1>4, <3>1 DEF RowOK, Row
    <3> HIDE DEF t
    <3> QED
      BY <1>2, <1>3, <1>11, <3>3, <3>4, <3>5, OneRow DEF Skip
  <2> QED
    BY <1>11, <2>1, <2>2 DEF Skip
<1>12. ASSUME NEW force \in BOOLEAN, Resolve(j, force) PROVE IInv'
  <2> DEFINE q == Fresh(Released(r))
             t == [q EXCEPT !.cancelled = FALSE]
  <2>1. clicked' \in [Jobs -> BOOLEAN] /\ ~clicked'[j]
        /\ \A k \in Jobs \ {j} : clicked'[k] = clicked[k]
    BY <1>1, <1>12, IInvParts DEF Resolve, Challenge, Accounted, InFlight
  <2>2. RowOK(r, FALSE)
    BY <1>1 DEF RowOK
  <2>3. RowOK(q, FALSE)
    BY <1>12, <2>2, RowOKUpdates DEF Resolve
  <2>4. RowOK(t, FALSE)
    BY <2>3, RowOKUpdates
  <2>5. t.owner = None
    BY <1>4, <2>3 DEF RowOK, Row
  <2>6. job' = [job EXCEPT ![j] = t] /\ UNCHANGED <<wk, fence, ctl>> /\ DbFree
    BY <1>12 DEF Resolve
  <2> HIDE DEF t
  <2>7. job' \in [Jobs -> Row]
    BY <2>4, <2>6, IInvParts DEF RowOK
  <2>8. ASSUME NEW k \in Jobs PROVE RowOK(job[k], clicked[k])' /\ Kept(k)
    <3>1. CASE k = j
      <4>1. job'[k] = t /\ clicked'[k] = FALSE
        BY <2>1, <2>6, <3>1, IInvParts
      <4> QED
        BY <2>4, <2>5, <4>1 DEF Kept
    <3>2. CASE k # j
      <4>1. job'[k] = job[k] /\ clicked'[k] = clicked[k]
        BY <2>1, <2>6, <3>2, IInvParts
      <4> QED
        BY <4>1, IInvParts DEF Kept
    <3> QED
      BY <3>1, <3>2
  <2> QED
    BY <1>2, <1>3, <2>1, <2>6, <2>7, <2>8, OperatorStep
<1>13. CASE ReopenAuth(j)
  <2> DEFINE t == [Released(r) EXCEPT !.auth = TRUE]
  <2>1. RowOK(Released(r), c)
    BY <1>1, <1>13, RowOKUpdates DEF ReopenAuth, Accounted, InFlight
  <2>2. RowOK(t, c)
    BY <1>1, <2>1, RowOKUpdates
  <2>3. t.owner = None
    BY <1>4, <2>1 DEF RowOK, Row
  <2>4. job' = [job EXCEPT ![j] = t] /\ ctl' \in Control
    BY <1>2, <1>13 DEF ReopenAuth, Control
  <2> HIDE DEF t
  <2> QED
    BY <1>3, <1>13, <2>2, <2>3, <2>4, OneRow DEF ReopenAuth
<1>14. CASE ResumeJob(j)
  <2>1. RowOK(Released(r), c)
    BY <1>1, <1>14, RowOKUpdates
       DEF ResumeJob, Resumable, Challenge, PreSubmit, Accounted, InFlight
  <2>2. job' = [job EXCEPT ![j] = Released(r)] /\ ctl' \in Control
    BY <1>2, <1>14 DEF ResumeJob, Control, Unpaused
  <2> QED
    BY <1>3, <1>4, <1>14, <2>1, <2>2, OneRow DEF ResumeJob
<1>15. CASE ResumeConfirmed(j)
  <2> DEFINE t == [r EXCEPT !.state = "applied"]
  <2>1. RowOK(t, c)
    BY <1>1, RowOKUpdates, StateNames DEF Terminal, PreSubmit, InFlight, Accounted
  <2>2. t.owner = r.owner /\ t.gen = r.gen /\ t.state = "applied"
    BY <1>1 DEF Row
  <2>3. job' = [job EXCEPT ![j] = t] /\ ctl' \in Control
    BY <1>2, <1>15 DEF ResumeConfirmed, Control, Unpaused
  <2> HIDE DEF t
  <2> QED
    BY <1>3, <1>15, <2>1, <2>2, <2>3, OneRow DEF ResumeConfirmed, Committed
<1> QED
  BY <1>5, <1>6, <1>7, <1>8, <1>9, <1>10, <1>11, <1>12, <1>13, <1>14, <1>15 DEF JobStep

-----------------------------------------------------------------------------
(* The steps on the controls, stop and clear-state with their jobs among them.  *)
LEMMA ControlStepKeepsIInv ==
    ASSUME IInv, ControlStep
    PROVE  IInv'
<1>1. ctl \in Control /\ \A j \in Jobs : RowOK(job[j], clicked[j]) /\ clicked[j] \in BOOLEAN
  BY IInvParts
<1>2. CASE EmergencyStop
  <2>1. ctl' \in Control /\ DbFree /\ UNCHANGED <<wk, fence, clicked>>
    BY <1>1, <1>2 DEF EmergencyStop, Control
  <2>2. ASSUME NEW j \in Jobs PROVE RowOK(job'[j], clicked[j]) /\ Kept(j) /\ job'[j] \in Row
    <3>1. job[j] \in Row /\ (job[j].state \notin Accounted => ~clicked[j])
          /\ (job[j].state \in PreSubmit \cup InFlight => job[j].gen < MaxGen)
      BY <1>1, RowOKUpdates DEF RowOK
    <3>2. CASE job[j].state \in InFlight
      <4>1. job'[j] = Ambiguous(job[j]) /\ job'[j].owner = None
        BY <1>2, <3>1, <3>2 DEF EmergencyStop, Ambiguous, Row, PreSubmit, InFlight
      <4> QED
        BY <1>1, <3>1, <3>2, <4>1, RowOKUpdates DEF Kept, RowOK
    <3>3. CASE job[j].state \in PreSubmit
      <4>1. job'[j] = Fresh(Released(job[j])) /\ job'[j].owner = None
        BY <1>2, <3>1, <3>3 DEF EmergencyStop, Fresh, Released, Row, PreSubmit, InFlight
      <4> QED
        BY <1>1, <3>1, <3>3, <4>1, RowOKUpdates
           DEF Kept, RowOK, PreSubmit, InFlight, Accounted
    <3>4. CASE job[j].state \notin PreSubmit \cup InFlight
      <4>1. job'[j] = job[j] /\ clicked'[j] = clicked[j]
        BY <1>2, <3>4 DEF EmergencyStop
      <4> QED
        BY <1>1, <3>1, <4>1 DEF Kept
    <3> QED
      BY <3>2, <3>3, <3>4
  <2>3. job' = [j \in Jobs |-> job'[j]]
    BY <1>2 DEF EmergencyStop
  <2>4. job' \in [Jobs -> Row] /\ clicked' \in [Jobs -> BOOLEAN]
    BY <2>1, <2>2, <2>3, IInvParts
  <2> QED
    BY <2>1, <2>2, <2>4, FenceFree, OperatorStep
<1>3. CASE ClearStateReset
  <2> DEFINE stuck(j) == /\ job[j].state \in PreSubmit \cup Challenge
                         /\ job[j].state # "unknown_question"
                         /\ ~job[j].cancelled
  <2>1. ctl' \in Control /\ DbFree /\ UNCHANGED <<wk, fence, clicked>>
    BY <1>1, <1>3 DEF ClearStateReset, Control
  <2>2. ASSUME NEW j \in Jobs PROVE RowOK(job'[j], clicked[j]) /\ Kept(j) /\ job'[j] \in Row
    <3>1. job[j] \in Row /\ (job[j].state \notin Accounted => ~clicked[j])
      BY <1>1, RowOKUpdates DEF RowOK
    <3>2. CASE stuck(j)
      <4> DEFINE q == Fresh(Released(job[j]))
      <4>1. job'[j] = [q EXCEPT !.auth = FALSE] /\ job[j].gen < MaxGen
        BY <1>3, <3>2 DEF ClearStateReset
      <4>2. RowOK(q, clicked[j])
        BY <1>1, <3>1, <3>2, <4>1, RowOKUpdates
           DEF PreSubmit, Challenge, Accounted, InFlight
      <4>3. RowOK([q EXCEPT !.auth = FALSE], clicked[j])
        BY <1>1, <4>2, RowOKUpdates
      <4>4. job'[j].owner = None
        BY <3>1, <4>1 DEF Fresh, Released, Row
      <4> QED
        BY <4>1, <4>3, <4>4 DEF Kept, RowOK
    <3>3. CASE ~stuck(j)
      <4>1. job'[j] = job[j] /\ clicked'[j] = clicked[j]
        BY <1>3, <3>3 DEF ClearStateReset
      <4> QED
        BY <1>1, <3>1, <4>1 DEF Kept
    <3> QED
      BY <3>2, <3>3
  <2>3. job' = [j \in Jobs |-> job'[j]]
    BY <1>3 DEF ClearStateReset
  <2>4. job' \in [Jobs -> Row] /\ clicked' \in [Jobs -> BOOLEAN]
    BY <2>1, <2>2, <2>3, IInvParts
  <2> QED
    BY <2>1, <2>2, <2>4, FenceFree, OperatorStep
<1>4. CASE TakeoverLapses
  <2>1. ctl' \in Control /\ ClickIsUndisturbed'
    BY <1>1, <1>4, IInvParts
       DEF TakeoverLapses, Control, ClickIsUndisturbed, Operable, Owns, Holds
  <2>2. ASSUME NEW j \in Jobs PROVE RowOK(job[j], clicked[j])' /\ Kept(j)
    BY <1>1, <1>4 DEF Kept, TakeoverLapses
  <2> QED
    BY <1>4, <2>1, <2>2, IInvParts, OperatorStep DEF TakeoverLapses
<1>5. CASE \/ Pause \/ ClearStop \/ ResumeIdle \/ ClaimTakeover
           \/ ReleaseTakeover \/ BackupQuiesces \/ BackupReleases
  <2>1. ctl' \in Control
    BY <1>1, <1>5 DEF Pause, ClearStop, ResumeIdle, ClaimTakeover, ReleaseTakeover,
                      BackupQuiesces, BackupReleases, Unpaused, Control
  <2>2. DbFree /\ UNCHANGED <<job, wk, fence, clicked>>
    BY <1>5 DEF Pause, ClearStop, ResumeIdle, ClaimTakeover, ReleaseTakeover,
                BackupQuiesces, BackupReleases
  <2> QED
    BY <2>1, <2>2, OnlyControl
<1> QED
  BY <1>2, <1>3, <1>4, <1>5 DEF ControlStep

(* Several rows, those the stopping worker owns, are written at once. *)
LEMMA ShutdownKeepsIInv ==
    ASSUME IInv, NEW w \in Workers, ShutdownReconcile(w)
    PROVE  IInv'
<1>1. /\ DbFree /\ UNCHANGED <<ctl, wk, fence, clicked>>
      /\ \A j \in Unfinished(w) : job[j].gen < MaxGen
      /\ job' = [j \in Jobs |-> IF j \in Unfinished(w) THEN HandedBack(job[j]) ELSE job[j]]
  BY DEF ShutdownReconcile
<1>2. ASSUME NEW j \in Jobs
      PROVE  RowOK(job'[j], clicked[j]) /\ Kept(j) /\ job'[j] \in Row
  <2> DEFINE r == job[j]
             c == clicked[j]
  <2>1. /\ r \in Row /\ c \in BOOLEAN /\ RowOK(r, c)
        /\ r.state \notin Accounted => ~c
        /\ r.state \in {"absent", "ambiguous_submission"} => r.owner = None
    BY IInvParts, RowOKUpdates DEF RowOK
  <2>2. CASE j \in Unfinished(w)
    <3>1. r.state \notin Terminal /\ r.gen < MaxGen
          /\ r.state \notin {"absent", "ambiguous_submission"}
      BY <1>1, <2>1, <2>2, NoneAssumption DEF Unfinished
    <3>2. ASSUME r.state \in InFlight
          PROVE  RowOK(HandedBack(r), c) /\ HandedBack(r).owner = None
      <4>1. HandedBack(r) = Ambiguous(r)
        BY <3>2 DEF HandedBack, InFlight, Challenge
      <4>2. Ambiguous(r).owner = None
        BY <2>1 DEF Ambiguous, Row
      <4> QED
        BY <2>1, <3>1, <4>1, <4>2, RowOKUpdates
    <3>3. ASSUME r.state \in Challenge
          PROVE  RowOK(HandedBack(r), c) /\ HandedBack(r).owner = None
      <4> DEFINE q == [Fresh(r) EXCEPT !.owner = None, !.lease = "none", !.auth = FALSE]
      <4>1. HandedBack(r) = q
        BY <3>3 DEF HandedBack, InFlight, Challenge
      <4>2. Fresh(r) \in Row /\ Fresh(r).state = r.state
            /\ Fresh(r).attempts = r.attempts /\ Fresh(r).gen = r.gen + 1
        BY <2>1, <3>1, RowUpdates DEF Fresh, Row
      <4>3. q \in Row /\ q.state = r.state /\ q.attempts = r.attempts
            /\ q.gen = r.gen + 1 /\ q.owner = None
        BY <4>2 DEF Row, Lease
      <4> HIDE DEF q
      <4>4. RowOK(q, c)
        BY <2>1, <3>3, <4>3, BoundAssumption
           DEF RowOK, Row, Challenge, PreSubmit, InFlight, Accounted
      <4> QED
        BY <4>1, <4>3, <4>4
    <3>4. ASSUME r.state \notin InFlight \cup Challenge
          PROVE  RowOK(HandedBack(r), c) /\ HandedBack(r).owner = None
      <4> DEFINE q == Fresh(Released(r))
      <4>1. HandedBack(r) = [q EXCEPT !.auth = FALSE]
        BY <3>1, <3>4 DEF HandedBack
      <4>2. q.owner = None
        BY <2>1 DEF Fresh, Released, Row
      <4>3. RowOK(q, c)
        BY <2>1, <3>1, <3>4, RowOKUpdates DEF Terminal, Accounted
      <4>4. RowOK([q EXCEPT !.auth = FALSE], c)
        BY <2>1, <4>3, RowOKUpdates
      <4>5. [q EXCEPT !.auth = FALSE].owner = None
        BY <4>2, <4>3 DEF RowOK, Row
      <4> QED
        BY <4>1, <4>4, <4>5
    <3>5. RowOK(HandedBack(r), c) /\ HandedBack(r).owner = None
      BY <3>2, <3>3, <3>4
    <3>6. job'[j] = HandedBack(r)
      BY <1>1, <2>2
    <3> QED
      BY <3>5, <3>6 DEF Kept, RowOK
  <2>3. CASE j \notin Unfinished(w)
    <3>1. job'[j] = job[j] /\ clicked'[j] = clicked[j]
      BY <1>1, <2>3
    <3> QED
      BY <2>1, <3>1 DEF Kept
  <2> QED
    BY <2>2, <2>3
<1>3. job' = [j \in Jobs |-> job'[j]]
  BY <1>1
<1>4. job' \in [Jobs -> Row] /\ clicked' \in [Jobs -> BOOLEAN] /\ ctl' \in Control
  BY <1>1, <1>2, <1>3, IInvParts
<1> QED
  BY <1>1, <1>2, <1>4, FenceFree, OperatorStep

-----------------------------------------------------------------------------
(* Steps of a worker. *)

(* A step of w writes rows only for itself, and leaves every other worker      *)
(* what it knew.                                                               *)
LEMMA WorkerMoves ==
    ASSUME IInv, NEW w \in Workers, NEW s \in Worker, wk' = [wk EXCEPT ![w] = s],
           s.pc \notin {"idle", "polling"} => s.job \in Jobs /\ s.gen < MaxGen,
           job' \in [Jobs -> Row], clicked' \in [Jobs -> BOOLEAN], ctl' \in Control,
           fence' \in Workers \cup {None},
           \A j \in Jobs : RowOK(job[j], clicked[j])',
           \A j \in Jobs : \/ job'[j] = job[j] /\ clicked'[j] = clicked[j]
                           \/ job'[j].owner = w,
           ClickIsUndisturbed',
           Knows(w)'
    PROVE  IInv'
<1>1. wk' \in [Workers -> Worker] /\ wk'[w] = s
      /\ \A v \in Workers \ {w} : wk'[v] = wk[v]
  BY IInvParts
<1>2. WorkerOK(w)'
  BY <1>1 DEF WorkerOK, Working
<1>3. ASSUME NEW v \in Workers \ {w} PROVE WorkerOK(v)' /\ Knows(v)'
  <2>1. WorkerOK(v)'
    BY <1>1, IInvParts DEF WorkerOK, Working
  <2>2. ASSUME Working(v)', Holds(v)' PROVE Knows(v)'
    <3>1. wk'[v] = wk[v] /\ wk[v].job \in Jobs /\ job'[wk[v].job].owner = v
      BY <1>1, <2>1, <2>2 DEF WorkerOK, Holds
    <3>2. job'[wk[v].job] = job[wk[v].job] /\ clicked'[wk[v].job] = clicked[wk[v].job]
      BY <3>1
    <3> QED
      BY <2>2, <3>1, <3>2, IInvParts DEF Knows, Working, Holds
  <2> QED
    BY <2>1, <2>2 DEF Knows
<1> QED
  BY <1>1, <1>2, <1>3, StepKeepsIInv

(* A worker that is not at the button after its step disturbs no other there,   *)
(* when it changes nothing, or while nobody holds the fence.                   *)
LEMMA Undisturbed ==
    ASSUME IInv, NEW w \in Workers, NEW s \in Worker, wk' = [wk EXCEPT ![w] = s],
           s.pc \notin {"fence", "clicked"},
           DbFree \/ (UNCHANGED <<job, ctl>> /\ (fence # w => UNCHANGED fence))
    PROVE  ClickIsUndisturbed'
<1>1. wk'[w] = s /\ \A v \in Workers \ {w} : wk'[v] = wk[v]
  BY IInvParts
<1>2. ASSUME NEW v \in Workers, wk'[v].pc \in {"fence", "clicked"}
      PROVE  v # w /\ fence = v /\ UNCHANGED <<job, ctl, fence>>
  <2>1. v # w /\ wk[v].pc \in {"fence", "clicked"}
    BY <1>1, <1>2
  <2>2. fence = v
    BY <2>1, IInvParts DEF ClickIsUndisturbed
  <2> QED
    BY <2>1, <2>2, NoneAssumption DEF DbFree
<1> QED
  BY <1>1, <1>2, IInvParts DEF ClickIsUndisturbed, Operable, Owns, Holds

(* What a worker that holds row r knows at pc of whether it clicked. *)
Consistent(pc, r, c) ==
    /\ pc \in BeforeClick => ~c
    /\ pc \in AfterClick => c
    /\ pc \in AfterIntent => r.state \in Committed

(* Where the steps of a worker lead: on with its job, or away from it. *)
LEMMA WorkerGoes ==
    ASSUME IInv, NEW w \in Workers
    PROVE  /\ Idle \in Worker
           /\ Working(w) => /\ wk[w].job \in Jobs
                            /\ wk[w].gen < MaxGen
                            /\ RowOK(job[wk[w].job], clicked[wk[w].job])
                            /\ clicked[wk[w].job] \in BOOLEAN
           /\ Working(w) /\ Holds(w) =>
                Consistent(wk[w].pc, job[wk[w].job], clicked[wk[w].job])
           /\ \A pc \in Pc : /\ [wk[w] EXCEPT !.pc = pc] \in Worker
                             /\ [wk[w] EXCEPT !.pc = pc].pc = pc
                             /\ [wk[w] EXCEPT !.pc = pc].job = wk[w].job
                             /\ [wk[w] EXCEPT !.pc = pc].gen = wk[w].gen
<1>1. Idle \in Worker
  BY BoundAssumption DEF Idle, Worker, Pc
<1>2. WorkerOK(w) /\ Knows(w) /\ wk[w] \in Worker
  BY IInvParts
<1>3. \A pc \in Pc : /\ [wk[w] EXCEPT !.pc = pc] \in Worker
                     /\ [wk[w] EXCEPT !.pc = pc].pc = pc
                     /\ [wk[w] EXCEPT !.pc = pc].job = wk[w].job
                     /\ [wk[w] EXCEPT !.pc = pc].gen = wk[w].gen
  BY <1>2 DEF Worker
<1> QED
  BY <1>1, <1>2, <1>3, IInvParts DEF WorkerOK, Knows, Consistent, Committed

(* w goes on to pc, and writes no row. *)
LEMMA GoesOn ==
    ASSUME IInv, NEW w \in Workers, NEW pc \in Pc, Goto(w, pc),
           Working(w) \/ pc = "polling",
           Working(w) /\ Holds(w) =>
             Consistent(pc, job[wk[w].job], clicked[wk[w].job]),
           UNCHANGED <<job, clicked>>, ctl' \in Control,
           fence' \in Workers \cup {None}, ClickIsUndisturbed'
    PROVE  IInv'
<1> DEFINE s == [wk[w] EXCEPT !.pc = pc]
<1>1. /\ s \in Worker /\ s.pc = pc /\ s.job = wk[w].job /\ s.gen = wk[w].gen
      /\ wk' = [wk EXCEPT ![w] = s]
      /\ s.pc \notin {"idle", "polling"} => s.job \in Jobs /\ s.gen < MaxGen
  BY WorkerGoes DEF Goto
<1>2. wk'[w] = s
  BY <1>1, IInvParts
<1> HIDE DEF s
<1>3. Knows(w)'
  BY <1>1, <1>2 DEF Knows, Holds, Working, Consistent, Committed
<1>4. \A j \in Jobs : RowOK(job[j], clicked[j])'
  BY IInvParts
<1> QED
  BY <1>1, <1>3, <1>4, IInvParts, WorkerMoves

(* w leaves its job, and writes no row. *)
LEMMA Leaves ==
    ASSUME IInv, NEW w \in Workers, Rest(w),
           UNCHANGED <<job, ctl, clicked>>,
           fence' \in {fence, None}, fence' # fence => fence = w
    PROVE  IInv'
<1>1. Idle \in Worker /\ Idle.pc = "idle" /\ wk' = [wk EXCEPT ![w] = Idle]
  BY WorkerGoes DEF Idle, Rest
<1>2. ClickIsUndisturbed'
  BY <1>1, Undisturbed
<1>3. Knows(w)'
  BY <1>1, IInvParts DEF Knows, Working
<1>4. \A j \in Jobs : RowOK(job[j], clicked[j])'
  BY IInvParts
<1> QED
  BY <1>1, <1>2, <1>3, <1>4, IInvParts, WorkerMoves

(* w writes the row of its job, keeps it, and goes on to pc or leaves. *)
LEMMA Writes ==
    ASSUME IInv, NEW w \in Workers, Working(w), Holds(w), DbFree,
           NEW pc \in Pc \ {"fence", "clicked"}, Goto(w, pc) \/ Rest(w),
           NEW r, job' = [job EXCEPT ![wk[w].job] = r],
           RowOK(r, clicked[wk[w].job]), r.owner = w,
           Goto(w, pc) => Consistent(pc, r, clicked[wk[w].job]),
           UNCHANGED <<ctl, clicked, fence>>
    PROVE  IInv'
<1> DEFINE s == IF Goto(w, pc) THEN [wk[w] EXCEPT !.pc = pc] ELSE Idle
           k == wk[w].job
<1>1. /\ s \in Worker /\ s.pc \in {pc, "idle"}
      /\ s.pc # "idle" => s.job = wk[w].job /\ s.gen = wk[w].gen /\ Goto(w, pc) /\ s.pc = pc
      /\ wk' = [wk EXCEPT ![w] = s]
      /\ k \in Jobs /\ wk[w].gen < MaxGen
  BY WorkerGoes DEF Goto, Rest, Idle
<1>2. wk'[w] = s
  BY <1>1, IInvParts
<1> HIDE DEF s
<1>3. job' \in [Jobs -> Row] /\ \A j \in Jobs : job'[j] = IF j = k THEN r ELSE job[j]
  BY <1>1, IInvParts DEF RowOK
<1>4. Knows(w)'
  BY <1>1, <1>2, <1>3 DEF Knows, Holds, Working, Consistent, Committed
<1>5. \A j \in Jobs : /\ RowOK(job[j], clicked[j])'
                      /\ \/ job'[j] = job[j] /\ clicked'[j] = clicked[j]
                         \/ job'[j].owner = w
  BY <1>3, IInvParts
<1>6. ClickIsUndisturbed'
  BY <1>1, Undisturbed
<1> QED
  BY <1>1, <1>3, <1>4, <1>5, <1>6, IInvParts, WorkerMoves

(* A worker that holds its job may write a state that admits the click it made. *)
LEMMA HolderSetsState ==
    ASSUME IInv, NEW w \in Workers, Working(w), Holds(w),
           NEW s \in JobState \ {"absent", "ambiguous_submission"},
           wk[w].pc \in BeforeClick \/ s \in Accounted
    PROVE  /\ RowOK([job[wk[w].job] EXCEPT !.state = s], clicked[wk[w].job])
           /\ [job[wk[w].job] EXCEPT !.state = s].owner = w
           /\ [job[wk[w].job] EXCEPT !.state = s].state = s
<1> DEFINE r == job[wk[w].job]
           c == clicked[wk[w].job]
<1>1. /\ RowOK(r, c) /\ c \in BOOLEAN /\ r.owner = w /\ r.gen < MaxGen
      /\ wk[w].pc \in BeforeClick => ~c
  BY WorkerGoes DEF Holds, Consistent
<1>2. RowOK([r EXCEPT !.state = s], c)
  BY <1>1, RowOKUpdates
<1> QED
  BY <1>1, <1>2 DEF RowOK, Row

(* A worker's steps up to the safety gate.                                      *)
LEMMA PreSubmitStepKeepsIInv ==
    ASSUME IInv, NEW w \in Workers, PreSubmitStep(w)
    PROVE  IInv'
<1> DEFINE k == wk[w].job
           r == job[k]
           c == clicked[k]
<1>1. /\ Working(w)
      /\ k \in Jobs /\ RowOK(r, c) /\ c \in BOOLEAN /\ r \in Row
      /\ Holds(w) => Consistent(wk[w].pc, r, c)
      /\ ctl \in Control /\ fence \in Workers \cup {None}
  <2>1. Working(w)
    BY DEF PreSubmitStep, Navigate, PauseForAuth, AuthReopened, FailInteractive,
           PauseAfterFailure, FailTransient, FailPermanent, Reschedule, FillOnly,
           SafetyGate, LeaveBrowser, Working
  <2> QED
    BY <2>1, WorkerGoes, IInvParts DEF RowOK
<1>2. ASSUME NEW pc \in Pc \ {"fence", "clicked"}, Goto(w, pc),
             DbFree \/ UNCHANGED ctl, UNCHANGED <<job, fence>>
      PROVE  ClickIsUndisturbed'
  BY <1>1, <1>2, WorkerGoes, Undisturbed DEF Goto
<1>3. /\ {"filling", "gated", "reauth", "reopened", "waiting", "pausing"}
           \subseteq Pc \ {"fence", "clicked"}
      /\ \A q \in {"waiting", "pausing"}, x \in Row : Consistent(q, x, c)
  BY DEF Pc, Consistent, BeforeClick, AfterClick, AfterIntent
<1>4. CASE Navigate(w)
  <2> DEFINE pc == IF wk[w].auth THEN "reauth" ELSE "filling"
             s == [wk[w] EXCEPT !.pc = pc]
             t == [s EXCEPT !.auth = FALSE]
             q == [r EXCEPT !.state = "navigating"]
  <2>1. /\ t \in Worker /\ t.pc = pc /\ t.job = k /\ t.gen = wk[w].gen
        /\ wk' = [wk EXCEPT ![w] = t] /\ k \in Jobs /\ wk[w].gen < MaxGen
    <3>1. s \in Worker /\ s.pc = pc /\ s.job = k /\ s.gen = wk[w].gen
      BY <1>3, WorkerGoes
    <3>2. wk' = [wk EXCEPT ![w] = t]
      BY <1>4 DEF Navigate
    <3> HIDE DEF s
    <3> QED
      BY <1>1, <3>1, <3>2, WorkerGoes DEF Worker
  <2>2. wk'[w] = t
    BY <2>1, IInvParts
  <2> HIDE DEF t
  <2>3. ClickIsUndisturbed'
    BY <1>4, <2>1, Undisturbed DEF Navigate
  <2>4. CASE ~Owns(w)
    <3>1. Knows(w)'
      BY <1>1, <1>4, <2>1, <2>2, <2>4, WorkerGoes
         DEF Navigate, Knows, Holds, Owns, Consistent, BeforeClick, AfterClick, AfterIntent
    <3>2. \A j \in Jobs : RowOK(job[j], clicked[j])'
      BY <1>4, <2>4, IInvParts DEF Navigate
    <3> QED
      BY <1>4, <2>1, <2>3, <2>4, <3>1, <3>2, IInvParts, WorkerMoves DEF Navigate
  <2>5. CASE Owns(w)
    <3>1. RowOK(q, c) /\ q.owner = w /\ ~c
      BY <1>1, <1>4, <2>5, HolderSetsState, StateNames
         DEF Owns, Navigate, BeforeClick, Consistent
    <3>2. RowOK([q EXCEPT !.auth = FALSE], c) /\ [q EXCEPT !.auth = FALSE].owner = w
      BY <1>1, <3>1, RowOKUpdates DEF RowOK, Row
    <3>3. job' = [job EXCEPT ![k] = [q EXCEPT !.auth = FALSE]]
      BY <1>4, <2>5 DEF Navigate
    <3> HIDE DEF q
    <3>4. /\ job' \in [Jobs -> Row]
          /\ \A j \in Jobs : job'[j] = IF j = k THEN [q EXCEPT !.auth = FALSE] ELSE job[j]
      BY <1>1, <3>2, <3>3, IInvParts DEF RowOK
    <3>5. \A j \in Jobs : RowOK(job[j], clicked[j])'
      BY <1>4, <3>2, <3>4, IInvParts DEF Navigate
    <3>6. Knows(w)'
      BY <1>4, <2>1, <2>2, <3>1, <3>4
         DEF Navigate, Knows, BeforeClick, AfterClick, AfterIntent
    <3>7. \A j \in Jobs : \/ job'[j] = job[j] /\ clicked'[j] = clicked[j]
                          \/ job'[j].owner = w
      BY <1>4, <3>2, <3>4 DEF Navigate
    <3>8. UNCHANGED <<ctl, fence, clicked>>
      BY <1>4 DEF Navigate
    <3> QED
      BY <2>1, <2>3, <3>4, <3>5, <3>6, <3>7, <3>8, IInvParts, WorkerMoves
  <2> QED
    BY <2>4, <2>5
<1>5. CASE PauseForAuth(w)
  <2>1. ctl' \in Control /\ Goto(w, "reopened") /\ DbFree /\ UNCHANGED <<job, fence, clicked>>
    BY <1>1, <1>5 DEF PauseForAuth, Control
  <2>2. Holds(w) => Consistent("reopened", r, c)
    BY <1>1, <1>5 DEF PauseForAuth, Consistent, BeforeClick, AfterClick, AfterIntent
  <2> QED
    BY <1>1, <1>2, <1>3, <2>1, <2>2, GoesOn
<1>6. CASE AuthReopened(w)
  <2>1. CASE Owns(w)
    <3>1. RowOK([r EXCEPT !.state = "auth_required"], c)
          /\ [r EXCEPT !.state = "auth_required"].owner = w
          /\ [r EXCEPT !.state = "auth_required"] \in Row
      BY <1>1, <1>6, <2>1, HolderSetsState, StateNames
         DEF Owns, AuthReopened, BeforeClick, Challenge, RowOK
    <3>2. job' = [job EXCEPT ![k] = [r EXCEPT !.state = "auth_required"]]
      BY <1>6, <2>1 DEF AuthReopened
    <3> QED
      BY <1>1, <1>3, <1>6, <2>1, <3>1, <3>2, Writes DEF AuthReopened, Owns
  <2>2. CASE ~Owns(w) /\ Goto(w, "waiting")
    BY <1>1, <1>2, <1>3, <1>6, <2>2, GoesOn DEF AuthReopened
  <2>3. CASE ~Owns(w) /\ Rest(w)
    BY <1>6, <2>3, Leaves DEF AuthReopened
  <2> QED
    BY <1>6, <2>1, <2>2, <2>3 DEF AuthReopened
<1>7. ASSUME NEW category \in Challenge, FailInteractive(w, category) PROVE IInv'
  <2> DEFINE q == [r EXCEPT !.state = category]
  <2>1. Holds(w) /\ DbFree /\ job' = [job EXCEPT ![k] = q]
        /\ wk[w].pc \in BeforeClick /\ Goto(w, "pausing") /\ UNCHANGED <<ctl, clicked, fence>>
    BY <1>7 DEF FailInteractive, Transition, Owns, BeforeClick
  <2>2. RowOK(q, c) /\ q.owner = w /\ q \in Row
    BY <1>1, <2>1, HolderSetsState, StateNames DEF Challenge, RowOK
  <2> QED
    BY <1>1, <1>3, <2>1, <2>2, Writes
<1>8. CASE PauseAfterFailure(w)
  <2>1. ctl' \in Control /\ Goto(w, "waiting") /\ DbFree /\ UNCHANGED <<job, fence, clicked>>
    BY <1>1, <1>8 DEF PauseAfterFailure, Control
  <2> QED
    BY <1>1, <1>2, <1>3, <2>1, GoesOn
<1>9. CASE FailTransient(w)
  <2>1. Holds(w) /\ DbFree /\ wk[w].pc \in BeforeClick
        /\ (Goto(w, "waiting") \/ Rest(w))
        /\ UNCHANGED <<ctl, clicked, fence>>
    BY <1>9 DEF FailTransient, Transition, Owns, BeforeClick
  <2>2. /\ "waiting" \in Pc \ {"fence", "clicked"}
        /\ \A x \in Row : Consistent("waiting", x, c)
    BY <1>3
  <2>3. CASE r.attempts < MaxRetries
    <3> DEFINE q == [r EXCEPT !.state = "retry_wait"]
               d == [q EXCEPT !.due = FALSE]
               a == [d EXCEPT !.auth = FALSE]
    <3>1. job' = [job EXCEPT ![k] = a]
      BY <1>9, <2>3 DEF FailTransient, Transition
    <3>2. RowOK(q, c) /\ q.owner = w /\ q \in Row
      BY <1>1, <2>1, HolderSetsState, StateNames DEF RowOK
    <3> HIDE DEF q
    <3>3. /\ d \in Row /\ d.owner = q.owner /\ d.state = q.state
          /\ d.gen = q.gen /\ d.attempts = q.attempts
      BY <3>2 DEF Row
    <3> HIDE DEF d
    <3>4. /\ a \in Row /\ a.owner = d.owner /\ a.state = d.state
          /\ a.gen = d.gen /\ a.attempts = d.attempts
      BY <3>3 DEF Row
    <3>5. RowOK(a, c) /\ a.owner = w
      BY <3>2, <3>3, <3>4 DEF RowOK
    <3> HIDE DEF a
    <3> QED
      BY <1>1, <2>1, <2>2, <3>1, <3>4, <3>5, Writes
  <2>4. CASE ~(r.attempts < MaxRetries)
    <3> DEFINE q == [r EXCEPT !.state = "failed_permanent"]
    <3>1. job' = [job EXCEPT ![k] = q]
      BY <1>9, <2>4 DEF FailTransient, Transition
    <3>2. RowOK(q, c) /\ q.owner = w /\ q \in Row
      BY <1>1, <2>1, HolderSetsState, StateNames DEF Terminal, RowOK
    <3> HIDE DEF q
    <3> QED
      BY <1>1, <2>1, <2>2, <3>1, <3>2, Writes
  <2> QED
    BY <2>3, <2>4
<1>10. CASE FailPermanent(w)
  <2> DEFINE q == [r EXCEPT !.state = "failed_permanent"]
  <2>1. Holds(w) /\ DbFree /\ job' = [job EXCEPT ![k] = q]
        /\ wk[w].pc \in BeforeClick /\ Rest(w) /\ UNCHANGED <<ctl, clicked, fence>>
    BY <1>10 DEF FailPermanent, Transition, Owns, BeforeClick
  <2>2. RowOK(q, c) /\ q.owner = w /\ q \in Row
    BY <1>1, <2>1, HolderSetsState, StateNames DEF Terminal, RowOK
  <2> QED
    BY <1>1, <1>3, <2>1, <2>2, Writes
<1>11. CASE Reschedule(w)
  <2> DEFINE q == [r EXCEPT !.state = "retry_wait"]
             n == IF r.attempts > 0 THEN r.attempts - 1 ELSE 0
             a == [r EXCEPT !.state = "retry_wait", !.due = FALSE, !.auth = FALSE,
                            !.attempts = n]
  <2>1. Holds(w) /\ DbFree /\ wk[w].pc \in BeforeClick
        /\ Rest(w) /\ UNCHANGED <<ctl, clicked, fence>>
    BY <1>11 DEF Reschedule, Transition, Owns, BeforeClick
  <2>2. job' = [job EXCEPT ![k] = a]
    BY <1>11 DEF Reschedule, Transition
  <2>3. n \in 0 .. MaxGen /\ n <= r.gen /\ "retry_wait" \in JobState
    BY <1>1, StateNames, BoundAssumption DEF RowOK, Row
  <2>4. ~c
    BY <1>1, <2>1 DEF Consistent
  <2> HIDE DEF n
  <2>5. a.state = "retry_wait" /\ a.attempts = n /\ a.gen = r.gen /\ a.owner = r.owner
    BY <1>1 DEF Row
  <2>6. a \in Row
    BY <1>1, <2>3, Zenon DEF Row
  <2> HIDE DEF a
  <2>7. RowOK(a, c) /\ a.owner = w
    BY <1>1, <2>1, <2>3, <2>4, <2>5, <2>6 DEF RowOK, PreSubmit, InFlight, Holds
  <2> QED
    BY <1>1, <1>3, <2>1, <2>2, <2>6, <2>7, Writes
<1>12. CASE FillOnly(w)
  <2> DEFINE q == [r EXCEPT !.state = "skipped"]
  <2>1. Holds(w) /\ DbFree /\ job' = [job EXCEPT ![k] = q]
        /\ wk[w].pc \in BeforeClick /\ Rest(w) /\ UNCHANGED <<ctl, clicked, fence>>
    BY <1>12 DEF FillOnly, Transition, Owns, BeforeClick
  <2>2. RowOK(q, c) /\ q.owner = w /\ q \in Row
    BY <1>1, <2>1, HolderSetsState, StateNames DEF Terminal, RowOK
  <2> QED
    BY <1>1, <1>3, <2>1, <2>2, Writes
<1>13. CASE SafetyGate(w)
  <2>1. Goto(w, "gated") /\ UNCHANGED <<job, ctl, fence, clicked>>
    BY <1>13 DEF SafetyGate
  <2>2. Holds(w) => Consistent("gated", r, c)
    BY <1>1, <1>13 DEF SafetyGate, Consistent, BeforeClick, AfterClick, AfterIntent
  <2> QED
    BY <1>1, <1>2, <1>3, <2>1, <2>2, GoesOn
<1>14. CASE LeaveBrowser(w)
  BY <1>14, Leaves DEF LeaveBrowser
<1> QED
  BY <1>4, <1>5, <1>6, <1>7, <1>8, <1>9, <1>10, <1>11, <1>12, <1>13, <1>14 DEF PreSubmitStep

(* A worker's steps from the intent to the outcome.                            *)
LEMMA SubmitStepKeepsIInv ==
    ASSUME IInv, NEW w \in Workers, SubmitStep(w)
    PROVE  IInv'
<1> DEFINE k == wk[w].job
           r == job[k]
           c == clicked[k]
<1>1. /\ Working(w)
      /\ k \in Jobs /\ RowOK(r, c) /\ c \in BOOLEAN /\ r \in Row
      /\ Holds(w) => Consistent(wk[w].pc, r, c)
      /\ ctl \in Control /\ fence \in Workers \cup {None}
  <2>1. Working(w)
    BY DEF SubmitStep, RecordIntent, BeginFence, FenceRefused, Click, FinishFence,
           ClickRaised, Verifying, SettleConfirmed, SettleRejected, SettleAmbiguous,
           Working
  <2> QED
    BY <2>1, WorkerGoes, IInvParts DEF RowOK
<1>2. ASSUME NEW pc \in Pc \ {"fence", "clicked"}, Goto(w, pc),
             DbFree \/ (UNCHANGED ctl /\ (fence # w => UNCHANGED fence)), UNCHANGED job
      PROVE  ClickIsUndisturbed'
  BY <1>1, <1>2, WorkerGoes, Undisturbed DEF Goto
<1>3. {"intent", "uncertain", "sent", "confirm"} \subseteq Pc \ {"fence", "clicked"}
      /\ {"fence", "clicked"} \subseteq Pc
  BY DEF Pc
<1>4. wk[w].pc \in {"fence", "clicked"} =>
        /\ fence = w /\ Operable /\ ctl.takeover # "live" /\ Owns(w)
        /\ r.state = "submit_intent"
  BY IInvParts DEF ClickIsUndisturbed
<1>5. CASE RecordIntent(w)
  <2> DEFINE q == [r EXCEPT !.state = "submit_intent"]
  <2>1. Holds(w) /\ DbFree /\ job' = [job EXCEPT ![k] = q]
        /\ wk[w].pc \in BeforeClick /\ Goto(w, "intent") /\ UNCHANGED <<ctl, clicked, fence>>
    BY <1>5 DEF RecordIntent, Transition, Owns, BeforeClick
  <2>2. RowOK(q, c) /\ q.owner = w /\ q.state = "submit_intent"
    BY <1>1, <2>1, HolderSetsState, StateNames
  <2>3. Consistent("intent", q, c)
    BY <1>1, <2>1, <2>2
       DEF Consistent, BeforeClick, AfterClick, AfterIntent, Committed, InFlight
  <2> HIDE DEF q
  <2> QED
    BY <1>1, <1>3, <2>1, <2>2, <2>3, Writes
<1>6. CASE BeginFence(w)
  <2> DEFINE s == [wk[w] EXCEPT !.pc = "fence"]
  <2>1. /\ fence = None /\ fence' = w /\ Goto(w, "fence")
        /\ UNCHANGED <<job, ctl, clicked>>
        /\ Owns(w) /\ r.state = "submit_intent" /\ Operable /\ ctl.takeover # "live"
    BY <1>6 DEF BeginFence, DbFree
  <2>2. Holds(w) => Consistent("fence", r, c)
    BY <1>1, <1>6, <2>1
       DEF BeginFence, Consistent, BeforeClick, AfterClick, AfterIntent, Committed, InFlight
  <2>3. ClickIsUndisturbed'
    <3>1. s \in Worker /\ s.job = k /\ s.gen = wk[w].gen /\ wk' = [wk EXCEPT ![w] = s]
      BY <1>3, <2>1, WorkerGoes DEF Goto
    <3>2. wk'[w] = s /\ \A v \in Workers \ {w} : wk'[v] = wk[v]
      BY <3>1, IInvParts
    <3>3. \A v \in Workers : wk[v].pc \notin {"fence", "clicked"}
      BY <2>1, IInvParts, NoneAssumption DEF ClickIsUndisturbed
    <3> QED
      BY <2>1, <3>1, <3>2, <3>3 DEF ClickIsUndisturbed, Operable, Owns, Holds
  <2> QED
    BY <1>1, <1>3, <2>1, <2>2, <2>3, GoesOn
<1>7. CASE FenceRefused(w)
  <2>1. Goto(w, "uncertain") /\ UNCHANGED <<job, ctl, fence, clicked>>
    BY <1>7 DEF FenceRefused
  <2>2. Holds(w) => Consistent("uncertain", r, c)
    BY <1>1, <1>7 DEF FenceRefused, Consistent, BeforeClick, AfterClick, AfterIntent
  <2> QED
    BY <1>1, <1>2, <1>3, <2>1, <2>2, GoesOn
<1>8. CASE Click(w)
  <2> DEFINE s == [wk[w] EXCEPT !.pc = "clicked"]
  <2>1. /\ wk[w].pc = "fence" /\ clicked' = [clicked EXCEPT ![k] = TRUE]
        /\ Goto(w, "clicked") /\ UNCHANGED <<job, ctl, fence>>
    BY <1>8 DEF Click
  <2>2. /\ s \in Worker /\ s.job = k /\ s.gen = wk[w].gen /\ s.pc = "clicked"
        /\ wk' = [wk EXCEPT ![w] = s] /\ wk[w].gen < MaxGen
    BY <1>1, <1>3, <2>1, WorkerGoes DEF Goto
  <2>3. wk'[w] = s /\ \A v \in Workers \ {w} : wk'[v] = wk[v]
    BY <2>2, IInvParts
  <2>4. /\ clicked' \in [Jobs -> BOOLEAN] /\ clicked'[k]
        /\ \A j \in Jobs \ {k} : clicked'[j] = clicked[j]
    BY <1>1, <2>1, IInvParts
  <2>5. r.owner = w /\ r.state = "submit_intent"
    BY <1>4, <2>1 DEF Owns, Holds
  <2>6. \A j \in Jobs : /\ RowOK(job[j], clicked[j])'
                        /\ \/ job'[j] = job[j] /\ clicked'[j] = clicked[j]
                           \/ job'[j].owner = w
    <3>1. RowOK(r, TRUE)
      BY <1>1, <2>5 DEF RowOK, Accounted, InFlight
    <3> QED
      BY <2>1, <2>4, <2>5, <3>1, IInvParts
  <2> HIDE DEF s
  <2>7. ClickIsUndisturbed'
    BY <1>4, <2>1, <2>2, <2>3, IInvParts DEF ClickIsUndisturbed, Operable, Owns, Holds
  <2>8. Knows(w)'
    BY <2>1, <2>2, <2>3, <2>4, <2>5
       DEF Knows, BeforeClick, AfterClick, AfterIntent, InFlight
  <2> QED
    BY <1>1, <2>1, <2>2, <2>4, <2>6, <2>7, <2>8, IInvParts, WorkerMoves
<1>9. CASE FinishFence(w)
  <2>1. Goto(w, "sent") /\ UNCHANGED <<job, ctl, clicked>> /\ fence' = None /\ fence = w
    BY <1>4, <1>9 DEF FinishFence
  <2>2. Holds(w) => Consistent("sent", r, c)
    BY <1>1, <1>9 DEF FinishFence, Consistent, BeforeClick, AfterClick, AfterIntent
  <2> QED
    BY <1>1, <1>2, <1>3, <2>1, <2>2, GoesOn
<1>10. CASE ClickRaised(w)
  <2>1. Goto(w, "uncertain") /\ UNCHANGED <<job, ctl, clicked>> /\ fence' = None /\ fence = w
    BY <1>4, <1>10 DEF ClickRaised
  <2>2. Holds(w) => Consistent("uncertain", r, c)
    BY <1>1, <1>10 DEF ClickRaised, Consistent, BeforeClick, AfterClick, AfterIntent
  <2> QED
    BY <1>1, <1>2, <1>3, <2>1, <2>2, GoesOn
<1>11. CASE Verifying(w)
  <2>1. Goto(w, "confirm") /\ UNCHANGED <<ctl, fence, clicked>> /\ DbFree /\ wk[w].pc = "sent"
    BY <1>11 DEF Verifying
  <2>2. CASE Owns(w)
    <3> DEFINE q == [r EXCEPT !.state = "verifying"]
    <3>1. job' = [job EXCEPT ![k] = q] /\ Holds(w)
      BY <1>11, <2>2 DEF Verifying, Owns
    <3>2. RowOK(q, c) /\ q.owner = w /\ q.state = "verifying"
      BY <1>1, <3>1, HolderSetsState, StateNames DEF Accounted, InFlight
    <3>3. Consistent("confirm", q, c)
      BY <1>1, <2>1, <3>1, <3>2
         DEF Consistent, BeforeClick, AfterClick, AfterIntent, Committed, InFlight
    <3> HIDE DEF q
    <3> QED
      BY <1>1, <1>3, <2>1, <3>1, <3>2, <3>3, Writes
  <2>3. CASE ~Owns(w)
    <3>1. UNCHANGED job
      BY <1>11, <2>3 DEF Verifying
    <3>2. Holds(w) => Consistent("confirm", r, c)
      BY <1>1, <2>1 DEF Consistent, BeforeClick, AfterClick, AfterIntent
    <3> QED
      BY <1>1, <1>2, <1>3, <2>1, <3>1, <3>2, GoesOn
  <2> QED
    BY <2>2, <2>3
<1>12. ASSUME NEW s \in {"applied", "failed_permanent"}, Holds(w), DbFree, Rest(w),
              job' = [job EXCEPT ![k] = [r EXCEPT !.state = s]],
              UNCHANGED <<ctl, fence, clicked>>
       PROVE  IInv'
  <2> DEFINE q == [r EXCEPT !.state = s]
  <2>1. RowOK(q, c) /\ q.owner = w
    BY <1>1, <1>12, HolderSetsState, StateNames DEF Terminal, Accounted
  <2>2. Consistent("waiting", q, c) /\ "waiting" \in Pc \ {"fence", "clicked"}
    BY DEF Consistent, BeforeClick, AfterClick, AfterIntent, Pc
  <2> QED
    BY <1>1, <1>12, <2>1, <2>2, Writes
<1>13. CASE SettleConfirmed(w)
  BY <1>12, <1>13 DEF SettleConfirmed, Transition, Owns
<1>14. CASE SettleRejected(w)
  BY <1>12, <1>14 DEF SettleRejected, Transition, Owns
<1>15. CASE SettleAmbiguous(w)
  <2>1. /\ wk' = [wk EXCEPT ![w] = Idle] /\ Idle \in Worker /\ Idle.pc = "idle"
        /\ DbFree /\ Holds(w) /\ ctl' \in Control
        /\ job' = [job EXCEPT ![k] = Ambiguous(r)] /\ UNCHANGED <<fence, clicked>>
    BY <1>1, <1>15, WorkerGoes DEF SettleAmbiguous, Rest, Idle, Control
  <2>2. r.gen < MaxGen
    BY <2>1, <1>1, WorkerGoes DEF Holds
  <2>3. RowOK(Ambiguous(r), c) /\ Ambiguous(r).owner = None
    BY <1>1, <2>2, RowOKUpdates DEF Ambiguous, Row
  <2>4. ClickIsUndisturbed'
    BY <2>1, Undisturbed
  <2>5. wk'[w] = Idle /\ (\A v \in Workers \ {w} : wk'[v] = wk[v])
        /\ wk' \in [Workers -> Worker]
    BY <2>1, IInvParts
  <2>6. /\ job' \in [Jobs -> Row]
        /\ \A j \in Jobs : job'[j] = IF j = k THEN Ambiguous(r) ELSE job[j]
    BY <2>1, <2>3, IInvParts DEF RowOK
  <2>7. \A j \in Jobs : RowOK(job[j], clicked[j])'
    BY <2>1, <2>3, <2>6, IInvParts
  <2>8. ASSUME NEW v \in Workers PROVE WorkerOK(v)' /\ Knows(v)'
    <3>1. CASE v = w
      BY <2>1, <2>5, <3>1 DEF WorkerOK, Knows, Working
    <3>2. CASE v # w
      <4>1. WorkerOK(v)'
        BY <2>5, <3>2, IInvParts DEF WorkerOK, Working
      <4>2. Holds(v)' /\ Working(v)' => wk'[v].job # k /\ wk'[v].job \in Jobs
        BY <2>3, <2>6, <4>1, NoneAssumption DEF Holds, WorkerOK
      <4> QED
        BY <2>1, <2>5, <2>6, <3>2, <4>1, <4>2, IInvParts DEF Knows, Working, Holds
    <3> QED
      BY <3>1, <3>2
  <2> QED
    BY <2>1, <2>4, <2>5, <2>6, <2>7, <2>8, IInvParts, StepKeepsIInv
<1> QED
  BY <1>5, <1>6, <1>7, <1>8, <1>9, <1>10, <1>11, <1>13, <1>14, <1>15 DEF SubmitStep

(* Any step of a worker: claiming, renewing and vanishing as well.             *)
LEMMA WorkerStepKeepsIInv ==
    ASSUME IInv, NEW w \in Workers, WorkerStep(w)
    PROVE  IInv'
<1>1. ctl \in Control /\ fence \in Workers \cup {None}
  BY IInvParts
<1>2. CASE Poll(w)
  <2> DEFINE s == [wk[w] EXCEPT !.pc = "polling"]
  <2>1. Goto(w, "polling") /\ UNCHANGED <<job, ctl, fence, clicked>> /\ "polling" \in Pc
        /\ ~Working(w)
    BY <1>2 DEF Poll, Pc, Working
  <2>2. s \in Worker /\ s.pc = "polling" /\ wk' = [wk EXCEPT ![w] = s]
    BY <2>1, WorkerGoes DEF Goto
  <2>3. ClickIsUndisturbed'
    BY <2>1, <2>2, Undisturbed
  <2> QED
    BY <1>1, <2>1, <2>3, GoesOn
<1>3. ASSUME NEW dismissed, Claim(w, dismissed) PROVE IInv'
  <2>1. PICK j \in Jobs :
          /\ Claimable(j) /\ job[j].gen + 1 < MaxGen
          /\ job' = [job EXCEPT ![j] = ClaimedBy(job[j], w)]
          /\ wk' = [wk EXCEPT ![w] = [pc |-> "claimed", job |-> j,
                      gen |-> job[j].gen + 1, auth |-> job[j].auth]]
    BY <1>3 DEF Claim
  <2> DEFINE r == job[j]
             n == r.gen + 1
             q == ClaimedBy(r, w)
             s == [pc |-> "claimed", job |-> j, gen |-> n, auth |-> r.auth]
  <2>2. DbFree /\ UNCHANGED <<ctl, fence, clicked>>
    BY <1>3 DEF Claim
  <2>3. RowOK(r, clicked[j]) /\ r \in Row /\ clicked[j] \in BOOLEAN /\ ~clicked[j]
    <3>1. r.state \notin Accounted
      BY <2>1 DEF Claimable, Accounted, PreSubmit, InFlight
    <3> QED
      BY <3>1, IInvParts DEF RowOK
  <2>4. n \in 0 .. MaxGen /\ n < MaxGen /\ r.attempts + 1 \in 0 .. MaxGen
        /\ r.attempts + 1 <= n
    BY <2>1, <2>3, BoundAssumption DEF RowOK, Row
  <2>5. /\ q.state = "claimed" /\ q.owner = w /\ q.gen = n
        /\ q.attempts = r.attempts + 1
    BY <2>3 DEF Row, ClaimedBy
  <2>6. "claimed" \in JobState /\ "live" \in Lease
    BY StateNames DEF Lease
  <2>7. q \in Row
    BY <2>3, <2>4, <2>6, Zenon DEF Row, ClaimedBy
  <2>8. s \in Worker /\ s.pc = "claimed" /\ s.job = j /\ s.gen = n
    BY <2>3, <2>4 DEF Worker, Pc, Row
  <2>9. job' = [job EXCEPT ![j] = q] /\ wk' = [wk EXCEPT ![w] = s]
    BY <2>1
  <2> HIDE DEF q, s, n
  <2>10. RowOK(q, clicked[j])
    BY <2>3, <2>4, <2>5, <2>7 DEF RowOK
  <2>11. /\ job' \in [Jobs -> Row]
         /\ \A i \in Jobs : job'[i] = IF i = j THEN q ELSE job[i]
    BY <2>7, <2>9, IInvParts
  <2>12. \A i \in Jobs : /\ RowOK(job[i], clicked[i])'
                         /\ \/ job'[i] = job[i] /\ clicked'[i] = clicked[i]
                            \/ job'[i].owner = w
    BY <2>2, <2>5, <2>10, <2>11, IInvParts
  <2>13. Knows(w)'
    <3>1. wk'[w] = s
      BY <2>9, IInvParts
    <3> QED
      BY <2>2, <2>3, <2>8, <3>1 DEF Knows, AfterClick, AfterIntent
  <2>14. ClickIsUndisturbed'
    BY <2>2, <2>8, <2>9, Undisturbed
  <2> QED
    BY <2>2, <2>4, <2>8, <2>9, <2>11, <2>12, <2>13, <2>14, IInvParts, WorkerMoves
<1>4. CASE Renew(w)
  <2> DEFINE k == wk[w].job
             q == [job[k] EXCEPT !.lease = "live"]
  <2>1. /\ DbFree /\ UNCHANGED <<ctl, wk, fence, clicked>>
        /\ job' = [job EXCEPT ![k] = q] /\ Working(w)
    BY <1>4 DEF Renew
  <2>2. k \in Jobs /\ RowOK(job[k], clicked[k]) /\ clicked[k] \in BOOLEAN /\ job[k] \in Row
    BY <2>1, WorkerGoes DEF RowOK
  <2>3. RowOK(q, clicked[k])
    BY <2>2, RowOKUpdates DEF Lease
  <2>4. q.owner = job[k].owner /\ q.gen = job[k].gen /\ q.state = job[k].state
    BY <2>2 DEF Row
  <2> HIDE DEF q
  <2> QED
    BY <1>1, <2>1, <2>2, <2>3, <2>4, FenceFree, OneRow
<1>5. CASE WorkerGone(w)
  BY <1>5, Leaves DEF WorkerGone
<1> QED
  BY <1>2, <1>3, <1>4, <1>5, PreSubmitStepKeepsIInv, SubmitStepKeepsIInv DEF WorkerStep

(* A stuttering step.                                                          *)
LEMMA StutterKeepsIInv ==
    ASSUME IInv, UNCHANGED vars
    PROVE  IInv'
<1>1. UNCHANGED <<job, ctl, wk, fence, clicked>>
  BY DEF vars
<1>2. (\A j \in Jobs : RowOK(job[j], clicked[j])' /\ Kept(j)) /\ ClickIsUndisturbed'
  BY <1>1, IInvParts DEF Kept, ClickIsUndisturbed, Operable, Owns, Holds
<1> QED
  BY <1>1, <1>2, IInvParts, OperatorStep

(* Every step keeps the invariant ...                                          *)
LEMMA NextKeepsIInv ==
    ASSUME IInv, [Next]_vars
    PROVE  IInv'
BY WorkerStepKeepsIInv, ShutdownKeepsIInv, JobStepKeepsIInv, ControlStepKeepsIInv,
   StutterKeepsIInv DEF Next

(* ... and the empty queue satisfies it.                                       *)
LEMMA InitIInv ==
    ASSUME Init
    PROVE  IInv
<1>1. Absent \in Row /\ Absent.state = "absent" /\ Absent.owner = None
      /\ Absent.attempts = 0 /\ Absent.gen = 0
  BY BoundAssumption DEF Absent, Row, JobState, Lease
<1>2. Idle \in Worker /\ Idle.pc = "idle"
  BY BoundAssumption DEF Idle, Worker, Pc
<1>3. job = [j \in Jobs |-> Absent] /\ job \in [Jobs -> Row]
  BY <1>1 DEF Init
<1>4. wk = [w \in Workers |-> Idle] /\ wk \in [Workers -> Worker]
  BY <1>2 DEF Init
<1>5. ctl \in Control /\ fence \in Workers \cup {None}
      /\ clicked = [j \in Jobs |-> FALSE] /\ clicked \in [Jobs -> BOOLEAN]
  BY DEF Init, Control
<1>6. TypeOK
  BY <1>2, <1>3, <1>4, <1>5 DEF TypeOK, Working, Worker
<1>7. GenRoom
  BY <1>1, <1>2, <1>3, <1>4 DEF GenRoom, Working, PreSubmit, InFlight
<1>8. ClickIsAccountedFor /\ HolderKnows /\ ClickIsUndisturbed /\ AmbiguousIsUnowned
  BY <1>1, <1>2, <1>3, <1>4, <1>5
     DEF ClickIsAccountedFor, HolderKnows, Knows, Working, ClickIsUndisturbed,
         AmbiguousIsUnowned
<1> QED
  BY <1>6, <1>7, <1>8 DEF IInv

-----------------------------------------------------------------------------
(* The theorems. *)

(* IInv holds throughout: what every other theorem of this module rests on. *)
THEOREM Inductive == Spec => []IInv
<1>1. Init => IInv
  BY InitIInv
<1>2. IInv /\ [Next]_vars => IInv'
  BY NextKeepsIInv
<1> QED
  BY <1>1, <1>2, PTL DEF Spec

(* Every variable keeps its type: the columns of automation_jobs and of        *)
(* runtime_control hold what the code declares.                                *)
THEOREM TypeCorrect == Spec => []TypeOK
<1>1. IInv => TypeOK
  BY DEF IInv
<1> QED
  BY <1>1, Inductive, PTL

(* No worker reaches the submit button of a job that was clicked and not       *)
(* reopened by force: it is in the fence, so it owns the job, and an owner     *)
(* that has not clicked knows that nobody did.                                 *)
THEOREM NeverClickedTwice == Spec => []NoSecondClick
<1>1. IInv => NoSecondClick
  <2> SUFFICES ASSUME IInv, NEW w \in Workers, wk[w].pc = "fence"
               PROVE  ~clicked[wk[w].job]
    BY DEF NoSecondClick
  <2>1. Owns(w) /\ Working(w)
    BY IInvParts DEF ClickIsUndisturbed, Working
  <2> QED
    BY <2>1, IInvParts DEF Knows, Owns, BeforeClick
<1> QED
  BY <1>1, Inductive, PTL

(* The job of a click is in flight, settled or ambiguous, and in no state from *)
(* which the queue hands it out.                                               *)
THEOREM ClickNeverForgotten == Spec => []ClickIsAccountedFor
<1>1. IInv => ClickIsAccountedFor
  BY DEF IInv
<1> QED
  BY <1>1, Inductive, PTL

(* The fence of begin_submit_click_fence shuts out pauses, stops, takeovers    *)
(* and other owners until the click is over.                                   *)
THEOREM FenceHolds == Spec => []ClickIsUndisturbed
<1>1. IInv => ClickIsUndisturbed
  BY DEF IInv
<1> QED
  BY <1>1, Inductive, PTL
=============================================================================
