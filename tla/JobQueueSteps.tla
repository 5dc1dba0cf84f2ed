--------------------------- MODULE JobQueueSteps ---------------------------
(***************************************************************************)
(* What no step of JobQueue may do to a row, for any set of jobs and any    *)
(* bounds: let two owners share a generation, let a worker that was fenced  *)
(* off write, or take a job out of an ambiguous submission unasked.         *)
(*                                                                         *)
(* WorkerWrites says what a worker's step does to the queue; a step of      *)
(* anybody else turns rows one by one (Turned), and moves no worker.        *)
(***************************************************************************)
EXTENDS JobQueueProofs

(* A row r may become s: the generation does not go back, and a new owner has *)
(* a new one.                                                                 *)
Fenced(r, s) ==
    /\ s.gen >= r.gen
    /\ s.owner \notin {None, r.owner} => s.gen > r.gen

(* What a step of another than a worker makes of a row: it takes the owner    *)
(* off or leaves it, and leaves an ambiguous submission ambiguous.            *)
Turned(r, s) ==
    /\ s.gen >= r.gen
    /\ s.owner \in {None, r.owner}
    /\ r.state = "ambiguous_submission" => s.state = "ambiguous_submission"

LEMMA TurnedIsFenced ==
    ASSUME NEW r, NEW s, Turned(r, s)
    PROVE  Fenced(r, s)
BY DEF Turned, Fenced

(* The updates the operations share turn a row. *)
LEMMA UpdatesTurn ==
    ASSUME NEW r \in Row
    PROVE  /\ Turned(r, r)
           /\ Turned(r, Ambiguous(r))
           /\ r.state # "ambiguous_submission" =>
                /\ Turned(r, Released(r))
                /\ Turned(r, Fresh(Released(r)))
BY DEF Row, Turned, Ambiguous, Released, Fresh

(* An update of one row turns every row. *)
LEMMA OneTurned ==
    ASSUME job \in [Jobs -> Row], NEW j \in Jobs, NEW s,
           job' = [job EXCEPT ![j] = s], Turned(job[j], s)
    PROVE  \A k \in Jobs : Turned(job[k], job'[k])
<1> TAKE k \in Jobs
<1>1. CASE k = j
  BY <1>1
<1>2. CASE k # j
  <2>1. job'[k] = job[k] /\ job[k] \in Row
    BY <1>2
  <2> QED
    BY <2>1, UpdatesTurn
<1> QED
  BY <1>1, <1>2

-----------------------------------------------------------------------------
(* A worker's step writes no row, or claims one, or writes the one it holds,  *)
(* which it keeps or gives up.                                                *)
WritesItsOwn(w) ==
    /\ Working(w) /\ Holds(w)
    /\ \A k \in Jobs : k # wk[w].job => job'[k] = job[k]
    /\ job'[wk[w].job].gen >= job[wk[w].job].gen
    /\ job'[wk[w].job].owner \in {None, w}

LEMMA PreSubmitWrites ==
    ASSUME IInv, NEW w \in Workers, PreSubmitStep(w)
    PROVE  job' = job \/ WritesItsOwn(w)
<1> DEFINE j == wk[w].job
<1>1. Working(w)
  BY DEF PreSubmitStep, Working, Navigate, PauseForAuth, AuthReopened, FailInteractive,
     PauseAfterFailure, FailTransient, FailPermanent, Reschedule, FillOnly, SafetyGate, LeaveBrowser
<1>2. j \in Jobs /\ job \in [Jobs -> Row] /\ job[j] \in Row
  BY <1>1, WorkerGoes DEF RowOK, IInv, TypeOK
<1> USE <1>1, <1>2 DEF WritesItsOwn, Row
<1>3. CASE Navigate(w)
  BY <1>3 DEF Navigate, Owns, Holds
<1>4. CASE AuthReopened(w)
  BY <1>4 DEF AuthReopened, Owns, Holds
<1>5. CASE \E category \in Challenge : FailInteractive(w, category)
  BY <1>5 DEF FailInteractive, Transition, Owns, Holds
<1>6. CASE FailTransient(w)
  BY <1>6 DEF FailTransient, Transition, Owns, Holds
<1>7. CASE FailPermanent(w)
  BY <1>7 DEF FailPermanent, Transition, Owns, Holds
<1>8. CASE Reschedule(w)
  BY <1>8 DEF Reschedule, Transition, Owns, Holds
<1>9. CASE FillOnly(w)
  BY <1>9 DEF FillOnly, Transition, Owns, Holds
<1>10. CASE PauseForAuth(w) \/ PauseAfterFailure(w) \/ SafetyGate(w) \/ LeaveBrowser(w)
  BY <1>10 DEF PauseForAuth, PauseAfterFailure, SafetyGate, LeaveBrowser
<1> QED
  BY <1>3, <1>4, <1>5, <1>6, <1>7, <1>8, <1>9, <1>10 DEF PreSubmitStep

LEMMA SubmitWrites ==
    ASSUME IInv, NEW w \in Workers, SubmitStep(w)
    PROVE  job' = job \/ WritesItsOwn(w)
<1> DEFINE j == wk[w].job
<1>1. Working(w)
  BY DEF SubmitStep, Working, RecordIntent, BeginFence, FenceRefused, Click, FinishFence,
     ClickRaised, Verifying, SettleConfirmed, SettleRejected, SettleAmbiguous
<1>2. j \in Jobs /\ job \in [Jobs -> Row] /\ job[j] \in Row
  BY <1>1, WorkerGoes DEF RowOK, IInv, TypeOK
<1> USE <1>1, <1>2 DEF WritesItsOwn, Row
<1>3. CASE RecordIntent(w)
  BY <1>3 DEF RecordIntent, Transition, Owns, Holds
<1>4. CASE Verifying(w)
  BY <1>4 DEF Verifying, Owns, Holds
<1>5. CASE SettleConfirmed(w)
  BY <1>5 DEF SettleConfirmed, Transition, Owns, Holds
<1>6. CASE SettleRejected(w)
  BY <1>6 DEF SettleRejected, Transition, Owns, Holds
<1>7. CASE SettleAmbiguous(w)
  BY <1>7 DEF SettleAmbiguous, Ambiguous, Holds
<1>8. CASE BeginFence(w) \/ FenceRefused(w) \/ Click(w) \/ FinishFence(w) \/ ClickRaised(w)
  BY <1>8 DEF BeginFence, FenceRefused, Click, FinishFence, ClickRaised
<1> QED
  BY <1>3, <1>4, <1>5, <1>6, <1>7, <1>8 DEF SubmitStep

(* A claim makes the one row it takes the worker's, in a new generation. *)
LEMMA ClaimTakes ==
    ASSUME IInv, NEW w \in Workers, NEW dismissed, Claim(w, dismissed)
    PROVE  /\ ~Working(w)
           /\ \A k \in Jobs : /\ Fenced(job[k], job'[k])
                              /\ job[k].state = "ambiguous_submission" => job'[k] = job[k]
<1>1. PICK j \in Jobs : Claimable(j) /\ job' = [job EXCEPT ![j] = ClaimedBy(job[j], w)]
  BY DEF Claim
<1>2. job \in [Jobs -> Row]
  BY DEF IInv, TypeOK
<1>3. job[j].state # "ambiguous_submission"
  BY <1>1 DEF Claimable, PreSubmit
<1>4. ASSUME NEW r \in Row PROVE Fenced(r, r) /\ Fenced(r, ClaimedBy(r, w))
  BY DEF Fenced, ClaimedBy, Row
<1> QED
  BY <1>1, <1>2, <1>3, <1>4 DEF Claim, Working

LEMMA WorkerWrites ==
    ASSUME IInv, NEW w \in Workers, WorkerStep(w)
    PROVE  job' = job \/ WritesItsOwn(w) \/ \E dismissed : Claim(w, dismissed)
<1>1. CASE Renew(w)
  <2>1. wk[w].job \in Jobs /\ job \in [Jobs -> Row] /\ job[wk[w].job] \in Row
    BY <1>1, WorkerGoes DEF Renew, RowOK, IInv, TypeOK
  <2> QED
    BY <1>1, <2>1 DEF Renew, Owns, Holds, WritesItsOwn, Row
<1>2. CASE Poll(w) \/ WorkerGone(w)
  BY <1>2 DEF Poll, WorkerGone
<1> QED
  BY <1>1, <1>2, PreSubmitWrites, SubmitWrites DEF WorkerStep

(* A worker that is not idle has moved only in a step of its own. *)
LEMMA OnlyItselfMoves ==
    ASSUME [Next]_vars, NEW w \in Workers, wk \in [Workers -> Worker], wk'[w] # wk[w]
    PROVE  WorkerStep(w)
<1>1. ASSUME NEW v \in Workers, v # w, WorkerStep(v) PROVE wk'[w] = wk[w]
  <2>1. CASE Poll(v) \/ (\E dismissed \in SUBSET {AppOf[j] : j \in Jobs} : Claim(v, dismissed))
             \/ Renew(v) \/ WorkerGone(v)
    BY <1>1, <2>1 DEF Poll, Claim, Renew, WorkerGone, Goto, Rest
  <2>2. CASE PreSubmitStep(v)
    BY <1>1, <2>2 DEF PreSubmitStep, Navigate, PauseForAuth, AuthReopened, FailInteractive,
       PauseAfterFailure, FailTransient, FailPermanent, Reschedule, FillOnly, SafetyGate,
       LeaveBrowser, Goto, Rest
  <2>3. CASE SubmitStep(v)
    BY <1>1, <2>3 DEF SubmitStep, RecordIntent, BeginFence, FenceRefused, Click, FinishFence,
       ClickRaised, Verifying, SettleConfirmed, SettleRejected, SettleAmbiguous, Goto, Rest
  <2> QED
    BY <1>1, <2>1, <2>2, <2>3 DEF WorkerStep
<1>2. ~((\E v \in Workers : ShutdownReconcile(v)) \/ (\E j \in Jobs : JobStep(j)) \/ ControlStep)
  BY DEF ShutdownReconcile, JobStep, Enqueue, LeaseAges, RetryDue, Sweep, ClearStateMark, Cancel,
     Skip, Resolve, ReopenAuth, ResumeJob, ResumeConfirmed, ControlStep, Pause, EmergencyStop,
     ClearStop, ClearStateReset, ResumeIdle, ClaimTakeover, ReleaseTakeover, TakeoverLapses,
     BackupQuiesces, BackupReleases
<1> QED
  BY <1>1, <1>2 DEF Next, vars

-----------------------------------------------------------------------------
(* The steps of the others. *)

(* The shutdown hands back what a worker owned: no ambiguous submission. *)
LEMMA ShutdownTurns ==
    ASSUME IInv, NEW w \in Workers, ShutdownReconcile(w)
    PROVE  \A k \in Jobs : Turned(job[k], job'[k])
<1> TAKE k \in Jobs
<1>1. job[k] \in Row /\ RowOK(job[k], clicked[k])
  BY IInvParts DEF RowOK
<1>2. CASE k \in Unfinished(w)
  <2>1. job[k].state # "ambiguous_submission"
    BY <1>1, <1>2, NoneAssumption DEF Unfinished, RowOK
  <2>2. Turned(job[k], HandedBack(job[k]))
    BY <1>1, <2>1, UpdatesTurn DEF HandedBack, Turned, Fresh, Released, Row
  <2> QED
    BY <1>2, <2>2 DEF ShutdownReconcile
<1>3. CASE k \notin Unfinished(w)
  BY <1>1, <1>3, UpdatesTurn DEF ShutdownReconcile
<1> QED
  BY <1>2, <1>3

(* Everything done to one job turns its row, but for the resolution. *)
LEMMA JobStepTurns ==
    ASSUME IInv, NEW j \in Jobs, JobStep(j)
    PROVE  \/ \A k \in Jobs : Turned(job[k], job'[k])
           \/ \E force \in BOOLEAN : Resolve(j, force)
<1>1. job \in [Jobs -> Row] /\ job[j] \in Row
  BY DEF IInv, TypeOK
<1> DEFINE r == job[j]
<1>2. CASE Enqueue(j)
  BY <1>1, <1>2, OneTurned DEF Enqueue, Turned, Row
<1>3. CASE LeaseAges(j)
  BY <1>1, <1>3, OneTurned DEF LeaseAges, Turned, Row
<1>4. CASE RetryDue(j)
  BY <1>1, <1>4, OneTurned DEF RetryDue, Turned, Row
<1>5. CASE Sweep(j) \/ ClearStateMark(j)
  BY <1>1, <1>5, OneTurned, UpdatesTurn DEF Sweep, ClearStateMark
<1>6. CASE Cancel(j)
  BY <1>1, <1>6, OneTurned DEF Cancel, Turned, Row, Queued, Challenge
<1>7. CASE Skip(j)
  <2> DEFINE s == [Fresh(Released(r)) EXCEPT !.state = "skipped", !.cancelled = TRUE]
  <2>1. CASE r.state \in InFlight /\ job' = [job EXCEPT ![j] = Ambiguous(r)]
    BY <1>1, <2>1, OneTurned, UpdatesTurn
  <2>2. CASE r.state \in Queued \cup PreSubmit \cup Challenge /\ job' = [job EXCEPT ![j] = s]
    <3>1. Turned(r, s)
      BY <1>1, <2>2 DEF Turned, Row, Fresh, Released, Queued, PreSubmit, Challenge
    <3> HIDE DEF s
    <3> QED
      BY <1>1, <2>2, <3>1, OneTurned
  <2> QED
    BY <1>7, <2>1, <2>2 DEF Skip
<1>8. CASE ReopenAuth(j)
  BY <1>1, <1>8, OneTurned DEF ReopenAuth, Turned, Row, Released
<1>9. CASE ResumeJob(j)
  BY <1>1, <1>9, OneTurned, UpdatesTurn DEF ResumeJob, Resumable, Challenge, PreSubmit
<1>10. CASE ResumeConfirmed(j)
  BY <1>1, <1>10, OneTurned DEF ResumeConfirmed, Turned, Row, Resumable, Challenge, PreSubmit, InFlight
<1> QED
  BY <1>2, <1>3, <1>4, <1>5, <1>6, <1>7, <1>8, <1>9, <1>10 DEF JobStep

LEMMA ControlStepTurns ==
    ASSUME IInv, ControlStep
    PROVE  \A k \in Jobs : Turned(job[k], job'[k])
<1> TAKE k \in Jobs
<1>1. job[k] \in Row
  BY DEF IInv, TypeOK
<1>2. CASE EmergencyStop
  BY <1>1, <1>2, UpdatesTurn DEF EmergencyStop, PreSubmit
<1>3. CASE ClearStateReset
  BY <1>1, <1>3, UpdatesTurn
     DEF ClearStateReset, PreSubmit, Challenge, Turned, Fresh, Released, Row
<1>4. CASE Pause \/ ClearStop \/ ResumeIdle \/ ClaimTakeover \/ ReleaseTakeover \/ TakeoverLapses
           \/ BackupQuiesces \/ BackupReleases
  <2>1. job' = job
    BY <1>4 DEF Pause, ClearStop, ResumeIdle, ClaimTakeover, ReleaseTakeover, TakeoverLapses,
       BackupQuiesces, BackupReleases
  <2> QED
    BY <1>1, <2>1, UpdatesTurn
<1> QED
  BY <1>2, <1>3, <1>4 DEF ControlStep

(* So a step is a worker's, a resolution, or turns every row. *)
LEMMA StepKinds ==
    ASSUME IInv, [Next]_vars
    PROVE  \/ \E w \in Workers : WorkerStep(w)
           \/ \E j \in Jobs, force \in BOOLEAN : Resolve(j, force)
           \/ \A k \in Jobs : Turned(job[k], job'[k])
<1>1. CASE UNCHANGED vars
  BY <1>1, UpdatesTurn DEF vars, IInv, TypeOK
<1>2. CASE Next
  BY <1>2, ShutdownTurns, JobStepTurns, ControlStepTurns DEF Next
<1> QED
  BY <1>1, <1>2

-----------------------------------------------------------------------------
(* A generation has one owner (fencing_generation, queue.py): the owner of a   *)
(* job becomes another worker only with a new generation.                      *)
THEOREM OneOwnerPerGeneration == Spec => GenerationFences
<1>1. ASSUME IInv, [Next]_vars, NEW k \in Jobs PROVE Fenced(job[k], job'[k])
  <2>1. job \in [Jobs -> Row] /\ job[k] \in Row
    BY <1>1 DEF IInv, TypeOK
  <2>2. CASE \E w \in Workers : WorkerStep(w)
    <3>1. PICK w \in Workers : WorkerStep(w)
      BY <2>2
    <3>2. CASE job' = job
      BY <2>1, <3>2 DEF Fenced, Row
    <3>3. CASE WritesItsOwn(w)
      BY <2>1, <3>3 DEF WritesItsOwn, Holds, Fenced, Row
    <3>4. CASE \E dismissed : Claim(w, dismissed)
      BY <1>1, <3>4, ClaimTakes
    <3> QED
      BY <1>1, <3>1, <3>2, <3>3, <3>4, WorkerWrites
  <2>3. CASE \E j \in Jobs, force \in BOOLEAN : Resolve(j, force)
    BY <2>1, <2>3 DEF Resolve, Fenced, Fresh, Released, Row
  <2>4. CASE \A i \in Jobs : Turned(job[i], job'[i])
    BY <2>4, TurnedIsFenced
  <2> QED
    BY <1>1, <2>2, <2>3, <2>4, StepKinds
<1>2. IInv /\ [Next]_vars => [\A j \in Jobs :
         /\ job'[j].gen >= job[j].gen
         /\ job'[j].owner \notin {None, job[j].owner} => job'[j].gen > job[j].gen]_vars
  BY <1>1 DEF Fenced
<1> QED
  BY <1>2, Inductive, PTL DEF Spec, GenerationFences

(* A worker that lost its job to a new generation, a release or a sweep writes *)
(* no row of the queue, however far it goes on with the browser.               *)
THEOREM StaleWorkersAreFenced == Spec => StaleWorkerWritesNothing
<1>1. ASSUME IInv, [Next]_vars, NEW w \in Workers, Working(w), ~Holds(w), wk'[w] # wk[w]
      PROVE  job' = job
  <2>1. WorkerStep(w)
    BY <1>1, IInvParts, OnlyItselfMoves
  <2> QED
    BY <1>1, <2>1, WorkerWrites, ClaimTakes DEF WritesItsOwn
<1>2. IInv /\ [Next]_vars => [\A w \in Workers :
         Working(w) /\ ~Holds(w) /\ wk'[w] # wk[w] => job' = job]_vars
  BY <1>1
<1> QED
  BY <1>2, Inductive, PTL DEF Spec, StaleWorkerWritesNothing

(* Whoever crashes, sweeps, skips, stops, resumes or clears the queue, a job   *)
(* stays ambiguous until the operator forces it open (resolve_job).            *)
THEOREM OnlyForceReopens == Spec => AmbiguityNeedsForce
<1>1. ASSUME IInv, [Next]_vars, NEW k \in Jobs,
             job[k].state = "ambiguous_submission", job'[k].state # "ambiguous_submission"
      PROVE  Resolve(k, TRUE)
  <2>1. job \in [Jobs -> Row] /\ job[k].owner = None
    BY <1>1, IInvParts DEF RowOK
  <2>2. CASE \E w \in Workers : WorkerStep(w)
    <3>1. PICK w \in Workers : WorkerStep(w)
      BY <2>2
    <3>2. ~WritesItsOwn(w)
      BY <1>1, <2>1, NoneAssumption DEF WritesItsOwn, Holds
    <3> QED
      BY <1>1, <3>1, <3>2, WorkerWrites, ClaimTakes
  <2>3. CASE \E j \in Jobs, force \in BOOLEAN : Resolve(j, force)
    <3>1. PICK j \in Jobs, force \in BOOLEAN : Resolve(j, force)
      BY <2>3
    <3>2. j = k
      BY <1>1, <2>1, <3>1 DEF Resolve
    <3> QED
      BY <1>1, <3>1, <3>2 DEF Resolve
  <2>4. ~(\A i \in Jobs : Turned(job[i], job'[i]))
    BY <1>1 DEF Turned
  <2> QED
    BY <1>1, <2>2, <2>3, <2>4, StepKinds
<1>2. IInv /\ [Next]_vars => [\A j \in Jobs :
         /\ job[j].state = "ambiguous_submission"
         /\ job'[j].state # "ambiguous_submission"
         => Resolve(j, TRUE)]_vars
  BY <1>1
<1> QED
  BY <1>2, Inductive, PTL DEF Spec, AmbiguityNeedsForce
=============================================================================
