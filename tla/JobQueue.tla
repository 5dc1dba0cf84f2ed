------------------------------ MODULE JobQueue ------------------------------
(***************************************************************************)
(* The durable automation queue of job-applier and the workers that drain  *)
(* it: leases, fencing generations, the submit-intent gate, the fence held *)
(* through the physical click, crash recovery, the runtime controls and    *)
(* the operator's actions.  Every process shares one SQLite database;      *)
(* each action below is one committed transaction of the code, or one step *)
(* of a worker between two transactions.                                   *)
(*                                                                         *)
(* Time is abstract: a lease ages live -> short -> expired, where "short"  *)
(* is a lease with at most SUBMIT_LEASE_MARGIN_SECONDS left.               *)
(***************************************************************************)
EXTENDS Integers, FiniteSets

CONSTANTS
    Jobs,        \* rows of automation_jobs, numbered in claim order
    Workers,     \* worker ids
    None,        \* SQL NULL in lease_owner; no worker
    AppOf,       \* the application a job belongs to
    MaxRetries,  \* max_retries of a job
    MaxGen       \* bound of the model on fencing_generation

ASSUME JobsAssumption == Jobs \subseteq Nat /\ IsFiniteSet(Jobs)
ASSUME NoneAssumption == None \notin Workers \cup Jobs
ASSUME AppAssumption == DOMAIN AppOf = Jobs
ASSUME BoundAssumption == MaxRetries \in Nat /\ MaxGen \in Nat

VARIABLES
    job,      \* automation_jobs: job -> row
    ctl,      \* runtime_control: pause, stop, takeover lease; the backup's quiesce
    wk,       \* what each worker thread is doing, for which job and generation
    fence,    \* the worker whose SubmitClickFence holds the write lock, or None
    clicked   \* history: submit was clicked since the last forced resolution

vars == <<job, ctl, wk, fence, clicked>>

-----------------------------------------------------------------------------
(* States of a job.  captcha_required stands for mfa_required as well, which *)
(* no code treats differently; filling, validating and site_changed are      *)
(* declared by the code and assigned by none of it.                          *)

Challenge == {"auth_required", "captcha_required", "unknown_question"}
PreSubmit == {"claimed", "navigating"}
InFlight  == {"submit_intent", "verifying"}
Terminal  == {"applied", "cancelled", "failed_permanent", "skipped"}
Queued    == {"ready", "retry_wait"}
JobState  == Challenge \cup PreSubmit \cup InFlight \cup Terminal \cup Queued
               \cup {"absent", "ambiguous_submission"}

Lease == {"none", "live", "short", "expired"}

Row == [state : JobState, owner : Workers \cup {None}, gen : 0 .. MaxGen,
        lease : Lease, cancelled : BOOLEAN, attempts : 0 .. MaxGen,
        due : BOOLEAN, auth : BOOLEAN]

Absent == [state |-> "absent", owner |-> None, gen |-> 0, lease |-> "none",
           cancelled |-> FALSE, attempts |-> 0, due |-> FALSE, auth |-> FALSE]

Control == [paused : BOOLEAN, stopped : BOOLEAN,
            takeover : {"none", "live", "lapsed"}, quiesced : BOOLEAN]

(* Where a worker thread is in run_worker_loop and process_claimed_job. *)
Pc == {"idle", "polling", "claimed", "filling", "gated", "intent", "fence",
       "clicked", "sent", "confirm", "uncertain", "pausing", "reauth",
       "reopened", "waiting"}

Idle == [pc |-> "idle", job |-> None, gen |-> 0, auth |-> FALSE]

Working(w) == wk[w].pc \notin {"idle", "polling"}

TypeOK ==
    /\ job \in [Jobs -> Row]
    /\ ctl \in Control
    /\ wk \in [Workers -> [pc : Pc, job : Jobs \cup {None}, gen : 0 .. MaxGen,
                           auth : BOOLEAN]]
    /\ \A w \in Workers : Working(w) => wk[w].job \in Jobs
    /\ fence \in Workers \cup {None}
    /\ clicked \in [Jobs -> BOOLEAN]

Init ==
    /\ job = [j \in Jobs |-> Absent]
    /\ ctl = [paused |-> FALSE, stopped |-> FALSE, takeover |-> "none",
              quiesced |-> FALSE]
    /\ wk = [w \in Workers |-> Idle]
    /\ fence = None
    /\ clicked = [j \in Jobs |-> FALSE]

-----------------------------------------------------------------------------
(* Guards and row updates the operations share. *)

DbFree == fence = None

Operable == ~ctl.paused /\ ~ctl.stopped

Alive(j) == job[j].lease \in {"live", "short"}

(* The fencing predicate: worker w still holds its job under its generation. *)
Holds(w) ==
    /\ job[wk[w].job].owner = w
    /\ job[wk[w].job].gen = wk[w].gen

Owns(w) == Holds(w) /\ ~job[wk[w].job].cancelled

Ambiguous(r) ==
    [r EXCEPT !.state = "ambiguous_submission", !.owner = None,
              !.lease = "none", !.gen = @ + 1, !.auth = FALSE]

Released(r) == [r EXCEPT !.state = "ready", !.owner = None, !.lease = "none"]

Fresh(r) == [r EXCEPT !.gen = @ + 1]

Goto(w, pc) == wk' = [wk EXCEPT ![w].pc = pc]
(* Mutant: the worker forgets its job and stays where it was. *)
RestMidway(w) == wk' = [wk EXCEPT ![w] = [Idle EXCEPT !.pc = wk[w].pc]]

Rest(w) == wk' = [wk EXCEPT ![w] = Idle]

(* transition_job: the guarded write of worker w, when its lease age is in leases. *)
Transition(w, leases, row) ==
    /\ DbFree
    /\ Owns(w)
    /\ job[wk[w].job].lease \in leases
    /\ job' = [job EXCEPT ![wk[w].job] = row]

AnyLease == Lease
LiveLease == {"live", "short"}
SubmitMargin == {"live"}

-----------------------------------------------------------------------------
(* The queue: enqueueing, claiming, leases and their ageing. *)

(* Idempotent per application: an active job of the application is returned. *)
Enqueue(j) ==
    /\ DbFree
    /\ job[j].state = "absent"
    /\ \A k \in Jobs : AppOf[k] = AppOf[j] => job[k].state \in Terminal \cup {"absent"}
    /\ job' = [job EXCEPT ![j].state = "ready"]
    /\ UNCHANGED <<ctl, wk, fence, clicked>>

Claimable(j) ==
    /\ ~job[j].cancelled
    /\ \/ job[j].state = "ready"
       \/ job[j].state = "retry_wait" /\ job[j].due
       \/ job[j].state \in PreSubmit /\ job[j].lease = "expired"

(* The loop reads runtime_control before it asks for a job. *)
Poll(w) ==
    /\ wk[w].pc = "idle"
    /\ Operable
    /\ ctl.takeover = "none"
    /\ Goto(w, "polling")
    /\ UNCHANGED <<job, ctl, fence, clicked>>

(* Mutant: a claim does not start a new generation. *)
ClaimedUnfenced(r, w) ==
    [r EXCEPT !.state = "claimed", !.owner = w, !.lease = "live", !.attempts = @ + 1,
              !.due = FALSE]

ClaimedBy(r, w) ==
    [r EXCEPT !.state = "claimed", !.owner = w, !.gen = @ + 1, !.lease = "live",
              !.attempts = @ + 1, !.due = FALSE]

(* Mutant: a job that used up its retries is passed over, and stays queued. *)
ClaimWithinRetries(w, dismissed) ==
    LET open == {j \in Jobs : Claimable(j) /\ AppOf[j] \notin dismissed
                               /\ job[j].attempts < MaxRetries} IN
    /\ wk[w].pc = "polling"
    /\ DbFree
    /\ Operable
    /\ \E j \in open :
         /\ \A k \in open : j <= k
         /\ job[j].gen + 1 < MaxGen
         /\ job' = [job EXCEPT ![j] = ClaimedBy(job[j], w)]
         /\ wk' = [wk EXCEPT ![w] = [pc |-> "claimed", job |-> j,
                      gen |-> job[j].gen + 1, auth |-> job[j].auth]]
    /\ UNCHANGED <<ctl, fence, clicked>>

(* The first claimable job whose application is not dismissed.  The status   *)
(* of applications is not part of this module: dismissed is any set of them. *)
Claim(w, dismissed) ==
    LET open == {j \in Jobs : Claimable(j) /\ AppOf[j] \notin dismissed} IN
    /\ wk[w].pc = "polling"
    /\ DbFree
    /\ Operable
    /\ \E j \in open :
         /\ \A k \in open : j <= k
         /\ job[j].gen + 1 < MaxGen
         /\ job' = [job EXCEPT ![j] = ClaimedBy(job[j], w)]
         /\ wk' = [wk EXCEPT ![w] = [pc |-> "claimed", job |-> j,
                      gen |-> job[j].gen + 1, auth |-> job[j].auth]]
    /\ UNCHANGED <<ctl, fence, clicked>>

(* The heartbeat: an expired lease is never renewed. *)
Renew(w) ==
    /\ Working(w)
    /\ DbFree
    /\ ~ctl.stopped
    /\ Owns(w)
    /\ Alive(wk[w].job)
    /\ job' = [job EXCEPT ![wk[w].job].lease = "live"]
    /\ UNCHANGED <<ctl, wk, fence, clicked>>

(* Nothing reads the lease of a terminal job, so it need not age. *)
LeaseAges(j) ==
    /\ Alive(j)
    /\ job[j].state \notin Terminal
    /\ job' = [job EXCEPT ![j].lease = IF @ = "live" THEN "short" ELSE "expired"]
    /\ UNCHANGED <<ctl, wk, fence, clicked>>

RetryDue(j) ==
    /\ job[j].state = "retry_wait"
    /\ ~job[j].due
    /\ job' = [job EXCEPT ![j].due = TRUE]
    /\ UNCHANGED <<ctl, wk, fence, clicked>>

(* The worker leaves its job where it is: the process dies, the heartbeat     *)
(* lost the lease, a fenced write was rejected, the runtime was paused before *)
(* the browser opened, a stop was requested, or no job was claimed.  SQLite   *)
(* rolls back the transaction of a click fence whose process dies.            *)
WorkerGone(w) ==
    /\ wk[w].pc # "idle"
    /\ Rest(w)
    /\ fence' = IF fence = w THEN None ELSE fence
    /\ UNCHANGED <<job, ctl, clicked>>

-----------------------------------------------------------------------------
(* process_claimed_job, before the submit intent. *)

(* Mutant: the state is written whoever the job belongs to by now. *)
NavigateUnfenced(w) ==
    /\ wk[w].pc = "claimed"
    /\ DbFree
    /\ job' = [job EXCEPT ![wk[w].job].state = "navigating", ![wk[w].job].auth = FALSE]
    /\ wk' = [wk EXCEPT ![w].pc = IF wk[w].auth THEN "reauth" ELSE "filling",
                        ![w].auth = FALSE]
    /\ UNCHANGED <<ctl, fence, clicked>>

(* The transition's result is ignored: a worker that lost the job goes on. *)
Navigate(w) ==
    /\ wk[w].pc = "claimed"
    /\ DbFree
    /\ job' = IF Owns(w)
              THEN [job EXCEPT ![wk[w].job].state = "navigating",
                               ![wk[w].job].auth = FALSE]
              ELSE job
    /\ wk' = [wk EXCEPT ![w].pc = IF wk[w].auth THEN "reauth" ELSE "filling",
                        ![w].auth = FALSE]
    /\ UNCHANGED <<ctl, fence, clicked>>

(* An authentication retry reopens the browser, pauses the runtime in a       *)
(* transaction of its own, fenced by nothing, and then parks the job.         *)
PauseForAuth(w) ==
    /\ wk[w].pc = "reauth"
    /\ DbFree
    /\ ctl' = [ctl EXCEPT !.paused = TRUE]
    /\ Goto(w, "reopened")
    /\ UNCHANGED <<job, fence, clicked>>

AuthReopened(w) ==
    /\ wk[w].pc = "reopened"
    /\ DbFree
    /\ job' = IF Owns(w) THEN [job EXCEPT ![wk[w].job].state = "auth_required"]
              ELSE job
    /\ \/ Goto(w, "waiting")
       \/ Rest(w)
    /\ UNCHANGED <<ctl, fence, clicked>>

(* handle_job_failure for a challenge: park the job, then pause the runtime. *)
FailInteractive(w, category) ==
    /\ wk[w].pc \in {"filling", "reauth"}
    /\ Transition(w, LiveLease, [job[wk[w].job] EXCEPT !.state = category])
    /\ Goto(w, "pausing")
    /\ UNCHANGED <<ctl, fence, clicked>>

PauseAfterFailure(w) ==
    /\ wk[w].pc = "pausing"
    /\ DbFree
    /\ ctl' = [ctl EXCEPT !.paused = TRUE]
    /\ Goto(w, "waiting")
    /\ UNCHANGED <<job, fence, clicked>>

(* Bounded retry.  A worker with an open browser stays with it while the     *)
(* runtime is paused.                                                        *)
FailTransient(w) ==
    LET row == job[wk[w].job] IN
    /\ wk[w].pc \in {"claimed", "filling", "gated", "reauth"}
    /\ Transition(w, LiveLease,
         IF row.attempts < MaxRetries
         THEN [row EXCEPT !.state = "retry_wait", !.due = FALSE, !.auth = FALSE]
         ELSE [row EXCEPT !.state = "failed_permanent"])
    /\ \/ Rest(w)
       \/ wk[w].pc \in {"filling", "reauth"} /\ ctl.paused /\ Goto(w, "waiting")
    /\ UNCHANGED <<ctl, fence, clicked>>

(* An aggregator's landing page is refused for good. *)
FailPermanent(w) ==
    /\ wk[w].pc = "claimed"
    /\ Transition(w, LiveLease,
                  [job[wk[w].job] EXCEPT !.state = "failed_permanent"])
    /\ Rest(w)
    /\ UNCHANGED <<ctl, fence, clicked>>

(* reschedule_for_safety_gate: pacing or the daily limit, no retry burned. *)
Reschedule(w) ==
    LET row == job[wk[w].job] IN
    /\ wk[w].pc \in {"claimed", "gated"}
    /\ Transition(w, LiveLease,
         [row EXCEPT !.state = "retry_wait", !.due = FALSE, !.auth = FALSE,
                     !.attempts = IF @ > 0 THEN @ - 1 ELSE 0])
    /\ Rest(w)
    /\ UNCHANGED <<ctl, fence, clicked>>

(* A generic form is filled and never submitted. *)
FillOnly(w) ==
    /\ wk[w].pc = "filling"
    /\ Transition(w, AnyLease, [job[wk[w].job] EXCEPT !.state = "skipped"])
    /\ Rest(w)
    /\ UNCHANGED <<ctl, fence, clicked>>

(* The operator is done with the browser, or the wait timed out. *)
LeaveBrowser(w) ==
    /\ wk[w].pc = "waiting"
    /\ Rest(w)
    /\ UNCHANGED <<job, ctl, fence, clicked>>

-----------------------------------------------------------------------------
(* The submit boundary. *)

(* validate_pre_submit_safety only reads; what it saw may change at once. *)
SafetyGate(w) ==
    /\ wk[w].pc = "filling"
    /\ Operable
    /\ ctl.takeover = "none"
    /\ Owns(w)
    /\ job[wk[w].job].lease \in SubmitMargin
    /\ Goto(w, "gated")
    /\ UNCHANGED <<job, ctl, fence, clicked>>

(* record_submit_intent: the durable marker, before the click. *)
RecordIntent(w) ==
    /\ wk[w].pc = "gated"
    /\ Transition(w, SubmitMargin,
                  [job[wk[w].job] EXCEPT !.state = "submit_intent"])
    /\ Goto(w, "intent")
    /\ UNCHANGED <<ctl, fence, clicked>>

(* BEGIN IMMEDIATE: from here to FinishFence no other process can write. *)
BeginFence(w) ==
    /\ wk[w].pc = "intent"
    /\ DbFree
    /\ Owns(w)
    /\ job[wk[w].job].state = "submit_intent"
    /\ job[wk[w].job].lease \in SubmitMargin
    /\ Operable
    /\ ctl.takeover # "live"
    /\ fence' = w
    /\ Goto(w, "fence")
    /\ UNCHANGED <<job, ctl, clicked>>

(* Cancelled, or the permit refused: the intent is already durable. *)
FenceRefused(w) ==
    /\ wk[w].pc = "intent"
    /\ Goto(w, "uncertain")
    /\ UNCHANGED <<job, ctl, fence, clicked>>

Click(w) ==
    /\ wk[w].pc = "fence"
    /\ clicked' = [clicked EXCEPT ![wk[w].job] = TRUE]
    /\ Goto(w, "clicked")
    /\ UNCHANGED <<job, ctl, fence>>

FinishFence(w) ==
    /\ wk[w].pc = "clicked"
    /\ fence' = None
    /\ Goto(w, "sent")
    /\ UNCHANGED <<job, ctl, clicked>>

(* Mutant: when the browser raises, the click is tried again. *)
RetriesClick(w) ==
    /\ wk[w].pc \in {"fence", "clicked"}
    /\ fence' = None
    /\ Goto(w, "intent")
    /\ UNCHANGED <<job, ctl, clicked>>

(* The browser raised, before the click took effect or after. *)
ClickRaised(w) ==
    /\ wk[w].pc \in {"fence", "clicked"}
    /\ fence' = None
    /\ Goto(w, "uncertain")
    /\ UNCHANGED <<job, ctl, clicked>>

(* verifying_gate needs no live lease, and its failure is swallowed. *)
Verifying(w) ==
    /\ wk[w].pc = "sent"
    /\ DbFree
    /\ job' = IF Owns(w) THEN [job EXCEPT ![wk[w].job].state = "verifying"]
              ELSE job
    /\ Goto(w, "confirm")
    /\ UNCHANGED <<ctl, fence, clicked>>

(* reconcile_submission_outcome, by the adapter's evidence.  No guard on the *)
(* state the job is in: the fence of owner and generation decides.           *)
SettleConfirmed(w) ==
    /\ wk[w].pc = "confirm"
    /\ Transition(w, LiveLease, [job[wk[w].job] EXCEPT !.state = "applied"])
    /\ Rest(w)
    /\ UNCHANGED <<ctl, fence, clicked>>

SettleRejected(w) ==
    /\ wk[w].pc = "confirm"
    /\ Transition(w, LiveLease,
                  [job[wk[w].job] EXCEPT !.state = "failed_permanent"])
    /\ Rest(w)
    /\ UNCHANGED <<ctl, fence, clicked>>

(* mark_job_ambiguous pauses the runtime in the same transaction, and does   *)
(* not look at is_cancelled.                                                 *)
SettleAmbiguous(w) ==
    /\ wk[w].pc \in {"confirm", "uncertain"}
    /\ DbFree
    /\ Holds(w)
    /\ Alive(wk[w].job)
    /\ job[wk[w].job].state \in PreSubmit \cup InFlight
    /\ job' = [job EXCEPT ![wk[w].job] = Ambiguous(@)]
    /\ ctl' = [ctl EXCEPT !.paused = TRUE]
    /\ Rest(w)
    /\ UNCHANGED <<fence, clicked>>

-----------------------------------------------------------------------------
(* Recovery: the sweep of stranded submissions and the daemon's shutdown. *)

(* Mutant: the sweep leaves cancelled jobs alone. *)
SweepSkipsCancelled(j) ==
    /\ DbFree
    /\ job[j].state \in InFlight
    /\ ~job[j].cancelled
    /\ ~Alive(j)
    /\ job' = [job EXCEPT ![j] = Ambiguous(@)]
    /\ ctl' = [ctl EXCEPT !.paused = TRUE]
    /\ UNCHANGED <<wk, fence, clicked>>

Sweep(j) ==
    /\ DbFree
    /\ job[j].state \in InFlight
    /\ ~Alive(j)
    /\ job' = [job EXCEPT ![j] = Ambiguous(@)]
    /\ ctl' = [ctl EXCEPT !.paused = TRUE]
    /\ UNCHANGED <<wk, fence, clicked>>

(* _reconcile_inflight_worker: every unfinished job the stopping daemon's     *)
(* worker owns.  The runtime is not paused, and the thread may still run.     *)
Unfinished(w) == {j \in Jobs : job[j].owner = w /\ job[j].state \notin Terminal}

HandedBack(r) ==
    CASE r.state \in InFlight -> Ambiguous(r)
      [] r.state \in Challenge \cup {"ambiguous_submission"} ->
           [Fresh(r) EXCEPT !.owner = None, !.lease = "none", !.auth = FALSE]
      [] OTHER -> [Fresh(Released(r)) EXCEPT !.auth = FALSE]

ShutdownReconcile(w) ==
    /\ DbFree
    /\ Unfinished(w) # {}
    /\ \A j \in Unfinished(w) : job[j].gen < MaxGen
    /\ job' = [j \in Jobs |-> IF j \in Unfinished(w) THEN HandedBack(job[j]) ELSE job[j]]
    /\ UNCHANGED <<ctl, wk, fence, clicked>>

-----------------------------------------------------------------------------
(* The operator, through the dashboard and the command line. *)

(* is_cancelled only tells a running worker; the row keeps owner and lease. *)
Cancel(j) ==
    /\ DbFree
    /\ job[j].state # "absent"
    /\ job' = [job EXCEPT ![j].cancelled = TRUE,
                          ![j].state = IF @ \in Queued \cup Challenge
                                       THEN "cancelled" ELSE @]
    /\ UNCHANGED <<ctl, wk, fence, clicked>>

(* Mutant: an ambiguous submission can be skipped like any unfinished job. *)
SkipsAmbiguous(j) ==
    /\ DbFree
    /\ job[j].gen < MaxGen
    /\ \/ /\ job[j].state \in InFlight
          /\ job' = [job EXCEPT ![j] = Ambiguous(@)]
          /\ ctl' = [ctl EXCEPT !.paused = TRUE]
       \/ /\ job[j].state \notin InFlight \cup Terminal \cup {"absent"}
          /\ job' = [job EXCEPT ![j] = [Fresh(Released(@)) EXCEPT
                       !.state = "skipped", !.cancelled = TRUE]]
          /\ UNCHANGED ctl
    /\ UNCHANGED <<wk, fence, clicked>>

Skip(j) ==
    /\ DbFree
    /\ job[j].gen < MaxGen
    /\ \/ /\ job[j].state \in InFlight
          /\ job' = [job EXCEPT ![j] = Ambiguous(@)]
          /\ ctl' = [ctl EXCEPT !.paused = TRUE]
       \/ /\ job[j].state \in Queued \cup PreSubmit \cup Challenge
          /\ job' = [job EXCEPT ![j] = [Fresh(Released(@)) EXCEPT
                       !.state = "skipped", !.cancelled = TRUE]]
          /\ UNCHANGED ctl
    /\ UNCHANGED <<wk, fence, clicked>>

(* resolve_job.  Only force, the operator's word that nothing was submitted,  *)
(* reopens an ambiguous submission.                                           *)
Resolve(j, force) ==
    /\ DbFree
    /\ job[j].state \in Challenge \cup {"skipped", "ambiguous_submission"}
    /\ job[j].state = "ambiguous_submission" => force
    /\ job[j].gen < MaxGen
    /\ job' = [job EXCEPT ![j] = [Fresh(Released(@)) EXCEPT !.cancelled = FALSE]]
    /\ clicked' = IF job[j].state = "ambiguous_submission"
                  THEN [clicked EXCEPT ![j] = FALSE] ELSE clicked
    /\ UNCHANGED <<ctl, wk, fence>>

Pause ==
    /\ DbFree
    /\ ctl' = [ctl EXCEPT !.paused = TRUE]
    /\ UNCHANGED <<job, wk, fence, clicked>>

(* Mutant: the stop releases every running job to the queue. *)
StopReleasesAll ==
    /\ DbFree
    /\ \A j \in Jobs : job[j].state \in PreSubmit \cup InFlight => job[j].gen < MaxGen
    /\ job' = [j \in Jobs |-> IF job[j].state \in PreSubmit \cup InFlight
                              THEN Fresh(Released(job[j])) ELSE job[j]]
    /\ ctl' = [ctl EXCEPT !.stopped = TRUE, !.paused = TRUE, !.takeover = "none"]
    /\ UNCHANGED <<wk, fence, clicked>>

(* One transaction: uncertain submissions, stop flags, lease revocation.  Jobs *)
(* that were cancelled while running go back to ready, still cancelled.        *)
EmergencyStop ==
    /\ DbFree
    /\ \A j \in Jobs : job[j].state \in PreSubmit \cup InFlight => job[j].gen < MaxGen
    /\ job' = [j \in Jobs |->
                 CASE job[j].state \in InFlight -> Ambiguous(job[j])
                   [] job[j].state \in PreSubmit -> Fresh(Released(job[j]))
                   [] OTHER -> job[j]]
    /\ ctl' = [ctl EXCEPT !.stopped = TRUE, !.paused = TRUE, !.takeover = "none"]
    /\ UNCHANGED <<wk, fence, clicked>>

(* clear_emergency_stop: the runtime stays paused. *)
ClearStop ==
    /\ DbFree
    /\ ctl' = [ctl EXCEPT !.stopped = FALSE]
    /\ UNCHANGED <<job, wk, fence, clicked>>

(* clear_automation_state: one transaction per submission in flight, which   *)
(* pauses the runtime, and a last one which resets the controls and releases *)
(* the jobs before submission.  Workers of other processes run in between.   *)
ClearStateMark(j) ==
    /\ DbFree
    /\ job[j].state \in InFlight
    /\ ~job[j].cancelled
    /\ job' = [job EXCEPT ![j] = Ambiguous(@)]
    /\ ctl' = [ctl EXCEPT !.paused = TRUE]
    /\ UNCHANGED <<wk, fence, clicked>>

ClearStateReset ==
    LET stuck == {j \in Jobs : /\ job[j].state \in PreSubmit \cup Challenge
                               /\ job[j].state # "unknown_question"
                               /\ ~job[j].cancelled} IN
    /\ DbFree
    /\ \A j \in stuck : job[j].gen < MaxGen
    /\ job' = [j \in Jobs |-> IF j \in stuck
                              THEN [Fresh(Released(job[j])) EXCEPT !.auth = FALSE]
                              ELSE job[j]]
    /\ ctl' = [ctl EXCEPT !.paused = FALSE, !.stopped = FALSE, !.takeover = "none"]
    /\ UNCHANGED <<wk, fence, clicked>>

(* requeue_auth_required_job: no new generation before the next claim. *)
ReopenAuth(j) ==
    /\ DbFree
    /\ job[j].state = "auth_required"
    /\ ~ctl.stopped
    /\ job' = [job EXCEPT ![j] = [Released(@) EXCEPT !.auth = TRUE]]
    /\ ctl' = [ctl EXCEPT !.paused = FALSE, !.takeover = "none"]
    /\ UNCHANGED <<wk, fence, clicked>>

-----------------------------------------------------------------------------
(* safe_resume_revalidate, which clears stop, takeover and pause. *)

Unpaused == [ctl EXCEPT !.paused = FALSE, !.stopped = FALSE, !.takeover = "none"]

(* No job is active. *)
ResumeIdle ==
    /\ DbFree
    /\ \A j \in Jobs : job[j].state \in Terminal \cup Queued \cup {"absent"}
    /\ ctl' = Unpaused
    /\ UNCHANGED <<job, wk, fence, clicked>>

Resumable == Challenge \cup PreSubmit \cup {"retry_wait"}

(* The job the browser is on goes back to the queue, under its generation. *)
ResumeJob(j) ==
    /\ DbFree
    /\ job[j].state \in Resumable
    /\ job[j].owner # None
    /\ Alive(j)
    /\ job' = [job EXCEPT ![j] = Released(@)]
    /\ ctl' = Unpaused
    /\ UNCHANGED <<wk, fence, clicked>>

(* The page shows a confirmation: the operator submitted by hand.  The state  *)
(* is read in one transaction and written in another that checks owner,       *)
(* generation and lease only, so the worker may have advanced it in between.  *)
ResumeConfirmed(j) ==
    /\ DbFree
    /\ job[j].state \in Resumable \cup InFlight
    /\ job[j].owner # None
    /\ Alive(j)
    /\ ~job[j].cancelled
    /\ job' = [job EXCEPT ![j].state = "applied"]
    /\ ctl' = Unpaused
    /\ UNCHANGED <<wk, fence, clicked>>

(* Mutant: the claim does not wait for the write lock. *)
TakeoverUnlocked ==
    /\ ctl' = [ctl EXCEPT !.takeover = "live", !.paused = TRUE]
    /\ UNCHANGED <<job, wk, fence, clicked>>

(* Claiming the browser pauses the runtime; it renews or replaces a lease. *)
ClaimTakeover ==
    /\ DbFree
    /\ ctl' = [ctl EXCEPT !.takeover = "live", !.paused = TRUE]
    /\ UNCHANGED <<job, wk, fence, clicked>>

ReleaseTakeover ==
    /\ DbFree
    /\ ctl' = [ctl EXCEPT !.takeover = "none"]
    /\ UNCHANGED <<job, wk, fence, clicked>>

TakeoverLapses ==
    /\ ctl.takeover = "live"
    /\ ctl' = [ctl EXCEPT !.takeover = "lapsed"]
    /\ UNCHANGED <<job, wk, fence, clicked>>

(* A backup pauses a running worker, and unpauses it when it is done whatever *)
(* happened meanwhile.                                                        *)
BackupQuiesces ==
    /\ DbFree
    /\ ~ctl.paused
    /\ ctl' = [ctl EXCEPT !.paused = TRUE, !.quiesced = TRUE]
    /\ UNCHANGED <<job, wk, fence, clicked>>

BackupReleases ==
    /\ DbFree
    /\ ctl.quiesced
    /\ ctl' = [ctl EXCEPT !.paused = FALSE, !.quiesced = FALSE]
    /\ UNCHANGED <<job, wk, fence, clicked>>

-----------------------------------------------------------------------------
PreSubmitStep(w) ==
    \/ Navigate(w) \/ PauseForAuth(w) \/ AuthReopened(w)
    \/ \E category \in Challenge : FailInteractive(w, category)
    \/ PauseAfterFailure(w) \/ FailTransient(w) \/ FailPermanent(w)
    \/ Reschedule(w) \/ FillOnly(w) \/ SafetyGate(w) \/ LeaveBrowser(w)

SubmitStep(w) ==
    \/ RecordIntent(w) \/ BeginFence(w) \/ FenceRefused(w) \/ Click(w)
    \/ FinishFence(w) \/ ClickRaised(w) \/ Verifying(w)
    \/ SettleConfirmed(w) \/ SettleRejected(w) \/ SettleAmbiguous(w)

WorkerStep(w) ==
    \/ Poll(w) \/ \E dismissed \in SUBSET {AppOf[j] : j \in Jobs} : Claim(w, dismissed)
    \/ Renew(w) \/ WorkerGone(w) \/ PreSubmitStep(w) \/ SubmitStep(w)

JobStep(j) ==
    \/ Enqueue(j) \/ LeaseAges(j) \/ RetryDue(j) \/ Sweep(j) \/ ClearStateMark(j)
    \/ Cancel(j) \/ Skip(j) \/ \E force \in BOOLEAN : Resolve(j, force)
    \/ ReopenAuth(j) \/ ResumeJob(j) \/ ResumeConfirmed(j)

ControlStep ==
    \/ Pause \/ EmergencyStop \/ ClearStop \/ ClearStateReset \/ ResumeIdle
    \/ ClaimTakeover \/ ReleaseTakeover \/ TakeoverLapses
    \/ BackupQuiesces \/ BackupReleases

Next ==
    \/ \E w \in Workers : WorkerStep(w) \/ ShutdownReconcile(w)
    \/ \E j \in Jobs : JobStep(j)
    \/ ControlStep

Spec == Init /\ [][Next]_vars

-----------------------------------------------------------------------------
(* Properties. *)

(* No worker stands at the submit button of a job whose button was already    *)
(* clicked, unless the operator forced the ambiguous job open in between:      *)
(* whatever crashes, leases that run out, skips, stops and resumes happen.     *)
NoSecondClick ==
    \A w \in Workers : wk[w].pc = "fence" => ~clicked[wk[w].job]

(* A click is never forgotten: the job of a click is in flight, settled, or    *)
(* waits for the operator as ambiguous.  It is in no state from which a claim, *)
(* a retry or a resume could send it to a worker again.                        *)
ClickIsAccountedFor ==
    \A j \in Jobs : clicked[j] =>
        job[j].state \in InFlight \cup {"applied", "failed_permanent", "ambiguous_submission"}

(* While a worker is between begin_submit_click_fence and the end of its click *)
(* no pause, stop or takeover has been granted, by any process, and the job is *)
(* its own: an operator who was told "paused" or "yours" sees no click later.  *)
ClickIsUndisturbed ==
    \A w \in Workers : wk[w].pc \in {"fence", "clicked"} =>
        /\ fence = w
        /\ Operable
        /\ ctl.takeover # "live"
        /\ Owns(w)
        /\ job[wk[w].job].state = "submit_intent"

(* A generation has one owner: the owner of a job changes to another worker    *)
(* only with a new generation, and generations never go back.                  *)
GenerationFences ==
    [][\A j \in Jobs :
         /\ job'[j].gen >= job[j].gen
         /\ job'[j].owner \notin {None, job[j].owner} => job'[j].gen > job[j].gen]_vars

(* A worker that was fenced off, by a new generation, a release or a sweep,    *)
(* changes no row of the queue with anything it still does for that job.       *)
StaleWorkerWritesNothing ==
    [][\A w \in Workers :
         Working(w) /\ ~Holds(w) /\ wk'[w] # wk[w] => job' = job]_vars

(* A job comes out of an ambiguous submission only by a forced resolution.     *)
AmbiguityNeedsForce ==
    [][\A j \in Jobs :
         /\ job[j].state = "ambiguous_submission"
         /\ job'[j].state # "ambiguous_submission"
         => Resolve(j, TRUE)]_vars

(* Why NoSecondClick and its companions hold: the inductive invariant.         *)

BeforeClick == {"claimed", "filling", "gated", "reauth", "reopened", "intent", "fence"}
AfterIntent == {"intent", "fence", "clicked", "sent", "confirm", "uncertain"}
AfterClick  == {"clicked", "sent", "confirm"}

(* Generations leave room for the bump that ends an attempt. *)
GenRoom ==
    /\ \A w \in Workers : Working(w) => wk[w].gen < MaxGen
    /\ \A j \in Jobs : /\ job[j].state \in PreSubmit \cup InFlight => job[j].gen < MaxGen
                       /\ job[j].attempts <= job[j].gen

(* A worker that still holds its job knows whether it clicked. *)
Knows(w) ==
    Working(w) /\ Holds(w) =>
        /\ wk[w].pc \in BeforeClick => ~clicked[wk[w].job]
        /\ wk[w].pc \in AfterClick => clicked[wk[w].job]
        /\ wk[w].pc \in AfterIntent => job[wk[w].job].state \in InFlight \cup {"applied"}

HolderKnows == \A w \in Workers : Knows(w)

AmbiguousIsUnowned ==
    \A j \in Jobs : job[j].state \in {"absent", "ambiguous_submission"} => job[j].owner = None

IInv ==
    /\ TypeOK
    /\ GenRoom
    /\ ClickIsAccountedFor
    /\ ClickIsUndisturbed
    /\ HolderKnows
    /\ AmbiguousIsUnowned

-----------------------------------------------------------------------------
(* The queue implements Submission. *)

Phase(j) ==
    CASE job[j].state \in InFlight -> IF clicked[j] THEN "sent" ELSE "armed"
      [] job[j].state = "ambiguous_submission" -> "unknown"
      [] clicked[j] /\ job[j].state \in {"applied", "failed_permanent"} -> "settled"
      [] OTHER -> IF clicked[j] THEN "forgotten" ELSE "open"

PhaseMap == [j \in Jobs |-> Phase(j)]

Promise == INSTANCE Submission WITH phase <- PhaseMap

(* Every step of the queue is a step of Submission or leaves it alone: no      *)
(* interleaving of workers, sweeps, stops and operators clicks twice, loses a  *)
(* click or settles what was not sent.                                         *)
ImplementsSubmission == Promise!Spec

-----------------------------------------------------------------------------
(* Progress.  A worker past its intent goes on or dies: each of its steps is   *)
(* bounded by a browser timeout.  The loop of any worker sweeps every 15 s,    *)
(* and polls again; the clock moves.                                           *)

Fairness ==
    /\ \A w \in Workers : /\ WF_vars(SubmitStep(w) \/ WorkerGone(w))
                          /\ WF_vars(Poll(w))
                          /\ SF_vars(Claim(w, {}))
    /\ \A j \in Jobs : WF_vars(LeaseAges(j)) /\ WF_vars(Sweep(j)) /\ WF_vars(RetryDue(j))

FairSpec == Spec /\ Fairness

(* A submission whose worker vanished at any point of the boundary does not    *)
(* stay in flight: it is settled, or the sweep declares it ambiguous.          *)
SubmissionsResolve == Promise!Resolved

(* A job that can be claimed does not wait for ever in a queue that is open.   *)
QueueDrains ==
    \A j \in Jobs : []<>~( /\ Claimable(j) /\ job[j].gen + 1 < MaxGen
                           /\ Operable /\ ctl.takeover = "none" )

-----------------------------------------------------------------------------
(* What the documentation says of the queue and the code does not keep. *)

(* "Ensures safe transition and prevents duplicate submissions"                *)
(* (safe_resume.py:36): an application the operator's resume recorded as       *)
(* applied is not brought to the submit button again.                          *)
AppliedIsNotResubmitted ==
    [][\A j \in Jobs : job[j].state = "applied" => job'[j].state # "submit_intent"]_vars

(* "Cancels a queued or running automation job" (queue.py:1640): a job that was *)
(* cancelled while it ran, before its submission, comes to an end.              *)
CancelledJobsEnd ==
    \A j \in Jobs : job[j].cancelled /\ job[j].state \in PreSubmit
                      ~> job[j].state \notin PreSubmit

(* "Immediately pauses the entire worker (is_paused = 1) so no automated        *)
(* actions take place" (queue.py:2565): as long as the operator has the         *)
(* browser, the runtime is paused.                                              *)
TakeoverPauses == ctl.takeover = "live" => ctl.paused

=============================================================================
