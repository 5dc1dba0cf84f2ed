------------------------------ MODULE Records ------------------------------
(***************************************************************************)
(* What the tables say of one application: its row in applications, its    *)
(* current job, the job's attempts, its projected status row, the keys of  *)
(* its events and the pacing timestamp.  They are written by the worker,   *)
(* by the browser it drives (through the tracker, by URL and without a     *)
(* fence), by the worker loop's two sweeps, by the daemon that shuts down  *)
(* and by the dashboard, each in transactions of its own: every action is  *)
(* one of them.  The tracker's requeue is WebRequeue's.                    *)
(*                                                                         *)
(* Workers are sequential (the singleton lock), so one record wk stands    *)
(* for the worker and for its successors after a crash.  A later job of    *)
(* the application takes the records over; a worker still busy with the    *)
(* earlier one has wk.mine = FALSE.  The record res is the dashboard's     *)
(* safe resume, which takes several transactions.  The in-flight states    *)
(* before the intent are "claimed", submit_intent and verifying are        *)
(* "submitting", the states that wait for the operator are "challenge".    *)
(* Pausing and retry timers are free choices of the environment.           *)
(***************************************************************************)
EXTENDS Naturals, Sequences, SequencesExt

CONSTANT MaxGen  \* fencing generations the runs reach

ASSUME MaxGenAssumption == MaxGen \in Nat

VARIABLES
    app,       \* applications.status, "none": no row
    pack,      \* the directory that holds its generated package
    job,       \* the application's newest automation_jobs row
    att,       \* its application_attempts, oldest first
    row,       \* automation_job_status.state
    log,       \* keys of its events that come back
    told,      \* an event of type ambiguous_submission exists
    silent,    \* history: the job was made ready and no event has projected that
    stamped,   \* adapter_controls.last_submission_at is within the interval
    wk,        \* the worker: where it is, for which generation and attempt
    res,       \* a safe resume: where it is, for which generation and attempt
    recent,    \* history: a submission within the interval that its worker recorded
    cut,       \* history: the worker or a resume stopped between a last state and its record
    beside     \* history: a resume made the job applied beside its worker, or before an attempt

tables == <<app, pack, job, att, row, log, told, silent, stamped>>

history == <<recent, cut, beside>>

rest == <<res, history>>

vars == <<tables, wk, rest>>

events == <<row, log, told, silent>>

(* "none": no row.  "other": auto_filled, filled_only, missing_artifacts, cancelled and the words of
   the tracker's form (interviewing, ...), which no action here reads. *)
Statuses == {"none", "pending", "failed", "ambiguous", "applied", "skipped", "dismissed", "other"}

JobStates == {"absent", "ready", "claimed", "submitting", "challenge", "retry_wait",
              "ambiguous", "applied", "failed_permanent", "skipped", "cancelled"}

Ended == {"applied", "cancelled", "failed_permanent", "skipped"}

PreSubmit == {"ready", "claimed", "retry_wait", "challenge"}

Outcomes == {"open", "applied", "ambiguous", "failed_permanent", "retry_wait",
             "challenge", "skipped"}

NoJob == [state |-> "absent", gen |-> 0, held |-> FALSE, live |-> FALSE, off |-> FALSE]

Idle == [pc |-> "idle", gen |-> 0, att |-> 0, out |-> "open", mine |-> FALSE]

NoResume == [pc |-> "none", gen |-> 0, att |-> 0, mine |-> FALSE]

(* Without artifacts the pipeline's enqueue stops at missing_artifacts. *)
Init ==
    /\ app \in {"pending", "other"} /\ pack = "queue" /\ job = NoJob /\ att = <<>> /\ row = "absent" /\ log = {}
    /\ told = FALSE /\ silent = FALSE /\ stamped = FALSE /\ wk = Idle /\ res = NoResume
    /\ recent = FALSE /\ cut = FALSE /\ beside = FALSE

-----------------------------------------------------------------------------

(* lease_owner and fencing_generation are the worker's, and its lease has not lapsed. *)
Owns == wk.mine /\ job.held /\ job.gen = wk.gen

Live == Owns /\ job.live

(* An event of the job with its projection: a key seen before leaves both alone.  "" is no key,
   or one that names the generation. *)
Projected(key, state) ==
    /\ row' = IF key \in log THEN row ELSE state
    /\ silent' = (silent /\ key \in log)
    /\ log' = log \union ({key} \ {""})

Goto(pc) == wk' = [wk EXCEPT !.pc = pc]

Leave == wk' = Idle

(* A fenced write of the worker that matched no row, or a heartbeat that no longer renews: it
   stops there. *)
Refused == (~Live \/ job.off) /\ Leave /\ UNCHANGED <<tables, rest>>

(* transition_job with a live lease: its event has no key, and the lease columns stay. *)
Move(state) ==
    /\ Live /\ ~job.off
    /\ job' = [job EXCEPT !.state = state]
    /\ row' = state /\ silent' = FALSE
    /\ app' = IF state = "failed_permanent" THEN "failed" ELSE app
    /\ UNCHANGED <<pack, told, stamped>>

(* Mutant: the oldest such attempt. *)
Oldest(S) == IF S = {} THEN 0 ELSE Min(S)

(* 0 if there is none. *)
Newest(S) == IF S = {} THEN 0 ELSE Max(S)

(* The newest attempt that is open or already ambiguous. *)
Undecided == Newest({i \in DOMAIN att : att[i].outcome \in {"open", "ambiguous"}})

NewestOpen == Newest({i \in DOMAIN att : att[i].outcome = "open"})

Transition(state) == Move(state) /\ UNCHANGED log

Decide(i, outcome) ==
    att' = [k \in DOMAIN att |-> IF k = i THEN [att[k] EXCEPT !.outcome = outcome] ELSE att[k]]

(* Mutant: the key of the event names the job only. *)
KeyOfTheJob == "ambiguous"

(* The keys of these events name the generation, so none of them comes back. *)
DoubtKey == ""

(* A job whose submission nobody can vouch for: the job, the attempt, the application and the
   event in one transaction. *)
Doubt(i, typed) ==
    /\ job' = [job EXCEPT !.state = "ambiguous", !.gen = @ + 1, !.held = FALSE, !.live = FALSE]
    /\ Decide(i, "ambiguous")
    /\ app' = "ambiguous"
    /\ Projected(DoubtKey, "ambiguous")
    /\ told' = (told \/ typed)
    /\ UNCHANGED <<pack, stamped>>

-----------------------------------------------------------------------------
(* The worker. *)

(* The event of a claim projects in the claim's own transaction. *)
Claim ==
    /\ wk.pc = "idle"
    /\ app # "dismissed" /\ ~job.off /\ job.gen < MaxGen
    /\ \/ job.state \in {"ready", "retry_wait"}
       \/ job.state = "claimed" /\ ~job.live
    /\ job' = [job EXCEPT !.state = "claimed", !.gen = @ + 1, !.held = TRUE, !.live = TRUE]
    /\ wk' = [Idle EXCEPT !.pc = "claimed", !.gen = job.gen + 1, !.mine = TRUE]
    /\ Projected("", "claimed")
    /\ UNCHANGED <<app, pack, att, told, stamped, rest>>

(* Artifacts missing, or an aggregator's posting: it fails before there is an attempt. *)
FailWithoutAttempt(state) ==
    /\ wk.pc = "claimed"
    /\ Transition(state)
    /\ IF state = "retry_wait" THEN Goto("noting") ELSE Leave
    /\ UNCHANGED <<att, rest>>

(* The worker finds a package in either directory. *)
Packaged == pack # "gone"

(* Mutant: the number of the new attempt is taken after it was inserted. *)
CreateAttemptThenCount ==
    /\ wk.pc = "claimed" /\ Packaged
    /\ IF wk.mine
       THEN /\ att' = Append(att, [gen |-> wk.gen, intent |-> FALSE, outcome |-> "open"])
            /\ wk' = [wk EXCEPT !.pc = "created", !.att = Len(att) + 2]
       ELSE Leave /\ UNCHANGED att
    /\ UNCHANGED <<app, pack, job, events, stamped, rest>>

(* create_attempt looks at no lease; of a purged job it raises, and ends the worker's thread. *)
CreateAttempt ==
    /\ wk.pc = "claimed" /\ Packaged
    /\ IF wk.mine
       THEN /\ att' = Append(att, [gen |-> wk.gen, intent |-> FALSE, outcome |-> "open"])
            /\ wk' = [wk EXCEPT !.pc = "created", !.att = Len(att) + 1]
       ELSE Leave /\ UNCHANGED att
    /\ UNCHANGED <<app, pack, job, events, stamped, rest>>

(* attempt_started: a PermissionError if the lease is gone, which leaves the attempt open. *)
RecordStarted ==
    /\ wk.pc = "created"
    /\ IF Owns
       THEN Goto("started") /\ Projected("attempt_started", job.state)
       ELSE Leave /\ UNCHANGED <<row, log, silent>>
    /\ UNCHANGED <<app, pack, job, att, told, stamped, rest>>

(* Paused, no room on disk, or the heartbeat saw the lease gone: the attempt stays open. *)
Released ==
    /\ wk.pc \in {"claimed", "started"}
    /\ Leave
    /\ UNCHANGED <<tables, rest>>

Outcome(state) == wk' = [wk EXCEPT !.pc = "completing", !.out = state]

(* The early check found a submission within the interval. *)
Reschedule ==
    /\ wk.pc = "started" /\ stamped
    /\ \/ Transition("retry_wait") /\ Outcome("retry_wait") /\ UNCHANGED <<att, rest>>
       \/ Refused

(* upsert_application inserts a purged row again, and asks nothing of the one it replaces. *)
Upsert(status) == app' = status

(* record_application prints the error of a write that failed. *)
Record(status) == Upsert(status) \/ UNCHANGED app

(* The browser's own record of how it went: by URL, whoever owns the job. *)
BrowserRecords(status) == Record(status) /\ UNCHANGED <<pack, job, att, events, stamped, rest>>

BrowserFails == wk.pc \in {"started", "cleared"} /\ BrowserRecords("failed") /\ Goto("failing")

BrowserOnlyFills == wk.pc = "started" /\ BrowserRecords("other") /\ Goto("filled")

(* A challenge or an invalid form reaches the worker as it is, other errors after a record. *)
Fail(state) ==
    /\ wk.pc = "started" \/ (wk.pc = "failing" /\ state # "challenge")
    /\ \/ Transition(state) /\ Outcome(state) /\ UNCHANGED <<att, rest>>
       \/ Refused

(* The operator asked for the login page again: nothing but the page is opened, and the attempt
   is not completed. *)
ReopenForLogin ==
    /\ wk.pc = "started" /\ Leave
    /\ IF Owns /\ ~job.off
       THEN job' = [job EXCEPT !.state = "challenge"] /\ Projected("", "challenge")
       ELSE UNCHANGED <<job, row, log, silent>>
    /\ UNCHANGED <<app, pack, att, told, stamped, rest>>

(* A filled form is skipped without a look at the lease's expiry. *)
SkipFilled ==
    /\ wk.pc = "filled"
    /\ IF Owns /\ ~job.off
       THEN job' = [job EXCEPT !.state = "skipped"] /\ Projected("", "skipped")
       ELSE UNCHANGED <<job, row, log, silent>>
    /\ Goto("leaving")
    /\ UNCHANGED <<app, pack, att, told, stamped, rest>>

(* And its attempt is completed without a fence. *)
CompleteFilled ==
    /\ wk.pc = "leaving" /\ Leave
    /\ IF wk.mine THEN Decide(wk.att, "skipped") ELSE UNCHANGED att
    /\ UNCHANGED <<app, pack, job, events, stamped, rest>>

(* Of the safety checks the pacing interval; the lease is looked at again by the intent, and the
   others may refuse at any time, which is BrowserFails. *)
SafeToSubmit == ~stamped

(* Mutant: the early check was enough. *)
PassUnchecked ==
    /\ wk.pc = "started" /\ Goto("cleared")
    /\ UNCHANGED <<tables, rest>>

PassChecks ==
    /\ wk.pc = "started" /\ SafeToSubmit /\ Goto("cleared")
    /\ UNCHANGED <<tables, rest>>

(* The job, the attempt and the events in one transaction, some time after the checks. *)
RecordIntent ==
    /\ wk.pc = "cleared"
    /\ Move("submitting") /\ log' = log \union {"submit_intent_persisted"}
    /\ att' = [k \in DOMAIN att |->
                  IF k = wk.att THEN [att[k] EXCEPT !.intent = TRUE] ELSE att[k]]
    /\ Goto("intent")
    /\ UNCHANGED rest

(* The click, the page's answer and the browser's record of it.  A rejected submission is
   recorded as ambiguous, like one whose page broke after the click. *)
Click(answer) ==
    /\ wk.pc = "intent" /\ Live /\ ~job.off /\ job.state = "submitting"
    /\ BrowserRecords(IF answer = "applied" THEN "applied" ELSE "ambiguous")
    /\ wk' = [wk EXCEPT !.pc = "judged", !.out = answer]

(* The permit was refused, or the page broke before the click: after the intent that is a doubt
   all the same. *)
NoClick ==
    /\ wk.pc = "intent"
    /\ BrowserRecords("ambiguous")
    /\ wk' = [wk EXCEPT !.pc = "judged", !.out = "ambiguous"]

(* What _mark_job_ambiguous_on_conn asks of the job; a resume may have made it applied. *)
MayBeDoubted == job.state \in {"claimed", "submitting"}

(* reconcile_submission_outcome, up to the transaction that moves the job. *)
Reconcile ==
    /\ wk.pc = "judged"
    /\ \/ Refused
       \/ wk.out = "ambiguous" /\ ~MayBeDoubted /\ Leave /\ UNCHANGED <<tables, rest>>
       \/ /\ wk.out \in {"applied", "failed_permanent"}
          /\ Transition(wk.out) /\ Goto("completing")
          /\ recent' = (recent \/ wk.out = "applied")
          /\ beside' = (beside /\ wk.out # "applied")
          /\ UNCHANGED <<att, cut, res>>
       \/ /\ wk.out = "ambiguous"
          /\ Live /\ MayBeDoubted /\ Doubt(wk.att, TRUE) /\ Leave
          /\ UNCHANGED rest

(* Mutant: complete_attempt without its look at the job. *)
AcceptsAny == wk.mine

(* What complete_attempt asks of the job: the generation and the owner, and not ready. *)
Accepts == Owns /\ job.state # "ready"

CompleteAttempt ==
    /\ wk.pc = "completing"
    /\ IF Accepts THEN Decide(wk.att, wk.out) ELSE UNCHANGED att
    /\ CASE wk.out = "applied" -> Goto("stamping")
         [] wk.out = "retry_wait" -> Goto("noting")
         [] OTHER -> Leave
    /\ UNCHANGED <<app, pack, job, events, stamped, rest>>

Stamp ==
    /\ wk.pc = "stamping" /\ Goto("marking")
    /\ stamped' = TRUE
    /\ UNCHANGED <<app, pack, job, att, events, rest>>

MarkApplied ==
    /\ wk.pc = "marking" /\ Goto("noting")
    /\ app' = IF app = "none" THEN app ELSE "applied"
    /\ UNCHANGED <<pack, job, att, events, stamped, rest>>

(* application_applied, retry_scheduled: events without a fence, projected if the job exists. *)
Note ==
    /\ wk.pc = "noting" /\ Leave
    /\ IF wk.mine THEN Projected("", job.state) ELSE UNCHANGED <<row, log, silent>>
    /\ UNCHANGED <<app, pack, job, att, told, stamped, rest>>

(* The process dies, or one of the writes after the last transition raises: the handler finds the
   job in a state it may not mark. *)
Crash ==
    /\ wk.pc # "idle" /\ Leave
    /\ cut' = (cut \/ (wk.mine /\ wk.pc = "completing" /\ wk.out \in Ended))
    /\ recent' = (recent /\ ~(wk.out = "applied" /\ wk.pc \in {"completing", "stamping"}))
    /\ UNCHANGED <<tables, res, beside>>

(* The heartbeat fell behind. *)
LeaseLapses ==
    /\ job.live
    /\ job' = [job EXCEPT !.live = FALSE]
    /\ UNCHANGED <<app, pack, att, events, stamped, wk, rest>>

WorkerStep ==
    \/ CreateAttempt \/ RecordStarted \/ Released \/ Reschedule
    \/ BrowserFails \/ BrowserOnlyFills \/ ReopenForLogin \/ SkipFilled \/ CompleteFilled
    \/ \E s \in {"retry_wait", "failed_permanent", "challenge"} : FailWithoutAttempt(s) \/ Fail(s)
    \/ PassChecks \/ RecordIntent \/ NoClick
    \/ \E a \in {"applied", "ambiguous", "failed_permanent"} : Click(a)
    \/ Reconcile \/ CompleteAttempt \/ Stamp \/ MarkApplied \/ Note

-----------------------------------------------------------------------------
(* The worker loop's sweeps, at its start and every few seconds between jobs. *)

(* A submission whose worker lost its lease. *)
ReconcileStranded ==
    /\ wk.pc = "idle"
    /\ job.state = "submitting" /\ ~job.live
    /\ Doubt(Undecided, TRUE)
    /\ UNCHANGED <<wk, rest>>

(* Mutant: the repair does not look at the application. *)
AttemptMissesDoubt == (att # <<>> /\ Last(att).outcome # "ambiguous") \/ ~told

(* The ambiguity is missing from the newest attempt, the application or the events. *)
MissesDoubt ==
    \/ att # <<>> /\ Last(att).outcome # "ambiguous"
    \/ app # "ambiguous"
    \/ ~told

Repair ==
    /\ wk.pc = "idle"
    /\ job.state = "ambiguous" /\ MissesDoubt
    /\ Decide(Undecided, "ambiguous") /\ app' = "ambiguous"
    /\ Projected("projection_repair", "ambiguous")
    /\ told' = TRUE
    /\ UNCHANGED <<pack, job, stamped, wk, rest>>

Sweep == ReconcileStranded \/ Repair

-----------------------------------------------------------------------------
(* The dashboard. *)

(* The attempts and events are another job's, or no job's; a worker or a resume still busy with the
   earlier one is not of it. *)
Renewed ==
    /\ att' = <<>> /\ log' = {} /\ told' = FALSE /\ silent' = FALSE
    /\ wk' = [wk EXCEPT !.mine = FALSE] /\ res' = [res EXCEPT !.mine = FALSE]
    /\ cut' = FALSE /\ beside' = FALSE

(* A new job and its empty records; an application whose job has not ended keeps that one.  The
   status stays what it was. *)
Enqueue ==
    /\ job.state \in Ended \union {"absent"}
    /\ job' = [NoJob EXCEPT !.state = "ready"]
    /\ row' = "ready"
    /\ Renewed
    /\ UNCHANGED <<app, pack, stamped, recent>>

Apply == app # "none" /\ Enqueue

(* Without a selection it takes the pending applications, whatever became of their jobs. *)
BatchApply == app = "pending" /\ Enqueue

(* job.gen < MaxGen bounds the run, here and below. *)
SkipInFlight ==
    /\ job.state = "submitting" /\ job.gen < MaxGen
    /\ Doubt(NewestOpen, FALSE)
    /\ UNCHANGED <<wk, rest>>

Skip ==
    /\ job.state \in PreSubmit /\ job.gen < MaxGen
    /\ job' = [NoJob EXCEPT !.state = "skipped", !.gen = job.gen + 1, !.off = TRUE]
    /\ app' = "skipped"
    /\ Projected("", "skipped")
    /\ UNCHANGED <<pack, att, told, stamped, wk, rest>>

(* For an ambiguous job with force only. *)
Resolve ==
    /\ job.state \in {"skipped", "challenge", "ambiguous"} /\ job.gen < MaxGen
    /\ job' = [NoJob EXCEPT !.state = "ready", !.gen = job.gen + 1]
    /\ app' = IF app \in {"ambiguous", "failed", "skipped"} THEN "pending" ELSE app
    /\ Projected("", "ready")
    /\ UNCHANGED <<pack, att, told, stamped, wk, rest>>

(* A job in flight keeps its state; of the states that wait for the operator some are cancelled. *)
Cancel(state) ==
    /\ job.state # "absent"
    /\ \/ job.state \in {"ready", "retry_wait", "challenge"} /\ state = "cancelled"
       \/ job.state \notin {"ready", "retry_wait"} /\ state = job.state
    /\ job' = [job EXCEPT !.state = state, !.off = TRUE]
    /\ app' = "other"
    /\ Projected("", state)
    /\ UNCHANGED <<pack, att, told, stamped, wk, rest>>

(* Back to ready under a new generation, with no event of the job that would project it. *)
Revoke ==
    /\ job' = [job EXCEPT !.state = "ready", !.gen = @ + 1, !.held = FALSE, !.live = FALSE]
    /\ silent' = TRUE
    /\ UNCHANGED <<app, pack, att, row, log, told, stamped>>

(* Clear State: a submission in flight becomes ambiguous, a job before it ready, of those that
   wait for the operator some.  The event of the latter is never committed. *)
ClearState ==
    /\ ~job.off /\ job.gen < MaxGen
    /\ \/ job.state = "submitting" /\ Doubt(Undecided, FALSE)
       \/ /\ job.state \in {"claimed", "challenge"}
          /\ Revoke
    /\ UNCHANGED <<wk, rest>>

(* Emergency stop, of another process it may be: a submission in flight becomes ambiguous, and the
   lease of a job before it is revoked. *)
EmergencyStop ==
    /\ job.gen < MaxGen
    /\ \/ job.state = "submitting" /\ Doubt(Undecided, FALSE)
       \/ job.state = "claimed" /\ Revoke
    /\ UNCHANGED <<wk, rest>>

(* The daemon shuts down and its worker does not stop in time: whatever that worker holds is
   fenced off.  The event that follows projects the state, the attempt must be an open one. *)
ShutdownReconcile ==
    /\ job.held /\ job.state \notin Ended /\ job.gen < MaxGen
    /\ \/ job.state = "submitting" /\ Doubt(NewestOpen, TRUE)
       \/ /\ job.state # "submitting"
          /\ job' = [job EXCEPT !.state = IF @ = "challenge" THEN @ ELSE "ready",
                                !.gen = @ + 1, !.held = FALSE, !.live = FALSE]
          /\ Projected("", job'.state)
          /\ UNCHANGED <<app, pack, att, told, stamped>>
    /\ UNCHANGED <<wk, rest>>

(* requeue_auth_required_job: the generation stays, the lease goes. *)
AuthReopened ==
    /\ job.state = "challenge"
    /\ job' = [job EXCEPT !.state = "ready", !.held = FALSE, !.live = FALSE]
    /\ Projected("", "ready")
    /\ UNCHANGED <<app, pack, att, told, stamped, wk, rest>>

(* The handlers below look neither at the job nor at the status they replace.  A package that
   cannot be deleted stays. *)
Discards == pack' \in IF pack = "queue" THEN {"queue", "gone"} ELSE {pack}

Dismiss ==
    /\ app # "none" /\ app' = "dismissed" /\ Discards
    /\ UNCHANGED <<job, att, events, stamped, wk, rest>>

(* get_safe_app_folder: the package must be where the queue keeps it. *)
InQueue == pack = "queue"

MarkDone ==
    /\ InQueue /\ pack' = "applied" /\ Record("applied")
    /\ UNCHANGED <<job, att, events, stamped, wk, rest>>

Regenerate ==
    /\ InQueue /\ Record("other")
    /\ UNCHANGED <<pack, job, att, events, stamped, wk, rest>>

Prune ==
    /\ InQueue /\ Discards /\ Record("skipped")
    /\ UNCHANGED <<job, att, events, stamped, wk, rest>>

(* Old packages go, their records stay. *)
Cleanup ==
    /\ InQueue /\ pack' = "gone"
    /\ UNCHANGED <<app, job, att, events, stamped, wk, rest>>

(* Skip and cancel of an application that has no job. *)
SkipApplication ==
    /\ job.state = "absent" /\ app # "none" /\ app' = "skipped"
    /\ UNCHANGED <<pack, job, att, events, stamped, wk, rest>>

CancelApplication ==
    /\ job.state = "absent" /\ app # "none" /\ app' = "other"
    /\ UNCHANGED <<pack, job, att, events, stamped, wk, rest>>

(* Clear failed deletes the row, and with it the job, its attempts and its status row, even
   under a worker: the next retry of a job is deleted with its application. *)
ClearFailed ==
    /\ app = "failed" /\ app' = "none" /\ Discards
    /\ job' = NoJob /\ row' = "absent"
    /\ Renewed
    /\ UNCHANGED <<stamped, recent>>

(* The tracker's form. *)
UpdateStatus(status) ==
    /\ app # "none" /\ app' = status
    /\ UNCHANGED <<pack, job, att, events, stamped, wk, rest>>

IntervalPasses ==
    /\ stamped \/ recent
    /\ stamped' = FALSE /\ recent' = FALSE
    /\ UNCHANGED <<app, pack, job, att, events, wk, res, cut, beside>>

(* _QUEUE_LOCK of the web process, which a resume keeps until it has an answer. *)
QueueLockFree == res.pc \in {"none", "approved"}

Operator ==
    \/ /\ QueueLockFree
       /\ \/ Apply \/ BatchApply \/ SkipInFlight \/ Skip \/ Resolve \/ ClearState
          \/ AuthReopened \/ SkipApplication \/ CancelApplication
          \/ \E s \in JobStates : Cancel(s)
    \/ ClearFailed \/ Dismiss \/ MarkDone \/ Regenerate \/ Prune \/ Cleanup
    \/ \E s \in Statuses \ {"none"} : UpdateStatus(s)

Stops == EmergencyStop \/ ShutdownReconcile

-----------------------------------------------------------------------------
(* Safe resume (safe_resume_revalidate), one request at a time but for its last event.  It has read
   the job before; here it asks again. *)

Resumable == job.state \in {"challenge", "claimed", "retry_wait"} /\ job.held /\ job.live

(* The page shows the application as received: the job is still the one that was read. *)
ResumeChecks ==
    /\ res.pc = "none" /\ Resumable
    /\ res' = [pc |-> "checked", gen |-> job.gen, att |-> 0, mine |-> TRUE]
    /\ UNCHANGED <<tables, wk, history>>

(* transition_job in the name of the job's owner.  The worker may have come further meanwhile. *)
ResumeApplies ==
    /\ res.pc = "checked" /\ res.mine
    /\ job.held /\ job.live /\ ~job.off /\ job.gen = res.gen
    /\ job' = [job EXCEPT !.state = "applied"]
    /\ row' = "applied" /\ silent' = FALSE
    /\ res' = [res EXCEPT !.pc = "moved", !.gen = 0]
    /\ beside' = IF job.state = "applied" THEN beside ELSE wk.mine \/ att = <<>>
    /\ UNCHANGED <<app, pack, att, log, told, stamped, wk, recent, cut>>

Resumes(pc) == res' = [res EXCEPT !.pc = pc]

(* Stop, takeover and pause are cleared; then the newest attempt is looked up, *)
ResumeFinds ==
    /\ res.pc = "moved"
    /\ res' = [res EXCEPT !.pc = "found", !.att = IF res.mine THEN Len(att) ELSE 0]
    /\ UNCHANGED <<tables, wk, history>>

(* Mutant: completed if it is still open. *)
ResumeCompletesOpen ==
    /\ res.pc = "found" /\ res' = [res EXCEPT !.pc = "completed", !.att = 0]
    /\ IF res.mine /\ res.att = NewestOpen THEN Decide(res.att, "applied") ELSE UNCHANGED att
    /\ UNCHANGED <<app, pack, job, events, stamped, wk, history>>

(* and completed without a fence, if there is one. *)
ResumeCompletes ==
    /\ res.pc = "found" /\ res' = [res EXCEPT !.pc = "completed", !.att = 0]
    /\ IF res.mine THEN Decide(res.att, "applied") ELSE UNCHANGED att
    /\ UNCHANGED <<app, pack, job, events, stamped, wk, history>>

ResumeStamps ==
    /\ res.pc = "completed" /\ Resumes("stamped")
    /\ stamped' = TRUE
    /\ UNCHANGED <<app, pack, job, att, events, wk, history>>

ResumeMarks ==
    /\ res.pc = "stamped" /\ Resumes("marked")
    /\ app' = IF app = "none" THEN app ELSE "applied"
    /\ UNCHANGED <<pack, job, att, events, stamped, wk, history>>

(* Nothing speaks against it: the job goes back to the queue under its old generation.  Its event
   is recorded when the lock is given back. *)
ResumeRequeues ==
    /\ res.pc = "none" /\ Resumable
    /\ job' = [job EXCEPT !.state = "ready", !.held = FALSE, !.live = FALSE]
    /\ silent' = TRUE
    /\ res' = [NoResume EXCEPT !.pc = "approved", !.mine = TRUE]
    /\ UNCHANGED <<app, pack, att, row, log, told, stamped, wk, history>>

ResumeNotes ==
    /\ res.pc \in {"marked", "approved"} /\ res' = NoResume
    /\ IF res.mine THEN Projected("", job.state) ELSE UNCHANGED <<row, log, silent>>
    /\ UNCHANGED <<app, pack, job, att, told, stamped, wk, history>>

(* It is refused, loses the takeover, raises, or its process dies. *)
ResumeEnds ==
    /\ res.pc # "none" /\ res' = NoResume
    /\ cut' = (cut \/ (res.mine /\ res.pc \in {"moved", "found"}))
    /\ UNCHANGED <<tables, wk, recent, beside>>

Resume ==
    \/ ResumeChecks \/ ResumeApplies \/ ResumeFinds \/ ResumeCompletes \/ ResumeStamps
    \/ ResumeMarks \/ ResumeRequeues \/ ResumeNotes \/ ResumeEnds

Steps ==
    \/ Claim \/ WorkerStep \/ Crash \/ LeaseLapses \/ Sweep
    \/ Operator \/ Stops \/ IntervalPasses

Next == Steps \/ Resume

Spec == Init /\ [][Next]_vars

(* The worker goes on with its job, and comes back to the loop that sweeps: this holds as long as
   no other application's job waits in it for an operator. *)
Fairness == WF_vars(WorkerStep) /\ WF_vars(Sweep)

-----------------------------------------------------------------------------

Pcs == {"idle", "claimed", "created", "started", "cleared", "failing", "filled", "leaving",
        "intent", "judged", "completing", "stamping", "marking", "noting"}

ResumePcs == {"none", "checked", "moved", "found", "completed", "stamped", "marked", "approved"}

(* The records have their types, and a worker's or a resume's attempt is one of its job. *)
TypeOK ==
    /\ app \in Statuses /\ pack \in {"queue", "applied", "gone"} /\ row \in JobStates
    /\ job \in [state : JobStates, gen : 0 .. MaxGen + 1,
                held : BOOLEAN, live : BOOLEAN, off : BOOLEAN]
    /\ att \in Seq([gen : 1 .. MaxGen, intent : BOOLEAN, outcome : Outcomes])
    /\ log \subseteq {"attempt_started", "submit_intent_persisted", "projection_repair"}
    /\ wk \in [pc : Pcs, gen : 0 .. MaxGen, att : Nat, out : Outcomes, mine : BOOLEAN]
    /\ wk.mine => wk.att <= Len(att)
    /\ res \in [pc : ResumePcs, gen : 0 .. MaxGen + 1, att : Nat, mine : BOOLEAN]
    /\ res.mine => res.att <= Len(att)
    /\ {told, silent, stamped, recent, cut, beside} \subseteq BOOLEAN

(* Whoever made the job final has yet to record the outcome of attempt i. *)
Owed(i) ==
    \/ wk.mine /\ wk.pc = "completing" /\ wk.att = i
    \/ res.mine /\ (res.pc = "moved" \/ (res.pc = "found" /\ res.att = i))

(* An attempt that reached the submit boundary and has no outcome is one whose submission is in
   flight, at its job's generation, or whose outcome the worker or the resume that decided the job
   is about to record (or stopped before it could).  No release, skip, cancel, Clear State, stop,
   shutdown, sweep, resume or forced resolution loses it. *)
IntentIsAccounted ==
    \A i \in DOMAIN att : att[i].intent /\ att[i].outcome = "open" =>
        \/ job.state = "submitting" /\ job.gen = att[i].gen
        \/ job.state \in {"applied", "failed_permanent"} /\ (cut \/ Owed(i))

(* The dashboard's status row shows the job's state, whatever keys its events repeat.  The one
   exception is a job made ready by Clear State, an emergency stop or a safe resume, none of which
   projects that, until the next event of the job. *)
StatusRowFollowsTheJob == row = job.state \/ (silent /\ job.state = "ready")

(* The newest attempt of an applied job is recorded as applied, once its worker or the resume that
   did it is past that write: the daily limit counts these attempts.  A resume that made the job
   applied beside its worker, or before it had an attempt, keeps no such promise. *)
AppliedIsRecorded ==
    job.state = "applied" /\ ~cut /\ ~beside =>
        att # <<>> /\ (Last(att).outcome = "applied" \/ Owed(Len(att)))

(* A worker that was fenced off writes nothing to the job and to no attempt's outcome (a stale
   worker "must make zero writes", resolve_job), except for a form it only filled. *)
StaleWorkerWritesNothing ==
    [][wk.pc \notin {"idle", "leaving"} /\ wk'.pc # wk.pc /\ ~Owns =>
        /\ job' = job
        /\ \A i \in DOMAIN att : att'[i].outcome = att[i].outcome]_vars

(* No submission is begun within the pacing interval of one that its worker recorded as applied,
   although the check and the intent are two transactions, unless that worker died before it could
   leave the timestamp.  What a safe resume records as applied is not paced: it stamps later. *)
PacingIsKept == [][job'.state = "submitting" /\ job.state # "submitting" => ~recent]_vars

(* An ambiguous job's application says so again and again: the repair sweep undoes what other
   writers of the status make of it, for as long as nobody resolves the job and no other job's
   challenge keeps the loop from sweeping. *)
AmbiguityIsRestored == []<>(job.state = "ambiguous" => app = "ambiguous")

=============================================================================
