# A verification project for job-applier

job-applier finds job postings, tailors a resume, and submits applications through a real browser, with an operator
who can watch, pause and take over. The one thing it must not do is submit the same application twice without the
operator's word; the hard part is that a submission can be interrupted at any point by a crash, a lost lease, a stop,
a takeover or a restart. This directory models the durable queue that guards it, the records kept beside it, the
browser session the operators share with the worker, the edge that lets them in, and the alerts they get; TLC checks
the models on small instances, and TLAPS proves the properties that matter most for every value of the constants.

## The system

Two processes share one SQLite database (WAL): the web process (`web/app.py`, the dashboard's API) and the runtime
daemon (`cli/runtime_daemon.py`), whose worker thread runs `cli/worker.py`. Command-line tools open the same database.

| Component | State it keeps | Operations | Interacts through | Hard behaviour | What makes it correct |
|---|---|---|---|---|---|
| Automation queue (`automation/queue.py`) | `automation_jobs`: state, lease owner and expiry, fencing generation, cancel flag, attempts | enqueue, claim, renew, transition, fail, reschedule, cancel, skip, resolve, sweep, clear-state | SQLite transactions of every process | lease expiry, stale owners, multi-step operations | one owner per generation; stale writes change nothing; an ambiguous submission leaves only by force |
| Submit boundary (`queue.py`, `safety_guard.py`, `browser_automator.py`, adapters) | durable intent, `SubmitClickFence` (an open `BEGIN IMMEDIATE`), evidence | gate, intent, permit, click, verify, reconcile | the write lock, callbacks into the adapter | a crash or an exception between any two steps | no second click; a click is never forgotten; no takeover, pause or stop is granted during a click |
| Worker loop (`cli/worker.py`) | local: claimed job and generation, heartbeat, browser | poll, process, wait on a challenge, sweep | queue, controls | it acts on what it read earlier; its heartbeat is another thread | a worker that lost its job can do no harm |
| Runtime controls (`queue.py`, `ops/emergency_stop.py`, `automation/safe_resume.py`) | `runtime_control`: pause, stop, takeover lease, browser fields | pause, stop, clear, resume, reopen auth | every process | several transactions per operation | stop and pause reach a worker before its click; resume does not duplicate a submission |
| Takeover and browser session (`queue.py`, `web/app.py`, `worker.py`) | takeover owner and expiry, browser job and generation, pending code | claim, renew, release, publish, shut down, submit code | controls, VNC relay | owners change between a check and its use | only the owner acts; an old session does not overwrite a new one |
| Records (`queue.py`, `safety_guard.py`, `browser_automator.py`, `db.py`) | applications, attempts, status row, events, pacing timestamp | complete, record, project, repair | written by the worker, its browser, two sweeps, a daemon's shutdown, an emergency stop and the dashboard, most without a fence | crashes between the writes, stale writers, repeated event keys | an attempt that may have been sent is never lost; the status row follows the job; an ambiguity comes back |
| Notification outbox (`ntfy.py`, `queue.py`) | `notification_outbox` | enqueue, drain, retry | worker loop, HTTP | lost acknowledgements, two drainers | delivered or given up after bounded retries |
| Runtime daemon, locks | child processes, `flock`s | start, supervise, shut down | signals, threads | a worker thread that outlives the shutdown | its jobs are fenced and reconciled |
| Backup and restore (`ops/backup.py`) | archive, quiesce flag | back up, restore, retention | controls | runs beside operators | it leaves the controls as they should be |
| Edge authentication (`web/edge_auth.py`) | a cache of signing keys, without a lock | verify, refresh, route | the identity provider, event loop and thread pool | rotation, failed refreshes, threads that clear what another fetched | a withdrawn key stops; a rightful caller gets in again; no handler without an identity |
| Remote viewer (`web/edge_auth.py`) | parser state and time limit of a connection | admit, relay, filter, end | takeover lease, transport lock | frames cut anywhere while the lease changes hands | input comes from the holder only; a viewer ends with its token |
| Dashboard (`web/app.py`, `frontend/`) | the tracker | endpoints, requeue, batch | queue, controls, records | check in one transaction, act in another | it goes through the queue's rules |
| Pipeline, scrapers, dedup, tracker, sync, resume, questions | files and CSV | sequential | - | little | pure functions with reference definitions |

`PROJECT.json` lists every component with its status, and every hazard with its line.

## Modules

- `Submission.tla` - what the queue promises, abstractly: a job is *open*, *armed* (durable intent), *sent* (clicked),
  *unknown* or *settled*. A click happens only when armed; an armed or sent job that is not settled becomes unknown;
  only a `Reopen` leads back. It has no workers, leases or controls.
- `JobQueue.tla` - the queue, its workers, the submit boundary and the runtime controls, composed over the one
  database they share. `job` is the table `automation_jobs`, `ctl` the row of `runtime_control`, `wk` the position of
  each worker thread in `process_claimed_job`, with the job and generation it remembers, `fence` the holder of the
  write lock during a click, `clicked` a history variable: submit was clicked since the last forced resolution.
- `WebRequeue.tla` - `JobQueue` with the tracker's requeue, which writes the table itself.
- `JobQueueProofs.tla`, `JobQueueSteps.tla`, `JobQueueRefinement.tla` - the theorems about it.
- `Outbox.tla` - the notification outbox: alerts, keyed as the table is, and the drainers that push them. A drainer's
  `batch` is what `process_outbox` still holds of the rows it read, with the answer it got for the one it sent.
- `Delivery.tla` - what the outbox promises of an alert, abstractly: a fate, a count of attempts and whether it reached the
  operator, without drainers, batches or answers. `OutboxProofs.tla` has the theorems, and that `Outbox` implements it.
- `Records.tla` - what the tables say of one application: its row, its current job, the job's attempts, the projected
  status row, the keys of its events and the pacing timestamp. They are written by the worker and its browser, the loop's two
  sweeps, the daemon that shuts down, an emergency stop, and the dashboard with its safe resume; the writers left out are
  listed at the end.
- `RecordsProofs.tla` - the theorems about it.
- `Takeover.tla` - what the manual takeover promises, abstractly: one operator at a time holds the browser, and while
  a relay carries an operator's input nobody else comes to hold it.
- `BrowserSession.tla` - the browser's fields of `runtime_control` and everyone who reads or writes them: workers that
  publish their browser and wait at a challenge, the daemon that shuts down, the lease with its owner's identity, and
  the dashboard's requests, checked in one step and done in another. `BrowserSessionProofs.tla` shows that it
  implements `Takeover`, and that a live session stays.
- `Viewer.tla` - a viewer socket: admission, the RFB filter over a byte stream cut anywhere, the lease that it asks, the
  time limit. `ViewerProofs.tla` has its theorems.
- `EdgeAuth.tla` - which requests reach a handler, and the cache of the provider's keys under its threads.
  `EdgeAuthProofs.tla` has its theorems.
- `MC*.tla` and the `.cfg` files - instances for TLC.

The modules meet where the code does. `JobQueue` has the jobs and the controls of every process, with the takeover as one
field. `BrowserSession` has the takeover and the browser in full and of the jobs what sessions depend on. `Viewer` refines
its one-step relay of a frame into bytes, and `Records` follows one application through the transitions of `JobQueue`.
`Outbox` takes from them that a job is in doubt.

How the model corresponds to the code:

- One action is one committed transaction, with everything the handler does in it, or one step of a worker between two
  transactions. Where the code uses several transactions, there are several actions: `ClearStateMark` and
  `ClearStateReset`, `FailInteractive` and `PauseAfterFailure`, `PauseForAuth` and `AuthReopened`, `RequeueReads` and
  `RequeueResets`. `ResumeConfirmed` is enabled in states its own `SELECT` would have refused, because the worker may
  advance the job between that read and `transition_job`. The three writes of a resume (stop, takeover, pause) are
  made inside one process-wide lock and only loosen the controls: they are one action.
- The process-wide `_QUEUE_LOCK` and `TAKEOVER_TRANSPORT_LOCK` order only the threads of one process. What orders
  processes is SQLite's write lock: every action that writes the database needs `DbFree`, nobody being inside a click
  fence.
- Time is abstract. A lease ages live -> short (`SUBMIT_LEASE_MARGIN_SECONDS` or less left) -> expired; `LeaseAges`
  may happen at any time, also under a click fence, since no one writes when time passes. The lease of a terminal job
  is read by nobody and does not age. `RetryDue` is the retry time passing.
- `WorkerGone` is a crash, a heartbeat that lost the lease, a fenced write that was rejected, a pause seen before the
  browser opens, a stop, or a claim that found nothing. It is enabled everywhere, so every prefix of a worker's run
  is a run of the model.
- `captcha_required` stands for `mfa_required` too, which no code treats differently; `filling`, `validating` and
  `site_changed` are declared and never assigned. Application rows are outside the module: the dismissed applications
  that `claim_next_job` skips are an arbitrary set chosen at each claim.
- `Outbox` is not composed with `JobQueue`: all it takes from a job is that it becomes ambiguous and is resolved. A read,
  a push and the record of its outcome are three actions, for `process_outbox` holds no lock over them; a push may reach
  the phone and still answer an error; `Abandon` is a crash or an exception anywhere in a batch. The order of a batch
  and its limit of 20 are abstracted to "some of the rows that are due, in any order". No caller names a `dedup_key`
  but the ambiguity's, so every other alert has a row of its own. The loop drains when it is stopped, paused or finds nothing
  to claim (`worker.py:1036`, 1054, 1070): never while it has a job in hand (`busy`, from `TakeJob` to `RunOutOfJobs`), which
  may wait at a challenge without limit. The other drainers are threads and the endpoint.
- `Records`: one record `wk` is the worker and its successors after a crash, because the singleton lock lets one worker
  run; a job that was replaced or purged under it is `wk.mine = FALSE`. `claimed` stands for navigating, filling and
  validating, `submitting` for `submit_intent` and `verifying`, `challenge` for the states that wait for the operator.
  An event is its key, and only the keys that repeat are kept. What the browser records by URL (`record_application`) is
  a write of its own, of whoever owns the job, and may be lost, for its errors are printed and swallowed; so may the
  deletion of a package. Pauses and retry times are free choices. The pacing check (`PassChecks`) and the intent are
  two steps, as in the code. `Undecided` may name no attempt, then `Decide` changes none, like the `UPDATE` in the code.
- The safe resume in `Records` is a record `res` of its own: `safe_resume_revalidate` asks whether the job is still the one it
  read (`ResumeChecks`), makes it applied, looks up the newest attempt, completes it without a fence, stamps, marks the
  application and records its event, each in a transaction of its own, and may end after any of them (`ResumeEnds`: refused,
  an exception, a crash). It holds the queue's lock of the web process all the while (`QueueLockFree`), which orders it with
  the dashboard's queue operations, but not with the worker, the daemon, or an emergency stop of another process. One runs at
  a time. A job sent back to the queue is ready before its event is recorded.
- Its history variables are what the exceptions in its properties speak of. `silent`: the job was made ready without a
  projection. `recent`: a submission within the interval that its worker recorded. `cut`: the worker or the resume stopped between
  the job's last state and its record. `beside`: a resume made the job applied while its worker was still there, or
  before it had an attempt. The status "other" stands for those no action reads: `auto_filled`, `filled_only`,
  `missing_artifacts`, `cancelled` and the words of the tracker's form.
- `BrowserSession`: the service mode with Access on. A request of an operator is `Ask`, the check before the handler, and
  one of the actions of `Serve`; at most one request is between the two. `relay` is the frame being sent under
  `TAKEOVER_TRANSPORT_LOCK`. `gen = MaxGen + 1` stands for the generation to which a shutdown advances the row. The `lost`
  latch of the heartbeat is set where the worker looks at it. One daemon runs at a time; the thread of an earlier one may
  outlive it. The wait at a challenge is entered in three ways: after the job was parked and the runtime paused, after any
  failure that was recorded, or could not be, while the runtime is paused (`GiveUp`, `WaitAfterFailure`, `worker.py:668`),
  and after a job reopened for a login was parked (`ParkAtLogin`). "undone" is a job that failed, became ambiguous or
  waits for its retry: neither ready nor settled, so no reason to end a wait; its claim may still be renewable, for
  `transition_job` keeps the lease. `keep` is whether the outcome leaves the browser to the operator. Page text,
  screenshots and URLs are left out; claims, authentication and submission are `JobQueue`'s.
- `Viewer`: a unit stands for the bytes of the stream, known by what they would mean at the start of a message; a frame is
  as many units as its type says, one type never fits the buffer. Receiving, asking, filtering and sending one payload
  are one step under the transport lock; `BrowserSession` takes them apart. Renewals are modelled here.
- `EdgeAuth`: each step of `get_key` and `_refresh` is an action, since nothing excludes the other threads; they take
  no time except the wait for the provider. Ages stop at the last value the code can tell apart. A token is its key, its
  owner and whether anything else is wrong with it. `_refresh` never truncates here: the provider publishes no more keys
  than the cache holds.
- Two workers may run in `JobQueue`: the lease exists for that case, callers may skip the singleton lock, and a thread that does not
  stop in time outlives the daemon's shutdown.

## Runs

| Run | Instance | Shows |
|---|---|---|
| `queue` | 1 job, 2 workers, 2 retries, generations below 5 | `TypeOK`; `NoSecondClick`; `ClickIsAccountedFor`; `ClickIsUndisturbed`; `GenerationFences`; `StaleWorkerWritesNothing`; `AmbiguityNeedsForce`; `ImplementsSubmission` |
| `queue_live` | 1 job, 2 workers, 1 retry, generations below 3 | `SubmissionsResolve`, `QueueDrains` |
| `resume_confirmed`, `cancel`, `backup_pause`, `web_requeue` | 1 job, 1 worker | four statements of the documentation the code does not keep |
| `outbox` | 1 ambiguous job, 1 other alert, 2 drainers, 2 attempts | `TypeOK`; `DeliveredWasReceived`; `GivesUpOnlyAfterRetries`; `OverrunIsBounded`; `SettledStaysSettled`; `ImplementsDelivery`; `AlertsSettle` |
| `outbox_ambiguity` | 1 job, 1 drainer | a fifth one |
| `records` | 1 application, three instances: generations to 5; safe resumes, generations to 3; purges, generations to 2 | `TypeOK`; `IntentIsAccounted`; `StatusRowFollowsTheJob`; `AppliedIsRecorded`; `StaleWorkerWritesNothing`; `PacingIsKept`; `AmbiguityIsRestored` |
| `browser_session` | 2 workers, 1 job, generations to 2, two instances: 2 operators; 1 operator and a daemon that shuts down | `TypeOK`; `InputStaysWithOwner`; `LiveSessionIsNotOverwritten`; `StaleOwnerIsPowerless`; `ImplementsTakeover`; `FencedWaitEnds` |
| `viewer` | 1 viewer, 2 operators, payloads of 3, a buffer of 5 | `TypeOK`; `InputCameFromTheHolder`; `LifetimeIsBounded`; `ViewersEnd` |
| `edge_auth` | the event loop and 1 pool thread, 2 keys, 4 environments, 11 requests | `TypeOK`; `WithdrawnKeyStops`; `RefreshIsSpaced`; `HandlersAreGuarded`; `AccessReturns` |

In words. `IntentIsAccounted`: an attempt that reached the submit boundary and has no outcome is in flight at its job's
generation, or the worker or the safe resume that made the job final is about to record it, or was cut off before it could;
nothing that operators, stops, shutdowns, sweeps or stale workers do loses it. `StatusRowFollowsTheJob`: the dashboard's row
shows the job's state although repeated event keys are dropped, unless Clear State, an emergency stop or a safe resume made
the job ready and no event came since; a job made ready by anything else (a resolution, a shutdown, a reopened login) shows.
`AppliedIsRecorded`: the newest attempt of an applied job says so, or is about to; it says nothing of `applications.status`,
nor of a job a safe resume made applied beside its worker or before an attempt. `PacingIsKept`: no submission begins within
the interval of one its worker recorded as applied, although it was checked earlier; what a safe resume records (its stamp
comes after, if it comes) is not paced. `AmbiguityIsRestored`: however often other writers overwrite the status of an
ambiguous application, it says ambiguous again. `AlertsSettle`: if the loop comes back from its jobs again and again
(`LoopComesBack`), every alert is in the end delivered or given up. `LiveSessionIsNotOverwritten`: a browser its worker's
live claim stands for is not written over by another worker. `StaleOwnerIsPowerless`: what an operator was allowed as holder
takes effect only while that operator holds the lease. `FencedWaitEnds`: a worker at a challenge whose claim cannot be
renewed, or whose job is ready or settled, leaves. `InputCameFromTheHolder`: every piece of an input frame that reaches the
browser came while its viewer held the lease. `WithdrawnKeyStops`: a withdrawn key opens nothing after the cache's time to
live and one refresh. `AccessReturns`: failed refreshes, the rate limit and threads that undo each other's work only delay a
rightful caller.

Bounds. `MaxGen` caps `fencing_generation`, in the guards of the actions that raise it (a claim needs room for the bump
that ends its attempt). Five lets a job be claimed, clicked, lost, reopened by force, claimed again by the other worker
and clicked again, which is what the click properties are about. Most hazards are about the actors of one job; the
proofs cover any number of jobs and workers. Jobs meet in `Enqueue`, `Claim`, `ResumeIdle`, `ShutdownReconcile`,
`EmergencyStop` and `ClearStateReset`, which the proofs treat for every set of jobs. `MaxRetries` is smaller than
`MaxGen`, so that retries run out. Workers are symmetric in `queue`; liveness is checked without symmetry.

`Outbox` needs no bound: its counts are bounded by what is proved of them. Two drainers are what it takes to cross, and
two attempts leave room for a stale retry; the bound of `OverrunIsBounded` is reached in that instance.

`Records` has one bound, `MaxGen`, on claims and on the operator's fences. All of its writers at once are too many for an
instance that also reaches two submissions, so `MCRecords` chooses one of three instances at the start (`scope`). `twice` has
four generations, which hold a claim, a doubt, a forced resolution, a second claim and a second doubt (generations reach
five), and no safe resume. `resumed` has safe resumes and two claims: one before the one a resume reads, or a fence after it.
`purged` has one claim, and the package of the application moves or disappears, as it does in neither of the others. The
theorems have no bound and all writers. In `BrowserSession` two workers are an old session and its replacement, and two
generations a session and the next; a shutdown adds a third. `MCBrowserSession` chooses between two operators, an owner and
the next one, over daemons that stay up (`handover`), and a daemon that shuts down beside one operator who sends no input
(`shutdown`). The safety properties were checked as well with both at once, which takes longer; the theorems have both. One
viewer is enough, for viewers meet only in the lease, which the second operator contends for; the buffer is just too small
for the third type of frame, and a payload ends anywhere in the longest frame that fits. In `EdgeAuth` two threads are what
it takes to undo each other's work, and two keys what a rotation takes; the limits 3, 2, 1 keep the order of the configured
600, 60 and 5 seconds.

Deadlock is checked in every run but `records`, where an application that was purged with its package leaves nothing to do;
elsewhere the operator can always act.

Fairness (`FairSpec`). A worker past its intent proceeds or dies: each of its steps has a browser or database timeout
(WF of `SubmitStep \/ WorkerGone`). The loop polls every three seconds and sweeps every fifteen (WF of `Poll` and
`Sweep`); the clock moves (WF of `LeaseAges`, `RetryDue`). `Claim` is strongly fair: a pause may come and go while the
loop polls, and a loop that polls in every open window claims in one of them. Nothing is assumed of operators there.
The sweeps have a condition: the loop sweeps between jobs, and in service mode a job at a challenge keeps it for as long
as the runtime stays paused (`worker.py:536`, 677). With one job, as in `queue_live` and `records`, a worker that waits for the
job the sweep is to find has lost it, and leaves; with several, WF of `Sweep`, and so `SubmissionsResolve` and
`AmbiguityIsRestored`, assume that no other job's challenge is left standing for ever.
In `Outbox` the worker loop drains whenever it has no job, each push has a timeout, and the loop is restarted when it
dies: `Read`, `Dispatch` and `Mark` of the loop are strongly fair, so it may die in any batch but not for ever before each send
or record. Nothing makes `RunOutOfJobs` happen: that the operator ends the challenge is the premise of `AlertsSettle`.
The threads that `enqueue_notification` starts and the endpoint are not fair.

`Records`: WF of `WorkerStep` and of `Sweep`: the worker goes on with its job (how a challenge wait ends is
`BrowserSession`'s question) and returns to the loop that sweeps. `BrowserSession`: WF of the wait loop of each worker and of
its heartbeat, which is a thread of its own; nothing of operators. `Viewer` and `EdgeAuth`: threads run, the timeout of a
relay is acted on, and time diverges. `AccessReturns` assumes besides, in its statement, that from some time on the provider
answers and the caller asks in every unit of time. Nothing is assumed of crashes, operators or leases.

`QueueDrains` says that a claimable job in a queue that stays open, without pause, stop or takeover, is claimed.

Each property of a passing run has a mutant beside the definition it mutates (`StopReleasesAll`, `RetriesClick`, ...):
a plausible bug under which TLC finds the property violated.

## Where the code departs from its documentation

- `web_requeue`: `_requeue_single_item` makes an `ambiguous_submission` job ready with a bare `UPDATE`: no force, no new
  generation. A worker then clicks submit a second time. `docs/autonomous-pipeline.md` (lines 192 and 315) rules it out.
- `resume_confirmed`: a safe resume that sees a confirmation page moves the job to `applied` under its generation; the
  worker that still runs it moves it on to `submit_intent` and clicks (`safe_resume.py:36` promises otherwise).
- `cancel`: a job cancelled while `claimed` or `navigating` whose worker dies is never claimed again nor ended, and blocks
  its application.
- `backup_pause`: a backup that ends during a takeover, or after the operator's pause, unpauses the runtime.
- `outbox_ambiguity`: the row of a job's first ambiguity suppresses the alert of every later one, although
  `reconcile_stranded_jobs` "emits critical notifications": a job resolved for a retry that is lost again stays
  ambiguous, with the runtime paused, and no one is told.

More, which no run refutes by itself. In the model they are what the code does, and the properties hold with them:

- The browser and the dashboard write `applications.status` without a fence or a look at the job. A transient failure before the
  submission makes it `failed`, and *Clear failed* then deletes the application with its waiting or running job
  (`web/app.py:1147`). A dismissal, which `web/app.py:1012` calls persistent, is overwritten by a late record, a regeneration, a
  resolution or the repair; the repair also turns an operator's mark-done or dismissal of an ambiguous job's application
  back into `ambiguous`, and pauses again.
- `attempt_started` and `submit_intent_persisted` are events per job, so those of a second attempt are dropped and the status
  row keeps the first attempt's number.
- A form that was only filled completes its attempt without a fence (`worker.py:595`), against `resolve_job`'s "a stale worker
  completing the old attempt must make zero writes": `StaleWorkerWritesNothing` exempts exactly that step.
- An attempt stays open when its worker loses the lease before it records the outcome, is released, or sees a challenge resolved
  first. A confirmed submission whose lease was lost, and every ambiguous one, leave no pacing timestamp.
- `clear_automation_state` records its event on a connection it closes without a commit (`queue.py:4290`), so a job it made
  ready keeps its old status row. An emergency stop (`emergency_stop.py:130`) writes no event of the job at all, and a safe
  resume (`safe_resume.py:422`) one after it, if nothing comes between: the exceptions in `StatusRowFollowsTheJob`.
- A safe resume that saw a confirmation makes the job applied at `safe_resume.py:315` and completes the newest attempt at 361, stamps
  at 368 and marks the application at 375. When the takeover is refused in between (336-345) none of these follows; when the
  worker still runs it may submit unpaced in between, and go on to create or decide an attempt of an applied job.
- A request checked while nobody held the lease may end a takeover claimed meanwhile. An emergency stop between a waiting worker's
  two looks lets it publish its browser as active once more and close it unpublished. `worker.py:873` may leave a browser open
  that the comment at 771 says is closed. While the row still names one job, another job's browser is not published and closes
  at its first challenge. A code given at a timeout stays for the next session.
- After a change of authorisation the filter drops the frame begun and one payload; a third piece of the frame is parsed as a
  new frame (`edge_auth.py:762`, whose comment says fragments never cross). A viewer may outlive its token by the time the
  connection to the screen took, although the docstring at 917 says it ends with it.
- "At most once a minute" (`edge_auth.py:128`) holds per thread, not per process: `RefreshIsSpaced` says so. A `KeyError` of the
  unlocked cache refuses one request, and fails a socket without an answer.

Two more of the outbox: `docs/autonomous-pipeline.md:208` promises up to five attempts, and two drainers
that cross make seven (`OverrunIsBounded` is the exact bound); and a drainer whose late answer is an error marks as failed
an alert another one delivered (`SettledStaysSettled` says only that it is not sent again).

What `resume_confirmed` shows is part of `JobQueue`: its properties and theorems hold *with* that behaviour, for
`clicked` records only what the automation clicked, not what the operator submitted by hand.

## Proofs

For every finite set of jobs of natural numbers, every set of workers, every `MaxRetries` and `MaxGen` (the named
assumptions of `JobQueue`):

- `TypeCorrect`, `NeverClickedTwice`, `ClickNeverForgotten`, `FenceHolds`: the four invariants of run `queue`;
- `OneOwnerPerGeneration`, `StaleWorkersAreFenced`, `OnlyForceReopens`: its three action properties;
- `QueueImplementsSubmission`: `Spec => Submission`'s specification under the mapping `PhaseMap`.

The argument. `NoSecondClick` is not inductive: a worker at the button must have known, since it claimed, that nobody
clicked under its generation. `IInv` adds what makes it so: `HolderKnows` (a worker that still owns its job under its
generation knows whether it clicked: not before its click, certainly after it, and from its intent on the job is in
flight or already applied), `AmbiguousIsUnowned` (giving up a submission takes it from its owner, so no holder is ever
surprised), `ClickIsAccountedFor`, `ClickIsUndisturbed`, and `GenRoom` (there is room for the bump that ends an attempt).
`JobQueueProofs` splits `IInv` into what it says of one row, of one worker and of the fence, shows action by action
that each is kept, and puts them together in `StepKeepsIInv`. `JobQueueSteps` shows that a worker's step writes nothing, claims,
or writes the row it holds (`WorkerWrites`), and that a step of anybody else takes owners off and never gives one, and leaves an
ambiguous submission alone unless it is a resolution (`Turned`). `JobQueueRefinement` classifies every step by what it does to
the phases: nothing, one job along one arrow of `Submission`, or some submissions in flight lost at once.

A second click of a *sent* job would leave `PhaseMap` as it is, so the refinement alone does not exclude it: this is why
`NoSecondClick` is stated and proved besides.

For any alerts, any finite set of drainers, any `MaxRetries`, `OutboxProofs` proves the type invariant and every safety
property of run `outbox`. `Crossed` is the strengthening: what a drainer holds is an old reading of a row that exists,
at most one of each row, and its "ok" is true. `OverrunIsBounded` needs a potential, `Paid`: the attempts made plus those
owed by the drainers that will still write a retry (`Retriers`) stay below `MaxRetries - 1 + N - 1` while a row is pending,
since a drainer becomes a retrier only far from the last attempt; and once it is settled, what the `Closers` owe counts too.
`DeliveryImplemented` puts this together: a step of the outbox raises an alert, lets it reach the operator, records exactly one
attempt, or does none of it. That a waiting alert has had at most `MaxRetries + N - 2` attempts is said there only; TLC
finds both of `Delivery`'s bounds reached.

For every `MaxGen`, `RecordsProofs` proves every safety property of run `records`, safe resumes, stops and shutdowns
included: `TypeCorrect`, `IntentAccounted`, `RowFollows`, `AppliedRecorded`, `Paces`, `StaleWrites`. What the worker remembers has to
agree with the tables, and that is what `IInv` adds: `NewestIsItsOwn` (the attempt of a worker that still has the job is the
newest one, at its generation), `DecidedIsHeld`, `HeldByItsWorker`, `AppliedByItsWorker` and `SubmittedByItsWorker` (beside a
decided or a submitted job its worker is where it decided or submitted it, unless a resume did it), `IntentIsNewest` (no
attempt is made while an earlier one may have been sent), `NoIntentYet`, `HasOutcome`, and `Paced` and `ClearedIsPaced` (a worker that
passed the check is past every recorded submission, for it is the only one that records them). The first is why the sweeps and
the skip find the right attempt with no attempt id to go by. The steps are proved by kind: a worker that walks without touching
the job (`Walks`), pushes it (`Pushes`) or leaves (`Leaves`), an operator, a stop or a sweep that turns the job under it (`Turns`), a
resume that walks beside it (`ResumeWalks`), a new job (`Resets`), a write to the application only (`Aside`).

For any operators, workers and jobs, `BrowserSessionProofs` proves every safety property of run `browser_session`: `TypeCorrect`,
`InputStays`, `LiveSessionsStay`, `StalePowerless` and `TakeoverImplemented`. For the lease: every step leaves lease and relay alone,
ends the lease, takes it while no relay is sending, or is a step of the relay. For the sessions the types are not enough: the
row compares generations, so two workers that remember the same job must not remember the same one. `Claimed` (a
worker's generation is one its job has reached) and `NoSharedClaim` say so whatever became of the claims since; the
lemmas show that a step keeps the jobs' generations or raises them (`JobsKept`) and that a worker goes on, rests, or
claims anew (`Moves`). Then whatever another worker writes is refused (`PublishRefused`): its job is not the row's, or its
generation is neither the row's nor the job's. A daemon that shuts down is the stated exception.

For any keys, requests, environments and threads, and any times in the configuration's order (`Timing`), `EdgeAuthProofs`
proves `TypeCorrect`, `WithdrawnKeysStop`, `RefreshesAreSpaced` and `HandlersGuarded`: all of run `edge_auth` that is not liveness. Its
`IInv` follows the age of withdrawn keys (`Young`) from the provider's answer, no older than the refresh it answers,
into the cache (`CacheIsYoung`) and to the thread that finds its key there (`CallerOK`). The delicate part is a thread that
another one overtakes between two steps: the cache may lose keys under it, or be filled with younger ones
(`OthersKeep`), and neither makes a key it will find older than its bound. A thread's own last refresh bounds what
it finds after one (`since`), and the shared time of the last refresh is never older than any thread's own, which is all
the rate limit can promise without a lock.

For any viewers and operators, any times and buffer, and payloads of any length, `ViewerProofs` proves `TypeCorrect`,
`InputIsTheHolders` and `RelaysEndInTime`, the safety of run `viewer`. `StateOK` says what the filter knows between two payloads: a
frame is tagged exactly while it is incomplete, and one tagged as allowed is clean so far. `ReadingOK` says it in the
middle of a payload, where the tag is the payload's authorisation or none; each unit keeps it (`TakeKeeps`). A payload is
read by a recursive function (`Reading`), and what it returns takes an induction over data: `SetInduction` is one for sets,
derived from the library's well-foundedness of `<`, by which `ReadingDef` shows that the recursion has a solution and
`ParsedKeeps` that the invariant of a unit carries over to a payload. `InTime` relates age, token and limit of a connection
while they change together. The proofs assume `Bounds` (the constants are natural numbers) and `NobodyIsNone` (no identity,
frame or tag is the absence of one).

Each of the inductive invariants was also checked by TLC on the instance of the run before it was proved.

Only model-checked: liveness (`SubmissionsResolve`, `QueueDrains`, `AlertsSettle` under its premise, `AmbiguityIsRestored`, `FencedWaitEnds`, `ViewersEnd`,
`AccessReturns`), which is out of the prover's reach. Every other property of a passing run is a theorem. What the
violating runs show is a counterexample, and needs no proof.

## Plan

1. Done: `Submission`, `JobQueue`, `WebRequeue`, `Outbox`, `Takeover`, `BrowserSession`, `Viewer`, `EdgeAuth`, `Records`, with the
   theorems above.
2. Done: a theorem for every safety invariant and action property of the passing runs. Done: the
   outbox implements `Delivery`. Left: an abstract specification of the records, and that it is implemented.
3. Two jobs of one application (`queue.py:430`), which `Records` leaves out because its job is the newest one.
4. `Backup`: the archives' retention and a restore beside a running system; `DiskGuard`.
5. The notification centre's rows beside the outbox, with the event stream and the front end that acknowledges them.
6. Pure operators against reference definitions: deduplication keys, the tracker's merge, retention.

## Not modelled, and why

Selectors and page contents, resume texts, model calls and rendering are data without shared state. Process supervision,
network filtering, VNC and archive encryption are I/O. The kernel's file locks are trusted by the code and not needed by the
models, except that `Records` and `BrowserSession` rely on the singleton lock where the code does. The disk guard pauses and alerts,
which is a free choice of the environment everywhere. Scrapers, deduplication, the tracker's files, imports and exports are
sequential. Of one application's records, `Records` leaves out five writers: the tracker's requeue (`web/app.py:2650`, in `WebRequeue` as
far as the queue is concerned), imports (`sync.py:292`), the pruning of duplicates (`dedup.py:252`), the assistant
(`cli/apply_assistant.py:370`) and the pipeline after its first record; and migrations. Imports, pruning and the assistant
write `applications.status` only, in which `Records` already has writers that ask nothing; the requeue also resets the job by a bare
`UPDATE`, and no property of `Records` speaks of the jobs it made ready. The event stream and the notification centre only read. What is planned is listed above.
