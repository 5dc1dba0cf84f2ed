--------------------------- MODULE BrowserSession ---------------------------
(***************************************************************************)
(* The browser of the runtime and the row of runtime_control that speaks    *)
(* for it.  The worker that drives the browser is a process of its own: the *)
(* dashboard sees it only through the row (browser_active, browser_job_id,   *)
(* browser_session_generation, is_waiting_for_code), and reaches it only     *)
(* through the row (a shutdown generation, a verification code, the pause    *)
(* and stop flags).  Operators, told apart by their Access identity, take    *)
(* the browser over by a lease in the same row, and a relay of the dashboard *)
(* carries their input to it.                                                *)
(*                                                                         *)
(* The jobs appear as far as a session depends on them: JobQueue has their  *)
(* submission.  Service mode: no wait has a deadline and a browser parked   *)
(* at a challenge outlives the worker's interest in its job.                *)
(***************************************************************************)
EXTENDS Integers, FiniteSets

CONSTANTS
  Jobs,
  Workers,
  Stoppable,   \* bound of the model: the workers whose daemon may be told to stop
  Operators,
  None,
  MaxGen       \* bound of the model on automation_jobs.fencing_generation

ASSUME SessionAssumptions ==
  /\ Stoppable \subseteq Workers
  /\ None \notin Jobs \cup Operators
  /\ "none" \notin Operators
  /\ MaxGen \in Nat \ {0}

VARIABLES
  ctl,         \* runtime_control: pause, stop, the takeover lease
  row,         \* runtime_control: the browser
  job,         \* automation_jobs, as far as sessions depend on them
  wk,          \* the workers, each with its browser
  pass,        \* a request the dashboard has checked and not done yet: under whose
               \* takeover it passed, None if it passed for there was none
  relay        \* whose input the viewer relay is sending under TAKEOVER_TRANSPORT_LOCK

vars == <<ctl, row, job, wk, pass, relay>>

Controls == [paused: BOOLEAN, stopped: BOOLEAN,
             owner: Operators \cup {None}, lease: {"none", "live", "lapsed"}]

(* browser_session_generation: 0 for NULL, and MaxGen + 1 for what a         *)
(* shutdown of the daemon advances it to, past the sessions before.          *)
RowGens == 0 .. MaxGen + 1

(* browser_is_closed is the negation of browser_active in every caller; mark *)
(* says whether browser_shutdown_generation is set, which is all that anyone *)
(* looks at, and code whether pending_verification_code is.                  *)
Browsers == [active: BOOLEAN, waiting: BOOLEAN, job: Jobs \cup {None},
             gen: RowGens, mark: BOOLEAN, code: BOOLEAN]

(* running: claimed .. verifying.  parked: at a challenge.  settled: applied, *)
(* cancelled, skipped.  undone: ambiguous, failed, waiting for a retry, which *)
(* a wait for the operator does not take for an end.                          *)
JobRows == [state: {"ready", "running", "parked", "settled", "undone"}, gen: 0 .. MaxGen,
            owner: Workers \cup {None}, lease: {"none", "live", "expired"}]

(* Where the worker is:                                                      *)
(*   claimed   the browser is still to start     filling   it fills the form *)
(*   asking    it waits for a code               answered  it has stopped to *)
(*   parking   the job is parked, the pause is to come                       *)
(*   login     an auth retry: the pause is made, the job is still to park     *)
(*   reopened  its job is parked, its page was not reached                    *)
(*   failed    the failure is recorded, whether to wait is still to be seen   *)
(*   looking .. synced: the loop of _coordinate_challenge_takeover            *)
(*   leaving   it is out of the loop             closing   the browser is    *)
(*             closed, the row is still to say so                            *)
Waiting == {"looking", "looked", "synced"}
Pcs == {"idle", "claimed", "filling", "asking", "answered", "parking",
        "login", "reopened", "failed", "leaving", "closing"} \cup Waiting

WorkerStates == [pc: Pcs, job: Jobs \cup {None}, gen: 0 .. MaxGen, lost: BOOLEAN,
                 keep: BOOLEAN,   \* the outcome leaves the browser to the operator
                 daemon: {"up", "stopping", "handed", "unlocked"}]

Passes == {"none"} \cup (Operators \cup {None})

Idle == [pc |-> "idle", job |-> None, gen |-> 0, lost |-> FALSE, keep |-> FALSE,
         daemon |-> "up"]

TypeOK ==
  /\ ctl \in Controls
  /\ ctl.owner = None <=> ctl.lease = "none"
  /\ row \in Browsers
  /\ job \in [Jobs -> JobRows]
  /\ wk \in [Workers -> WorkerStates]
  /\ pass \in Passes
  /\ relay \in Operators \cup {None}

Init ==
  /\ ctl = [paused |-> FALSE, stopped |-> FALSE, owner |-> None, lease |-> "none"]
  /\ row = [active |-> FALSE, waiting |-> FALSE, job |-> None, gen |-> 0,
            mark |-> FALSE, code |-> FALSE]
  /\ job = [j \in Jobs |-> [state |-> "ready", gen |-> 0, owner |-> None, lease |-> "none"]]
  /\ wk = [w \in Workers |-> Idle]
  /\ pass = "none"
  /\ relay = None

-----------------------------------------------------------------------------
(* What the sessions rest on *)

Attended == {"running", "parked"}

(* The claim of w on its job is the one in the table: what w may renew,      *)
(* whatever has become of the job, and what w may act on.                    *)
Renewable(w) ==
  /\ wk[w].job # None
  /\ job[wk[w].job].owner = w
  /\ job[wk[w].job].gen = wk[w].gen
  /\ job[wk[w].job].lease = "live"

Holds(w) == Renewable(w) /\ job[wk[w].job].state \in Attended

TakenOver == ctl.lease = "live"

Goto(w, pc) == wk' = [wk EXCEPT ![w].pc = pc]

(* The worker waits for the operator. *)
Wait(w, keep) == wk' = [wk EXCEPT ![w].pc = "looking", ![w].keep = keep]

(* The worker is done with its job; its process and its daemon go on. *)
Rest(w) == wk' = [wk EXCEPT ![w] = [Idle EXCEPT !.daemon = wk[w].daemon]]

(* set_runtime_browser_state by the session of w: the row afterwards. *)
ClaimIsCurrent(j, g) ==
  /\ job[j].gen = g
  /\ job[j].lease = "live"
  /\ job[j].state \in Attended

(* Mutant: the row's own session is not looked at. *)
RefusesOnlyTheFenced(active, j, g) == active /\ ~ClaimIsCurrent(j, g)

Refuses(active, j, g) ==
  \/ active /\ ~ClaimIsCurrent(j, g)
  \/ row.job \notin {None, j}
  \/ row.job = j /\ ~active /\ row.gen \notin {0, g}

Published(active, waiting, j, g) ==
  IF Refuses(active, j, g) THEN row
  ELSE IF active
  THEN [row EXCEPT !.active = TRUE, !.waiting = waiting, !.job = j, !.gen = g, !.mark = FALSE]
  ELSE [row EXCEPT !.active = FALSE, !.waiting = waiting,
                   !.job = IF @ = j THEN None ELSE @, !.gen = IF @ = g THEN 0 ELSE @]

Publish(w, active, waiting) == row' = Published(active, waiting, wk[w].job, wk[w].gen)

-----------------------------------------------------------------------------
(* A worker and its browser *)

(* claim_next_job: the loop waits while a takeover is recorded, even lapsed. *)
(* The lock of the runtime admits one daemon; the thread of another may      *)
(* outlive it only after that one has let the lock go.  An undone job is one *)
(* whose retry is due, or that was resolved and queued again.                *)
Claim(w, j) ==
  /\ wk[w].pc = "idle" /\ wk[w].daemon = "up"
  /\ \A v \in Workers \ {w} : wk[v] = Idle \/ wk[v].daemon = "unlocked"
  /\ ~ctl.paused /\ ~ctl.stopped /\ ctl.owner = None
  /\ \/ job[j].state \in {"ready", "undone"}
     \/ job[j].state = "running" /\ job[j].lease # "live"
  /\ job[j].gen < MaxGen
  /\ job' = [job EXCEPT ![j] = [state |-> "running", gen |-> @.gen + 1,
                                owner |-> w, lease |-> "live"]]
  /\ wk' = [wk EXCEPT ![w] = [pc |-> "claimed", job |-> j, gen |-> job[j].gen + 1,
                              lost |-> FALSE, keep |-> FALSE, daemon |-> "up"]]
  /\ UNCHANGED <<ctl, row, pass, relay>>

(* The browser has started: a claim lost meanwhile closes it again. *)
Open(w) ==
  /\ wk[w].pc = "claimed"
  /\ IF wk[w].lost THEN Goto(w, "closing") /\ UNCHANGED row
     ELSE Goto(w, "filling") /\ Publish(w, TRUE, FALSE)
  /\ UNCHANGED <<ctl, job, pass, relay>>

(* _handle_verification_challenge: the form asks for a code; the worker says *)
(* so, polls for one, and says that it has stopped waiting.                  *)
AskForCode(w) ==
  /\ wk[w].pc = "filling"
  /\ Goto(w, "asking")
  /\ Publish(w, TRUE, TRUE)
  /\ UNCHANGED <<ctl, job, pass, relay>>

Consumed(r) == [r EXCEPT !.code = FALSE]

TakeCode(w) ==
  /\ wk[w].pc = "asking"
  /\ row.code
  /\ row' = Consumed(row)
  /\ Goto(w, "answered")
  /\ UNCHANGED <<ctl, job, pass, relay>>

NoCodeCame(w) ==
  /\ wk[w].pc = "asking"
  /\ Goto(w, "answered")
  /\ UNCHANGED <<ctl, row, job, pass, relay>>

EndAsking(w) ==
  /\ wk[w].pc = "answered"
  /\ Goto(w, "filling")
  /\ Publish(w, TRUE, FALSE)
  /\ UNCHANGED <<ctl, job, pass, relay>>

(* A job taken from its claim: a submission in flight becomes ambiguous, a   *)
(* job at a challenge stays there, any other goes back to the queue.         *)
HandedBack(r, submitting) ==
  [r EXCEPT !.state = IF @ # "running" THEN @ ELSE IF submitting THEN "undone" ELSE "ready",
            !.gen = @ + 1, !.owner = None, !.lease = "none"]

(* The worker records how its job ended, unless its claim is gone: the state *)
(* alone (transition_job), or an ambiguity, which gives up the claim and      *)
(* pauses the runtime in its transaction (mark_job_ambiguous).                *)
Records(w, outcomes) ==
  \/ /\ Holds(w)
     /\ \E state \in outcomes : job' = [job EXCEPT ![wk[w].job].state = state]
     /\ UNCHANGED ctl
  \/ /\ Holds(w)
     /\ wk[w].gen < MaxGen
     /\ job' = [job EXCEPT ![wk[w].job] =
                  [HandedBack(@, TRUE) EXCEPT !.state = "undone"]]
     /\ ctl' = [ctl EXCEPT !.paused = TRUE]
  \/ ~Holds(w) /\ UNCHANGED <<job, ctl>>

(* The job ends without the operator, or the worker finds its claim gone. *)
Finish(w) ==
  /\ wk[w].pc = "filling"
  /\ Records(w, {"settled", "undone"})
  /\ Goto(w, "closing")
  /\ UNCHANGED <<row, pass, relay>>

(* A captcha, a login, a question: the job is parked, then the runtime is    *)
(* paused, in two transactions.                                              *)
Park(w) ==
  /\ wk[w].pc = "filling"
  /\ Holds(w)
  /\ job' = [job EXCEPT ![wk[w].job].state = "parked"]
  /\ Goto(w, "parking")
  /\ UNCHANGED <<ctl, row, pass, relay>>

PauseRuntime(w) ==
  /\ wk[w].pc = "parking"
  /\ ctl' = [ctl EXCEPT !.paused = TRUE]
  /\ Wait(w, TRUE)
  /\ UNCHANGED <<row, job, pass, relay>>

(* Any other exception, or one raised when the claim is gone: what the job    *)
(* becomes is recorded first, and then the worker waits all the same if the   *)
(* runtime is paused, or if the exception is one that waits.                  *)
GiveUp(w) ==
  /\ wk[w].pc = "filling"
  /\ Records(w, {"undone"})
  /\ Goto(w, "failed")
  /\ UNCHANGED <<row, pass, relay>>

WaitAfterFailure(w) ==
  /\ wk[w].pc = "failed"
  /\ Wait(w, FALSE) \/ (~ctl.paused /\ Goto(w, "closing"))
  /\ UNCHANGED <<ctl, row, job, pass, relay>>

(* A job reopened for a login: the pause comes first, then the job is parked  *)
(* if the claim is the worker's, lapsed or not.  The worker waits; a page it   *)
(* did not reach is published and left, unless it is closed.                   *)
PauseForLogin(w) ==
  /\ wk[w].pc = "filling"
  /\ ctl' = [ctl EXCEPT !.paused = TRUE]
  /\ Goto(w, "login")
  /\ UNCHANGED <<row, job, pass, relay>>

ParkAtLogin(w) ==
  LET j == wk[w].job IN
  /\ wk[w].pc = "login"
  /\ job' = IF job[j].owner = w /\ job[j].gen = wk[w].gen
            THEN [job EXCEPT ![j].state = "parked"] ELSE job
  /\ Wait(w, TRUE) \/ Goto(w, "reopened")
  /\ UNCHANGED <<ctl, row, pass, relay>>

LeaveReopened(w) ==
  /\ wk[w].pc = "reopened"
  /\ \/ Publish(w, TRUE, FALSE)
        /\ IF wk[w].daemon = "up" THEN Rest(w) ELSE Goto(w, "closing")
     \/ Goto(w, "closing") /\ UNCHANGED row
  /\ UNCHANGED <<ctl, job, pass, relay>>

-----------------------------------------------------------------------------
(* _coordinate_challenge_takeover: the loop that waits for the operator *)

Replaced(w) ==
  \/ ~row.active
  \/ row.mark /\ row.gen # wk[w].gen
  \/ row.job # None /\ (row.job # wk[w].job \/ row.gen \notin {0, wk[w].gen})

(* Mutant: the heartbeat's verdict is not looked at. *)
LookWithoutHeartbeat(w) ==
  /\ wk[w].pc = "looking"
  /\ IF wk[w].daemon # "up" THEN Goto(w, "leaving")
     ELSE IF ctl.stopped \/ Replaced(w) THEN Rest(w)
     ELSE Goto(w, "looked")
  /\ UNCHANGED <<ctl, row, job, pass, relay>>

(* The first look at the row: a lost claim, a stop or a newer session closes *)
(* the browser here, and the row is not written.                             *)
Look(w) ==
  /\ wk[w].pc = "looking"
  /\ IF wk[w].lost THEN Rest(w)
     ELSE IF wk[w].daemon # "up" THEN Goto(w, "leaving")
     ELSE IF ctl.stopped \/ Replaced(w) THEN Rest(w)
     ELSE Goto(w, "looked")
  /\ UNCHANGED <<ctl, row, job, pass, relay>>

(* The row is refreshed at most every two seconds; the operator may have     *)
(* closed the page.                                                          *)
Sync(w) ==
  /\ wk[w].pc = "looked"
  /\ \/ Goto(w, "synced") /\ (Publish(w, TRUE, FALSE) \/ UNCHANGED row)
     \/ Goto(w, "closing") /\ Publish(w, FALSE, FALSE)
  /\ UNCHANGED <<ctl, job, pass, relay>>

(* A code left in the row is taken; then the second look, at the flags and   *)
(* the state of the job, whoever has it.                                     *)
CheckJob(w) ==
  /\ wk[w].pc = "synced"
  /\ row' = Consumed(row)
  /\ Goto(w, IF \/ ctl.stopped \/ ~ctl.paused
                \/ job[wk[w].job].state \in {"ready", "settled"}
             THEN "leaving" ELSE "looking")
  /\ UNCHANGED <<ctl, job, pass, relay>>

(* The last snapshot; the browser of a job at a challenge stays open for the *)
(* operator (nobody closes it from then on) unless the daemon stops or the    *)
(* claim was lost.                                                           *)
Leave(w) ==
  /\ wk[w].pc = "leaving"
  /\ IF wk[w].lost THEN UNCHANGED row ELSE Publish(w, TRUE, FALSE)
  /\ IF wk[w].lost \/ ~wk[w].keep \/ wk[w].daemon # "up" THEN Goto(w, "closing") ELSE Rest(w)
  /\ UNCHANGED <<ctl, job, pass, relay>>

Close(w) ==
  /\ wk[w].pc = "closing"
  /\ Rest(w)
  /\ Publish(w, FALSE, FALSE)
  /\ UNCHANGED <<ctl, job, pass, relay>>

(* The heartbeat thread finds that it cannot renew, and latches it; here     *)
(* where the worker looks at the latch.                                      *)
HeartbeatLost(w) ==
  /\ wk[w].pc \in {"claimed", "leaving"} \cup Waiting
  /\ ~wk[w].lost
  /\ ctl.stopped \/ ~Renewable(w)
  /\ wk' = [wk EXCEPT ![w].lost = TRUE]
  /\ UNCHANGED <<ctl, row, job, pass, relay>>

LeaseExpires(j) ==
  /\ job[j].lease = "live"
  /\ job' = [job EXCEPT ![j].lease = "expired"]
  /\ UNCHANGED <<ctl, row, wk, pass, relay>>

(* The process dies, its browser and its daemon with it. *)
Crash(w) ==
  /\ wk[w] # Idle
  /\ wk' = [wk EXCEPT ![w] = Idle]
  /\ UNCHANGED <<ctl, row, job, pass, relay>>

-----------------------------------------------------------------------------
(* The daemon of w shuts down: the stop event, the reconciliation (an        *)
(* exception of which is printed), the shutdown mark, the end.  The worker   *)
(* thread may outlive its join until the process ends.                       *)
StopDaemon(w) ==
  /\ w \in Stoppable
  /\ wk[w].pc # "idle" /\ wk[w].daemon = "up"
  /\ wk' = [wk EXCEPT ![w].daemon = "stopping"]
  /\ UNCHANGED <<ctl, row, job, pass, relay>>

(* A job that waits for a retry and still names its worker goes back too.     *)
Reconcile(w) ==
  LET left == {j \in Jobs : job[j].owner = w /\ job[j].state \in Attended}
      retried == {j \in Jobs : job[j].owner = w /\ job[j].state = "undone"}
  IN /\ wk[w].daemon = "stopping"
     /\ \A j \in left \cup retried : job[j].gen < MaxGen
     /\ wk' = [wk EXCEPT ![w].daemon = "handed"]
     /\ \/ \E submitting \in SUBSET left, due \in SUBSET retried :
             job' = [j \in Jobs |->
                       IF j \in left THEN HandedBack(job[j], j \in submitting)
                       ELSE IF j \in due THEN [HandedBack(job[j], FALSE) EXCEPT !.state = "ready"]
                       ELSE job[j]]
        \/ UNCHANGED job
     /\ UNCHANGED <<ctl, row, pass, relay>>

(* mark_runtime_browser_shutdown; then the lock goes, and the process ends   *)
(* (Crash).                                                                  *)
MarkShutdown(w) ==
  /\ wk[w].daemon = "handed"
  /\ row' = [row EXCEPT !.active = FALSE, !.waiting = FALSE, !.job = None,
                        !.gen = MaxGen + 1, !.mark = TRUE]
  /\ wk' = [wk EXCEPT ![w].daemon = "unlocked"]
  /\ UNCHANGED <<ctl, job, pass, relay>>

-----------------------------------------------------------------------------
(* The takeover lease *)

(* Mutant: the lease is taken while a relay is sending. *)
ClaimOverRelay(o) ==
  /\ TakenOver => ctl.owner = o
  /\ ctl' = [ctl EXCEPT !.owner = o, !.lease = "live", !.paused = TRUE]
  /\ UNCHANGED <<row, job, wk, pass, relay>>

(* Mutant: the lease of somebody else is replaced before it expires. *)
ClaimOverAnother(o) ==
  /\ relay = None
  /\ ctl' = [ctl EXCEPT !.owner = o, !.lease = "live", !.paused = TRUE]
  /\ UNCHANGED <<row, job, wk, pass, relay>>

ClaimTakeover(o) ==
  /\ relay = None
  /\ TakenOver => ctl.owner = o
  /\ ctl' = [ctl EXCEPT !.owner = o, !.lease = "live", !.paused = TRUE]
  /\ UNCHANGED <<row, job, wk, pass, relay>>

(* Mutant: the expiry of the lease is left in the row. *)
ForgetsTheExpiry(c) == [c EXCEPT !.owner = None]

NoTakeover(c) == [c EXCEPT !.owner = None, !.lease = "none"]

ReleaseTakeover(o) ==
  /\ relay = None
  /\ ctl.owner = o
  /\ ctl' = NoTakeover(ctl)
  /\ UNCHANGED <<row, job, wk, pass, relay>>

(* Whether or not the viewer renewed it: a renewal moves the expiry only. *)
LeaseLapses ==
  /\ TakenOver
  /\ ctl' = [ctl EXCEPT !.lease = "lapsed"]
  /\ UNCHANGED <<row, job, wk, pass, relay>>

(* The relay of handle_viewer_websocket: it takes the lock, looks at the     *)
(* lease, and keeps the lock until the frame is sent.                        *)
RelayFrame(o) ==
  /\ relay = None
  /\ TakenOver /\ ctl.owner = o
  /\ relay' = o
  /\ UNCHANGED <<ctl, row, job, wk, pass>>

FrameSent ==
  /\ relay # None
  /\ relay' = None
  /\ UNCHANGED <<ctl, row, job, wk, pass>>

-----------------------------------------------------------------------------
(* What an operator asks of the dashboard: _require_current_takeover_owner   *)
(* looks at the lease, alike for every operation, and the operation runs in   *)
(* a transaction of its own.                                                  *)

Ask(o) ==
  /\ pass = "none"
  /\ TakenOver => ctl.owner = o
  /\ pass' = IF TakenOver THEN o ELSE None
  /\ UNCHANGED <<ctl, row, job, wk, relay>>

(* takeover_owner_matches, looked at again under the lock. *)
StillHolds(o) == TakenOver /\ ctl.owner = o

(* Mutant: the owner of the check is not looked for again. *)
AdmittedOnce ==
  /\ pass # "none"
  /\ relay = None
  /\ pass' = "none"

Admitted ==
  /\ pass # "none"
  /\ pass = None \/ StillHolds(pass)
  /\ relay = None
  /\ pass' = "none"

(* 403, or any of the rejections of the operation: nothing is changed. *)
Rejected ==
  /\ pass # "none"
  /\ pass' = "none"
  /\ UNCHANGED <<ctl, row, job, wk, relay>>

(* A pause that passed under no takeover does not take the lock. *)
PauseAsked ==
  /\ Admitted \/ (pass = None /\ pass' = "none")
  /\ ctl' = [ctl EXCEPT !.paused = TRUE]
  /\ UNCHANGED <<row, job, wk, relay>>

(* emergency_stop: a submission in flight becomes ambiguous, a job before it  *)
(* is ready again; parked jobs keep their claim.                              *)
EngageStop ==
  LET running == {j \in Jobs : job[j].state = "running"} IN
  /\ \A j \in running : job[j].gen < MaxGen
  /\ ctl' = [NoTakeover(ctl) EXCEPT !.stopped = TRUE, !.paused = TRUE]
  /\ row' = [row EXCEPT !.active = FALSE, !.job = None, !.mark = TRUE]
  /\ \E submitting \in SUBSET running :
       job' = [j \in Jobs |->
                 IF j \in running THEN HandedBack(job[j], j \in submitting) ELSE job[j]]

StopAsked == Admitted /\ EngageStop /\ UNCHANGED <<wk, relay>>

(* The command line has no Access identity, and a lock of its own. *)
StopByCommand == EngageStop /\ UNCHANGED <<wk, pass, relay>>

ClearStopByCommand ==
  /\ ctl.stopped
  /\ ctl' = [ctl EXCEPT !.stopped = FALSE]
  /\ UNCHANGED <<row, job, wk, pass, relay>>

(* clear_automation_state: a job at an unknown question stays; it is parked  *)
(* like the others here, so any set of parked jobs may stay.                 *)
ClearAsked ==
  /\ Admitted
  /\ \A j \in Jobs : job[j].state \in Attended => job[j].gen < MaxGen
  /\ ctl' = [paused |-> FALSE, stopped |-> FALSE, owner |-> None, lease |-> "none"]
  /\ row' = [row EXCEPT !.active = FALSE, !.waiting = FALSE, !.code = FALSE, !.job = None,
                        !.mark = TRUE]
  /\ \E stay \in SUBSET {j \in Jobs : job[j].state = "parked"}, submitting \in SUBSET Jobs :
       job' = [j \in Jobs |->
                 IF job[j].state \notin Attended \/ j \in stay THEN job[j]
                 ELSE IF job[j].state = "running" THEN HandedBack(job[j], j \in submitting)
                 ELSE [HandedBack(job[j], FALSE) EXCEPT !.state = "ready"]]
  /\ UNCHANGED <<wk, relay>>

(* requeue_auth_required_job of a named job, or of the one the row names:    *)
(* the row already speaks of the generation the next claim will have.        *)
ReopenAsked(j) ==
  /\ Admitted
  /\ job[j].state = "parked"
  /\ ~ctl.stopped
  /\ job' = [job EXCEPT ![j] = [@ EXCEPT !.state = "ready", !.owner = None, !.lease = "none"]]
  /\ ctl' = [NoTakeover(ctl) EXCEPT !.paused = FALSE]
  /\ row' = [active |-> FALSE, waiting |-> FALSE, job |-> j, gen |-> job[j].gen + 1,
             mark |-> TRUE, code |-> FALSE]
  /\ UNCHANGED <<wk, relay>>

(* safe_resume_revalidate: the job the active browser is on goes back to the *)
(* queue under its generation, if its claim lives.                           *)
ResumeAsked ==
  LET j == row.job IN
  /\ Admitted
  /\ row.active /\ j # None
  /\ ClaimIsCurrent(j, row.gen)
  /\ job' = [job EXCEPT ![j] = [@ EXCEPT !.state = "ready", !.owner = None, !.lease = "none"]]
  /\ ctl' = [NoTakeover(ctl) EXCEPT !.paused = FALSE, !.stopped = FALSE]
  /\ UNCHANGED <<row, wk, relay>>

ResumeIdle ==
  /\ Admitted
  /\ ~row.active
  /\ \A j \in Jobs : job[j].state \notin Attended
  /\ ctl' = [NoTakeover(ctl) EXCEPT !.paused = FALSE, !.stopped = FALSE]
  /\ UNCHANGED <<row, job, wk, relay>>

(* set_pending_verification_code: any code stored before is replaced. *)
Coded(r) == [r EXCEPT !.code = TRUE, !.waiting = FALSE]

(* submit-code: accepted only while the row says that a code is awaited. *)
CodeAsked ==
  /\ Admitted
  /\ row.waiting
  /\ row' = Coded(row)
  /\ UNCHANGED <<ctl, job, wk, relay>>

-----------------------------------------------------------------------------
Work(w) ==
  \/ \E j \in Jobs : Claim(w, j)
  \/ Open(w) \/ AskForCode(w) \/ TakeCode(w) \/ NoCodeCame(w) \/ EndAsking(w)
  \/ Finish(w) \/ Park(w) \/ PauseRuntime(w) \/ GiveUp(w) \/ WaitAfterFailure(w)
  \/ PauseForLogin(w) \/ ParkAtLogin(w) \/ LeaveReopened(w)
  \/ Look(w) \/ Sync(w) \/ CheckJob(w) \/ Leave(w) \/ Close(w)

Fail(w) ==
  \/ HeartbeatLost(w) \/ Crash(w)
  \/ StopDaemon(w) \/ Reconcile(w) \/ MarkShutdown(w)

Operate(o) ==
  \/ ClaimTakeover(o) \/ ReleaseTakeover(o) \/ RelayFrame(o)
  \/ Ask(o)

Serve ==
  \/ Rejected \/ PauseAsked \/ StopAsked \/ ClearAsked
  \/ \E j \in Jobs : ReopenAsked(j)
  \/ ResumeAsked \/ ResumeIdle \/ CodeAsked

Next ==
  \/ \E w \in Workers : Work(w) \/ Fail(w)
  \/ \E o \in Operators : Operate(o)
  \/ \E j \in Jobs : LeaseExpires(j)
  \/ Serve \/ LeaseLapses \/ FrameSent \/ StopByCommand \/ ClearStopByCommand

Spec == Init /\ [][Next]_vars

(* The thread of a worker runs, and so does its heartbeat, whose renewal     *)
(* fails as soon as the claim is gone.  No crash, operator or clock is fair. *)
Fairness ==
  \A w \in Workers :
    /\ WF_vars(Look(w) \/ Sync(w) \/ CheckJob(w))
    /\ WF_vars(HeartbeatLost(w))

-----------------------------------------------------------------------------
(* Properties *)

(* While the relay sends an operator's frame, nobody else comes to hold the  *)
(* takeover: claims wait for TAKEOVER_TRANSPORT_LOCK.                        *)
InputStaysWithOwner == relay # None => ~TakenOver \/ ctl.owner = relay

(* A browser that its worker's live claim stands for is not written over by  *)
(* another worker, be it slow, replaced, or on its way to close its own      *)
(* (set_runtime_browser_state).                                              *)
Speaks(w) == row.active /\ Holds(w) /\ row.job = wk[w].job /\ row.gen = wk[w].gen

LiveSessionIsNotOverwritten ==
  [][\A v, w \in Workers :
       v # w /\ Speaks(v) /\ wk'[w].pc # wk[w].pc /\ wk[w].daemon # "handed"
         => row'.active /\ row'.job = row.job /\ row'.gen = row.gen]_vars

(* What an operator was allowed to do as the holder of the takeover takes    *)
(* effect only while that operator holds it, however late it comes.          *)
StaleOwnerIsPowerless ==
  [][(pass \in Operators /\ pass' = "none" /\ <<ctl, row, job>>' # <<ctl, row, job>>)
       => StillHolds(pass)]_vars

(* A worker that waits for the operator does not wait for ever once its       *)
(* claim is gone (a stop, a cleared state, a reopened login, a replacement, an *)
(* ambiguity of its own) or its job has ended, also if that was so before it   *)
(* began to wait.                                                              *)
NothingToWaitFor(w) == ~Renewable(w) \/ job[wk[w].job].state \in {"ready", "settled"}

FencedWaitEnds ==
  \A w \in Workers :
    (wk[w].pc \in Waiting /\ NothingToWaitFor(w)) ~> wk[w].pc \notin Waiting

Promise == INSTANCE Takeover
             WITH holder <- IF TakenOver THEN ctl.owner ELSE None, carried <- relay

(* The lease in the row and the lock of the relay give the operators the     *)
(* exclusive browser of Takeover.                                            *)
ImplementsTakeover == Promise!Spec
=============================================================================
