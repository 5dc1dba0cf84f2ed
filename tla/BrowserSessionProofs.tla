------------------------ MODULE BrowserSessionProofs ------------------------
(***************************************************************************)
(* Proofs about BrowserSession, for any operators, workers and jobs.  The   *)
(* lease and the lock of the relay implement Takeover: this follows from    *)
(* what a step may do to ctl and relay together.  A browser with a live     *)
(* claim is not written over: this follows from what the claims of two      *)
(* workers have to do with each other, whatever became of them since        *)
(* (Claimed, NoSharedClaim).  The lemmas say, kind of step by kind of step, *)
(* what it does to the lease, the row, the jobs and the workers.            *)
(***************************************************************************)
EXTENDS BrowserSession, TLAPS

HolderMap == IF TakenOver THEN ctl.owner ELSE None

(* A worker past its claim has the generation of that claim, which the job    *)
(* has kept or left behind.                                                   *)
Claimed(w) ==
  /\ wk[w].pc = "idle" <=> wk[w].job = None
  /\ wk[w].job # None => wk[w].gen \in 1 .. job[wk[w].job].gen

(* Two workers that claimed the same job did so under different generations. *)
NoSharedClaim ==
  \A v, w \in Workers :
    v # w /\ wk[v].job # None /\ wk[v].job = wk[w].job => wk[v].gen # wk[w].gen

(* What the steps rest on. *)
IInv ==
  /\ TypeOK
  /\ InputStaysWithOwner
  /\ \A w \in Workers : Claimed(w)
  /\ NoSharedClaim

-----------------------------------------------------------------------------
(* The lease and the relay *)

(* A step that leaves the lease and the relay alone. *)
Apart == ctl'.owner = ctl.owner /\ ctl'.lease = ctl.lease /\ relay' = relay

(* A step that ends the lease, or lets it lapse. *)
Ends ==
  /\ \/ ctl'.owner = None /\ ctl'.lease = "none"
     \/ TakenOver /\ ctl'.owner = ctl.owner /\ ctl'.lease = "lapsed"
  /\ relay' = relay

(* A step by which an operator comes to hold the lease, or holds it longer.  *)
Takes == \E o \in Operators :
  /\ relay = None /\ relay' = None
  /\ TakenOver => ctl.owner = o
  /\ ctl'.owner = o /\ ctl'.lease = "live"

(* A step of the relay. *)
Relays ==
  /\ ctl' = ctl
  /\ \/ relay = None /\ relay' \in Operators /\ TakenOver /\ ctl.owner = relay'
     \/ relay # None /\ relay' = None

(* The fields of ctl after the updates the actions make. *)
LEMMA PauseKeepsLease ==
  ASSUME ctl \in Controls, NEW p \in BOOLEAN, ctl' = [ctl EXCEPT !.paused = p]
  PROVE  ctl' \in Controls /\ ctl'.owner = ctl.owner /\ ctl'.lease = ctl.lease
BY DEF Controls

LEMMA StopKeepsLease ==
  ASSUME ctl \in Controls, NEW p \in BOOLEAN, ctl' = [ctl EXCEPT !.stopped = p]
  PROVE  ctl' \in Controls /\ ctl'.owner = ctl.owner /\ ctl'.lease = ctl.lease
BY DEF Controls

LEMMA NoTakeoverEnds ==
  ASSUME NEW c \in Controls
  PROVE  /\ NoTakeover(c) \in Controls
         /\ NoTakeover(c).owner = None /\ NoTakeover(c).lease = "none"
BY DEF Controls, NoTakeover

(* Every step of a worker, its failures and its daemon leaves the lease alone. *)
LEMMA WorkersKeepApart ==
  ASSUME ctl \in Controls, NEW w \in Workers, Work(w) \/ Fail(w)
  PROVE  ctl' \in Controls /\ Apart
<1>1. CASE PauseRuntime(w) \/ PauseForLogin(w)
  BY <1>1, PauseKeepsLease DEF PauseRuntime, PauseForLogin, Apart, TakenOver
<1>2. CASE \E j \in Jobs : Claim(w, j)
  BY <1>2 DEF Claim, Apart, TakenOver
<1>3. CASE Open(w) \/ AskForCode(w) \/ TakeCode(w) \/ NoCodeCame(w) \/ EndAsking(w)
  BY <1>3 DEF Open, AskForCode, TakeCode, NoCodeCame, EndAsking, Apart, TakenOver
<1>4. CASE Finish(w) \/ GiveUp(w)
  <2>1. /\ ctl' = ctl \/ ctl' = [ctl EXCEPT !.paused = TRUE]
        /\ relay' = relay
    BY <1>4 DEF Finish, GiveUp, Records
  <2> QED
    BY <2>1, PauseKeepsLease DEF Apart
<1>5. CASE Look(w) \/ Sync(w) \/ CheckJob(w) \/ Leave(w) \/ Close(w)
  BY <1>5 DEF Look, Sync, CheckJob, Leave, Close, Apart, TakenOver
<1>6. CASE Fail(w)
  BY <1>6 DEF Fail, HeartbeatLost, Crash, StopDaemon, Reconcile, MarkShutdown, Apart, TakenOver
<1>7. CASE Park(w) \/ WaitAfterFailure(w) \/ ParkAtLogin(w) \/ LeaveReopened(w)
  BY <1>7 DEF Park, WaitAfterFailure, ParkAtLogin, LeaveReopened, Apart
<1> QED
  BY <1>1, <1>2, <1>3, <1>4, <1>5, <1>6, <1>7 DEF Work

(* What is done for an operator's request keeps the lease or ends it. *)
LEMMA ServingEndsOrKeeps ==
  ASSUME ctl \in Controls, Serve
  PROVE  ctl' \in Controls /\ (Apart \/ Ends)
<1>1. CASE Rejected
  BY <1>1 DEF Rejected, Apart, TakenOver
<1>2. CASE PauseAsked
  BY <1>2, PauseKeepsLease DEF PauseAsked, Admitted, Apart, TakenOver
<1>3. CASE StopAsked
  <2>1. ctl' = [NoTakeover(ctl) EXCEPT !.stopped = TRUE, !.paused = TRUE] /\ relay' = relay
    BY <1>3 DEF StopAsked, EngageStop
  <2> QED
    BY <2>1, NoTakeoverEnds DEF Controls, Ends, TakenOver
<1>4. CASE ClearAsked
  <2>1. /\ ctl' = [paused |-> FALSE, stopped |-> FALSE, owner |-> None, lease |-> "none"]
        /\ relay' = relay
    BY <1>4 DEF ClearAsked
  <2> QED
    BY <2>1 DEF Controls, Ends, TakenOver
<1>5. CASE \E j \in Jobs : ReopenAsked(j)
  <2>1. ctl' = [NoTakeover(ctl) EXCEPT !.paused = FALSE] /\ relay' = relay
    BY <1>5 DEF ReopenAsked
  <2> QED
    BY <2>1, NoTakeoverEnds DEF Controls, Ends, TakenOver
<1>6. CASE ResumeAsked \/ ResumeIdle
  <2>1. ctl' = [NoTakeover(ctl) EXCEPT !.paused = FALSE, !.stopped = FALSE] /\ relay' = relay
    BY <1>6 DEF ResumeAsked, ResumeIdle
  <2> QED
    BY <2>1, NoTakeoverEnds DEF Controls, Ends, TakenOver
<1>7. CASE CodeAsked
  BY <1>7 DEF CodeAsked, Apart, TakenOver
<1> QED
  BY <1>1, <1>2, <1>3, <1>4, <1>5, <1>6, <1>7 DEF Serve

(* What the operators do themselves. *)
LEMMA OperatingMoves ==
  ASSUME ctl \in Controls, NEW o \in Operators, Operate(o)
  PROVE  ctl' \in Controls /\ (Apart \/ Ends \/ Takes \/ Relays)
<1>1. CASE ClaimTakeover(o)
  <2>1. /\ relay = None /\ relay' = None /\ (TakenOver => ctl.owner = o)
        /\ ctl' = [ctl EXCEPT !.owner = o, !.lease = "live", !.paused = TRUE]
    BY <1>1 DEF ClaimTakeover
  <2>2. ctl' \in Controls /\ ctl'.owner = o /\ ctl'.lease = "live"
    BY <2>1 DEF Controls
  <2> QED
    BY <2>1, <2>2 DEF Takes
<1>2. CASE ReleaseTakeover(o)
  BY <1>2, NoTakeoverEnds DEF ReleaseTakeover, Ends, TakenOver
<1>3. CASE RelayFrame(o)
  BY <1>3 DEF RelayFrame, Relays
<1>4. CASE Ask(o)
  BY <1>4 DEF Ask, Apart, TakenOver
<1> QED
  BY <1>1, <1>2, <1>3, <1>4 DEF Operate

(* Every step is of one of the four kinds. *)
LEMMA StepKinds ==
  ASSUME ctl \in Controls, [Next]_vars
  PROVE  ctl' \in Controls /\ (Apart \/ Ends \/ Takes \/ Relays)
<1>1. CASE \E w \in Workers : Work(w) \/ Fail(w)
  BY <1>1, WorkersKeepApart
<1>2. CASE \E o \in Operators : Operate(o)
  BY <1>2, OperatingMoves
<1>3. CASE \E j \in Jobs : LeaseExpires(j)
  BY <1>3 DEF LeaseExpires, Apart, TakenOver
<1>4. CASE Serve
  BY <1>4, ServingEndsOrKeeps
<1>5. CASE LeaseLapses
  <2>1. TakenOver /\ ctl' = [ctl EXCEPT !.lease = "lapsed"] /\ relay' = relay
    BY <1>5 DEF LeaseLapses
  <2> QED
    BY <2>1 DEF Controls, Ends, TakenOver
<1>6. CASE FrameSent
  BY <1>6 DEF FrameSent, Relays
<1>7. CASE StopByCommand
  <2>1. ctl' = [NoTakeover(ctl) EXCEPT !.stopped = TRUE, !.paused = TRUE] /\ relay' = relay
    BY <1>7 DEF StopByCommand, EngageStop
  <2> QED
    BY <2>1, NoTakeoverEnds DEF Controls, Ends, TakenOver
<1>8. CASE ClearStopByCommand
  BY <1>8, StopKeepsLease DEF ClearStopByCommand, Apart, TakenOver
<1>9. CASE UNCHANGED vars
  BY <1>9 DEF vars, Apart, TakenOver
<1> QED
  BY <1>1, <1>2, <1>3, <1>4, <1>5, <1>6, <1>7, <1>8, <1>9 DEF Next

LEMMA LeaseKeeps ==
  ASSUME IInv, [Next]_vars
  PROVE  /\ ctl' \in Controls /\ relay' \in Operators \cup {None}
         /\ (ctl.owner = None <=> ctl.lease = "none")'
         /\ InputStaysWithOwner'
<1>1. /\ ctl \in Controls /\ relay \in Operators \cup {None}
      /\ ctl.owner = None <=> ctl.lease = "none"
      /\ InputStaysWithOwner
  BY DEF IInv, TypeOK
<1>2. ctl' \in Controls /\ (Apart \/ Ends \/ Takes \/ Relays)
  BY <1>1, StepKinds
<1>3. relay' \in Operators \cup {None}
  BY <1>1, <1>2 DEF Apart, Ends, Takes, Relays
<1>4. (ctl.owner = None <=> ctl.lease = "none")'
  <2>1. CASE Takes
    BY <2>1, SessionAssumptions DEF Takes
  <2>2. CASE Apart \/ Ends \/ Relays
    BY <1>1, <2>2 DEF Apart, Ends, Relays, TakenOver
  <2> QED
    BY <1>2, <2>1, <2>2
<1>5. InputStaysWithOwner'
  BY <1>1, <1>2 DEF InputStaysWithOwner, TakenOver, Apart, Ends, Takes, Relays
<1> QED
  BY <1>2, <1>3, <1>4, <1>5

-----------------------------------------------------------------------------
(* The row, the jobs and the workers *)

(* The generation of a job is never taken back. *)
JobsKept ==
  /\ job' \in [Jobs -> JobRows]
  /\ \A j \in Jobs : job'[j].gen >= job[j].gen

(* A worker goes on with its claim, gives it up, or makes a new one. *)
Moves(w) == \E s \in WorkerStates :
  /\ wk' = [wk EXCEPT ![w] = s]
  /\ \/ s.pc = "idle" /\ s.job = None
     \/ s.pc # "idle" /\ s.job # None /\ s.job = wk[w].job /\ s.gen = wk[w].gen
     \/ /\ s.pc # "idle" /\ s.job \in Jobs
        /\ s.gen = job[s.job].gen + 1 /\ job'[s.job].gen = s.gen

(* What a worker writes into the row. *)
Writes(w) ==
  \/ row' = row
  \/ row' = Consumed(row)
  \/ \E active, waiting \in BOOLEAN : Publish(w, active, waiting)

LEMMA GotoMoves ==
  ASSUME wk \in [Workers -> WorkerStates], NEW w \in Workers, Claimed(w),
         wk[w].pc # "idle", NEW pc \in Pcs \ {"idle"}, Goto(w, pc)
  PROVE  Moves(w)
<1> DEFINE s == [wk[w] EXCEPT !.pc = pc]
<1>1. s \in WorkerStates /\ s.pc = pc /\ s.job = wk[w].job /\ s.gen = wk[w].gen
  BY DEF WorkerStates
<1>2. wk' = [wk EXCEPT ![w] = s] /\ s.job # None
  BY <1>1 DEF Goto, Claimed
<1> HIDE DEF s
<1> QED
  BY <1>1, <1>2 DEF Moves

LEMMA WaitMoves ==
  ASSUME wk \in [Workers -> WorkerStates], NEW w \in Workers, Claimed(w),
         wk[w].pc # "idle", NEW keep \in BOOLEAN, Wait(w, keep)
  PROVE  Moves(w)
<1> DEFINE s == [wk[w] EXCEPT !.pc = "looking", !.keep = keep]
<1>1. s \in WorkerStates /\ s.pc = "looking" /\ s.job = wk[w].job /\ s.gen = wk[w].gen
  BY DEF WorkerStates, Pcs, Waiting
<1>2. wk' = [wk EXCEPT ![w] = s] /\ s.job # None
  BY <1>1 DEF Wait, Claimed
<1> HIDE DEF s
<1> QED
  BY <1>1, <1>2 DEF Moves

LEMMA RestMoves ==
  ASSUME wk \in [Workers -> WorkerStates], NEW w \in Workers, Rest(w)
  PROVE  Moves(w)
<1> DEFINE s == [Idle EXCEPT !.daemon = wk[w].daemon]
<1>1. Idle \in WorkerStates /\ Idle.pc = "idle" /\ Idle.job = None
  BY SessionAssumptions DEF WorkerStates, Idle, Pcs
<1>2. wk[w].daemon \in {"up", "stopping", "handed", "unlocked"}
  BY DEF WorkerStates
<1>3. s \in WorkerStates /\ s.pc = "idle" /\ s.job = None
  BY <1>1, <1>2 DEF WorkerStates
<1> HIDE DEF s
<1>4. wk' = [wk EXCEPT ![w] = s]
  BY DEF Rest, s
<1> QED
  BY <1>3, <1>4 DEF Moves

(* The daemon of a worker, or its heartbeat, takes note of something. *)
LEMMA NoteMoves ==
  ASSUME wk \in [Workers -> WorkerStates], NEW w \in Workers, Claimed(w),
         \/ \E d \in {"stopping", "handed", "unlocked"} : wk' = [wk EXCEPT ![w].daemon = d]
         \/ wk' = [wk EXCEPT ![w].lost = TRUE]
  PROVE  Moves(w) /\ wk'[w].pc = wk[w].pc
<1>1. PICK s \in WorkerStates :
        wk' = [wk EXCEPT ![w] = s] /\ s.pc = wk[w].pc /\ s.job = wk[w].job /\ s.gen = wk[w].gen
  <2>1. CASE \E d \in {"stopping", "handed", "unlocked"} : wk' = [wk EXCEPT ![w].daemon = d]
    <3>1. PICK d \in {"stopping", "handed", "unlocked"} : wk' = [wk EXCEPT ![w].daemon = d]
      BY <2>1
    <3>2. [wk[w] EXCEPT !.daemon = d] \in WorkerStates
      BY DEF WorkerStates
    <3> QED
      BY <3>1, <3>2 DEF WorkerStates
  <2>2. CASE wk' = [wk EXCEPT ![w].lost = TRUE]
    <3>1. [wk[w] EXCEPT !.lost = TRUE] \in WorkerStates
      BY DEF WorkerStates
    <3> QED
      BY <2>2, <3>1 DEF WorkerStates
  <2> QED
    BY <2>1, <2>2
<1> QED
  BY <1>1 DEF Moves, Claimed

(* What set_runtime_browser_state leaves in the row is a row. *)
LEMMA PublishedIsRow ==
  ASSUME row \in Browsers, NEW a \in BOOLEAN, NEW b \in BOOLEAN, NEW j \in Jobs, NEW g \in 0 .. MaxGen
  PROVE  Published(a, b, j, g) \in Browsers
<1>1. g \in RowGens /\ 0 \in RowGens
  BY SessionAssumptions DEF RowGens
<1> QED
  BY <1>1 DEF Published, Browsers

LEMMA WritesRow ==
  ASSUME TypeOK, NEW w \in Workers, Claimed(w), wk[w].pc # "idle", Writes(w)
  PROVE  row' \in Browsers
<1>1. row \in Browsers /\ wk[w].job \in Jobs /\ wk[w].gen \in 0 .. MaxGen
  BY DEF TypeOK, Claimed, WorkerStates
<1>2. Consumed(row) \in Browsers
  BY <1>1 DEF Browsers, Consumed
<1> QED
  BY <1>1, <1>2, PublishedIsRow DEF Writes, Publish

(* A job handed back goes on to its next generation, to whatever state. *)
LEMMA NextGenerationIsRow ==
  ASSUME NEW r \in JobRows, r.gen < MaxGen,
         NEW state \in {"ready", "running", "parked", "settled", "undone"},
         NEW s, s = [r EXCEPT !.state = state, !.gen = r.gen + 1, !.owner = None, !.lease = "none"]
  PROVE  s \in JobRows /\ s.gen >= r.gen
<1>1. r.gen \in Nat /\ r.gen + 1 \in 0 .. MaxGen
  BY SessionAssumptions DEF JobRows
<1>2. s \in JobRows
  BY <1>1 DEF JobRows
<1>3. s.gen = r.gen + 1
  BY <1>1 DEF JobRows
<1> QED
  BY <1>1, <1>2, <1>3

LEMMA HandedBackIsRow ==
  ASSUME NEW r \in JobRows, r.gen < MaxGen, NEW submitting \in BOOLEAN
  PROVE  /\ HandedBack(r, submitting) \in JobRows /\ HandedBack(r, submitting).gen >= r.gen
         /\ \A state \in {"ready", "undone"} :
              /\ [HandedBack(r, submitting) EXCEPT !.state = state] \in JobRows
              /\ [HandedBack(r, submitting) EXCEPT !.state = state].gen >= r.gen
<1> DEFINE now == IF r.state # "running" THEN r.state ELSE IF submitting THEN "undone" ELSE "ready"
<1>1. now \in {"ready", "running", "parked", "settled", "undone"}
  BY DEF JobRows
<1>2. HandedBack(r, submitting) = [r EXCEPT !.state = now, !.gen = r.gen + 1, !.owner = None,
                                            !.lease = "none"]
  BY DEF HandedBack
<1> HIDE DEF now
<1>3. ASSUME NEW state \in {"ready", "undone"}
      PROVE  [HandedBack(r, submitting) EXCEPT !.state = state]
               = [r EXCEPT !.state = state, !.gen = r.gen + 1, !.owner = None, !.lease = "none"]
  BY <1>2 DEF JobRows
<1> QED
  BY <1>1, <1>2, <1>3, NextGenerationIsRow

(* One job is rewritten, its generation kept or advanced. *)
LEMMA OneJobKept ==
  ASSUME job \in [Jobs -> JobRows], NEW j \in Jobs, NEW r \in JobRows, r.gen >= job[j].gen,
         job' = [job EXCEPT ![j] = r]
  PROVE  JobsKept
BY DEF JobsKept, JobRows

LEMMA SameJobsKept ==
  ASSUME job \in [Jobs -> JobRows], job' = job
  PROVE  JobsKept
BY DEF JobsKept, JobRows

(* A job that is set free keeps its generation. *)
LEMMA FreedJobKept ==
  ASSUME job \in [Jobs -> JobRows], NEW j \in Jobs, NEW state \in {"ready", "settled"},
         job' = [job EXCEPT ![j] = [job[j] EXCEPT !.state = state, !.owner = None, !.lease = "none"]]
  PROVE  JobsKept
<1> DEFINE r == [job[j] EXCEPT !.state = state, !.owner = None, !.lease = "none"]
<1>1. job[j] \in JobRows /\ job[j].gen \in Nat
  BY SessionAssumptions DEF JobRows
<1>2. r \in JobRows
  BY <1>1 DEF JobRows
<1>3. r.gen >= job[j].gen
  BY <1>1 DEF JobRows
<1>4. job' = [job EXCEPT ![j] = r]
  OBVIOUS
<1> HIDE DEF r
<1> QED
  BY <1>2, <1>3, <1>4, OneJobKept

(* The steps of a worker's thread, one by one. *)
LEMMA ClaimKeeps ==
  ASSUME TypeOK, NEW w \in Workers, NEW j \in Jobs, Claim(w, j)
  PROVE  JobsKept /\ Moves(w) /\ row' = row /\ pass' = pass
<1>1. job[j] \in JobRows /\ job[j].gen \in 0 .. MaxGen /\ job[j].gen < MaxGen /\ job[j].gen + 1 \in 1 .. MaxGen
  BY SessionAssumptions DEF TypeOK, JobRows, Claim
<1> DEFINE r == [state |-> "running", gen |-> job[j].gen + 1, owner |-> w, lease |-> "live"]
           s == [pc |-> "claimed", job |-> j, gen |-> job[j].gen + 1, lost |-> FALSE, keep |-> FALSE,
                  daemon |-> "up"]
<1>2. r \in JobRows /\ r.gen = job[j].gen + 1 /\ r.gen >= job[j].gen
  BY <1>1 DEF JobRows
<1>3. s \in WorkerStates /\ s.pc # "idle" /\ s.job = j /\ s.gen = job[j].gen + 1
  BY <1>1 DEF WorkerStates, Pcs
<1>4. /\ job' = [job EXCEPT ![j] = r] /\ wk' = [wk EXCEPT ![w] = s]
      /\ row' = row /\ pass' = pass
  BY DEF Claim
<1> HIDE DEF r, s
<1>5. JobsKept
  BY <1>2, <1>4, OneJobKept DEF TypeOK
<1>6. job'[j].gen = job[j].gen + 1
  BY <1>2, <1>4 DEF TypeOK
<1> QED
  BY <1>3, <1>4, <1>5, <1>6 DEF Moves

(* What a worker records of its job's end. *)
LEMMA RecordsKeeps ==
  ASSUME TypeOK, NEW w \in Workers, NEW outcomes \in SUBSET {"settled", "undone"},
         Records(w, outcomes)
  PROVE  JobsKept
<1>1. job \in [Jobs -> JobRows] /\ wk \in [Workers -> WorkerStates]
  BY DEF TypeOK
<1>2. CASE ~Holds(w)
  BY <1>1, <1>2, SameJobsKept DEF Records
<1>3. CASE Holds(w)
  <2> DEFINE j == wk[w].job
  <2>1. j \in Jobs /\ job[j] \in JobRows /\ job[j].gen = wk[w].gen
    BY <1>1, <1>3 DEF Holds, Renewable, WorkerStates
  <2>2. ASSUME NEW state \in outcomes, job' = [job EXCEPT ![j] = [job[j] EXCEPT !.state = state]]
        PROVE  JobsKept
    <3>1. /\ [job[j] EXCEPT !.state = state] \in JobRows
          /\ [job[j] EXCEPT !.state = state].gen >= job[j].gen
      BY <2>1 DEF JobRows
    <3> HIDE DEF j
    <3> QED
      BY <1>1, <2>1, <2>2, <3>1, OneJobKept
  <2>3. ASSUME wk[w].gen < MaxGen,
               job' = [job EXCEPT ![j] = [HandedBack(job[j], TRUE) EXCEPT !.state = "undone"]]
        PROVE  JobsKept
    <3>1. /\ [HandedBack(job[j], TRUE) EXCEPT !.state = "undone"] \in JobRows
          /\ [HandedBack(job[j], TRUE) EXCEPT !.state = "undone"].gen >= job[j].gen
      BY <2>1, <2>3, HandedBackIsRow
    <3> HIDE DEF j
    <3> QED
      BY <1>1, <2>1, <2>3, <3>1, OneJobKept
  <2> QED
    BY <1>3, <2>2, <2>3 DEF Records
<1> QED
  BY <1>2, <1>3

LEMMA WorkKeeps ==
  ASSUME TypeOK, NEW w \in Workers, Claimed(w), Work(w)
  PROVE  /\ JobsKept /\ Moves(w) /\ pass' = pass
         /\ row' = row \/ (wk[w].pc # "idle" /\ Writes(w))
<1>1. job \in [Jobs -> JobRows] /\ wk \in [Workers -> WorkerStates]
  BY DEF TypeOK
<1>2. CASE \E j \in Jobs : Claim(w, j)
  BY <1>2, ClaimKeeps
<1>3. CASE Open(w)
  <2>1. CASE wk[w].lost
    BY <1>1, <1>3, <2>1, GotoMoves, SameJobsKept DEF Open, Pcs
  <2>2. CASE ~wk[w].lost
    BY <1>1, <1>3, <2>2, GotoMoves, SameJobsKept DEF Open, Pcs, Writes
  <2> QED
    BY <2>1, <2>2
<1>4. CASE AskForCode(w) \/ TakeCode(w) \/ NoCodeCame(w) \/ EndAsking(w)
  BY <1>1, <1>4, GotoMoves, SameJobsKept DEF AskForCode, TakeCode, NoCodeCame, EndAsking, Pcs, Writes
<1>5. CASE Finish(w) \/ GiveUp(w)
  <2>1. Moves(w) /\ pass' = pass /\ row' = row
    BY <1>1, <1>5, GotoMoves DEF Finish, GiveUp, Pcs
  <2>2. JobsKept
    BY <1>1, <1>5, RecordsKeeps DEF Finish, GiveUp, TypeOK
  <2> QED
    BY <2>1, <2>2
<1>6. CASE Park(w)
  <2>1. Moves(w) /\ pass' = pass /\ row' = row
    BY <1>1, <1>6, GotoMoves DEF Park, Pcs
  <2>2. wk[w].job \in Jobs /\ job[wk[w].job] \in JobRows
    BY <1>1, <1>6 DEF Park, Holds, Renewable, WorkerStates
  <2>3. /\ [job[wk[w].job] EXCEPT !.state = "parked"] \in JobRows
        /\ [job[wk[w].job] EXCEPT !.state = "parked"].gen >= job[wk[w].job].gen
    BY <2>2 DEF JobRows
  <2>4. job' = [job EXCEPT ![wk[w].job] = [job[wk[w].job] EXCEPT !.state = "parked"]]
    BY <1>6 DEF Park
  <2> QED
    BY <1>1, <2>1, <2>2, <2>3, <2>4, OneJobKept
<1>7. CASE PauseRuntime(w)
  BY <1>1, <1>7, WaitMoves, SameJobsKept DEF PauseRuntime
<1>8. CASE Look(w)
  <2>1. wk[w].pc # "idle" /\ UNCHANGED <<ctl, row, job, pass>>
    BY <1>8 DEF Look
  <2>2. Rest(w) \/ Goto(w, "leaving") \/ Goto(w, "looked")
    BY <1>8 DEF Look
  <2>3. Moves(w)
    BY <1>1, <2>1, <2>2, GotoMoves, RestMoves DEF Pcs, Waiting
  <2> QED
    BY <1>1, <2>1, <2>3, SameJobsKept
<1>9. CASE Sync(w)
  BY <1>1, <1>9, GotoMoves, SameJobsKept DEF Sync, Pcs, Waiting, Writes
<1>10. CASE CheckJob(w)
  <2>1. /\ wk[w].pc # "idle" /\ UNCHANGED <<ctl, job, pass>> /\ row' = Consumed(row)
        /\ Goto(w, "leaving") \/ Goto(w, "looking")
    BY <1>10 DEF CheckJob
  <2>2. Moves(w)
    BY <1>1, <2>1, GotoMoves DEF Pcs, Waiting
  <2> QED
    BY <1>1, <2>1, <2>2, SameJobsKept DEF Writes
<1>11. CASE Leave(w)
  <2>1. /\ wk[w].pc # "idle" /\ UNCHANGED <<ctl, job, pass>>
        /\ row' = row \/ Publish(w, TRUE, FALSE)
        /\ Goto(w, "closing") \/ Rest(w)
    BY <1>11 DEF Leave
  <2>2. Moves(w)
    BY <1>1, <2>1, GotoMoves, RestMoves DEF Pcs
  <2> QED
    BY <1>1, <2>1, <2>2, SameJobsKept DEF Writes
<1>12. CASE Close(w)
  BY <1>1, <1>12, RestMoves, SameJobsKept DEF Close, Writes
<1>13. CASE WaitAfterFailure(w) \/ PauseForLogin(w)
  <2>1. /\ wk[w].pc # "idle" /\ UNCHANGED <<row, job, pass>>
        /\ Wait(w, FALSE) \/ Goto(w, "closing") \/ Goto(w, "login")
    BY <1>13 DEF WaitAfterFailure, PauseForLogin
  <2>2. Moves(w)
    BY <1>1, <2>1, GotoMoves, WaitMoves DEF Pcs
  <2> QED
    BY <1>1, <2>1, <2>2, SameJobsKept
<1>14. CASE ParkAtLogin(w)
  <2>1. /\ wk[w].pc # "idle" /\ UNCHANGED <<row, pass>>
        /\ Wait(w, TRUE) \/ Goto(w, "reopened")
        /\ \/ job' = job
           \/ job' = [job EXCEPT ![wk[w].job] = [job[wk[w].job] EXCEPT !.state = "parked"]]
    BY <1>14 DEF ParkAtLogin
  <2>2. Moves(w)
    BY <1>1, <2>1, GotoMoves, WaitMoves DEF Pcs
  <2>3. wk[w].job \in Jobs
    BY <1>1, <2>1 DEF Claimed, WorkerStates
  <2>4. /\ [job[wk[w].job] EXCEPT !.state = "parked"] \in JobRows
        /\ [job[wk[w].job] EXCEPT !.state = "parked"].gen >= job[wk[w].job].gen
    BY <1>1, <2>3 DEF JobRows
  <2> QED
    BY <1>1, <2>1, <2>2, <2>3, <2>4, OneJobKept, SameJobsKept
<1>15. CASE LeaveReopened(w)
  <2>1. /\ wk[w].pc # "idle" /\ UNCHANGED <<ctl, job, pass>>
        /\ row' = row \/ Publish(w, TRUE, FALSE)
        /\ Goto(w, "closing") \/ Rest(w)
    BY <1>15 DEF LeaveReopened
  <2>2. Moves(w)
    BY <1>1, <2>1, GotoMoves, RestMoves DEF Pcs
  <2> QED
    BY <1>1, <2>1, <2>2, SameJobsKept DEF Writes
<1> QED
  BY <1>2, <1>3, <1>4, <1>5, <1>6, <1>7, <1>8, <1>9, <1>10, <1>11, <1>12, <1>13, <1>14, <1>15
     DEF Work

(* What befalls a worker; its place changes only when its process dies, and   *)
(* the row only when its daemon marks the shutdown.                           *)
LEMMA FailKeeps ==
  ASSUME TypeOK, NEW w \in Workers, Claimed(w), Fail(w)
  PROVE  /\ JobsKept /\ Moves(w) /\ pass' = pass
         /\ row' \in Browsers
         /\ row' = row \/ wk[w].daemon = "handed"
<1>1. job \in [Jobs -> JobRows] /\ wk \in [Workers -> WorkerStates] /\ row \in Browsers
  BY DEF TypeOK
<1>2. CASE HeartbeatLost(w) \/ StopDaemon(w)
  BY <1>1, <1>2, NoteMoves, SameJobsKept DEF HeartbeatLost, StopDaemon
<1>3. CASE Crash(w)
  <2>1. Idle \in WorkerStates /\ Idle.pc = "idle" /\ Idle.job = None
    BY SessionAssumptions DEF WorkerStates, Idle, Pcs
  <2>2. wk' = [wk EXCEPT ![w] = Idle] /\ UNCHANGED <<row, job, pass>>
    BY <1>3 DEF Crash
  <2> HIDE DEF Idle
  <2> QED
    BY <1>1, <2>1, <2>2, SameJobsKept DEF Moves
<1>4. CASE Reconcile(w)
  <2> DEFINE left == {j \in Jobs : job[j].owner = w /\ job[j].state \in Attended}
             retried == {j \in Jobs : job[j].owner = w /\ job[j].state = "undone"}
  <2>1. /\ wk' = [wk EXCEPT ![w].daemon = "handed"] /\ row' = row /\ pass' = pass
        /\ \A j \in left \cup retried : job[j].gen < MaxGen
        /\ \/ \E submitting \in SUBSET left, due \in SUBSET retried :
                job' = [j \in Jobs |->
                          IF j \in left THEN HandedBack(job[j], j \in submitting)
                          ELSE IF j \in due
                               THEN [HandedBack(job[j], FALSE) EXCEPT !.state = "ready"]
                          ELSE job[j]]
           \/ job' = job
    BY <1>4 DEF Reconcile
  <2> HIDE DEF left, retried
  <2>2. Moves(w)
    BY <1>1, <2>1, NoteMoves
  <2>3. \A j \in Jobs : job[j] \in JobRows /\ job[j].gen \in Nat
    BY <1>1 DEF JobRows
  <2>4. ASSUME NEW submitting \in SUBSET left, NEW due \in SUBSET retried,
               job' = [j \in Jobs |->
                         IF j \in left THEN HandedBack(job[j], j \in submitting)
                         ELSE IF j \in due
                              THEN [HandedBack(job[j], FALSE) EXCEPT !.state = "ready"]
                         ELSE job[j]]
        PROVE  JobsKept
    <3>1. ASSUME NEW j \in Jobs PROVE job'[j] \in JobRows /\ job'[j].gen >= job[j].gen
      <4>1. (j \in submitting) \in BOOLEAN
        OBVIOUS
      <4>2. CASE j \in left
        BY <2>1, <2>3, <2>4, <4>1, <4>2, HandedBackIsRow
      <4>3. CASE j \notin left /\ j \in due
        BY <2>1, <2>3, <2>4, <4>3, HandedBackIsRow
      <4>4. CASE j \notin left /\ j \notin due
        BY <2>3, <2>4, <4>4
      <4> QED
        BY <4>2, <4>3, <4>4
    <3>2. DOMAIN job' = Jobs /\ job' = [j \in Jobs |-> job'[j]]
      BY <2>4
    <3> QED
      BY <3>1, <3>2 DEF JobsKept
  <2> QED
    BY <1>1, <2>1, <2>2, <2>4, SameJobsKept
<1>5. CASE MarkShutdown(w)
  <2>1. /\ wk[w].daemon = "handed" /\ wk' = [wk EXCEPT ![w].daemon = "unlocked"]
        /\ job' = job /\ pass' = pass
        /\ row' = [row EXCEPT !.active = FALSE, !.waiting = FALSE, !.job = None,
                              !.gen = MaxGen + 1, !.mark = TRUE]
    BY <1>5 DEF MarkShutdown
  <2>2. MaxGen + 1 \in RowGens
    BY SessionAssumptions DEF RowGens
  <2>3. row' \in Browsers
    BY <1>1, <2>1, <2>2 DEF Browsers
  <2> QED
    BY <1>1, <2>1, <2>3, NoteMoves, SameJobsKept
<1> QED
  BY <1>2, <1>3, <1>4, <1>5 DEF Fail

(* An emergency stop, whoever engages it. *)
LEMMA StopKeeps ==
  ASSUME TypeOK, EngageStop
  PROVE  JobsKept /\ row' \in Browsers
<1>1. \A j \in Jobs : job[j] \in JobRows /\ job[j].gen \in Nat
  BY DEF TypeOK, JobRows
<1>2. ASSUME NEW j \in Jobs, job[j].state = "running", NEW submitting \in BOOLEAN
      PROVE  /\ HandedBack(job[j], submitting) \in JobRows
             /\ HandedBack(job[j], submitting).gen >= job[j].gen
  BY <1>1, <1>2, HandedBackIsRow DEF EngageStop
<1>3. PICK submitting \in SUBSET {j \in Jobs : job[j].state = "running"} :
        job' = [j \in Jobs |-> IF job[j].state = "running"
                               THEN HandedBack(job[j], j \in submitting) ELSE job[j]]
  BY DEF EngageStop
<1>4. JobsKept
  <2>1. ASSUME NEW j \in Jobs PROVE job'[j] \in JobRows /\ job'[j].gen >= job[j].gen
    <3>1. (j \in submitting) \in BOOLEAN
      OBVIOUS
    <3>2. CASE job[j].state = "running"
      BY <1>2, <1>3, <3>1, <3>2
    <3>3. CASE job[j].state # "running"
      BY <1>1, <1>3, <3>3
    <3> QED
      BY <3>2, <3>3
  <2> QED
    BY <1>3, <2>1 DEF JobsKept
<1>5. row' \in Browsers
  BY DEF TypeOK, EngageStop, Browsers
<1> QED
  BY <1>4, <1>5

(* What the dashboard does for the operators leaves the workers alone. *)
LEMMA ServeKeeps ==
  ASSUME TypeOK, Serve
  PROVE  JobsKept /\ row' \in Browsers /\ pass' \in Passes /\ wk' = wk
<1>1. job \in [Jobs -> JobRows] /\ row \in Browsers /\ "none" \in Passes
  BY DEF TypeOK, Passes
<1>2. \A j \in Jobs : job[j] \in JobRows /\ job[j].gen \in 0 .. MaxGen /\ job[j].gen \in Nat
  BY <1>1, SessionAssumptions DEF JobRows
<1>3. CASE Rejected \/ PauseAsked \/ ResumeIdle
  BY <1>1, <1>3, SameJobsKept DEF Rejected, PauseAsked, ResumeIdle, Admitted
<1>4. CASE StopAsked
  BY <1>1, <1>4, StopKeeps DEF StopAsked, Admitted
<1>5. CASE ClearAsked
  <2>1. PICK stay \in SUBSET {j \in Jobs : job[j].state = "parked"}, submitting \in SUBSET Jobs :
          job' = [j \in Jobs |->
                    IF job[j].state \notin Attended \/ j \in stay THEN job[j]
                    ELSE IF job[j].state = "running" THEN HandedBack(job[j], j \in submitting)
                    ELSE [HandedBack(job[j], FALSE) EXCEPT !.state = "ready"]]
    BY <1>5 DEF ClearAsked
  <2>2. ASSUME NEW j \in Jobs, job[j].state \in Attended, NEW interrupted \in BOOLEAN
        PROVE  /\ HandedBack(job[j], interrupted) \in JobRows
               /\ HandedBack(job[j], interrupted).gen >= job[j].gen
               /\ [HandedBack(job[j], interrupted) EXCEPT !.state = "ready"] \in JobRows
               /\ [HandedBack(job[j], interrupted) EXCEPT !.state = "ready"].gen >= job[j].gen
    BY <1>2, <1>5, <2>2, HandedBackIsRow DEF ClearAsked
  <2>3. JobsKept
    <3>1. ASSUME NEW j \in Jobs PROVE job'[j] \in JobRows /\ job'[j].gen >= job[j].gen
      <4>1. (j \in submitting) \in BOOLEAN
        OBVIOUS
      <4>2. CASE job[j].state \notin Attended \/ j \in stay
        <5>1. job'[j] = job[j]
          BY <2>1, <4>2, Zenon
        <5> QED
          BY <1>2, <5>1
      <4>3. CASE ~(job[j].state \notin Attended \/ j \in stay) /\ job[j].state = "running"
        BY <2>1, <2>2, <4>1, <4>3
      <4>4. CASE ~(job[j].state \notin Attended \/ j \in stay) /\ job[j].state # "running"
        BY <2>1, <2>2, <4>4
      <4> QED
        BY <4>2, <4>3, <4>4
    <3> QED
      BY <2>1, <3>1 DEF JobsKept
  <2>4. row' \in Browsers
    BY <1>1, <1>5 DEF ClearAsked, Browsers
  <2> QED
    BY <1>1, <1>5, <2>3, <2>4 DEF ClearAsked, Admitted
<1>6. CASE \E j \in Jobs : ReopenAsked(j)
  <2>1. PICK j \in Jobs : ReopenAsked(j)
    BY <1>6
  <2>2. job' = [job EXCEPT ![j] = [job[j] EXCEPT !.state = "ready", !.owner = None, !.lease = "none"]]
    BY <2>1 DEF ReopenAsked
  <2>3. JobsKept
    BY <1>1, <2>2, FreedJobKept
  <2>4. job[j].gen + 1 \in RowGens
    BY <1>2, SessionAssumptions DEF RowGens
  <2>5. row' \in Browsers
    BY <2>1, <2>4 DEF ReopenAsked, Browsers
  <2> QED
    BY <1>1, <2>1, <2>3, <2>5 DEF ReopenAsked, Admitted
<1>7. CASE ResumeAsked
  <2>1. row.job \in Jobs
    BY <1>1, <1>7 DEF ResumeAsked, Browsers
  <2>2. job' = [job EXCEPT ![row.job] =
                  [job[row.job] EXCEPT !.state = "ready", !.owner = None, !.lease = "none"]]
    BY <1>7 DEF ResumeAsked
  <2>3. JobsKept
    BY <1>1, <2>1, <2>2, FreedJobKept
  <2> QED
    BY <1>1, <1>7, <2>3 DEF ResumeAsked, Admitted
<1>8. CASE CodeAsked
  <2>1. Coded(row) \in Browsers
    BY <1>1 DEF Coded, Browsers
  <2> QED
    BY <1>1, <1>8, <2>1, SameJobsKept DEF CodeAsked, Admitted
<1> QED
  BY <1>3, <1>4, <1>5, <1>6, <1>7, <1>8 DEF Serve

LEMMA OperateKeeps ==
  ASSUME TypeOK, NEW o \in Operators, Operate(o)
  PROVE  JobsKept /\ row' = row /\ pass' \in Passes /\ wk' = wk
<1>1. pass \in Passes /\ o \in Passes /\ None \in Passes /\ job \in [Jobs -> JobRows]
  BY DEF TypeOK, Passes
<1> QED
  BY <1>1, SameJobsKept DEF Operate, ClaimTakeover, ReleaseTakeover, RelayFrame, Ask

(* The claims of the workers stay apart whoever moves. *)
LEMMA ClaimsKeep ==
  ASSUME IInv, JobsKept, wk' = wk \/ \E w \in Workers : Moves(w)
  PROVE  /\ wk' \in [Workers -> WorkerStates]
         /\ \A w \in Workers : Claimed(w)'
         /\ NoSharedClaim'
<1>1. /\ wk \in [Workers -> WorkerStates]
      /\ \A j \in Jobs : job[j].gen \in Nat /\ job'[j].gen \in Nat /\ job'[j].gen >= job[j].gen
      /\ \A w \in Workers : Claimed(w)
      /\ NoSharedClaim
  BY SessionAssumptions DEF IInv, TypeOK, JobsKept, JobRows
<1>2. \A w \in Workers : wk[w].job \in Jobs \cup {None} /\ wk[w].gen \in Nat
  BY <1>1, SessionAssumptions DEF WorkerStates
<1>3. CASE wk' = wk
  BY <1>1, <1>2, <1>3 DEF Claimed, NoSharedClaim
<1>4. CASE \E w \in Workers : Moves(w)
  <2>1. PICK w \in Workers : Moves(w)
    BY <1>4
  <2>2. PICK s \in WorkerStates :
          /\ wk' = [wk EXCEPT ![w] = s]
          /\ \/ s.pc = "idle" /\ s.job = None
             \/ s.pc # "idle" /\ s.job # None /\ s.job = wk[w].job /\ s.gen = wk[w].gen
             \/ /\ s.pc # "idle" /\ s.job \in Jobs
                /\ s.gen = job[s.job].gen + 1 /\ job'[s.job].gen = s.gen
    BY <2>1 DEF Moves
  <2>3. /\ wk' \in [Workers -> WorkerStates] /\ wk'[w] = s
        /\ \A v \in Workers \ {w} : wk'[v] = wk[v]
        /\ s.gen \in Nat /\ s.job \in Jobs \cup {None}
    BY <1>1, <2>2, SessionAssumptions DEF WorkerStates
  <2>4. ASSUME NEW v \in Workers PROVE Claimed(v)'
    <3>1. CASE v = w
      BY <1>1, <1>2, <2>2, <2>3, <3>1, SessionAssumptions DEF Claimed
    <3>2. CASE v # w
      BY <1>1, <1>2, <2>3, <3>2 DEF Claimed
    <3> QED
      BY <3>1, <3>2
  <2>5. ASSUME NEW v \in Workers, v # w, s.job # None, wk[v].job = s.job PROVE wk[v].gen # s.gen
    BY <1>1, <1>2, <2>2, <2>3, <2>5 DEF Claimed, NoSharedClaim
  <2>6. NoSharedClaim'
    BY <1>1, <2>3, <2>5 DEF NoSharedClaim
  <2> QED
    BY <2>3, <2>4, <2>6
<1> QED
  BY <1>3, <1>4

-----------------------------------------------------------------------------
(* The inductive invariant *)

LEMMA InitIInv == Init => IInv
<1> SUFFICES ASSUME Init PROVE IInv
  OBVIOUS
<1>1. /\ Idle \in WorkerStates /\ Idle.pc = "idle" /\ Idle.job = None
      /\ 0 \in RowGens /\ 0 \in 0 .. MaxGen
  BY SessionAssumptions DEF WorkerStates, Idle, Pcs, RowGens
<1>2. TypeOK
  BY <1>1 DEF Init, TypeOK, Controls, Browsers, JobRows, Passes
<1>3. InputStaysWithOwner
  BY DEF Init, InputStaysWithOwner
<1>4. (\A w \in Workers : Claimed(w)) /\ NoSharedClaim
  BY <1>1 DEF Init, Claimed, NoSharedClaim
<1> QED
  BY <1>2, <1>3, <1>4 DEF IInv

(* What a step leaves of the row, the jobs, the requests and the workers. *)
LEMMA SessionsKeep ==
  ASSUME IInv, [Next]_vars
  PROVE  /\ JobsKept /\ row' \in Browsers /\ pass' \in Passes
         /\ wk' = wk \/ \E w \in Workers : Moves(w)
<1>1. TypeOK /\ \A w \in Workers : Claimed(w)
  BY DEF IInv
<1>2. job \in [Jobs -> JobRows] /\ row \in Browsers /\ pass \in Passes
  BY <1>1 DEF TypeOK
<1>3. CASE \E w \in Workers : Work(w) \/ Fail(w)
  BY <1>1, <1>2, <1>3, WorkKeeps, FailKeeps, WritesRow
<1>4. CASE \E o \in Operators : Operate(o)
  BY <1>1, <1>2, <1>4, OperateKeeps
<1>5. CASE \E j \in Jobs : LeaseExpires(j)
  <2>1. PICK j \in Jobs : LeaseExpires(j)
    BY <1>5
  <2>2. /\ job' = [job EXCEPT ![j] = [job[j] EXCEPT !.lease = "expired"]]
        /\ UNCHANGED <<row, wk, pass>>
    BY <2>1 DEF LeaseExpires
  <2>3. /\ [job[j] EXCEPT !.lease = "expired"] \in JobRows
        /\ [job[j] EXCEPT !.lease = "expired"].gen >= job[j].gen
    BY <1>2 DEF JobRows
  <2> QED
    BY <1>2, <2>2, <2>3, OneJobKept
<1>6. CASE Serve
  BY <1>1, <1>6, ServeKeeps
<1>7. CASE StopByCommand
  BY <1>1, <1>2, <1>7, StopKeeps DEF StopByCommand
<1>8. CASE LeaseLapses \/ FrameSent \/ ClearStopByCommand \/ UNCHANGED vars
  BY <1>2, <1>8, SameJobsKept DEF LeaseLapses, FrameSent, ClearStopByCommand, vars
<1> QED
  BY <1>3, <1>4, <1>5, <1>6, <1>7, <1>8 DEF Next

LEMMA NextIInv == IInv /\ [Next]_vars => IInv'
<1> SUFFICES ASSUME IInv, [Next]_vars PROVE IInv'
  OBVIOUS
<1>1. /\ JobsKept /\ row' \in Browsers /\ pass' \in Passes
      /\ wk' = wk \/ \E w \in Workers : Moves(w)
  BY SessionsKeep
<1>2. /\ ctl' \in Controls /\ relay' \in Operators \cup {None}
      /\ (ctl.owner = None <=> ctl.lease = "none")'
      /\ InputStaysWithOwner'
  BY LeaseKeeps
<1>3. /\ wk' \in [Workers -> WorkerStates]
      /\ \A w \in Workers : Claimed(w)'
      /\ NoSharedClaim'
  BY <1>1, ClaimsKeep
<1> QED
  BY <1>1, <1>2, <1>3 DEF IInv, TypeOK, JobsKept

LEMMA Invariance == Spec => []IInv
BY InitIInv, NextIInv, PTL DEF Spec

-----------------------------------------------------------------------------
(* The theorems *)

(* The row, the lease, the jobs, the workers and the requests keep their      *)
(* types: no generation outgrows its column, and a lease has an owner.        *)
THEOREM TypeCorrect == Spec => []TypeOK
<1>1. IInv => TypeOK
  BY DEF IInv
<1> QED
  BY <1>1, Invariance, PTL

(* What another worker writes is refused (set_runtime_browser_state) while    *)
(* the row speaks for a worker with a live claim.                             *)
LEMMA PublishRefused ==
  ASSUME IInv, NEW v \in Workers, NEW w \in Workers, v # w, Speaks(v), wk[w].pc # "idle",
         NEW active \in BOOLEAN, NEW waiting \in BOOLEAN
  PROVE  Published(active, waiting, wk[w].job, wk[w].gen) = row
<1>1. /\ row.job = wk[v].job /\ row.gen = wk[v].gen /\ wk[v].job # None
      /\ job[wk[v].job].gen = wk[v].gen
  BY DEF Speaks, Holds, Renewable
<1>2. Claimed(v) /\ Claimed(w) /\ NoSharedClaim
  BY DEF IInv
<1>3. wk[w].job # None
  BY <1>2 DEF Claimed
<1>4. CASE wk[w].job # wk[v].job
  BY <1>1, <1>4 DEF Published, Refuses
<1>5. CASE wk[w].job = wk[v].job
  <2>1. wk[w].gen # wk[v].gen
    BY <1>1, <1>2, <1>5 DEF NoSharedClaim
  <2>2. row.gen # 0
    BY <1>1, <1>2 DEF Claimed
  <2>3. Refuses(active, wk[w].job, wk[w].gen)
    BY <1>1, <1>5, <2>1, <2>2 DEF Refuses, ClaimIsCurrent
  <2> QED
    BY <2>3 DEF Published
<1> QED
  BY <1>4, <1>5

(* A worker moves only by a step of its thread, or dies. *)
LEMMA OwnMove ==
  ASSUME IInv, [Next]_vars, NEW w \in Workers, wk'[w].pc # wk[w].pc
  PROVE  Work(w) \/ Fail(w)
<1>1. wk' # wk
  OBVIOUS
<1>2. PICK u \in Workers : Work(u) \/ Fail(u)
  <2>1. ~\E o \in Operators : Operate(o)
    BY <1>1, OperateKeeps DEF IInv
  <2>2. ~Serve
    BY <1>1, ServeKeeps DEF IInv
  <2> QED
    BY <1>1, <2>1, <2>2 DEF Next, LeaseExpires, LeaseLapses, FrameSent, StopByCommand,
       ClearStopByCommand, vars
<1>3. Moves(u)
  BY <1>2, WorkKeeps, FailKeeps DEF IInv
<1>4. u = w
  BY <1>1, <1>3 DEF Moves, IInv, TypeOK
<1> QED
  BY <1>2, <1>4

(* No worker but its own changes the session of a row that speaks for a live  *)
(* claim, however slow or long replaced it is; only a daemon that shuts down   *)
(* does (mark_runtime_browser_shutdown).                                      *)
THEOREM LiveSessionsStay == Spec => LiveSessionIsNotOverwritten
<1>1. IInv /\ [Next]_vars =>
        [\A v, w \in Workers :
           v # w /\ Speaks(v) /\ wk'[w].pc # wk[w].pc /\ wk[w].daemon # "handed"
             => row'.active /\ row'.job = row.job /\ row'.gen = row.gen]_vars
  <2> SUFFICES ASSUME IInv, [Next]_vars, NEW v \in Workers, NEW w \in Workers, v # w, Speaks(v),
                      wk'[w].pc # wk[w].pc, wk[w].daemon # "handed"
               PROVE  row'.active /\ row'.job = row.job /\ row'.gen = row.gen
    OBVIOUS
  <2>1. TypeOK /\ Claimed(w) /\ row \in Browsers /\ row.active
    BY DEF IInv, TypeOK, Speaks
  <2>2. CASE row' = row
    BY <2>1, <2>2
  <2>3. CASE row' # row
    <3>1. wk[w].pc # "idle" /\ Writes(w)
      BY <2>1, <2>3, OwnMove, WorkKeeps, FailKeeps
    <3>2. row' = Consumed(row)
      BY <2>3, <3>1, PublishRefused DEF Writes, Publish
    <3> QED
      BY <2>1, <3>2 DEF Consumed, Browsers
  <2> QED
    BY <2>2, <2>3
<1> QED
  BY <1>1, Invariance, PTL DEF Spec, LiveSessionIsNotOverwritten

(* While an operator's frame is being sent, nobody else comes to hold the     *)
(* takeover.                                                                  *)
THEOREM InputStays == Spec => []InputStaysWithOwner
<1>1. IInv => InputStaysWithOwner
  BY DEF IInv
<1> QED
  BY <1>1, InitIInv, NextIInv, PTL DEF Spec

LEMMA StepRefines ==
  ASSUME IInv, [Next]_vars
  PROVE  [Promise!Next]_<<HolderMap, relay>>
<1>1. ctl' \in Controls /\ (Apart \/ Ends \/ Takes \/ Relays)
  BY StepKinds DEF IInv, TypeOK
<1>2. CASE Apart
  BY <1>2 DEF Apart, HolderMap, TakenOver
<1>3. CASE Ends
  BY <1>3 DEF Ends, HolderMap, Promise!Next, Promise!Lose
<1>4. CASE Takes
  <2>1. PICK o \in Operators : /\ relay = None /\ relay' = None
                               /\ TakenOver => ctl.owner = o
                               /\ ctl'.owner = o /\ ctl'.lease = "live"
    BY <1>4 DEF Takes
  <2>2. Promise!Take(o)
    BY <2>1 DEF Promise!Take, TakenOver
  <2> QED
    BY <2>2 DEF Promise!Next
<1>5. CASE Relays
  <2>1. CASE relay = None /\ relay' \in Operators /\ TakenOver /\ ctl.owner = relay'
    <3>1. Promise!Carry(relay')
      BY <1>5, <2>1 DEF Promise!Carry, Relays, TakenOver
    <3> QED
      BY <2>1, <3>1 DEF Promise!Next
  <2>2. CASE relay # None /\ relay' = None
    BY <1>5, <2>2 DEF Promise!Next, Promise!Arrive, Relays, TakenOver
  <2> QED
    BY <1>5, <2>1, <2>2 DEF Relays
<1> QED
  BY <1>1, <1>2, <1>3, <1>4, <1>5

(* The lease in the row and the lock of the relay implement Takeover. *)
THEOREM TakeoverImplemented == Spec => ImplementsTakeover
<1>1. Init => Promise!Init
  BY DEF Init, Promise!Init, TakenOver
<1>2. IInv /\ [Next]_vars => [Promise!Next]_<<HolderMap, relay>>
  BY StepRefines
<1>3. <<HolderMap, relay>> = <<IF TakenOver THEN ctl.owner ELSE None, relay>>
  BY DEF HolderMap
<1> QED
  BY <1>1, <1>2, <1>3, InitIInv, NextIInv, PTL DEF Spec, ImplementsTakeover, Promise!Spec, HolderMap

(* A request leaves pass only by being served or rejected. *)
LEMMA OnlyServingAnswers ==
  ASSUME [Next]_vars, pass \in Operators, pass' = "none"
  PROVE  Serve
<1>1. pass' # pass
  BY SessionAssumptions
<1>2. ~\E w \in Workers : Work(w) \/ Fail(w)
  BY <1>1 DEF Work, Fail, Claim, Open, AskForCode, TakeCode, NoCodeCame, EndAsking, Finish, Park,
     PauseRuntime, GiveUp, WaitAfterFailure, PauseForLogin, ParkAtLogin, LeaveReopened, Look, Sync, CheckJob, Leave, Close, HeartbeatLost, Crash, StopDaemon, Reconcile,
     MarkShutdown
<1>3. ~\E o \in Operators : Operate(o)
  BY <1>1 DEF Operate, ClaimTakeover, ReleaseTakeover, RelayFrame, Ask
<1>4. ~((\E j \in Jobs : LeaseExpires(j)) \/ LeaseLapses \/ FrameSent \/ StopByCommand
         \/ ClearStopByCommand \/ UNCHANGED vars)
  BY <1>1 DEF LeaseExpires, LeaseLapses, FrameSent, StopByCommand, ClearStopByCommand, vars
<1> QED
  BY <1>2, <1>3, <1>4 DEF Next

(* However late a request of the takeover's holder is served, it changes     *)
(* something only if that operator still holds it (takeover_owner_matches).  *)
THEOREM StalePowerless == Spec => StaleOwnerIsPowerless
<1>1. [Next]_vars =>
        [(pass \in Operators /\ pass' = "none" /\ <<ctl, row, job>>' # <<ctl, row, job>>)
           => StillHolds(pass)]_vars
  <2> SUFFICES ASSUME [Next]_vars, pass \in Operators, pass' = "none",
                      <<ctl, row, job>>' # <<ctl, row, job>>
               PROVE  StillHolds(pass)
    OBVIOUS
  <2>1. ~Rejected
    BY DEF Rejected
  <2>2. pass # None
    BY SessionAssumptions
  <2>3. Admitted
    BY <2>1, <2>2, OnlyServingAnswers DEF Serve, PauseAsked, StopAsked, ClearAsked, ReopenAsked,
       ResumeAsked, ResumeIdle, CodeAsked
  <2> QED
    BY <2>2, <2>3 DEF Admitted
<1> QED
  BY <1>1, PTL DEF Spec, StaleOwnerIsPowerless
=============================================================================
