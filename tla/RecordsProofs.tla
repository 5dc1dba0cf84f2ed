--------------------------- MODULE RecordsProofs ---------------------------
(***************************************************************************)
(* Theorems about Records, for every bound on the generations.             *)
(***************************************************************************)
EXTENDS Records, TLAPS

(* What one row of application_attempts holds. *)
Attempt == [gen : 1 .. MaxGen, intent : BOOLEAN, outcome : Outcomes]

(* There is room for the bump that ends a submission, and only for that one. *)
GenRoom == job.gen = MaxGen + 1 => job.state = "ambiguous" /\ ~job.held

WorkerHasGen == wk.pc # "idle" => wk.gen >= 1

-----------------------------------------------------------------------------
(* Attempts. *)

(* Each attempt keeps its generation and its intent, and none is opened again. *)
SameAttempts ==
    /\ att' \in Seq(Attempt) /\ Len(att') = Len(att)
    /\ \A k \in 1 .. Len(att) :
         /\ att'[k].gen = att[k].gen /\ att'[k].intent = att[k].intent
         /\ att'[k].outcome = "open" => att[k].outcome = "open"

LEMMA AttemptRow ==
    ASSUME NEW a \in Attempt, NEW o \in Outcomes
    PROVE  /\ [a EXCEPT !.outcome = o] \in Attempt
           /\ [a EXCEPT !.outcome = o].outcome = o
           /\ [a EXCEPT !.outcome = o].gen = a.gen
           /\ [a EXCEPT !.outcome = o].intent = a.intent
           /\ [a EXCEPT !.intent = TRUE] \in Attempt
           /\ [a EXCEPT !.intent = TRUE].outcome = a.outcome
           /\ [a EXCEPT !.intent = TRUE].gen = a.gen
  <1>1. [a EXCEPT !.outcome = o] \in Attempt /\ [a EXCEPT !.outcome = o].outcome = o
    BY DEF Attempt
  <1>2. [a EXCEPT !.outcome = o].gen = a.gen /\ [a EXCEPT !.outcome = o].intent = a.intent
    BY DEF Attempt
  <1>3. [a EXCEPT !.intent = TRUE] \in Attempt
    BY DEF Attempt
  <1>4. [a EXCEPT !.intent = TRUE].outcome = a.outcome /\ [a EXCEPT !.intent = TRUE].gen = a.gen
    BY DEF Attempt
  <1>. QED BY <1>1, <1>2, <1>3, <1>4

LEMMA KeptAttempts ==
    ASSUME att \in Seq(Attempt), att' = att PROVE SameAttempts
  BY DEF SameAttempts

LEMMA DecideKeeps ==
    ASSUME att \in Seq(Attempt), NEW i, NEW o \in Outcomes, o # "open", Decide(i, o)
    PROVE  /\ SameAttempts
           /\ i \in 1 .. Len(att) => att'[i].outcome = o
  <1>1. att' = [k \in 1 .. Len(att) |->
                  IF k = i THEN [att[k] EXCEPT !.outcome = o] ELSE att[k]]
    BY DEF Decide
  <1>2. \A k \in 1 .. Len(att) : att[k] \in Attempt
    OBVIOUS
  <1>3. ASSUME NEW k \in 1 .. Len(att)
        PROVE  LET a == IF k = i THEN [att[k] EXCEPT !.outcome = o] ELSE att[k]
               IN  /\ a \in Attempt /\ a.gen = att[k].gen /\ a.intent = att[k].intent
                   /\ k = i => a.outcome = o
                   /\ k # i => a.outcome = att[k].outcome
    <2>1. CASE k = i
      BY <1>2, <2>1, AttemptRow
    <2>2. CASE k # i
      BY <1>2, <2>2
    <2>. QED BY <2>1, <2>2
  <1>4. att' \in Seq(Attempt) /\ Len(att') = Len(att)
    BY <1>1, <1>3
  <1>5. \A k \in 1 .. Len(att) :
          /\ att'[k].gen = att[k].gen /\ att'[k].intent = att[k].intent
          /\ k = i => att'[k].outcome = o
          /\ k # i => att'[k].outcome = att[k].outcome
    BY <1>1, <1>3
  <1>. QED BY <1>4, <1>5 DEF SameAttempts

LEMMA AppendKeeps ==
    ASSUME att \in Seq(Attempt), wk.gen \in 1 .. MaxGen,
           att' = Append(att, [gen |-> wk.gen, intent |-> FALSE, outcome |-> "open"])
    PROVE  /\ att' \in Seq(Attempt) /\ Len(att') = Len(att) + 1
           /\ att'[Len(att) + 1].gen = wk.gen /\ ~att'[Len(att) + 1].intent
           /\ \A k \in 1 .. Len(att) : att'[k] = att[k]
  <1>1. [gen |-> wk.gen, intent |-> FALSE, outcome |-> "open"] \in Attempt
    BY DEF Attempt, Outcomes
  <1>. QED BY <1>1

LEMMA IntentKeeps ==
    ASSUME att \in Seq(Attempt), NEW i,
           att' = [k \in DOMAIN att |->
                     IF k = i THEN [att[k] EXCEPT !.intent = TRUE] ELSE att[k]]
    PROVE  /\ att' \in Seq(Attempt) /\ Len(att') = Len(att)
           /\ \A k \in 1 .. Len(att) :
                /\ att'[k].gen = att[k].gen /\ att'[k].outcome = att[k].outcome
                /\ k # i => att'[k].intent = att[k].intent
  <1>1. \A k \in 1 .. Len(att) : att[k] \in Attempt
    OBVIOUS
  <1>2. ASSUME NEW k \in 1 .. Len(att)
        PROVE  LET a == IF k = i THEN [att[k] EXCEPT !.intent = TRUE] ELSE att[k]
               IN  /\ a \in Attempt /\ a.gen = att[k].gen /\ a.outcome = att[k].outcome
                   /\ k # i => a.intent = att[k].intent
    <2>0. "open" \in Outcomes
      BY DEF Outcomes
    <2>1. CASE k = i
      BY <1>1, <2>0, <2>1, AttemptRow
    <2>2. CASE k # i
      BY <1>1, <2>2
    <2>. QED BY <2>1, <2>2
  <1>3. att' = [k \in 1 .. Len(att) |->
                  IF k = i THEN [att[k] EXCEPT !.intent = TRUE] ELSE att[k]]
    OBVIOUS
  <1>4. att' \in Seq(Attempt) /\ Len(att') = Len(att)
    <2>1. \A k \in 1 .. Len(att) :
            (IF k = i THEN [att[k] EXCEPT !.intent = TRUE] ELSE att[k]) \in Attempt
      BY <1>2
    <2>2. Len(att) \in Nat
      OBVIOUS
    <2>. QED BY <1>3, <2>1, <2>2
  <1>5. \A k \in 1 .. Len(att) :
          /\ att'[k].gen = att[k].gen /\ att'[k].outcome = att[k].outcome
          /\ k # i => att'[k].intent = att[k].intent
    BY <1>2, <1>3
  <1>. QED BY <1>4, <1>5

-----------------------------------------------------------------------------
(* Types. *)

JobRow == [state : JobStates, gen : 0 .. MaxGen + 1,
           held : BOOLEAN, live : BOOLEAN, off : BOOLEAN]

Worker == [pc : Pcs, gen : 0 .. MaxGen, att : Nat, out : Outcomes, mine : BOOLEAN]

Request == [pc : ResumePcs, gen : 0 .. MaxGen + 1, att : Nat, mine : BOOLEAN]

Keys == {"attempt_started", "submit_intent_persisted", "projection_repair"}

(* The tables other than att. *)
Typed ==
    /\ app \in Statuses /\ pack \in {"queue", "applied", "gone"} /\ row \in JobStates
    /\ job \in JobRow /\ wk \in Worker /\ res \in Request
    /\ log \subseteq Keys
    /\ {told, silent, stamped, recent, cut, beside} \subseteq BOOLEAN

AttTyped ==
    /\ att \in Seq(Attempt)
    /\ wk.mine => wk.att <= Len(att)
    /\ res.mine => res.att <= Len(att)

TypeInv == Typed /\ AttTyped /\ GenRoom /\ WorkerHasGen

(* The rows after the updates that the actions make. *)
LEMMA JobMoved ==
    ASSUME NEW j \in JobRow, NEW s \in JobStates, NEW k, k = [j EXCEPT !.state = s]
    PROVE  k \in JobRow /\ k.state = s /\ k.gen = j.gen /\ k.held = j.held /\ k.live = j.live
  BY DEF JobRow

LEMMA JobLapsed ==
    ASSUME NEW j \in JobRow, NEW k, k = [j EXCEPT !.live = FALSE]
    PROVE  k \in JobRow /\ k.state = j.state /\ k.gen = j.gen /\ k.held = j.held
  BY DEF JobRow

LEMMA JobIsNew ==
    /\ NoJob \in JobRow /\ NoJob.state = "absent" /\ NoJob.gen = 0
    /\ \A k : k = [NoJob EXCEPT !.state = "ready"] =>
         k \in JobRow /\ k.state = "ready" /\ k.gen = 0
  <1>1. NoJob \in JobRow /\ NoJob.state = "absent" /\ NoJob.gen = 0
    BY MaxGenAssumption DEF NoJob, JobRow, JobStates
  <1>2. "ready" \in JobStates
    BY DEF JobStates
  <1>. QED BY <1>1, <1>2, JobMoved

LEMMA WorkerReplaced ==
    ASSUME NEW w \in Worker, NEW v, v = [w EXCEPT !.mine = FALSE]
    PROVE  /\ v \in Worker /\ v.pc = w.pc /\ v.att = w.att /\ v.out = w.out
           /\ v.gen = w.gen /\ v.mine = FALSE
  BY DEF Worker

LEMMA ResumeReplaced ==
    ASSUME NEW r \in Request, NEW q, q = [r EXCEPT !.mine = FALSE]
    PROVE  q \in Request /\ q.mine = FALSE
  BY DEF Request

LEMMA ResumeLeaves ==
    NoResume \in Request /\ NoResume.pc = "none" /\ NoResume.mine = FALSE
  BY MaxGenAssumption DEF Request, NoResume, ResumePcs

LEMMA WorkerLeaves ==
    Idle \in Worker /\ Idle.pc = "idle" /\ Idle.mine = FALSE /\ Idle.att = 0
  BY MaxGenAssumption DEF Worker, Idle, Pcs, Outcomes

-----------------------------------------------------------------------------
(* The invariant. *)

(* A submission within the interval left its timestamp, or is about to. *)
Paced ==
    recent => stamped \/ (wk.out = "applied" /\ wk.pc \in {"completing", "stamping"})

(* Nor has one been recorded since the worker passed the checks. *)
ClearedIsPaced == wk.pc = "cleared" => ~recent

(* Of a worker that has its job: the newest attempt is the one it made. *)
NewestIsItsOwn ==
    wk.mine /\ wk.pc \notin {"idle", "claimed", "noting"} =>
        wk.att = Len(att) /\ Len(att) >= 1 /\ att[Len(att)].gen = wk.gen

Decided == {"applied", "failed_permanent"}

(* Only the holder of a job decides it, or a resume in its name, *)
DecidedIsHeld == job.state \in Decided => job.held

(* and as long as the worker is there the holder is the worker. *)
HeldByItsWorker == wk.mine /\ job.held => job.gen = wk.gen

(* The worker beside an applied job is the one that applied, unless a resume came before it. *)
AppliedByItsWorker ==
    job.state = "applied" /\ wk.mine /\ ~beside =>
        /\ wk.pc \in {"completing", "stamping", "marking", "noting"}
        /\ wk.pc = "completing" => wk.out = "applied"

(* The worker beside a submission in flight is at the click. *)
SubmittedByItsWorker == job.state = "submitting" /\ wk.mine => wk.pc \in {"intent", "judged"}

HasOutcome == wk.pc = "completing" => wk.out # "open"

Early == {"claimed", "created", "started", "cleared", "failing", "filled", "leaving"}

Unanswered(i) == att[i].intent /\ att[i].outcome = "open"

(* While the worker has not come to the intent no attempt of its job waits for an outcome,
   whatever a resume made of the job beside it. *)
NoIntentYet ==
    wk.mine /\ (wk.pc \in Early \/ (wk.pc = "completing" /\ wk.out \notin Decided)) =>
        \A i \in 1 .. Len(att) : ~Unanswered(i)

(* A later attempt is made only when nothing is known to be missing from the earlier ones. *)
IntentIsNewest ==
    \A i \in 1 .. Len(att) : Unanswered(i) => i = Len(att)

WorkerFacts ==
    /\ Paced /\ ClearedIsPaced /\ NewestIsItsOwn /\ DecidedIsHeld /\ HeldByItsWorker
    /\ AppliedByItsWorker /\ SubmittedByItsWorker /\ HasOutcome /\ NoIntentYet

Facts == WorkerFacts /\ IntentIsNewest /\ IntentIsAccounted /\ AppliedIsRecorded

IInv == TypeInv /\ StatusRowFollowsTheJob /\ Facts

(* What the operators shared by several actions do. *)
LEMMA MoveEffect ==
    ASSUME TypeInv, NEW s \in JobStates, Move(s)
    PROVE  /\ Owns /\ job.live /\ ~job.off
           /\ job' \in JobRow /\ job'.state = s /\ job'.gen = job.gen /\ job'.held = job.held
           /\ row' = s /\ app' \in Statuses /\ pack' = pack /\ told' = told /\ stamped' = stamped
           /\ silent' = FALSE
  <1>1. job' \in JobRow /\ job'.state = s /\ job'.gen = job.gen /\ job'.held = job.held
    BY JobMoved DEF Move, TypeInv, Typed
  <1>. QED BY <1>1 DEF Move, Live, TypeInv, Typed, Statuses

LEMMA ProjectedEffect ==
    ASSUME TypeInv, NEW s, Projected("", s)
    PROVE  row' = s /\ log' = log /\ silent' = FALSE
  BY DEF Projected, TypeInv, Typed, Keys

(* An event projects the state its job is in. *)
LEMMA ProjectedFollows ==
    ASSUME TypeInv, StatusRowFollowsTheJob, job' = job, NEW k, Projected(k, job.state)
    PROVE  StatusRowFollowsTheJob' /\ row' \in JobStates /\ silent' \in BOOLEAN
  BY DEF Projected, TypeInv, Typed, JobRow, StatusRowFollowsTheJob

LEMMA DoubtEffect ==
    ASSUME TypeInv, job.gen < MaxGen + 1, NEW i, NEW t \in BOOLEAN, Doubt(i, t)
    PROVE  /\ job' \in JobRow /\ job'.state = "ambiguous" /\ ~job'.held
           /\ row' = "ambiguous" /\ log' = log /\ silent' = FALSE
           /\ SameAttempts
           /\ i \in 1 .. Len(att) => att'[i].outcome = "ambiguous"
           /\ app' = "ambiguous" /\ told' \in BOOLEAN /\ pack' = pack /\ stamped' = stamped
  <1>0. job \in JobRow /\ job.gen + 1 \in 0 .. MaxGen + 1
    BY MaxGenAssumption DEF TypeInv, Typed, JobRow
  <1>1. job' \in JobRow /\ job'.state = "ambiguous" /\ ~job'.held
    <2>1. job' = [job EXCEPT !.state = "ambiguous", !.gen = job.gen + 1,
                             !.held = FALSE, !.live = FALSE]
      BY DEF Doubt
    <2>2. "ambiguous" \in JobStates
      BY DEF JobStates
    <2>. QED BY <1>0, <2>1, <2>2 DEF JobRow
  <1>2. SameAttempts /\ (i \in 1 .. Len(att) => att'[i].outcome = "ambiguous")
    <2>1. "ambiguous" \in Outcomes /\ att \in Seq(Attempt)
      BY DEF Outcomes, TypeInv, AttTyped
    <2>. QED BY <2>1, DecideKeeps DEF Doubt
  <1>3. row' = "ambiguous" /\ log' = log /\ silent' = FALSE
    BY ProjectedEffect DEF Doubt, DoubtKey
  <1>. QED BY <1>1, <1>2, <1>3 DEF Doubt, TypeInv, Typed

(* No attempt waits for an outcome that did not wait before. *)
LEMMA SameUnanswered ==
    ASSUME att \in Seq(Attempt), SameAttempts
    PROVE  /\ att' \in Seq(Attempt) /\ Len(att') = Len(att) /\ DOMAIN att' = DOMAIN att
           /\ \A i \in 1 .. Len(att) :
                Unanswered(i)' => Unanswered(i) /\ att'[i].gen = att[i].gen
  BY DEF SameAttempts, Unanswered

-----------------------------------------------------------------------------
(* Every step keeps the invariant: first the steps that leave the job and its attempts alone. *)

Aside ==
    /\ UNCHANGED <<job, att, row, log, silent, stamped, wk, rest>>
    /\ app' \in Statuses /\ pack' \in {"queue", "applied", "gone"} /\ told' \in BOOLEAN

LEMMA AsideKeepsIInv ==
    ASSUME IInv, Aside PROVE IInv'
  <1>1. Typed' /\ AttTyped' /\ GenRoom' /\ WorkerHasGen' /\ StatusRowFollowsTheJob'
    BY DEF Aside, rest, history, IInv, TypeInv, Typed, AttTyped, GenRoom, WorkerHasGen,
       StatusRowFollowsTheJob
  <1>2. WorkerFacts'
    BY DEF Aside, rest, history, IInv, Facts, WorkerFacts, Paced, ClearedIsPaced, NewestIsItsOwn,
       DecidedIsHeld, HeldByItsWorker, AppliedByItsWorker, SubmittedByItsWorker, HasOutcome,
       NoIntentYet, Unanswered
  <1>3. IntentIsNewest' /\ IntentIsAccounted' /\ AppliedIsRecorded'
    BY DEF Aside, rest, history, IInv, Facts, IntentIsNewest, IntentIsAccounted,
       AppliedIsRecorded, Owed, Unanswered
  <1>. QED BY <1>1, <1>2, <1>3 DEF IInv, TypeInv, Facts

(* A worker goes to p with outcome o. *)
Walks(p, o) ==
    /\ \/ wk' = [wk EXCEPT !.pc = p] /\ o = wk.out
       \/ wk' = [wk EXCEPT !.pc = p, !.out = o]
    /\ wk.pc \notin {"idle", "completing"}
    /\ UNCHANGED <<job, att, rest>>
    /\ StatusRowFollowsTheJob' /\ row' \in JobStates /\ silent' \in BOOLEAN /\ log' \subseteq Keys
    /\ app' \in Statuses /\ pack' = pack /\ told' = told /\ stamped' \in BOOLEAN
    /\ stamped => stamped'

LEMMA WalkKeepsIInv ==
    ASSUME IInv, NEW p \in Pcs \ {"idle", "claimed", "completing"}, NEW o \in Outcomes,
           Walks(p, o),
           wk.pc \in {"claimed", "noting"} => p = "noting",
           wk.pc \in {"stamping", "marking", "noting"} => p \in {"stamping", "marking", "noting"},
           wk.pc \in {"intent", "judged"} => p = "judged",
           p \in Early => wk.pc \in Early,
           p = "cleared" => ~recent,
           recent => stamped' \/ (o = "applied" /\ p = "stamping")
    PROVE  IInv'
  <1>1. wk \in Worker /\ job \in JobRow
    BY DEF IInv, TypeInv, Typed
  <1>2. /\ wk' \in Worker /\ wk'.pc = p /\ wk'.out = o
        /\ wk'.gen = wk.gen /\ wk'.att = wk.att /\ wk'.mine = wk.mine
    <2>1. CASE wk' = [wk EXCEPT !.pc = p] /\ o = wk.out
      BY <1>1, <2>1 DEF Worker
    <2>2. CASE wk' = [wk EXCEPT !.pc = p, !.out = o]
      BY <1>1, <2>2 DEF Worker
    <2>. QED BY <2>1, <2>2 DEF Walks
  <1>3. UNCHANGED <<job, att, res, recent, cut, beside>>
    BY DEF Walks, rest, history
  <1>4. Typed'
    BY <1>1, <1>2, <1>3 DEF Walks, IInv, TypeInv, Typed
  <1>5. (AttTyped /\ GenRoom /\ WorkerHasGen)'
    BY <1>2, <1>3 DEF Walks, IInv, TypeInv, AttTyped, GenRoom, WorkerHasGen
  <1>6. StatusRowFollowsTheJob'
    BY DEF Walks
  <1>7. Paced' /\ ClearedIsPaced' /\ NewestIsItsOwn' /\ DecidedIsHeld' /\ HeldByItsWorker'
    BY <1>2, <1>3 DEF Walks, IInv, Facts, WorkerFacts, Paced, ClearedIsPaced, NewestIsItsOwn,
       DecidedIsHeld, HeldByItsWorker
  <1>8. AppliedByItsWorker' /\ SubmittedByItsWorker' /\ HasOutcome'
    BY <1>2, <1>3 DEF Walks, IInv, Facts, WorkerFacts, AppliedByItsWorker, SubmittedByItsWorker,
       HasOutcome
  <1>9. NoIntentYet'
    BY <1>2, <1>3 DEF IInv, Facts, WorkerFacts, NoIntentYet, Unanswered
  <1>10. \A i : Owed(i)' <=> Owed(i)
    BY <1>2, <1>3 DEF Walks, Owed
  <1>11. AppliedIsRecorded'
    BY <1>3, <1>10 DEF IInv, Facts, AppliedIsRecorded
  <1>12. IntentIsNewest' /\ IntentIsAccounted'
    BY <1>3, <1>10 DEF IInv, Facts, IntentIsNewest, IntentIsAccounted, Unanswered
  <1>. QED BY <1>4, <1>5, <1>6, <1>7, <1>8, <1>9, <1>11, <1>12
       DEF IInv, TypeInv, Facts, WorkerFacts

(* The worker is idle again; nothing it had to record for a decided job is left out, unless it
   is told so by cut. *)
Leaves ==
    /\ Leave
    /\ UNCHANGED <<job, stamped, res, beside>>
    /\ StatusRowFollowsTheJob' /\ row' \in JobStates /\ silent' \in BOOLEAN /\ log' \subseteq Keys
    /\ SameAttempts
    /\ app' \in Statuses /\ pack' = pack /\ told' = told
    /\ cut' \in BOOLEAN /\ recent' \in BOOLEAN
    /\ recent' => recent

LEMMA LeaveKeepsIInv ==
    ASSUME IInv, Leaves,
           recent' => ~(wk.out = "applied" /\ wk.pc \in {"completing", "stamping"}),
           job.state = "applied" /\ ~beside => att' = att,
           cut => cut',
           /\ job.state \in Decided /\ wk.mine /\ wk.pc = "completing" /\ wk.out \in Decided
             => cut'
    PROVE  IInv'
  <1>1. wk' = Idle /\ Idle \in Worker /\ Idle.pc = "idle" /\ Idle.mine = FALSE
    BY WorkerLeaves DEF Leaves, Leave
  <1>2. /\ att \in Seq(Attempt) /\ att' \in Seq(Attempt) /\ Len(att') = Len(att)
        /\ DOMAIN att = 1 .. Len(att) /\ DOMAIN att' = 1 .. Len(att)
        /\ \A i \in 1 .. Len(att) : Unanswered(i)' => Unanswered(i) /\ att'[i].gen = att[i].gen
    BY SameUnanswered DEF Leaves, IInv, TypeInv, AttTyped
  <1>3. Typed'
    BY <1>1 DEF Leaves, IInv, TypeInv, Typed, JobRow
  <1>4. (AttTyped /\ GenRoom /\ WorkerHasGen)'
    BY <1>1, <1>2 DEF Leaves, IInv, TypeInv, AttTyped, GenRoom, WorkerHasGen
  <1>5. StatusRowFollowsTheJob'
    BY DEF Leaves
  <1>6. WorkerFacts'
    BY <1>1 DEF Leaves, IInv, Facts, WorkerFacts, Paced, ClearedIsPaced, NewestIsItsOwn,
       DecidedIsHeld, HeldByItsWorker, AppliedByItsWorker, SubmittedByItsWorker, HasOutcome,
       NoIntentYet
  <1>7. AppliedIsRecorded'
    <2>1. SUFFICES ASSUME job.state = "applied", ~cut', ~beside
                   PROVE  att # <<>> /\ (Last(att).outcome = "applied" \/ Owed(Len(att))')
      BY <1>2 DEF Leaves, AppliedIsRecorded
    <2>2. att # <<>> /\ (Last(att).outcome = "applied" \/ Owed(Len(att)))
      BY <2>1 DEF Leaves, IInv, Facts, AppliedIsRecorded
    <2>3. wk.mine /\ wk.pc = "completing" => wk.out \in Decided
      BY <2>1 DEF IInv, Facts, WorkerFacts, AppliedByItsWorker, Decided
    <2>. QED BY <1>1, <2>1, <2>2, <2>3 DEF Leaves, Owed, Decided
  <1>8. IntentIsNewest'
    BY <1>2 DEF IInv, Facts, IntentIsNewest
  <1>9. IntentIsAccounted'
    <2>1. SUFFICES ASSUME NEW i \in 1 .. Len(att), Unanswered(i), att'[i].gen = att[i].gen
                   PROVE  \/ job.state = "submitting" /\ job.gen = att[i].gen
                          \/ job.state \in Decided /\ (cut' \/ Owed(i)')
      BY <1>2 DEF Leaves, IntentIsAccounted, Unanswered, Decided
    <2>2. \/ job.state = "submitting" /\ job.gen = att[i].gen
          \/ job.state \in Decided /\ (cut \/ Owed(i))
      BY <1>2, <2>1 DEF IInv, Facts, IntentIsAccounted, Unanswered, Decided
    <2>3. wk.mine /\ wk.pc = "completing" => wk.out \in Decided
      BY <2>1 DEF IInv, Facts, WorkerFacts, NoIntentYet
    <2>. QED BY <2>2, <2>3 DEF Leaves, Owed
  <1>. QED BY <1>3, <1>4, <1>5, <1>6, <1>7, <1>8, <1>9 DEF IInv, TypeInv, Facts

(* The job is put into state s while the worker stays where it is.  Only a resume that approves a
   job comes with it. *)
Turns(s) ==
    /\ job' \in JobRow /\ job'.state = s /\ GenRoom' /\ StatusRowFollowsTheJob'
    /\ job'.held => job.held /\ job'.gen = job.gen
    /\ SameAttempts
    /\ \/ s = job.state /\ job'.gen = job.gen /\ job'.held = job.held
       \/ s \notin Decided \union {"submitting"}
    /\ \/ res' = res
       \/ res.pc = "none" /\ res' \in Request /\ res'.pc = "approved" /\ res'.att = 0
    /\ UNCHANGED <<stamped, wk, history>>
    /\ row' \in JobStates /\ silent' \in BOOLEAN /\ log' \subseteq Keys
    /\ app' \in Statuses /\ pack' = pack /\ told' \in BOOLEAN

LEMMA TurnKeepsIInv ==
    ASSUME IInv, NEW s \in JobStates, Turns(s),
           s = "applied" => att' = att,
           \/ s = job.state /\ job'.gen = job.gen
           \/ job.state \notin Decided \union {"submitting"}
           \/ Len(att) >= 1 => att'[Len(att)].outcome # "open"
    PROVE  IInv'
  <1>1. /\ att \in Seq(Attempt) /\ att' \in Seq(Attempt) /\ Len(att') = Len(att)
        /\ DOMAIN att = 1 .. Len(att) /\ DOMAIN att' = 1 .. Len(att)
        /\ \A i \in 1 .. Len(att) : Unanswered(i)' => Unanswered(i) /\ att'[i].gen = att[i].gen
    BY SameUnanswered DEF Turns, IInv, TypeInv, AttTyped
  <1>2. Typed' /\ AttTyped' /\ WorkerHasGen'
    BY <1>1 DEF Turns, history, IInv, TypeInv, Typed, AttTyped, WorkerHasGen
  <1>3. Paced' /\ ClearedIsPaced' /\ HasOutcome' /\ NewestIsItsOwn' /\ DecidedIsHeld'
        /\ HeldByItsWorker'
    BY <1>1 DEF Turns, SameAttempts, history, IInv, Facts, WorkerFacts, Paced, ClearedIsPaced,
       HasOutcome, NewestIsItsOwn, DecidedIsHeld, HeldByItsWorker, Decided
  <1>4. AppliedByItsWorker' /\ SubmittedByItsWorker'
    BY DEF Turns, history, IInv, Facts, WorkerFacts, AppliedByItsWorker, SubmittedByItsWorker,
       Decided
  <1>5. NoIntentYet' /\ IntentIsNewest'
    BY <1>1 DEF Turns, IInv, Facts, WorkerFacts, NoIntentYet, IntentIsNewest
  <1>6. \A i : Owed(i)' <=> Owed(i)
    BY DEF Turns, Owed
  <1>7. AppliedIsRecorded'
    BY <1>6 DEF Turns, history, IInv, Facts, AppliedIsRecorded, Decided
  <1>8. IntentIsAccounted'
    <2>1. SUFFICES ASSUME NEW i \in 1 .. Len(att), Unanswered(i), Unanswered(i)',
                          att'[i].gen = att[i].gen
                   PROVE  \/ s = "submitting" /\ job'.gen = att[i].gen
                          \/ s \in Decided /\ (cut \/ Owed(i))
      BY <1>1, <1>6 DEF Turns, history, IntentIsAccounted, Unanswered, Decided
    <2>2. i = Len(att) /\ Len(att) >= 1
      <3>1. i = Len(att)
        BY <2>1 DEF IInv, Facts, IntentIsNewest
      <3>. QED BY <2>1, <3>1
    <2>3. \/ job.state = "submitting" /\ job.gen = att[i].gen
          \/ job.state \in Decided /\ (cut \/ Owed(i))
      BY <1>1, <2>1 DEF IInv, Facts, IntentIsAccounted, Unanswered, Decided
    <2>. QED BY <2>1, <2>2, <2>3 DEF Unanswered
  <1>. QED BY <1>2, <1>3, <1>4, <1>5, <1>7, <1>8 DEF Turns, IInv, TypeInv, Facts, WorkerFacts

(* A worker that owns the job puts it into state s and goes to p with outcome o, or leaves. *)
Pushes(s, p, o) ==
    /\ Owns
    /\ job' \in JobRow /\ job'.state = s /\ job'.gen = job.gen /\ job'.held = job.held
    /\ row' = s /\ silent' \in BOOLEAN /\ log' \subseteq Keys
    /\ \/ wk' = Idle /\ p = "idle"
       \/ p # "idle" /\ wk' = [wk EXCEPT !.pc = p] /\ o = wk.out
       \/ p # "idle" /\ wk' = [wk EXCEPT !.pc = p, !.out = o]
    /\ wk.pc \in {"claimed", "started", "failing", "filled", "judged"}
    /\ UNCHANGED <<att, stamped, res, cut>>
    /\ app' \in Statuses /\ pack' = pack /\ told' \in BOOLEAN

LEMMA PushKeepsIInv ==
    ASSUME IInv, NEW s \in JobStates, NEW p \in {"idle", "noting", "completing", "leaving"},
           NEW o \in Outcomes, Pushes(s, p, o),
           s # "submitting",
           wk.pc = "claimed" => p \in {"idle", "noting"},
           wk.pc = "judged" => s \in Decided /\ p = "completing" /\ o = s,
           p = "completing" => o # "open",
           \/ recent' = recent /\ beside' = beside /\ s # "applied"
           \/ recent' \in BOOLEAN /\ beside' \in BOOLEAN /\ s = "applied" /\ wk.pc = "judged"
    PROVE  IInv'
  <1>1. wk \in Worker /\ job \in JobRow /\ p \in Pcs
    BY DEF IInv, TypeInv, Typed, Pcs
  <1>2. /\ wk' \in Worker /\ wk'.pc = p
        /\ p = "idle" \/ (/\ wk'.gen = wk.gen /\ wk'.att = wk.att /\ wk'.mine = wk.mine
                          /\ wk'.out = o)
        /\ p = "idle" => ~wk'.mine
    <2>1. CASE wk' = Idle /\ p = "idle"
      BY <2>1, WorkerLeaves
    <2>2. CASE p # "idle" /\ wk' = [wk EXCEPT !.pc = p] /\ o = wk.out
      BY <1>1, <2>2 DEF Worker
    <2>3. CASE p # "idle" /\ wk' = [wk EXCEPT !.pc = p, !.out = o]
      BY <1>1, <2>3 DEF Worker
    <2>. QED BY <2>1, <2>2, <2>3 DEF Pushes
  <1>3. Typed' /\ AttTyped'
    BY <1>2 DEF Pushes, IInv, TypeInv, Typed, AttTyped
  <1>4. GenRoom' /\ WorkerHasGen'
    <2>1. job'.gen = wk.gen /\ wk.gen \in 0 .. MaxGen
      BY <1>1 DEF Pushes, Owns, Worker
    <2>2. job'.gen # MaxGen + 1
      BY <2>1, MaxGenAssumption
    <2>. QED BY <1>2, <2>2 DEF Pushes, IInv, TypeInv, GenRoom, WorkerHasGen
  <1>5. StatusRowFollowsTheJob'
    BY DEF Pushes, StatusRowFollowsTheJob
  <1>6. Paced' /\ ClearedIsPaced' /\ NewestIsItsOwn' /\ HasOutcome'
    BY <1>2 DEF Pushes, IInv, Facts, WorkerFacts, Paced, ClearedIsPaced, NewestIsItsOwn, HasOutcome
  <1>7. DecidedIsHeld' /\ HeldByItsWorker' /\ AppliedByItsWorker' /\ SubmittedByItsWorker'
    <2>1. job'.held /\ job'.gen = wk.gen
      BY DEF Pushes, Owns
    <2>2. DecidedIsHeld' /\ HeldByItsWorker'
      BY <1>2, <2>1 DEF DecidedIsHeld, HeldByItsWorker
    <2>3. AppliedByItsWorker' /\ SubmittedByItsWorker'
      BY <1>2 DEF Pushes, AppliedByItsWorker, SubmittedByItsWorker, Decided
    <2>. QED BY <2>2, <2>3
  <1>8. ASSUME wk.pc # "judged" PROVE \A i \in 1 .. Len(att) : ~Unanswered(i)
    BY <1>8 DEF Pushes, Owns, Early, IInv, Facts, WorkerFacts, NoIntentYet
  <1>9. \A i \in 1 .. Len(att) : Unanswered(i)' <=> Unanswered(i)
    BY DEF Pushes, Unanswered
  <1>10. NoIntentYet' /\ IntentIsNewest'
    BY <1>2, <1>8, <1>9 DEF Pushes, Early, IInv, Facts, NoIntentYet, IntentIsNewest
  <1>11. wk.pc = "judged" => wk.att = Len(att) /\ Len(att) >= 1 /\ att # <<>> /\ wk.mine
    BY DEF Pushes, Owns, IInv, Facts, WorkerFacts, NewestIsItsOwn
  <1>12. AppliedIsRecorded'
    BY <1>2, <1>11 DEF Pushes, AppliedIsRecorded, Owed, Decided
  <1>13. IntentIsAccounted'
    <2>1. SUFFICES ASSUME NEW i \in 1 .. Len(att), Unanswered(i)
                   PROVE  s \in Decided /\ wk'.mine /\ wk'.pc = "completing" /\ wk'.att = i
      <3>1. DOMAIN att = 1 .. Len(att)
        BY DEF IInv, TypeInv, AttTyped
      <3>. QED BY <3>1 DEF IntentIsAccounted, Pushes, Decided, Owed, Unanswered
    <2>2. wk.pc = "judged" /\ i = Len(att)
      BY <1>8, <2>1 DEF IInv, Facts, IntentIsNewest
    <2>. QED BY <1>2, <1>11, <2>2
  <1>. QED BY <1>3, <1>4, <1>5, <1>6, <1>7, <1>10, <1>12, <1>13
       DEF IInv, TypeInv, Facts, WorkerFacts

(* A resume goes on while the job, its attempts and the worker stay as they are. *)
ResumeOwes == res.mine /\ (res.pc = "moved" \/ (res.pc = "found" /\ res.att = Len(att)))

ResumeWalks ==
    /\ UNCHANGED <<job, att, wk, recent, beside>>
    /\ res' \in Request /\ (res'.mine => res'.att <= Len(att))
    /\ StatusRowFollowsTheJob' /\ row' \in JobStates /\ silent' \in BOOLEAN /\ log' = log
    /\ app' \in Statuses /\ pack' = pack /\ told' = told /\ stamped' \in BOOLEAN
    /\ stamped => stamped'
    /\ cut' \in BOOLEAN /\ (cut => cut')
    /\ ResumeOwes => ResumeOwes' \/ cut'

LEMMA ResumeWalkKeepsIInv ==
    ASSUME IInv, ResumeWalks PROVE IInv'
  <1>1. Typed' /\ AttTyped' /\ GenRoom' /\ WorkerHasGen' /\ StatusRowFollowsTheJob'
    BY DEF ResumeWalks, IInv, TypeInv, Typed, AttTyped, GenRoom, WorkerHasGen
  <1>2. WorkerFacts'
    BY DEF ResumeWalks, IInv, Facts, WorkerFacts, Paced, ClearedIsPaced, NewestIsItsOwn,
       DecidedIsHeld, HeldByItsWorker, AppliedByItsWorker, SubmittedByItsWorker, HasOutcome,
       NoIntentYet, Unanswered
  <1>3. Owed(Len(att)) => Owed(Len(att))' \/ cut'
    BY DEF ResumeWalks, ResumeOwes, Owed
  <1>4. IntentIsNewest'
    BY DEF ResumeWalks, IInv, Facts, IntentIsNewest, Unanswered
  <1>5. AppliedIsRecorded'
    BY <1>3 DEF ResumeWalks, IInv, Facts, AppliedIsRecorded
  <1>6. IntentIsAccounted'
    <2>1. DOMAIN att = 1 .. Len(att)
      BY DEF IInv, TypeInv, AttTyped
    <2>2. \A i \in DOMAIN att : att[i].intent /\ att[i].outcome = "open" => i = Len(att)
      BY <2>1 DEF IInv, Facts, IntentIsNewest, Unanswered
    <2>. QED BY <1>3, <2>2 DEF ResumeWalks, IInv, Facts, IntentIsAccounted
  <1>. QED BY <1>1, <1>2, <1>4, <1>5, <1>6 DEF IInv, TypeInv, Facts

-----------------------------------------------------------------------------
(* The steps of the worker. *)

LEMMA ReadIInv ==
    ASSUME IInv
    PROVE  /\ TypeInv /\ Typed /\ AttTyped /\ job \in JobRow /\ wk \in Worker /\ res \in Request
           /\ job.state \in JobStates /\ row \in JobStates /\ app \in Statuses
           /\ wk.pc \in Pcs /\ wk.out \in Outcomes
           /\ {told, silent, stamped, recent, cut, beside} \subseteq BOOLEAN
           /\ log \subseteq Keys /\ pack \in {"queue", "applied", "gone"}
           /\ att \in Seq(Attempt) /\ StatusRowFollowsTheJob
  BY DEF IInv, TypeInv, Typed, AttTyped, JobRow, Worker

LEMMA RowStays ==
    ASSUME IInv, UNCHANGED <<job, row, silent>>
    PROVE  StatusRowFollowsTheJob' /\ row' \in JobStates /\ silent' \in BOOLEAN
  BY ReadIInv DEF StatusRowFollowsTheJob

LEMMA LeaveAtOnce ==
    ASSUME IInv, Leave, UNCHANGED <<tables, rest>>, wk.pc \notin {"completing", "stamping"}
    PROVE  IInv'
  <1>1. StatusRowFollowsTheJob' /\ row' \in JobStates /\ silent' \in BOOLEAN
    BY RowStays DEF tables
  <1>2. Leaves
    BY <1>1, ReadIInv, KeptAttempts DEF Leaves, tables, rest, history
  <1>. QED BY <1>2, LeaveKeepsIInv, ReadIInv DEF tables, rest, history

LEMMA ClaimStep ==
    ASSUME IInv, Claim PROVE IInv'
  <1>0. job \in JobRow /\ wk \in Worker /\ "claimed" \in JobStates /\ "claimed" \in Pcs
    BY ReadIInv DEF JobStates, Pcs
  <1>1. job.gen \in 0 .. MaxGen + 1 /\ job.gen < MaxGen
    BY <1>0 DEF JobRow, Claim
  <1>2. job.gen + 1 \in 1 .. MaxGen /\ job.gen + 1 \in 0 .. MaxGen + 1 /\ job.gen + 1 # MaxGen + 1
    BY <1>1, MaxGenAssumption
  <1>3. job' = [job EXCEPT !.state = "claimed", !.gen = job.gen + 1, !.held = TRUE, !.live = TRUE]
    BY DEF Claim
  <1>4. job' \in JobRow /\ job'.state = "claimed" /\ job'.gen = job.gen + 1
    BY <1>0, <1>2, <1>3 DEF JobRow
  <1>5. /\ wk' \in Worker /\ wk'.pc = "claimed" /\ wk'.gen = job.gen + 1 /\ wk'.att = 0
    <2>1. wk' = [Idle EXCEPT !.pc = "claimed", !.gen = job.gen + 1, !.mine = TRUE]
      BY DEF Claim
    <2>2. PICK w \in Worker : w = Idle /\ w.att = 0
      BY WorkerLeaves
    <2>3. PICK g \in 0 .. MaxGen : g = job.gen + 1
      BY <1>2
    <2>4. wk' = [w EXCEPT !.pc = "claimed", !.gen = g, !.mine = TRUE]
      BY <2>1, <2>2, <2>3
    <2>5. wk' \in Worker /\ wk'.pc = "claimed" /\ wk'.gen = g /\ wk'.att = w.att
      <3>1. "claimed" \in Pcs
        BY <1>0
      <3>. QED BY <2>4, <3>1 DEF Worker
    <2>. QED BY <2>2, <2>3, <2>5
  <1>6. row' = "claimed" /\ log' = log /\ silent' = FALSE
    BY ProjectedEffect, ReadIInv DEF Claim
  <1>7. Typed'
    BY <1>0, <1>4, <1>5, <1>6, ReadIInv DEF Typed, Claim, rest, history
  <1>8. AttTyped' /\ GenRoom' /\ WorkerHasGen'
    <2>1. att' = att /\ res' = res
      BY DEF Claim, rest
    <2>2. att \in Seq(Attempt) /\ (res.mine => res.att <= Len(att))
      BY ReadIInv DEF AttTyped
    <2>. QED BY <1>2, <1>4, <1>5, <2>1, <2>2 DEF AttTyped, GenRoom, WorkerHasGen
  <1>9. /\ StatusRowFollowsTheJob' /\ NewestIsItsOwn' /\ DecidedIsHeld' /\ HeldByItsWorker'
        /\ AppliedByItsWorker' /\ SubmittedByItsWorker' /\ HasOutcome' /\ AppliedIsRecorded'
    BY <1>4, <1>5, <1>6
    DEF StatusRowFollowsTheJob, NewestIsItsOwn, DecidedIsHeld, HeldByItsWorker,
        AppliedByItsWorker, SubmittedByItsWorker, HasOutcome, AppliedIsRecorded, Decided
  <1>10. Paced' /\ ClearedIsPaced'
    BY <1>5 DEF Claim, rest, history, IInv, Facts, WorkerFacts, Paced, ClearedIsPaced
  <1>11. \A i \in 1 .. Len(att) : ~Unanswered(i)
    <2>1. DOMAIN att = 1 .. Len(att)
      BY ReadIInv
    <2>. QED BY <2>1 DEF Claim, IInv, Facts, IntentIsAccounted, Unanswered
  <1>12. NoIntentYet' /\ IntentIsNewest' /\ IntentIsAccounted'
    <2>1. att' = att
      BY DEF Claim
    <2>2. DOMAIN att = 1 .. Len(att)
      BY ReadIInv
    <2>. QED BY <1>11, <2>1, <2>2 DEF NoIntentYet, IntentIsNewest, IntentIsAccounted, Unanswered
  <1>. QED BY <1>7, <1>8, <1>9, <1>10, <1>12 DEF IInv, TypeInv, Facts, WorkerFacts

LEMMA CreateAttemptStep ==
    ASSUME IInv, CreateAttempt PROVE IInv'
  <1>1. CASE ~wk.mine
    BY <1>1, LeaveAtOnce DEF CreateAttempt, tables, events
  <1>2. CASE wk.mine
    <2>1. wk.pc = "claimed" /\ att \in Seq(Attempt) /\ wk \in Worker /\ wk.gen >= 1
      BY ReadIInv DEF CreateAttempt, IInv, TypeInv, WorkerHasGen
    <2>2. att' = Append(att, [gen |-> wk.gen, intent |-> FALSE, outcome |-> "open"])
      BY <1>2 DEF CreateAttempt
    <2>3. wk.gen \in 1 .. MaxGen
      BY <2>1, MaxGenAssumption DEF Worker
    <2>4. /\ att' \in Seq(Attempt) /\ Len(att') = Len(att) + 1
          /\ att'[Len(att) + 1].gen = wk.gen /\ ~att'[Len(att) + 1].intent
          /\ \A k \in 1 .. Len(att) : att'[k] = att[k]
      BY <2>1, <2>2, <2>3, AppendKeeps
    <2>5. PICK n \in Nat : n = Len(att) + 1
      BY <2>1
    <2>6. wk' = [wk EXCEPT !.pc = "created", !.att = n]
      BY <1>2, <2>5 DEF CreateAttempt
    <2>7. /\ wk' \in Worker /\ wk'.pc = "created" /\ wk'.att = n /\ wk'.out = wk.out
          /\ wk'.gen = wk.gen /\ wk'.mine = wk.mine
      <3>1. "created" \in Pcs
        BY DEF Pcs
      <3>. QED BY <2>1, <2>6, <3>1 DEF Worker
    <2>8. UNCHANGED <<app, pack, job, row, log, told, silent, stamped, res, recent, cut, beside>>
      BY DEF CreateAttempt, events, rest, history
    <2>9. Typed' /\ GenRoom' /\ WorkerHasGen' /\ StatusRowFollowsTheJob'
      BY <2>1, <2>7, <2>8 DEF IInv, TypeInv, Typed, GenRoom, WorkerHasGen, StatusRowFollowsTheJob
    <2>10. AttTyped' /\ NewestIsItsOwn'
      <3>1. Len(att) \in Nat
        BY <2>1
      <3>2. res.mine => res.att <= Len(att) /\ res.att \in Nat
        BY ReadIInv DEF AttTyped, Request
      <3>. QED BY <2>4, <2>5, <2>7, <2>8, <3>1, <3>2 DEF AttTyped, NewestIsItsOwn
    <2>11. \A i \in 1 .. Len(att) : ~Unanswered(i)
      BY <1>2, <2>1 DEF IInv, Facts, WorkerFacts, NoIntentYet, Early
    <2>12. /\ Paced' /\ ClearedIsPaced' /\ DecidedIsHeld' /\ HeldByItsWorker' /\ AppliedByItsWorker'
           /\ SubmittedByItsWorker' /\ HasOutcome'
      BY <2>1, <2>7, <2>8 DEF IInv, Facts, WorkerFacts, Paced, ClearedIsPaced, DecidedIsHeld,
         HeldByItsWorker, AppliedByItsWorker, SubmittedByItsWorker, HasOutcome
    <2>13. AppliedIsRecorded'
      BY <1>2, <2>1, <2>8 DEF IInv, Facts, WorkerFacts, AppliedByItsWorker, AppliedIsRecorded
    <2>14. \A i \in 1 .. Len(att') : ~(att'[i].intent /\ att'[i].outcome = "open")
      <3>1. Len(att) \in Nat
        BY <2>1
      <3>2. \A i \in 1 .. Len(att') : i \in 1 .. Len(att) \/ i = Len(att) + 1
        BY <2>4, <3>1
      <3>. QED BY <2>4, <2>11, <3>2 DEF Unanswered
    <2>15. NoIntentYet' /\ IntentIsNewest' /\ IntentIsAccounted'
      BY <2>4, <2>14 DEF NoIntentYet, IntentIsNewest, IntentIsAccounted, Unanswered
    <2>. QED BY <2>9, <2>10, <2>12, <2>13, <2>15 DEF IInv, TypeInv, Facts, WorkerFacts
  <1>. QED BY <1>1, <1>2

LEMMA RecordStartedStep ==
    ASSUME IInv, RecordStarted PROVE IInv'
  <1>1. CASE Owns
    <2>1. StatusRowFollowsTheJob' /\ row' \in JobStates /\ silent' \in BOOLEAN
      BY <1>1, ReadIInv, ProjectedFollows DEF RecordStarted
    <2>2. Walks("started", wk.out)
      BY <1>1, <2>1, ReadIInv DEF Walks, RecordStarted, Goto, Projected, Keys
    <2>3. "started" \in Pcs \ {"idle", "claimed", "completing"} /\ wk.pc = "created"
          /\ wk.pc \in Early
      BY DEF Pcs, RecordStarted, Early
    <2>4. recent => stamped'
      BY <2>3 DEF RecordStarted, IInv, Facts, WorkerFacts, Paced
    <2>. QED BY <2>2, <2>3, <2>4, ReadIInv, WalkKeepsIInv
  <1>2. CASE ~Owns
    BY <1>2, LeaveAtOnce DEF RecordStarted, tables
  <1>. QED BY <1>1, <1>2

LEMMA ReleasedStep ==
    ASSUME IInv, Released PROVE IInv'
  BY LeaveAtOnce DEF Released

(* The safety checks find no submission within the interval. *)
LEMMA PassChecksStep ==
    ASSUME IInv, PassChecks PROVE IInv'
  <1>1. wk' = [wk EXCEPT !.pc = "cleared"] /\ wk.pc = "started" /\ ~stamped /\ UNCHANGED <<tables, rest>>
    BY DEF PassChecks, Goto, SafeToSubmit
  <1>2. StatusRowFollowsTheJob' /\ row' \in JobStates /\ silent' \in BOOLEAN
    BY <1>1, RowStays DEF tables
  <1>3. Walks("cleared", wk.out)
    BY <1>1, <1>2, ReadIInv DEF Walks, tables
  <1>4. ~recent
    BY <1>1 DEF IInv, Facts, WorkerFacts, Paced
  <1>5. "cleared" \in Pcs \ {"idle", "claimed", "completing"} /\ wk.pc \in Early
    BY <1>1 DEF Pcs, Early
  <1>. QED BY <1>1, <1>3, <1>4, <1>5, ReadIInv, WalkKeepsIInv

(* The browser's steps. *)
LEMMA BrowserStep ==
    ASSUME IInv, BrowserFails \/ BrowserOnlyFills \/ NoClick
                 \/ \E a \in {"applied", "ambiguous", "failed_permanent"} : Click(a)
    PROVE  IInv'
  <1>1. /\ UNCHANGED <<pack, job, att, row, log, told, silent, stamped, rest>>
        /\ wk.pc \in {"started", "cleared", "intent"} /\ app' \in Statuses
    BY ReadIInv DEF BrowserFails, BrowserOnlyFills, NoClick, Click, BrowserRecords, Record, Upsert,
       events, Statuses
  <1>2. PICK p \in {"failing", "filled", "judged"}, o \in Outcomes :
          /\ wk.pc = "intent" <=> p = "judged"
          /\ \/ wk' = [wk EXCEPT !.pc = p] /\ o = wk.out
             \/ wk' = [wk EXCEPT !.pc = p, !.out = o]
    BY ReadIInv DEF BrowserFails, BrowserOnlyFills, NoClick, Click, Goto, Outcomes
  <1>3. StatusRowFollowsTheJob' /\ row' \in JobStates /\ silent' \in BOOLEAN
    BY <1>1, RowStays
  <1>4. Walks(p, o)
    BY <1>1, <1>2, <1>3, ReadIInv DEF Walks
  <1>5. p \in Pcs \ {"idle", "claimed", "completing"} /\ (p \in Early => wk.pc \in Early)
    BY <1>1, <1>2 DEF Pcs, Early
  <1>6. recent => stamped'
    BY <1>1 DEF IInv, Facts, WorkerFacts, Paced
  <1>. QED BY <1>1, <1>2, <1>4, <1>5, <1>6, WalkKeepsIInv

LEMMA StampStep ==
    ASSUME IInv, Stamp \/ MarkApplied PROVE IInv'
  <1>1. PICK p \in {"marking", "noting"} :
          /\ wk' = [wk EXCEPT !.pc = p]
          /\ UNCHANGED <<job, att, row, log, pack, told, silent, rest>>
          /\ app' \in Statuses /\ stamped' \in BOOLEAN
          /\ p = "marking" => stamped'
          /\ p = "noting" => wk.pc = "marking" /\ stamped' = stamped
          /\ wk.pc \in {"stamping", "marking"}
    BY ReadIInv DEF Stamp, MarkApplied, Goto, events, Statuses
  <1>2. stamped => stamped'
    BY <1>1
  <1>3. StatusRowFollowsTheJob' /\ row' \in JobStates /\ silent' \in BOOLEAN
    BY <1>1, RowStays
  <1>4. Walks(p, wk.out)
    BY <1>1, <1>2, <1>3, ReadIInv DEF Walks
  <1>5. p \in Pcs \ {"idle", "claimed", "completing"} /\ p \notin Early
    BY <1>1 DEF Pcs, Early
  <1>6. recent => stamped'
    BY <1>1 DEF IInv, Facts, WorkerFacts, Paced
  <1>. QED BY <1>1, <1>4, <1>5, <1>6, ReadIInv, WalkKeepsIInv

LEMMA NoteStep ==
    ASSUME IInv, Note PROVE IInv'
  <1>1. UNCHANGED <<app, pack, job, att, told, stamped, rest>> /\ Leave /\ wk.pc = "noting"
    BY DEF Note
  <1>2. StatusRowFollowsTheJob' /\ row' \in JobStates /\ silent' \in BOOLEAN /\ log' = log
    BY <1>1, ReadIInv, ProjectedEffect, ProjectedFollows, RowStays DEF Note
  <1>3. Leaves
    BY <1>1, <1>2, ReadIInv, KeptAttempts DEF Leaves, rest, history
  <1>. QED BY <1>1, <1>3, LeaveKeepsIInv DEF rest, history

LEMMA CompleteFilledStep ==
    ASSUME IInv, CompleteFilled PROVE IInv'
  <1>1. /\ UNCHANGED <<app, pack, job, row, log, told, silent, stamped, res, recent, cut, beside>>
        /\ Leave /\ wk.pc = "leaving"
    BY DEF CompleteFilled, events, rest, history
  <1>2. SameAttempts
    <2>1. "skipped" \in Outcomes
      BY DEF Outcomes
    <2>. QED BY <2>1, ReadIInv, DecideKeeps, KeptAttempts DEF CompleteFilled
  <1>3. StatusRowFollowsTheJob' /\ row' \in JobStates /\ silent' \in BOOLEAN
    BY <1>1, RowStays
  <1>4. Leaves
    BY <1>1, <1>2, <1>3, ReadIInv DEF Leaves
  <1>5. job.state = "applied" /\ ~beside => att' = att
    BY <1>1 DEF CompleteFilled, IInv, Facts, WorkerFacts, AppliedByItsWorker
  <1>. QED BY <1>1, <1>4, <1>5, LeaveKeepsIInv

LEMMA CrashStep ==
    ASSUME IInv, Crash PROVE IInv'
  <1>1. /\ UNCHANGED <<app, pack, job, att, row, log, told, silent, stamped, res, beside>> /\ Leave
        /\ recent' = (recent /\ ~(wk.out = "applied" /\ wk.pc \in {"completing", "stamping"}))
        /\ cut' = (cut \/ (wk.mine /\ wk.pc = "completing" /\ wk.out \in Ended))
    BY DEF Crash, tables
  <1>2. wk.out \in Decided => wk.out \in Ended
    BY DEF Decided, Ended
  <1>3. StatusRowFollowsTheJob' /\ row' \in JobStates /\ silent' \in BOOLEAN
    BY <1>1, RowStays
  <1>4. Leaves
    BY <1>1, <1>3, ReadIInv, KeptAttempts DEF Leaves
  <1>. QED BY <1>1, <1>2, <1>4, LeaveKeepsIInv

(* The steps that push the job. *)
LEMMA TransitionPushes ==
    ASSUME IInv, NEW s \in JobStates, NEW p, NEW o \in Outcomes,
           Transition(s), UNCHANGED <<att, res, cut>>,
           \/ wk' = Idle /\ p = "idle"
           \/ p # "idle" /\ wk' = [wk EXCEPT !.pc = p] /\ o = wk.out
           \/ p # "idle" /\ wk' = [wk EXCEPT !.pc = p, !.out = o],
           wk.pc \in {"claimed", "started", "failing", "filled", "judged"}
    PROVE  Pushes(s, p, o)
  <1>1. Move(s) /\ log' = log
    BY DEF Transition
  <1>2. /\ Owns /\ job' \in JobRow /\ job'.state = s /\ job'.gen = job.gen /\ job'.held = job.held
        /\ row' = s /\ app' \in Statuses /\ pack' = pack /\ told' = told /\ stamped' = stamped
        /\ silent' = FALSE
    BY <1>1, ReadIInv, MoveEffect
  <1>. QED BY <1>1, <1>2, ReadIInv DEF Pushes

LEMMA RefusedStep ==
    ASSUME IInv, Refused, wk.pc \notin {"completing", "stamping"} PROVE IInv'
  BY LeaveAtOnce DEF Refused

LEMMA FailWithoutAttemptStep ==
    ASSUME IInv, NEW s \in {"retry_wait", "failed_permanent", "challenge"}, FailWithoutAttempt(s)
    PROVE  IInv'
  <1>1. s \in JobStates /\ s # "applied" /\ s # "submitting"
    BY DEF JobStates
  <1>2. Transition(s) /\ wk.pc = "claimed" /\ UNCHANGED <<att, res, recent, cut, beside>>
    BY DEF FailWithoutAttempt, rest, history
  <1>3. PICK p \in {"noting", "idle"} :
          \/ wk' = Idle /\ p = "idle"
          \/ wk' = [wk EXCEPT !.pc = p] /\ p = "noting"
    BY DEF FailWithoutAttempt, Goto, Leave
  <1>4. Pushes(s, p, wk.out)
    BY <1>1, <1>2, <1>3, ReadIInv, TransitionPushes
  <1>. QED BY <1>1, <1>2, <1>3, <1>4, ReadIInv, PushKeepsIInv

LEMMA FailStep ==
    ASSUME IInv, NEW s \in {"retry_wait", "failed_permanent", "challenge"},
           Fail(s) \/ (Reschedule /\ s = "retry_wait")
    PROVE  IInv'
  <1>1. wk.pc \in {"started", "failing"}
    BY DEF Fail, Reschedule
  <1>2. CASE Refused
    BY <1>1, <1>2, RefusedStep
  <1>3. CASE ~Refused
    <2>1. Transition(s) /\ Outcome(s) /\ UNCHANGED <<att, res, recent, cut, beside>>
      BY <1>3 DEF Fail, Reschedule, rest, history
    <2>2. /\ s \in JobStates /\ s \notin {"applied", "submitting", "open"}
          /\ s \in Outcomes
      BY DEF JobStates, Outcomes
    <2>3. Pushes(s, "completing", s)
      BY <1>1, <2>1, <2>2, TransitionPushes DEF Outcome
    <2>. QED BY <1>1, <2>1, <2>2, <2>3, PushKeepsIInv
  <1>. QED BY <1>2, <1>3

LEMMA QuietTurnStep ==
    ASSUME IInv, ReopenForLogin \/ SkipFilled PROVE IInv'
  <1>1. PICK s \in {"challenge", "skipped"}, p \in {"idle", "leaving"} :
          /\ \/ wk' = Idle /\ p = "idle"
             \/ wk' = [wk EXCEPT !.pc = p] /\ p = "leaving"
          /\ wk.pc \in {"started", "filled"}
          /\ UNCHANGED <<app, pack, att, told, stamped, rest>>
          /\ IF Owns /\ ~job.off
             THEN job' = [job EXCEPT !.state = s] /\ Projected("", s)
             ELSE UNCHANGED <<job, row, log, silent>>
    BY DEF ReopenForLogin, SkipFilled, Goto, Leave
  <1>2. s \in JobStates /\ s # "applied" /\ s # "submitting" /\ p \in Pcs
    BY <1>1 DEF JobStates, Pcs
  <1>3. CASE Owns /\ ~job.off
    <2>1. job' \in JobRow /\ job'.state = s /\ job'.gen = job.gen /\ job'.held = job.held
      <3>1. job' = [job EXCEPT !.state = s] /\ job \in JobRow
        BY <1>1, <1>3, ReadIInv
      <3>. QED BY <1>2, <3>1, JobMoved
    <2>2. row' = s /\ log' = log /\ silent' = FALSE
      BY <1>1, <1>3, ReadIInv, ProjectedEffect
    <2>3. Pushes(s, p, wk.out)
      BY <1>1, <1>3, <2>1, <2>2, ReadIInv DEF Pushes, rest, history
    <2>. QED BY <1>1, <1>2, <2>3, ReadIInv, PushKeepsIInv DEF rest, history
  <1>4. CASE ~(Owns /\ ~job.off) /\ p = "idle"
    BY <1>1, <1>4, LeaveAtOnce DEF Leave, tables
  <1>5. CASE ~(Owns /\ ~job.off) /\ p = "leaving"
    <2>1. wk' = [wk EXCEPT !.pc = p]
      BY <1>1, <1>5, WorkerLeaves
    <2>2. StatusRowFollowsTheJob' /\ row' \in JobStates /\ silent' \in BOOLEAN
      BY <1>1, <1>5, RowStays
    <2>3. Walks(p, wk.out)
      BY <1>1, <1>5, <2>1, <2>2, ReadIInv DEF Walks
    <2>4. recent => stamped'
      BY <1>1 DEF IInv, Facts, WorkerFacts, Paced
    <2>5. wk.pc \in Early
      BY <1>1 DEF Early
    <2>. QED BY <1>1, <1>2, <1>5, <2>3, <2>4, <2>5, ReadIInv, WalkKeepsIInv
  <1>. QED BY <1>1, <1>3, <1>4, <1>5

LEMMA RecordIntentStep ==
    ASSUME IInv, RecordIntent PROVE IInv'
  <1>1. /\ Move("submitting") /\ log' = log \union {"submit_intent_persisted"}
        /\ wk' = [wk EXCEPT !.pc = "intent"] /\ wk.pc = "cleared"
        /\ UNCHANGED <<res, recent, cut, beside>>
    BY DEF RecordIntent, Goto, rest, history
  <1>2. /\ att' \in Seq(Attempt) /\ Len(att') = Len(att)
        /\ \A k \in 1 .. Len(att) :
             /\ att'[k].gen = att[k].gen /\ att'[k].outcome = att[k].outcome
             /\ k # wk.att => att'[k].intent = att[k].intent
    BY ReadIInv, IntentKeeps DEF RecordIntent
  <1>3. "submitting" \in JobStates /\ "intent" \in Pcs /\ att \in Seq(Attempt)
    BY ReadIInv DEF JobStates, Pcs
  <1>4. /\ Owns /\ job' \in JobRow /\ job'.state = "submitting" /\ job'.gen = job.gen
        /\ job'.held = job.held /\ row' = "submitting" /\ app' \in Statuses
        /\ pack' = pack /\ told' = told /\ stamped' = stamped /\ silent' = FALSE
    BY <1>1, <1>3, ReadIInv, MoveEffect
  <1>5. /\ wk' \in Worker /\ wk'.pc = "intent" /\ wk'.att = wk.att /\ wk'.gen = wk.gen
        /\ wk'.mine = wk.mine
    <2>1. wk \in Worker
      BY ReadIInv
    <2>. QED BY <1>1, <1>3, <2>1 DEF Worker
  <1>6. log' \subseteq Keys
    BY <1>1, ReadIInv DEF Keys
  <1>7. Typed' /\ AttTyped'
    BY <1>1, <1>2, <1>3, <1>4, <1>5, <1>6, ReadIInv DEF Typed, AttTyped
  <1>8. GenRoom' /\ WorkerHasGen' /\ StatusRowFollowsTheJob'
    <2>1. wk.gen \in 0 .. MaxGen /\ job'.gen = wk.gen
      BY <1>4, ReadIInv DEF Owns, Worker
    <2>2. job'.gen # MaxGen + 1
      BY <2>1, MaxGenAssumption
    <2>. QED BY <1>1, <1>4, <1>5, <2>2
         DEF GenRoom, WorkerHasGen, StatusRowFollowsTheJob, IInv, TypeInv
  <1>9. wk.mine /\ wk.att = Len(att) /\ Len(att) >= 1 /\ att[Len(att)].gen = wk.gen
    BY <1>1, <1>4 DEF Owns, IInv, Facts, WorkerFacts, NewestIsItsOwn
  <1>10. /\ Paced' /\ ClearedIsPaced' /\ NewestIsItsOwn' /\ HasOutcome'
    <2>1. att'[Len(att')].gen = wk'.gen
      BY <1>2, <1>3, <1>5, <1>9
    <2>. QED BY <1>1, <1>2, <1>4, <1>5, <1>9, <2>1
         DEF IInv, Facts, WorkerFacts, Paced, ClearedIsPaced, NewestIsItsOwn, HasOutcome
  <1>11. /\ DecidedIsHeld' /\ HeldByItsWorker' /\ AppliedByItsWorker' /\ SubmittedByItsWorker'
         /\ AppliedIsRecorded' /\ NoIntentYet'
    BY <1>4, <1>5 DEF Owns, DecidedIsHeld, HeldByItsWorker, AppliedByItsWorker,
       SubmittedByItsWorker, AppliedIsRecorded, NoIntentYet, Decided, Early
  <1>12. \A i \in 1 .. Len(att) : ~(att[i].intent /\ att[i].outcome = "open")
    BY <1>1, <1>9 DEF IInv, Facts, WorkerFacts, NoIntentYet, Unanswered, Early
  <1>13. \A i \in 1 .. Len(att) : att'[i].intent /\ att'[i].outcome = "open" =>
           i = Len(att) /\ att'[i].gen = job'.gen
    BY <1>2, <1>4, <1>9, <1>12 DEF Owns
  <1>14. IntentIsNewest' /\ IntentIsAccounted'
    BY <1>2, <1>4, <1>13 DEF IntentIsNewest, IntentIsAccounted, Unanswered
  <1>. QED BY <1>7, <1>8, <1>10, <1>11, <1>14 DEF IInv, TypeInv, Facts, WorkerFacts

LEMMA ReconcileStep ==
    ASSUME IInv, Reconcile PROVE IInv'
  <1>0. wk.pc = "judged" /\ "completing" \in Pcs /\ "idle" \in Pcs /\ wk.out \in Outcomes
    BY ReadIInv DEF Reconcile, Pcs
  <1>1. CASE Refused
    BY <1>0, <1>1, RefusedStep
  <1>2. CASE /\ wk.out \in {"applied", "failed_permanent"}
             /\ Transition(wk.out) /\ Goto("completing")
             /\ recent' = (recent \/ wk.out = "applied")
             /\ beside' = (beside /\ wk.out # "applied")
             /\ UNCHANGED <<att, cut, res>>
    <2>1. wk.out \in JobStates /\ wk.out \notin {"submitting", "open"}
      BY <1>2 DEF JobStates
    <2>2. wk' = [wk EXCEPT !.pc = "completing"]
      BY <1>2 DEF Goto
    <2>3. Pushes(wk.out, "completing", wk.out)
      BY <1>0, <1>2, <2>1, <2>2, TransitionPushes
    <2>4. \/ recent' = recent /\ beside' = beside /\ wk.out # "applied"
          \/ recent' \in BOOLEAN /\ beside' \in BOOLEAN /\ wk.out = "applied"
      BY <1>2, ReadIInv
    <2>. QED BY <1>0, <1>2, <2>1, <2>3, <2>4, PushKeepsIInv DEF Decided
  <1>3. CASE wk.out = "ambiguous" /\ Leave /\ UNCHANGED <<tables, rest>>
    BY <1>0, <1>3, LeaveAtOnce
  <1>4. CASE /\ wk.out = "ambiguous"
             /\ Live /\ Doubt(wk.att, TRUE) /\ Leave
             /\ UNCHANGED rest
    <2>1. job.gen < MaxGen + 1
      <3>1. job.gen = wk.gen /\ wk \in Worker
        BY <1>4, ReadIInv DEF Live, Owns
      <3>. QED BY <3>1, MaxGenAssumption DEF Worker
    <2>2. /\ job' \in JobRow /\ job'.state = "ambiguous" /\ ~job'.held
          /\ row' = "ambiguous" /\ log' = log /\ silent' = FALSE
          /\ SameAttempts
          /\ wk.att \in 1 .. Len(att) => att'[wk.att].outcome = "ambiguous"
          /\ app' = "ambiguous" /\ told' \in BOOLEAN /\ pack' = pack /\ stamped' = stamped
      BY <1>4, <2>1, ReadIInv, DoubtEffect
    <2>3. wk' = Idle /\ Idle \in Worker /\ Idle.pc = "idle" /\ Idle.mine = FALSE
      BY <1>4, WorkerLeaves DEF Leave
    <2>4. /\ att' \in Seq(Attempt) /\ Len(att') = Len(att) /\ att \in Seq(Attempt)
          /\ \A i \in 1 .. Len(att) : Unanswered(i)' => Unanswered(i)
      BY <2>2, ReadIInv, SameUnanswered
    <2>5. Typed' /\ AttTyped'
      BY <1>4, <2>2, <2>3, <2>4, ReadIInv
      DEF Typed, AttTyped, rest, history, Statuses, JobStates
    <2>6. /\ GenRoom' /\ WorkerHasGen' /\ StatusRowFollowsTheJob' /\ ClearedIsPaced'
          /\ NewestIsItsOwn' /\ DecidedIsHeld' /\ HeldByItsWorker' /\ AppliedByItsWorker'
          /\ SubmittedByItsWorker' /\ HasOutcome' /\ AppliedIsRecorded' /\ NoIntentYet'
      BY <2>2, <2>3
      DEF GenRoom, WorkerHasGen, StatusRowFollowsTheJob, ClearedIsPaced, NewestIsItsOwn,
          DecidedIsHeld, HeldByItsWorker, AppliedByItsWorker, SubmittedByItsWorker, HasOutcome,
          AppliedIsRecorded, NoIntentYet, Decided, Early
    <2>7. Paced'
      BY <1>0, <1>4, <2>2 DEF IInv, Facts, WorkerFacts, Paced, rest, history
    <2>8. wk.att = Len(att) /\ Len(att) >= 1
      BY <1>0, <1>4 DEF Live, Owns, IInv, Facts, WorkerFacts, NewestIsItsOwn
    <2>9. \A i \in 1 .. Len(att) : ~Unanswered(i)'
      BY <2>2, <2>4, <2>8 DEF IInv, Facts, IntentIsNewest, Unanswered
    <2>10. IntentIsNewest' /\ IntentIsAccounted'
      BY <2>4, <2>9 DEF IntentIsNewest, IntentIsAccounted, Unanswered
    <2>. QED BY <2>5, <2>6, <2>7, <2>10 DEF IInv, TypeInv, Facts, WorkerFacts
  <1>. QED BY <1>1, <1>2, <1>3, <1>4 DEF Reconcile

LEMMA CompleteAttemptStep ==
    ASSUME IInv, CompleteAttempt PROVE IInv'
  <1>1. /\ wk.pc = "completing" /\ wk.out \in Outcomes /\ wk \in Worker /\ att \in Seq(Attempt)
        /\ UNCHANGED <<app, pack, job, row, log, told, silent, stamped, res, recent, cut, beside>>
        /\ IF Accepts THEN Decide(wk.att, wk.out) ELSE UNCHANGED att
    BY ReadIInv DEF CompleteAttempt, events, rest, history
  <1>2. PICK p \in {"stamping", "noting", "idle"} :
          /\ p = "stamping" <=> wk.out = "applied"
          /\ \/ wk' = Idle /\ p = "idle"
             \/ wk' = [wk EXCEPT !.pc = p] /\ p # "idle"
    BY DEF CompleteAttempt, Goto, Leave
  <1>3. /\ wk' \in Worker /\ wk'.pc = p
        /\ p # "idle" => /\ wk'.gen = wk.gen /\ wk'.att = wk.att /\ wk'.mine = wk.mine
                        /\ wk'.out = wk.out
        /\ wk'.mine => wk'.att = wk.att /\ wk.mine /\ p # "idle"
    <2>1. CASE wk' = Idle /\ p = "idle"
      BY <2>1, WorkerLeaves
    <2>2. CASE wk' = [wk EXCEPT !.pc = p] /\ p # "idle"
      <3>1. p \in Pcs
        BY <1>2 DEF Pcs
      <3>. QED BY <1>1, <2>2, <3>1 DEF Worker
    <2>. QED BY <1>2, <2>1, <2>2
  <1>4. /\ SameAttempts /\ wk.out # "open"
        /\ Accepts /\ wk.att \in 1 .. Len(att) => att'[wk.att].outcome = wk.out
        /\ ~Accepts => att' = att
        /\ \A k \in 1 .. Len(att) : k # wk.att => att'[k].outcome = att[k].outcome
    <2>1. wk.out # "open"
      BY <1>1 DEF IInv, Facts, WorkerFacts, HasOutcome
    <2>2. \A k \in 1 .. Len(att) : k # wk.att => att'[k].outcome = att[k].outcome
      BY <1>1 DEF Decide
    <2>. QED BY <1>1, <2>1, <2>2, DecideKeeps, KeptAttempts
  <1>5. /\ att' \in Seq(Attempt) /\ Len(att') = Len(att)
        /\ DOMAIN att = 1 .. Len(att) /\ DOMAIN att' = 1 .. Len(att)
        /\ \A i \in 1 .. Len(att) : Unanswered(i)' => Unanswered(i) /\ att'[i].gen = att[i].gen
    BY <1>1, <1>4, SameUnanswered
  <1>6. Typed' /\ AttTyped' /\ GenRoom' /\ WorkerHasGen' /\ StatusRowFollowsTheJob'
    BY <1>1, <1>3, <1>5
    DEF IInv, TypeInv, Typed, AttTyped, GenRoom, WorkerHasGen, StatusRowFollowsTheJob
  <1>7. WorkerFacts'
    <2>1. /\ Paced' /\ ClearedIsPaced' /\ DecidedIsHeld' /\ HeldByItsWorker' /\ AppliedByItsWorker'
          /\ SubmittedByItsWorker' /\ HasOutcome'
      BY <1>1, <1>2, <1>3
      DEF IInv, Facts, WorkerFacts, Paced, ClearedIsPaced, DecidedIsHeld, HeldByItsWorker,
          AppliedByItsWorker, SubmittedByItsWorker, HasOutcome
    <2>2. NewestIsItsOwn'
      BY <1>1, <1>3, <1>4 DEF SameAttempts, IInv, Facts, WorkerFacts, NewestIsItsOwn
    <2>3. NoIntentYet'
      BY <1>3 DEF NoIntentYet, Early
    <2>. QED BY <2>1, <2>2, <2>3 DEF WorkerFacts
  <1>8. ASSUME job.state \in Decided, wk.mine
        PROVE  Accepts /\ wk.att = Len(att) /\ Len(att) >= 1
    BY <1>1, <1>8 DEF IInv, Facts, WorkerFacts, DecidedIsHeld, HeldByItsWorker, NewestIsItsOwn,
       Accepts, Owns, Decided
  <1>9. ASSUME NEW i, job.state \in Decided, Owed(i), ~Owed(i)'
        PROVE  wk.mine /\ wk.att = i
    BY <1>1, <1>9 DEF Owed
  <1>10. AppliedIsRecorded'
    <2>1. SUFFICES ASSUME job.state = "applied", ~cut, ~beside
                   PROVE  att' # <<>> /\ (Last(att').outcome = "applied" \/ Owed(Len(att))')
      BY <1>1, <1>5 DEF AppliedIsRecorded
    <2>2. CASE wk.mine
      <3>1. att'[Len(att')].outcome = "applied" /\ att' # <<>>
        BY <1>1, <1>4, <1>5, <1>8, <2>1, <2>2
        DEF IInv, Facts, WorkerFacts, AppliedByItsWorker, Decided
      <3>. QED BY <3>1 DEF Last
    <2>3. CASE ~wk.mine
      <3>1. att' = att
        BY <1>1, <2>3 DEF Accepts, Owns
      <3>2. att # <<>> /\ (Last(att).outcome = "applied" \/ Owed(Len(att)))
        BY <2>1 DEF IInv, Facts, AppliedIsRecorded
      <3>. QED BY <1>9, <2>1, <2>3, <3>1, <3>2 DEF Decided
    <2>. QED BY <2>2, <2>3
  <1>11. IntentIsNewest'
    BY <1>5 DEF IInv, Facts, IntentIsNewest
  <1>12. IntentIsAccounted'
    <2>1. SUFFICES ASSUME NEW i \in 1 .. Len(att), Unanswered(i), Unanswered(i)',
                          att'[i].gen = att[i].gen
                   PROVE  \/ job.state = "submitting" /\ job.gen = att[i].gen
                          \/ job.state \in Decided /\ (cut \/ Owed(i)')
      BY <1>1, <1>5 DEF IntentIsAccounted, Unanswered, Decided
    <2>2. \/ job.state = "submitting" /\ job.gen = att[i].gen
          \/ job.state \in Decided /\ (cut \/ Owed(i))
      BY <1>5, <2>1 DEF IInv, Facts, IntentIsAccounted, Unanswered, Decided
    <2>3. CASE job.state \in Decided /\ wk.mine /\ wk.att = i
      BY <1>4, <1>8, <2>1, <2>3 DEF Unanswered
    <2>. QED BY <1>9, <2>2, <2>3
  <1>. QED BY <1>6, <1>7, <1>10, <1>11, <1>12 DEF IInv, TypeInv, Facts

-----------------------------------------------------------------------------
(* The sweeps, the dashboard, the stops and time. *)

(* The newest of some attempts is the last one, if it is among them. *)
LEMMA NewestIsLast ==
    ASSUME att \in Seq(Attempt), Len(att) >= 1, NEW S \in SUBSET (DOMAIN att), Len(att) \in S
    PROVE  Newest(S) = Len(att)
  <1>1. \A x \in S : x \in Nat /\ x <= Len(att)
    OBVIOUS
  <1>2. Max(S) = Len(att)
    BY <1>1 DEF Max
  <1>. QED BY <1>2 DEF Newest

LEMMA NewestIsTheOpenOne ==
    ASSUME IInv, Len(att) >= 1, att[Len(att)].outcome = "open"
    PROVE  Undecided = Len(att) /\ NewestOpen = Len(att)
  <1>1. att \in Seq(Attempt) /\ Len(att) \in DOMAIN att
    BY DEF IInv, TypeInv, AttTyped
  <1>. QED BY <1>1, NewestIsLast DEF Undecided, NewestOpen

LEMMA DoubtStep ==
    ASSUME IInv, job.state = "submitting", NEW i, NEW t \in BOOLEAN, Doubt(i, t),
           Len(att) >= 1 /\ att[Len(att)].outcome = "open" => i = Len(att),
           UNCHANGED <<wk, rest>>
    PROVE  IInv'
  <1>1. job.gen < MaxGen + 1
    <2>1. job.gen \in 0 .. MaxGen + 1
      BY ReadIInv DEF JobRow
    <2>2. job.gen # MaxGen + 1
      BY DEF IInv, TypeInv, GenRoom
    <2>. QED BY <2>1, <2>2, MaxGenAssumption
  <1>2. /\ job' \in JobRow /\ job'.state = "ambiguous" /\ ~job'.held
        /\ row' = "ambiguous" /\ log' = log /\ silent' = FALSE
        /\ SameAttempts
        /\ i \in 1 .. Len(att) => att'[i].outcome = "ambiguous"
        /\ app' = "ambiguous" /\ told' \in BOOLEAN /\ pack' = pack /\ stamped' = stamped
    BY <1>1, ReadIInv, DoubtEffect
  <1>3. "ambiguous" \in JobStates /\ "ambiguous" \in Statuses
    BY DEF JobStates, Statuses
  <1>4. Turns("ambiguous")
    BY <1>2, <1>3, ReadIInv DEF Turns, GenRoom, StatusRowFollowsTheJob, Decided, rest
  <1>5. Len(att) >= 1 => att'[Len(att)].outcome # "open"
    <2>1. att \in Seq(Attempt)
      BY ReadIInv
    <2>. QED BY <1>2, <2>1 DEF SameAttempts
  <1>. QED BY <1>3, <1>4, <1>5, TurnKeepsIInv

LEMMA RepairStep ==
    ASSUME IInv, Repair PROVE IInv'
  <1>1. /\ job.state = "ambiguous" /\ app' = "ambiguous" /\ told' = TRUE
        /\ UNCHANGED <<pack, job, stamped, wk, rest>>
        /\ log' \subseteq Keys
    BY ReadIInv DEF Repair, Projected, Keys
  <1>2. "ambiguous" \in JobStates /\ "ambiguous" \in Statuses /\ "ambiguous" \in Outcomes
    BY DEF JobStates, Statuses, Outcomes
  <1>3. SameAttempts
    BY <1>2, ReadIInv, DecideKeeps DEF Repair
  <1>4. GenRoom' /\ StatusRowFollowsTheJob' /\ row' \in JobStates /\ silent' \in BOOLEAN
    <2>1. Projected("projection_repair", job.state)
      BY <1>1 DEF Repair
    <2>. QED BY <1>1, <2>1, ReadIInv, ProjectedFollows DEF TypeInv, GenRoom
  <1>5. Turns("ambiguous")
    BY <1>1, <1>2, <1>3, <1>4, ReadIInv DEF Turns, Decided, rest
  <1>. QED BY <1>1, <1>2, <1>5, TurnKeepsIInv

(* A job that is neither decided nor in flight goes to s without its lease, under a new
   generation or under the one it has. *)
Resets(s) ==
    /\ job.state \notin Decided \union {"submitting"}
    /\ \E g \in {job.gen, job.gen + 1} :
         /\ g = job.gen + 1 => job.gen < MaxGen
         /\ g = job.gen => job.state # "ambiguous"
         /\ \/ job' = [NoJob EXCEPT !.state = s, !.gen = g]
            \/ job' = [NoJob EXCEPT !.state = s, !.gen = g, !.off = TRUE]
            \/ job' = [job EXCEPT !.state = s, !.gen = g, !.held = FALSE, !.live = FALSE]
    /\ \/ row' = s /\ silent' = FALSE
       \/ row' = row /\ s = "ready" /\ silent' = TRUE
    /\ log' = log /\ app' \in Statuses
    /\ UNCHANGED <<pack, att, told, stamped, wk, history>>

LEMMA ResetStep ==
    ASSUME IInv, NEW s \in {"skipped", "ready", "challenge"}, Resets(s),
           \/ res' = res
           \/ res.pc = "none" /\ res' \in Request /\ res'.pc = "approved" /\ res'.att = 0
    PROVE  IInv'
  <1>1. s \in JobStates /\ s \notin Decided \union {"submitting"} /\ s # "applied"
    BY DEF JobStates, Decided
  <1>2. job \in JobRow /\ job.gen \in 0 .. MaxGen + 1
    BY ReadIInv DEF JobRow
  <1>3. PICK g \in {job.gen, job.gen + 1} :
          /\ g = job.gen + 1 => job.gen < MaxGen
          /\ g = job.gen => job.state # "ambiguous"
          /\ \/ job' = [NoJob EXCEPT !.state = s, !.gen = g]
             \/ job' = [NoJob EXCEPT !.state = s, !.gen = g, !.off = TRUE]
             \/ job' = [job EXCEPT !.state = s, !.gen = g, !.held = FALSE, !.live = FALSE]
    BY DEF Resets
  <1>4. g \in 0 .. MaxGen + 1 /\ g # MaxGen + 1
    <2>1. CASE g = job.gen
      BY <1>2, <1>3, <2>1, MaxGenAssumption DEF IInv, TypeInv, GenRoom
    <2>2. CASE g = job.gen + 1
      BY <1>2, <1>3, <2>2, MaxGenAssumption
    <2>. QED BY <2>1, <2>2
  <1>5. job' \in JobRow /\ job'.state = s /\ job'.gen = g /\ ~job'.held
    <2>1. PICK n \in JobRow : n = NoJob /\ ~n.held
      BY JobIsNew DEF NoJob
    <2>2. CASE job' = [n EXCEPT !.state = s, !.gen = g]
      BY <1>1, <1>4, <2>1, <2>2 DEF JobRow
    <2>3. CASE job' = [n EXCEPT !.state = s, !.gen = g, !.off = TRUE]
      BY <1>1, <1>4, <2>1, <2>3 DEF JobRow
    <2>4. CASE job' = [job EXCEPT !.state = s, !.gen = g, !.held = FALSE, !.live = FALSE]
      BY <1>1, <1>2, <1>4, <2>4 DEF JobRow
    <2>. QED BY <1>3, <2>1, <2>2, <2>3, <2>4
  <1>6. GenRoom' /\ StatusRowFollowsTheJob'
    BY <1>4, <1>5 DEF Resets, GenRoom, StatusRowFollowsTheJob
  <1>7. row' \in JobStates /\ silent' \in BOOLEAN /\ SameAttempts
    BY <1>1, ReadIInv, KeptAttempts DEF Resets
  <1>8. Turns(s)
    BY <1>1, <1>5, <1>6, <1>7, ReadIInv DEF Turns, Resets
  <1>. QED BY <1>1, <1>8, TurnKeepsIInv DEF Resets

LEMMA SkipStep ==
    ASSUME IInv, Skip PROVE IInv'
  <1>1. row' = "skipped" /\ log' = log /\ silent' = FALSE
    BY ReadIInv, ProjectedEffect DEF Skip
  <1>2. Resets("skipped")
    BY <1>1 DEF Resets, Skip, PreSubmit, Statuses, Decided, rest
  <1>. QED BY <1>2, ResetStep DEF Skip, rest

LEMMA ResolveStep ==
    ASSUME IInv, Resolve PROVE IInv'
  <1>1. row' = "ready" /\ log' = log /\ silent' = FALSE
    BY ReadIInv, ProjectedEffect DEF Resolve
  <1>2. app' \in Statuses
    BY ReadIInv DEF Resolve, Statuses
  <1>3. job.gen # job.gen + 1
    BY ReadIInv DEF JobRow
  <1>4. Resets("ready")
    BY <1>1, <1>2, <1>3 DEF Resets, Resolve, Decided, rest
  <1>. QED BY <1>4, ResetStep DEF Resolve, rest

LEMMA RevokeStep ==
    ASSUME IInv, Revoke, job.state \in {"claimed", "challenge"}, job.gen < MaxGen,
           UNCHANGED <<wk, rest>>
    PROVE  IInv'
  <1>1. job' = [job EXCEPT !.state = "ready", !.gen = job.gen + 1, !.held = FALSE, !.live = FALSE]
    BY DEF Revoke
  <1>2. job.gen # job.gen + 1
    BY ReadIInv DEF JobRow
  <1>3. /\ row' = row /\ silent' = TRUE /\ log' = log /\ app' \in Statuses
        /\ UNCHANGED <<pack, att, told, stamped, wk, history>>
    BY ReadIInv DEF Revoke, rest
  <1>4. Resets("ready")
    BY <1>1, <1>2, <1>3 DEF Resets, Decided
  <1>. QED BY <1>4, ResetStep DEF rest

LEMMA ClearStateStep ==
    ASSUME IInv, ClearState \/ EmergencyStop PROVE IInv'
  <1>1. CASE job.state = "submitting" /\ Doubt(Undecided, FALSE)
    BY <1>1, DoubtStep, NewestIsTheOpenOne DEF ClearState, EmergencyStop
  <1>2. CASE job.state \in {"claimed", "challenge"} /\ Revoke
    BY <1>2, RevokeStep DEF ClearState, EmergencyStop
  <1>. QED BY <1>1, <1>2 DEF ClearState, EmergencyStop

LEMMA ShutdownReconcileStep ==
    ASSUME IInv, ShutdownReconcile PROVE IInv'
  <1>1. CASE job.state = "submitting"
    BY <1>1, DoubtStep, NewestIsTheOpenOne DEF ShutdownReconcile
  <1>2. CASE job.state # "submitting"
    <2>1. PICK s \in {"ready", "challenge"} :
            job' = [job EXCEPT !.state = s, !.gen = job.gen + 1, !.held = FALSE, !.live = FALSE]
      BY <1>2 DEF ShutdownReconcile
    <2>2. s \in JobStates /\ job \in JobRow
      BY ReadIInv DEF JobStates
    <2>3. job'.state = s
      BY <2>1, <2>2 DEF JobRow
    <2>4. row' = s /\ log' = log /\ silent' = FALSE
      BY <1>2, <2>3, ReadIInv, ProjectedEffect DEF ShutdownReconcile
    <2>5. job.gen # job.gen + 1
      BY <2>2 DEF JobRow
    <2>6. Resets(s)
      BY <1>2, <2>1, <2>4, <2>5, ReadIInv DEF Resets, ShutdownReconcile, Ended, Decided, rest
    <2>. QED BY <2>6, ResetStep DEF ShutdownReconcile, rest
  <1>. QED BY <1>1, <1>2

LEMMA AuthReopenedStep ==
    ASSUME IInv, AuthReopened PROVE IInv'
  <1>1. row' = "ready" /\ log' = log /\ silent' = FALSE
    BY ReadIInv, ProjectedEffect DEF AuthReopened
  <1>2. job' = [job EXCEPT !.state = "ready", !.gen = job.gen, !.held = FALSE, !.live = FALSE]
    <2>1. job' = [job EXCEPT !.state = "ready", !.held = FALSE, !.live = FALSE] /\ job \in JobRow
      BY ReadIInv DEF AuthReopened
    <2>. QED BY <2>1 DEF JobRow
  <1>3. job.gen # job.gen + 1
    BY ReadIInv DEF JobRow
  <1>4. Resets("ready")
    BY <1>1, <1>2, <1>3, ReadIInv DEF Resets, AuthReopened, Decided, rest
  <1>. QED BY <1>4, ResetStep DEF AuthReopened, rest

LEMMA CancelStep ==
    ASSUME IInv, NEW s \in JobStates, Cancel(s) PROVE IInv'
  <1>1. job' = [job EXCEPT !.state = s, !.off = TRUE]
    BY DEF Cancel
  <1>2. job' \in JobRow /\ job'.state = s /\ job'.gen = job.gen /\ job'.held = job.held
    <2>1. job \in JobRow
      BY ReadIInv
    <2>. QED BY <1>1, <2>1 DEF JobRow
  <1>3. row' = s /\ log' = log /\ silent' = FALSE
    BY ReadIInv, ProjectedEffect DEF Cancel
  <1>4. GenRoom' /\ StatusRowFollowsTheJob'
    BY <1>2, <1>3 DEF Cancel, IInv, TypeInv, GenRoom, StatusRowFollowsTheJob
  <1>5. Turns(s)
    BY <1>2, <1>3, <1>4, ReadIInv, KeptAttempts DEF Cancel, Turns, Statuses, Decided, rest
  <1>6. att' = att /\ (s = job.state \/ job.state \notin Decided \union {"submitting"})
    BY DEF Cancel, Decided
  <1>. QED BY <1>2, <1>5, <1>6, TurnKeepsIInv

LEMMA LapseStep ==
    ASSUME IInv, LeaseLapses PROVE IInv'
  <1>1. job' = [job EXCEPT !.live = FALSE]
    BY DEF LeaseLapses
  <1>2. job' \in JobRow /\ job'.state = job.state /\ job'.gen = job.gen /\ job'.held = job.held
    BY <1>1, ReadIInv, JobLapsed
  <1>3. GenRoom' /\ StatusRowFollowsTheJob'
    BY <1>2 DEF LeaseLapses, events, IInv, TypeInv, GenRoom, StatusRowFollowsTheJob
  <1>4. Turns(job.state) /\ att' = att
    BY <1>2, <1>3, ReadIInv, KeptAttempts DEF LeaseLapses, events, Turns, rest
  <1>. QED BY <1>2, <1>4, ReadIInv, TurnKeepsIInv

(* A new job, or none: its attempts, its events and its worker are gone with the old one. *)
LEMMA RenewStep ==
    ASSUME IInv, Enqueue \/ ClearFailed PROVE IInv'
  <1>1. wk' \in Worker /\ wk'.pc = wk.pc /\ wk'.gen = wk.gen /\ wk'.out = wk.out /\ wk'.mine = FALSE
    <2>1. wk' = [wk EXCEPT !.mine = FALSE]
      BY DEF Enqueue, ClearFailed, Renewed
    <2>. QED BY <2>1, ReadIInv, WorkerReplaced
  <1>2. res' \in Request /\ res'.mine = FALSE
    <2>1. res' = [res EXCEPT !.mine = FALSE]
      BY DEF Enqueue, ClearFailed, Renewed
    <2>. QED BY <2>1, ReadIInv, ResumeReplaced
  <1>3. job' \in JobRow /\ job'.state \in {"ready", "absent"} /\ job'.gen = 0 /\ row' = job'.state
    BY JobIsNew DEF Enqueue, ClearFailed
  <1>4. /\ att' = <<>> /\ log' = {} /\ told' = FALSE /\ silent' = FALSE
        /\ cut' = FALSE /\ beside' = FALSE
        /\ stamped' = stamped /\ recent' = recent
        /\ app' \in {app, "none"} /\ pack' \in {pack, "gone"}
    BY DEF Enqueue, ClearFailed, Renewed, Discards
  <1>5. Typed' /\ WorkerHasGen' /\ StatusRowFollowsTheJob'
    BY <1>1, <1>2, <1>3, <1>4, ReadIInv
    DEF Typed, IInv, TypeInv, WorkerHasGen, StatusRowFollowsTheJob, Statuses, JobStates
  <1>6. AttTyped' /\ GenRoom'
    BY <1>1, <1>2, <1>3, <1>4, MaxGenAssumption DEF AttTyped, GenRoom
  <1>7. WorkerFacts' /\ AppliedIsRecorded'
    BY <1>1, <1>3, <1>4
    DEF IInv, Facts, WorkerFacts, Paced, ClearedIsPaced, NewestIsItsOwn, DecidedIsHeld,
        HeldByItsWorker, AppliedByItsWorker, SubmittedByItsWorker, HasOutcome, NoIntentYet,
        AppliedIsRecorded, Decided
  <1>8. IntentIsNewest' /\ IntentIsAccounted'
    BY <1>4 DEF IntentIsNewest, IntentIsAccounted
  <1>. QED BY <1>5, <1>6, <1>7, <1>8 DEF IInv, TypeInv, Facts

LEMMA IntervalStep ==
    ASSUME IInv, IntervalPasses PROVE IInv'
  <1>1. /\ UNCHANGED <<app, pack, job, att, row, log, told, silent, wk, res, cut, beside>>
        /\ stamped' = FALSE /\ recent' = FALSE
    BY DEF IntervalPasses, events
  <1>2. Typed' /\ AttTyped' /\ GenRoom' /\ WorkerHasGen' /\ StatusRowFollowsTheJob'
    BY <1>1 DEF IInv, TypeInv, Typed, AttTyped, GenRoom, WorkerHasGen, StatusRowFollowsTheJob
  <1>3. WorkerFacts'
    BY <1>1 DEF IInv, Facts, WorkerFacts, Paced, ClearedIsPaced, NewestIsItsOwn, DecidedIsHeld,
       HeldByItsWorker, AppliedByItsWorker, SubmittedByItsWorker, HasOutcome, NoIntentYet, Unanswered
  <1>4. IntentIsNewest' /\ IntentIsAccounted' /\ AppliedIsRecorded'
    BY <1>1 DEF IInv, Facts, IntentIsNewest, IntentIsAccounted, AppliedIsRecorded, Owed, Unanswered
  <1>. QED BY <1>2, <1>3, <1>4 DEF IInv, TypeInv, Facts

LEMMA AsideStep ==
    ASSUME IInv, Dismiss \/ MarkDone \/ Regenerate \/ Prune \/ Cleanup \/ SkipApplication
                 \/ CancelApplication \/ \E s \in Statuses \ {"none"} : UpdateStatus(s)
    PROVE  IInv'
  <1>1. Aside
    BY ReadIInv DEF Aside, Dismiss, MarkDone, Regenerate, Prune, Cleanup, SkipApplication,
       CancelApplication, UpdateStatus, Discards, InQueue, Record, Upsert, events, Statuses
  <1>. QED BY <1>1, AsideKeepsIInv

LEMMA OperatorStep ==
    ASSUME IInv, Operator PROVE IInv'
  <1>1. CASE Apply \/ BatchApply \/ ClearFailed
    BY <1>1, RenewStep DEF Apply, BatchApply
  <1>2. CASE SkipInFlight
    BY <1>2, DoubtStep, NewestIsTheOpenOne DEF SkipInFlight
  <1>3. CASE Skip \/ Resolve \/ ClearState \/ AuthReopened
    BY <1>3, SkipStep, ResolveStep, ClearStateStep, AuthReopenedStep
  <1>4. CASE \E s \in JobStates : Cancel(s)
    BY <1>4, CancelStep
  <1>5. CASE Dismiss \/ MarkDone \/ Regenerate \/ Prune \/ Cleanup \/ SkipApplication
             \/ CancelApplication \/ \E s \in Statuses \ {"none"} : UpdateStatus(s)
    BY <1>5, AsideStep
  <1>. QED BY <1>1, <1>2, <1>3, <1>4, <1>5 DEF Operator

-----------------------------------------------------------------------------
(* Safe resume. *)

LEMMA ResumeWalkStep ==
    ASSUME IInv, ResumeChecks \/ ResumeFinds \/ ResumeStamps \/ ResumeMarks \/ ResumeNotes
    PROVE  IInv'
  <1>1. CASE ResumeChecks
    <2>1. UNCHANGED <<tables, wk, history>> /\ res.pc = "none"
      BY <1>1 DEF ResumeChecks
    <2>2. res' \in Request /\ res'.att = 0
      <3>1. job.gen \in 0 .. MaxGen + 1
        BY ReadIInv DEF JobRow
      <3>. QED BY <1>1, <3>1 DEF ResumeChecks, Request, ResumePcs
    <2>3. ResumeWalks
      BY <2>1, <2>2, ReadIInv, RowStays DEF ResumeWalks, ResumeOwes, tables, history
    <2>. QED BY <2>3, ResumeWalkKeepsIInv
  <1>2. CASE ResumeFinds
    <2>1. UNCHANGED <<tables, wk, history>> /\ res.pc = "moved"
      BY <1>2 DEF ResumeFinds
    <2>2. PICK a \in Nat : a = IF res.mine THEN Len(att) ELSE 0
      BY ReadIInv
    <2>3. res' \in Request /\ res'.pc = "found" /\ res'.att = a /\ res'.mine = res.mine
      <3>1. "found" \in ResumePcs /\ res \in Request
        BY ReadIInv DEF ResumePcs
      <3>2. res' = [res EXCEPT !.pc = "found", !.att = a]
        BY <1>2, <2>2 DEF ResumeFinds
      <3>. QED BY <3>1, <3>2 DEF Request
    <2>4. ResumeWalks
      BY <2>1, <2>2, <2>3, ReadIInv, RowStays DEF ResumeWalks, ResumeOwes, tables, history
    <2>. QED BY <2>4, ResumeWalkKeepsIInv
  <1>3. CASE ResumeStamps \/ ResumeMarks
    <2>1. /\ UNCHANGED <<pack, job, att, row, log, told, silent, wk, recent, cut, beside>>
          /\ app' \in Statuses /\ stamped' \in BOOLEAN /\ (stamped => stamped')
          /\ res.pc \in {"completed", "stamped"}
      <3>1. CASE ResumeStamps
        BY <3>1, ReadIInv DEF ResumeStamps, events, history
      <3>2. CASE ResumeMarks
        BY <3>2, ReadIInv DEF ResumeMarks, events, history, Statuses
      <3>. QED BY <1>3, <3>1, <3>2
    <2>2. res' \in Request /\ res'.att = res.att /\ res'.mine = res.mine
      <3>1. {"stamped", "marked"} \subseteq ResumePcs /\ res \in Request /\ res.att \in Nat
        BY ReadIInv DEF ResumePcs, Request
      <3>2. PICK p \in {"stamped", "marked"} : res' = [res EXCEPT !.pc = p]
        BY <1>3 DEF ResumeStamps, ResumeMarks, Resumes
      <3>. QED BY <3>1, <3>2 DEF Request
    <2>3. ResumeWalks
      BY <2>1, <2>2, ReadIInv, RowStays DEF ResumeWalks, ResumeOwes, AttTyped
    <2>. QED BY <2>3, ResumeWalkKeepsIInv
  <1>4. CASE ResumeNotes
    <2>1. UNCHANGED <<app, pack, job, att, told, stamped, wk, history>>
          /\ res.pc \in {"marked", "approved"} /\ res' = NoResume
      BY <1>4 DEF ResumeNotes
    <2>2. StatusRowFollowsTheJob' /\ row' \in JobStates /\ silent' \in BOOLEAN /\ log' = log
      BY <1>4, <2>1, ReadIInv, ProjectedEffect, ProjectedFollows, RowStays DEF ResumeNotes
    <2>3. ResumeWalks
      BY <2>1, <2>2, ReadIInv, ResumeLeaves DEF ResumeWalks, ResumeOwes, history
    <2>. QED BY <2>3, ResumeWalkKeepsIInv
  <1>. QED BY <1>1, <1>2, <1>3, <1>4

LEMMA ResumeEndsStep ==
    ASSUME IInv, ResumeEnds PROVE IInv'
  <1>1. /\ UNCHANGED <<tables, wk, recent, beside>> /\ res' = NoResume
        /\ cut' = (cut \/ (res.mine /\ res.pc \in {"moved", "found"}))
    BY DEF ResumeEnds
  <1>2. ResumeWalks
    BY <1>1, ReadIInv, ResumeLeaves, RowStays DEF ResumeWalks, ResumeOwes, tables
  <1>. QED BY <1>2, ResumeWalkKeepsIInv

LEMMA ResumeRequeuesStep ==
    ASSUME IInv, ResumeRequeues PROVE IInv'
  <1>1. res.pc = "none" /\ res' \in Request /\ res'.pc = "approved" /\ res'.att = 0
    <2>1. PICK r \in Request : r = NoResume /\ r.att = 0
      BY ResumeLeaves DEF NoResume
    <2>2. res' = [r EXCEPT !.pc = "approved", !.mine = TRUE] /\ "approved" \in ResumePcs
      BY <2>1 DEF ResumeRequeues, ResumePcs
    <2>. QED BY <2>1, <2>2 DEF Request, ResumeRequeues
  <1>2. job' = [job EXCEPT !.state = "ready", !.gen = job.gen, !.held = FALSE, !.live = FALSE]
    <2>1. job' = [job EXCEPT !.state = "ready", !.held = FALSE, !.live = FALSE] /\ job \in JobRow
      BY ReadIInv DEF ResumeRequeues
    <2>. QED BY <2>1 DEF JobRow
  <1>3. job.gen # job.gen + 1
    BY ReadIInv DEF JobRow
  <1>4. Resets("ready")
    BY <1>2, <1>3, ReadIInv DEF Resets, ResumeRequeues, Resumable, Decided
  <1>. QED BY <1>1, <1>4, ResetStep

(* The job becomes applied in the name of its holder, whatever the worker is about. *)
LEMMA ResumeAppliesStep ==
    ASSUME IInv, ResumeApplies PROVE IInv'
  <1>1. /\ res.pc = "checked" /\ res.mine /\ job.held
        /\ UNCHANGED <<app, pack, att, log, told, stamped, wk, recent, cut>>
        /\ row' = "applied" /\ silent' = FALSE
        /\ beside' = IF job.state = "applied" THEN beside ELSE wk.mine \/ att = <<>>
    BY DEF ResumeApplies
  <1>2. job' \in JobRow /\ job'.state = "applied" /\ job'.gen = job.gen /\ job'.held = job.held
    <2>1. job' = [job EXCEPT !.state = "applied"] /\ job \in JobRow
      BY ReadIInv DEF ResumeApplies
    <2>2. "applied" \in JobStates
      BY DEF JobStates
    <2>. QED BY <2>1, <2>2, JobMoved
  <1>3. res' \in Request /\ res'.pc = "moved" /\ res'.att = res.att /\ res'.mine = res.mine
    <2>1. res' = [res EXCEPT !.pc = "moved", !.gen = 0] /\ res \in Request
      BY ReadIInv DEF ResumeApplies
    <2>2. "moved" \in ResumePcs /\ 0 \in 0 .. MaxGen + 1
      BY MaxGenAssumption DEF ResumePcs
    <2>. QED BY <2>1, <2>2 DEF Request
  <1>4. job.gen # MaxGen + 1
    BY <1>1 DEF IInv, TypeInv, GenRoom
  <1>5. Typed'
    BY <1>1, <1>2, <1>3, ReadIInv DEF Typed, JobStates
  <1>6. AttTyped' /\ GenRoom' /\ WorkerHasGen' /\ StatusRowFollowsTheJob'
    BY <1>1, <1>2, <1>3, <1>4
    DEF IInv, TypeInv, AttTyped, GenRoom, WorkerHasGen, StatusRowFollowsTheJob
  <1>7. /\ Paced' /\ ClearedIsPaced' /\ NewestIsItsOwn' /\ DecidedIsHeld' /\ HeldByItsWorker'
        /\ AppliedByItsWorker' /\ SubmittedByItsWorker' /\ HasOutcome' /\ NoIntentYet'
    BY <1>1, <1>2 DEF IInv, Facts, WorkerFacts, Paced, ClearedIsPaced, NewestIsItsOwn,
       DecidedIsHeld, HeldByItsWorker, AppliedByItsWorker, SubmittedByItsWorker, HasOutcome,
       NoIntentYet, Unanswered
  <1>8. IntentIsNewest'
    BY <1>1 DEF IInv, Facts, IntentIsNewest, Unanswered
  <1>9. \A i : Owed(i)'
    BY <1>1, <1>3 DEF Owed
  <1>10. IntentIsAccounted'
    BY <1>2, <1>9 DEF IntentIsAccounted
  <1>11. AppliedIsRecorded'
    <2>1. ASSUME ~cut, ~beside' PROVE att # <<>>
      BY <1>1, <2>1 DEF IInv, Facts, AppliedIsRecorded
    <2>. QED BY <1>1, <1>9, <2>1 DEF AppliedIsRecorded
  <1>. QED BY <1>5, <1>6, <1>7, <1>8, <1>10, <1>11 DEF IInv, TypeInv, Facts, WorkerFacts

(* And its newest attempt, without a fence. *)
LEMMA ResumeCompletesStep ==
    ASSUME IInv, ResumeCompletes PROVE IInv'
  <1>1. /\ res.pc = "found" /\ res' = [res EXCEPT !.pc = "completed", !.att = 0]
        /\ UNCHANGED <<app, pack, job, row, log, told, silent, stamped, wk, recent, cut, beside>>
        /\ IF res.mine THEN Decide(res.att, "applied") ELSE UNCHANGED att
    BY DEF ResumeCompletes, events, history
  <1>2. res' \in Request /\ res'.pc = "completed" /\ res'.att = 0
    <2>1. res \in Request /\ "completed" \in ResumePcs /\ 0 \in Nat
      BY ReadIInv DEF ResumePcs
    <2>. QED BY <1>1, <2>1 DEF Request
  <1>3. att \in Seq(Attempt) /\ DOMAIN att = 1 .. Len(att) /\ Len(att) \in Nat
    BY ReadIInv
  <1>4. /\ SameAttempts
        /\ res.mine /\ res.att \in 1 .. Len(att) => att'[res.att].outcome = "applied"
        /\ ~res.mine => att' = att
        /\ \A k \in 1 .. Len(att) : k # res.att => att'[k] = att[k]
    <2>1. "applied" \in Outcomes
      BY DEF Outcomes
    <2>2. \A k \in 1 .. Len(att) : k # res.att => att'[k] = att[k]
      BY <1>1, <1>3 DEF Decide
    <2>. QED BY <1>1, <1>3, <2>1, <2>2, DecideKeeps, KeptAttempts
  <1>5. /\ att' \in Seq(Attempt) /\ Len(att') = Len(att) /\ DOMAIN att' = 1 .. Len(att)
        /\ \A i \in 1 .. Len(att) : Unanswered(i)' => Unanswered(i) /\ att'[i].gen = att[i].gen
    BY <1>3, <1>4, SameUnanswered
  <1>6. Typed' /\ AttTyped' /\ GenRoom' /\ WorkerHasGen' /\ StatusRowFollowsTheJob'
    BY <1>1, <1>2, <1>5
    DEF IInv, TypeInv, Typed, AttTyped, GenRoom, WorkerHasGen, StatusRowFollowsTheJob
  <1>7. WorkerFacts'
    <2>1. NewestIsItsOwn'
      BY <1>1, <1>4 DEF SameAttempts, IInv, Facts, WorkerFacts, NewestIsItsOwn
    <2>2. NoIntentYet'
      BY <1>1, <1>5 DEF IInv, Facts, WorkerFacts, NoIntentYet
    <2>. QED BY <1>1, <2>1, <2>2
         DEF IInv, Facts, WorkerFacts, Paced, ClearedIsPaced, DecidedIsHeld, HeldByItsWorker,
             AppliedByItsWorker, SubmittedByItsWorker, HasOutcome
  <1>8. IntentIsNewest'
    BY <1>5 DEF IInv, Facts, IntentIsNewest
  <1>9. ASSUME NEW i, Owed(i), ~Owed(i)' PROVE res.mine /\ res.att = i
    BY <1>1, <1>9 DEF Owed
  <1>10. IntentIsAccounted'
    <2>1. SUFFICES ASSUME NEW i \in 1 .. Len(att), Unanswered(i), Unanswered(i)',
                          att'[i].gen = att[i].gen
                   PROVE  \/ job.state = "submitting" /\ job.gen = att[i].gen
                          \/ job.state \in Decided /\ (cut \/ Owed(i)')
      BY <1>1, <1>5 DEF IntentIsAccounted, Unanswered, Decided
    <2>2. \/ job.state = "submitting" /\ job.gen = att[i].gen
          \/ job.state \in Decided /\ (cut \/ Owed(i))
      BY <1>3, <2>1 DEF IInv, Facts, IntentIsAccounted, Unanswered, Decided
    <2>3. ~(res.mine /\ res.att = i)
      BY <1>4, <2>1 DEF Unanswered
    <2>. QED BY <1>9, <2>2, <2>3
  <1>11. AppliedIsRecorded'
    <2>1. SUFFICES ASSUME job.state = "applied", ~cut, ~beside
                   PROVE  att' # <<>> /\ (Last(att').outcome = "applied" \/ Owed(Len(att))')
      BY <1>1, <1>5 DEF AppliedIsRecorded
    <2>2. att # <<>> /\ (Last(att).outcome = "applied" \/ Owed(Len(att)))
      BY <2>1 DEF IInv, Facts, AppliedIsRecorded
    <2>3. Len(att) \in 1 .. Len(att) /\ att' # <<>>
      BY <1>3, <1>5, <2>2
    <2>4. CASE res.mine /\ res.att = Len(att)
      BY <1>4, <1>5, <2>3, <2>4 DEF Last
    <2>5. CASE ~(res.mine /\ res.att = Len(att))
      <3>1. att'[Len(att)] = att[Len(att)]
        BY <1>4, <2>3, <2>5
      <3>2. Owed(Len(att)) => Owed(Len(att))'
        BY <1>1, <1>5, <2>5 DEF Owed
      <3>. QED BY <1>5, <2>2, <2>3, <3>1, <3>2 DEF Last
    <2>. QED BY <2>4, <2>5
  <1>. QED BY <1>6, <1>7, <1>8, <1>10, <1>11 DEF IInv, TypeInv, Facts

LEMMA ResumeKeepsIInv ==
    ASSUME IInv, Resume PROVE IInv'
  BY ResumeWalkStep, ResumeEndsStep, ResumeRequeuesStep, ResumeAppliesStep, ResumeCompletesStep
  DEF Resume

-----------------------------------------------------------------------------
(* Every step of the specification. *)

LEMMA WorkerStepKeepsIInv ==
    ASSUME IInv, WorkerStep PROVE IInv'
  <1>1. CASE CreateAttempt \/ RecordStarted \/ Released \/ PassChecks
    BY <1>1, CreateAttemptStep, RecordStartedStep, ReleasedStep, PassChecksStep
  <1>2. CASE \/ BrowserFails \/ BrowserOnlyFills \/ NoClick
             \/ \E a \in {"applied", "ambiguous", "failed_permanent"} : Click(a)
    BY <1>2, BrowserStep
  <1>3. CASE ReopenForLogin \/ SkipFilled \/ CompleteFilled
    BY <1>3, QuietTurnStep, CompleteFilledStep
  <1>4. CASE Reschedule
         \/ \E s \in {"retry_wait", "failed_permanent", "challenge"} : FailWithoutAttempt(s) \/ Fail(s)
    BY <1>4, FailWithoutAttemptStep, FailStep
  <1>5. CASE RecordIntent \/ Reconcile \/ CompleteAttempt \/ Stamp \/ MarkApplied \/ Note
    BY <1>5, RecordIntentStep, ReconcileStep, CompleteAttemptStep, StampStep, NoteStep
  <1>. QED BY <1>1, <1>2, <1>3, <1>4, <1>5 DEF WorkerStep

LEMMA StepKeepsIInv ==
    ASSUME IInv, [Next]_vars PROVE IInv'
  <1>1. CASE Claim
    BY <1>1, ClaimStep
  <1>2. CASE WorkerStep
    BY <1>2, WorkerStepKeepsIInv
  <1>3. CASE Crash \/ LeaseLapses \/ IntervalPasses
    BY <1>3, CrashStep, LapseStep, IntervalStep
  <1>4. CASE Sweep
    BY <1>4, DoubtStep, NewestIsTheOpenOne, RepairStep DEF Sweep, ReconcileStranded
  <1>5. CASE Operator
    BY <1>5, OperatorStep
  <1>6. CASE Stops
    BY <1>6, ClearStateStep, ShutdownReconcileStep DEF Stops
  <1>7. CASE Resume
    BY <1>7, ResumeKeepsIInv
  <1>8. CASE UNCHANGED vars
    <2>1. Aside
      BY <1>8, ReadIInv DEF vars, tables, Aside
    <2>. QED BY <2>1, AsideKeepsIInv
  <1>. QED BY <1>1, <1>2, <1>3, <1>4, <1>5, <1>6, <1>7, <1>8 DEF Next, Steps

LEMMA InitIsFine ==
    Init => IInv
  <1>. SUFFICES ASSUME Init PROVE IInv
    OBVIOUS
  <1>1. job \in JobRow /\ job.state = "absent" /\ job.gen = 0
    BY JobIsNew DEF Init
  <1>2. wk \in Worker /\ wk.pc = "idle" /\ wk.mine = FALSE
    BY WorkerLeaves DEF Init
  <1>3. res \in Request /\ res.mine = FALSE
    BY ResumeLeaves DEF Init
  <1>4. Typed
    BY <1>1, <1>2, <1>3 DEF Init, Typed, Statuses, JobStates, Keys
  <1>5. AttTyped /\ GenRoom /\ WorkerHasGen
    BY <1>1, <1>2, <1>3, MaxGenAssumption DEF Init, AttTyped, GenRoom, WorkerHasGen
  <1>6. StatusRowFollowsTheJob /\ WorkerFacts
    BY <1>1, <1>2 DEF Init, StatusRowFollowsTheJob, WorkerFacts, Paced, ClearedIsPaced,
       NewestIsItsOwn, DecidedIsHeld, HeldByItsWorker, AppliedByItsWorker, SubmittedByItsWorker,
       HasOutcome, NoIntentYet, Decided
  <1>7. IntentIsNewest /\ IntentIsAccounted /\ AppliedIsRecorded
    BY <1>1 DEF Init, IntentIsNewest, IntentIsAccounted, AppliedIsRecorded
  <1>. QED BY <1>4, <1>5, <1>6, <1>7 DEF IInv, TypeInv, Facts

LEMMA Invariance ==
    Spec => []IInv
  <1>1. IInv /\ [Next]_vars => IInv'
    BY StepKeepsIInv
  <1>. QED BY <1>1, InitIsFine, PTL DEF Spec

-----------------------------------------------------------------------------
(* What a step does, by its kind. *)

(* The steps at which the worker is where it was. *)
LEMMA OthersLeaveTheWorker ==
    ASSUME IInv, Sweep \/ Operator \/ Stops \/ LeaseLapses \/ IntervalPasses \/ Resume
    PROVE  wk'.pc = wk.pc
  <1>1. wk' = wk \/ wk' = [wk EXCEPT !.mine = FALSE]
    <2>1. CASE Sweep \/ LeaseLapses \/ IntervalPasses \/ Stops
      BY <2>1 DEF Sweep, ReconcileStranded, Repair, LeaseLapses, IntervalPasses, Stops,
         EmergencyStop, ShutdownReconcile
    <2>2. CASE Operator
      BY <2>2 DEF Operator, Apply, BatchApply, Enqueue, Renewed, SkipInFlight, Skip, Resolve,
         ClearState, AuthReopened, ClearFailed, Cancel, Dismiss, MarkDone, Regenerate, Prune,
         Cleanup, SkipApplication, CancelApplication, UpdateStatus
    <2>3. CASE Resume
      BY <2>3 DEF Resume, ResumeChecks, ResumeApplies, ResumeFinds, ResumeCompletes, ResumeStamps,
         ResumeMarks, ResumeRequeues, ResumeNotes, ResumeEnds
    <2>. QED BY <2>1, <2>2, <2>3
  <1>. QED BY <1>1, ReadIInv, WorkerReplaced

LEMMA StaleStep ==
    ASSUME IInv, WorkerStep \/ Crash, wk.pc # "leaving", ~Owns
    PROVE  job' = job /\ \A i \in DOMAIN att : att'[i].outcome = att[i].outcome
  <1>1. CASE CreateAttempt
    <2>1. job' = job
      BY <1>1 DEF CreateAttempt
    <2>2. CASE att' = att
      BY <2>1, <2>2
    <2>3. CASE att' = Append(att, [gen |-> wk.gen, intent |-> FALSE, outcome |-> "open"])
      <3>1. \A i \in DOMAIN att : att'[i] = att[i]
        BY <2>3, ReadIInv
      <3>. QED BY <2>1, <3>1
    <2>. QED BY <1>1, <2>2, <2>3 DEF CreateAttempt
  <1>2. CASE RecordStarted \/ Released \/ PassChecks \/ Stamp \/ MarkApplied \/ Note \/ Crash
    BY <1>2 DEF RecordStarted, Released, PassChecks, Stamp, MarkApplied, Note, Crash, tables
  <1>3. CASE \/ BrowserFails \/ BrowserOnlyFills \/ NoClick
             \/ \E a \in {"applied", "ambiguous", "failed_permanent"} : Click(a)
    BY <1>3 DEF BrowserFails, BrowserOnlyFills, NoClick, Click, BrowserRecords
  <1>4. CASE ReopenForLogin \/ SkipFilled \/ CompleteFilled \/ CompleteAttempt
    BY <1>4 DEF ReopenForLogin, SkipFilled, CompleteFilled, CompleteAttempt, Accepts
  <1>5. CASE Reschedule \/ RecordIntent \/ Reconcile
         \/ \E s \in {"retry_wait", "failed_permanent", "challenge"} : FailWithoutAttempt(s) \/ Fail(s)
    BY <1>5 DEF Reschedule, RecordIntent, Reconcile, FailWithoutAttempt, Fail, Transition, Move,
       Live, Refused, tables
  <1>. QED BY <1>1, <1>2, <1>3, <1>4, <1>5 DEF WorkerStep

(* The one step that begins a submission. *)
LEMMA OnlyIntentSubmits ==
    ASSUME IInv, [Next]_vars, job'.state = "submitting", job.state # "submitting"
    PROVE  RecordIntent
  <1>0. job \in JobRow /\ \E j \in JobRow : j = NoJob /\ j.state = "absent"
    BY ReadIInv, JobIsNew
  <1>1. CASE \E s \in {"retry_wait", "failed_permanent", "challenge", "applied"} : Transition(s)
    BY <1>0, <1>1 DEF Transition, Move, JobRow
  <1>2. CASE \E i, t : Doubt(i, t)
    BY <1>0, <1>2 DEF Doubt, JobRow
  <1>3. CASE job' = job
    BY <1>3
  <1>4. CASE Claim
    BY <1>0, <1>4 DEF Claim, JobRow
  <1>5. CASE ReopenForLogin \/ SkipFilled
    BY <1>0, <1>5 DEF ReopenForLogin, SkipFilled, JobRow
  <1>6. CASE LeaseLapses \/ \E s \in JobStates : Cancel(s)
    BY <1>0, <1>6 DEF LeaseLapses, Cancel, JobRow
  <1>7. CASE Apply \/ BatchApply \/ ClearFailed \/ Skip \/ Resolve
    <2>1. PICK j \in JobRow : j = NoJob /\ j.state = "absent"
      BY <1>0
    <2>2. \/ job' = j
          \/ job' = [j EXCEPT !.state = "ready"]
          \/ job' = [j EXCEPT !.state = "ready", !.gen = job.gen + 1]
          \/ job' = [j EXCEPT !.state = "skipped", !.gen = job.gen + 1, !.off = TRUE]
      BY <1>7, <2>1 DEF Apply, BatchApply, Enqueue, ClearFailed, Skip, Resolve
    <2>. QED BY <2>1, <2>2 DEF JobRow
  <1>8. CASE Revoke \/ AuthReopened \/ ResumeRequeues \/ ResumeApplies
    BY <1>0, <1>8 DEF Revoke, AuthReopened, ResumeRequeues, ResumeApplies, JobRow
  <1>9. CASE ClearState \/ Stops
    <2>1. CASE ShutdownReconcile /\ ~\E i, t : Doubt(i, t)
      <3>1. PICK s \in {"ready", "challenge"} :
              job' = [job EXCEPT !.state = s, !.gen = job.gen + 1, !.held = FALSE, !.live = FALSE]
        BY <2>1 DEF ShutdownReconcile
      <3>. QED BY <1>0, <3>1 DEF JobRow
    <2>. QED BY <1>2, <1>8, <1>9, <2>1 DEF ClearState, Stops, EmergencyStop
  <1>10. CASE WorkerStep
    BY <1>1, <1>2, <1>3, <1>5, <1>10
    DEF WorkerStep, CreateAttempt, RecordStarted, Released, PassChecks, Reschedule, BrowserFails,
        BrowserOnlyFills, CompleteFilled, FailWithoutAttempt, Fail, NoClick, Click, BrowserRecords,
        Reconcile, CompleteAttempt, Stamp, MarkApplied, Note, Refused, tables
  <1>11. CASE Crash \/ IntervalPasses \/ Sweep
    BY <1>2, <1>3, <1>11 DEF Crash, IntervalPasses, Sweep, ReconcileStranded, Repair, tables
  <1>12. CASE Operator
    BY <1>2, <1>3, <1>6, <1>7, <1>8, <1>9, <1>12
    DEF Operator, SkipInFlight, Dismiss, MarkDone, Regenerate, Prune, Cleanup, SkipApplication,
        CancelApplication, UpdateStatus
  <1>13. CASE Resume
    BY <1>3, <1>8, <1>13
    DEF Resume, ResumeChecks, ResumeFinds, ResumeCompletes, ResumeStamps, ResumeMarks, ResumeNotes,
        ResumeEnds, tables
  <1>14. CASE UNCHANGED vars
    BY <1>3, <1>14 DEF vars, tables
  <1>. QED BY <1>4, <1>6, <1>9, <1>10, <1>11, <1>12, <1>13, <1>14 DEF Next, Steps

-----------------------------------------------------------------------------
(* The theorems. *)

(* The records of an application keep their types, generations one beyond the claims' bound
   included, and a worker's or a resume's attempt is one of the job's. *)
THEOREM TypeCorrect == Spec => []TypeOK
  <1>1. IInv => TypeOK
    BY DEF IInv, TypeInv, Typed, AttTyped, TypeOK, JobRow, Worker, Request, Attempt, Keys
  <1>. QED BY <1>1, Invariance, PTL

(* An attempt whose submission may have been sent is never forgotten, by stops, shutdowns and safe
   resumes included: it is in flight, or whoever decided its job, the worker or a resume, is about
   to record what became of it or stopped before it could. *)
THEOREM IntentAccounted == Spec => []IntentIsAccounted
  <1>1. IInv => IntentIsAccounted
    BY DEF IInv, Facts
  <1>. QED BY <1>1, Invariance, PTL

(* The status row the dashboard shows follows the job, although events are deduplicated, but for a
   job that was made ready without an event, until its next one. *)
THEOREM RowFollows == Spec => []StatusRowFollowsTheJob
  <1>1. IInv => StatusRowFollowsTheJob
    BY DEF IInv
  <1>. QED BY <1>1, Invariance, PTL

(* The newest attempt of an applied job says applied, unless whoever made it so stopped before it
   could, or was a resume beside the worker or before an attempt. *)
THEOREM AppliedRecorded == Spec => []AppliedIsRecorded
  <1>1. IInv => AppliedIsRecorded
    BY DEF IInv, Facts
  <1>. QED BY <1>1, Invariance, PTL

(* No submission begins within the pacing interval of one its worker recorded, although the check
   and the intent are two transactions. *)
THEOREM Paces == Spec => PacingIsKept
  <1>1. IInv /\ [Next]_vars => [job'.state = "submitting" /\ job.state # "submitting" => ~recent]_vars
    <2>. SUFFICES ASSUME IInv, [Next]_vars, job'.state = "submitting", job.state # "submitting"
                  PROVE  ~recent
      OBVIOUS
    <2>1. RecordIntent
      BY OnlyIntentSubmits
    <2>. QED BY <2>1 DEF RecordIntent, IInv, Facts, WorkerFacts, ClearedIsPaced
  <1>. QED BY <1>1, Invariance, PTL DEF Spec, PacingIsKept

(* A worker that lost its lease changes neither the job nor the outcome of an attempt. *)
THEOREM StaleWrites == Spec => StaleWorkerWritesNothing
  <1>1. IInv /\ [Next]_vars =>
          [wk.pc \notin {"idle", "leaving"} /\ wk'.pc # wk.pc /\ ~Owns =>
              /\ job' = job
              /\ \A i \in DOMAIN att : att'[i].outcome = att[i].outcome]_vars
    <2>. SUFFICES ASSUME IInv, [Next]_vars, wk.pc \notin {"idle", "leaving"}, wk'.pc # wk.pc, ~Owns
                  PROVE  job' = job /\ \A i \in DOMAIN att : att'[i].outcome = att[i].outcome
      OBVIOUS
    <2>1. WorkerStep \/ Crash
      BY OthersLeaveTheWorker DEF Next, Steps, Claim, vars
    <2>. QED BY <2>1, StaleStep
  <1>. QED BY <1>1, Invariance, PTL DEF Spec, StaleWorkerWritesNothing

=============================================================================
