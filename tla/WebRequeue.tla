---------------------------- MODULE WebRequeue ----------------------------
(***************************************************************************)
(* The queue together with the dashboard's tracker requeue, which writes    *)
(* automation_jobs itself instead of going through resolve_job.             *)
(***************************************************************************)
EXTENDS JobQueue

VARIABLE resets   \* jobs a requeue call has read and is about to reset

webVars == <<vars, resets>>

WebInit == Init /\ resets = {}

(* enqueue_job returned the active job of the application; the call goes on   *)
(* with the state it saw unless that is ready or one of a running worker.     *)
RequeueReads(j) ==
    /\ DbFree
    /\ job[j].state \in Challenge \cup {"retry_wait", "ambiguous_submission"}
    /\ resets' = resets \cup {j}
    /\ UNCHANGED vars

(* A transaction of its own: whatever the job is by now, it becomes ready,    *)
(* with its owner and generation as they are.                                 *)
RequeueResets(j) ==
    /\ DbFree
    /\ j \in resets
    /\ job' = [job EXCEPT ![j].state = "ready", ![j].attempts = 0,
                          ![j].cancelled = FALSE]
    /\ resets' = resets \ {j}
    /\ UNCHANGED <<ctl, wk, fence, clicked>>

WebNext ==
    \/ Next /\ UNCHANGED resets
    \/ \E j \in Jobs : RequeueReads(j) \/ RequeueResets(j)

WebSpec == WebInit /\ [][WebNext]_webVars

(* docs/autonomous-pipeline.md:192 asks for the force=true gate before an      *)
(* ambiguous submission is queued again, and line 315 says the system NEVER    *)
(* clicks submit again: no worker reaches the button of a job that was clicked *)
(* and not reopened by force.                                                  *)
RequeueNeverClicksAgain == NoSecondClick
=============================================================================
