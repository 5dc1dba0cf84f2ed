----------------------------- MODULE MCRecords -----------------------------
(* Records of one application, on three instances chosen at the start by what *)
(* is bounded in each:                                                        *)
(*   twice    its job reaches two submissions: a claim, a doubt, a resolution, *)
(*            a second claim and a second doubt.  No safe resume.             *)
(*   resumed  safe resumes, over two claims of a job.                         *)
(*   purged   one claim of a job, and packages that are moved or deleted,     *)
(*            which stay where they are in the other two.  No safe resume.    *)
EXTENDS Records

VARIABLE scope

Claims == CASE scope = "twice" -> 4 [] scope = "resumed" -> 2 [] scope = "purged" -> 1

Within ==
    /\ scope' = scope
    /\ job'.gen <= Claims \/ job'.state = "ambiguous"
    /\ scope # "resumed" => res' = res
    /\ scope # "purged" => pack' = pack

scopedVars == <<vars, scope>>

ScopedInit == Init /\ scope \in {"twice", "resumed", "purged"}

ScopedNext == Next /\ Within

ScopedSpec == ScopedInit /\ [][ScopedNext]_scopedVars /\ Fairness
=============================================================================
