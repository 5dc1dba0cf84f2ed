-------------------------- MODULE MCBrowserSession --------------------------
(* BrowserSession on two instances, one of which is chosen at the start:      *)
(*   handover  two operators, and daemons that stay up                        *)
(*   shutdown  one operator, who sends no input, and a daemon that may stop   *)
EXTENDS BrowserSession

CONSTANTS w1, w2, o1, o2, j1

VARIABLE scope

Within ==
  /\ scope' = scope
  /\ scope = "handover" => \A w \in Workers : wk'[w].daemon = "up"
  /\ scope = "shutdown" => ctl'.owner # o2 /\ pass' # o2 /\ relay' = None

scopedVars == <<vars, scope>>

ScopedInit == Init /\ scope \in {"handover", "shutdown"}

ScopedNext == Next /\ Within

ScopedSpec == ScopedInit /\ [][ScopedNext]_scopedVars /\ Fairness
=============================================================================
