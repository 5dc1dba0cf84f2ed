------------------------------ MODULE Takeover ------------------------------
(***************************************************************************)
(* What the manual takeover promises to the operators who share one         *)
(* browser: at most one of them holds it, and while a relay carries an      *)
(* operator's keystrokes nobody else can come to hold it.  The holder may   *)
(* lose the browser meanwhile (the lease runs out, the runtime is stopped    *)
(* or cleared by the command line); what is being carried then ends.         *)
(***************************************************************************)
CONSTANTS Operators, None

VARIABLES
  holder,      \* who holds the browser, or None
  carried      \* whose input a relay is carrying to the browser, or None

Init == holder = None /\ carried = None

Take(o) ==
  /\ holder \in {None, o}
  /\ carried = None
  /\ holder' = o
  /\ UNCHANGED carried

Lose == holder' = None /\ UNCHANGED carried

Carry(o) ==
  /\ carried = None
  /\ holder = o
  /\ carried' = o
  /\ UNCHANGED holder

Arrive == carried # None /\ carried' = None /\ UNCHANGED holder

Next == (\E o \in Operators : Take(o) \/ Carry(o)) \/ Lose \/ Arrive

Spec == Init /\ [][Next]_<<holder, carried>>
=============================================================================
