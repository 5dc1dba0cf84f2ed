------------------------------- MODULE Viewer -------------------------------
(***************************************************************************)
(* The viewer sockets of the dashboard (web/edge_auth.py): a connection is  *)
(* admitted with a token, opens the remote screen, and relays the client's  *)
(* RFB messages through a filter that lets input pass only while the        *)
(* connection's owner holds the takeover (automation/queue.py).             *)
(*                                                                          *)
(* The client's byte stream is cut into payloads anywhere.  A byte is a     *)
(* unit, known by what it says where a message starts: a message of the     *)
(* handshake, the type of a frame, or anything else.  A frame is as many    *)
(* units as its type says.  Receiving a payload, asking who holds the       *)
(* takeover, filtering and sending happen under the transport lock and are  *)
(* one step here (BrowserSession takes them apart).                         *)
(***************************************************************************)
EXTENDS Integers, Sequences

CONSTANTS
  Viewers,         \* connections
  Operators,       \* identities
  MaxPayload,      \* units of a payload
  MaxBuffer,       \* _MAX_RFB_BUFFER_SIZE
  MaxDuration,     \* viewer_max_duration_seconds
  ConnectTimeout,  \* how long opening the remote screen may take
  MaxToken,        \* longest remaining life of a token
  LeaseTime,       \* longest takeover lease
  None

ASSUME Bounds ==
  {MaxPayload, MaxBuffer, MaxDuration, ConnectTimeout, MaxToken, LeaseTime} \subseteq Nat

ASSUME NobodyIsNone ==
  None \notin Operators /\ None \notin {"request", "key", "text"} /\ None \notin BOOLEAN

VARIABLES
  holder,  \* manual_takeover_owner
  lease,   \* how long its lease still lasts
  conn,    \* each connection
  rfb,     \* its RfbReadOnlyState
  sent     \* what the last payload put on the wire of the remote screen

vars == <<holder, lease, conn, rfb, sent>>

Min2(a, b) == IF a < b THEN a ELSE b

(* How many units a frame has: a screen request, a key or pointer event, a  *)
(* pasted text that no buffer holds.                                        *)
Frames == {"request", "key", "text"}
FrameLength == [request |-> 2, key |-> 3, text |-> MaxBuffer + 1]
Input == {"key", "text"}

Units == {"message", "vnc"} \cup Frames
Payloads == UNION {[1..n -> Units] : n \in 1..MaxPayload}

(* A fresh RfbReadOnlyState: no frame begun.  clean says of the frame begun *)
(* whether all of it came while its viewer was allowed input.               *)
Fresh == [phase |-> "version", frame |-> None, have |-> 0, tag |-> None, clean |-> TRUE]

NoConnection ==
  [phase |-> "off", owner |-> None, token |-> 0, age |-> 0, limit |-> 0, left |-> 0]

Init ==
  /\ holder = None
  /\ lease = 0
  /\ conn = [v \in Viewers |-> NoConnection]
  /\ rfb = [v \in Viewers |-> Fresh]
  /\ sent = {}

----------------------------------------------------------------------------
(* The filter. *)

DropFrame(s) == [s EXCEPT !.frame = None, !.have = 0, !.tag = None, !.clean = TRUE]
Rejected(s) == [DropFrame(s) EXCEPT !.phase = "rejected"]

(* What a message of the handshake leads to, by the phase it comes in. *)
Handshake ==
  [version |-> [message |-> "security"],
   security |-> [message |-> "init", vnc |-> "response"],
   response |-> [u \in Units |-> "init"],
   init |-> [message |-> "initialized"]]

(* One more unit: s is the state, out the frames let through, and nothing   *)
(* after a frame of unknown type is looked at.                              *)
Greet(p, u) ==
  LET next == Handshake[p.s.phase] IN
  IF u \in DOMAIN next
  THEN [p EXCEPT !.s.phase = next[u]]
  ELSE [p EXCEPT !.s = Rejected(p.s), !.over = TRUE]

Begin(p, u, allowed) ==
  IF u \notin Frames
  THEN [p EXCEPT !.s = DropFrame(p.s), !.over = TRUE]
  ELSE [p EXCEPT !.s.frame = u, !.s.have = 1, !.s.clean = allowed,
                 !.s.tag = IF @ = None THEN allowed ELSE @]

Continue(p, allowed) ==
  LET s == p.s
      clean == s.clean /\ allowed
      whole == s.have + 1 = FrameLength[s.frame] IN
  IF ~whole
  THEN [p EXCEPT !.s.have = s.have + 1, !.s.clean = clean]
  ELSE [p EXCEPT
          !.s = [s EXCEPT !.frame = None, !.have = 0, !.clean = TRUE],
          !.out = IF allowed \/ s.frame \notin Input
                  THEN @ \cup {[kind |-> s.frame, clean |-> clean]} ELSE @]

Take(p, u, allowed) ==
  CASE p.over -> p
    [] ~p.over /\ p.s.phase # "initialized" -> Greet(p, u)
    [] ~p.over /\ p.s.phase = "initialized" /\ p.s.frame = None -> Begin(p, u, allowed)
    [] ~p.over /\ p.s.phase = "initialized" /\ p.s.frame # None -> Continue(p, allowed)

(* Mutant: the tag outlives the frame it was for. *)
StillTagged(s) == s

(* The tag of an emptied buffer goes with it. *)
Untagged(s) == IF s.frame = None THEN [s EXCEPT !.tag = None] ELSE s

(* What the filter has made of the first n units, for every n. *)
Reading(s, payload, allowed) ==
  LET read[n \in 0..Len(payload)] ==
        IF n = 0 THEN [s |-> s, out |-> {}, over |-> FALSE]
        ELSE Take(read[n - 1], payload[n], allowed)
  IN read

Parsed(s, payload, allowed) ==
  LET p == Reading(s, payload, allowed)[Len(payload)]
  IN [p EXCEPT !.s = Untagged(p.s)]

Nothing(s) == [s |-> s, out |-> {}, over |-> TRUE]

(* Mutant: a frame begun before input was allowed is completed after. *)
FilteredAcross(s, payload, allowed) ==
  CASE s.phase = "rejected" -> Nothing(s)
    [] OTHER ->
         IF s.have + Len(payload) > MaxBuffer THEN Nothing(Rejected(s))
         ELSE Parsed(s, payload, allowed)

(* A frame begun under another authorisation is dropped with the payload    *)
(* that continues it; a buffer that would grow too large ends the relay of  *)
(* this connection's messages.                                              *)
Filtered(s, payload, allowed) ==
  CASE s.phase = "rejected" -> Nothing(s)
    [] s.frame # None /\ s.tag # allowed -> Nothing(DropFrame(s))
    [] OTHER ->
         IF s.have + Len(payload) > MaxBuffer THEN Nothing(Rejected(s))
         ELSE Parsed(s, payload, allowed)

----------------------------------------------------------------------------
(* The takeover. *)
Live == lease > 0

Claim(o) ==
  /\ ~(Live /\ holder # None /\ holder # o)
  /\ holder' = o
  /\ lease' \in 1..LeaseTime
  /\ sent' = {}
  /\ UNCHANGED <<conn, rfb>>

(* A lease that has run out is not renewed, nor is somebody else's. *)
Renew(o) ==
  /\ holder = o /\ Live
  /\ lease' \in 1..LeaseTime
  /\ sent' = {}
  /\ UNCHANGED <<holder, conn, rfb>>

Release(o) ==
  /\ holder \in {None, o}
  /\ holder' = None
  /\ lease' = 0
  /\ sent' = {}
  /\ UNCHANGED <<conn, rfb>>

----------------------------------------------------------------------------
(* The connections. *)
Goes(v, phase) == conn[v].phase = phase

(* Mutant: only the configured maximum bounds a connection. *)
ConnectForLong(v) ==
  \E o \in Operators, t \in 1..MaxToken :
    /\ Goes(v, "off")
    /\ conn' = [conn EXCEPT ![v] =
         [phase |-> "connecting", owner |-> o, token |-> t, age |-> 0,
          limit |-> MaxDuration, left |-> 0]]
    /\ rfb' = [rfb EXCEPT ![v] = Fresh]
    /\ sent' = {}
    /\ UNCHANGED <<holder, lease>>

(* Accepted: the token was valid a moment ago, and what is left of it       *)
(* bounds the relay; the clock of the relay starts later, with the relay.   *)
Connect(v) ==
  \E o \in Operators, t \in 1..MaxToken :
    /\ Goes(v, "off")
    /\ conn' = [conn EXCEPT ![v] =
         [phase |-> "connecting", owner |-> o, token |-> t, age |-> 0,
          limit |-> Min2(MaxDuration, t), left |-> 0]]
    /\ rfb' = [rfb EXCEPT ![v] = Fresh]
    /\ sent' = {}
    /\ UNCHANGED <<holder, lease>>

(* The remote screen is open; both forwarders start and so does the timeout *)
(* of the wait for the first of them to end.                                *)
Opened(v) ==
  /\ Goes(v, "connecting")
  /\ conn' = [conn EXCEPT ![v].phase = "relaying", ![v].left = conn[v].limit]
  /\ sent' = {}
  /\ UNCHANGED <<holder, lease, rfb>>

(* The remote screen cannot be opened, a side hangs up, a forwarder fails. *)
Ends(v) ==
  /\ ~Goes(v, "off")
  /\ conn' = [conn EXCEPT ![v] = NoConnection]
  /\ rfb' = [rfb EXCEPT ![v] = Fresh]
  /\ sent' = {}
  /\ UNCHANGED <<holder, lease>>

Expires(v) == Goes(v, "relaying") /\ conn[v].left = 0 /\ Ends(v)

(* viewer_input_authorized *)
MayInput(v) == Live /\ holder = conn[v].owner

(* Mutant: the connection's time counts from its last payload. *)
RelayWhileUsed(v, payload) ==
  LET p == Filtered(rfb[v], payload, MayInput(v)) IN
  /\ Goes(v, "relaying")
  /\ rfb' = [rfb EXCEPT ![v] = p.s]
  /\ sent' = p.out
  /\ conn' = [conn EXCEPT ![v].left = conn[v].limit]
  /\ UNCHANGED <<holder, lease>>

Relay(v, payload) ==
  LET p == Filtered(rfb[v], payload, MayInput(v)) IN
  /\ Goes(v, "relaying")
  /\ rfb' = [rfb EXCEPT ![v] = p.s]
  /\ sent' = p.out
  /\ UNCHANGED <<holder, lease, conn>>

(* Ages are counted as far as the bounds below can tell them apart. *)
TooOld == MaxDuration + ConnectTimeout + 1

Less(n, floor) == IF n > floor THEN n - 1 ELSE floor

(* Time does not pass over the end of a relay, nor over the timeout of the  *)
(* connection to the remote screen.                                         *)
Tick ==
  /\ \A v \in Viewers :
       /\ Goes(v, "relaying") => conn[v].left > 0
       /\ Goes(v, "connecting") => conn[v].age < ConnectTimeout
  /\ lease' = Less(lease, 0)
  /\ conn' = [v \in Viewers |->
       IF Goes(v, "off") THEN conn[v]
       ELSE [conn[v] EXCEPT !.token = Less(@, -ConnectTimeout - 1),
                            !.age = Min2(@ + 1, TooOld), !.left = Less(@, 0)]]
  /\ sent' = {}
  /\ UNCHANGED <<holder, rfb>>

Next ==
  \/ \E o \in Operators : Claim(o) \/ Renew(o) \/ Release(o)
  \/ \E v \in Viewers :
       \/ Connect(v) \/ Opened(v) \/ Ends(v)
       \/ \E payload \in Payloads : Relay(v, payload)
  \/ Tick

Spec == Init /\ [][Next]_vars

(* Time goes on; opening the screen succeeds or fails, and the timeout of a *)
(* relay is acted on.                                                       *)
FairSpec ==
  /\ Spec
  /\ []<><<Tick>>_vars
  /\ \A v \in Viewers : WF_vars(Expires(v))

----------------------------------------------------------------------------
Phases == {"off", "connecting", "relaying"}
RfbPhases == {"version", "security", "response", "init", "initialized", "rejected"}

(* Types; a connection's frame is tagged while it is incomplete, and only   *)
(* an initialised connection has one.                                       *)
TypeOK ==
  /\ holder \in Operators \cup {None}
  /\ lease \in 0..LeaseTime
  /\ conn \in [Viewers -> [phase : Phases, owner : Operators \cup {None},
       token : -ConnectTimeout - 1..MaxToken, age : 0..TooOld,
       limit : 0..MaxDuration, left : 0..MaxDuration]]
  /\ rfb \in [Viewers -> [phase : RfbPhases, frame : Frames \cup {None},
       have : 0..MaxBuffer, tag : BOOLEAN \cup {None}, clean : BOOLEAN]]
  /\ \A v \in Viewers : LET s == rfb[v] IN
       /\ (s.frame = None) = (s.have = 0)
       /\ (s.frame = None) = (s.tag = None)
       /\ s.frame # None => s.phase = "initialized"
  /\ sent \subseteq [kind : Frames, clean : BOOLEAN]

(* Input that reaches the browser came, all of it, from a viewer that held  *)
(* the takeover when each of its pieces came, however the stream was cut    *)
(* and however the lease was won, lost and renewed meanwhile.               *)
InputCameFromTheHolder == \A f \in sent : f.kind \in Input => f.clean

(* A connection relays nothing when its token has been expired for longer   *)
(* than opening the remote screen takes, nor after its maximum duration and *)
(* that time.                                                               *)
LifetimeIsBounded ==
  \A v \in Viewers : Goes(v, "relaying") =>
    /\ conn[v].token >= -ConnectTimeout
    /\ conn[v].age <= MaxDuration + ConnectTimeout

(* No viewer stays connected for ever, however busy it is. *)
ViewersEnd == \A v \in Viewers : []<>Goes(v, "off")
=============================================================================
