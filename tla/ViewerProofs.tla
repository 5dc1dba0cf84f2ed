---------------------------- MODULE ViewerProofs ----------------------------
(***************************************************************************)
(* Proofs about Viewer, for any viewers and operators, any times and sizes  *)
(* and payloads of any length: the types, whose input reaches the browser,   *)
(* and how long a relay lasts.                                              *)
(*                                                                         *)
(* The filter reads a payload unit by unit.  Its recursion has a solution   *)
(* (ReadingDef), each unit keeps what is known in the middle of a payload   *)
(* (ReadingOK, TakeKeeps), and so a whole payload keeps what is known of    *)
(* the filter between two of them (StateOK, FilteredKeeps).  Both are       *)
(* inductions over the length of the payload, which SetInduction makes of   *)
(* the well-foundedness of the naturals.  InTime follows a connection's     *)
(* age, token and limit as they change together.                            *)
(***************************************************************************)
EXTENDS Viewer, SequenceTheorems, WellFoundedInduction, TLAPS

(* Induction over the naturals, for a set instead of a predicate. *)
LEMMA SetInduction ==
  ASSUME NEW S, 0 \in S, \A n \in Nat : n \in S => n + 1 \in S
  PROVE  Nat \subseteq S
<1> DEFINE R == OpToRel(<, Nat)
           T == Nat \ S
<1>1. IsWellFoundedOn(R, Nat)
  BY NatLessThanWellFounded
<1>2. \A x, y \in Nat : x < y => <<x, y>> \in R
  BY DEF OpToRel
<1> HIDE DEF R
<1> SUFFICES ASSUME T # {} PROVE FALSE
  OBVIOUS
<1>3. PICK m \in T : \A y \in T : <<y, m>> \notin R
  <2>1. T \subseteq Nat
    OBVIOUS
  <2> HIDE DEF T
  <2> QED
    BY <1>1, <2>1, WFMin
<1>4. m - 1 \in Nat /\ m - 1 < m /\ m - 1 + 1 = m
  BY <1>3
<1>5. m - 1 \in S
  BY <1>2, <1>3, <1>4
<1> QED
  BY <1>3, <1>4, <1>5

Start(s) == [s |-> s, out |-> {}, over |-> FALSE]

(* The recursion of Reading has a solution. *)
LEMMA ReadingDef ==
  ASSUME NEW s, NEW payload, NEW allowed, Len(payload) \in Nat
  PROVE  LET read == Reading(s, payload, allowed) IN
         /\ read[0] = Start(s)
         /\ \A n \in 1 .. Len(payload) : read[n] = Take(read[n - 1], payload[n], allowed)
<1> DEFINE Solves(F, N) ==
             F = [n \in 0..N |-> IF n = 0 THEN Start(s)
                                 ELSE Take(F[n - 1], payload[n], allowed)]
           Solved == {N \in Nat : \E F : Solves(F, N)}
<1>1. 0 \in Solved
  <2>1. Solves([n \in 0..0 |-> Start(s)], 0)
    OBVIOUS
  <2> QED
    BY <2>1
<1>2. ASSUME NEW N \in Nat, N \in Solved PROVE N + 1 \in Solved
  <2>1. PICK F : Solves(F, N)
    BY <1>2
  <2> DEFINE G == [n \in 0..N + 1 |-> IF n <= N THEN F[n]
                                      ELSE Take(F[N], payload[N + 1], allowed)]
  <2>2. Solves(G, N + 1)
    <3>1. \A n \in 0..N : F[n] = IF n = 0 THEN Start(s) ELSE Take(F[n - 1], payload[n], allowed)
      BY <2>1
    <3>2. ASSUME NEW n \in 0..N + 1
          PROVE  G[n] = IF n = 0 THEN Start(s) ELSE Take(G[n - 1], payload[n], allowed)
      <4>1. CASE n = 0
        BY <3>1, <4>1
      <4>2. CASE n \in 1..N
        BY <3>1, <4>2
      <4>3. CASE n = N + 1
        BY <4>3
      <4> QED
        BY <3>2, <4>1, <4>2, <4>3
    <3> QED
      BY <3>2
  <2> HIDE DEF G, Solves
  <2> QED
    BY <2>2
<1>3. Len(payload) \in Solved
  <2> HIDE DEF Solved
  <2> QED
    BY <1>1, <1>2, SetInduction
<1> DEFINE read == Reading(s, payload, allowed)
<1>4. Solves(read, Len(payload))
  <2>1. read = CHOOSE F : Solves(F, Len(payload))
    BY DEF Reading, Start
  <2> QED
    BY <1>3, <2>1
<1>5. \A n \in 0..Len(payload) :
        read[n] = IF n = 0 THEN Start(s) ELSE Take(read[n - 1], payload[n], allowed)
  <2> HIDE DEF read
  <2> QED
    BY <1>4
<1> QED
  BY <1>5

-----------------------------------------------------------------------------
(* The filter *)

Outputs == [kind : Frames, clean : BOOLEAN]

RfbStates == [phase : RfbPhases, frame : Frames \cup {None}, have : Nat,
              tag : BOOLEAN \cup {None}, clean : BOOLEAN]

(* A frame is begun exactly when it has units and a tag. *)
Tracked(s) ==
  /\ s \in RfbStates
  /\ s.frame = None <=> s.have = 0
  /\ s.frame # None => s.phase = "initialized" /\ s.tag \in BOOLEAN

(* Of what was begun with input allowed, all came with input allowed. *)
CleanIfTagged(s) == s.frame # None /\ s.tag = TRUE => s.clean = TRUE

CleanOutput(out) == out \subseteq Outputs /\ \A f \in out : f.kind \in Input => f.clean

(* While a payload is read with input allowed or not, no more than h units   *)
(* in the buffer.                                                            *)
ReadingOK(p, allowed, h) ==
  /\ p \in [s : RfbStates, out : SUBSET Outputs, over : BOOLEAN]
  /\ Tracked(p.s) /\ CleanIfTagged(p.s)
  /\ p.s.have <= h
  /\ p.s.frame # None => p.s.tag = allowed
  /\ p.s.tag \in {None, allowed}
  /\ ~p.over => p.s.phase # "rejected"
  /\ CleanOutput(p.out)

LEMMA DropTracks ==
  ASSUME NEW s \in RfbStates
  PROVE  /\ Tracked(DropFrame(s)) /\ CleanIfTagged(DropFrame(s))
         /\ DropFrame(s).have = 0 /\ DropFrame(s).tag = None
         /\ DropFrame(s).frame = None /\ DropFrame(s).phase = s.phase
         /\ Tracked(Rejected(s)) /\ CleanIfTagged(Rejected(s))
         /\ Rejected(s).have = 0 /\ Rejected(s).tag = None /\ Rejected(s).frame = None
BY NobodyIsNone DEF RfbStates, Tracked, CleanIfTagged, DropFrame, Rejected, RfbPhases, Frames

(* What a unit leads to, put together from its parts. *)
LEMMA ReadingMoves ==
  ASSUME NEW allowed \in BOOLEAN, NEW h \in Nat,
         NEW t, Tracked(t), CleanIfTagged(t), t.have <= h,
         t.frame # None => t.tag = allowed, t.tag \in {None, allowed},
         NEW over \in BOOLEAN, ~over => t.phase # "rejected",
         NEW out, CleanOutput(out)
  PROVE  ReadingOK([s |-> t, out |-> out, over |-> over], allowed, h)
<1> DEFINE p == [s |-> t, out |-> out, over |-> over]
<1>1. p.s = t /\ p.out = out /\ p.over = over
  OBVIOUS
<1>2. p \in [s : RfbStates, out : SUBSET Outputs, over : BOOLEAN]
  BY DEF Tracked, CleanOutput
<1> HIDE DEF p
<1> QED
  BY <1>1, <1>2 DEF ReadingOK

LEMMA GreetKeeps ==
  ASSUME NEW allowed \in BOOLEAN, NEW h \in Nat, NEW p, ReadingOK(p, allowed, h), ~p.over,
         NEW u \in Units, p.s.phase # "initialized"
  PROVE  ReadingOK(Greet(p, u), allowed, h + 1)
<1>1. p.s \in RfbStates /\ p.s.phase \in {"version", "security", "response", "init"}
  BY DEF ReadingOK, Tracked, RfbStates, RfbPhases
<1> DEFINE next == Handshake[p.s.phase]
<1>2. ASSUME u \in DOMAIN next PROVE next[u] \in RfbPhases \ {"rejected"}
  BY <1>1, <1>2 DEF Handshake, RfbPhases
<1>3. CASE u \in DOMAIN next
  <2>1. Greet(p, u) = [p EXCEPT !.s.phase = next[u]]
    BY <1>3 DEF Greet
  <2> HIDE DEF next
  <2> QED
    BY <1>1, <1>2, <1>3, <2>1 DEF ReadingOK, Tracked, CleanIfTagged, RfbStates
<1>4. CASE u \notin DOMAIN next
  <2>1. Greet(p, u) = [s |-> Rejected(p.s), out |-> p.out, over |-> TRUE]
    BY <1>4 DEF Greet, ReadingOK
  <2> QED
    <3> DEFINE t == Rejected(p.s)
    <3>1. Tracked(t) /\ CleanIfTagged(t) /\ t.have = 0 /\ t.tag = None /\ t.frame = None
      BY <1>1, DropTracks
    <3>2. CleanOutput(p.out)
      BY DEF ReadingOK
    <3> HIDE DEF t
    <3>3. t.have <= h + 1 /\ h + 1 \in Nat
      BY <3>1
    <3>4. ReadingOK([s |-> t, out |-> p.out, over |-> TRUE], allowed, h + 1)
      BY <3>1, <3>2, <3>3, ReadingMoves
    <3> QED
      BY <2>1, <3>4 DEF t
<1> QED
  BY <1>3, <1>4

LEMMA BeginKeeps ==
  ASSUME NEW allowed \in BOOLEAN, NEW h \in Nat, NEW p, ReadingOK(p, allowed, h), ~p.over,
         NEW u \in Units, p.s.phase = "initialized", p.s.frame = None
  PROVE  ReadingOK(Begin(p, u, allowed), allowed, h + 1)
<1>1. CASE u \notin Frames
  <2>1. Begin(p, u, allowed) = [s |-> DropFrame(p.s), out |-> p.out, over |-> TRUE]
    BY <1>1 DEF Begin, ReadingOK
  <2> QED
    BY <2>1, DropTracks, ReadingMoves DEF ReadingOK, Tracked
<1>2. CASE u \in Frames
  <2> DEFINE t == [p.s EXCEPT !.frame = u, !.have = 1, !.clean = allowed, !.tag = allowed]
  <2>1. p.s.tag \in {None, allowed}
    BY DEF ReadingOK
  <2>2. Begin(p, u, allowed) = [p EXCEPT !.s = t]
    BY <1>2, <2>1 DEF Begin, ReadingOK, RfbStates
  <2>3. t \in RfbStates /\ t.frame = u /\ t.have = 1 /\ t.clean = allowed /\ t.tag = allowed
        /\ t.phase = "initialized"
    BY <1>2 DEF ReadingOK, RfbStates
  <2> HIDE DEF t
  <2>4. u # None
    BY <1>2, NobodyIsNone DEF Frames
  <2> QED
    BY <2>2, <2>3, <2>4 DEF ReadingOK, Tracked, CleanIfTagged
<1> QED
  BY <1>1, <1>2

LEMMA ContinueKeeps ==
  ASSUME NEW allowed \in BOOLEAN, NEW h \in Nat, NEW p, ReadingOK(p, allowed, h), ~p.over,
         p.s.phase = "initialized", p.s.frame # None
  PROVE  ReadingOK(Continue(p, allowed), allowed, h + 1)
<1> DEFINE s == p.s
           clean == s.clean /\ allowed
<1>1. s \in RfbStates /\ s.frame \in Frames /\ s.have \in Nat /\ s.have <= h
      /\ s.tag = allowed /\ s.clean \in BOOLEAN /\ (allowed => s.clean)
      /\ p \in [s : RfbStates, out : SUBSET Outputs, over : BOOLEAN]
  BY DEF ReadingOK, Tracked, CleanIfTagged, RfbStates
<1>4. PICK c \in BOOLEAN : c = clean
  BY <1>1
<1> HIDE DEF clean
<1>2. CASE s.have + 1 # FrameLength[s.frame]
  <2> DEFINE t == [s EXCEPT !.have = s.have + 1, !.clean = c]
  <2>1. Continue(p, allowed) = [p EXCEPT !.s.have = s.have + 1, !.s.clean = c]
    BY <1>2, <1>4 DEF Continue, clean
  <2>2. [p EXCEPT !.s.have = s.have + 1, !.s.clean = c]
          = [s |-> t, out |-> p.out, over |-> p.over]
    <3>1. [p EXCEPT !.s.have = s.have + 1, !.s.clean = c] = [p EXCEPT !.s = t]
      BY <1>1 DEF RfbStates
    <3> HIDE DEF t
    <3> QED
      BY <1>1, <3>1
  <2>3. t \in RfbStates /\ t.have = s.have + 1 /\ t.frame = s.frame /\ t.tag = allowed
        /\ t.phase = "initialized" /\ t.clean = c
    <3>1. s.have + 1 \in Nat /\ s.phase = "initialized"
      BY <1>1
    <3>2. t = [s EXCEPT !.have = s.have + 1, !.clean = c]
      OBVIOUS
    <3> HIDE DEF s, t
    <3>3. s \in RfbStates /\ c \in BOOLEAN
      BY <1>1
    <3>4. /\ t \in RfbStates /\ t.have = s.have + 1 /\ t.clean = c
          /\ t.phase = s.phase /\ t.frame = s.frame /\ t.tag = s.tag
      BY <3>1, <3>2, <3>3 DEF RfbStates
    <3> QED
      BY <1>1, <3>1, <3>4
  <2>4. t.have # 0 /\ t.have <= h + 1 /\ h + 1 \in Nat
    BY <1>1, <2>3
  <2>5. allowed = TRUE => c = TRUE
    BY <1>1, <1>4 DEF clean
  <2> HIDE DEF t
  <2>6. Tracked(t) /\ CleanIfTagged(t)
    BY <1>1, <2>3, <2>4, <2>5 DEF Tracked, CleanIfTagged
  <2>7. CleanOutput(p.out)
    BY DEF ReadingOK
  <2>8. ReadingOK([s |-> t, out |-> p.out, over |-> p.over], allowed, h + 1)
    BY <1>1, <2>3, <2>4, <2>6, <2>7, ReadingMoves
  <2> QED
    BY <2>1, <2>2, <2>8
<1>3. CASE s.have + 1 = FrameLength[s.frame]
  <2> DEFINE t == [s EXCEPT !.frame = None, !.have = 0, !.clean = TRUE]
             f == [kind |-> s.frame, clean |-> c]
             out == IF allowed \/ s.frame \notin Input THEN p.out \cup {f} ELSE p.out
  <2>1. Continue(p, allowed) = [s |-> t, out |-> out, over |-> p.over]
    BY <1>1, <1>3, <1>4 DEF Continue, clean
  <2>2. t \in RfbStates /\ t.have = 0 /\ t.frame = None /\ t.tag = allowed
        /\ t.phase = "initialized"
    BY <1>1 DEF RfbStates
  <2>3. f \in Outputs /\ f.kind = s.frame /\ f.clean = c
    BY <1>1 DEF Outputs
  <2>4. allowed => f.clean
    BY <1>1, <1>4, <2>3 DEF clean
  <2>5. CleanOutput(out)
    <3> HIDE DEF f
    <3> QED
      BY <2>3, <2>4 DEF CleanOutput, ReadingOK
  <2> HIDE DEF t, out
  <2> QED
    <3>1. Tracked(t) /\ CleanIfTagged(t)
      BY <2>2 DEF Tracked, CleanIfTagged
    <3> QED
      BY <1>1, <2>1, <2>2, <2>5, <3>1, ReadingMoves DEF ReadingOK
<1> QED
  BY <1>2, <1>3

LEMMA TakeKeeps ==
  ASSUME NEW allowed \in BOOLEAN, NEW h \in Nat, NEW p, ReadingOK(p, allowed, h), NEW u \in Units
  PROVE  ReadingOK(Take(p, u, allowed), allowed, h + 1)
<1>1. CASE p.over
  <2>1. Take(p, u, allowed) = p
    BY <1>1 DEF Take
  <2> QED
    BY <2>1 DEF ReadingOK, Tracked, RfbStates
<1>2. CASE ~p.over /\ p.s.phase # "initialized"
  <2>1. Take(p, u, allowed) = Greet(p, u)
    BY <1>2 DEF Take
  <2> QED
    BY <1>2, <2>1, GreetKeeps
<1>3. CASE ~p.over /\ p.s.phase = "initialized" /\ p.s.frame = None
  <2>1. Take(p, u, allowed) = Begin(p, u, allowed)
    BY <1>3 DEF Take
  <2> QED
    BY <1>3, <2>1, BeginKeeps
<1>4. CASE ~p.over /\ p.s.phase = "initialized" /\ p.s.frame # None
  <2>1. Take(p, u, allowed) = Continue(p, allowed)
    BY <1>4 DEF Take
  <2> QED
    BY <1>4, <2>1, ContinueKeeps
<1> QED
  BY <1>1, <1>2, <1>3, <1>4

(* The state of a connection's filter between payloads. *)
StateOK(s) ==
  /\ Tracked(s) /\ CleanIfTagged(s)
  /\ s.have <= MaxBuffer
  /\ s.frame = None <=> s.tag = None

LEMMA PayloadUnits ==
  ASSUME NEW payload \in Payloads
  PROVE  Len(payload) \in Nat /\ \A n \in 1..Len(payload) : payload[n] \in Units
<1>1. PICK n \in 1..MaxPayload : payload \in [1..n -> Units]
  BY DEF Payloads
<1>2. n \in Nat
  BY Bounds
<1>3. payload \in Seq(Units) /\ Len(payload) = n
  BY <1>1, <1>2, SeqDef, LenProperties
<1> QED
  BY <1>1, <1>2, <1>3

(* Reading a payload under the authorisation its frame was begun under keeps  *)
(* the state and lets no unclean input through: the induction over its units. *)
LEMMA ParsedKeeps ==
  ASSUME NEW allowed \in BOOLEAN, NEW s, StateOK(s), NEW payload \in Payloads,
         s.phase # "rejected", s.frame # None => s.tag = allowed,
         s.have + Len(payload) <= MaxBuffer
  PROVE  LET p == Parsed(s, payload, allowed) IN StateOK(p.s) /\ CleanOutput(p.out)
<1> DEFINE read == Reading(s, payload, allowed)
           N == Len(payload)
           h == s.have
           Kept == {n \in Nat : n <= N => ReadingOK(read[n], allowed, h + n)}
<1>1. N \in Nat /\ h \in Nat /\ MaxBuffer \in Nat
  BY PayloadUnits, Bounds DEF StateOK, Tracked, RfbStates
<1>2. /\ read[0] = Start(s)
      /\ \A n \in 1..N : read[n] = Take(read[n - 1], payload[n], allowed)
  BY <1>1, ReadingDef
<1> HIDE DEF read, N, h
<1>3. 0 \in Kept
  <2>1. Tracked(s) /\ CleanIfTagged(s) /\ s.have <= h /\ s.tag \in {None, allowed}
    BY DEF StateOK, h, Tracked, RfbStates
  <2>2. CleanOutput({})
    BY DEF CleanOutput
  <2>3. ReadingOK(Start(s), allowed, h)
    BY <1>1, <2>1, <2>2, ReadingMoves DEF Start
  <2> QED
    BY <1>1, <1>2, <2>3
<1>4. ASSUME NEW n \in Nat, n \in Kept PROVE n + 1 \in Kept
  <2> SUFFICES ASSUME n + 1 <= N PROVE ReadingOK(read[n + 1], allowed, h + (n + 1))
    OBVIOUS
  <2>1. n <= N /\ n + 1 \in 1..N /\ n + 1 - 1 = n /\ h + n \in Nat /\ h + n + 1 = h + (n + 1)
    BY <1>1
  <2>2. ReadingOK(read[n], allowed, h + n)
    BY <1>4, <2>1
  <2>3. payload[n + 1] \in Units
    BY <2>1, PayloadUnits DEF N
  <2>4. read[n + 1] = Take(read[n], payload[n + 1], allowed)
    BY <1>2, <2>1
  <2> QED
    BY <2>1, <2>2, <2>3, <2>4, TakeKeeps
<1>5. ReadingOK(read[N], allowed, h + N)
  <2>1. N \in Kept
    <3> HIDE DEF Kept
    <3> QED
      BY <1>1, <1>3, <1>4, SetInduction
  <2> QED
    BY <1>1, <2>1
<1> DEFINE p == read[N]
<1>6. p.s \in RfbStates /\ Tracked(p.s) /\ CleanIfTagged(p.s) /\ p.s.have <= MaxBuffer
      /\ (p.s.frame # None => p.s.tag = allowed) /\ CleanOutput(p.out)
      /\ p \in [s : RfbStates, out : SUBSET Outputs, over : BOOLEAN]
  BY <1>1, <1>5 DEF ReadingOK, Tracked, RfbStates, h, N
<1>7. Parsed(s, payload, allowed) = [p EXCEPT !.s = Untagged(p.s)]
  BY DEF Parsed, read, N
<1> HIDE DEF p
<1>8. StateOK(Untagged(p.s))
  <2> DEFINE q == p.s
             t == [q EXCEPT !.tag = None]
  <2>1. CASE q.frame = None
    <3>1. q \in RfbStates
      BY <1>6
    <3> HIDE DEF q
    <3>2. /\ t \in RfbStates /\ t.tag = None /\ t.frame = q.frame /\ t.have = q.have
          /\ t.phase = q.phase
      BY <3>1 DEF RfbStates
    <3>3. Untagged(q) = t
      BY <2>1 DEF Untagged
    <3> HIDE DEF t
    <3>4. StateOK(t)
      BY <1>6, <2>1, <3>2 DEF StateOK, Tracked, CleanIfTagged, q
    <3> QED
      BY <3>3, <3>4 DEF q
  <2>2. CASE q.frame # None
    <3>1. Untagged(q) = q /\ q.tag # None
      BY <1>6, <2>2, NobodyIsNone DEF Untagged
    <3> QED
      BY <1>6, <2>2, <3>1 DEF StateOK
  <2> QED
    BY <2>1, <2>2
<1> QED
  BY <1>6, <1>7, <1>8

(* So does the filter, whatever it makes of the payload. *)
LEMMA FilteredKeeps ==
  ASSUME NEW allowed \in BOOLEAN, NEW s, StateOK(s), NEW payload \in Payloads
  PROVE  LET p == Filtered(s, payload, allowed) IN StateOK(p.s) /\ CleanOutput(p.out)
<1>1. ASSUME NEW t \in {s, DropFrame(s), Rejected(s)}
      PROVE  StateOK(Nothing(t).s) /\ CleanOutput(Nothing(t).out)
  <2>1. Nothing(t).s = t /\ Nothing(t).out = {}
    BY DEF Nothing
  <2>2. StateOK(t)
    BY <1>1, DropTracks, Bounds DEF StateOK, Tracked
  <2> QED
    BY <2>1, <2>2 DEF CleanOutput
<1>2. CASE s.phase = "rejected"
  BY <1>1, <1>2 DEF Filtered
<1>3. CASE s.phase # "rejected" /\ s.frame # None /\ s.tag # allowed
  BY <1>1, <1>3 DEF Filtered
<1>4. CASE s.phase # "rejected" /\ ~(s.frame # None /\ s.tag # allowed)
  <2>1. CASE s.have + Len(payload) > MaxBuffer
    BY <1>1, <1>4, <2>1 DEF Filtered
  <2>2. CASE ~(s.have + Len(payload) > MaxBuffer)
    <3>1. s.have \in Nat /\ Len(payload) \in Nat /\ MaxBuffer \in Nat
      BY PayloadUnits, Bounds DEF StateOK, Tracked, RfbStates
    <3>2. Filtered(s, payload, allowed) = Parsed(s, payload, allowed)
      BY <1>4, <2>2 DEF Filtered
    <3>3. s.have + Len(payload) <= MaxBuffer
      BY <2>2, <3>1
    <3> QED
      BY <1>4, <3>2, <3>3, ParsedKeeps
  <2> QED
    BY <2>1, <2>2
<1> QED
  BY <1>2, <1>3, <1>4

-----------------------------------------------------------------------------
(* The invariant *)

Conns == [phase : Phases, owner : Operators \cup {None},
          token : -ConnectTimeout - 1..MaxToken, age : 0..TooOld,
          limit : 0..MaxDuration, left : 0..MaxDuration]

(* A connection c that is opening the screen has aged no more than that may   *)
(* take, and its limit is no more than was left of its token when it began;   *)
(* one that relays has used its limit up by what is not left of it.           *)
InTime(c) ==
  /\ c.phase = "connecting" => c.age <= ConnectTimeout /\ c.limit <= c.token + c.age
  /\ c.phase = "relaying" => /\ c.left - ConnectTimeout <= c.token
                             /\ c.age + c.left <= ConnectTimeout + c.limit

IInv ==
  /\ holder \in Operators \cup {None} /\ lease \in 0..LeaseTime
  /\ conn \in [Viewers -> Conns] /\ \A v \in Viewers : InTime(conn[v])
  /\ rfb \in [Viewers -> RfbStates] /\ \A v \in Viewers : StateOK(rfb[v])
  /\ CleanOutput(sent)

LEMMA IInvImplies ==
  ASSUME IInv
  PROVE  TypeOK /\ InputCameFromTheHolder /\ LifetimeIsBounded
<1>1. rfb \in [Viewers -> [phase : RfbPhases, frame : Frames \cup {None},
         have : 0..MaxBuffer, tag : BOOLEAN \cup {None}, clean : BOOLEAN]]
  <2> SUFFICES ASSUME NEW v \in Viewers
               PROVE  rfb[v] \in [phase : RfbPhases, frame : Frames \cup {None},
                        have : 0..MaxBuffer, tag : BOOLEAN \cup {None}, clean : BOOLEAN]
    BY DEF IInv
  <2>1. rfb[v] \in RfbStates /\ rfb[v].have \in 0..MaxBuffer
    BY Bounds DEF IInv, StateOK, RfbStates
  <2> QED
    BY <2>1 DEF RfbStates
<1>2. \A v \in Viewers : LET s == rfb[v] IN
         /\ (s.frame = None) = (s.have = 0)
         /\ (s.frame = None) = (s.tag = None)
         /\ s.frame # None => s.phase = "initialized"
  BY DEF IInv, StateOK, Tracked
<1>3. sent \subseteq [kind : Frames, clean : BOOLEAN] /\ InputCameFromTheHolder
  BY DEF IInv, CleanOutput, Outputs, InputCameFromTheHolder
<1>4. LifetimeIsBounded
  <2> SUFFICES ASSUME NEW v \in Viewers, conn[v].phase = "relaying"
               PROVE  /\ conn[v].token >= -ConnectTimeout
                      /\ conn[v].age <= MaxDuration + ConnectTimeout
    BY DEF LifetimeIsBounded, Goes
  <2>1. conn[v] \in Conns /\ InTime(conn[v])
    BY DEF IInv
  <2> QED
    BY <2>1, Bounds DEF InTime, Conns, TooOld
<1> QED
  BY <1>1, <1>2, <1>3, <1>4 DEF IInv, TypeOK, Conns

LEMMA FreshOK == StateOK(Fresh) /\ Fresh \in RfbStates
BY NobodyIsNone, Bounds DEF StateOK, Fresh, Tracked, CleanIfTagged, RfbStates, RfbPhases, Frames

LEMMA NoConnectionOK == NoConnection \in Conns /\ InTime(NoConnection)
BY Bounds DEF NoConnection, Conns, Phases, InTime, TooOld

LEMMA InitIInv == Init => IInv
<1> SUFFICES ASSUME Init PROVE IInv
  OBVIOUS
<1>1. CleanOutput(sent)
  BY DEF Init, CleanOutput
<1> QED
  BY <1>1, FreshOK, NoConnectionOK, Bounds DEF Init, IInv

(* A step that gives one connection the state c and its filter the state t. *)
LEMMA Moves ==
  ASSUME IInv, NEW v \in Viewers, NEW c \in Conns, InTime(c), NEW t \in RfbStates, StateOK(t),
         conn' = [conn EXCEPT ![v] = c] \/ conn' = conn,
         rfb' = [rfb EXCEPT ![v] = t] \/ rfb' = rfb,
         CleanOutput(sent'), UNCHANGED <<holder, lease>>
  PROVE  IInv'
<1>1. \A u \in Viewers : /\ conn'[u] = conn[u] \/ conn'[u] = c
                         /\ rfb'[u] = rfb[u] \/ rfb'[u] = t
  BY DEF IInv
<1>2. conn' \in [Viewers -> Conns] /\ rfb' \in [Viewers -> RfbStates]
  BY DEF IInv
<1>3. \A u \in Viewers : InTime(conn'[u]) /\ StateOK(rfb'[u])
  BY <1>1 DEF IInv
<1> QED
  BY <1>2, <1>3 DEF IInv

LEMMA OperatorKeeps ==
  ASSUME IInv, NEW o \in Operators, Claim(o) \/ Renew(o) \/ Release(o)
  PROVE  IInv'
<1>1. holder' \in Operators \cup {None} /\ lease' \in 0..LeaseTime
  BY Bounds DEF IInv, Claim, Renew, Release
<1>2. sent' = {} /\ UNCHANGED <<conn, rfb>>
  BY DEF Claim, Renew, Release
<1> QED
  BY <1>1, <1>2 DEF IInv, CleanOutput

LEMMA ConnectKeeps ==
  ASSUME IInv, NEW v \in Viewers, Connect(v)
  PROVE  IInv'
<1>1. PICK o \in Operators, t \in 1..MaxToken :
        conn' = [conn EXCEPT ![v] =
           [phase |-> "connecting", owner |-> o, token |-> t, age |-> 0,
            limit |-> Min2(MaxDuration, t), left |-> 0]]
  BY DEF Connect
<1> DEFINE c == [phase |-> "connecting", owner |-> o, token |-> t, age |-> 0,
                 limit |-> Min2(MaxDuration, t), left |-> 0]
<1>2. c \in Conns /\ InTime(c)
  BY Bounds DEF Conns, InTime, Min2, Phases, TooOld
<1>3. rfb' = [rfb EXCEPT ![v] = Fresh] /\ CleanOutput(sent') /\ UNCHANGED <<holder, lease>>
  BY DEF Connect, CleanOutput
<1> HIDE DEF c
<1>4. conn' = [conn EXCEPT ![v] = c]
  BY <1>1 DEF c
<1> QED
  BY <1>2, <1>3, <1>4, FreshOK, Moves

LEMMA OpenedKeeps ==
  ASSUME IInv, NEW v \in Viewers, Opened(v)
  PROVE  IInv'
<1> DEFINE c == [conn[v] EXCEPT !.phase = "relaying", !.left = conn[v].limit]
<1>1. conn[v] \in Conns /\ InTime(conn[v]) /\ conn[v].phase = "connecting"
  BY DEF IInv, Opened, Goes
<1>2. c \in Conns /\ InTime(c)
  <2> DEFINE b == conn[v]
  <2>1. b \in Conns /\ InTime(b) /\ b.phase = "connecting" /\ ConnectTimeout \in Nat
    BY <1>1, Bounds
  <2>2. c = [b EXCEPT !.phase = "relaying", !.left = b.limit]
    OBVIOUS
  <2> HIDE DEF b, c
  <2>3. c \in Conns
    BY <2>1, <2>2 DEF Conns, Phases
  <2>4. /\ c.phase = "relaying" /\ c.limit = b.limit /\ c.left = b.limit
        /\ c.token = b.token /\ c.age = b.age
    BY <2>1, <2>2 DEF Conns
  <2>5. b.token \in Int /\ b.age \in Int /\ b.limit \in Int
    BY <2>1, Bounds DEF Conns, TooOld
  <2>6. InTime(c)
    BY <2>1, <2>4, <2>5 DEF InTime
  <2> QED
    BY <2>3, <2>6
<1>3. conn' = [conn EXCEPT ![v] = c]
  BY DEF Opened, IInv
<1>4. rfb' = rfb /\ CleanOutput(sent') /\ UNCHANGED <<holder, lease>>
  BY DEF Opened, CleanOutput
<1> HIDE DEF c
<1> QED
  BY <1>2, <1>3, <1>4, FreshOK, Moves

LEMMA EndsKeeps ==
  ASSUME IInv, NEW v \in Viewers, Ends(v)
  PROVE  IInv'
BY FreshOK, NoConnectionOK, Moves DEF Ends, CleanOutput

LEMMA RelayKeeps ==
  ASSUME IInv, NEW v \in Viewers, NEW payload \in Payloads, Relay(v, payload)
  PROVE  IInv'
<1>1. PICK a \in BOOLEAN : a = MayInput(v)
  BY DEF MayInput
<1> DEFINE p == Filtered(rfb[v], payload, a)
<1>2. rfb' = [rfb EXCEPT ![v] = p.s] /\ sent' = p.out /\ UNCHANGED <<holder, lease, conn>>
  BY <1>1 DEF Relay
<1>3. StateOK(p.s) /\ CleanOutput(p.out)
  BY FilteredKeeps DEF IInv
<1> HIDE DEF p
<1>4. p.s \in RfbStates
  BY <1>3 DEF StateOK, Tracked
<1> QED
  BY <1>2, <1>3, <1>4, NoConnectionOK, Moves

(* Time takes from what is left of a relay what it adds to its age and takes   *)
(* from its token, and stands still when nothing is left.                      *)
LEMMA TickKeeps ==
  ASSUME IInv, Tick
  PROVE  IInv'
<1>1. ASSUME NEW v \in Viewers PROVE conn'[v] \in Conns /\ InTime(conn'[v])
  <2>1. conn[v] \in Conns /\ InTime(conn[v])
    BY DEF IInv
  <2>2. CASE conn[v].phase = "off"
    <3>1. conn'[v] = conn[v]
      BY <2>2 DEF Tick, Goes
    <3> QED
      BY <2>1, <3>1
  <2>3. CASE conn[v].phase # "off"
    <3> DEFINE c == conn[v]
               d == [c EXCEPT !.token = Less(c.token, -ConnectTimeout - 1),
                              !.age = Min2(c.age + 1, TooOld), !.left = Less(c.left, 0)]
    <3>1. conn'[v] = d
      BY <2>3 DEF Tick, Goes
    <3>2. c \in Conns /\ InTime(c)
      BY <2>1
    <3>3. /\ c.phase = "relaying" => c.left > 0
          /\ c.phase = "connecting" => c.age < ConnectTimeout
      BY DEF Tick, Goes
    <3> HIDE DEF c
    <3>4. d \in Conns
      <4>1. ConnectTimeout \in Nat /\ MaxDuration \in Nat /\ MaxToken \in Nat
        BY Bounds
      <4>2. /\ c.token \in -ConnectTimeout - 1..MaxToken /\ c.age \in 0..TooOld
            /\ c.left \in 0..MaxDuration
        BY <3>2 DEF Conns
      <4>3. Less(c.token, -ConnectTimeout - 1) \in -ConnectTimeout - 1..MaxToken
        BY <4>1, <4>2 DEF Less
      <4>4. Min2(c.age + 1, TooOld) \in 0..TooOld
        BY <4>1, <4>2 DEF Min2, TooOld
      <4>5. Less(c.left, 0) \in 0..MaxDuration
        BY <4>1, <4>2 DEF Less
      <4> QED
        BY <3>2, <4>3, <4>4, <4>5 DEF Conns
    <3>5. /\ d.phase = c.phase /\ d.limit = c.limit
          /\ d.token = Less(c.token, -ConnectTimeout - 1)
          /\ d.age = Min2(c.age + 1, TooOld) /\ d.left = Less(c.left, 0)
      BY <3>2 DEF Conns
    <3> HIDE DEF d
    <3>6. InTime(d)
      <4>1. /\ c.token \in Int /\ c.age \in Nat /\ c.limit \in Nat /\ c.left \in Nat
            /\ ConnectTimeout \in Nat /\ MaxDuration \in Nat
        BY <3>2, Bounds DEF Conns, TooOld
      <4>2. CASE c.phase = "connecting"
        BY <3>2, <3>3, <3>5, <4>1, <4>2 DEF InTime, Less, Min2, TooOld
      <4>3. CASE c.phase = "relaying"
        BY <3>2, <3>3, <3>5, <4>1, <4>3 DEF InTime, Less, Min2, TooOld
      <4> QED
        BY <3>5, <4>2, <4>3 DEF InTime
    <3> QED
      BY <3>1, <3>4, <3>6
  <2> QED
    BY <2>2, <2>3
<1>2. conn' \in [Viewers -> Conns]
  <2>1. conn' = [v \in Viewers |-> conn'[v]]
    BY DEF Tick
  <2> QED
    BY <1>1, <2>1
<1>3. lease' \in 0..LeaseTime
  <2>1. LeaseTime \in Nat /\ lease \in 0..LeaseTime /\ lease' = Less(lease, 0)
    BY Bounds DEF IInv, Tick
  <2> QED
    BY <2>1 DEF Less
<1>4. CleanOutput(sent') /\ UNCHANGED <<holder, rfb>>
  BY DEF Tick, CleanOutput
<1> QED
  BY <1>1, <1>2, <1>3, <1>4 DEF IInv

LEMMA NextIInv == IInv /\ [Next]_vars => IInv'
<1> SUFFICES ASSUME IInv, [Next]_vars PROVE IInv'
  OBVIOUS
<1>1. CASE UNCHANGED vars
  BY <1>1 DEF vars, IInv
<1> QED
  BY <1>1, OperatorKeeps, ConnectKeeps, OpenedKeeps, EndsKeeps, RelayKeeps, TickKeeps DEF Next

LEMMA Invariance == Spec => []IInv
BY InitIInv, NextIInv, PTL DEF Spec

-----------------------------------------------------------------------------
(* Every variable keeps its type, and a connection's frame is tagged while it  *)
(* is incomplete (RfbReadOnlyState).                                           *)
THEOREM TypeCorrect == Spec => []TypeOK
<1>1. IInv => TypeOK
  BY IInvImplies
<1> QED
  BY <1>1, Invariance, PTL

(* Whatever the payloads and wherever the stream is cut, input that reaches    *)
(* the browser came, all of it, while its viewer held the takeover             *)
(* (filter_rfb_client_messages).                                               *)
THEOREM InputIsTheHolders == Spec => []InputCameFromTheHolder
<1>1. IInv => InputCameFromTheHolder
  BY IInvImplies
<1> QED
  BY <1>1, Invariance, PTL

(* No relay outlives its token by more than opening the screen takes, nor the  *)
(* longest duration by more (handle_viewer_websocket).                         *)
THEOREM RelaysEndInTime == Spec => []LifetimeIsBounded
<1>1. IInv => LifetimeIsBounded
  BY IInvImplies
<1> QED
  BY <1>1, Invariance, PTL
=============================================================================
