--------------------------- MODULE EdgeAuthProofs ---------------------------
(***************************************************************************)
(* Proofs about EdgeAuth, for any keys, requests, environments and threads  *)
(* and any times the assumption Timing allows: its types, the end of a      *)
(* withdrawn key, the spacing of refreshes and what guards the handlers.    *)
(*                                                                         *)
(* A withdrawn key is as old as it is since its withdrawal (gone).  The     *)
(* invariant follows its age from the provider's answer into the cache and  *)
(* to the thread that finds it there (CallerOK, CacheIsYoung).              *)
(***************************************************************************)
EXTENDS EdgeAuth, TLAPS

(* None of the keys S was withdrawn longer than n ago. *)
Young(S, n) == \A k \in S \cap withdrawn : gone[k] <= n

Found(c) == {Kid(c)} \cap keys

Typed ==
  /\ env \in Environments
  /\ published \subseteq Kids /\ withdrawn \subseteq Kids
  /\ published \cap withdrawn = {}
  /\ gone \in [Kids -> 0..LongGone]
  /\ keys \subseteq Kids
  /\ cacheAge \in 0..TTL + 1 /\ lastAge \in 0..RateLimit
  /\ pc \in [Callers -> Labels]
  /\ req \in [Callers -> Requests \cup {None}]
  /\ reply \in [Callers -> (SUBSET Kids) \cup {None}]
  /\ since \in [Callers -> 0..RateLimit]
  /\ asked \subseteq Insistent

(* What a caller knows at its label.  It passes the rate limit only when it    *)
(* has not refreshed itself within it; an answer is no older than the refresh  *)
(* it answers; and a key it finds was installed in this instant (limit, fetch),*)
(* since its refresh began (reply, stamp, get), or is as young as the cache.   *)
CallerOK(c) ==
  /\ ~Free(c) => req[c] \in Requests /\ Readable(req[c].token)
  /\ lastAge <= since[c]
  /\ At(c, "fetch") => since[c] >= RateLimit
  /\ pc[c] \in {"reply", "stamp", "get"} => since[c] <= Timeout
  /\ At(c, "reply") => reply[c] \subseteq Kids /\ Young(reply[c], since[c])
  /\ At(c, "stamp") => Young(keys, Timeout)
  /\ pc[c] \in {"limit", "fetch"} => Young(Found(c), Timeout)
  /\ pc[c] \in {"reply", "stamp", "get"} => Young(Found(c), since[c] + Timeout)
  /\ At(c, "take") => Young(Found(c), TTL + Timeout)

CacheIsYoung == cacheAge <= TTL => Young(keys, cacheAge + Timeout)

StillSigns == \A k \in Kids \ withdrawn : gone[k] = 0

IInv ==
  /\ Typed
  /\ StillSigns
  /\ CacheIsYoung
  /\ \A c \in Callers : CallerOK(c)

LEMMA IInvTypes == IInv => TypeOK
BY DEF IInv, Typed, TypeOK, CallerOK, Readable

LEMMA Times ==
  /\ TTL \in Nat /\ RateLimit \in Nat /\ Timeout \in Nat
  /\ Timeout <= RateLimit /\ RateLimit <= TTL
  /\ LongGone \in Nat
BY Timing DEF LongGone

(* A refresh keeps its type: the answer it gets, and that it has none any more. *)
LEMMA ReplyType ==
  ASSUME Typed, NEW c \in Callers, NEW answer \in (SUBSET Kids) \cup {None}
  PROVE  [reply EXCEPT ![c] = answer] \in [Callers -> (SUBSET Kids) \cup {None}]
<1> DEFINE Replies == (SUBSET Kids) \cup {None}
<1>1. reply \in [Callers -> Replies] /\ answer \in Replies
  BY DEF Typed
<1> HIDE DEF Replies
<1>2. [reply EXCEPT ![c] = answer] \in [Callers -> Replies]
  BY <1>1
<1> QED
  BY <1>2 DEF Replies

LEMMA InitIInv == Init => IInv
<1> SUFFICES ASSUME Init PROVE IInv
  OBVIOUS
<1>1. Typed
  <2>1. env \in Environments /\ published \subseteq Kids /\ withdrawn = {} /\ keys = {} /\ asked = {}
    BY DEF Init
  <2>2. gone \in [Kids -> 0..LongGone] /\ cacheAge \in 0..TTL + 1 /\ lastAge \in 0..RateLimit
        /\ since \in [Callers -> 0..RateLimit]
    BY Times DEF Init
  <2>3. pc \in [Callers -> Labels] /\ req \in [Callers -> Requests \cup {None}]
    BY DEF Init, Labels
  <2>4. reply \in [Callers -> (SUBSET Kids) \cup {None}]
    <3> DEFINE Replies == (SUBSET Kids) \cup {None}
    <3>1. None \in Replies
      OBVIOUS
    <3> HIDE DEF Replies
    <3>2. reply \in [Callers -> Replies]
      BY <3>1 DEF Init
    <3> QED
      BY <3>2 DEF Replies
  <2> QED
    BY <2>1, <2>2, <2>3, <2>4 DEF Typed
<1>2. StillSigns /\ CacheIsYoung
  BY DEF Init, StillSigns, CacheIsYoung, Young
<1>3. ASSUME NEW c \in Callers PROVE CallerOK(c)
  BY Times DEF Init, CallerOK, Free, At
<1> QED
  BY <1>1, <1>2, <1>3 DEF IInv

-----------------------------------------------------------------------------
(* The steps of the callers *)

(* The provider rests, and no caller but c moves. *)
Alone(c) ==
  /\ UNCHANGED <<env, published, withdrawn, gone>>
  /\ \A d \in Callers \ {c} : /\ pc'[d] = pc[d] /\ req'[d] = req[d]
                              /\ reply'[d] = reply[d] /\ since'[d] = since[d]

(* What the others know stays true when the cache loses keys or is filled with *)
(* young ones, and when a refresh is timed.                                    *)
LEMMA OthersKeep ==
  ASSUME IInv, NEW c \in Callers, Alone(c), Typed', lastAge' <= lastAge,
         keys' \subseteq keys \/ Young(keys, Timeout)',
         CallerOK(c)', CacheIsYoung'
  PROVE  IInv'
<1>1. ASSUME NEW d \in Callers, d # c PROVE CallerOK(d)'
  <2>1. /\ pc'[d] = pc[d] /\ req'[d] = req[d] /\ reply'[d] = reply[d] /\ since'[d] = since[d]
        /\ withdrawn' = withdrawn /\ gone' = gone
    BY <1>1 DEF Alone
  <2>2. CallerOK(d) /\ since[d] \in Nat /\ lastAge \in Nat /\ lastAge' \in Nat /\ gone \in [Kids -> Nat]
        /\ withdrawn \subseteq Kids
    BY Times DEF IInv, Typed
  <2>3. At(d, "stamp") => Young(keys, Timeout)'
    BY <2>1, <2>2 DEF CallerOK, Young
  <2> QED
    BY <2>1, <2>2, <2>3, Times DEF CallerOK, At, Free, Young, Found, Kid
<1> QED
  BY <1>1 DEF IInv, StillSigns, Alone

(* An answer moves c alone and leaves it with nothing to keep but its request. *)
LEMMA AnsweredKeeps ==
  ASSUME IInv, NEW c \in Callers, NEW r \in Requests, NEW passes \in BOOLEAN,
         Answered(c, r, passes), asked' \subseteq Insistent,
         UNCHANGED <<env, providerVars, cacheVars, reply, since>>
  PROVE  IInv'
<1>1. pc'[c] \in {"idle", "served"} /\ pc' \in [Callers -> Labels]
      /\ req' \in [Callers -> Requests \cup {None}] /\ Alone(c)
  BY DEF Answered, IInv, Typed, Labels, Alone, providerVars
<1>2. Typed'
  BY <1>1 DEF IInv, Typed, providerVars, cacheVars
<1>3. CallerOK(c)'
  BY <1>1 DEF IInv, CallerOK, Free, At, cacheVars
<1>4. CacheIsYoung' /\ lastAge' <= lastAge /\ keys' \subseteq keys
  BY Times DEF IInv, Typed, CacheIsYoung, Young, providerVars, cacheVars
<1> QED
  BY <1>1, <1>2, <1>3, <1>4, OthersKeep

LEMMA ArriveKeeps ==
  ASSUME IInv, NEW c \in Callers, NEW r \in Requests, Arrive(c, r)
  PROVE  IInv'
<1>1. /\ asked' \subseteq Insistent
      /\ UNCHANGED <<env, providerVars, cacheVars, reply, since>>
  BY DEF Arrive, IInv, Typed
<1>2. CASE \E passes \in BOOLEAN : Answered(c, r, passes)
  BY <1>1, <1>2, AnsweredKeeps
<1>3. CASE Readable(r.token) /\ Goto(c, "look") /\ req' = [req EXCEPT ![c] = r]
  <2>1. pc'[c] = "look" /\ pc' \in [Callers -> Labels] /\ req'[c] = r
        /\ req' \in [Callers -> Requests \cup {None}] /\ Alone(c)
    BY <1>1, <1>3 DEF Goto, IInv, Typed, Labels, Alone, providerVars
  <2>2. Typed'
    BY <1>1, <2>1 DEF IInv, Typed, providerVars, cacheVars
  <2>3. CallerOK(c)'
    BY <1>1, <1>3, <2>1 DEF IInv, CallerOK, Free, At, cacheVars
  <2>4. CacheIsYoung' /\ lastAge' <= lastAge /\ keys' \subseteq keys
    BY <1>1, Times DEF IInv, Typed, CacheIsYoung, Young, providerVars, cacheVars
  <2> QED
    BY <2>1, <2>2, <2>3, <2>4, OthersKeep
<1>4. HealthProbe(r) \/ Routed(r) \in BOOLEAN
  BY DEF HealthProbe, Routed
<1> QED
  BY <1>2, <1>3, <1>4 DEF Arrive

LEMMA DecideKeeps ==
  ASSUME IInv, NEW c \in Callers, ~Free(c), NEW known \in BOOLEAN, Decide(c, known),
         UNCHANGED <<env, providerVars, cacheVars, reply, since, asked>>
  PROVE  IInv'
<1> DEFINE passes == known /\ Accepts(req[c].token) /\ Routed(req[c])
<1>1. req[c] \in Requests /\ asked' \subseteq Insistent
  BY DEF IInv, CallerOK, Typed
<1>2. Answered(c, req[c], passes) /\ passes \in BOOLEAN
  BY DEF Decide
<1> HIDE DEF passes
<1> QED
  BY <1>1, <1>2, AnsweredKeeps

(* A caller that goes from one label to another with its request. *)
LEMMA GoesOn ==
  ASSUME IInv, NEW c \in Callers, NEW label \in Labels, Goto(c, label), req' = req,
         UNCHANGED <<env, providerVars, asked>>,
         \A d \in Callers \ {c} : reply'[d] = reply[d] /\ since'[d] = since[d],
         keys' \subseteq Kids, cacheAge' \in 0..TTL + 1, lastAge' \in 0..lastAge,
         reply' \in [Callers -> (SUBSET Kids) \cup {None}], since' \in [Callers -> 0..RateLimit],
         keys' \subseteq keys \/ Young(keys, Timeout)', CallerOK(c)', CacheIsYoung'
  PROVE  IInv'
<1>1. pc' \in [Callers -> Labels] /\ Alone(c)
  BY DEF Goto, IInv, Typed, Alone, providerVars
<1>2. lastAge' <= lastAge /\ lastAge' \in 0..RateLimit
  BY Times DEF IInv, Typed
<1>3. Typed'
  BY <1>1, <1>2 DEF IInv, Typed, providerVars
<1> QED
  BY <1>1, <1>2, <1>3, OthersKeep

LEMMA VerifyKeeps ==
  ASSUME IInv, NEW c \in Callers, Verify(c) \/ Answer(c)
  PROVE  IInv'
<1>1. /\ Typed /\ CallerOK(c) /\ CacheIsYoung /\ pc \in [Callers -> Labels]
      /\ since[c] \in 0..RateLimit /\ lastAge \in 0..lastAge /\ lastAge \in Nat
      /\ cacheAge \in Nat /\ cacheAge \in 0..TTL + 1 /\ gone \in [Kids -> Nat]
  BY Times DEF IInv, Typed
<1>2. CASE Look(c)
  <2>1. PICK label \in {"limit", "take", "clear"} :
          /\ Goto(c, label)
          /\ label = "limit" => Kid(c) \notin keys
          /\ label = "take" => cacheAge <= TTL
    BY <1>2 DEF Look
  <2>2. /\ pc'[c] = label /\ At(c, "look")
        /\ UNCHANGED <<env, providerVars, cacheVars, req, reply, since, asked>>
    BY <1>1, <1>2, <2>1 DEF Look, Goto
  <2>3. CallerOK(c)'
    <3>1. label = "limit" => Found(c) = {}
      BY <2>1 DEF Found
    <3>2. ASSUME label = "take" PROVE Young(Found(c), TTL + Timeout)
      <4>1. cacheAge <= TTL /\ Young(keys, cacheAge + Timeout)
        BY <1>1, <2>1, <3>2 DEF CacheIsYoung
      <4>2. \A k \in Found(c) \cap withdrawn : gone[k] \in Nat /\ gone[k] <= cacheAge + Timeout
        BY <1>1, <4>1 DEF Young, Found, Typed
      <4> QED
        BY <1>1, <4>1, <4>2, Times DEF Young
    <3>3. ~Free(c) /\ req[c] \in Requests /\ Readable(req[c].token) /\ lastAge <= since[c]
      BY <1>1, <2>2 DEF CallerOK, Free, At
    <3>4. Found(c)' = Found(c) /\ withdrawn' = withdrawn /\ gone' = gone
      BY <2>2 DEF Found, Kid, cacheVars, providerVars
    <3> QED
      BY <2>2, <3>1, <3>2, <3>3, <3>4 DEF CallerOK, At, Young, cacheVars
  <2>4. CacheIsYoung'
    BY <1>1, <2>2 DEF CacheIsYoung, Young, providerVars, cacheVars
  <2>5. label \in Labels
    BY DEF Labels
  <2> QED
    BY <1>1, <2>1, <2>2, <2>3, <2>4, <2>5, GoesOn DEF Typed, cacheVars
<1>3. CASE Take(c) \/ Get(c)
  <2>1. ~Free(c) /\ (Kid(c) \in keys) \in BOOLEAN
    BY <1>3 DEF Take, Get, At, Free
  <2> QED
    BY <1>3, <2>1, DecideKeeps DEF Take, Get
<1>4. CASE Clear(c)
  <2>1. /\ pc'[c] = "limit" /\ At(c, "clear") /\ keys' = {} /\ Goto(c, "limit")
        /\ UNCHANGED <<env, providerVars, cacheAge, lastAge, req, reply, since, asked>>
    BY <1>1, <1>4 DEF Clear, Goto
  <2>2. CallerOK(c)' /\ CacheIsYoung'
    BY <1>1, <2>1 DEF CallerOK, Free, At, Young, Found, CacheIsYoung
  <2>3. "limit" \in Labels
    BY DEF Labels
  <2> QED
    BY <1>1, <2>1, <2>2, <2>3, GoesOn DEF Typed
<1>5. CASE Limit(c)
  <2>1. CASE lastAge < RateLimit /\ Answered(c, req[c], FALSE)
    <3>1. req[c] \in Requests /\ asked' \subseteq Insistent
      BY <1>1, <1>5 DEF Limit, At, CallerOK, Free, Typed
    <3> QED
      BY <1>5, <2>1, <3>1, AnsweredKeeps DEF Limit
  <2>2. CASE lastAge >= RateLimit /\ Goto(c, "fetch") /\ UNCHANGED req
    <3>1. /\ pc'[c] = "fetch" /\ At(c, "limit")
          /\ UNCHANGED <<env, providerVars, cacheVars, req, reply, since, asked>>
      BY <1>1, <1>5, <2>2 DEF Limit, Goto
    <3>2. since[c] >= RateLimit
      BY <1>1, <2>2, Times DEF CallerOK
    <3>3. CallerOK(c)' /\ CacheIsYoung'
      BY <1>1, <3>1, <3>2
         DEF CallerOK, Free, At, Young, Found, Kid, CacheIsYoung, providerVars, cacheVars
    <3>4. "fetch" \in Labels
      BY DEF Labels
    <3> QED
      BY <1>1, <2>2, <3>1, <3>3, <3>4, GoesOn DEF Typed, cacheVars
  <2> QED
    BY <1>5, <2>1, <2>2 DEF Limit
<1>6. CASE Fetch(c)
  <2>1. /\ pc'[c] = "reply" /\ At(c, "fetch") /\ Goto(c, "reply")
        /\ lastAge' = 0 /\ since' = [since EXCEPT ![c] = 0] /\ since'[c] = 0
        /\ reply' = [reply EXCEPT ![c] = published] /\ reply'[c] = published
        /\ UNCHANGED <<env, providerVars, keys, cacheAge, req, asked>>
    BY <1>1, <1>6 DEF Fetch, Goto, Typed
  <2>2. published \subseteq Kids /\ Young(published, 0)'
    BY <1>1, <2>1 DEF Typed, Young, providerVars
  <2>3. CallerOK(c)'
    BY <1>1, <2>1, <2>2, Times DEF CallerOK, Free, At, Young, Found, Kid, providerVars
  <2>4. CacheIsYoung'
    BY <1>1, <2>1 DEF CacheIsYoung, Young, providerVars
  <2>5. /\ since' \in [Callers -> 0..RateLimit] /\ reply' \in [Callers -> (SUBSET Kids) \cup {None}]
        /\ lastAge' \in 0..lastAge /\ "reply" \in Labels
    BY <1>1, <2>1, <2>2, Times DEF Typed, Labels
  <2> QED
    BY <1>1, <2>1, <2>3, <2>4, <2>5, GoesOn DEF Typed
<1>7. CASE Answer(c)
  <2>1. /\ At(c, "reply") /\ reply' = [reply EXCEPT ![c] = published] /\ reply'[c] = published
        /\ UNCHANGED <<env, providerVars, cacheVars, pc, req, since, asked>>
    BY <1>1, <1>7 DEF Answer, Typed
  <2>2. published \subseteq Kids /\ Young(published, 0)'
    BY <1>1, <2>1 DEF Typed, Young, providerVars
  <2>3. CallerOK(c)' /\ CacheIsYoung'
    BY <1>1, <2>1, <2>2, Times
       DEF CallerOK, Free, At, Young, Found, Kid, CacheIsYoung, providerVars, cacheVars
  <2>4. Typed' /\ Alone(c) /\ lastAge' <= lastAge /\ keys' \subseteq keys
    BY <1>1, <2>1, <2>2 DEF Typed, Alone, providerVars, cacheVars
  <2> QED
    BY <2>3, <2>4, OthersKeep
<1>8. CASE LoseReply(c)
  <2>1. /\ pc'[c] = "get" /\ At(c, "reply") /\ Goto(c, "get") /\ reply' = [reply EXCEPT ![c] = None]
        /\ UNCHANGED <<env, providerVars, cacheVars, req, since, asked>>
    BY <1>1, <1>8 DEF LoseReply, Goto
  <2>2. CallerOK(c)' /\ CacheIsYoung'
    BY <1>1, <2>1 DEF CallerOK, Free, At, Young, Found, Kid, CacheIsYoung, providerVars, cacheVars
  <2>3. None \in (SUBSET Kids) \cup {None} /\ "get" \in Labels
    BY DEF Labels
  <2>4. reply' \in [Callers -> (SUBSET Kids) \cup {None}]
    BY <1>1, <2>1, <2>3, ReplyType
  <2> QED
    BY <1>1, <2>1, <2>2, <2>3, <2>4, GoesOn DEF Typed, cacheVars
<1>9. CASE Install(c)
  <2>1. /\ pc'[c] = "stamp" /\ At(c, "reply") /\ Goto(c, "stamp")
        /\ keys' = reply[c] /\ reply' = [reply EXCEPT ![c] = None]
        /\ UNCHANGED <<env, providerVars, cacheAge, lastAge, req, since, asked>>
    BY <1>1, <1>9 DEF Install, Goto
  <2>2. keys' \subseteq Kids /\ Young(keys, Timeout)'
    BY <1>1, <2>1, Times DEF CallerOK, At, Young, providerVars
  <2>3. CallerOK(c)'
    BY <1>1, <2>1, <2>2, Times DEF CallerOK, Free, At, Young, Found, providerVars
  <2>4. CacheIsYoung'
    BY <1>1, <2>1, <2>2, Times DEF CacheIsYoung, Young, providerVars
  <2>5. None \in (SUBSET Kids) \cup {None} /\ "stamp" \in Labels
    BY DEF Labels
  <2>6. reply' \in [Callers -> (SUBSET Kids) \cup {None}]
    BY <1>1, <2>1, <2>5, ReplyType
  <2> QED
    BY <1>1, <2>1, <2>2, <2>3, <2>4, <2>5, <2>6, GoesOn DEF Typed
<1>10. CASE Stamp(c)
  <2>1. /\ pc'[c] = "get" /\ At(c, "stamp") /\ Goto(c, "get") /\ cacheAge' = 0
        /\ UNCHANGED <<env, providerVars, keys, lastAge, req, reply, since, asked>>
    BY <1>1, <1>10 DEF Stamp, Goto
  <2>2. Young(keys, Timeout)'
    BY <1>1, <2>1 DEF CallerOK, At, Young, providerVars
  <2>3. CallerOK(c)'
    BY <1>1, <2>1 DEF CallerOK, Free, At, Young, Found, Kid, providerVars
  <2>4. CacheIsYoung' /\ cacheAge' \in 0..TTL + 1 /\ "get" \in Labels
    BY <1>1, <2>1, <2>2, Times DEF CacheIsYoung, Young, Labels
  <2> QED
    BY <1>1, <2>1, <2>2, <2>3, <2>4, GoesOn DEF Typed
<1> QED
  BY <1>2, <1>3, <1>4, <1>5, <1>6, <1>7, <1>8, <1>9, <1>10 DEF Verify

-----------------------------------------------------------------------------
(* The provider, and time *)

LEMMA PublishKeeps ==
  ASSUME IInv, NEW k \in Kids, Publish(k)
  PROVE  IInv'
<1>1. Typed'
  BY DEF IInv, Typed, Publish, cacheVars
<1>2. StillSigns' /\ CacheIsYoung'
  BY DEF IInv, Publish, StillSigns, CacheIsYoung, Young, cacheVars
<1>3. ASSUME NEW c \in Callers PROVE CallerOK(c)'
  BY DEF IInv, Publish, CallerOK, Free, At, Young, Found, Kid, cacheVars
<1> QED
  BY <1>1, <1>2, <1>3 DEF IInv

(* The key withdrawn had not been withdrawn before, and ages from here on. *)
LEMMA WithdrawKeeps ==
  ASSUME IInv, NEW k \in Kids, Withdraw(k)
  PROVE  IInv'
<1>1. Typed' /\ UNCHANGED <<gone, keys, cacheAge, lastAge, pc, req, reply, since>>
  BY DEF IInv, Typed, Withdraw, cacheVars
<1>2. k \notin withdrawn /\ gone[k] = 0 /\ withdrawn' = withdrawn \cup {k}
  BY DEF IInv, Typed, StillSigns, Withdraw
<1>3. ASSUME NEW S, NEW n \in Nat, Young(S, n)
      PROVE  \A key \in S \cap withdrawn' : gone'[key] <= n
  BY <1>1, <1>2, <1>3 DEF Young
<1>4. StillSigns'
  BY <1>1, <1>2 DEF IInv, StillSigns
<1>5. CacheIsYoung'
  <2>1. cacheAge + Timeout \in Nat
    BY Times DEF IInv, Typed
  <2> QED
    BY <1>1, <1>3, <2>1 DEF IInv, CacheIsYoung, Young
<1>6. ASSUME NEW c \in Callers PROVE CallerOK(c)'
  <2>1. since[c] \in Nat /\ since[c] + Timeout \in Nat /\ Timeout \in Nat /\ TTL + Timeout \in Nat
    BY Times DEF IInv, Typed
  <2>2. CallerOK(c) /\ Found(c)' = Found(c)
    BY <1>1 DEF IInv, Found, Kid
  <2>3. At(c, "reply") => Young(reply[c], since[c])'
    BY <1>1, <1>3, <2>1, <2>2 DEF CallerOK, Young
  <2>4. At(c, "stamp") => Young(keys, Timeout)'
    BY <1>1, <1>3, <2>1, <2>2 DEF CallerOK, Young
  <2>5. /\ pc[c] \in {"limit", "fetch"} => Young(Found(c), Timeout)'
        /\ pc[c] \in {"reply", "stamp", "get"} => Young(Found(c), since[c] + Timeout)'
        /\ At(c, "take") => Young(Found(c), TTL + Timeout)'
    BY <1>1, <1>3, <2>1, <2>2 DEF CallerOK, Young
  <2> QED
    BY <1>1, <2>2, <2>3, <2>4, <2>5 DEF CallerOK, At, Free
<1> QED
  BY <1>1, <1>4, <1>5, <1>6 DEF IInv

(* Time passes only while every caller rests or waits for the provider. *)
LEMMA TickKeeps ==
  ASSUME IInv, Tick
  PROVE  IInv'
<1>1. /\ UNCHANGED <<env, published, withdrawn, keys, pc, req, reply>>
      /\ asked' = {}
      /\ cacheAge' = Older(cacheAge, TTL + 1) /\ lastAge' = Older(lastAge, RateLimit)
      /\ since' = [c \in Callers |-> Older(since[c], RateLimit)]
      /\ gone' = [k \in Kids |-> IF k \in withdrawn THEN Older(gone[k], LongGone) ELSE gone[k]]
  BY DEF Tick
<1>2. /\ cacheAge \in 0..TTL + 1 /\ lastAge \in 0..RateLimit
      /\ gone \in [Kids -> 0..LongGone] /\ since \in [Callers -> 0..RateLimit]
  BY DEF IInv, Typed
<1>3. \A k \in Kids : gone'[k] \in 0..LongGone /\ gone'[k] <= gone[k] + 1 /\ gone[k] \in Nat
  BY <1>1, <1>2, Times DEF Older
<1>4. \A c \in Callers : since'[c] \in 0..RateLimit /\ since'[c] = Older(since[c], RateLimit)
  BY <1>1, <1>2, Times DEF Older
<1>5. gone' \in [Kids -> 0..LongGone]
  BY <1>1, <1>3
<1>6. since' \in [Callers -> 0..RateLimit]
  BY <1>1, <1>4
<1>7. cacheAge' \in 0..TTL + 1 /\ lastAge' \in 0..RateLimit
  BY <1>1, <1>2, Times DEF Older
<1>8. Typed'
  BY <1>1, <1>5, <1>6, <1>7 DEF IInv, Typed
<1>9. ASSUME NEW S, NEW n \in Nat, Young(S, n)
      PROVE  \A key \in S \cap withdrawn' : gone'[key] <= n + 1
  BY <1>1, <1>3, <1>9 DEF Young, IInv, Typed
<1>10. StillSigns'
  BY <1>1 DEF IInv, StillSigns
<1>11. CacheIsYoung'
  <2> SUFFICES ASSUME cacheAge' <= TTL PROVE Young(keys, cacheAge + Timeout)'
    BY DEF CacheIsYoung
  <2>1. cacheAge' = cacheAge + 1 /\ cacheAge <= TTL /\ cacheAge + Timeout \in Nat
        /\ cacheAge' + Timeout = cacheAge + Timeout + 1
    BY <1>1, <1>2, Times DEF Older
  <2>2. Young(keys, cacheAge + Timeout)
    BY <2>1 DEF IInv, CacheIsYoung
  <2> QED
    BY <1>1, <1>9, <2>1, <2>2 DEF Young
<1>12. ASSUME NEW c \in Callers PROVE CallerOK(c)'
  <2>1. lastAge' <= since'[c]
    BY <1>1, <1>2, <1>4, Times DEF IInv, CallerOK, Older
  <2>2. CASE Free(c)
    BY <1>1, <2>1, <2>2 DEF CallerOK, Free, At
  <2>3. CASE At(c, "reply") /\ since[c] < Timeout
    <3>1. /\ since[c] \in Nat /\ since'[c] = since[c] + 1 /\ since'[c] <= Timeout
          /\ since[c] + Timeout \in Nat /\ since'[c] + Timeout = since[c] + Timeout + 1
      BY <1>2, <1>4, <2>3, Times DEF Older
    <3>2. /\ CallerOK(c) /\ reply[c] \subseteq Kids
          /\ Young(reply[c], since[c]) /\ Young(Found(c), since[c] + Timeout)
      BY <2>3 DEF IInv, CallerOK, At
    <3>3. Young(reply[c], since[c])'
      BY <1>1, <1>9, <3>1, <3>2 DEF Young
    <3>4. Young(Found(c), since[c] + Timeout)' /\ Found(c)' = Found(c)
      BY <1>1, <1>9, <3>1, <3>2 DEF Young, Found, Kid
    <3> QED
      BY <1>1, <2>1, <2>3, <3>1, <3>2, <3>3, <3>4 DEF CallerOK, Free, At
  <2> QED
    BY <2>2, <2>3 DEF Tick
<1> QED
  BY <1>8, <1>10, <1>11, <1>12 DEF IInv

LEMMA NextIInv == IInv /\ [Next]_vars => IInv'
<1> SUFFICES ASSUME IInv, [Next]_vars PROVE IInv'
  OBVIOUS
<1>1. CASE UNCHANGED vars
  BY <1>1 DEF vars, providerVars, cacheVars, IInv, Typed, StillSigns, CacheIsYoung, CallerOK,
     Young, Found, Kid, Free, At
<1>2. CASE \E c \in Callers : (\E r \in Requests : Arrive(c, r)) \/ Verify(c) \/ Answer(c)
  BY <1>2, ArriveKeeps, VerifyKeeps
<1>3. CASE \E k \in Kids : Publish(k) \/ Withdraw(k)
  BY <1>3, PublishKeeps, WithdrawKeeps
<1>4. CASE Tick
  BY <1>4, TickKeeps
<1> QED
  BY <1>1, <1>2, <1>3, <1>4 DEF Next

LEMMA Invariance == Spec => []IInv
BY InitIInv, NextIInv, PTL DEF Spec

-----------------------------------------------------------------------------
(* The theorems *)

(* The state keeps its types, and a thread past its first look at the cache   *)
(* (get_key) has a request with a token that can be read.                     *)
THEOREM TypeCorrect == Spec => []TypeOK
BY Invariance, IInvTypes, PTL

(* A caller moves only by a step of its own. *)
LEMMA OwnStep ==
  ASSUME IInv, [Next]_vars, NEW c \in Callers, pc'[c] # pc[c]
  PROVE  (\E r \in Requests : Arrive(c, r)) \/ Verify(c)
<1>1. /\ ~UNCHANGED pc /\ ~Tick /\ pc \in [Callers -> Labels]
      /\ ~\E k \in Kids : Publish(k) \/ Withdraw(k)
  BY DEF Tick, Publish, Withdraw, IInv, Typed
<1>2. PICK d \in Callers : (\E r \in Requests : Arrive(d, r)) \/ Verify(d)
  BY <1>1 DEF Next, Answer, vars
<1>3. \E label : pc' = [pc EXCEPT ![d] = label]
  BY <1>2 DEF Arrive, Verify, Look, Take, Clear, Limit, Fetch, LoseReply, Install, Stamp, Get,
     Decide, Answered, Goto
<1>4. c = d
  BY <1>1, <1>3
<1> QED
  BY <1>2, <1>4

(* A caller let through after a look into the cache was let through by Take    *)
(* or Get, with all that Decide asks for.                                      *)
LEMMA LetThroughByDecision ==
  ASSUME IInv, [Next]_vars, NEW c \in Callers, LetThrough(c), ~Free(c)
  PROVE  /\ Take(c) \/ Get(c)
         /\ Kid(c) \in keys /\ Accepts(req[c].token) /\ Routed(req[c])
         /\ req'[c] = req[c]
<1>1. pc \in [Callers -> Labels] /\ req \in [Callers -> Requests \cup {None}]
  BY DEF IInv, Typed
<1>2. Verify(c) /\ pc'[c] = "served"
  BY OwnStep DEF LetThrough, Arrive, At
<1>3. ~(Look(c) \/ Clear(c) \/ Fetch(c) \/ LoseReply(c) \/ Install(c) \/ Stamp(c))
  BY <1>1, <1>2 DEF Look, Clear, Fetch, LoseReply, Install, Stamp, Goto
<1>4. ~Limit(c)
  BY <1>1, <1>2 DEF Limit, Goto, Answered
<1>5. Take(c) \/ Get(c)
  BY <1>2, <1>3, <1>4 DEF Verify
<1>6. Decide(c, Kid(c) \in keys)
  BY <1>5 DEF Take, Get
<1>7. PICK passes \in BOOLEAN :
        /\ passes = (Kid(c) \in keys /\ Accepts(req[c].token) /\ Routed(req[c]))
        /\ Answered(c, req[c], passes)
  BY <1>6 DEF Decide
<1>8. passes /\ req'[c] = req[c]
  BY <1>1, <1>2, <1>7 DEF Answered
<1> QED
  BY <1>5, <1>7, <1>8

(* Whatever the threads that share the unlocked cache do to it (get_key,      *)
(* _refresh), a key withdrawn by the provider opens nothing after TTL +       *)
(* Timeout.                                                                   *)
THEOREM WithdrawnKeysStop == Spec => WithdrawnKeyStops
<1>1. IInv /\ [Next]_vars =>
        [\A c \in Callers :
           LetThrough(c) /\ pc[c] \in {"take", "get"} /\ Kid(c) \in withdrawn
             => gone[Kid(c)] <= TTL + Timeout]_vars
  <2> SUFFICES ASSUME IInv, [Next]_vars, NEW c \in Callers,
                      LetThrough(c), pc[c] \in {"take", "get"}, Kid(c) \in withdrawn
               PROVE  gone[Kid(c)] <= TTL + Timeout
    OBVIOUS
  <2>1. Kid(c) \in Found(c) \cap withdrawn
    BY LetThroughByDecision DEF Free, Found
  <2>2. since[c] \in Nat /\ gone[Kid(c)] \in Nat /\ CallerOK(c)
    BY Times DEF IInv, Typed
  <2>3. CASE At(c, "take")
    BY <2>1, <2>2, <2>3 DEF CallerOK, Young
  <2>4. CASE At(c, "get")
    <3>1. since[c] <= Timeout /\ gone[Kid(c)] <= since[c] + Timeout
      BY <2>1, <2>2, <2>4 DEF CallerOK, Young, At
    <3> QED
      BY <2>2, <3>1, Times
  <2> QED
    BY <2>3, <2>4 DEF At
<1> QED
  BY <1>1, Invariance, PTL DEF Spec, WithdrawnKeyStops

(* A thread that starts a refresh (_refresh) has not started one within the   *)
(* rate limit, whatever came of its last.                                     *)
THEOREM RefreshesAreSpaced == Spec => RefreshIsSpaced
<1>1. IInv /\ [Next]_vars =>
        [\A c \in Callers : At(c, "fetch") /\ pc'[c] = "reply" => since[c] >= RateLimit]_vars
  BY DEF IInv, CallerOK
<1> QED
  BY <1>1, Invariance, PTL DEF Spec, RefreshIsSpaced

(* With Access on, a request that reaches a handler is the container's own    *)
(* health probe, or carries an accepted identity; and it reads, comes from    *)
(* our pages, or is only redirected.                                          *)
THEOREM HandlersGuarded == Spec => HandlersAreGuarded
<1>1. IInv /\ [Next]_vars =>
        [\A c \in Callers :
           LET r == req'[c] IN
           LetThrough(c) /\ Enabled(env) =>
             \/ r.path = "internal" /\ r.client = "loopback"
             \/ /\ Readable(r.token) /\ Accepts(r.token)
                /\ r.path = "legacy" \/ r.method = "read" \/ r.origin = "ours"]_vars
  <2> SUFFICES ASSUME IInv, [Next]_vars, NEW c \in Callers, LetThrough(c), Enabled(env)
               PROVE  \/ req'[c].path = "internal" /\ req'[c].client = "loopback"
                      \/ /\ Readable(req'[c].token) /\ Accepts(req'[c].token)
                         /\ \/ req'[c].path = "legacy" \/ req'[c].method = "read"
                            \/ req'[c].origin = "ours"
    OBVIOUS
  <2>1. CASE Free(c)
    <3>1. PICK r \in Requests : Arrive(c, r)
      BY <2>1, OwnStep DEF LetThrough, Verify, Look, Take, Clear, Limit, Fetch, LoseReply, Install,
         Stamp, Get, Free, At
    <3>2. /\ pc \in [Callers -> Labels] /\ req \in [Callers -> Requests \cup {None}]
          /\ pc'[c] = "served"
      BY DEF IInv, Typed, LetThrough
    <3>3. HealthProbe(r) \/ Routed(r) \in BOOLEAN
      BY DEF HealthProbe, Routed
    <3>4. ~Answered(c, r, FALSE) /\ ~Goto(c, "look")
      BY <3>2 DEF Answered, Goto
    <3>5. HealthProbe(r) /\ Answered(c, r, TRUE)
      BY <3>1, <3>4 DEF Arrive
    <3>6. req'[c] = r
      BY <3>2, <3>5 DEF Answered
    <3> QED
      BY <3>5, <3>6 DEF HealthProbe
  <2>2. CASE ~Free(c)
    <3>1. req'[c] = req[c] /\ Accepts(req[c].token) /\ Routed(req[c])
      BY <2>2, LetThroughByDecision
    <3>2. Readable(req[c].token)
      BY <2>2 DEF IInv, CallerOK
    <3>3. \/ req[c].path = "legacy" \/ req[c].method = "read" \/ req[c].origin = "ours"
      BY <3>1 DEF Routed, FromOurPages
    <3> QED
      BY <3>1, <3>2, <3>3
  <2> QED
    BY <2>1, <2>2
<1> QED
  BY <1>1, Invariance, PTL DEF Spec, HandlersAreGuarded
=============================================================================
