------------------------------ MODULE EdgeAuth ------------------------------
(***************************************************************************)
(* The edge of the dashboard (web/edge_auth.py): which requests reach a     *)
(* handler, and the cache of the identity provider's signing keys that the  *)
(* decision rests on.  The middleware and the viewer sockets verify tokens  *)
(* on the event-loop thread; the viewer gate (web/app.py) is a synchronous  *)
(* endpoint and verifies them on threads of a pool.  JwksCache has no lock, *)
(* so the steps of its get_key interleave; they take no time, except that a *)
(* refresh waits for the provider.                                          *)
(*                                                                          *)
(* Time is kept as ages that stop at the last value the code can tell       *)
(* apart.  A token is its key, its owner and whether anything but its key   *)
(* and owner is wrong with it.  The provider publishes no more keys than    *)
(* the cache holds (16), so the truncation of _refresh is left out.         *)
(***************************************************************************)
EXTENDS Integers, FiniteSets

CONSTANTS
  Loop,          \* the event-loop thread
  Pool,          \* the threads that run the viewer gate
  Kids,          \* the provider's key ids
  Requests,      \* requests that may arrive
  Insistent,     \* those of them that somebody keeps making
  Environments,  \* process environments the service may be started in
  TTL,           \* jwks_cache_ttl_seconds
  RateLimit,     \* jwks_rate_limit_seconds
  Timeout,       \* how long a refresh takes at most (jwks_timeout_seconds)
  None

ASSUME Timing ==
  /\ TTL \in Nat /\ RateLimit \in Nat /\ Timeout \in Nat
  /\ Timeout <= RateLimit /\ RateLimit <= TTL

ASSUME Apart == Loop \notin Pool

Callers == {Loop} \cup Pool

VARIABLES
  env,        \* the environment edge_config was read from
  published,  \* keys the provider signs with
  withdrawn,  \* keys it has stopped signing with
  gone,       \* for how long a withdrawn key has been withdrawn
  keys,       \* JwksCache._keys
  cacheAge,   \* now - _key_fetched_at
  lastAge,    \* now - _last_fetched
  pc,         \* where each caller is
  req,        \* the request it decides, or the last one it let through
  reply,      \* the keys in the provider's answer to its refresh
  since,      \* how long ago it last started a refresh
  asked       \* which of the insistent requests were made since the last tick

providerVars == <<published, withdrawn, gone>>
cacheVars == <<keys, cacheAge, lastAge>>
vars == <<env, providerVars, cacheVars, pc, req, reply, since, asked>>

LongGone == TTL + Timeout + 1

(* CF_ACCESS_ENABLED decides; left unset, a service with an audience is on. *)
Enabled(e) == e.flag = "on" \/ (e.flag = "unset" /\ e.service /\ e.audience)

(* The start-up check refuses to serve half configured. *)
StartsUp(e) ==
  Enabled(e) => e.audience /\ e.team /\ ~e.wildcard /\ e.allowed # {}

Init ==
  /\ env \in {e \in Environments : StartsUp(e)}
  /\ published \in SUBSET Kids \ {{}}
  /\ withdrawn = {}
  /\ gone = [k \in Kids |-> 0]
  /\ keys = {}
  /\ cacheAge = TTL + 1
  /\ lastAge = RateLimit
  /\ pc = [c \in Callers |-> "idle"]
  /\ req = [c \in Callers |-> None]
  /\ reply = [c \in Callers |-> None]
  /\ since = [c \in Callers |-> RateLimit]
  /\ asked = {}

----------------------------------------------------------------------------
(* What is decided of a request apart from its key.                         *)

(* Mutant: the probe is let through for any address of a trusted proxy. *)
ProxiedProbe(r) == r.path = "internal" /\ r.client \in {"loopback", "proxy"}

(* Only the container's own health probe passes without an identity.        *)
HealthProbe(r) == r.path = "internal" /\ r.client = "loopback"

(* Everything verify_cf_access_jwt checks after the signature's key. *)
Accepts(token) == token.sound /\ token.owner \in env.allowed

(* A socket comes from our own pages only.  A write from another page is    *)
(* refused, one that does not say where it comes from is refused when the   *)
(* browser may have added credentials by itself.                            *)
FromOurPages(r) ==
  \/ r.origin = "ours"
  \/ r.origin = "none" /\ r.method = "read"
  \/ r.origin = "none" /\ r.method = "write" /\ ~Enabled(env) /\ ~r.cookie
  \/ r.origin = "foreign" /\ r.method = "read" /\ r.path # "gate"

(* The legacy prefix is redirected before the origin is looked at. *)
Routed(r) == r.path # "internal" /\ (r.path = "legacy" \/ FromOurPages(r))

(* Host names are checked by the middleware, which sockets do not pass; a   *)
(* socket's origin is checked before its token.                             *)
TurnedAway(r) == IF r.path = "socket" THEN ~FromOurPages(r) ELSE ~r.host

(* Mutant: a header that cannot be read is passed on. *)
Present(token) == token # None

(* A token whose header names a key and the one algorithm allowed (RS256). *)
Readable(token) == token # None /\ token.readable

(* The request is answered: let through to its handler, or refused. *)
Answered(c, r, passes) ==
  /\ pc' = [pc EXCEPT ![c] = IF passes THEN "served" ELSE "idle"]
  /\ req' = [req EXCEPT ![c] = IF passes THEN r ELSE None]

At(c, label) == pc[c] = label
Goto(c, label) == pc' = [pc EXCEPT ![c] = label]
Free(c) == pc[c] \in {"idle", "served"}
Kid(c) == req[c].token.kid

----------------------------------------------------------------------------
(* A request that needs no key is answered at once. *)
Arrive(c, r) ==
  /\ Free(c)
  /\ (r.path = "gate") = (c \in Pool)
  /\ \/ /\ TurnedAway(r)
        /\ Answered(c, r, FALSE)
     \/ /\ ~TurnedAway(r)
        /\ HealthProbe(r) \/ ~Enabled(env)
        /\ Answered(c, r, HealthProbe(r) \/ Routed(r))
     \/ /\ ~TurnedAway(r) /\ ~HealthProbe(r) /\ Enabled(env)
        /\ ~Readable(r.token)
        /\ Answered(c, r, FALSE)
     \/ /\ ~TurnedAway(r) /\ ~HealthProbe(r) /\ Enabled(env)
        /\ Readable(r.token)
        /\ Goto(c, "look")
        /\ req' = [req EXCEPT ![c] = r]
  /\ asked' = asked \cup ({r} \cap Insistent)
  /\ UNCHANGED <<env, providerVars, cacheVars, reply, since>>

Decide(c, known) ==
  Answered(c, req[c], known /\ Accepts(req[c].token) /\ Routed(req[c]))

(* get_key: the first look at the dictionary and its age. *)
Look(c) ==
  /\ At(c, "look")
  /\ \/ Kid(c) \notin keys /\ Goto(c, "limit")
     \/ Kid(c) \in keys /\ cacheAge <= TTL /\ Goto(c, "take")
     \/ Kid(c) \in keys /\ cacheAge > TTL /\ Goto(c, "clear")
  /\ UNCHANGED <<env, providerVars, cacheVars, req, reply, since, asked>>

(* The key is read after the look: another thread may have cleared it, and  *)
(* the KeyError turns the request away.                                     *)
Take(c) ==
  /\ At(c, "take")
  /\ Decide(c, Kid(c) \in keys)
  /\ UNCHANGED <<env, providerVars, cacheVars, reply, since, asked>>

(* Mutant: expired keys are kept while a refresh is attempted. *)
ClearNothing(c) ==
  /\ At(c, "clear")
  /\ Goto(c, "limit")
  /\ UNCHANGED <<env, providerVars, cacheVars, req, reply, since, asked>>

(* Expired keys are dropped, or those another thread has just installed. *)
Clear(c) ==
  /\ At(c, "clear")
  /\ keys' = {}
  /\ Goto(c, "limit")
  /\ UNCHANGED <<env, providerVars, cacheAge, lastAge, req, reply, since, asked>>

(* Mutant: a refused attempt postpones the next refresh. *)
SlidingLimit(c) ==
  /\ At(c, "limit")
  /\ \/ lastAge < RateLimit /\ Answered(c, req[c], FALSE) /\ lastAge' = 0
     \/ lastAge >= RateLimit /\ Goto(c, "fetch") /\ UNCHANGED <<req, lastAge>>
  /\ UNCHANGED <<env, providerVars, keys, cacheAge, reply, since, asked>>

(* The refresh is rate limited; the time of the last one is read here and   *)
(* written by Fetch.                                                        *)
Limit(c) ==
  /\ At(c, "limit")
  /\ \/ lastAge < RateLimit /\ Answered(c, req[c], FALSE)
     \/ lastAge >= RateLimit /\ Goto(c, "fetch") /\ UNCHANGED req
  /\ UNCHANGED <<env, providerVars, cacheVars, reply, since, asked>>

(* Mutant: the time of a refresh is kept only when it succeeds. *)
FetchUntimed(c) ==
  /\ At(c, "fetch")
  /\ since' = [since EXCEPT ![c] = 0]
  /\ reply' = [reply EXCEPT ![c] = published]
  /\ Goto(c, "reply")
  /\ UNCHANGED <<env, providerVars, cacheVars, req, asked>>

(* _refresh records its start and asks the provider for its keys. *)
Fetch(c) ==
  /\ At(c, "fetch")
  /\ lastAge' = 0
  /\ since' = [since EXCEPT ![c] = 0]
  /\ reply' = [reply EXCEPT ![c] = published]
  /\ Goto(c, "reply")
  /\ UNCHANGED <<env, providerVars, keys, cacheAge, req, asked>>

(* Until its answer is read, the provider may have sent newer keys. *)
Answer(c) ==
  /\ At(c, "reply")
  /\ reply[c] # published
  /\ reply' = [reply EXCEPT ![c] = published]
  /\ UNCHANGED <<env, providerVars, cacheVars, pc, req, since, asked>>

(* The refresh fails or times out; what is cached stays. *)
LoseReply(c) ==
  /\ At(c, "reply")
  /\ reply' = [reply EXCEPT ![c] = None]
  /\ Goto(c, "get")
  /\ UNCHANGED <<env, providerVars, cacheVars, req, since, asked>>

Install(c) ==
  /\ At(c, "reply")
  /\ keys' = reply[c]
  /\ reply' = [reply EXCEPT ![c] = None]
  /\ Goto(c, "stamp")
  /\ UNCHANGED <<env, providerVars, cacheAge, lastAge, req, since, asked>>

(* The time of the new keys is written after them. *)
Stamp(c) ==
  /\ At(c, "stamp")
  /\ cacheAge' = 0
  /\ Goto(c, "get")
  /\ UNCHANGED <<env, providerVars, keys, lastAge, req, reply, since, asked>>

Get(c) ==
  /\ At(c, "get")
  /\ Decide(c, Kid(c) \in keys)
  /\ UNCHANGED <<env, providerVars, cacheVars, reply, since, asked>>

----------------------------------------------------------------------------
(* The provider, and time. *)
Publish(k) ==
  /\ k \notin published \cup withdrawn
  /\ published' = published \cup {k}
  /\ UNCHANGED <<env, withdrawn, gone, cacheVars, pc, req, reply, since, asked>>

Withdraw(k) ==
  /\ k \in published /\ published # {k}
  /\ published' = published \ {k}
  /\ withdrawn' = withdrawn \cup {k}
  /\ UNCHANGED <<env, gone, cacheVars, pc, req, reply, since, asked>>

Older(age, last) == IF age < last THEN age + 1 ELSE last

Tick ==
  /\ \A c \in Callers : Free(c) \/ (At(c, "reply") /\ since[c] < Timeout)
  /\ gone' = [k \in Kids |->
       IF k \in withdrawn THEN Older(gone[k], LongGone) ELSE gone[k]]
  /\ cacheAge' = Older(cacheAge, TTL + 1)
  /\ lastAge' = Older(lastAge, RateLimit)
  /\ since' = [c \in Callers |-> Older(since[c], RateLimit)]
  /\ asked' = {}
  /\ UNCHANGED <<env, published, withdrawn, keys, pc, req, reply>>

Verify(c) ==
  \/ Look(c) \/ Take(c) \/ Clear(c) \/ Limit(c) \/ Fetch(c)
  \/ LoseReply(c) \/ Install(c) \/ Stamp(c) \/ Get(c)

Next ==
  \/ \E c \in Callers : (\E r \in Requests : Arrive(c, r)) \/ Verify(c) \/ Answer(c)
  \/ \E k \in Kids : Publish(k) \/ Withdraw(k)
  \/ Tick

Spec == Init /\ [][Next]_vars

(* A request that deserves to be let through. *)
Rightful(r) == Readable(r.token) /\ Accepts(r.token) /\ Routed(r) /\ ~TurnedAway(r)

(* Threads run and time goes on. *)
FairSpec ==
  /\ Spec
  /\ []<><<Tick>>_vars
  /\ \A c \in Callers : WF_vars(Verify(c))

----------------------------------------------------------------------------
Labels ==
  {"idle", "served", "look", "take", "clear", "limit", "fetch", "reply", "stamp", "get"}

(* Types; a caller past its first look has a request with a readable token. *)
TypeOK ==
  /\ env \in Environments
  /\ published \subseteq Kids /\ withdrawn \subseteq Kids
  /\ published \cap withdrawn = {}
  /\ gone \in [Kids -> 0..LongGone]
  /\ keys \subseteq Kids
  /\ cacheAge \in 0..TTL + 1 /\ lastAge \in 0..RateLimit
  /\ pc \in [Callers -> Labels]
  /\ req \in [Callers -> Requests \cup {None}]
  /\ \A c \in Callers : ~Free(c) => req[c] \in Requests /\ req[c].token.readable
  /\ reply \in [Callers -> (SUBSET Kids) \cup {None}]
  /\ since \in [Callers -> 0..RateLimit]
  /\ asked \subseteq Insistent

LetThrough(c) == ~At(c, "served") /\ pc'[c] = "served"

(* A key the provider has withdrawn opens nothing once the cache's time to  *)
(* live and one refresh have passed, whatever the threads that share the    *)
(* unlocked cache do to it (JwksCache.get_key, _refresh).                   *)
WithdrawnKeyStops ==
  [][\A c \in Callers :
       LetThrough(c) /\ pc[c] \in {"take", "get"} /\ Kid(c) \in withdrawn
         => gone[Kid(c)] <= TTL + Timeout]_vars

(* A thread never refreshes twice within the rate limit, even when its      *)
(* refreshes fail.  (Threads that read the time of the last refresh before  *)
(* one of them writes it do refresh together.)                              *)
RefreshIsSpaced ==
  [][\A c \in Callers : At(c, "fetch") /\ pc'[c] = "reply" => since[c] >= RateLimit]_vars

(* With Access on, no handler runs without an allowed identity, the         *)
(* container's own health probe apart, and none that changes anything or    *)
(* opens a socket for a page of another site.                               *)
HandlersAreGuarded ==
  [][\A c \in Callers :
       LET r == req'[c] IN
       LetThrough(c) /\ Enabled(env) =>
         \/ r.path = "internal" /\ r.client = "loopback"
         \/ /\ Readable(r.token) /\ Accepts(r.token)
            /\ r.path = "legacy" \/ r.method = "read" \/ r.origin = "ours"]_vars

(* Once the provider answers every refresh, whoever asks all the time with  *)
(* a valid token whose key stays published is let through again and again:  *)
(* the rate limit, and threads that clear what another has just fetched,    *)
(* only delay it.                                                           *)
AccessReturns ==
  \A r \in Insistent :
    <>[](Rightful(r) /\ r.token.kid \in published)
    /\ <>[][\A c \in Callers : ~LoseReply(c)]_vars
    /\ <>[][Tick => r \in asked]_vars
      => []<>(\E c \in Callers : pc[c] = "served" /\ req[c] = r)
=============================================================================
