------------------------------- MODULE Gateway -------------------------------
(***************************************************************************)
(* The way of a request through cmd/api: Authenticate, the rate limiter,   *)
(* Require, the handler.  Requests are served at once by one process, and  *)
(* meet in its cache of signing keys and in the counters in Redis.  The    *)
(* library's part of a token's validation is what validate relies on: the  *)
(* signature belongs to the key, and the claims are checked after it.      *)
(***************************************************************************)
EXTENDS JwksCache, RateLimiter, FiniteSets

CONSTANTS
    Modes,     \* the configurations to try: the mode, and in jwt mode the sources of
               \* keys that are configured: secret, pem, jwks
    Sends,     \* by request, what it may be: [bearer, kid, alg, claim, subject, expires,
               \* actor, route], of which actor is its X-Actor header
    NoRequest, \* stands for what an idle client sends
    TokenOf,   \* token mode: by bearer token, its principal's [role, subject]
    MaxTime,   \* bound on the clock
    MaxFaults  \* bound on errors of the provider and of Redis, and crashes

ASSUME GatewayAssumption == {MaxTime, MaxFaults} \subseteq Nat

Roles == <<"none", "viewer", "analyst", "admin">>

Level(role) == CHOOSE i \in 1..4 : Roles[i] = role

\* The routes, in the groups of the router, by the role that their group requires.
Required ==
    [ListIdentities |-> "viewer", ListFindings |-> "viewer", GetGraph |-> "viewer",
     UpdateFinding |-> "analyst", UpdateRemediation |-> "analyst",
     Collect |-> "admin", SuppressFinding |-> "admin", PutRiskWeights |-> "admin"]

VARIABLES
    mode,      \* Auth.mode and, for jwt, what is configured
    request,   \* by request: where it is, what it sends, who it is
    faults     \* how much of MaxFaults is used up

gatewayVars == <<mode, request, faults>>
vars == <<jwksVars, counters, gatewayVars>>

Idle == [at |-> "idle", sent |-> NoRequest, role |-> "none", subject |-> "", bucket |-> <<>>,
         since |-> 0, counted |-> FALSE, n |-> 0, verified |-> 0]

Answers == {"served", "unauthorized", "forbidden", "limited", "failed", "lost"}

Fault == faults < MaxFaults /\ faults' = faults + 1

Init ==
    /\ JwksInit /\ LimiterInit
    /\ mode \in Modes
    /\ request = [r \in Requests |-> Idle]
    /\ faults = 0

Sent(r) == request[r].sent

----------------------------------------------------------------------------
\* A client sends what it has, at any time.
Arrive(r, s) ==
    /\ request[r].at = "idle"
    /\ request' = [request EXCEPT ![r].at = "auth", ![r].sent = s]
    /\ UNCHANGED <<jwksVars, counters, mode, faults>>

Goes(r, at) == request' = [request EXCEPT ![r].at = at]

\* extractRole: a role, or the highest one of a list of groups; an unknown is none.
ExtractRole(claim) ==
    LET known == {g \in claim : g \in {"viewer", "analyst", "admin"}}
    IN IF known = {} THEN "none"
       ELSE CHOOSE g \in known : \A h \in known : Level(g) >= Level(h)

\* The limiter is mounted only if there is a limit.
AfterAuth == IF Limit = 0 THEN "route" ELSE "limit"

Admit(r, role, subject) ==
    request' = [request EXCEPT ![r].at = AfterAuth, ![r].role = role,
                               ![r].subject = subject, ![r].verified = now]

\* The signature was verified with a key; expiry, issuer and audience are checked.
Verify(r) ==
    IF Sent(r).expires >= now
    THEN Admit(r, ExtractRole(Sent(r).claim), Sent(r).subject)
    ELSE Goes(r, "unauthorized")

\* validate's key function: a key set goes before a static key.
KeySource(alg) ==
    CASE alg = "HS256" /\ "secret" \in mode.has -> "secret"
      [] alg = "RS256" /\ "jwks" \in mode.has -> "jwks"
      [] alg = "RS256" /\ "jwks" \notin mode.has /\ "pem" \in mode.has -> "pem"
      [] OTHER -> "none"

ValidateStatic(r) ==
    CASE KeySource(Sent(r).alg) \in {"secret", "pem"} -> Verify(r)
      [] KeySource(Sent(r).alg) = "none" -> Goes(r, "unauthorized")

NeedsKey(r) == mode.auth = "jwt" /\ KeySource(Sent(r).alg) = "jwks"

Authenticate(r) ==
    /\ request[r].at = "auth"
    /\ \/ /\ mode.auth = "off"
          /\ Admit(r, "admin", IF Sent(r).actor = "" THEN "anonymous" ELSE Sent(r).actor)
       \/ /\ mode.auth = "token"
          /\ IF Sent(r).bearer \in DOMAIN TokenOf
             THEN Admit(r, TokenOf[Sent(r).bearer].role, TokenOf[Sent(r).bearer].subject)
             ELSE Goes(r, "unauthorized")
       \/ mode.auth = "jwt" /\ ~NeedsKey(r) /\ ValidateStatic(r)
    /\ UNCHANGED <<jwksVars, counters, mode, faults>>

KeyCached(r) ==
    /\ request[r].at = "auth" /\ NeedsKey(r)
    /\ LookupHit(r, Sent(r).kid)
    /\ Verify(r)
    /\ UNCHANGED <<jwksVars, counters, mode, faults>>

\* A torn read of the address ends in a panic, which Recoverer turns into a 500.
KeyMissing(r) ==
    /\ request[r].at = "auth" /\ NeedsKey(r)
    /\ \E at \in UrlReads :
          /\ LookupMiss(r, Sent(r).kid, at)
          /\ Goes(r, IF at = "torn" THEN "failed" ELSE "key")
    /\ UNCHANGED <<counters, mode, faults>>

Refresh(r) ==
    /\ request[r].at = "key"
    /\ \/ (Discovered(r) \/ Answered(r) \/ Store(r)) /\ UNCHANGED faults
       \/ /\ RefreshFails(r)
          /\ IF call[r].at = "store" THEN UNCHANGED faults ELSE Fault
    /\ UNCHANGED <<counters, mode, request>>

\* Mutant: an unknown key is left to a later refresh.
KeyReturnedIfFound(r) ==
    /\ request[r].at = "key" /\ Returns(r) /\ Found(r)
    /\ Verify(r)
    /\ Return(r)
    /\ UNCHANGED <<now, provider, cacheVars, counters, mode, faults>>

\* keyByID returns.
KeyReturned(r) ==
    /\ request[r].at = "key" /\ Returns(r)
    /\ IF Found(r) THEN Verify(r) ELSE Goes(r, "unauthorized")
    /\ Return(r)
    /\ UNCHANGED <<now, provider, cacheVars, counters, mode, faults>>

----------------------------------------------------------------------------
\* clientKey: the subject, or where the request comes from.
ClientKey(r) == IF request[r].subject # "" THEN request[r].subject ELSE "ip"

Decide(r, n) == IF Allowed(n) THEN "route" ELSE "limited"

Count(r) ==
    /\ request[r].at = "limit"
    /\ LET b == Bucket(ClientKey(r), now)
           n == After1(b)
       IN /\ Incr(b)
          /\ request' = [request EXCEPT ![r].at = IF n = 1 THEN "expire" ELSE Decide(r, n),
                                        ![r].bucket = b, ![r].since = now,
                                        ![r].counted = TRUE, ![r].n = n]
    /\ UNCHANGED <<jwksVars, mode, faults>>

\* Redis does not answer: the request is let through.
CountFails(r) ==
    /\ request[r].at = "limit"
    /\ Fault
    /\ Goes(r, "route")
    /\ UNCHANGED <<jwksVars, counters, mode>>

\* The result of EXPIRE is not looked at.
SetExpiry(r) ==
    /\ request[r].at = "expire"
    /\ \/ Expire(request[r].bucket, now) /\ UNCHANGED faults
       \/ Fault /\ UNCHANGED counters
    /\ Goes(r, Decide(r, request[r].n))
    /\ UNCHANGED <<jwksVars, mode>>

\* Require, then the handler.
Route(r) ==
    /\ request[r].at = "route"
    /\ Goes(r, IF Level(request[r].role) < Level(Required[Sent(r).route])
               THEN "forbidden" ELSE "served")
    /\ UNCHANGED <<jwksVars, counters, mode, faults>>

\* The process restarts: its requests are lost, and so is the cache.
Crash ==
    /\ Fault
    /\ ForgetKeys
    /\ request' = [r \in Requests |-> IF request[r].at \in Answers \cup {"idle"}
                                      THEN request[r] ELSE [request[r] EXCEPT !.at = "lost"]]
    /\ UNCHANGED <<now, provider, counters, mode>>

----------------------------------------------------------------------------
IdpRotates == Rotate /\ UNCHANGED <<counters, gatewayVars>>

\* Commands to Redis, and the steps of keyByID under its lock, take less than a tick.
Tick ==
    /\ now < MaxTime
    /\ \A r \in Requests : request[r].at # "expire" /\ ~Returns(r)
    /\ ClockTicks /\ Evict(now + 1)
    /\ UNCHANGED <<call, gatewayVars>>

RequestStep(r) ==
    \/ Authenticate(r) \/ KeyCached(r) \/ KeyMissing(r) \/ Refresh(r) \/ KeyReturned(r)
    \/ Count(r) \/ CountFails(r) \/ SetExpiry(r) \/ Route(r)

Next ==
    \/ \E r \in Requests : RequestStep(r) \/ \E s \in Sends[r] : Arrive(r, s)
    \/ IdpRotates \/ Tick \/ Crash

Spec == Init /\ [][Next]_vars

\* Go runs every handler, and both clients come back with an answer or an error.
FairSpec == Spec /\ \A r \in Requests : WF_vars(RequestStep(r))
----------------------------------------------------------------------------
Passed == {"limit", "expire", "route", "served", "forbidden", "limited"}

TypeOK ==
    /\ now \in 0..MaxTime /\ version \in DOMAIN KeySets
    /\ keys \subseteq Kids
    /\ fetchedAt \in {NoTime} \cup 0..now
    /\ keys # {} => urlKnown /\ fetchedAt # NoTime
    /\ \A r \in Requests :
          /\ call[r].at \in {"none", "discover", "fetch", "store", "failed", "recheck"}
          /\ call[r].at # "none" <=> request[r].at = "key"
          /\ request[r].at \in Passed \cup Answers \cup {"idle", "auth", "key"}
          /\ request[r].sent \in Sends[r] \cup {NoRequest}
    /\ \A b \in DOMAIN counters : counters[b].n > 0
    /\ mode \in Modes /\ faults \in 0..MaxFaults

\* In no window does a client get more than its limit of requests past the limiter, but
\* for those let through while Redis failed: however many requests are counted at once,
\* though INCR and EXPIRE are two commands, and though the name of a counter comes back
\* a day later (Limiter.Allow).
WithinLimit ==
    \A r \in Requests :
        LET same == {q \in Requests : /\ request[q].counted /\ Allowed(request[q].n)
                                       /\ request[q].bucket = request[r].bucket
                                       /\ request[q].since \div Window = request[r].since \div Window}
        IN request[r].counted => Cardinality(same) <= Limit

\* A token is accepted by a key that the provider still published not longer ago than
\* the cache's time to live and one call of the provider, however refreshes overlap and
\* an older answer replaces a newer one; only a request whose own refresh failed may be
\* accepted by an older key (jwksProvider.keyByID).
KeysAreRecent ==
    \A r \in Requests :
        request[r].at \in Passed /\ NeedsKey(r) =>
            LET seen == lastSeen[Sent(r).kid]
            IN /\ seen # NoTime
               /\ call[r].failed \/ seen >= request[r].verified - (Ttl + Timeout)

\* Every request is answered, or lost with the process: no refresh waits for another.
EveryRequestIsAnswered ==
    \A r \in Requests : request[r].at = "auth" ~> request[r].at \in Answers
=============================================================================
