------------------------------ MODULE JwksCache ------------------------------
(***************************************************************************)
(* internal/auth/jwks.go: the cache of the identity provider's signing     *)
(* keys, shared by the requests of one API process.  A request that misses *)
(* refreshes the whole set by itself: refreshes overlap, and each stores   *)
(* what it was answered, whenever that was.  A key is its kid, a set of    *)
(* keys what the provider publishes between two rotations; the empty set   *)
(* stands for a document without usable RSA keys.                          *)
(***************************************************************************)
EXTENDS Integers, Sequences

CONSTANTS
    Requests,    \* the requests that the process serves
    KeySets,     \* what the provider publishes, one set after the other
    ConfigURL,   \* whether jwks_url is configured, or to be discovered
    Ttl,         \* jwksProvider.ttl, in ticks
    Timeout      \* http.Client.Timeout, in ticks

Kids == UNION {KeySets[i] : i \in DOMAIN KeySets}

NoTime == -1

ASSUME JwksAssumption ==
    /\ KeySets \in Seq(SUBSET Kids) /\ Len(KeySets) > 0
    /\ ConfigURL \in BOOLEAN
    /\ Ttl \in Nat \ {0} /\ Timeout \in Nat

VARIABLES
    now,         \* the clock
    version,     \* which of KeySets is published
    lastSeen,    \* by kid, when it was last published (a history variable)
    keys,        \* jwksProvider.keys
    fetchedAt,   \* jwksProvider.fetchedAt
    urlKnown,    \* whether jwksProvider.jwksURL is set
    call         \* by request, its call of keyByID

provider  == <<version, lastSeen>>
cacheVars == <<keys, fetchedAt, urlKnown>>
jwksVars  == <<now, provider, cacheVars, call>>

Published == KeySets[version]

NoCall == [at |-> "none", kid |-> "", ok |-> FALSE, since |-> 0, answer |-> {}, failed |-> FALSE]

JwksInit ==
    /\ now = 0 /\ version = 1
    /\ lastSeen = [k \in Kids |-> IF k \in Published THEN 0 ELSE NoTime]
    /\ keys = {} /\ fetchedAt = NoTime /\ urlKnown = ConfigURL
    /\ call = [r \in Requests |-> NoCall]

----------------------------------------------------------------------------
\* The provider rotates its keys.
Rotate ==
    /\ version < Len(KeySets)
    /\ version' = version + 1
    /\ lastSeen' = [k \in Kids |-> IF k \in KeySets[version + 1] THEN now ELSE lastSeen[k]]
    /\ UNCHANGED <<now, cacheVars, call>>

Waiting(r) == call[r].at \in {"discover", "fetch", "store"}

\* The client gives up on the provider before its timeout has passed.
ClockMayTick == \A r \in Requests : Waiting(r) => now - call[r].since < Timeout

ClockTicks ==
    /\ ClockMayTick
    /\ now' = now + 1
    /\ lastSeen' = [k \in Kids |-> IF k \in Published THEN now + 1 ELSE lastSeen[k]]
    /\ UNCHANGED <<version, cacheVars>>

----------------------------------------------------------------------------
\* Mutant: a set of keys that was fetched once is never refreshed for its age.
FreshForever == fetchedAt # NoTime

Fresh == fetchedAt # NoTime /\ now - fetchedAt < Ttl

Goto(r, at) == call' = [call EXCEPT ![r].at = at]

\* keyByID, under the read lock.
LookupHit(r, kid) == kid \in keys /\ Fresh

\* refresh reads jwksURL without the lock, which a first refresh writes under it.
UrlReads ==
    IF \E r \in Requests : call[r].at = "store" /\ ~urlKnown
    THEN {"discover", "fetch", "torn"}
    ELSE {IF urlKnown THEN "fetch" ELSE "discover"}

LookupMiss(r, kid, at) ==
    /\ ~LookupHit(r, kid)
    /\ at \in UrlReads
    /\ call' = [call EXCEPT ![r] = [at |-> IF at = "torn" THEN "none" ELSE at,
                                    kid |-> kid, ok |-> kid \in keys,
                                    since |-> now, answer |-> {}, failed |-> FALSE]]
    /\ UNCHANGED <<now, provider, cacheVars>>

\* discover: the key set's address is found, ...
Discovered(r) ==
    /\ call[r].at = "discover"
    /\ call' = [call EXCEPT ![r].at = "fetch", ![r].since = now]
    /\ UNCHANGED <<now, provider, cacheVars>>

\* ... and the provider answers with what it publishes at that moment.
Answered(r) ==
    /\ call[r].at = "fetch"
    /\ call' = [call EXCEPT ![r].at = "store", ![r].answer = Published]
    /\ UNCHANGED <<now, provider, cacheVars>>

MayFail(r) == \/ call[r].at \in {"discover", "fetch"}
              \/ call[r].at = "store" /\ call[r].answer = {}

\* A call to the provider fails, or its answer holds no usable key.
RefreshFails(r) ==
    /\ MayFail(r)
    /\ call' = [call EXCEPT ![r].at = "failed", ![r].failed = TRUE]
    /\ UNCHANGED <<now, provider, cacheVars>>

\* Mutant: the time of the fetch is not noted.
StoreUntimed(r) ==
    /\ call[r].at = "store" /\ call[r].answer # {}
    /\ keys' = call[r].answer
    /\ urlKnown' = TRUE
    /\ Goto(r, "recheck")
    /\ UNCHANGED <<now, provider, fetchedAt>>

Store(r) ==
    /\ call[r].at = "store" /\ call[r].answer # {}
    /\ keys' = call[r].answer
    /\ fetchedAt' = now
    /\ urlKnown' = TRUE
    /\ Goto(r, "recheck")
    /\ UNCHANGED <<now, provider>>

\* The end of keyByID: the key that was cached before, or that is cached now.
Found(r) ==
    \/ call[r].at = "failed" /\ call[r].ok
    \/ call[r].at = "recheck" /\ call[r].kid \in keys

Returns(r) == call[r].at \in {"failed", "recheck"}

Forgotten(c) == [NoCall EXCEPT !.failed = c.failed]

Return(r) == call' = [call EXCEPT ![r] = Forgotten(@)]

ForgetKeys ==
    /\ keys' = {} /\ fetchedAt' = NoTime /\ urlKnown' = ConfigURL
    /\ call' = [r \in Requests |-> Forgotten(call[r])]
=============================================================================
