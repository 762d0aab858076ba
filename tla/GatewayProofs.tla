--------------------------- MODULE GatewayProofs ---------------------------
(***************************************************************************)
(* Theorems of Gateway for every number of requests, every sequence of key *)
(* sets, every limit, window, time to live and timeout.                    *)
(*   TypeCorrect          the type invariant                               *)
(*   AcceptedByRecentKey  the age of the key that accepts a token          *)
(*   LimitHolds           the requests that pass in one window             *)
(***************************************************************************)
EXTENDS Gateway, FiniteSetTheorems, TLAPS

----------------------------------------------------------------------------
(* Types.  What a client sends is of no type in the model: the names below *)
(* are for whatever its fields hold.                                       *)

Sents    == {NoRequest} \cup UNION {Sends[r] : r \in Requests}
SentKids == {""} \cup {s.kid : s \in Sents}
Subjects == {"", "anonymous"} \cup {s.subject : s \in Sents} \cup {s.actor : s \in Sents}
            \cup {TokenOf[b].subject : b \in DOMAIN TokenOf}
RoleNames == {"none", "admin"} \cup {ExtractRole(s.claim) : s \in Sents}
             \cup {TokenOf[b].role : b \in DOMAIN TokenOf}
Clients == Subjects \cup {"ip"}
Buckets == Clients \X Nat

Where   == {"idle", "auth", "key"} \cup Passed \cup Answers
InCall  == {"discover", "fetch", "store", "failed", "recheck"}

RequestRec ==
    [at : Where, sent : Sents, role : RoleNames, subject : Subjects,
     bucket : {<<>>} \cup Buckets, since : Nat, counted : BOOLEAN, n : Nat, verified : Nat]

CallRec ==
    [at : {"none"} \cup InCall, kid : SentKids, ok : BOOLEAN, since : Nat,
     answer : SUBSET Kids, failed : BOOLEAN]

Counter == [n : Nat \ {0}, expires : {Never} \cup Nat]

CacheType ==
    /\ now \in Nat
    /\ version \in 1..Len(KeySets)
    /\ lastSeen \in [Kids -> {NoTime} \cup Nat]
    /\ keys \in SUBSET Kids
    /\ fetchedAt \in {NoTime} \cup 0..now
    /\ urlKnown \in BOOLEAN
    /\ keys # {} => urlKnown /\ fetchedAt # NoTime
    /\ call \in [Requests -> CallRec]

CountersType ==
    /\ DOMAIN counters \subseteq Buckets
    /\ counters \in [DOMAIN counters -> Counter]

RequestType ==
    /\ request \in [Requests -> RequestRec]
    /\ \A r \in Requests : request[r].sent \in Sends[r] \cup {NoRequest}
    /\ \A r \in Requests : call[r].at # "none" <=> request[r].at = "key"

BoundsOK == now <= MaxTime /\ mode \in Modes /\ faults \in 0..MaxFaults

TypeInv == CacheType /\ CountersType /\ RequestType /\ BoundsOK

LEMMA PublishedType == ASSUME CacheType PROVE Published \in SUBSET Kids
<1>1. KeySets \in Seq(SUBSET Kids) BY JwksAssumption
<1> QED BY <1>1 DEF Published, CacheType

LEMMA UrlReadsType == UrlReads \in SUBSET {"discover", "fetch", "torn"}
BY DEF UrlReads

----------------------------------------------------------------------------
(* What a step may do to a request: it is let in with a name, or goes on   *)
(* without a change of what is known of it.                                *)

LetIn(r) ==
    \E role \in RoleNames, subject \in Subjects : Admit(r, role, subject)

LEMMA VerifyEnds ==
    ASSUME NEW r \in Requests, request \in [Requests -> RequestRec], Verify(r)
    PROVE  LetIn(r) \/ Goes(r, "unauthorized")
<1>1. Sent(r) \in Sents BY DEF Sent, RequestRec
<1>2. ExtractRole(Sent(r).claim) \in RoleNames /\ Sent(r).subject \in Subjects
  BY <1>1 DEF RoleNames, Subjects
<1> QED BY <1>2 DEF Verify, LetIn

LEMMA AuthenticateEnds ==
    ASSUME NEW r \in Requests, request \in [Requests -> RequestRec], Authenticate(r)
    PROVE  LetIn(r) \/ Goes(r, "unauthorized")
<1>1. CASE /\ mode.auth = "off"
           /\ Admit(r, "admin", IF Sent(r).actor = "" THEN "anonymous" ELSE Sent(r).actor)
  <2>1. Sent(r).actor \in Subjects /\ "anonymous" \in Subjects
    BY DEF Sent, RequestRec, Subjects
  <2> QED BY <1>1, <2>1 DEF LetIn, RoleNames
<1>2. CASE /\ mode.auth = "token"
           /\ IF Sent(r).bearer \in DOMAIN TokenOf
              THEN Admit(r, TokenOf[Sent(r).bearer].role, TokenOf[Sent(r).bearer].subject)
              ELSE Goes(r, "unauthorized")
  BY <1>2 DEF LetIn, RoleNames, Subjects
<1>3. CASE mode.auth = "jwt" /\ ~NeedsKey(r) /\ ValidateStatic(r)
  <2>1. KeySource(Sent(r).alg) \in {"secret", "pem", "none"}
    BY <1>3 DEF NeedsKey, KeySource
  <2> QED BY <1>3, <2>1, VerifyEnds DEF ValidateStatic
<1> QED BY <1>1, <1>2, <1>3 DEF Authenticate

LEMMA LetInType ==
    ASSUME NEW r \in Requests, RequestType, now \in Nat, LetIn(r)
    PROVE  /\ request' \in [Requests -> RequestRec]
           /\ request'[r].at \in {"limit", "route"}
           /\ \A q \in Requests : request'[q].sent = request[q].sent
           /\ \A q \in Requests \ {r} : request'[q] = request[q]
<1>1. PICK role \in RoleNames, subject \in Subjects : Admit(r, role, subject)
  BY DEF LetIn
<1>2. AfterAuth \in {"limit", "route"} /\ AfterAuth \in Where
  BY DEF AfterAuth, Where, Passed
<1> DEFINE new == [request[r] EXCEPT !.at = AfterAuth, !.role = role,
                                  !.subject = subject, !.verified = now]
<1>3. request[r] \in RequestRec BY DEF RequestType
<1>4. new \in RequestRec /\ new.at = AfterAuth /\ new.sent = request[r].sent
  BY <1>2, <1>3 DEF RequestRec
<1>5. request' = [request EXCEPT ![r] = new] BY <1>1 DEF Admit
<1> HIDE DEF new
<1> QED BY <1>2, <1>4, <1>5 DEF RequestType

LEMMA GoesType ==
    ASSUME NEW r \in Requests, RequestType, NEW at \in Where, Goes(r, at)
    PROVE  /\ request' \in [Requests -> RequestRec]
           /\ request'[r].at = at
           /\ \A q \in Requests : request'[q].sent = request[q].sent
           /\ \A q \in Requests \ {r} : request'[q] = request[q]
BY DEF Goes, RequestType, RequestRec

----------------------------------------------------------------------------
(* Type correctness.                                                       *)

LEMMA TypeInit == ASSUME Init PROVE TypeInv
<1>1. KeySets \in Seq(SUBSET Kids) /\ Len(KeySets) \in Nat /\ 1 <= Len(KeySets)
  BY JwksAssumption
<1>2. CacheType
  <2>1. NoCall \in CallRec BY DEF CallRec, NoCall, SentKids
  <2>2. lastSeen \in [Kids -> {NoTime} \cup Nat] BY DEF Init, JwksInit
  <2> QED BY <1>1, <2>1, <2>2, JwksAssumption DEF Init, JwksInit, CacheType, NoTime
<1>3. Idle \in RequestRec
  <2>1. "idle" \in Where BY DEF Where
  <2>2. NoRequest \in Sents BY DEF Sents
  <2>3. "none" \in RoleNames BY DEF RoleNames
  <2>4. "" \in Subjects BY DEF Subjects
  <2>5. <<>> \in {<<>>} \cup Buckets OBVIOUS
  <2> QED BY <2>1, <2>2, <2>3, <2>4, <2>5 DEF Idle, RequestRec
<1>4. RequestType
  <2>1. Idle.at = "idle" /\ Idle.sent = NoRequest BY DEF Idle
  <2>2. NoCall.at = "none" BY DEF NoCall
  <2> QED BY <1>3, <2>1, <2>2 DEF Init, JwksInit, RequestType
<1>5. CountersType
  <2>1. DOMAIN counters = {} BY DEF Init, LimiterInit
  <2>2. counters = [b \in {} |-> [n |-> 1, expires |-> Never]] BY DEF Init, LimiterInit
  <2> QED BY <2>1, <2>2 DEF CountersType
<1> QED BY <1>1, <1>2, <1>4, <1>5, GatewayAssumption DEF TypeInv, BoundsOK, Init, JwksInit

\* The steps of keyByID.
LEMMA CacheSteps ==
    ASSUME CacheType, NEW r \in Requests,
           \/ \E kid \in SentKids, at \in UrlReads : LookupMiss(r, kid, at)
           \/ Discovered(r) \/ Answered(r) \/ Store(r) \/ RefreshFails(r)
           \/ Return(r) /\ UNCHANGED <<now, provider, cacheVars>>
    PROVE  CacheType'
<1>1. call[r] \in CallRec BY DEF CacheType
<1>2. CASE \E kid \in SentKids, at \in UrlReads : LookupMiss(r, kid, at)
  BY <1>2, UrlReadsType DEF LookupMiss, CacheType, CallRec, InCall, provider, cacheVars
<1>3. CASE Discovered(r)
  BY <1>1, <1>3 DEF Discovered, CacheType, CallRec, InCall, provider, cacheVars
<1>4. CASE Answered(r)
  BY <1>1, <1>4, PublishedType DEF Answered, CacheType, CallRec, InCall, provider, cacheVars
<1>5. CASE Store(r)
  BY <1>1, <1>5 DEF Store, Goto, CacheType, CallRec, InCall, provider, NoTime
<1>6. CASE RefreshFails(r)
  BY <1>1, <1>6 DEF RefreshFails, CacheType, CallRec, InCall, provider, cacheVars
<1>7. CASE Return(r) /\ UNCHANGED <<now, provider, cacheVars>>
  BY <1>1, <1>7 DEF Return, Forgotten, NoCall, CacheType, CallRec, SentKids, provider, cacheVars
<1> QED BY <1>2, <1>3, <1>4, <1>5, <1>6, <1>7

LEMMA WorldCacheSteps ==
    ASSUME CacheType,
           \/ Rotate
           \/ ClockTicks /\ UNCHANGED call
           \/ ForgetKeys /\ UNCHANGED <<now, provider>>
    PROVE  CacheType'
<1>1. CASE Rotate
  BY <1>1, JwksAssumption DEF Rotate, CacheType, cacheVars
<1>2. CASE ClockTicks /\ UNCHANGED call
  BY <1>2 DEF ClockTicks, CacheType, cacheVars
<1>3. CASE ForgetKeys /\ UNCHANGED <<now, provider>>
  BY <1>3, JwksAssumption
  DEF ForgetKeys, Forgotten, NoCall, CacheType, CallRec, SentKids, provider, NoTime
<1> QED BY <1>1, <1>2, <1>3

LEMMA CounterSteps ==
    ASSUME CountersType, NEW b \in Buckets, NEW t \in Nat,
           Incr(b) \/ Expire(b, t) \/ Evict(t)
    PROVE  CountersType'
<1>1. \A i \in DOMAIN counters : counters[i] \in Counter BY DEF CountersType
<1>2. ASSUME NEW c \in Counter, counters' = Put(b, c) PROVE CountersType'
  BY <1>1, <1>2 DEF Put, CountersType
<1>3. CASE Incr(b)
  <2>1. [n |-> After1(b), expires |-> IF b \in DOMAIN counters THEN counters[b].expires ELSE Never]
          \in Counter
    BY <1>1 DEF After1, Counter
  <2> QED BY <1>2, <1>3, <2>1 DEF Incr
<1>4. CASE Expire(b, t)
  <2>1. CASE b \in DOMAIN counters
    <3>1. [counters[b] EXCEPT !.expires = t + Window] \in Counter
      BY <1>1, <2>1, LimiterAssumption DEF Counter
    <3> QED BY <1>2, <1>4, <2>1, <3>1 DEF Expire
  <2> QED BY <1>4, <2>1 DEF Expire, CountersType
<1>5. CASE Evict(t)
  BY <1>1, <1>5 DEF Evict, CountersType
<1> QED BY <1>3, <1>4, <1>5

\* A request that is not looking for a key goes on, and is not looking for one then.
LEMMA MoveType ==
    ASSUME RequestType, NEW r \in Requests,
           request' \in [Requests -> RequestRec],
           \A q \in Requests : request'[q].sent = request[q].sent,
           \A q \in Requests \ {r} : request'[q] = request[q] /\ call'[q] = call[q],
           call'[r].at # "none" <=> request'[r].at = "key"
    PROVE  RequestType'
BY DEF RequestType

LEMMA CountRec ==
    ASSUME NEW r \in Requests, TypeInv, Count(r)
    PROVE  /\ request' \in [Requests -> RequestRec]
           /\ request'[r].at \in {"expire", "route", "limited"}
           /\ request'[r].sent = request[r].sent /\ request'[r].verified = request[r].verified
           /\ \A q \in Requests \ {r} : request'[q] = request[q]
           /\ request'[r].bucket = Bucket(ClientKey(r), now) /\ request'[r].bucket \in Buckets
           /\ request'[r].since = now /\ request'[r].counted = TRUE
           /\ request'[r].n = After1(Bucket(ClientKey(r), now)) /\ request'[r].n \in Nat \ {0}
<1> DEFINE b == Bucket(ClientKey(r), now)
           at == IF After1(b) = 1 THEN "expire" ELSE Decide(r, After1(b))
           new == [request[r] EXCEPT !.at = at, !.bucket = b, !.since = now,
                                     !.counted = TRUE, !.n = After1(b)]
<1>1. request[r] \in RequestRec /\ now \in Nat
  BY DEF TypeInv, RequestType, CacheType
<1>2. b \in Buckets
  <2>1. ClientKey(r) \in Clients BY <1>1 DEF ClientKey, Clients, RequestRec
  <2>2. ((now \div Window) * Window) % Day \in Nat
    <3>1. now \div Window \in Nat BY <1>1, LimiterAssumption
    <3>2. (now \div Window) * Window \in Nat BY <3>1, LimiterAssumption
    <3>3. Day \in Nat \ {0} BY LimiterAssumption
    <3> QED BY <3>2, <3>3
  <2> QED BY <2>1, <2>2 DEF Bucket, Buckets
<1>3. After1(b) \in Nat \ {0}
  BY DEF After1, TypeInv, CountersType, Counter
<1>4. at \in {"expire", "route", "limited"} /\ at \in Where
  BY DEF Decide, Where, Passed
<1>5. request' = [request EXCEPT ![r] = new] BY DEF Count
<1> HIDE DEF b, at
<1>6. /\ new \in RequestRec
      /\ new.at = at /\ new.sent = request[r].sent /\ new.bucket = b /\ new.since = now
      /\ new.verified = request[r].verified
      /\ new.counted = TRUE /\ new.n = After1(b)
  BY <1>1, <1>2, <1>3, <1>4 DEF RequestRec
<1> HIDE DEF new
<1>7. /\ request' \in [Requests -> RequestRec] /\ request'[r] = new
      /\ \A q \in Requests \ {r} : request'[q] = request[q]
  BY <1>5, <1>6 DEF TypeInv, RequestType
<1> QED BY <1>2, <1>3, <1>4, <1>6, <1>7 DEF b

LEMMA AuthenticateType ==
    ASSUME NEW r \in Requests, TypeInv, Authenticate(r) \/ KeyCached(r) PROVE TypeInv'
<1>1. LetIn(r) \/ Goes(r, "unauthorized")
  BY AuthenticateEnds, VerifyEnds DEF KeyCached, TypeInv, RequestType
<1>2. /\ UNCHANGED <<jwksVars, counters, mode, faults>> /\ request[r].at = "auth"
  BY DEF Authenticate, KeyCached
<1>3. "unauthorized" \in Where BY DEF Where, Answers
<1>4. /\ request' \in [Requests -> RequestRec]
      /\ request'[r].at \in {"limit", "route", "unauthorized"}
      /\ \A q \in Requests : request'[q].sent = request[q].sent
      /\ \A q \in Requests \ {r} : request'[q] = request[q]
  BY <1>1, <1>3, LetInType, GoesType DEF TypeInv, CacheType
<1>5. RequestType'
  BY <1>2, <1>4, MoveType DEF TypeInv, RequestType, jwksVars
<1> QED BY <1>2, <1>5
        DEF TypeInv, CacheType, CountersType, BoundsOK, jwksVars, provider, cacheVars

LEMMA KeyMissingType ==
    ASSUME NEW r \in Requests, TypeInv, KeyMissing(r) PROVE TypeInv'
<1>1. PICK at \in UrlReads : /\ LookupMiss(r, Sent(r).kid, at)
                             /\ Goes(r, IF at = "torn" THEN "failed" ELSE "key")
  BY DEF KeyMissing
<1>2. Sent(r).kid \in SentKids BY DEF TypeInv, RequestType, RequestRec, Sent, SentKids
<1>3. CacheType' BY <1>1, <1>2, CacheSteps DEF TypeInv
<1>4. "failed" \in Where /\ "key" \in Where BY DEF Where, Answers
<1>5. /\ request' \in [Requests -> RequestRec]
      /\ request'[r].at = (IF at = "torn" THEN "failed" ELSE "key")
      /\ \A q \in Requests : request'[q].sent = request[q].sent
      /\ \A q \in Requests \ {r} : request'[q] = request[q]
  BY <1>1, <1>4, GoesType DEF TypeInv
<1>6. /\ \A q \in Requests \ {r} : call'[q] = call[q]
      /\ call'[r].at = IF at = "torn" THEN "none" ELSE at
  BY <1>1 DEF LookupMiss, TypeInv, CacheType
<1>7. RequestType' BY <1>1, <1>5, <1>6, UrlReadsType, MoveType DEF TypeInv
<1> QED BY <1>3, <1>7 DEF TypeInv, KeyMissing, CountersType, BoundsOK, LookupMiss

LEMMA RefreshType ==
    ASSUME NEW r \in Requests, TypeInv, Refresh(r) PROVE TypeInv'
<1>1. Discovered(r) \/ Answered(r) \/ Store(r) \/ RefreshFails(r) BY DEF Refresh
<1>2. CacheType' BY <1>1, CacheSteps DEF TypeInv
<1>3. /\ \A q \in Requests \ {r} : call'[q] = call[q]
      /\ call'[r].at # "none"
  BY <1>1 DEF Discovered, Answered, Store, RefreshFails, Goto, TypeInv, CacheType, CallRec
<1>4. RequestType' BY <1>3, MoveType DEF Refresh, TypeInv, RequestType
<1>5. faults' \in 0..MaxFaults
  BY GatewayAssumption DEF Refresh, Fault, TypeInv, BoundsOK
<1>6. now' = now BY <1>1 DEF Discovered, Answered, Store, RefreshFails
<1> QED BY <1>2, <1>4, <1>5, <1>6 DEF TypeInv, Refresh, CountersType, BoundsOK

LEMMA KeyReturnedType ==
    ASSUME NEW r \in Requests, TypeInv, KeyReturned(r) PROVE TypeInv'
<1>1. CacheType' BY CacheSteps DEF KeyReturned, TypeInv
<1>2. LetIn(r) \/ Goes(r, "unauthorized")
  BY VerifyEnds DEF KeyReturned, TypeInv, RequestType
<1>3. "unauthorized" \in Where BY DEF Where, Answers
<1>4. /\ request' \in [Requests -> RequestRec]
      /\ request'[r].at \in {"limit", "route", "unauthorized"}
      /\ \A q \in Requests : request'[q].sent = request[q].sent
      /\ \A q \in Requests \ {r} : request'[q] = request[q]
  BY <1>2, <1>3, LetInType, GoesType DEF TypeInv, CacheType
<1>5. /\ \A q \in Requests \ {r} : call'[q] = call[q]
      /\ call'[r].at = "none"
  BY DEF KeyReturned, Return, Forgotten, NoCall, TypeInv, CacheType
<1>6. RequestType' BY <1>4, <1>5, MoveType DEF TypeInv
<1> QED BY <1>1, <1>6 DEF TypeInv, KeyReturned, CountersType, BoundsOK

LEMMA CountType ==
    ASSUME NEW r \in Requests, TypeInv, Count(r) PROVE TypeInv'
<1>1. \A q \in Requests : request'[q].sent = request[q].sent BY CountRec
<1>2. RequestType'
  BY <1>1, CountRec, MoveType DEF TypeInv, RequestType, Count, jwksVars
<1>3. CountersType'
  <2>1. Bucket(ClientKey(r), now) \in Buckets BY CountRec
  <2>2. Incr(Bucket(ClientKey(r), now)) BY DEF Count
  <2> QED BY <2>1, <2>2, CounterSteps DEF TypeInv, CacheType
<1> QED BY <1>2, <1>3 DEF TypeInv, Count, CacheType, BoundsOK, jwksVars, provider, cacheVars

\* A step that only sends a request on, past the authentication.
LEMMA GoesOnType ==
    ASSUME NEW r \in Requests, TypeInv, NEW at \in Where \ {"key"}, Goes(r, at),
           request[r].at # "key", UNCHANGED <<jwksVars, mode>>, CountersType',
           faults' \in 0..MaxFaults
    PROVE  TypeInv'
<1>1. RequestType'
  BY GoesType, MoveType DEF TypeInv, RequestType, jwksVars
<1> QED BY <1>1 DEF TypeInv, CacheType, BoundsOK, jwksVars, provider, cacheVars

LEMMA LimiterType ==
    ASSUME NEW r \in Requests, TypeInv, CountFails(r) \/ SetExpiry(r) \/ Route(r)
    PROVE  TypeInv'
<1>1. {"route", "limited", "served", "forbidden"} \subseteq Where \ {"key"}
  BY DEF Where, Passed
<1>2. ASSUME UNCHANGED faults \/ Fault PROVE faults' \in 0..MaxFaults
  BY <1>2, GatewayAssumption DEF Fault, TypeInv, BoundsOK
<1>3. CASE CountFails(r)
  <2>1. CountersType' BY <1>3 DEF CountFails, TypeInv, CountersType
  <2> QED BY <1>1, <1>2, <1>3, <2>1, GoesOnType DEF CountFails
<1>4. CASE SetExpiry(r)
  <2>1. CountersType'
    <3>1. CASE UNCHANGED counters BY <3>1 DEF TypeInv, CountersType
    <3>2. CASE Expire(request[r].bucket, now)
      <4>1. CASE request[r].bucket \in DOMAIN counters
        BY <3>2, <4>1, CounterSteps DEF TypeInv, CountersType, CacheType
      <4>2. CASE request[r].bucket \notin DOMAIN counters
        BY <3>2, <4>2 DEF Expire, TypeInv, CountersType
      <4> QED BY <4>1, <4>2
    <3> QED BY <1>4, <3>1, <3>2 DEF SetExpiry
  <2> QED BY <1>1, <1>2, <1>4, <2>1, GoesOnType DEF SetExpiry, Decide
<1>5. CASE Route(r)
  <2>1. CountersType' BY <1>5 DEF Route, TypeInv, CountersType
  <2> QED BY <1>1, <1>2, <1>5, <2>1, GoesOnType DEF Route
<1> QED BY <1>3, <1>4, <1>5

LEMMA ArriveType ==
    ASSUME NEW r \in Requests, NEW s \in Sends[r], TypeInv, Arrive(r, s)
    PROVE  TypeInv'
<1>1. s \in Sents BY DEF Sents
<1>2. "auth" \in Where BY DEF Where
<1>3. request[r] \in RequestRec BY DEF TypeInv, RequestType
<1> DEFINE new == [request[r] EXCEPT !.at = "auth", !.sent = s]
<1>4. new \in RequestRec /\ new.at = "auth" /\ new.sent = s
  BY <1>1, <1>2, <1>3 DEF RequestRec
<1>5. request' = [request EXCEPT ![r] = new] BY DEF Arrive
<1> HIDE DEF new
<1>6. RequestType' BY <1>4, <1>5 DEF Arrive, TypeInv, RequestType, jwksVars
<1> QED BY <1>6
        DEF Arrive, TypeInv, CacheType, CountersType, BoundsOK, jwksVars, provider, cacheVars

LEMMA WorldType ==
    ASSUME TypeInv, IdpRotates \/ Tick \/ Crash
    PROVE  TypeInv'
<1>1. CASE IdpRotates
  <2>1. CacheType' BY <1>1, WorldCacheSteps DEF IdpRotates, TypeInv
  <2> QED BY <1>1, <2>1
          DEF IdpRotates, Rotate, TypeInv, RequestType, CountersType, BoundsOK, gatewayVars
<1>2. CASE Tick
  <2>1. CacheType' BY <1>2, WorldCacheSteps DEF Tick, TypeInv
  <2>2. now + 1 \in Nat /\ now + 1 <= MaxTime
    BY <1>2, GatewayAssumption DEF Tick, TypeInv, CacheType
  <2>3. CountersType'
    BY <1>2, <2>2 DEF Tick, Evict, TypeInv, CountersType
  <2> QED BY <1>2, <2>1, <2>2, <2>3
          DEF Tick, ClockTicks, TypeInv, RequestType, BoundsOK, gatewayVars
<1>3. CASE Crash
  <2>1. CacheType' BY <1>3, WorldCacheSteps DEF Crash, TypeInv
  <2>2. "lost" \in Where BY DEF Where, Answers
  <2>3. /\ request' \in [Requests -> RequestRec]
        /\ \A r \in Requests : request'[r].sent = request[r].sent /\ request'[r].at # "key"
    <3>1. ASSUME NEW r \in Requests
          PROVE  /\ request'[r] \in RequestRec
                 /\ request'[r].sent = request[r].sent /\ request'[r].at # "key"
      <4>1. request[r] \in RequestRec BY DEF TypeInv, RequestType
      <4>2. [request[r] EXCEPT !.at = "lost"] \in RequestRec BY <2>2, <4>1 DEF RequestRec
      <4>3. CASE request[r].at \in Answers \cup {"idle"}
        BY <1>3, <4>1, <4>3 DEF Crash, Answers
      <4>4. CASE request[r].at \notin Answers \cup {"idle"}
        <5>1. request'[r] = [request[r] EXCEPT !.at = "lost"] BY <1>3, <4>4 DEF Crash
        <5> QED BY <4>1, <4>2, <5>1 DEF RequestRec
      <4> QED BY <4>3, <4>4
    <3>2. request' = [r \in Requests |-> request'[r]] BY <1>3 DEF Crash
    <3> QED BY <3>1, <3>2
  <2>4. \A r \in Requests : call'[r].at = "none"
    BY <1>3 DEF Crash, ForgetKeys, Forgotten, NoCall, TypeInv, CacheType
  <2>5. RequestType' BY <2>3, <2>4 DEF TypeInv, RequestType
  <2>6. faults' \in 0..MaxFaults
    BY <1>3, GatewayAssumption DEF Crash, Fault, TypeInv, BoundsOK
  <2> QED BY <1>3, <2>1, <2>5, <2>6 DEF Crash, TypeInv, CountersType, BoundsOK
<1> QED BY <1>1, <1>2, <1>3

LEMMA TypeStep == ASSUME TypeInv, [Next]_vars PROVE TypeInv'
<1>1. CASE UNCHANGED vars
  BY <1>1 DEF vars, TypeInv, CacheType, CountersType, RequestType, BoundsOK, jwksVars, provider,
              cacheVars, gatewayVars
<1>2. CASE Next
  BY <1>2, AuthenticateType, KeyMissingType, RefreshType, KeyReturnedType, CountType,
     LimiterType, ArriveType, WorldType DEF Next, RequestStep
<1> QED BY <1>1, <1>2

LEMMA TypeAlways == Spec => []TypeInv
BY TypeInit, TypeStep, PTL DEF Spec

\* Every variable has its type; a cache with keys knows when it got them, and a request
\* is in a call of keyByID exactly while it waits for a key.
THEOREM TypeCorrect == Spec => []TypeOK
<1>1. TypeInv => TypeOK
  <2> SUFFICES ASSUME TypeInv PROVE TypeOK OBVIOUS
  <2>1. now \in 0..MaxTime /\ version \in DOMAIN KeySets
    BY JwksAssumption, GatewayAssumption DEF TypeInv, CacheType, BoundsOK
  <2>2. \A r \in Requests :
          /\ call[r].at \in {"none", "discover", "fetch", "store", "failed", "recheck"}
          /\ request[r].at \in Passed \cup Answers \cup {"idle", "auth", "key"}
    BY DEF TypeInv, CacheType, CallRec, InCall, RequestType, RequestRec, Where
  <2>3. \A b \in DOMAIN counters : counters[b].n > 0
    BY DEF TypeInv, CountersType, Counter
  <2> QED BY <2>1, <2>2, <2>3 DEF TypeOK, TypeInv, CacheType, RequestType, BoundsOK
<1> QED BY <1>1, TypeAlways, PTL

----------------------------------------------------------------------------
(* The age of a key.  lastSeen of a key that the provider publishes is the *)
(* present; an answer that is carried was published when it was given; and *)
(* what is cached is no older than a call to the provider may take.        *)

SeenInv ==
    /\ \A k \in Kids : lastSeen[k] <= now
    /\ \A k \in Published : lastSeen[k] = now

CachedInv == \A k \in keys : lastSeen[k] # NoTime /\ lastSeen[k] >= fetchedAt - Timeout

CallOK(r) ==
    /\ Waiting(r) => call[r].since <= now /\ now <= call[r].since + Timeout
    /\ call[r].at = "store" => \A k \in call[r].answer : lastSeen[k] >= call[r].since
    /\ call[r].at # "none" => call[r].kid = Sent(r).kid
    /\ call[r].at # "none" /\ call[r].ok =>
          call[r].kid \in Kids /\ lastSeen[call[r].kid] # NoTime
    /\ call[r].at = "failed" => call[r].failed
    /\ call[r].at = "recheck" => fetchedAt = now

AcceptOK(r) ==
    request[r].at \in Passed /\ NeedsKey(r) =>
        /\ Sent(r).kid \in Kids
        /\ lastSeen[Sent(r).kid] # NoTime
        /\ call[r].failed \/ lastSeen[Sent(r).kid] >= request[r].verified - (Ttl + Timeout)

KeyInv ==
    /\ SeenInv /\ CachedInv
    /\ \A r \in Requests : CallOK(r) /\ AcceptOK(r)

\* Only the clock and the provider touch what is published and when it was seen.
LEMMA ClockStands ==
    ASSUME NEW r \in Requests,
           RequestStep(r) \/ (\E s \in Sends[r] : Arrive(r, s)) \/ Crash
    PROVE  now' = now /\ version' = version /\ lastSeen' = lastSeen /\ mode' = mode
BY DEF RequestStep, Arrive, Crash, Authenticate, KeyCached, KeyMissing, LookupMiss, Refresh,
       Discovered, Answered, Store, RefreshFails, KeyReturned, Count, CountFails, SetExpiry, Route,
       jwksVars, provider

LEMMA SeenStep ==
    ASSUME TypeInv, SeenInv, [Next]_vars
    PROVE  SeenInv' /\ \A k \in Kids : lastSeen'[k] >= lastSeen[k]
<1>1. /\ now \in Nat /\ lastSeen \in [Kids -> {NoTime} \cup Nat] /\ Published \in SUBSET Kids
  BY PublishedType DEF TypeInv, CacheType
<1>2. CASE now' = now /\ version' = version /\ lastSeen' = lastSeen
  BY <1>1, <1>2 DEF SeenInv, Published, NoTime
<1>3. CASE Rotate
  <2>1. Published' = KeySets[version + 1] /\ now' = now BY <1>3 DEF Rotate, Published
  <2>2. \A k \in Kids : lastSeen'[k] = IF k \in Published' THEN now ELSE lastSeen[k]
    BY <1>3, <2>1 DEF Rotate
  <2>3. Published' \in SUBSET Kids
    <3>1. KeySets \in Seq(SUBSET Kids) BY JwksAssumption
    <3>2. version + 1 \in 1..Len(KeySets) BY <1>3, <3>1 DEF Rotate, TypeInv, CacheType
    <3> QED BY <2>1, <3>1, <3>2
  <2> QED BY <1>1, <2>1, <2>2, <2>3 DEF SeenInv, NoTime
<1>4. CASE ClockTicks
  <2>1. Published' = Published /\ now' = now + 1 BY <1>4 DEF ClockTicks, Published
  <2>2. \A k \in Kids : lastSeen'[k] = IF k \in Published THEN now + 1 ELSE lastSeen[k]
    BY <1>4 DEF ClockTicks
  <2> QED BY <1>1, <2>1, <2>2 DEF SeenInv, NoTime
<1>5. CASE UNCHANGED vars BY <1>2, <1>5 DEF vars, jwksVars, provider
<1>6. CASE Crash BY <1>2, <1>6 DEF Crash, provider
<1> QED BY <1>2, <1>3, <1>4, <1>5, <1>6, ClockStands DEF Next, IdpRotates, Tick

\* A key that the cache holds was published shortly before it was fetched.
LEMMA StoreCached ==
    ASSUME TypeInv, KeyInv, NEW r \in Requests, Store(r)
    PROVE  \A k \in keys' : lastSeen[k] # NoTime /\ lastSeen[k] >= now - Timeout
<1>1. call[r].at = "store" /\ keys' = call[r].answer BY DEF Store
<1>2. call[r].since \in Nat /\ now \in Nat /\ Timeout \in Nat /\ call[r].answer \in SUBSET Kids
  BY JwksAssumption DEF TypeInv, CacheType, CallRec
<1>3. \A k \in keys' : lastSeen[k] >= call[r].since
  BY <1>1 DEF KeyInv, CallOK
<1>4. now <= call[r].since + Timeout BY <1>1 DEF KeyInv, CallOK, Waiting
<1>5. \A k \in Kids : lastSeen[k] \in {NoTime} \cup Nat BY DEF TypeInv, CacheType
<1> QED BY <1>1, <1>2, <1>3, <1>4, <1>5 DEF NoTime

LEMMA CachedStep ==
    ASSUME TypeInv, KeyInv, [Next]_vars
    PROVE  CachedInv'
<1>1. \A k \in Kids : lastSeen'[k] >= lastSeen[k] BY SeenStep DEF KeyInv
<1>2. /\ \A k \in Kids : lastSeen[k] \in {NoTime} \cup Nat /\ lastSeen'[k] \in {NoTime} \cup Nat
      /\ keys \in SUBSET Kids /\ fetchedAt \in Int /\ Timeout \in Nat
  BY TypeStep, JwksAssumption DEF TypeInv, CacheType, NoTime
<1>3. CASE keys' = keys /\ fetchedAt' = fetchedAt
  BY <1>1, <1>2, <1>3 DEF KeyInv, CachedInv, NoTime
<1>4. CASE keys' = {} BY <1>4 DEF CachedInv
<1>5. ASSUME NEW r \in Requests, Store(r) PROVE CachedInv'
  <2>1. fetchedAt' = now /\ lastSeen' = lastSeen BY <1>5 DEF Store, provider
  <2> QED BY <1>5, <2>1, StoreCached DEF CachedInv, NoTime
<1>6. UNCHANGED vars => keys' = keys /\ fetchedAt' = fetchedAt
  BY DEF vars, jwksVars, cacheVars
<1>7. IdpRotates \/ Tick => keys' = keys /\ fetchedAt' = fetchedAt
  BY DEF IdpRotates, Rotate, Tick, ClockTicks, cacheVars
<1>8. Crash => keys' = {} BY DEF Crash, ForgetKeys
<1>9. ASSUME NEW r \in Requests, RequestStep(r) \/ \E s \in Sends[r] : Arrive(r, s), ~Store(r)
      PROVE  keys' = keys /\ fetchedAt' = fetchedAt
  BY <1>9
  DEF RequestStep, Arrive, Authenticate, KeyCached, KeyMissing, LookupMiss, Refresh, Discovered,
      Answered, RefreshFails, KeyReturned, Count, CountFails, SetExpiry, Route, jwksVars, cacheVars
<1> QED BY <1>3, <1>4, <1>5, <1>6, <1>7, <1>8, <1>9 DEF Next

LEMMA CallFrame ==
    ASSUME TypeInv, TypeInv', KeyInv, [Next]_vars, NEW q \in Requests,
           call'[q] = call[q],
           call[q].at = "none" \/ request'[q].sent = request[q].sent,
           now' = now, fetchedAt' \in {fetchedAt, now}
    PROVE  CallOK(q)'
<1>1. \A k \in Kids : lastSeen'[k] >= lastSeen[k] BY SeenStep DEF KeyInv
<1>2. \A k \in Kids : lastSeen[k] \in {NoTime} \cup Nat /\ lastSeen'[k] \in {NoTime} \cup Nat
  BY DEF TypeInv, CacheType
<1>3. call[q].answer \in SUBSET Kids /\ call[q].since \in Nat
  BY DEF TypeInv, CacheType, CallRec
<1> QED BY <1>1, <1>2, <1>3 DEF KeyInv, CallOK, Waiting, Sent, NoTime

LEMMA CallStep ==
    ASSUME TypeInv, KeyInv, [Next]_vars, NEW q \in Requests
    PROVE  CallOK(q)'
<1>0. TypeInv' BY TypeStep
<1>1. CASE UNCHANGED vars
  BY <1>1 DEF vars, jwksVars, provider, cacheVars, gatewayVars, KeyInv, CallOK, Waiting, Sent
<1>2. CASE IdpRotates
  BY <1>0, <1>2, CallFrame DEF IdpRotates, Rotate, cacheVars, gatewayVars
<1>3. CASE Tick
  <2>1. /\ call' = call /\ request' = request /\ fetchedAt' = fetchedAt /\ now' = now + 1
        /\ ~Returns(q) /\ (Waiting(q) => now - call[q].since < Timeout)
    BY <1>3 DEF Tick, ClockTicks, ClockMayTick, cacheVars, gatewayVars
  <2>2. \A k \in Kids : /\ lastSeen'[k] >= lastSeen[k]
                        /\ lastSeen[k] \in {NoTime} \cup Nat /\ lastSeen'[k] \in {NoTime} \cup Nat
    BY <1>0, SeenStep DEF KeyInv, TypeInv, CacheType
  <2>3. call[q].answer \in SUBSET Kids /\ call[q].since \in Nat /\ now \in Nat /\ Timeout \in Nat
    BY JwksAssumption DEF TypeInv, CacheType, CallRec
  <2> QED BY <2>1, <2>2, <2>3 DEF KeyInv, CallOK, Waiting, Returns, Sent, NoTime
<1>4. CASE Crash
  <2>1. call'[q].at = "none" BY <1>4 DEF Crash, ForgetKeys, Forgotten, NoCall
  <2> QED BY <2>1 DEF CallOK, Waiting
<1>5. ASSUME NEW r \in Requests, KeyMissing(r) PROVE CallOK(q)'
  <2>1. PICK at \in UrlReads : /\ LookupMiss(r, Sent(r).kid, at)
                               /\ Goes(r, IF at = "torn" THEN "failed" ELSE "key")
    BY <1>5 DEF KeyMissing
  <2>2. /\ now' = now /\ fetchedAt' = fetchedAt /\ lastSeen' = lastSeen
        /\ \A p \in Requests : request'[p].sent = request[p].sent
    BY <2>1 DEF LookupMiss, Goes, provider, cacheVars, TypeInv, RequestType, RequestRec
  <2>3. CASE q # r
    BY <1>0, <1>5, <2>1, <2>2, <2>3, CallFrame DEF LookupMiss, TypeInv, CacheType
  <2>4. CASE q = r
    <3>1. call'[r] = [at |-> IF at = "torn" THEN "none" ELSE at,
                      kid |-> Sent(r).kid, ok |-> Sent(r).kid \in keys,
                      since |-> now, answer |-> {}, failed |-> FALSE]
      BY <2>1 DEF LookupMiss, TypeInv, CacheType
    <3>2. now \in Nat /\ Timeout \in Nat /\ keys \in SUBSET Kids
      BY JwksAssumption DEF TypeInv, CacheType
    <3>3. Sent(r).kid \in keys => lastSeen[Sent(r).kid] # NoTime
      BY DEF KeyInv, CachedInv
    <3>4. call'[r].at \in {"none", "discover", "fetch"} BY <3>1, UrlReadsType
    <3>5. Sent(r)' = Sent(r) BY <2>2 DEF Sent
    <3>6. Waiting(r)' => call'[r].since <= now /\ now <= call'[r].since + Timeout
      BY <3>1, <3>2
    <3>7. call'[r].at # "none" => call'[r].kid = Sent(r)'.kid BY <3>1, <3>5
    <3>8. call'[r].ok => call'[r].kid \in Kids /\ lastSeen[call'[r].kid] # NoTime
      <4> DEFINE known == Sent(r).kid \in keys
      <4>1. known \in BOOLEAN OBVIOUS
      <4>2. call'[r].ok = known BY <3>1
      <4>3. call'[r].kid = Sent(r).kid BY <3>1
      <4> QED BY <3>2, <3>3, <4>1, <4>2, <4>3
    <3> QED BY <2>2, <2>4, <3>4, <3>6, <3>7, <3>8 DEF CallOK
  <2> QED BY <2>3, <2>4
<1>6. ASSUME NEW r \in Requests, Refresh(r) PROVE CallOK(q)'
  <2>1. /\ Discovered(r) \/ Answered(r) \/ Store(r) \/ RefreshFails(r)
        /\ request' = request
    BY <1>6 DEF Refresh
  <2>2. /\ now' = now /\ lastSeen' = lastSeen
        /\ fetchedAt' \in {fetchedAt, now} /\ (~Store(r) => fetchedAt' = fetchedAt)
    <3>1. CASE Store(r) BY <3>1 DEF Store, provider
    <3>2. CASE Discovered(r) \/ Answered(r) \/ RefreshFails(r)
      BY <3>2 DEF Discovered, Answered, RefreshFails, provider, cacheVars
    <3> QED BY <2>1, <3>1, <3>2
  <2>3. CASE q # r
    <3>1. call'[q] = call[q]
      BY <2>1, <2>3 DEF Discovered, Answered, Store, RefreshFails, Goto, TypeInv, CacheType
    <3>2. request'[q].sent = request[q].sent /\ fetchedAt' \in {fetchedAt, now} BY <2>1, <2>2
    <3> QED BY <1>0, <2>2, <3>1, <3>2, CallFrame
  <2>4. CASE q = r
    <3>0. /\ call[r] \in CallRec /\ now \in Nat /\ Timeout \in Nat /\ Published \in SUBSET Kids
          /\ CallOK(r) /\ Sent(r)' = Sent(r)
      BY <2>1, JwksAssumption, PublishedType DEF TypeInv, CacheType, KeyInv, Sent
    <3>1. CASE Discovered(r)
      <4>1. call'[r] = [call[r] EXCEPT !.at = "fetch", !.since = now] /\ call[r].at = "discover"
        BY <3>1 DEF Discovered, TypeInv, CacheType
      <4> QED BY <2>2, <2>4, <3>0, <4>1 DEF CallOK, Waiting, CallRec
    <3>2. CASE Answered(r)
      <4>1. call'[r] = [call[r] EXCEPT !.at = "store", !.answer = Published] /\ call[r].at = "fetch"
        BY <3>2 DEF Answered, TypeInv, CacheType
      <4>2. \A k \in Published : lastSeen[k] = now BY DEF KeyInv, SeenInv
      <4> QED BY <2>2, <2>4, <3>0, <4>1, <4>2 DEF CallOK, Waiting, CallRec
    <3>3. CASE Store(r)
      <4>1. call'[r] = [call[r] EXCEPT !.at = "recheck"] /\ call[r].at = "store" /\ fetchedAt' = now
        BY <3>3 DEF Store, Goto, TypeInv, CacheType
      <4> QED BY <2>2, <2>4, <3>0, <4>1 DEF CallOK, Waiting, CallRec
    <3>4. CASE RefreshFails(r)
      <4>1. /\ call'[r] = [call[r] EXCEPT !.at = "failed", !.failed = TRUE]
            /\ call[r].at \in {"discover", "fetch", "store"}
        BY <3>4 DEF RefreshFails, MayFail, TypeInv, CacheType
      <4> QED BY <2>2, <2>4, <3>0, <4>1 DEF CallOK, Waiting, CallRec
    <3> QED BY <2>1, <3>1, <3>2, <3>3, <3>4
  <2> QED BY <2>3, <2>4
<1>7. ASSUME NEW r \in Requests, KeyReturned(r) PROVE CallOK(q)'
  <2>1. /\ call' = [call EXCEPT ![r] = Forgotten(@)] /\ now' = now /\ fetchedAt' = fetchedAt
        /\ request'[q].sent = request[q].sent
    BY <1>7, VerifyEnds, LetInType, GoesType
    DEF KeyReturned, Return, cacheVars, TypeInv, RequestType, CacheType, Where, Answers
  <2>2. CASE q # r BY <1>0, <1>7, <2>1, <2>2, CallFrame DEF TypeInv, CacheType
  <2>3. CASE q = r
    <3>1. call'[q].at = "none" BY <2>1, <2>3 DEF Forgotten, NoCall, TypeInv, CacheType
    <3> QED BY <3>1 DEF CallOK, Waiting
  <2> QED BY <2>2, <2>3
<1>8. ASSUME NEW r \in Requests,
             \/ \E s \in Sends[r] : Arrive(r, s)
             \/ Authenticate(r) \/ KeyCached(r)
             \/ Count(r) \/ CountFails(r) \/ SetExpiry(r) \/ Route(r)
      PROVE  CallOK(q)'
  <2>1. call' = call /\ now' = now /\ fetchedAt' = fetchedAt
    BY <1>8 DEF Arrive, Authenticate, KeyCached, Count, CountFails, SetExpiry, Route, jwksVars,
                cacheVars
  <2>2. call[r].at = "none"
    BY <1>8 DEF Arrive, Authenticate, KeyCached, Count, CountFails, SetExpiry, Route,
                TypeInv, RequestType
  <2>3. q # r => request'[q] = request[q]
    BY <1>8, AuthenticateEnds, VerifyEnds
    DEF Arrive, KeyCached, LetIn, Admit, Count, CountFails, SetExpiry, Route, Goes,
        TypeInv, RequestType
  <2> QED BY <1>0, <2>1, <2>2, <2>3, CallFrame
<1> QED BY <1>1, <1>2, <1>3, <1>4, <1>5, <1>6, <1>7, <1>8 DEF Next, RequestStep

\* A request that was let in stays so, with what let it in.
LEMMA AcceptFrame ==
    ASSUME TypeInv, TypeInv', KeyInv, [Next]_vars, NEW q \in Requests,
           request'[q].at \in Passed =>
               /\ request[q].at \in Passed
               /\ request'[q].sent = request[q].sent
               /\ request'[q].verified = request[q].verified,
           mode' = mode, call'[q].failed = call[q].failed
    PROVE  AcceptOK(q)'
<1> SUFFICES ASSUME request'[q].at \in Passed, NeedsKey(q)'
             PROVE  AcceptOK(q)'
  BY DEF AcceptOK
<1>1. Sent(q)' = Sent(q) BY DEF Sent
<1>2. NeedsKey(q) BY <1>1 DEF NeedsKey, KeySource
<1>3. /\ Sent(q).kid \in Kids
      /\ lastSeen[Sent(q).kid] # NoTime
      /\ call[q].failed \/ lastSeen[Sent(q).kid] >= request[q].verified - (Ttl + Timeout)
  BY <1>2 DEF KeyInv, AcceptOK
<1>4. lastSeen'[Sent(q).kid] >= lastSeen[Sent(q).kid] BY <1>3, SeenStep DEF KeyInv
<1>5. /\ lastSeen[Sent(q).kid] \in {NoTime} \cup Nat
      /\ lastSeen'[Sent(q).kid] \in {NoTime} \cup Nat
      /\ request[q].verified \in Nat /\ Ttl \in Nat /\ Timeout \in Nat
  BY <1>3, JwksAssumption DEF TypeInv, CacheType, RequestType, RequestRec
<1>6. lastSeen'[Sent(q).kid] # NoTime BY <1>3, <1>4, <1>5 DEF NoTime
<1>7. call'[q].failed \/ lastSeen'[Sent(q).kid] >= request'[q].verified - (Ttl + Timeout)
  BY <1>3, <1>4, <1>5 DEF NoTime
<1> QED BY <1>1, <1>3, <1>6, <1>7 DEF AcceptOK

\* A request whose token is verified by a key of the cache.
LEMMA AcceptNew ==
    ASSUME TypeInv, NEW r \in Requests, Verify(r),
           mode' = mode, lastSeen' = lastSeen,
           NeedsKey(r) =>
               /\ Sent(r).kid \in Kids
               /\ lastSeen[Sent(r).kid] # NoTime
               /\ call'[r].failed \/ lastSeen[Sent(r).kid] >= now - (Ttl + Timeout)
    PROVE  AcceptOK(r)'
<1> SUFFICES ASSUME request'[r].at \in Passed, NeedsKey(r)'
             PROVE  AcceptOK(r)'
  BY DEF AcceptOK
<1>1. PICK role, subject : Admit(r, role, subject)
  <2>1. ~Goes(r, "unauthorized")
    BY DEF Goes, TypeInv, RequestType, RequestRec, Passed
  <2> QED BY <2>1 DEF Verify
<1>2. request'[r].verified = now /\ request'[r].sent = request[r].sent
  BY <1>1 DEF Admit, TypeInv, RequestType, RequestRec
<1>3. Sent(r)' = Sent(r) BY <1>2 DEF Sent
<1>4. NeedsKey(r) BY <1>3 DEF NeedsKey, KeySource
<1> QED BY <1>2, <1>3, <1>4 DEF AcceptOK

LEMMA AcceptStep ==
    ASSUME TypeInv, KeyInv, [Next]_vars, NEW q \in Requests
    PROVE  AcceptOK(q)'
<1>0. TypeInv' BY TypeStep
<1>1. CASE UNCHANGED vars
  BY <1>0, <1>1, AcceptFrame DEF vars, jwksVars, gatewayVars
<1>2. CASE IdpRotates \/ Tick
  BY <1>0, <1>2, AcceptFrame DEF IdpRotates, Rotate, Tick, gatewayVars
<1>3. CASE Crash
  <2>1. request'[q].at \in Passed => request'[q] = request[q]
    BY <1>3 DEF Crash, Passed, Answers, TypeInv, RequestType, RequestRec
  <2>2. call'[q].failed = call[q].failed
    BY <1>3 DEF Crash, ForgetKeys, Forgotten, NoCall, TypeInv, CacheType
  <2> QED BY <1>0, <1>3, <2>1, <2>2, AcceptFrame DEF Crash
<1>4. ASSUME NEW r \in Requests, Authenticate(r) PROVE AcceptOK(q)'
  <2>1. call' = call /\ mode' = mode BY <1>4 DEF Authenticate, jwksVars
  <2>2. CASE q # r
    <3>1. request'[q] = request[q]
      BY <1>4, <2>2, AuthenticateEnds DEF LetIn, Admit, Goes, TypeInv, RequestType
    <3> QED BY <1>0, <2>1, <3>1, AcceptFrame
  <2>3. CASE q = r
    <3>1. ~NeedsKey(r) BY <1>4 DEF Authenticate, NeedsKey
    <3>2. request'[r].sent = request[r].sent
      BY <1>4, AuthenticateEnds, LetInType, GoesType
      DEF TypeInv, RequestType, CacheType, Where, Answers
    <3>3. Sent(r)' = Sent(r) BY <3>2 DEF Sent
    <3>4. ~NeedsKey(r)' BY <2>1, <3>1, <3>3 DEF NeedsKey, KeySource
    <3> QED BY <2>3, <3>4 DEF AcceptOK
  <2> QED BY <2>2, <2>3
<1>5. ASSUME NEW r \in Requests, KeyCached(r) PROVE AcceptOK(q)'
  <2>1. /\ call' = call /\ mode' = mode /\ lastSeen' = lastSeen /\ Verify(r)
        /\ Sent(r).kid \in keys /\ Fresh
    BY <1>5 DEF KeyCached, LookupHit, jwksVars, provider
  <2>2. CASE q # r
    <3>1. request'[q] = request[q]
      BY <2>1, <2>2, VerifyEnds DEF LetIn, Admit, Goes, TypeInv, RequestType
    <3> QED BY <1>0, <2>1, <3>1, AcceptFrame
  <2>3. CASE q = r
    <3>1. /\ Sent(r).kid \in Kids
          /\ lastSeen[Sent(r).kid] # NoTime /\ lastSeen[Sent(r).kid] >= fetchedAt - Timeout
      BY <2>1 DEF KeyInv, CachedInv, TypeInv, CacheType
    <3>2. /\ now - fetchedAt < Ttl /\ now \in Nat /\ fetchedAt \in Int
          /\ Ttl \in Nat /\ Timeout \in Nat /\ lastSeen[Sent(r).kid] \in Int
      BY <2>1, <3>1, JwksAssumption DEF Fresh, TypeInv, CacheType, NoTime
    <3>3. lastSeen[Sent(r).kid] >= now - (Ttl + Timeout) BY <3>1, <3>2
    <3> QED BY <2>1, <2>3, <3>1, <3>3, AcceptNew
  <2> QED BY <2>2, <2>3
<1>6. ASSUME NEW r \in Requests, KeyMissing(r) PROVE AcceptOK(q)'
  <2>1. PICK at \in UrlReads : /\ LookupMiss(r, Sent(r).kid, at)
                               /\ Goes(r, IF at = "torn" THEN "failed" ELSE "key")
    BY <1>6 DEF KeyMissing
  <2>2. CASE q # r
    BY <1>0, <1>6, <2>1, <2>2, AcceptFrame
    DEF LookupMiss, Goes, KeyMissing, TypeInv, CacheType, RequestType
  <2>3. CASE q = r
    <3>1. request'[r].at \in {"failed", "key"} BY <2>1 DEF Goes, TypeInv, RequestType
    <3> QED BY <2>3, <3>1 DEF AcceptOK, Passed
  <2> QED BY <2>2, <2>3
<1>7. ASSUME NEW r \in Requests, Refresh(r) PROVE AcceptOK(q)'
  <2>1. /\ Discovered(r) \/ Answered(r) \/ Store(r) \/ RefreshFails(r)
        /\ request' = request /\ mode' = mode
    BY <1>7 DEF Refresh
  <2>2. CASE q # r
    <3>1. call'[q] = call[q]
      BY <2>1, <2>2 DEF Discovered, Answered, Store, RefreshFails, Goto, TypeInv, CacheType
    <3> QED BY <1>0, <2>1, <3>1, AcceptFrame
  <2>3. CASE q = r
    <3>1. request[r].at = "key" BY <1>7 DEF Refresh
    <3> QED BY <2>1, <2>3, <3>1 DEF AcceptOK, Passed
  <2> QED BY <2>2, <2>3
<1>8. ASSUME NEW r \in Requests, KeyReturned(r) PROVE AcceptOK(q)'
  <2>1. /\ call' = [call EXCEPT ![r] = Forgotten(@)] /\ mode' = mode /\ lastSeen' = lastSeen
        /\ Returns(r) /\ request[r].at = "key"
        /\ IF Found(r) THEN Verify(r) ELSE Goes(r, "unauthorized")
    BY <1>8 DEF KeyReturned, Return, provider
  <2>2. CASE q # r
    <3>1. request'[q] = request[q]
      BY <2>1, <2>2, VerifyEnds DEF LetIn, Admit, Goes, TypeInv, RequestType
    <3> QED BY <1>0, <2>1, <2>2, <3>1, AcceptFrame DEF TypeInv, CacheType
  <2>3. CASE q = r /\ ~Found(r)
    <3>1. request'[r].at = "unauthorized"
      BY <2>1, <2>3 DEF Goes, TypeInv, RequestType, RequestRec
    <3> QED BY <2>3, <3>1 DEF AcceptOK, Passed
  <2>4. CASE q = r /\ Found(r)
    <3>1. call'[r].failed = call[r].failed
      BY <2>1 DEF Forgotten, NoCall, TypeInv, CacheType
    <3>2. /\ call[r].at # "none" /\ call[r].kid = Sent(r).kid
          /\ call[r].at = "failed" => call[r].failed
          /\ call[r].at = "recheck" => fetchedAt = now
          /\ call[r].ok => call[r].kid \in Kids /\ lastSeen[call[r].kid] # NoTime
      BY <2>1 DEF KeyInv, CallOK, Returns
    <3>3. CASE call[r].at = "failed" /\ call[r].ok
      BY <2>1, <2>4, <3>1, <3>2, <3>3, AcceptNew
    <3>4. CASE call[r].at = "recheck" /\ call[r].kid \in keys
      <4>1. /\ Sent(r).kid \in Kids
            /\ lastSeen[Sent(r).kid] # NoTime /\ lastSeen[Sent(r).kid] >= now - Timeout
        BY <3>2, <3>4 DEF KeyInv, CachedInv, TypeInv, CacheType
      <4>2. now \in Nat /\ Ttl \in Nat /\ Timeout \in Nat /\ lastSeen[Sent(r).kid] \in Int
        BY <4>1, JwksAssumption DEF TypeInv, CacheType, NoTime
      <4>3. lastSeen[Sent(r).kid] >= now - (Ttl + Timeout) BY <4>1, <4>2
      <4> QED BY <2>1, <2>4, <4>1, <4>3, AcceptNew
    <3> QED BY <2>4, <3>3, <3>4 DEF Found
  <2> QED BY <2>2, <2>3, <2>4
<1>9. ASSUME NEW r \in Requests,
             \/ \E s \in Sends[r] : Arrive(r, s)
             \/ Count(r) \/ CountFails(r) \/ SetExpiry(r) \/ Route(r)
      PROVE  AcceptOK(q)'
  <2>1. call' = call /\ mode' = mode
    BY <1>9 DEF Arrive, Count, CountFails, SetExpiry, Route, jwksVars
  <2> DEFINE Kept == request'[q].at \in Passed =>
                       /\ request[q].at \in Passed
                       /\ request'[q].sent = request[q].sent
                       /\ request'[q].verified = request[q].verified
  <2>2. Kept
    <3>1. ASSUME NEW at, Goes(r, at), request[r].at \in Passed PROVE Kept
      BY <3>1 DEF Goes, TypeInv, RequestType, RequestRec
    <3>2. CASE \E s \in Sends[r] : Arrive(r, s)
      BY <3>2 DEF Arrive, Passed, TypeInv, RequestType, RequestRec
    <3>3. CASE Count(r)
      <4>1. request[r].at \in Passed BY <3>3 DEF Count, Passed
      <4>2. /\ request'[r].sent = request[r].sent /\ request'[r].verified = request[r].verified
            /\ \A p \in Requests \ {r} : request'[p] = request[p]
        BY <3>3, CountRec
      <4> QED BY <4>1, <4>2
    <3>4. CASE CountFails(r) \/ SetExpiry(r) \/ Route(r)
      BY <3>1, <3>4 DEF CountFails, SetExpiry, Route, Passed
    <3> QED BY <1>9, <3>2, <3>3, <3>4
  <2> QED BY <1>0, <2>1, <2>2, AcceptFrame
<1> QED BY <1>1, <1>2, <1>3, <1>4, <1>5, <1>6, <1>7, <1>8, <1>9 DEF Next, RequestStep

LEMMA KeyInit == ASSUME Init PROVE KeyInv
<1>1. TypeInv BY TypeInit
<1>2. SeenInv
  BY <1>1, PublishedType DEF Init, JwksInit, SeenInv, NoTime, TypeInv, CacheType
<1>3. CachedInv BY DEF Init, JwksInit, CachedInv
<1>4. ASSUME NEW r \in Requests PROVE CallOK(r) /\ AcceptOK(r)
  <2>1. call[r].at = "none" /\ request[r].at = "idle"
    BY DEF Init, JwksInit, NoCall, Idle
  <2> QED BY <2>1 DEF CallOK, Waiting, AcceptOK, Passed
<1> QED BY <1>2, <1>3, <1>4 DEF KeyInv

LEMMA KeyStep == ASSUME TypeInv, KeyInv, [Next]_vars PROVE KeyInv'
<1>1. SeenInv' BY SeenStep DEF KeyInv
<1>2. CachedInv' BY CachedStep
<1>3. \A r \in Requests : CallOK(r)' /\ AcceptOK(r)' BY CallStep, AcceptStep
<1> QED BY <1>1, <1>2, <1>3 DEF KeyInv

\* Whatever order refreshes end in, a token is accepted by a key that the provider still
\* published within the time to live and one timeout, unless the request's own refresh
\* failed (jwksProvider.keyByID).
THEOREM AcceptedByRecentKey == Spec => []KeysAreRecent
<1>1. KeyInv => KeysAreRecent BY DEF KeyInv, AcceptOK, KeysAreRecent
<1>2. TypeInv /\ KeyInv /\ [Next]_vars => KeyInv' BY KeyStep
<1> QED BY <1>1, <1>2, KeyInit, TypeAlways, PTL DEF Spec

----------------------------------------------------------------------------
(* The limit.  A request's number is its counter's at the time; a counter  *)
(* lives to the end of the window that it counts, and is gone before its   *)
(* name comes back.                                                        *)

Begins(t) == (t \div Window) * Window

NameOf(b, t) == b[2] = Begins(t) % Day

CountedOK(r) ==
    request[r].counted =>
        /\ request[r].n >= 1 /\ request[r].since <= now
        /\ NameOf(request[r].bucket, request[r].since)

ExpireOK(r) == request[r].at = "expire" => request[r].counted /\ request[r].since = now

SameWindow(q, r) ==
    /\ request[q].counted /\ request[r].counted
    /\ request[q].bucket = request[r].bucket
    /\ request[q].since \div Window = request[r].since \div Window

Distinct(q, r) == SameWindow(q, r) /\ q # r => request[q].n # request[r].n

\* When a counter expires, its name can be traced to the time of its last EXPIRE.
ExpiryOK(b) ==
    counters[b].expires # Never =>
        /\ counters[b].expires > now
        /\ counters[b].expires - Window \in 0..now
        /\ NameOf(b, counters[b].expires - Window)

\* The counter of a request that was counted in the present window outlives the window.
CurrentOK(r) ==
    request[r].counted /\ request[r].since >= Begins(now) =>
        /\ request[r].bucket \in DOMAIN counters
        /\ request[r].n <= counters[request[r].bucket].n
        /\ \/ counters[request[r].bucket].expires = Never
           \/ counters[request[r].bucket].expires >= Begins(now) + Window

LimitInv ==
    /\ \A b \in DOMAIN counters : ExpiryOK(b)
    /\ \A r \in Requests : CountedOK(r) /\ ExpireOK(r) /\ CurrentOK(r)
    /\ \A q, r \in Requests : Distinct(q, r)

LEMMA WindowOf ==
    ASSUME NEW t \in Nat
    PROVE  /\ t \div Window \in Nat /\ Begins(t) \in Nat
           /\ Begins(t) <= t /\ t < Begins(t) + Window
BY LimiterAssumption DEF Begins

LEMMA MultiplesGrow ==
    ASSUME NEW a \in Int, NEW b \in Int, NEW w \in Nat, a < b
    PROVE  a * w + w <= b * w
<1> DEFINE d == b - a - 1
<1>1. d \in Nat /\ b = a + 1 + d OBVIOUS
<1> HIDE DEF d
<1>2. b * w = a * w + w + d * w BY <1>1
<1>3. d * w >= 0 BY <1>1
<1>4. a * w \in Int /\ b * w \in Int /\ d * w \in Int BY <1>1
<1> QED BY <1>2, <1>3, <1>4

\* Of two times, the earlier is in the window of the later if it is not before it.
LEMMA SameBegins ==
    ASSUME NEW s \in Nat, NEW t \in Nat, s <= t
    PROVE  /\ s \div Window = t \div Window <=> s >= Begins(t)
           /\ Begins(s) <= Begins(t)
<1> DEFINE a == s \div Window
           b == t \div Window
<1>1. /\ a \in Nat /\ b \in Nat /\ Window \in Nat
      /\ a * Window \in Nat /\ b * Window \in Nat
      /\ a * Window <= s /\ s < a * Window + Window
      /\ b * Window <= t /\ t < b * Window + Window
  BY WindowOf, LimiterAssumption DEF Begins
<1> HIDE DEF a, b
<1>2. a < b => a * Window + Window <= b * Window BY <1>1, MultiplesGrow
<1>3. b < a => b * Window + Window <= a * Window BY <1>1, MultiplesGrow
<1>4. a = b <=> s >= b * Window BY <1>1, <1>2, <1>3
<1>5. a * Window <= b * Window BY <1>1, <1>2, <1>3
<1> QED BY <1>4, <1>5 DEF a, b, Begins

LEMMA DivMod ==
    ASSUME NEW x \in Nat, NEW d \in Nat \ {0}
    PROVE  /\ x \div d \in Nat /\ x % d \in Nat /\ (x \div d) * d \in Nat
           /\ x = (x \div d) * d + (x % d)
OBVIOUS

LEMMA NamesDiffer ==
    ASSUME NEW x \in Nat
    PROVE  (x + Window) % Day # x % Day
<1>1. Day \in Nat \ {0} /\ Window \in Nat \ {0} /\ Window < Day BY LimiterAssumption
<1> DEFINE y == x + Window
           a == x \div Day
           b == y \div Day
           m == x % Day
<1> SUFFICES ASSUME y % Day = m PROVE FALSE OBVIOUS
<1>2. /\ a \in Int /\ m \in Nat /\ a * Day \in Int /\ x = a * Day + m BY <1>1, DivMod
<1>3. y \in Nat BY <1>1
<1>4. /\ b \in Int /\ b * Day \in Int /\ y = b * Day + m
  <2> HIDE DEF y, m
  <2> QED BY <1>1, <1>3, DivMod
<1>5. x + Window = b * Day + m BY <1>4
<1> HIDE DEF m, a, b, y
<1>6. a < b => a * Day + Day <= b * Day BY <1>1, <1>2, <1>4, MultiplesGrow
<1>7. b < a => b * Day + Day <= a * Day BY <1>1, <1>2, <1>4, MultiplesGrow
<1> QED BY <1>1, <1>2, <1>4, <1>5, <1>6, <1>7

\* A name that is in use less than a window later is that of the same window.
LEMMA SameName ==
    ASSUME NEW s \in Nat, NEW t \in Nat, s <= t, t - s < Window,
           Begins(s) % Day = Begins(t) % Day
    PROVE  s >= Begins(t)
<1>1. /\ Begins(s) \in Nat /\ Begins(t) \in Nat /\ Begins(t) <= t
      /\ Begins(s) <= s /\ s < Begins(s) + Window /\ t < Begins(t) + Window
  BY WindowOf
<1>2. /\ Begins(s) = (s \div Window) * Window /\ Begins(t) = (t \div Window) * Window
      /\ s \div Window \in Nat /\ t \div Window \in Nat /\ Window \in Nat
  BY WindowOf, LimiterAssumption DEF Begins
<1> DEFINE a == s \div Window
           b == t \div Window
<1> SUFFICES ASSUME s < Begins(t) PROVE FALSE BY <1>1
<1>3. a # b BY <1>1, <1>2
<1> HIDE DEF a, b
<1>4. a < b => a * Window + Window <= b * Window BY <1>2, MultiplesGrow DEF a, b
<1>5. a + 1 < b => (a + 1) * Window + Window <= b * Window BY <1>2, MultiplesGrow DEF a, b
<1>6. b < a => b * Window + Window <= a * Window BY <1>2, MultiplesGrow DEF a, b
<1>7. /\ a \in Nat /\ b \in Nat /\ Begins(s) = a * Window /\ Begins(t) = b * Window
  BY <1>2 DEF a, b
<1>8. (a + 1) * Window = a * Window + Window BY <1>2, <1>7
<1>9. b = a + 1 BY <1>1, <1>2, <1>3, <1>4, <1>5, <1>6, <1>7, <1>8
<1>10. Begins(t) = Begins(s) + Window BY <1>7, <1>8, <1>9
<1> QED BY <1>1, <1>10, NamesDiffer

\* What the limiter knows of a request is its own: other steps keep it.
KeepsCount(q) ==
    /\ request'[q].counted = request[q].counted /\ request'[q].n = request[q].n
    /\ request'[q].since = request[q].since /\ request'[q].bucket = request[q].bucket

LEMMA LetInKeeps ==
    ASSUME RequestType, NEW r \in Requests, LetIn(r), NEW q \in Requests
    PROVE  KeepsCount(q) /\ (request'[q].at = "expire" => request[q].at = "expire")
<1>1. PICK role, subject : Admit(r, role, subject) BY DEF LetIn
<1>2. AfterAuth # "expire" BY DEF AfterAuth
<1> QED BY <1>1, <1>2 DEF Admit, RequestType, RequestRec, KeepsCount

LEMMA GoesKeeps ==
    ASSUME RequestType, NEW r \in Requests, NEW at, at # "expire", Goes(r, at),
           NEW q \in Requests
    PROVE  /\ KeepsCount(q)
           /\ request'[q].at = "expire" => request[q].at = "expire" /\ q # r
BY DEF Goes, RequestType, RequestRec, KeepsCount

\* The parts of the invariant that are about requests, when only the counters change.
LEMMA RequestsFrame ==
    ASSUME LimitInv, now' = now,
           \A q \in Requests : /\ KeepsCount(q)
                               /\ request'[q].at = "expire" => request[q].at = "expire"
    PROVE  /\ \A q \in Requests : CountedOK(q)' /\ ExpireOK(q)'
           /\ \A q, r \in Requests : Distinct(q, r)'
BY DEF LimitInv, KeepsCount, CountedOK, ExpireOK, Distinct, SameWindow, NameOf, Begins

LEMMA LimitFrame ==
    ASSUME LimitInv, now' = now, counters' = counters,
           \A q \in Requests : /\ KeepsCount(q)
                               /\ request'[q].at = "expire" => request[q].at = "expire"
    PROVE  LimitInv'
<1>1. \A b \in DOMAIN counters : ExpiryOK(b)'
  BY DEF LimitInv, ExpiryOK, NameOf, Begins
<1>2. \A q \in Requests : CurrentOK(q)'
  BY DEF LimitInv, CurrentOK, KeepsCount, Begins
<1> QED BY <1>1, <1>2, RequestsFrame DEF LimitInv

LEMMA OtherSteps ==
    ASSUME TypeInv, LimitInv, NEW r \in Requests,
           \/ \E s \in Sends[r] : Arrive(r, s)
           \/ Authenticate(r) \/ KeyCached(r) \/ KeyMissing(r) \/ Refresh(r) \/ KeyReturned(r)
           \/ CountFails(r) \/ Route(r)
    PROVE  LimitInv'
<1>1. RequestType BY DEF TypeInv
<1>2. now' = now /\ counters' = counters
  <2>1. now' = now BY ClockStands DEF RequestStep
  <2>2. counters' = counters
    BY DEF Arrive, Authenticate, KeyCached, KeyMissing, Refresh, KeyReturned, CountFails, Route
  <2> QED BY <2>1, <2>2
<1>3. ASSUME NEW q \in Requests
      PROVE  KeepsCount(q) /\ (request'[q].at = "expire" => request[q].at = "expire")
  <2>1. CASE \E s \in Sends[r] : Arrive(r, s)
    <3>1. PICK s \in Sends[r] : Arrive(r, s) BY <2>1
    <3> DEFINE new == [request[r] EXCEPT !.at = "auth", !.sent = s]
    <3>2. request[r] \in RequestRec BY <1>1 DEF RequestType
    <3>3. /\ new.at = "auth" /\ new.counted = request[r].counted /\ new.n = request[r].n
          /\ new.since = request[r].since /\ new.bucket = request[r].bucket
      BY <3>2 DEF RequestRec
    <3>4. request' = [request EXCEPT ![r] = new] BY <3>1 DEF Arrive
    <3> HIDE DEF new
    <3> QED BY <1>1, <3>3, <3>4 DEF RequestType, KeepsCount
  <2>2. CASE Authenticate(r)
    BY <1>1, <2>2, AuthenticateEnds, LetInKeeps, GoesKeeps DEF RequestType
  <2>3. CASE KeyCached(r)
    BY <1>1, <2>3, VerifyEnds, LetInKeeps, GoesKeeps DEF KeyCached, RequestType
  <2>4. CASE KeyMissing(r)
    <3>1. PICK at \in UrlReads : Goes(r, IF at = "torn" THEN "failed" ELSE "key")
      BY <2>4 DEF KeyMissing
    <3> QED BY <1>1, <3>1, GoesKeeps
  <2>5. CASE Refresh(r) BY <2>5 DEF Refresh, KeepsCount
  <2>6. CASE KeyReturned(r)
    BY <1>1, <2>6, VerifyEnds, LetInKeeps, GoesKeeps DEF KeyReturned, RequestType
  <2>7. CASE CountFails(r) BY <1>1, <2>7, GoesKeeps DEF CountFails
  <2>8. CASE Route(r) BY <1>1, <2>8, GoesKeeps DEF Route
  <2> QED BY <2>1, <2>2, <2>3, <2>4, <2>5, <2>6, <2>7, <2>8
<1> QED BY <1>2, <1>3, LimitFrame

\* EXPIRE, on a counter of the present window.
LEMMA ExpireStep ==
    ASSUME TypeInv, LimitInv, NEW r \in Requests, SetExpiry(r)
    PROVE  LimitInv'
<1> DEFINE b == request[r].bucket
<1>1. /\ now' = now /\ RequestType /\ request[r].at = "expire"
      /\ Goes(r, Decide(r, request[r].n))
  BY DEF SetExpiry, jwksVars, TypeInv
<1>2. \A q \in Requests : /\ KeepsCount(q)
                          /\ request'[q].at = "expire" => request[q].at = "expire"
  BY <1>1, GoesKeeps DEF Decide
<1>3. CASE counters' = counters BY <1>1, <1>2, <1>3, LimitFrame
<1>4. CASE /\ b \in DOMAIN counters
           /\ counters' = Put(b, [counters[b] EXCEPT !.expires = now + Window])
  <2>1. /\ request[r].since = now /\ NameOf(b, now)
        /\ now \in Nat /\ Window \in Nat \ {0} /\ Begins(now) \in Nat /\ Begins(now) <= now
    BY <1>1, WindowOf, LimiterAssumption DEF LimitInv, ExpireOK, CountedOK, TypeInv, CacheType
  <2>2. DOMAIN counters' = DOMAIN counters BY <1>4 DEF Put
  <2>3. /\ \A c \in DOMAIN counters : counters'[c].n = counters[c].n
        /\ \A c \in DOMAIN counters : c # b => counters'[c].expires = counters[c].expires
        /\ counters'[b].expires = now + Window
    <3> DEFINE new == [counters[b] EXCEPT !.expires = now + Window]
    <3>1. counters[b] \in Counter BY <1>4 DEF TypeInv, CountersType
    <3>2. new.n = counters[b].n /\ new.expires = now + Window BY <3>1 DEF Counter
    <3>3. counters' = Put(b, new) BY <1>4
    <3> HIDE DEF new
    <3> QED BY <1>4, <3>2, <3>3 DEF Put
  <2>4. ASSUME NEW c \in DOMAIN counters PROVE ExpiryOK(c)'
    <3>1. CASE c # b BY <1>1, <2>3, <3>1 DEF LimitInv, ExpiryOK, NameOf, Begins
    <3>2. CASE c = b
      <4>1. now + Window > now /\ (now + Window) - Window = now /\ now \in 0..now BY <2>1
      <4> QED BY <1>1, <2>1, <2>3, <3>2, <4>1 DEF ExpiryOK, NameOf, Begins
    <3> QED BY <3>1, <3>2
  <2>5. ASSUME NEW q \in Requests PROVE CurrentOK(q)'
    <3> SUFFICES ASSUME request[q].counted, request[q].since >= Begins(now) PROVE CurrentOK(q)'
      BY <1>1, <1>2 DEF CurrentOK, KeepsCount, Begins
    <3>1. /\ request[q].bucket \in DOMAIN counters
          /\ request[q].n <= counters[request[q].bucket].n
          /\ \/ counters[request[q].bucket].expires = Never
             \/ counters[request[q].bucket].expires >= Begins(now) + Window
      BY DEF LimitInv, CurrentOK
    <3>2. now + Window >= Begins(now) + Window BY <2>1
    <3> QED BY <1>1, <1>2, <2>2, <2>3, <3>1, <3>2 DEF CurrentOK, KeepsCount, Begins
  <2> QED BY <1>1, <1>2, <2>2, <2>4, <2>5, RequestsFrame DEF LimitInv
<1> QED BY <1>3, <1>4 DEF SetExpiry, Expire

\* INCR: the request's number is new in its window.
LEMMA CountStep ==
    ASSUME TypeInv, LimitInv, NEW r \in Requests, Count(r)
    PROVE  LimitInv'
<1>b. PICK b : b = Bucket(ClientKey(r), now) OBVIOUS
<1>a. PICK old : old = IF b \in DOMAIN counters THEN counters[b].expires ELSE Never OBVIOUS
<1> DEFINE new == [n |-> After1(b), expires |-> old]
<1>1. /\ now' = now /\ now \in Nat /\ Window \in Nat \ {0}
      /\ Begins(now) \in Nat /\ Begins(now) <= now /\ Begins(now)' = Begins(now)
      /\ NameOf(b, now)
  BY <1>b, WindowOf, LimiterAssumption
  DEF Count, jwksVars, TypeInv, CacheType, NameOf, Bucket, Begins
<1>2. /\ request'[r].bucket = b /\ request'[r].since = now /\ request'[r].counted = TRUE
      /\ request'[r].n = After1(b) /\ request'[r].n \in Nat \ {0}
      /\ \A q \in Requests \ {r} : request'[q] = request[q]
  BY <1>b, CountRec
<1>3. counters' = Put(b, new) BY <1>b, <1>a DEF Count, Incr
<1>4. \A c \in DOMAIN counters :
          counters[c].n \in Nat /\ (counters[c].expires = Never \/ counters[c].expires \in Nat)
  BY DEF TypeInv, CountersType, Counter
<1>5. After1(b) = IF b \in DOMAIN counters THEN counters[b].n + 1 ELSE 1 BY DEF After1
<1>6. \A q \in Requests : request[q].n \in Nat /\ request[q].since \in Nat
  BY DEF TypeInv, RequestType, RequestRec
<1>7. /\ DOMAIN counters' = DOMAIN counters \cup {b}
      /\ counters'[b].n = After1(b) /\ counters'[b].expires = old
      /\ \A c \in DOMAIN counters \ {b} : counters'[c] = counters[c]
  BY <1>3 DEF Put
<1> HIDE DEF new
\* A counter that is still there under the window's name is the window's own.
<1>8. old = Never \/ old >= Begins(now) + Window
  <2> SUFFICES ASSUME b \in DOMAIN counters, old # Never PROVE old >= Begins(now) + Window
    BY <1>a
  <2> DEFINE s == old - Window
  <2>1. old \in Nat /\ old > now /\ s \in 0..now /\ NameOf(b, s)
    BY <1>a, <1>4 DEF LimitInv, ExpiryOK
  <2>2. s \in Nat /\ s <= now /\ now - s < Window BY <1>1, <2>1
  <2>3. Begins(s) % Day = Begins(now) % Day BY <1>1, <2>1 DEF NameOf
  <2> HIDE DEF s
  <2>4. s >= Begins(now) BY <1>1, <2>2, <2>3, SameName
  <2> QED BY <1>1, <2>1, <2>4 DEF s
<1>9. \A c \in DOMAIN counters' : ExpiryOK(c)'
  <2>1. ASSUME NEW c \in DOMAIN counters \ {b} PROVE ExpiryOK(c)'
    BY <1>1, <1>7, <2>1 DEF LimitInv, ExpiryOK, NameOf, Begins
  <2>2. ExpiryOK(b)'
    <3>1. CASE b \in DOMAIN counters
      BY <1>a, <1>1, <1>7, <3>1 DEF LimitInv, ExpiryOK, NameOf, Begins
    <3>2. CASE b \notin DOMAIN counters BY <1>a, <1>7, <3>2 DEF ExpiryOK
    <3> QED BY <3>1, <3>2
  <2> QED BY <1>7, <2>1, <2>2
<1>10. ASSUME NEW q \in Requests PROVE CountedOK(q)' /\ ExpireOK(q)' /\ CurrentOK(q)'
  <2>1. CASE q = r
    <3>1. CountedOK(r)' BY <1>1, <1>2 DEF CountedOK, NameOf, Begins
    <3>2. ExpireOK(r)' BY <1>1, <1>2 DEF ExpireOK
    <3>3. CurrentOK(r)' BY <1>1, <1>2, <1>7, <1>8 DEF CurrentOK
    <3> QED BY <2>1, <3>1, <3>2, <3>3
  <2>2. CASE q # r
    <3>1. request'[q] = request[q] BY <1>2, <2>2
    <3>2. CountedOK(q)' /\ ExpireOK(q)'
      BY <1>1, <3>1 DEF LimitInv, CountedOK, ExpireOK, NameOf, Begins
    <3>3. CurrentOK(q)'
      <4> SUFFICES ASSUME request[q].counted, request[q].since >= Begins(now)
                   PROVE  CurrentOK(q)'
        BY <1>1, <3>1 DEF CurrentOK
      <4>1. /\ request[q].bucket \in DOMAIN counters
            /\ request[q].n <= counters[request[q].bucket].n
            /\ \/ counters[request[q].bucket].expires = Never
               \/ counters[request[q].bucket].expires >= Begins(now) + Window
        BY DEF LimitInv, CurrentOK
      <4>2. CASE request[q].bucket # b
        BY <1>1, <1>7, <3>1, <4>1, <4>2 DEF CurrentOK
      <4>3. CASE request[q].bucket = b
        <5>1. request[q].n <= After1(b) BY <1>4, <1>5, <1>6, <4>1, <4>3
        <5> QED BY <1>1, <1>7, <1>8, <3>1, <4>3, <5>1 DEF CurrentOK
      <4> QED BY <4>2, <4>3
    <3> QED BY <3>2, <3>3
  <2> QED BY <2>1, <2>2
\* Whoever else is counted in this window has a smaller number.
<1>11. ASSUME NEW q \in Requests \ {r}, request[q].counted, request[q].bucket = b,
              request[q].since \div Window = now \div Window
       PROVE  request[q].n # After1(b)
  <2>1. request[q].since \in Nat /\ request[q].since <= now
    BY <1>6, <1>11 DEF LimitInv, CountedOK
  <2>2. request[q].since >= Begins(now) BY <1>1, <1>11, <2>1, SameBegins
  <2>3. b \in DOMAIN counters /\ request[q].n <= counters[b].n
    BY <1>11, <2>2 DEF LimitInv, CurrentOK
  <2> QED BY <1>4, <1>5, <1>6, <2>3
<1>12. ASSUME NEW p \in Requests, NEW q \in Requests PROVE Distinct(p, q)'
  <2>1. CASE p = q BY <2>1 DEF Distinct
  <2>2. CASE p # r /\ q # r
    BY <1>2, <2>2 DEF LimitInv, Distinct, SameWindow
  <2>3. CASE p = r /\ q # r BY <1>2, <1>11, <2>3 DEF Distinct, SameWindow
  <2>4. CASE p # r /\ q = r BY <1>2, <1>11, <2>4 DEF Distinct, SameWindow
  <2> QED BY <2>1, <2>2, <2>3, <2>4
<1> QED BY <1>9, <1>10, <1>12 DEF LimitInv

\* The clock: a counter of the present window is not evicted.
LEMMA TickStep ==
    ASSUME TypeInv, LimitInv, Tick
    PROVE  LimitInv'
<1>1. /\ now' = now + 1 /\ request' = request
      /\ \A r \in Requests : request[r].at # "expire"
      /\ Evict(now + 1)
  BY DEF Tick, ClockTicks, gatewayVars
<1>2. /\ now \in Nat /\ now + 1 \in Nat /\ now <= now + 1 /\ Window \in Nat \ {0}
      /\ Begins(now) \in Nat /\ Begins(now + 1) \in Nat
      /\ Begins(now) <= Begins(now + 1)
      /\ now + 1 < Begins(now + 1) + Window
  <2>1. now \in Nat /\ now + 1 \in Nat /\ now <= now + 1 /\ Window \in Nat \ {0}
    BY LimiterAssumption DEF TypeInv, CacheType
  <2>2. Begins(now) <= Begins(now + 1) BY <2>1, SameBegins
  <2>3. Begins(now) \in Nat BY <2>1, WindowOf
  <2>4. Begins(now + 1) \in Nat /\ now + 1 < Begins(now + 1) + Window BY <2>1, WindowOf
  <2> QED BY <2>1, <2>2, <2>3, <2>4
<1>3. /\ \A b \in DOMAIN counters' : /\ b \in DOMAIN counters /\ counters'[b] = counters[b]
                                    /\ counters[b].expires \notin 0..(now + 1)
      /\ \A b \in DOMAIN counters :
            counters[b].expires \notin 0..(now + 1) => b \in DOMAIN counters'
  BY <1>1 DEF Evict
<1>4. \A b \in DOMAIN counters : counters[b].expires = Never \/ counters[b].expires \in Nat
  BY DEF TypeInv, CountersType, Counter
<1>5. \A r \in Requests : request[r].since \in Nat BY DEF TypeInv, RequestType, RequestRec
<1>6. ASSUME NEW b \in DOMAIN counters' PROVE ExpiryOK(b)'
  <2>1. b \in DOMAIN counters /\ counters'[b] = counters[b] BY <1>3
  <2>2. counters[b].expires # Never =>
            counters[b].expires > now + 1 /\ counters[b].expires - Window \in 0..(now + 1)
    BY <1>2, <1>3, <1>4, <2>1 DEF LimitInv, ExpiryOK
  <2> QED BY <1>1, <2>1, <2>2 DEF LimitInv, ExpiryOK, NameOf, Begins
<1>7. ASSUME NEW r \in Requests PROVE CountedOK(r)' /\ ExpireOK(r)'
  BY <1>1, <1>2, <1>5 DEF LimitInv, CountedOK, ExpireOK, NameOf, Begins
<1>8. ASSUME NEW r \in Requests PROVE CurrentOK(r)'
  <2>1. Begins(now)' = Begins(now + 1) BY <1>1 DEF Begins
  <2> SUFFICES ASSUME request[r].counted, request[r].since >= Begins(now + 1)
               PROVE  CurrentOK(r)'
    BY <1>1, <2>1 DEF CurrentOK
  <2> DEFINE b == request[r].bucket
  <2>2. request[r].since <= now /\ request[r].since >= Begins(now)
    BY <1>2, <1>5 DEF LimitInv, CountedOK
  <2>3. /\ b \in DOMAIN counters /\ request[r].n <= counters[b].n
        /\ counters[b].expires = Never \/ counters[b].expires >= Begins(now) + Window
    BY <2>2 DEF LimitInv, CurrentOK
  <2>4. Begins(now + 1) = Begins(now)
    <3>1. now \div Window = (now + 1) \div Window
      <4>1. now >= Begins(now + 1) BY <1>2, <1>5, <2>2
      <4> QED BY <1>2, <4>1, SameBegins
    <3> QED BY <3>1 DEF Begins
  <2>5. counters[b].expires \notin 0..(now + 1)
    BY <1>2, <1>4, <2>3, <2>4 DEF Never
  <2>6. b \in DOMAIN counters' /\ counters'[b] = counters[b] BY <1>3, <2>3, <2>5
  <2> QED BY <1>1, <2>1, <2>3, <2>4, <2>6 DEF CurrentOK
<1>9. \A q, r \in Requests : Distinct(q, r)'
  BY <1>1 DEF LimitInv, Distinct, SameWindow
<1> QED BY <1>6, <1>7, <1>8, <1>9 DEF LimitInv

LEMMA LimitInit == ASSUME Init PROVE LimitInv
<1>1. DOMAIN counters = {} BY DEF Init, LimiterInit
<1>2. \A r \in Requests : request[r].counted = FALSE /\ request[r].at = "idle"
  BY DEF Init, Idle
<1> QED BY <1>1, <1>2 DEF LimitInv, CountedOK, ExpireOK, CurrentOK, Distinct, SameWindow

LEMMA LimitStep == ASSUME TypeInv, LimitInv, [Next]_vars PROVE LimitInv'
<1>1. CASE UNCHANGED vars
  BY <1>1, LimitFrame DEF vars, jwksVars, gatewayVars, KeepsCount
<1>2. CASE IdpRotates
  BY <1>2, LimitFrame DEF IdpRotates, Rotate, gatewayVars, KeepsCount
<1>3. CASE Crash
  <2>1. now' = now /\ counters' = counters BY <1>3 DEF Crash
  <2>2. ASSUME NEW q \in Requests
        PROVE  KeepsCount(q) /\ (request'[q].at = "expire" => request[q].at = "expire")
    <3>1. request[q] \in RequestRec BY DEF TypeInv, RequestType
    <3>2. request'[q] \in {request[q], [request[q] EXCEPT !.at = "lost"]} BY <1>3 DEF Crash
    <3> QED BY <3>1, <3>2 DEF RequestRec, KeepsCount
  <2> QED BY <2>1, <2>2, LimitFrame
<1> QED BY <1>1, <1>2, <1>3, OtherSteps, ExpireStep, CountStep, TickStep DEF Next, RequestStep

\* Requests of one counter that passed in one window have different numbers up to the limit.
LEMMA PassedAreFew ==
    ASSUME TypeInv, LimitInv, NEW r \in Requests, request[r].counted
    PROVE  Cardinality({q \in Requests :
                           /\ request[q].counted /\ Allowed(request[q].n)
                           /\ request[q].bucket = request[r].bucket
                           /\ request[q].since \div Window = request[r].since \div Window})
             <= Limit
<1> DEFINE same == {q \in Requests : /\ request[q].counted /\ Allowed(request[q].n)
                                     /\ request[q].bucket = request[r].bucket
                                     /\ request[q].since \div Window
                                            = request[r].since \div Window}
           f == [q \in same |-> request[q].n]
<1>1. Limit \in Nat BY LimiterAssumption
<1>2. IsFiniteSet(1..Limit) /\ Cardinality(1..Limit) = Limit BY <1>1, FS_Interval
<1>3. ASSUME NEW q \in same PROVE f[q] \in 1..Limit
  <2>1. request[q].counted /\ request[q].n <= Limit /\ request[q].n >= 1
    BY DEF Allowed, LimitInv, CountedOK
  <2>2. request[q].n \in Nat BY DEF TypeInv, RequestType, RequestRec
  <2> QED BY <1>1, <2>1, <2>2
<1>4. ASSUME NEW p \in same, NEW q \in same, f[p] = f[q] PROVE p = q
  BY <1>4 DEF LimitInv, Distinct, SameWindow
<1>5. f \in Injection(same, 1..Limit)
  <2>1. f \in [same -> 1..Limit] BY <1>3
  <2> HIDE DEF f, same
  <2> QED BY <1>4, <2>1 DEF Injection, IsInjective
<1> HIDE DEF f, same
<1>6. Cardinality(same) <= Cardinality(1..Limit) BY <1>2, <1>5, FS_Injection
<1> QED BY <1>2, <1>6 DEF same

\* However many requests are counted at once, whenever INCR's EXPIRE comes or fails, and
\* when the time of day repeats: in no window do more than the limit pass (Limiter.Allow).
THEOREM LimitHolds == Spec => []WithinLimit
<1>1. TypeInv /\ LimitInv => WithinLimit BY PassedAreFew DEF WithinLimit
<1>2. TypeInv /\ LimitInv /\ [Next]_vars => LimitInv' BY LimitStep
<1> QED BY <1>1, <1>2, LimitInit, TypeAlways, PTL DEF Spec
=============================================================================
