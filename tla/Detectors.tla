----------------------------- MODULE Detectors -----------------------------
(***************************************************************************)
(* internal/detect: the findings the sixteen detectors raise for one       *)
(* subject, and those of the repository and secret passes.  A subject is   *)
(* a posture (see RiskScore) with the identity's state, owner and agent    *)
(* metadata, its workloads, the attack paths from it and its usage window, *)
(* oldest event first.  A finding is its detector, what tells it apart     *)
(* from the detector's other findings (its fingerprint), and its severity. *)
(***************************************************************************)
EXTENDS RiskScore, Sequences, SequencesExt

CONSTANTS
    Cfg,        \* detect.Config
    Distance,   \* approxDistKM, by pair of countries; 0 for an unknown one
    Sensitive,  \* sensitiveActions
    SpikeHours  \* the hourly buckets of usage_spike

NoCountry == ""

Finding(detector, salient, sev) ==
    [detector |-> detector, salient |-> salient, severity |-> sev]

Raise(cond, detector, salient, sev) ==
    IF cond THEN {Finding(detector, salient, sev)} ELSE {}

----------------------------------------------------------------------------
\* Hygiene.
OrphanedIdentity(s) ==
    Raise(/\ s.state = "active" /\ ~s.breakGlass
          /\ ~s.owned /\ s.workloads = {} /\ s.exposures = {},
          "orphaned_identity", <<>>, "medium")

IsStale(s) ==
    IF s.seen = NoTime THEN s.created > NeverUsedAge ELSE s.seen > Cfg.stale

StaleIdentity(s) ==
    Raise(~s.breakGlass /\ IsStale(s), "stale_identity", <<>>,
          IF s.seen = NoTime \/ s.seen > 180 THEN "medium" ELSE "low")

\* A credential that was never used is stale; one of unknown age is not old.
StaleAccessKey(s) ==
    LET Stale(c)   == c.used = NoTime \/ c.used > Cfg.stale
        Overdue(c) == Cfg.rotation > 0 /\ c.age > Cfg.rotation
        TooOld(c)  == Cfg.maxAge > 0 /\ c.age > Cfg.maxAge
    IN {Finding("stale_access_key", <<c.key>>, IF TooOld(c) THEN "high" ELSE "medium") :
           c \in {d \in s.creds : d.active /\ (Stale(d) \/ Overdue(d) \/ TooOld(d))}}

----------------------------------------------------------------------------
\* Privilege and trust.
HasWriteAction(actions) == HasWrite(actions) \/ "iam:*" \in actions

OverPrivileged(s) ==
    Raise(\/ \E r \in s.roles : IsAdmin(r) \/ r.escalates
          \/ \E b \in s.bindings : /\ b.effect = "allow"
                                   /\ b.crit = "crown_jewel"
                                   /\ HasWriteAction(b.actions),
          "over_privileged_sa", <<>>, "high")

PrivilegeCreep(s) ==
    Raise(s.peerPerms # 0 /\ TotalPerms(s.roles) > s.peerPerms,
          "privilege_creep", <<>>, "medium")

\* Mutant: an assumable role of the own account is taken to be guarded.
ForeignConditionless(s) ==
    {Finding("conditionless_assume_role", <<t.key>>, "high") :
        t \in {u \in s.trust : u.type = "can_assume" /\ ~HasGuard(u) /\ u.cross}}

ConditionlessTrust(s) ==
    {Finding("conditionless_assume_role", <<t.key>>, "high") :
        t \in {u \in s.trust : u.type = "can_assume" /\ ~HasGuard(u)}}

WildcardTrust(s) ==
    {Finding("wildcard_trust", <<t.key>>, "high") : t \in {u \in s.trust : u.wild}}

SecretExposed(s) ==
    {Finding("secret_exposed_in_repo", <<x.key>>,
             IF x.verified \/ IsPublic(x) THEN "critical" ELSE "high") : x \in s.exposures}

HighBlastRadius(s) ==
    Raise(s.blast.crown # 0 \/ s.blast.admin, "high_blast_radius", <<>>, "high")

\* Metadata that is absent reads as no hours and no flag.
AgentOverscoped(s) ==
    Raise(s.agent /\ (s.broadScope \/ s.uncontrolledTools \/ s.ttlHours > 24),
          "ai_agent_overscoped", <<>>, "high")

\* suspicious_role_chain: the worst, then longest, path with a trust pivot.
RoleChain(s) ==
    LET chains == {p \in s.paths : p.hops >= 2 /\ p.pivots >= 1}
        Rank(p) == IF p.impact = "crown_jewel" THEN 2 ELSE 1
        best   == CHOOSE p \in chains : \A q \in chains :
                     \/ Rank(p) > Rank(q)
                     \/ Rank(p) = Rank(q) /\ p.hops >= q.hops
    IN IF chains = {} THEN {}
       ELSE {Finding("suspicious_role_chain", <<best.impact, best.hops>>, "high")}

----------------------------------------------------------------------------
\* Anomalies in the usage window.  Only its last event is judged, except by
\* impossible_travel, which stops at the first pair of events that is too fast.
FilterEgress(usage) == SelectSeq(usage, LAMBDA e : ~e.egress)

ImpossibleTravel(s) ==
    LET usage == FilterEgress(s.usage)
        geo   == SelectSeq(usage, LAMBDA e : e.country # NoCountry)
        TooFast(i) ==
            LET a == geo[i] b == geo[i+1]
            IN /\ a.country # b.country
               /\ b.time > a.time
               /\ Distance[a.country, b.country] > Cfg.maxKmh * (b.time - a.time)
        pairs == {i \in 1..Len(geo) - 1 : TooFast(i)}
        first == Min(pairs)
    IN IF Len(usage) < 2 \/ Len(usage) < Cfg.warmup \div 5 \/ pairs = {} THEN {}
       ELSE {Finding("impossible_travel", <<geo[first].country, geo[first+1].country>>, "high")}

Judgeable(usage) == Len(usage) >= 2 /\ Len(usage) >= Cfg.warmup

UnusualGeo(s) ==
    LET usage == FilterEgress(s.usage)
    IN IF ~Judgeable(usage) THEN {}
       ELSE Raise(/\ Last(usage).country # NoCountry
                  /\ \A i \in 1..Len(usage) - 1 : usage[i].country # Last(usage).country,
                  "unusual_geo", <<Last(usage).country>>, "medium")

NewAsnOrRuntime(s) ==
    LET usage == FilterEgress(s.usage)
        hist  == ToSet(Front(usage))
        cur   == Last(usage)
        newAsn == cur.asn # 0 /\ \A e \in hist : e.asn # cur.asn
        newRt  == cur.runtime # "" /\ \A e \in hist : e.runtime # cur.runtime
    IN IF ~Judgeable(usage) THEN {}
       ELSE Raise(newAsn \/ newRt, "new_asn_or_runtime",
                  (IF newAsn THEN <<"new_asn", cur.asn>> ELSE <<>>)
                  \o (IF newRt THEN <<"new_runtime", cur.runtime>> ELSE <<>>), "low")

\* latest >= mean + sigma * s, over the buckets before the latest; in integers.
UsageSpike(s) ==
    LET last   == Last(s.usage).time
        In(h)  == Cardinality({i \in DOMAIN s.usage : s.usage[i].time = h})
        hours  == {s.usage[i].time : i \in DOMAIN s.usage}
                      \cap (last - SpikeHours + 1)..(last - 1)
        n      == SpikeHours - 1
        sum    == MapThenSumSet(In, hours)
        spread == n * MapThenSumSet(LAMBDA h : In(h) * In(h), hours) - sum * sum
        excess == n * In(last) - sum
    IN IF Len(s.usage) < Cfg.warmup \/ s.usage = <<>> THEN {}
       ELSE Raise(/\ spread > 0 /\ excess >= 0
                  /\ excess * excess >= Cfg.sigma * Cfg.sigma * spread,
                  "usage_spike", <<>>, "medium")

FirstUseSensitive(s) ==
    IF Len(s.usage) < 2 THEN {}
    ELSE LET cur == Last(s.usage)
         IN Raise(/\ cur.action \in Sensitive
                  /\ \A e \in ToSet(Front(s.usage)) : e.action # cur.action,
                  "first_use_sensitive_action", <<cur.action>>, "high")

----------------------------------------------------------------------------
Fingerprint(f) == <<f.detector, f.salient>>

SevRank(sev) == CASE sev = "critical" -> 4 [] sev = "high" -> 3
                  [] sev = "medium" -> 2 [] sev = "low" -> 1

\* The detectors of the engine, in the order in which it calls them.
NewEngine ==
    <<"orphaned_identity", "stale_identity", "stale_access_key", "over_privileged_sa",
      "conditionless_assume_role", "wildcard_trust", "secret_exposed_in_repo",
      "high_blast_radius", "ai_agent_overscoped", "impossible_travel", "unusual_geo",
      "new_asn_or_runtime", "usage_spike", "first_use_sensitive_action",
      "privilege_creep", "suspicious_role_chain">>

\* Engine.Run keeps one finding of those with one fingerprint.
Run(s) ==
    LET all == OrphanedIdentity(s) \cup StaleIdentity(s) \cup StaleAccessKey(s)
               \cup OverPrivileged(s) \cup ConditionlessTrust(s) \cup WildcardTrust(s)
               \cup SecretExposed(s) \cup HighBlastRadius(s) \cup AgentOverscoped(s)
               \cup ImpossibleTravel(s) \cup UnusualGeo(s) \cup NewAsnOrRuntime(s)
               \cup UsageSpike(s) \cup FirstUseSensitive(s) \cup PrivilegeCreep(s)
               \cup RoleChain(s)
    IN {CHOOSE f \in all : Fingerprint(f) = fp : fp \in {Fingerprint(f) : f \in all}}

Names(fs) == {f.detector : f \in fs}
============================================================================
