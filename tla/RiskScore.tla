----------------------------- MODULE RiskScore -----------------------------
(***************************************************************************)
(* internal/risk: the composite score as a function of what one identity   *)
(* holds.  A posture is risk.Input: the identity's three ages, the rows    *)
(* read for it, the blast radius and trust depth from the graph, and two   *)
(* peer baselines.  Weights are hundredths, ages are days, NoTime is nil.  *)
(*                                                                         *)
(* Score adds the six weighted factors in the order in which Go ranges     *)
(* over a map, which changes from call to call; float64 addition is not    *)
(* associative, so a total that ends in exactly one half is rounded either *)
(* way.  Composites is therefore the set of results a call may return.     *)
(***************************************************************************)
EXTENDS Integers, FiniteSets, FiniteSetsExt, Functions

CONSTANTS
    Weight,   \* Weights.Weights, by factor, in hundredths
    Points,   \* Weights.Signals, by signal; an absent signal is worth 0
    Boost     \* Weights.Urgency

Factors == {"privilege", "blast_radius", "exposure", "trust", "usage", "freshness"}

\* The signals that the engine asks for, with their caps.
SignalNames ==
    {"admin_or_star", "wildcard_action", "wildcard_action_cap", "wildcard_resource",
     "wildcard_resource_cap", "priv_escalation_action", "write_crown_jewel",
     "privilege_creep_p90", "public_repo", "private_repo_or_ci", "verified_live",
     "static_key_no_expiry", "cred_over_max_age", "never_used_aged",
     "unused_stale_window", "rotation_unmanaged", "not_rotated", "conditionless_assume",
     "cross_account", "wildcard_external", "can_mint_or_impersonate", "chain_depth_2plus",
     "crown_jewel_1hop", "crown_jewel_chain", "high_crit_each", "high_crit_cap",
     "reachable_over_p90", "escalate_to_admin"}

Boosts == {"exposure_verified_live", "reachable_crown_jewel", "publicly_exposed",
           "strong_trust_condition"}

ASSUME RiskAssumption ==
    /\ \A f \in Factors : Weight[f] \in Int
    /\ \A s \in SignalNames : Points[s] \in Int
    /\ \A b \in Boosts : Boost[b] \in Int

\* What the shipped file grants and validate does not ask for: nothing counts
\* against an identity's risk, and the graver of two exclusive signals counts more.
OrderedWeights ==
    /\ \A f \in Factors : Weight[f] >= 0
    /\ \A s \in SignalNames : Points[s] >= 0
    /\ Points["private_repo_or_ci"] <= Points["public_repo"]
    /\ Points["crown_jewel_chain"] <= Points["crown_jewel_1hop"]

SumWeights(w) == SumFunction(w)

\* validate: the six weights are there and sum to about one.
ValidWeights(w) ==
    /\ Factors \subseteq DOMAIN w
    /\ SumWeights(w) \in 95..105

NoTime == -1

StaleWindow    == 90
NeverUsedAge   == 30
RotationMaxAge == 180
CredMaxAge     == 365

----------------------------------------------------------------------------
Clamp(v) == IF v < 0 THEN 0 ELSE IF v > 100 THEN 100 ELSE v

CapPts(v, cap) == IF cap > 0 /\ v > cap THEN cap ELSE v

\* add: a signal that earns no points is not listed.
Earns(on, s) == IF on THEN Points[s] ELSE 0

HasWrite(actions) ==
    actions \cap {"*", "s3:*", "s3:PutObject", "s3:DeleteObject", "write", "*:*"} # {}

TotalPerms(roles) == SumFunction([r \in roles |-> r.perms])

IsAdmin(r) == r.level \in {"admin", "privileged"}

HasGuard(t) == t.guards # {}

IsPublic(x) == x.pattern = "public"

----------------------------------------------------------------------------
\* The six factors: the points that each signal earns.
Privilege(p) ==
    LET wildActs == SumFunction([r \in p.roles |-> r.wildActs])
        wildRes  == SumFunction([r \in p.roles |-> r.wildRes])
    IN [admin_or_star |-> Earns(\E r \in p.roles : IsAdmin(r), "admin_or_star"),
        wildcard_action |->
            CapPts(wildActs * Points["wildcard_action"], Points["wildcard_action_cap"]),
        wildcard_resource |->
            CapPts(wildRes * Points["wildcard_resource"], Points["wildcard_resource_cap"]),
        priv_escalation_action |->
            Earns(\E r \in p.roles : r.escalates, "priv_escalation_action"),
        write_crown_jewel |->
            Earns(\E b \in p.bindings : /\ b.effect = "allow"
                                        /\ b.crit = "crown_jewel"
                                        /\ HasWrite(b.actions), "write_crown_jewel"),
        privilege_creep_p90 |->
            Earns(p.peerPerms > 0 /\ TotalPerms(p.roles) > p.peerPerms,
                  "privilege_creep_p90")]

Exposure(p) ==
    LET pub == \E x \in p.exposures : IsPublic(x) \/ x.path = "public"
    IN [public_repo |-> Earns(pub, "public_repo"),
        private_repo_or_ci |-> Earns(~pub /\ p.exposures # {}, "private_repo_or_ci"),
        verified_live |-> Earns(\E x \in p.exposures : x.verified, "verified_live"),
        static_key_no_expiry |->
            Earns(\E c \in p.creds : c.static /\ ~c.expires, "static_key_no_expiry"),
        cred_over_max_age |->
            Earns(\E c \in p.creds : c.age > CredMaxAge, "cred_over_max_age")]

Freshness(p) ==
    [never_used_aged |->
         Earns(p.seen = NoTime /\ p.created > NeverUsedAge, "never_used_aged"),
     unused_stale_window |-> Earns(p.seen > StaleWindow, "unused_stale_window"),
     rotation_unmanaged |-> Earns(p.rotated = NoTime, "rotation_unmanaged"),
     not_rotated |-> Earns(p.rotated > RotationMaxAge, "not_rotated")]

\* The worker leaves Input.Anomalies at its zero value: no signal is ever on.
Usage(p) == [a \in p.anomalies |-> Points[a]]

\* Every edge adds the points of its signals.
Trust(p) ==
    LET Each(s, S) == Points[s] * Cardinality(S)
    IN [conditionless_assume |->
            Each("conditionless_assume",
                 {t \in p.trust : t.type = "can_assume" /\ ~HasGuard(t)}),
        cross_account |-> Each("cross_account", {t \in p.trust : t.cross}),
        wildcard_external |-> Each("wildcard_external", {t \in p.trust : t.wild}),
        can_mint_or_impersonate |->
            Each("can_mint_or_impersonate",
                 {t \in p.trust : t.type \in {"can_mint_token", "can_impersonate"}}),
        chain_depth_2plus |-> Earns(p.depth >= 2, "chain_depth_2plus")]

BlastFactor(p) ==
    LET near == p.blast.nearest <= 1
    IN [crown_jewel_1hop  |-> Earns(p.blast.crown > 0 /\ near, "crown_jewel_1hop"),
        crown_jewel_chain |-> Earns(p.blast.crown > 0 /\ ~near, "crown_jewel_chain"),
        high_crit_reachable |->
            CapPts(p.blast.high * Points["high_crit_each"], Points["high_crit_cap"]),
        reachable_over_p90 |->
            Earns(p.peerReach > 0 /\ p.blast.reachable > p.peerReach, "reachable_over_p90"),
        escalate_to_admin |-> Earns(p.blast.admin, "escalate_to_admin")]

----------------------------------------------------------------------------
SubScore(pts) == Clamp(SumFunction(pts))

\* The weighted sum of the six sub-scores, in hundredths.
WeightedSum(p) ==
      Weight["privilege"] * SubScore(Privilege(p))
    + Weight["exposure"]  * SubScore(Exposure(p))
    + Weight["freshness"] * SubScore(Freshness(p))
    + Weight["usage"]     * SubScore(Usage(p))
    + Weight["trust"]     * SubScore(Trust(p))
    + Weight["blast_radius"] * SubScore(BlastFactor(p))

\* int(composite + 0.5): a sum that ends in one half may fall short of it.
Rounded(sum) ==
    LET up == Clamp((sum + 50) \div 100)
    IN IF sum % 100 = 50 THEN {Clamp(sum \div 100), up} ELSE {up}

Composites(p) == UNION {Rounded(sum) : sum \in {WeightedSum(p)}}

\* Breakdown.Factors[...].Signals.
Listing(pts) == {s \in DOMAIN pts : pts[s] > 0}

Signals(p) == Listing(Privilege(p)) \cup Listing(Exposure(p)) \cup Listing(Freshness(p))
              \cup Listing(Usage(p)) \cup Listing(Trust(p)) \cup Listing(BlastFactor(p))

StrongTrustCondition(edges) ==
    LET assumes == {t \in edges : t.type = "can_assume"}
    IN assumes # {} /\ \A t \in assumes : HasGuard(t)

Urgency(composite, p) ==
    LET On(cond, b) == IF cond THEN Boost[b] ELSE 0
    IN Clamp(composite
             + On(\E x \in p.exposures : x.verified, "exposure_verified_live")
             + On(p.blast.crown > 0, "reachable_crown_jewel")
             + On(\E x \in p.exposures : IsPublic(x), "publicly_exposed")
             + On(StrongTrustCondition(p.trust), "strong_trust_condition"))
============================================================================
