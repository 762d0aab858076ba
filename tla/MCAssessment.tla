---------------------------- MODULE MCAssessment ----------------------------
(***************************************************************************)
(* Small instances of Assessment, with the weights and the thresholds that *)
(* the repository ships (configs/risk_weights.yaml, configs/config.yaml),  *)
(* but for the warm-up of the anomaly detectors: two events, not fifty.    *)
(***************************************************************************)
EXTENDS Assessment

CONSTANTS I, k1, r1, r2, r3, t1, t2, t3, t4, b1, x1

MCSelf == I

MCWeight == [privilege |-> 22, blast_radius |-> 22, exposure |-> 20, trust |-> 14,
             usage |-> 12, freshness |-> 10]

MCPoints ==
    [admin_or_star |-> 60, wildcard_action |-> 8, wildcard_action_cap |-> 24,
     wildcard_resource |-> 6, wildcard_resource_cap |-> 18,
     priv_escalation_action |-> 20, privilege_creep_p90 |-> 15, write_crown_jewel |-> 20,
     public_repo |-> 80, private_repo_or_ci |-> 45, verified_live |-> 20,
     static_key_no_expiry |-> 20, cred_over_max_age |-> 10,
     unused_stale_window |-> 40, never_used_aged |-> 30, not_rotated |-> 25,
     rotation_unmanaged |-> 15,
     conditionless_assume |-> 40, cross_account |-> 20, wildcard_external |-> 30,
     chain_depth_2plus |-> 15, can_mint_or_impersonate |-> 20,
     crown_jewel_1hop |-> 60, crown_jewel_chain |-> 40, high_crit_each |-> 5,
     high_crit_cap |-> 30, reachable_over_p90 |-> 15, escalate_to_admin |-> 30]

MCBoost == [exposure_verified_live |-> 15, reachable_crown_jewel |-> 10,
            publicly_exposed |-> 10, strong_trust_condition |-> -10]

MCCfg == [stale |-> 90, maxAge |-> 365, rotation |-> 180, warmup |-> 2, maxKmh |-> 900,
          sigma |-> 4]

MCDistance == [p \in {"DE", "IN"} \X {"DE", "IN"} |-> IF p[1] = p[2] THEN 0 ELSE 6600]

Use(t, country, action) ==
    [time |-> t, country |-> country, asn |-> 1, runtime |-> "", action |-> action,
     egress |-> FALSE]

\* Two calls an hour apart from far-away countries, the second a sensitive one.
MCFeed == <<Use(1, "DE", "s3:ListBuckets"), Use(2, "IN", "kms:Decrypt")>>

Identity(seen, created, breakGlass) ==
    [seen |-> seen, created |-> created, rotated |-> NoTime, state |-> "active",
     breakGlass |-> breakGlass, owned |-> FALSE, agent |-> FALSE, broadScope |-> FALSE,
     uncontrolledTools |-> FALSE, ttlHours |-> 0]

NoFeed == <<>>

Stale      == {Identity(120, 400, FALSE)}
BreakGlass == {Identity(120, 400, TRUE)}
NeverUsed  == {Identity(NoTime, 400, FALSE)}

OldKey == [key |-> k1, active |-> TRUE, static |-> TRUE, expires |-> FALSE, used |-> 10,
           age |-> 400]

Owned(level) == [key |-> r1, owned |-> TRUE, level |-> level, wildActs |-> 1,
                 wildRes |-> IF level = "admin" THEN 1 ELSE 0, escalates |-> FALSE,
                 perms |-> 6]
Assumable == [key |-> r2, owned |-> FALSE, level |-> "write", wildActs |-> 0, wildRes |-> 0,
              escalates |-> TRUE, perms |-> 3]

Assume(guards) == [key |-> t1, src |-> I, dst |-> r2, type |-> "can_assume",
                   guards |-> guards, cross |-> FALSE, wild |-> FALSE]

\* A chain of two roles, and a shortcut to the second of them.
First    == [key |-> t2, src |-> I, dst |-> r2, type |-> "can_assume",
             guards |-> {}, cross |-> FALSE, wild |-> FALSE]
Second   == [key |-> t3, src |-> r2, dst |-> r3, type |-> "can_assume",
             guards |-> {}, cross |-> FALSE, wild |-> FALSE]
Shortcut == [key |-> t4, src |-> I, dst |-> r3, type |-> "can_assume",
             guards |-> {"mfa"}, cross |-> FALSE, wild |-> FALSE]

Crown == [key |-> b1, of |-> r2, effect |-> "allow", crit |-> "crown_jewel",
          actions |-> {"s3:PutObject"}]

Leak(verified) == [key |-> x1, pattern |-> "aws", path |-> "env", verified |-> verified]

Only(r, c, t, b, x, n) ==
    [creds |-> c, roles |-> r, bindings |-> b, trust |-> t, exposures |-> x,
     workloads |-> {}, usage |-> n]

MCUniverse == Only({Assumable}, {OldKey},
                   {Assume({}), Assume({"mfa"}), First, Second, Shortcut}, {Crown},
                   {Leak(FALSE), Leak(TRUE)}, 2)
MCGranted  == Only({}, {}, {Assume({"mfa"})}, {}, {}, 2)

\* An identity that may assume a role with a crown jewel; one with a chain of roles, of
\* which a shortcut has yet to be collected; one whose key leaked; one that is only used.
MCEstates == {Only({Assumable}, {}, {Assume({})}, {Crown}, {}, 1),
              Only({}, {}, {First, Second, Shortcut}, {}, {}, 1),
              Only({}, {}, {}, {}, {Leak(FALSE)}, 1),
              Only({}, {}, {}, {}, {}, 2)}

\* What the theorems on the score ask of the weights.
ASSUME OrderedWeights
============================================================================
