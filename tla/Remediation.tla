---------------------------- MODULE Remediation ----------------------------
(***************************************************************************)
(* internal/remediate: the actions recommended for a finding, each with    *)
(* the change to the posture that is taken to be its effect, and the table *)
(* of actions that the worker refreshes and the operator works through.    *)
(***************************************************************************)
EXTENDS RiskScore

NoBlast == [reachable |-> 0, high |-> 0, crown |-> 0, nearest |-> 0, admin |-> FALSE]

----------------------------------------------------------------------------
\* The mutations.
ClearKeys(p) == [p EXCEPT !.creds = {}]

ClearExposuresAndKeys(p) == [p EXCEPT !.exposures = {}, !.creds = {}]

Decommission(p) ==
    [p EXCEPT !.roles = {}, !.bindings = {}, !.creds = {}, !.exposures = {},
              !.trust = {}, !.blast = NoBlast]

LeastPrivilege(p) ==
    [p EXCEPT
        !.roles = {[r EXCEPT !.wildActs = 0, !.wildRes = 0] :
                      r \in {q \in p.roles : ~IsAdmin(q)}},
        !.bindings = {b \in p.bindings : b.crit # "crown_jewel"},
        !.blast = NoBlast]

GuardTrust(p) ==
    [p EXCEPT !.trust = {[t EXCEPT !.guards = {"mfa", "external_id"}] : t \in p.trust}]

BreakTrust(p) == [p EXCEPT !.trust = {}, !.blast = NoBlast]

----------------------------------------------------------------------------
\* catalog: what is recommended for a detector's findings.
Catalog ==
    [secret_exposed_in_repo    |-> {"rotate", "revoke"},
     stale_access_key          |-> {"disable_key", "revoke"},
     stale_identity            |-> {"remove_identity"},
     orphaned_identity         |-> {"remove_identity"},
     over_privileged_sa        |-> {"reduce_scope"},
     privilege_creep           |-> {"reduce_scope"},
     conditionless_assume_role |-> {"add_condition", "break_trust"},
     wildcard_trust            |-> {"break_trust", "add_condition"},
     high_blast_radius         |-> {"reduce_scope", "break_trust"},
     ai_agent_overscoped       |-> {"reduce_scope", "shorten_ttl"},
     impossible_travel         |-> {"require_mfa"},
     unusual_geo               |-> {"require_mfa"},
     first_use_sensitive_action |-> {"require_mfa"},
     usage_spike               |-> {"require_mfa"}]

Fixes == UNION {Catalog[d] : d \in DOMAIN Catalog}

\* new_asn_or_runtime, suspicious_role_chain and unused_secret have no entry.
Plans(detector) == IF detector \in DOMAIN Catalog THEN Catalog[detector] ELSE {}

Mutate(action, p) ==
    CASE action = "rotate"          -> ClearExposuresAndKeys(p)
      [] action \in {"revoke", "disable_key"} -> ClearKeys(p)
      [] action = "remove_identity" -> Decommission(p)
      [] action = "reduce_scope"    -> LeastPrivilege(p)
      [] action = "add_condition"   -> GuardTrust(p)
      [] action = "break_trust"     -> BreakTrust(p)

\* Recommend: the score with the fix applied; a fix with no mutation keeps it.
After(action, p, current) ==
    IF action \in {"shorten_ttl", "require_mfa"} THEN {current}
    ELSE Composites(Mutate(action, p))

Delta(before, after) == IF before > after THEN before - after ELSE 0

----------------------------------------------------------------------------
\* RemediationRepo, over rows: a function from <<finding id, action>> to a row.
UpsertAction(rows, id, action, before, after) ==
    LET k == <<id, action>>
        status == IF k \in DOMAIN rows THEN rows[k].status ELSE "recommended"
        row == [status |-> status, before |-> before, after |-> after,
                delta |-> Delta(before, after)]
    IN [i \in DOMAIN rows \cup {k} |-> IF i = k THEN row ELSE rows[i]]

UpdateActionStatus(rows, k, status) == [rows EXCEPT ![k].status = status]
============================================================================
