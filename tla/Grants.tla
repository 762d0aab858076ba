------------------------------- MODULE Grants -------------------------------
(***************************************************************************)
(* How the collectors classify what a provider grants: AWS policy          *)
(* statements (collectors/aws/policy.go, tags.go, trust.go), Kubernetes    *)
(* RBAC rules (collectors/k8s/rbac.go) and GCP role names                  *)
(* (collectors/gcp/roles.go).  Every classification returns a privilege    *)
(* level, an escalation flag and the resource bindings, in the order the   *)
(* code appends them.                                                      *)
(*                                                                         *)
(* An AWS action is [svc, verb, on], "s3:PutObject" being s3, put, object; *)
(* svc = "*" is the action "*" or "*:*" and verb = "*" is "<svc>:*".  A    *)
(* resource pattern is a name, and Reached says which tagged resources it  *)
(* covers (globMatch and the parent-prefix rule of resourceReaches).  A    *)
(* document that does not decode contributes no statement.                 *)
(***************************************************************************)
EXTENDS Integers, Sequences, FiniteSets, SequencesExt

CONSTANTS
    Reached,     \* resource pattern -> the tagged resources it covers
    UserARNs,    \* the ARNs with ":user/" in them
    RoleARNs     \* the ARNs with ":role/" in them

LevelRank == [read |-> 0, write |-> 1, privileged |-> 2, admin |-> 3]

CriticalityRank == [low |-> 0, medium |-> 1, high |-> 2, crown_jewel |-> 3]

(* Mutant: the escalation flag is tested before the admin one. *)
LevelEscalationFirst(admin, escalates, writes) ==
    IF escalates THEN "privileged"
    ELSE IF admin THEN "admin"
    ELSE IF writes THEN "write" ELSE "read"

(* The switch that ends all three classifications. *)
Level(admin, escalates, writes) ==
    IF admin THEN "admin"
    ELSE IF escalates THEN "privileged"
    ELSE IF writes THEN "write" ELSE "read"

Highest(rank, S) == CHOOSE x \in S : \A y \in S : rank[y] <= rank[x]

-----------------------------------------------------------------------------
(* AWS permission policies. *)

PrivEscalationActions ==
    {[svc |-> "iam", verb |-> v, on |-> o] : v \in {"attach", "put"},
                                              o \in {"userpolicy", "grouppolicy", "rolepolicy"}}
      \cup {[svc |-> "iam", verb |-> "create", on |-> o] :
              o \in {"accesskey", "loginprofile", "policyversion"}}
      \cup {[svc |-> "iam", verb |-> "update", on |-> o] : o \in {"loginprofile", "assumerolepolicy"}}
      \cup {[svc |-> s[1], verb |-> s[2], on |-> s[3]] :
              s \in {<<"iam", "set", "defaultpolicyversion">>, <<"iam", "pass", "role">>,
                     <<"sts", "assume", "role">>, <<"lambda", "create", "function">>,
                     <<"lambda", "update", "functioncode">>, <<"lambda", "invoke", "function">>,
                     <<"glue", "create", "devendpoint">>, <<"cloudformation", "create", "stack">>,
                     <<"datapipeline", "create", "pipeline">>, <<"ec2", "run", "instances">>}}

DataServices ==
    {"s3", "dynamodb", "rds", "kms", "secretsmanager", "ssm", "redshift", "es"}

IsFull(a) == a.svc = "*"

IsAdmin(a) == IsFull(a) \/ (a.svc = "iam" /\ a.verb = "*")

IsWriteAction(a) ==
    \/ IsFull(a)
    \/ a.verb \in {"*", "put", "create", "delete", "update", "write", "modify",
                   "attach", "set", "remove", "terminate"}

(* actionCriticality: never above high, a crown jewel is declared by a tag. *)
ActionCriticality(a, resources) ==
    IF IsAdmin(a) \/ (a.svc \in DataServices /\ "*" \in ToSet(resources)) THEN "high"
    ELSE IF a.svc \in DataServices /\ IsWriteAction(a) THEN "medium" ELSE "low"

ActionsCoverService(actions, svc) == \E a \in actions : IsFull(a) \/ a.svc = svc

(* criticalityFor: the highest tag among the resources the binding reaches. *)
CriticalityFor(tags, pattern, actions) ==
    Highest(CriticalityRank,
            {"low"} \cup {t.crit : t \in {x \in tags : /\ ActionsCoverService(actions, x.svc)
                                                       /\ x.arn \in Reached[pattern]}})

StatementBindings(st, tags) ==
    LET inferred == Highest(CriticalityRank,
                            {"low"} \cup {ActionCriticality(a, st.resources) : a \in st.actions})
    IN  [i \in DOMAIN st.resources |->
           [urn  |-> st.resources[i],
            crit |-> Highest(CriticalityRank,
                             {inferred, CriticalityFor(tags, st.resources[i], st.actions)})]]

Allows(statements) == SelectSeq(statements, LAMBDA st : st.effect = "Allow")

AnalyzePolicies(statements, tags) ==
    LET allowed  == Allows(statements)
        actions  == UNION {allowed[i].actions : i \in DOMAIN allowed}
        escalate == actions \cap PrivEscalationActions # {}
    IN  [escalation |-> escalate,
         level |-> Level(\E a \in actions : IsAdmin(a), escalate,
                         \E a \in actions : IsWriteAction(a)),
         bindings |-> FlattenSeq([i \in DOMAIN allowed |-> StatementBindings(allowed[i], tags)])]

-----------------------------------------------------------------------------
(* AWS trust policies: one grant per principal of an Allow statement, in    *)
(* order.  Service principals are parsed and later skipped.                 *)

StatementGrants(st) ==
    [i \in DOMAIN st.principals |->
       [arn |-> st.principals[i].arn, via |-> st.principals[i].via, guards |-> st.guards]]

ParseTrustPolicy(statements) ==
    LET allowed == Allows(statements)
    IN  FlattenSeq([i \in DOMAIN allowed |-> StatementGrants(allowed[i])])

KindFromARN(arn) ==
    CASE arn \in UserARNs -> "aws_iam_user"
      [] arn \in RoleARNs -> "aws_iam_role"
      [] OTHER -> "other"

-----------------------------------------------------------------------------
(* Kubernetes RBAC.  An entry is [rules, cluster]: the rules a binding       *)
(* grants and whether the binding is a ClusterRoleBinding.                   *)

EscalationVerbs == {"bind", "escalate", "impersonate"}
RbacResources   == {"roles", "clusterroles", "rolebindings", "clusterrolebindings"}
WriteVerbs      == {"create", "update", "patch", "delete", "deletecollection"}
ReadVerbs       == {"get", "list", "watch"}

Meets(names, wanted) == names \cap wanted # {}

IsAll(r) == "*" \in r.groups /\ "*" \in r.resources /\ "*" \in r.verbs

ReadsSecrets(r) == Meets(r.resources, {"*", "secrets"}) /\ Meets(r.verbs, {"*"} \cup ReadVerbs)

Escalates(r) ==
    \/ ReadsSecrets(r)
    \/ Meets(r.verbs, EscalationVerbs)
    \/ /\ Meets(r.groups, {"*", "rbac.authorization.k8s.io"})
       /\ Meets(r.resources, {"*"} \cup RbacResources)
       /\ Meets(r.verbs, {"*"} \cup WriteVerbs)

ExecsPods(r) == Meets(r.resources, {"pods/exec", "pods/attach"})

BindingIf(holds, urn, crit) == IF holds THEN <<[urn |-> urn, crit |-> crit]>> ELSE <<>>

AnalyzeEntries(entries) ==
    LET rules(scope) == UNION {e.rules : e \in {x \in entries : x.cluster = scope}}
        all          == rules(TRUE) \cup rules(FALSE)
        clusterAdmin == \E r \in rules(TRUE) : IsAll(r)
        secretsAll   == \E r \in rules(TRUE) : ReadsSecrets(r)
        secretsHere  == \E r \in rules(FALSE) : ReadsSecrets(r)
        exec         == \E r \in all : ExecsPods(r)
        escalation   == \E r \in all : Escalates(r)
        strong       == escalation \/ exec \/ \E r \in rules(FALSE) : IsAll(r)
        writes       == \E r \in all : Meets(r.verbs, {"*"} \cup WriteVerbs)
    IN  [escalation |-> escalation,
         level |-> Level(clusterAdmin, strong, writes),
         bindings |-> BindingIf(clusterAdmin, "k8s:*", "crown_jewel")
                        \o BindingIf(secretsAll, "k8s:cluster:secrets", "crown_jewel")
                        \o BindingIf(secretsHere /\ ~secretsAll, "k8s:namespace:secrets", "high")
                        \o BindingIf(exec, "k8s:pods:exec", "high")]

Rule(groups, resources, verbs) == [groups |-> groups, resources |-> resources, verbs |-> verbs]

(* builtinRules: what a well-known role grants when the snapshot lacks it. *)
BuiltinRules(name) ==
    CASE name = "cluster-admin" -> {{Rule({"*"}, {"*"}, {"*"})}}
      [] name \in {"admin", "edit"} ->
           {{Rule({"*"}, {"*"}, {"create", "update", "patch", "delete"} \cup ReadVerbs),
             Rule({""}, {"secrets"}, ReadVerbs)}}
      [] name = "view" -> {{Rule({"*"}, {"*"}, ReadVerbs)}}
      [] OTHER -> {}

(* resolveRole: the rule sets a reference may resolve to.  A namespaced     *)
(* reference is matched by name alone, over a Go map, so a Role of the      *)
(* same name in another namespace may be taken instead.                     *)
ResolveRole(ref, declared) ==
    LET named == {r \in declared : r.cluster = ref.cluster /\ r.name = ref.name}
    IN  IF named # {} THEN {r.rules : r \in named} ELSE BuiltinRules(ref.name)

-----------------------------------------------------------------------------
(* GCP roles.  A role is known by its name; each table holds the names the   *)
(* code's map lists or its substring test accepts, among the names modelled. *)

EscalationRoles ==
    {"roles/owner", "roles/iam.securityAdmin", "roles/iam.serviceAccountTokenCreator",
     "roles/iam.serviceAccountUser", "roles/iam.serviceAccountKeyAdmin", "roles/iam.roleAdmin"}

ImpersonationRoles ==
    {"roles/iam.serviceAccountTokenCreator", "roles/iam.serviceAccountUser",
     "roles/iam.serviceAccountKeyAdmin", "roles/owner", "roles/editor"}

FederationRoles == {"roles/iam.workloadIdentityUser"}

AdminRoles ==
    {"roles/owner", "roles/editor", "roles/storage.admin", "roles/iam.securityAdmin",
     "roles/iam.serviceAccountKeyAdmin", "roles/iam.roleAdmin"}

(* objectCreator is not among them: no substring of it is on the code's list. *)
WriteRoles == AdminRoles \cup {"roles/bigquery.dataEditor", "roles/pubsub.publisher"}

DataRoles ==
    {"roles/storage.admin", "roles/storage.objectViewer", "roles/storage.objectCreator",
     "roles/bigquery.dataEditor", "roles/pubsub.publisher"}

RoleCriticality(role) ==
    CASE role \in AdminRoles ->
           IF role = "roles/owner" \/ role \in DataRoles THEN "crown_jewel" ELSE "high"
      [] role \in WriteRoles \ AdminRoles -> IF role \in DataRoles THEN "high" ELSE "medium"
      [] OTHER -> "low"

AnalyzeRoles(grants, urn) ==
    LET names == ToSet(grants)
        escal == Meets(names, EscalationRoles)
    IN  [escalation |-> escal,
         level |-> Level(Meets(names, AdminRoles), escal, Meets(names, WriteRoles)),
         bindings |-> [i \in DOMAIN grants |-> [urn |-> urn, crit |-> RoleCriticality(grants[i])]]]
=============================================================================
