------------------------------ MODULE Inventory ------------------------------
(***************************************************************************)
(* Collectors of several providers writing one inventory: the AWS builder  *)
(* (collectors/aws/iam.go), the Kubernetes builder                         *)
(* (collectors/k8s/builder.go) and the GCP builder                         *)
(* (collectors/gcp/builder.go, iam.go), the loop of collectors.Run that    *)
(* upserts their records one statement at a time and goes on after an      *)
(* error, and the ON CONFLICT clauses of the tables they share             *)
(* (store/identity.go, store/misc.go).                                     *)
(*                                                                         *)
(* A principal's id is <<kind, external id>>, what DeterministicID hashes. *)
(* A Kubernetes service account that federates into a cloud principal      *)
(* carries a stub of it, so that its trust edge has an end; the cloud      *)
(* collector writes the same row.  The collectors run concurrently: from   *)
(* cmd/collector and from the worker's collect jobs.  Nothing is deleted.  *)
(*                                                                         *)
(* An installation runs one of Deployments, sets of "aws", "k8s", "gcp".   *)
(* estate[c] says which of Versions[c] the provider holds; it changes at   *)
(* most MaxChanges times.  At most MaxFaults calls fail: a fault is a      *)
(* failed collection, a part of one that is skipped, a failed upsert or a  *)
(* crash of the collector.                                                 *)
(***************************************************************************)
EXTENDS Grants, Functions

CONSTANTS
    Deployments, \* the sets of collectors an installation may run
    Versions,    \* collector -> the states its account may be in, a sequence
    MaxChanges,  \* changes made in the providers
    MaxFaults    \* failed calls

VARIABLES
    estate,      \* collector -> the version its account, cluster or project is in
    batch,       \* collector -> records collected and not yet upserted, or Idle
    identities,  \* external id -> row
    credentials, \* <<type, external id>> -> row
    roles,       \* external id -> row
    trust,       \* [src, dst, type] -> condition
    bindings,    \* <<role, urn>> -> criticality
    workloads,   \* external id -> identity id
    changes, faults

Collectors == UNION Deployments

(* The counts are numbers, and a provider has a state to begin with. *)
ASSUME InventoryAssumption ==
    /\ MaxChanges \in Nat /\ MaxFaults \in Nat
    /\ \A c \in Collectors : 1 \in DOMAIN Versions[c]

(* The collectors of this installation. *)
Running == DOMAIN estate

tables == <<identities, credentials, roles, trust, bindings, workloads>>
vars == <<estate, batch, tables, changes, faults>>

Idle == [identities |-> {}, rest |-> <<>>]

RoleId(ext) == <<"role", ext>>

-----------------------------------------------------------------------------
(* Records.  detailed tells a collected principal from a stub of it; seen is  *)
(* last_seen_at, created is created_at_source, state is the provider's.       *)

Identity(ext, kind, detailed, state, seen) ==
    [ext |-> ext, id |-> <<kind, ext>>, detailed |-> detailed, state |-> state,
     seen |-> seen, created |-> detailed]

(* ensureIdentity with no full record, and ensureCloudStub. *)
Stub(ext, kind) == Identity(ext, kind, FALSE, "active", FALSE)

CredentialRec(type, ext, owner, status) ==
    [table |-> "credential", key |-> <<type, ext>>, refs |-> {owner}, value |-> <<owner, status>>]

RoleRec(ext, owner, analysis) ==
    [table |-> "role", key |-> ext, refs |-> {owner},
     value |-> [owner |-> owner, level |-> analysis.level, escalation |-> analysis.escalation]]

TrustRec(src, dst, type, condition) ==
    [table |-> "trust", key |-> [src |-> src, dst |-> dst, type |-> type],
     refs |-> {src, dst}, value |-> condition]

BindingRecs(ext, analysis) ==
    [i \in DOMAIN analysis.bindings |->
       [table |-> "binding", key |-> <<ext, analysis.bindings[i].urn>>,
        refs |-> {RoleId(ext)}, value |-> analysis.bindings[i].crit]]

WorkloadRec(ext, identity) ==
    [table |-> "workload", key |-> ext, refs |-> {identity}, value |-> identity]

Each(S, Op(_)) == FoldSet(LAMBDA x, acc : acc \o Op(x), <<>>, S)

Result(people, creds, permissionSets, edges, binds, loads) ==
    [identities |-> people, rest |-> creds \o permissionSets \o edges \o binds \o loads]

-----------------------------------------------------------------------------
(* AWS.  An account is [users, roles, tags]; a user is [docs, keys], a role   *)
(* [docs, trust, used], a key [id, status, used].  skipped holds the          *)
(* non-fatal phases that failed: tags, or the listing of access keys.         *)

Keys(user, skipped) == IF "keys" \in skipped THEN <<>> ELSE user.keys

UserId(arn) == <<"aws_iam_user", arn>>
AwsRoleId(arn) == <<"aws_iam_role", arn>>

(* buildRole's edges: service principals are skipped, the last of two grants  *)
(* to one principal is the one that stays in the table.                       *)
Edge(arn, g) ==
    TrustRec(IF g.via = "any" THEN <<"other", "any-principal">> ELSE <<KindFromARN(g.arn), g.arn>>,
             RoleId(arn),
             IF g.via = "federated" THEN "federated_from" ELSE "can_assume",
             g.guards \cup (IF g.via = "any" THEN {"wildcard_principal"} ELSE {}))

Grantees(role) ==
    SelectSeq(ParseTrustPolicy(role.trust), LAMBDA g : g.via # "service")

RoleEdges(account, arn) ==
    LET granted == Grantees(account.roles[arn])
    IN  [i \in DOMAIN granted |-> Edge(arn, granted[i])]

AwsIdentities(account, skipped) ==
    LET users  == {Identity(u, "aws_iam_user", TRUE, "active",
                            \E i \in DOMAIN Keys(account.users[u], skipped) :
                               Keys(account.users[u], skipped)[i].used) :
                     u \in DOMAIN account.users}
        owned  == {Identity(r, "aws_iam_role", TRUE, "active", account.roles[r].used) :
                     r \in DOMAIN account.roles}
        named  == UNION {{RoleEdges(account, r)[i].key.src : i \in DOMAIN RoleEdges(account, r)} :
                           r \in DOMAIN account.roles}
        others == {id \in named : id[2] \notin DOMAIN account.users \cup DOMAIN account.roles}
    IN  users \cup owned \cup {Stub(id[2], id[1]) : id \in others}

AwsAnalysis(account, arn, skipped) ==
    AnalyzePolicies(IF arn \in DOMAIN account.users THEN account.users[arn].docs
                    ELSE account.roles[arn].docs,
                    IF "tags" \in skipped THEN {} ELSE account.tags)

AwsResult(account, skipped) ==
    LET users == DOMAIN account.users
        owned == DOMAIN account.roles
        Creds(u) == [i \in DOMAIN Keys(account.users[u], skipped) |->
                       CredentialRec("aws_access_key", Keys(account.users[u], skipped)[i].id,
                                     UserId(u), Keys(account.users[u], skipped)[i].status)]
        Sets(arn) == <<RoleRec(arn, IF arn \in users THEN UserId(arn) ELSE AwsRoleId(arn),
                               AwsAnalysis(account, arn, skipped))>>
        Binds(arn) == BindingRecs(arn, AwsAnalysis(account, arn, skipped))
    IN  Result(AwsIdentities(account, skipped), Each(users, Creds),
               Each(users, Sets) \o Each(owned, Sets),
               Each(owned, LAMBDA r : RoleEdges(account, r)),
               Each(users, Binds) \o Each(owned, Binds), <<>>)

-----------------------------------------------------------------------------
(* Kubernetes.  A cluster is [accounts, secrets, roles, bindings, pods]:       *)
(* accounts maps a declared service account to [tokens, irsa, wif]             *)
(* (annotations, "" when absent); secrets holds [name, sa], the token secrets; *)
(* roles holds [cluster, name, ns, rules]; bindings holds                      *)
(* [cluster, ref, subjects]; pods maps a pod to its service account.           *)

SaId(sa) == <<"k8s_service_account", sa>>

(* A binding resolved to a set of rules; one that resolves to none is skipped. *)
Resolutions(cluster) ==
    LET found == {b \in cluster.bindings : ResolveRole(b.ref, cluster.roles) # {}}
    IN  {f \in [found -> UNION {ResolveRole(b.ref, cluster.roles) : b \in found}] :
           \A b \in found : f[b] \in ResolveRole(b.ref, cluster.roles)}

(* ensureSA: those declared, and those that only a token secret, a binding to a  *)
(* role that exists, or a pod names.                                             *)
ServiceAccounts(cluster) ==
    DOMAIN cluster.accounts \cup {s.sa : s \in cluster.secrets}
      \cup UNION {b.subjects : b \in {c \in cluster.bindings :
                                        ResolveRole(c.ref, cluster.roles) # {}}}
      \cup {cluster.pods[p] : p \in DOMAIN cluster.pods}

Annotation(cluster, sa, name) ==
    IF sa \in DOMAIN cluster.accounts THEN cluster.accounts[sa][name] ELSE ""

K8sAnalysis(resolved, sa) ==
    AnalyzeEntries({[rules |-> resolved[b], cluster |-> b.cluster] :
                      b \in {x \in DOMAIN resolved : sa \in x.subjects}})

(* Mutant: the stub and the edge are built with another kind. *)
FederationsOfOtherKind(cluster, sa) ==
    {<<"other", arn>> : arn \in {Annotation(cluster, sa, "irsa"), Annotation(cluster, sa, "wif")} \ {""}}

(* The ids of the cloud principals the annotations name. *)
Federations(cluster, sa) ==
    (IF Annotation(cluster, sa, "irsa") = "" THEN {}
     ELSE {AwsRoleId(Annotation(cluster, sa, "irsa"))})
      \cup (IF Annotation(cluster, sa, "wif") = "" THEN {}
            ELSE {<<"gcp_service_account", Annotation(cluster, sa, "wif")>>})

K8sResult(cluster, resolved) ==
    LET sas     == ServiceAccounts(cluster)
        targets == UNION {Federations(cluster, sa) : sa \in sas}
        Token(sa, name) == <<CredentialRec("k8s_sa_token", name, SaId(sa), "active")>>
        Tokens(sa) ==
          LET named == IF sa \in DOMAIN cluster.accounts THEN ToSet(cluster.accounts[sa].tokens)
                       ELSE {}
              held  == {s.name : s \in {t \in cluster.secrets : t.sa = sa}}
          IN  Each(named \cup held, LAMBDA name : Token(sa, name))
        Edges(sa) == Each(Federations(cluster, sa),
                          LAMBDA t : <<TrustRec(SaId(sa), t, "federated_from", {})>>)
    IN  Result({Identity(sa, "k8s_service_account", sa \in DOMAIN cluster.accounts, "active", FALSE) :
                  sa \in sas}
                 \cup {Stub(t[2], t[1]) : t \in targets},
               Each(sas, Tokens),
               Each(sas, LAMBDA sa : <<RoleRec(sa, SaId(sa), K8sAnalysis(resolved, sa))>>),
               Each(sas, Edges),
               Each(sas, LAMBDA sa : BindingRecs(sa, K8sAnalysis(resolved, sa))),
               Each(DOMAIN cluster.pods, LAMBDA p : <<WorkloadRec(p, SaId(cluster.pods[p]))>>))

-----------------------------------------------------------------------------
(* GCP.  A project is [urn, accounts, grants]: accounts maps a service account *)
(* to [state, keys, policy], a key being [id, managed, status] and policy the  *)
(* bindings on the account, [role, members, guarded]; grants is the project's  *)
(* policy, account -> its roles in the order of the policy.                    *)

GcpId(email) == <<"gcp_service_account", email>>

MemberId(m) ==
    <<CASE m.type = "serviceAccount" -> "gcp_service_account"
        [] m.type = "principalSet" -> "workload_identity"
        [] OTHER -> "other", m.id>>

Impersonations(project, email, skipped) ==
    LET policy == IF "policies" \in skipped THEN <<>>
                  ELSE SelectSeq(project.accounts[email].policy,
                                 LAMBDA b : b.role \in ImpersonationRoles \cup FederationRoles)
        EdgeFrom(b, m) ==
          TrustRec(MemberId(m), GcpId(email),
                   IF b.role \in FederationRoles THEN "federated_from" ELSE "can_impersonate",
                   (IF b.guarded THEN {"iam_condition"} ELSE {})
                     \cup (IF m.type = "public" THEN {"wildcard_principal"} ELSE {}))
    IN  FlattenSeq([i \in DOMAIN policy |->
                      Each(policy[i].members, LAMBDA m : <<EdgeFrom(policy[i], m)>>)])

UserManaged(project, email, skipped) ==
    IF "keys" \in skipped THEN <<>>
    ELSE SelectSeq(project.accounts[email].keys, LAMBDA k : k.managed = "user")

GcpResult(project, skipped) ==
    LET emails  == DOMAIN project.accounts
        granted == DOMAIN project.grants
        edges   == Each(emails, LAMBDA e : Impersonations(project, e, skipped))
        named   == {edges[i].key.src : i \in DOMAIN edges} \cup {GcpId(e) : e \in granted}
        others  == {id \in named : id[2] \notin emails}
        Creds(e) == LET keys == UserManaged(project, e, skipped)
                    IN  [i \in DOMAIN keys |->
                           CredentialRec("gcp_sa_key", keys[i].id, GcpId(e), keys[i].status)]
        analysis(e) == AnalyzeRoles(project.grants[e], project.urn)
    IN  Result({[Identity(e, "gcp_service_account", TRUE, project.accounts[e].state, FALSE)
                   EXCEPT !.created = FALSE] : e \in emails}
                 \cup {Stub(id[2], id[1]) : id \in others},
               Each(emails, Creds),
               Each(granted, LAMBDA e : <<RoleRec(e, GcpId(e), analysis(e))>>),
               edges,
               Each(granted, LAMBDA e : BindingRecs(e, analysis(e))), <<>>)

-----------------------------------------------------------------------------
(* The tables.  ON CONFLICT keeps what was inserted first where the clause     *)
(* does not name the column: the id and created_at_source of an identity, the  *)
(* owner of a credential.                                                      *)

Put(f, key, value) == [k \in DOMAIN f \cup {key} |-> IF k = key THEN value ELSE f[k]]

(* Mutant: DO NOTHING on conflict. *)
UpsertIdentityOnce(rows, rec) == IF rec.ext \in DOMAIN rows THEN rows ELSE Put(rows, rec.ext, rec)

UpsertIdentity(rows, rec) ==
    Put(rows, rec.ext,
        IF rec.ext \in DOMAIN rows
        THEN [rec EXCEPT !.id = rows[rec.ext].id, !.created = rows[rec.ext].created]
        ELSE rec)

UpsertCredential(rows, rec) ==
    Put(rows, rec.key,
        IF rec.key \in DOMAIN rows THEN <<rows[rec.key][1], rec.value[2]>> ELSE rec.value)

UpsertRole(rows, rec) == Put(rows, rec.key, rec.value)

UpsertTrust(rows, rec) == Put(rows, rec.key, rec.value)

UpsertBinding(rows, rec) == Put(rows, rec.key, rec.value)

UpsertWorkload(rows, rec) == Put(rows, rec.key, rec.value)

(* The ids a foreign key may name. *)
KnownIds == {identities[e].id : e \in DOMAIN identities} \cup {RoleId(e) : e \in DOMAIN roles}

-----------------------------------------------------------------------------
Init ==
    /\ \E running \in Deployments : /\ estate = [c \in running |-> 1]
                                   /\ batch = [c \in running |-> Idle]
    /\ identities = <<>> /\ credentials = <<>> /\ roles = <<>>
    /\ trust = <<>> /\ bindings = <<>> /\ workloads = <<>>
    /\ changes = 0 /\ faults = 0

(* Someone edits the account, the cluster or the project. *)
Change(c) ==
    /\ changes < MaxChanges
    /\ changes' = changes + 1
    /\ \E v \in DOMAIN Versions[c] \ {estate[c]} : estate' = [estate EXCEPT ![c] = v]
    /\ UNCHANGED <<batch, tables, faults>>

Skippable(c) == CASE c = "aws" -> {"tags", "keys"}
                  [] c = "gcp" -> {"keys", "policies"}
                  [] OTHER -> {}

Snapshot == UNION {{<<c, v>> : v \in DOMAIN Versions[c]} : c \in Collectors}

(* What a collection of an account, cluster or project may return. *)
ResultsOf(c, held, skipped) ==
    CASE c = "aws" -> {AwsResult(held, skipped)}
      [] c = "gcp" -> {GcpResult(held, skipped)}
      [] OTHER -> {K8sResult(held, resolved) : resolved \in Resolutions(held)}

(* Nothing, or one part: those are the failures of a collection. *)
Skips(c) == {{}} \cup {{p} : p \in Skippable(c)}

(* ResultsOf as a table: TLC evaluates it once. *)
Outcomes ==
    [s \in Snapshot |->
       [skipped \in Skips(s[1]) |-> ResultsOf(s[1], Versions[s[1]][s[2]], skipped)]]

(* Collect returns; a phase that is not fatal may be missing from the result. *)
Collect(c) ==
    /\ batch[c] = Idle
    /\ \E skipped \in Skips(c) :
         /\ faults + Cardinality(skipped) <= MaxFaults
         /\ faults' = faults + Cardinality(skipped)
         /\ \E result \in Outcomes[<<c, estate[c]>>][skipped] :
              batch' = [batch EXCEPT ![c] = result]
    /\ UNCHANGED <<estate, tables, changes>>

(* The collection or the process of the collector fails: what was upserted     *)
(* stays, the rest of the batch is lost.                                       *)
Abort(c) ==
    /\ faults < MaxFaults
    /\ batch[c] # Idle
    /\ faults' = faults + 1
    /\ batch' = [batch EXCEPT ![c] = Idle]
    /\ UNCHANGED <<estate, tables, changes>>

(* Identities come first, in the order of a Go map. *)
StoreIdentity(c) ==
    \E rec \in batch[c].identities :
      /\ batch' = [batch EXCEPT ![c].identities = @ \ {rec}]
      /\ identities' = UpsertIdentity(identities, rec)
      /\ UNCHANGED <<estate, credentials, roles, trust, bindings, workloads, changes, faults>>

Write(rec) ==
    /\ credentials' = IF rec.table = "credential" THEN UpsertCredential(credentials, rec)
                      ELSE credentials
    /\ roles' = IF rec.table = "role" THEN UpsertRole(roles, rec) ELSE roles
    /\ trust' = IF rec.table = "trust" THEN UpsertTrust(trust, rec) ELSE trust
    /\ bindings' = IF rec.table = "binding" THEN UpsertBinding(bindings, rec) ELSE bindings
    /\ workloads' = IF rec.table = "workload" THEN UpsertWorkload(workloads, rec) ELSE workloads

(* Mutant: no foreign key refuses a row. *)
StoreNextUnchecked(c) ==
    /\ batch[c].identities = {}
    /\ batch[c].rest # <<>>
    /\ batch' = [batch EXCEPT ![c].rest = Tail(@)]
    /\ Write(Head(batch[c].rest))
    /\ UNCHANGED <<estate, identities, changes, faults>>

(* The next record: written, or refused by a foreign key, which is logged. *)
StoreNext(c) ==
    /\ batch[c].identities = {}
    /\ batch[c].rest # <<>>
    /\ batch' = [batch EXCEPT ![c].rest = Tail(@)]
    /\ IF Head(batch[c].rest).refs \subseteq KnownIds
       THEN Write(Head(batch[c].rest))
       ELSE UNCHANGED <<credentials, roles, trust, bindings, workloads>>
    /\ UNCHANGED <<estate, identities, changes, faults>>

(* An upsert fails and the loop goes on with the next record. *)
StoreFails(c) ==
    /\ faults < MaxFaults
    /\ faults' = faults + 1
    /\ \/ \E rec \in batch[c].identities :
            batch' = [batch EXCEPT ![c].identities = @ \ {rec}]
       \/ /\ batch[c].identities = {}
          /\ batch[c].rest # <<>>
          /\ batch' = [batch EXCEPT ![c].rest = Tail(@)]
    /\ UNCHANGED <<estate, tables, changes>>

Proceed(c) == Collect(c) \/ StoreIdentity(c) \/ StoreNext(c)

Next == \E c \in Running : Proceed(c) \/ Change(c) \/ Abort(c) \/ StoreFails(c)

Spec == Init /\ [][Next]_vars

(* The scheduler starts every collector again and again, and one that has      *)
(* started goes on; providers need not change and calls need not fail.         *)
FairSpec == Spec /\ \A c \in Collectors : WF_vars(c \in Running /\ Proceed(c))

-----------------------------------------------------------------------------
(* Properties. *)

(* Every row has the shape its table gives it: a level and a criticality the   *)
(* enumerations know, a reference that names a row.                            *)
TypeOK ==
    /\ \A e \in DOMAIN identities :
         /\ identities[e].id[2] = e
         /\ identities[e].state \in {"active", "disabled"}
         /\ {identities[e].detailed, identities[e].seen, identities[e].created} \subseteq BOOLEAN
    /\ \A k \in DOMAIN credentials : credentials[k][1] \in KnownIds
    /\ \A e \in DOMAIN roles : /\ roles[e].level \in DOMAIN LevelRank
                               /\ roles[e].owner \in KnownIds
    /\ \A k \in DOMAIN trust : {k.src, k.dst} \subseteq KnownIds
    /\ \A k \in DOMAIN bindings : /\ RoleId(k[1]) \in KnownIds
                                  /\ bindings[k] \in DOMAIN CriticalityRank
    /\ \A w \in DOMAIN workloads : workloads[w] \in KnownIds
    /\ changes \in 0 .. MaxChanges /\ faults \in 0 .. MaxFaults

(* A record that Collect may return: an identity, and a row of another table that *)
(* refers to what its table's foreign keys name, with a level or criticality that *)
(* the enumerations know.                                                         *)
IsIdentity(rec) ==
    /\ rec = [Identity(rec.ext, rec.id[1], rec.detailed, rec.state, rec.seen)
                 EXCEPT !.created = rec.created]
    /\ rec.state \in {"active", "disabled"}
    /\ {rec.detailed, rec.seen, rec.created} \subseteq BOOLEAN

IsRow(rec) ==
    /\ rec.table = "credential" => rec.value[1] \in rec.refs
    /\ rec.table = "role" => rec.value.owner \in rec.refs /\ rec.value.level \in DOMAIN LevelRank
    /\ rec.table = "trust" => {rec.key.src, rec.key.dst} \subseteq rec.refs
    /\ rec.table = "binding" =>
         RoleId(rec.key[1]) \in rec.refs /\ rec.value \in DOMAIN CriticalityRank
    /\ rec.table = "workload" => rec.value \in rec.refs

IsBatch(b) ==
    /\ b = [identities |-> b.identities, rest |-> b.rest]
    /\ b.rest \in Seq(Range(b.rest))
    /\ \A rec \in b.identities : IsIdentity(rec)
    /\ \A rec \in Range(b.rest) : IsRow(rec)

(* What the builders make of every version is such a batch.  MCInventory evaluates *)
(* it; it is the hypothesis of the theorem on TypeOK, as the builders loop over    *)
(* sets and sequences of any size.                                                 *)
BuildersAgree ==
    \A s \in Snapshot : \A skipped \in Skips(s[1]) :
       \A result \in Outcomes[s][skipped] : IsBatch(result)

ActionLevel(a) == Level(IsAdmin(a), a \in PrivEscalationActions, IsWriteAction(a))

RuleLevel(r, cluster) ==
    Level(cluster /\ IsAll(r), Escalates(r) \/ ExecsPods(r) \/ IsAll(r),
          Meets(r.verbs, {"*"} \cup WriteVerbs))

RoleLevel(role) ==
    Level(role \in AdminRoles, role \in EscalationRoles, role \in WriteRoles)

Holders(c, held) ==
    CASE c = "aws" -> DOMAIN held.users \cup DOMAIN held.roles
      [] c = "gcp" -> DOMAIN held.grants
      [] OTHER -> ServiceAccounts(held)

(* The levels the grants of a version justify, grant by grant: one of AWS and   *)
(* GCP, one per resolution of Kubernetes.                                       *)
LevelsOf(c, held, ext) ==
    LET Strongest(levels) == Highest(LevelRank, {"read"} \cup levels)
    IN  CASE c = "aws" ->
               LET docs == Allows(IF ext \in DOMAIN held.users THEN held.users[ext].docs
                                  ELSE held.roles[ext].docs)
               IN  {Strongest({ActionLevel(a) : a \in UNION {docs[i].actions : i \in DOMAIN docs}})}
          [] c = "gcp" -> {Strongest({RoleLevel(r) : r \in ToSet(held.grants[ext])})}
          [] OTHER ->
               {Strongest(UNION {{RuleLevel(r, b.cluster) : r \in f[b]} :
                                   b \in {x \in DOMAIN f : ext \in x.subjects}}) :
                  f \in Resolutions(held)}

GrantedLevels ==
    UNION {{[of |-> s, ext |-> ext, levels |-> LevelsOf(s[1], Versions[s[1]][s[2]], ext)] :
              ext \in Holders(s[1], Versions[s[1]][s[2]])} : s \in Snapshot}

IsCurrent(s) == s[1] \in Running /\ estate[s[1]] = s[2]

(* Once the providers stop changing and calls stop failing, the level stored    *)
(* for every principal is and stays the strongest of what it is granted:        *)
(* whatever the collectors' order, a record lost half way or a collection that  *)
(* was missing a part (policy.go, rbac.go, roles.go, RoleRepo.Upsert).          *)
LevelsConverge ==
    <>[](\A g \in GrantedLevels :
           IsCurrent(g.of) => /\ g.ext \in DOMAIN roles
                              /\ roles[g.ext].level \in g.levels)

(* The service accounts of a version of the cluster, each with a cloud principal  *)
(* it federates into and the version of a cloud account that lists the principal. *)
FederatedPairs ==
    UNION {UNION {{[of |-> s, sa |-> sa, target |-> g.ext, listed |-> g.of] :
                     g \in {x \in GrantedLevels :
                              x.ext \in {t[2] : t \in Federations(Versions["k8s"][s[2]], sa)}}} :
                    sa \in ServiceAccounts(Versions["k8s"][s[2]])} :
             s \in {x \in Snapshot : x[1] = "k8s"}}

(* In whatever order the Kubernetes and the cloud collectors first run, the pod's *)
(* service account ends up with an edge to the row of the cloud principal, and    *)
(* that row owns the principal's permission set: the path from a pod into the     *)
(* cloud (ensureCloudStub, DeterministicID and the conflict clauses agree).       *)
FederationConnects ==
    <>[](\A f \in FederatedPairs :
           IsCurrent(f.of) /\ IsCurrent(f.listed) =>
             /\ {f.sa, f.target} \subseteq DOMAIN identities
             /\ [src |-> identities[f.sa].id, dst |-> identities[f.target].id,
                 type |-> "federated_from"] \in DOMAIN trust
             /\ f.target \in DOMAIN roles
             /\ roles[f.target].owner = identities[f.target].id)

(* The principals a version of a cloud account lists, each with its state.         *)
Listed ==
    UNION {LET held == Versions[s[1]][s[2]]
           IN  IF s[1] = "gcp"
               THEN {[of |-> s, ext |-> e, state |-> held.accounts[e].state] :
                       e \in DOMAIN held.accounts}
               ELSE {[of |-> s, ext |-> e, state |-> "active"] : e \in Holders(s[1], held)} :
             s \in {x \in Snapshot : x[1] # "k8s"}}

(* A stub a Kubernetes run writes over a collected cloud principal does not last: *)
(* again and again the row is the collected one, with the provider's state.       *)
CollectedRowReturns ==
    \A p \in Listed :
      []<>(IsCurrent(p.of) => /\ p.ext \in DOMAIN identities
                              /\ identities[p.ext].detailed
                              /\ identities[p.ext].state = p.state)

(* The criticality of each binding the grants of a cloud account justify.         *)
GrantedCriticality ==
    UNION {LET held == Versions[s[1]][s[2]]
               Bound(ext) == IF s[1] = "aws" THEN AwsAnalysis(held, ext, {}).bindings
                             ELSE AnalyzeRoles(held.grants[ext], held.urn).bindings
           IN  UNION {{[of |-> s, key |-> <<ext, Bound(ext)[i].urn>>, crit |-> Bound(ext)[i].crit] :
                         i \in DOMAIN Bound(ext)} : ext \in Holders(s[1], held)} :
             s \in {x \in Snapshot : x[1] # "k8s"}}

(* The documents' claim: once collections succeed and nothing changes, a binding  *)
(* to a resource is as critical as the strongest grant that reaches it            *)
(* (BindingRepo.Upsert, one row for each role and resource).                      *)
CriticalityIsKept ==
    <>[](\A g \in GrantedCriticality :
           IsCurrent(g.of) => /\ g.key \in DOMAIN bindings
                              /\ CriticalityRank[bindings[g.key]] >= CriticalityRank[g.crit])
=============================================================================
