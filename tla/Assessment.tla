----------------------------- MODULE Assessment ----------------------------
(***************************************************************************)
(* The worker's graph, score and detect jobs over one identity, beside the *)
(* collectors that fill its tables and the operator who works through the  *)
(* recommended actions.  Each job reads the tables one query at a time,    *)
(* while rows arrive; a query that fails is taken to have returned no row, *)
(* and a graph that cannot be loaded to reach nothing.  Collectors upsert: *)
(* nothing deletes the row of what is gone from the provider.              *)
(***************************************************************************)
EXTENDS Detectors, Remediation

CONSTANTS
    Self,         \* the identity, as a node of the graph
    Identities,   \* the rows of identities to try
    Universe,     \* by table, the rows a collector may write
    Granted,      \* by table, those that the provider may come to hold later
    Estates,      \* by table, what the provider may hold at first
    Feed,         \* the usage events, in the order in which they happen
    Known,        \* the keys of the rows that were collected before
    KnownEvents,  \* how many events of Feed were
    PeerPerms,    \* PeerPermissionP90
    PeerReach,    \* ReachableCountP90
    Decisions,    \* the statuses that the operator gives to actions
    MaxHops,      \* blastMaxHops
    MaxEvents     \* bound on what happens besides the worker's and the collectors'
                  \* work: changes in the provider, failures, the operator's decisions

Tables == {"creds", "roles", "bindings", "trust", "exposures", "workloads"}

\* The queries of runScoring and of runDetection, in the order of the code.
ScoreReads  == <<"creds", "roles", "bindings", "trust", "exposures">>
DetectReads == ScoreReads \o <<"workloads", "usage">>

ASSUME AssessmentAssumption ==
    /\ \A e \in Estates : /\ DOMAIN e = Tables \cup {"usage"}
                          /\ \A t \in Tables : e[t] \subseteq Universe[t]
                          /\ e.usage \in 0..Len(Feed)
    /\ \A t \in Tables : IsFiniteSet(Universe[t]) /\ Granted[t] \subseteq Universe[t]
    /\ \A r \in Universe["roles"] :
          /\ {"level", "wildActs", "wildRes", "escalates", "perms"} \subseteq DOMAIN r
          /\ {r.wildActs, r.wildRes, r.perms} \subseteq Nat
    /\ \A u \in Universe["trust"] : {"type", "guards", "cross", "wild"} \subseteq DOMAIN u
    /\ Feed \in Seq(ToSet(Feed))
    /\ {MaxHops, MaxEvents, PeerPerms, PeerReach, KnownEvents} \subseteq Nat
    /\ ValidWeights(Weight)

VARIABLES
    ident,      \* the row of identities, but for the score
    estate,     \* by table, what the provider holds, and how much of Feed has happened
    rows,       \* by table, what is stored
    ever,       \* by table, every version of a row that was ever stored
    usage,      \* how many events of Feed are stored
    graph,      \* the rows projected into graph_nodes and graph_edges
    phase,      \* where the worker is
    read,       \* what the running job has read so far
    todo,       \* the queries it still makes
    pending,    \* the findings it still stores
    score,      \* identities.risk_score
    urgency,    \* identities.urgency
    findings,   \* by fingerprint, the latest row: its number and whether it is open
    actions,    \* remediation_actions
    events      \* how much of MaxEvents is used up

worker == <<phase, read, todo, pending>>
scores == <<score, urgency>>
tables == <<ident, estate, rows, ever, usage>>
vars == <<tables, graph, worker, scores, findings, actions, events>>

----------------------------------------------------------------------------
Keys(S) == {i.key : i \in S}

\* INSERT ... ON CONFLICT: an exposure that is there is left as it is.
UpsertRow(t, i) ==
    IF t = "exposures" /\ i.key \in Keys(rows[t]) THEN rows[t]
    ELSE {j \in rows[t] : j.key # i.key} \cup {i}

Assumed(r) == {t.dst : t \in {u \in r["trust"] : u.src = Self}}

\* ForIdentity, table by table.  Roles are those it owns or may assume; bindings
\* are its own and those of the roles it may assume, not of the roles it owns.
ForIdentity(t, r) ==
    CASE t = "roles"    -> {i \in r[t] : i.owned \/ i.key \in Assumed(r)}
      [] t = "bindings" -> {i \in r[t] : i.of \in {Self} \cup Assumed(r)}
      [] t = "trust"    -> {i \in r[t] : Self \in {i.src, i.dst}}
      [] OTHER          -> r[t]

\* List does not select created_at_source, last_rotated_at and owner_id.
Listed(i) == [i EXCEPT !.created = NoTime, !.rotated = NoTime, !.owned = FALSE]

----------------------------------------------------------------------------
\* The projected graph: see GraphEngine for the traversal itself.
Edges(g) ==
    {<<Self, r.key>> : r \in {q \in g["roles"] : q.owned}}
    \cup {<<t.src, t.dst>> : t \in g["trust"]}
    \cup {<<b.of, b.key>> : b \in {c \in g["bindings"] : c.crit # "low"}}

Pivots(g) == {<<t.src, t.dst>> : t \in g["trust"]}

\* The nodes within n hops of the identity.
Within(E) ==
    LET near[n \in 0..MaxHops] ==
            IF n = 0 THEN {Self}
            ELSE UNION {{x} \cup {e[2] : e \in {d \in E : d[1] = x}} : x \in near[n-1]}
    IN near

Hops(x, near) == Min({n \in 0..MaxHops : x \in near[n]})

BlastOf(g) ==
    LET near == Within(Edges(g))
        res  == {b \in g["bindings"] : b.crit # "low" /\ b.key \in near[MaxHops]}
        crown == {b \in res : b.crit = "crown_jewel"}
    IN [reachable |-> Cardinality(Keys(res)),
        high      |-> Cardinality(Keys({b \in res : b.crit = "high"})),
        crown     |-> Cardinality(Keys(crown)),
        nearest   |-> IF crown = {} THEN -1 ELSE Min({Hops(b.key, near) : b \in crown}),
        admin     |-> \E r \in g["roles"] : IsAdmin(r) /\ r.key \in near[MaxHops]]

DepthOf(g) ==
    LET near == Within(Pivots(g)) IN Max({Hops(x, near) : x \in near[MaxHops]})

\* AttackPaths, up to its limit of five: no instance has more targets.
PathsOf(g) ==
    LET near   == Within(Edges(g))
        held   == Within(Edges(g) \ Pivots(g))
        Path(x, impact) ==
            [impact |-> impact, hops |-> Hops(x, near),
             pivots |-> IF x \in held[Hops(x, near)] THEN 0 ELSE 1]
    IN {Path(r.key, "crown_jewel") :
           r \in {q \in g["roles"] : IsAdmin(q) /\ q.key \in near[MaxHops]}}
       \cup {Path(b.key, b.crit) :
           b \in {c \in g["bindings"] : /\ c.crit \in {"crown_jewel", "high"}
                                        /\ c.key \in near[MaxHops]}}

----------------------------------------------------------------------------
NoRows == [t \in Tables |-> {}]

\* risk.Input and detect.Subject, from an identity, the rows read and the graph.
SubjectOf(i, r, g, n) ==
    [seen |-> i.seen, created |-> i.created, rotated |-> i.rotated,
     state |-> i.state, breakGlass |-> i.breakGlass, owned |-> i.owned,
     agent |-> i.agent, broadScope |-> i.broadScope,
     uncontrolledTools |-> i.uncontrolledTools, ttlHours |-> i.ttlHours,
     creds |-> r["creds"], roles |-> r["roles"], bindings |-> r["bindings"],
     trust |-> r["trust"], exposures |-> r["exposures"], workloads |-> r["workloads"],
     anomalies |-> {}, peerPerms |-> PeerPerms, peerReach |-> PeerReach,
     blast |-> BlastOf(g), depth |-> DepthOf(g), paths |-> PathsOf(g),
     usage |-> SubSeq(Feed, 1, n)]

\* What the running job knows; read.graph is what loadGraph returned.
Subject == SubjectOf(Listed(ident), read.rows, read.graph, read.usage)

\* What it would know after a pass in which nothing changes and nothing fails.
Settled == SubjectOf(Listed(ident), [t \in Tables |-> ForIdentity(t, rows)], graph, usage)

\* read.after: the scores that Recommend may come to for an action.
NothingRead(g) == [rows |-> NoRows, graph |-> g, usage |-> 0, current |-> 0,
                   after |-> [a \in Fixes |-> {}]]

----------------------------------------------------------------------------
Init ==
    /\ ident \in Identities
    /\ estate \in Estates
    /\ rows = [t \in Tables |-> {i \in estate[t] : i.key \in Known}]
    /\ ever = rows
    /\ usage = Min({KnownEvents, estate.usage})
    /\ graph = NoRows
    /\ phase = "idle"
    /\ read = NothingRead(NoRows)
    /\ todo = <<>>
    /\ pending = {}
    /\ score = 0
    /\ urgency = 0
    /\ findings = <<>>
    /\ actions = <<>>
    /\ events = 0

Event == events < MaxEvents /\ events' = events + 1

\* The provider: something is granted, in the place of what has the same key, ...
Grant(t, i) ==
    /\ estate' = [estate EXCEPT ![t] = {j \in @ : j.key # i.key} \cup {i}]
    /\ Event
    /\ UNCHANGED <<ident, rows, ever, usage, graph, worker, scores, findings, actions>>

\* ... or taken away, as the recommended actions ask.
Revoke(t, i) ==
    /\ estate' = [estate EXCEPT ![t] = @ \ {i}]
    /\ Event
    /\ UNCHANGED <<ident, rows, ever, usage, graph, worker, scores, findings, actions>>

\* A collector stores one row of what it sees.
Collect(t, i) ==
    /\ UpsertRow(t, i) # rows[t]
    /\ rows' = [rows EXCEPT ![t] = UpsertRow(t, i)]
    /\ ever' = [ever EXCEPT ![t] = @ \cup {i}]
    /\ UNCHANGED <<ident, estate, usage, graph, worker, scores, findings, actions, events>>

CollectEvent ==
    /\ usage < estate.usage
    /\ usage' = usage + 1
    /\ UNCHANGED <<ident, estate, rows, ever, graph, worker, scores, findings, actions, events>>

----------------------------------------------------------------------------
\* Nodes and edges are upserted by key and never deleted.
Project(old, new) ==
    [t \in Tables |-> IF t \notin {"roles", "bindings", "trust"} THEN {}
                      ELSE {i \in old[t] : i.key \notin Keys(new[t])} \cup new[t]]

\* runJob logs the failure of a job and the cycle goes on.
GraphJob ==
    /\ phase = "idle"
    /\ \/ graph' = Project(graph, rows) /\ UNCHANGED events
       \/ Event /\ UNCHANGED graph
    /\ phase' = "score"
    /\ UNCHANGED <<tables, read, todo, pending, scores, findings, actions>>

\* A job starts: loadGraph, whose failure leaves no graph.
BeginJob(job, reads) ==
    /\ phase = job
    /\ \/ read' = NothingRead(graph) /\ UNCHANGED events
       \/ Event /\ read' = NothingRead(NoRows)
    /\ todo' = reads
    /\ phase' = IF job = "score" THEN "scoring" ELSE "detecting"
    /\ UNCHANGED <<tables, graph, pending, scores, findings, actions>>

BeginScoring   == BeginJob("score", ScoreReads)
BeginDetection == BeginJob("detect", DetectReads)

ReadTable ==
    /\ todo # <<>>
    /\ LET t == Head(todo)
       IN read' = IF t = "usage" THEN [read EXCEPT !.usage = usage]
                  ELSE [read EXCEPT !.rows[t] = ForIdentity(t, rows)]
    /\ todo' = Tail(todo)
    /\ UNCHANGED <<tables, graph, phase, pending, scores, findings, actions, events>>

\* Mutant: a query that fails is repeated without its condition.
ReadEverything ==
    /\ todo # <<>>
    /\ Event
    /\ read' = [read EXCEPT !.rows = Universe]
    /\ todo' = Tail(todo)
    /\ UNCHANGED <<tables, graph, phase, pending, scores, findings, actions>>

\* creds, _ := s.Credentials.ForIdentity(...): the error is dropped.
ReadFails ==
    /\ todo # <<>>
    /\ Event
    /\ todo' = Tail(todo)
    /\ UNCHANGED <<tables, graph, phase, read, pending, scores, findings, actions>>

\* Mutant: only the first score is written.
WriteOnce ==
    /\ phase = "scoring" /\ todo = <<>>
    /\ \E p \in {Subject} : \E composite \in IF score = 0 THEN Composites(p) ELSE {score} :
          score' = composite /\ urgency' = Urgency(composite, p)
    /\ phase' = "detect"
    /\ UNCHANGED <<tables, graph, read, todo, pending, findings, actions, events>>

WriteScore ==
    /\ phase = "scoring" /\ todo = <<>>
    /\ \/ \E p \in {Subject} : \E composite \in Composites(p) :
             score' = composite /\ urgency' = Urgency(composite, p) /\ UNCHANGED events
       \/ Event /\ UNCHANGED scores
    /\ phase' = "detect"
    /\ UNCHANGED <<tables, graph, read, todo, pending, findings, actions>>

\* Mutant: a fix is compared with the score that is stored.
DetectFromStored ==
    /\ phase = "detecting" /\ todo = <<>>
    /\ \E p \in {Subject} :
          /\ read' = [read EXCEPT !.current = score,
                                  !.after = [a \in Fixes |-> After(a, p, score)]]
          /\ pending' = Run(p)
    /\ phase' = "raising"
    /\ UNCHANGED <<tables, graph, todo, scores, findings, actions, events>>

Detect ==
    /\ phase = "detecting" /\ todo = <<>>
    /\ \E p \in {Subject} :
          /\ \E current \in Composites(p) :
                read' = [read EXCEPT !.current = current,
                                     !.after = [a \in Fixes |-> After(a, p, current)]]
          /\ pending' = Run(p)
    /\ phase' = "raising"
    /\ UNCHANGED <<tables, graph, todo, scores, findings, actions, events>>

\* Findings.Upsert: the open row is refreshed, or a new one is inserted.
FindingId(fp) ==
    CASE fp \notin DOMAIN findings -> 1
      [] fp \in DOMAIN findings /\ findings[fp].open -> findings[fp].n
      [] OTHER -> findings[fp].n + 1

\* Mutant: ON CONFLICT DO NOTHING.
InsertOnly(id, plans, before, after) ==
    [k \in DOMAIN actions \cup {<<id, a>> : a \in plans} |->
        IF k \in DOMAIN actions THEN actions[k]
        ELSE UpsertAction(actions, id, k[2], before, after[k[2]])[k]]

\* Mutant: a refresh of the projected delta also resets the status.
ResettingUpserts(id, plans, before, after) ==
    [k \in DOMAIN actions \cup {<<id, a>> : a \in plans} |->
        IF k[1] = id /\ k[2] \in plans
        THEN [status |-> "recommended", before |-> before, after |-> after[k[2]],
              delta |-> Delta(before, after[k[2]])]
        ELSE actions[k]]

\* The actions of one finding, one upsert after the other; any of them may fail.
Upserts(id, plans, before, after) ==
    LET keys == {<<id, a>> : a \in plans}
    IN [k \in DOMAIN actions \cup keys |->
           IF k \in keys THEN UpsertAction(actions, id, k[2], before, after[k[2]])[k]
           ELSE actions[k]]

\* One projected score for each of the plans.
Projections(plans) == {after \in [plans -> UNION {read.after[a] : a \in plans}] :
                      \A a \in plans : after[a] \in read.after[a]}

\* Engine.Run returns the worst first, and in NewEngine's order the equally bad.
Place(f) == CHOOSE i \in DOMAIN NewEngine : NewEngine[i] = f.detector

Foremost(fs) ==
    {f \in fs : \A g \in fs :
        \/ SevRank(f.severity) > SevRank(g.severity)
        \/ /\ f.severity = g.severity
           /\ Place(f) <= Place(g)}

\* Recommend, then Remediation.Upsert for each plan.
RaiseFinding(fp) ==
    LET id    == <<fp, FindingId(fp)>>
        plans == Plans(fp[1])
    IN /\ phase = "raising"
       /\ pending' = {f \in pending : Fingerprint(f) # fp}
       /\ findings' = [f \in DOMAIN findings \cup {fp} |->
                          IF f = fp THEN [n |-> id[2], open |-> TRUE] ELSE findings[f]]
       /\ \E stored \in SUBSET plans :
             /\ IF stored = plans THEN UNCHANGED events ELSE Event
             /\ \E after \in Projections(stored) :
                   actions' = Upserts(id, stored, read.current, after)
       /\ UNCHANGED <<tables, graph, phase, read, todo, scores>>

FindingFails(fp) ==
    /\ phase = "raising"
    /\ Event
    /\ pending' = {f \in pending : Fingerprint(f) # fp}
    /\ UNCHANGED <<tables, graph, phase, read, todo, scores, findings, actions>>

EndCycle ==
    /\ phase = "raising" /\ pending = {}
    /\ phase' = "idle"
    /\ read' = NothingRead(NoRows)
    /\ UNCHANGED <<tables, graph, todo, pending, scores, findings, actions, events>>

Crash ==
    /\ phase # "idle"
    /\ Event
    /\ phase' = "idle"
    /\ read' = NothingRead(NoRows)
    /\ todo' = <<>>
    /\ pending' = {}
    /\ UNCHANGED <<tables, graph, scores, findings, actions>>

----------------------------------------------------------------------------
\* PATCH /remediations/{id}: the status is not checked against the old one.
UpdateRemediation(k, status) ==
    /\ actions[k].status # status
    /\ actions' = UpdateActionStatus(actions, k, status)
    /\ Event
    /\ UNCHANGED <<tables, graph, worker, scores, findings>>

\* PATCH /findings/{id}.
ResolveFinding(fp) ==
    /\ findings[fp].open
    /\ findings' = [findings EXCEPT ![fp].open = FALSE]
    /\ Event
    /\ UNCHANGED <<tables, graph, worker, scores, actions>>

----------------------------------------------------------------------------
ProviderStep ==
    \E t \in Tables : \/ \E i \in Granted[t] \ estate[t] : Grant(t, i)
                      \/ \E i \in estate[t] : Revoke(t, i)

CollectorStep == CollectEvent \/ \E t \in Tables : \E i \in estate[t] : Collect(t, i)

WorkerStep ==
    \/ GraphJob \/ BeginScoring \/ BeginDetection \/ ReadTable \/ ReadFails
    \/ WriteScore \/ Detect \/ EndCycle \/ Crash
    \/ \E f \in Foremost(pending) :
           RaiseFinding(Fingerprint(f)) \/ FindingFails(Fingerprint(f))

OperatorStep ==
    \/ \E k \in DOMAIN actions, s \in Decisions : UpdateRemediation(k, s)
    \/ \E fp \in DOMAIN findings : ResolveFinding(fp)

Next == ProviderStep \/ CollectorStep \/ WorkerStep \/ OperatorStep

Spec == Init /\ [][Next]_vars

\* The worker's loop has no exit, and collectors are run again and again.
FairSpec == Spec /\ WF_vars(WorkerStep) /\ WF_vars(CollectorStep)

----------------------------------------------------------------------------
TypeOK ==
    /\ ident \in Identities
    /\ \A t \in Tables : /\ rows[t] \subseteq ever[t] /\ ever[t] \subseteq Universe[t]
                         /\ graph[t] \subseteq ever[t]
                         /\ read.rows[t] \subseteq ever[t]
    /\ usage \in 0..Len(Feed) /\ read.usage \in 0..usage
    /\ phase \in {"idle", "score", "scoring", "detect", "detecting", "raising"}
    /\ score \in 0..100 /\ urgency \in 0..100
    /\ DOMAIN actions \subseteq {<<id, a>> : id \in {<<fp, n>> : fp \in DOMAIN findings,
                                                        n \in 1..MaxEvents + 1},
                                              a \in Fixes}
    /\ events \in 0..MaxEvents

\* A stored score never exceeds what the scorer makes of everything that was ever
\* stored, however the queries of a pass interleave with the collectors' writes and
\* whichever of them fail: reads that do not belong together (a role from before a
\* write, a graph from after it) add up to no risk that the rows cannot explain
\* (runScoring, Engine.Score).  The depth of the role chain is that of a part T of the
\* trust edges: an edge that comes later may be a shortcut, which makes a chain shallower.
ScoreIsSupported ==
    LET all == [t \in Tables |-> ForIdentity(t, ever)]
        With(T) == [SubjectOf(Listed(ident), all, ever, usage) EXCEPT
                       !.depth = DepthOf([NoRows EXCEPT !["trust"] = T])]
    IN phase = "detect" =>
           \E T \in SUBSET ever["trust"] : score <= Max(Composites(With(T)))

\* No recommended fix projects a higher score than the identity has, whatever mixture
\* of reads it was computed from, but for the point by which two calls of Score on one
\* posture may differ (Recommend, the mutations and the six factors).
FixNeverRaisesRisk == \A k \in DOMAIN actions : actions[k].after <= actions[k].before + 1

\* Detection may refresh what an action is worth; what the operator decided about it
\* stays (RemediationRepo.Upsert).
DecisionsKept ==
    [][WorkerStep => \A k \in DOMAIN actions : /\ k \in DOMAIN actions'
                                              /\ actions'[k].status = actions[k].status]_vars

\* Once collectors, provider and operator are done and no query fails any more, the
\* stored score and urgency are, for good, those of the rows that are stored (the
\* worker's cycle).
ScoreConverges ==
    <>[](phase = "idle" => \E p \in {Settled} : /\ score \in Composites(p)
                                                /\ urgency = Urgency(score, p))

\* The detector that reports a signal of the score.
ReportedBy ==
    [admin_or_star |-> "over_privileged_sa", priv_escalation_action |-> "over_privileged_sa",
     write_crown_jewel |-> "over_privileged_sa", privilege_creep_p90 |-> "privilege_creep",
     public_repo |-> "secret_exposed_in_repo", verified_live |-> "secret_exposed_in_repo",
     private_repo_or_ci |-> "secret_exposed_in_repo", unused_stale_window |-> "stale_identity",
     conditionless_assume |-> "conditionless_assume_role",
     wildcard_external |-> "wildcard_trust", crown_jewel_1hop |-> "high_blast_radius",
     crown_jewel_chain |-> "high_blast_radius", escalate_to_admin |-> "high_blast_radius"]

\* Every signal that counts in the settled score is, in the end, the business of an open
\* finding of the detector that looks for the same thing with code of its own, unless
\* the identity is a break-glass one (risk/score.go, detect/rules.go).
SignalsAreReported ==
    <>[](phase = "idle" => \A p \in {Settled} : \A s \in Signals(p) \cap DOMAIN ReportedBy :
           \/ s = "unused_stale_window" /\ ident.breakGlass
           \/ \E fp \in DOMAIN findings : fp[1] = ReportedBy[s] /\ findings[fp].open)

\* In the end every open finding of the settled subject has all of its recommended
\* actions, computed from the settled posture, though any upsert may have failed and
\* the worker may have crashed between the finding and its actions (runDetection).
RecommendationsConverge ==
    <>[](phase = "idle" => \A p \in {Settled} : \A f \in Run(p) :
           LET fp == Fingerprint(f)
           IN /\ fp \in DOMAIN findings
              /\ \A a \in Plans(f.detector) :
                    LET k == <<<<fp, findings[fp].n>>, a>>
                    IN /\ k \in DOMAIN actions
                       /\ actions[k].before \in Composites(p)
                       /\ actions[k].after \in After(a, p, actions[k].before))

\* docs/DETECTIONS.md: stale_identity fires when "last_used_at null and age > 30d".
NeverUsedIsStale ==
    phase = "raising" /\ ident.seen = NoTime /\ ident.created > NeverUsedAge
        => "stale_identity" \in Names(Run(Subject))
============================================================================
