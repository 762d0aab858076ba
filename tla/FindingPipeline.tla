-------------------------- MODULE FindingPipeline --------------------------
(***************************************************************************)
(* How findings are raised, silenced, triaged and alerted: the detect and  *)
(* alert jobs of the worker's cycle (cmd/worker/main.go, alerts.go) and    *)
(* the API's mutations of a finding (UpdateFinding, SuppressFinding), all  *)
(* of them over the shared tables of FindingStore with nothing but the     *)
(* atomicity of single SQL statements between them.                        *)
(*                                                                         *)
(* A worker's cycle goes through the stages                                *)
(*   idle -> identities -> exposure -> secret -> claim -> send -> stamp    *)
(* and keeps, between two statements, what it read before: the suppression *)
(* list of the pass, the identities still to visit, the findings the       *)
(* detectors returned and not yet upserted, the rows claimed for alerting. *)
(*                                                                         *)
(* Left out: the graph and score jobs of the cycle, the 50-row cap of the  *)
(* identity list, and the remediation rows upserted after each finding;    *)
(* none of the state kept here depends on them.                            *)
(***************************************************************************)
EXTENDS FindingStore

CONSTANTS
  Workers,          \* worker processes; the Helm chart deploys one
  Requests,         \* concurrent SuppressFinding calls
  NotDetected,      \* the detector does not fire
  ExposureDetector, \* "secret_exposed_in_repo", the repository pass's detector
  BatchLimit,       \* ClaimUnalerted's LIMIT, 100 in the code
  Faults,           \* which failures may happen
  Volatile,         \* bound: fingerprints whose condition changes as we watch
  MaxSuppressions,  \* bound on the suppressions in force at once
  MaxCrashes        \* bound on worker crashes

FaultKinds ==
  {"list",       \* Suppressions.ListActive fails
   "scan",       \* Exposures.RepoScoped or Secrets.List fails
   "upsert",     \* Findings.Upsert fails
   "claim",      \* ClaimUnalerted fails
   "send",       \* the sink rejects the alerts, or is unreachable
   "ambiguous",  \* the sink takes the alerts, the answer is lost or late
   "stamp",      \* MarkAlerted fails
   "mark",       \* UpdateStatus fails, or the API dies before it
   "crash"}      \* the worker process dies

ASSUME PipelineAssumption ==
  /\ Faults \subseteq FaultKinds
  /\ BatchLimit \in Nat \ {0}
  /\ MaxSuppressions \in Nat
  /\ MaxCrashes \in Nat
  /\ NotDetected \notin Severities
  /\ Volatile \subseteq Fingerprints

VARIABLES
  detects,     \* what the detectors say of each fingerprint on today's inventory
  stage,       \* where each worker is in its cycle
  seen,        \* the suppression list each worker read for this pass
  todo,        \* identities each worker has still to visit in this pass
  batch,       \* findings each worker computed and has not upserted
  claimed,     \* rows each worker read for alerting
  deliveries,  \* how often the sink received each finding; 2 is twice or more
  request,     \* the finding each suppression request has still to mark
  crashes

passVars == <<stage, seen, todo, batch, claimed>>
vars == <<findings, alertedAt, suppressions, detects, stage, seen, todo, batch,
          claimed, deliveries, request, crashes>>

Stages == {"idle", "identities", "exposure", "secret", "claim", "send", "stamp"}

Found == [fp : Fingerprints, severity : Severities]

TypeOK ==
  /\ StoreTypeOK
  /\ detects \in [Fingerprints -> Severities \cup {NotDetected}]
  /\ stage \in [Workers -> Stages]
  /\ seen \in [Workers -> SUBSET Suppression]
  /\ todo \in [Workers -> SUBSET Identities]
  /\ batch \in [Workers -> SUBSET Found]
  /\ claimed \in [Workers -> SUBSET FindingIds]
  /\ deliveries \in [FindingIds -> 0..2]
  /\ request \in [Requests -> FindingIds \cup {NoRow}]
  /\ crashes \in Nat

Init ==
  /\ StoreInit
  /\ detects \in [Fingerprints -> Severities \cup {NotDetected}]
  /\ stage = [w \in Workers |-> "idle"]
  /\ seen = [w \in Workers |-> {}]
  /\ todo = [w \in Workers |-> {}]
  /\ batch = [w \in Workers |-> {}]
  /\ claimed = [w \in Workers |-> {}]
  /\ deliveries = [i \in FindingIds |-> 0]
  /\ request = [q \in Requests |-> NoRow]
  /\ crashes = 0

-----------------------------------------------------------------------------
(* The detect job.                                                         *)

\* ListActive's error is dropped, which leaves an empty list.
ActiveSuppressions ==
  {suppressions} \cup IF "list" \in Faults THEN {{}} ELSE {}

\* Mutant: a finding for every subject the detectors looked at.
RaisedUndetected(fps, sups) ==
  {[fp |-> fp, severity |-> detects[fp]] : fp \in {f \in fps : ~Matches(sups, f)}}

\* Mutant: the suppression list is read and not consulted.
RaisedUnsuppressed(fps, sups) ==
  {f \in Found : f.fp \in fps /\ detects[f.fp] = f.severity}

\* What the detectors return for the given fingerprints, less what the pass's
\* own suppression list silences.
Raised(fps, sups) ==
  {f \in Found : /\ f.fp \in fps
                 /\ detects[f.fp] = f.severity
                 /\ ~Matches(sups, f.fp)}

ExposureFps ==
  {fp \in Fingerprints : SubjectOf[fp] = NoIdentity /\ DetectorOf[fp] = ExposureDetector}

SecretFps ==
  {fp \in Fingerprints : SubjectOf[fp] = NoIdentity /\ DetectorOf[fp] # ExposureDetector}

IdentityFps(i) == {fp \in Fingerprints : SubjectOf[fp] = i}

\* Top of the cycle and of runDetection: the identity list and the suppression
\* list are read once, for every identity of the pass.
BeginPass(w) ==
  /\ stage[w] = "idle"
  /\ \E sups \in ActiveSuppressions : seen' = [seen EXCEPT ![w] = sups]
  /\ stage' = [stage EXCEPT ![w] = "identities"]
  /\ todo' = [todo EXCEPT ![w] = Identities]
  /\ UNCHANGED <<storeVars, detects, batch, claimed, deliveries, request, crashes>>

\* One turn of runDetection's loop up to engine.Run.
Detect(w, i) ==
  /\ stage[w] = "identities"
  /\ batch[w] = {}
  /\ i \in todo[w]
  /\ todo' = [todo EXCEPT ![w] = @ \ {i}]
  /\ batch' = [batch EXCEPT ![w] = Raised(IdentityFps(i), seen[w])]
  /\ UNCHANGED <<storeVars, detects, stage, seen, claimed, deliveries, request, crashes>>

\* One finding of the batch is persisted.  The engine sorts a batch by severity;
\* any order is allowed here.
UpsertFinding(w, f) ==
  /\ f \in batch[w]
  /\ Upsert(f.fp, f.severity)
  /\ batch' = [batch EXCEPT ![w] = @ \ {f}]
  /\ UNCHANGED <<detects, stage, seen, todo, claimed, deliveries, request, crashes>>

\* An upsert error is logged and the loop goes on.
UpsertFails(w, f) ==
  /\ "upsert" \in Faults
  /\ f \in batch[w]
  /\ batch' = [batch EXCEPT ![w] = @ \ {f}]
  /\ UNCHANGED <<storeVars, detects, stage, seen, todo, claimed, deliveries, request, crashes>>

\* Mutant: a pass with nothing to report returns from the whole detect job.
EmptyPassEndsDetect(w, from, to, fps) ==
  /\ stage[w] = from
  /\ batch[w] = {} /\ todo[w] = {}
  /\ \E sups \in ActiveSuppressions :
       /\ seen' = [seen EXCEPT ![w] = sups]
       /\ batch' = [batch EXCEPT ![w] = Raised(fps, sups)]
       /\ stage' = [stage EXCEPT ![w] = IF Raised(fps, sups) = {} THEN "claim" ELSE to]
  /\ UNCHANGED <<storeVars, detects, todo, claimed, deliveries, request, crashes>>

\* runExposureFindings and runSecretFindings: one query for all the subjects, then
\* a suppression list of their own.
BeginRepoPass(w, from, to, fps) ==
  /\ stage[w] = from
  /\ batch[w] = {} /\ todo[w] = {}
  /\ \E sups \in ActiveSuppressions :
       /\ seen' = [seen EXCEPT ![w] = sups]
       /\ batch' = [batch EXCEPT ![w] = Raised(fps, sups)]
  /\ stage' = [stage EXCEPT ![w] = to]
  /\ UNCHANGED <<storeVars, detects, todo, claimed, deliveries, request, crashes>>

BeginExposures(w) == BeginRepoPass(w, "identities", "exposure", ExposureFps)
BeginSecrets(w) == BeginRepoPass(w, "exposure", "secret", SecretFps)

\* Either query failing ends the detect job: the passes after it are skipped.
ScanFails(w) ==
  /\ "scan" \in Faults
  /\ stage[w] \in {"identities", "exposure"}
  /\ batch[w] = {} /\ todo[w] = {}
  /\ stage' = [stage EXCEPT ![w] = "claim"]
  /\ UNCHANGED <<storeVars, detects, seen, todo, batch, claimed, deliveries, request, crashes>>

EndDetect(w) ==
  /\ stage[w] = "secret"
  /\ batch[w] = {}
  /\ stage' = [stage EXCEPT ![w] = "claim"]
  /\ UNCHANGED <<storeVars, detects, seen, todo, batch, claimed, deliveries, request, crashes>>

-----------------------------------------------------------------------------
(* The alert job: runAlerts.                                               *)

\* Mutant: rows are stamped as they are claimed.
ClaimStamps(w) ==
  /\ stage[w] = "claim"
  /\ LET ids == Oldest(Unalerted, BatchLimit) IN
       /\ MarkAlerted(ids)
       /\ claimed' = [claimed EXCEPT ![w] = ids]
       /\ stage' = [stage EXCEPT ![w] = IF ids = {} THEN "idle" ELSE "send"]
  /\ UNCHANGED <<detects, seen, todo, batch, deliveries, request, crashes>>

\* A plain SELECT: nothing stops another worker from reading the same rows.
Claim(w) ==
  /\ stage[w] = "claim"
  /\ LET ids == Oldest(Unalerted, BatchLimit) IN
       /\ claimed' = [claimed EXCEPT ![w] = ids]
       /\ stage' = [stage EXCEPT ![w] = IF ids = {} THEN "idle" ELSE "send"]
  /\ UNCHANGED <<storeVars, detects, seen, todo, batch, deliveries, request, crashes>>

ClaimFails(w) ==
  /\ "claim" \in Faults
  /\ stage[w] = "claim"
  /\ stage' = [stage EXCEPT ![w] = "idle"]
  /\ UNCHANGED <<storeVars, detects, seen, todo, batch, claimed, deliveries, request, crashes>>

AtMostTwo(n) == IF n < 2 THEN n + 1 ELSE n

\* The sink takes the batch as one message.
Received(ids) ==
  [i \in FindingIds |-> IF i \in ids THEN AtMostTwo(deliveries[i]) ELSE deliveries[i]]

Send(w) ==
  /\ stage[w] = "send"
  /\ deliveries' = Received(claimed[w])
  /\ stage' = [stage EXCEPT ![w] = "stamp"]
  /\ UNCHANGED <<storeVars, detects, seen, todo, batch, claimed, request, crashes>>

EndSweep(w) ==
  /\ stage' = [stage EXCEPT ![w] = "idle"]
  /\ claimed' = [claimed EXCEPT ![w] = {}]

\* Mutant: the error is logged and the batch stamped all the same.
SendErrorIgnored(w) ==
  /\ "send" \in Faults
  /\ stage[w] = "send"
  /\ stage' = [stage EXCEPT ![w] = "stamp"]
  /\ UNCHANGED <<storeVars, detects, seen, todo, batch, claimed, deliveries, request, crashes>>

\* Any error of Send leaves alerted_at NULL, whether or not the sink got the message.
SendFails(w) ==
  /\ stage[w] = "send"
  /\ \/ "send" \in Faults /\ UNCHANGED deliveries
     \/ "ambiguous" \in Faults /\ deliveries' = Received(claimed[w])
  /\ EndSweep(w)
  /\ UNCHANGED <<storeVars, detects, seen, todo, batch, request, crashes>>

Stamp(w) ==
  /\ stage[w] = "stamp"
  /\ MarkAlerted(claimed[w])
  /\ EndSweep(w)
  /\ UNCHANGED <<detects, seen, todo, batch, deliveries, request, crashes>>

\* Sent but not stamped: logged, not fatal.
StampFails(w) ==
  /\ "stamp" \in Faults
  /\ stage[w] = "stamp"
  /\ EndSweep(w)
  /\ UNCHANGED <<storeVars, detects, seen, todo, batch, deliveries, request, crashes>>

\* The process dies and is restarted: everything it had read is gone.
Crash(w) ==
  /\ "crash" \in Faults
  /\ crashes < MaxCrashes
  /\ stage[w] # "idle"
  /\ crashes' = crashes + 1
  /\ stage' = [stage EXCEPT ![w] = "idle"]
  /\ seen' = [seen EXCEPT ![w] = {}]
  /\ todo' = [todo EXCEPT ![w] = {}]
  /\ batch' = [batch EXCEPT ![w] = {}]
  /\ claimed' = [claimed EXCEPT ![w] = {}]
  /\ UNCHANGED <<storeVars, detects, deliveries, request>>

-----------------------------------------------------------------------------
(* The API and the world.                                                  *)

\* Bound: an operator closes a finding only while an id is left for every
\* fingerprint that has, or is about to have, no open row, so that the finite
\* FindingIds never stand in the worker's way.
RoomToClose ==
  Cardinality(FindingIds \ Rows) >
    Cardinality({fp \in Fingerprints : OpenRows(fp) = {}})
      + Cardinality({q \in Requests : request[q] # NoRow})

\* UpdateFinding: any status the caller sends; re-opening under a newer open
\* row of the fingerprint is answered with a 500 and changes nothing.
UpdateFinding(i, status) ==
  /\ i \in Rows
  /\ status # findings[i].status
  /\ IsOpen(i) => RoomToClose
  /\ UpdateStatus(i, status)
  /\ UNCHANGED <<detects, passVars, deliveries, request, crashes>>

\* SuppressFinding up to Suppressions.Create: the caller may name another
\* detector, the identity is always the finding's own.
SuppressFinding(q, i, detector, expires) ==
  /\ request[q] = NoRow
  /\ i \in Rows
  /\ RoomToClose
  /\ Cardinality(suppressions) < MaxSuppressions
  /\ CreateSuppression([detector |-> detector,
                        identity |-> SubjectOf[findings[i].fp],
                        expires |-> expires])
  /\ request' = [request EXCEPT ![q] = i]
  /\ UNCHANGED <<detects, passVars, deliveries, crashes>>

\* The second statement of the handler.
MarkSuppressed(q) ==
  /\ request[q] # NoRow
  /\ UpdateStatus(request[q], "suppressed")
  /\ request' = [request EXCEPT ![q] = NoRow]
  /\ UNCHANGED <<detects, passVars, deliveries, crashes>>

\* Its error is dropped: the suppression stands and the finding stays as it is.
MarkFails(q) ==
  /\ "mark" \in Faults
  /\ request[q] # NoRow
  /\ request' = [request EXCEPT ![q] = NoRow]
  /\ UNCHANGED <<storeVars, detects, passVars, deliveries, crashes>>

Expire(sup) ==
  /\ ExpireSuppression(sup)
  /\ UNCHANGED <<detects, passVars, deliveries, request, crashes>>

\* Collection, or the passing of time, changes what a detector says.
Observe(fp, severity) ==
  /\ fp \in Volatile
  /\ detects[fp] # severity
  /\ detects' = [detects EXCEPT ![fp] = severity]
  /\ UNCHANGED <<storeVars, passVars, deliveries, request, crashes>>

-----------------------------------------------------------------------------

WorkerStep(w) ==
  \/ BeginPass(w)
  \/ \E i \in Identities : Detect(w, i)
  \/ \E f \in batch[w] : UpsertFinding(w, f) \/ UpsertFails(w, f)
  \/ BeginExposures(w)
  \/ BeginSecrets(w)
  \/ ScanFails(w)
  \/ EndDetect(w)
  \/ Claim(w)
  \/ ClaimFails(w)
  \/ Send(w)
  \/ SendFails(w)
  \/ Stamp(w)
  \/ StampFails(w)

ApiStep ==
  \/ \E i \in FindingIds, status \in Statuses : UpdateFinding(i, status)
  \/ \E q \in Requests :
       \/ \E i \in FindingIds, d \in Detectors, e \in BOOLEAN : SuppressFinding(q, i, d, e)
       \/ MarkSuppressed(q)
       \/ MarkFails(q)

WorldStep ==
  \/ \E sup \in suppressions : Expire(sup)
  \/ \E fp \in Fingerprints, s \in Severities \cup {NotDetected} : Observe(fp, s)

Next ==
  \/ \E w \in Workers : WorkerStep(w) \/ Crash(w)
  \/ ApiStep
  \/ WorldStep

Spec == Init /\ [][Next]_vars

\* The ticker keeps the worker's loop going; nothing obliges an operator.
\* A query or a sink that keeps being asked is taken to answer in the end.
Fairness ==
  /\ \A w \in Workers :
       /\ WF_vars(WorkerStep(w))
       /\ \A f \in Found : SF_vars(UpsertFinding(w, f))
       /\ SF_vars(BeginExposures(w))
       /\ SF_vars(BeginSecrets(w))
       /\ SF_vars(Claim(w))
       /\ SF_vars(Send(w))
       /\ SF_vars(Stamp(w))

FairSpec == Spec /\ Fairness

-----------------------------------------------------------------------------
(* Safety.                                                                 *)

\* Whatever two workers and the API do, a fingerprint has at most one open row:
\* the dedupe that Upsert's ON CONFLICT and the partial unique index stand for.
OneOpenPerFingerprint ==
  \A fp \in Fingerprints : \A i, j \in OpenRows(fp) : i = j

\* A finding whose alerted_at is set was received by the sink: no failure, crash
\* or second worker makes a sweep stamp what it did not get through.
StampedWasDelivered == \A i \in alertedAt : deliveries[i] > 0

\* Where no send or stamp is left half done, the sink receives a finding once,
\* also when an operator closes and re-opens it in the middle of a sweep.
AlertedAtMostOnce == \A i \in FindingIds : deliveries[i] <= 1

\* A worker never touches the verdict of an existing row: what an operator closed
\* stays closed until the operator re-opens it (Upsert's ON CONFLICT columns).
WorkerKeepsVerdicts ==
  [][passVars' # passVars => \A i \in Rows : findings'[i] = findings[i]]_vars

\* docs/ALERTING.md:85 and the comment at main.go:402: while a suppression is in
\* force, no worker brings its fingerprint (back) into the open queue.
SuppressedNeverSurfaces ==
  [][passVars' # passVars =>
       \A fp \in Fingerprints :
         Matches(suppressions, fp) => OpenRows(fp)' \subseteq OpenRows(fp)]_vars

-----------------------------------------------------------------------------
(* Liveness.                                                               *)

Silenced(fp) == Matches({s \in suppressions : ~s.expires}, fp)

\* New evidence is a new fingerprint.  If it persists, and nobody suppresses it for good,
\* it gets its finding in the end: whichever pass computes it, through failing queries
\* and upserts, and also when a suppression in force at first held it back.
PersistentIsRaised ==
  \A fp \in Fingerprints :
    <>[](detects[fp] # NotDetected /\ ~Matches(suppressions, fp)) =>
      <>(\E i \in Rows : findings[i].fp = fp)

\* A suppression that does not expire is in the end honoured by every worker: no
\* pass that began after it computes the finding.
SuppressionTakesHold ==
  \A fp \in Fingerprints :
    <>[]Silenced(fp) => <>[](\A w \in Workers : \A f \in batch[w] : f.fp # fp)

-----------------------------------------------------------------------------
(* The alert sweep implements the outbox.                                  *)

Alertable == {i \in Rows : findings[i].severity \in AlertSeverities}
Delivered == {i \in FindingIds : deliveries[i] > 0}

Outbox == INSTANCE AlertOutbox
            WITH Items <- FindingIds, raised <- Alertable, waiting <- Unalerted,
                 delivered <- Delivered, settled <- alertedAt

\* Every step of workers, API and world is a step of the outbox or leaves it alone.
ImplementsOutbox == Outbox!Spec

\* docs/ALERTING.md:79: findings accumulate while the sink is down and are
\* flushed when it recovers, in batches and oldest first.
OutboxFlushes == Outbox!Flushes
=============================================================================
