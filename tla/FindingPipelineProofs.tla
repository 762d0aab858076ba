----------------------- MODULE FindingPipelineProofs -----------------------
(***************************************************************************)
(* Theorems of FindingPipeline for every number of workers, requests,      *)
(* findings and fingerprints, every set of faults and every bound.         *)
(*   TypeCorrect          the type invariant                               *)
(*   DedupeCorrect        one open row per fingerprint                     *)
(*   VerdictsKept         no worker changes an existing row                *)
(*   StampCorrect         a stamped finding was delivered                  *)
(*   AlertedOnce          one worker, no send or stamp half done           *)
(*   OutboxImplemented    the alert sweep implements AlertOutbox           *)
(***************************************************************************)
EXTENDS FindingPipeline, TLAPS

-----------------------------------------------------------------------------
(* The statements of the store preserve its type.                          *)

LEMMA InsertType ==
  ASSUME StoreTypeOK, NEW row \in Finding, Insert(row)
  PROVE  findings' \in [FindingIds -> Finding \cup {NoRow}]
BY DEF StoreTypeOK, Insert, Rows

LEMMA UpsertType ==
  ASSUME StoreTypeOK, NEW fp \in Fingerprints, NEW s \in Severities, Upsert(fp, s)
  PROVE  StoreTypeOK'
<1>1. [fp |-> fp, severity |-> s, status |-> "open"] \in Finding
  BY StoreAssumption DEF Finding
<1>2. findings' \in [FindingIds -> Finding \cup {NoRow}]
  BY <1>1, InsertType DEF Upsert, StoreTypeOK
<1> QED BY <1>2 DEF Upsert, StoreTypeOK

LEMMA UpdateStatusType ==
  ASSUME StoreTypeOK, NEW i \in FindingIds, NEW st \in Statuses, UpdateStatus(i, st)
  PROVE  StoreTypeOK'
<1>1. findings[i] \in Finding
  BY DEF UpdateStatus, Rows, StoreTypeOK
<1>2. [findings[i] EXCEPT !.status = st] \in Finding
  BY <1>1 DEF Finding
<1> QED BY <1>2 DEF UpdateStatus, StoreTypeOK

-----------------------------------------------------------------------------
(* Type correctness.                                                       *)

LEMMA RaisedType ==
  ASSUME NEW fps, NEW sups
  PROVE  Raised(fps, sups) \subseteq Found
BY DEF Raised

LEMMA ReceivedType ==
  ASSUME TypeOK, NEW ids
  PROVE  Received(ids) \in [FindingIds -> 0..2]
BY DEF TypeOK, Received, AtMostTwo

LEMMA DetectJobType ==
  ASSUME TypeOK, NEW w \in Workers,
         \/ BeginPass(w)
         \/ \E i \in Identities : Detect(w, i)
         \/ \E f \in batch[w] : UpsertFinding(w, f) \/ UpsertFails(w, f)
         \/ BeginExposures(w)
         \/ BeginSecrets(w)
         \/ ScanFails(w)
         \/ EndDetect(w)
  PROVE  TypeOK'
<1>1. CASE BeginPass(w)
  BY <1>1 DEF TypeOK, BeginPass, ActiveSuppressions, StoreTypeOK, storeVars, Stages
<1>2. ASSUME NEW i \in Identities, Detect(w, i) PROVE TypeOK'
  BY <1>2, RaisedType DEF TypeOK, Detect, StoreTypeOK, storeVars
<1>3. ASSUME NEW f \in batch[w], UpsertFinding(w, f) PROVE TypeOK'
  <2>1. f.fp \in Fingerprints /\ f.severity \in Severities
    BY DEF TypeOK, Found
  <2>2. StoreTypeOK'
    BY <1>3, <2>1, UpsertType DEF TypeOK, UpsertFinding
  <2> QED BY <1>3, <2>2 DEF TypeOK, UpsertFinding
<1>4. ASSUME NEW f \in batch[w], UpsertFails(w, f) PROVE TypeOK'
  BY <1>4 DEF TypeOK, UpsertFails, StoreTypeOK, storeVars
<1>5. CASE BeginExposures(w)
  BY <1>5, RaisedType
  DEF TypeOK, BeginExposures, BeginRepoPass, ActiveSuppressions, StoreTypeOK, storeVars, Stages
<1>6. CASE BeginSecrets(w)
  BY <1>6, RaisedType
  DEF TypeOK, BeginSecrets, BeginRepoPass, ActiveSuppressions, StoreTypeOK, storeVars, Stages
<1>7. CASE ScanFails(w)
  BY <1>7 DEF TypeOK, ScanFails, StoreTypeOK, storeVars, Stages
<1>8. CASE EndDetect(w)
  BY <1>8 DEF TypeOK, EndDetect, StoreTypeOK, storeVars, Stages
<1> QED BY <1>1, <1>2, <1>3, <1>4, <1>5, <1>6, <1>7, <1>8

LEMMA AlertJobType ==
  ASSUME TypeOK, NEW w \in Workers,
         \/ Claim(w) \/ ClaimFails(w)
         \/ Send(w) \/ SendFails(w)
         \/ Stamp(w) \/ StampFails(w)
         \/ Crash(w)
  PROVE  TypeOK'
<1>1. CASE Claim(w)
  BY <1>1 DEF TypeOK, Claim, Oldest, Unalerted, Rows, StoreTypeOK, storeVars, Stages
<1>2. CASE ClaimFails(w)
  BY <1>2 DEF TypeOK, ClaimFails, StoreTypeOK, storeVars, Stages
<1>3. CASE Send(w)
  BY <1>3, ReceivedType DEF TypeOK, Send, StoreTypeOK, storeVars, Stages
<1>4. CASE SendFails(w)
  BY <1>4, ReceivedType DEF TypeOK, SendFails, EndSweep, StoreTypeOK, storeVars, Stages
<1>5. CASE Stamp(w)
  BY <1>5 DEF TypeOK, Stamp, MarkAlerted, EndSweep, StoreTypeOK, Stages
<1>6. CASE StampFails(w)
  BY <1>6 DEF TypeOK, StampFails, EndSweep, StoreTypeOK, storeVars, Stages
<1>7. CASE Crash(w)
  BY <1>7 DEF TypeOK, Crash, StoreTypeOK, storeVars, Stages
<1> QED BY <1>1, <1>2, <1>3, <1>4, <1>5, <1>6, <1>7

LEMMA ApiType ==
  ASSUME TypeOK, ApiStep
  PROVE  TypeOK'
<1>1. ASSUME NEW i \in FindingIds, NEW st \in Statuses, UpdateFinding(i, st) PROVE TypeOK'
  <2>1. StoreTypeOK'
    BY <1>1, UpdateStatusType DEF TypeOK, UpdateFinding
  <2> QED BY <1>1, <2>1 DEF TypeOK, UpdateFinding, passVars
<1>2. ASSUME NEW q \in Requests, NEW i \in FindingIds, NEW d \in Detectors, NEW e \in BOOLEAN,
             SuppressFinding(q, i, d, e)
      PROVE  TypeOK'
  <2>1. findings[i] \in Finding
    BY <1>2 DEF SuppressFinding, Rows, TypeOK, StoreTypeOK
  <2>2. SubjectOf[findings[i].fp] \in Identities \cup {NoIdentity}
    BY <2>1, StoreAssumption DEF Finding
  <2>3. [detector |-> d, identity |-> SubjectOf[findings[i].fp], expires |-> e] \in Suppression
    BY <2>2 DEF Suppression
  <2> QED BY <1>2, <2>3 DEF TypeOK, SuppressFinding, CreateSuppression, StoreTypeOK, passVars
<1>3. ASSUME NEW q \in Requests, MarkSuppressed(q) PROVE TypeOK'
  <2>1. request[q] \in FindingIds
    BY <1>3 DEF MarkSuppressed, TypeOK
  <2>2. StoreTypeOK'
    BY <1>3, <2>1, UpdateStatusType, StoreAssumption DEF TypeOK, MarkSuppressed
  <2> QED BY <1>3, <2>2 DEF TypeOK, MarkSuppressed, passVars
<1>4. ASSUME NEW q \in Requests, MarkFails(q) PROVE TypeOK'
  BY <1>4 DEF TypeOK, MarkFails, StoreTypeOK, storeVars, passVars
<1> QED BY <1>1, <1>2, <1>3, <1>4 DEF ApiStep

LEMMA WorldType ==
  ASSUME TypeOK, WorldStep
  PROVE  TypeOK'
<1>1. ASSUME NEW sup \in suppressions, Expire(sup) PROVE TypeOK'
  BY <1>1 DEF TypeOK, Expire, ExpireSuppression, StoreTypeOK, passVars
<1>2. ASSUME NEW fp \in Fingerprints, NEW s \in Severities \cup {NotDetected}, Observe(fp, s)
      PROVE  TypeOK'
  BY <1>2 DEF TypeOK, Observe, StoreTypeOK, storeVars, passVars
<1> QED BY <1>1, <1>2 DEF WorldStep

LEMMA InitType == Init => TypeOK
BY DEF Init, StoreInit, TypeOK, StoreTypeOK, Stages

LEMMA NextType == TypeOK /\ [Next]_vars => TypeOK'
<1> SUFFICES ASSUME TypeOK, [Next]_vars PROVE TypeOK'
  OBVIOUS
<1>1. CASE UNCHANGED vars
  BY <1>1 DEF vars, TypeOK, StoreTypeOK
<1>2. CASE Next
  BY <1>2, DetectJobType, AlertJobType, ApiType, WorldType DEF Next, WorkerStep
<1> QED BY <1>1, <1>2

\* The variables keep their types: in particular a batch holds only findings a
\* detector returned, and a request only findings that exist.
THEOREM TypeCorrect == Spec => []TypeOK
BY InitType, NextType, PTL DEF Spec

-----------------------------------------------------------------------------
(* Which steps write to the findings table, and how.                       *)

\* A new open row of a fingerprint that had none.
Inserts(fp, s) ==
  /\ OpenRows(fp) = {}
  /\ Insert([fp |-> fp, severity |-> s, status |-> "open"])

LEMMA WorkerWrites ==
  ASSUME TypeOK, NEW w \in Workers, WorkerStep(w)
  PROVE  \/ UNCHANGED findings
         \/ \E fp \in Fingerprints, s \in Severities : Inserts(fp, s)
<1>1. ASSUME NEW f \in batch[w], UpsertFinding(w, f)
      PROVE  UNCHANGED findings \/ Inserts(f.fp, f.severity)
  BY <1>1 DEF UpsertFinding, Upsert, Inserts
<1>2. \A f \in batch[w] : f.fp \in Fingerprints /\ f.severity \in Severities
  BY DEF TypeOK, Found
<1>3. CASE \E f \in batch[w] : UpsertFinding(w, f)
  BY <1>1, <1>2, <1>3
<1>4. CASE ~\E f \in batch[w] : UpsertFinding(w, f)
  BY <1>4
  DEF WorkerStep, BeginPass, Detect, UpsertFails, BeginExposures, BeginSecrets,
      BeginRepoPass, ScanFails, EndDetect, Claim, ClaimFails, Send, SendFails,
      Stamp, StampFails, MarkAlerted, storeVars
<1> QED BY <1>3, <1>4

LEMMA OtherWrites ==
  ASSUME TypeOK, ApiStep \/ WorldStep
  PROVE  \/ UNCHANGED findings
         \/ \E i \in FindingIds, st \in Statuses : UpdateStatus(i, st)
<1>1. CASE ApiStep
  <2>1. ASSUME NEW q \in Requests, MarkSuppressed(q)
        PROVE  \E i \in FindingIds, st \in Statuses : UpdateStatus(i, st)
    BY <2>1, StoreAssumption DEF MarkSuppressed, TypeOK
  <2> QED BY <1>1, <2>1
          DEF ApiStep, UpdateFinding, SuppressFinding, CreateSuppression, MarkFails, storeVars
<1>2. CASE WorldStep
  BY <1>2 DEF WorldStep, Expire, ExpireSuppression, Observe, storeVars
<1> QED BY <1>1, <1>2

LEMMA NextWrites ==
  ASSUME TypeOK, [Next]_vars
  PROVE  \/ UNCHANGED findings
         \/ \E fp \in Fingerprints, s \in Severities : Inserts(fp, s)
         \/ \E i \in FindingIds, st \in Statuses : UpdateStatus(i, st)
<1>1. ASSUME NEW w \in Workers, Crash(w) PROVE UNCHANGED findings
  BY <1>1 DEF Crash, storeVars
<1> QED BY <1>1, WorkerWrites, OtherWrites DEF Next, vars

\* Inserting fills an id that was free, and nothing else.
LEMMA InsertRow ==
  ASSUME TypeOK, NEW row \in Finding, Insert(row)
  PROVE  \E i \in FindingIds :
           /\ i \notin Rows
           /\ findings'[i] = row
           /\ Rows' = Rows \cup {i}
           /\ \A j \in Rows : findings'[j] = findings[j]
<1>1. PICK i \in FindingIds \ Rows : findings' = [findings EXCEPT ![i] = row]
  BY DEF Insert
<1>2. row # NoRow
  BY StoreAssumption DEF Finding
<1> QED BY <1>1, <1>2 DEF TypeOK, StoreTypeOK, Rows

\* Updating a status changes that column of that row, and nothing else.
LEMMA UpdateStatusRow ==
  ASSUME TypeOK, NEW i \in FindingIds, NEW st \in Statuses, UpdateStatus(i, st)
  PROVE  /\ i \in Rows
         /\ Rows' = Rows
         /\ findings'[i] = [findings[i] EXCEPT !.status = st]
         /\ findings'[i] \in Finding
         /\ \A j \in FindingIds \ {i} : findings'[j] = findings[j]
<1>1. i \in Rows /\ findings[i] \in Finding
  BY DEF UpdateStatus, Rows, TypeOK, StoreTypeOK
<1>2. [findings[i] EXCEPT !.status = st] \in Finding
  BY <1>1 DEF Finding
<1>3. [findings[i] EXCEPT !.status = st] # NoRow
  BY <1>2, StoreAssumption DEF Finding
<1> QED BY <1>1, <1>2, <1>3 DEF UpdateStatus, Rows, TypeOK, StoreTypeOK

-----------------------------------------------------------------------------
(* Deduplication.                                                          *)

LEMMA NextDedupe ==
  ASSUME TypeOK, OneOpenPerFingerprint, [Next]_vars
  PROVE  OneOpenPerFingerprint'
<1>1. CASE UNCHANGED findings
  BY <1>1 DEF OneOpenPerFingerprint, OpenRows, Rows
<1>2. ASSUME NEW fp \in Fingerprints, NEW s \in Severities, Inserts(fp, s)
      PROVE  OneOpenPerFingerprint'
  <2>1. [fp |-> fp, severity |-> s, status |-> "open"] \in Finding
    BY StoreAssumption DEF Finding
  <2>2. PICK i \in FindingIds :
          /\ i \notin Rows
          /\ findings'[i] = [fp |-> fp, severity |-> s, status |-> "open"]
          /\ Rows' = Rows \cup {i}
          /\ \A j \in Rows : findings'[j] = findings[j]
    BY <1>2, <2>1, InsertRow DEF Inserts
  <2>3. OpenRows(fp)' = {i}
    BY <1>2, <2>2 DEF Inserts, OpenRows
  <2>4. ASSUME NEW p \in Fingerprints \ {fp} PROVE OpenRows(p)' = OpenRows(p)
    BY <2>2 DEF OpenRows
  <2> QED BY <2>3, <2>4 DEF OneOpenPerFingerprint
<1>3. ASSUME NEW i \in FindingIds, NEW st \in Statuses, UpdateStatus(i, st)
      PROVE  OneOpenPerFingerprint'
  <2> DEFINE p == findings[i].fp
  <2>1. /\ i \in Rows /\ Rows' = Rows
        /\ findings[i] \in Finding
        /\ findings'[i] = [findings[i] EXCEPT !.status = st]
        /\ \A j \in FindingIds \ {i} : findings'[j] = findings[j]
    BY <1>3, UpdateStatusRow DEF TypeOK, StoreTypeOK, Rows
  <2>2. findings'[i].fp = p /\ findings'[i].status = st
    BY <2>1 DEF Finding
  <2>3. CASE st = "open"
    <3>1. OpenRows(p) \subseteq {i}
      BY <1>3, <2>3 DEF UpdateStatus
    <3>2. \A fp \in Fingerprints : OpenRows(fp)' \subseteq OpenRows(fp) \cup {i}
      BY <2>1 DEF OpenRows, Rows
    <3>3. \A fp \in Fingerprints \ {p} : i \notin OpenRows(fp)'
      BY <2>2 DEF OpenRows
    <3> QED BY <3>1, <3>2, <3>3 DEF OneOpenPerFingerprint
  <2>4. CASE st # "open"
    <3>1. \A fp \in Fingerprints : OpenRows(fp)' \subseteq OpenRows(fp)
      BY <2>1, <2>2, <2>4 DEF OpenRows, Rows
    <3> QED BY <3>1 DEF OneOpenPerFingerprint
  <2> QED BY <2>3, <2>4
<1> QED BY <1>1, <1>2, <1>3, NextWrites

\* Whatever the workers and the API do between their statements, a fingerprint has
\* at most one open row: the deduplication the findings queue rests on.
THEOREM DedupeCorrect == Spec => []OneOpenPerFingerprint
<1>1. Init => OneOpenPerFingerprint
  BY DEF Init, StoreInit, OneOpenPerFingerprint, OpenRows, Rows
<1>2. TypeOK /\ OneOpenPerFingerprint /\ [Next]_vars => OneOpenPerFingerprint'
  BY NextDedupe
<1> QED BY <1>1, <1>2, TypeCorrect, PTL DEF Spec

\* No step of a worker changes a row that exists: what an operator decided about a
\* finding is never undone by detecting it again.
THEOREM VerdictsKept == Spec => WorkerKeepsVerdicts
<1>1. TypeOK /\ [Next]_vars
        => [passVars' # passVars => \A i \in Rows : findings'[i] = findings[i]]_vars
  <2> SUFFICES ASSUME TypeOK, Next, passVars' # passVars, NEW i \in Rows
               PROVE  findings'[i] = findings[i]
    BY DEF vars
  <2>1. ~ApiStep /\ ~WorldStep
    BY DEF ApiStep, UpdateFinding, SuppressFinding, MarkSuppressed, MarkFails,
           WorldStep, Expire, Observe
  <2>2. PICK w \in Workers : WorkerStep(w) \/ Crash(w)
    BY <2>1 DEF Next
  <2>3. CASE UNCHANGED findings
    BY <2>3
  <2>4. ASSUME NEW fp \in Fingerprints, NEW s \in Severities, Inserts(fp, s)
        PROVE  findings'[i] = findings[i]
    <3>1. [fp |-> fp, severity |-> s, status |-> "open"] \in Finding
      BY StoreAssumption DEF Finding
    <3> QED BY <2>4, <3>1, InsertRow DEF Inserts
  <2> QED BY <2>2, <2>3, <2>4, WorkerWrites DEF Crash, storeVars
<1> QED BY <1>1, TypeCorrect, PTL DEF Spec, WorkerKeepsVerdicts

-----------------------------------------------------------------------------
(* Alerting.  What a worker carries from Claim to Stamp is what makes       *)
(* StampedWasDelivered inductive: the rows it claimed were alertable, and   *)
(* once it is about to stamp them, the sink has them.                       *)

AlertInv ==
  /\ alertedAt \subseteq Delivered
  /\ Delivered \subseteq Alertable
  /\ \A w \in Workers : claimed[w] \subseteq Alertable
  /\ \A w \in Workers : stage[w] = "stamp" => claimed[w] \subseteq Delivered

\* Rows are never deleted, and keep the severity they were inserted with.
LEMMA AlertableGrows ==
  ASSUME TypeOK, [Next]_vars
  PROVE  Alertable \subseteq Alertable'
<1>1. CASE UNCHANGED findings
  BY <1>1 DEF Alertable, Rows
<1>2. ASSUME NEW fp \in Fingerprints, NEW s \in Severities, Inserts(fp, s)
      PROVE  Alertable \subseteq Alertable'
  <2>1. [fp |-> fp, severity |-> s, status |-> "open"] \in Finding
    BY StoreAssumption DEF Finding
  <2> QED BY <1>2, <2>1, InsertRow DEF Inserts, Alertable
<1>3. ASSUME NEW i \in FindingIds, NEW st \in Statuses, UpdateStatus(i, st)
      PROVE  Alertable \subseteq Alertable'
  <2>1. findings[i] \in Finding
    BY <1>3, UpdateStatusRow DEF TypeOK, StoreTypeOK, Rows
  <2>2. findings'[i].severity = findings[i].severity
    BY <1>3, <2>1, UpdateStatusRow DEF Finding
  <2> QED BY <1>3, <2>2, UpdateStatusRow DEF Alertable, Rows
<1> QED BY <1>1, <1>2, <1>3, NextWrites

LEMMA ReceivedDelivers ==
  ASSUME TypeOK, NEW ids \in SUBSET FindingIds, deliveries' = Received(ids)
  PROVE  Delivered' = Delivered \cup ids
BY DEF Delivered, Received, AtMostTwo, TypeOK

\* A step that leaves sweeps, stamps and deliveries alone.
LEMMA AlertFrame ==
  ASSUME TypeOK, AlertInv, [Next]_vars,
         UNCHANGED <<alertedAt, deliveries, claimed>>,
         \A w \in Workers : stage'[w] = "stamp" => stage[w] = "stamp"
  PROVE  AlertInv'
BY AlertableGrows DEF AlertInv, Delivered

LEMMA SweepAlerts ==
  ASSUME TypeOK, AlertInv, [Next]_vars, NEW w \in Workers,
         Claim(w) \/ Send(w) \/ SendFails(w) \/ Stamp(w) \/ StampFails(w) \/ Crash(w)
  PROVE  AlertInv'
<1> USE AlertableGrows
<1>0. claimed[w] \in SUBSET FindingIds /\ claimed[w] \subseteq Alertable
  BY DEF TypeOK, AlertInv
<1>1. CASE Claim(w)
  <2>1. Oldest(Unalerted, BatchLimit) \subseteq Alertable
    BY DEF Oldest, Unalerted, Alertable
  <2> QED BY <1>1, <2>1 DEF Claim, AlertInv, Delivered, TypeOK, storeVars
<1>2. CASE Send(w)
  <2>1. Delivered' = Delivered \cup claimed[w]
    BY <1>0, <1>2, ReceivedDelivers DEF Send
  <2> QED BY <1>0, <1>2, <2>1 DEF Send, AlertInv, TypeOK, storeVars
<1>3. CASE SendFails(w)
  <2>1. Delivered' = Delivered \/ Delivered' = Delivered \cup claimed[w]
    BY <1>0, <1>3, ReceivedDelivers DEF SendFails, Delivered
  <2> QED BY <1>0, <1>3, <2>1 DEF SendFails, EndSweep, AlertInv, TypeOK, storeVars
<1>4. CASE Stamp(w)
  BY <1>4 DEF Stamp, MarkAlerted, EndSweep, AlertInv, Delivered, TypeOK
<1>5. CASE StampFails(w)
  BY <1>5 DEF StampFails, EndSweep, AlertInv, Delivered, TypeOK, storeVars
<1>6. CASE Crash(w)
  BY <1>6 DEF Crash, AlertInv, Delivered, TypeOK, storeVars
<1> QED BY <1>1, <1>2, <1>3, <1>4, <1>5, <1>6

LEMMA NextAlerts ==
  ASSUME TypeOK, AlertInv, [Next]_vars
  PROVE  AlertInv'
<1>1. CASE UNCHANGED vars
  BY <1>1, AlertFrame DEF vars
<1>2. CASE ApiStep
  BY <1>2, AlertFrame
  DEF ApiStep, UpdateFinding, UpdateStatus, SuppressFinding, CreateSuppression,
      MarkSuppressed, MarkFails, storeVars, passVars
<1>3. CASE WorldStep
  BY <1>3, AlertFrame DEF WorldStep, Expire, ExpireSuppression, Observe, storeVars, passVars
<1>4. ASSUME NEW w \in Workers, WorkerStep(w) \/ Crash(w) PROVE AlertInv'
  <2>1. CASE Claim(w) \/ Send(w) \/ SendFails(w) \/ Stamp(w) \/ StampFails(w) \/ Crash(w)
    BY <2>1, SweepAlerts
  <2>2. CASE \E f \in batch[w] : UpsertFinding(w, f)
    BY <2>2, AlertFrame DEF UpsertFinding, Upsert
  <2>3. CASE \/ BeginPass(w)
             \/ \E i \in Identities : Detect(w, i)
             \/ \E f \in batch[w] : UpsertFails(w, f)
             \/ BeginExposures(w) \/ BeginSecrets(w)
             \/ ScanFails(w) \/ EndDetect(w) \/ ClaimFails(w)
    BY <2>3, AlertFrame
    DEF TypeOK, BeginPass, Detect, UpsertFails, BeginExposures, BeginSecrets, BeginRepoPass,
        ScanFails, EndDetect, ClaimFails, storeVars
  <2> QED BY <1>4, <2>1, <2>2, <2>3 DEF WorkerStep
<1> QED BY <1>1, <1>2, <1>3, <1>4 DEF Next

LEMMA AlertInvCorrect == Spec => []AlertInv
<1>1. Init => AlertInv
  BY DEF Init, StoreInit, AlertInv, Delivered, Alertable
<1>2. TypeOK /\ AlertInv /\ [Next]_vars => AlertInv'
  BY NextAlerts
<1> QED BY <1>1, <1>2, TypeCorrect, PTL DEF Spec

\* alerted_at is set only on findings the sink has received, whatever fails or
\* crashes between the claim and the stamp and however many workers sweep.
THEOREM StampCorrect == Spec => []StampedWasDelivered
<1>1. AlertInv => StampedWasDelivered
  BY DEF AlertInv, StampedWasDelivered, Delivered
<1> QED BY <1>1, AlertInvCorrect, PTL

-----------------------------------------------------------------------------
(* Alerting once.  It holds for the chart's single worker as long as no     *)
(* step between the delivery and the stamp fails; the inductive part is     *)
(* that a finding delivered and not stamped is one being stamped now.       *)

OneSweep == \A v, w \in Workers : v = w

NothingHalfDone == Faults \cap {"ambiguous", "stamp", "crash"} = {}

OnceInv ==
  /\ \A i \in FindingIds : deliveries[i] \in {0, 1}
  /\ \A i \in FindingIds : deliveries[i] = 1 /\ i \notin alertedAt =>
        \E w \in Workers : stage[w] = "stamp" /\ i \in claimed[w]
  /\ \A w \in Workers : stage[w] = "send" => \A i \in claimed[w] : deliveries[i] = 0

\* A step that leaves sweeps, stamps and deliveries alone.
LEMMA OnceFrame ==
  ASSUME OnceInv, UNCHANGED <<alertedAt, deliveries, claimed>>,
         \A w \in Workers : /\ stage'[w] = "send" => stage[w] = "send"
                            /\ stage[w] = "stamp" => stage'[w] = "stamp"
  PROVE  OnceInv'
BY DEF OnceInv

LEMMA SweepOnce ==
  ASSUME OneSweep, NothingHalfDone, TypeOK, OnceInv, NEW w \in Workers,
         Claim(w) \/ Send(w) \/ SendFails(w) \/ Stamp(w) \/ StampFails(w) \/ Crash(w)
  PROVE  OnceInv'
<1>0. /\ Workers = {w} /\ claimed[w] \in SUBSET FindingIds
      /\ stage \in [Workers -> Stages] /\ claimed \in [Workers -> SUBSET FindingIds]
      /\ deliveries \in [FindingIds -> 0..2]
  BY DEF OneSweep, TypeOK
<1>1. CASE Claim(w)
  <2> DEFINE ids == Oldest(Unalerted, BatchLimit)
  <2>1. ids \subseteq FindingIds \ alertedAt BY DEF Oldest, Unalerted, Rows
  <2>2. \A i \in ids : deliveries[i] = 0 BY <1>0, <1>1, <2>1 DEF OnceInv, Claim
  <2>3. claimed'[w] = ids /\ stage'[w] \in {"idle", "send"} BY <1>0, <1>1 DEF Claim
  <2>4. \A i \in FindingIds : deliveries[i] = 1 => i \in alertedAt
    BY <1>0, <1>1 DEF OnceInv, Claim
  <2> QED BY <1>0, <1>1, <2>2, <2>3, <2>4 DEF OnceInv, Claim, storeVars
<1>2. CASE Send(w)
  <2>1. \A i \in FindingIds :
            deliveries'[i] = IF i \in claimed[w] THEN 1 ELSE deliveries[i]
    BY <1>0, <1>2 DEF Send, Received, AtMostTwo, OnceInv
  <2>2. \A i \in FindingIds : deliveries[i] = 1 => i \in alertedAt
    BY <1>0, <1>2 DEF OnceInv, Send
  <2>3. stage'[w] = "stamp" /\ claimed' = claimed /\ alertedAt' = alertedAt
    BY <1>0, <1>2 DEF Send, storeVars
  <2> QED BY <1>0, <2>1, <2>2, <2>3 DEF OnceInv
<1>3. CASE SendFails(w)
  <2>1. UNCHANGED <<deliveries, alertedAt>>
    BY <1>3 DEF SendFails, NothingHalfDone, storeVars
  <2>2. stage[w] = "send" /\ stage'[w] = "idle" BY <1>0, <1>3 DEF SendFails, EndSweep
  <2> QED BY <1>0, <2>1, <2>2 DEF OnceInv
<1>4. CASE Stamp(w)
  <2>1. alertedAt' = alertedAt \cup claimed[w] /\ deliveries' = deliveries
    BY <1>4 DEF Stamp, MarkAlerted
  <2>2. stage'[w] = "idle" BY <1>0, <1>4 DEF Stamp, EndSweep
  <2> QED BY <1>0, <2>1, <2>2 DEF OnceInv
<1>5. ~StampFails(w) /\ ~Crash(w) BY DEF StampFails, Crash, NothingHalfDone
<1> QED BY <1>1, <1>2, <1>3, <1>4, <1>5

LEMMA NextOnce ==
  ASSUME OneSweep, NothingHalfDone, TypeOK, OnceInv, [Next]_vars
  PROVE  OnceInv'
<1>1. CASE UNCHANGED vars
  BY <1>1, OnceFrame DEF vars
<1>2. CASE ApiStep
  BY <1>2, OnceFrame
  DEF ApiStep, UpdateFinding, UpdateStatus, SuppressFinding, CreateSuppression,
      MarkSuppressed, MarkFails, storeVars, passVars
<1>3. CASE WorldStep
  BY <1>3, OnceFrame DEF WorldStep, Expire, ExpireSuppression, Observe, storeVars, passVars
<1>4. ASSUME NEW w \in Workers, WorkerStep(w) \/ Crash(w) PROVE OnceInv'
  <2>1. CASE Claim(w) \/ Send(w) \/ SendFails(w) \/ Stamp(w) \/ StampFails(w) \/ Crash(w)
    BY <2>1, SweepOnce
  <2>2. CASE \E f \in batch[w] : UpsertFinding(w, f)
    BY <2>2, OnceFrame DEF UpsertFinding, Upsert
  <2>3. CASE \/ BeginPass(w)
             \/ \E i \in Identities : Detect(w, i)
             \/ \E f \in batch[w] : UpsertFails(w, f)
             \/ BeginExposures(w) \/ BeginSecrets(w)
             \/ ScanFails(w) \/ EndDetect(w) \/ ClaimFails(w)
    BY <2>3, OnceFrame
    DEF TypeOK, BeginPass, Detect, UpsertFails, BeginExposures, BeginSecrets, BeginRepoPass,
        ScanFails, EndDetect, ClaimFails, storeVars
  <2> QED BY <1>4, <2>1, <2>2, <2>3 DEF WorkerStep
<1> QED BY <1>1, <1>2, <1>3, <1>4 DEF Next

\* One worker, as the Helm chart deploys it, alerts a finding once, whatever operators do
\* to it in the middle of a sweep and however often a sweep fails before its delivery.
THEOREM AlertedOnce ==
  ASSUME OneSweep, NothingHalfDone
  PROVE  Spec => []AlertedAtMostOnce
<1>1. Init => OnceInv
  BY DEF Init, StoreInit, OnceInv
<1>2. TypeOK /\ OnceInv /\ [Next]_vars => OnceInv'
  BY NextOnce
<1>3. OnceInv => AlertedAtMostOnce
  BY DEF OnceInv, AlertedAtMostOnce
<1> QED BY <1>1, <1>2, <1>3, TypeCorrect, PTL DEF Spec

-----------------------------------------------------------------------------
(* Refinement.                                                             *)

LEMMA InsertRefines ==
  ASSUME TypeOK, AlertInv, UNCHANGED <<alertedAt, deliveries>>,
         NEW fp \in Fingerprints, NEW s \in Severities, Inserts(fp, s)
  PROVE  Outbox!Next \/ UNCHANGED Outbox!outbox
<1> DEFINE row == [fp |-> fp, severity |-> s, status |-> "open"]
<1>1. row \in Finding
  BY StoreAssumption DEF Finding
<1>2. PICK i \in FindingIds : /\ i \notin Rows
                             /\ findings'[i] = row
                             /\ Rows' = Rows \cup {i}
                             /\ \A j \in Rows : findings'[j] = findings[j]
  BY <1>1, InsertRow DEF Inserts
<1>3. i \notin Alertable /\ i \notin alertedAt
  BY <1>2 DEF Alertable, AlertInv
<1>4. UNCHANGED Delivered
  BY DEF Delivered
<1>5. CASE s \in AlertSeverities
  <2>1. Alertable' = Alertable \cup {i}
    BY <1>2, <1>5 DEF Alertable
  <2>2. Unalerted' = Unalerted \cup {i}
    BY <1>2, <1>3, <1>5 DEF Unalerted
  <2>3. Outbox!Raise(i)
    BY <1>3, <1>4, <2>1, <2>2 DEF Outbox!Raise
  <2> QED BY <2>3 DEF Outbox!Next
<1>6. CASE s \notin AlertSeverities
  <2>1. UNCHANGED <<Alertable, Unalerted>>
    BY <1>2, <1>6 DEF Alertable, Unalerted
  <2> QED BY <1>4, <2>1 DEF Outbox!outbox
<1> QED BY <1>5, <1>6

LEMMA UpdateRefines ==
  ASSUME TypeOK, AlertInv, UNCHANGED <<alertedAt, deliveries>>,
         NEW i \in FindingIds, NEW st \in Statuses, UpdateStatus(i, st)
  PROVE  Outbox!Next \/ UNCHANGED Outbox!outbox
<1>1. /\ i \in Rows /\ Rows' = Rows
      /\ findings[i] \in Finding
      /\ findings'[i] = [findings[i] EXCEPT !.status = st]
      /\ \A j \in FindingIds \ {i} : findings'[j] = findings[j]
  BY UpdateStatusRow DEF TypeOK, StoreTypeOK, Rows
<1>2. findings'[i].severity = findings[i].severity /\ findings'[i].status = st
  BY <1>1 DEF Finding
<1>3. UNCHANGED <<Alertable, Delivered>>
  BY <1>1, <1>2 DEF Alertable, Delivered, Rows
<1>4. Unalerted \ {i} = Unalerted' \ {i}
  BY <1>1 DEF Unalerted, Rows
<1>5. CASE i \in Unalerted <=> i \in (Unalerted')
  <2>1. UNCHANGED Unalerted
    BY <1>4, <1>5 DEF Unalerted
  <2> QED BY <1>3, <2>1 DEF Outbox!outbox
<1>6. CASE i \in Unalerted /\ i \notin (Unalerted')
  <2>1. Outbox!Withdraw(i)
    BY <1>3, <1>4, <1>6 DEF Outbox!Withdraw
  <2> QED BY <2>1 DEF Outbox!Next
<1>7. CASE i \notin Unalerted /\ i \in (Unalerted')
  <2>1. i \in Alertable \ alertedAt
    BY <1>1, <1>2, <1>7 DEF Unalerted, Alertable
  <2>2. Outbox!PutBack(i)
    BY <1>3, <1>4, <1>7, <2>1 DEF Outbox!PutBack
  <2> QED BY <2>2 DEF Outbox!Next
<1> QED BY <1>5, <1>6, <1>7

LEMMA SweepRefines ==
  ASSUME TypeOK, AlertInv, NEW w \in Workers, Send(w) \/ SendFails(w) \/ Stamp(w)
  PROVE  Outbox!Next \/ UNCHANGED Outbox!outbox
<1>0. claimed[w] \in SUBSET FindingIds /\ claimed[w] \subseteq Alertable
  BY DEF TypeOK, AlertInv
<1>1. CASE deliveries' = Received(claimed[w]) /\ UNCHANGED storeVars
  <2>1. Delivered' = Delivered \cup claimed[w]
    BY <1>0, <1>1, ReceivedDelivers
  <2>2. UNCHANGED <<Alertable, Unalerted, alertedAt>>
    BY <1>1 DEF storeVars, Alertable, Unalerted, Rows
  <2>3. Outbox!Deliver(claimed[w])
    BY <1>0, <2>1, <2>2 DEF Outbox!Deliver
  <2> QED BY <1>0, <2>3 DEF Outbox!Next
<1>2. CASE UNCHANGED <<storeVars, deliveries>>
  BY <1>2 DEF storeVars, Outbox!outbox, Alertable, Unalerted, Delivered, Rows
<1>3. CASE Stamp(w)
  <2>1. claimed[w] \subseteq Delivered
    BY <1>3 DEF Stamp, AlertInv
  <2>2. UNCHANGED <<Alertable, Delivered>> /\ alertedAt' = alertedAt \cup claimed[w]
    BY <1>3 DEF Stamp, MarkAlerted, Alertable, Delivered, Rows
  <2>3. Unalerted' = Unalerted \ claimed[w]
    BY <1>3 DEF Stamp, MarkAlerted, Unalerted, Rows
  <2>4. Outbox!Settle(claimed[w])
    BY <2>1, <2>2, <2>3 DEF Outbox!Settle
  <2> QED BY <1>0, <2>4 DEF Outbox!Next
<1> QED BY <1>1, <1>2, <1>3 DEF Send, SendFails

LEMMA NextRefines ==
  ASSUME TypeOK, AlertInv, [Next]_vars
  PROVE  Outbox!Next \/ UNCHANGED Outbox!outbox
<1>1. CASE UNCHANGED <<findings, alertedAt, deliveries>>
  BY <1>1 DEF Outbox!outbox, Alertable, Unalerted, Delivered, Rows
<1>2. CASE UNCHANGED <<alertedAt, deliveries>>
  BY <1>1, <1>2, NextWrites, InsertRefines, UpdateRefines
<1>3. CASE \E w \in Workers : Send(w) \/ SendFails(w) \/ Stamp(w)
  BY <1>3, SweepRefines
<1>4. CASE ~\E w \in Workers : Send(w) \/ SendFails(w) \/ Stamp(w)
  <2>1. UNCHANGED <<alertedAt, deliveries>>
    BY <1>4
    DEF Next, WorkerStep, BeginPass, Detect, UpsertFinding, Upsert, UpsertFails, BeginExposures,
        BeginSecrets, BeginRepoPass, ScanFails, EndDetect, Claim, ClaimFails, StampFails, Crash,
        ApiStep, UpdateFinding, UpdateStatus, SuppressFinding, CreateSuppression, MarkSuppressed,
        MarkFails, WorldStep, Expire, ExpireSuppression, Observe, storeVars, vars
  <2> QED BY <2>1, <1>2
<1> QED BY <1>3, <1>4

\* The sweep, its failures and the operators who close and re-open findings behind
\* its back implement the outbox of docs/ALERTING.md: what the sink receives was
\* raised, and a finding is settled only once received.
THEOREM OutboxImplemented == Spec => ImplementsOutbox
<1>1. Init => Outbox!Init
  <2>1. Init => Rows = {} /\ alertedAt = {} /\ Delivered = {}
    BY DEF Init, StoreInit, Rows, Delivered
  <2> QED BY <2>1 DEF Outbox!Init, Alertable, Unalerted
<1>2. TypeOK /\ AlertInv /\ [Next]_vars => [Outbox!Next]_(Outbox!outbox)
  BY NextRefines
<1> QED BY <1>1, <1>2, TypeCorrect, AlertInvCorrect, PTL DEF Spec, ImplementsOutbox, Outbox!Spec
=============================================================================
