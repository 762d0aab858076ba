---------------------------- MODULE FindingStore ----------------------------
(***************************************************************************)
(* The findings and suppressions tables of the store, and the SQL          *)
(* statements the worker and the API issue against them: FindingRepo in    *)
(* internal/store/findings.go and SuppressionRepo in                       *)
(* internal/store/api_repos.go, over the schema of migrations 0001 and     *)
(* 0006.  Each statement runs in its own implicit transaction, so each is  *)
(* one indivisible operator here; what is not atomic is the code between   *)
(* two statements, and that is FindingPipeline's.                          *)
(*                                                                         *)
(* A finding keeps the columns a decision depends on: fingerprint,         *)
(* severity, status and whether alerted_at is NULL.  Narrative, evidence,  *)
(* confidence, snapshot, assignee and notes are left out.  The order of    *)
(* FindingIds is the order of insertion, hence of first_seen_at.           *)
(***************************************************************************)
EXTENDS Naturals, FiniteSets

CONSTANTS
  FindingIds,       \* row ids, numbered in the order they are issued
  Fingerprints,     \* dedupe keys: one per detector, subject, salient evidence
  Detectors,
  Identities,
  NoIdentity,       \* NULL identity_id: a repository or secret finding
  DetectorOf,       \* the detector a fingerprint belongs to
  SubjectOf,        \* the identity a fingerprint is about, or NoIdentity
  Severities,
  AlertSeverities,  \* severities at or above notify.min_severity
  Statuses,         \* what a status column may hold; free text in the code
  NoRow             \* an id that has not been issued

ASSUME StoreAssumption ==
  /\ FindingIds \subseteq Nat
  /\ NoIdentity \notin Identities
  /\ DetectorOf \in [Fingerprints -> Detectors]
  /\ SubjectOf \in [Fingerprints -> Identities \cup {NoIdentity}]
  /\ AlertSeverities \subseteq Severities
  /\ "open" \in Statuses
  /\ "suppressed" \in Statuses
  /\ NoRow \notin [fp : Fingerprints, severity : Severities, status : Statuses]

VARIABLES
  findings,      \* the findings table: id -> row, NoRow when not issued
  alertedAt,     \* ids whose alerted_at is not NULL
  suppressions   \* the unexpired rows of the suppressions table

storeVars == <<findings, alertedAt, suppressions>>

Finding == [fp : Fingerprints, severity : Severities, status : Statuses]

\* Identity NoIdentity is SQL NULL, which matches every identity.
Suppression ==
  [detector : Detectors, identity : Identities \cup {NoIdentity}, expires : BOOLEAN]

StoreTypeOK ==
  /\ findings \in [FindingIds -> Finding \cup {NoRow}]
  /\ alertedAt \subseteq FindingIds
  /\ suppressions \subseteq Suppression

StoreInit ==
  /\ findings = [i \in FindingIds |-> NoRow]
  /\ alertedAt = {}
  /\ suppressions = {}

-----------------------------------------------------------------------------
(* Queries.                                                                *)

Rows == {i \in FindingIds : findings[i] # NoRow}

IsOpen(i) == i \in Rows /\ findings[i].status = "open"

\* What the partial unique index uq_findings_open_fp ranges over.
OpenRows(fp) == {i \in Rows : findings[i].fp = fp /\ findings[i].status = "open"}

\* suppressor: a NULL identity is a wildcard.  A repository finding is matched
\* as uuid.Nil, so only a wildcard matches it.
Matches(sups, fp) ==
  \E s \in sups :
    /\ s.detector = DetectorOf[fp]
    /\ s.identity \in {NoIdentity, SubjectOf[fp]}

\* ClaimUnalerted's WHERE clause.
Unalerted ==
  {i \in Rows : /\ findings[i].status = "open"
                /\ i \notin alertedAt
                /\ findings[i].severity \in AlertSeverities}

\* ORDER BY first_seen_at ASC LIMIT limit.
Oldest(S, limit) == {i \in S : Cardinality({j \in S : j < i}) < limit}

-----------------------------------------------------------------------------
(* Statements.                                                             *)

\* A new row takes the least id not yet issued.
Insert(row) ==
  \E i \in FindingIds \ Rows :
    /\ \A j \in FindingIds \ Rows : i <= j
    /\ findings' = [findings EXCEPT ![i] = row]

\* Mutant: no ON CONFLICT clause and no unique index.
UpsertWithoutConflict(fp, severity) ==
  /\ Insert([fp |-> fp, severity |-> severity, status |-> "open"])
  /\ UNCHANGED <<alertedAt, suppressions>>

\* Mutant: ON CONFLICT (fingerprint) for rows of any status, which are re-opened.
UpsertReopens(fp, severity) ==
  /\ IF \E i \in Rows : findings[i].fp = fp
       THEN findings' = [i \in FindingIds |->
              IF i \in Rows /\ findings[i].fp = fp
                THEN [findings[i] EXCEPT !.status = "open"] ELSE findings[i]]
       ELSE Insert([fp |-> fp, severity |-> severity, status |-> "open"])
  /\ UNCHANGED <<alertedAt, suppressions>>

\* INSERT ... ON CONFLICT (fingerprint) WHERE status='open' DO UPDATE: touches
\* the open row, whose severity and status it leaves alone, or inserts one.
Upsert(fp, severity) ==
  /\ \/ OpenRows(fp) # {} /\ UNCHANGED findings
     \/ /\ OpenRows(fp) = {}
        /\ Insert([fp |-> fp, severity |-> severity, status |-> "open"])
  /\ UNCHANGED <<alertedAt, suppressions>>

\* The unique index refuses a second open row of one fingerprint.
UpdateStatus(i, status) ==
  /\ i \in Rows
  /\ status = "open" => OpenRows(findings[i].fp) \subseteq {i}
  /\ findings' = [findings EXCEPT ![i].status = status]
  /\ UNCHANGED <<alertedAt, suppressions>>

\* Mutant: only the rows that are still open are stamped.
MarkOpenAlerted(ids) ==
  /\ alertedAt' = alertedAt \cup {i \in ids : IsOpen(i)}
  /\ UNCHANGED <<findings, suppressions>>

\* MarkAlerted: by id only, whatever became of the rows since they were read.
MarkAlerted(ids) ==
  /\ alertedAt' = alertedAt \cup ids
  /\ UNCHANGED <<findings, suppressions>>

CreateSuppression(sup) ==
  /\ suppressions' = suppressions \cup {sup}
  /\ UNCHANGED <<findings, alertedAt>>

\* expires_at passes: the row drops out of ListActive.
ExpireSuppression(sup) ==
  /\ sup \in suppressions /\ sup.expires
  /\ suppressions' = suppressions \ {sup}
  /\ UNCHANGED <<findings, alertedAt>>

=============================================================================
