\* One worker under fairness: two fingerprints of two passes, alerts one at a time,
\* failures that come and go but leave no send or stamp half done.
SPECIFICATION FairSpec
CONSTANTS
  FindingIds = {1, 2, 3}
  Fingerprints = {"key", "secret"}
  Detectors = {"stale_access_key", "unused_secret"}
  Identities = {"svc"}
  NoIdentity = "none"
  DetectorOf <- PassDetector
  SubjectOf <- PassSubject
  Severities = {"high"}
  AlertSeverities = {"high"}
  Statuses = {"open", "suppressed"}
  NoRow = NoRow
  Workers = {w1}
  Requests = {q1}
  NotDetected = "none"
  ExposureDetector = "secret_exposed_in_repo"
  BatchLimit = 1
  Faults = {"scan", "upsert", "claim", "send"}
  Volatile = {}
  MaxSuppressions = 1
  MaxCrashes = 0
INVARIANTS
  AlertedAtMostOnce
PROPERTIES
  PersistentIsRaised
  SuppressionTakesHold
  OutboxFlushes
