\* Two workers, one suppression request and every fault over one fingerprint.
SPECIFICATION Spec
CONSTANTS
  FindingIds = {1, 2}
  Fingerprints = {"key"}
  Detectors = {"stale_access_key"}
  Identities = {"svc"}
  NoIdentity = "none"
  DetectorOf <- KeyDetector
  SubjectOf <- KeySubject
  Severities = {"high"}
  AlertSeverities = {"high"}
  Statuses = {"open", "triaged", "suppressed"}
  NoRow = NoRow
  Workers = {w1, w2}
  Requests = {q1}
  NotDetected = "none"
  ExposureDetector = "secret_exposed_in_repo"
  BatchLimit = 1
  Faults = {"list", "scan", "upsert", "claim", "send", "ambiguous", "stamp", "mark", "crash"}
  Volatile = {"key"}
  MaxSuppressions = 1
  MaxCrashes = 1
INVARIANTS
  TypeOK
  OneOpenPerFingerprint
  StampedWasDelivered
PROPERTIES
  WorkerKeepsVerdicts
  ImplementsOutbox
SYMMETRY Symmetric
