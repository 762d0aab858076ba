\* One worker, one suppression request, no failures.
SPECIFICATION Spec
CONSTANTS
  FindingIds = {1, 2}
  Fingerprints = {"key"}
  Detectors = {"stale_access_key"}
  Identities = {"svc"}
  NoIdentity = "none"
  DetectorOf <- KeyDetector
  SubjectOf <- KeySubject
  Severities = {"high"}
  AlertSeverities = {"high"}
  Statuses = {"open", "triaged", "suppressed"}
  NoRow = NoRow
  Workers = {w1}
  Requests = {q1}
  NotDetected = "none"
  ExposureDetector = "secret_exposed_in_repo"
  BatchLimit = 1
  Faults = {}
  Volatile = {}
  MaxSuppressions = 1
  MaxCrashes = 0
PROPERTIES
  SuppressedNeverSurfaces
