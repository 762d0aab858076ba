SPECIFICATION Spec
CONSTANTS
  Consumer = worker
  DirectRunners = {cron}
  Jobs = {j1}
  NoJob = NoJob
  PageLimit = 1
  Faults = {"start", "collect", "page", "insert", "load", "save", "finish", "crash", "late", "age"}
  Lookback = 1
  MaxTime = 4
INVARIANTS
  TypeOK
  CursorAccounted
  AckedIsCovered
  StoredOnce
