SPECIFICATION FairSpec
CONSTANTS
  Consumer = worker
  DirectRunners = {cron}
  Jobs = {j1}
  NoJob = NoJob
  PageLimit = 1
  Faults = {"start", "collect", "insert", "load", "save", "crash", "age"}
  Lookback = 1
  MaxTime = 3
PROPERTY
  JobsSettle
