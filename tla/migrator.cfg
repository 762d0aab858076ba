SPECIFICATION FairSpec
CONSTANTS
    Migrators = {"a", "b", "c"}
    Files <- MCFiles
    Release <- MCRelease
    Attempts <- MCAttempts
    Repeatable = {"0002_aws", "0003_remediation"}
    MaxFaults = 1
INVARIANTS
    TypeOK
    AppliedOnce
    InOrder
    ExitZeroMeansMigrated
PROPERTIES
    Upgraded
CHECK_DEADLOCK FALSE
