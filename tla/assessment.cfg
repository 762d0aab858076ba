SPECIFICATION FairSpec
CONSTANTS
    I = I
    k1 = k1
    r1 = r1
    r2 = r2
    r3 = r3
    t1 = t1
    t2 = t2
    t3 = t3
    t4 = t4
    b1 = b1
    x1 = x1
    Weight <- MCWeight
    Points <- MCPoints
    Boost <- MCBoost
    Cfg <- MCCfg
    Distance <- MCDistance
    Sensitive = {"kms:Decrypt"}
    SpikeHours = 720
    Self <- MCSelf
    Identities <- BreakGlass
    Universe <- MCUniverse
    Granted <- MCGranted
    Estates <- MCEstates
    Feed <- MCFeed
    Known = {r2, b1, k1, t2, t3}
    KnownEvents = 1
    PeerPerms = 5
    PeerReach = 0
    Decisions = {"done"}
    MaxHops = 5
    MaxEvents = 1
INVARIANTS
    TypeOK
    ScoreIsSupported
    FixNeverRaisesRisk
PROPERTIES
    DecisionsKept
    ScoreConverges
    SignalsAreReported
    RecommendationsConverge
