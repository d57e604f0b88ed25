CONSTANTS
    n1 = n1
    n2 = n2
    a = a
    None = None
    Announcers = {n1, n2}
    Resources = {a}
    AnnouncedResources <- MCAnnouncedResources
    Authorized <- MCAuthorized
    Ahead <- MCAhead
    HeartbeatInterval = 1
    MaxMissed = 2
    SettlementWindow = 1
    SettlementGrace = 2
    MaxClockSkew = 1
    CacheTtl = 1
    UptimeWindow = 3
    PerTick = 2
    MaxTime = 4
    MaxRounds = 2
    MaxRestarts = 1
    MaxSettlements = 1
SPECIFICATION Spec
INVARIANTS
    HandledInOrder
    ShownIsHonest
    OnlyOldNewsIsSuppressed
PROPERTY
    SequenceNeverDown
CHECK_DEADLOCK FALSE
