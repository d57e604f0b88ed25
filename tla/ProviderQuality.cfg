CONSTANTS
    c1 = c1
    c2 = c2
    e1 = e1
    e2 = e2
    p = p
    d1 = d1
    d2 = d2
    None = None
    Calls = {c1, c2}
    Url <- MCUrl
    AllowLocal = FALSE
    Payees = {p}
    Offers <- MCOffers
    Ceilings = {1, 2}
    Sellers <- MCSellers
    Reports <- MCReports
    MaxUsage = 1
    Absent = Absent
    CallIds = {c1, c2}
    EndpointOf <- MCEndpointOf
    Observations <- MCReported
    OwnSigners = {"payee"}
    Observers = {"observer"}
    Pushed <- MCPushed
    HoldAbove <- MCHoldAbove
    MaxChanges = 1
    Endpoints = {e1, e2}
    QueueLimit = 1
    Drains = {d1, d2}
    Watched = e1
    Issuers = {"issuer"}
    ReportAge = 0
    Skew = 1
    Window = 0
    InsufficientData = "hold"
    ServeAge = 1
    MaxAge = 0
    CacheTtl = 0
    MaxStale = 1
    MaxTime = 1
    MaxFailures = 1
SPECIFICATION RunSpec
SYMMETRY DrainSymmetry
INVARIANTS
    ChargedWithinBounds
    ProviderFaultIsNotCharged
    NothingReportedIsLost
    HoldRestsOnFreshEvidence
CHECK_DEADLOCK FALSE
