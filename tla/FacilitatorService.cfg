CONSTANTS
    c1 = c1
    c2 = c2
    r1 = r1
    r2 = r2
    r3 = r3
    r4 = r4
    key = key
    a = a
    b = b
    q1 = q1
    q2 = q2
    q3 = q3
    q4 = q4
    NoChannel = NoChannel
    Channels = {c1, c2}
    Requests = {r1, r2, r3, r4}
    Transaction <- MCTransaction
    ExpectedAmount = 1
    Facilitator = key
    Configs <- MCConfigs
    MaxBoots = 1
    Peers = {a, b}
    Proxy = Proxy
    Workloads <- MCWorkloads
    WindowLength = 2
    MaxPerWindow = 2
    Retries = 1
    Delay = 3
    CloseTime = 2
    MaxLag = 1
    Tolerance = 0
    MaxTime = 4
    send = send
    status = status
    read = read
    h1 = h1
    RpcRequests = {send, status, read}
    Hashes = {h1}
    Providers = {1, 2}
    Faulty = {1}
    Steady <- MCSteady
    Method <- MCMethod
    HashOf <- MCHashOf
SPECIFICATION RunSpec
INVARIANTS
    ChannelExclusive
    NoStrandedWaiter
    ClaimsAreConfirmed
    SkewIsOutlasted
    LimitIsPerClient
    CountersBalance
    SubmittedOnce
    FinalIsTrue
    SteadyProviderFound
CHECK_DEADLOCK FALSE
