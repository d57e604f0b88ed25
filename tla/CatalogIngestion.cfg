CONSTANTS
    site1 = site1
    tool = tool
    url = url
    p = p
    q = q
    pub = pub
    test = test
    exact = exact
    upto = upto
    t1 = t1
    t2 = t2
    t3 = t3
    low = low
    high = high
    None = None
    Listings = {site1, tool}
    Sites = {url}
    Networks = {pub, test}
    Schemes = {exact, upto}
    Challenges <- MCChallenges
    Payees = {p, q}
    Terms = {low, high}
    Txs = {t1, t2, t3}
    CreditedTo <- MCCreditedTo
    Messages <- MCMessages
    Workers = {1, 2}
    BatchSize = 1
    MaxDeliveries = 3
    MaxOffers = 1
    Nothing = Nothing
    Forms <- MCForms
    Ledger <- MCLedger
    Children <- MCChildren
    External = {"link"}
    DeepestSpec = 3
    ProofAge = 2
    OwnerAge = 1
    Lifetime = 2
    Skew = 0
    Delegates <- MCDelegates
    AllowedOrigins = {"inner"}
    TransportOrigin <- MCTransport
    Protocol <- MCProtocol
    LocalNames = {"local"}
    Addresses <- MCAddresses
    SiteAnswers <- MCSiteAnswers
    MaxSubmissions = 2
    MaxClock = 3
SPECIFICATION RunSpec
INVARIANTS
    NewestWins
    RevokedStaysHidden
    ListedIsProven
    AdmittedIsProven
CHECK_DEADLOCK FALSE
