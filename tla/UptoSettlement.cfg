CONSTANTS
    buyer = buyer
    seller = seller
    fac = fac
    other = other
    plain = plain
    greedy = greedy
    sticky = sticky
    i1 = i1
    i2 = i2
    net = net
    j1 = j1
    j2 = j2
    Contract = Contract
    Accounts = {buyer, seller, fac}
    Tokens = {plain, greedy, sticky}
    Ids = {i1, i2}
    Sticky = {sticky}
    MinTTL = 0
    MaxLedger = 4
    Signable <- MCSignable
    Amounts <- MCAmounts
    Sends <- MCSends
    Approvals <- MCApprovals
    Fee <- MCFee
    Funds <- MCFunds
    Jobs = {j1, j2}
    Requests <- MCRequests
    Signers = {fac, other}
    Network = net
    Lag = 1
SYMMETRY MCCalls
SPECIFICATION RunSpec
INVARIANTS
    SuccessIsExactCharge
PROPERTIES
    NothingStanding
    ImplementsCharge
    VerifiedIsSettleable
CHECK_DEADLOCK FALSE
