CONSTANTS
    r1 = r1
    r2 = r2
    r3 = r3
    p1 = p1
    p2 = p2
    None = None
    Requests = {r1, r2, r3}
    Payments = {p1, p2}
    PaymentOf <- MCPaymentOf
    MaxConcurrent = 2
    MaxRestarts = 1
SPECIFICATION FairSpec
INVARIANTS
    ForwardedIsPaid
    ChargeIsTraced
PROPERTY
    EveryRequestAnswered
CHECK_DEADLOCK FALSE
