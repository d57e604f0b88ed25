CONSTANTS
    s1 = s1
    s2 = s2
    c1 = c1
    c2 = c2
    c3 = c3
    upto = upto
    exact = exact
    None = None
    Signers = {s1, s2}
    Calls = {c1, c2, c3}
    Payments = {upto, exact}
    Retries = 1
    MaxRestarts = 0
    Requests <- MCRequests
    PaymentOf <- MCPaymentOf
    FacilitatorOf <- MCFacilitatorOf
SPECIFICATION PathSpec
INVARIANT
    NoSharedSequence
CHECK_DEADLOCK FALSE
