CONSTANTS
    Signers = {s1, s2}
    Requests = {r1, r2, r3, r4}
    None = None
SPECIFICATION Spec
INVARIANT
    NoServableWaiter
PROPERTIES
    NoOvertaking
    ImplementsLease
CHECK_DEADLOCK FALSE
