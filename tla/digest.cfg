SPECIFICATION Spec
CONSTANTS
    Members = {m1, m2}
    Granted = {m1, m2}
    Dispatchers = {d1, d2}
    Nobody = nobody
    Digests <- SmallDigests
    MemberLimit = 1
    Rebuilds = 2
    RetryPolicy = {TRUE, FALSE}
    MaxAttempts = 2
    MaxFaults = 1
SYMMETRY DigestSymmetry
INVARIANTS
    DigestIsSafe
PROPERTIES
    DigestStepsAreCurrent
