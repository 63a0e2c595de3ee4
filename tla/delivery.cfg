SPECIFICATION FairSpec
CONSTANTS
    Events = {e1}
    Dispatchers = {d1, d2}
    Free = free
    RetryPolicy = {TRUE, FALSE}
    MaxAttempts = 2
    MaxEpoch = 3
    MaxFaults = 1
    ClockSteps = TRUE
INVARIANTS
    DeliveryIsSafe
PROPERTIES
    EnteredWhileCurrent
    ImplementsContract
    DeliveryProgresses
