SPECIFICATION MCFairSpec
CONSTANTS
    Calls = {c1}
    Kinds = {"public", "private", "owner", "tool", "web"}
    MaxEpoch = 2
    MaxChanges = 1
    MaxFlights = 1
    RouteCalls = {r1, r2}
    Routes = {"text", "png", "collage", "granted", "tool", "subscription"}
    Payloads = {"p1"}
    MaxRouteFaults = 2
CHECK_DEADLOCK FALSE
INVARIANTS
    AuthorityIsBounded
    OutputTellsTruth
PROPERTIES
    AnswersAreAuthorized
    EveryCallReturns
