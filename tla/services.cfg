SPECIFICATION MCSpec
CONSTANTS
    t1 = t1
    t2 = t2
    s1 = s1
    s2 = s2
    BindTasks = {t1, t2}
    Objects = {s1, s2}
    Routes = {"r1", "r2"}
    MaxBindings = 2
    CacheTasks = {t1, t2}
    Assets = {s1, s2}
    MaxItems = 1
    Jobs = {t1, t2}
    MaxRunning = 2
    MaxQueued = 2
    MaxRuns = 2
    MaxAttempts = 2
    BoundScopes = {t1, t2}
    ScopeKinds = {"projection", "private"}
    MaxServiceEpochs = 2
    MaxRowRevision = 1
    Writers = {t1, t2}
    MaxTries = 2
    MaxSourceWrites = 2
SYMMETRY ServiceSymmetry
CHECK_DEADLOCK FALSE
INVARIANTS
    BindingsAreKept
    JobsAreOwned
    MigrationRecovers
PROPERTIES
    BytesArePromised
    ServicesStayBound
