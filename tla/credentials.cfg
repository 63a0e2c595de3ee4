SPECIFICATION MCSpec
CONSTANTS
    t1 = t1
    t2 = t2
    s1 = s1
    s2 = s2
    Admins = {t1, t2}
    Tokens = {"t1", "t2"}
    Kids = {"k1", "k2"}
    MaxRevision = 2
    MaxCrashes = 1
    MaxFaults = 1
    LoginTasks = {t1, t2}
    LoginServices = {s1, s2}
    MaxGenerations = 2
    MaxGrantRevision = 4
    MaxRestarts = 1
    Fetches = {t1, t2}
    HttpSlots = 2
    PerWindow = 1
    Window = 2
    MaxRotations = 1
    MaxTicks = 2
SYMMETRY CredentialSymmetry
CHECK_DEADLOCK FALSE
INVARIANTS
    VaultIsSound
    RequestsAreCovered
PROPERTIES
    AccountIsCurrent
