SPECIFICATION MCSpec
CONSTANTS
    t1 = t1
    t2 = t2
    s1 = s1
    s2 = s2
    Starters = {t1, t2}
    Stoppers = {p1}
    Recoverers = {d1}
    MaxStarts = 4
    Calls = {c1}
    Events = {v1}
    MaxEpochs = 2
    MaxEdits = 1
    PageTasks = {t1, t2}
    MaxPageSessions = 2
    MaxFlows = 1
    MaxPageEpochs = 2
    MaxPageRevision = 2
    LogQueries = {t1, t2}
    LogScopes = {s1, s2, e1}
    Unqueryable = {e1}
    EchoOnly = {e1}
    LogPacks = {{s1, s2}}
    PageBudget = 1
    Percentiles = 2
    MaxCloses = 1
    PackRequests = {r1}
    PluginObjects = {s1, s2}
    LastVersion = 2
    BuildApproved = 1
    MaxGrantRows = 1
SYMMETRY HostSymmetry
CHECK_DEADLOCK FALSE
INVARIANTS
    HostIsOwned
    LogsTellTruth
PROPERTIES
    ToolsStayCurrent
    PagesAreFenced
    PackagesAreTrusted
