SPECIFICATION MCSpec
CONSTANTS
    t1 = t1
    t2 = t2
    s1 = s1
    s2 = s2
    SubCommands = {t1, t2}
    SubIds = {s1, s2}
    MaxOwned = 1
    MaxSubRevision = 2
    MaxSubGrant = 2
    PlannedModules = {m1}
    MaxIntents = 4
    MaxConfigs = 3
    Schedules = {z1}
    Profiles <- TwoProfiles
    WallClocks <- Zones
    MaxTick = 12
    FirstTick = 2
    LastTick = 4
    Lookback = 0
    MaxRevises = 1
    MaxMembers = 1
    Sources <- Calendars
    WindowFrom = 2
    WindowTo = 4
    Horizon = 6
    SlotBudget = 8
    SourceBudget = 8
    MaxOccurrences = 2
    SyncTasks = {t1, t2}
    Instances = {s1, s2}
    Interval = 1
    Cooldown = 1
    MaxAge = 0
    LastHour = 1
    DayTicks = 2
    Shifts = {0, 2}
    DueTimes = {0, 1}
    Remembered = 3
    LastReminder = 5
    MaxSchedules = 3
    ChatCalls = {t1, t2, c3}
    ChatEvents = {s1, s2}
    MaxChatCloses = 1
    AdminCalls = {t1, t2}
    AdminModules = {s1, s2}
    HealthTasks = {t1, t2}
    HealthFields = {s1, s2}
    MaxStored = 3
    MaxRunsOf = 2
    MaxProbes = 2
SYMMETRY ManagementSymmetry
CHECK_DEADLOCK FALSE
INVARIANTS
    WindowsHold
    CalendarIsFaithful
PROPERTIES
    CommandsKeepRules
    PlanIsCurrent
    SnapshotsServe
    SummariesAreDue
    ChatIsConsistent
    AdminIsFenced
    HealthIsCurrent
