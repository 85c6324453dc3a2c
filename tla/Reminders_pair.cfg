\* Two tasks of one user: every action, batches, a crash or a failed send.
SPECIFICATION Spec
CONSTANTS
    t1 = t1
    t2 = t2
    u1 = u1
    Tasks <- TwoTasks
    Owner <- SameOwner
    DayLen = 3
    LastDay = 0
    Lookback = 1
    RecurGap = 2
    AskLag = 1
    CarryAt = 1
    MaxAway = 2
    MaxReminders = 1
    BaseInterval = 1
    Floor = 1
    BatchShown = 5
    QuietStart = 0
    QuietEnd = 0
    Dates <- FirstDay
    Times <- Midnight
    Recurrences <- OneTimeOnly
    SnoozeMins <- OneMinute
    MaxActs <- TwoAndOne
    MaxFaults = 1
INVARIANTS
    TypeOK
    SilenceAfterOnePing
    FollowupBudget
CHECK_DEADLOCK FALSE
