\* No failures, outages up to the lookback window, two days of five minutes.
SPECIFICATION Spec
CONSTANTS
    t1 = t1
    t2 = t2
    u1 = u1
    Tasks <- OneTask
    Owner <- SameOwner
    DayLen = 5
    LastDay = 1
    Lookback = 1
    RecurGap = 3
    AskLag = 1
    CarryAt = 1
    MaxAway = 2
    MaxReminders = 1
    BaseInterval = 2
    Floor = 1
    BatchShown = 5
    QuietStart = 4
    QuietEnd = 1
    Dates <- SomeDates
    Times <- SomeTimes
    Recurrences <- EveryKind
    SnoozeMins <- InTwo
    MaxActs <- ThreeActs
    MaxFaults = 0
INVARIANTS
    NoReminderMissed
    SnoozeRefires
    OnePingPerAct
CHECK_DEADLOCK FALSE
