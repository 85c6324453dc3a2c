\* One task, three stages, four half hours.
SPECIFICATION Spec
CONSTANTS
    t1 = t1
    Tasks <- OneTask
    Senders <- BothJobs
    Messages <- SomeMessages
    Stages <- ThreeStages
    Threshold <- Close1
    NudgeSpan = 2
    Evening <- Second
    Quiet <- Third
    MaxRetries = 1
    MaxFaults = 2
    MaxTime = 4
    MaxActs = 1
INVARIANTS
    EachLevelOnce
    OneAfterMute
    LastWarningComes
CHECK_DEADLOCK FALSE
