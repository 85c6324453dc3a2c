\* Fewer failures than attempts: the promise is kept.
SPECIFICATION FairSpec
CONSTANTS
    u1 = u1
    u2 = u2
    a1 = a1
    a2 = a2
    Users <- OwnerOnly
    Owner = u1
    Adapters <- TwoAdapters
    Limit = 2
    MaxAttempts = 3
    MaxEvents = 3
    MaxFails = 2
    MaxSlips = 0
    MaxResets = 0
PROPERTY
    KeepsPromise
