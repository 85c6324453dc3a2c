\* Two users, two adapters: failures, timeouts, crashes, resets.
SPECIFICATION Spec
CONSTANTS
    u1 = u1
    u2 = u2
    a1 = a1
    a2 = a2
    Users <- TwoUsers
    Owner = u1
    Adapters <- TwoAdapters
    Limit = 2
    MaxAttempts = 2
    MaxEvents = 2
    MaxFails = 1
    MaxSlips = 1
    MaxResets = 1
INVARIANTS
    TypeOK
    NoDoublePost
    SentWasPosted
    StampedAfterPost
