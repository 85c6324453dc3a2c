\* Two users, two ids at a time, four days.
SPECIFICATION HabitSpec
CONSTANTS
    ann = ann
    bob = bob
    Users <- TwoUsers
    Admin = ann
    MaxId = 2
    MaxDay = 4
INVARIANTS
    TypeOK
    LogsHaveOwners
    StreakMatchesLog
