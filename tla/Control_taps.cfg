\* Five taps, answers and commands on two workspaces.
SPECIFICATION Spec
CONSTANTS
    Projected = TRUE
    LinkedSpaces <- OneLinked
    Names <- TwoNames
    Filled <- TwoSpaces
    MaxOf <- Small
    MaxShown = 2
    MaxTaps = 5
INVARIANTS
    PendingIsShown
    FreshButtonsLead
PROPERTIES
    
    LockHolds
CHECK_DEADLOCK FALSE
