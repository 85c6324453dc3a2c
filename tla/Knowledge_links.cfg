SPECIFICATION Spec
CONSTANTS
    Spaces = {w1, w2}
    Names = {"tag"}
    Fold <- OneCase
    MaxOf <- FewRows
    MaxTags = 1
    MaxGiven = 2
    MaxSlips = 1
INVARIANTS TypeOK NoGhosts StoryHolds SearchIsRight
PROPERTY PromiseKept
SYMMETRY AnySpace
CHECK_DEADLOCK FALSE
