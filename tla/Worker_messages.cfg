\* Two names, one of them spelt with a pronoun.
SPECIFICATION Spec
CONSTANTS
    Spaces <- OneSpace
    Names <- TwoNames
    Errands <- OnePronounish
    Pronounish <- OnePronounish
    Within <- Spelling
    MaxOf <- TwoEntities
    MaxResets = 1
    MaxSaid = 3
    MAX_TOOL_CALLS = 2
    MAX_REFERENTS = 2
    MAX_RECENT = 2
INVARIANTS
    TypeOK
    ReferencesMeet
    OneRowPerName
PROPERTIES
    GateHolds
