\* One user, every kind of prompt, command and button.
SPECIFICATION Spec
CONSTANTS
    x = x
    Titles <- OneTitle
    Drafts <- OneDraft
    MaxPrompts = 3
    MaxRows = 3
    MaxFaults = 1
    MaxResets = 1
INVARIANTS
    TypeOK
    NoSurprise
    SettledOnce
    ReferencesHold
