\* Two workspaces, every handler, one fault, one reset.
SPECIFICATION Spec
CONSTANTS
    n1 = n1
    n2 = n2
    c1 = c1
    c2 = c2
    Names <- OneName
    Chats <- OneChat
    Seeds <- OneSeed
    MaxWorkspaces = 2
    MaxEntities = 2
    MaxTopics = 2
    MaxFaults = 1
    MaxResets = 1
INVARIANTS
    TypeOK
    OrphansPaidFor
    DeadPaidFor
    TopicBelongs
    RepairHeals
    DeletedIsNotActive
