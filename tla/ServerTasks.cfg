SPECIFICATION Spec
CONSTANTS
    NSlots = 2
    NBatch = 2
    Kinds <- MCKinds
    MaxRequests = 3
    MaxTokens = 1
INVARIANTS
    NoOrphanWork
    IdleFlagSound
    RowsInOrder
    OwnLogits
PROPERTIES
    AnsweredOnce
    Answered
CHECK_DEADLOCK FALSE
