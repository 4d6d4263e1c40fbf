SPECIFICATION Spec
CONSTANTS
    Graphs <- Layer
    Plans <- AllPlans
INVARIANTS
    CountersSound
    OrderedReads
    FeedForwardReuse
PROPERTIES
    Returns
    PoolsAreServices
