SPECIFICATION Spec
CONSTANTS
    Graphs <- AttentionOnly
    Plans <- AllPlans
INVARIANT OrderedReuse
