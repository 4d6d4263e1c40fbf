SPECIFICATION PlanSpec
CONSTANTS
    Algos = {"gd", "balance", "const", "cpu_only", "igpu_only"}
    Word = 65536
    RoundLimit = 30
    Rows = 32
    Times <- SomeTimes
    MaxRounds = 32
INVARIANTS
    BestIsBest
    GradientDefined
    PlanExists
    SplitFeedsBoth
PROPERTIES
    Settled
    SplitIsFinal
CHECK_DEADLOCK FALSE
