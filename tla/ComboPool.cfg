SPECIFICATION Spec
CONSTANTS
    N = 3
    NJobs = 4
    NTasks <- MCNTasks
    Deps <- MCDeps
    GraphEnds <- MCGraphEnds
INVARIANTS
    OneLeader
    PhasesApart
    PartsOnce
    Quiescent
PROPERTIES
    CallsReturn
    ServiceSpec
