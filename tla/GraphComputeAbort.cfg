SPECIFICATION Spec
CONSTANTS
    N = 3
    NNodes = 4
    NTasks <- MCNTasks
INVARIANT SuccessIsComplete
