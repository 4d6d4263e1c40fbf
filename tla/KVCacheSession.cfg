SPECIFICATION SessionSpec
CONSTANTS
    s1 = s1
    s2 = s2
    Size = 4
    Seqs <- TwoSeqs
    MinAttend = 1
    MaxPos = 1
    MaxBatch = 2
SYMMETRY Symmetry
VIEW View
CONSTRAINT SmallDeltas
INVARIANT RotationCurrent
CHECK_DEADLOCK FALSE
