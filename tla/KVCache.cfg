SPECIFICATION Spec
CONSTANTS
    s1 = s1
    s2 = s2
    Size = 4
    Seqs <- TwoSeqs
    MinAttend = 1
    MaxPos = 1
    MaxBatch = 2
SYMMETRY Symmetry
VIEW View
CONSTRAINT SmallDeltas
INVARIANTS
    CellsSound
    RotationCurrent
    SlotFound
PROPERTIES
    AttendsToAll
    DecodeKeepsTokens
CHECK_DEADLOCK FALSE
