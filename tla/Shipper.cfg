SPECIFICATION Spec
CONSTANTS
    MaxLines = 5
    MaxRotations = 1
    MaxCrashes = 2
    MaxFaults = 0
    Noise <- SecondLine
    Refused <- FourthLine
    BatchSize = 2
    MaxSpool = 3
    MaxAttempts = 2
    ReplaySince = FALSE
    PowerLoss = FALSE
INVARIANTS
    TypeOK
    TakenIsSafe
    Restartable
    SpoolInOrder
PROPERTIES
    AckedIsStored
