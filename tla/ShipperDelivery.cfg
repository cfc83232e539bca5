SPECIFICATION FairSpec
CONSTANTS
    MaxLines = 4
    MaxRotations = 1
    MaxCrashes = 2
    MaxFaults = 1
    Noise <- SecondLine
    Refused <- NoLine
    BatchSize = 2
    MaxSpool = 2
    MaxAttempts = 2
    ReplaySince = TRUE
    PowerLoss = TRUE
CHECK_DEADLOCK FALSE
PROPERTIES
    Delivered
