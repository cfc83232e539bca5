SPECIFICATION FairSpec
CONSTANTS
    MaxLines = 4
    MaxRotations = 0
    MaxCrashes = 0
    MaxFaults = 0
    Noise <- SecondLine
    Refused <- FirstLine
    BatchSize = 2
    MaxSpool = 3
    MaxAttempts = 2
    ReplaySince = FALSE
    PowerLoss = FALSE
PROPERTIES
    Delivered
