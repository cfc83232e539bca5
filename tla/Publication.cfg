SPECIFICATION FairSpec
CONSTANTS
    r1 = r1
    r2 = r2
    Nobody = Nobody
    Runners = {r1, r2}
    MaxArrivals = 3
    MaxFailures = 1
INVARIANTS
    TypeOK
    HeadlineNeverOverstates
PROPERTIES
    HeadlineCatchesUp
