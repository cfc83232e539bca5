CONSTANTS
    e1 = e1
    e2 = e2
    c1 = c1
    None = None
    Events = {e1, e2}
    Cycles = {c1}
    p1 = p1
    Pages = {p1}
    Ts <- MCTs
    Boot <- MCBoot
    DayWindow = 1
    ChartWindow = 2
    Retention = 1
    MaxTime = 2
    MaxFaults = 1
    MaxSignals = 1
SPECIFICATION FairSpec
INVARIANTS TypeOK FirstIsEarliest ShutdownCutsNoPost
PROPERTIES ChartIsComplete DayWithinTotal NeverLater BecomesCurrent
