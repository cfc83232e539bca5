SPECIFICATION Spec
CONSTANTS
    e1 = e1
    e2 = e2
    r1 = r1
    r2 = r2
    NoRunner = NoRunner
    Events = {e1, e2}
    Shape <- MCShape
    Runners = {r1}
    MaxAccepted = 1
    MaxFailures = 1
INVARIANT FoldedIsCounted
