SPECIFICATION ReadSpec
CONSTANTS
    h1 = h1  h2 = h2
    Handlers <- MCHandlers
    Events = {"issued", "revoked"}
    MaxTime = 2
    MaxRows = 4
    Limit = 2
    TraceWindow = 2
SYMMETRY MCSymmetry
INVARIANTS OnTimeRowsChained HonestLogVerifies EditsDetected ReadersSeeTheLog
CHECK_DEADLOCK FALSE
