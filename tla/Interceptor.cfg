SPECIFICATION SessionSpec
CONSTANTS
    logged = logged  gated = gated  broken = broken
    Tools <- MCTools
    Scope <- MCScope
    Policy <- MCPolicy
    Tokens <- MCTokens
    MaxSent = 2
    ServerIds = {1}
    Null = Null
INVARIANTS OpenSpansTracked
PROPERTIES NotesFit ImplementsFilter SpansEnd
CHECK_DEADLOCK FALSE
