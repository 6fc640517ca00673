\* all calls are over, or wait for a helper or a command that never ends
CHECK_DEADLOCK FALSE
SPECIFICATION FairSpec
CONSTANTS
    c1 = c1
    c2 = c2
    Original = Original
    Foreign = Foreign
    Nothing = Nothing
    Calls <- MCCalls
    Big <- MCBig
    Requests <- MCRequests
    Attempts = 2
    Providers = {"local", "helper", "object"}
INVARIANTS
    ReleasedIsOver
    AnswersStand
    ReadsWithinLimit
PROPERTIES
    CallsSettle
