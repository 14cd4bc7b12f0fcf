CONSTANTS
    TopPage = 5
    TraceCap = 2
    CardIds <- Ids1
    CardGuards <- Guards
    RestoreAttempts = 2
    Chips <- SomeChips
    StrayUids <- Strays
    Garbles <- Noise1
    WakePoints = 2
    QuietLimit = 3
    Budget = 5
    MaxSessions = 3
    TickMod = 16
    StartTicks <- Ticks
SPECIFICATION Spec
INVARIANTS TypeOK MatrixRestoresTheCard DebugReadFaithful ModeAgrees DebugReadComplete TraceIsOfThisRun
PROPERTIES BudgetKept DiagnosticsEnd
