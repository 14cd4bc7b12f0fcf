CONSTANTS
    Attempts = 2
    Presses = 1
    QueueBound = 3
SPECIFICATION FairSpec
INVARIANTS TypeOK PressesActWhereMade NoDoubleStart TraceIsStill ResultOfThisRun
PROPERTIES RunsEnd HandlersEnd
