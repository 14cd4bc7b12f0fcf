CONSTANTS
    Attempts = 2
    Presses = 2
    QueueBound = 3
SPECIFICATION Spec
INVARIANT NoDoubleStart
