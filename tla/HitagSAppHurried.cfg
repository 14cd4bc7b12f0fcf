CONSTANTS
    Attempts = 2
    Presses = 2
    QueueBound = 2
SPECIFICATION Spec
INVARIANTS WorkerBelongsToScene OneReader NoSceneTwice
