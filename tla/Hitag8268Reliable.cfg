CONSTANTS
    TopPage = 7
    Tags <- AllTags
    WholeDumps <- MCWholeDumps
    Calls <- ReliableCalls
    MisreadUids <- NoMisreads
    Lossy = FALSE
    Noise = FALSE
SPECIFICATION Spec
INVARIANTS TypeOK ReliableOutcome NackMeansUnknownPassword CloneRestoresDump
