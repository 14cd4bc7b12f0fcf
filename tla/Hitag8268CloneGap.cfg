CONSTANTS
    TopPage = 7
    Tags <- LossyTags
    WholeDumps <- MCWholeDumps
    Calls <- GapCalls
    MisreadUids <- NoMisreads
    Lossy = FALSE
    Noise = FALSE
SPECIFICATION Spec
INVARIANT CloneRestoresAnyDump
