CONSTANTS
    TopPage = 7
    Tags <- NoisyTags
    WholeDumps <- MCWholeDumps
    Calls <- DumpCalls
    MisreadUids <- Misreads
    Lossy = FALSE
    Noise = TRUE
SPECIFICATION Spec
INVARIANT DumpedUid
