CONSTANTS
    TopPage = 7
    Tags <- LossyTags
    WholeDumps <- MCWholeDumps
    Calls <- CloneCalls
    MisreadUids <- NoMisreads
    Lossy = TRUE
    Noise = FALSE
SPECIFICATION Spec
INVARIANT CloneIsReadBack
