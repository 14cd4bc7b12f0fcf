CONSTANTS
    TopPage = 7
    Tags <- LossyTags
    WholeDumps <- MCWholeDumps
    Calls <- LossyCalls
    MisreadUids <- NoMisreads
    Lossy = TRUE
    Noise = FALSE
SPECIFICATION Spec
INVARIANTS WipeCountsItsPages PasswordStaysKnown
PROPERTIES SafeWriteOrder KeepsPromise
