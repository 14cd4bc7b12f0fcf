CONSTANTS
    TopPage = 7
    Tags <- NoisyTags
    WholeDumps <- MCWholeDumps
    Calls <- NoisyCalls
    MisreadUids <- Misreads
    Lossy = TRUE
    Noise = TRUE
SPECIFICATION FairSpec
INVARIANTS VerifiedOk DumpFaithful NoSessionBetweenCalls
PROPERTIES SafeWriteOrder KeepsPromise EveryCallReturns
