CONSTANTS
    TopPage = 7
    Tags <- CommentTags
    WholeDumps <- MCWholeDumps
    Calls <- CommentCalls
    MisreadUids <- NoMisreads
    Lossy = FALSE
    Noise = FALSE
SPECIFICATION FairSpec
PROPERTY SomeCommentHolds
