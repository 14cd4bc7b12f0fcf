CONSTANTS
    MaxFlips = 2
    Configs <- MCConfigs
    Cards <- MCCards
    CrcWords <- MCCrcWords
    HtuUids <- MCHtuUids
SPECIFICATION Spec
INVARIANTS RoundTrip LocksFollowTheGroups SetTtfKeepsLocks CardNeverMisread ReplyNeverMisread HtuNeverMisread
PROPERTY OneBitOneLock
CHECK_DEADLOCK FALSE
