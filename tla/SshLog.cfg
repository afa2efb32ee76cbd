CONSTANTS
    Users = {u1, u2}
    Cap = 1
    MaxPieces = 3
    MaxFaults = 2
SPECIFICATION FairSpec
INVARIANTS
    NoSilentLoss
    LogIsTheSession
PROPERTIES
    FlushIsDurable
    LinesReachFile
    FlushReturns
