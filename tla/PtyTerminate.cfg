CONSTANTS
    QueueCap = 1
    Grace = 1
    PipeCap = 1
    InputCap = 1
    MaxOutput = 1
    MaxInput = 1
SPECIFICATION FairSpec
PROPERTIES
    TerminateKills
