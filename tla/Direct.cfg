CONSTANTS
    QueueCap = 2
    Grace = 2
    PipeCap = 2
    InputCap = 1
    MaxOutput = 4
    MaxInput = 2
    NoticeCap = 1
    MaxEdits = 3
SPECIFICATION DirectSpec
INVARIANTS
    CompleteOnReturn
    ShownIsLogged
    ReturnedMeansGone
    PatternsAreCurrent
PROPERTIES
    OutputInOrder
    ExitEndsLoop
    SavesAreLoaded
    OutcomeIsTold
    ReloadsReachWorker
