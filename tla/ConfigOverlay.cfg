CONSTANTS
    NoticeCap = 1
    MaxEdits = 1
SPECIFICATION ReloadSpec
INVARIANTS
    RulesAreCurrent
CHECK_DEADLOCK FALSE
