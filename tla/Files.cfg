CONSTANTS
    Agents = {a1, a2, a3, a4}
    NoSocket = NoSocket
    Overlap = FALSE
    MayCrash = TRUE
    ReclaimName = TRUE
    Procs = {p1, p2, p3}
    Names = {n1}
    Passwords = {w1, w2}
    NoPassword = NoPassword
    MaxKeys = 2
SPECIFICATION FilesSpec
INVARIANTS
    AgentReachable
    EntriesReadable
    HandlesStayValid
PROPERTIES
    GivesUpOnlyToAgent
