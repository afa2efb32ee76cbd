CONSTANTS
    Clients = {c1, c2}
    NoClient = NoClient
    Trusted = {c1}
    Names = {n1}
    Policies <- MCPolicies
    AskpassTTL = 2
    MaxAge = 2
    MaxTokens = 1
    MaxSessions = 2
    MaxGen = 2
SPECIFICATION Spec
INVARIANTS
    LeasesBelongToSession
    RotationEndsOldSessions
PROPERTIES
    SecretsInsideSession
    AbsoluteDeadlineFixed
    EventFollowsSession
    KeepsPromise
