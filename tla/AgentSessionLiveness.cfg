CONSTANTS
    Clients = {c1, c2}
    NoClient = NoClient
    Trusted = {c1}
    Names = {n1}
    Policies <- MCPolicies
    AskpassTTL = 1
    MaxAge = 2
    MaxTokens = 1
    MaxSessions = 1
    MaxGen = 1
SPECIFICATION FairSpec
PROPERTIES
    SessionsEnd
    CallsReturn
