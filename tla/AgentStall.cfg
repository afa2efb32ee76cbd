CONSTANTS
    Clients = {c1}
    NoClient = NoClient
    Trusted = {c1}
    Names = {n1}
    Policies <- MCPolicies
    AskpassTTL = 2
    MaxAge = 2
    MaxTokens = 1
    MaxSessions = 1
    MaxGen = 1
SPECIFICATION StallSpec
PROPERTIES
    SessionsEnd
