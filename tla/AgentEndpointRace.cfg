CONSTANTS
    Agents = {p1, p2}
    NoSocket = NoSocket
    Overlap = TRUE
    MayCrash = FALSE
    ReclaimName = FALSE
SPECIFICATION EndpointSpec
PROPERTIES
    ReclaimsOnlyStale
