SPECIFICATION Spec
CONSTANTS
    None = None
    Tokens <- MixedTokens
    Claims <- MixedClaims
    Servers = {"ap", "ps", "pq", "r", "as"}
    Hosts = {"ap"}
    Subjects = {"A", "A+1", "u", "v"}
    Keys = {"kA", "kC"}
    Federated = {"as"}
    Missions = {"m"}
    MissionEnd <- MCMissionEnd
    Hour = 2
    Expirations = {2, 3}
    MaxTime = 3
    Calls = {c1, c2}
    Requests <- MixedRequests
    TrustedAuth = {"as"}
    TrustedPerson = {"ps"}
SYMMETRY AnyCall
CHECK_DEADLOCK FALSE
INVARIANTS TypeOK AcceptedChainAlive BoundToPresented
PROPERTIES ReturnedAlive
