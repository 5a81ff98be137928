SPECIFICATION Spec
CONSTANTS
    None = None
    Tokens <- ChainTokens
    Claims <- ChainClaims
    Servers = {"ap", "ps", "r", "as", "r2", "pq"}
    Hosts = {"ap", "ps", "r", "as", "r2", "pq"}
    Subjects = {"A", "I", "u"}
    Keys = {"kA", "kI"}
    Federated = {"as"}
    Missions = {"m"}
    MissionEnd <- MCMissionEnd
    Hour = 3
    Expirations = {2, 3, 4}
    MaxTime = 3
    Calls = {c1}
    Requests <- ChainRequests
    TrustedAuth = {"as", "ps"}
    TrustedPerson = {"ps"}
CHECK_DEADLOCK FALSE
INVARIANTS OnePersonServer MissionBound
