SPECIFICATION Spec
CONSTANTS
    None = None
    Targets = {"here", "there"}
    Canonical = {"here"}
    Queries = {"q"}
    Bodies = {"b1", "b2"}
    ContentTypes = {"json", "octets"}
    DefaultType = "octets"
    Sessions = {"s1", "s2"}
    OtherAuth = {"basic"}
    Extras = {"x1", "x2"}
    Tokens = {"t1", "t2", "t3"}
    Keys = {"k1", "k2"}
    KeyOf <- MCKeyOf
    AgentKey = "k1"
    BoundTo <- MCBoundTo
    Recipients = {"ps", "resource"}
    Profile <- MCProfile
    Firsts <- MCFirsts
    MaxEdits = 1
    MaxSigned = 2
    MaxAltered = 2
CHECK_DEADLOCK FALSE
INVARIANTS TypeOK AcceptedAsSigned UnalteredAccepted
