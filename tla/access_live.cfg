SPECIFICATION FairSpec
CONSTANTS
    None = None
    AgentJtis = {a1, a2}
    PersonJtis = {p1, p2}
    AuthJtis = {t1, t2}
    Jtis <- MCJtis
    TypeOf <- MCTypeOf
    Slots = {s1}
    Threads = {w1}
    Required = "auth"
    Habits = {TRUE}
    Margin = 1
    Window = 0
    Second = 1
    Patience = 0
    Staleness = 1
    Lifetimes = {2}
    Skews = {0}
    Longest = 1
    MaxFaults = 1
    Settles = TRUE
PROPERTIES Served
VIEW View
