SPECIFICATION Spec
CONSTANTS
    None = None
    AgentJtis = {a1}
    PersonJtis = {p1, p2}
    AuthJtis = {t1, t2}
    Jtis <- MCJtis
    TypeOf <- MCTypeOf
    Slots = {s1, s2}
    Threads = {w1}
    Required = "auth"
    Habits = {TRUE, FALSE}
    Margin = 4
    Window = 1
    Second = 2
    Patience = 2
    Staleness = 2
    Lifetimes = {5}
    Skews <- MCSkews
    Longest = 1
    MaxFaults = 1
    Settles = FALSE
SYMMETRY Renamings
INVARIANTS TypeOK ValidAtOnce NoneExpiresOnTheWay
VIEW View
