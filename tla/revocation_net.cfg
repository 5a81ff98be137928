SPECIFICATION FairSpec
CONSTANTS
    None = None
    Servers = {"ps", "as", "r1"}
    Top = "ps"
    Children <- MCChildren
    Role <- MCRole
    Deferring = {"as"}
    Rounds = 2
    MaxPolls = 1
CHECK_DEADLOCK FALSE
INVARIANTS OutcomesAreTrue RepeatHeals
PROPERTY CascadesEnd
