SPECIFICATION Spec
CONSTANTS
    None = None
    Issued <- PSIssued
    Foreign <- PSForeign
    Recipients = {"resource"}
    Calls = {c1, c2}
    AllowedIssuers = {"ap", "ps"}
    Role = "ps"
    MaxLifetime = 2
    TokenLifetime = 2
    Deps <- PSDeps
    RecipientsOf <- PSRecipients
    AgentIdentity <- PSIdentity
    SubjectOf <- PSSubject
    Answers = {"ok", "downstream", "raised"}
    Exps = {1, 3}
    DeferredIssue = FALSE
    MaxTime = 2
CHECK_DEADLOCK FALSE
INVARIANTS RecordedBeforeSend CascadeComplete ClosedWhenSettled
           NoCollateral
PROPERTY RevocationHolds
SYMMETRY AnyCall
