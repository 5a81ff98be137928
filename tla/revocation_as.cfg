SPECIFICATION Spec
CONSTANTS
    None = None
    Issued <- ASIssued
    Foreign <- ASForeign
    Recipients = {"r1", "r2"}
    Calls = {c1, c2}
    AllowedIssuers = {"ps", "as"}
    Role = "as"
    MaxLifetime = 2
    TokenLifetime = 2
    Deps <- ASDeps
    RecipientsOf <- ASRecipients
    AgentIdentity <- ASIdentity
    SubjectOf <- ASSubject
    Answers = {"ok", "unsupported", "malformed", "raised"}
    Exps = {3}
    DeferredIssue = TRUE
    MaxTime = 2
CHECK_DEADLOCK FALSE
INVARIANTS IInv ErrorFreeMeansDelivered
SYMMETRY AnyCall
