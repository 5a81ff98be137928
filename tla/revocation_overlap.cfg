SPECIFICATION Spec
CONSTANTS
    None = None
    Issued <- OneIssued
    Foreign <- ASForeign
    Recipients = {"r1", "r2"}
    Calls = {c1, c2, c3}
    AllowedIssuers = {"ps", "as"}
    Role = "as"
    MaxLifetime = 2
    TokenLifetime = 2
    Deps <- OneDeps
    RecipientsOf <- OneRecipients
    AgentIdentity <- OneIdentity
    SubjectOf <- OneSubject
    Answers = {"ok", "raised"}
    Exps = {3}
    DeferredIssue = FALSE
    MaxTime = 1
CHECK_DEADLOCK FALSE
INVARIANTS EveryRecipientReported
SYMMETRY AnyCall
