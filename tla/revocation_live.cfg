SPECIFICATION FairSpec
CONSTANTS
    None = None
    Issued <- PSIssued
    Foreign <- PSForeign
    Recipients = {"resource"}
    Calls = {c1, c2}
    AllowedIssuers = {"ap", "ps"}
    Role = "ps"
    MaxLifetime = 2
    TokenLifetime = 2
    Deps <- ChainDeps
    RecipientsOf <- PSRecipients
    AgentIdentity <- PSIdentity
    SubjectOf <- PSSubject
    Answers = {"raised"}
    Exps = {3}
    DeferredIssue = FALSE
    MaxTime = 2
CHECK_DEADLOCK FALSE
INVARIANTS NoLiveDescendant
PROPERTIES Termination RevocationSpreads
