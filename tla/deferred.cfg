SPECIFICATION FairFlowSpec
CONSTANTS
    None = None
    Urls <- MCUrls
    Origin <- MCOrigin
    Codes = {"c1", "c2"}
    Endpoints = {"https", "http"}
    ValidEndpoints = {"https"}
    Questions = {"q1", "q2"}
    Responses <- MCResponses
    Starts <- MCStarts
    FirstUrl = "a/1"
    MaxPolls = 3
    DefaultWait = 5
    InteractionEnabled = TRUE
    ClarifyEnabled = TRUE
    Verdicts <- MCVerdicts
    Granted = 200
    RetryAfter = 2
    PendingUrl = "a/1"
    Endpoint = None
    Strays <- MCStrays
    Failed = Failed
CHECK_DEADLOCK FALSE
INVARIANTS FlowTypeOK BudgetIsExact StaysOnOrigin PromptedOnce BackedOff
           DecidedInTime EveryCodeShown
PROPERTY KeepsPromise
