SPECIFICATION ServingFairSpec
CONSTANTS
    r1 = r1
    r2 = r2
    Requests = {r1, r2}
    MaxTokens <- TokenLimits
    MaxReturn = 1
    Profiles <- Clients
    MaxMessages = 1
    MaxConcurrent = 1
    KeyRequired = TRUE
    StructuredFeature = TRUE
    Runtimes = {TRUE, FALSE}
INVARIANTS
    AnswersComplete
    SendersTracked
    AdmittedValid
    OrphansExplained
PROPERTIES
    HandlersEnd
CHECK_DEADLOCK FALSE
