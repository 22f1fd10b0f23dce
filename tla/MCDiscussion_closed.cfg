SPECIFICATION Spec
CONSTANTS
    Keywords = {c1}
    NumAgents = 1
    Payloads = {p1}
    Malformed = bad
    MaxRounds = 2
    BatchClaims = 1
    SkipSummary = TRUE
    MaxResponses = 1
    Outputs <- MC_Outputs
    Needs <- MC_Needs
INVARIANTS
    AllClosedConverges
