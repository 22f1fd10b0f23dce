SPECIFICATION Spec
CONSTANTS
    Keywords = {c1, c2}
    NumAgents = 1
    Payloads = {p1}
    Malformed = bad
    MaxRounds = 3
    BatchClaims = 1
    SkipSummary = FALSE
    MaxResponses = 1
    Outputs <- MC_Outputs
    Needs <- MC_Needs
INVARIANTS
    OpenClaimsAreRouted
    ConvergedIsSealed
    NoStaleConvergence
PROPERTIES
    TruncatedKeepsStatus
