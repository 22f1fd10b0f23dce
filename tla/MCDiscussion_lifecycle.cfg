SPECIFICATION Spec
CONSTANTS
    Keywords = {c1, c2}
    NumAgents = 1
    Payloads = {p1}
    Malformed = bad
    MaxRounds = 4
    BatchClaims = 1
    SkipSummary = TRUE
    MaxResponses = 2
    Outputs <- MC_ShortOutputs
    Needs <- MC_NeedsAll
SYMMETRY KeywordSymmetry
INVARIANTS
    TypeOK
    ClosedIsSilent
    OneVerdictPerRound
    StatusFollowsHistory
    ReopenExactlyOnce
    OpenHasNoPending
PROPERTIES
    ReopenOnlyByApproval
