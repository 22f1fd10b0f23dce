SPECIFICATION Spec
CONSTANTS
    Runs = {r1}
    NoRun = NoRun
    MaxMinute = 2
    MaxRounds = 3
    SkipSummary = FALSE
INVARIANTS
    TypeOK
    RoundsFollowClaims
    ClaimsAheadByOneSave
    OutcomeOnDisk
