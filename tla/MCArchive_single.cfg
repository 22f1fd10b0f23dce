SPECIFICATION Spec
CONSTANTS
    Runs = {r1, r2}
    NoRun = NoRun
    MaxMinute = 1
    MaxRounds = 1
    SkipSummary = FALSE
INVARIANT ReturnedRunIsArchived
