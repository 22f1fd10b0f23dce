SPECIFICATION Spec
CONSTANTS
    Providers = {"anthropic", "openai"}
    MaxIterations = 2
    MaxImages = 3
    MaxRounds = 2
    MaxCalls = 2
    ToolImages = {0, 2, 4}
    Remarks = {TRUE}
INVARIANTS
    TypeOK
    NoEcho
    AnswerIsFinal
    CallsAnswered
    TurnImagesLimited
    CountedOnce
    RowsFollowRounds
PROPERTIES
    OrphansEndAttempts
