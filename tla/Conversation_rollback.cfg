SPECIFICATION Spec
CONSTANTS
    Providers = {"anthropic"}
    MaxIterations = 3
    MaxImages = 1
    MaxRounds = 2
    MaxCalls = 2
    ToolImages = {0, 1}
    Remarks = {TRUE}
PROPERTIES
    RetryRemovesPrompt
