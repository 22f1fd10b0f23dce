SPECIFICATION Spec
CONSTANTS
    Digest <- Digests
    Suffix <- Numbers
    Tables <- StartTables
    Proposals <- NewKeywords
    Texts <- Targeted
    Histories <- SelectedHistories
    MaxTable = 4
    BlockLimit = 40
    MaxChars = 80
    MaxClaims = 2
    Preview = 5
    Mark = 6
    Omission = 5
    Detail = 7
    Cut = 4
    ContextLimit = 60
    ContextMark = 8
    AgentLimit = 50
    Additions = {0, 9}
    RequestBudget = 60
    ReviewBudget = 100
    RequestMark = 7
    IdentityRoom = 10
    RequestsMark = 20
    OmittedMark = 30
    OmittedName = 3
    Phrases <- SavedPhrases
    Items <- SavedItems
    Topics <- SavedTopics
    Contents <- SavedContents
    Audits <- SavedAudits
INVARIANTS
    AnswersReachClaim
    NothingVanishes
    EachBlockOnce
    LossIsMarked
    FileReadsBack
CHECK_DEADLOCK FALSE
