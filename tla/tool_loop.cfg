SPECIFICATION Spec
CONSTANTS
    MaxRetries = 1
    MaxChunks = 2
    Chunks <- LlmChunks
    MaxTurns = 1
    MaxToolRounds = 2
    MaxTokens = 9
    CharsPerToken = 2
    PromptChars = 1
    MaxTurnsOfCall = 2
    Faults <- AllFaults
INVARIANTS
    TypeOK
    AskedWithAllResults
    NoOrphanResults
    PromptIsCurrent
    ReservationsFollowTheFlow
    BudgetIsKept
PROPERTIES
    BookedCallsEnd
    ImplementsReply
