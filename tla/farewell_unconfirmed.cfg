SPECIFICATION Spec
CONSTANTS
    MaxRetries = 0
    MaxChunks = 1
    Chunks <- LlmChunks
    MaxTurns = 1
    MaxToolRounds = 2
    MaxTokens = 0
    CharsPerToken = 4
    PromptChars = 1
    MaxTurnsOfCall = 2
    Faults <- NoFaults
INVARIANTS
    FarewellIsConfirmed
