SPECIFICATION StreamSpec
CONSTANTS
    MaxRetries = 1
    MaxChunks = 4
    Chunks <- MixedChunks
INVARIANTS
    StreamTypeOK
    RetriesAreSilent
    TextIsNotRepeated
    CallsAreWhole
