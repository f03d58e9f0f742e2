SPECIFICATION Spec
CONSTANTS
    Greetings <- WithGreeting
    MaxToolRounds = 1
    MaxTurns = 2
    MaxFinals = 3
    MaxQueue = 3
    Faults <- NoFaults
INVARIANTS
    BufferIsTransient
    NoWordsLost
    RepliesFollowTheirTurn
    StaleCompletionsIgnored
PROPERTIES
    OneResponseAtATime
