SPECIFICATION Spec
CONSTANTS
    Greetings <- EitherGreeting
    MaxToolRounds = 1
    MaxTurns = 2
    MaxFinals = 2
    MaxQueue = 2
    Faults <- AllFaults
INVARIANTS
    TypeOK
    SpeakingFlagsTrackTheTask
    NothingAfterTheHangup
    TeardownLeavesNoResponse
    NoWordsLost
PROPERTIES
    ImplementsReply
