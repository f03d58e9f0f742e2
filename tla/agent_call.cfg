SPECIFICATION CallSpec
CONSTANTS
    Greetings <- EitherGreeting
    MaxToolRounds = 0
    MaxTurns = 1
    MaxFinals = 1
    MaxQueue = 2
    Faults <- AgentFaults
    LegFaults <- EveryLegFault
    MaxAdrift = 0
INVARIANTS
    CallTypeOK
    SpeechIsInterruptible
    
PROPERTIES
    NoSpeakIsQueued
    UnmarkedRepliesWereHeard
    ImplementsAgent
    
    LegEndsTheRun
    EveryResponseEnds
