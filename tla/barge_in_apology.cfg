SPECIFICATION CallSpec
CONSTANTS
    Greetings <- EitherGreeting
    MaxToolRounds = 1
    MaxTurns = 1
    MaxFinals = 2
    MaxQueue = 2
    Faults <- AgentFaults
    LegFaults <- RefusedSpeaks
    MaxAdrift = 0
INVARIANTS
    BargeInSilencesTheAgent
