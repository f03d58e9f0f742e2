SPECIFICATION Spec
CONSTANTS
    Greetings <- WithoutGreeting
    MaxToolRounds = 1
    MaxTurns = 2
    MaxFinals = 2
    MaxQueue = 2
    Faults <- OnlyLlm
INVARIANTS
    ReapedTaskReturnsNormally
