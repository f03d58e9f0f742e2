SPECIFICATION Spec
CONSTANTS
    c1 = c1
    c2 = c2
    a1 = a1
    a2 = a2
    a3 = a3
    a4 = a4
    Calls <- TwoCalls
    Incoming <- NoInbound
    AgentIds <- ThreeAgents
    NoAgent = NoAgent
    NoCall = NoCall
    MaxConcurrent = 0
    MaxDeliveries = 1
    Faults <- OnlyReorder
PROPERTIES
    EndedCallsAreFreed
CHECK_DEADLOCK FALSE
