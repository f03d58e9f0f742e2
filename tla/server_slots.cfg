SPECIFICATION Spec
CONSTANTS
    c1 = c1
    c2 = c2
    a1 = a1
    a2 = a2
    a3 = a3
    a4 = a4
    Calls <- TwoCalls
    Incoming <- InboundAndOutbound
    AgentIds <- ThreeAgents
    NoAgent = NoAgent
    NoCall = NoCall
    MaxConcurrent = 1
    MaxDeliveries = 2
    Faults <- AnyFault
INVARIANTS
    TypeOK
    SlotAccounting
PROPERTIES
    ImplementsSlots
SYMMETRY AgentSymmetry
CHECK_DEADLOCK FALSE
