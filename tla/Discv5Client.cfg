SPECIFICATION Spec
CONSTANTS
    a = a
    b = b
    Nodes <- MCNodes
    Boots <- MCBoots
    Required <- MCRequired
    Ports <- MCPorts
    MaxQueries = 1
    MaxFresh = 6
    MaxFaults = 1
INVARIANTS
    PeersOnce
PROPERTIES
    HandshakeOnce
    SessionKept
    Answered
CHECK_DEADLOCK FALSE
