SPECIFICATION Spec
CONSTANTS
    Sizes <- MCSizes
    Versions = {4, 5}
    AckLengths = {2048, 2049}
    MaxEndpoints = 2
    MaxMessages <- MCMaxMessages
INVARIANTS
    SecretsMatch
    InStep
    ReceivedAsSent
PROPERTIES
    AllArrive
    ConnectEnds
CHECK_DEADLOCK FALSE
