SPECIFICATION Spec
CONSTANTS
    Messages <- kListMessages
    Extras <- kExtras
    Others <- kOthers
    Cuts = {1, 31, 32, 33, 64, 96}
    Network <- kNetwork
    Genesis <- kGenesis
    MaxHops = 0
CHECK_DEADLOCK FALSE
INVARIANTS EmbeddedListRead
