SPECIFICATION Spec
CONSTANTS
    Messages <- kMessages
    Extras <- kExtras
    Others <- kOthers
    Cuts = {1, 31, 32, 33, 64, 96}
    Network <- kNetwork
    Genesis <- kGenesis
    MaxHops = 1
CHECK_DEADLOCK FALSE
INVARIANTS WireTypeOK RoundTrip ExtraNeverShifts RequestsExact BadRecordAlone LogNeverMisread
