SPECIFICATION SessionSpec
CONSTANTS
  MaxPosts = 3
  MaxReads = 3
INVARIANTS ChannelsAreFifo AtMostOneAfterEnd
PROPERTIES EndIsFinal DisconnectEndsLoops
CHECK_DEADLOCK FALSE
