SPECIFICATION TrackerSpec
CONSTANTS
  z = z
  h1 = h1
  h2 = h2
  h3 = h3
  h4 = h4
  none = none
  Hash256 <- FiveHashes
  Numbers <- Heights
  ZeroHash = z
  NoHash = none
  window_size_ = 3
INVARIANTS RingMatchesSet
PROPERTIES ImplementsWindow
