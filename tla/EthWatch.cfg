SPECIFICATION ServiceSpec
CONSTANTS
  zero = zero
  b1 = b1
  b2 = b2
  b3 = b3
  none = none
  Hash256 <- TheHashes
  Numbers <- Heights
  ZeroHash = zero
  NoHash = none
  window_size_ = 2
  AnyTopic = AnyTopic
  NoBound = NoBound
  number_of <- Number
  receipts_of <- Receipts
  Watches <- TwoWatches
  ZeroAddress = "0x0"
  NoRequestId = NoRequestId
  MaxRequests = 4
  MaxWatches = 2
  MaxEntries = 2
INVARIANTS ListsInStep EventsNameTheirBlock PendingCoversUnanswered RequestsSpacedByWindow
