SPECIFICATION WatchSpec
CONSTANTS
  chA = chA
  p1 = p1
  p2 = p2
  NoForkId = NoForkId
  NoFilter = NoFilter
  Peers <- TwoPeers
  Chains <- OneChain
  Expiry = 1
  max_total = 1
  max_per_chain = 1
  eth_fork_id <- Fork
  expected_hash <- Filter
  MaxQueue = 1
  MaxValidated = 2
  MaxOrphans = 1
PROPERTIES ValidatedIsNotTimedOut StatusWaitEnds PeerDisconnectFreesSlot
