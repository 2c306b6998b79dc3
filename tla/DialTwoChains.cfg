SPECIFICATION Spec
CONSTANTS
  chA = chA
  chB = chB
  p1 = p1
  p2 = p2
  NoForkId = NoForkId
  NoFilter = NoFilter
  Peers <- TwoPeers
  Chains <- TwoChains
  eth_fork_id <- Fork
  expected_hash <- Filter
  Expiry = 1
  max_total = 3
  max_per_chain = 2
  MaxQueue = 2
  MaxValidated = 1
INVARIANTS CountersExact CapsRespected
PROPERTIES CooldownRespected StopIsFinal OwnExitDrains
SYMMETRY Symmetry
