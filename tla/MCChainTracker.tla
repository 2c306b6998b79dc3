---------------------------- MODULE MCChainTracker ----------------------------
(* A window of three over five hashes, so that the ring wraps several times.  *)
EXTENDS ChainTracker, TLC

CONSTANTS z, h1, h2, h3, h4, none

FiveHashes == {z, h1, h2, h3, h4}
Heights == {0, 1, 2}
Symmetry == Permutations({h1, h2, h3, h4})
=============================================================================
