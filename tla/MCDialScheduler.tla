--------------------------- MODULE MCDialScheduler ---------------------------
(* A small instance of DialScheduler: two chains, one of which filters on the *)
(* fork both peers are on.                                                    *)
EXTENDS DialScheduler, TLC

CONSTANTS chA, chB, p1, p2

TwoChains == {chA, chB}
TwoPeers == {p1, p2}
Fork == [p \in Peers |-> "f"]
Filter == [c \in Chains |-> IF c = chA THEN "f" ELSE NoFilter]
Symmetry == Permutations(TwoPeers)
=============================================================================
