---------------------------- MODULE MCEthWatchDial ----------------------------
(* One chain with one slot, two peers.                                         *)
EXTENDS EthWatchDial, TLC

CONSTANTS chA, p1, p2

OneChain == {chA}
TwoPeers == {p1, p2}
Fork == [p \in Peers |-> NoForkId]
Filter == [c \in Chains |-> NoFilter]
=============================================================================
