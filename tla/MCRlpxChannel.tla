---------------------------- MODULE MCRlpxChannel ----------------------------
(***************************************************************************)
(* Peers with and without compression, acks at and above the limit, and    *)
(* payloads at the edges: none, the largest whose frame is legal with      *)
(* compression, and what makes a frame of exactly 2^24 bytes without it    *)
(* and one that is refused with it.                                        *)
(***************************************************************************)
EXTENDS RlpxChannel

MCMaxMessages == [node |-> 2, peer |-> 1]
MCSizes == {0, 2 ^ 24 - 4, 2 ^ 24 - 1}

=============================================================================
