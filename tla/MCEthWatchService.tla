-------------------------- MODULE MCEthWatchService --------------------------
(* A chain of three blocks, two of them at height 2 (a fork), with logs of two *)
(* contracts and two event signatures, one log that cannot be decoded and one  *)
(* that has no topic; two kinds of subscription, one with a block range.       *)
EXTENDS EthWatchService, TLC

CONSTANTS zero, b1, b2, b3, none

TheHashes == {zero, b1, b2, b3}
Heights == {1, 2}
Number == [b \in Blocks |-> IF b = b1 THEN 1 ELSE 2]

Log(a, ts, ok) == [address |-> a, topics |-> ts, decodable |-> ok]
Receipts ==
    [b \in Blocks |->
        CASE b = b1 -> << <<Log("c1", <<"transfer">>, TRUE)>>, <<Log("c2", <<"transfer", "x">>, TRUE)>> >>
          [] b = b2 -> << <<>>, <<Log("c1", <<"mint">>, FALSE), Log("c1", <<"mint">>, TRUE)>> >>
          [] b = b3 -> << <<Log("c1", <<>>, TRUE), Log("c2", <<"transfer">>, TRUE)>> >>]

Watch(a, sig, lo, hi) ==
    [address |-> a, event_signature |-> sig, from_block |-> lo, to_block |-> hi]
TwoWatches == {Watch("0x0", "transfer", NoBound, NoBound), Watch("c1", "mint", 2, 2)}
NoWatches == {}
=============================================================================
