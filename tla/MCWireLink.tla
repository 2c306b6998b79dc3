----------------------------- MODULE MCWireLink -----------------------------
(***************************************************************************)
(* Messages for WireLink: of every kind one or more, with and without the  *)
(* optional parts, with empty lists and lists of two.                      *)
(***************************************************************************)
EXTENDS WireLink

H(i) == <<32, i>>
A(i) == <<20, i>>
Num(i) == <<1, i>>
kNetwork == Num(7)
kGenesis == H(9)
Key(i) == <<33, i>>

Header(fee) ==
    [parent_hash |-> H(1), ommers_hash |-> H(2), beneficiary |-> A(1), state_root |-> H(3),
     transactions_root |-> H(4), receipts_root |-> H(5), logs_bloom |-> <<256, 1>>, difficulty |-> Zero,
     number |-> <<3, 5>>, gas_limit |-> <<4, 6>>, gas_used |-> Zero, timestamp |-> <<4, 7>>,
     extra_data |-> <<5, 1>>, mix_hash |-> H(6), nonce |-> <<8, 1>>, base_fee_per_gas |-> fee]

Tx(type, to) ==
    [type |-> type, chain_id |-> None, nonce |-> Num(3), gas_price |-> <<2, 400>>,
     max_priority_fee_per_gas |-> Num(5), max_fee_per_gas |-> None, gas_limit |-> <<2, 600>>,
     to |-> to, value |-> Zero, data |-> Zero,
     access_list |-> <<[address |-> A(2), storage_keys |-> <<H(7)>>]>>, v |-> Num(1), r |-> <<32, 8>>, s |-> <<32, 9>>]

Log(n) == [address |-> A(3), topics |-> SubSeq(<<H(1), H(2)>>, 1, n), data |-> Zero]
Receipt(root, status, logs) ==
    [state_root |-> root, status |-> status, cumulative_gas_used |-> <<2, 800>>, bloom |-> <<256, 2>>, logs |-> logs]

Status(v69, v, net, lo, hi) ==
    [kind |-> "Status", v69 |-> v69, protocol_version |-> Num(v), network_id |-> net, genesis_hash |-> kGenesis,
     fork_id |-> [fork_hash |-> <<4, 1>>, next_fork |-> Zero]]
      @@ IF v69 THEN [earliest_block |-> lo, latest_block |-> hi, latest_block_hash |-> H(1)]
         ELSE [td |-> <<2, 900>>, blockhash |-> H(2)]

GetHeaders(id, hash, num) ==
    [kind |-> "GetBlockHeaders", request_id |-> id, start_hash |-> hash, start_number |-> num,
     max_headers |-> Num(10), skip |-> Zero, reverse |-> One]

Ids == {None, Zero, <<8, 1>>}

EthMsgs ==
    {Status(FALSE, 68, kNetwork, Zero, Zero), Status(FALSE, 68, Num(8), Zero, Zero),
     Status(TRUE, 69, kNetwork, Num(1), Num(9)), Status(TRUE, 69, kNetwork, Num(1), Zero)}
    \cup {GetHeaders(id, s[1], s[2]) : id \in Ids, s \in {<<None, None>>, <<H(1), None>>, <<None, Num(4)>>, <<H(1), Num(4)>>}}
    \cup {[kind |-> "BlockHeaders", request_id |-> id, headers |-> hs] :
            id \in Ids, hs \in {<<>>, <<Header(None), Header(Num(2))>>}}
    \cup UNION {{[kind |-> "GetReceipts", request_id |-> id, block_hashes |-> hs],
                 [kind |-> "GetBlockBodies", request_id |-> id, block_hashes |-> hs],
                 [kind |-> "GetPooledTransactions", request_id |-> id, transaction_hashes |-> hs]} :
                  id \in Ids, hs \in {<<>>, <<H(1), H(2)>>}}
    \cup {[kind |-> "Receipts", request_id |-> Num(6), receipts |-> rs] :
            rs \in {<<<<>>, <<Receipt(None, Zero, <<>>), Receipt(None, One, <<Log(2), Log(0)>>)>>>>,
                    <<<<Receipt(H(3), None, <<Log(1)>>)>>, <<>>>>, <<<<Receipt(None, None, <<>>)>>>>}}
    \cup {[kind |-> "PooledTransactions", request_id |-> Num(6),
           encoded_transactions |-> <<encode_transaction(Tx(kLegacy, None)), Wrap(encode_transaction(Tx(kDynamicFee, None)))>>],
          [kind |-> "BlockBodies", request_id |-> Num(6),
           bodies |-> <<[transactions |-> <<Tx(kAccessList, A(1)), Tx(kLegacy, None)>>, ommers |-> <<>>],
                        [transactions |-> <<>>, ommers |-> <<Header(None)>>]>>],
          [kind |-> "NewBlock", header |-> Header(Num(1)), transactions |-> <<Tx(kDynamicFee, None)>>,
           ommers |-> <<>>, total_difficulty |-> <<3, 3>>],
          [kind |-> "NewBlockHashes", entries |-> <<[hash |-> H(1), number |-> Num(4)], [hash |-> H(2), number |-> Num(5)]>>],
          [kind |-> "NewPooledTransactionHashes", hashes |-> <<H(1), H(2)>>]}

Node(i, tcp) == [ip |-> <<4, i>>, udp_port |-> <<2, 300>>, tcp_port |-> tcp, node_id |-> <<64, i>>]
Endpoint == [ip |-> <<4, 1>>, udp |-> <<2, 300>>, tcp |-> Zero]
EthEntry == List(<<List(<<Str(<<4, 1>>), Str(Zero)>>)>>)

Id4 == <<kId, Str(kIdentitySchemeV4)>>
Rec(i, pairs) == [seq |-> Num(i), pairs |-> pairs, key |-> Key(i)]
Secp(i) == <<kSecp256k1, Str(Key(i))>>
RecV4 == Rec(1, <<<<kEthKey, Wrap(EthEntry)>>, Id4, <<kIp, Str(<<4, 1>>)>>, Secp(1), <<kUdp, Str(<<2, 300>>)>>>>)
RecV6 == Rec(2, <<Id4, <<kIp6, Str(<<16, 1>>)>>, Secp(2), <<kTcp6, Str(<<2, 301>>)>>>>)
RecList == Rec(3, <<<<kEthKey, EthEntry>>, Id4, <<kIp, Str(<<4, 3>>)>>, Secp(3)>>)
RecTail == Rec(4, <<Id4, <<kIp, Str(<<4, 4>>)>>, Secp(4), <<<<2, 9>>, List(<<Str(One)>>)>>>>)

NodeMsgs ==
    {[kind |-> "Hello", protocol_version |-> Num(5), client_id |-> <<3, 1>>, listen_port |-> <<2, 303>>, node_id |-> <<64, 1>>,
      capabilities |-> SubSeq(<<[name |-> <<3, 2>>, version |-> Num(68)], [name |-> <<4, 2>>, version |-> Zero]>>, 1, n)] : n \in 0..2}
    \cup {[kind |-> "Disconnect", reason |-> r] : r \in {Zero, Num(4)}}
    \cup {[kind |-> "P2pPing"]}
    \cup {[kind |-> "Pong", toEndpoint |-> Endpoint, pingHash |-> H(1), expiration |-> <<4, 1>>, ersErq |-> e] : e \in {Zero, Num(3)}}
    \cup {[kind |-> "Neighbours", nodes |-> <<Node(1, <<2, 303>>), Node(2, Zero), Node(3, <<2, 304>>)>>, expiration |-> <<4, 1>>]}
    \cup {[kind |-> "EnrResponse", request_hash |-> H(1), record |-> EncRecord(RecList.seq, RecList.pairs, RecList.key),
           fork |-> [fork_hash |-> <<4, 1>>, next_fork |-> Zero]]}
    \cup {[kind |-> "LocalRecord", ip |-> <<4, 1>>, key |-> Key(1), tcp |-> t, udp |-> <<2, 302>>] : t \in {Zero, <<2, 301>>}}
    \cup {[kind |-> "FindNode", req_id |-> <<8, 1>>]}

Bytes == {0, 1, 129, 255}
Uris == {[kind |-> "Uri", bytes |-> b] : b \in UNION {[1..n -> Bytes] : n \in 0..4}}

\* Logs of the registry's events, a Transfer with every choice of indexed parameters (ERC-721 has all
\* three), and events of others' contracts: contents of no, some and more than 32 bytes, and indexed
\* parameters that are not the first.  TransferBatch is left out: its arrays are not a type of the
\* decoder, and the registry has words in their place (eth_watch_cli.hpp:157).
Word(i) == <<i, 300 + i>>
LogOf(signature, as, params, args) ==
    [kind |-> "Log", signature |-> signature, as |-> as, params |-> params, args |-> args,
     reader |-> IF params_for(as) = <<>> THEN params ELSE params_for(as)]
Args == <<Word(0), Word(1), Word(0), Word(1), Word(0)>>
Known(s) == LogOf(s, s, params_for(s), SubSeq(Args, 1, Len(params_for(s))))
Declared(which) == [i \in 1..3 |-> Param(params_for("Transfer")[i].kind, i \in which)]
Named(x, a, b, c) ==
    LogOf("Named", "Named", <<Param("string", TRUE), Param("string", x), Param("bytes32", FALSE), Param("bytes", FALSE)>>,
          <<a, b, Word(1), c>>)
Contents == {Zero, <<5, 1>>, <<33, 2>>}
Logs == {Known(s) : s \in {"Transfer", "Approval", "ApprovalForAll", "TransferSingle", "BridgeSourceBurned"}}
    \cup {LogOf("Transfer", "Transfer", Declared(which), SubSeq(Args, 1, 3)) : which \in SUBSET (1..3)}
    \cup {LogOf("Transfer", "Transfer indexed", Declared(1..3), SubSeq(Args, 1, 3))}
    \cup {LogOf("ApprovalForAll", "ApprovalForAll", params_for("ApprovalForAll"), <<Word(0), Word(1), <<0, 256>>>>),
          LogOf("Late", "Late", <<Param("uint", FALSE), Param("address", TRUE)>>, <<Word(1), Word(0)>>)}
    \cup {Named(x, a, b, c) : x \in {TRUE, FALSE}, a \in Contents, b \in Contents, c \in Contents}

Nodes(records) == [kind |-> "Nodes", req_id |-> <<8, 1>>, records |-> records]

kMessages == EthMsgs \cup NodeMsgs \cup Uris \cup Logs \cup {Nodes(<<>>), Nodes(<<RecV4, RecV6, RecTail>>)}
kListMessages == {Nodes(<<RecV6>>), Nodes(<<RecList>>)}
kExtras == {Str(<<2, 77>>), List(<<>>)}
\* Of two, 32 and seven bytes, a zero byte, and the names of a record's signature and content.
kOthers == {<<2, 77>>, <<32, 70>>, <<7, 1>>, <<1, 0>>, kSig, kContent}
=============================================================================
