------------------------------ MODULE WireLink ------------------------------
(***************************************************************************)
(* One message from a peer to this node: the peer encodes it, its version  *)
(* of the protocol or the way to this node may change one thing in it, and *)
(* this node decodes it.  A decoded eth message may be encoded again and   *)
(* sent on, up to MaxHops times.                                           *)
(*                                                                         *)
(* The changes are those of a peer that speaks another version: a list has *)
(* an item more or its last item less, with every length right; a field    *)
(* has another value, mostly one of another length.  A log is what a contract wrote and is carried in   *)
(* a receipt; its data may be cut short.                                   *)
(***************************************************************************)
EXTENDS EthMessages, Enr, AbiDecoder

CONSTANTS Messages, \* what the peer may send
          Extras,   \* items that a list may have more, as tokens
          Others,   \* strings that may stand where another is expected
          Cuts,     \* by how many bytes the data of a log may be short
          Network, Genesis, \* what this node checks a Status against
          MaxHops

ASSUME WireAssumption == MaxHops \in Nat /\ \A m \in Messages : "kind" \in DOMAIN m

VARIABLES sent,   \* the message, None before there is one
          wire,   \* its tokens
          change, \* <<"none">>, or what was changed
          got,    \* what the decoder returned, None before
          hops    \* how often the message was sent on

vars == <<sent, wire, change, got, hops>>

Encode(m) ==
    CASE m.kind \in EthKinds -> EthEncode(m)
      [] m.kind \in NodeKinds -> NodeEncode(m)
      [] m.kind = "LocalRecord" -> make_local_enr_record(m.ip, m.key, m.tcp, m.udp)
      [] m.kind = "FindNode" -> make_findnode_plaintext(m.req_id)
      [] m.kind = "Nodes" ->
           make_nodes_plaintext(m.req_id, [i \in DOMAIN m.records |-> EncRecord(m.records[i].seq, m.records[i].pairs, m.records[i].key)])
      [] m.kind = "Uri" -> base64url_encode(m.bytes)
      [] m.kind = "Log" -> <<EmitLog(m)>>

\* eth_handshake: a Status is decoded and checked.
decode_and_validate(v) ==
    Then(decode_status(v), LAMBDA s :
        IF validate_status(s.val, Network, Genesis) = "valid" THEN s ELSE Err("Invalid"))

Decode(kind, v) ==
    CASE kind = "Status" -> decode_and_validate(v)
      [] kind \in EthKinds \ {"Status"} -> EthDecode(kind, v)
      [] kind \in NodeKinds -> NodeDecode(kind, v)
      [] kind = "LocalRecord" -> validated_peer(v)
      [] kind = "FindNode" -> parse_findnode_req_id(v)
      [] kind = "Nodes" -> parse_nodes_message(v)
      [] kind = "Uri" -> base64url_decode(v)
      [] kind = "Log" -> decode_log(v[1], sent.as, sent.reader)

Init == sent = None /\ wire = <<>> /\ change = <<"none">> /\ got = None /\ hops = 0

Send(m) ==
    /\ sent = None
    /\ m.kind \in EthKinds => Encodable(m)
    /\ sent' = m
    /\ wire' = Encode(m)
    /\ UNCHANGED <<change, got, hops>>

Changeable == sent /= None /\ got = None /\ change = <<"none">> /\ sent.kind \notin {"Uri", "Log"}

\* The lists around position p, itself included when it is a list's header.
Around(p) == {q \in 1..p : wire[q].list /\ q + wire[q].x[1] >= p}

Resized(p, by) == [q \in DOMAIN wire |-> IF q \in Around(p) THEN [wire[q] EXCEPT !.x[1] = @ + by] ELSE wire[q]]

Extend(p, item) ==
    /\ Changeable
    /\ p \in DOMAIN wire /\ wire[p].list
    /\ LET end == p + wire[p].x[1]
           longer == Resized(p, Len(item))
       IN  wire' = SubSeq(longer, 1, end) \o item \o SubSeq(longer, end + 1, Len(wire))
    /\ change' = <<"extended", p>>
    /\ UNCHANGED <<sent, got, hops>>

\* A string that ends its list is gone.
Drop(p) ==
    /\ Changeable
    /\ p \in DOMAIN wire /\ ~wire[p].list
    /\ \E q \in Around(p) : q + wire[q].x[1] = p
    /\ LET shorter == [q \in DOMAIN wire |-> IF q \in Around(p) THEN [wire[q] EXCEPT !.x[1] = @ - 1] ELSE wire[q]]
       IN  wire' = SubSeq(shorter, 1, p - 1) \o SubSeq(shorter, p + 1, Len(wire))
    /\ change' = <<"dropped", p>>
    /\ UNCHANGED <<sent, got, hops>>

Replace(p, x) ==
    /\ Changeable
    /\ p \in DOMAIN wire /\ ~wire[p].list /\ wire[p].x /= x
    /\ wire' = [wire EXCEPT ![p].x = x]
    /\ change' = <<"replaced", p>>
    /\ UNCHANGED <<sent, got, hops>>

\* The text of a record with the padding that some implementations add.
Pad ==
    /\ sent /= None /\ got = None /\ change = <<"none">> /\ sent.kind = "Uri"
    /\ wire' = Append(wire, kPad)
    /\ change' = <<"padded">>
    /\ UNCHANGED <<sent, got, hops>>

\* The data of a log ends n bytes early.
Cut(n) ==
    /\ sent /= None /\ got = None /\ change = <<"none">> /\ sent.kind = "Log"
    /\ n <= wire[1].data.size
    /\ wire' = [wire EXCEPT ![1].data.size = @ - n]
    /\ change' = <<"cut", n>>
    /\ UNCHANGED <<sent, got, hops>>

Receive ==
    /\ sent /= None /\ got = None
    /\ got' = Decode(sent.kind, wire)
    /\ UNCHANGED <<sent, wire, change, hops>>

Forward ==
    /\ got /= None /\ got.ok /\ sent.kind \in EthKinds
    /\ hops < MaxHops
    /\ Encodable(got.val)
    /\ sent' = got.val
    /\ wire' = Encode(got.val)
    /\ change' = <<"none">> /\ got' = None /\ hops' = hops + 1

Next ==
    \/ \E m \in Messages : Send(m)
    \/ \E p \in DOMAIN wire, item \in Extras : Extend(p, item)
    \/ \E p \in DOMAIN wire : Drop(p)
    \/ \E p \in DOMAIN wire, x \in Others : Replace(p, x)
    \/ Pad
    \/ \E n \in Cuts : Cut(n)
    \/ Receive
    \/ Forward

Spec == Init /\ [][Next]_vars

(***************************************************************************)
(* What the decoder of an unchanged message must return.                   *)
(***************************************************************************)
NormalTx(tx) ==
    LET typed == tx.type /= kLegacy
        fees == tx.type = kDynamicFee
    IN  [tx EXCEPT !.chain_id = IF typed THEN Or(@, kDefaultChainId) ELSE None,
                   !.gas_price = IF fees THEN None ELSE Or(@, Zero),
                   !.max_priority_fee_per_gas = IF fees THEN Or(@, Zero) ELSE None,
                   !.max_fee_per_gas = IF fees THEN Or(@, Zero) ELSE None,
                   !.access_list = IF typed THEN @ ELSE <<>>]

NormalTxs(txs) == [i \in DOMAIN txs |-> NormalTx(txs[i])]

\* A published record: the peer it describes, whatever its values are encoded as.
Described(r) ==
    LET At(k) == {i \in DOMAIN r.pairs : r.pairs[i][1] = k}
        Val(k) == r.pairs[CHOOSE i \in At(k) : TRUE][2]
        Get(k, default) == IF At(k) = {} THEN default ELSE Val(k)[1].x
        v4 == At(kIp) /= {}
        entry == IF Val(kEthKey)[1].list THEN Val(kEthKey) ELSE Unwrap(Val(kEthKey)[1].x)
    IN  [node_id |-> <<64, r.key[2]>>, ip |-> Get(IF v4 THEN kIp ELSE kIp6, None),
         udp_port |-> Get(IF v4 THEN kUdp ELSE kUdp6, kDefaultUdpPort),
         tcp_port |-> Get(IF v4 THEN kTcp ELSE kTcp6, kDefaultTcpPort),
         eth_fork_id |-> IF At(kEthKey) = {} THEN None
                         ELSE [fork_hash |-> entry[3].x, next_fork |-> entry[4].x]]

\* The arguments a reader can know, the indexed ones first.
LogValues(m) ==
    LET Value(i) == CASE is_dynamic(m.params[i].kind) ->
                           m.params[i].kind :> (IF m.params[i].indexed THEN Zero ELSE m.args[i])
                      [] OTHER -> decode_abi_word(m.args[i], m.params[i].kind)
        numbers == [i \in DOMAIN m.params |-> i]
        order == SelectSeq(numbers, LAMBDA i : m.params[i].indexed) \o SelectSeq(numbers, LAMBDA i : ~m.params[i].indexed)
    IN  [j \in DOMAIN order |-> Value(order[j])]

Normal(m) ==
    CASE m.kind = "BlockBodies" -> [m EXCEPT !.bodies = [i \in DOMAIN @ |-> [@[i] EXCEPT !.transactions = NormalTxs(@)]]]
      [] m.kind = "NewBlock" -> [m EXCEPT !.transactions = NormalTxs(@)]
      [] m.kind = "Neighbours" -> [kind |-> m.kind, nodes |-> SelectSeq(m.nodes, LAMBDA n : n.tcp_port /= Zero)]
      [] m.kind = "EnrResponse" -> m.fork
      [] m.kind = "LocalRecord" ->
           [node_id |-> <<64, m.key[2]>>, ip |-> m.ip, udp_port |-> m.udp,
            tcp_port |-> IF m.tcp = Zero THEN m.udp ELSE m.tcp, eth_fork_id |-> None]
      [] m.kind = "FindNode" -> m.req_id
      [] m.kind = "Nodes" -> [kind |-> m.kind, req_id |-> m.req_id, peers |-> [i \in DOMAIN m.records |-> Described(m.records[i])]]
      [] m.kind = "Uri" -> m.bytes
      [] m.kind = "Log" -> LogValues(m)
      [] OTHER -> m

Requests == {"GetBlockHeaders", "GetReceipts", "GetPooledTransactions", "GetBlockBodies"}
Responses == {"BlockHeaders", "Receipts", "PooledTransactions", "BlockBodies"}

\* A request for headers says where they start.  Every other request, and a response, has an id:
\* the form without one is encoded (for eth/65), but their own decoders refuse it or read a list
\* inside the payload as the payload.
Complete(m) ==
    CASE m.kind = "GetBlockHeaders" -> m.start_hash /= None \/ m.start_number /= None
      [] m.kind \in (Requests \cup Responses) \ {"GetBlockHeaders"} -> m.request_id /= None
      [] m.kind = "Status" -> m.network_id = Network /\ m.genesis_hash = Genesis
      [] m.kind = "Log" -> m.reader = m.params /\ m.as = m.signature
      [] OTHER -> TRUE

(***************************************************************************)
(* Properties.                                                             *)
(***************************************************************************)
Wide(xs, n) == \A i \in DOMAIN xs : xs[i][1] = n
Fits(numbers, n) == \A x \in numbers : x /= None => x[1] <= n

HeaderSized(h) ==
    /\ Wide(<<h.parent_hash, h.ommers_hash, h.state_root, h.transactions_root, h.receipts_root, h.mix_hash>>, 32)
    /\ h.beneficiary[1] = 20 /\ h.logs_bloom[1] = 256 /\ h.nonce[1] = 8
    /\ Fits({h.number, h.gas_limit, h.gas_used, h.timestamp}, 8) /\ Fits({h.difficulty, h.base_fee_per_gas}, 32)

TxSized(tx) ==
    /\ tx.to = None \/ tx.to[1] = 20
    /\ Fits({tx.chain_id, tx.nonce, tx.gas_limit}, 8)
    /\ Fits({tx.gas_price, tx.max_priority_fee_per_gas, tx.max_fee_per_gas, tx.value, tx.v, tx.r, tx.s}, 32)
    /\ \A i \in DOMAIN tx.access_list : tx.access_list[i].address[1] = 20 /\ Wide(tx.access_list[i].storage_keys, 32)

ReceiptSized(r) ==
    /\ encodable_receipt(r) /\ r.bloom[1] = 256 /\ Fits({r.cumulative_gas_used}, 32)
    /\ \A i \in DOMAIN r.logs : r.logs[i].address[1] = 20 /\ Wide(r.logs[i].topics, 32)

All(xs, P(_)) == \A i \in DOMAIN xs : P(xs[i])
BodySized(b) == All(b.transactions, TxSized) /\ All(b.ommers, HeaderSized)

\* What is fixed in size has its size, and a number the width of its member.
Sized(m) ==
    /\ m.kind \in Requests \cup Responses => Fits({m.request_id}, 8)
    /\ CASE m.kind = "Status" ->
               /\ m.genesis_hash[1] = 32 /\ m.fork_id.fork_hash[1] = 4
               /\ Fits({m.protocol_version}, 1) /\ Fits({m.network_id, m.fork_id.next_fork}, 8)
               /\ IF m.v69 THEN m.latest_block_hash[1] = 32 /\ Fits({m.earliest_block, m.latest_block}, 8)
                  ELSE m.blockhash[1] = 32 /\ Fits({m.td}, 32)
         [] m.kind = "NewBlockHashes" -> \A i \in DOMAIN m.entries : m.entries[i].hash[1] = 32 /\ Fits({m.entries[i].number}, 8)
         [] m.kind = "NewPooledTransactionHashes" -> Wide(m.hashes, 32)
         [] m.kind = "NewBlock" -> HeaderSized(m.header) /\ BodySized(m) /\ Fits({m.total_difficulty}, 32)
         [] m.kind = "GetBlockHeaders" ->
               /\ m.start_hash = None \/ m.start_hash[1] = 32
               /\ Fits({m.start_number, m.max_headers, m.skip}, 8) /\ m.reverse \in {Zero, One}
         [] m.kind = "BlockHeaders" -> All(m.headers, HeaderSized)
         [] m.kind \in {"GetReceipts", "GetBlockBodies"} -> Wide(m.block_hashes, 32)
         [] m.kind = "Receipts" -> All(m.receipts, LAMBDA block : All(block, ReceiptSized))
         [] m.kind = "GetPooledTransactions" -> Wide(m.transaction_hashes, 32)
         [] m.kind = "PooledTransactions" -> <<>> \notin Range(m.encoded_transactions)
         [] m.kind = "BlockBodies" -> All(m.bodies, BodySized)
         [] m.kind = "Hello" -> m.node_id[1] = 64 /\ m.listen_port[1] <= 2
         [] m.kind = "Neighbours" -> \A i \in DOMAIN m.nodes : m.nodes[i].ip[1] = 4 /\ m.nodes[i].node_id[1] = 64
         [] m.kind = "Pong" -> m.toEndpoint.ip[1] = 4 /\ m.pingHash[1] = 32 /\ Fits({m.expiration}, 4)

\* Type invariant: whatever a decoder returns has the sizes of the struct it fills, also
\* when a field of the wrong size, or none, was sent.
WireTypeOK ==
    /\ sent = None \/ "kind" \in DOMAIN sent
    /\ change[1] \in {"none", "extended", "dropped", "replaced", "padded", "cut"}
    /\ hops \in 0..MaxHops
    /\ got /= None /\ got.ok /\ sent.kind \in EthKinds \cup {"Hello", "Neighbours", "Pong"} => Sized(got.val)

\* Every encoder in src/eth, src/rlpx/protocol, src/discv4 and src/discv5 is undone by its
\* decoder: the same message again, the defaults of absent fields filled in; also for a
\* message that was decoded (from whatever a peer wrote), encoded again and sent on.  Only
\* requests and responses without an id, other than a request for headers, are left out (Complete).
RoundTrip ==
    change[1] \in {"none", "padded"} /\ got /= None /\ Complete(sent) => got.ok /\ got.val = Normal(sent)

\* m without what an extra item may be: a base fee, the receipts of one more block, a
\* record's sequence number.
Core(m) ==
    LET NoFee(h) == [h EXCEPT !.base_fee_per_gas = None]
        NoFees(hs) == [i \in DOMAIN hs |-> NoFee(hs[i])]
    IN  CASE m.kind = "BlockHeaders" -> [m EXCEPT !.headers = NoFees(@)]
          [] m.kind = "NewBlock" -> [m EXCEPT !.header = NoFee(@), !.ommers = NoFees(@)]
          [] m.kind = "BlockBodies" -> [m EXCEPT !.bodies = [i \in DOMAIN @ |-> [@[i] EXCEPT !.ommers = NoFees(@)]]]
          [] m.kind = "Receipts" -> [m EXCEPT !.receipts = SelectSeq(@, LAMBDA rs : rs /= <<>>)]
          [] m.kind = "Pong" -> [m EXCEPT !.ersErq = Zero]
          [] OTHER -> m

\* A list that is longer than this version expects (a newer peer's header, body, Status, node
\* or capability) is refused or read as if the extra item were not there.  No decoder may
\* take it for the next field: the ends of lists are not enforced by ReadListHeaderBytes.
\* A PONG with more items behind the sequence number, "silently consumed for forward
\* compatibility" (discv4_pong.cpp), and a NEIGHBOURS node with more fields mean what they meant.
ExtraNeverShifts ==
    change[1] = "extended" /\ got /= None =>
      /\ got.ok /\ sent.kind \in (EthKinds \ {"PooledTransactions"}) \cup {"Hello", "Neighbours", "Pong"}
           => Core(got.val) = Core(Normal(sent))
      /\ (sent.kind = "Pong" /\ sent.ersErq /= Zero /\ change[2] = 1) \/ (sent.kind = "Neighbours" /\ change[2] > 2)
           => got.ok /\ got.val = Normal(sent)

\* The tokens with every byte that is zero as the empty string, which is the number's own encoding.
ZerosEmpty(tokens) == [p \in DOMAIN tokens |-> IF tokens[p] = Str(<<1, 0>>)[1] THEN Str(Zero)[1] ELSE tokens[p]]

\* A request with an id, or for headers, is accepted only if it is, token for token, the
\* encoding of the request that is returned, whatever was changed in it, but for one thing:
\* a zero byte is taken for the number 0 or for false, which are encoded as the empty string.
RequestsExact ==
    sent /= None /\ sent.kind \in Requests /\ got /= None /\ got.ok /\ Complete(got.val)
      => EthEncode(got.val) = ZerosEmpty(wire)

\* The tokens of record i of a NODES message.
RecordAt(i) ==
    LET sizes == [j \in DOMAIN sent.records |->
                    Len(EncRecord(sent.records[j].seq, sent.records[j].pairs, sent.records[j].key))]
        before == FoldLeft(LAMBDA a, n : a + n, 4, SubSeq(sizes, 1, i - 1))
    IN  before + 1..before + sizes[i]

\* A record of a NODES message that has an item more, an item less or another item than was signed is
\* dropped, and every other record still gives its peer.  A key may have become one of the two names
\* under which decode_rlp keeps the signature and the signed content (discv5_enr.cpp:191, 217).  The
\* value of such a pair is what verify_signature then looks at (317, 340): it is not the signature of
\* anything in these records, and of records where it is, nothing is claimed.
BadRecordAlone ==
    got /= None /\ sent.kind = "Nodes" /\ change[1] \in {"extended", "dropped", "replaced"} =>
      \A i \in DOMAIN sent.records :
        change[2] \in RecordAt(i) =>
          got.ok /\ got.val.peers = [j \in 1..Len(sent.records) - 1 |-> Described(sent.records[IF j < i THEN j ELSE j + 1])]

\* The reader has the contract's declaration, or one of words only with another number indexed.
ToldApart(m) ==
    \/ m.reader = m.params
    \/ /\ \A i \in DOMAIN m.params : ~is_dynamic(m.params[i].kind)
       /\ Len(m.reader) = Len(m.params) /\ Len(Indexed(m.reader)) /= Len(Indexed(m.params))

\* A log whose data is cut short, or whose event the contract declared with more or fewer of its
\* words indexed than the reader (Transfer of ERC-20 and of ERC-721 have one signature), is refused
\* or decoded to the arguments the contract wrote (decode_log, decode_log_data;
\* eth_watch_cli.hpp:129-133).  Nothing in a log tells which words are indexed: where they are as
\* many but not the same, it is decoded to other arguments (OtherIndexedRefused).
LogNeverMisread ==
    sent /= None /\ sent.kind = "Log" /\ ToldApart(sent) /\ got /= None /\ got.ok => got.val = LogValues(sent)

\* "Value: encoded as RLP string or embedded list." (discv5_enr.cpp:240): a record whose
\* values are lists is read like any other.
EmbeddedListRead ==
    got /= None /\ sent.kind = "Nodes" /\ change = <<"none">> => got.ok /\ got.val = Normal(sent)

\* "Decoded values in declaration order" (abi_decoder.hpp:125), and eth_watch.cpp:399 prints value i with
\* the name of parameter i: this holds only where the indexed parameters are declared first.
LabelsMatch ==
    got /= None /\ sent.kind = "Log" /\ got.ok =>
        \A i \in DOMAIN got.val : DOMAIN got.val[i] = {sent.params[i].kind}

\* No log is decoded to other arguments than the contract wrote, whatever it declared indexed: this
\* does not hold of a Transfer with two indexed parameters that are not the first two.
OtherIndexedRefused ==
    sent /= None /\ sent.kind = "Log" /\ got /= None /\ got.ok => got.val = LogValues(sent)

\* "Any non-zero byte in the word means true" (abi_decoder.cpp:109): only the last one is read.
AnyByteTrue ==
    got /= None /\ sent.kind = "Log" /\ got.ok /\ sent.signature = "ApprovalForAll" =>
        got.val[3].bool = (sent.args[3] /= Zero)

\* "under a distinct key so callers can opt in explicitly" (eth_watch_cli.hpp:132): the key is hashed as
\* the signature, and no contract's log has that hash.
OptInDecodes ==
    got /= None /\ sent.kind = "Log" /\ change = <<"none">> /\ sent.as = "Transfer indexed" => got.ok

=============================================================================
