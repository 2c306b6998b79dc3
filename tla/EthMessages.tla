---------------------------- MODULE EthMessages ----------------------------
(***************************************************************************)
(* src/eth/messages.cpp: the encoding and decoding of the eth messages on  *)
(* the tokens of RlpTokens.  A message is a record whose kind names it;    *)
(* encode gives the tokens or an error, decode(kind, v) the message.       *)
(***************************************************************************)
EXTENDS EthObjects

(***************************************************************************)
(* The payloads.                                                           *)
(***************************************************************************)
\* Mutant of encode_get_block_headers_payload: skip and max_headers change places.
encode_get_block_headers_swapped(m) ==
    List((IF m.start_hash /= None THEN <<Str(m.start_hash)>>
          ELSE IF m.start_number /= None THEN <<Str(m.start_number)>> ELSE <<>>)
         \o <<Str(m.skip), Str(m.max_headers), Str(m.reverse)>>)

encode_get_block_headers_payload(m) ==
    List((IF m.start_hash /= None THEN <<Str(m.start_hash)>>
          ELSE IF m.start_number /= None THEN <<Str(m.start_number)>> ELSE <<>>)
         \o <<Str(m.max_headers), Str(m.skip), Str(m.reverse)>>)

\* A start of 32 bytes is a hash, any other a number.
decode_get_block_headers_payload(v) ==
    Then(PeekHeader(v), LAMBDA h :
    Then(IF h.val.list THEN Err("UnexpectedList")
         ELSE ReadField(v, IF h.val.len = 32 THEN Hash256 ELSE U(8)), LAMBDA start :
    Then(ReadFields(start.rest, <<<<"max_headers", U(8)>>, <<"skip", U(8)>>, <<"reverse", Boolean>>>>), LAMBDA others :
        Ok(others.val @@ [start_hash |-> IF h.val.len = 32 THEN start.val ELSE None,
                          start_number |-> IF h.val.len = 32 THEN None ELSE start.val], others.rest))))

encode_hash_list(hashes) == ListOf(hashes, EncStr)
decode_hash_list(v) == ReadList(v, ReadHash)

encode_block_headers_payload(headers) == ListOf(headers, encode_block_header)

ReadBlockHeader(v) == ReadItem(v, decode_block_header)
decode_block_headers_payload(v) == ReadList(v, ReadBlockHeader)

EncReceipts(rs) == ListOf(rs, encode_receipt)
encode_receipts_payload(blocks) == ListOf(blocks, EncReceipts)

ReadReceipt(v) == ReadItem(v, decode_receipt)
ReadReceipts(v) == ReadList(v, ReadReceipt)
decode_receipts_payload(v) == ReadList(v, ReadReceipts)

\* Pooled transactions stay encoded: an item is its tokens.
Raw(tokens) == tokens
encode_pooled_transactions_payload(txs) == ListOf(txs, Raw)

decode_pooled_transactions_payload(v) == ReadList(v, consume_next_item)

\* A typed transaction in a list is a byte string around its bytes.
EncListedTx(tx) ==
    IF tx.type = kLegacy THEN encode_transaction(tx) ELSE Wrap(encode_transaction(tx))

encode_transaction_list(txs) == ListOf(txs, EncListedTx)

ReadListedTx(v) ==
    Then(PeekHeader(v), LAMBDA h :
        IF h.val.list \/ h.val.len = 0 THEN ReadItem(v, decode_transaction)
        ELSE Then(ReadString(v), LAMBDA bytes :
             Then(decode_transaction(Unwrap(bytes.val)), LAMBDA tx : Ok(tx.val, bytes.rest))))

decode_transaction_list(v) == ReadList(v, ReadListedTx)

encode_block_body(b) ==
    List(<<encode_transaction_list(b.transactions), encode_block_headers_payload(b.ommers)>>)

decode_block_body(v) ==
    Enclosed(v, LAMBDA h :
    Then(decode_transaction_list(h.rest), LAMBDA txs :
    Then(decode_block_headers_payload(txs.rest), LAMBDA ommers :
        Ok([transactions |-> txs.val, ommers |-> ommers.val], ommers.rest))))

encode_block_bodies_payload(bodies) == ListOf(bodies, encode_block_body)
decode_block_bodies_payload(v) == ReadList(v, decode_block_body)

(***************************************************************************)
(* Status.                                                                 *)
(***************************************************************************)
kVersions68 == {<<1, 66>>, <<1, 67>>, <<1, 68>>}
kVersion69 == <<1, 69>>

EncForkId(f) == List(<<Str(f.fork_hash), Str(f.next_fork)>>)

\* Which struct the variant holds is the message's `v69', not its version.
encode_status(m) ==
    List(<<Str(m.protocol_version), Str(m.network_id)>>
         \o (IF m.v69 THEN <<>> ELSE <<Str(m.td), Str(m.blockhash)>>)
         \o <<Str(m.genesis_hash), EncForkId(m.fork_id)>>
         \o (IF m.v69 THEN <<Str(m.earliest_block), Str(m.latest_block), Str(m.latest_block_hash)>> ELSE <<>>))

kOnly68 == <<<<"td", U(32)>>, <<"blockhash", Hash256>>>>
kOnly69 == <<<<"earliest_block", U(8)>>, <<"latest_block", U(8)>>, <<"latest_block_hash", Hash256>>>>

\* The fork id's fields are read where its list begins; what is left at the end is not looked at.
StatusRead(v69, common) ==
    Then(ReadFields(common.rest, (IF v69 THEN <<>> ELSE kOnly68) \o <<<<"genesis_hash", Hash256>>>>), LAMBDA upto :
    Then(ReadListHeaderBytes(upto.rest), LAMBDA list :
    Then(ReadFields(list.rest, ForkFields), LAMBDA fork :
    Then(ReadFields(fork.rest, IF v69 THEN kOnly69 ELSE <<>>), LAMBDA range :
        Ok([kind |-> "Status", v69 |-> v69, fork_id |-> fork.val] @@ common.val @@ upto.val @@ range.val, range.rest)))))

decode_status(v) ==
    Then(ReadListHeaderBytes(v), LAMBDA h :
    Then(ReadFields(h.rest, <<<<"protocol_version", U(1)>>, <<"network_id", U(8)>>>>), LAMBDA common :
        IF common.val.protocol_version \in kVersions68 \cup {kVersion69}
        THEN StatusRead(common.val.protocol_version = kVersion69, common)
        ELSE Err("UnexpectedString")))

\* Numbers of the same length compare by what they hold.
Greater(a, b) == a[1] > b[1] \/ (a[1] = b[1] /\ a[2] > b[2])

validate_status(m, network, genesis) ==
    IF m.network_id /= network THEN "NetworkIDMismatch"
    ELSE IF m.genesis_hash /= genesis THEN "GenesisMismatch"
    ELSE IF m.v69 /\ m.latest_block /= Zero /\ Greater(m.earliest_block, m.latest_block) THEN "InvalidBlockRange"
    ELSE "valid"

(***************************************************************************)
(* Announcements.                                                          *)
(***************************************************************************)
EncBlockHash(e) == List(<<Str(e.hash), Str(e.number)>>)
encode_new_block_hashes(m) == ListOf(m.entries, EncBlockHash)

ReadBlockHash(v) ==
    Then(ReadListHeaderBytes(v), LAMBDA h : ReadFields(h.rest, <<<<"hash", Hash256>>, <<"number", U(8)>>>>))

\* Items until the data ends, whatever the length of the list; then the message's only field.
ReadToEnd(kind, field, v, Item(_)) ==
    LET Loop(w) == IF w.stop.ok THEN Ok([kind |-> kind] @@ (field :> w.items), <<>>) ELSE w.stop
    IN  Then(ReadListHeaderBytes(v), LAMBDA h : Loop(While(h.rest, 0, Item)))

decode_new_block_hashes(v) == ReadToEnd("NewBlockHashes", "entries", v, ReadBlockHash)

encode_new_pooled_tx_hashes(m) == encode_hash_list(m.hashes)
decode_new_pooled_tx_hashes(v) == ReadToEnd("NewPooledTransactionHashes", "hashes", v, ReadHash)

encode_new_block(m) ==
    List(<<List(<<encode_block_header(m.header), encode_transaction_list(m.transactions),
                  encode_block_headers_payload(m.ommers)>>),
           Str(m.total_difficulty)>>)

BlockRead(inner) ==
    Then(ReadBlockHeader(inner.rest), LAMBDA header :
    Then(decode_transaction_list(header.rest), LAMBDA txs :
    Then(decode_block_headers_payload(txs.rest), LAMBDA ommers :
        Ok([kind |-> "NewBlock", header |-> header.val, transactions |-> txs.val, ommers |-> ommers.val],
           ommers.rest))))

\* Mutant of BlockOf: where the block's list ends is not looked at.
BlockOpen(v) == Then(ReadListHeaderBytes(v), BlockRead)

BlockOf(v) == Enclosed(v, BlockRead)

decode_new_block(v) ==
    Then(ReadListHeaderBytes(v), LAMBDA outer :
    Then(BlockOf(outer.rest), LAMBDA block :
    Then(ReadField(block.rest, U(32)), LAMBDA td :
        Ok(block.val @@ [total_difficulty |-> td.val], td.rest))))

(***************************************************************************)
(* Requests and responses: [request_id, payload] since eth/66, the payload *)
(* alone before.                                                           *)
(***************************************************************************)
WithId(m, payload) == IF m.request_id = None THEN payload ELSE List(<<Str(m.request_id), payload>>)

\* An id is a number in front of a list; nothing is consumed otherwise.
consume_eth66_request_id(v) ==
    LET Id(id) == IF id.ok /\ PeekHeader(id.rest).ok /\ id.rest[1].list THEN id ELSE Ok(None, v)
    IN  Id(ReadField(v, U(8)))

\* Nothing may follow what was read.
AtEnd(r, fields) == IF r.rest /= <<>> THEN Err("InputTooLong") ELSE Ok(fields, <<>>)

\* decode_x of each kind: outer list, id, payload, and nothing behind it.
Decoded(kind, field, v, Payload(_)) ==
    Then(ReadListHeaderBytes(v), LAMBDA outer :
    Then(consume_eth66_request_id(outer.rest), LAMBDA id :
    Then(Payload(id.rest), LAMBDA payload :
        AtEnd(payload, [kind |-> kind, request_id |-> id.val] @@ (field :> payload.val)))))

encode_get_block_headers(m) == WithId(m, encode_get_block_headers_payload(m))

\* The payload's own list header is read only behind an id.
decode_get_block_headers(v) ==
    Then(ReadListHeaderBytes(v), LAMBDA outer :
    Then(consume_eth66_request_id(outer.rest), LAMBDA id :
    Then(IF id.val = None THEN id ELSE ReadListHeaderBytes(id.rest), LAMBDA inner :
    Then(decode_get_block_headers_payload(inner.rest), LAMBDA payload :
        AtEnd(payload, [kind |-> "GetBlockHeaders", request_id |-> id.val] @@ payload.val)))))

encode_block_headers(m) == WithId(m, encode_block_headers_payload(m.headers))
decode_block_headers(v) == Decoded("BlockHeaders", "headers", v, decode_block_headers_payload)

encode_get_receipts(m) == WithId(m, encode_hash_list(m.block_hashes))

\* Mutant of decode_get_receipts: what is left behind the payload is not looked at.
decode_get_receipts_open(v) ==
    Then(ReadListHeaderBytes(v), LAMBDA outer :
    Then(consume_eth66_request_id(outer.rest), LAMBDA id :
    Then(decode_hash_list(id.rest), LAMBDA hashes :
        Ok([kind |-> "GetReceipts", request_id |-> id.val, block_hashes |-> hashes.val], <<>>))))

decode_get_receipts(v) == Decoded("GetReceipts", "block_hashes", v, decode_hash_list)

encode_receipts(m) == WithId(m, encode_receipts_payload(m.receipts))
decode_receipts(v) == Decoded("Receipts", "receipts", v, decode_receipts_payload)

encode_get_pooled_transactions(m) == WithId(m, encode_hash_list(m.transaction_hashes))
decode_get_pooled_transactions(v) ==
    Decoded("GetPooledTransactions", "transaction_hashes", v, decode_hash_list)

encode_pooled_transactions(m) == WithId(m, encode_pooled_transactions_payload(m.encoded_transactions))
decode_pooled_transactions(v) ==
    Decoded("PooledTransactions", "encoded_transactions", v, decode_pooled_transactions_payload)

encode_get_block_bodies(m) == WithId(m, encode_hash_list(m.block_hashes))
decode_get_block_bodies(v) == Decoded("GetBlockBodies", "block_hashes", v, decode_hash_list)

encode_block_bodies(m) == WithId(m, encode_block_bodies_payload(m.bodies))
decode_block_bodies(v) == Decoded("BlockBodies", "bodies", v, decode_block_bodies_payload)

(***************************************************************************)
(* The message of a kind.  A request for headers by hash and by number, or *)
(* a receipt with neither root nor status, is not encoded.                 *)
(***************************************************************************)
EthKinds == {"Status", "NewBlockHashes", "NewPooledTransactionHashes", "NewBlock", "GetBlockHeaders",
             "BlockHeaders", "GetReceipts", "Receipts", "GetPooledTransactions", "PooledTransactions",
             "GetBlockBodies", "BlockBodies"}

Encodable(m) ==
    /\ m.kind = "GetBlockHeaders" => m.start_hash = None \/ m.start_number = None
    /\ m.kind = "Receipts" => \A i \in DOMAIN m.receipts : \A j \in DOMAIN m.receipts[i] :
                                encodable_receipt(m.receipts[i][j])

EthEncode(m) ==
    CASE m.kind = "Status" -> encode_status(m)
      [] m.kind = "NewBlockHashes" -> encode_new_block_hashes(m)
      [] m.kind = "NewPooledTransactionHashes" -> encode_new_pooled_tx_hashes(m)
      [] m.kind = "NewBlock" -> encode_new_block(m)
      [] m.kind = "GetBlockHeaders" -> encode_get_block_headers(m)
      [] m.kind = "BlockHeaders" -> encode_block_headers(m)
      [] m.kind = "GetReceipts" -> encode_get_receipts(m)
      [] m.kind = "Receipts" -> encode_receipts(m)
      [] m.kind = "GetPooledTransactions" -> encode_get_pooled_transactions(m)
      [] m.kind = "PooledTransactions" -> encode_pooled_transactions(m)
      [] m.kind = "GetBlockBodies" -> encode_get_block_bodies(m)
      [] m.kind = "BlockBodies" -> encode_block_bodies(m)

EthDecode(kind, v) ==
    CASE kind = "Status" -> decode_status(v)
      [] kind = "NewBlockHashes" -> decode_new_block_hashes(v)
      [] kind = "NewPooledTransactionHashes" -> decode_new_pooled_tx_hashes(v)
      [] kind = "NewBlock" -> decode_new_block(v)
      [] kind = "GetBlockHeaders" -> decode_get_block_headers(v)
      [] kind = "BlockHeaders" -> decode_block_headers(v)
      [] kind = "GetReceipts" -> decode_get_receipts(v)
      [] kind = "Receipts" -> decode_receipts(v)
      [] kind = "GetPooledTransactions" -> decode_get_pooled_transactions(v)
      [] kind = "PooledTransactions" -> decode_pooled_transactions(v)
      [] kind = "GetBlockBodies" -> decode_get_block_bodies(v)
      [] kind = "BlockBodies" -> decode_block_bodies(v)

=============================================================================
