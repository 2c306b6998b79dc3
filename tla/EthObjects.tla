----------------------------- MODULE EthObjects -----------------------------
(***************************************************************************)
(* src/eth/objects.cpp: the encoding of log entries, access lists,         *)
(* transactions, receipts and block headers, on the tokens of RlpTokens.   *)
(* An optional field that is absent is None.                               *)
(***************************************************************************)
EXTENDS RlpTokens

None == <<>>
Or(x, default) == IF x = None THEN default ELSE x

Hash256 == Span(32)
Address == Span(20)
Bloom == Span(256)
kDefaultChainId == One
ForkFields == <<<<"fork_hash", Span(4)>>, <<"next_fork", U(8)>>>>

EncStr(x) == Str(x)

\* Mutant of ReadHash: as many bytes as there are.
ReadHashOfAnySize(v) == ReadString(v)

ReadHash(v) == ReadField(v, Hash256)

encode_log_entry(e) == List(<<Str(e.address), ListOf(e.topics, EncStr), Str(e.data)>>)

\* The entry must end where its list does.
decode_log_entry(v) ==
    Enclosed(v, LAMBDA h :
    Then(ReadField(h.rest, Address), LAMBDA address :
    Then(ReadList(address.rest, ReadHash), LAMBDA topics :
    Then(ReadString(topics.rest), LAMBDA data :
        Ok([address |-> address.val, topics |-> topics.val, data |-> data.val], data.rest)))))

encode_access_list_entry(e) == List(<<Str(e.address), ListOf(e.storage_keys, EncStr)>>)

decode_access_list_entry(v) ==
    Enclosed(v, LAMBDA h :
    Then(ReadField(h.rest, Address), LAMBDA address :
    Then(ReadList(address.rest, ReadHash), LAMBDA keys :
        Ok([address |-> address.val, storage_keys |-> keys.val], keys.rest))))

encode_access_list(entries) == ListOf(entries, encode_access_list_entry)
decode_access_list(v) == ReadList(v, decode_access_list_entry)

(***************************************************************************)
(* Transactions: a list, behind the byte of the type unless legacy.        *)
(***************************************************************************)
kLegacy == 0
kAccessList == 1
kDynamicFee == 2

To(tx) == Str(Or(tx.to, Zero))
Signature(tx) == <<Str(tx.v), Str(tx.r), Str(tx.s)>>

encode_transaction(tx) ==
    LET price == Str(Or(tx.gas_price, Zero))
        fees == <<Str(Or(tx.max_priority_fee_per_gas, Zero)), Str(Or(tx.max_fee_per_gas, Zero))>>
        typed(cost) == List(<<Str(Or(tx.chain_id, kDefaultChainId)), Str(tx.nonce)>> \o cost
                             \o <<Str(tx.gas_limit), To(tx), Str(tx.value), Str(tx.data),
                                  encode_access_list(tx.access_list)>> \o Signature(tx))
    IN  CASE tx.type = kLegacy ->
               List(<<Str(tx.nonce), price, Str(tx.gas_limit), To(tx), Str(tx.value), Str(tx.data)>>
                     \o Signature(tx))
          [] tx.type = kAccessList -> Str(<<1, kAccessList>>) \o typed(<<price>>)
          [] tx.type = kDynamicFee -> Str(<<1, kDynamicFee>>) \o typed(fees)

\* Neither the end of the list nor of the data is looked at.
decode_to(v) ==
    Then(PeekHeader(v), LAMBDA h :
        IF h.val.len = 0 THEN Then(ReadString(v), LAMBDA empty : Ok(None, empty.rest))
        ELSE ReadField(v, Address))

TxRead(typed, fee, v) ==
    LET cost == IF fee = kDynamicFee
                THEN <<<<"max_priority_fee_per_gas", U(32)>>, <<"max_fee_per_gas", U(32)>>>>
                ELSE <<<<"gas_price", U(32)>>>>
        absent == [chain_id |-> None, gas_price |-> None, max_priority_fee_per_gas |-> None,
                   max_fee_per_gas |-> None]
    IN  Then(ReadListHeaderBytes(v), LAMBDA h :
        Then(ReadFields(h.rest, (IF typed THEN <<<<"chain_id", U(8)>>>> ELSE <<>>)
                                  \o <<<<"nonce", U(8)>>>> \o cost \o <<<<"gas_limit", U(8)>>>>), LAMBDA head :
        Then(decode_to(head.rest), LAMBDA to :
        Then(ReadFields(to.rest, <<<<"value", U(32)>>, <<"data", AnyBytes>>>>), LAMBDA body :
        Then(IF typed THEN decode_access_list(body.rest) ELSE Ok(<<>>, body.rest), LAMBDA al :
        Then(ReadFields(al.rest, <<<<"v", U(32)>>, <<"r", U(32)>>, <<"s", U(32)>>>>), LAMBDA sig :
            Ok([type |-> fee, to |-> to.val, access_list |-> al.val]
                 @@ head.val @@ body.val @@ sig.val @@ absent, sig.rest)))))))

\* A first byte below 0xC0 is a type; in tokens, a string that is that one byte.
decode_transaction(raw) ==
    IF raw = <<>> THEN Err("InputTooShort")
    ELSE IF raw[1].list THEN TxRead(FALSE, kLegacy, raw)
    ELSE IF raw[1].x \in {<<1, kAccessList>>, <<1, kDynamicFee>>}
    THEN TxRead(TRUE, raw[1].x[2], Tail(raw))
    ELSE Err("UnexpectedString")

(***************************************************************************)
(* Receipts.                                                               *)
(***************************************************************************)
encodable_receipt(r) == r.state_root /= None \/ r.status /= None

\* With neither a state root nor a status there is nothing to encode.
encode_receipt(r) ==
    List(<<Str(IF r.state_root /= None THEN r.state_root ELSE r.status),
           Str(r.cumulative_gas_used), Str(r.bloom), ListOf(r.logs, encode_log_entry)>>)

\* 32 bytes are a state root, none or one byte a status.
decode_status_or_state_root(v) ==
    Then(ReadString(v), LAMBDA s :
        IF s.val[1] = 32 THEN Ok([state_root |-> s.val, status |-> None], s.rest)
        ELSE IF s.val[1] <= 1
        THEN Ok([state_root |-> None, status |-> IF s.val \in {Zero, <<1, 0>>} THEN Zero ELSE One], s.rest)
        ELSE Err("UnexpectedLength"))

decode_receipt(v) ==
    Then(ReadListHeaderBytes(v), LAMBDA h :
    Then(decode_status_or_state_root(h.rest), LAMBDA first :
    Then(ReadFields(first.rest, <<<<"cumulative_gas_used", U(32)>>, <<"bloom", Bloom>>>>), LAMBDA mid :
    Then(ReadList(mid.rest, decode_log_entry), LAMBDA logs :
        Ok(first.val @@ mid.val @@ [logs |-> logs.val], logs.rest)))))

(***************************************************************************)
(* Block headers: base_fee_per_gas is there when anything is.              *)
(***************************************************************************)
encode_block_header(h) ==
    List(<<Str(h.parent_hash), Str(h.ommers_hash), Str(h.beneficiary), Str(h.state_root),
           Str(h.transactions_root), Str(h.receipts_root), Str(h.logs_bloom), Str(h.difficulty),
           Str(h.number), Str(h.gas_limit), Str(h.gas_used), Str(h.timestamp), Str(h.extra_data),
           Str(h.mix_hash), Str(h.nonce)>>
         \o (IF h.base_fee_per_gas = None THEN <<>> ELSE <<Str(h.base_fee_per_gas)>>))

kHeaderFields ==
    <<<<"parent_hash", Hash256>>, <<"ommers_hash", Hash256>>, <<"beneficiary", Address>>,
      <<"state_root", Hash256>>, <<"transactions_root", Hash256>>, <<"receipts_root", Hash256>>,
      <<"logs_bloom", Bloom>>, <<"difficulty", U(32)>>, <<"number", U(8)>>,
      <<"gas_limit", U(8)>>, <<"gas_used", U(8)>>, <<"timestamp", U(8)>>,
      <<"extra_data", AnyBytes>>, <<"mix_hash", Hash256>>, <<"nonce", Span(8)>>>>

decode_block_header(v) ==
    Then(ReadListHeaderBytes(v), LAMBDA h :
    Then(ReadFields(h.rest, kHeaderFields), LAMBDA fixed :
    Then(IF fixed.rest = <<>> THEN Ok(None, <<>>) ELSE ReadField(fixed.rest, U(32)), LAMBDA fee :
        Ok(fixed.val @@ [base_fee_per_gas |-> fee.val], fee.rest))))

=============================================================================
