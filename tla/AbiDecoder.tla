----------------------------- MODULE AbiDecoder -----------------------------
(***************************************************************************)
(* The decoder of event logs, eth/abi_decoder.cpp, with the registry of    *)
(* known events, eth/eth_watch_cli.hpp.                                    *)
(*                                                                         *)
(* A word of 32 bytes is <<pad, low>>: its first 12 and its last 20 bytes  *)
(* as numbers.  A content is <<length, what>>, what > 0.  The              *)
(* data of a log is [size, at]: its size in bytes and what is written at   *)
(* which byte.  size_t counts to kSizeRange, far above the size of any     *)
(* data here; a word that is not below it does not fit.                    *)
(***************************************************************************)
EXTENDS RlpTokens

kAbiWordSize == 32
kSizeRange == 2 ^ 16

Param(kind, indexed) == [kind |-> kind, indexed |-> indexed]

is_dynamic(kind) == kind \in {"bytes", "string"}
event_signature_hash(signature) == <<"hash", signature>>

\* The value of an indexed parameter of a dynamic type is its hash: it is given up.
decode_abi_word(word, kind) ==
    CASE kind = "address" -> [address |-> word[2]]
      [] kind = "uint" -> [uint |-> word]
      [] kind = "bytes32" -> [bytes32 |-> word]
      [] kind = "bool" -> [bool |-> word[2] % 256 /= 0]
      [] kind = "bytes" -> [bytes |-> Zero]
      [] kind = "string" -> [string |-> Zero]

\* What length bytes from offset on hold.
Content(data, offset, length) ==
    IF length = 0 THEN Zero
    ELSE IF offset \in DOMAIN data.at /\ data.at[offset][1] = length /\ offset + length <= data.size
    THEN data.at[offset] ELSE <<length, 0>>

WordAt(data, offset) == IF offset \in DOMAIN data.at THEN data.at[offset] ELSE Zero

\* Mutant of decode_dynamic: the end of the content is not compared with the end of the data.
decode_dynamic_unchecked(data, head, kind) ==
    LET tail == WordAt(data, head)[2]
        content == Content(data, tail + kAbiWordSize, WordAt(data, tail)[2])
    IN  IF data.size < tail + kAbiWordSize THEN Err("InputTooShort")
        ELSE Ok(IF kind = "bytes" THEN [bytes |-> content] ELSE [string |-> content], <<>>)

FitsSize(word) == word[1] = 0 /\ word[2] < kSizeRange

\* The head holds the place of a length, which the content follows.  Both sums wrap like size_t;
\* what is then read lies outside the data, and is not known.
decode_dynamic(data, head, kind) ==
    LET offset == WordAt(data, head)
        length == WordAt(data, offset[2])
        content_offset == (offset[2] + kAbiWordSize) % kSizeRange
        content == Content(data, content_offset, length[2])
    IN  IF ~FitsSize(offset) THEN Err("Overflow")
        ELSE IF data.size < content_offset THEN Err("InputTooShort")
        ELSE IF ~FitsSize(length) THEN Err("Overflow")
        ELSE IF data.size < (content_offset + length[2]) % kSizeRange THEN Err("InputTooShort")
        ELSE Ok(IF kind = "bytes" THEN [bytes |-> content] ELSE [string |-> content], <<>>)

\* Appends the value of one parameter; the first error stays.
decode_slot(data, results, param, i) ==
    LET v == IF is_dynamic(param.kind) THEN decode_dynamic(data, i * kAbiWordSize, param.kind)
             ELSE Ok(decode_abi_word(WordAt(data, i * kAbiWordSize), param.kind), <<>>)
    IN  IF ~results.ok THEN results ELSE IF v.ok THEN Ok(Append(results.val, v.val), <<>>) ELSE v

decode_log_data(data, params) ==
    IF data.size < Len(params) * kAbiWordSize THEN Err("InputTooShort")
    ELSE FoldLeft(LAMBDA results, i : decode_slot(data, results, params[i], i - 1), Ok(<<>>, <<>>), [i \in DOMAIN params |-> i])

Indexed(params) == SelectSeq(params, LAMBDA p : p.indexed)
InData(params) == SelectSeq(params, LAMBDA p : ~p.indexed)

\* The indexed parameters first, then those of the data.
decode_log(log, signature, params) ==
    LET indexed == Indexed(params)
        data_vals == decode_log_data(log.data, InData(params))
    IN  IF log.topics = <<>> THEN Err("InputTooShort")
        ELSE IF log.topics[1] /= event_signature_hash(signature) THEN Err("UnexpectedString")
        ELSE IF Len(indexed) >= Len(log.topics) THEN Err("InputTooShort")
        ELSE IF ~data_vals.ok THEN data_vals
        ELSE Ok([i \in DOMAIN indexed |-> decode_abi_word(log.topics[i + 1], indexed[i].kind)] \o data_vals.val, <<>>)

\* The parameters the registry holds for a signature, none if it is not known.
params_for(signature) ==
    LET Addresses(n) == [i \in 1..n |-> Param("address", TRUE)]
    IN  CASE signature \in {"Transfer", "Approval"} -> Addresses(2) \o <<Param("uint", FALSE)>>
          [] signature = "Transfer indexed" -> Addresses(2) \o <<Param("uint", TRUE)>>
          [] signature = "ApprovalForAll" -> Addresses(2) \o <<Param("bool", FALSE)>>
          [] signature = "TransferSingle" -> Addresses(3) \o <<Param("uint", FALSE), Param("uint", FALSE)>>
          [] signature = "TransferBatch" -> Addresses(3) \o <<Param("bytes32", FALSE), Param("bytes32", FALSE)>>
          [] signature = "BridgeSourceBurned" -> Addresses(1) \o [i \in 1..4 |-> Param("uint", FALSE)]
          [] OTHER -> <<>>

(***************************************************************************)
(* What a contract writes (external): args are words, or contents.         *)
(***************************************************************************)
PaddedTo32(n) == ((n + 31) \div kAbiWordSize) * kAbiWordSize

\* Appends the length and the content of a dynamic argument and notes where they are.
AddTail(data, slot, kind, arg) ==
    IF ~is_dynamic(kind) THEN [data EXCEPT !.at = (slot * kAbiWordSize :> arg) @@ @]
    ELSE [size |-> data.size + kAbiWordSize + PaddedTo32(arg[1]),
          at |-> (slot * kAbiWordSize :> <<0, data.size>>) @@ (data.size :> <<0, arg[1]>>)
                   @@ (data.size + kAbiWordSize :> arg) @@ data.at]

EmitLog(m) ==
    LET numbers == [i \in DOMAIN m.params |-> i]
        topics == SelectSeq(numbers, LAMBDA i : m.params[i].indexed)
        slots == SelectSeq(numbers, LAMBDA i : ~m.params[i].indexed)
        Topic(i) == IF is_dynamic(m.params[i].kind) THEN <<1, 1>> ELSE m.args[i]
    IN  [topics |-> <<event_signature_hash(m.signature)>> \o [j \in DOMAIN topics |-> Topic(topics[j])],
         data |-> FoldLeft(LAMBDA data, j : AddTail(data, j - 1, m.params[slots[j]].kind, m.args[slots[j]]),
                           [size |-> Len(slots) * kAbiWordSize, at |-> <<>>], [j \in DOMAIN slots |-> j])]

=============================================================================
