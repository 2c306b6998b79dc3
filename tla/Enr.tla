--------------------------------- MODULE Enr ---------------------------------
(***************************************************************************)
(* Node records: EnrParser (src/discv5/discv5_enr.cpp), and the record and *)
(* the FINDNODE and NODES bodies that src/discv5/discv5_client.cpp writes  *)
(* and reads, on the tokens of RlpTokens.                                  *)
(*                                                                         *)
(* A signature is what was signed and by whom: <<64, <<key, bytes>>>>.     *)
(* A node's key is its compressed public key, a string of 33 bytes, and    *)
(* its node id the same key in 64.                                         *)
(***************************************************************************)
EXTENDS NodeMessages

kId == <<2, 1>>
kIp == <<2, 2>>
kIp6 == <<3, 4>>
kTcp == <<3, 1>>
kUdp == <<3, 2>>
kTcp6 == <<4, 1>>
kUdp6 == <<4, 2>>
kSecp256k1 == <<9, 1>>
kSig == <<7, 9>>
kContent == <<11, 1>>
kIdentitySchemeV4 == <<2, 4>>
kInitialEnrSeq == One
kDefaultUdpPort == <<2, 9000>>
kDefaultTcpPort == <<2, 30303>>

EncPair(p) == Str(p[1]) \o p[2]
EncContent(seq, pairs) == <<Str(seq)>> \o [i \in DOMAIN pairs |-> EncPair(pairs[i])]

\* A record of any keys, signed by key: what a node publishes.  A pair's value is tokens.
EncRecord(seq, pairs, key) ==
    LET content == EncContent(seq, pairs)
    IN  List(<<Str(<<64, <<key, Wrapped(List(content))>>>>)>> \o content)

\* An IPv6 bind address is published as 0.0.0.0.
make_local_enr_record(ip, key, tcp, udp) ==
    EncRecord(kInitialEnrSeq,
              <<<<kId, Str(kIdentitySchemeV4)>>, <<kIp, Str(IF ip[1] = 4 THEN ip ELSE <<4, 0>>)>>,
                <<kSecp256k1, Str(key)>>, <<kTcp, Str(IF tcp /= Zero THEN tcp ELSE udp)>>, <<kUdp, Str(udp)>>>>,
              key)

decode_ipv4(x) == IF x[1] = 4 THEN x ELSE None
decode_ipv6(x) == IF x[1] = 16 THEN x ELSE None
decode_port(x) == IF x[1] \in {1, 2} /\ x[2] /= 0 THEN x ELSE None

decode_eth_entry(x) ==
    LET Fork(r) == IF r.ok THEN r.val ELSE None
    IN  Fork(EthEntryRead(Unwrap(x)))

\* What the value of key sets, None where it is refused and the field stays.
FieldOf(key, val) ==
    CASE key = kIp -> decode_ipv4(val)
      [] key = kIp6 -> decode_ipv6(val)
      [] key \in {kTcp, kUdp, kTcp6, kUdp6} -> decode_port(val)
      [] key = kEthKey -> decode_eth_entry(val)
      [] key = kSecp256k1 -> IF val[1] = 33 THEN val ELSE None
      [] OTHER -> val

\* Pairs until the data ends or one of the two is not a string; of several values that
\* are not refused the last one stays.
ReadPair(v) ==
    Then(ReadString(v), LAMBDA key :
    Then(ReadString(key.rest), LAMBDA val : Ok(<<key.val, FieldOf(key.val, val.val)>>, val.rest)))

\* The last value of each key.
Fields(pairs) ==
    LET LastOf(k) == CHOOSE i \in DOMAIN pairs :
                       pairs[i][1] = k /\ \A j \in i + 1..Len(pairs) : pairs[j][1] /= k
    IN  [k \in {pairs[i][1] : i \in DOMAIN pairs} |-> pairs[LastOf(k)][2]]

ReadPairs(v) == Fields(SelectSeq(While(v, 0, ReadPair).items, LAMBDA p : p[2] /= None))

\* fields is extra_fields with the members that have a key of their own.  The signature and the
\* content it covers are put there first, under two names that a pair may have too: the pair's
\* value then takes their place.  The content ends with the list, the pairs only with raw.
decode_rlp(raw) ==
    LET Step(r, F(_)) == IF r.ok THEN F(r) ELSE Err("EnrRlpDecodeFailed")
        Stored(h, sig) == (kSig :> sig.val) @@ (kContent :> Wrapped(List(<<SubSeq(sig.rest, 1, h.val - 1)>>)))
        Record(seq, fields) ==
            IF kSecp256k1 \notin DOMAIN fields \/ fields[kSecp256k1] = <<33, 0>> THEN Err("EnrMissingSecp256k1Key")
            ELSE Ok([seq |-> seq.val, fields |-> fields], <<>>)
    IN  Step(ReadListHeaderBytes(raw), LAMBDA h :
        Step(ReadString(h.rest), LAMBDA sig :
            IF sig.val[1] /= 64 THEN Err("EnrSignatureWrongSize")
            ELSE IF h.val = 0 THEN Err("undefined")  \* behind an empty list: content_elements_len wraps
            ELSE Step(ReadField(sig.rest, U(8)), LAMBDA seq : Record(seq, ReadPairs(seq.rest) @@ Stored(h, sig)))))

\* Mutant of verify_signature: any signature of the right key will do.
verify_any_content(r) == r.fields[kSig][1] = 64 /\ r.fields[kSig][2][1] = r.fields[kSecp256k1]

\* What is found under the two names, whoever put it there.
verify_signature(r) == r.fields[kSig] = <<64, <<r.fields[kSecp256k1], r.fields[kContent]>>>>

decompress_pubkey(key) == <<64, key[2]>>

to_validated_peer(r) ==
    LET Has(k) == k \in DOMAIN r.fields
        Get(k, default) == IF Has(k) THEN r.fields[k] ELSE default
        Peer(ip, udp, tcp) == [node_id |-> decompress_pubkey(r.fields[kSecp256k1]), ip |-> ip,
                               udp_port |-> Get(udp, kDefaultUdpPort), tcp_port |-> Get(tcp, kDefaultTcpPort),
                               eth_fork_id |-> Get(kEthKey, None)]
    IN  IF Has(kIp) THEN Ok(Peer(r.fields[kIp], kUdp, kTcp), <<>>)
        ELSE IF Has(kIp6) THEN Ok(Peer(r.fields[kIp6], kUdp6, kTcp6), <<>>)
        ELSE Err("EnrMissingAddress")

\* The steps parse_nodes_message takes with a record.  (EnrParser::parse, for a record in text, takes
\* the first two behind its prefix and only if there are at most 300 bytes.)
validated_peer(raw) ==
    Then(decode_rlp(raw), LAMBDA r :
        IF verify_signature(r.val) THEN to_validated_peer(r.val) ELSE Err("EnrSignatureInvalid"))

make_findnode_plaintext(req_id) == List(<<Str(req_id), List(<<Str(<<2, 256>>)>>)>>)

parse_findnode_req_id(v) == Then(ReadListHeaderBytes(v), LAMBDA h : ReadString(h.rest))

\* The reply's records in one NODES message.
make_nodes_plaintext(req_id, records) == List(<<Str(req_id), Str(One), List(records)>>)

\* Records that are not valid are passed over.
ReadRecord(v) ==
    LET Peers(p) == IF p.ok THEN <<p.val>> ELSE <<>>
    IN  Then(SkipItem(v), LAMBDA s : Ok(Peers(validated_peer(SubSeq(v, 1, Len(v) - Len(s.rest)))), s.rest))

parse_nodes_message(v) ==
    Then(ReadListHeaderBytes(v), LAMBDA h :
    Then(ReadFields(h.rest, <<<<"req_id", AnyBytes>>, <<"count", U(1)>>>>), LAMBDA head :
    Then(ReadListHeaderBytes(head.rest), LAMBDA list :
        Ok([kind |-> "Nodes", req_id |-> head.val.req_id,
            peers |-> FlattenSeq(While(list.rest, Len(list.rest) - list.val, ReadRecord).items)], <<>>))))

(***************************************************************************)
(* The text of a record: base64url without padding.  A character is its    *)
(* six bits, or one of two that have none.                                 *)
(***************************************************************************)
kPad == 64
kBase64Invalid == 255

\* What any encoder writes: the bits in groups of six, the last filled up with zeros.
base64url_encode(bytes) ==
    LET Bit(i) == IF i > 8 * Len(bytes) THEN 0
                  ELSE (bytes[((i - 1) \div 8) + 1] \div 2 ^ (7 - ((i - 1) % 8))) % 2
        Char(j) == FoldLeft(LAMBDA a, k : 2 * a + Bit(6 * (j - 1) + k), 0, <<1, 2, 3, 4, 5, 6>>)
    IN  [j \in 1..((8 * Len(bytes) + 5) \div 6) |-> Char(j)]

\* Of the accumulator's 32 bits the low 14 are read; 20 are kept here.
base64url_decode(body) ==
    LET padding == CHOOSE n \in 0..Len(body) :
                     /\ \A i \in Len(body) - n + 1..Len(body) : body[i] = kPad
                     /\ n < Len(body) => body[Len(body) - n] /= kPad
        chars == SubSeq(body, 1, Len(body) - padding)
        Step(s, c) == LET acc == (s.acc * 64 + c) % 2 ^ 20
                          bits == s.bits + 6
                      IN  IF bits >= 8
                          THEN [acc |-> acc, bits |-> bits - 8, out |-> Append(s.out, (acc \div 2 ^ (bits - 8)) % 256)]
                          ELSE [acc |-> acc, bits |-> bits, out |-> s.out]
    IN  IF \E i \in DOMAIN chars : chars[i] \notin 0..63 THEN Err("EnrBase64DecodeFailed")
        ELSE Ok(FoldLeft(Step, [acc |-> 0, bits |-> 0, out |-> <<>>], chars).out, <<>>)

=============================================================================
