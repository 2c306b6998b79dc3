---------------------------- MODULE NodeMessages ----------------------------
(***************************************************************************)
(* The devp2p messages of src/rlpx/protocol/messages.cpp and the packets   *)
(* of src/discv4: ping, pong, ENR request and response, FIND_NODE and      *)
(* NEIGHBOURS, on the tokens of RlpTokens.  A discv4 packet is what stands *)
(* behind its hash, signature and type byte.                               *)
(***************************************************************************)
EXTENDS EthObjects

(***************************************************************************)
(* devp2p.                                                                 *)
(***************************************************************************)
EncCapability(c) == List(<<Str(c.name), Str(c.version)>>)

encode_hello(m) ==
    List(<<Str(m.protocol_version), Str(m.client_id), ListOf(m.capabilities, EncCapability),
           Str(m.listen_port), Str(m.node_id)>>)

\* A version is the first byte of whatever string is there.
FirstByte(x) == IF x[1] <= 1 THEN (IF x[2] = 0 THEN Zero ELSE x) ELSE <<1, x[2]>>

\* Capabilities go on while the next item is a list; one that cannot be read is left
\* where it stopped, and the loop goes on from there.
ReadCapability(v) ==
    LET Version(name, version) ==
            IF version.ok THEN Ok(<<[name |-> name.val, version |-> FirstByte(version.val)]>>, version.rest)
            ELSE Ok(<<>>, name.rest)
        Name(h, name) == IF name.ok THEN Version(name, ReadString(name.rest)) ELSE Ok(<<>>, h.rest)
    IN  Then(ReadListHeaderBytes(v), LAMBDA h : Name(h, ReadString(h.rest)))

decode_hello(v) ==
    LET AfterCapabilities(head, caps) ==
            Then(ReadFields(caps.rest, <<<<"listen_port", U(2)>>, <<"node_id", Span(64)>>>>), LAMBDA tail :
                Ok([kind |-> "Hello", capabilities |-> FlattenSeq(caps.items),
                    protocol_version |-> FirstByte(head.val.protocol_version), client_id |-> head.val.client_id]
                     @@ tail.val, tail.rest))
    IN  Then(ReadListHeaderBytes(v), LAMBDA h :
        Then(ReadFields(h.rest, <<<<"protocol_version", AnyBytes>>, <<"client_id", AnyBytes>>>>), LAMBDA head :
        Then(ReadListHeaderBytes(head.rest), LAMBDA list :
            AfterCapabilities(head, While(list.rest, 0, ReadCapability)))))

encode_disconnect(m) == List(<<Str(m.reason)>>)

\* Any payload gives a reason: none, no list, an empty list or an unreadable one too.
decode_disconnect(v) ==
    LET Msg(r) == Ok([kind |-> "Disconnect", reason |-> r], <<>>)
        Reason(r) == Msg(IF r.ok THEN FirstByte(r.val) ELSE Zero)
        Listed(h) == IF ~h.ok THEN Msg(IF v[1].list THEN <<1, 192>>
                                       ELSE IF v[1].x[1] = 1 THEN FirstByte(v[1].x) ELSE <<1, 128>>)
                     ELSE IF h.val = 0 THEN Msg(Zero)
                     ELSE Reason(ReadString(h.rest))
    IN  IF v = <<>> THEN Msg(Zero) ELSE Listed(ReadListHeaderBytes(v))

encode_p2p_ping(m) == List(<<>>)
decode_p2p_ping(v) == Ok([kind |-> "P2pPing"], <<>>)

(***************************************************************************)
(* discv4.                                                                 *)
(***************************************************************************)
EncEndpoint(e) == List(<<Str(e.ip), Str(e.udp), Str(e.tcp)>>)

\* handle_ping's answer: the sender's endpoint and the hash of the PING.
encode_discv4_pong(m) ==
    List(<<EncEndpoint(m.toEndpoint), Str(m.pingHash), Str(m.expiration)>>
         \o (IF m.ersErq = Zero THEN <<>> ELSE <<Str(m.ersErq)>>))

ParseEndpoint(v) ==
    Then(ReadListHeaderBytes(v), LAMBDA h :
        ReadFields(h.rest, <<<<"ip", Span(4)>>, <<"udp", U(2)>>, <<"tcp", U(2)>>>>))

\* static_cast<uint32_t>: of more than four bytes the last four stay.
LowFour(x) == IF x[1] <= 4 THEN x ELSE <<4, x[2]>>

parse_pong(v) ==
    Then(ReadListHeaderBytes(v), LAMBDA h :
    Then(ParseEndpoint(h.rest), LAMBDA to :
    Then(ReadFields(to.rest, <<<<"pingHash", Hash256>>, <<"expiration", U(8)>>>>), LAMBDA body :
    Then(IF body.rest = <<>> THEN Ok(Zero, <<>>) ELSE ReadField(body.rest, U(8)), LAMBDA seq :
        IF SkipItems(seq.rest) /= <<>> THEN Err("InputTooShort")
        ELSE Ok([kind |-> "Pong", toEndpoint |-> to.val, pingHash |-> body.val.pingHash,
                 expiration |-> LowFour(body.val.expiration), ersErq |-> seq.val], <<>>)))))

\* A peer's ENR response and NEIGHBOURS.
encode_enr_response(m) == List(<<Str(m.request_hash), m.record>>)
EncNode(n) == List(<<Str(n.ip), Str(n.udp_port), Str(n.tcp_port), Str(n.node_id)>>)
encode_neighbours(m) == List(<<ListOf(m.nodes, EncNode), Str(m.expiration)>>)

parse_enr_response(v) ==
    Then(ReadListHeaderBytes(v), LAMBDA h :
    Then(ReadField(h.rest, Hash256), LAMBDA hash :
    Then(consume_next_item(hash.rest), LAMBDA record :
        Ok([kind |-> "EnrResponse", request_hash |-> hash.val, record |-> record.val], record.rest))))

kEthKey == <<3, 3>>

\* A list around the fork id's list.
EthEntryRead(v) ==
    Then(ReadListHeaderBytes(v), LAMBDA outer :
    Then(ReadListHeaderBytes(outer.rest), LAMBDA inner : ReadFields(inner.rest, ForkFields)))

\* The value of the key "eth" in a record.
ParseEthForkId(record) ==
    LET Other(v) == Then(ReadString(v), LAMBDA key :
                        IF key.val = kEthKey THEN Err("found") ELSE SkipItem(key.rest))
        Found(pairs) == IF pairs.stop.ok THEN Err("UnexpectedString")
                        ELSE IF pairs.stop.err /= "found" THEN pairs.stop
                        ELSE EthEntryRead(Tail(pairs.rest))
    IN  Then(ReadListHeaderBytes(record), LAMBDA h :
        Then(SkipItem(h.rest), LAMBDA sig :
        Then(SkipItem(sig.rest), LAMBDA seq : Found(While(seq.rest, 0, Other)))))

\* handle_neighbours: nodes up to the first that is not one, without those that have no
\* TCP port; fields behind the four of a node are skipped as far as they are items.
ReadNode(v) ==
    LET Behind(n, inside) == SubSeq(n.rest, 1 + Len(inside) - Len(SkipItems(inside)), Len(n.rest))
    IN  Then(ReadListHeaderBytes(v), LAMBDA h :
        Then(ReadFields(h.rest, <<<<"ip", Span(4)>>, <<"udp_port", U(2)>>, <<"tcp_port", U(2)>>,
                                  <<"node_id", Span(64)>>>>), LAMBDA n :
            Ok(n.val, Behind(n, SubSeq(n.rest, 1, Len(n.rest) - (Len(h.rest) - h.val))))))

parse_neighbours(v) ==
    Then(ReadListHeaderBytes(v), LAMBDA outer :
    Then(ReadListHeaderBytes(outer.rest), LAMBDA list :
        Ok([kind |-> "Neighbours",
            nodes |-> SelectSeq(While(list.rest, Len(list.rest) - list.val, ReadNode).items,
                                LAMBDA n : n.tcp_port /= Zero)], <<>>)))

\* What a requester of the record takes from it.
request_enr_reply(v) == Then(parse_enr_response(v), LAMBDA r : ParseEthForkId(r.val.record))

NodeKinds == {"Hello", "Disconnect", "P2pPing", "Pong", "EnrResponse", "Neighbours"}

NodeEncode(m) ==
    CASE m.kind = "Hello" -> encode_hello(m)
      [] m.kind = "Disconnect" -> encode_disconnect(m)
      [] m.kind = "P2pPing" -> encode_p2p_ping(m)
      [] m.kind = "Pong" -> encode_discv4_pong(m)
      [] m.kind = "EnrResponse" -> encode_enr_response(m)
      [] m.kind = "Neighbours" -> encode_neighbours(m)

NodeDecode(kind, v) ==
    CASE kind = "Hello" -> decode_hello(v)
      [] kind = "Disconnect" -> decode_disconnect(v)
      [] kind = "P2pPing" -> decode_p2p_ping(v)
      [] kind = "Pong" -> parse_pong(v)
      [] kind = "EnrResponse" -> request_enr_reply(v)
      [] kind = "Neighbours" -> parse_neighbours(v)

=============================================================================
