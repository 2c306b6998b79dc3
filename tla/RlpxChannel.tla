----------------------------- MODULE RlpxChannel -----------------------------
(***************************************************************************)
(* The encrypted channel of an RLPx session, from the first byte of the    *)
(* auth handshake to the messages of the session: AuthHandshake,           *)
(* EciesCipher, FrameCipher, MessageStream and SocketTransport.            *)
(*                                                                         *)
(* "node" is this program and dials.  "peer" answers: a client of the      *)
(* network that follows the protocol (external), or this program's own     *)
(* responder.  After the handshake both use the frame cipher, whose        *)
(* comments call it an exact port of the other clients'.  Cryptography is  *)
(* symbolic: a secret is what it is computed from, a running hash is the   *)
(* sequence of what was written to it, a ciphertext is its text with the   *)
(* key and the position in the key stream.  TCP delivers in order; the     *)
(* connection may break anywhere and one unit may be damaged on its way.   *)
(***************************************************************************)
EXTENDS Integers, Sequences, SequencesExt

CONSTANTS Sizes,        \* payload sizes in bytes
          Versions,     \* p2p versions of the peer
          AckLengths,   \* lengths of the peer's ack
          MaxEndpoints, \* addresses a name may have
          MaxMessages   \* side -> messages it sends after its HELLO

ASSUME ChannelAssumption == Sizes \subseteq Nat /\ MaxEndpoints \in Nat /\ MaxMessages \in [{"node", "peer"} -> Nat]

VARIABLES peer,       \* [kind, version, ack]: what answers
          up,         \* the TCP connection stands
          link,       \* side -> units on their way to it
          phase,      \* side -> how far it is
          keys,       \* side -> AuthKeyMaterial
          secrets,    \* side -> FrameSecrets
          cipher,     \* side -> state of its FrameCipher
          pending,    \* side -> size of the frame whose header was read
          compression_enabled,
          sent, received,
          timer,      \* of connect_with_timeout
          endpoints,  \* that are left to try
          disturbed   \* a unit was damaged, the connection broke or a message was refused

vars == <<peer, up, link, phase, keys, secrets, cipher, pending, compression_enabled, sent, received, timer, endpoints, disturbed>>
dial == <<timer, endpoints>>

Sides == {"node", "peer"}
Other(s) == IF s = "node" THEN "peer" ELSE "node"
None == <<>>

\* Mutant of kMaxEip8HandshakePacketSize: the size of a packet before EIP-8.
kAuthSize == 307

kMaxEip8HandshakePacketSize == 2048
kMaxFrameSize == 2 ^ 24
kFramePaddingAlignment == 16
kProtocolVersion == 5
kHelloMessageId == 0
kOtherMessageId == 16

(***************************************************************************)
(* Handshake: what is sent and what is derived from it.                    *)
(***************************************************************************)
\* prefix is the length in front of the packet, which the MAC also covers.
Encrypt(body, to, prefix) == [unit |-> "ecies", body |-> body, to |-> to, mac |-> prefix]
Decrypts(packet, s, prefix) == packet.to = s /\ packet.mac = prefix

kAuthLength == 382

create_auth_message(length) ==
    Encrypt([form |-> "rlp", key |-> "node", nonce |-> "nonce of node", ephemeral |-> "node"], "peer", length)

\* The nonce in the seed of what a side sends is that of the other.
EgressNonce(s) == IF s = "node" THEN "nonce of peer" ELSE "nonce of node"

\* Either side computes the secret from its own private and the other's public key.
compute_shared_secret(public_key, private_key) == {public_key, private_key}

\* Mutant of derive_frame_secrets: the responder does not exchange the two directions.
derive_frame_secrets_same(k, s) ==
    LET aes == [ecdhe |-> compute_shared_secret(k.peer_ephemeral, s), nonces |-> k.nonces]
        seed(side) == [mac |-> aes, nonce |-> EgressNonce(side),
                       packet |-> IF side = "node" THEN k.auth ELSE k.ack]
    IN  [aes |-> aes, egress |-> seed("node"), ingress |-> seed("peer")]

\* auth and ack are the packets as they were on the wire; a side sends with the hash that starts
\* with the packet it sent.
derive_frame_secrets(k, s) ==
    LET aes == [ecdhe |-> compute_shared_secret(k.peer_ephemeral, s), nonces |-> k.nonces]
        seed(side) == [mac |-> aes, nonce |-> EgressNonce(side),
                       packet |-> IF side = "node" THEN k.auth ELSE k.ack]
    IN  [aes |-> aes, egress |-> seed(s), ingress |-> seed(Other(s))]

\* FrameCipher::FrameCipher.
NewCipher(sec) == [aes |-> sec.aes, enc |-> 0, dec |-> 0,
                   egress |-> <<[write |-> "seed", what |-> sec.egress]>>,
                   ingress |-> <<[write |-> "seed", what |-> sec.ingress]>>]

\* The fixed offsets of parse_auth_message fit a plain body, not the RLP list that
\* create_auth_message makes: what they cut out of that is not a key.
parse_auth_message(body) == IF body.form = "plain" THEN body.key ELSE "not a key"

(***************************************************************************)
(* Frames.  Positions of the key stream are counted in blocks.             *)
(***************************************************************************)
Padded(size) == ((size + kFramePaddingAlignment - 1) \div kFramePaddingAlignment) * kFramePaddingAlignment
Blocks(size) == Padded(size) \div kFramePaddingAlignment

Ciphertext(c, at, text) == [aes |-> c.aes, at |-> at, text |-> text, hurt |-> FALSE]

\* AesCtrState::process: another key or place in the key stream, or a damaged text, gives another text.
Plaintext(c, ct) == IF ct.aes = c.aes /\ ct.at = c.dec /\ ~ct.hurt THEN ct.text
                    ELSE [ct.text EXCEPT !.size = (@ + 1) % 2 ^ 24]

compute_header(mac, ct) == Append(mac, [write |-> "header", what |-> ct])
compute_frame(mac, ct) == mac \o <<[write |-> "frame", what |-> ct], [write |-> "sum", what |-> ct]>>

\* The length in the header has three bytes.
encrypt_frame(c, size, text) ==
    LET header == Ciphertext(c, c.enc, [size |-> size % 2 ^ 24])
        body == Ciphertext(c, c.enc + 1, text)
        mac1 == compute_header(c.egress, header)
        mac2 == compute_frame(mac1, body)
    IN  [cipher |-> [c EXCEPT !.enc = @ + 1 + Blocks(size), !.egress = mac2],
         wire |-> <<[unit |-> "header", is |-> header], [unit |-> "mac", is |-> mac1],
                    [unit |-> "frame", is |-> body], [unit |-> "mac", is |-> mac2]>>]

\* Mutant of decrypt_header: the key stream is not moved on.
decrypt_header_stays(c, header, mac) ==
    LET expected == compute_header(c.ingress, header)
    IN  [ok |-> mac = expected, size |-> Plaintext(c, header).size, cipher |-> [c EXCEPT !.ingress = expected]]

\* The hash moves whether or not the MAC is right; the key stream only when it is.
decrypt_header(c, header, mac) ==
    LET expected == compute_header(c.ingress, header)
        size == Plaintext(c, header).size
    IN  IF mac /= expected THEN [ok |-> FALSE, size |-> 0, cipher |-> [c EXCEPT !.ingress = expected]]
        ELSE [ok |-> size > 0 /\ size <= kMaxFrameSize, size |-> size,
              cipher |-> [c EXCEPT !.ingress = expected, !.dec = @ + 1]]

\* Mutant of decrypt_frame_body: the MAC of the body is not compared.
decrypt_frame_body_unchecked(c, size, body, mac) ==
    [ok |-> TRUE, text |-> Plaintext(c, body),
     cipher |-> [c EXCEPT !.ingress = compute_frame(@, body), !.dec = @ + Blocks(size)]]

decrypt_frame_body(c, size, body, mac) ==
    LET expected == compute_frame(c.ingress, body)
    IN  IF mac /= expected THEN [ok |-> FALSE, text |-> None, cipher |-> [c EXCEPT !.ingress = expected]]
        ELSE [ok |-> TRUE, text |-> Plaintext(c, body),
              cipher |-> [c EXCEPT !.ingress = expected, !.dec = @ + Blocks(size)]]

(***************************************************************************)
(* Messages: an id in one byte and a payload; compression adds two bytes   *)
(* to a payload that cannot be made smaller (snappy, external).            *)
(***************************************************************************)
kCompressionOverhead == 2

Payload(s, msg) == [id |-> msg.id, packed |-> compression_enabled[s] /\ msg.size > 0,
                    size |-> msg.size + IF compression_enabled[s] /\ msg.size > 0 THEN kCompressionOverhead ELSE 0]

\* What receive_message makes of the text of a frame, and whether it does.
Readable(s, text) == ~compression_enabled[s] \/ text.size = 0 \/ text.packed
MessageOf(s, text) ==
    [id |-> text.id, size |-> text.size - IF compression_enabled[s] /\ text.packed THEN kCompressionOverhead ELSE 0]

-----------------------------------------------------------------------------
Init ==
    /\ peer \in [kind : {"standard", "own"}, version : Versions, ack : AckLengths]
    /\ up = FALSE
    /\ link = [s \in Sides |-> <<>>]
    /\ phase = [node |-> "resolving", peer |-> "start"]
    /\ keys = [s \in Sides |-> None]
    /\ secrets = [s \in Sides |-> None]
    /\ cipher = [s \in Sides |-> None]
    /\ pending = [s \in Sides |-> 0]
    /\ compression_enabled = [s \in Sides |-> FALSE]
    /\ sent = [s \in Sides |-> <<>>]
    /\ received = [s \in Sides |-> <<>>]
    /\ timer = "armed" /\ endpoints = 0
    /\ disturbed = FALSE

(***************************************************************************)
(* connect_with_timeout.                                                   *)
(***************************************************************************)
\* It returns: the timer is cancelled.
Returns(to) == phase' = [phase EXCEPT !["node"] = to] /\ timer' = "off" /\ endpoints' = 0

\* The name has some addresses, or cannot be resolved.
Resolved ==
    /\ phase["node"] = "resolving"
    /\ \/ \E n \in 1..MaxEndpoints : endpoints' = n /\ phase' = [phase EXCEPT !["node"] = "connecting"] /\ UNCHANGED timer
       \/ Returns("unreached")
    /\ UNCHANGED <<peer, up, link, keys, secrets, cipher, pending, compression_enabled, sent, received, disturbed>>

Connected ==
    /\ phase["node"] = "connecting"
    /\ Returns("start") /\ up' = TRUE
    /\ UNCHANGED <<peer, link, keys, secrets, cipher, pending, compression_enabled, sent, received, disturbed>>

\* async_connect: an address that cannot be reached, or whose attempt is cancelled, gives way to the next.
NextEndpoint ==
    IF endpoints > 1 THEN endpoints' = endpoints - 1 /\ UNCHANGED phase
    ELSE phase' = [phase EXCEPT !["node"] = "unreached"] /\ endpoints' = 0

AttemptFails ==
    /\ phase["node"] = "connecting"
    /\ NextEndpoint
    /\ timer' = IF phase'["node"] = "unreached" THEN "off" ELSE timer
    /\ UNCHANGED <<peer, up, link, keys, secrets, cipher, pending, compression_enabled, sent, received, disturbed>>

\* Mutant of TimerFires: nothing is cancelled.
TimerFiresIdle ==
    /\ timer = "armed" /\ timer' = "fired"
    /\ UNCHANGED <<peer, up, link, phase, keys, secrets, cipher, pending, compression_enabled, sent, received, endpoints, disturbed>>

\* The timer fires once and cancels what the socket is doing: nothing, while the name is resolved.
TimerFires ==
    /\ timer = "armed"
    /\ IF phase["node"] = "connecting" THEN NextEndpoint ELSE UNCHANGED <<phase, endpoints>>
    /\ timer' = IF phase'["node"] = "unreached" THEN "off" ELSE "fired"
    /\ UNCHANGED <<peer, up, link, keys, secrets, cipher, pending, compression_enabled, sent, received, disturbed>>

\* An error in connect() ends it, and the transport it made with it.  One in a loop of the session
\* only sets its state (force_error_state): the socket stays open.
Fails(s) == phase' = [phase EXCEPT ![s] = "failed"] /\ up' = (up /\ phase[s] = "active")

\* A session that has failed is destroyed, and with it its stream and the socket.
Closes(s) ==
    /\ phase[s] = "failed" /\ up
    /\ up' = FALSE
    /\ UNCHANGED <<peer, link, phase, keys, secrets, cipher, pending, compression_enabled, sent, received, dial, disturbed>>

\* write_all: in order, or not at all any more.
Writes(s, units) == up /\ link' = [link EXCEPT ![Other(s)] = @ \o units] /\ UNCHANGED up

\* read_exact: n units, when they are there.
Reads(s, n) == Len(link[s]) >= n /\ link' = [link EXCEPT ![s] = SubSeq(@, n + 1, Len(@))]

WireOf(length, packet) == <<[unit |-> "length", is |-> length], packet>>

SendAuth ==
    /\ phase["node"] = "start"
    /\ LET packet == create_auth_message(kAuthLength)
       IN  /\ Writes("node", WireOf(kAuthLength, packet))
           /\ keys' = [keys EXCEPT !["node"] = [auth |-> WireOf(kAuthLength, packet)]]
    /\ phase' = [phase EXCEPT !["node"] = "auth sent"]
    /\ UNCHANGED <<peer, secrets, cipher, pending, compression_enabled, sent, received, dial, disturbed>>

\* What both sides know after the handshake.
Completes(s, k) ==
    /\ keys' = [keys EXCEPT ![s] = k]
    /\ secrets' = [secrets EXCEPT ![s] = derive_frame_secrets(k, s)]
    /\ cipher' = [cipher EXCEPT ![s] = NewCipher(derive_frame_secrets(k, s))]
    /\ phase' = [phase EXCEPT ![s] = "hello"]
    /\ UNCHANGED up

Refuses(s) == Fails(s) /\ UNCHANGED <<keys, secrets, cipher>>

\* A client that follows the protocol answers the auth packet.
PeerAnswers ==
    /\ peer.kind = "standard" /\ phase["peer"] = "start"
    /\ Len(link["peer"]) >= 2
    /\ LET length == link["peer"][1].is  packet == link["peer"][2]
           ack == Encrypt([form |-> "rlp", key |-> "peer", nonce |-> "nonce of peer", ephemeral |-> "peer"],
                          packet.body.key, peer.ack)
       IN  IF up /\ Decrypts(packet, "peer", length)
           THEN /\ Completes("peer", [auth |-> WireOf(length, packet), ack |-> WireOf(peer.ack, ack),
                                      peer_ephemeral |-> packet.body.ephemeral,
                                      nonces |-> <<"nonce of peer", packet.body.nonce>>])
                /\ link' = [node |-> link["node"] \o WireOf(peer.ack, ack), peer |-> SubSeq(link["peer"], 3, Len(link["peer"]))]
           ELSE Reads("peer", 2) /\ Refuses("peer")
    /\ UNCHANGED <<peer, pending, compression_enabled, sent, received, dial, disturbed>>

\* This program's responder: the ack cannot be encrypted to what it takes for the peer's key.
OwnAnswers ==
    /\ peer.kind = "own" /\ phase["peer"] = "start"
    /\ Reads("peer", 2)
    /\ LET length == link["peer"][1].is  packet == link["peer"][2]
       IN  (length <= kMaxEip8HandshakePacketSize /\ Decrypts(packet, "peer", length))
               => parse_auth_message(packet.body) \notin Sides
    /\ Refuses("peer")
    /\ UNCHANGED <<peer, pending, compression_enabled, sent, received, dial, disturbed>>

\* The ack: its length is tested before its body is read.
ReadAck ==
    /\ phase["node"] = "auth sent"
    /\ Reads("node", 2)
    /\ LET length == link["node"][1].is  packet == link["node"][2]
       IN  IF length <= kMaxEip8HandshakePacketSize /\ Decrypts(packet, "node", length)
           THEN Completes("node", [auth |-> keys["node"].auth, ack |-> WireOf(length, packet),
                                   peer_ephemeral |-> packet.body.ephemeral,
                                   nonces |-> <<packet.body.nonce, "nonce of node">>])
           ELSE Refuses("node")
    /\ UNCHANGED <<peer, pending, compression_enabled, sent, received, dial, disturbed>>

Fits(size) == size <= kMaxFrameSize

\* send_message: refused above the limit; a write on a broken connection fails.
Send(s, msg) ==
    LET text == Payload(s, msg)
        frame == encrypt_frame(cipher[s], 1 + text.size, text)
    IN  /\ IF up /\ Fits(1 + text.size)
           THEN /\ Writes(s, frame.wire)
                /\ cipher' = [cipher EXCEPT ![s] = frame.cipher]
                /\ sent' = [sent EXCEPT ![s] = Append(@, msg)]
                /\ UNCHANGED <<phase, disturbed>>
           ELSE Fails(s) /\ disturbed' = TRUE /\ UNCHANGED <<link, cipher, sent>>
        /\ UNCHANGED <<peer, keys, secrets, pending, compression_enabled, received, dial>>

\* The first message of each side.
SendHello(s) ==
    /\ phase[s] = "hello" /\ sent[s] = <<>>
    /\ Send(s, [id |-> kHelloMessageId, size |-> 15])

SendMessage(s, size) ==
    /\ phase[s] = "active" /\ Len(sent[s]) <= MaxMessages[s]
    /\ Send(s, [id |-> kOtherMessageId, size |-> size])

\* connect() sends its HELLO before it reads; a peer does not compress its own either.
MayRead(s) == phase[s] \in {"hello", "active"} /\ sent[s] /= <<>>

\* receive_frame up to the header.
ReadHeader(s) ==
    /\ MayRead(s) /\ pending[s] = 0
    /\ Reads(s, 2)
    /\ LET h == decrypt_header(cipher[s], link[s][1].is, link[s][2].is)
       IN  /\ cipher' = [cipher EXCEPT ![s] = h.cipher]
           /\ pending' = [pending EXCEPT ![s] = IF h.ok THEN h.size ELSE 0]
           /\ IF h.ok THEN UNCHANGED <<phase, up>> ELSE Fails(s)
    /\ UNCHANGED <<peer, keys, secrets, compression_enabled, sent, received, dial, disturbed>>

\* Compression starts with the message after the peer's HELLO.
AfterHello(s) == IF received[s] = <<>> THEN peer.version >= kProtocolVersion ELSE compression_enabled[s]

\* The rest of receive_frame and receive_message; the first message is the HELLO that connect() waits for.
ReadBody(s) ==
    /\ MayRead(s) /\ pending[s] > 0
    /\ Reads(s, 2)
    /\ LET b == decrypt_frame_body(cipher[s], pending[s], link[s][1].is, link[s][2].is)
       IN  /\ cipher' = [cipher EXCEPT ![s] = b.cipher]
           /\ IF b.ok /\ Readable(s, b.text)
              THEN /\ received' = [received EXCEPT ![s] = Append(@, MessageOf(s, b.text))]
                   /\ compression_enabled' = [compression_enabled EXCEPT ![s] = AfterHello(s)]
                   /\ phase' = [phase EXCEPT ![s] = "active"]
                   /\ UNCHANGED up
              ELSE Fails(s) /\ UNCHANGED <<received, compression_enabled>>
    /\ pending' = [pending EXCEPT ![s] = 0]
    /\ UNCHANGED <<peer, keys, secrets, sent, dial, disturbed>>

Connecting == {"resolving", "connecting", "unreached"}

\* A read ends with an error when the connection is gone and not enough has arrived.
ReadFails(s) ==
    /\ ~up /\ Len(link[s]) < 2 /\ phase[s] /= "failed"
    /\ phase["node"] \notin Connecting
    /\ Fails(s)
    /\ UNCHANGED <<peer, link, keys, secrets, cipher, pending, compression_enabled, sent, received, dial, disturbed>>

\* The connection breaks: what is under way arrives up to some point.
Break ==
    /\ up /\ up' = FALSE /\ disturbed' = TRUE
    /\ \E n \in 0..Len(link["node"]), p \in 0..Len(link["peer"]) :
        link' = [node |-> SubSeq(link["node"], 1, n), peer |-> SubSeq(link["peer"], 1, p)]
    /\ UNCHANGED <<peer, phase, keys, secrets, cipher, pending, compression_enabled, sent, received, dial>>

Hurt(u) ==
    CASE u.unit = "length" -> [u EXCEPT !.is = @ + 1]
      [] u.unit = "ecies" -> [u EXCEPT !.mac = 0]
      [] u.unit = "mac" -> [u EXCEPT !.is = <<>>]
      [] OTHER -> [u EXCEPT !.is.hurt = TRUE]

\* One unit is damaged on its way.
Damage(s) ==
    /\ ~disturbed /\ disturbed' = TRUE
    /\ \E i \in DOMAIN link[s] : link' = [link EXCEPT ![s][i] = Hurt(@)]
    /\ UNCHANGED <<peer, up, phase, keys, secrets, cipher, pending, compression_enabled, sent, received, dial>>

Next ==
    \/ Resolved \/ Connected \/ AttemptFails \/ TimerFires
    \/ SendAuth
    \/ PeerAnswers
    \/ OwnAnswers
    \/ ReadAck
    \/ \E s \in Sides : SendHello(s)
    \/ \E s \in Sides, size \in Sizes : SendMessage(s, size)
    \/ \E s \in Sides : ReadHeader(s) \/ ReadBody(s)
    \/ \E s \in Sides : ReadFails(s)
    \/ \E s \in Sides : Closes(s)
    \/ Break
    \/ \E s \in Sides : Damage(s)

\* The io_context runs what is ready, the peer answers, a name is resolved or not; nothing says when
\* an attempt to connect ends but the timer.
Fairness ==
    /\ WF_vars(Resolved) /\ WF_vars(TimerFires)
    /\ WF_vars(SendAuth) /\ WF_vars(PeerAnswers) /\ WF_vars(OwnAnswers) /\ WF_vars(ReadAck)
    /\ \A s \in Sides : WF_vars(SendHello(s)) /\ WF_vars(ReadHeader(s) \/ ReadBody(s)) /\ WF_vars(ReadFails(s))

Spec == Init /\ [][Next]_vars /\ Fairness

-----------------------------------------------------------------------------
(***************************************************************************)
(* Properties.                                                             *)
(***************************************************************************)
Messages == [id : {kHelloMessageId, kOtherMessageId}, size : Sizes \cup {15}]

\* What each side holds in each phase, and that no frame under way is larger than the limit.
ChannelTypeOK ==
    /\ timer \in {"armed", "fired", "off"} /\ endpoints \in 0..MaxEndpoints
    /\ phase \in [Sides -> Connecting \cup {"start", "auth sent", "hello", "active", "failed"}]
    /\ \A s \in Sides : phase[s] \in {"hello", "active"} => (secrets[s] /= None /\ cipher[s] /= None)
    /\ pending \in [Sides -> 0..kMaxFrameSize]
    /\ \A s \in Sides : sent[s] \in Seq(Messages) /\ received[s] \in Seq([id : 0..255, size : Nat])
    /\ \A s \in Sides : \A u \in ToSet(link[s]) : u.unit = "frame" => 1 + u.is.text.size <= kMaxFrameSize

\* When both ends have completed the handshake they hold the same AES secret, the hash one sends
\* with starts as the hash the other reads with, and the two directions start differently
\* (derive_frame_secrets; auth_handshake.cpp:572-597).
SecretsMatch ==
    (secrets["node"] /= None /\ secrets["peer"] /= None) =>
        /\ secrets["node"].aes = secrets["peer"].aes
        /\ \A s \in Sides : /\ secrets[s].egress = secrets[Other(s)].ingress
                            /\ secrets[s].egress /= secrets[s].ingress

\* Whatever is damaged or cut off, what a side hands to the session is what the other sent, in that
\* order and from the beginning, with the payload as it was before compression.
ReceivedAsSent == \A s \in Sides : IsPrefix(received[s], sent[Other(s)])

\* While neither end has failed, an end that has read all there is stands where the other's sending
\* half stands, in the key stream and in the running hash (decrypt_header moves both once, and
\* decrypt_frame_body once more).
InStep ==
    \A s \in Sides :
        LET o == Other(s)
        IN  (/\ phase[s] \in {"hello", "active"} /\ phase[o] \in {"hello", "active"}
             /\ up /\ link[s] = <<>> /\ pending[s] = 0 /\ ~disturbed)
            => cipher[s].dec = cipher[o].enc /\ cipher[s].ingress = cipher[o].egress

\* A message that makes a frame of kMaxFrameSize, when compression is as it is now.
FullFrame(s, msg) == 1 + Payload(s, msg).size = kMaxFrameSize

\* An attempt to connect to the only address of a name, begun before the time was up, ends
\* (connect_with_timeout's timer; the coroutine resumes).
ConnectEnds ==
    [](phase["node"] = "connecting" /\ endpoints = 1 /\ timer = "armed" => <>(phase["node"] /= "connecting"))

\* A channel with a peer of the network, once connected, that nothing happens to carries what is sent: the
\* handshake completes, with any ack up to the 2048 bytes the program allows (rlpx_types.hpp:53),
\* and every message below the limit of a frame arrives.
AllArrive ==
    (/\ peer.kind = "standard" /\ peer.ack <= 2048 /\ <>(phase["node"] = "start")
     /\ [](~disturbed /\ \A s \in Sides : \A i \in DOMAIN sent[s] : ~FullFrame(s, sent[s][i])))
    => \A s \in Sides : \A i \in 1..MaxMessages[Other(s)] + 1 :
            /\ <>(Len(received[s]) >= 1)
            /\ [](Len(sent[Other(s)]) >= i => <>(Len(received[s]) >= i))

\* What the code says of itself and does not keep.

\* message_stream.cpp:66 "For now, send as single frame (max 16MB)": a message of that size is sent
\* with the length 0 in its header.
MaxFrameArrives ==
    \A s \in Sides : (phase[s] = "failed" /\ ~disturbed /\ peer.kind = "standard" /\ peer.ack <= 2048) =>
        \A i \in DOMAIN sent[Other(s)] : ~FullFrame(Other(s), sent[Other(s)][i])

\* socket_transport.cpp:200 "cancel the socket if the timer fires before connect completes": it does
\* nothing while the name is resolved, and ends one attempt of several.
ConnectTimesOut == [](timer = "fired" => <>(phase["node"] \notin {"resolving", "connecting"}))

\* auth_handshake.hpp:60 "Execute full handshake (auth + hello exchange)": between two of these.
OwnPairConnects == peer.kind = "own" => phase["peer"] /= "failed" \/ disturbed

=============================================================================
