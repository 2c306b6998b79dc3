---------------------------- MODULE RlpStreaming ----------------------------
(***************************************************************************)
(* src/rlp/rlp_encoder.cpp and rlp_streaming.cpp: an RlpEncoder's buffer   *)
(* and its stack of open lists, the two streaming encoders that write into *)
(* it, and the two streaming decoders that read back what was written.     *)
(*                                                                         *)
(* A caller adds items, opens and closes lists and, one at a time, opens a *)
(* streaming encoder; it leaves the RlpEncoder alone while a stream is     *)
(* open.  Once everything is closed it reads the buffer with a streaming   *)
(* decoder, calling its operations in any order, after errors too.         *)
(***************************************************************************)
EXTENDS Rlp

CONSTANTS
    Strings,     \* payloads to add
    Numbers,     \* unsigned integers to add
    ChunkSizes,  \* chunk_size of a chunked list, and of a readChunk
    Wire,        \* byte strings that arrive from elsewhere
    MaxOps       \* bound on the calls that add, open or close

ASSUME StreamingAssumption == 0 \notin ChunkSizes  \* create() refuses chunk_size 0

VARIABLES
    buffer_,
    list_start_positions_,
    stream,  \* the open streaming encoder
    dec,     \* the streaming decoder
    wire,    \* the byte string that arrived, if that is what is read
    want,    \* history: the items added, a sequence per open list around them
    ops

streamVars == <<buffer_, list_start_positions_, stream, dec, wire, want, ops>>

NoStream == [kind |-> "none"]
NoDecoder == [kind |-> "none"]

Str(b) == [k |-> "str", b |-> b]
Large(b) == [k |-> "large", b |-> b]
Uint(n) == [k |-> "uint", n |-> n]
Bool(n) == [k |-> "bool", n |-> n]
Vec(ns) == [k |-> "vec", ns |-> ns]
List(items) == [k |-> "list", items |-> items]

AddItem(w, item) == [w EXCEPT ![Len(w)] = Append(@, item)]
CloseList(w) == AddItem(Front(w), List(Last(w)))

Init ==
    /\ buffer_ = <<>>
    /\ list_start_positions_ = <<>>
    /\ stream = NoStream
    /\ dec = NoDecoder
    /\ wire = <<>>
    /\ want = <<<<>>>>
    /\ ops = 0

(***************************************************************************)
(* RlpEncoder.                                                             *)
(***************************************************************************)
Writing == dec = NoDecoder /\ wire = <<>> /\ ops < MaxOps
Caller == Writing /\ stream = NoStream

BeginListBuf(starts, buf) == Append(starts, Len(buf))

\* Mutant of EndListBuf: the payload is taken to be the whole buffer.
EndListBufWhole(starts, buf) ==
    Substr(buf, 0, Last(starts)) \o encode_header_bytes(TRUE, Len(buf)) \o Drop(buf, Last(starts))

\* The header goes in at the start position: what lies before it does not move.
EndListBuf(starts, buf) ==
    LET start_pos == Last(starts)
        header == encode_header_bytes(TRUE, Len(buf) - start_pos)
    IN  Substr(buf, 0, start_pos) \o header \o Drop(buf, start_pos)

GetBytes == list_start_positions_ = <<>>

Emit(bytes, item) ==
    /\ Caller
    /\ buffer_' = buffer_ \o bytes
    /\ want' = AddItem(want, item)
    /\ ops' = ops + 1
    /\ UNCHANGED <<list_start_positions_, stream, dec, wire>>

Add(b) == Emit(add_bytes(b), Str(b))

\* AddRaw of an item that is encoded already; nothing is refused.
AddRaw(b) == b /= <<>> /\ Emit(add_bytes(b), Str(b))

AddUint(n) == Emit(add_integral(n), Uint(n))
AddUint256(n) == Emit(add_uint256(n), Uint(n))
AddBool(n) == Emit(add_bool(n), Bool(n))

\* add(vector): BeginList, add of each number, EndList.
AddVector(ns) ==
    Emit(Drop(EndListBuf(BeginListBuf(<<>>, buffer_),
                         buffer_ \o FlattenSeq([i \in DOMAIN ns |-> add_integral(ns[i])])),
              Len(buffer_)),
         Vec(ns))

BeginList ==
    /\ Caller
    /\ list_start_positions_' = BeginListBuf(list_start_positions_, buffer_)
    /\ want' = Append(want, <<>>)
    /\ ops' = ops + 1
    /\ UNCHANGED <<buffer_, stream, dec, wire>>

\* An EndList with no open list is refused.
EndList ==
    /\ dec = NoDecoder /\ stream = NoStream
    /\ list_start_positions_ /= <<>>
    /\ buffer_' = EndListBuf(list_start_positions_, buffer_)
    /\ list_start_positions_' = Front(list_start_positions_)
    /\ want' = CloseList(want)
    /\ UNCHANGED <<stream, dec, wire, ops>>

Clear ==
    /\ Caller
    /\ buffer_' = <<>>
    /\ list_start_positions_' = <<>>
    /\ want' = <<<<>>>>
    /\ ops' = ops + 1
    /\ UNCHANGED <<stream, dec, wire>>

(***************************************************************************)
(* RlpLargeStringEncoder: nine bytes are reserved, the payload follows,    *)
(* and finish() writes the header over them and closes the gap.            *)
(***************************************************************************)
kReserved == 9

encode_string_header(n) ==
    IF n <= kMaxShortLen THEN <<kShortStringOffset + n>>
    ELSE <<kLongStringOffset + Len(to_big_compact(n))>> \o to_big_compact(n)

\* create() needs an encoder without open lists.
OpenLarge ==
    /\ Caller
    /\ GetBytes
    /\ buffer_' = buffer_ \o [i \in 1..kReserved |-> 0]
    /\ stream' = [kind |-> "large", header_start |-> Len(buffer_),
                  payload_start |-> Len(buffer_) + kReserved, payload_size |-> 0, all |-> <<>>]
    /\ ops' = ops + 1
    /\ UNCHANGED <<list_start_positions_, dec, wire, want>>

LargeAddChunk(b) ==
    /\ Writing
    /\ stream.kind = "large"
    /\ GetBytes
    /\ buffer_' = buffer_ \o b
    /\ stream' = [stream EXCEPT !.payload_size = @ + Len(b), !.all = @ \o b]
    /\ ops' = ops + 1
    /\ UNCHANGED <<list_start_positions_, dec, wire, want>>

\* memcpy of the header, memmove of payload_size_ bytes, resize by the shift.
Patched(st, buf) ==
    LET header == encode_string_header(st.payload_size)
        moved == Substr(buf, 0, st.header_start) \o header \o Substr(buf, st.payload_start, st.payload_size)
        shift == kReserved - Len(header)
    IN  SubSeq(moved \o Drop(buf, Len(moved)), 1, Len(buf) - shift)

\* finish(), by the caller or by the destructor.
LargeFinish ==
    /\ stream.kind = "large"
    /\ GetBytes
    /\ buffer_' = Patched(stream, buffer_)
    /\ want' = AddItem(want, Large(stream.all))
    /\ stream' = NoStream
    /\ UNCHANGED <<list_start_positions_, dec, wire, ops>>

(***************************************************************************)
(* RlpChunkedListEncoder.                                                  *)
(***************************************************************************)
OpenChunked(n) ==
    /\ Caller
    /\ stream' = [kind |-> "chunked", chunk_size |-> n, buf |-> <<>>, list_started |-> FALSE]
    /\ ops' = ops + 1
    /\ UNCHANGED <<buffer_, list_start_positions_, dec, wire, want>>

AddChunks(w, chunks) == FoldLeft(LAMBDA acc, c : AddItem(acc, Str(c)), w, chunks)

\* buffer_ is flushed as a string of the list each time it holds chunk_size_ bytes.
ChunkedAddChunk(b) ==
    LET all == stream.buf \o b
        full == Len(all) \div stream.chunk_size
        chunks == [i \in 1..full |-> Substr(all, (i - 1) * stream.chunk_size, stream.chunk_size)]
    IN  /\ Writing
        /\ stream.kind = "chunked"
        /\ list_start_positions_' = IF stream.list_started THEN list_start_positions_
                                    ELSE BeginListBuf(list_start_positions_, buffer_)
        /\ want' = AddChunks(IF stream.list_started THEN want ELSE Append(want, <<>>), chunks)
        /\ buffer_' = buffer_ \o FlattenSeq([i \in 1..full |-> add_bytes(chunks[i])])
        /\ stream' = [stream EXCEPT !.list_started = TRUE, !.buf = Drop(all, full * stream.chunk_size)]
        /\ ops' = ops + 1
        /\ UNCHANGED <<dec, wire>>

\* The rest is flushed and the list ended; a list never started is empty.
ChunkedFinish ==
    LET starts == IF stream.list_started THEN list_start_positions_
                  ELSE BeginListBuf(list_start_positions_, buffer_)
        rest == IF stream.buf = <<>> THEN <<>> ELSE <<stream.buf>>
        opened == IF stream.list_started THEN want ELSE Append(want, <<>>)
    IN  /\ stream.kind = "chunked"
        /\ buffer_' = EndListBuf(starts, buffer_ \o FlattenSeq([i \in DOMAIN rest |-> add_bytes(rest[i])]))
        /\ list_start_positions_' = Front(starts)
        /\ want' = CloseList(AddChunks(opened, rest))
        /\ stream' = NoStream
        /\ UNCHANGED <<dec, wire, ops>>

(***************************************************************************)
(* The streaming decoders.  `out' is what readChunk returned so far, and   *)
(* failed which of the calls, reads or peeks, ever returned an error.      *)
(***************************************************************************)
Closed == stream = NoStream /\ list_start_positions_ = <<>> /\ wire = <<>>

OpenLargeDecoder ==
    /\ Closed
    /\ dec = NoDecoder
    /\ dec' = [kind |-> "large", view |-> buffer_, payload_size |-> 0, bytes_read |-> 0,
               initialized |-> FALSE, out |-> <<>>, failed |-> {}]
    /\ UNCHANGED <<buffer_, list_start_positions_, stream, wire, want, ops>>

OpenChunkedDecoder ==
    /\ Closed
    /\ dec = NoDecoder
    /\ dec' = [kind |-> "chunked", view |-> buffer_, list_payload |-> <<>>, total_size |-> 0,
               total_chunks |-> 0, chunk_index |-> 0, initialized |-> FALSE, out |-> <<>>, failed |-> {}]
    /\ UNCHANGED <<buffer_, list_start_positions_, stream, wire, want, ops>>

Failing(d, call) == [d EXCEPT !.failed = @ \cup {call}]

peekPayloadSize(d) == Then(StringHeader(d.view), LAMBDA h : Ok(h.val.payload, d.view))

LargeInit(d) ==
    LET Start(h) == IF ~h.ok THEN Failing(d, "read")
                    ELSE [d EXCEPT !.payload_size = h.val.payload, !.view = Drop(@, h.val.hdr), !.initialized = TRUE]
    IN  IF d.initialized THEN d ELSE Start(StringHeader(d.view))

LargeReadChunk(d, max) ==
    LET Advance(i, n) == [i EXCEPT !.out = Append(@, Substr(i.view, 0, n)), !.view = Drop(@, n), !.bytes_read = @ + n]
        Smaller(a, b) == IF a < b THEN a ELSE b
        Read(i) == IF ~i.initialized THEN i
                   ELSE IF i.bytes_read >= i.payload_size THEN [i EXCEPT !.out = Append(@, <<>>)]
                   ELSE Advance(i, Smaller(i.payload_size - i.bytes_read, max))
    IN  Read(LargeInit(d))

\* The strings of a list's payload, by their headers; a list among them is an error.
RECURSIVE ScanChunks(_)
ScanChunks(payload) ==
    IF payload = <<>> THEN Ok([total |-> 0, chunks |-> 0], <<>>)
    ELSE Then(StringHeader(payload), LAMBDA h :
         Then(ScanChunks(Drop(payload, h.val.hdr + h.val.payload)), LAMBDA others :
            Ok([total |-> h.val.payload + others.val.total, chunks |-> 1 + others.val.chunks], <<>>)))

ListHeader(v) == Then(PeekHeader(v), LAMBDA h : IF h.val.list THEN h ELSE Err("UnexpectedString"))

\* Also what peekChunkCount calls; the cached answer is not used when it is 0.
peekTotalSize(d) ==
    LET Note(scan) == IF ~scan.ok THEN Failing(d, "peek")
                      ELSE [d EXCEPT !.total_size = scan.val.total, !.total_chunks = scan.val.chunks]
    IN  IF d.initialized /\ d.total_size > 0 THEN d
        ELSE Note(Then(ListHeader(d.view), LAMBDA h : ScanChunks(Substr(d.view, h.val.hdr, h.val.payload))))

peekChunkCount(d) == IF d.initialized /\ d.total_chunks > 0 THEN d ELSE peekTotalSize(d)

\* The header is skipped before the chunks are counted: an error there leaves it skipped.
ChunkedInit(d) ==
    LET Count(s, scan) == IF ~scan.ok THEN Failing(s, "read")
                          ELSE [s EXCEPT !.initialized = TRUE, !.total_chunks = scan.val.chunks]
        Skip(s) == IF s.total_chunks > 0 THEN [s EXCEPT !.initialized = TRUE]
                   ELSE Count(s, ScanChunks(s.list_payload))
        Start(h) == IF ~h.ok THEN Failing(d, "read")
                    ELSE Skip([d EXCEPT !.view = Drop(@, h.val.hdr),
                                        !.list_payload = Substr(d.view, h.val.hdr, h.val.payload)])
    IN  IF d.initialized THEN d ELSE Start(ListHeader(d.view))

\* Mutant of NextChunk: the next chunk starts a header too early.
NextChunkShort(i, h) ==
    IF ~h.ok THEN Failing(i, "read")
    ELSE [i EXCEPT !.out = Append(@, Substr(i.list_payload, h.val.hdr, h.val.payload)),
                   !.list_payload = Drop(@, h.val.payload), !.chunk_index = @ + 1]

NextChunk(i, h) ==
    IF ~h.ok THEN Failing(i, "read")
    ELSE [i EXCEPT !.out = Append(@, Substr(i.list_payload, h.val.hdr, h.val.payload)),
                   !.list_payload = Drop(@, h.val.hdr + h.val.payload), !.chunk_index = @ + 1]

ChunkedReadChunk(d) ==
    LET Read(i) == IF ~i.initialized THEN i
                   ELSE IF i.chunk_index >= i.total_chunks \/ i.list_payload = <<>>
                   THEN [i EXCEPT !.out = Append(@, <<>>), !.view = Drop(@, Len(i.list_payload)), !.list_payload = <<>>]
                   ELSE NextChunk(i, StringHeader(i.list_payload))
    IN  Read(ChunkedInit(d))

MaxReads == 4

DecoderStep(kind, d) ==
    /\ dec.kind = kind
    /\ Len(dec.out) < MaxReads
    /\ dec' = d
    /\ UNCHANGED <<buffer_, list_start_positions_, stream, wire, want, ops>>

ReadLarge(max) == dec.kind = "large" /\ DecoderStep("large", LargeReadChunk(dec, max))
PeekTotal == dec.kind = "chunked" /\ DecoderStep("chunked", peekTotalSize(dec))
PeekCount == dec.kind = "chunked" /\ DecoderStep("chunked", peekChunkCount(dec))
ReadChunked == dec.kind = "chunked" /\ DecoderStep("chunked", ChunkedReadChunk(dec))

\* Bytes that no encoder of this program need have written.
Receive(w) ==
    /\ Caller
    /\ ops = 0
    /\ wire' = w
    /\ UNCHANGED <<buffer_, list_start_positions_, stream, dec, want, ops>>

Next ==
    \/ \E b \in Strings : Add(b)
    \/ \E b \in Strings : AddRaw(b)
    \/ \E n \in Numbers : AddUint(n)
    \/ \E n \in Numbers : AddUint256(n)
    \/ \E n \in BOOLEAN : AddBool(n)
    \/ \E n \in Numbers : AddVector(<<n, n>>)
    \/ BeginList
    \/ EndList
    \/ Clear
    \/ OpenLarge
    \/ \E b \in Strings : LargeAddChunk(b)
    \/ LargeFinish
    \/ \E n \in ChunkSizes : OpenChunked(n)
    \/ \E b \in Strings : ChunkedAddChunk(b)
    \/ ChunkedFinish
    \/ OpenLargeDecoder
    \/ OpenChunkedDecoder
    \/ \E n \in ChunkSizes : ReadLarge(n)
    \/ PeekTotal
    \/ PeekCount
    \/ ReadChunked
    \/ \E w \in Wire : Receive(w)

Spec == Init /\ [][Next]_streamVars

(***************************************************************************)
(* The reference: the encoding of an item, and what is read of it.         *)
(***************************************************************************)
Digits(n) == CHOOSE k \in 0..3 : n < 256 ^ k /\ \A j \in 0..(k - 1) : n >= 256 ^ j
BigEndianOf(n) == [i \in 1..Digits(n) |-> (n \div 256 ^ (Digits(n) - i)) % 256]

RefHeader(base, n) ==
    IF n < 56 THEN <<base + n>> ELSE <<base + 55 + Digits(n)>> \o BigEndianOf(n)

RefString(b) == IF Len(b) = 1 /\ b[1] < 128 THEN b ELSE RefHeader(128, Len(b)) \o b

\* A large string of one byte below 0x80: written with a header the decoder refuses.  The
\* reference follows the code in this one case, which LargeIsCanonical is about.
Degenerate(item) == item.k = "large" /\ Len(item.b) = 1 /\ item.b[1] < 128

RECURSIVE RefEncoding(_)
RefEncoding(item) ==
    LET listOf(parts) == RefHeader(192, Len(FlattenSeq(parts))) \o FlattenSeq(parts)
    IN  CASE item.k = "str" -> RefString(item.b)
          [] item.k = "large" -> IF Degenerate(item) THEN <<129>> \o item.b ELSE RefString(item.b)
          [] item.k = "uint" -> RefString(BigEndianOf(item.n))
          [] item.k = "bool" -> RefString(IF item.n THEN <<1>> ELSE <<>>)
          [] item.k = "vec" -> listOf([i \in DOMAIN item.ns |-> RefString(BigEndianOf(item.ns[i]))])
          [] item.k = "list" -> listOf([i \in DOMAIN item.items |-> RefEncoding(item.items[i])])

RefAll(items) == FlattenSeq([i \in DOMAIN items |-> RefEncoding(items[i])])

Width(n) == Digits(n) + (IF n = 0 THEN 1 ELSE 0)

\* Reading the items in order with the typed reads gives each one back and ends at the end.
RECURSIVE ReadsBack(_, _)
ReadsBack(v, items) ==
    LET item == Head(items)
        Back(r, val) == r.ok /\ r.val = val /\ ReadsBack(r.rest, Tail(items))
        inner == ReadListHeaderBytes(v)
    IN  IF items = <<>> THEN v = <<>>
        ELSE CASE Degenerate(item) -> ~read_bytes(v).ok
               [] item.k \in {"str", "large"} /\ ~Degenerate(item) ->
                    /\ Back(read_bytes(v), item.b)
                    /\ Back(read_span(v, Len(item.b)), item.b)
                    /\ PeekPayload(v).val = item.b
               [] item.k = "uint" ->
                    /\ Back(read_uint256(v), item.n)
                    /\ Back(read_integral(v, Width(item.n)), item.n)
                    /\ Back(decode(v, Width(item.n), TRUE), item.n)
                    /\ item.n > 255 => read_integral(v, Width(item.n) - 1) = Err("Overflow")
               [] item.k = "bool" -> Back(read_bool(v), item.n)
               [] item.k = "vec" -> Back(read_vector(v, 4), item.ns)
               [] item.k = "list" ->
                    /\ IsList(v) /\ inner.ok
                    /\ ReadsBack(Substr(inner.rest, 0, inner.val), item.items)
                    /\ ReadsBack(SkipItem(v).rest, Tail(items))

\* What a decoder over the first item of the buffer should hand out.
Payload(item) ==
    IF item.k = "list" THEN FlattenSeq([i \in DOMAIN item.items |-> item.items[i].b]) ELSE item.b

Readable(kind, item) ==
    IF kind = "large" THEN item.k \in {"str", "large"} /\ ~Degenerate(item)
    ELSE item.k = "list" /\ \A i \in DOMAIN item.items :
                                item.items[i].k \in {"str", "large"} /\ ~Degenerate(item.items[i])

Finished(d) ==
    d.initialized /\ IF d.kind = "large" THEN d.bytes_read >= d.payload_size
                     ELSE d.chunk_index >= d.total_chunks

First == want[1][1]
Reading(kind) == dec.kind = kind /\ want[1] /= <<>> /\ Readable(kind, First)

(***************************************************************************)
(* Properties.                                                             *)
(***************************************************************************)

\* The buffer holds bytes, and the encoder's open lists are the ones the caller
\* opened: positions in the buffer, each at or after the one before.
StreamTypeOK ==
    /\ \A i \in DOMAIN buffer_ : buffer_[i] \in 0..255
    /\ Len(want) = Len(list_start_positions_) + 1
    /\ \A i \in DOMAIN list_start_positions_ : list_start_positions_[i] \in 0..Len(buffer_)
    /\ \A i, j \in DOMAIN list_start_positions_ :
          i < j => list_start_positions_[i] <= list_start_positions_[j]

\* Whatever the calls (lists in lists, headers put in behind what follows, streams
\* patched over reserved bytes, clear()), once nothing is open the buffer is the
\* RLP encoding of the items added; before that, what lies before the oldest open
\* list or stream is the encoding of the items finished before it.  (One byte below 0x80
\* given to the large-string encoder has a header too many: LargeIsCanonical.)
EncodedAsSpecified ==
    LET done == RefAll(want[1])
        end == IF list_start_positions_ /= <<>> THEN list_start_positions_[1]
               ELSE IF stream.kind = "large" THEN stream.header_start ELSE Len(buffer_)
    IN  Substr(buffer_, 0, end) = done

\* What RlpEncoder wrote RlpDecoder reads: each read returns the value that was
\* added, in order, an integer that needs more bytes than the type has is refused,
\* and nothing is left over.
DecodesBack ==
    Closed => ReadsBack(buffer_, want[1])

\* Over a well-formed first item readChunk of either streaming decoder never fails, from
\* the first call to those behind the end and whatever peeks, also ones that fail, come
\* between; no peek fails before the first read, and it gives the size of the payload and
\* the number of chunks.  What was read is a prefix of the payload, the whole of it when
\* the decoder says it is finished; RlpLargeStringDecoder::remaining() is then the rest.
\* (A peek at a list behind the first read does fail: PeekAnyTime.)
ChunksReassemble ==
    \A kind \in {"large", "chunked"} :
       Reading(kind) =>
         /\ "read" \notin dec.failed
         /\ ~dec.initialized => "peek" \notin dec.failed
         /\ kind = "large" /\ ~dec.initialized => peekPayloadSize(dec) = Ok(Len(Payload(First)), dec.view)
         /\ kind = "chunked" /\ ~dec.initialized =>
              <<dec.total_size, dec.total_chunks>> \in {<<0, 0>>, <<Len(Payload(First)), Len(First.items)>>}
         /\ IsPrefix(FlattenSeq(dec.out), Payload(First))
         /\ Finished(dec) => FlattenSeq(dec.out) = Payload(First)
         /\ kind = "large" /\ Finished(dec) => dec.view = RefAll(Tail(want[1]))

\* The decoder accepts one encoding of a value: when a read of bytes from elsewhere
\* succeeds, encoding its result gives back the bytes it consumed.  A zero byte read
\* as the number 0 (rlp_decoder.cpp:259) or as false is the exception.
AcceptedIsCanonical ==
    LET Same(r, bytes) == r.ok => wire = bytes \o r.rest \/ wire = <<0>> \o r.rest
        vec == read_vector(wire, 2)
    IN  /\ Same(read_bytes(wire), RefString(read_bytes(wire).val))
        /\ \A w \in 1..2 : Same(read_integral(wire, w), RefString(BigEndianOf(read_integral(wire, w).val)))
        /\ \A w \in 1..2 : Same(read_leftover(wire, w, TRUE), RefString(BigEndianOf(read_leftover(wire, w, TRUE).val)))
        /\ Same(read_uint256(wire), RefString(BigEndianOf(read_uint256(wire).val)))
        /\ Same(read_bool(wire), RefString(IF read_bool(wire).val THEN <<1>> ELSE <<>>))
        /\ vec.ok => 0 \in ToSet(wire) \/ wire = RefEncoding(Vec(vec.val)) \o vec.rest

(***************************************************************************)
(* Statements of the headers the code does not keep (README, section 3).   *)
(***************************************************************************)

\* rlp_streaming.hpp:287, "Get remaining view after decoding (for chaining)": a
\* chunked decoder that has handed out every chunk leaves the view behind the list.
ChunkedChains ==
    Reading("chunked") /\ Finished(dec) => dec.view = RefAll(Tail(want[1]))

\* rlp_streaming.hpp:18, "Produces canonical single RLP string": for one byte below
\* 0x80 too.
LargeIsCanonical ==
    Closed => \A i \in DOMAIN want[1] : ~Degenerate(want[1][i])

\* rlp_streaming.hpp:257, "Get total reassembled size (sum of all chunk sizes)": at
\* any time, also after the first chunk was read.
PeekAnyTime == Reading("chunked") => "peek" \notin dec.failed

\* rlp_streaming.hpp:266, "Returns empty view when no more chunks", which is when
\* decodeChunkedListFull stops.
EmptyMeansEnd ==
    Reading("chunked") => \A i \in DOMAIN dec.out : dec.out[i] = <<>> => Finished(dec) /\ (i > dec.total_chunks)

=============================================================================
