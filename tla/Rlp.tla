-------------------------------- MODULE Rlp --------------------------------
(***************************************************************************)
(* src/rlp/{endian,rlp_encoder,rlp_decoder}.cpp and their headers: the     *)
(* byte-level RLP conversions, as operators on sequences of bytes.  An     *)
(* encoder operation is the bytes it appends; a decoder operation takes    *)
(* the view and gives a value with the rest of the view, or an error.      *)
(*                                                                         *)
(* The offsets and the 55-byte limit are the real ones.  A number is at    *)
(* most 2^31-1 (TLC's integers); sizeof(T) is the parameter `width', and   *)
(* 32 is intx::uint256.                                                    *)
(***************************************************************************)
EXTENDS Naturals, Sequences, SequencesExt

\* include/rlp/common.hpp
kShortStringOffset == 128
kLongStringOffset == 183
kShortListOffset == 192
kLongListOffset == 247
kMaxShortLen == 55
kEmptyStringCode == 128
kRlpSingleByteThreshold == 128
kMalformedSingle == 249

Ok(val, rest) == [ok |-> TRUE, val |-> val, rest |-> rest]
Err(e) == [ok |-> FALSE, err |-> e]

\* BOOST_OUTCOME_TRY and the tests of has_value(): go on with the result, or return its error.
Then(r, F(_)) == IF r.ok THEN F(r) ELSE r

\* ByteView::remove_prefix and ByteView::substr.
Drop(v, n) == SubSeq(v, n + 1, Len(v))
Substr(v, from, n) == SubSeq(v, from + 1, from + n)

RECURSIVE to_big_compact(_)
to_big_compact(n) ==
    IF n = 0 THEN <<>> ELSE Append(to_big_compact(n \div 256), n % 256)

BigEndian(bytes) == FoldLeft(LAMBDA acc, b : acc * 256 + b, 0, bytes)

\* Only the bytes of a value that fits are summed: a longer one is an overflow of T.
from_big_compact(bytes, width) ==
    IF Len(bytes) > 1 /\ bytes[1] = 0 THEN Err("LeadingZero")
    ELSE IF Len(bytes) > width THEN Err("Overflow")
    ELSE Ok(BigEndian(bytes), <<>>)

(***************************************************************************)
(* rlp_encoder: what each add() appends to the buffer.                     *)
(***************************************************************************)
encode_header_bytes(list, n) ==
    LET short == IF list THEN kShortListOffset ELSE kShortStringOffset
        long == IF list THEN kLongListOffset ELSE kLongStringOffset
        len_be == to_big_compact(n)
    IN  IF n <= kMaxShortLen THEN <<short + n>> ELSE <<long + Len(len_be)>> \o len_be

add_bytes(b) ==
    IF Len(b) = 1 /\ b[1] < kRlpSingleByteThreshold THEN b ELSE encode_header_bytes(FALSE, Len(b)) \o b

add_uint256(n) ==
    IF n = 0 THEN <<kEmptyStringCode>>
    ELSE IF n < kRlpSingleByteThreshold THEN <<n>>
    ELSE encode_header_bytes(FALSE, Len(to_big_compact(n))) \o to_big_compact(n)

add_bool(n) == <<IF n THEN 1 ELSE kEmptyStringCode>>

\* The bytes of val from its highest nonzero one, behind a one-byte header.
add_integral(n) ==
    IF n = 0 THEN <<kEmptyStringCode>>
    ELSE IF n < kRlpSingleByteThreshold THEN <<n>>
    ELSE <<kShortStringOffset + Len(to_big_compact(n))>> \o to_big_compact(n)

(***************************************************************************)
(* rlp_decoder.                                                            *)
(***************************************************************************)
Header(list, hdr, payload) == [list |-> list, hdr |-> hdr, payload |-> payload]

\* A header whose payload the rest of the view must hold.
Checked(v, h) == IF Len(v) - h.hdr < h.payload THEN Err("InputTooShort") ELSE Ok(h, v)

\* Mutant of LongHeader: a length that fits the short form is accepted.
LongHeaderAny(v, list, lenlen) ==
    IF Len(v) < 1 + lenlen THEN Err("InputTooShort")
    ELSE Then(from_big_compact(Substr(v, 1, lenlen), 8), LAMBDA len64 :
            Checked(v, Header(list, 1 + lenlen, len64.val)))

\* The long form: a length of lenlen bytes that is not allowed to fit the short form.
LongHeader(v, list, lenlen) ==
    IF Len(v) < 1 + lenlen THEN Err("InputTooShort")
    ELSE Then(from_big_compact(Substr(v, 1, lenlen), 8), LAMBDA len64 :
            IF len64.val <= kMaxShortLen THEN Err("NonCanonicalSize")
            ELSE Checked(v, Header(list, 1 + lenlen, len64.val)))

decode_header_impl(v) ==
    LET b == v[1]
    IN  IF v = <<>> THEN Err("InputTooShort")
        ELSE IF Len(v) = 1 /\ b >= kMalformedSingle THEN Err("MalformedHeader")
        ELSE IF b < kShortStringOffset THEN Ok(Header(FALSE, 0, 1), v)
        ELSE IF b <= kMaxShortLen + kShortStringOffset THEN
            IF b = kShortStringOffset + 1 /\ Len(v) < 2 THEN Err("InputTooShort")
            ELSE IF b = kShortStringOffset + 1 /\ v[2] < kShortStringOffset THEN Err("NonCanonicalSize")
            ELSE Checked(v, Header(FALSE, 1, b - kShortStringOffset))
        ELSE IF b < kShortListOffset THEN LongHeader(v, FALSE, b - kLongStringOffset)
        ELSE IF b <= kMaxShortLen + kShortListOffset THEN Checked(v, Header(TRUE, 1, b - kShortListOffset))
        ELSE LongHeader(v, TRUE, b - kLongListOffset)

PeekHeader(v) == decode_header_impl(v)
IsList(v) == v /= <<>> /\ v[1] >= kShortListOffset

\* Mutant of skip_header_internal: the empty string is taken for a literal byte.
skip_header_off_by_one(v) ==
    LET b == v[1]
        n == IF b <= kShortStringOffset THEN 0
             ELSE IF b <= kMaxShortLen + kShortStringOffset THEN 1
             ELSE IF b < kShortListOffset THEN 1 + (b - kLongStringOffset)
             ELSE IF b <= kMaxShortLen + kShortListOffset THEN 1
             ELSE 1 + (b - kLongListOffset)
    IN  IF v = <<>> \/ Len(v) < n THEN Err("InputTooShort") ELSE Ok(n, Drop(v, n))

\* skip_header_internal finds the header's length again, from the first byte alone.
skip_header_internal(v) ==
    LET b == v[1]
        n == IF b < kShortStringOffset THEN 0
             ELSE IF b <= kMaxShortLen + kShortStringOffset THEN 1
             ELSE IF b < kShortListOffset THEN 1 + (b - kLongStringOffset)
             ELSE IF b <= kMaxShortLen + kShortListOffset THEN 1
             ELSE 1 + (b - kLongListOffset)
    IN  IF v = <<>> \/ Len(v) < n THEN Err("InputTooShort") ELSE Ok(n, Drop(v, n))

\* The header of a string.
StringHeader(v) == Then(PeekHeader(v), LAMBDA h : IF h.val.list THEN Err("UnexpectedList") ELSE h)

Take(body, n) == Ok(Substr(body, 0, n), Drop(body, n))

read_bytes(v) == Then(StringHeader(v), LAMBDA h : Take(skip_header_internal(v).rest, h.val.payload))

PeekPayload(v) == Then(StringHeader(v), LAMBDA h : Ok(Substr(v, h.val.hdr, h.val.payload), v))

\* Only the header is consumed: the payload that follows is not delimited.
ReadListHeaderBytes(v) ==
    Then(PeekHeader(v), LAMBDA h :
        IF h.val.list THEN Ok(h.val.payload, skip_header_internal(v).rest) ELSE Err("UnexpectedString"))

SkipItem(v) ==
    Then(PeekHeader(v), LAMBDA h : Ok(h.val, Drop(skip_header_internal(v).rest, h.val.payload)))

\* What the payload of a string at the front of v is made into.
OfPayload(v, Value(_, _)) ==
    Then(StringHeader(v), LAMBDA h :
    Then(Value(h.val, Substr(v, h.val.hdr, h.val.payload)), LAMBDA n :
        Ok(n.val, Drop(v, h.val.hdr + h.val.payload))))

read_integral(v, width) ==
    OfPayload(v, LAMBDA h, payload :
        IF Len(payload) > 1 /\ payload[1] = 0 THEN Err("LeadingZero")
        ELSE IF Len(payload) > width THEN Err("Overflow")
        ELSE IF Len(payload) = 1 /\ h.hdr > 0 /\ payload[1] < kRlpSingleByteThreshold
             THEN Err("NonCanonicalSize")
        ELSE from_big_compact(payload, width))

\* The same order of checks for intx::uint256, the single-byte one after the value.
read_uint256(v) ==
    OfPayload(v, LAMBDA h, payload :
        IF Len(payload) > 1 /\ payload[1] = 0 THEN Err("LeadingZero")
        ELSE Then(from_big_compact(payload, 32), LAMBDA n :
            IF Len(payload) = 1 /\ n.val < kRlpSingleByteThreshold /\ h.hdr > 0
            THEN Err("NonCanonicalSize") ELSE n))

read_bool(v) ==
    OfPayload(v, LAMBDA h, payload :
        IF payload \in {<<>>, <<0>>, <<1>>} THEN Ok(payload = <<1>>, <<>>) ELSE Err("Overflow"))

\* A string into a span of n bytes.
read_span(v, n) ==
    Then(StringHeader(v), LAMBDA h :
        IF h.val.payload /= n THEN Err("UnexpectedLength") ELSE Take(skip_header_internal(v).rest, n))

check_payload(h, payload, width) ==
    IF h.list THEN Err("UnexpectedList")
    ELSE IF h.payload > 1 /\ payload[1] = 0 THEN Err("LeadingZero")
    ELSE IF h.payload > width THEN Err("Overflow")
    ELSE Then(from_big_compact(payload, width), LAMBDA n :
        IF h.payload = 1 /\ n.val < kRlpSingleByteThreshold /\ h.hdr > 0 THEN Err("NonCanonicalSize") ELSE n)

\* A leftover is refused unless it is allowed.
Leftover(r, allow) == IF ~allow /\ r.rest /= <<>> THEN Err("InputTooLong") ELSE r

\* read(data, out, leftover) for a number: the view moves on before a leftover is refused.
read_leftover(data, width, allow) ==
    Then(OfPayload(data, LAMBDA h, payload : check_payload(h, payload, width)),
         LAMBDA r : Leftover(r, allow))

RECURSIVE ReadAll(_, _)
ReadAll(payload, width) ==
    IF payload = <<>> THEN Ok(<<>>, <<>>)
    ELSE Then(read_leftover(payload, width, TRUE), LAMBDA first :
         Then(ReadAll(first.rest, width), LAMBDA others : Ok(<<first.val>> \o others.val, <<>>)))

read_vector(v, width) ==
    Then(ReadListHeaderBytes(v), LAMBDA len :
    Then(ReadAll(Substr(len.rest, 0, len.val), width), LAMBDA vec : Ok(vec.val, Drop(len.rest, len.val))))

\* The static decode<T>.
decode(v, width, allow) == Then(read_integral(v, width), LAMBDA n : Leftover(n, allow))

=============================================================================
