----------------------------- MODULE RlpTokens -----------------------------
(***************************************************************************)
(* RLP data one level above its bytes (module Rlp): a sequence of tokens,  *)
(* each the whole of a string item or the header of a list.  A list is its *)
(* header, which says how many tokens its payload has, and the payload.    *)
(* A string is a pair, its length in bytes and what it holds; numbers are  *)
(* strings too, and zero is the empty one.                                 *)
(*                                                                         *)
(* A decoder only moves over its view, so comparing the tokens left is     *)
(* comparing the bytes left, and, as in the code, reading the header of a  *)
(* list puts no end to what is read after it.                              *)
(***************************************************************************)
EXTENDS Naturals, Sequences, SequencesExt, TLC

Zero == <<0, 0>>
One == <<1, 1>>

Str(x) == <<[list |-> FALSE, x |-> x]>>

List(parts) ==
    LET payload == FlattenSeq(parts)
    IN  <<[list |-> TRUE, x |-> <<Len(payload), 0>>]>> \o payload

ListOf(xs, Enc(_)) == List([i \in DOMAIN xs |-> Enc(xs[i])])

Ok(val, rest) == [ok |-> TRUE, val |-> val, rest |-> rest]
Err(e) == [ok |-> FALSE, err |-> e, val |-> <<>>, rest |-> <<>>]

\* BOOST_OUTCOME_TRY and the tests of has_value(): go on with the result, or return its error.
Then(r, F(_)) == IF r.ok THEN F(r) ELSE r

\* RlpDecoder on tokens.
PeekHeader(v) ==
    IF v = <<>> \/ (v[1].list /\ v[1].x[1] > Len(v) - 1) THEN Err("InputTooShort")
    ELSE Ok([list |-> v[1].list, len |-> v[1].x[1]], v)

ReadListHeaderBytes(v) ==
    Then(PeekHeader(v), LAMBDA h : IF h.val.list THEN Ok(h.val.len, Tail(v)) ELSE Err("UnexpectedString"))

SkipItem(v) ==
    Then(PeekHeader(v), LAMBDA h : Ok(h.val, SubSeq(v, 2 + (IF h.val.list THEN h.val.len ELSE 0), Len(v))))

ReadString(v) ==
    Then(PeekHeader(v), LAMBDA h : IF h.val.list THEN Err("UnexpectedList") ELSE Ok(v[1].x, Tail(v)))

\* One field: an unsigned integer of n bytes, an array of n bytes, a byte string, a bool.
U(n) == <<"uint", n>>
Span(n) == <<"span", n>>
AnyBytes == <<"bytes", 0>>
Boolean == <<"bool", 0>>

Refine(r, okay, val) == IF okay THEN Ok(val, r.rest) ELSE Err("UnexpectedLength")

ReadField(v, kind) ==
    Then(ReadString(v), LAMBDA r :
        CASE kind[1] = "uint" -> Refine(r, r.val[1] <= kind[2], IF r.val = <<1, 0>> THEN Zero ELSE r.val)
          [] kind[1] = "span" -> Refine(r, r.val[1] = kind[2], r.val)
          [] kind[1] = "bytes" -> r
          [] kind[1] = "bool" -> Refine(r, r.val \in {Zero, <<1, 0>>, One}, IF r.val = One THEN One ELSE Zero))

\* Fields one after the other, into a record.
ReadFields(v, fields) ==
    FoldLeft(LAMBDA acc, f :
                IF ~acc.ok THEN acc
                ELSE Then(ReadField(acc.rest, f[2]), LAMBDA r : Ok(acc.val @@ (f[1] :> r.val), r.rest)),
             Ok(<<>>, v), fields)

\* Items while more than end tokens are left and one can be read: those read, what is left,
\* and the error that stopped it.  Item must consume something.
While(v, end, Item(_)) ==
    LET Left(k) == SubSeq(v, Len(v) - k + 1, Len(v))
        from[k \in 0..Len(v)] ==
          LET r == Item(Left(k))
              more == from[Len(r.rest)]
          IN  IF k <= end THEN [items |-> <<>>, rest |-> Left(k), stop |-> Ok(0, <<>>)]
              ELSE IF ~r.ok THEN [items |-> <<>>, rest |-> Left(k), stop |-> r]
              ELSE [more EXCEPT !.items = <<r.val>> \o @]
    IN  from[Len(v)]

\* What a list holds, and the check that it ended where the list does.
Enclosed(v, Body(_)) ==
    Then(ReadListHeaderBytes(v), LAMBDA h :
    Then(Body(h), LAMBDA b :
        IF Len(b.rest) /= Len(h.rest) - h.val THEN Err("ListLengthMismatch") ELSE b))

\* The loop `while (decoder.Remaining().size() > target)' of every list decoder.
ReadList(v, Item(_)) ==
    LET Loop(w) == IF w.stop.ok THEN Ok(w.items, w.rest) ELSE w.stop
    IN  Enclosed(v, LAMBDA h : Loop(While(h.rest, Len(h.rest) - h.val, Item)))

\* A byte string that holds RLP, and what is in one.
kWrapped == 1000
Wrapped(tokens) == <<kWrapped + Len(tokens), tokens>>
Wrap(tokens) == Str(Wrapped(tokens))
Unwrap(x) == IF x[1] > kWrapped THEN x[2] ELSE Str(x)

\* Items as far as they can be skipped.
SkipItems(v) == While(v, 0, SkipItem).rest

\* The tokens of the next item, unread.
consume_next_item(v) ==
    Then(SkipItem(v), LAMBDA s : Ok(SubSeq(v, 1, Len(v) - Len(s.rest)), s.rest))

\* A decoder over the next item alone.
ReadItem(v, Dec(_)) ==
    Then(consume_next_item(v), LAMBDA item :
    Then(Dec(item.val), LAMBDA d : Ok(d.val, item.rest)))

=============================================================================
