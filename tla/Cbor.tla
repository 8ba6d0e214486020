---------------------------------- MODULE Cbor ----------------------------------
(***************************************************************************)
(* The deterministic CBOR of src/cbor.rs, byte by byte.                      *)
(*                                                                          *)
(* A value is tagged: <<"Int", negative, magnitude>>, <<"Bytes", bytes>>,    *)
(* <<"Text", bytes>>, <<"List", values>>, <<"Map", pairs>>, <<"Null">> or     *)
(* <<"Float", bytes>>, the eight bytes of a binary64.  A u64 is its eight     *)
(* bytes, most significant first; the magnitude of an i128 has a ninth in     *)
(* front, which is 0 where it fits, and is n, or -1 - n of a negative n.     *)
(***************************************************************************)
EXTENDS Integers, Sequences, SequencesExt, FiniteSets

CONSTANT MaxDepth \* MAX_NESTING_DEPTH, a natural number

Zeros(n) == [k \in 1..n |-> 0]

\* A length as a u64; lengths here are below 2^24.
Wide(n) == Zeros(5) \o <<n \div 65536, (n \div 256) % 256, n % 256>>

Error(why) == <<"Error", why>>
Part(value, next) == <<"Part", value, next>>
Failed(r) == r[1] = "Error"

-----------------------------------------------------------------------------
(* encode.                                                                  *)

\* A head: the argument n in the fewest bytes that hold it.
encode_head(major, n) ==
  LET fits(bytes) == \A k \in 1..(8 - bytes) : n[k] = 0
      head(ai, bytes) == <<32 * major + ai>> \o SubSeq(n, 9 - bytes, 8)
  IN IF fits(1) /\ n[8] <= 23 THEN head(n[8], 0)
     ELSE IF fits(1) THEN head(24, 1)
     ELSE IF fits(2) THEN head(25, 2)
     ELSE IF fits(4) THEN head(26, 4)
     ELSE head(27, 8)

Fits(v) == v[3][1] = 0
encode_int(v) == encode_head(IF v[2] THEN 1 ELSE 0, Tail(v[3]))

\* Ord of Vec<u8>: lexicographic, a prefix first.
Less(a, b) ==
  \E k \in 1..Len(b) :
    /\ \A j \in 1..(k - 1) : j <= Len(a) /\ a[j] = b[j]
    /\ IF k <= Len(a) THEN a[k] < b[k] ELSE k = Len(a) + 1

\* sort_by is stable: of two equal keys the first stays first.
Insert(sorted, pair) ==
  SelectSeq(sorted, LAMBDA p : ~Less(pair[1], p[1])) \o <<pair>> \o
  SelectSeq(sorted, LAMBDA p : Less(pair[1], p[1]))

Concat(pairs) == FoldLeft(LAMBDA out, p : out \o p[1] \o p[2], <<>>, pairs)

\* Slip: the pairs go out as they were put in.
encode_map_unsorted(encoded) == encode_head(5, Wide(Len(encoded))) \o Concat(encoded)

\* Of the pairs, each key and each value already encoded.
encode_map(encoded) ==
  encode_head(5, Wide(Len(encoded))) \o Concat(FoldLeft(Insert, <<>>, encoded))

RECURSIVE encode_value(_)
encode_value(v) ==
  CASE v[1] = "Int"   -> encode_int(v)
    [] v[1] = "Bytes" -> encode_head(2, Wide(Len(v[2]))) \o v[2]
    [] v[1] = "Text"  -> encode_head(3, Wide(Len(v[2]))) \o v[2]
    [] v[1] = "List"  -> FoldLeft(LAMBDA out, w : out \o encode_value(w),
                                  encode_head(4, Wide(Len(v[2]))), v[2])
    [] v[1] = "Map"   -> encode_map([k \in DOMAIN v[2] |->
                           <<encode_value(v[2][k][1]), encode_value(v[2][k][2])>>])
    [] v[1] = "Null"  -> <<246>>
    [] v[1] = "Float" -> <<251>> \o v[2]

\* No integer anywhere in v is out of range.
RECURSIVE Encodable(_)
Encodable(v) ==
  CASE v[1] = "Int"  -> Fits(v)
    [] v[1] = "List" -> \A k \in DOMAIN v[2] : Encodable(v[2][k])
    [] v[1] = "Map"  -> \A k \in DOMAIN v[2] : Encodable(v[2][k][1]) /\ Encodable(v[2][k][2])
    [] OTHER         -> TRUE

encode(v) == IF Encodable(v) THEN encode_value(v) ELSE Error("IntOutOfRange")

-----------------------------------------------------------------------------
(* decode.  A part that was decoded comes with the position after it.        *)

\* need: n bytes are there from pos on, the first byte being at 0.
need(buf, pos, n) == pos + n <= Len(buf)
Bytes(buf, pos, n) == SubSeq(buf, pos + 1, pos + n)

\* String::from_utf8.
Lead(width, lead, next) ==
  CASE width = 2 -> lead \in 194..223
    [] width = 3 -> lead \in 224..239 /\ (lead = 224 => next >= 160) /\ (lead = 237 => next < 160)
    [] width = 4 -> lead \in 240..244 /\ (lead = 240 => next >= 144) /\ (lead = 244 => next < 144)

Utf8(s) ==
  LET valid[k \in 1..(Len(s) + 1)] ==
        \/ k = Len(s) + 1
        \/ k <= Len(s) /\ s[k] < 128 /\ valid[k + 1]
        \/ \E width \in 2..4 :
             /\ k + width - 1 <= Len(s)
             /\ Lead(width, s[k], s[k + 1])
             /\ \A j \in (k + 1)..(k + width - 1) : s[j] \in 128..191
             /\ valid[k + width]
  IN valid[1]

\* A binary64 of a narrower float's sign, exponent and fraction, the fraction in 23
\* bits: bias is the difference of the exponents' biases, and what was subnormal is
\* normal in the wider format.
Binary64(sign, exponent, f) ==
  <<128 * sign + exponent \div 16, 16 * (exponent % 16) + f \div 524288,
    (f \div 2048) % 256, (f \div 8) % 256, 32 * (f % 8), 0, 0, 0>>

Widen(sign, exponent, f, bias) ==
  IF exponent > 0 THEN Binary64(sign, exponent + bias, f)
  ELSE IF f = 0 THEN Binary64(sign, 0, 0)
  ELSE LET h == CHOOSE h \in 0..22 : 2^h <= f /\ f < 2^(h + 1)
       IN Binary64(sign, bias + h - 22, (f - 2^h) * 2^(23 - h))

half_to_f64(b) ==
  LET exponent == (b[1] \div 4) % 32
  IN IF exponent = 31 THEN Error("UnrepresentableFloat")
     ELSE <<"Float", Widen(b[1] \div 128, exponent, (256 * (b[1] % 4) + b[2]) * 8192, 1008)>>

\* An f32 as f64; infinities and quiet NaNs keep their fraction.
f32_to_f64(b) ==
  LET exponent == 2 * (b[1] % 128) + b[2] \div 128
      f == 65536 * (b[2] % 128) + 256 * b[3] + b[4]
  IN <<"Float", IF exponent = 255 THEN Binary64(b[1] \div 128, 2047, f)
                ELSE Widen(b[1] \div 128, exponent, f, 896)>>

\* The bytes an argument takes after the head.
Extra(ai) == CASE ai = 24 -> 1 [] ai = 25 -> 2 [] ai = 26 -> 4 [] ai = 27 -> 8 [] OTHER -> 0

decode_count(buf, pos, ai) ==
  IF ai >= 28 THEN Error("UnsupportedAdditionalInfoEncoding")
  ELSE IF ~need(buf, pos, Extra(ai)) THEN Error("Truncated")
  ELSE Part(IF ai <= 23 THEN Wide(ai) ELSE Zeros(8 - Extra(ai)) \o Bytes(buf, pos, Extra(ai)),
            pos + Extra(ai))

decode_major7(buf, pos, ai) ==
  LET b == Bytes(buf, pos + 1, Extra(ai))
      whole(value) == IF Failed(value) THEN value ELSE Part(value, pos + 1 + Extra(ai))
  IN CASE ai = 22 -> Part(<<"Null">>, pos + 1)
       [] ai \notin {22, 25, 26, 27} -> Error("UnsupportedAdditionalInfo")
       [] ai \in {25, 26, 27} /\ ~need(buf, pos + 1, Extra(ai)) -> Error("Truncated")
       [] ai = 25 /\ need(buf, pos + 1, 2) -> whole(half_to_f64(b))
       [] ai = 26 /\ need(buf, pos + 1, 4) -> whole(f32_to_f64(b))
       [] ai = 27 /\ need(buf, pos + 1, 8) -> whole(<<"Float", b>>)

\* A length or a count that no buffer here reaches is as good as 2^24.
Narrow(n) == IF \E k \in 1..5 : n[k] # 0 THEN 2^24 ELSE 65536 * n[6] + 256 * n[7] + n[8]

\* Put a pair into a decoded map: the last of two equal keys wins, in the place of
\* the first, and keys are equal if their canonical bytes are.
Put(pairs, key, value) ==
  LET same == {k \in DOMAIN pairs : encode_value(pairs[k][1]) = encode_value(key)}
  IN IF same = {} THEN Append(pairs, <<key, value>>)
     ELSE [k \in DOMAIN pairs |-> IF k \in same THEN <<pairs[k][1], value>> ELSE pairs[k]]

\* The bytes and the text of a major 2 and 3.
decode_string(buf, pos, len, tag) ==
  IF ~need(buf, pos, len) THEN Error("Truncated")
  ELSE IF tag = "Text" /\ ~Utf8(Bytes(buf, pos, len)) THEN Error("InvalidUtf8")
  ELSE Part(<<tag, Bytes(buf, pos, len)>>, pos + len)

RECURSIVE decode_one(_, _, _), decode_list(_, _, _, _, _), decode_map(_, _, _, _, _)

decode_list(buf, pos, count, depth, items) ==
  IF count = 0 THEN Part(<<"List", items>>, pos)
  ELSE LET item == decode_one(buf, pos, depth)
       IN IF Failed(item) THEN item
          ELSE decode_list(buf, item[3], count - 1, depth, Append(items, item[2]))

decode_map(buf, pos, count, depth, pairs) ==
  IF count = 0 THEN Part(<<"Map", pairs>>, pos)
  ELSE LET key == decode_one(buf, pos, depth)
           value == decode_one(buf, key[3], depth)
       IN IF Failed(key) THEN key
          ELSE IF Failed(value) THEN value
          ELSE decode_map(buf, value[3], count - 1, depth, Put(pairs, key[2], value[2]))

decode_one(buf, pos, depth) ==
  IF depth > MaxDepth THEN Error("NestingTooDeep")
  ELSE IF ~need(buf, pos, 1) THEN Error("Truncated")
  ELSE LET major == buf[pos + 1] \div 32
           ai == buf[pos + 1] % 32
           n == decode_count(buf, pos + 1, ai)
       IN IF major = 7 THEN decode_major7(buf, pos, ai)
          ELSE IF Failed(n) THEN n
          ELSE CASE major \in {0, 1} -> Part(<<"Int", major = 1, <<0>> \o n[2]>>, n[3])
                 [] major = 2 -> decode_string(buf, n[3], Narrow(n[2]), "Bytes")
                 [] major = 3 -> decode_string(buf, n[3], Narrow(n[2]), "Text")
                 [] major = 4 -> decode_list(buf, n[3], Narrow(n[2]), depth + 1, <<>>)
                 [] major = 5 -> decode_map(buf, n[3], Narrow(n[2]), depth + 1, <<>>)
                 [] major = 6 -> Error("UnsupportedMajorType")

decode(buf) ==
  LET one == decode_one(buf, 0, 0)
  IN IF Failed(one) THEN one ELSE IF one[3] # Len(buf) THEN Error("TrailingBytes") ELSE one[2]

-----------------------------------------------------------------------------
(* Properties.                                                              *)

\* Magnitudes on both sides of every width of a head, and one that is out of range.
Magnitudes ==
  {<<0>> \o Zeros(8 - Len(s)) \o s :
     s \in {<<0>>, <<23>>, <<24>>, <<255>>, <<1, 0>>, <<255, 255>>, <<1, 0, 0>>,
            <<255, 255, 255, 255>>, <<1, 0, 0, 0, 0>>, [k \in 1..8 |-> 255]}}
Beyond == <<"Int", FALSE, <<1>> \o Zeros(8)>>

Small(n) == <<"Int", FALSE, <<0>> \o Wide(n)>>
Text(s) == <<"Text", s>>

Scalars ==
  {<<"Int", negative, m>> : negative \in BOOLEAN, m \in Magnitudes} \cup
  {<<"Bytes", <<>> >>, <<"Bytes", [k \in 1..24 |-> 200]>>, Text(<<>>), Text(<<97, 195, 169>>),
   <<"Null">>, <<"Float", <<191, 240, 0, 0, 0, 0, 0, 0>> >>}

\* Keys of which the shorter encoding is not always the smaller: 24 is 18 18, the empty
\* text 60, minus one 20.
MapKeys == {Small(24), Text(<<>>), Text(<<97>>), <<"Int", TRUE, <<0>> \o Wide(0)>>}

Maps == UNION {{<<"Map", << <<j, Small(1)>>, <<k, <<"List", <<Small(2), <<"Null">> >> >> >> >> >> :
                  k \in MapKeys \ {j}} : j \in MapKeys}

RECURSIVE Nest(_)
Nest(n) == IF n = 0 THEN <<"List", <<>> >> ELSE <<"List", <<Nest(n - 1)>> >>

\* Maps are equal whatever the order of their pairs.
Same(v, w) ==
  IF v[1] = "Map" /\ w[1] = "Map"
  THEN {v[2][k] : k \in DOMAIN v[2]} = {w[2][k] : k \in DOMAIN w[2]}
  ELSE v = w

\* Heads of every major type and kind of argument, and bytes that are no text.
Heads == {32 * major + ai : major \in 0..7, ai \in {0, 1, 2, 22, 24, 25, 26, 27, 28, 31}} \cup {124}
Inputs == UNION {[1..n -> Heads] : n \in 0..2} \cup
          {<<160 + n>> \o s : n \in 1..2, s \in [1..3 -> {0, 24, 32, 64, 97, 129, 161, 249}]} \cup
          {<<249, a, b>> : a \in {0, 1, 60, 124, 131, 252}, b \in {0, 1}}

\* What was encoded is decoded to the same value and to no other: every proper prefix is
\* Truncated and a byte more is TrailingBytes.  A map is encoded the same in whatever
\* order it was filled, and decodes with the last of two equal keys.  Whatever decodes,
\* from any bytes, can be encoded again and is then its own canonical form; more lists in
\* each other than MAX_NESTING_DEPTH do encode and do not decode (cbor.rs encode, decode,
\* and the expect in with_canonical_bytes).
CborCanonical ==
  /\ \A v \in Scalars \cup Maps :
       LET bytes == encode(v)
       IN /\ Same(decode(bytes), v)
          /\ encode(decode(bytes)) = bytes
          /\ \A n \in 0..(Len(bytes) - 1) : decode(SubSeq(bytes, 1, n)) = Error("Truncated")
          /\ decode(Append(bytes, 0)) = Error("TrailingBytes")
  /\ \A m \in Maps : encode(m) = encode(<<"Map", <<m[2][2], m[2][1]>> >>)
  /\ \A k \in MapKeys :
       decode(encode(<<"Map", << <<k, Small(1)>>, <<k, Small(2)>> >> >>)) =
         <<"Map", << <<k, Small(2)>> >> >>
  /\ encode(<<"List", <<Beyond>> >>) = Error("IntOutOfRange")
  /\ Same(decode(encode(Nest(MaxDepth))), Nest(MaxDepth))
  /\ decode(encode(Nest(MaxDepth + 1))) = Error("NestingTooDeep")
  /\ \A input \in Inputs :
       LET v == decode(input)
       IN Failed(v) \/ (Encodable(v) /\ Same(decode(encode(v)), v))

=================================================================================
