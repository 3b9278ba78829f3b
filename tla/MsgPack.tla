------------------------------- MODULE MsgPack ------------------------------
(***************************************************************************)
(* MessagePack in the JSON library (src/src/json.h): to_msgpack and        *)
(* from_msgpack.  Small numbers and short strings, arrays and objects are  *)
(* in the initial byte; the others have a byte of their own per type.      *)
(***************************************************************************)
EXTENDS JsonBinary

\* Sizes 1, 2 and 4 of a family of types are consecutive bytes.
SizeOf(byte, first) == 2 ^ (byte - first)
Index(size) == CASE size = 1 -> 0 [] size = 2 -> 1 [] size = 4 -> 2

\* fixext: the lengths that have a byte of their own, from 0xD4 on.
FixedLengths == <<1, 2, 4, 8, 16>>
-----------------------------------------------------------------------------
(* binary_reader *)

GetMsgPackString(s, p) ==
  IF AtEnd(s, p) THEN Failed
  ELSE CASE s[p] \in 160 .. 191 -> Bytes(s, p + 1, s[p] - 160)
         [] s[p] \in 217 .. 219 ->
              Then(Unsigned(s, p + 1, SizeOf(s[p], 217)), LAMBDA n, q : Bytes(s, q, n))
         [] OTHER -> Failed

\* A byte array of n bytes after its subtype, which is cut to a byte.
Extension(s, p, n) ==
  Then(Signed(s, p, 1), LAMBDA subtype, q :
    As(LAMBDA bytes : Binary(bytes, <<subtype % 256>>), Bytes(s, q, n)))

GetMsgPackBinary(s, p) ==
  CASE s[p] \in 196 .. 198 ->
         Then(Unsigned(s, p + 1, SizeOf(s[p], 196)), LAMBDA n, q :
           As(LAMBDA bytes : Binary(bytes, <<>>), Bytes(s, q, n)))
    [] s[p] \in 199 .. 201 ->
         Then(Unsigned(s, p + 1, SizeOf(s[p], 199)), LAMBDA n, q : Extension(s, q, n))
    [] s[p] \in 212 .. 216 -> Extension(s, p + 1, FixedLengths[s[p] - 211])

RECURSIVE ParseMsgPack(_, _)

GetMsgPackArray(s, p, n) == As(Array, Times(n, LAMBDA q : ParseMsgPack(s, q), p))
GetMsgPackObject(s, p, n) ==
  AsObject(Times(n, LAMBDA q :
    Then(GetMsgPackString(s, q), LAMBDA key, r :
      Then(ParseMsgPack(s, r), LAMBDA x, next : Got(<<key, x>>, next))), p))

\* What parse_msgpack_internal does with the initial bytes of its switch: those
\* that are an item or begin one, and the typed numbers.
MsgPackFixed(s, p) ==
  CASE s[p] \in 0 .. 127 -> Got(Integer(s[p]), p + 1)
    [] s[p] \in 128 .. 143 -> GetMsgPackObject(s, p + 1, s[p] - 128)
MsgPackListOrText(s, p) ==
  IF s[p] \in 144 .. 159 THEN GetMsgPackArray(s, p + 1, s[p] - 144)
  ELSE As(Text, GetMsgPackString(s, p))
MsgPackLiteral(s, p) ==
  CASE s[p] = 192 -> Got(Null, p + 1)
    [] s[p] = 194 -> Got(Boolean(FALSE), p + 1)
    [] s[p] = 195 -> Got(Boolean(TRUE), p + 1)
MsgPackNumber(s, p) ==
  CASE s[p] \in 202 .. 203 -> As(LAMBDA bytes : Float, Bytes(s, p + 1, 4 * SizeOf(s[p], 202)))
    [] s[p] \in 204 .. 207 -> As(Integer, Unsigned(s, p + 1, SizeOf(s[p], 204)))
    [] s[p] \in 208 .. 211 -> As(Integer, Signed(s, p + 1, SizeOf(s[p], 208)))
MsgPackSized(s, p) ==
  CASE s[p] \in 220 .. 221 ->
         Then(Unsigned(s, p + 1, 2 * SizeOf(s[p], 220)), LAMBDA n, q : GetMsgPackArray(s, q, n))
    [] s[p] \in 222 .. 223 ->
         Then(Unsigned(s, p + 1, 2 * SizeOf(s[p], 222)), LAMBDA n, q : GetMsgPackObject(s, q, n))
MsgPackNegative(s, p) == Got(Integer(s[p] - 256), p + 1)

ParseMsgPack(s, p) ==
  IF AtEnd(s, p) \/ s[p] = 193 THEN Failed
  ELSE CASE s[p] \in 0 .. 143 -> MsgPackFixed(s, p)
         [] s[p] \in 144 .. 191 \cup 217 .. 219 -> MsgPackListOrText(s, p)
         [] s[p] \in 192 .. 195 -> MsgPackLiteral(s, p)
         [] s[p] \in 196 .. 201 \cup 212 .. 216 -> GetMsgPackBinary(s, p)
         [] s[p] \in 202 .. 211 -> MsgPackNumber(s, p)
         [] s[p] \in 220 .. 223 -> MsgPackSized(s, p)
         [] s[p] \in 224 .. 255 -> MsgPackNegative(s, p)

FromMsgPack(s) == Whole(s, ParseMsgPack(s, 1))
-----------------------------------------------------------------------------
(* binary_writer *)

\* The byte of a family for a length that none of the first ones has.
Sized(n, size, first) == <<first + Index(size)>> \o NumberBytes(n, size)

\* Integers, from 0 and below 0.
MsgPackUnsigned(n) ==
  IF n < 128 THEN <<n>> ELSE Sized(n, UnsignedSize(n), 204)
\* Mutant of MsgPackSigned: -33 is taken for a number of the initial byte.
MsgPackSignedOneMore(n) ==
  IF n >= -33 THEN NumberBytes(n, 1) ELSE Sized(n, SignedSize(n), 208)
MsgPackSigned(n) ==
  IF n >= -32 THEN NumberBytes(n, 1) ELSE Sized(n, SignedSize(n), 208)

MsgPackText(bytes) ==
  (IF Len(bytes) <= 31 THEN <<160 + Len(bytes)>>
   ELSE Sized(Len(bytes), UnsignedSize(Len(bytes)), 217)) \o bytes

\* An array or object has no type for one byte of length.
MsgPackLength(n, fixed, first) ==
  CASE n <= 15 -> <<fixed + n>>
    [] n \in 16 .. 65535 -> <<first>> \o NumberBytes(n, 2)
    [] n > 65535 -> <<first + 1>> \o NumberBytes(n, 4)

MsgPackBytes(v) ==
  LET n == Len(v[2])
  IN (CASE v[3] = <<>> -> Sized(n, UnsignedSize(n), 196)
        [] v[3] # <<>> /\ n \in Range(FixedLengths) ->
             <<CHOOSE byte \in 212 .. 216 : FixedLengths[byte - 211] = n>>
        [] v[3] # <<>> /\ n \notin Range(FixedLengths) -> Sized(n, UnsignedSize(n), 199))
     \o (IF v[3] = <<>> THEN <<>> ELSE NumberBytes(v[3][1], 1)) \o v[2]

RECURSIVE ToMsgPack(_)
MsgPackElements(v) == MsgPackLength(Len(v[2]), 144, 220) \o WriteArray(v, ToMsgPack)
MsgPackMembers(v) ==
  MsgPackLength(Cardinality(DOMAIN v[2]), 128, 222)
    \o WriteObject(v, LAMBDA key, x : MsgPackText(key) \o ToMsgPack(x))
ToMsgPack(v) ==
  CASE v[1] = "null" -> <<192>>
    [] v[1] = "boolean" -> <<IF v[2] THEN 195 ELSE 194>>
    [] v[1] = "integer" -> IF v[2] >= 0 THEN MsgPackUnsigned(v[2]) ELSE MsgPackSigned(v[2])
    [] v[1] = "string" -> MsgPackText(v[2])
    [] v[1] = "binary" -> MsgPackBytes(v)
    [] v[1] = "array" -> MsgPackElements(v)
    [] v[1] = "object" -> MsgPackMembers(v)
=============================================================================
