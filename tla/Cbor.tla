-------------------------------- MODULE Cbor --------------------------------
(***************************************************************************)
(* CBOR in the JSON library (src/src/json.h): to_cbor and from_cbor.  The  *)
(* upper three bits of an initial byte are the kind of the item, the lower *)
(* five its argument, or where the argument is; the library enumerates the *)
(* bytes of each kind.                                                     *)
(***************************************************************************)
EXTENDS JsonBinary

Kind(byte) == byte \div 32
Info(byte) == byte % 32
Indefinite == 31
Break == 255
-----------------------------------------------------------------------------
(* binary_reader *)

\* A number of 0 to 23 in the byte itself, or one of 1, 2, 4 or 8 bytes.
Argument(s, p) ==
  CASE Info(s[p]) <= 23 -> Got(Info(s[p]), p + 1)
    [] Info(s[p]) \in 24 .. 27 -> Unsigned(s, p + 1, 2 ^ (Info(s[p]) - 24))
    [] OTHER -> Failed

\* A string or byte array at p, of the given kind, whole or in chunks.
RECURSIVE Chunks(_, _, _)
StringOfKind(s, p, kind) ==
  CASE AtEnd(s, p) -> Failed
    [] ~AtEnd(s, p) /\ Kind(s[p]) # kind -> Failed
    [] ~AtEnd(s, p) /\ Kind(s[p]) = kind /\ Info(s[p]) = Indefinite -> Chunks(s, p + 1, kind)
    [] OTHER -> Then(Argument(s, p), LAMBDA n, q : Bytes(s, q, n))
Chunks(s, p, kind) ==
  IF ~AtEnd(s, p) /\ s[p] = Break THEN Got(<<>>, p + 1)
  ELSE Then(StringOfKind(s, p, kind), LAMBDA chunk, q :
         Then(Chunks(s, q, kind), LAMBDA rest, r : Got(chunk \o rest, r)))

GetCborBinary(s, p) == StringOfKind(s, p, 2)
GetCborString(s, p) == StringOfKind(s, p, 3)

RECURSIVE ParseCbor(_, _, _)

\* Items up to a break, and pairs of a key and an item.
RECURSIVE ItemsToBreak(_, _, _)
ItemsToBreak(s, p, tags) ==
  IF ~AtEnd(s, p) /\ s[p] = Break THEN Got(<<>>, p + 1)
  ELSE Then(ParseCbor(s, p, tags), LAMBDA x, q :
         Then(ItemsToBreak(s, q, tags), LAMBDA items, r : Got(<<x>> \o items, r)))

CborPair(s, p, tags) ==
  Then(GetCborString(s, p), LAMBDA key, q :
    Then(ParseCbor(s, q, tags), LAMBDA x, r : Got(<<key, x>>, r)))
RECURSIVE PairsToBreak(_, _, _)
PairsToBreak(s, p, tags) ==
  IF ~AtEnd(s, p) /\ s[p] = Break THEN Got(<<>>, p + 1)
  ELSE Then(CborPair(s, p, tags), LAMBDA x, q :
         Then(PairsToBreak(s, q, tags), LAMBDA pairs, r : Got(<<x>> \o pairs, r)))

\* Mutant of CborNegative: the argument is the number without its sign.
CborNegativeOfArgument(s, p) == As(LAMBDA n : Integer(-n), Argument(s, p))

\* The kinds of parse_cbor_internal.
CborNumber(s, p) == As(Integer, Argument(s, p))
CborNegative(s, p) == As(LAMBDA n : Integer(-1 - n), Argument(s, p))
CborBinary(s, p) == As(LAMBDA bytes : Binary(bytes, <<>>), GetCborBinary(s, p))
CborString(s, p) == As(Text, GetCborString(s, p))
CborArray(s, p, tags) ==
  As(Array, IF Info(s[p]) = Indefinite THEN ItemsToBreak(s, p + 1, tags)
            ELSE Then(Argument(s, p), LAMBDA n, q :
                   Times(n, LAMBDA r : ParseCbor(s, r, tags), q)))
CborObject(s, p, tags) ==
  AsObject(IF Info(s[p]) = Indefinite THEN PairsToBreak(s, p + 1, tags)
           ELSE Then(Argument(s, p), LAMBDA n, q :
                  Times(n, LAMBDA r : CborPair(s, r, tags), q)))

\* A tag is an error, is skipped, or is the subtype of the byte array after it
\* (a tag in the initial byte is skipped even then).
CborTagged(s, p, tags) ==
  CASE Info(s[p]) \notin 6 .. 20 \cup 24 .. 27 \/ tags = "error" -> Failed
    [] Info(s[p]) \in 6 .. 20 /\ tags # "error" -> ParseCbor(s, p + 1, tags)
    [] Info(s[p]) \in 24 .. 27 /\ tags = "ignore" ->
         Then(Argument(s, p), LAMBDA tag, q : ParseCbor(s, q, tags))
    [] Info(s[p]) \in 24 .. 27 /\ tags = "store" ->
         Then(Argument(s, p), LAMBDA tag, q :
           As(LAMBDA bytes : Binary(bytes, <<tag>>), GetCborBinary(s, q)))

\* Literals, and floating-point numbers of 2, 4 and 8 bytes.
CborSimple(s, p) ==
  CASE s[p] = 244 -> Got(Boolean(FALSE), p + 1)
    [] s[p] = 245 -> Got(Boolean(TRUE), p + 1)
    [] s[p] = 246 -> Got(Null, p + 1)
    [] s[p] \in 249 .. 251 ->
         As(LAMBDA bytes : Float, Bytes(s, p + 1, 2 ^ (s[p] - 248)))
    [] OTHER -> Failed

ParseCbor(s, p, tags) ==
  IF AtEnd(s, p) THEN Failed
  ELSE CASE Kind(s[p]) = 0 -> CborNumber(s, p)
         [] Kind(s[p]) = 1 -> CborNegative(s, p)
         [] Kind(s[p]) = 2 -> CborBinary(s, p)
         [] Kind(s[p]) = 3 -> CborString(s, p)
         [] Kind(s[p]) = 4 -> CborArray(s, p, tags)
         [] Kind(s[p]) = 5 -> CborObject(s, p, tags)
         [] Kind(s[p]) = 6 -> CborTagged(s, p, tags)
         [] Kind(s[p]) = 7 -> CborSimple(s, p)

FromCbor(s, tags) == Whole(s, ParseCbor(s, 1, tags))
-----------------------------------------------------------------------------
(* binary_writer *)

\* The initial byte of a kind, and its argument.
InitialByte(kind, n) ==
  CASE n <= 23 -> <<32 * kind + n>>
    [] n > 23 -> LET size == UnsignedSize(n)
                     info == CASE size = 1 -> 24 [] size = 2 -> 25 [] size = 4 -> 26
                 IN <<32 * kind + info>> \o NumberBytes(n, size)

\* The tag of a subtype, which is never put into the initial byte.
SubtypeTag(subtype) ==
  IF subtype = <<>> THEN <<>>
  ELSE LET size == UnsignedSize(subtype[1])
       IN <<CASE size = 1 -> 216 [] size = 2 -> 217 [] size = 4 -> 218>>
            \o NumberBytes(subtype[1], size)

CborInteger(n) == IF n >= 0 THEN InitialByte(0, n) ELSE InitialByte(1, -1 - n)
CborText(bytes) == InitialByte(3, Len(bytes)) \o bytes
CborBytes(v) == SubtypeTag(v[3]) \o InitialByte(2, Len(v[2])) \o v[2]

RECURSIVE ToCbor(_)
CborElements(v) == InitialByte(4, Len(v[2])) \o WriteArray(v, ToCbor)
CborMembers(v) ==
  InitialByte(5, Cardinality(DOMAIN v[2]))
    \o WriteObject(v, LAMBDA key, x : CborText(key) \o ToCbor(x))
ToCbor(v) ==
  CASE v[1] = "null" -> <<246>>
    [] v[1] = "boolean" -> <<IF v[2] THEN 245 ELSE 244>>
    [] v[1] = "integer" -> CborInteger(v[2])
    [] v[1] = "string" -> CborText(v[2])
    [] v[1] = "binary" -> CborBytes(v)
    [] v[1] = "array" -> CborElements(v)
    [] v[1] = "object" -> CborMembers(v)
=============================================================================
