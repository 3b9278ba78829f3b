------------------------------- MODULE Ubjson -------------------------------
(***************************************************************************)
(* UBJSON in the JSON library (src/src/json.h): to_ubjson and from_ubjson. *)
(* Every type is a letter.  An array or object either ends with a mark or  *)
(* says how many elements it has, and then it may also say, once, which    *)
(* type they all have.                                                     *)
(***************************************************************************)
EXTENDS JsonBinary

Noop == 78
TypeMark == 36
CountMark == 35

\* The letters of the integer types, with their sizes; only "U" is unsigned.
IntegerTypes == 105 :> 1 @@ 85 :> 1 @@ 73 :> 2 @@ 108 :> 4 @@ 76 :> 8
UnsignedLetter == 85
-----------------------------------------------------------------------------
(* binary_reader *)

UbjsonInteger(s, p, letter) ==
  IF letter = UnsignedLetter THEN Unsigned(s, p, 1) ELSE Signed(s, p, IntegerTypes[letter])

\* get_ubjson_string: its length (a negative one is no length at all), its bytes.
GetUbjsonString(s, p) ==
  IF AtEnd(s, p) \/ s[p] \notin DOMAIN IntegerTypes THEN Failed
  ELSE Then(UbjsonInteger(s, p + 1, s[p]), LAMBDA n, q :
         Bytes(s, q, IF n < 0 THEN 0 ELSE n))

\* get_ubjson_size_value: no input has as much as a negative size turns into.
GetUbjsonSize(s, p) ==
  LET q == IgnoreNoop(s, p)
  IN IF AtEnd(s, q) \/ s[q] \notin DOMAIN IntegerTypes THEN Failed
     ELSE Then(UbjsonInteger(s, q + 1, s[q]), LAMBDA n, r :
            IF n < 0 THEN Failed ELSE Got(n, r))

\* get_ubjson_size_type: the count and the type, <<>> where none is given.  The
\* byte that is neither mark is looked at again.
GetUbjsonSizeType(s, p) ==
  LET q == IgnoreNoop(s, p)
      count == IgnoreNoop(s, q + 2)
  IN CASE AtEnd(s, q) -> Got([count |-> <<>>, type |-> <<>>], q)
       [] ~AtEnd(s, q) /\ s[q] = TypeMark ->
            IF AtEnd(s, count) \/ s[count] # CountMark THEN Failed
            ELSE As(LAMBDA n : [count |-> <<n>>, type |-> <<s[q + 1]>>],
                    GetUbjsonSize(s, count + 1))
       [] ~AtEnd(s, q) /\ s[q] = CountMark ->
            As(LAMBDA n : [count |-> <<n>>, type |-> <<>>], GetUbjsonSize(s, q + 1))
       [] OTHER -> Got([count |-> <<>>, type |-> <<>>], q)

\* get_ubjson_high_precision_number: a JSON number and nothing else.
NumberRead(number, p) ==
  IF Complete(number) /\ Result(number)[1] \in {"integer", "float"}
  THEN Got(Result(number), p) ELSE Failed
GetUbjsonHighPrecision(s, p) ==
  Then(GetUbjsonSize(s, p), LAMBDA n, q :
    Then(Bytes(s, q, n), LAMBDA bytes, r : NumberRead(Read(StartReader, bytes), r)))

RECURSIVE GetUbjsonValue(_, _, _)
ParseUbjson(s, p) ==
  LET q == IgnoreNoop(s, p) IN IF AtEnd(s, q) THEN Failed ELSE GetUbjsonValue(s, q + 1, s[q])

\* Elements, and pairs of a key and an element, up to the mark that ends them.
RECURSIVE UbjsonElements(_, _)
UbjsonElements(s, p) ==
  LET q == IgnoreNoop(s, p)
  IN IF ~AtEnd(s, q) /\ s[q] = 93 THEN Got(<<>>, q + 1)
     ELSE Then(ParseUbjson(s, q), LAMBDA x, r :
            Then(UbjsonElements(s, r), LAMBDA elements, next : Got(<<x>> \o elements, next)))

UbjsonPair(s, p, Element(_)) ==
  Then(GetUbjsonString(s, p), LAMBDA key, q :
    Then(Element(q), LAMBDA x, r : Got(<<key, x>>, r)))
RECURSIVE UbjsonPairs(_, _)
UbjsonPairs(s, p) ==
  LET q == IgnoreNoop(s, p)
  IN IF ~AtEnd(s, q) /\ s[q] = 125 THEN Got(<<>>, q + 1)
     ELSE Then(UbjsonPair(s, q, LAMBDA r : ParseUbjson(s, r)), LAMBDA pair, r :
            Then(UbjsonPairs(s, r), LAMBDA pairs, next : Got(<<pair>> \o pairs, next)))

\* An array of the type "N" has no elements, whatever its count.
GetUbjsonArray(s, p) ==
  Then(GetUbjsonSizeType(s, p), LAMBDA given, q :
    As(Array,
       CASE given.count = <<>> -> UbjsonElements(s, q)
         [] given.count # <<>> /\ given.type = <<Noop>> -> Got(<<>>, q)
         [] given.count # <<>> /\ given.type = <<>> ->
              Times(given.count[1], LAMBDA r : ParseUbjson(s, r), q)
         [] OTHER -> Times(given.count[1], LAMBDA r : GetUbjsonValue(s, r, given.type[1]), q)))

GetUbjsonObject(s, p) ==
  Then(GetUbjsonSizeType(s, p), LAMBDA given, q :
    LET element(r) == IF given.type = <<>> THEN ParseUbjson(s, r)
                      ELSE GetUbjsonValue(s, r, given.type[1])
    IN AsObject(IF given.count = <<>> THEN UbjsonPairs(s, q)
                ELSE Times(given.count[1], LAMBDA r : UbjsonPair(s, r, element), q)))

\* get_ubjson_value: what a letter is followed by.
GetUbjsonValue(s, p, letter) ==
  CASE letter = 84 -> Got(Boolean(TRUE), p)
    [] letter = 70 -> Got(Boolean(FALSE), p)
    [] letter = 90 -> Got(Null, p)
    [] letter \in DOMAIN IntegerTypes -> As(Integer, UbjsonInteger(s, p, letter))
    [] letter = 100 -> As(LAMBDA bytes : Float, Bytes(s, p, 4))
    [] letter = 68 -> As(LAMBDA bytes : Float, Bytes(s, p, 8))
    [] letter = 72 -> GetUbjsonHighPrecision(s, p)
    [] letter = 67 -> Then(Bytes(s, p, 1), LAMBDA char, q :
                        IF char[1] > 127 THEN Failed ELSE Got(Text(char), q))
    [] letter = 83 -> As(Text, GetUbjsonString(s, p))
    [] letter = 91 -> GetUbjsonArray(s, p)
    [] letter = 123 -> GetUbjsonObject(s, p)
    [] OTHER -> Failed

FromUbjson(s) == Whole(s, Then(ParseUbjson(s, 1), LAMBDA x, p : Got(x, IgnoreNoop(s, p))))
-----------------------------------------------------------------------------
(* binary_writer *)

\* The letter of an integer: the smallest type, signed ones first.
IntegerLetter(n) ==
  CASE FitsSigned(n, 1) -> 105
    [] ~FitsSigned(n, 1) /\ n \in 0 .. 255 -> UnsignedLetter
    [] n \notin 0 .. 255 /\ ~FitsSigned(n, 1) /\ FitsSigned(n, 2) -> 73
    [] ~FitsSigned(n, 2) -> 108

\* write_number_with_ubjson_prefix, with and without the letter.
UbjsonDigits(n) == NumberBytes(n, IntegerTypes[IntegerLetter(n)])
UbjsonNumber(n) == <<IntegerLetter(n)>> \o UbjsonDigits(n)

\* ubjson_prefix
UbjsonPrefix(v) ==
  CASE v[1] = "null" -> 90
    [] v[1] = "boolean" -> IF v[2] THEN 84 ELSE 70
    [] v[1] = "integer" -> IntegerLetter(v[2])
    [] v[1] = "string" -> 83
    [] v[1] \in {"array", "binary"} -> 91
    [] v[1] = "object" -> 123

\* The type and the count before a container's elements, and what follows them.
Header(type, n, counted) ==
  (IF type = <<>> THEN <<>> ELSE <<TypeMark>> \o type)
    \o (IF counted THEN <<CountMark>> \o UbjsonNumber(n) ELSE <<>>)
EndMark(mark, counted) == IF counted THEN <<>> ELSE <<mark>>

\* The one type of all elements, if there is one and types are wanted.
CommonType(elements, typed) ==
  LET letters == {UbjsonPrefix(x) : x \in elements}
  IN IF typed /\ Cardinality(letters) = 1 THEN <<CHOOSE x \in letters : TRUE>> ELSE <<>>

UbjsonText(bytes) == UbjsonNumber(Len(bytes)) \o bytes
UbjsonBinary(v, counted, typed) ==
  Header(IF typed /\ v[2] # <<>> THEN <<UnsignedLetter>> ELSE <<>>, Len(v[2]), counted)
    \o FlattenSeq([i \in DOMAIN v[2] |->
         IF typed THEN <<v[2][i]>> ELSE <<UnsignedLetter, v[2][i]>>])
    \o EndMark(93, counted)

\* A value without its letter, and with it.  Types are only given with counts.
RECURSIVE UbjsonContents(_, _, _)
ToUbjson(v, counted, typed) == <<UbjsonPrefix(v)>> \o UbjsonContents(v, counted, typed)
UbjsonElement(v, counted, typed, type) ==
  IF type = <<>> THEN ToUbjson(v, counted, typed) ELSE UbjsonContents(v, counted, typed)
WriteUbjsonArray(v, counted, typed) ==
  LET type == CommonType(Range(v[2]), typed)
  IN Header(type, Len(v[2]), counted)
       \o WriteArray(v, LAMBDA x : UbjsonElement(x, counted, typed, type))
       \o EndMark(93, counted)
WriteUbjsonObject(v, counted, typed) ==
  LET type == CommonType(Range(v[2]), typed)
  IN Header(type, Cardinality(DOMAIN v[2]), counted)
       \o WriteObject(v, LAMBDA key, x : UbjsonText(key) \o UbjsonElement(x, counted, typed, type))
       \o EndMark(125, counted)
UbjsonContents(v, counted, typed) ==
  CASE v[1] \in {"null", "boolean"} -> <<>>
    [] v[1] = "integer" -> UbjsonDigits(v[2])
    [] v[1] = "string" -> UbjsonText(v[2])
    [] v[1] = "binary" -> UbjsonBinary(v, counted, typed)
    [] v[1] = "array" -> WriteUbjsonArray(v, counted, typed)
    [] v[1] = "object" -> WriteUbjsonObject(v, counted, typed)
=============================================================================
