-------------------------------- MODULE Bson --------------------------------
(***************************************************************************)
(* BSON in the JSON library (src/src/json.h): to_bson and from_bson.  A    *)
(* document is its size, its elements, each with a type and a name, and a  *)
(* zero byte.  The sizes are computed from the value before the bytes are  *)
(* written; the reader takes no notice of a document's size.               *)
(***************************************************************************)
EXTENDS JsonBinary

Int32Size == 4
-----------------------------------------------------------------------------
(* binary_reader *)

\* get_bson_cstr
RECURSIVE GetBsonCstr(_, _)
GetBsonCstr(s, p) ==
  CASE AtEnd(s, p) -> Failed
    [] ~AtEnd(s, p) /\ s[p] = 0 -> Got(<<>>, p + 1)
    [] OTHER -> Then(GetBsonCstr(s, p + 1), LAMBDA rest, q : Got(<<s[p]>> \o rest, q))

\* get_bson_string and get_bson_binary, after their length.  What stands in
\* place of a string's zero byte is not looked at.
GetBsonString(s, p, n) ==
  IF n < 1 THEN Failed
  ELSE Then(Bytes(s, p, n - 1), LAMBDA bytes, q :
         IF AtEnd(s, q) THEN Failed ELSE Got(bytes, q + 1))
GetBsonBinary(s, p, n) ==
  IF n < 0 THEN Failed
  ELSE Then(Unsigned(s, p, 1), LAMBDA subtype, q :
         As(LAMBDA bytes : Binary(bytes, <<subtype>>), Bytes(s, q, n)))

RECURSIVE ParseBsonElements(_, _)

\* parse_bson_internal and parse_bson_array: an array's names are not kept.
ParseBson(s, p) ==
  Then(LittleEndian(s, p, Int32Size), LAMBDA size, q : AsObject(ParseBsonElements(s, q)))
ParseBsonArray(s, p) ==
  Then(LittleEndian(s, p, Int32Size), LAMBDA size, q :
    As(LAMBDA pairs : Array([i \in DOMAIN pairs |-> pairs[i][2]]), ParseBsonElements(s, q)))

\* parse_bson_element_internal.  A boolean at the end of the input is TRUE, and
\* the next element fails.
ParseBsonElement(s, p, type) ==
  LET number(size) == As(Integer, LittleEndian(s, p, size))
  IN CASE type = 1 -> As(LAMBDA bytes : Float, Bytes(s, p, 8))
       [] type = 2 -> Then(LittleEndian(s, p, Int32Size), LAMBDA n, q :
                        As(Text, GetBsonString(s, q, n)))
       [] type = 3 -> ParseBson(s, p)
       [] type = 4 -> ParseBsonArray(s, p)
       [] type = 5 -> Then(LittleEndian(s, p, Int32Size), LAMBDA n, q : GetBsonBinary(s, q, n))
       [] type = 8 -> Got(Boolean(AtEnd(s, p) \/ s[p] # 0), p + 1)
       [] type = 10 -> Got(Null, p)
       [] type = 16 -> number(4)
       [] type = 18 -> number(8)
       [] OTHER -> Failed

ParseBsonElements(s, p) ==
  CASE AtEnd(s, p) -> Failed
    [] ~AtEnd(s, p) /\ s[p] = 0 -> Got(<<>>, p + 1)
    [] OTHER ->
         Then(GetBsonCstr(s, p + 1), LAMBDA key, q :
           Then(ParseBsonElement(s, q, s[p]), LAMBDA x, r :
             Then(ParseBsonElements(s, r), LAMBDA pairs, next :
               Got(<<<<key, x>>>> \o pairs, next))))

FromBson(s) == Whole(s, ParseBson(s, 1))
-----------------------------------------------------------------------------
(* binary_writer: the sizes *)

\* Mutant of StringSize: the zero byte is not counted.
StringSizeBare(bytes) == Int32Size + Len(bytes)

\* The calc_bson functions.
EntryHeaderSize(name) == 1 + Len(name) + 1
StringSize(bytes) == Int32Size + Len(bytes) + 1
BinarySize(bytes) == Int32Size + Len(bytes) + 1
IntegerSize(n) == 4

\* std::to_string of an array index, which counts from 0.
IndexName(i) == DumpInteger(i - 1)

SumOf(numbers) == FoldLeft(LAMBDA a, b : a + b, 0, numbers)
RECURSIVE ElementSize(_, _)
ArraySize(v) ==
  Int32Size + SumOf([i \in DOMAIN v[2] |-> ElementSize(IndexName(i), v[2][i])]) + 1
ObjectSize(v) ==
  LET keys == SortedKeys(v[2])
  IN Int32Size + SumOf([i \in DOMAIN keys |-> ElementSize(keys[i], v[2][keys[i]])]) + 1
ElementSize(name, v) ==
  EntryHeaderSize(name) +
    (CASE v[1] = "object" -> ObjectSize(v)
       [] v[1] = "array" -> ArraySize(v)
       [] v[1] = "binary" -> BinarySize(v[2])
       [] v[1] = "boolean" -> 1
       [] v[1] = "integer" -> IntegerSize(v[2])
       [] v[1] = "string" -> StringSize(v[2])
       [] v[1] = "null" -> 0)

\* The keys that calc_bson_entry_header_size throws for.
RECURSIVE HasNulKey(_)
HasNulKey(v) ==
  CASE v[1] = "object" -> \E key \in DOMAIN v[2] : 0 \in Range(key) \/ HasNulKey(v[2][key])
    [] v[1] = "array" -> \E i \in DOMAIN v[2] : HasNulKey(v[2][i])
    [] OTHER -> FALSE
-----------------------------------------------------------------------------
(* binary_writer: the bytes *)

Int32(n) == Reverse(NumberBytes(n, 4))
EntryHeader(name, type) == <<type>> \o name \o <<0>>

BsonBoolean(name, b) == EntryHeader(name, 8) \o <<IF b THEN 1 ELSE 0>>
BsonNull(name) == EntryHeader(name, 10)
BsonString(name, bytes) == EntryHeader(name, 2) \o Int32(Len(bytes) + 1) \o bytes \o <<0>>
BsonInteger(name, n) == EntryHeader(name, 16) \o Int32(n)
BsonBinary(name, v) ==
  EntryHeader(name, 5) \o Int32(Len(v[2]))
    \o <<IF v[3] = <<>> THEN 0 ELSE v[3][1] % 256>> \o v[2]

RECURSIVE BsonElement(_, _)
BsonDocument(v) == Int32(ObjectSize(v)) \o WriteObject(v, BsonElement) \o <<0>>
BsonObject(name, v) == EntryHeader(name, 3) \o BsonDocument(v)
BsonArray(name, v) ==
  EntryHeader(name, 4) \o Int32(ArraySize(v))
    \o FlattenSeq([i \in DOMAIN v[2] |-> BsonElement(IndexName(i), v[2][i])]) \o <<0>>
BsonElement(name, v) ==
  CASE v[1] = "object" -> BsonObject(name, v)
    [] v[1] = "array" -> BsonArray(name, v)
    [] v[1] = "binary" -> BsonBinary(name, v)
    [] v[1] = "boolean" -> BsonBoolean(name, v[2])
    [] v[1] = "integer" -> BsonInteger(name, v[2])
    [] v[1] = "string" -> BsonString(name, v[2])
    [] v[1] = "null" -> BsonNull(name)

\* write_bson throws (<<>>) unless it is given an object.
ToBson(v) == IF ~Is(v, "object") \/ HasNulKey(v) THEN <<>> ELSE BsonDocument(v)
=============================================================================
