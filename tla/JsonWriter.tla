----------------------------- MODULE JsonWriter -----------------------------
(***************************************************************************)
(* The writing half of the JSON library (src/src/json.h): serializer::dump *)
(* without pretty-printing, as the program calls it for every request and  *)
(* every reply.  It recurses over the value, and Dump is a function on the *)
(* values to be dumped, which hold the parts of each of them.              *)
(* dump throws (316) for a string that Decoded takes anywhere but to       *)
(* UTF8_ACCEPT, and so the writer is given no such strings here.           *)
(***************************************************************************)
EXTENDS JsonText

CONSTANTS
  Values,  \* values that are dumped, with all their parts
  Nesting  \* how deeply each of them is nested

Strings == {s \in Seq(Byte) : Decoded(s) = UTF8_ACCEPT}

\* Null, a truth value, an integer that fits, a string that can be written; and
\* arrays and objects of values, each nested deeper than its parts.
IsScalar(v) ==
  \/ v \in {Null, Boolean(TRUE), Boolean(FALSE)}
  \/ \E n \in -NumberRange .. 2 * NumberRange - 1 : v = Integer(n)
  \/ Is(v, "string") /\ v = Text(v[2]) /\ v[2] \in Strings
IsList(v) ==
  /\ v = Array(v[2])
  /\ v[2] \in Seq(Values)
  /\ \A i \in DOMAIN v[2] : Nesting[v[2][i]] < Nesting[v]
IsRecord(v) ==
  /\ v = Object(v[2])
  /\ v[2] \in [DOMAIN v[2] -> Values]
  /\ DOMAIN v[2] \subseteq Strings /\ IsFiniteSet(DOMAIN v[2])
  /\ \A key \in DOMAIN v[2] : Nesting[v[2][key]] < Nesting[v]

ASSUME WriterAssumption ==
  /\ Nesting \in [Values -> Nat]
  /\ \A v \in Values :
       IsScalar(v) \/ (Is(v, "array") /\ IsList(v)) \/ (Is(v, "object") /\ IsRecord(v))
-----------------------------------------------------------------------------

HexDigit(n) == IF n < 10 THEN 48 + n ELSE 87 + n

\* Mutant of Escaped: the quotation mark is copied.
EscapedNoQuote(byte) ==
  CASE byte \in {8, 9, 10, 12, 13, Backslash} ->
         <<Backslash, CHOOSE c \in DOMAIN Short \ {47} : Short[c] = byte>>
    [] byte \in 0 .. 31 \ {8, 9, 10, 12, 13} ->
         <<Backslash, 117, 48, 48, HexDigit(byte \div 16), HexDigit(byte % 16)>>
    [] OTHER -> <<byte>>

\* What dump_escaped writes for a byte of a string.
Escaped(byte) ==
  CASE byte \in {8, 9, 10, 12, 13, Quote, Backslash} ->
         <<Backslash, CHOOSE c \in DOMAIN Short \ {47} : Short[c] = byte>>
    [] byte \in 0 .. 31 \ {8, 9, 10, 12, 13} ->
         <<Backslash, 117, 48, 48, HexDigit(byte \div 16), HexDigit(byte % 16)>>
    [] OTHER -> <<byte>>

DumpString(s) == <<Quote>> \o FlattenSeq([i \in DOMAIN s |-> Escaped(s[i])]) \o <<Quote>>

\* count_digits: four digits less in every round.
CountDigits(n) ==
  LET x[k \in 0 .. n] == IF k = 0 THEN n ELSE x[k - 1] \div 10000
      rounds == CHOOSE k \in 0 .. n : x[k] < 10000 /\ \A j \in 0 .. k - 1 : x[j] >= 10000
      last == x[rounds]
  IN 4 * rounds + CASE last < 10 -> 1 [] last \in 10 .. 99 -> 2
                    [] last \in 100 .. 999 -> 3 [] last >= 1000 -> 4

\* dump_integer, which writes that many digits from the end.
DumpInteger(n) ==
  LET size == IF n < 0 THEN -n ELSE n
      digits == CountDigits(size)
      rest[k \in 0 .. digits] == IF k = 0 THEN size ELSE rest[k - 1] \div 10
  IN (IF n < 0 THEN <<Minus>> ELSE <<>>)
       \o [i \in 1 .. digits |-> 48 + (rest[digits - i] % 10)]

\* The order of std::map<std::string, ...>, in which dump visits an object.
Before(a, b) ==
  \/ Len(a) < Len(b) /\ IsPrefix(a, b)
  \/ \E i \in DOMAIN a \cap DOMAIN b :
       a[i] < b[i] /\ \A j \in 1 .. i - 1 : a[j] = b[j]
SortedKeys(members) ==
  LET keys == DOMAIN members
      place(key) == Cardinality({k \in keys : Before(k, key)}) + 1
  IN [i \in 1 .. Cardinality(keys) |-> CHOOSE key \in keys : place(key) = i]

Joined(parts) == FlattenSeq([i \in DOMAIN parts |->
                               IF i = 1 THEN parts[i] ELSE <<44>> \o parts[i]])

Dump[v \in Values] ==
  CASE v[1] = "object" ->
         LET keys == SortedKeys(v[2])
         IN <<123>> \o Joined([i \in DOMAIN keys |->
              DumpString(keys[i]) \o <<58>> \o Dump[v[2][keys[i]]]]) \o <<125>>
    [] v[1] = "array" -> <<91>> \o Joined([i \in DOMAIN v[2] |-> Dump[v[2][i]]]) \o <<93>>
    [] v[1] = "string" -> DumpString(v[2])
    [] v[1] = "integer" -> DumpInteger(v[2])
    [] OTHER -> CHOOSE text \in Literals : LiteralValue(text) = v
=============================================================================
