----------------------------- MODULE JsonBinary -----------------------------
(***************************************************************************)
(* What the binary formats of the JSON library share (src/src/json.h,      *)
(* binary_reader and binary_writer): bytes, numbers of 1, 2, 4 or 8 bytes, *)
(* strings of a known length, and the binary values that JSON text does    *)
(* not have.                                                               *)
(*                                                                         *)
(* Reading is a partial function of a sequence of bytes and a position: it *)
(* fails, or gives what was read and the position after it.  A failure is  *)
(* an exception, or a value that is discarded.  Numbers are of 32 bits.    *)
(***************************************************************************)
EXTENDS JsonWriter, FiniteSets

\* byte_container_with_subtype: the subtype is <<>> or <<number>>.
Binary(bytes, subtype) == <<"binary", bytes, subtype>>

Got(x, next) == [value |-> x, next |-> next]
Failed == [value |-> Throw, next |-> 0]
HasFailed(got) == got.next = 0

\* a && b: b is given what a has read, and where it ended.
Then(got, rest(_, _)) == IF HasFailed(got) THEN Failed ELSE rest(got.value, got.next)

\* A loop over n items that all have to be read.
Times(n, Item(_), p) ==
  LET RECURSIVE items(_, _)
      items(left, q) ==
        IF left = 0 THEN Got(<<>>, q)
        ELSE Then(Item(q), LAMBDA x, r :
               Then(items(left - 1, r), LAMBDA rest, next : Got(<<x>> \o rest, next)))
  IN items(n, p)
-----------------------------------------------------------------------------
(* binary_reader *)

\* get and unexpect_eof.
AtEnd(s, p) == p > Len(s)

\* get_ignore_noop: the position of the next byte that is not 'N'.
RECURSIVE IgnoreNoop(_, _)
IgnoreNoop(s, p) == IF ~AtEnd(s, p) /\ s[p] = 78 THEN IgnoreNoop(s, p + 1) ELSE p

\* get_string and get_binary.
Bytes(s, p, n) ==
  IF n > Len(s) + 1 - p THEN Failed ELSE Got(SubSeq(s, p, p + n - 1), p + n)

\* The number that bytes are, the first one highest.
AsUnsigned(bytes) == FoldLeft(LAMBDA n, byte : 256 * n + byte, 0, bytes)
AsSigned(bytes) ==
  IF bytes[1] < 128 THEN AsUnsigned(bytes)
  ELSE -1 - FoldLeft(LAMBDA n, byte : 256 * n + (255 - byte), 0, bytes)

\* get_number<uintN_t>, get_number<intN_t>, and the little-endian ones of BSON.
Unsigned(s, p, size) ==
  Then(Bytes(s, p, size), LAMBDA bytes, q : Got(AsUnsigned(bytes), q))
Signed(s, p, size) ==
  Then(Bytes(s, p, size), LAMBDA bytes, q : Got(AsSigned(bytes), q))
LittleEndian(s, p, size) ==
  Then(Bytes(s, p, size), LAMBDA bytes, q : Got(AsSigned(Reverse(bytes)), q))

\* json_sax_dom_parser::key: a later member replaces an earlier one.
Members(pairs) ==
  FoldLeft(LAMBDA members, pair : pair[1] :> pair[2] @@ members, EmptyObject[2], pairs)

\* What the callbacks of the sax parser make of what was read.
As(type(_), got) == Then(got, LAMBDA x, q : Got(type(x), q))
AsObject(got) == As(LAMBDA pairs : Object(Members(pairs)), got)

\* Mutant of Whole: what follows the value is not looked at.
WholeAndMore(s, got) == got.value

\* sax_parse in strict mode: nothing follows the value.
Whole(s, got) == IF AtEnd(s, got.next) THEN got.value ELSE Throw
-----------------------------------------------------------------------------
(* binary_writer *)

\* write_number: in two's complement, the highest byte first.
RECURSIVE NumberBytes(_, _)
NumberBytes(n, size) ==
  IF size = 0 THEN <<>> ELSE Append(NumberBytes(n \div 256, size - 1), n % 256)

\* Whether the type of that many bytes has n.  A model has no number beyond
\* 32 bits, so that nothing needs more than 8 bytes.
FitsUnsigned(n, size) == size >= 4 \/ n < 256 ^ size
FitsSigned(n, size) == size >= 4 \/ (n >= -(128 * 256 ^ (size - 1)) /\ n < 128 * 256 ^ (size - 1))

\* The smallest size that has n.
UnsignedSize(n) == CHOOSE size \in {1, 2, 4} :
  FitsUnsigned(n, size) /\ \A smaller \in {1, 2, 4} : smaller < size => ~FitsUnsigned(n, smaller)
SignedSize(n) == CHOOSE size \in {1, 2, 4} :
  FitsSigned(n, size) /\ \A smaller \in {1, 2, 4} : smaller < size => ~FitsSigned(n, smaller)

\* The elements of an array, or the members of an object in their order.
WriteArray(v, Element(_)) == FlattenSeq([i \in DOMAIN v[2] |-> Element(v[2][i])])
WriteObject(v, Member(_, _)) ==
  LET keys == SortedKeys(v[2])
  IN FlattenSeq([i \in DOMAIN keys |-> Member(keys[i], v[2][keys[i]])])
=============================================================================
