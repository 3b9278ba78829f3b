------------------------------ MODULE JsonText ------------------------------
(***************************************************************************)
(* The part of the JSON library (src/src/json.h) that every request and    *)
(* every reply goes through: lexer, parser and json_sax_dom_parser, which  *)
(* json::parse runs over the bytes of a text, and serializer, which dump() *)
(* runs over a value.                                                      *)
(*                                                                         *)
(* A text is a sequence of bytes.  The reader is one record, and Feed is   *)
(* what it does with the next byte.  Where the library's functions call    *)
(* get() in the middle of a token, "scan" says which of them is running.   *)
(***************************************************************************)
EXTENDS Utf8, JsonValue, SequencesExt

CONSTANTS
  NumberRange,  \* unsigned values go to 2 * NumberRange - 1, signed ones from
                \* -NumberRange (2^63 in the build)
  FloatLimit    \* from here on strtod answers infinity (2^1024 - 2^970 in the build)

ASSUME JsonAssumption ==
  /\ NumberRange \in Nat \ {0}
  /\ FloatLimit \in Nat /\ FloatLimit >= 2 * NumberRange

\* The characters that mean something to the lexer.
EOF == -1
Digit == 48 .. 57
WhiteOrNul == {0, 9, 10, 13, 32}
White == {9, 10, 13, 32}
Quote == 34
Backslash == 92
Minus == 45
Structure == [c \in {44, 58, 91, 93, 123, 125} |->
  CASE c = 44 -> "comma"
    [] c = 58 -> "separator"
    [] c = 91 -> "begin_array"
    [] c = 93 -> "end_array"
    [] c = 123 -> "begin_object"
    [] c = 125 -> "end_object"]
Literals == {<<116, 114, 117, 101>>, <<102, 97, 108, 115, 101>>, <<110, 117, 108, 108>>}
-----------------------------------------------------------------------------
(* The parser: which tokens it wants, what it builds from them *)

StartReader == [scan |-> "start", rest |-> <<>>, token |-> <<>>, high |-> 0,
                wants |-> "value", stack |-> <<>>, root |-> Null]

Refuse(r) == [r EXCEPT !.wants = "refused"]
Final(r) == r.wants \in {"refused", "done"}

\* handle_value: the root, the next element, or what the key refers to.
HandleValue(r, v) ==
  LET top == Last(r.stack)
      grown == IF top.value[1] = "array"
               THEN <<"array", Append(top.value[2], v)>>
               ELSE <<"object", [k \in DOMAIN top.value[2] \cup {top.key} |->
                                   IF k = top.key THEN v ELSE top.value[2][k]]>>
  IN IF r.stack = <<>> THEN [r EXCEPT !.root = v, !.wants = "after"]
     ELSE [r EXCEPT !.stack = Append(Front(@), [top EXCEPT !.value = grown]),
                    !.wants = "after"]

\* start_object, start_array; and end_object, end_array.
Open(r, empty) == [r EXCEPT !.stack = Append(@, [value |-> empty, key |-> <<>>]),
                            !.wants = "first"]
Close(r) == HandleValue([r EXCEPT !.stack = Front(@)], Last(r.stack).value)

Inside(r, type) == r.stack # <<>> /\ Last(r.stack).value[1] = type

\* Mutant of WantsValue: one value after another, as in JSON lines.
WantsValueAgain(r) == r.wants \in {"value", "after"} \/ (r.wants = "first" /\ Inside(r, "array"))

\* A new value may start: anywhere one is wanted, and after the bracket.
WantsValue(r) == r.wants = "value" \/ (r.wants = "first" /\ Inside(r, "array"))

\* What must follow a comma.
AfterCommaMayClose(r) == "first"
AfterComma(r) == IF Inside(r, "object") THEN "key" ELSE "value"

\* Is the value read whole?
EndedAnywhere(r) == r.wants = "after"
Ended(r) == r.wants = "after" /\ r.stack = <<>>

\* Mutant of IsFinite: every number that is well written is taken.
AnySize(v) == TRUE

\* std::isfinite, of the value of a token.
IsFinite(v) == v # Infinite

\* sax_parse_internal with the strict parse() around it: one token.
Token(r, token, v) ==
  CASE token = "begin_object" /\ WantsValue(r) -> Open(r, EmptyObject)
    [] token = "begin_array" /\ WantsValue(r) -> Open(r, EmptyArray)
    [] token = "value" /\ IsFinite(v) /\ WantsValue(r) -> HandleValue(r, v)
    [] token = "value" /\ v[1] = "string" /\ Inside(r, "object")
         /\ r.wants \in {"first", "key"} ->
           [r EXCEPT !.stack[Len(r.stack)].key = v[2], !.wants = "separator"]
    [] token = "separator" /\ r.wants = "separator" -> [r EXCEPT !.wants = "value"]
    [] token = "comma" /\ r.wants = "after" /\ r.stack # <<>> ->
         [r EXCEPT !.wants = AfterComma(r)]
    [] token = "end_object" /\ Inside(r, "object") /\ r.wants \in {"first", "after"} ->
         Close(r)
    [] token = "end_array" /\ Inside(r, "array") /\ r.wants \in {"first", "after"} ->
         Close(r)
    [] token = "end_of_input" /\ Ended(r) ->
         [r EXCEPT !.wants = "done"]
    [] OTHER -> Refuse(r)
-----------------------------------------------------------------------------
(* The lexer *)

\* The bytes that must come next, each in its range, while "scan" waits.
Exactly(bytes) == [i \in DOMAIN bytes |-> <<bytes[i], bytes[i]>>]
Await(r, scan, ranges) == [r EXCEPT !.scan = scan, !.rest = ranges]

\* scan_number: where a byte leads from each of its states.
NumberStates == {"minus", "zero", "any1", "decimal1", "decimal2", "exponent", "sign", "any2"}
NumberEnds == {"zero", "any1", "decimal2", "any2"}
IntegerMove(state, c) ==
  CASE state = "minus" /\ c = 48 -> "zero"
    [] state = "minus" /\ c \in Digit \ {48} -> "any1"
    [] state = "any1" /\ c \in Digit -> "any1"
    [] state \in {"zero", "any1"} /\ c = 46 -> "decimal1"
    [] state \in {"zero", "any1"} /\ c \in {69, 101} -> "exponent"
    [] OTHER -> "none"
FractionMove(state, c) ==
  CASE state \in {"decimal1", "decimal2"} /\ c \in Digit -> "decimal2"
    [] state = "decimal2" /\ c \in {69, 101} -> "exponent"
    [] state = "exponent" /\ c \in {43, 45} -> "sign"
    [] state \in {"exponent", "sign", "any2"} /\ c \in Digit -> "any2"
    [] OTHER -> "none"
NumberMove(state, c) ==
  IF state \in {"minus", "zero", "any1"} THEN IntegerMove(state, c) ELSE FractionMove(state, c)

\* strtod, of a number without its sign: is it infinity?  The digits before the
\* exponent are one integer, from which the exponent and the decimals move the
\* point away.
Overflows(number) ==
  LET first(s, chars) == SelectInSeq(s, LAMBDA c : c \in chars)
      decimal(s) == FoldLeft(LAMBDA n, c : IF c \in Digit THEN 10 * n + c - 48 ELSE n, 0, s)
      e == first(number, {69, 101})
      mantissa == IF e = 0 THEN number ELSE SubSeq(number, 1, e - 1)
      exponent == IF e = 0 THEN <<>> ELSE SubSeq(number, e + 1, Len(number))
      point == first(mantissa, {46})
      decimals == IF point = 0 THEN 0 ELSE Len(mantissa) - point
      moved == IF Minus \in Range(exponent) THEN -decimal(exponent) ELSE decimal(exponent)
      size == decimal(mantissa)
  IN IF moved >= decimals
     THEN size > 0 /\ \E k \in 0 .. moved - decimals : size * 10^k >= FloatLimit
     ELSE \A k \in 0 .. decimals - moved : size >= FloatLimit * 10^k

\* strtoull and strtoll; what they cannot hold, and what is no integer, is
\* strtod's.
NumberValue(bytes) ==
  LET negative == Head(bytes) = Minus
      digits == IF negative THEN Tail(bytes) ELSE bytes
      number[i \in 0 .. Len(digits)] ==
        IF i = 0 THEN 0 ELSE 10 * number[i - 1] + digits[i] - 48
      size == number[Len(digits)]
  IN IF \/ \E i \in DOMAIN digits : digits[i] \notin Digit
        \/ negative /\ size > NumberRange
        \/ ~negative /\ size >= 2 * NumberRange
     THEN IF Overflows(digits) THEN Infinite ELSE Float
     ELSE <<"integer", IF negative THEN -size ELSE size>>

\* A token ends here: the parser takes it, and the lexer is between two.
Deliver(r, token, v) ==
  Token([r EXCEPT !.scan = "between", !.rest = <<>>, !.token = <<>>], token, v)

\* scan: skip_whitespace, then the first byte of a token.
Between(r, c) ==
  CASE c \in White -> Await(r, "between", <<>>)
    [] c \in {0, EOF} -> Deliver(r, "end_of_input", Null)
    [] c \in DOMAIN Structure -> Deliver(r, Structure[c], Null)
    [] \E text \in Literals : c = Head(text) ->
         LET text == CHOOSE t \in Literals : c = Head(t)
         IN [Await(r, "literal", Exactly(Tail(text))) EXCEPT !.token = text]
    [] c = Quote -> Await(r, "string", <<>>)
    [] c = Minus -> [r EXCEPT !.scan = "minus", !.token = <<c>>]
    [] c \in Digit -> [r EXCEPT !.scan = NumberMove("minus", c), !.token = <<c>>]
    [] OTHER -> Refuse(r)

\* skip_bom; scan_literal; and the "\u" that must follow a high surrogate.
LiteralValue(text) ==
  CASE text[1] = 116 -> <<"boolean", TRUE>>
    [] text[1] = 102 -> <<"boolean", FALSE>>
    [] OTHER -> Null
Expect(r, c) ==
  IF ~InRange(c, Head(r.rest)) THEN Refuse(r)
  ELSE IF Len(r.rest) > 1 THEN [r EXCEPT !.rest = Tail(@)]
  ELSE CASE r.scan = "bom" -> Await(r, "between", <<>>)
         [] r.scan = "literal" -> Deliver(r, "value", LiteralValue(r.token))
         [] r.scan = "low" -> Await(r, "hex", <<>>)

\* scan_number; the byte after a number is put back and read again (unget).
Number(r, c) ==
  LET next == NumberMove(r.scan, c)
      read == Deliver(r, "value", NumberValue(r.token))
  IN IF next # "none" THEN [r EXCEPT !.scan = next, !.token = Append(@, c)]
     ELSE IF r.scan \notin NumberEnds THEN Refuse(r)
     ELSE IF Final(read) THEN read ELSE Between(read, c)

\* Must be escaped in a string.
Control == 0 .. 31

\* scan_string, a byte that is no part of an escape.
String(r, c) ==
  CASE c = Quote /\ r.rest = <<>> -> Deliver(r, "value", <<"string", r.token>>)
    [] c = Backslash /\ r.rest = <<>> -> Await(r, "escape", <<>>)
    [] c \notin Control \cup {EOF, Quote, Backslash} /\ Accepts(r.rest, c) ->
         [r EXCEPT !.rest = Remaining(@, c), !.token = Append(@, c)]
    [] OTHER -> Refuse(r)

\* What \b, \t, \n, \f, \r, \", \/ and \\ stand for.
Short == [c \in {98, 116, 110, 102, 114, 34, 47, 92} |->
  CASE c = 98 -> 8 [] c = 116 -> 9 [] c = 110 -> 10
    [] c = 102 -> 12 [] c = 114 -> 13 [] OTHER -> c]
Escape(r, c) ==
  CASE c \in DOMAIN Short -> [Await(r, "string", <<>>) EXCEPT !.token = Append(@, Short[c])]
    [] c = 117 -> Await(r, "hex", <<>>)
    [] OTHER -> Refuse(r)

\* The UTF-8 bytes of a code point.
Encode(point) ==
  LET part(unit) == 128 + ((point \div unit) % 64)
  IN IF point < 128 THEN <<point>>
     ELSE IF point < 2048 THEN <<192 + point \div 64, part(1)>>
     ELSE IF point < 65536 THEN <<224 + point \div 4096, part(64), part(1)>>
     ELSE <<240 + point \div 262144, part(4096), part(64), part(1)>>

High == 55296 .. 56319
Low == 56320 .. 57343

\* May a code point stand without a second one?
AloneLow(point) == point \notin High
Alone(point) == point \notin High \cup Low

\* Four hexadecimal digits are read: a character, or half of one.
Character(r, p) == [Await(r, "string", <<>>) EXCEPT !.token = @ \o Encode(p), !.high = 0]
FirstHalf(r, p) == [Await(r, "low", Exactly(<<Backslash, 117>>)) EXCEPT !.high = p]
CodePoint(r, point) ==
  CASE r.high = 0 /\ point \in High -> FirstHalf(r, point)
    [] r.high = 0 /\ Alone(point) -> Character(r, point)
    [] r.high # 0 /\ point \in Low -> Character(r, r.high * 1024 + point - 56613888)
    [] OTHER -> Refuse(r)

\* get_codepoint, a digit at a time: "rest" holds the digits read.
HexValue(c) ==
  CASE c \in Digit -> c - 48
    [] c \in 65 .. 70 -> c - 55
    [] c \in 97 .. 102 -> c - 87
    [] OTHER -> -1
Shifted(digits) == 4096 * digits[1] + 256 * digits[2] + 16 * digits[3] + digits[4]
Hex(r, c) ==
  LET digits == Append(r.rest, HexValue(c))
  IN IF HexValue(c) = -1 THEN Refuse(r)
     ELSE IF Len(digits) < 4 THEN [r EXCEPT !.rest = digits]
     ELSE CodePoint(r, Shifted(digits))

\* json::parse, one byte (or the end) of its input.
Feed(r, c) ==
  IF Final(r) THEN r
  ELSE CASE r.scan = "start" ->
              IF c = 239 THEN Await(r, "bom", Exactly(<<187, 191>>)) ELSE Between(r, c)
         [] r.scan = "between" -> Between(r, c)
         [] r.scan \in {"bom", "literal", "low"} -> Expect(r, c)
         [] r.scan \in NumberStates -> Number(r, c)
         [] r.scan = "string" -> String(r, c)
         [] r.scan = "escape" -> Escape(r, c)
         [] r.scan = "hex" -> Hex(r, c)

Read(r, bytes) == FoldLeft(Feed, r, bytes)

\* Were the input to end here, would parse return the root?
Complete(r) == Feed(r, EOF).wants = "done"
Result(r) == Feed(r, EOF).root
=============================================================================
