----------------------------- MODULE JsonProofs -----------------------------
(***************************************************************************)
(* json::parse(data_) reads an array that holds a request, a terminator,   *)
(* and what an earlier and longer request left.  Whatever the request is,  *)
(* the reading ends at the terminator, and the strings in it are ones that *)
(* dump() writes.  And a request that is cut is none: brackets are closed, *)
(* and nothing follows a value.                                            *)
(***************************************************************************)
EXTENDS JsonStream, Utf8Proofs, SequenceTheorems

Scans == {"start", "between", "bom", "literal", "low", "string", "escape", "hex"}
         \cup NumberStates

\* The ranges of bytes that the reader waits for never hold a terminator.
Waits(rest) == rest \in Seq((Nat \ {0}) \X Nat) /\ rest # <<>>

\* What of a reader matters here.
IsReader(r) ==
  /\ {"scan", "rest", "token", "high", "wants", "stack", "root"} \subseteq DOMAIN r
  /\ r.scan \in Scans
  /\ r.scan \in {"bom", "literal", "low"} => Waits(r.rest)

LEMMA RefuseFinal == \A r : IsReader(r) => Final(Refuse(r))
BY DEF IsReader, Refuse, Final

LEMMA EndFinal == \A r : IsReader(r) => Final(Token(r, "end_of_input", Null))
<1> TAKE r
<1> HAVE IsReader(r)
<1>1. Token(r, "end_of_input", Null) =
        IF Ended(r) THEN [r EXCEPT !.wants = "done"] ELSE Refuse(r)
  BY DEF Token
<1>2. Final([r EXCEPT !.wants = "done"])
  BY DEF IsReader, Final
<1> QED BY <1>1, <1>2, RefuseFinal

LEMMA Delivering ==
  ASSUME NEW r, IsReader(r)
  PROVE  IsReader([r EXCEPT !.scan = "between", !.rest = <<>>, !.token = <<>>])
BY DEF IsReader, Scans

LEMMA DeliverFinal == \A r : IsReader(r) => Final(Deliver(r, "end_of_input", Null))
BY Delivering, EndFinal DEF Deliver

LEMMA BetweenFinal == \A r : IsReader(r) => Final(Between(r, 0))
<1> TAKE r
<1> HAVE IsReader(r)
<1>1. 0 \notin DOMAIN Structure
  <2>1. DOMAIN Structure = {44, 58, 91, 93, 123, 125}
    BY Zenon DEF Structure
  <2> QED BY <2>1
<1>2. \A word \in Literals : Head(word) # 0
  BY DEF Literals
<1>3. 0 \notin White /\ 0 \notin Digit /\ 0 # Quote /\ 0 # Minus
  BY DEF White, Digit, Quote, Minus
<1>4. Between(r, 0) = Deliver(r, "end_of_input", Null)
  BY <1>1, <1>2, <1>3 DEF Between
<1> QED BY <1>4, DeliverFinal

\* The parser has no part in what the lexer waits for.
SameScan(r, s) ==
  /\ {"scan", "rest", "token", "high", "wants", "stack", "root"} \subseteq DOMAIN s
  /\ s.scan = r.scan /\ s.rest = r.rest /\ s.token = r.token /\ s.high = r.high
LEMMA TokenSameScan ==
  ASSUME NEW r, IsReader(r), NEW token, NEW v
  PROVE  SameScan(r, Token(r, token, v))
<1>1. \A s, x, y : SameScan(r, s) => SameScan(r, [s EXCEPT !.root = x, !.wants = y])
  BY DEF SameScan
<1>2. \A s, x, y : SameScan(r, s) => SameScan(r, [s EXCEPT !.stack = x, !.wants = y])
  BY DEF SameScan
<1>3. \A x, y, z : SameScan(r, [r EXCEPT !.stack[z].key = x, !.wants = y])
  BY DEF SameScan, IsReader
<1>4. SameScan(r, r) /\ \A x : SameScan(r, [r EXCEPT !.stack = x])
  BY DEF SameScan, IsReader
<1>5. \A x : SameScan(r, [r EXCEPT !.wants = x])
  BY DEF SameScan, IsReader
<1>6. \A s, x : SameScan(r, s) => SameScan(r, HandleValue(s, x))
  BY <1>1, <1>2 DEF HandleValue
<1>7. SameScan(r, Close(r))
  BY <1>4, <1>6 DEF Close
<1>8. \A x : SameScan(r, Open(r, x))
  BY <1>2, <1>4 DEF Open
<1> QED BY <1>3, <1>4, <1>5, <1>6, <1>7, <1>8 DEF Token, Refuse

LEMMA DeliveredIsReader ==
  ASSUME NEW r, IsReader(r), NEW token, NEW v
  PROVE  IsReader(Deliver(r, token, v))
<1> DEFINE s == [r EXCEPT !.scan = "between", !.rest = <<>>, !.token = <<>>]
<1>1. IsReader(s) /\ s.scan = "between"
  BY Delivering DEF IsReader
<1> HIDE DEF s
<1>2. SameScan(s, Token(s, token, v))
  BY <1>1, TokenSameScan
<1>3. IsReader(Token(s, token, v))
  BY <1>1, <1>2 DEF IsReader, SameScan
<1> QED BY <1>3 DEF Deliver, s

\* Within a number the terminator is put back and read again.
LEMMA NumberFinal == \A r : IsReader(r) => Final(Number(r, 0))
<1> TAKE r
<1> HAVE IsReader(r)
<1> DEFINE read == Deliver(r, "value", NumberValue(r.token))
<1>1. NumberMove(r.scan, 0) = "none"
  BY DEF NumberMove, IntegerMove, FractionMove, Digit
<1>2. CASE r.scan \notin NumberEnds
  BY <1>1, <1>2, RefuseFinal DEF Number
<1>3. CASE r.scan \in NumberEnds /\ Final(read)
  BY <1>1, <1>3 DEF Number
<1>4. CASE r.scan \in NumberEnds /\ ~Final(read)
  <2>1. Number(r, 0) = Between(read, 0)
    BY <1>1, <1>4 DEF Number
  <2>2. IsReader(read)
    BY <1>4, DeliveredIsReader
  <2> QED BY <2>1, <2>2, BetweenFinal
<1> QED BY <1>2, <1>3, <1>4

\* Whatever the reader is in the middle of, a terminator ends it: it is done or
\* it refuses, and then no byte changes it (session.cpp:25-28).
THEOREM NulEnds ==
  ASSUME NEW r, IsReader(r), NEW c
  PROVE  /\ Final(Feed(r, 0))
         /\ Feed(Feed(r, 0), c) = Feed(r, 0)
<1>1. Final(Feed(r, 0))
  <2>1. CASE Final(r)
    BY <2>1 DEF Feed
  <2>2. CASE ~Final(r) /\ r.scan = "start"
    BY <2>2, BetweenFinal DEF Feed, NumberStates
  <2>3. CASE ~Final(r) /\ r.scan = "between"
    BY <2>3, BetweenFinal DEF Feed, NumberStates
  <2>4. CASE ~Final(r) /\ r.scan \in {"bom", "literal", "low"}
    <3>1. Feed(r, 0) = Expect(r, 0)
      BY <2>4 DEF Feed, NumberStates
    <3>2. ~InRange(0, Head(r.rest))
      BY <2>4 DEF IsReader, Waits, InRange
    <3> QED BY <3>1, <3>2, RefuseFinal DEF Expect
  <2>5. CASE ~Final(r) /\ r.scan \in NumberStates
    BY <2>5, NumberFinal DEF Feed, NumberStates
  <2>6. CASE ~Final(r) /\ r.scan = "string"
    <3>1. Feed(r, 0) = String(r, 0)
      BY <2>6 DEF Feed, NumberStates
    <3>2. String(r, 0) = Refuse(r)
      BY DEF String, Quote, Backslash, Control
    <3> QED BY <3>1, <3>2, RefuseFinal
  <2>7. CASE ~Final(r) /\ r.scan = "escape"
    <3>1. Feed(r, 0) = Escape(r, 0)
      BY <2>7 DEF Feed, NumberStates
    <3>2. DOMAIN Short = {98, 116, 110, 102, 114, 34, 47, 92}
      BY Zenon DEF Short
    <3>3. Escape(r, 0) = Refuse(r)
      BY <3>2 DEF Escape
    <3> QED BY <3>1, <3>3, RefuseFinal
  <2>8. CASE ~Final(r) /\ r.scan = "hex"
    <3>1. HexValue(0) = -1
      BY DEF HexValue, Digit
    <3>2. Feed(r, 0) = Hex(r, 0)
      BY <2>8 DEF Feed, NumberStates
    <3> QED BY <3>1, <3>2, RefuseFinal DEF Hex
  <2> QED BY <2>1, <2>2, <2>3, <2>4, <2>5, <2>6, <2>7, <2>8 DEF IsReader, Scans
<1> QED BY <1>1 DEF Feed

-----------------------------------------------------------------------------
(* Every reader that reads from the start is one *)

LEMMA AwaitIsReader ==
  ASSUME NEW r, IsReader(r), NEW scan \in Scans, NEW rest,
         scan \in {"bom", "literal", "low"} => Waits(rest)
  PROVE  IsReader(Await(r, scan, rest))
BY DEF IsReader, Await

LEMMA OtherFields ==
  \A s, x, y : IsReader(s) =>
    /\ IsReader([s EXCEPT !.token = x])
    /\ IsReader([s EXCEPT !.high = y])
    /\ IsReader([s EXCEPT !.token = x, !.high = y])
BY DEF IsReader

LEMMA BytesWait ==
  \A bytes \in Seq(Nat \ {0}) : bytes # <<>> => Waits(Exactly(bytes))
BY DEF Waits, Exactly

LEMMA TwoBytesWait ==
  ASSUME NEW a \in Nat \ {0}, NEW b \in Nat \ {0}
  PROVE  Waits(Exactly(<<a, b>>))
<1>1. <<a, b>> \in Seq(Nat \ {0}) /\ Len(<<a, b>>) = 2
  OBVIOUS
<1>2. <<a, b>> # <<>>
  BY <1>1
<1> QED BY <1>1, <1>2, BytesWait

\* A literal is three letters or more: its rest is waited for.
LEMMA LiteralsWait ==
  \A literal \in Literals : Waits(Exactly(Tail(literal)))
<1> TAKE literal \in Literals
<1>1. literal \in Seq(Nat \ {0}) /\ Len(literal) \in {4, 5}
  <2>1. /\ <<116, 114, 117, 101>> \in Seq(Nat \ {0})
        /\ Len(<<116, 114, 117, 101>>) = 4
    OBVIOUS
  <2>2. /\ <<102, 97, 108, 115, 101>> \in Seq(Nat \ {0})
        /\ Len(<<102, 97, 108, 115, 101>>) = 5
    OBVIOUS
  <2>3. /\ <<110, 117, 108, 108>> \in Seq(Nat \ {0})
        /\ Len(<<110, 117, 108, 108>>) = 4
    OBVIOUS
  <2> QED BY <2>1, <2>2, <2>3, ZenonT(60) DEF Literals
<1>2. Tail(literal) \in Seq(Nat \ {0}) /\ Len(Tail(literal)) = Len(literal) - 1
  BY <1>1
<1>3. Tail(literal) # <<>>
  BY <1>1, <1>2, SMTT(30)
<1> QED BY <1>2, <1>3, BytesWait

LEMMA BetweenIsReader ==
  ASSUME NEW r, IsReader(r), NEW c \in Byte
  PROVE  IsReader(Between(r, c))
<1>1. IsReader(Await(r, "between", <<>>)) /\ IsReader(Await(r, "string", <<>>))
  BY AwaitIsReader DEF Scans
<1>2. \A token : IsReader(Deliver(r, token, Null))
  BY DeliveredIsReader
<1>3. ASSUME NEW literal \in Literals
      PROVE  IsReader([Await(r, "literal", Exactly(Tail(literal))) EXCEPT !.token = literal])
  <2>1. IsReader(Await(r, "literal", Exactly(Tail(literal))))
    BY LiteralsWait, AwaitIsReader DEF Scans
  <2> QED BY <2>1, OtherFields
<1>4. IsReader(Refuse(r))
  BY DEF IsReader, Refuse
<1>5. \A x : IsReader([r EXCEPT !.scan = "minus", !.token = x])
  BY DEF IsReader, Scans, NumberStates
<1>6. \A x : c \in Digit => IsReader([r EXCEPT !.scan = NumberMove("minus", c), !.token = x])
  BY DEF IsReader, Scans, NumberStates, NumberMove, IntegerMove, FractionMove, Digit
<1> QED
  BY <1>1, <1>2, <1>3, <1>4, <1>5, <1>6 DEF Between

LEMMA TailWaits ==
  ASSUME NEW rest, Waits(rest), Len(rest) > 1
  PROVE  Waits(Tail(rest))
<1> DEFINE Ranges == (Nat \ {0}) \X Nat
<1>1. rest \in Seq(Ranges)
  BY DEF Waits
<1> HIDE DEF Ranges
<1>2. Tail(rest) \in Seq(Ranges) /\ Len(Tail(rest)) = Len(rest) - 1 /\ Len(rest) \in Nat
  BY <1>1
<1>3. Len(Tail(rest)) # 0
  BY <1>2
<1>4. Tail(rest) # <<>>
  <2>1. <<>> \in Seq(Ranges) /\ Len(<<>>) = 0
    OBVIOUS
  <2> QED BY <1>3, <2>1, Zenon
<1> QED BY <1>2, <1>4 DEF Waits, Ranges

LEMMA ExpectIsReader ==
  ASSUME NEW r, IsReader(r), NEW c \in Byte, r.scan \in {"bom", "literal", "low"}
  PROVE  IsReader(Expect(r, c))
<1>1. IsReader(Refuse(r))
  BY DEF IsReader, Refuse
<1>2. CASE Len(r.rest) > 1
  <2>1. Waits(Tail(r.rest))
    BY <1>2, TailWaits DEF IsReader
  <2>2. IsReader([r EXCEPT !.rest = Tail(@)])
    BY <2>1 DEF IsReader
  <2> QED BY <1>1, <1>2, <2>2 DEF Expect
<1>3. CASE ~(Len(r.rest) > 1)
  <2>1. IsReader(Await(r, "between", <<>>)) /\ IsReader(Await(r, "hex", <<>>))
    BY AwaitIsReader DEF Scans
  <2>2. IsReader(Deliver(r, "value", LiteralValue(r.token)))
    BY DeliveredIsReader
  <2> QED BY <1>1, <1>3, <2>1, <2>2 DEF Expect
<1> QED BY <1>2, <1>3

LEMMA NumberIsReader ==
  ASSUME NEW r, IsReader(r), NEW c \in Byte, r.scan \in NumberStates
  PROVE  IsReader(Number(r, c))
<1> DEFINE next == NumberMove(r.scan, c)
           read == Deliver(r, "value", NumberValue(r.token))
<1>1. next \in NumberStates \cup {"none"}
  BY DEF NumberMove, IntegerMove, FractionMove, NumberStates
<1>2. CASE next # "none"
  <2>1. IsReader([r EXCEPT !.scan = next, !.token = Append(@, c)])
    BY <1>1, <1>2 DEF IsReader, Scans, NumberStates
  <2> QED BY <1>2, <2>1 DEF Number
<1>3. CASE next = "none"
  <2>1. IsReader(Refuse(r))
    BY DEF IsReader, Refuse
  <2>2. IsReader(read)
    BY DeliveredIsReader
  <2>3. IsReader(Between(read, c))
    BY <2>2, BetweenIsReader
  <2> QED BY <1>3, <2>1, <2>2, <2>3 DEF Number
<1> QED BY <1>2, <1>3

LEMMA StringIsReader ==
  ASSUME NEW r, IsReader(r), NEW c \in Byte, r.scan = "string"
  PROVE  IsReader(String(r, c))
<1>1. IsReader(Refuse(r))
  BY DEF IsReader, Refuse
<1>2. IsReader(Await(r, "escape", <<>>))
  BY AwaitIsReader DEF Scans
<1>3. IsReader(Deliver(r, "value", <<"string", r.token>>))
  BY DeliveredIsReader
<1>4. \A x, y : IsReader([r EXCEPT !.rest = x, !.token = y])
  BY DEF IsReader
<1> QED BY <1>1, <1>2, <1>3, <1>4 DEF String

LEMMA EscapeIsReader ==
  ASSUME NEW r, IsReader(r), NEW c \in Byte
  PROVE  IsReader(Escape(r, c))
<1>1. IsReader(Refuse(r))
  BY DEF IsReader, Refuse
<1>2. IsReader(Await(r, "hex", <<>>))
  BY AwaitIsReader DEF Scans
<1>3. IsReader([Await(r, "string", <<>>) EXCEPT !.token = Append(@, Short[c])])
  <2>1. IsReader(Await(r, "string", <<>>))
    BY AwaitIsReader DEF Scans
  <2> QED BY <2>1, OtherFields
<1> QED BY <1>1, <1>2, <1>3 DEF Escape

LEMMA HexIsReader ==
  ASSUME NEW r, IsReader(r), NEW c \in Byte, r.scan = "hex"
  PROVE  IsReader(Hex(r, c))
<1>1. IsReader(Refuse(r))
  BY DEF IsReader, Refuse
<1>2. \A x : IsReader([r EXCEPT !.rest = x])
  BY DEF IsReader
<1>3. \A p : IsReader(FirstHalf(r, p))
  <2> DEFINE low == Await(r, "low", Exactly(<<Backslash, 117>>))
  <2>1. Waits(Exactly(<<Backslash, 117>>))
    BY TwoBytesWait DEF Backslash
  <2>2. IsReader(low)
    BY <2>1, AwaitIsReader DEF Scans
  <2> HIDE DEF low
  <2>3. \A p : IsReader([low EXCEPT !.high = p])
    BY <2>2, OtherFields
  <2> QED BY <2>3 DEF FirstHalf, low
<1>4. \A p : IsReader(Character(r, p))
  <2> DEFINE plain == Await(r, "string", <<>>)
  <2>1. IsReader(plain)
    BY AwaitIsReader DEF Scans
  <2> HIDE DEF plain
  <2>2. \A p : IsReader([plain EXCEPT !.token = plain.token \o Encode(p), !.high = 0])
    BY <2>1, OtherFields
  <2> QED BY <2>2 DEF Character, plain
<1>5. \A point : IsReader(CodePoint(r, point))
  BY <1>1, <1>3, <1>4 DEF CodePoint
<1> QED BY <1>1, <1>2, <1>5 DEF Hex

LEMMA FeedIsReader ==
  ASSUME NEW r, IsReader(r), NEW c \in Byte
  PROVE  IsReader(Feed(r, c))
<1>1. CASE Final(r)
  BY <1>1 DEF Feed
<1>2. CASE ~Final(r) /\ r.scan = "start"
  <2>1. Waits(Exactly(<<187, 191>>))
    BY TwoBytesWait
  <2>2. IsReader(Await(r, "bom", Exactly(<<187, 191>>)))
    BY <2>1, AwaitIsReader DEF Scans
  <2>3. IsReader(Between(r, c))
    BY BetweenIsReader
  <2> QED BY <1>2, <2>2, <2>3 DEF Feed, NumberStates
<1>3. CASE ~Final(r) /\ r.scan = "between"
  BY <1>3, BetweenIsReader DEF Feed, NumberStates
<1>4. CASE ~Final(r) /\ r.scan \in {"bom", "literal", "low"}
  BY <1>4, ExpectIsReader DEF Feed, NumberStates
<1>5. CASE ~Final(r) /\ r.scan \in NumberStates
  BY <1>5, NumberIsReader DEF Feed, NumberStates
<1>6. CASE ~Final(r) /\ r.scan = "string"
  BY <1>6, StringIsReader DEF Feed, NumberStates
<1>7. CASE ~Final(r) /\ r.scan = "escape"
  BY <1>7, EscapeIsReader DEF Feed, NumberStates
<1>8. CASE ~Final(r) /\ r.scan = "hex"
  BY <1>8, HexIsReader DEF Feed, NumberStates
<1> QED BY <1>1, <1>2, <1>3, <1>4, <1>5, <1>6, <1>7, <1>8 DEF IsReader, Scans
-----------------------------------------------------------------------------
\* The inductive invariant: a reader that has met a terminator is done.
EndedByNul ==
  /\ text \in Seq(Byte)
  /\ IsReader(reader)
  /\ 0 \in Range(text) => Final(reader)

LEMMA RangeAppend ==
  ASSUME NEW s \in Seq(Byte), NEW c \in Byte
  PROVE  Range(Append(s, c)) = Range(s) \cup {c}
<1>1. DOMAIN Append(s, c) = DOMAIN s \cup {Len(s) + 1}
  OBVIOUS
<1>2. /\ Append(s, c)[Len(s) + 1] = c
      /\ \A i \in DOMAIN s : Append(s, c)[i] = s[i]
  OBVIOUS
<1> HIDE DEF Range
<1>3. \A x : x \in Range(Append(s, c)) <=> x \in Range(s) \cup {c}
  BY <1>1, <1>2, Zenon DEF Range
<1> QED BY <1>3

LEMMA StreamInvariant == Stream => []EndedByNul
<1>1. StreamInit => EndedByNul
  BY DEF StreamInit, EndedByNul, IsReader, StartReader, Scans, Range
<1>2. EndedByNul /\ [\E c \in Byte : Arrive(c)]_<<text, reader>> => EndedByNul'
  <2> SUFFICES ASSUME EndedByNul, [\E c \in Byte : Arrive(c)]_<<text, reader>>
               PROVE  EndedByNul'
    OBVIOUS
  <2>1. CASE UNCHANGED <<text, reader>>
    BY <2>1 DEF EndedByNul
  <2>2. ASSUME NEW c \in Byte, Arrive(c)
        PROVE  EndedByNul'
    <3>1. text' \in Seq(Byte) /\ Range(text') = Range(text) \cup {c}
      BY <2>2, RangeAppend DEF EndedByNul, Arrive
    <3>2. IsReader(reader')
      BY <2>2, FeedIsReader DEF EndedByNul, Arrive
    <3>3. 0 \in Range(text') => Final(reader')
      <4>1. CASE c = 0
        BY <2>2, <4>1, NulEnds DEF EndedByNul, Arrive
      <4>2. CASE 0 \in Range(text)
        BY <2>2, <4>2 DEF EndedByNul, Arrive, Feed
      <4> QED BY <3>1, <4>1, <4>2
    <3> QED BY <3>1, <3>2, <3>3 DEF EndedByNul
  <2> QED BY <2>1, <2>2
<1> QED BY <1>1, <1>2, PTL DEF Stream

\* Whatever a request is and whatever an earlier one left behind it: after the
\* terminator nothing changes the verdict or the value (session.cpp:25-28).
THEOREM StreamLeftoversUnread == Stream => LeftoversUnread
<1>1. EndedByNul /\ [\E c \in Byte : Arrive(c)]_<<text, reader>>
        => [0 \in Range(text) =>
              /\ Complete(reader') = Complete(reader)
              /\ Result(reader') = Result(reader)]_<<text, reader>>
  BY DEF EndedByNul, Arrive, Feed
<1> QED BY <1>1, StreamInvariant, PTL DEF Stream, LeftoversUnread
-----------------------------------------------------------------------------
(* The strings of a text *)

LEMMA OneMore ==
  ASSUME NEW s \in Seq(Byte), NEW a \in Byte
  PROVE  s \o <<a>> = Append(s, a)
OBVIOUS

LEMMA TwoMore ==
  ASSUME NEW s \in Seq(Byte), NEW a \in Byte, NEW b \in Byte
  PROVE  s \o <<a, b>> = Append(Append(s, a), b)
OBVIOUS

LEMMA ThreeMore ==
  ASSUME NEW s \in Seq(Byte), NEW a \in Byte, NEW b \in Byte, NEW c \in Byte
  PROVE  s \o <<a, b, c>> = Append(Append(Append(s, a), b), c)
OBVIOUS

LEMMA FourMore ==
  ASSUME NEW s \in Seq(Byte), NEW a \in Byte, NEW b \in Byte, NEW c \in Byte, NEW d \in Byte
  PROVE  s \o <<a, b, c, d>> = Append(Append(Append(Append(s, a), b), c), d)
OBVIOUS

\* The code points that are no half of a pair.
Scalar == {point \in Nat : point < 55296 \/ (57344 <= point /\ point < 1114112)}

\* The bytes of one are a character.
LEMMA EncodedCharacter ==
  ASSUME NEW s \in Seq(Byte), RunsTo(s, UTF8_ACCEPT), NEW point \in Scalar
  PROVE  s \o Encode(point) \in Seq(Byte) /\ RunsTo(s \o Encode(point), UTF8_ACCEPT)
<1> DEFINE low == 128 + ((point \div 1) % 64)
           middle == 128 + ((point \div 64) % 64)
           upper == 128 + ((point \div 4096) % 64)
           two == 192 + point \div 64
           three == 224 + point \div 4096
           four == 240 + point \div 262144
<1>1. point \in Nat /\ point < 1114112
  BY SMT DEF Scalar
<1>2. Encode(point) = IF point < 128 THEN <<point>>
                      ELSE IF point < 2048 THEN <<two, low>>
                      ELSE IF point < 65536 THEN <<three, middle, low>>
                      ELSE <<four, upper, middle, low>>
  BY DEF Encode
<1>3. low \in 128 .. 191 /\ middle \in 128 .. 191 /\ upper \in 128 .. 191
  BY <1>1
<1>4. ~(point < 128) /\ point < 2048 => two \in 194 .. 223
  BY <1>1
<1>5. ~(point < 2048) /\ point < 65536 =>
        three \in 224 .. 239 /\ (three = 224 => middle >= 160)
  BY <1>1, SMTT(30)
<1>6. ~(point < 2048) /\ point < 65536 /\ three = 237 => middle < 160
  <2>1. point < 55296 \/ 57344 <= point
    BY SMT DEF Scalar
  <2> QED BY <1>1, <2>1, SMTT(30)
<1>7. ~(point < 65536) =>
        four \in 240 .. 244 /\ (four = 240 => upper >= 144) /\ (four = 244 => upper < 144)
  BY <1>1, SMTT(30)
<1> HIDE DEF low, middle, upper, two, three, four
<1>8. RunsTo(s, 0) /\ UTF8_ACCEPT = 0
  BY DEF UTF8_ACCEPT
<1>9. CASE point < 128
  <2>1. Encode(point) = <<point>> /\ point \in 0 .. 127
    BY <1>1, <1>2, <1>9
  <2>2. s \o Encode(point) = Append(s, point)
    BY <2>1, OneMore DEF Byte
  <2> QED BY <1>8, <2>1, <2>2, OneByte
<1>10. CASE ~(point < 128) /\ point < 2048
  <2>1. Encode(point) = <<two, low>>
    BY <1>2, <1>10
  <2>2. two \in 194 .. 223 /\ low \in 128 .. 191
    BY <1>3, <1>4, <1>10
  <2>3. two \in Byte /\ low \in Byte
    BY <2>2 DEF Byte
  <2>4. s \o Encode(point) = Append(Append(s, two), low)
    BY <2>1, <2>3, TwoMore
  <2>5. /\ Append(Append(s, two), low) \in Seq(Byte)
        /\ RunsTo(Append(Append(s, two), low), 0)
    BY <1>8, <2>2, TwoBytes
  <2> QED BY <1>8, <2>4, <2>5
<1>11. CASE ~(point < 2048) /\ point < 65536
  <2>1. Encode(point) = <<three, middle, low>>
    BY <1>1, <1>2, <1>11
  <2>2. /\ three \in 224 .. 239 /\ middle \in 128 .. 191 /\ low \in 128 .. 191
        /\ three = 224 => middle >= 160
        /\ three = 237 => middle < 160
    BY <1>3, <1>5, <1>6, <1>11
  <2>3. three \in Byte /\ middle \in Byte /\ low \in Byte
    BY <2>2 DEF Byte
  <2>4. s \o Encode(point) = Append(Append(Append(s, three), middle), low)
    BY <2>1, <2>3, ThreeMore, SMTT(60)
  <2>5. /\ Append(Append(Append(s, three), middle), low) \in Seq(Byte)
        /\ RunsTo(Append(Append(Append(s, three), middle), low), 0)
    BY <1>8, <2>2, ThreeBytes, ZenonT(60)
  <2> QED BY <1>8, <2>4, <2>5
<1>12. CASE ~(point < 65536)
  <2>1. Encode(point) = <<four, upper, middle, low>>
    BY <1>1, <1>2, <1>12, SMT
  <2>2. /\ four \in 240 .. 244 /\ upper \in 128 .. 191
        /\ middle \in 128 .. 191 /\ low \in 128 .. 191
        /\ four = 240 => upper >= 144
        /\ four = 244 => upper < 144
    BY <1>3, <1>7, <1>12
  <2>3. four \in Byte /\ upper \in Byte /\ middle \in Byte /\ low \in Byte
    BY <2>2 DEF Byte
  <2>4. s \o Encode(point) = Append(Append(Append(Append(s, four), upper), middle), low)
    BY <2>1, <2>3, FourMore, SMTT(60)
  <2>5. /\ Append(Append(Append(Append(s, four), upper), middle), low) \in Seq(Byte)
        /\ RunsTo(Append(Append(Append(Append(s, four), upper), middle), low), 0)
    BY <1>8, <2>2, FourBytes, ZenonT(60)
  <2> QED BY <1>8, <2>4, <2>5
<1> QED BY <1>1, <1>9, <1>10, <1>11, <1>12, SMT
-----------------------------------------------------------------------------
(* What the reader has of a string is one the writer is in the middle of *)

\* The value of one hexadecimal digit.
Nibble == 0 .. 15

\* In a string the automaton would be where the reader is, in an escape between
\* two characters; between tokens nothing is left of the last one, and a first
\* half of a pair is kept only until the second is read.
Writable(r) ==
  r.wants # "refused" =>
    /\ r.scan \in {"start", "between", "bom"} => r.token = <<>>
    /\ r.scan \notin {"low", "hex"} => r.high = 0
    /\ r.scan = "string" =>
         r.token \in Seq(Byte) /\ \E q \in Live : RunsTo(r.token, q) /\ r.rest = Expected(q)
    /\ r.scan \in {"escape", "low", "hex"} =>
         r.token \in Seq(Byte) /\ RunsTo(r.token, UTF8_ACCEPT)
    /\ r.scan = "low" => r.high \in High
    /\ r.scan = "hex" =>
         r.high \in {0} \cup High /\ r.rest \in Seq(Nibble) /\ Len(r.rest) < 4

LEMMA RefusedWritable == \A r : IsReader(r) => Writable(Refuse(r))
BY DEF IsReader, Refuse, Writable

\* The start of a string, with nothing or with whole characters before.
LEMMA CharacterNext ==
  ASSUME NEW r, IsReader(r), r.scan = "string", r.rest = <<>>, r.high = 0,
         r.token \in Seq(Byte), RunsTo(r.token, UTF8_ACCEPT)
  PROVE  Writable(r)
<1>1. UTF8_ACCEPT \in Live /\ Expected(UTF8_ACCEPT) = <<>>
  BY DEF Live, DecodeState, UTF8_ACCEPT, UTF8_REJECT, Expected
<1> QED BY <1>1 DEF Writable

\* A delivered token leaves nothing behind.
LEMMA DeliveredWritable ==
  ASSUME NEW r, IsReader(r), r.high = 0, NEW token, NEW v
  PROVE  /\ Deliver(r, token, v).token = <<>> /\ Deliver(r, token, v).high = 0
         /\ Writable(Deliver(r, token, v))
<1> DEFINE s == [r EXCEPT !.scan = "between", !.rest = <<>>, !.token = <<>>]
<1>1. IsReader(s) /\ s.scan = "between" /\ s.token = <<>> /\ s.high = 0
  BY Delivering DEF IsReader
<1> HIDE DEF s
<1>2. SameScan(s, Token(s, token, v))
  BY <1>1, TokenSameScan
<1>3. Deliver(r, token, v) = Token(s, token, v)
  BY DEF Deliver, s
<1> QED BY <1>1, <1>2, <1>3 DEF SameScan, Writable

LEMMA AwaitFields ==
  ASSUME NEW r, IsReader(r), NEW scan, NEW rest
  PROVE  LET s == Await(r, scan, rest)
         IN s.scan = scan /\ s.rest = rest /\ s.token = r.token /\ s.high = r.high
BY DEF IsReader, Await

\* Digits are read after whole characters.
LEMMA DigitsNext ==
  ASSUME NEW r, IsReader(r), r.high \in {0} \cup High,
         r.token \in Seq(Byte), RunsTo(r.token, UTF8_ACCEPT)
  PROVE  Writable(Await(r, "hex", <<>>))
<1>1. <<>> \in Seq(Nibble) /\ Len(<<>>) < 4
  OBVIOUS
<1> DEFINE s == Await(r, "hex", <<>>)
<1>2. s.scan = "hex" /\ s.rest = <<>> /\ s.token = r.token /\ s.high = r.high
  BY AwaitFields
<1> HIDE DEF s
<1>3. Writable(s)
  BY <1>1, <1>2 DEF Writable
<1> QED BY <1>3 DEF s

LEMMA BetweenWritable ==
  ASSUME NEW r, IsReader(r), r.token = <<>>, r.high = 0, NEW c \in Byte
  PROVE  Writable(Between(r, c))
<1>1. Writable(Await(r, "between", <<>>))
  BY AwaitFields DEF Writable
<1>2. \A token : Writable(Deliver(r, token, Null))
  BY DeliveredWritable
<1>3. Writable(Await(r, "string", <<>>))
  <2> DEFINE s == Await(r, "string", <<>>)
  <2>1. IsReader(s)
    BY AwaitIsReader DEF Scans
  <2>2. s.scan = "string" /\ s.rest = <<>> /\ s.token = <<>> /\ s.high = 0
    BY AwaitFields
  <2>3. <<>> \in Seq(Byte)
    OBVIOUS
  <2> HIDE DEF s
  <2>4. Writable(s)
    BY <2>1, <2>2, <2>3, CharacterNext, RunEmpty
  <2> QED BY <2>4 DEF s
<1>4. \A rest, x : Writable([Await(r, "literal", rest) EXCEPT !.token = x])
  BY DEF IsReader, Await, Writable
<1>5. \A x : Writable([r EXCEPT !.scan = "minus", !.token = x])
  BY DEF IsReader, Writable
<1>6. \A x : c \in Digit => Writable([r EXCEPT !.scan = NumberMove("minus", c), !.token = x])
  <2>1. c \in Digit => NumberMove("minus", c) \in {"zero", "any1"}
    BY DEF NumberMove, IntegerMove, Digit
  <2> QED BY <2>1 DEF IsReader, Writable
<1>7. Writable(Refuse(r))
  BY RefusedWritable
<1> QED BY <1>1, <1>2, <1>3, <1>4, <1>5, <1>6, <1>7 DEF Between

LEMMA ExpectWritable ==
  ASSUME NEW r, IsReader(r), Writable(r), ~Final(r), NEW c \in Byte,
         r.scan \in {"bom", "literal", "low"}
  PROVE  Writable(Expect(r, c))
<1>1. Writable(Refuse(r))
  BY RefusedWritable
<1>2. Writable([r EXCEPT !.rest = Tail(@)])
  BY DEF IsReader, Writable, Final
<1>3. r.scan = "bom" => Writable(Await(r, "between", <<>>))
  BY AwaitFields DEF Writable, Final
<1>4. r.scan = "literal" => Writable(Deliver(r, "value", LiteralValue(r.token)))
  BY DeliveredWritable DEF Writable, Final
<1>5. r.scan = "low" => Writable(Await(r, "hex", <<>>))
  BY DigitsNext DEF Writable, Final
<1> QED BY <1>1, <1>2, <1>3, <1>4, <1>5 DEF Expect

LEMMA NumberWritable ==
  ASSUME NEW r, IsReader(r), Writable(r), ~Final(r), NEW c \in Byte, r.scan \in NumberStates
  PROVE  Writable(Number(r, c))
<1> DEFINE next == NumberMove(r.scan, c)
           read == Deliver(r, "value", NumberValue(r.token))
<1>1. r.high = 0
  BY DEF Writable, Final, NumberStates
<1>2. CASE next # "none"
  <2>1. next \in NumberStates \cup {"none"}
    BY DEF NumberMove, IntegerMove, FractionMove, NumberStates
  <2>2. Writable([r EXCEPT !.scan = next, !.token = Append(@, c)])
    BY <1>1, <1>2, <2>1 DEF IsReader, Writable, NumberStates
  <2> QED BY <1>2, <2>2 DEF Number
<1>3. CASE next = "none"
  <2>1. IsReader(read)
    BY DeliveredIsReader
  <2>2. read.token = <<>> /\ read.high = 0 /\ Writable(read)
    BY <1>1, DeliveredWritable
  <2>3. Writable(Between(read, c))
    BY <2>1, <2>2, BetweenWritable
  <2>4. Writable(Refuse(r))
    BY RefusedWritable
  <2> QED BY <1>3, <2>2, <2>3, <2>4 DEF Number
<1> QED BY <1>2, <1>3

LEMMA StringWritable ==
  ASSUME NEW r, IsReader(r), Writable(r), ~Final(r), NEW c \in Byte, r.scan = "string"
  PROVE  Writable(String(r, c))
<1>1. r.high = 0 /\ r.token \in Seq(Byte)
  BY DEF Writable, Final
<1>2. PICK q \in Live : RunsTo(r.token, q) /\ r.rest = Expected(q)
  BY DEF Writable, Final
<1>3. r.rest = <<>> => q = UTF8_ACCEPT
  <2>1. q \in 2 .. 8 => Expected(q) # <<>>
    BY DEF Expected, Continuation
  <2> QED BY <1>2, <2>1 DEF Live, DecodeState, UTF8_ACCEPT, UTF8_REJECT
<1>4. Writable(Refuse(r))
  BY RefusedWritable
<1>5. Writable(Deliver(r, "value", <<"string", r.token>>))
  BY <1>1, DeliveredWritable
<1>6. r.rest = <<>> => Writable(Await(r, "escape", <<>>))
  BY <1>1, <1>2, <1>3, AwaitFields DEF Writable
<1>7. ASSUME Accepts(r.rest, c)
      PROVE  Writable([r EXCEPT !.rest = Remaining(@, c), !.token = Append(@, c)])
  <2> DEFINE s == [r EXCEPT !.rest = Remaining(@, c), !.token = Append(@, c)]
  <2>1. Decode(q, c) \in Live /\ Remaining(r.rest, c) = Expected(Decode(q, c))
    BY <1>2, <1>7, SameUtf8 DEF Live
  <2>2. Append(r.token, c) \in Seq(Byte) /\ RunsTo(Append(r.token, c), Decode(q, c))
    BY <1>1, <1>2, RunOn
  <2>3. /\ s.scan = "string" /\ s.high = 0 /\ s.token = Append(r.token, c)
        /\ s.rest = Remaining(r.rest, c)
    BY <1>1 DEF IsReader
  <2> HIDE DEF s
  <2>4. Writable(s)
    BY <2>1, <2>2, <2>3 DEF Writable
  <2> QED BY <2>4 DEF s
<1> QED BY <1>4, <1>5, <1>6, <1>7 DEF String

LEMMA EscapeWritable ==
  ASSUME NEW r, IsReader(r), Writable(r), ~Final(r), NEW c \in Byte, r.scan = "escape"
  PROVE  Writable(Escape(r, c))
<1>1. r.high = 0 /\ r.token \in Seq(Byte) /\ RunsTo(r.token, UTF8_ACCEPT)
  BY DEF Writable, Final
<1>2. Writable(Refuse(r))
  BY RefusedWritable
<1>3. Writable(Await(r, "hex", <<>>))
  BY <1>1, DigitsNext
<1>4. ASSUME c \in DOMAIN Short
      PROVE  Writable([Await(r, "string", <<>>) EXCEPT !.token = Append(@, Short[c])])
  <2> DEFINE s == [Await(r, "string", <<>>) EXCEPT !.token = Append(@, Short[c])]
  <2>1. Short[c] \in 0 .. 127
    BY <1>4 DEF Short
  <2>2. Append(r.token, Short[c]) \in Seq(Byte) /\ RunsTo(Append(r.token, Short[c]), UTF8_ACCEPT)
    BY <1>1, <2>1, OneByte DEF UTF8_ACCEPT
  <2>3. IsReader(Await(r, "string", <<>>))
    BY AwaitIsReader DEF Scans
  <2>4. IsReader(s)
    BY <2>3, OtherFields
  <2>5. /\ s.scan = "string" /\ s.rest = <<>> /\ s.high = 0
        /\ s.token = Append(r.token, Short[c])
    BY <1>1, <2>3, AwaitFields DEF IsReader
  <2> HIDE DEF s
  <2>6. Writable(s)
    BY <2>2, <2>4, <2>5, CharacterNext
  <2> QED BY <2>6 DEF s
<1> QED BY <1>2, <1>3, <1>4 DEF Escape

\* The two halves of a pair are one of the code points above 65535.
LEMMA PairIsScalar ==
  ASSUME NEW high \in High, NEW low \in Low
  PROVE  high * 1024 + low - 56613888 \in Scalar
<1>1. high \in Int /\ low \in Int
  BY SMT DEF High, Low
<1>2. 55296 <= high /\ high < 56320 /\ 56320 <= low /\ low < 57344
  BY SMT DEF High, Low
<1> QED BY <1>1, <1>2, SMTT(30) DEF Scalar

LEMMA CodePointWritable ==
  ASSUME NEW r, IsReader(r), r.high \in {0} \cup High,
         r.token \in Seq(Byte), RunsTo(r.token, UTF8_ACCEPT),
         NEW point \in Nat, point < 65536
  PROVE  Writable(CodePoint(r, point))
<1>1. ASSUME NEW p \in Scalar PROVE Writable(Character(r, p))
  <2> DEFINE string == Await(r, "string", <<>>)
             longer == string.token \o Encode(p)
             s == [string EXCEPT !.token = longer, !.high = 0]
  <2>1. IsReader(string)
    BY AwaitIsReader DEF Scans
  <2>2. string.scan = "string" /\ string.rest = <<>> /\ string.token = r.token
    BY AwaitFields
  <2>3. Character(r, p) = s
    BY DEF Character
  <2> HIDE DEF string
  <2>4. longer \in Seq(Byte) /\ RunsTo(longer, UTF8_ACCEPT)
    BY <1>1, <2>2, EncodedCharacter
  <2> HIDE DEF longer
  <2>5. IsReader(s)
    BY <2>1 DEF IsReader
  <2>6. s.scan = "string" /\ s.rest = <<>> /\ s.high = 0 /\ s.token = longer
    BY <2>1, <2>2 DEF IsReader
  <2> HIDE DEF s
  <2>7. Writable(s)
    BY <2>4, <2>5, <2>6, CharacterNext
  <2> QED BY <2>3, <2>7
<1>2. ASSUME point \in High PROVE Writable(FirstHalf(r, point))
  <2> DEFINE rest == Exactly(<<Backslash, 117>>)
             low == Await(r, "low", rest)
             s == [low EXCEPT !.high = point]
  <2> HIDE DEF rest
  <2>1. "high" \in DOMAIN low
    BY DEF Await, IsReader
  <2>2. low.scan = "low" /\ low.token = r.token
    BY AwaitFields
  <2> HIDE DEF low
  <2>3. s.scan = "low" /\ s.token = r.token /\ s.high = point
    BY <2>1, <2>2
  <2> HIDE DEF s
  <2>4. Writable(s)
    BY <1>2, <2>3 DEF Writable
  <2> QED BY <2>4 DEF s, low, rest, FirstHalf
<1>3. Writable(Refuse(r))
  BY RefusedWritable
<1>4. Alone(point) => point \in Scalar
  BY SMTT(30) DEF Alone, Scalar, High, Low
<1>5. r.high # 0 /\ point \in Low => r.high * 1024 + point - 56613888 \in Scalar
  <2> HIDE DEF High, Low, Scalar
  <2> QED BY PairIsScalar, SMT
<1> QED BY <1>1, <1>2, <1>3, <1>4, <1>5, SMT DEF CodePoint

LEMMA HexWritable ==
  ASSUME NEW r, IsReader(r), Writable(r), ~Final(r), NEW c \in Byte, r.scan = "hex"
  PROVE  Writable(Hex(r, c))
<1> DEFINE digits == Append(r.rest, HexValue(c))
           n == Len(r.rest)
           m == Len(digits)
<1>1. /\ r.high \in {0} \cup High /\ r.rest \in Seq(Nibble) /\ Len(r.rest) < 4
      /\ r.token \in Seq(Byte) /\ RunsTo(r.token, UTF8_ACCEPT)
  BY DEF Writable, Final
<1>2. Writable(Refuse(r))
  BY RefusedWritable
<1>3. HexValue(c) # -1 => HexValue(c) \in Nibble
  BY DEF HexValue, Digit, Byte, Nibble
<1>4. HexValue(c) # -1 => digits \in Seq(Nibble)
  BY <1>1, <1>3
<1>5. n \in Nat /\ n < 4 /\ (HexValue(c) # -1 => m = n + 1)
  BY <1>1, <1>3
<1> HIDE DEF n, m, digits
<1>6. HexValue(c) # -1 /\ Len(digits) < 4 => Writable([r EXCEPT !.rest = digits])
  <2> DEFINE s == [r EXCEPT !.rest = digits]
  <2>1. s.scan = "hex" /\ s.rest = digits /\ s.token = r.token /\ s.high = r.high
    BY DEF IsReader
  <2> HIDE DEF s
  <2>2. HexValue(c) # -1 /\ Len(digits) < 4 => Writable(s)
    BY <1>1, <1>4, <2>1 DEF Writable
  <2> QED BY <2>2 DEF s
<1>7. HexValue(c) # -1 /\ ~(Len(digits) < 4) => Writable(CodePoint(r, Shifted(digits)))
  <2>1. SUFFICES ASSUME HexValue(c) # -1, ~(Len(digits) < 4)
                 PROVE  Writable(CodePoint(r, Shifted(digits)))
    OBVIOUS
  <2>2. digits \in Seq(Nibble)
    BY <1>4, <2>1
  <2>3. m = 4
    BY <1>5, <2>1 DEF m
  <2>4. \A i \in 1 .. 4 : digits[i] \in Nibble
    BY <2>2, <2>3, ElementOfSeq DEF m
  <2> DEFINE a == digits[1]  b == digits[2]  d == digits[3]  e == digits[4]
  <2>5. a \in Nibble /\ b \in Nibble /\ d \in Nibble /\ e \in Nibble
    BY <2>4
  <2>6. Shifted(digits) = 4096 * a + 256 * b + 16 * d + e
    BY Zenon DEF Shifted
  <2> HIDE DEF a, b, d, e
  <2>7. Shifted(digits) \in Nat /\ Shifted(digits) < 65536
    BY <2>5, <2>6, SMTT(30) DEF Nibble
  <2> QED BY <1>1, <2>7, CodePointWritable, SMT
<1>8. Hex(r, c) = IF HexValue(c) = -1 THEN Refuse(r)
                  ELSE IF Len(digits) < 4 THEN [r EXCEPT !.rest = digits]
                  ELSE CodePoint(r, Shifted(digits))
  BY DEF Hex, digits
<1> QED BY <1>2, <1>6, <1>7, <1>8

LEMMA FeedWritable ==
  ASSUME NEW r, IsReader(r), Writable(r), NEW c \in Byte
  PROVE  Writable(Feed(r, c))
<1>1. CASE Final(r)
  BY <1>1 DEF Feed
<1>2. CASE ~Final(r) /\ r.scan = "start"
  <2>1. r.token = <<>> /\ r.high = 0
    BY <1>2 DEF Writable, Final
  <2>2. \A rest : Writable(Await(r, "bom", rest))
    BY <2>1, AwaitFields DEF Writable
  <2>3. Writable(Between(r, c))
    BY <2>1, BetweenWritable
  <2> QED BY <1>2, <2>2, <2>3 DEF Feed, NumberStates
<1>3. CASE ~Final(r) /\ r.scan = "between"
  <2>1. r.token = <<>> /\ r.high = 0
    BY <1>3 DEF Writable, Final
  <2> QED BY <1>3, <2>1, BetweenWritable DEF Feed, NumberStates
<1>4. CASE ~Final(r) /\ r.scan \in {"bom", "literal", "low"}
  BY <1>4, ExpectWritable DEF Feed, NumberStates
<1>5. CASE ~Final(r) /\ r.scan \in NumberStates
  BY <1>5, NumberWritable DEF Feed, NumberStates
<1>6. CASE ~Final(r) /\ r.scan = "string"
  BY <1>6, StringWritable DEF Feed, NumberStates
<1>7. CASE ~Final(r) /\ r.scan = "escape"
  BY <1>7, EscapeWritable DEF Feed, NumberStates
<1>8. CASE ~Final(r) /\ r.scan = "hex"
  BY <1>8, HexWritable DEF Feed, NumberStates
<1> QED BY <1>1, <1>2, <1>3, <1>4, <1>5, <1>6, <1>7, <1>8 DEF IsReader, Scans

LEMMA StreamWritable == Stream => [](IsReader(reader) /\ Writable(reader))
<1> DEFINE Inv == IsReader(reader) /\ Writable(reader)
<1>1. StreamInit => Inv
  BY DEF StreamInit, StartReader, IsReader, Writable, Scans
<1>2. Inv /\ [\E c \in Byte : Arrive(c)]_<<text, reader>> => Inv'
  BY FeedIsReader, FeedWritable DEF Arrive
<1> QED BY <1>1, <1>2, PTL DEF Stream

\* Whatever bytes arrive, with escapes, pairs of surrogates and characters of up
\* to four bytes: what the reader has of a string is what the writer's automaton
\* takes, and the reader waits for what the automaton needs, so dump never throws
\* for a name that came in by the network.
THEOREM StreamStringsWritable == Stream => []StringsAreWritable
<1>1. IsReader(reader) /\ Writable(reader) => StringsAreWritable
  <2> SUFFICES ASSUME Writable(reader), reader.scan = "string", reader.wants # "refused"
               PROVE  LET state == Decoded(reader.token)
                      IN state # UTF8_REJECT /\ reader.rest = Expected(state)
    BY DEF StringsAreWritable
  <2>1. PICK q \in Live : RunsTo(reader.token, q) /\ reader.rest = Expected(q)
    BY DEF Writable
  <2>2. Decoded(reader.token) = q
    BY <2>1, RunDecoded
  <2> QED BY <2>1, <2>2 DEF Live
<1> QED BY <1>1, StreamWritable, PTL
-----------------------------------------------------------------------------
(* Behind a whole value nothing can follow *)

\* A byte, or the end of the input.
Input == Byte \cup {EOF}

\* The next reader s, once the value of r is whole, after c: the value stays, and
\* the reader is between tokens only if it was and read white space.
Follows(r, c, s) ==
  /\ s.root = r.root
  /\ \/ s.wants = "refused"
     \/ s.wants = "done" /\ c \in {0, EOF} /\ r.scan = "between"
     \/ /\ Ended(s)
        /\ s.scan \notin {"start", "bom"}
        /\ s.scan = "between" => r.scan = "between" /\ c \in White

\* Where no value is wanted, every token but the end is refused.
LEMMA TokenRefused ==
  ASSUME NEW r, IsReader(r), Ended(r), NEW token, NEW v
  PROVE  Token(r, token, v) = IF token = "end_of_input" THEN [r EXCEPT !.wants = "done"]
                              ELSE Refuse(r)
<1>1. /\ ~WantsValue(r) /\ r.wants = "after" /\ r.stack = <<>>
      /\ \A type : ~Inside(r, type)
  BY DEF Ended, WantsValue, Inside
<1> QED BY <1>1 DEF Token

LEMMA DeliveredFollows ==
  ASSUME NEW r, IsReader(r), Ended(r), NEW token, NEW v
  PROVE  /\ Deliver(r, token, v).root = r.root
         /\ Deliver(r, token, v).wants = IF token = "end_of_input" THEN "done" ELSE "refused"
<1> DEFINE s == [r EXCEPT !.scan = "between", !.rest = <<>>, !.token = <<>>]
<1>1. IsReader(s) /\ Ended(s) /\ s.root = r.root
  BY Delivering DEF IsReader, Ended
<1> HIDE DEF s
<1>2. Token(s, token, v) = IF token = "end_of_input" THEN [s EXCEPT !.wants = "done"]
                           ELSE Refuse(s)
  BY <1>1, TokenRefused
<1>3. Deliver(r, token, v) = Token(s, token, v)
  BY DEF Deliver, s
<1> QED BY <1>1, <1>2, <1>3 DEF Refuse, IsReader

LEMMA RefuseFollows ==
  ASSUME NEW r, IsReader(r), NEW c
  PROVE  Follows(r, c, Refuse(r))
BY DEF IsReader, Refuse, Follows

\* Waiting for more of a token is no whole text.
LEMMA AwaitFollows ==
  ASSUME NEW r, IsReader(r), Ended(r), NEW c, NEW scan, NEW rest,
         scan \notin {"start", "bom"},
         scan = "between" => r.scan = "between" /\ c \in White
  PROVE  /\ Follows(r, c, Await(r, scan, rest))
         /\ \A x : Follows(r, c, [Await(r, scan, rest) EXCEPT !.token = x])
         /\ \A x : Follows(r, c, [Await(r, scan, rest) EXCEPT !.high = x])
         /\ \A x, y : Follows(r, c, [Await(r, scan, rest) EXCEPT !.token = x, !.high = y])
BY DEF IsReader, Await, Follows, Ended

LEMMA BetweenFollows ==
  ASSUME NEW r, IsReader(r), Ended(r), r.scan = "between", NEW c \in Input
  PROVE  Follows(r, c, Between(r, c))
<1>1. c \in White => Follows(r, c, Await(r, "between", <<>>))
  BY AwaitFollows
<1>2. c \in {0, EOF} => Follows(r, c, Deliver(r, "end_of_input", Null))
  BY DeliveredFollows DEF Follows
<1>3. c \in DOMAIN Structure => Follows(r, c, Deliver(r, Structure[c], Null))
  <2>1. c \in DOMAIN Structure => Structure[c] # "end_of_input"
    BY DEF Structure
  <2> QED BY <2>1, DeliveredFollows DEF Follows
<1>4. \A rest, x : Follows(r, c, [Await(r, "literal", rest) EXCEPT !.token = x])
  BY AwaitFollows
<1>5. Follows(r, c, Await(r, "string", <<>>))
  BY AwaitFollows
<1>6. \A x : Follows(r, c, [r EXCEPT !.scan = "minus", !.token = x])
  BY DEF IsReader, Follows, Ended
<1>7. \A x : c \in Digit =>
        Follows(r, c, [r EXCEPT !.scan = NumberMove("minus", c), !.token = x])
  <2>1. c \in Digit => NumberMove("minus", c) \in {"zero", "any1"}
    BY DEF NumberMove, IntegerMove, Digit
  <2> QED BY <2>1 DEF IsReader, Follows, Ended
<1>8. Follows(r, c, Refuse(r))
  BY RefuseFollows
<1> QED BY <1>1, <1>2, <1>3, <1>4, <1>5, <1>6, <1>7, <1>8 DEF Between

LEMMA NumberFollows ==
  ASSUME NEW r, IsReader(r), Ended(r), r.scan \in NumberStates, NEW c \in Input
  PROVE  Follows(r, c, Number(r, c))
<1> DEFINE next == NumberMove(r.scan, c)
           read == Deliver(r, "value", NumberValue(r.token))
<1>1. CASE next # "none"
  <2>1. next \in NumberStates \cup {"none"}
    BY DEF NumberMove, IntegerMove, FractionMove, NumberStates
  <2>2. Follows(r, c, [r EXCEPT !.scan = next, !.token = Append(@, c)])
    BY <1>1, <2>1 DEF IsReader, Follows, Ended, NumberStates
  <2> QED BY <1>1, <2>2 DEF Number
<1>2. CASE next = "none"
  <2>1. read.root = r.root /\ read.wants = "refused"
    BY DeliveredFollows
  <2>2. Number(r, c) = IF r.scan \notin NumberEnds THEN Refuse(r) ELSE read
    BY <1>2, <2>1 DEF Number, Final
  <2> QED BY <2>1, <2>2, RefuseFollows DEF Follows
<1> QED BY <1>1, <1>2

\* Whatever comes behind a whole value.
LEMMA FeedFollows ==
  ASSUME NEW r, IsReader(r), Ended(r), r.scan \notin {"start", "bom"}, NEW c \in Input
  PROVE  Follows(r, c, Feed(r, c))
<1>1. ~Final(r) /\ r.wants = "after"
  BY DEF Ended, Final
<1>2. Follows(r, c, Refuse(r))
  BY RefuseFollows
<1>3. CASE r.scan = "between"
  BY <1>1, <1>3, BetweenFollows DEF Feed, NumberStates
<1>4. CASE r.scan \in {"literal", "low"}
  <2>1. Follows(r, c, [r EXCEPT !.rest = Tail(@)])
    BY <1>4 DEF IsReader, Follows, Ended
  <2>2. Follows(r, c, Deliver(r, "value", LiteralValue(r.token)))
    BY DeliveredFollows DEF Follows
  <2>3. Follows(r, c, Await(r, "hex", <<>>))
    BY AwaitFollows
  <2>4. Follows(r, c, Expect(r, c))
    BY <1>2, <1>4, <2>1, <2>2, <2>3 DEF Expect
  <2> QED BY <1>1, <1>4, <2>4 DEF Feed, NumberStates
<1>5. CASE r.scan \in NumberStates
  BY <1>1, <1>5, NumberFollows DEF Feed, NumberStates
<1>6. CASE r.scan = "string"
  <2>1. Follows(r, c, Deliver(r, "value", <<"string", r.token>>))
    BY DeliveredFollows DEF Follows
  <2>2. Follows(r, c, Await(r, "escape", <<>>))
    BY AwaitFollows
  <2>3. \A x, y : Follows(r, c, [r EXCEPT !.rest = x, !.token = y])
    BY <1>6 DEF IsReader, Follows, Ended
  <2>4. Follows(r, c, String(r, c))
    BY <1>2, <2>1, <2>2, <2>3 DEF String
  <2> QED BY <1>1, <1>6, <2>4 DEF Feed, NumberStates
<1>7. CASE r.scan = "escape"
  <2>1. Follows(r, c, Await(r, "hex", <<>>))
    BY AwaitFollows
  <2>2. \A x : Follows(r, c, [Await(r, "string", <<>>) EXCEPT !.token = x])
    BY AwaitFollows
  <2>3. Follows(r, c, Escape(r, c))
    BY <1>2, <2>1, <2>2 DEF Escape
  <2> QED BY <1>1, <1>7, <2>3 DEF Feed, NumberStates
<1>8. CASE r.scan = "hex"
  <2>1. \A p : Follows(r, c, Character(r, p)) /\ Follows(r, c, FirstHalf(r, p))
    BY AwaitFollows, Zenon DEF Character, FirstHalf
  <2>2. \A p : Follows(r, c, CodePoint(r, p))
    BY <1>2, <2>1 DEF CodePoint
  <2>3. \A x : Follows(r, c, [r EXCEPT !.rest = x])
    BY <1>8 DEF IsReader, Follows, Ended
  <2>4. Follows(r, c, Hex(r, c))
    BY <1>2, <2>2, <2>3 DEF Hex
  <2> QED BY <1>1, <1>8, <2>4 DEF Feed, NumberStates
<1> QED BY <1>3, <1>4, <1>5, <1>6, <1>7, <1>8 DEF IsReader, Scans
-----------------------------------------------------------------------------
(* What begins with a bracket is whole only with all brackets closed *)

IsStack(stack) == \E S : stack \in Seq(S)

\* The parser is done only with an empty stack, and has read nothing before the
\* first byte that is no byte order mark.
Sound(r) ==
  /\ IsStack(r.stack)
  /\ r.wants = "done" => r.stack = <<>>
  /\ r.scan \in {"start", "bom"} => r.wants \in {"value", "refused"}

\* A bracket was opened, and is still open unless the value is whole or refused.
Bracketed(r) == r.stack # <<>> \/ r.wants \in {"after", "refused", "done"}

\* The next reader s keeps both.
Keeps(r, s) == Sound(s) /\ (Bracketed(r) => Bracketed(s))

LEMMA Stacks ==
  ASSUME NEW stack, IsStack(stack), NEW x
  PROVE  /\ IsStack(Append(stack, x)) /\ Append(stack, x) # <<>>
         /\ stack # <<>> => IsStack(Front(stack))
<1> PICK S : stack \in Seq(S)
  BY DEF IsStack
<1> DEFINE T == S \cup {x}
<1>1. stack \in Seq(T) /\ x \in T
  OBVIOUS
<1> HIDE DEF T
<1>2. Append(stack, x) \in Seq(T) /\ Len(Append(stack, x)) = Len(stack) + 1 /\ Len(stack) \in Nat
  BY <1>1
<1>3. Append(stack, x) # <<>>
  <2>1. Len(Append(stack, x)) # 0
    BY <1>2
  <2> QED BY <2>1, EmptySeq
<1>4. stack # <<>> => Front(stack) \in Seq(T)
  <2> SUFFICES ASSUME stack # <<>> PROVE SubSeq(stack, 1, Len(stack) - 1) \in Seq(T)
    BY DEF Front
  <2>1. Len(stack) \in Nat \ {0}
    BY <1>1, EmptySeq
  <2>2. \A k \in 1 .. Len(stack) - 1 : stack[k] \in T
    BY <1>1, <2>1
  <2> QED BY <1>1, <2>1, <2>2, SubSeqProperties
<1> QED BY <1>2, <1>3, <1>4 DEF IsStack

\* The key of an object goes into the uppermost frame.
LEMMA StackKey ==
  ASSUME NEW stack, IsStack(stack), stack # <<>>, NEW x
  PROVE  /\ IsStack([stack EXCEPT ![Len(stack)].key = x])
         /\ [stack EXCEPT ![Len(stack)].key = x] # <<>>
<1> PICK S : stack \in Seq(S)
  BY DEF IsStack
<1> DEFINE top == [stack[Len(stack)] EXCEPT !.key = x]
           T == S \cup {top}
           keyed == [stack EXCEPT ![Len(stack)] = top]
<1> HIDE DEF top
<1>1. Len(stack) \in Nat \ {0} /\ stack \in Seq(T) /\ top \in T
  BY EmptySeq
<1> HIDE DEF T
<1>2. keyed \in Seq(T) /\ Len(keyed) = Len(stack)
  BY <1>1
<1>3. keyed # <<>>
  BY <1>1, <1>2, EmptySeq
<1>4. [stack EXCEPT ![Len(stack)].key = x] = keyed
  BY DEF top
<1> HIDE DEF keyed
<1> QED BY <1>2, <1>3, <1>4 DEF IsStack

\* A value closes what it closes and leaves the rest open.
LEMMA HandleValueKeeps ==
  ASSUME NEW r, IsReader(r), IsStack(r.stack), r.scan \notin {"start", "bom"}, NEW v
  PROVE  /\ Sound(HandleValue(r, v)) /\ HandleValue(r, v).wants = "after"
         /\ HandleValue(r, v).stack = <<>> => r.stack = <<>>
<1>1. CASE r.stack = <<>>
  BY <1>1 DEF HandleValue, Sound, IsReader
<1>2. CASE r.stack # <<>>
  <2>1. PICK x : HandleValue(r, v) = [r EXCEPT !.stack = Append(Front(r.stack), x),
                                               !.wants = "after"]
    BY <1>2 DEF HandleValue
  <2>2. IsStack(Append(Front(r.stack), x)) /\ Append(Front(r.stack), x) # <<>>
    BY <1>2, Stacks
  <2> QED BY <2>1, <2>2 DEF Sound, IsReader
<1> QED BY <1>1, <1>2

LEMMA TokenKeeps ==
  ASSUME NEW r, IsReader(r), Sound(r), r.scan \notin {"start", "bom"}, NEW token, NEW v
  PROVE  Keeps(r, Token(r, token, v))
<1>1. Keeps(r, HandleValue(r, v))
  BY HandleValueKeeps DEF Sound, Keeps, Bracketed
<1>2. \A x : Keeps(r, Open(r, x))
  BY Stacks DEF Open, Keeps, Sound, Bracketed, IsReader
<1>3. \A type : Inside(r, type) => Keeps(r, Close(r))
  <2> SUFFICES ASSUME r.stack # <<>> PROVE Keeps(r, Close(r))
    BY DEF Inside
  <2> DEFINE s == [r EXCEPT !.stack = Front(r.stack)]
  <2>1. IsReader(s) /\ IsStack(s.stack) /\ s.scan = r.scan
    BY Stacks DEF IsReader, Sound
  <2>2. Close(r) = HandleValue(s, Last(r.stack).value)
    BY DEF Close
  <2> HIDE DEF s
  <2> QED BY <2>1, <2>2, HandleValueKeeps DEF Keeps, Bracketed
<1>4. \A type, x : Inside(r, type) =>
        Keeps(r, [r EXCEPT !.stack[Len(r.stack)].key = x, !.wants = "separator"])
  <2> SUFFICES ASSUME r.stack # <<>>, NEW x
               PROVE  Keeps(r, [r EXCEPT !.stack[Len(r.stack)].key = x, !.wants = "separator"])
    BY DEF Inside
  <2> DEFINE keyed == [r.stack EXCEPT ![Len(r.stack)].key = x]
             s == [r EXCEPT !.stack = keyed, !.wants = "separator"]
  <2>1. IsStack(keyed) /\ keyed # <<>>
    BY StackKey DEF Sound
  <2> HIDE DEF keyed
  <2>2. Keeps(r, s)
    BY <2>1 DEF Keeps, Sound, Bracketed, IsReader
  <2> QED BY <2>2 DEF keyed
<1>5. r.wants = "separator" => Keeps(r, [r EXCEPT !.wants = "value"])
  BY DEF Keeps, Sound, Bracketed, IsReader
<1>6. r.stack # <<>> => Keeps(r, [r EXCEPT !.wants = AfterComma(r)])
  BY DEF Keeps, Sound, Bracketed, IsReader, AfterComma
<1>7. Ended(r) => Keeps(r, [r EXCEPT !.wants = "done"])
  BY DEF Keeps, Sound, Bracketed, IsReader, Ended
<1>8. Keeps(r, Refuse(r))
  BY DEF Keeps, Sound, Bracketed, IsReader, Refuse
<1> QED BY <1>1, <1>2, <1>3, <1>4, <1>5, <1>6, <1>7, <1>8 DEF Token

LEMMA DeliveredKeeps ==
  ASSUME NEW r, IsReader(r), Sound(r), NEW token, NEW v, ~Final(r)
  PROVE  Keeps(r, Deliver(r, token, v))
<1> DEFINE s == [r EXCEPT !.scan = "between", !.rest = <<>>, !.token = <<>>]
<1>1. /\ IsReader(s) /\ Sound(s) /\ s.scan = "between"
      /\ Bracketed(r) => Bracketed(s)
  BY Delivering DEF IsReader, Sound, Bracketed
<1> HIDE DEF s
<1>2. Keeps(s, Token(s, token, v))
  BY <1>1, TokenKeeps
<1> QED BY <1>1, <1>2 DEF Keeps, Deliver, s

\* In the middle of a token the parser does nothing.
LEMMA AwaitKeeps ==
  ASSUME NEW r, IsReader(r), Sound(r), ~Final(r), NEW scan, NEW rest,
         scan = "bom" => r.scan = "start", scan # "start"
  PROVE  /\ Keeps(r, Await(r, scan, rest))
         /\ \A x : Keeps(r, [Await(r, scan, rest) EXCEPT !.token = x])
         /\ \A x : Keeps(r, [Await(r, scan, rest) EXCEPT !.high = x])
         /\ \A x, y : Keeps(r, [Await(r, scan, rest) EXCEPT !.token = x, !.high = y])
BY DEF IsReader, Await, Keeps, Sound, Bracketed, Final

LEMMA RefuseKeeps ==
  ASSUME NEW r, IsReader(r), Sound(r)
  PROVE  Keeps(r, Refuse(r))
BY DEF Keeps, Sound, Bracketed, IsReader, Refuse

LEMMA BetweenKeeps ==
  ASSUME NEW r, IsReader(r), Sound(r), ~Final(r), NEW c \in Input
  PROVE  Keeps(r, Between(r, c))
<1>1. Keeps(r, Await(r, "between", <<>>)) /\ Keeps(r, Await(r, "string", <<>>))
  BY AwaitKeeps
<1>2. \A token : Keeps(r, Deliver(r, token, Null))
  BY DeliveredKeeps
<1>3. \A rest, x : Keeps(r, [Await(r, "literal", rest) EXCEPT !.token = x])
  BY AwaitKeeps
<1>4. \A x : Keeps(r, [r EXCEPT !.scan = "minus", !.token = x])
  BY DEF IsReader, Keeps, Sound, Bracketed, Final
<1>5. \A x : c \in Digit => Keeps(r, [r EXCEPT !.scan = NumberMove("minus", c), !.token = x])
  <2>1. c \in Digit => NumberMove("minus", c) \in {"zero", "any1"}
    BY DEF NumberMove, IntegerMove, Digit
  <2> QED BY <2>1 DEF IsReader, Keeps, Sound, Bracketed, Final
<1>6. Keeps(r, Refuse(r))
  BY RefuseKeeps
<1> QED BY <1>1, <1>2, <1>3, <1>4, <1>5, <1>6 DEF Between

LEMMA NumberKeeps ==
  ASSUME NEW r, IsReader(r), Sound(r), ~Final(r), r.scan \in NumberStates, NEW c \in Byte
  PROVE  Keeps(r, Number(r, c))
<1> DEFINE next == NumberMove(r.scan, c)
           read == Deliver(r, "value", NumberValue(r.token))
<1>1. Keeps(r, Refuse(r))
  BY RefuseKeeps
<1>2. next # "none" => Keeps(r, [r EXCEPT !.scan = next, !.token = Append(@, c)])
  <2>1. next \in NumberStates \cup {"none"}
    BY DEF NumberMove, IntegerMove, FractionMove, NumberStates
  <2> QED BY <2>1 DEF IsReader, Keeps, Sound, Bracketed, NumberStates
<1>3. IsReader(read) /\ Keeps(r, read)
  BY DeliveredIsReader, DeliveredKeeps
<1>4. ~Final(read) => Keeps(r, Between(read, c))
  BY <1>3, BetweenKeeps DEF Keeps, Input
<1> QED BY <1>1, <1>2, <1>3, <1>4 DEF Number

LEMMA FeedKeeps ==
  ASSUME NEW r, IsReader(r), Sound(r), NEW c \in Byte
  PROVE  Keeps(r, Feed(r, c))
<1>1. CASE Final(r)
  BY <1>1 DEF Feed, Keeps
<1>2. Keeps(r, Refuse(r))
  BY RefuseKeeps
<1>3. CASE ~Final(r) /\ r.scan \in {"start", "between"}
  <2>1. r.scan = "start" => Keeps(r, Await(r, "bom", Exactly(<<187, 191>>)))
    BY <1>3, AwaitKeeps
  <2>2. Keeps(r, Between(r, c))
    BY <1>3, BetweenKeeps DEF Input
  <2> QED BY <1>3, <2>1, <2>2 DEF Feed, NumberStates
<1>4. CASE ~Final(r) /\ r.scan \in {"bom", "literal", "low"}
  <2>1. Keeps(r, [r EXCEPT !.rest = Tail(@)])
    BY <1>4 DEF IsReader, Keeps, Sound, Bracketed
  <2>2. Keeps(r, Deliver(r, "value", LiteralValue(r.token)))
    BY <1>4, DeliveredKeeps
  <2>3. Keeps(r, Await(r, "hex", <<>>)) /\ Keeps(r, Await(r, "between", <<>>))
    BY <1>4, AwaitKeeps
  <2>4. Keeps(r, Expect(r, c))
    BY <1>2, <1>4, <2>1, <2>2, <2>3 DEF Expect
  <2> QED BY <1>4, <2>4 DEF Feed, NumberStates
<1>5. CASE ~Final(r) /\ r.scan \in NumberStates
  BY <1>5, NumberKeeps DEF Feed, NumberStates
<1>6. CASE ~Final(r) /\ r.scan = "string"
  <2>1. Keeps(r, Deliver(r, "value", <<"string", r.token>>))
    BY <1>6, DeliveredKeeps
  <2>2. Keeps(r, Await(r, "escape", <<>>))
    BY <1>6, AwaitKeeps
  <2>3. \A x, y : Keeps(r, [r EXCEPT !.rest = x, !.token = y])
    BY <1>6 DEF IsReader, Keeps, Sound, Bracketed
  <2>4. Keeps(r, String(r, c))
    BY <1>2, <2>1, <2>2, <2>3 DEF String
  <2> QED BY <1>6, <2>4 DEF Feed, NumberStates
<1>7. CASE ~Final(r) /\ r.scan = "escape"
  <2>1. Keeps(r, Await(r, "hex", <<>>))
    BY <1>7, AwaitKeeps
  <2>2. \A x : Keeps(r, [Await(r, "string", <<>>) EXCEPT !.token = x])
    BY <1>7, AwaitKeeps
  <2>3. Keeps(r, Escape(r, c))
    BY <1>2, <2>1, <2>2 DEF Escape
  <2> QED BY <1>7, <2>3 DEF Feed, NumberStates
<1>8. CASE ~Final(r) /\ r.scan = "hex"
  <2>1. \A p : Keeps(r, Character(r, p)) /\ Keeps(r, FirstHalf(r, p))
    BY <1>8, AwaitKeeps, Zenon DEF Character, FirstHalf
  <2>2. \A p : Keeps(r, CodePoint(r, p))
    BY <1>2, <2>1 DEF CodePoint
  <2>3. \A x : Keeps(r, [r EXCEPT !.rest = x])
    BY <1>8 DEF IsReader, Keeps, Sound, Bracketed
  <2>4. Keeps(r, Hex(r, c))
    BY <1>2, <2>2, <2>3 DEF Hex
  <2> QED BY <1>8, <2>4 DEF Feed, NumberStates
<1> QED BY <1>1, <1>3, <1>4, <1>5, <1>6, <1>7, <1>8 DEF IsReader, Scans
-----------------------------------------------------------------------------
(* Where the input may end *)

\* The end is a token that only a whole value takes.
LEMMA EndDone ==
  ASSUME NEW r, IsReader(r)
  PROVE  /\ Between(r, EOF) = Deliver(r, "end_of_input", Null)
         /\ Deliver(r, "end_of_input", Null).wants = "done" <=> Ended(r)
<1>1. EOF \notin DOMAIN Structure
  <2>1. DOMAIN Structure = {44, 58, 91, 93, 123, 125}
    BY Zenon DEF Structure
  <2> QED BY <2>1 DEF EOF
<1>2. \A word \in Literals : Head(word) # EOF
  BY DEF Literals, EOF
<1>3. EOF \notin White /\ EOF \notin Digit /\ EOF # Quote /\ EOF # Minus
  BY DEF White, Digit, Quote, Minus, EOF
<1>4. Between(r, EOF) = Deliver(r, "end_of_input", Null)
  BY <1>1, <1>2, <1>3 DEF Between
<1> DEFINE s == [r EXCEPT !.scan = "between", !.rest = <<>>, !.token = <<>>]
<1>5. IsReader(s) /\ (Ended(s) <=> Ended(r))
  BY Delivering DEF IsReader, Ended
<1> HIDE DEF s
<1>6. Token(s, "end_of_input", Null) =
        IF Ended(s) THEN [s EXCEPT !.wants = "done"] ELSE Refuse(s)
  BY DEF Token
<1>7. Token(s, "end_of_input", Null).wants = "done" <=> Ended(s)
  BY <1>5, <1>6 DEF Refuse, IsReader
<1> QED BY <1>4, <1>5, <1>7 DEF Deliver, s

\* A number that the input ends is a whole text only outside of all brackets.
LEMMA ValueNotEnded ==
  ASSUME NEW r, IsReader(r), Sound(r), ~Final(r), Bracketed(r), NEW v
  PROVE  /\ ~Ended(Deliver(r, "value", v))
         /\ Deliver(r, "value", v).wants # "done"
<1> DEFINE s == [r EXCEPT !.scan = "between", !.rest = <<>>, !.token = <<>>]
<1>1. /\ IsReader(s) /\ IsStack(s.stack) /\ s.scan = "between"
      /\ s.stack # <<>> \/ s.wants = "after"
      /\ s.wants \notin {"done", "refused"}
  BY Delivering DEF IsReader, Sound, Bracketed, Final
<1> HIDE DEF s
<1>2. WantsValue(s) => s.stack # <<>>
  BY <1>1 DEF WantsValue, Inside
<1>3. Token(s, "value", v) \in {HandleValue(s, v), Refuse(s),
        [s EXCEPT !.stack[Len(s.stack)].key = v[2], !.wants = "separator"]}
  BY DEF Token
<1>4. WantsValue(s) => HandleValue(s, v).stack # <<>> /\ HandleValue(s, v).wants = "after"
  BY <1>1, <1>2, HandleValueKeeps
<1>5. ~WantsValue(s) => Token(s, "value", v) \in {Refuse(s),
        [s EXCEPT !.stack[Len(s.stack)].key = v[2], !.wants = "separator"]}
  BY DEF Token
<1>6. Refuse(s).wants = "refused"
  BY <1>1 DEF Refuse, IsReader
<1>7. [s EXCEPT !.stack[Len(s.stack)].key = v[2], !.wants = "separator"].wants = "separator"
  BY <1>1 DEF IsReader
<1>8. Token(s, "value", v).wants # "done" /\ ~Ended(Token(s, "value", v))
  BY <1>3, <1>4, <1>5, <1>6, <1>7 DEF Ended
<1> QED BY <1>8 DEF Deliver, s

\* In the middle of a token that is no number, a text is not whole.
LEMMA CutToken ==
  ASSUME NEW r, IsReader(r), ~Final(r), Complete(r)
  PROVE  r.scan \in {"start", "between"} \cup NumberStates
<1>1. Refuse(r).wants # "done"
  BY DEF IsReader, Refuse
<1>2. r.scan \notin {"bom", "literal", "low"}
  <2>1. SUFFICES ASSUME r.scan \in {"bom", "literal", "low"} PROVE FALSE
    OBVIOUS
  <2>2. ~InRange(EOF, Head(r.rest))
    BY <2>1 DEF IsReader, Waits, InRange, EOF
  <2>3. Feed(r, EOF) = Refuse(r)
    BY <2>1, <2>2 DEF Feed, NumberStates, Expect
  <2> QED BY <1>1, <2>3 DEF Complete
<1>3. r.scan # "string"
  <2>1. String(r, EOF) = Refuse(r)
    BY DEF String, Quote, Backslash, EOF
  <2> QED BY <1>1, <2>1 DEF Complete, Feed, NumberStates
<1>4. r.scan # "escape"
  <2>1. DOMAIN Short = {98, 116, 110, 102, 114, 34, 47, 92}
    BY Zenon DEF Short
  <2>2. Escape(r, EOF) = Refuse(r)
    BY <2>1 DEF Escape, EOF
  <2> QED BY <1>1, <2>2 DEF Complete, Feed, NumberStates
<1>5. r.scan # "hex"
  <2>1. HexValue(EOF) = -1
    BY DEF HexValue, Digit, EOF
  <2>2. Hex(r, EOF) = Refuse(r)
    BY <2>1 DEF Hex
  <2> QED BY <1>1, <2>2 DEF Complete, Feed, NumberStates
<1> QED BY <1>2, <1>3, <1>4, <1>5 DEF IsReader, Scans

LEMMA CompleteClosed ==
  ASSUME NEW r, IsReader(r), Sound(r), Bracketed(r), Complete(r)
  PROVE  r.stack = <<>> /\ r.wants \in {"after", "done"}
<1>1. CASE Final(r)
  BY <1>1 DEF Complete, Feed, Final, Sound
<1>2. CASE ~Final(r) /\ r.scan \in {"start", "between"}
  <2>1. Feed(r, EOF) = Between(r, EOF)
    BY <1>2 DEF Feed, NumberStates, EOF
  <2> QED BY <2>1, EndDone DEF Complete, Ended
<1>3. CASE ~Final(r) /\ r.scan \in NumberStates
  <2> DEFINE read == Deliver(r, "value", NumberValue(r.token))
  <2>1. Feed(r, EOF) = Number(r, EOF)
    BY <1>3 DEF Feed, NumberStates
  <2>2. NumberMove(r.scan, EOF) = "none"
    BY DEF NumberMove, IntegerMove, FractionMove, Digit, EOF
  <2>3. ~Ended(read) /\ read.wants # "done" /\ IsReader(read)
    BY <1>3, ValueNotEnded, DeliveredIsReader
  <2>4. Between(read, EOF).wants # "done"
    BY <2>3, EndDone
  <2>5. Refuse(r).wants # "done"
    BY DEF IsReader, Refuse
  <2> QED BY <2>1, <2>2, <2>3, <2>4, <2>5 DEF Number, Complete
<1> QED BY <1>1, <1>2, <1>3, CutToken
-----------------------------------------------------------------------------
\* A bracket that comes first is open until the value is whole.
FirstBracket ==
  /\ text \in Seq(Byte)
  /\ IsReader(reader) /\ Sound(reader)
  /\ text = <<>> => reader = StartReader
  /\ text # <<>> /\ text[1] \in {91, 123} => Bracketed(reader)

\* The first bracket opens.
LEMMA Opens ==
  ASSUME NEW c \in {91, 123}
  PROVE  Bracketed(Feed(StartReader, c))
<1> DEFINE r == StartReader
           s == [r EXCEPT !.scan = "between", !.rest = <<>>, !.token = <<>>]
<1>1. /\ r.scan = "start" /\ r.wants = "value" /\ r.stack = <<>>
      /\ s.wants = "value" /\ s.stack = <<>>
      /\ {"wants", "stack"} \subseteq DOMAIN s
  BY DEF StartReader
<1>2. /\ c \in DOMAIN Structure
      /\ Structure[c] = IF c = 91 THEN "begin_array" ELSE "begin_object"
  BY DEF Structure
<1>3. Feed(r, c) = Deliver(r, Structure[c], Null)
  <2>1. ~Final(r) /\ c # 239 /\ c \notin White /\ c \notin {0, EOF}
    BY <1>1 DEF Final, White, EOF
  <2>2. Feed(r, c) = Between(r, c)
    BY <1>1, <2>1 DEF Feed, NumberStates
  <2>3. \A word \in Literals : Head(word) # c
    BY DEF Literals
  <2>4. c \notin Digit /\ c # Quote /\ c # Minus
    BY DEF Digit, Quote, Minus
  <2> HIDE DEF r
  <2>5. Between(r, c) = Deliver(r, Structure[c], Null)
    BY <1>2, <2>1, <2>3, <2>4 DEF Between
  <2> QED BY <2>2, <2>5
<1> HIDE DEF s
<1>4. Token(s, Structure[c], Null) \in {Open(s, EmptyArray), Open(s, EmptyObject)}
  BY <1>1, <1>2 DEF Token, WantsValue
<1>5. \A x : Open(s, x).stack # <<>>
  <2> SUFFICES ASSUME NEW x PROVE Append(s.stack, [value |-> x, key |-> <<>>]) # <<>>
    BY <1>1 DEF Open
  <2>1. IsStack(s.stack)
    <3>1. <<>> \in Seq({})
      OBVIOUS
    <3> QED BY <1>1, <3>1 DEF IsStack
  <2> QED BY <2>1, Stacks
<1> QED BY <1>3, <1>4, <1>5 DEF Deliver, s, Bracketed

LEMMA StreamBrackets == Stream => []FirstBracket
<1>1. StreamInit => FirstBracket
  <2>1. <<>> \in Seq({}) /\ <<>> \in Seq(Byte)
    OBVIOUS
  <2> QED BY <2>1 DEF StreamInit, FirstBracket, StartReader, IsReader, Scans, Sound, IsStack
<1>2. FirstBracket /\ [\E c \in Byte : Arrive(c)]_<<text, reader>> => FirstBracket'
  <2> SUFFICES ASSUME FirstBracket, [\E c \in Byte : Arrive(c)]_<<text, reader>>
               PROVE  FirstBracket'
    OBVIOUS
  <2>1. CASE UNCHANGED <<text, reader>>
    BY <2>1 DEF FirstBracket
  <2>2. ASSUME NEW c \in Byte, Arrive(c)
        PROVE  FirstBracket'
    <3>1. /\ text' \in Seq(Byte) /\ text' # <<>>
          /\ text'[1] = IF text = <<>> THEN c ELSE text[1]
      BY <2>2 DEF FirstBracket, Arrive
    <3>2. IsReader(reader') /\ Keeps(reader, reader')
      BY <2>2, FeedIsReader, FeedKeeps DEF FirstBracket, Arrive
    <3>3. text = <<>> /\ c \in {91, 123} => Bracketed(reader')
      BY <2>2, Opens DEF FirstBracket, Arrive
    <3>4. text # <<>> /\ text[1] \in {91, 123} => Bracketed(reader')
      BY <3>2 DEF FirstBracket, Keeps
    <3> QED BY <3>1, <3>2, <3>3, <3>4 DEF FirstBracket, Keeps
  <2> QED BY <2>1, <2>2
<1> QED BY <1>1, <1>2, PTL DEF Stream

\* For any bytes: what begins with a bracket is accepted only once every bracket
\* is closed (sax_parse_internal), so a request or a reply that is cut is refused.
THEOREM StreamBracketsClosed == Stream => []BracketsClosed
<1>1. FirstBracket => BracketsClosed
  BY CompleteClosed DEF FirstBracket, BracketsClosed
<1> QED BY <1>1, StreamBrackets, PTL

\* For any bytes: once a value is whole, nothing but white space and a terminator
\* leaves the text one that is accepted, and nothing changes the value.  With
\* StreamBracketsClosed: no object text is the beginning of a longer one.
THEOREM StreamNothingFollows == Stream => NothingFollows
<1>1. ASSUME FirstBracket, Ended(reader), NEW c \in Byte, Arrive(c)
      PROVE  /\ Ended(reader') \/ Final(reader')
             /\ reader'.root = reader.root
             /\ Complete(reader') => Complete(reader) /\ Last(text') \in White \cup {0}
  <2>1. IsReader(reader) /\ reader.scan \notin {"start", "bom"} /\ ~Final(reader)
    BY <1>1 DEF FirstBracket, Sound, Ended, Final
  <2>2. Follows(reader, c, reader') /\ IsReader(reader')
    BY <1>1, <2>1, FeedFollows, FeedIsReader DEF Input, Arrive
  <2>3. Last(text') = c
    BY <1>1 DEF Arrive, Last, FirstBracket
  <2>4. reader.scan = "between" => Complete(reader)
    BY <1>1, <2>1, EndDone DEF Complete, Feed, NumberStates
  <2>5. CASE reader'.wants = "refused"
    <3>1. ~Complete(reader')
      BY <2>5 DEF Complete, Feed, Final
    <3> QED BY <2>2, <2>5, <3>1 DEF Follows, Final
  <2>6. CASE reader'.wants = "done" /\ c \in {0, EOF} /\ reader.scan = "between"
    <3>1. c = 0
      BY <2>6 DEF Byte, EOF
    <3> QED BY <2>2, <2>3, <2>4, <2>6, <3>1 DEF Follows, Final
  <2>7. CASE /\ Ended(reader')
             /\ reader'.scan \notin {"start", "bom"}
             /\ reader'.scan = "between" => reader.scan = "between" /\ c \in White
    <3>1. Complete(reader') => reader'.scan = "between"
      <4>1. EOF \in Input
        BY DEF Input
      <4>2. Follows(reader', EOF, Feed(reader', EOF))
        BY <2>2, <2>7, <4>1, FeedFollows
      <4> QED BY <4>2 DEF Complete, Follows, Ended
    <3> QED BY <2>2, <2>3, <2>4, <2>7, <3>1 DEF Follows
  <2> QED BY <2>2, <2>5, <2>6, <2>7 DEF Follows
<1>2. FirstBracket /\ [\E c \in Byte : Arrive(c)]_<<text, reader>>
        => [Ended(reader) =>
              /\ Ended(reader') \/ Final(reader')
              /\ reader'.root = reader.root
              /\ Complete(reader') => Complete(reader) /\ Last(text') \in White \cup {0}
           ]_<<text, reader>>
  BY <1>1
<1> QED BY <1>2, StreamBrackets, PTL DEF Stream, NothingFollows
=============================================================================
