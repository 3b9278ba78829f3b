----------------------------- MODULE JsonGrammar ----------------------------
(***************************************************************************)
(* JSON as RFC 8259 defines it, a set of byte sequences, to hold the       *)
(* reader of module JsonText against.  A text is split in every way that   *)
(* a rule of the grammar allows: fit for short texts only.  Nothing here   *)
(* is taken from the library.  The RFC lets a reader limit the range of    *)
(* the numbers (section 9): here they stay below a limit.                  *)
(***************************************************************************)
EXTENDS Integers, Sequences

LOCAL INSTANCE SequencesExt
LOCAL INSTANCE FiniteSetsExt

CONSTANT NumberLimit  \* no number is as large as this

Digits(s) == s # <<>> /\ \A i \in DOMAIN s : s[i] \in 48 .. 57
HexDigits(s) == \A i \in DOMAIN s : s[i] \in (48 .. 57) \cup (65 .. 70) \cup (97 .. 102)
Whole(s) == Digits(s) /\ (Len(s) = 1 \/ s[1] # 48)
Fraction(s) == s = <<>> \/ (Head(s) = 46 /\ Digits(Tail(s)))
Exponent(s) ==
  \/ s = <<>>
  \/ /\ Head(s) \in {69, 101}
     /\ \/ Digits(Tail(s))
        \/ Len(s) > 1 /\ s[2] \in {43, 45} /\ Digits(Tail(Tail(s)))

\* Is the number below the limit?  Its decimal point stands behind the whole
\* digits, and the exponent moves it: what is then left of it, without zeros in
\* front and with those that are missing behind, is no more digits than the
\* limit has, and as a number less.
Exponential(s) ==
  LET value == FoldLeft(LAMBDA n, c : 10 * n + c - 48, 0, SelectSeq(s, LAMBDA c : c \in 48 .. 57))
  IN IF \E i \in DOMAIN s : s[i] = 45 THEN -value ELSE value
BelowLimit(whole, fraction, exponent) ==
  LET written == SelectSeq(whole \o fraction, LAMBDA c : c # 46)
      ink == {i \in DOMAIN written : written[i] # 48}
      left == Len(whole) + Exponential(exponent)
      length == CHOOSE n \in 1 .. 10 : 10^(n - 1) <= NumberLimit /\ NumberLimit < 10^n
      digit(i) == IF i \in DOMAIN written THEN written[i] - 48 ELSE 0
  IN \/ ink = {} \/ left < Min(ink)
     \/ /\ left - Min(ink) < length
        /\ FoldLeft(LAMBDA n, i : 10 * n + digit(i), 0, [k \in 1 .. left |-> k]) < NumberLimit

NumberText(s) ==
  LET t == IF s # <<>> /\ Head(s) = 45 THEN Tail(s) ELSE s
  IN \E i \in 0 .. Len(t) : \E j \in i .. Len(t) :
       /\ Whole(SubSeq(t, 1, i))
       /\ Fraction(SubSeq(t, i + 1, j))
       /\ Exponent(SubSeq(t, j + 1, Len(t)))
       /\ BelowLimit(SubSeq(t, 1, i), SubSeq(t, i + 1, j), SubSeq(t, j + 1, Len(t)))

\* The UTF-8 encoding of one character beyond ASCII: the shortest, and of no
\* surrogate.
Character(s) ==
  LET bits == [i \in 2 .. Len(s) |-> s[i] - 128]
      point == CASE Len(s) = 2 -> (s[1] - 192) * 64 + bits[2]
                 [] Len(s) = 3 -> (s[1] - 224) * 4096 + bits[2] * 64 + bits[3]
                 [] Len(s) = 4 -> (s[1] - 240) * 262144 + bits[2] * 4096 + bits[3] * 64 + bits[4]
  IN /\ Len(s) \in 2 .. 4
     /\ \A i \in 2 .. Len(s) : bits[i] \in 0 .. 63
     /\ CASE Len(s) = 2 -> s[1] \in 192 .. 223 /\ point > 127
          [] Len(s) = 3 -> s[1] \in 224 .. 239 /\ point > 2047 /\ point \notin 55296 .. 57343
          [] Len(s) = 4 -> s[1] \in 240 .. 247 /\ point \in 65536 .. 1114111

\* An escape; surrogates come in pairs (which the RFC advises).
Escaping(s) ==
  LET digit(c) == CASE c \in 48 .. 57 -> c - 48 [] c \in 65 .. 70 -> c - 55 [] OTHER -> c - 87
      four(i) == SubSeq(s, i, i + 3)
      point(i) == FoldLeft(LAMBDA n, c : 16 * n + digit(c), 0, four(i))
      hex(i) == s[i - 2] = 92 /\ s[i - 1] = 117 /\ HexDigits(four(i))
  IN \/ Len(s) = 2 /\ s[1] = 92 /\ s[2] \in {34, 47, 92, 98, 102, 110, 114, 116}
     \/ Len(s) = 6 /\ hex(3) /\ point(3) \notin 55296 .. 57343
     \/ Len(s) = 12 /\ hex(3) /\ hex(9) /\ point(3) \in 55296 .. 56319
                    /\ point(9) \in 56320 .. 57343

RECURSIVE Body(_)
Body(s) ==
  \/ s = <<>>
  \/ Head(s) \in (32 .. 127) \ {34, 92} /\ Body(Tail(s))
  \/ \E n \in {2, 3, 4, 6, 12} \cap (1 .. Len(s)) :
       LET first == SubSeq(s, 1, n)
       IN (Character(first) \/ Escaping(first)) /\ Body(SubSeq(s, n + 1, Len(s)))

\* A text without the blanks around it; and what two brackets enclose.
Trim(s) ==
  LET ink == {i \in DOMAIN s : s[i] \notin {9, 10, 13, 32}}
  IN IF ink = {} THEN <<>> ELSE SubSeq(s, Min(ink), Max(ink))
Enclosed(s, open, close) == Len(s) > 1 /\ Head(s) = open /\ Last(s) = close
Inner(s) == SubSeq(s, 2, Len(s) - 1)

StringText(s) == Enclosed(s, 34, 34) /\ Body(Inner(s))

RECURSIVE Element(_), Elements(_), Members(_)
Element(s) ==
  LET t == Trim(s)
  IN \/ t \in {<<116, 114, 117, 101>>, <<102, 97, 108, 115, 101>>, <<110, 117, 108, 108>>}
     \/ NumberText(t)
     \/ StringText(t)
     \/ Enclosed(t, 91, 93) /\ (Trim(Inner(t)) = <<>> \/ Elements(Inner(t)))
     \/ Enclosed(t, 123, 125) /\ (Trim(Inner(t)) = <<>> \/ Members(Inner(t)))
Elements(s) ==
  \/ Element(s)
  \/ \E i \in DOMAIN s : /\ s[i] = 44
                         /\ Element(SubSeq(s, 1, i - 1))
                         /\ Elements(SubSeq(s, i + 1, Len(s)))
Member(s) ==
  \E i \in DOMAIN s : /\ s[i] = 58
                      /\ StringText(Trim(SubSeq(s, 1, i - 1)))
                      /\ Element(SubSeq(s, i + 1, Len(s)))
Members(s) ==
  \/ Member(s)
  \/ \E i \in DOMAIN s : /\ s[i] = 44
                         /\ Member(SubSeq(s, 1, i - 1))
                         /\ Members(SubSeq(s, i + 1, Len(s)))

\* A byte order mark may stand before the text (the RFC lets a reader ignore it).
JsonTextual(s) ==
  Element(IF IsPrefix(<<239, 187, 191>>, s) THEN SubSeq(s, 4, Len(s)) ELSE s)
=============================================================================
