----------------------------- MODULE Utf8Proofs -----------------------------
(***************************************************************************)
(* The writer's automaton and the reader's cases know the same UTF-8: a    *)
(* string that the reader has taken is one that dump() writes, and a       *)
(* string that dump() writes is one that the reader takes.                 *)
(***************************************************************************)
EXTENDS Utf8, TLAPS

Live == DecodeState \ {UTF8_REJECT}

\* The classes, each with its bytes.
LEMMA Classes ==
  ASSUME NEW byte \in Byte
  PROVE  \/ Class(byte) = 0 /\ byte \in 0 .. 127
         \/ Class(byte) = 1 /\ byte \in 128 .. 143
         \/ Class(byte) = 9 /\ byte \in 144 .. 159
         \/ Class(byte) = 7 /\ byte \in 160 .. 191
         \/ Class(byte) = 2 /\ byte \in 194 .. 223
         \/ Class(byte) = 10 /\ byte = 224
         \/ Class(byte) = 3 /\ (byte \in 225 .. 236 \/ byte \in 238 .. 239)
         \/ Class(byte) = 4 /\ byte = 237
         \/ Class(byte) = 11 /\ byte = 240
         \/ Class(byte) = 6 /\ byte \in 241 .. 243
         \/ Class(byte) = 5 /\ byte = 244
         \/ Class(byte) = 8 /\ (byte \in 192 .. 193 \/ byte \in 245 .. 255)
BY DEF Byte, Class

\* The cases of the reader that are ranges.
LEMMA Followers ==
  ASSUME NEW byte \in Byte
  PROVE  /\ byte \in 194 .. 223 => Following(byte) = <<Continuation>>
         /\ byte \in 225 .. 236 \/ byte \in 238 .. 239 =>
              Following(byte) = <<Continuation, Continuation>>
         /\ byte \in 241 .. 243 =>
              Following(byte) = <<Continuation, Continuation, Continuation>>
BY DEF Following, Byte

\* What the two say of the first byte of a character.
StartsCharacter(byte) ==
  /\ Decode(0, byte) \in DecodeState
  /\ Decode(0, byte) = UTF8_REJECT <=> IllFormed(byte)
  /\ ~IllFormed(byte) => Following(byte) = Expected(Decode(0, byte))
LEMMA FirstByte == \A byte \in Byte : StartsCharacter(byte)
<1> TAKE byte \in Byte
<1> USE DEF StartsCharacter, Decode, Row, DecodeState, UTF8_REJECT, IllFormed
<1>1. CASE Class(byte) = 0 /\ byte \in 0 .. 127
  BY <1>1 DEF Following, Expected
<1>2. CASE Class(byte) \in {1, 7, 9} /\ byte \in 128 .. 191
  BY <1>2
<1>3. CASE Class(byte) = 2 /\ byte \in 194 .. 223
  <2>1. Following(byte) = <<Continuation>>
    BY <1>3, Followers
  <2>2. Decode(0, byte) = 2
    BY <1>3
  <2>3. Expected(2) = <<Continuation>>
    BY DEF Expected
  <2> QED BY <1>3, <2>1, <2>2, <2>3
<1>4. CASE Class(byte) = 10 /\ byte = 224
  BY <1>4 DEF Following, Expected
<1>5. CASE Class(byte) = 3 /\ (byte \in 225 .. 236 \/ byte \in 238 .. 239)
  <2>1. Following(byte) = <<Continuation, Continuation>>
    BY <1>5, Followers
  <2>2. Decode(0, byte) = 3
    BY <1>5
  <2>3. Expected(3) = <<Continuation, Continuation>>
    BY DEF Expected
  <2> QED BY <1>5, <2>1, <2>2, <2>3
<1>6. CASE Class(byte) = 4 /\ byte = 237
  BY <1>6 DEF Following, Expected
<1>7. CASE Class(byte) = 11 /\ byte = 240
  BY <1>7 DEF Following, Expected
<1>8. CASE Class(byte) = 6 /\ byte \in 241 .. 243
  <2>1. Following(byte) = <<Continuation, Continuation, Continuation>>
    BY <1>8, Followers
  <2>2. Decode(0, byte) = 7
    BY <1>8
  <2>3. Expected(7) = <<Continuation, Continuation, Continuation>>
    BY DEF Expected
  <2> QED BY <1>8, <2>1, <2>2, <2>3
<1>9. CASE Class(byte) = 5 /\ byte = 244
  BY <1>9 DEF Following, Expected
<1>10. CASE Class(byte) = 8 /\ (byte \in 192 .. 193 \/ byte \in 245 .. 255)
  BY <1>10
<1> QED
  <2> HIDE DEF StartsCharacter
  <2> QED BY <1>1, <1>2, <1>3, <1>4, <1>5, <1>6, <1>7, <1>8, <1>9, <1>10, Classes

\* What they say of a byte that must continue one: only its part of 0x80..0xBF
\* matters.
Continues(state, byte) ==
  /\ Decode(state, byte) \in DecodeState
  /\ Decode(state, byte) = UTF8_REJECT <=> ~InRange(byte, Head(Expected(state)))
  /\ InRange(byte, Head(Expected(state))) =>
       Tail(Expected(state)) = Expected(Decode(state, byte))
LEMMA NextByte == \A state \in 2 .. 8, byte \in Byte : Continues(state, byte)
<1> TAKE state \in 2 .. 8, byte \in Byte
<1> DEFINE c == Class(byte)
<1>1. \/ c = 1 /\ byte \in 128 .. 143
      \/ c = 9 /\ byte \in 144 .. 159
      \/ c = 7 /\ byte \in 160 .. 191
      \/ c \in {0, 2, 3, 4, 5, 6, 8, 10, 11} /\ byte \in Byte \ (128 .. 191)
  BY Classes DEF Byte
<1> HIDE DEF c
<1>2. CASE state = 2
  <2>1. /\ Head(Expected(state)) = <<128, 191>>
        /\ Tail(Expected(state)) = Expected(0)
    BY <1>2 DEF Expected, Continuation
  <2>2. Row(state)[c + 1] = IF byte \in 128 .. 191 THEN 0 ELSE 1
    BY <1>1, <1>2 DEF Row, Byte
  <2> QED BY <2>1, <2>2 DEF Continues, Decode, c, Byte, DecodeState, UTF8_REJECT, InRange
<1>3. CASE state = 3
  <2>1. /\ Head(Expected(state)) = <<128, 191>>
        /\ Tail(Expected(state)) = Expected(2)
    BY <1>3 DEF Expected, Continuation
  <2>2. Row(state)[c + 1] = IF byte \in 128 .. 191 THEN 2 ELSE 1
    BY <1>1, <1>3 DEF Row, Byte
  <2> QED BY <2>1, <2>2 DEF Continues, Decode, c, Byte, DecodeState, UTF8_REJECT, InRange
<1>4. CASE state = 4
  <2>1. /\ Head(Expected(state)) = <<160, 191>>
        /\ Tail(Expected(state)) = Expected(2)
    BY <1>4 DEF Expected, Continuation
  <2>2. Row(state)[c + 1] = IF byte \in 160 .. 191 THEN 2 ELSE 1
    BY <1>1, <1>4 DEF Row, Byte
  <2> QED BY <2>1, <2>2 DEF Continues, Decode, c, Byte, DecodeState, UTF8_REJECT, InRange
<1>5. CASE state = 5
  <2>1. /\ Head(Expected(state)) = <<128, 159>>
        /\ Tail(Expected(state)) = Expected(2)
    BY <1>5 DEF Expected, Continuation
  <2>2. Row(state)[c + 1] = IF byte \in 128 .. 159 THEN 2 ELSE 1
    BY <1>1, <1>5 DEF Row, Byte
  <2> QED BY <2>1, <2>2 DEF Continues, Decode, c, Byte, DecodeState, UTF8_REJECT, InRange
<1>6. CASE state = 6
  <2>1. /\ Head(Expected(state)) = <<144, 191>>
        /\ Tail(Expected(state)) = Expected(3)
    BY <1>6 DEF Expected, Continuation
  <2>2. Row(state)[c + 1] = IF byte \in 144 .. 191 THEN 3 ELSE 1
    BY <1>1, <1>6 DEF Row, Byte
  <2> QED BY <2>1, <2>2 DEF Continues, Decode, c, Byte, DecodeState, UTF8_REJECT, InRange
<1>7. CASE state = 7
  <2>1. /\ Head(Expected(state)) = <<128, 191>>
        /\ Tail(Expected(state)) = Expected(3)
    BY <1>7 DEF Expected, Continuation
  <2>2. Row(state)[c + 1] = IF byte \in 128 .. 191 THEN 3 ELSE 1
    BY <1>1, <1>7 DEF Row, Byte
  <2> QED BY <2>1, <2>2 DEF Continues, Decode, c, Byte, DecodeState, UTF8_REJECT, InRange
<1>8. CASE state = 8
  <2>1. /\ Head(Expected(state)) = <<128, 143>>
        /\ Tail(Expected(state)) = Expected(3)
    BY <1>8 DEF Expected, Continuation
  <2>2. Row(state)[c + 1] = IF byte \in 128 .. 143 THEN 3 ELSE 1
    BY <1>1, <1>8 DEF Row, Byte
  <2> QED BY <2>1, <2>2, SMTT(30) DEF Continues, Decode, c, Byte, DecodeState, UTF8_REJECT, InRange
<1> QED
  BY <1>2, <1>3, <1>4, <1>5, <1>6, <1>7, <1>8

\* From every state of the automaton but rejection, and for every byte: the
\* automaton rejects the byte exactly if the reader does; and if not, it goes
\* to a state in which the reader still expects what it does expect.
THEOREM SameUtf8 ==
  \A state \in Live, byte \in Byte :
    /\ Decode(state, byte) \in DecodeState
    /\ Decode(state, byte) = UTF8_REJECT <=> ~Accepts(Expected(state), byte)
    /\ Accepts(Expected(state), byte) =>
         Remaining(Expected(state), byte) = Expected(Decode(state, byte))
<1> TAKE state \in Live, byte \in Byte
<1>1. CASE state = 0
  <2>1. Expected(state) = <<>>
    BY <1>1 DEF Expected
  <2> QED BY <1>1, <2>1, FirstByte DEF StartsCharacter, Accepts, Remaining
<1>2. CASE state \in 2 .. 8
  <2>1. Expected(state) # <<>>
    BY <1>2 DEF Expected, Continuation
  <2> QED BY <1>2, <2>1, NextByte DEF Continues, Accepts, Remaining
<1> QED
  BY <1>1, <1>2 DEF Live, DecodeState, UTF8_REJECT
-----------------------------------------------------------------------------
(* Strings *)

\* f is the states the automaton goes through on s: f[i] after i bytes.
IsRun(f, s) ==
  f = [i \in 0 .. Len(s) |-> IF i = 0 THEN UTF8_ACCEPT ELSE Decode(f[i - 1], s[i])]

\* After the bytes of s the automaton is in state q.
RunsTo(s, q) ==
  /\ \E f : IsRun(f, s)
  /\ \A f : IsRun(f, s) => f[Len(s)] = q

LEMMA RunDecoded ==
  ASSUME NEW s, NEW q, RunsTo(s, q)
  PROVE  Decoded(s) = q
<1> DEFINE f == CHOOSE g : IsRun(g, s)
<1>1. IsRun(f, s)
  BY DEF RunsTo
<1>2. Decoded(s) = f[Len(s)]
  BY DEF Decoded, IsRun
<1> HIDE DEF f
<1> QED BY <1>1, <1>2 DEF RunsTo

LEMMA RunEmpty == RunsTo(<<>>, UTF8_ACCEPT)
<1> DEFINE f == [i \in 0 .. 0 |-> UTF8_ACCEPT]
<1>1. Len(<<>>) = 0
  OBVIOUS
<1>2. IsRun(f, <<>>)
  BY <1>1 DEF IsRun
<1>3. ASSUME NEW g, IsRun(g, <<>>) PROVE g[0] = UTF8_ACCEPT
  BY <1>1, <1>3 DEF IsRun
<1> HIDE DEF f
<1> QED BY <1>1, <1>2, <1>3 DEF RunsTo

\* One byte more: a run is extended, and every run of the longer string is one
\* of the shorter.
LEMMA RunAppend ==
  ASSUME NEW s \in Seq(Byte), NEW q, RunsTo(s, q), NEW c \in Byte
  PROVE  RunsTo(Append(s, c), Decode(q, c))
<1> DEFINE n == Len(s)
           t == Append(s, c)
           step(before, i) == IF i = 0 THEN UTF8_ACCEPT ELSE Decode(before, t[i])
<1>1. n \in Nat /\ Len(t) = n + 1 /\ t[n + 1] = c /\ \A i \in 1 .. n : t[i] = s[i]
  OBVIOUS
<1>2. PICK f : IsRun(f, s)
  BY DEF RunsTo
<1>3. f[n] = q
  BY <1>2 DEF RunsTo
<1> HIDE DEF t
<1>4. \A i \in 0 .. n : f[i] = step(f[i - 1], i)
  BY <1>1, <1>2 DEF IsRun
<1> HIDE DEF step
<1> DEFINE g == [i \in 0 .. n + 1 |-> IF i = n + 1 THEN step(f[n], n + 1) ELSE f[i]]
<1>5. ASSUME NEW i \in 0 .. n + 1 PROVE g[i] = step(g[i - 1], i)
  <2>1. CASE i = 0
    BY <1>1, <1>4, <2>1 DEF step
  <2>2. CASE i \in 1 .. n
    <3>1. i - 1 \in 0 .. n /\ i - 1 # n + 1
      BY <1>1, <2>2
    <3>2. g[i - 1] = f[i - 1]
      BY <1>1, <3>1
    <3> QED BY <1>1, <1>4, <2>2, <3>2
  <2>3. CASE i = n + 1
    <3>1. g[n] = f[n]
      BY <1>1
    <3> QED BY <1>1, <2>3, <3>1
  <2> QED BY <1>1, <2>1, <2>2, <2>3
<1>6. IsRun(g, t)
  <2>1. [i \in 0 .. n + 1 |-> g[i]] = [i \in 0 .. n + 1 |-> step(g[i - 1], i)]
    <3> HIDE DEF g
    <3> QED BY <1>5
  <2> QED BY <1>1, <2>1 DEF IsRun, step
<1>7. ASSUME NEW h, IsRun(h, t) PROVE h[n + 1] = Decode(q, c)
  <2> DEFINE k == [i \in 0 .. n |-> h[i]]
  <2>1. \A i \in 0 .. n + 1 : h[i] = step(h[i - 1], i)
    BY <1>1, <1>7 DEF IsRun, step
  <2>2. ASSUME NEW i \in 0 .. n
        PROVE  k[i] = IF i = 0 THEN UTF8_ACCEPT ELSE Decode(k[i - 1], s[i])
    <3>1. CASE i = 0
      BY <1>1, <2>1, <3>1 DEF step
    <3>2. CASE i # 0
      <4>1. i \in 1 .. n /\ i - 1 \in 0 .. n /\ t[i] = s[i] /\ k[i - 1] = h[i - 1]
        BY <1>1, <3>2
      <4> QED BY <2>1, <3>2, <4>1 DEF step
    <3> QED BY <3>1, <3>2
  <2>3. IsRun(k, s)
    <3>1. [i \in 0 .. n |-> k[i]] =
            [i \in 0 .. n |-> IF i = 0 THEN UTF8_ACCEPT ELSE Decode(k[i - 1], s[i])]
      <4> HIDE DEF k
      <4> QED BY <2>2
    <3> QED BY <3>1 DEF IsRun
  <2>4. k[n] = q
    BY <2>3 DEF RunsTo
  <2>5. h[n] = q
    BY <1>1, <2>4
  <2>6. h[n + 1] = step(h[n], n + 1)
    BY <1>1, <2>1
  <2> QED BY <1>1, <2>5, <2>6 DEF step
<1> HIDE DEF g
<1> QED BY <1>1, <1>6, <1>7 DEF RunsTo, t

\* The automaton on the first byte of a character, and on the others.
LEMMA Leads ==
  ASSUME NEW byte \in Byte
  PROVE  /\ byte \in 0 .. 127 => Decode(0, byte) = 0
         /\ byte \in 194 .. 223 => Decode(0, byte) = 2
         /\ byte = 224 => Decode(0, byte) = 4
         /\ byte \in 225 .. 236 \/ byte \in 238 .. 239 => Decode(0, byte) = 3
         /\ byte = 237 => Decode(0, byte) = 5
         /\ byte = 240 => Decode(0, byte) = 6
         /\ byte \in 241 .. 243 => Decode(0, byte) = 7
         /\ byte = 244 => Decode(0, byte) = 8
BY Classes, SMTT(30) DEF Decode, Row, Byte

LEMMA Trails ==
  ASSUME NEW byte \in 128 .. 191
  PROVE  /\ Decode(2, byte) = 0
         /\ Decode(3, byte) = 2
         /\ byte >= 160 => Decode(4, byte) = 2
         /\ byte < 160 => Decode(5, byte) = 2
         /\ byte >= 144 => Decode(6, byte) = 3
         /\ Decode(7, byte) = 3
         /\ byte < 144 => Decode(8, byte) = 3
<1>1. \/ Class(byte) = 1 /\ byte \in 128 .. 143
      \/ Class(byte) = 9 /\ byte \in 144 .. 159
      \/ Class(byte) = 7 /\ byte \in 160 .. 191
  BY Classes DEF Byte
<1> QED BY <1>1, SMTT(30) DEF Decode, Row

\* A byte that leads from q to p.
LEMMA RunOn ==
  ASSUME NEW s \in Seq(Byte), NEW q, NEW p, NEW c \in Byte, RunsTo(s, q), Decode(q, c) = p
  PROVE  Append(s, c) \in Seq(Byte) /\ RunsTo(Append(s, c), p)
<1>1. RunsTo(Append(s, c), Decode(q, c))
  BY RunAppend
<1> QED BY <1>1

\* The characters of one to four bytes.
LEMMA OneByte ==
  ASSUME NEW s \in Seq(Byte), RunsTo(s, 0), NEW a \in 0 .. 127
  PROVE  Append(s, a) \in Seq(Byte) /\ RunsTo(Append(s, a), 0)
<1>1. a \in Byte
  BY DEF Byte
<1>2. Decode(0, a) = 0
  BY <1>1, Leads
<1> QED BY <1>1, <1>2, RunOn

LEMMA TwoBytes ==
  ASSUME NEW s \in Seq(Byte), RunsTo(s, 0), NEW a \in 194 .. 223, NEW b \in 128 .. 191
  PROVE  Append(Append(s, a), b) \in Seq(Byte) /\ RunsTo(Append(Append(s, a), b), 0)
<1>1. a \in Byte /\ b \in Byte
  BY DEF Byte
<1>2. Decode(0, a) = 2 /\ Decode(2, b) = 0
  BY <1>1, Leads, Trails
<1>3. Append(s, a) \in Seq(Byte) /\ RunsTo(Append(s, a), 2)
  BY <1>1, <1>2, RunOn
<1> QED BY <1>1, <1>2, <1>3, RunOn

LEMMA ThreeBytes ==
  ASSUME NEW s \in Seq(Byte), RunsTo(s, 0), NEW a \in 224 .. 239,
         NEW b \in 128 .. 191, NEW c \in 128 .. 191, a = 224 => b >= 160, a = 237 => b < 160
  PROVE  /\ Append(Append(Append(s, a), b), c) \in Seq(Byte)
         /\ RunsTo(Append(Append(Append(s, a), b), c), 0)
<1>1. a \in Byte /\ b \in Byte /\ c \in Byte
  BY DEF Byte
<1>2. a = 224 \/ a = 237 \/ a \in 225 .. 236 \/ a \in 238 .. 239
  OBVIOUS
<1>3. Decode(Decode(0, a), b) = 2 /\ Decode(2, c) = 0
  <2>1. a = 224 => Decode(0, a) = 4 /\ Decode(4, b) = 2
    BY <1>1, Leads, Trails, ZenonT(30)
  <2>2. a = 237 => Decode(0, a) = 5 /\ Decode(5, b) = 2
    BY <1>1, Leads, Trails, ZenonT(30)
  <2>3. a \in 225 .. 236 \/ a \in 238 .. 239 => Decode(0, a) = 3
    BY <1>1, Leads
  <2>4. Decode(3, b) = 2 /\ Decode(2, c) = 0
    BY Trails
  <2> QED BY <1>2, <2>1, <2>2, <2>3, <2>4
<1>4. Append(s, a) \in Seq(Byte) /\ RunsTo(Append(s, a), Decode(0, a))
  BY <1>1, RunOn
<1>5. Append(Append(s, a), b) \in Seq(Byte) /\ RunsTo(Append(Append(s, a), b), 2)
  BY <1>1, <1>3, <1>4, RunOn
<1> QED BY <1>1, <1>3, <1>5, RunOn

LEMMA FourBytes ==
  ASSUME NEW s \in Seq(Byte), RunsTo(s, 0), NEW a \in 240 .. 244, NEW b \in 128 .. 191,
         NEW c \in 128 .. 191, NEW d \in 128 .. 191, a = 240 => b >= 144, a = 244 => b < 144
  PROVE  /\ Append(Append(Append(Append(s, a), b), c), d) \in Seq(Byte)
         /\ RunsTo(Append(Append(Append(Append(s, a), b), c), d), 0)
<1>1. a \in Byte /\ b \in Byte /\ c \in Byte /\ d \in Byte
  BY DEF Byte
<1>2. a = 240 \/ a = 244 \/ a \in 241 .. 243
  OBVIOUS
<1>3. Decode(Decode(0, a), b) = 3 /\ Decode(3, c) = 2 /\ Decode(2, d) = 0
  <2>1. a = 240 => Decode(0, a) = 6 /\ Decode(6, b) = 3
    BY <1>1, Leads, Trails, ZenonT(30)
  <2>2. a = 244 => Decode(0, a) = 8 /\ Decode(8, b) = 3
    BY <1>1, Leads, Trails, ZenonT(30)
  <2>3. a \in 241 .. 243 => Decode(0, a) = 7
    BY <1>1, Leads
  <2>4. Decode(7, b) = 3 /\ Decode(3, c) = 2 /\ Decode(2, d) = 0
    BY Trails
  <2> QED BY <1>2, <2>1, <2>2, <2>3, <2>4
<1>4. Append(s, a) \in Seq(Byte) /\ RunsTo(Append(s, a), Decode(0, a))
  BY <1>1, RunOn
<1>5. Append(Append(s, a), b) \in Seq(Byte) /\ RunsTo(Append(Append(s, a), b), 3)
  BY <1>1, <1>3, <1>4, RunOn
<1>6. /\ Append(Append(Append(s, a), b), c) \in Seq(Byte)
      /\ RunsTo(Append(Append(Append(s, a), b), c), 2)
  BY <1>1, <1>3, <1>5, RunOn
<1> QED BY <1>1, <1>3, <1>6, RunOn
=============================================================================
