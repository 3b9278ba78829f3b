------------------------- MODULE JsonReadingProofs --------------------------
(***************************************************************************)
(* What dump writes, parse reads back as the same value: a theorem for     *)
(* every set of values, whatever their strings, numbers, lengths and       *)
(* nesting.  A reader is followed from the state between two tokens, over  *)
(* the text of a value, to the state in which the value has been taken.    *)
(***************************************************************************)
EXTENDS JsonReading, JsonProofs, FiniteSetTheorems, FunctionTheorems, WellFoundedInduction

-----------------------------------------------------------------------------
(* Induction *)

\* A set of natural numbers has a smallest element: of the intervals from 0 to
\* its elements, one is smallest.
LEMMA SmallestNumber ==
  ASSUME NEW Bad, Bad \subseteq Nat, Bad # {}
  PROVE  \E m \in Bad : \A k \in Nat : k < m => k \notin Bad
<1>1. PICK n \in Bad : TRUE
  OBVIOUS
<1> DEFINE S == 0 .. n
           Sets == {0 .. m : m \in Bad \cap (0 .. n)}
<1>2. n \in Nat /\ IsFiniteSet(S)
  BY FS_Interval
<1>3. Sets \subseteq FiniteSubsetsOf(S) /\ Sets # {}
  <2>1. 0 .. n \in Sets
    BY <1>2
  <2>2. \A T \in Sets : T \subseteq S
    BY <1>2
  <2> HIDE DEF Sets, S
  <2> QED BY <1>2, <2>1, <2>2, FS_Subset DEF FiniteSubsetsOf
<1>4. PICK T \in Sets : \A U \in Sets : <<U, T>> \notin StrictSubsetOrdering(S)
  <2> HIDE DEF Sets
  <2> QED BY <1>2, <1>3, FS_StrictSubsetOrderingWellFounded, WFMin
<1>5. PICK m \in Bad \cap (0 .. n) : T = 0 .. m
  OBVIOUS
<1>6. ASSUME NEW k \in Nat, k < m, k \in Bad PROVE FALSE
  <2>1. 0 .. k \in Sets
    BY <1>5, <1>6
  <2>2. 0 .. k \subseteq 0 .. m /\ 0 .. k # 0 .. m
    BY <1>5, <1>6
  <2>3. <<0 .. k, T>> \in StrictSubsetOrdering(S)
    BY <1>3, <1>5, <2>1, <2>2 DEF StrictSubsetOrdering, FiniteSubsetsOf
  <2> QED BY <1>4, <2>1, <2>3
<1> QED BY <1>5, <1>6

\* What holds of 0, and of a number if of the one before it, up to n.
LEMMA UpTo ==
  ASSUME NEW n \in Nat, NEW S, 0 \in S, \A i \in 1 .. n : i - 1 \in S => i \in S
  PROVE  \A i \in 0 .. n : i \in S
<1> DEFINE Bad == {i \in 0 .. n : i \notin S}
<1>1. SUFFICES ASSUME Bad # {} PROVE FALSE
  OBVIOUS
<1>2. PICK m \in Bad : \A k \in Nat : k < m => k \notin Bad
  <2>1. Bad \subseteq Nat
    OBVIOUS
  <2> HIDE DEF Bad
  <2> QED BY <1>1, <2>1, SmallestNumber
<1>3. m # 0 /\ m \in 0 .. n
  OBVIOUS
<1>4. m \in 1 .. n /\ m - 1 \in 0 .. n /\ m - 1 \in Nat /\ m - 1 < m
  BY <1>3
<1> QED BY <1>2, <1>3, <1>4
-----------------------------------------------------------------------------
(* Reading a text *)

\* The reader r becomes q over the bytes of s; f has the readers on the way.
IsReading(f, r, s) == f[0] = r /\ \A i \in 1 .. Len(s) : f[i] = Feed(f[i - 1], s[i])
Reads(r, s, q) == \E f : IsReading(f, r, s) /\ f[Len(s)] = q

\* No byte, no change; and one byte.
LEMMA ReadsNothing == \A r : Reads(r, <<>>, r)
<1> TAKE r
<1> DEFINE f == [i \in 0 .. 0 |-> r]
<1>1. Len(<<>>) = 0 /\ f[0] = r
  OBVIOUS
<1> HIDE DEF f
<1>2. IsReading(f, r, <<>>)
  BY <1>1 DEF IsReading
<1> QED BY <1>1, <1>2 DEF Reads

LEMMA ReadsByte == \A r, c : Reads(r, <<c>>, Feed(r, c))
<1> TAKE r, c
<1> DEFINE f == [i \in 0 .. 1 |-> IF i = 0 THEN r ELSE Feed(r, c)]
<1>1. Len(<<c>>) = 1 /\ <<c>>[1] = c /\ f[0] = r /\ f[1] = Feed(r, c)
  OBVIOUS
<1> HIDE DEF f
<1>2. IsReading(f, r, <<c>>)
  BY <1>1 DEF IsReading
<1> QED BY <1>1, <1>2 DEF Reads

\* One text after the other.
LEMMA ReadsOn ==
  ASSUME NEW S, NEW s \in Seq(S), NEW t \in Seq(S), NEW r, NEW p, NEW q,
         Reads(r, s, p), Reads(p, t, q)
  PROVE  Reads(r, s \o t, q)
<1> DEFINE m == Len(s)
           n == Len(t)
<1>1. PICK f : IsReading(f, r, s) /\ f[m] = p
  BY DEF Reads
<1>2. PICK g : IsReading(g, p, t) /\ g[n] = q
  BY DEF Reads
<1> DEFINE h == [i \in 0 .. m + n |-> IF i <= m THEN f[i] ELSE g[i - m]]
<1>3. /\ m \in Nat /\ n \in Nat /\ Len(s \o t) = m + n
      /\ \A i \in 1 .. m + n : (s \o t)[i] = IF i <= m THEN s[i] ELSE t[i - m]
  OBVIOUS
<1>4. h[0] = r /\ h[m + n] = q
  BY SMTT(30), <1>1, <1>2, <1>3 DEF IsReading
<1>5. ASSUME NEW i \in 1 .. m + n PROVE h[i] = Feed(h[i - 1], (s \o t)[i])
  <2>1. CASE i <= m
    <3>1. h[i] = f[i] /\ h[i - 1] = f[i - 1] /\ (s \o t)[i] = s[i] /\ i \in 1 .. m
      BY <1>3, <2>1
    <3> QED BY <1>1, <3>1 DEF IsReading
  <2>2. CASE i > m
    <3>1. h[i] = g[i - m] /\ (s \o t)[i] = t[i - m] /\ i - m \in 1 .. n
      BY <1>3, <2>2
    <3>2. h[i - 1] = g[i - m - 1]
      <4>1. g[0] = f[m] /\ i - 1 \in 0 .. m + n
        BY <1>1, <1>2, <1>3 DEF IsReading
      <4>2. CASE i = m + 1
        BY <1>3, <4>1, <4>2
      <4>3. CASE i # m + 1
        BY SMTT(30), <1>3, <2>2, <4>1, <4>3
      <4> QED BY <4>2, <4>3
    <3> QED BY <1>2, <3>1, <3>2 DEF IsReading
  <2> QED BY <1>3, <2>1, <2>2
<1> HIDE DEF h
<1>6. IsReading(h, r, s \o t)
  BY <1>3, <1>4, <1>5 DEF IsReading
<1> QED BY <1>3, <1>4, <1>6 DEF Reads

\* And one more byte.
LEMMA ReadsMore ==
  ASSUME NEW S, NEW s \in Seq(S), NEW c \in S, NEW r, NEW q, Reads(r, s, q)
  PROVE  Reads(r, Append(s, c), Feed(q, c))
<1>1. <<c>> \in Seq(S) /\ Append(s, c) = s \o <<c>>
  BY AppendIsConcat
<1> QED BY <1>1, ReadsByte, ReadsOn

\* One byte, as a relation.
Steps(r, c, q) == Feed(r, c) = q

\* What a reader becomes is determined.
LEMMA ReadsOnce ==
  ASSUME NEW S, NEW s \in Seq(S), NEW r, NEW p, NEW q, Reads(r, s, p), Reads(r, s, q)
  PROVE  p = q
<1> DEFINE n == Len(s)
<1>1. PICK f : IsReading(f, r, s) /\ f[n] = p
  BY DEF Reads
<1>2. PICK g : IsReading(g, r, s) /\ g[n] = q
  BY DEF Reads
<1> DEFINE Same == {i \in 0 .. n : f[i] = g[i]}
<1>3. n \in Nat
  OBVIOUS
<1>4. 0 \in Same
  BY <1>1, <1>2, <1>3 DEF IsReading
<1>5. ASSUME NEW i \in 1 .. n, i - 1 \in Same PROVE i \in Same
  <2>1. f[i] = Feed(f[i - 1], s[i]) /\ g[i] = Feed(g[i - 1], s[i])
    BY <1>1, <1>2, <1>3 DEF IsReading
  <2> QED BY <1>3, <1>5, <2>1
<1>6. n \in Same
  <2> HIDE DEF Same
  <2>1. \A i \in 0 .. n : i \in Same
    BY <1>3, <1>4, <1>5, UpTo
  <2> QED BY <1>3, <2>1
<1> QED BY <1>1, <1>2, <1>6
-----------------------------------------------------------------------------
(* Between two tokens, and inside one *)

Amid(scan, rest, token, wants, stack, root) ==
  [scan |-> scan, rest |-> rest, token |-> token, high |-> 0,
   wants |-> wants, stack |-> stack, root |-> root]
Ready(wants, stack, root) == Amid("between", <<>>, <<>>, wants, stack, root)

\* Readers are the same if their fields are.
ReaderFields == {"scan", "rest", "token", "high", "wants", "stack", "root"}
IsMade(r) == r = [field \in ReaderFields |-> r[field]]

LEMMA SameReader ==
  ASSUME NEW r, NEW q, IsMade(r), IsMade(q),
         r.scan = q.scan, r.rest = q.rest, r.token = q.token, r.high = q.high,
         r.wants = q.wants, r.stack = q.stack, r.root = q.root
  PROVE  r = q
<1>1. \A field \in ReaderFields : r[field] = q[field]
  BY DEF ReaderFields
<1> DEFINE D == ReaderFields
<1>2. r = [field \in D |-> r[field]] /\ q = [field \in D |-> q[field]]
  BY DEF IsMade
<1> HIDE DEF D
<1>3. [field \in D |-> r[field]] = [field \in D |-> q[field]]
  BY <1>1 DEF D
<1> QED BY <1>2, <1>3, Zenon

\* The fields of such a reader.
LEMMA Fields ==
  ASSUME NEW scan, NEW rest, NEW token, NEW wants, NEW stack, NEW root
  PROVE  LET r == Amid(scan, rest, token, wants, stack, root)
         IN /\ r.scan = scan /\ r.rest = rest /\ r.token = token /\ r.high = 0
            /\ r.wants = wants /\ r.stack = stack /\ r.root = root
            /\ IsMade(r)
BY DEF Amid, IsMade, ReaderFields

\* What the assignments of the lexer make of a reader,
LEMMA Awaits ==
  ASSUME NEW scan, NEW rest, NEW token, NEW wants, NEW stack, NEW root,
         NEW to, NEW bytes
  PROVE  LET r == Amid(scan, rest, token, wants, stack, root)
         IN Await(r, to, bytes) =
              Amid(to, bytes, token, wants, stack, root)
<1> DEFINE r == Amid(scan, rest, token, wants, stack, root)
           q == Await(r, to, bytes)
<1>1. /\ q.scan = to /\ q.rest = bytes /\ q.token = token /\ q.high = 0
      /\ q.wants = wants /\ q.stack = stack /\ q.root = root
      /\ IsMade(q)
  BY DEF Amid, IsMade, ReaderFields, Await
<1> HIDE DEF q
<1>2. q = Amid(to, bytes, token, wants, stack, root)
  BY <1>1, Fields, SameReader
<1> QED BY <1>2 DEF q

\* of one that has begun a token,
LEMMA AwaitsToken ==
  ASSUME NEW scan, NEW rest, NEW token, NEW wants, NEW stack, NEW root,
         NEW to, NEW bytes, NEW t
  PROVE  LET r == Amid(scan, rest, token, wants, stack, root)
         IN [Await(r, to, bytes) EXCEPT !.token = t] =
              Amid(to, bytes, t, wants, stack, root)
<1> DEFINE r == Amid(scan, rest, token, wants, stack, root)
           q == [Await(r, to, bytes) EXCEPT !.token = t]
<1>1. /\ q.scan = to /\ q.rest = bytes /\ q.token = t /\ q.high = 0
      /\ q.wants = wants /\ q.stack = stack /\ q.root = root
      /\ IsMade(q)
  BY DEF Amid, IsMade, ReaderFields, Await
<1> HIDE DEF q
<1>2. q = Amid(to, bytes, t, wants, stack, root)
  BY <1>1, Fields, SameReader
<1> QED BY <1>2 DEF q

Moved(r, to, t) == [r EXCEPT !.scan = to, !.token = t]

\* of one in a number,
LEMMA Moves ==
  ASSUME NEW scan, NEW rest, NEW token, NEW wants, NEW stack, NEW root,
         NEW to, NEW t
  PROVE  LET r == Amid(scan, rest, token, wants, stack, root)
         IN Moved(r, to, t) =
              Amid(to, rest, t, wants, stack, root)
<1> DEFINE r == Amid(scan, rest, token, wants, stack, root)
           q == [r EXCEPT !.scan = to, !.token = t]
<1>1. /\ q.scan = to /\ q.rest = rest /\ q.token = t /\ q.high = 0
      /\ q.wants = wants /\ q.stack = stack /\ q.root = root
      /\ IsMade(q)
  BY DEF Amid, IsMade, ReaderFields
<1> HIDE DEF q
<1>2. q = Amid(to, rest, t, wants, stack, root)
  BY <1>1, Fields, SameReader
<1> QED BY <1>2 DEF q, Moved

\* of one in a word or between the digits of an escape,
LEMMA Rests ==
  ASSUME NEW scan, NEW rest, NEW token, NEW wants, NEW stack, NEW root,
         NEW bytes
  PROVE  LET r == Amid(scan, rest, token, wants, stack, root)
         IN [r EXCEPT !.rest = bytes] =
              Amid(scan, bytes, token, wants, stack, root)
<1> DEFINE r == Amid(scan, rest, token, wants, stack, root)
           q == [r EXCEPT !.rest = bytes]
<1>1. /\ q.scan = scan /\ q.rest = bytes /\ q.token = token /\ q.high = 0
      /\ q.wants = wants /\ q.stack = stack /\ q.root = root
      /\ IsMade(q)
  BY DEF Amid, IsMade, ReaderFields
<1> HIDE DEF q
<1>2. q = Amid(scan, bytes, token, wants, stack, root)
  BY <1>1, Fields, SameReader
<1> QED BY <1>2 DEF q

\* of one in a string,
LEMMA Grows ==
  ASSUME NEW scan, NEW rest, NEW token, NEW wants, NEW stack, NEW root,
         NEW bytes, NEW t
  PROVE  LET r == Amid(scan, rest, token, wants, stack, root)
         IN [r EXCEPT !.rest = bytes, !.token = t] =
              Amid(scan, bytes, t, wants, stack, root)
<1> DEFINE r == Amid(scan, rest, token, wants, stack, root)
           q == [r EXCEPT !.rest = bytes, !.token = t]
<1>1. /\ q.scan = scan /\ q.rest = bytes /\ q.token = t /\ q.high = 0
      /\ q.wants = wants /\ q.stack = stack /\ q.root = root
      /\ IsMade(q)
  BY DEF Amid, IsMade, ReaderFields
<1> HIDE DEF q
<1>2. q = Amid(scan, bytes, t, wants, stack, root)
  BY <1>1, Fields, SameReader
<1> QED BY <1>2 DEF q

Emptied(r) == [r EXCEPT !.scan = "between", !.rest = <<>>, !.token = <<>>]

\* of one that has come to the end of a token,
LEMMA Empties ==
  ASSUME NEW scan, NEW rest, NEW token, NEW wants, NEW stack, NEW root
  PROVE  LET r == Amid(scan, rest, token, wants, stack, root)
         IN Emptied(r) =
              Amid("between", <<>>, <<>>, wants, stack, root)
<1> DEFINE r == Amid(scan, rest, token, wants, stack, root)
           q == [r EXCEPT !.scan = "between", !.rest = <<>>, !.token = <<>>]
<1>1. /\ q.scan = "between" /\ q.rest = <<>> /\ q.token = <<>> /\ q.high = 0
      /\ q.wants = wants /\ q.stack = stack /\ q.root = root
      /\ IsMade(q)
  BY DEF Amid, IsMade, ReaderFields
<1> HIDE DEF q
<1>2. q = Amid("between", <<>>, <<>>, wants, stack, root)
  BY <1>1, Fields, SameReader
<1> QED BY <1>2 DEF q, Emptied

\* of one that has read an escape,
LEMMA Writes ==
  ASSUME NEW scan, NEW rest, NEW token, NEW wants, NEW stack, NEW root,
         NEW p
  PROVE  LET r == Amid(scan, rest, token, wants, stack, root)
         IN Character(r, p) =
              Amid("string", <<>>, token \o Encode(p), wants, stack, root)
<1> DEFINE r == Amid(scan, rest, token, wants, stack, root)
           q == Character(r, p)
           t == token \o Encode(p)
<1>1. /\ q.scan = "string" /\ q.rest = <<>> /\ q.token = t /\ q.high = 0
      /\ q.wants = wants /\ q.stack = stack /\ q.root = root
      /\ IsMade(q)
  BY DEF Amid, IsMade, ReaderFields, Await, Character
<1> HIDE DEF q, t
<1>2. q = Amid("string", <<>>, t, wants, stack, root)
  BY <1>1, Fields, SameReader
<1> QED BY <1>2 DEF q, t

\* and those of the parser.
LEMMA Wants ==
  ASSUME NEW scan, NEW rest, NEW token, NEW wants, NEW stack, NEW root,
         NEW w
  PROVE  LET r == Amid(scan, rest, token, wants, stack, root)
         IN [r EXCEPT !.wants = w] =
              Amid(scan, rest, token, w, stack, root)
<1> DEFINE r == Amid(scan, rest, token, wants, stack, root)
           q == [r EXCEPT !.wants = w]
<1>1. /\ q.scan = scan /\ q.rest = rest /\ q.token = token /\ q.high = 0
      /\ q.wants = w /\ q.stack = stack /\ q.root = root
      /\ IsMade(q)
  BY DEF Amid, IsMade, ReaderFields
<1> HIDE DEF q
<1>2. q = Amid(scan, rest, token, w, stack, root)
  BY <1>1, Fields, SameReader
<1> QED BY <1>2 DEF q

Rooted(r, x, w) == [r EXCEPT !.root = x, !.wants = w]

\* of one whose value is whole,
LEMMA Roots ==
  ASSUME NEW scan, NEW rest, NEW token, NEW wants, NEW stack, NEW root,
         NEW x, NEW w
  PROVE  LET r == Amid(scan, rest, token, wants, stack, root)
         IN Rooted(r, x, w) =
              Amid(scan, rest, token, w, stack, x)
<1> DEFINE r == Amid(scan, rest, token, wants, stack, root)
           q == [r EXCEPT !.root = x, !.wants = w]
<1>1. /\ q.scan = scan /\ q.rest = rest /\ q.token = token /\ q.high = 0
      /\ q.wants = w /\ q.stack = stack /\ q.root = x
      /\ IsMade(q)
  BY DEF Amid, IsMade, ReaderFields
<1> HIDE DEF q
<1>2. q = Amid(scan, rest, token, w, stack, x)
  BY <1>1, Fields, SameReader
<1> QED BY <1>2 DEF q, Rooted

Pushed(r, k, w) == [r EXCEPT !.stack = k, !.wants = w]

\* of one that opens a bracket or takes a part,
LEMMA Pushes ==
  ASSUME NEW scan, NEW rest, NEW token, NEW wants, NEW stack, NEW root,
         NEW k, NEW w
  PROVE  LET r == Amid(scan, rest, token, wants, stack, root)
         IN Pushed(r, k, w) =
              Amid(scan, rest, token, w, k, root)
<1> DEFINE r == Amid(scan, rest, token, wants, stack, root)
           q == [r EXCEPT !.stack = k, !.wants = w]
<1>1. /\ q.scan = scan /\ q.rest = rest /\ q.token = token /\ q.high = 0
      /\ q.wants = w /\ q.stack = k /\ q.root = root
      /\ IsMade(q)
  BY DEF Amid, IsMade, ReaderFields
<1> HIDE DEF q
<1>2. q = Amid(scan, rest, token, w, k, root)
  BY <1>1, Fields, SameReader
<1> QED BY <1>2 DEF q, Pushed

\* and of one that closes a bracket.
LEMMA Pops ==
  ASSUME NEW scan, NEW rest, NEW token, NEW wants, NEW stack, NEW root,
         NEW k
  PROVE  LET r == Amid(scan, rest, token, wants, stack, root)
         IN [r EXCEPT !.stack = k] =
              Amid(scan, rest, token, wants, k, root)
<1> DEFINE r == Amid(scan, rest, token, wants, stack, root)
           q == [r EXCEPT !.stack = k]
<1>1. /\ q.scan = scan /\ q.rest = rest /\ q.token = token /\ q.high = 0
      /\ q.wants = wants /\ q.stack = k /\ q.root = root
      /\ IsMade(q)
  BY DEF Amid, IsMade, ReaderFields
<1> HIDE DEF q
<1>2. q = Amid(scan, rest, token, wants, k, root)
  BY <1>1, Fields, SameReader
<1> QED BY <1>2 DEF q
-----------------------------------------------------------------------------
(* Texts of texts *)

\* f joins the first texts of seqs, one after the other.
IsFlatten(f, seqs, n) ==
  f = [i \in 1 .. n |-> IF i = 1 THEN seqs[i] ELSE f[i - 1] \o seqs[i]]

\* The fold that FlattenSeq is has a value, for any number of texts.
LEMMA FlattenExists ==
  ASSUME NEW seqs, NEW n \in Nat
  PROVE  \E f : IsFlatten(f, seqs, n)
<1> DEFINE Good == {i \in Nat : \E f : IsFlatten(f, seqs, i)}
<1>1. 0 \in Good
  <2> DEFINE f == [i \in 1 .. 0 |-> <<>>]
  <2>1. IsFlatten(f, seqs, 0)
    BY DEF IsFlatten
  <2> QED BY <2>1
<1>2. ASSUME NEW m \in 1 .. n, m - 1 \in Good PROVE m \in Good
  <2>1. m \in Nat /\ m - 1 \in Nat
    OBVIOUS
  <2>2. PICK f : IsFlatten(f, seqs, m - 1)
    BY <1>2
  <2> DEFINE body(i, before) == IF i = 1 THEN seqs[i] ELSE before \o seqs[i]
             g == [i \in 1 .. m |-> IF i = m THEN body(i, f[m - 1]) ELSE f[i]]
  <2>3. \A i \in 1 .. m - 1 : f[i] = body(i, f[i - 1])
    BY <2>1, <2>2 DEF IsFlatten
  <2>4. ASSUME NEW i \in 1 .. m PROVE g[i] = body(i, g[i - 1])
    <3>1. CASE i = 1
      <4>1. g[1] = IF 1 = m THEN body(1, f[m - 1]) ELSE f[1]
        BY <2>1, <3>1
      <4>2. m # 1 => f[1] = seqs[1]
        BY <2>1, <2>3
      <4> QED BY <2>1, <3>1, <4>1, <4>2
    <3>2. CASE i # 1
      <4>1. i - 1 \in 1 .. m - 1 /\ g[i - 1] = f[i - 1]
        BY <2>1, <3>2
      <4> HIDE DEF body
      <4>2. g[i] = IF i = m THEN body(i, f[m - 1]) ELSE f[i]
        OBVIOUS
      <4>3. i # m => i \in 1 .. m - 1
        BY <2>1
      <4> QED BY <2>3, <4>1, <4>2, <4>3
    <3> QED BY <3>1, <3>2
  <2>5. [i \in 1 .. m |-> g[i]] = [i \in 1 .. m |-> body(i, g[i - 1])]
    <3> HIDE DEF g, body
    <3> QED BY <2>4
  <2>6. IsFlatten(g, seqs, m)
    BY <2>5 DEF IsFlatten
  <2> QED BY <2>1, <2>6
<1>3. \A i \in 0 .. n : i \in Good
  <2> HIDE DEF Good
  <2> QED BY <1>1, <1>2, UpTo
<1> QED BY <1>3

\* The texts, each behind the joined ones before it.
LEMMA Flattened ==
  ASSUME NEW S, NEW seqs \in Seq(Seq(S))
  PROVE  \E f : /\ f[0] = <<>>
                /\ \A i \in 0 .. Len(seqs) : f[i] \in Seq(S)
                /\ \A i \in 1 .. Len(seqs) : f[i] = f[i - 1] \o seqs[i]
                /\ FlattenSeq(seqs) = f[Len(seqs)]
<1> DEFINE n == Len(seqs)
           g == CHOOSE f : IsFlatten(f, seqs, n)
           f == [i \in 0 .. n |-> IF i = 0 THEN <<>> ELSE g[i]]
<1>1. n \in Nat /\ \A i \in 1 .. n : seqs[i] \in Seq(S)
  OBVIOUS
<1>2. IsFlatten(g, seqs, n)
  BY <1>1, FlattenExists
<1>3. FlattenSeq(seqs) = IF n = 0 THEN seqs ELSE g[n]
  BY DEF FlattenSeq, IsFlatten
<1> HIDE DEF g
<1>4. \A i \in 1 .. n : g[i] = IF i = 1 THEN seqs[i] ELSE g[i - 1] \o seqs[i]
  BY <1>1, <1>2 DEF IsFlatten
<1>5. f[0] = <<>> /\ \A i \in 1 .. n : f[i] = g[i]
  BY <1>1
<1>6. \A i \in 1 .. n : f[i] = f[i - 1] \o seqs[i]
  <2> TAKE i \in 1 .. n
  <2>1. CASE i = 1
    <3>1. f[1] = seqs[1] /\ f[1 - 1] = <<>> /\ seqs[1] \in Seq(S)
      BY <1>1, <1>4, <1>5, <2>1
    <3>2. <<>> \o seqs[1] = seqs[1]
      BY <3>1, ConcatEmptySeq
    <3> QED BY <2>1, <3>1, <3>2
  <2>2. CASE i # 1
    <3>1. i - 1 \in 1 .. n
      BY <1>1, <2>2
    <3> QED BY <1>4, <1>5, <2>2, <3>1
  <2> QED BY <2>1, <2>2
<1> HIDE DEF f
<1>7. \A i \in 0 .. n : f[i] \in Seq(S)
  <2> DEFINE Good == {i \in 0 .. n : f[i] \in Seq(S)}
  <2>1. 0 \in Good
    <3>1. f[0] \in Seq(S)
      BY <1>5
    <3> QED BY <1>1, <3>1
  <2>2. ASSUME NEW i \in 1 .. n, i - 1 \in Good PROVE i \in Good
    <3>1. f[i] = f[i - 1] \o seqs[i]
      BY <1>6
    <3>2. f[i] \in Seq(S)
      BY <1>1, <2>2, <3>1, ConcatProperties
    <3> QED BY <1>1, <3>2
  <2>3. \A i \in 0 .. n : i \in Good
    <3> HIDE DEF Good
    <3> QED BY <1>1, <2>1, <2>2, UpTo
  <2> QED BY <2>3
<1>8. FlattenSeq(seqs) = f[n]
  <2>1. CASE n = 0
    BY <1>3, <1>5, <2>1, EmptySeq
  <2>2. CASE n # 0
    BY <1>1, <1>3, <1>5, <2>2
  <2> QED BY <2>1, <2>2
<1> QED BY <1>5, <1>6, <1>7, <1>8
-----------------------------------------------------------------------------
(* Strings *)

\* The automaton has its states over any string.
LEMMA RunExists ==
  ASSUME NEW s \in Seq(Byte)
  PROVE  \E f : IsRun(f, s)
<1> DEFINE n == Len(s)
           Good == {i \in 0 .. n : \E q : RunsTo(SubSeq(s, 1, i), q)}
<1>1. n \in Nat /\ \A i \in 1 .. n : s[i] \in Byte
  OBVIOUS
<1>2. 0 \in Good
  <2>1. SubSeq(s, 1, 0) = <<>>
    BY SubSeqEmpty
  <2>2. RunsTo(SubSeq(s, 1, 0), UTF8_ACCEPT)
    BY <2>1, RunEmpty
  <2> QED BY <1>1, <2>2
<1>3. ASSUME NEW i \in 1 .. n, i - 1 \in Good PROVE i \in Good
  <2>1. PICK q : RunsTo(SubSeq(s, 1, i - 1), q)
    BY <1>3
  <2>2. SubSeq(s, 1, i - 1) \in Seq(Byte) /\ SubSeq(s, 1, i) = Append(SubSeq(s, 1, i - 1), s[i])
    BY <1>1
  <2>3. RunsTo(SubSeq(s, 1, i), Decode(q, s[i]))
    BY <1>1, <2>1, <2>2, RunAppend
  <2> QED BY <1>1, <2>3
<1>4. n \in Good
  <2> HIDE DEF Good
  <2>1. \A i \in 0 .. n : i \in Good
    BY <1>1, <1>2, <1>3, UpTo
  <2> QED BY <1>1, <2>1
<1>5. SubSeq(s, 1, n) = s
  BY SubSeqFull
<1> QED BY <1>4, <1>5 DEF RunsTo

\* A rejection is final.
LEMMA Rejected ==
  ASSUME NEW byte \in Byte
  PROVE  Decode(UTF8_REJECT, byte) = UTF8_REJECT
<1>1. Class(byte) + 1 \in 1 .. 12
  BY Classes
<1>2. \A i \in 1 .. 12 : Row(1)[i] = 1
  BY DEF Row
<1> QED BY <1>1, <1>2 DEF Decode, UTF8_REJECT

\* The states over a string that is accepted.
LEMMA ValidStates ==
  ASSUME NEW s \in Strings
  PROVE  \E f : /\ f[0] = UTF8_ACCEPT /\ f[Len(s)] = UTF8_ACCEPT
                /\ \A i \in 0 .. Len(s) : f[i] \in Live
                /\ \A i \in 1 .. Len(s) : f[i] = Decode(f[i - 1], s[i])
<1> DEFINE n == Len(s)
           f == CHOOSE g : IsRun(g, s)
<1>1. s \in Seq(Byte) /\ Decoded(s) = UTF8_ACCEPT
  BY DEF Strings
<1>2. n \in Nat /\ \A i \in 1 .. n : s[i] \in Byte
  BY <1>1
<1>3. IsRun(f, s)
  BY <1>1, RunExists
<1>4. f[n] = UTF8_ACCEPT
  BY <1>1 DEF Decoded, IsRun
<1> HIDE DEF f
<1>5. f[0] = UTF8_ACCEPT /\ \A i \in 1 .. n : f[i] = Decode(f[i - 1], s[i])
  BY <1>2, <1>3 DEF IsRun
<1>6. \A i \in 0 .. n : f[i] \in DecodeState
  <2> DEFINE Good == {i \in 0 .. n : f[i] \in DecodeState}
  <2>1. 0 \in Good
    BY <1>2, <1>5 DEF DecodeState, UTF8_ACCEPT
  <2>2. ASSUME NEW i \in 1 .. n, i - 1 \in Good PROVE i \in Good
    <3>1. f[i - 1] \in Live => f[i] \in DecodeState
      BY <1>2, <1>5, SameUtf8
    <3>2. f[i - 1] = UTF8_REJECT => f[i] \in DecodeState
      BY <1>2, <1>5, Rejected DEF UTF8_REJECT, DecodeState
    <3> QED BY <1>2, <2>2, <3>1, <3>2 DEF Live
  <2>3. \A i \in 0 .. n : i \in Good
    <3> HIDE DEF Good
    <3> QED BY <1>2, <2>1, <2>2, UpTo
  <2> QED BY <2>3
<1>7. ASSUME NEW i \in 0 .. n, f[i] = UTF8_REJECT PROVE FALSE
  <2> DEFINE Bad == {j \in 0 .. n : j >= i => f[j] = UTF8_REJECT}
  <2>1. 0 \in Bad
    BY <1>2, <1>7
  <2>2. ASSUME NEW j \in 1 .. n, j - 1 \in Bad PROVE j \in Bad
    <3>1. CASE j - 1 >= i
      BY <1>2, <1>5, <2>2, <3>1, Rejected
    <3>2. CASE j = i
      BY <1>2, <1>7, <3>2
    <3>3. CASE j < i
      BY <1>2, <3>3
    <3> QED BY <1>2, <3>1, <3>2, <3>3
  <2>3. \A j \in 0 .. n : j \in Bad
    <3> HIDE DEF Bad
    <3> QED BY <1>2, <2>1, <2>2, UpTo
  <2> QED BY <1>2, <1>4, <2>3 DEF UTF8_ACCEPT, UTF8_REJECT
<1> QED BY <1>4, <1>5, <1>6, <1>7 DEF Live

\* Which function of the lexer gets the next byte.
Going(wants) == wants \notin {"refused", "done"}

\* Which function of the lexer takes the next byte.
LEMMA Feeds ==
  ASSUME NEW scan, NEW rest, NEW token, NEW wants, NEW stack, NEW root, NEW c, Going(wants)
  PROVE  LET r == Amid(scan, rest, token, wants, stack, root)
         IN /\ scan = "between" => Feed(r, c) = Between(r, c)
            /\ scan = "string" => Feed(r, c) = String(r, c)
            /\ scan = "escape" => Feed(r, c) = Escape(r, c)
            /\ scan = "hex" => Feed(r, c) = Hex(r, c)
            /\ scan = "literal" => Feed(r, c) = Expect(r, c)
            /\ scan \in NumberStates => Feed(r, c) = Number(r, c)
<1> DEFINE r == Amid(scan, rest, token, wants, stack, root)
<1>1. ~Final(r) /\ r.scan = scan
  BY Fields DEF Going, Final
<1> HIDE DEF r
<1> QED BY <1>1 DEF Feed, NumberStates, r

\* Two bytes, and six.
LEMMA ReadsTwo ==
  ASSUME NEW r, NEW a, NEW b
  PROVE  Reads(r, <<a, b>>, Feed(Feed(r, a), b))
<1> DEFINE f == [i \in 0 .. 2 |-> IF i = 0 THEN r ELSE IF i = 1 THEN Feed(r, a)
                                  ELSE Feed(Feed(r, a), b)]
<1>1. f[0] = r /\ f[1] = Feed(f[0], a) /\ f[2] = Feed(f[1], b) /\ f[2] = Feed(Feed(r, a), b)
  OBVIOUS
<1> HIDE DEF f
<1>2. IsReading(f, r, <<a, b>>)
  BY <1>1 DEF IsReading
<1> QED BY <1>1, <1>2 DEF Reads

LEMMA ReadsSix ==
  ASSUME NEW p, NEW q, NEW r, NEW a, NEW b, NEW c, NEW d, NEW e, NEW g,
         q = Feed(Feed(Feed(p, a), b), c), r = Feed(Feed(Feed(q, d), e), g)
  PROVE  Reads(p, <<a, b, c, d, e, g>>, r)
<1> DEFINE f == [i \in 0 .. 6 |->
             CASE i = 0 -> p [] i = 1 -> Feed(p, a) [] i = 2 -> Feed(Feed(p, a), b)
               [] i = 3 -> q [] i = 4 -> Feed(q, d) [] i = 5 -> Feed(Feed(q, d), e)
               [] i = 6 -> r]
<1>1. /\ f[0] = p /\ f[1] = Feed(f[0], a) /\ f[2] = Feed(f[1], b) /\ f[3] = Feed(f[2], c)
      /\ f[4] = Feed(f[3], d) /\ f[5] = Feed(f[4], e) /\ f[6] = Feed(f[5], g) /\ f[6] = r
  OBVIOUS
<1> HIDE DEF f
<1>2. IsReading(f, p, <<a, b, c, d, e, g>>)
  BY <1>1 DEF IsReading
<1> QED BY <1>1, <1>2 DEF Reads

\* Inside a string: a byte that stands for itself,
LEMMA ReadsPlain ==
  ASSUME NEW rest, NEW token, NEW wants, NEW stack, NEW root, Going(wants),
         NEW c \in 32 .. 255, c \notin {Quote, Backslash}, Accepts(rest, c)
  PROVE  Steps(Amid("string", rest, token, wants, stack, root), c,
               Amid("string", Remaining(rest, c), Append(token, c), wants, stack, root))
<1> DEFINE r == Amid("string", rest, token, wants, stack, root)
           q == [r EXCEPT !.rest = Remaining(@, c), !.token = Append(@, c)]
           ranges == Remaining(rest, c)
           grown == Append(token, c)
<1>1. r.rest = rest /\ r.token = token
  BY Fields
<1>2. Feed(r, c) = String(r, c)
  BY Feeds
<1>3. q = Amid("string", ranges, grown, wants, stack, root)
  <2>1. /\ q.scan = "string" /\ q.rest = ranges /\ q.token = grown /\ q.high = 0
        /\ q.wants = wants /\ q.stack = stack /\ q.root = root /\ IsMade(q)
    BY DEF Amid, IsMade, ReaderFields
  <2> HIDE DEF q, ranges, grown
  <2> QED BY <2>1, Fields, SameReader
<1> HIDE DEF r, ranges, grown
<1>4. String(r, c) = q
  <2>1. c # Quote /\ c # Backslash /\ c \notin Control \cup {EOF, Quote, Backslash}
    BY DEF Control, EOF, Quote, Backslash
  <2> QED BY <1>1, <2>1 DEF String
<1> QED BY <1>2, <1>3, <1>4 DEF r, ranges, grown, Steps

\* one that is escaped by a letter,
LEMMA ReadsBackslash ==
  ASSUME NEW token, NEW wants, NEW stack, NEW root, Going(wants)
  PROVE  Feed(Amid("string", <<>>, token, wants, stack, root), Backslash) =
           Amid("escape", <<>>, token, wants, stack, root)
<1> DEFINE r == Amid("string", <<>>, token, wants, stack, root)
<1>1. r.rest = <<>>
  BY Fields
<1>2. Feed(r, Backslash) = String(r, Backslash)
  BY Feeds
<1>3. Await(r, "escape", <<>>) = Amid("escape", <<>>, token, wants, stack, root)
  BY Awaits
<1> HIDE DEF r
<1>4. String(r, Backslash) = Await(r, "escape", <<>>)
  BY <1>1 DEF String, Backslash, Quote
<1> QED BY <1>2, <1>3, <1>4 DEF r

\* The character that stands behind it,
LEMMA ReadsShort ==
  ASSUME NEW token, NEW wants, NEW stack, NEW root, Going(wants), NEW e \in DOMAIN Short
  PROVE  Reads(Amid("string", <<>>, token, wants, stack, root), <<Backslash, e>>,
               Amid("string", <<>>, Append(token, Short[e]), wants, stack, root))
<1> DEFINE r == Amid("string", <<>>, token, wants, stack, root)
           p == Amid("escape", <<>>, token, wants, stack, root)
           q == [Await(p, "string", <<>>) EXCEPT !.token = Append(@, Short[e])]
           grown == Append(token, Short[e])
<1>1. Feed(r, Backslash) = p /\ Feed(p, e) = Escape(p, e)
  BY ReadsBackslash, Feeds
<1>2. q = Amid("string", <<>>, grown, wants, stack, root)
  <2> DEFINE waiting == Amid("string", <<>>, token, wants, stack, root)
  <2>1. Await(p, "string", <<>>) = waiting
    BY Awaits
  <2> HIDE DEF p
  <2> DEFINE s == [waiting EXCEPT !.token = Append(@, Short[e])]
  <2>2. /\ s.scan = "string" /\ s.rest = <<>> /\ s.token = grown /\ s.high = 0
        /\ s.wants = wants /\ s.stack = stack /\ s.root = root /\ IsMade(s)
    BY DEF Amid, IsMade, ReaderFields
  <2>3. q = s
    BY <2>1
  <2> HIDE DEF q, s, grown
  <2> QED BY <2>2, <2>3, Fields, SameReader
<1> HIDE DEF p
<1>3. Escape(p, e) = q
  <2>1. e # 117
    BY DEF Short
  <2> QED BY <2>1 DEF Escape
<1> HIDE DEF q, grown, r
<1>4. Feed(Feed(r, Backslash), e) = Amid("string", <<>>, grown, wants, stack, root)
  BY <1>1, <1>2, <1>3
<1> QED BY <1>4, ReadsTwo DEF r, grown

\* and one by its number.
LEMMA HexDigits ==
  ASSUME NEW n \in 0 .. 15
  PROVE  HexValue(HexDigit(n)) = n
<1>1. CASE n < 10
  <2>1. HexDigit(n) = 48 + n /\ 48 + n \in 48 .. 57
    BY <1>1 DEF HexDigit
  <2> QED BY <2>1 DEF HexValue, Digit
<1>2. CASE n >= 10
  <2>1. HexDigit(n) = 87 + n /\ 87 + n \in 97 .. 102
    BY <1>2 DEF HexDigit
  <2> QED BY <2>1 DEF HexValue, Digit
<1> QED BY <1>1, <1>2

\* The digits of a number, one more read.
Digits(digits, n) == Append(digits, n)

\* A digit of four is read; and all four of them, as dump_escaped writes them for
\* a control character.
LEMMA HexRead ==
  ASSUME NEW rest, NEW token, NEW wants, NEW stack, NEW root, Going(wants),
         NEW n \in 0 .. 15, Len(Digits(rest, n)) < 4
  PROVE  Steps(Amid("hex", rest, token, wants, stack, root), HexDigit(n),
               Amid("hex", Digits(rest, n), token, wants, stack, root))
<1> DEFINE r == Amid("hex", rest, token, wants, stack, root)
           c == HexDigit(n)
           q(m) == [r EXCEPT !.rest = m]
<1>1. r.rest = rest
  BY Fields
<1>2. Feed(r, c) = Hex(r, c)
  BY Feeds
<1>3. \A m : q(m) = Amid("hex", m, token, wants, stack, root)
  BY Rests
<1>4. HexValue(c) = n
  BY HexDigits
<1> HIDE DEF r, c
<1>5. Append(r.rest, HexValue(c)) = Digits(rest, n) /\ HexValue(c) # -1
  BY <1>1, <1>4 DEF Digits
<1>6. Hex(r, c) = q(Digits(rest, n))
  BY <1>5 DEF Hex
<1> HIDE DEF q
<1> QED BY <1>2, <1>3, <1>6 DEF r, c, Steps

LEMMA FourDigits ==
  ASSUME NEW a \in 0 .. 15, NEW b \in 0 .. 15
  PROVE  LET d1 == Digits(<<>>, 0)
             d2 == Digits(d1, 0)
             d3 == Digits(d2, a)
             d4 == Digits(d3, b)
         IN /\ Len(d1) = 1 /\ Len(d2) = 2 /\ Len(d3) = 3 /\ Len(d4) = 4
            /\ Shifted(d4) = 16 * a + b
<1> DEFINE d1 == Append(<<>>, 0)
           d2 == Append(d1, 0)
           d3 == Append(d2, a)
           d4 == Append(d3, b)
<1>1. Len(d1) = 1 /\ Len(d2) = 2 /\ Len(d3) = 3 /\ Len(d4) = 4
  OBVIOUS
<1>2. d4[1] = 0 /\ d4[2] = 0 /\ d4[3] = a /\ d4[4] = b
  OBVIOUS
<1>3. Shifted(d4) = 16 * a + b
  <2> HIDE DEF d4
  <2> QED BY <1>2 DEF Shifted
<1> HIDE DEF d1, d2, d3, d4
<1>4. Len(d1) = 1 /\ Len(d2) = 2 /\ Len(d3) = 3 /\ Len(d4) = 4 /\ Shifted(d4) = 16 * a + b
  BY <1>1, <1>3
<1> QED BY <1>4, Zenon DEF Digits, d1, d2, d3, d4

\* No control character is half of another one, so it stands alone.
LEMMA NoSurrogate ==
  ASSUME NEW c \in 0 .. 31
  PROVE  c \notin High /\ c \notin Low
<1>1. c \in Int /\ c < 32
  OBVIOUS
<1>2. c \notin 55296 .. 56319
  BY <1>1
<1>3. c \notin 56320 .. 57343
  BY <1>1
<1> QED BY <1>2, <1>3 DEF High, Low

LEMMA HexLast ==
  ASSUME NEW rest, NEW token, NEW wants, NEW stack, NEW root, Going(wants),
         NEW n \in 0 .. 15, Len(Digits(rest, n)) = 4, Shifted(Digits(rest, n)) \in 0 .. 31
  PROVE  Steps(Amid("hex", rest, token, wants, stack, root), HexDigit(n),
               Amid("string", <<>>, token \o <<Shifted(Digits(rest, n))>>, wants, stack, root))
<1> DEFINE p == Amid("hex", rest, token, wants, stack, root)
           d == HexDigit(n)
           c == Shifted(Digits(rest, n))
<1>1. p.rest = rest /\ p.high = 0 /\ Feed(p, d) = Hex(p, d)
  BY Fields, Feeds
<1>2. Character(p, c) = Amid("string", <<>>, token \o Encode(c), wants, stack, root)
  BY Writes
<1>3. Encode(c) = <<c>>
  <2> HIDE DEF c
  <2> QED BY DEF Encode, c
<1>4. HexValue(d) = n /\ n # -1
  BY HexDigits
<1>5. c \notin High /\ c \notin Low
  <2> HIDE DEF c
  <2> QED BY NoSurrogate DEF c
<1> HIDE DEF p, d, c
<1>6. Hex(p, d) = CodePoint(p, c)
  <2> DEFINE more == Digits(rest, n)
  <2>1. Append(p.rest, HexValue(d)) = more /\ ~(Len(more) < 4)
    BY <1>1, <1>4 DEF Digits
  <2>2. CodePoint(p, c) = CodePoint(p, Shifted(more))
    BY DEF c
  <2> HIDE DEF more
  <2> QED BY <1>4, <2>1, <2>2 DEF Hex
<1>7. CodePoint(p, c) = Character(p, c)
  BY <1>1, <1>5 DEF CodePoint, Alone
<1> QED BY <1>1, <1>2, <1>3, <1>6, <1>7 DEF p, d, c, Steps

\* A control character without a short form.
LEMMA ReadsControl ==
  ASSUME NEW token, NEW wants, NEW stack, NEW root, Going(wants), NEW c \in 0 .. 31
  PROVE  Reads(Amid("string", <<>>, token, wants, stack, root),
               <<Backslash, 117, 48, 48, HexDigit(c \div 16), HexDigit(c % 16)>>,
               Amid("string", <<>>, token \o <<c>>, wants, stack, root))
<1> DEFINE r == Amid("string", <<>>, token, wants, stack, root)
           q == Amid("escape", <<>>, token, wants, stack, root)
           h(rest) == Amid("hex", rest, token, wants, stack, root)
           s == Amid("string", <<>>, token \o <<c>>, wants, stack, root)
           a == c \div 16
           b == c % 16
           d1 == Digits(<<>>, 0)
           d2 == Digits(d1, 0)
           d3 == Digits(d2, a)
           d4 == Digits(d3, b)
<1>1. Feed(r, Backslash) = q
  BY ReadsBackslash
<1>2. Feed(q, 117) = h(<<>>)
  <2>1. Feed(q, 117) = Escape(q, 117) /\ Await(q, "hex", <<>>) = h(<<>>)
    BY Feeds, Awaits
  <2> HIDE DEF q, h
  <2>2. Escape(q, 117) = Await(q, "hex", <<>>)
    BY DEF Escape, Short
  <2> QED BY <2>1, <2>2
<1>3. a \in 0 .. 15 /\ b \in 0 .. 15 /\ 16 * a + b = c /\ 0 \in 0 .. 15
  OBVIOUS
<1> HIDE DEF a, b
<1>4. HexDigit(0) = 48
  BY DEF HexDigit
<1>5. /\ Len(d1) = 1 /\ Len(d2) = 2 /\ Len(d3) = 3 /\ Len(d4) = 4
      /\ Shifted(d4) = 16 * a + b
  BY <1>3, FourDigits, Zenon
<1>6. Len(d1) < 4 /\ Len(d2) < 4 /\ Len(d3) < 4 /\ Shifted(d4) = c /\ Shifted(d4) \in 0 .. 31
  <2> HIDE DEF d1, d2, d3, d4
  <2> QED BY <1>3, <1>5
<1>7. Steps(h(<<>>), HexDigit(0), h(d1))
  BY <1>3, <1>6, HexRead, Zenon
<1>8. Steps(h(d1), HexDigit(0), h(d2))
  BY <1>3, <1>6, HexRead, Zenon
<1>9. Steps(h(d2), HexDigit(a), h(d3))
  BY <1>3, <1>6, HexRead, Zenon
<1>10. Steps(h(d3), HexDigit(b), Amid("string", <<>>, token \o <<Shifted(d4)>>, wants, stack, root))
  BY <1>3, <1>5, <1>6, HexLast, Zenon
<1>11. Feed(h(d3), HexDigit(b)) = s
  BY <1>6, <1>10 DEF Steps
<1> HIDE DEF r, q, h, s, d1, d2, d3, d4
<1>12. h(d1) = Feed(Feed(Feed(r, Backslash), 117), 48)
  BY <1>1, <1>2, <1>4, <1>7 DEF Steps
<1>13. s = Feed(Feed(Feed(h(d1), 48), HexDigit(a)), HexDigit(b))
  BY <1>4, <1>8, <1>9, <1>11 DEF Steps
<1>14. Reads(r, <<Backslash, 117, 48, 48, HexDigit(a), HexDigit(b)>>, s)
  BY <1>12, <1>13, ReadsSix
<1> QED BY <1>14 DEF r, s, a, b

\* A byte below 128 stands between two characters.
LEMMA AsciiAlone ==
  ASSUME NEW q \in Live, NEW c \in 0 .. 127, Decode(q, c) \in Live
  PROVE  q = 0 /\ Decode(q, c) = 0
<1>1. c \in Byte
  BY DEF Byte
<1>2. Accepts(Expected(q), c)
  BY <1>1, SameUtf8 DEF Live
<1>3. q = 0
  <2>1. CASE q \in 2 .. 8
    <3>1. Expected(q) # <<>>
      BY <2>1 DEF Expected, Continuation
    <3>2. InRange(c, Head(Expected(q)))
      BY <1>2, <3>1 DEF Accepts
    <3>3. Head(Expected(q))[1] \in Nat /\ Head(Expected(q))[1] >= 128
      BY <2>1 DEF Expected, Continuation
    <3> QED BY <3>2, <3>3 DEF InRange
  <2> QED BY <2>1 DEF Live, DecodeState, UTF8_REJECT
<1> QED BY <1>1, <1>3, Leads

\* How dump_escaped writes a byte.
LEMMA EscapedShort ==
  ASSUME NEW c \in {8, 9, 10, 12, 13, Quote, Backslash}
  PROVE  \E e \in DOMAIN Short : Short[e] = c /\ Escaped(c) = <<Backslash, e>>
<1> DEFINE e == CHOOSE d \in DOMAIN Short \ {47} : Short[d] = c
<1>1. Escaped(c) = <<Backslash, e>>
  <2>1. c \notin 0 .. 31 \ {8, 9, 10, 12, 13}
    BY DEF Quote, Backslash
  <2> QED BY <2>1 DEF Escaped
<1>2. \E d \in DOMAIN Short \ {47} : Short[d] = c
  <2>1. \A d \in {98, 116, 110, 102, 114, 34, 92} : d \in DOMAIN Short \ {47}
    BY DEF Short
  <2>2. /\ Short[98] = 8 /\ Short[116] = 9 /\ Short[110] = 10 /\ Short[102] = 12
        /\ Short[114] = 13 /\ Short[34] = 34 /\ Short[92] = 92
    BY DEF Short
  <2> QED BY <2>1, <2>2 DEF Quote, Backslash
<1>3. e \in DOMAIN Short \ {47} /\ Short[e] = c
  BY <1>2
<1> HIDE DEF e
<1> QED BY <1>1, <1>3

\* A control character is written with four digits,
LEMMA EscapedControl ==
  ASSUME NEW c \in 0 .. 31, c \notin {8, 9, 10, 12, 13}
  PROVE  Escaped(c) = <<Backslash, 117, 48, 48, HexDigit(c \div 16), HexDigit(c % 16)>>
<1>1. c \notin {8, 9, 10, 12, 13, Quote, Backslash} /\ c \in 0 .. 31 \ {8, 9, 10, 12, 13}
  BY DEF Quote, Backslash
<1> QED BY <1>1 DEF Escaped

\* and any other byte as it is.
LEMMA EscapedPlain ==
  ASSUME NEW c \in 32 .. 255, c \notin {Quote, Backslash}
  PROVE  Escaped(c) = <<c>>
<1>1. c \notin {8, 9, 10, 12, 13, Quote, Backslash} /\ c \notin 0 .. 31 \ {8, 9, 10, 12, 13}
  BY DEF Quote, Backslash
<1> QED BY <1>1 DEF Escaped

\* A byte of a string, as it is written, is read as that byte.
LEMMA ReadsEscaped ==
  ASSUME NEW q \in Live, NEW c \in Byte, Decode(q, c) \in Live, NEW token \in Seq(Byte),
         NEW wants, NEW stack, NEW root, Going(wants)
  PROVE  Reads(Amid("string", Expected(q), token, wants, stack, root), Escaped(c),
               Amid("string", Expected(Decode(q, c)), Append(token, c), wants, stack, root))
<1> DEFINE I(rest, t) == Amid("string", rest, t, wants, stack, root)
<1>1. c < 128 => Expected(q) = <<>> /\ Expected(Decode(q, c)) = <<>>
  <2>1. c < 128 => c \in 0 .. 127
    BY DEF Byte
  <2>2. Expected(0) = <<>>
    BY DEF Expected
  <2> QED BY <2>1, <2>2, AsciiAlone
<1>2. CASE c \in {8, 9, 10, 12, 13, Quote, Backslash}
  <2>1. PICK e \in DOMAIN Short : Short[e] = c /\ Escaped(c) = <<Backslash, e>>
    BY <1>2, EscapedShort
  <2>2. Reads(I(<<>>, token), <<Backslash, e>>, I(<<>>, Append(token, Short[e])))
    BY ReadsShort
  <2>3. c < 128
    BY <1>2 DEF Quote, Backslash
  <2> HIDE DEF I
  <2>4. Reads(I(Expected(q), token), Escaped(c), I(Expected(Decode(q, c)), Append(token, c)))
    BY <1>1, <2>1, <2>2, <2>3
  <2> QED BY <2>4 DEF I
<1>3. CASE c \in 0 .. 31 /\ c \notin {8, 9, 10, 12, 13}
  <2>1. Reads(I(<<>>, token), Escaped(c), I(<<>>, token \o <<c>>))
    BY <1>3, EscapedControl, ReadsControl
  <2>2. c < 128 /\ Append(token, c) = token \o <<c>>
    BY <1>3, AppendIsConcat
  <2> HIDE DEF I
  <2>3. Reads(I(Expected(q), token), Escaped(c), I(Expected(Decode(q, c)), Append(token, c)))
    BY <1>1, <2>1, <2>2
  <2> QED BY <2>3 DEF I
<1>4. CASE c \in 32 .. 255 /\ c \notin {Quote, Backslash}
  <2>1. Accepts(Expected(q), c) /\ Remaining(Expected(q), c) = Expected(Decode(q, c))
    BY SameUtf8 DEF Live
  <2>2. Escaped(c) = <<c>>
    BY <1>4, EscapedPlain
  <2>3. Steps(I(Expected(q), token), c, I(Remaining(Expected(q), c), Append(token, c)))
    BY <1>4, <2>1, ReadsPlain
  <2> HIDE DEF I
  <2>4. Feed(I(Expected(q), token), c) = I(Expected(Decode(q, c)), Append(token, c))
    BY <2>1, <2>3 DEF Steps
  <2>5. Reads(I(Expected(q), token), Escaped(c), I(Expected(Decode(q, c)), Append(token, c)))
    BY <2>2, <2>4, ReadsByte
  <2> QED BY <2>5 DEF I
<1>5. c \in 0 .. 31 \/ c \in 32 .. 255
  BY DEF Byte
<1> QED BY <1>2, <1>3, <1>4, <1>5 DEF Quote, Backslash

\* What dump_escaped writes are bytes.
LEMMA EscapedBytes ==
  ASSUME NEW c \in Byte
  PROVE  Escaped(c) \in Seq(Byte)
<1>1. CASE c \in {8, 9, 10, 12, 13, Quote, Backslash}
  <2>1. PICK e \in DOMAIN Short : Escaped(c) = <<Backslash, e>>
    BY <1>1, EscapedShort
  <2>2. e \in Byte /\ Backslash \in Byte
    BY DEF Short, Byte, Backslash
  <2> QED BY <2>1, <2>2
<1>2. CASE c \in 0 .. 31 /\ c \notin {8, 9, 10, 12, 13}
  <2> DEFINE a == HexDigit(c \div 16)
             b == HexDigit(c % 16)
  <2>1. c \div 16 \in 0 .. 15 /\ c % 16 \in 0 .. 15
    BY <1>2
  <2>2. \A n \in 0 .. 15 : HexDigit(n) \in Byte
    BY DEF HexDigit, Byte
  <2>3. a \in Byte /\ b \in Byte /\ Backslash \in Byte /\ 117 \in Byte /\ 48 \in Byte
    <3>1. a \in Byte /\ b \in Byte
      BY <2>1, <2>2
    <3> QED BY <3>1 DEF Backslash, Byte
  <2>4. Escaped(c) = <<Backslash, 117, 48, 48, a, b>>
    BY <1>2, EscapedControl
  <2> HIDE DEF a, b
  <2> QED BY <2>3, <2>4
<1>3. CASE c \in 32 .. 255 /\ c \notin {Quote, Backslash}
  <2>1. Escaped(c) = <<c>>
    BY <1>3, EscapedPlain
  <2> QED BY <2>1
<1>4. c \in 0 .. 31 \/ c \in 32 .. 255
  BY DEF Byte
<1> QED BY <1>1, <1>2, <1>3, <1>4 DEF Quote, Backslash

\* The bytes of a string between its quotation marks.
LEMMA ReadsBytes ==
  ASSUME NEW s \in Strings, NEW wants, NEW stack, NEW root, Going(wants)
  PROVE  LET body == FlattenSeq([i \in DOMAIN s |-> Escaped(s[i])])
         IN /\ body \in Seq(Byte)
            /\ Reads(Amid("string", <<>>, <<>>, wants, stack, root), body,
                     Amid("string", <<>>, s, wants, stack, root))
<1> DEFINE n == Len(s)
           parts == [i \in DOMAIN s |-> Escaped(s[i])]
           I(rest, t) == Amid("string", rest, t, wants, stack, root)
<1>1. s \in Seq(Byte) /\ n \in Nat /\ DOMAIN s = 1 .. n /\ \A i \in 1 .. n : s[i] \in Byte
  BY DEF Strings
<1>2. parts \in Seq(Seq(Byte)) /\ Len(parts) = n /\ \A i \in 1 .. n : parts[i] = Escaped(s[i])
  <2>1. \A i \in 1 .. n : parts[i] = Escaped(s[i]) /\ parts[i] \in Seq(Byte)
    BY <1>1, EscapedBytes
  <2>2. DOMAIN parts = 1 .. n /\ parts = [i \in 1 .. n |-> parts[i]]
    BY <1>1
  <2> HIDE DEF parts
  <2> QED BY <1>1, <2>1, <2>2
<1> HIDE DEF parts
<1>3. PICK f : /\ f[0] = <<>>
               /\ \A i \in 0 .. n : f[i] \in Seq(Byte)
               /\ \A i \in 1 .. n : f[i] = f[i - 1] \o parts[i]
               /\ FlattenSeq(parts) = f[n]
  <2>1. \E f : /\ f[0] = <<>>
               /\ \A i \in 0 .. Len(parts) : f[i] \in Seq(Byte)
               /\ \A i \in 1 .. Len(parts) : f[i] = f[i - 1] \o parts[i]
               /\ FlattenSeq(parts) = f[Len(parts)]
    BY <1>2, Flattened, Zenon
  <2> QED BY <1>2, <2>1
<1>4. PICK g : /\ g[0] = UTF8_ACCEPT /\ g[n] = UTF8_ACCEPT
               /\ \A i \in 0 .. n : g[i] \in Live
               /\ \A i \in 1 .. n : g[i] = Decode(g[i - 1], s[i])
  BY ValidStates
<1> DEFINE Good == {i \in 0 .. n : Reads(I(<<>>, <<>>), f[i], I(Expected(g[i]), SubSeq(s, 1, i)))}
<1>5. Expected(UTF8_ACCEPT) = <<>>
  BY DEF Expected, UTF8_ACCEPT
<1>6. 0 \in Good
  <2>1. SubSeq(s, 1, 0) = <<>>
    BY SubSeqEmpty
  <2> HIDE DEF I
  <2>2. Reads(I(<<>>, <<>>), f[0], I(Expected(g[0]), SubSeq(s, 1, 0)))
    BY <1>3, <1>4, <1>5, <2>1, ReadsNothing
  <2> QED BY <1>1, <2>2
<1>7. ASSUME NEW i \in 1 .. n, i - 1 \in Good PROVE i \in Good
  <2> DEFINE j == i - 1
             t == SubSeq(s, 1, j)
             c == s[i]
             p == I(Expected(g[j]), t)
             q == I(Expected(g[i]), Append(t, c))
  <2>1. j \in 0 .. n /\ i \in 0 .. n /\ c \in Byte /\ t \in Seq(Byte)
        /\ SubSeq(s, 1, i) = Append(t, c)
    BY <1>1
  <2>2. g[j] \in Live /\ g[i] \in Live /\ g[i] = Decode(g[j], c)
    BY <1>4, <2>1
  <2>3. Reads(p, Escaped(c), q)
    <3> HIDE DEF j, t, c
    <3>1. Decode(g[j], c) \in Live
      BY <2>2
    <3>2. Reads(p, Escaped(c), I(Expected(Decode(g[j], c)), Append(t, c)))
      BY <2>1, <2>2, <3>1, ReadsEscaped, Zenon
    <3> QED BY <2>2, <3>2
  <2>4. Reads(I(<<>>, <<>>), f[j], p)
    BY <1>7
  <2>5. f[i] = f[j] \o Escaped(c) /\ f[j] \in Seq(Byte) /\ Escaped(c) \in Seq(Byte)
    BY <1>2, <1>3, <2>1, EscapedBytes
  <2> HIDE DEF I, p, q, c, t, j
  <2>6. Reads(I(<<>>, <<>>), f[i], q)
    BY <2>3, <2>4, <2>5, ReadsOn
  <2>7. q = I(Expected(g[i]), SubSeq(s, 1, i))
    BY <2>1 DEF q
  <2> QED BY <2>1, <2>6, <2>7
<1>8. n \in Good
  <2> HIDE DEF Good
  <2>1. \A i \in 0 .. n : i \in Good
    BY <1>1, <1>6, <1>7, UpTo
  <2> QED BY <1>1, <2>1
<1>9. SubSeq(s, 1, n) = s
  BY <1>1, SubSeqFull
<1>10. Reads(I(<<>>, <<>>), FlattenSeq(parts), I(<<>>, s)) /\ FlattenSeq(parts) \in Seq(Byte)
  <2> HIDE DEF I
  <2>1. Reads(I(<<>>, <<>>), f[n], I(Expected(g[n]), SubSeq(s, 1, n)))
    BY <1>8
  <2>2. I(Expected(g[n]), SubSeq(s, 1, n)) = I(<<>>, s)
    BY <1>4, <1>5, <1>9
  <2> QED BY <1>1, <1>3, <2>1, <2>2
<1> QED BY <1>10 DEF parts

\* A token ends.
LEMMA Delivers ==
  ASSUME NEW scan, NEW rest, NEW token, NEW wants, NEW stack, NEW root, NEW t, NEW v
  PROVE  Deliver(Amid(scan, rest, token, wants, stack, root), t, v) =
           Token(Ready(wants, stack, root), t, v)
<1> DEFINE r == Amid(scan, rest, token, wants, stack, root)
<1>1. Emptied(r) = Ready(wants, stack, root)
  BY Empties DEF Ready
<1>2. Deliver(r, t, v) = Token(Emptied(r), t, v)
  BY DEF Deliver, Emptied
<1> HIDE DEF r
<1> QED BY <1>1, <1>2 DEF r

\* The first byte of a token.
LEMMA ReadsQuote ==
  ASSUME NEW wants, NEW stack, NEW root, Going(wants)
  PROVE  Steps(Ready(wants, stack, root), Quote,
               Amid("string", <<>>, <<>>, wants, stack, root))
<1> DEFINE r == Ready(wants, stack, root)
<1>1. Feed(r, Quote) = Between(r, Quote)
  BY Feeds DEF Ready
<1>2. Await(r, "string", <<>>) = Amid("string", <<>>, <<>>, wants, stack, root)
  BY Awaits DEF Ready
<1> HIDE DEF r
<1>3. Between(r, Quote) = Await(r, "string", <<>>)
  <2>1. Quote \notin White /\ Quote \notin {0, EOF} /\ Quote \notin DOMAIN Structure
    BY DEF Quote, White, EOF, Structure
  <2>2. ~\E text_1 \in Literals : Quote = Head(text_1)
    BY DEF Quote, Literals
  <2> QED BY <2>1, <2>2 DEF Between, Quote, Minus, Digit
<1> QED BY <1>1, <1>2, <1>3 DEF r, Steps

\* The quotation mark that ends a string delivers it.
LEMMA ReadsUnquote ==
  ASSUME NEW wants, NEW stack, NEW root, NEW s, Going(wants)
  PROVE  Steps(Amid("string", <<>>, s, wants, stack, root), Quote,
               Token(Ready(wants, stack, root), "value", Text(s)))
<1> DEFINE r == Amid("string", <<>>, s, wants, stack, root)
<1>1. Feed(r, Quote) = String(r, Quote) /\ r.rest = <<>> /\ r.token = s
  BY Feeds, Fields
<1>2. \A v : Deliver(r, "value", v) = Token(Ready(wants, stack, root), "value", v)
  BY Delivers
<1> HIDE DEF r
<1>3. String(r, Quote) = Deliver(r, "value", Text(s))
  <2>1. Quote # Backslash /\ Quote \in Control \cup {EOF, Quote, Backslash}
    BY DEF Quote, Backslash
  <2> QED BY <1>1, <2>1 DEF String, Text
<1> QED BY <1>1, <1>2, <1>3 DEF r, Steps

LEMMA StepReads == \A r, c, q : Steps(r, c, q) => Reads(r, <<c>>, q)
BY ReadsByte DEF Steps

\* A string that dump_escaped writes is read as that string: for every string
\* that is written at all, wherever it stands.
THEOREM StringsReadBack ==
  \A s \in Strings : \A wants, stack, root :
    Going(wants) =>
      /\ DumpString(s) \in Seq(Byte)
      /\ Reads(Ready(wants, stack, root), DumpString(s),
               Token(Ready(wants, stack, root), "value", Text(s)))
<1> TAKE s \in Strings
<1> TAKE wants, stack, root
<1> HAVE Going(wants)
<1> DEFINE r == Ready(wants, stack, root)
           p == Amid("string", <<>>, <<>>, wants, stack, root)
           q == Amid("string", <<>>, s, wants, stack, root)
           done == Token(r, "value", Text(s))
           quote == <<Quote>>
           body == FlattenSeq([i \in DOMAIN s |-> Escaped(s[i])])
<1>1. Reads(r, quote, p) /\ Reads(p, body, q) /\ Reads(q, quote, done)
  BY ReadsQuote, ReadsBytes, ReadsUnquote, StepReads
<1>2. quote \in Seq(Byte) /\ body \in Seq(Byte)
  BY ReadsBytes DEF Quote, Byte
<1>3. DumpString(s) = quote \o body \o quote
  BY DEF DumpString
<1> HIDE DEF r, p, q, done, quote, body
<1>4. quote \o body \in Seq(Byte)
  BY <1>2, ConcatProperties
<1>5. Reads(r, quote \o body, q)
  BY <1>1, <1>2, ReadsOn
<1>6. (quote \o body) \o quote \in Seq(Byte)
  BY <1>2, <1>4, ConcatProperties
<1>7. Reads(r, (quote \o body) \o quote, done)
  BY <1>1, <1>2, <1>4, <1>5, ReadsOn
<1> QED BY <1>3, <1>6, <1>7 DEF r, done
-----------------------------------------------------------------------------
(* Literals *)

\* Four bytes, and five.
LEMMA ReadsFour ==
  ASSUME NEW a, NEW b, NEW c, NEW d, NEW p, NEW q, NEW r, NEW s, NEW t,
         Steps(p, a, q), Steps(q, b, r), Steps(r, c, s), Steps(s, d, t)
  PROVE  Reads(p, <<a, b, c, d>>, t)
<1> DEFINE f == [i \in 0 .. 4 |-> CASE i = 0 -> p [] i = 1 -> q [] i = 2 -> r [] i = 3 -> s [] i = 4 -> t]
<1>1. f[0] = p /\ f[1] = q /\ f[2] = r /\ f[3] = s /\ f[4] = t
  OBVIOUS
<1> HIDE DEF f
<1>2. IsReading(f, p, <<a, b, c, d>>)
  BY <1>1 DEF IsReading, Steps
<1> QED BY <1>1, <1>2 DEF Reads

LEMMA ReadsFive ==
  ASSUME NEW a, NEW b, NEW c, NEW d, NEW e, NEW p, NEW q, NEW r, NEW s, NEW t, NEW u,
         Steps(p, a, q), Steps(q, b, r), Steps(r, c, s), Steps(s, d, t), Steps(t, e, u)
  PROVE  Reads(p, <<a, b, c, d, e>>, u)
<1> DEFINE f == [i \in 0 .. 5 |-> CASE i = 0 -> p [] i = 1 -> q [] i = 2 -> r [] i = 3 -> s
                                  [] i = 4 -> t [] i = 5 -> u]
<1>1. f[0] = p /\ f[1] = q /\ f[2] = r /\ f[3] = s /\ f[4] = t /\ f[5] = u
  OBVIOUS
<1> HIDE DEF f
<1>2. IsReading(f, p, <<a, b, c, d, e>>)
  BY <1>1 DEF IsReading, Steps
<1> QED BY <1>1, <1>2 DEF Reads

\* scan_literal: one byte, and the last one.
LEMMA LiteralByte ==
  ASSUME NEW rest, NEW token, NEW wants, NEW stack, NEW root, Going(wants),
         NEW c \in Nat, Head(rest) = <<c, c>>, Len(rest) > 1
  PROVE  Steps(Amid("literal", rest, token, wants, stack, root), c,
               Amid("literal", Tail(rest), token, wants, stack, root))
<1> DEFINE r == Amid("literal", rest, token, wants, stack, root)
           q(bytes) == [r EXCEPT !.rest = bytes]
<1>1. Feed(r, c) = Expect(r, c) /\ r.rest = rest
  BY Feeds, Fields
<1>2. \A bytes : q(bytes) = Amid("literal", bytes, token, wants, stack, root)
  BY Rests
<1>3. InRange(c, Head(rest))
  BY DEF InRange
<1> HIDE DEF r
<1>4. Expect(r, c) = q(Tail(rest))
  BY <1>1, <1>3 DEF Expect
<1> HIDE DEF q
<1> QED BY <1>1, <1>2, <1>4 DEF Steps, r

\* The last byte of a word delivers its value.
LEMMA LiteralLast ==
  ASSUME NEW rest, NEW token, NEW wants, NEW stack, NEW root, Going(wants),
         NEW c \in Nat, Head(rest) = <<c, c>>, Len(rest) = 1
  PROVE  Steps(Amid("literal", rest, token, wants, stack, root), c,
               Token(Ready(wants, stack, root), "value", LiteralValue(token)))
<1> DEFINE r == Amid("literal", rest, token, wants, stack, root)
           v == LiteralValue(token)
<1>1. Feed(r, c) = Expect(r, c) /\ r.rest = rest /\ r.scan = "literal" /\ r.token = token
  BY Feeds, Fields
<1>2. Deliver(r, "value", v) = Token(Ready(wants, stack, root), "value", v)
  BY Delivers
<1>3. InRange(c, Head(rest))
  BY DEF InRange
<1> HIDE DEF r
<1>4. LiteralValue(r.token) = v /\ InRange(c, Head(r.rest)) /\ ~(Len(r.rest) > 1)
  <2>1. LiteralValue(r.token) = v
    BY <1>1
  <2>2. InRange(c, Head(r.rest))
    BY <1>1, <1>3, Zenon
  <2>3. ~(Len(r.rest) > 1)
    <3>1. Len(r.rest) = 1
      BY <1>1, Zenon
    <3> QED BY <3>1
  <2> QED BY <2>1, <2>2, <2>3
<1> HIDE DEF v
<1>5. Expect(r, c) = Deliver(r, "value", v)
  BY <1>1, <1>4 DEF Expect
<1> QED BY <1>1, <1>2, <1>5 DEF Steps, r, v

\* The first byte.
LEMMA LiteralFirst ==
  ASSUME NEW literal \in Literals, NEW wants, NEW stack, NEW root, Going(wants)
  PROVE  Steps(Ready(wants, stack, root), Head(literal),
               Amid("literal", Exactly(Tail(literal)), literal, wants, stack, root))
<1> DEFINE r == Ready(wants, stack, root)
           c == Head(literal)
           bytes == Exactly(Tail(literal))
           q == [Await(r, "literal", bytes) EXCEPT !.token = literal]
<1>1. Feed(r, c) = Between(r, c)
  BY Feeds DEF Ready
<1>2. \A t : [Await(r, "literal", t) EXCEPT !.token = literal] =
               Amid("literal", t, literal, wants, stack, root)
  BY AwaitsToken DEF Ready
<1>3. c \in {116, 102, 110}
  BY DEF Literals
<1>4. \A t \in Literals : c = Head(t) => t = literal
  BY DEF Literals
<1> HIDE DEF r, c
<1>5. Between(r, c) = q
  <2>1. c \notin White /\ c \notin {0, EOF} /\ c \notin DOMAIN Structure
    BY <1>3 DEF White, EOF, Structure
  <2>2. c # Quote /\ c # Minus /\ c \notin Digit
    BY <1>3 DEF Quote, Minus, Digit
  <2>3. c = Head(literal) /\ \E t \in Literals : c = Head(t)
    BY DEF c
  <2>4. (CHOOSE t \in Literals : c = Head(t)) = literal
    BY <1>4, <2>3
  <2> QED BY <2>1, <2>2, <2>3, <2>4 DEF Between
<1>6. q = Amid("literal", bytes, literal, wants, stack, root)
  <2> HIDE DEF bytes
  <2> QED BY <1>2
<1> HIDE DEF q
<1> QED BY <1>1, <1>5, <1>6 DEF Steps, r, c

\* The three words.
LEMMA LiteralsReadBack ==
  ASSUME NEW literal \in Literals, NEW wants, NEW stack, NEW root, Going(wants)
  PROVE  /\ literal \in Seq(Byte)
         /\ Reads(Ready(wants, stack, root), literal,
                  Token(Ready(wants, stack, root), "value", LiteralValue(literal)))
<1> DEFINE r == Ready(wants, stack, root)
           p(rest) == Amid("literal", rest, literal, wants, stack, root)
           done == Token(r, "value", LiteralValue(literal))
           two(b) == <<b, b>>
<1>1. Steps(r, Head(literal), p(Exactly(Tail(literal))))
  BY LiteralFirst
<1>2. \A b \in Byte : \A rest : Head(rest) = two(b) /\ Len(rest) > 1 => Steps(p(rest), b, p(Tail(rest)))
  BY LiteralByte DEF Byte
<1>3. \A b \in Byte : \A rest : Head(rest) = two(b) /\ Len(rest) = 1 => Steps(p(rest), b, done)
  BY LiteralLast DEF Byte
<1>4. ASSUME NEW a \in Byte, NEW b \in Byte, NEW c \in Byte, NEW d \in Byte,
             literal = <<a, b, c, d>>
      PROVE  literal \in Seq(Byte) /\ Reads(r, literal, done)
  <2> DEFINE w3 == <<two(b), two(c), two(d)>>
             w2 == <<two(c), two(d)>>
             w1 == <<two(d)>>
  <2>1. Head(literal) = a /\ Tail(literal) = <<b, c, d>>
    BY <1>4
  <2>2. Exactly(<<b, c, d>>) = w3
    BY DEF Exactly
  <2>3. /\ Head(w3) = two(b) /\ Len(w3) > 1 /\ Tail(w3) = w2
        /\ Head(w2) = two(c) /\ Len(w2) > 1 /\ Tail(w2) = w1
        /\ Head(w1) = two(d) /\ Len(w1) = 1
    OBVIOUS
  <2> HIDE DEF w1, w2, w3, p, r, done, two
  <2>4. Steps(r, a, p(w3)) /\ Steps(p(w3), b, p(w2)) /\ Steps(p(w2), c, p(w1)) /\ Steps(p(w1), d, done)
    BY <1>1, <1>2, <1>3, <2>1, <2>2, <2>3
  <2>5. Reads(r, <<a, b, c, d>>, done)
    BY <2>4, ReadsFour
  <2> QED BY <1>4, <2>5
<1>5. ASSUME NEW a \in Byte, NEW b \in Byte, NEW c \in Byte, NEW d \in Byte, NEW e \in Byte,
             literal = <<a, b, c, d, e>>
      PROVE  literal \in Seq(Byte) /\ Reads(r, literal, done)
  <2> DEFINE w4 == <<two(b), two(c), two(d), two(e)>>
             w3 == <<two(c), two(d), two(e)>>
             w2 == <<two(d), two(e)>>
             w1 == <<two(e)>>
  <2>1. Head(literal) = a /\ Tail(literal) = <<b, c, d, e>>
    BY <1>5
  <2>2. Exactly(<<b, c, d, e>>) = w4
    BY DEF Exactly
  <2>3. /\ Head(w4) = two(b) /\ Len(w4) > 1 /\ Tail(w4) = w3
        /\ Head(w3) = two(c) /\ Len(w3) > 1 /\ Tail(w3) = w2
        /\ Head(w2) = two(d) /\ Len(w2) > 1 /\ Tail(w2) = w1
        /\ Head(w1) = two(e) /\ Len(w1) = 1
    OBVIOUS
  <2> HIDE DEF w1, w2, w3, w4, p, r, done, two
  <2>4. /\ Steps(r, a, p(w4)) /\ Steps(p(w4), b, p(w3)) /\ Steps(p(w3), c, p(w2))
        /\ Steps(p(w2), d, p(w1)) /\ Steps(p(w1), e, done)
    BY <1>1, <1>2, <1>3, <2>1, <2>2, <2>3
  <2>5. Reads(r, <<a, b, c, d, e>>, done)
    BY <2>4, ReadsFive
  <2> QED BY <1>5, <2>5
<1>6. \/ literal = <<116, 114, 117, 101>>
      \/ literal = <<102, 97, 108, 115, 101>>
      \/ literal = <<110, 117, 108, 108>>
  BY DEF Literals
<1>7. {116, 114, 117, 101, 102, 97, 108, 115, 110} \subseteq Byte
  BY DEF Byte
<1> QED BY <1>4, <1>5, <1>6, <1>7
-----------------------------------------------------------------------------
(* Integers *)

\* f divides m again and again.
IsQuotients(f, m, b, n) == f = [k \in 0 .. n |-> IF k = 0 THEN m ELSE f[k - 1] \div b]

\* A number divided again and again: the quotients exist, and what they are.
LEMMA QuotientsExist ==
  ASSUME NEW m, NEW b, NEW n \in Nat
  PROVE  \E f : IsQuotients(f, m, b, n)
<1> DEFINE Good == {i \in Nat : \E f : IsQuotients(f, m, b, i)}
<1>1. 0 \in Good
  <2> DEFINE f == [k \in 0 .. 0 |-> m]
  <2>1. IsQuotients(f, m, b, 0)
    BY DEF IsQuotients
  <2> QED BY <2>1
<1>2. ASSUME NEW i \in 1 .. n, i - 1 \in Good PROVE i \in Good
  <2>1. i \in Nat /\ i - 1 \in Nat
    OBVIOUS
  <2>2. PICK f : IsQuotients(f, m, b, i - 1)
    BY <1>2
  <2> DEFINE body(k, before) == IF k = 0 THEN m ELSE before \div b
             g == [k \in 0 .. i |-> IF k = i THEN body(k, f[i - 1]) ELSE f[k]]
  <2>3. \A k \in 0 .. i - 1 : f[k] = body(k, f[k - 1])
    BY <2>1, <2>2 DEF IsQuotients
  <2>4. ASSUME NEW k \in 0 .. i PROVE g[k] = body(k, g[k - 1])
    <3>1. CASE k = 0
      <4>1. g[0] = f[0] /\ f[0] = m
        BY <2>1, <2>3, <3>1
      <4> QED BY <3>1, <4>1
    <3>2. CASE k # 0
      <4>1. k - 1 \in 0 .. i - 1 /\ k - 1 # i /\ g[k - 1] = f[k - 1]
        BY <2>1, <3>2
      <4> HIDE DEF body
      <4>2. g[k] = IF k = i THEN body(k, f[i - 1]) ELSE f[k]
        OBVIOUS
      <4>3. k # i => k \in 0 .. i - 1
        BY <2>1
      <4> QED BY <2>3, <4>1, <4>2, <4>3
    <3> QED BY <3>1, <3>2
  <2>5. [k \in 0 .. i |-> g[k]] = [k \in 0 .. i |-> body(k, g[k - 1])]
    <3> HIDE DEF g, body
    <3> QED BY <2>4
  <2>6. IsQuotients(g, m, b, i)
    BY <2>5 DEF IsQuotients
  <2> QED BY <2>1, <2>6
<1>3. \A i \in 0 .. n : i \in Good
  <2> HIDE DEF Good
  <2> QED BY <1>1, <1>2, UpTo
<1> QED BY <1>3

LEMMA Quotients ==
  ASSUME NEW m \in Nat, NEW b \in {10, 10000}, NEW n \in Nat, NEW f, IsQuotients(f, m, b, n)
  PROVE  /\ f[0] = m
         /\ \A k \in 1 .. n : f[k] = f[k - 1] \div b
         /\ \A k \in 0 .. n : f[k] \in Nat
<1>1. f[0] = m /\ \A k \in 1 .. n : f[k] = f[k - 1] \div b
  BY DEF IsQuotients
<1>2. \A k \in 0 .. n : f[k] \in Nat
  <2> DEFINE Good == {k \in 0 .. n : f[k] \in Nat}
  <2>1. 0 \in Good
    BY <1>1
  <2>2. ASSUME NEW k \in 1 .. n, k - 1 \in Good PROVE k \in Good
    <3>1. \A y \in Nat : y \div 10 \in Nat /\ y \div 10000 \in Nat
      OBVIOUS
    <3>2. f[k - 1] \in Nat /\ f[k] = f[k - 1] \div b
      BY <1>1, <2>2
    <3>3. f[k] \in Nat
      BY <3>1, <3>2
    <3> QED BY <3>3
  <2>3. \A k \in 0 .. n : k \in Good
    <3> HIDE DEF Good
    <3> QED BY <2>1, <2>2, UpTo
  <2> QED BY <2>3
<1> QED BY <1>1, <1>2

\* count_digits: what is left after the rounds of four digits, and the digits.
Places(last) ==
  CASE last < 10 -> 1 [] last \in 10 .. 99 -> 2
    [] last \in 100 .. 999 -> 3 [] last >= 1000 -> 4

Fours(m) == CHOOSE x : IsQuotients(x, m, 10000, m)

\* count_digits ends, and what it returns.
LEMMA Counting ==
  ASSUME NEW m \in Nat
  PROVE  \E rounds \in 0 .. m :
           /\ Fours(m)[rounds] < 10000
           /\ \A j \in 0 .. rounds - 1 : Fours(m)[j] >= 10000
           /\ CountDigits(m) = 4 * rounds + Places(Fours(m)[rounds])
<1> DEFINE f == Fours(m)
           small(k) == f[k] < 10000 /\ \A j \in 0 .. k - 1 : f[j] >= 10000
           rounds == CHOOSE k \in 0 .. m : small(k)
<1>1. IsQuotients(f, m, 10000, m)
  BY QuotientsExist DEF Fours
<1> HIDE DEF f
<1>2. /\ f[0] = m
      /\ \A k \in 1 .. m : f[k] = f[k - 1] \div 10000
      /\ \A k \in 0 .. m : f[k] \in Nat
  BY <1>1, Quotients
<1>3. CountDigits(m) = 4 * rounds + Places(f[rounds])
  BY DEF CountDigits, IsQuotients, Places, Fours, f
<1>4. f[m] <= 0
  <2> DEFINE Good == {k \in 0 .. m : f[k] <= m - k}
  <2>1. 0 \in Good
    BY <1>2
  <2>2. ASSUME NEW k \in 1 .. m, k - 1 \in Good PROVE k \in Good
    <3>1. f[k - 1] \in Nat /\ f[k - 1] <= m - (k - 1) /\ f[k] = f[k - 1] \div 10000
      BY <1>2, <2>2
    <3>2. \A y \in Nat : y \div 10000 = 0 \/ y \div 10000 <= y - 1
      OBVIOUS
    <3>3. f[k] <= m - k
      BY <3>1, <3>2
    <3> QED BY <3>3
  <2>3. \A k \in 0 .. m : k \in Good
    <3> HIDE DEF Good
    <3> QED BY <2>1, <2>2, UpTo
  <2>4. m \in Good
    BY <2>3
  <2> QED BY <2>4
<1>5. \E k \in 0 .. m : small(k)
  <2> DEFINE Few == {k \in 0 .. m : f[k] < 10000}
  <2>1. m \in Few
    BY <1>2, <1>4
  <2>2. PICK k \in Few : \A j \in Nat : j < k => j \notin Few
    <3> HIDE DEF Few
    <3>1. Few \subseteq Nat
      BY DEF Few
    <3> QED BY <2>1, <3>1, SmallestNumber
  <2>3. ASSUME NEW j \in 0 .. k - 1 PROVE f[j] >= 10000
    <3>1. j \in Nat /\ j < k /\ j \in 0 .. m
      OBVIOUS
    <3>2. ~(f[j] < 10000) /\ f[j] \in Nat
      BY <1>2, <2>2, <3>1
    <3> QED BY <3>2
  <2>4. k \in 0 .. m /\ f[k] < 10000
    BY <2>2
  <2>5. small(k)
    BY <2>3, <2>4
  <2> HIDE DEF small
  <2> QED BY <2>4, <2>5
<1>6. rounds \in 0 .. m /\ small(rounds)
  <2> HIDE DEF small
  <2> QED BY <1>5
<1> HIDE DEF rounds
<1>7. rounds \in 0 .. m
  BY <1>6
<1> WITNESS rounds \in 0 .. m
<1> QED BY <1>3, <1>6 DEF f

\* Multiplied by ten four times.
LEMMA FourTimes ==
  ASSUME NEW y \in Nat
  PROVE  (((y \div 10) \div 10) \div 10) \div 10 = y \div 10000
<1> DEFINE a == y \div 10
           b == a \div 10
           c == b \div 10
           d == c \div 10
<1>1. a \in Nat /\ 10 * a <= y /\ y <= 10 * a + 9
  OBVIOUS
<1> HIDE DEF a
<1>2. b \in Nat /\ 10 * b <= a /\ a <= 10 * b + 9
  BY <1>1
<1> HIDE DEF b
<1>3. c \in Nat /\ 10 * c <= b /\ b <= 10 * c + 9
  BY <1>2
<1> HIDE DEF c
<1>4. d \in Nat /\ 10 * d <= c /\ c <= 10 * d + 9
  BY <1>3
<1> HIDE DEF d
<1>5. 10000 * d <= y /\ y <= 10000 * d + 9999
  BY <1>1, <1>2, <1>3, <1>4
<1>6. d = y \div 10000
  BY <1>4, <1>5
<1> QED BY <1>6 DEF d, c, b, a

\* The places of a number below ten thousand, and what dividing it leaves.
FourPlaces == 0 .. 9999
Placed(last) ==
  \/ Places(last) = 1 /\ last < 10
  \/ Places(last) = 2 /\ last \div 10 \in 1 .. 9
  \/ Places(last) = 3 /\ (last \div 10) \div 10 \in 1 .. 9
  \/ Places(last) = 4 /\ ((last \div 10) \div 10) \div 10 \in 1 .. 9

\* The four cases at the end of count_digits.
LEMMA PlacesRight ==
  ASSUME NEW last \in FourPlaces
  PROVE  Placed(last)
<1> DEFINE a == last \div 10
           b == a \div 10
           c == b \div 10
<1>1. a \in Nat /\ 10 * a <= last /\ last <= 10 * a + 9
  BY DEF FourPlaces
<1>2. b \in Nat /\ 10 * b <= a /\ a <= 10 * b + 9
  <2> HIDE DEF a
  <2> QED BY <1>1
<1>3. c \in Nat /\ 10 * c <= b /\ b <= 10 * c + 9
  <2> HIDE DEF b
  <2> QED BY <1>2
<1> HIDE DEF a, b, c
<1>4. CASE last < 10
  <2>1. last \notin 10 .. 99 /\ last \notin 100 .. 999 /\ ~(last >= 1000)
    BY SMTT(30), <1>4 DEF FourPlaces
  <2>2. Places(last) = 1
    BY <1>4, <2>1 DEF Places
  <2> QED BY <1>4, <2>2 DEF Placed
<1>5. CASE last \in 10 .. 99
  <2>1. a \in 1 .. 9
    BY <1>1, <1>5
  <2>2. ~(last < 10) /\ last \notin 100 .. 999 /\ ~(last >= 1000)
    BY <1>5
  <2>3. Places(last) = 2
    BY <1>5, <2>2 DEF Places
  <2> QED BY <2>1, <2>3 DEF a, Placed
<1>6. CASE last \in 100 .. 999
  <2>1. a >= 10 /\ a <= 99
    <3>1. last \in Int /\ last >= 100 /\ last <= 999
      BY <1>6
    <3> QED BY <1>1, <3>1
  <2>2. b \in 1 .. 9
    BY <1>1, <1>2, <2>1
  <2>3. ~(last < 10) /\ last \notin 10 .. 99 /\ ~(last >= 1000)
    BY <1>6
  <2>4. Places(last) = 3
    BY <1>6, <2>3 DEF Places
  <2> QED BY <2>2, <2>4 DEF a, b, Placed
<1>7. CASE last >= 1000
  <2>1. a >= 100 /\ a <= 999
    <3>1. last \in Int /\ last >= 1000 /\ last <= 9999
      BY <1>7 DEF FourPlaces
    <3> QED BY <1>1, <3>1
  <2>2. b >= 10 /\ b <= 99
    BY <1>1, <1>2, <2>1
  <2>3. c \in 1 .. 9
    BY <1>2, <1>3, <2>2
  <2>4. ~(last < 10) /\ last \notin 10 .. 99 /\ last \notin 100 .. 999
    BY SMTT(30), <1>7 DEF FourPlaces
  <2>5. Places(last) = 4
    BY <1>7, <2>4 DEF Places
  <2> QED BY <2>3, <2>5 DEF a, b, c, Placed
<1>8. last \in Int
  BY DEF FourPlaces
<1> QED BY <1>4, <1>5, <1>6, <1>7, <1>8

\* count_digits counts the digits that dump_integer writes: nothing is left
\* after the last, and before it is left a digit which is not zero, but for zero.
LEMMA CountRight ==
  ASSUME NEW m \in Nat, NEW d, d = CountDigits(m), NEW g, IsQuotients(g, m, 10, d)
  PROVE  /\ d \in Nat /\ d >= 1
         /\ g[d] = 0
         /\ g[d - 1] \in 0 .. 9
         /\ g[d - 1] = 0 => m = 0 /\ d = 1
<1> DEFINE f == Fours(m)
<1>1. PICK rounds \in 0 .. m :
        /\ f[rounds] < 10000
        /\ \A j \in 0 .. rounds - 1 : f[j] >= 10000
        /\ CountDigits(m) = 4 * rounds + Places(f[rounds])
  BY Counting
<1>2. IsQuotients(f, m, 10000, m)
  BY QuotientsExist DEF Fours
<1> HIDE DEF f
<1>3. /\ f[0] = m
      /\ \A k \in 1 .. m : f[k] = f[k - 1] \div 10000
      /\ \A k \in 0 .. m : f[k] \in Nat
  BY <1>2, Quotients
<1> DEFINE last == f[rounds]
           n == 4 * rounds
<1>4. last \in FourPlaces /\ rounds \in Nat /\ n \in Nat /\ last \in Nat
  <2>1. f[rounds] \in Nat /\ f[rounds] < 10000
    BY <1>1, <1>3
  <2>2. rounds \in Nat /\ n \in Nat
    OBVIOUS
  <2> HIDE DEF n, last
  <2>3. last \in Nat /\ last < 10000
    BY <2>1 DEF last
  <2> QED BY <2>2, <2>3 DEF FourPlaces
<1>5. d = n + Places(last) /\ Places(last) \in 1 .. 4
  <2>1. Places(last) \in {1, 2, 3, 4}
    <3> HIDE DEF last
    <3>1. Placed(last)
      BY <1>4, PlacesRight
    <3> QED BY <3>1 DEF Placed
  <2> QED BY <1>1, <2>1
<1>6. d \in Nat /\ d >= 1
  BY <1>4, <1>5
<1>7. /\ g[0] = m
      /\ \A k \in 1 .. d : g[k] = g[k - 1] \div 10
      /\ \A k \in 0 .. d : g[k] \in Nat
  BY <1>6, Quotients
<1>8. g[n] = last
  <2> DEFINE Good == {k \in 0 .. rounds : g[4 * k] = f[k]}
  <2>1. 0 \in Good
    BY <1>3, <1>4, <1>7
  <2>2. ASSUME NEW k \in 1 .. rounds, k - 1 \in Good PROVE k \in Good
    <3> DEFINE i == 4 * (k - 1)
               y == g[i]
    <3>1. /\ i \in Nat /\ i + 1 \in 1 .. d /\ i + 2 \in 1 .. d /\ i + 3 \in 1 .. d
          /\ i + 4 \in 1 .. d /\ i \in 0 .. d /\ i + 4 = 4 * k
      BY <1>4, <1>5
    <3>2. f[k] = f[k - 1] \div 10000 /\ g[i] = f[k - 1]
      BY <1>3, <1>4, <2>2
    <3> HIDE DEF i
    <3>3. /\ g[i + 1] = g[i] \div 10 /\ g[i + 2] = g[i + 1] \div 10
          /\ g[i + 3] = g[i + 2] \div 10 /\ g[i + 4] = g[i + 3] \div 10
      <4>1. (i + 1) - 1 = i /\ (i + 2) - 1 = i + 1 /\ (i + 3) - 1 = i + 2 /\ (i + 4) - 1 = i + 3
        BY <3>1
      <4> QED BY <1>7, <3>1, <4>1
    <3>4. g[i + 4] = (((g[i] \div 10) \div 10) \div 10) \div 10
      BY <3>3
    <3>5. g[i] \in Nat
      BY <1>7, <3>1
    <3>6. g[4 * k] = f[k]
      BY <3>1, <3>2, <3>4, <3>5, FourTimes
    <3> QED BY <3>6
  <2>3. \A k \in 0 .. rounds : k \in Good
    <3> HIDE DEF Good
    <3> QED BY <1>4, <2>1, <2>2, UpTo
  <2> QED BY <1>4, <2>3
<1>9. last = 0 => m = 0 /\ rounds = 0
  <2>1. CASE rounds = 0
    BY <1>3, <2>1
  <2>2. CASE rounds > 0
    <3>1. rounds - 1 \in 0 .. rounds - 1 /\ rounds \in 1 .. m /\ rounds - 1 \in 0 .. m
      BY <1>4, <2>2
    <3>2. f[rounds - 1] >= 10000 /\ f[rounds - 1] \in Nat /\ last = f[rounds - 1] \div 10000
      BY <1>1, <1>3, <3>1
    <3>3. \A y \in Nat : y >= 10000 => y \div 10000 # 0
      OBVIOUS
    <3> QED BY <3>2, <3>3
  <2> QED BY <1>4, <2>1, <2>2
<1> HIDE DEF n, last
<1>10. n \in 0 .. d
  BY <1>4, <1>5
<1>11. CASE Places(last) = 1 /\ last < 10
  <2>1. d = n + 1 /\ d - 1 = n
    BY <1>4, <1>5, <1>11
  <2>2. g[d] = last \div 10 /\ g[d - 1] = last
    BY <1>6, <1>7, <1>8, <2>1
  <2>3. last \div 10 = 0 /\ last \in 0 .. 9
    <3>1. last \in Int /\ last >= 0 /\ last <= 9
      BY <1>4, <1>11
    <3> QED BY <3>1
  <2>4. last = 0 => d = 1
    BY <1>9, <2>1 DEF n
  <2> QED BY <1>6, <1>9, <2>2, <2>3, <2>4
<1>12. CASE Places(last) = 2 /\ last \div 10 \in 1 .. 9
  <2> DEFINE a == last \div 10
  <2>1. d = n + 2 /\ d - 1 = n + 1 /\ n + 1 \in 1 .. d /\ d \in 1 .. d /\ (n + 1) - 1 = n
    BY <1>4, <1>5, <1>12
  <2>2. g[d - 1] = a /\ g[d] = a \div 10
    BY <1>7, <1>8, <2>1
  <2>3. a \in 1 .. 9
    BY <1>12
  <2> HIDE DEF a
  <2>4. a \div 10 = 0 /\ a \in 0 .. 9 /\ a # 0
    BY <2>3
  <2> QED BY <1>6, <2>2, <2>4
<1>13. CASE Places(last) = 3 /\ (last \div 10) \div 10 \in 1 .. 9
  <2> DEFINE a == (last \div 10) \div 10
  <2>1. /\ d = n + 3 /\ d - 1 = n + 2 /\ n + 1 \in 1 .. d /\ n + 2 \in 1 .. d /\ d \in 1 .. d
        /\ (n + 1) - 1 = n /\ (n + 2) - 1 = n + 1
    BY <1>4, <1>5, <1>13
  <2>2. g[d - 1] = a /\ g[d] = a \div 10
    BY <1>7, <1>8, <2>1
  <2>3. a \in 1 .. 9
    BY <1>13
  <2> HIDE DEF a
  <2>4. a \div 10 = 0 /\ a \in 0 .. 9 /\ a # 0
    BY <2>3
  <2> QED BY <1>6, <2>2, <2>4
<1>14. CASE Places(last) = 4 /\ ((last \div 10) \div 10) \div 10 \in 1 .. 9
  <2> DEFINE a == ((last \div 10) \div 10) \div 10
  <2>1. /\ d = n + 4 /\ d - 1 = n + 3 /\ n + 1 \in 1 .. d /\ n + 2 \in 1 .. d /\ n + 3 \in 1 .. d
        /\ d \in 1 .. d /\ (n + 1) - 1 = n /\ (n + 2) - 1 = n + 1 /\ (n + 3) - 1 = n + 2
    BY <1>4, <1>5, <1>14
  <2>2. g[d - 1] = a /\ g[d] = a \div 10
    BY <1>7, <1>8, <2>1
  <2>3. a \in 1 .. 9
    BY <1>14
  <2> HIDE DEF a
  <2>4. a \div 10 = 0 /\ a \in 0 .. 9 /\ a # 0
    BY <2>3
  <2> QED BY <1>6, <2>2, <2>4
<1>15. Placed(last)
  BY <1>4, PlacesRight
<1> QED BY <1>11, <1>12, <1>13, <1>14, <1>15, Zenon DEF Placed

\* The digits of a number, and the number that digits make.
Tens(m) == CHOOSE f : IsQuotients(f, m, 10, CountDigits(m))
Figures(m) == [i \in 1 .. CountDigits(m) |-> 48 + (Tens(m)[CountDigits(m) - i] % 10)]

IsNumber(f, digits, n) ==
  f = [i \in 0 .. n |-> IF i = 0 THEN 0 ELSE 10 * f[i - 1] + digits[i] - 48]
Size(digits) == (CHOOSE f : IsNumber(f, digits, Len(digits)))[Len(digits)]

\* The digits read so far have a value.
LEMMA NumberExists ==
  ASSUME NEW digits, NEW n \in Nat
  PROVE  \E f : IsNumber(f, digits, n)
<1> DEFINE Good == {i \in Nat : \E f : IsNumber(f, digits, i)}
<1>1. 0 \in Good
  <2> DEFINE f == [k \in 0 .. 0 |-> 0]
  <2>1. IsNumber(f, digits, 0)
    BY DEF IsNumber
  <2> QED BY <2>1
<1>2. ASSUME NEW i \in 1 .. n, i - 1 \in Good PROVE i \in Good
  <2>1. i \in Nat /\ i - 1 \in Nat
    OBVIOUS
  <2>2. PICK f : IsNumber(f, digits, i - 1)
    BY <1>2
  <2> DEFINE body(k, before) == IF k = 0 THEN 0 ELSE 10 * before + digits[k] - 48
             g == [k \in 0 .. i |-> IF k = i THEN body(k, f[i - 1]) ELSE f[k]]
  <2>3. \A k \in 0 .. i - 1 : f[k] = body(k, f[k - 1])
    BY <2>1, <2>2 DEF IsNumber
  <2>4. ASSUME NEW k \in 0 .. i PROVE g[k] = body(k, g[k - 1])
    <3>1. CASE k = 0
      <4>1. g[0] = f[0] /\ f[0] = 0
        BY <2>1, <2>3, <3>1
      <4> QED BY <3>1, <4>1
    <3>2. CASE k # 0
      <4>1. k - 1 \in 0 .. i - 1 /\ k - 1 # i /\ g[k - 1] = f[k - 1]
        BY <2>1, <3>2
      <4> HIDE DEF body
      <4>2. g[k] = IF k = i THEN body(k, f[i - 1]) ELSE f[k]
        OBVIOUS
      <4>3. k # i => k \in 0 .. i - 1
        BY <2>1
      <4> QED BY <2>3, <4>1, <4>2, <4>3
    <3> QED BY <3>1, <3>2
  <2>5. [k \in 0 .. i |-> g[k]] = [k \in 0 .. i |-> body(k, g[k - 1])]
    <3> HIDE DEF g, body
    <3> QED BY <2>4
  <2>6. IsNumber(g, digits, i)
    BY <2>5 DEF IsNumber
  <2> QED BY <2>1, <2>6
<1>3. \A i \in 0 .. n : i \in Good
  <2> HIDE DEF Good
  <2> QED BY <1>1, <1>2, UpTo
<1> QED BY <1>3

\* A number has at least one digit.
LEMMA DigitsCounted ==
  ASSUME NEW m \in Nat
  PROVE  CountDigits(m) \in Nat /\ CountDigits(m) >= 1
<1> DEFINE f == Fours(m)
<1>1. PICK rounds \in 0 .. m :
        /\ f[rounds] < 10000
        /\ CountDigits(m) = 4 * rounds + Places(f[rounds])
  BY Counting
<1>2. f[rounds] \in Nat
  <2>1. IsQuotients(f, m, 10000, m)
    BY QuotientsExist DEF Fours
  <2> HIDE DEF f
  <2> QED BY <2>1, Quotients
<1> DEFINE last == f[rounds]
<1> HIDE DEF f, last
<1>3. last \in FourPlaces
  <2>1. last \in Nat /\ last < 10000
    BY <1>1, <1>2 DEF last
  <2> QED BY SMTT(30), <2>1 DEF FourPlaces
<1>4. Places(last) \in {1, 2, 3, 4}
  BY <1>3, PlacesRight DEF Placed
<1>5. CountDigits(m) = 4 * rounds + Places(last) /\ rounds \in Nat
  BY <1>1 DEF last
<1> QED BY <1>4, <1>5

\* The digits that dump_integer writes make the number.
LEMMA FiguresRight ==
  ASSUME NEW m \in Nat
  PROVE  /\ Figures(m) \in Seq(Digit) /\ Len(Figures(m)) >= 1
         /\ Figures(m)[1] = 48 => Len(Figures(m)) = 1
         /\ Size(Figures(m)) = m
<1> DEFINE d == CountDigits(m)
           g == Tens(m)
           ds == Figures(m)
<1>1. d \in Nat /\ d >= 1
  BY DigitsCounted
<1>2. IsQuotients(g, m, 10, d)
  BY <1>1, QuotientsExist DEF Tens
<1>3. ds = [i \in 1 .. d |-> 48 + (g[d - i] % 10)]
  BY DEF Figures
<1> HIDE DEF g, ds
<1>4. g[d] = 0 /\ g[d - 1] \in 0 .. 9 /\ (g[d - 1] = 0 => m = 0 /\ d = 1)
  BY <1>2, CountRight
<1> HIDE DEF d
<1>5. /\ g[0] = m
      /\ \A k \in 1 .. d : g[k] = g[k - 1] \div 10
      /\ \A k \in 0 .. d : g[k] \in Nat
  BY <1>1, <1>2, Quotients
<1>6. \A i \in 1 .. d : ds[i] = 48 + (g[d - i] % 10) /\ ds[i] \in Digit
  <2> TAKE i \in 1 .. d
  <2>1. d - i \in 0 .. d /\ ds[i] = 48 + (g[d - i] % 10)
    BY <1>1, <1>3
  <2>2. g[d - i] \in Nat
    BY <1>5, <2>1
  <2>3. \A y \in Nat : 48 + (y % 10) \in 48 .. 57
    OBVIOUS
  <2> QED BY <2>1, <2>2, <2>3 DEF Digit
<1>7. ds \in Seq(Digit) /\ Len(ds) = d
  <2>1. ds = [i \in 1 .. d |-> ds[i]]
    BY <1>3
  <2> QED BY <1>1, <1>6, <2>1
<1>8. ds[1] = 48 => d = 1
  <2>1. 1 \in 1 .. d /\ ds[1] = 48 + (g[d - 1] % 10)
    BY <1>1, <1>6
  <2>2. \A y \in 0 .. 9 : 48 + (y % 10) = 48 => y = 0
    OBVIOUS
  <2> QED BY <1>4, <2>1, <2>2
<1>9. Size(ds) = m
  <2> DEFINE f == CHOOSE h : IsNumber(h, ds, d)
  <2>1. Size(ds) = f[d]
    BY <1>7 DEF Size
  <2>2. IsNumber(f, ds, d)
    BY <1>1, NumberExists
  <2> HIDE DEF f
  <2>3. f[0] = 0 /\ \A i \in 1 .. d : f[i] = 10 * f[i - 1] + ds[i] - 48
    BY <1>1, <2>2 DEF IsNumber
  <2> DEFINE Good == {i \in 0 .. d : f[i] = g[d - i]}
  <2>4. 0 \in Good
    BY <1>1, <1>4, <2>3
  <2>5. ASSUME NEW i \in 1 .. d, i - 1 \in Good PROVE i \in Good
    <3> DEFINE k == d - i
               y == g[k]
    <3>1. k \in 0 .. d /\ k + 1 \in 1 .. d /\ d - (i - 1) = k + 1 /\ (k + 1) - 1 = k /\ i \in 0 .. d
      BY <1>1
    <3>2. f[i - 1] = g[k + 1]
      BY <2>5, <3>1
    <3> HIDE DEF k
    <3>3. y \in Nat /\ g[k + 1] = y \div 10
      BY <1>5, <3>1
    <3>4. ds[i] = 48 + (y % 10)
      BY <1>6 DEF k
    <3>5. \A z \in Nat : 10 * (z \div 10) + (48 + (z % 10)) - 48 = z
      OBVIOUS
    <3>6. f[i] = 10 * (y \div 10) + (48 + (y % 10)) - 48
      BY <2>3, <3>2, <3>3, <3>4
    <3>7. f[i] = y
      <4> HIDE DEF y
      <4> QED BY <3>3, <3>5, <3>6
    <3> QED BY <3>1, <3>7 DEF k
  <2>6. \A i \in 0 .. d : i \in Good
    <3> HIDE DEF Good
    <3> QED BY <1>1, <2>4, <2>5, UpTo
  <2>7. f[d] = g[d - d] /\ d - d = 0
    BY <1>1, <2>6
  <2> QED BY <1>5, <2>1, <2>7
<1> QED BY <1>1, <1>7, <1>8, <1>9 DEF ds

\* strtoull and strtoll on digits, and on digits behind a minus.
LEMMA ValueOfDigits ==
  ASSUME NEW bytes
  PROVE  LET negative == Head(bytes) = Minus
             digits == IF negative THEN Tail(bytes) ELSE bytes
         IN NumberValue(bytes) =
              IF \/ \E i \in DOMAIN digits : digits[i] \notin Digit
                 \/ negative /\ Size(digits) > NumberRange
                 \/ ~negative /\ Size(digits) >= 2 * NumberRange
              THEN IF Overflows(digits) THEN Infinite ELSE Float
              ELSE <<"integer", IF negative THEN -Size(digits) ELSE Size(digits)>>
BY DEF NumberValue, Size, IsNumber

\* Without a sign, and with one.
LEMMA Unsigned ==
  ASSUME NEW ds \in Seq(Digit), Head(ds) # Minus, Size(ds) \in Nat, Size(ds) < 2 * NumberRange
  PROVE  NumberValue(ds) = Integer(Size(ds))
<1>1. \A i \in DOMAIN ds : ds[i] \in Digit
  OBVIOUS
<1>2. ~(Size(ds) >= 2 * NumberRange)
  BY JsonAssumption
<1> QED BY <1>1, <1>2, ValueOfDigits DEF Integer

LEMMA Signed ==
  ASSUME NEW ds \in Seq(Digit), NEW bytes, Head(bytes) = Minus, Tail(bytes) = ds,
         Size(ds) \in Nat, Size(ds) <= NumberRange
  PROVE  NumberValue(bytes) = Integer(-Size(ds))
<1>1. \A i \in DOMAIN ds : ds[i] \in Digit
  OBVIOUS
<1>2. ~(Size(ds) > NumberRange)
  BY JsonAssumption
<1> QED BY <1>1, <1>2, ValueOfDigits DEF Integer

\* What may follow a value that was written.
Delimiters == {44, 93, 125, EOF}

\* Over t, the reader r takes what makes it p: at once, or with the byte behind.
Takes(r, t, p) == \E q : Reads(r, t, q) /\ \A c \in Delimiters : Feed(q, c) = Feed(p, c)

\* What is read at once is taken.
LEMMA TakesAtOnce == \A r, t, p : Reads(r, t, p) => Takes(r, t, p)
BY DEF Takes

\* scan_number: one byte of a number,
LEMMA NumberByte ==
  ASSUME NEW scan \in NumberStates, NEW token, NEW wants, NEW stack, NEW root, Going(wants),
         NEW c, NEW to, NumberMove(scan, c) = to, to # "none"
  PROVE  Steps(Amid(scan, <<>>, token, wants, stack, root), c,
               Amid(to, <<>>, Append(token, c), wants, stack, root))
<1> DEFINE r == Amid(scan, <<>>, token, wants, stack, root)
           q(t) == Moved(r, to, t)
<1>1. Feed(r, c) = Number(r, c) /\ r.scan = scan /\ r.token = token
  BY Feeds, Fields
<1>2. \A t : q(t) = Amid(to, <<>>, t, wants, stack, root)
  BY Moves
<1> HIDE DEF r
<1>3. Number(r, c) = q(Append(token, c))
  BY <1>1 DEF Number, Moved
<1> HIDE DEF q
<1> QED BY <1>1, <1>2, <1>3 DEF Steps, r

\* the first one,
LEMMA NumberFirst ==
  ASSUME NEW wants, NEW stack, NEW root, Going(wants), NEW c \in Digit \cup {Minus}
  PROVE  Steps(Ready(wants, stack, root), c,
               Amid(IF c = Minus THEN "minus" ELSE NumberMove("minus", c), <<>>, <<c>>,
                    wants, stack, root))
<1> DEFINE r == Ready(wants, stack, root)
           q(to, t) == Moved(r, to, t)
<1>1. Feed(r, c) = Between(r, c)
  BY Feeds DEF Ready
<1>2. \A to, t : q(to, t) = Amid(to, <<>>, t, wants, stack, root)
  BY Moves DEF Ready
<1> HIDE DEF r
<1>3. c \notin White /\ c \notin {0, EOF} /\ c \notin DOMAIN Structure /\ c # Quote
      /\ ~\E t \in Literals : c = Head(t)
  <2>1. c \in 48 .. 57 \/ c = 45
    BY DEF Digit, Minus
  <2>2. c \notin {0, 9, 10, 13, 32, -1, 44, 58, 91, 93, 123, 125, 34, 116, 102, 110}
    BY <2>1
  <2>3. DOMAIN Structure = {44, 58, 91, 93, 123, 125}
    BY Zenon DEF Structure
  <2>4. \A t \in Literals : Head(t) \in {116, 102, 110}
    BY DEF Literals
  <2> QED BY <2>2, <2>3, <2>4 DEF White, EOF, Quote
<1>4. CASE c = Minus
  <2>1. Between(r, c) = q("minus", <<c>>)
    BY <1>3, <1>4 DEF Between, Minus, Digit, Moved
  <2> HIDE DEF q
  <2> QED BY <1>1, <1>2, <1>4, <2>1 DEF Steps, r
<1>5. CASE c # Minus
  <2>1. c \in Digit
    BY <1>5
  <2>2. Between(r, c) = q(NumberMove("minus", c), <<c>>)
    BY <1>3, <1>5, <2>1 DEF Between, Moved
  <2> HIDE DEF q
  <2> QED BY <1>1, <1>2, <1>5, <2>2 DEF Steps, r
<1> QED BY <1>4, <1>5

\* and the one behind it, which is put back.
LEMMA NumberBehind ==
  ASSUME NEW scan \in {"zero", "any1"}, NEW token, NEW wants, NEW stack, NEW root, Going(wants),
         NEW c \in Delimiters
  PROVE  Feed(Amid(scan, <<>>, token, wants, stack, root), c) =
           Feed(Token(Ready(wants, stack, root), "value", NumberValue(token)), c)
<1> DEFINE r == Amid(scan, <<>>, token, wants, stack, root)
           v == NumberValue(token)
           p == Token(Ready(wants, stack, root), "value", v)
<1>1. scan \in NumberStates /\ scan \in NumberEnds
  BY DEF NumberStates, NumberEnds
<1>2. Feed(r, c) = Number(r, c) /\ r.scan = scan /\ r.token = token
  BY <1>1, Feeds, Fields
<1>3. NumberMove(scan, c) = "none"
  <2>1. c \in {44, 93, 125, -1}
    BY DEF Delimiters, EOF
  <2>2. c \notin Digit /\ c # 46 /\ c \notin {69, 101} /\ c # 48
    BY <2>1 DEF Digit
  <2>3. scan # "minus"
    OBVIOUS
  <2> QED BY <2>2, <2>3 DEF NumberMove, IntegerMove
<1>4. Deliver(r, "value", v) = p
  BY Delivers
<1>5. p.scan = "between"
  <2> DEFINE s == Ready(wants, stack, root)
  <2>1. s.scan = "between" /\ IsReader(s)
    BY DEF Ready, Amid, IsReader, Scans
  <2> HIDE DEF s
  <2>2. SameScan(s, p)
    BY <2>1, TokenSameScan DEF s
  <2> QED BY <2>1, <2>2 DEF SameScan
<1> HIDE DEF r, p, v
<1>6. Feed(p, c) = IF Final(p) THEN p ELSE Between(p, c)
  BY <1>5 DEF Feed, NumberStates
<1>7. Number(r, c) = IF Final(p) THEN p ELSE Between(p, c)
  <2>1. Deliver(r, "value", NumberValue(r.token)) = p
    BY <1>2, <1>4 DEF v
  <2> QED BY <1>1, <1>2, <1>3, <2>1 DEF Number
<1> QED BY <1>2, <1>6, <1>7 DEF r, p, v

\* The digits of a number, from the first on.
LEMMA ReadsDigits ==
  ASSUME NEW ds \in Seq(Digit), Len(ds) >= 1, ds[1] = 48 => Len(ds) = 1,
         NEW r, NEW lead \in Seq(Byte), NEW wants, NEW stack, NEW root, Going(wants),
         NEW scan, scan = NumberMove("minus", ds[1]),
         Steps(r, ds[1], Amid(scan, <<>>, Append(lead, ds[1]), wants, stack, root))
  PROVE  /\ scan \in {"zero", "any1"}
         /\ Reads(r, ds, Amid(scan, <<>>, lead \o ds, wants, stack, root))
<1> DEFINE d == Len(ds)
           q(t) == Amid(scan, <<>>, t, wants, stack, root)
<1>1. d \in Nat /\ \A i \in 1 .. d : ds[i] \in Digit /\ ds[i] \in Byte
  BY DEF Digit, Byte
<1>2. scan = IF ds[1] = 48 THEN "zero" ELSE "any1"
  BY <1>1 DEF NumberMove, IntegerMove
<1>3. \A c \in Digit : NumberMove("any1", c) = "any1"
  <2> TAKE c \in Digit
  <2>1. c # 46 /\ c \notin {69, 101}
    BY DEF Digit
  <2> QED BY <2>1 DEF NumberMove, IntegerMove
<1> DEFINE Good == {i \in 0 .. d : i >= 1 => Reads(r, SubSeq(ds, 1, i), q(lead \o SubSeq(ds, 1, i)))}
<1>4. 0 \in Good
  BY <1>1
<1>5. ASSUME NEW i \in 1 .. d, i - 1 \in Good PROVE i \in Good
  <2> DEFINE s == SubSeq(ds, 1, i - 1)
             t == SubSeq(ds, 1, i)
             c == ds[i]
  <2>1. s \in Seq(Byte) /\ c \in Byte /\ t = Append(s, c)
    BY <1>1
  <2>2. lead \o t = Append(lead \o s, c)
    <3> HIDE DEF s, t, c
    <3>1. t = s \o <<c>> /\ <<c>> \in Seq(Byte) /\ lead \o s \in Seq(Byte)
      BY <2>1, AppendIsConcat, ConcatProperties
    <3>2. lead \o (s \o <<c>>) = (lead \o s) \o <<c>>
      BY <2>1, <3>1, ConcatAssociative
    <3> QED BY <2>1, <3>1, <3>2, AppendIsConcat
  <2>3. CASE i = 1
    <3>1. s = <<>>
      BY <2>3, SubSeqEmpty
    <3>2. c = ds[1] /\ t = <<ds[1]>> /\ lead \o s = lead
      <4>1. c = ds[1]
        BY <2>3
      <4> HIDE DEF s, t, c
      <4> QED BY <2>1, <3>1, <4>1, ConcatEmptySeq
    <3>3. Reads(r, <<ds[1]>>, q(Append(lead, ds[1])))
      BY StepReads
    <3> HIDE DEF q, s, t, c
    <3>4. Reads(r, t, q(lead \o t))
      BY <2>2, <3>2, <3>3
    <3> QED BY <3>4 DEF t
  <2>4. CASE i # 1
    <3>1. scan = "any1" /\ scan \in NumberStates /\ NumberMove(scan, c) = scan /\ scan # "none"
      BY <1>1, <1>2, <1>3, <2>4 DEF NumberStates
    <3>2. Steps(q(lead \o s), c, q(Append(lead \o s, c)))
      BY <3>1, NumberByte
    <3>3. Reads(r, s, q(lead \o s))
      BY <1>1, <1>5, <2>4
    <3> HIDE DEF q, s, t, c
    <3>4. Reads(r, t, q(lead \o t))
      BY <2>1, <2>2, <3>2, <3>3, ReadsMore DEF Steps
    <3> QED BY <3>4 DEF t
  <2> QED BY <2>3, <2>4
<1>6. Reads(r, SubSeq(ds, 1, d), q(lead \o SubSeq(ds, 1, d)))
  <2> HIDE DEF q
  <2>1. \A i \in 0 .. d : i \in Good
    <3> HIDE DEF Good
    <3> QED BY <1>1, <1>4, <1>5, UpTo
  <2> QED BY <1>1, <2>1
<1>7. SubSeq(ds, 1, d) = ds
  BY SubSeqFull
<1> HIDE DEF q, d
<1>8. Reads(r, ds, q(lead \o ds))
  BY <1>6, <1>7
<1> QED BY <1>2, <1>8 DEF q

\* A sequence behind one more element.
LEMMA Behind ==
  ASSUME NEW S, NEW x \in S, NEW s \in Seq(S)
  PROVE  Head(<<x>> \o s) = x /\ Tail(<<x>> \o s) = s /\ <<x>> \o s \in Seq(S)
<1> DEFINE t == <<x>> \o s
           n == Len(s)
<1>1. t \in Seq(S) /\ n \in Nat /\ Len(t) = n + 1 /\ t[1] = x /\ \A i \in 1 .. n : t[i + 1] = s[i]
  OBVIOUS
<1> HIDE DEF t
<1>2. t # <<>>
  BY <1>1
<1>3. Head(t) = x
  BY <1>1
<1>4. Tail(t) \in Seq(S) /\ Len(Tail(t)) = n /\ \A i \in 1 .. n : Tail(t)[i] = t[i + 1]
  BY <1>1, <1>2, HeadTailProperties
<1>5. Tail(t) = s
  BY <1>1, <1>4, SeqEqual
<1> QED BY <1>1, <1>3, <1>5 DEF t

\* The end of a number.
LEMMA TakesNumber ==
  ASSUME NEW r, NEW bytes, NEW n, NEW wants, NEW stack, NEW root, Going(wants),
         NEW scan \in {"zero", "any1"}, NumberValue(bytes) = n,
         Reads(r, bytes, Amid(scan, <<>>, bytes, wants, stack, root))
  PROVE  Takes(r, bytes, Token(Ready(wants, stack, root), "value", n))
<1> DEFINE q == Amid(scan, <<>>, bytes, wants, stack, root)
           p == Token(Ready(wants, stack, root), "value", NumberValue(bytes))
<1>1. \A c \in Delimiters : Feed(q, c) = Feed(p, c)
  BY NumberBehind
<1>2. p = Token(Ready(wants, stack, root), "value", n)
  OBVIOUS
<1> HIDE DEF q, p
<1>3. Takes(r, bytes, p)
  BY <1>1 DEF Takes, q
<1> QED BY <1>2, <1>3

\* A number that dump_integer writes is read as that number: for every number
\* that fits, signed or unsigned, however many rounds count_digits takes.
THEOREM IntegersReadBack ==
  \A n \in -NumberRange .. 2 * NumberRange - 1 : \A wants, stack, root :
    Going(wants) =>
      /\ DumpInteger(n) \in Seq(Byte)
      /\ Head(DumpInteger(n)) \in Digit \cup {Minus} /\ DumpInteger(n) # <<>>
      /\ Takes(Ready(wants, stack, root), DumpInteger(n),
               Token(Ready(wants, stack, root), "value", Integer(n)))
<1> TAKE n \in -NumberRange .. 2 * NumberRange - 1
<1> TAKE wants, stack, root
<1> HAVE Going(wants)
<1> DEFINE m == IF n < 0 THEN -n ELSE n
           ds == Figures(m)
           r == Ready(wants, stack, root)
           q(scan, t) == Amid(scan, <<>>, t, wants, stack, root)
           c == ds[1]
           to == NumberMove("minus", c)
           sign == <<Minus>>
           p == Token(r, "value", Integer(n))
<1>1. n \in Int /\ m \in Nat /\ (n < 0 => m <= NumberRange) /\ (n >= 0 => m < 2 * NumberRange)
  BY JsonAssumption
<1>2. DumpInteger(n) = (IF n < 0 THEN sign ELSE <<>>) \o ds
  BY DEF DumpInteger, Figures, Tens, IsQuotients
<1>3. ds \in Seq(Digit) /\ Len(ds) >= 1 /\ (c = 48 => Len(ds) = 1) /\ Size(ds) = m
  BY <1>1, FiguresRight
<1>4. n >= 0 => n = m
  BY <1>1
<1>5. n < 0 => n = -m
  BY <1>1
<1> HIDE DEF m, ds
<1>6. ds \in Seq(Byte) /\ c \in Digit /\ c # Minus /\ c \in Byte /\ Head(ds) = c /\ ds # <<>>
  <2>1. \A i \in 1 .. Len(ds) : ds[i] \in Digit
    BY <1>3
  <2>2. \A i \in 1 .. Len(ds) : ds[i] \in Byte
    BY <2>1 DEF Digit, Byte
  <2>3. c \in Digit /\ c \in Byte /\ Head(ds) = c /\ ds # <<>>
    BY <1>3, <2>1, <2>2
  <2>4. c # Minus
    BY <2>3 DEF Digit, Minus
  <2>5. ds \in Seq(Byte)
    BY <1>3, <2>2
  <2> QED BY <2>3, <2>4, <2>5
<1> HIDE DEF c
<1>7. CASE n >= 0
  <2>1. DumpInteger(n) = ds
    BY <1>1, <1>2, <1>6, <1>7, ConcatEmptySeq
  <2>2. Steps(r, c, q(to, <<c>>))
    <3>1. Steps(r, c, q(IF c = Minus THEN "minus" ELSE NumberMove("minus", c), <<c>>))
      BY <1>6, NumberFirst
    <3> QED BY <1>6, <3>1
  <2>3. <<c>> = Append(<<>>, c) /\ <<>> \in Seq(Byte)
    OBVIOUS
  <2>4. Steps(r, ds[1], Amid(to, <<>>, Append(<<>>, ds[1]), wants, stack, root))
    <3> HIDE DEF r, to
    <3> QED BY <2>2, <2>3 DEF c
  <2>5. to = NumberMove("minus", ds[1]) /\ (ds[1] = 48 => Len(ds) = 1)
    BY <1>3 DEF c
  <2> HIDE DEF to, r
  <2>6. to \in {"zero", "any1"} /\ Reads(r, ds, q(to, <<>> \o ds))
    BY <1>3, <2>3, <2>4, <2>5, ReadsDigits
  <2>7. Reads(r, ds, q(to, ds))
    BY <1>6, <2>6, ConcatEmptySeq
  <2>8. NumberValue(ds) = Integer(n)
    <3>1. Head(ds) # Minus /\ Size(ds) \in Nat /\ Size(ds) < 2 * NumberRange
      BY <1>1, <1>3, <1>6, <1>7
    <3>2. NumberValue(ds) = Integer(Size(ds))
      BY <1>3, <3>1, Unsigned
    <3> QED BY <1>3, <1>4, <1>7, <3>2
  <2>9. Takes(r, ds, p)
    BY <2>6, <2>7, <2>8, TakesNumber DEF r
  <2> QED BY <1>6, <2>1, <2>9 DEF r
<1>8. CASE n < 0
  <2> DEFINE bytes == sign \o ds
             s == q("minus", sign)
  <2>1. DumpInteger(n) = bytes
    BY <1>2, <1>8
  <2>2. Minus \in Byte /\ Minus \in Digit \cup {Minus} /\ sign \in Seq(Byte)
    BY DEF Minus, Byte
  <2>3. Head(bytes) = Minus /\ Tail(bytes) = ds /\ bytes \in Seq(Byte)
    BY <1>6, <2>2, Behind
  <2>4. Steps(r, Minus, s)
    <3>1. Steps(r, Minus, q(IF Minus = Minus THEN "minus" ELSE NumberMove("minus", Minus), sign))
      BY <2>2, NumberFirst
    <3> QED BY <3>1
  <2>5. to # "none" /\ "minus" \in NumberStates
    BY <1>6 DEF NumberMove, IntegerMove, NumberStates
  <2>6. Steps(s, ds[1], Amid(to, <<>>, Append(sign, ds[1]), wants, stack, root))
    <3> HIDE DEF sign
    <3>1. Steps(s, c, q(to, Append(sign, c)))
      <4>1. NumberMove("minus", c) = to
        OBVIOUS
      <4> HIDE DEF to
      <4> QED BY <2>5, <4>1, NumberByte
    <3> QED BY <3>1 DEF c
  <2>7. to = NumberMove("minus", ds[1]) /\ (ds[1] = 48 => Len(ds) = 1)
    BY <1>3 DEF c
  <2> HIDE DEF to, r, s, sign
  <2>8. to \in {"zero", "any1"} /\ Reads(s, ds, q(to, bytes))
    BY <1>3, <2>2, <2>6, <2>7, ReadsDigits
  <2>9. Reads(r, bytes, q(to, bytes))
    <3>1. Reads(r, sign, s)
      BY <2>4, StepReads DEF sign
    <3> QED BY <1>6, <2>2, <2>8, <3>1, ReadsOn
  <2> HIDE DEF bytes
  <2>10. NumberValue(bytes) = Integer(n)
    <3>1. Size(ds) \in Nat /\ Size(ds) <= NumberRange
      BY <1>1, <1>3, <1>8
    <3>2. NumberValue(bytes) = Integer(-Size(ds))
      BY <1>3, <2>3, <3>1, Signed
    <3> QED BY <1>3, <1>5, <1>8, <3>2
  <2>11. Takes(r, bytes, p)
    BY <2>8, <2>9, <2>10, TakesNumber DEF r
  <2>12. bytes # <<>>
    <3>1. Len(bytes) = 1 + Len(ds)
      BY <1>6, <2>2 DEF bytes, sign
    <3>2. Len(ds) \in Nat
      BY <1>6
    <3> QED BY <3>1, <3>2
  <2> QED BY <2>1, <2>2, <2>3, <2>11, <2>12 DEF r
<1> QED BY <1>1, <1>7, <1>8
-----------------------------------------------------------------------------
(* What is read into *)

\* A text that is read as the value v wherever a value is wanted.
ReadBack(t, v) ==
  /\ t \in Seq(Byte)
  /\ \A wants, stack, root :
       IsStack(stack) /\ WantsValue(Ready(wants, stack, root)) =>
         Takes(Ready(wants, stack, root), t, HandleValue(Ready(wants, stack, root), v))

\* A reader that wants a value is not at its end.
LEMMA WantedGoing ==
  ASSUME NEW wants, NEW stack, NEW root, WantsValue(Ready(wants, stack, root))
  PROVE  Going(wants)
BY Fields DEF WantsValue, Ready, Going

\* The fields of a reader between two tokens.
LEMMA ReadyFields ==
  ASSUME NEW wants, NEW stack, NEW root
  PROVE  LET r == Ready(wants, stack, root)
         IN r.wants = wants /\ r.stack = stack /\ r.root = root /\ r.scan = "between"
BY Fields DEF Ready

\* Only a number can be too large.
LEMMA FiniteValues ==
  \A x : IsFinite(Text(x)) /\ IsFinite(Integer(x)) /\ IsFinite(LiteralValue(x))
BY DEF IsFinite, Infinite, Text, Integer, LiteralValue, Null

\* The parser takes a value where one is wanted.
LEMMA ValueTaken ==
  ASSUME NEW wants, NEW stack, NEW root, WantsValue(Ready(wants, stack, root)),
         NEW v, IsFinite(v)
  PROVE  Token(Ready(wants, stack, root), "value", v) = HandleValue(Ready(wants, stack, root), v)
<1> DEFINE r == Ready(wants, stack, root)
<1>1. ~(v[1] = "string" /\ Inside(r, "object") /\ r.wants \in {"first", "key"})
  BY DEF WantsValue, Inside
<1> HIDE DEF r
<1> QED BY <1>1 DEF Token, r

\* Onto the value itself, or into the uppermost frame.
LEMMA TopValue ==
  ASSUME NEW wants, NEW root, NEW v
  PROVE  HandleValue(Ready(wants, <<>>, root), v) = Ready("after", <<>>, v)
<1> DEFINE r == Ready(wants, <<>>, root)
<1>1. r.stack = <<>>
  BY ReadyFields
<1>2. Rooted(r, v, "after") = Ready("after", <<>>, v)
  BY Roots DEF Ready
<1> HIDE DEF r
<1> QED BY <1>1, <1>2 DEF HandleValue, r, Rooted

\* The uppermost frame of a stack.
LEMMA Topmost ==
  ASSUME NEW stack, IsStack(stack), NEW frame
  PROVE  LET k == Append(stack, frame)
         IN IsStack(k) /\ k # <<>> /\ Last(k) = frame /\ Front(k) = stack
            /\ Len(k) \in DOMAIN k
<1> PICK S : stack \in Seq(S)
  BY DEF IsStack
<1> DEFINE T == S \cup {frame}
           k == Append(stack, frame)
<1>1. stack \in Seq(T) /\ frame \in T
  OBVIOUS
<1> HIDE DEF T
<1>2. /\ k \in Seq(T) /\ Len(k) = Len(stack) + 1 /\ Len(stack) \in Nat
      /\ k[Len(stack) + 1] = frame /\ \A i \in 1 .. Len(stack) : k[i] = stack[i]
  BY <1>1
<1>3. IsStack(k) /\ k # <<>>
  BY Stacks
<1> HIDE DEF k
<1>4. Last(k) = frame
  BY <1>2 DEF Last
<1>5. Front(k) = stack
  <2>1. Front(k) = SubSeq(k, 1, Len(stack))
    BY <1>2 DEF Front
  <2>2. SubSeq(k, 1, Len(stack)) \in Seq(T) /\ Len(SubSeq(k, 1, Len(stack))) = Len(stack)
        /\ \A i \in 1 .. Len(stack) : SubSeq(k, 1, Len(stack))[i] = k[i]
    BY <1>2
  <2> HIDE DEF T
  <2> QED BY <1>1, <1>2, <2>1, <2>2, SeqEqual
<1> QED BY <1>2, <1>3, <1>4, <1>5 DEF k

Frame(value, key) == [value |-> value, key |-> key]
Within(wants, stack, root, value, key) == Ready(wants, Append(stack, Frame(value, key)), root)

\* The fields of a reader inside a bracket.
LEMMA WithinFields ==
  ASSUME NEW wants, NEW stack, NEW root, NEW value, NEW key, IsStack(stack)
  PROVE  LET r == Within(wants, stack, root, value, key)
         IN /\ r.wants = wants /\ r.stack = Append(stack, Frame(value, key)) /\ r.root = root
            /\ r.stack # <<>> /\ IsStack(r.stack)
            /\ Last(r.stack) = Frame(value, key) /\ Front(r.stack) = stack
            /\ Frame(value, key).value = value /\ Frame(value, key).key = key
<1> DEFINE k == Append(stack, Frame(value, key))
           r == Within(wants, stack, root, value, key)
<1>1. IsStack(k) /\ k # <<>> /\ Last(k) = Frame(value, key) /\ Front(k) = stack
  BY Topmost
<1> HIDE DEF k
<1>2. r = Ready(wants, k, root)
  BY DEF Within, k
<1> HIDE DEF r
<1>4. r.wants = wants /\ r.stack = k /\ r.root = root
  BY <1>2, ReadyFields
<1>3. Frame(value, key).value = value /\ Frame(value, key).key = key
  BY DEF Frame
<1> QED BY <1>1, <1>3, <1>4 DEF k, r

\* A bracket opens,
LEMMA Opened ==
  ASSUME NEW wants, NEW stack, NEW root, NEW empty
  PROVE  Open(Ready(wants, stack, root), empty) = Within("first", stack, root, empty, <<>>)
<1> DEFINE r == Ready(wants, stack, root)
           q(k) == Pushed(r, k, "first")
<1>1. \A k : q(k) = Ready("first", k, root)
  BY Pushes DEF Ready
<1>2. r.stack = stack
  BY ReadyFields
<1> HIDE DEF r
<1>3. Open(r, empty) = q(Append(stack, Frame(empty, <<>>)))
  BY <1>2 DEF Open, Frame, Pushed
<1> HIDE DEF q
<1> QED BY <1>1, <1>3 DEF Within, r

\* and closes.
LEMMA Closed ==
  ASSUME NEW wants, NEW stack, IsStack(stack), NEW root, NEW value, NEW key, NEW w
  PROVE  Close(Within(wants, stack, root, value, key)) = HandleValue(Ready(w, stack, root), value)
<1> DEFINE r == Within(wants, stack, root, value, key)
           q(k) == [r EXCEPT !.stack = k]
<1>1. \A k : q(k) = Ready(wants, k, root)
  BY Pops DEF Ready, Within
<1>2. Front(r.stack) = stack /\ Last(r.stack).value = value
  BY WithinFields
<1> HIDE DEF r
<1>3. Close(r) = HandleValue(q(stack), value)
  BY <1>2 DEF Close
<1> HIDE DEF q
<1>4. Close(r) = HandleValue(Ready(wants, stack, root), value)
  BY <1>1, <1>3
<1>5. HandleValue(Ready(wants, stack, root), value) = HandleValue(Ready(w, stack, root), value)
  <2> DEFINE p == Ready(wants, stack, root)
             s == Ready(w, stack, root)
             pushed(k) == Pushed(p, k, "after")
             again(k) == Pushed(s, k, "after")
  <2>1. p.stack = stack /\ s.stack = stack
    BY ReadyFields
  <2>2. \A k : pushed(k) = Ready("after", k, root) /\ again(k) = Ready("after", k, root)
    BY Pushes DEF Ready
  <2>3. CASE stack = <<>>
    BY <2>3, TopValue
  <2>4. CASE stack # <<>>
    <3> HIDE DEF p, s
    <3>1. \E k : HandleValue(p, value) = pushed(k) /\ HandleValue(s, value) = again(k)
      BY ZenonT(30), <2>1, <2>4 DEF HandleValue, Pushed
    <3> HIDE DEF pushed, again
    <3> QED BY SMTT(30), <2>2, <3>1 DEF p, s
  <2> QED BY <2>3, <2>4
<1> QED BY <1>4, <1>5 DEF r

\* A text that is read and a text that is taken, and a text that is taken and the
\* byte behind it.
LEMMA ReadsThenTakes ==
  ASSUME NEW s \in Seq(Byte), NEW t \in Seq(Byte), NEW r, NEW p, NEW q,
         Reads(r, s, p), Takes(p, t, q)
  PROVE  Takes(r, s \o t, q)
<1>1. PICK e : Reads(p, t, e) /\ \A c \in Delimiters : Feed(e, c) = Feed(q, c)
  BY DEF Takes
<1>2. Reads(r, s \o t, e)
  BY <1>1, ReadsOn
<1> QED BY <1>1, <1>2 DEF Takes

\* The bytes that may stand behind a value.
Behinds == {44, 93, 125}

LEMMA TakesThenByte ==
  ASSUME NEW s \in Seq(Byte), NEW r, NEW p, NEW q, Takes(r, s, p), NEW c \in Behinds,
         Steps(p, c, q)
  PROVE  Reads(r, s \o <<c>>, q) /\ s \o <<c>> \in Seq(Byte) /\ <<c>> \in Seq(Byte)
<1>1. PICK e : Reads(r, s, e) /\ \A d \in Delimiters : Feed(e, d) = Feed(p, d)
  BY DEF Takes
<1>2. c \in Delimiters /\ c \in Byte
  BY DEF Delimiters, Byte, Behinds
<1>3. Feed(e, c) = q
  BY <1>1, <1>2 DEF Steps
<1>4. Reads(e, <<c>>, q) /\ <<c>> \in Seq(Byte)
  BY <1>2, <1>3, ReadsByte
<1>5. Reads(r, s \o <<c>>, q)
  BY <1>1, <1>4, ReadsOn
<1>6. s \o <<c>> \in Seq(Byte)
  BY <1>4, ConcatProperties
<1> QED BY <1>4, <1>5, <1>6

\* The brackets, the comma and the colon.
LEMMA ReadsStructure ==
  ASSUME NEW wants, NEW stack, NEW root, Going(wants), NEW c \in DOMAIN Structure
  PROVE  Steps(Ready(wants, stack, root), c, Token(Ready(wants, stack, root), Structure[c], Null))
<1> DEFINE r == Ready(wants, stack, root)
           p == Token(r, Structure[c], Null)
<1>1. Feed(r, c) = Between(r, c)
  BY Feeds DEF Ready
<1>2. Deliver(r, Structure[c], Null) = p
  BY Delivers DEF Ready
<1> HIDE DEF r, p
<1>3. Between(r, c) = Deliver(r, Structure[c], Null)
  <2>1. c \in {44, 58, 91, 93, 123, 125}
    BY DEF Structure
  <2>2. c \notin White /\ c \notin {0, EOF} /\ c \notin Digit /\ c # Quote /\ c # Minus
    BY <2>1 DEF White, EOF, Digit, Quote, Minus
  <2>3. ~\E t \in Literals : c = Head(t)
    BY <2>1 DEF Literals
  <2> QED BY <2>2, <2>3 DEF Between
<1> QED BY <1>1, <1>2, <1>3 DEF r, p, Steps

\* Which byte is which token.
LEMMA StructureIs ==
  /\ {44, 58, 91, 93, 123, 125} \subseteq DOMAIN Structure
  /\ Structure[44] = "comma" /\ Structure[58] = "separator" /\ Structure[91] = "begin_array"
  /\ Structure[93] = "end_array" /\ Structure[123] = "begin_object" /\ Structure[125] = "end_object"
BY DEF Structure

\* The bracket of an array and the brace of an object open a frame.
LEMMA ArrayOpens ==
  ASSUME NEW wants, NEW stack, NEW root, WantsValue(Ready(wants, stack, root))
  PROVE  Steps(Ready(wants, stack, root), 91, Within("first", stack, root, EmptyArray, <<>>))
<1> DEFINE r == Ready(wants, stack, root)
<1>1. Steps(r, 91, Token(r, "begin_array", Null))
  BY WantedGoing, ReadsStructure, StructureIs
<1>2. Open(r, EmptyArray) = Within("first", stack, root, EmptyArray, <<>>)
  BY Opened
<1> HIDE DEF r
<1>3. Token(r, "begin_array", Null) = Open(r, EmptyArray)
  BY DEF Token, r
<1> QED BY <1>1, <1>2, <1>3 DEF r

LEMMA ObjectOpens ==
  ASSUME NEW wants, NEW stack, NEW root, WantsValue(Ready(wants, stack, root))
  PROVE  Steps(Ready(wants, stack, root), 123, Within("first", stack, root, EmptyObject, <<>>))
<1> DEFINE r == Ready(wants, stack, root)
<1>1. Steps(r, 123, Token(r, "begin_object", Null))
  BY WantedGoing, ReadsStructure, StructureIs
<1>2. Open(r, EmptyObject) = Within("first", stack, root, EmptyObject, <<>>)
  BY Opened
<1> HIDE DEF r
<1>3. Token(r, "begin_object", Null) = Open(r, EmptyObject)
  BY DEF Token, r
<1> QED BY <1>1, <1>2, <1>3 DEF r

\* After a value: the bracket that closes, or a comma.
LEMMA ArrayCloses ==
  ASSUME NEW wants \in {"first", "after"}, NEW stack, IsStack(stack), NEW root, NEW s, NEW key, NEW w
  PROVE  Steps(Within(wants, stack, root, Array(s), key), 93,
               HandleValue(Ready(w, stack, root), Array(s)))
<1> DEFINE r == Within(wants, stack, root, Array(s), key)
<1>1. Steps(r, 93, Token(r, "end_array", Null))
  BY ReadsStructure, StructureIs DEF Within, Going
<1>2. Close(r) = HandleValue(Ready(w, stack, root), Array(s))
  BY Closed
<1>3. Inside(r, "array") /\ r.wants \in {"first", "after"}
  <2>1. r.wants = wants /\ r.stack # <<>> /\ Last(r.stack).value = Array(s)
    BY WithinFields
  <2> HIDE DEF r
  <2> QED BY <2>1 DEF Inside, Array
<1> HIDE DEF r
<1>4. Token(r, "end_array", Null) = Close(r)
  BY <1>3 DEF Token
<1> QED BY <1>1, <1>2, <1>4 DEF r

LEMMA ObjectCloses ==
  ASSUME NEW wants \in {"first", "after"}, NEW stack, IsStack(stack), NEW root, NEW s, NEW key, NEW w
  PROVE  Steps(Within(wants, stack, root, Object(s), key), 125,
               HandleValue(Ready(w, stack, root), Object(s)))
<1> DEFINE r == Within(wants, stack, root, Object(s), key)
<1>1. Steps(r, 125, Token(r, "end_object", Null))
  BY ReadsStructure, StructureIs DEF Within, Going
<1>2. Close(r) = HandleValue(Ready(w, stack, root), Object(s))
  BY Closed
<1>3. Inside(r, "object") /\ r.wants \in {"first", "after"}
  <2>1. r.wants = wants /\ r.stack # <<>> /\ Last(r.stack).value = Object(s)
    BY WithinFields
  <2> HIDE DEF r
  <2> QED BY <2>1 DEF Inside, Object
<1> HIDE DEF r
<1>4. Token(r, "end_object", Null) = Close(r)
  BY <1>3 DEF Token
<1> QED BY <1>1, <1>2, <1>4 DEF r

\* The comma.
LEMMA CommaRead ==
  ASSUME NEW stack, IsStack(stack), NEW root, NEW value, NEW key
  PROVE  Steps(Within("after", stack, root, value, key), 44,
               Within(IF value[1] = "object" THEN "key" ELSE "value", stack, root, value, key))
<1> DEFINE r == Within("after", stack, root, value, key)
           q(w) == [r EXCEPT !.wants = w]
<1>1. Steps(r, 44, Token(r, "comma", Null))
  BY ReadsStructure, StructureIs DEF Within, Going
<1>2. \A w : q(w) = Within(w, stack, root, value, key)
  BY Wants DEF Within, Ready
<1>3. r.wants = "after" /\ r.stack # <<>> /\ Last(r.stack).value = value
  <2>1. \A w : LET p == Within(w, stack, root, value, key)
               IN p.wants = w /\ p.stack # <<>> /\ Last(p.stack).value = value
    BY WithinFields
  <2> QED BY <2>1
<1> HIDE DEF r
<1>4. AfterComma(r) = IF value[1] = "object" THEN "key" ELSE "value"
  BY <1>3 DEF AfterComma, Inside
<1>5. Token(r, "comma", Null) = q(AfterComma(r))
  BY <1>3 DEF Token
<1> HIDE DEF q
<1>6. Token(r, "comma", Null) =
        Within(IF value[1] = "object" THEN "key" ELSE "value", stack, root, value, key)
  BY <1>2, <1>4, <1>5
<1> QED BY <1>1, <1>6 DEF r

\* The next element.
LEMMA ElementTaken ==
  ASSUME NEW wants, NEW stack, IsStack(stack), NEW root, NEW s, NEW key, NEW v
  PROVE  HandleValue(Within(wants, stack, root, Array(s), key), v) =
           Within("after", stack, root, Array(Append(s, v)), key)
<1> DEFINE r == Within(wants, stack, root, Array(s), key)
           q(k) == Pushed(r, k, "after")
           top == Frame(Array(s), key)
           grown == Array(Append(s, v))
<1>1. r.stack # <<>> /\ Last(r.stack) = top /\ Front(r.stack) = stack /\ top.value = Array(s)
  <2>1. \A x : LET p == Within(wants, stack, root, x, key)
               IN /\ p.stack # <<>> /\ Last(p.stack) = Frame(x, key) /\ Front(p.stack) = stack
                  /\ Frame(x, key).value = x
    BY WithinFields
  <2> QED BY <2>1
<1>2. \A k : q(k) = Ready("after", k, root)
  BY Pushes DEF Ready, Within
<1>3. \A x : [top EXCEPT !.value = x] = Frame(x, key)
  BY DEF Frame
<1>4. Array(s)[1] = "array" /\ Array(s)[2] = s
  BY DEF Array
<1> HIDE DEF r, top
<1>5. HandleValue(r, v) = q(Append(stack, [top EXCEPT !.value = grown]))
  BY <1>1, <1>4 DEF HandleValue, Pushed, Array
<1> HIDE DEF q, grown
<1>6. HandleValue(r, v) = Ready("after", Append(stack, Frame(grown, key)), root)
  BY <1>2, <1>3, <1>5
<1> QED BY <1>6 DEF r, Within, grown

\* Three texts, one after the other.
LEMMA Thrice ==
  \A s \in Seq(Byte), t \in Seq(Byte), u \in Seq(Byte) : (s \o t) \o u = s \o (t \o u)
BY ConcatAssociative

\* Parts that are taken one after the other, with a comma between them: q has the
\* readers behind the parts, w the ones behind the commas.
LEMMA JoinedTaken ==
  ASSUME NEW parts \in Seq(Seq(Byte)), Len(parts) > 0, NEW p, NEW q, NEW w,
         Takes(p, parts[1], q[1]),
         \A i \in 1 .. Len(parts) - 1 : Steps(q[i], 44, w[i]) /\ Takes(w[i], parts[i + 1], q[i + 1])
  PROVE  Joined(parts) \in Seq(Byte) /\ Takes(p, Joined(parts), q[Len(parts)])
<1> DEFINE n == Len(parts)
           comma == <<44>>
           seqs == [i \in DOMAIN parts |-> IF i = 1 THEN parts[i] ELSE comma \o parts[i]]
<1>1. /\ n \in Nat /\ n > 0 /\ DOMAIN parts = 1 .. n
      /\ \A i \in 1 .. n : parts[i] \in Seq(Byte)
  OBVIOUS
<1>2. comma \in Seq(Byte)
  BY DEF Byte
<1>3. seqs \in Seq(Seq(Byte)) /\ Len(seqs) = n
  <2>1. \A i \in 1 .. n : comma \o parts[i] \in Seq(Byte)
    <3> HIDE DEF comma, n
    <3> QED BY <1>1, <1>2, ConcatProperties
  <2> HIDE DEF comma
  <2> QED BY <1>1, <2>1
<1>4. seqs[1] = parts[1] /\ \A i \in 2 .. n : seqs[i] = comma \o parts[i]
  <2> HIDE DEF comma
  <2> QED BY <1>1
<1>5. Joined(parts) = FlattenSeq(seqs)
  BY DEF Joined
<1> HIDE DEF seqs
<1>6. PICK f : /\ f[0] = <<>>
               /\ \A i \in 0 .. n : f[i] \in Seq(Byte)
               /\ \A i \in 1 .. n : f[i] = f[i - 1] \o seqs[i]
               /\ FlattenSeq(seqs) = f[n]
  <2>1. \E f : /\ f[0] = <<>>
               /\ \A i \in 0 .. Len(seqs) : f[i] \in Seq(Byte)
               /\ \A i \in 1 .. Len(seqs) : f[i] = f[i - 1] \o seqs[i]
               /\ FlattenSeq(seqs) = f[Len(seqs)]
    BY <1>3, Flattened
  <2> HIDE DEF n
  <2> QED BY <1>3, <2>1
<1> HIDE DEF n, comma
<1> DEFINE Good == {i \in 0 .. n : i > 0 => Takes(p, f[i], q[i])}
<1>7. 0 \in Good
  BY <1>1
<1>8. ASSUME NEW i \in 1 .. n, i - 1 \in Good PROVE i \in Good
  <2>1. CASE i = 1
    <3>1. f[1] = <<>> \o seqs[1]
      <4>1. 1 \in 1 .. n /\ 1 - 1 = 0
        BY <1>1
      <4>2. f[1] = f[1 - 1] \o seqs[1]
        BY <1>6, <4>1
      <4> QED BY <1>6, <4>1, <4>2
    <3>2. f[1] = parts[1]
      BY <1>1, <1>4, <3>1, ConcatEmptySeq
    <3> QED BY <1>1, <2>1, <3>2
  <2>2. CASE i # 1
    <3> DEFINE j == i - 1
    <3>1. j \in 1 .. n - 1 /\ i \in 2 .. n /\ j + 1 = i /\ j \in 0 .. n /\ j > 0
      BY <1>1, <2>2
    <3>2. f[i] = f[j] \o (comma \o parts[i]) /\ f[j] \in Seq(Byte) /\ parts[i] \in Seq(Byte)
      BY <1>1, <1>4, <1>6, <3>1
    <3>3. Takes(p, f[j], q[j])
      BY <1>8, <3>1
    <3>4. Steps(q[j], 44, w[j]) /\ Takes(w[j], parts[i], q[i])
      BY <3>1 DEF n
    <3> HIDE DEF j
    <3>5. Reads(p, f[j] \o comma, w[j]) /\ f[j] \o comma \in Seq(Byte)
      <4>1. 44 \in Behinds
        BY DEF Behinds
      <4> DEFINE c == 44
      <4>2. c \in Behinds /\ Steps(q[j], c, w[j]) /\ comma = <<c>>
        BY <3>4, <4>1 DEF comma
      <4> HIDE DEF c
      <4>3. Reads(p, f[j] \o <<c>>, w[j]) /\ f[j] \o <<c>> \in Seq(Byte)
        BY <3>2, <3>3, <4>2, TakesThenByte
      <4> QED BY <4>2, <4>3
    <3>6. Takes(p, (f[j] \o comma) \o parts[i], q[i])
      BY <3>2, <3>4, <3>5, ReadsThenTakes
    <3>7. (f[j] \o comma) \o parts[i] = f[i]
      <4>1. f[j] \in Seq(Byte) /\ comma \in Seq(Byte) /\ parts[i] \in Seq(Byte)
        BY <1>2, <3>2
      <4>2. (f[j] \o comma) \o parts[i] = f[j] \o (comma \o parts[i])
        BY <4>1, Thrice
      <4> QED BY <3>2, <4>2
    <3> QED BY <1>1, <3>6, <3>7
  <2> QED BY <2>1, <2>2
<1>9. n \in Good
  <2> HIDE DEF Good
  <2>1. \A i \in 0 .. n : i \in Good
    BY <1>1, <1>7, <1>8, UpTo
  <2> QED BY <1>1, <2>1
<1>10. f[n] \in Seq(Byte) /\ Takes(p, f[n], q[n])
  BY <1>1, <1>6, <1>9
<1> QED BY <1>5, <1>6, <1>10 DEF n

\* Between two brackets.
Bracket(a, s, b) == <<a>> \o s \o <<b>>

\* Between two brackets, and two brackets with nothing between them.
LEMMA Enclosed ==
  ASSUME NEW a \in Byte, NEW b \in Behinds, NEW s \in Seq(Byte), NEW r, NEW p, NEW q, NEW t,
         Steps(r, a, p), Takes(p, s, q), Steps(q, b, t)
  PROVE  Bracket(a, s, b) \in Seq(Byte) /\ Takes(r, Bracket(a, s, b), t)
<1> DEFINE first == <<a>>
           last == <<b>>
           u == first \o s
<1>1. first \in Seq(Byte)
  OBVIOUS
<1>2. Reads(r, first, p)
  BY StepReads
<1>3. Bracket(a, s, b) = u \o last
  BY DEF Bracket
<1> HIDE DEF first
<1>4. Takes(r, u, q) /\ u \in Seq(Byte)
  BY <1>1, <1>2, ReadsThenTakes, ConcatProperties
<1> HIDE DEF u
<1>6. Reads(r, u \o last, t) /\ u \o last \in Seq(Byte)
  <2> HIDE DEF last
  <2>1. Takes(r, u, q) /\ u \in Seq(Byte) /\ Steps(q, b, t)
    BY <1>4
  <2>2. Reads(r, u \o <<b>>, t) /\ u \o <<b>> \in Seq(Byte)
    BY <2>1, TakesThenByte
  <2> QED BY <2>2 DEF last
<1> HIDE DEF last
<1>7. Takes(r, u \o last, t)
  BY <1>6, TakesAtOnce
<1> QED BY <1>3, <1>6, <1>7

LEMMA BracketsOnly ==
  ASSUME NEW a \in Byte, NEW b \in Behinds, NEW r, NEW p, NEW t, Steps(r, a, p), Steps(p, b, t)
  PROVE  Bracket(a, <<>>, b) \in Seq(Byte) /\ Takes(r, Bracket(a, <<>>, b), t)
<1> DEFINE s == <<>>
<1>1. Reads(p, s, p)
  BY ReadsNothing
<1>2. s \in Seq(Byte)
  OBVIOUS
<1> HIDE DEF s
<1>3. Takes(p, s, p)
  BY <1>1, TakesAtOnce
<1>4. Bracket(a, s, b) \in Seq(Byte) /\ Takes(r, Bracket(a, s, b), t)
  BY <1>2, <1>3, Enclosed
<1> QED BY <1>4 DEF s

\* Of no parts comes no text.
LEMMA JoinedNothing == Joined(<<>>) = <<>>
<1> DEFINE none == <<>>
           seqs == [i \in DOMAIN none |-> IF i = 1 THEN none[i] ELSE <<44>> \o none[i]]
<1>1. seqs = <<>>
  OBVIOUS
<1>2. Joined(none) = FlattenSeq(seqs)
  BY DEF Joined
<1>3. none \in Seq(Seq(Byte)) /\ Len(none) = 0
  OBVIOUS
<1> HIDE DEF seqs
<1>4. FlattenSeq(none) = <<>>
  <2> HIDE DEF none
  <2> QED BY <1>3, Flattened
<1> QED BY <1>1, <1>2, <1>4

\* Somewhere a value is wanted: at the beginning.
LEMMA SomeStart ==
  IsStack(<<>>) /\ WantsValue(Ready("value", <<>>, Null))
BY ReadyFields DEF WantsValue, IsStack

\* The text of an element is taken as the next element.
LEMMA ElementRead ==
  ASSUME NEW stack, IsStack(stack), NEW root, NEW s, NEW key, NEW wants \in {"first", "value"},
         NEW t, NEW v, ReadBack(t, v)
  PROVE  Takes(Within(wants, stack, root, Array(s), key), t,
               Within("after", stack, root, Array(Append(s, v)), key))
<1> DEFINE r == Within(wants, stack, root, Array(s), key)
           k == Append(stack, Frame(Array(s), key))
           q == Within("after", stack, root, Array(Append(s, v)), key)
<1>1. r.wants = wants /\ r.stack = k /\ IsStack(k) /\ r.stack # <<>>
  <2>1. \A x : LET p == Within(wants, stack, root, x, key)
               IN p.wants = wants /\ p.stack = Append(stack, Frame(x, key)) /\ IsStack(p.stack)
                  /\ p.stack # <<>>
    BY WithinFields
  <2>2. r.wants = wants /\ r.stack = k /\ IsStack(r.stack) /\ r.stack # <<>>
    BY <2>1
  <2> HIDE DEF r
  <2> QED BY <2>2
<1>2. Last(r.stack).value[1] = "array"
  <2>1. \A x : LET p == Within(wants, stack, root, x, key) IN Last(p.stack).value = x
    BY WithinFields
  <2>2. Last(r.stack).value = Array(s)
    BY <2>1
  <2> HIDE DEF r
  <2> QED BY <2>2 DEF Array
<1>3. HandleValue(r, v) = q
  BY ElementTaken
<1>4. r = Ready(wants, k, root)
  BY DEF Within
<1> HIDE DEF r, k, q
<1>5. WantsValue(Ready(wants, k, root))
  BY <1>1, <1>2, <1>4 DEF WantsValue, Inside
<1>6. Takes(r, t, HandleValue(r, v))
  BY <1>1, <1>4, <1>5 DEF ReadBack
<1> QED BY <1>3, <1>6 DEF r, q

\* The first elements of a sequence, one by one.
LEMMA Growing ==
  ASSUME NEW S, NEW s \in Seq(S)
  PROVE  /\ Len(s) > 0 => SubSeq(s, 1, 1) = Append(<<>>, s[1])
         /\ \A i \in 1 .. Len(s) - 1 : SubSeq(s, 1, i + 1) = Append(SubSeq(s, 1, i), s[i + 1])
         /\ SubSeq(s, 1, Len(s)) = s
<1>1. Len(s) > 0 => SubSeq(s, 1, 1) = Append(<<>>, s[1])
  <2> SUFFICES ASSUME Len(s) > 0 PROVE SubSeq(s, 1, 1) = Append(<<>>, s[1])
    OBVIOUS
  <2> DEFINE u == SubSeq(s, 1, 1)
             v == Append(<<>>, s[1])
  <2>1. Len(s) \in Nat /\ s[1] \in S
    OBVIOUS
  <2>2. u \in Seq(S) /\ Len(u) = 1 /\ u[1] = s[1]
    BY <2>1
  <2>3. v \in Seq(S) /\ Len(v) = 1 /\ v[1] = s[1]
    BY <2>1
  <2> HIDE DEF u, v
  <2>4. Len(u) = Len(v) /\ \A i \in 1 .. Len(u) : u[i] = v[i]
    BY <2>2, <2>3
  <2>5. u = v
    BY <2>2, <2>3, <2>4, SeqEqual
  <2> QED BY <2>5 DEF u, v
<1>2. ASSUME NEW i \in 1 .. Len(s) - 1
      PROVE  SubSeq(s, 1, i + 1) = Append(SubSeq(s, 1, i), s[i + 1])
  <2> DEFINE u == SubSeq(s, 1, i + 1)
             t == SubSeq(s, 1, i)
             v == Append(t, s[i + 1])
  <2>1. u \in Seq(S) /\ Len(u) = i + 1 /\ \A j \in 1 .. i + 1 : u[j] = s[j]
    OBVIOUS
  <2>2. t \in Seq(S) /\ Len(t) = i /\ \A j \in 1 .. i : t[j] = s[j]
    OBVIOUS
  <2> HIDE DEF u, t
  <2>3. v \in Seq(S) /\ Len(v) = i + 1 /\ v[i + 1] = s[i + 1] /\ \A j \in 1 .. i : v[j] = t[j]
    BY <2>2
  <2> HIDE DEF v
  <2>4. \A j \in 1 .. i + 1 : u[j] = v[j]
    <3> TAKE j \in 1 .. i + 1
    <3>1. CASE j = i + 1
      BY <2>1, <2>3, <3>1
    <3>2. CASE j # i + 1
      <4>1. j \in 1 .. i
        BY <3>2
      <4> QED BY <2>1, <2>2, <2>3, <4>1
    <3> QED BY <3>1, <3>2
  <2> QED BY <2>1, <2>3, <2>4, SeqEqual DEF u, v, t
<1>3. SubSeq(s, 1, Len(s)) = s
  OBVIOUS
<1> QED BY <1>1, <1>2, <1>3

\* What dump writes of an array is read as that array, if the elements are.
LEMMA ArraysReadBack ==
  ASSUME NEW S, NEW s \in Seq(S), NEW parts \in Seq(Seq(Byte)), Len(parts) = Len(s),
         \A i \in 1 .. Len(s) : ReadBack(parts[i], s[i])
  PROVE  ReadBack(Bracket(91, Joined(parts), 93), Array(s))
<1> DEFINE n == Len(s)
           open == 91
           close == 93
           whole == Bracket(open, Joined(parts), close)
<1>1. n \in Nat /\ open \in Byte /\ close \in Behinds
  BY DEF Byte, Behinds
<1>2. \A wants, stack, root : WantsValue(Ready(wants, stack, root)) =>
        Steps(Ready(wants, stack, root), open, Within("first", stack, root, EmptyArray, <<>>))
  BY ArrayOpens
<1>3. \A wants \in {"first", "after"} : \A stack, root, key, t, w : IsStack(stack) =>
        Steps(Within(wants, stack, root, Array(t), key), close,
              HandleValue(Ready(w, stack, root), Array(t)))
  BY ArrayCloses
<1>4. \A stack, root, t, key : IsStack(stack) =>
        Steps(Within("after", stack, root, Array(t), key), 44,
              Within("value", stack, root, Array(t), key))
  <2> SUFFICES ASSUME NEW stack, NEW root, NEW t, NEW key, IsStack(stack)
               PROVE  Steps(Within("after", stack, root, Array(t), key), 44,
                            Within("value", stack, root, Array(t), key))
    OBVIOUS
  <2> DEFINE v == Array(t)
  <2>1. v[1] # "object"
    BY DEF Array
  <2> HIDE DEF v
  <2>2. Steps(Within("after", stack, root, v, key), 44,
              Within(IF v[1] = "object" THEN "key" ELSE "value", stack, root, v, key))
    BY CommaRead
  <2> QED BY <2>1, <2>2 DEF v
<1> HIDE DEF open, close
<1>5. ASSUME NEW wants, NEW stack, NEW root, IsStack(stack), WantsValue(Ready(wants, stack, root))
      PROVE  /\ whole \in Seq(Byte)
             /\ Takes(Ready(wants, stack, root), whole,
                      HandleValue(Ready(wants, stack, root), Array(s)))
  <2> DEFINE r == Ready(wants, stack, root)
             p == Within("first", stack, root, EmptyArray, <<>>)
             at(w, t) == Within(w, stack, root, Array(t), <<>>)
             t == HandleValue(r, Array(s))
  <2>1. Steps(r, open, p)
    BY <1>2, <1>5
  <2>2. CASE n = 0
    <3>1. s = <<>> /\ parts = <<>>
      BY <2>2
    <3>2. EmptyArray = Array(s)
      BY <3>1 DEF EmptyArray, Array
    <3>3. Steps(p, close, t)
      BY <1>3, <1>5, <3>2
    <3>4. Joined(parts) = <<>>
      BY <3>1, JoinedNothing
    <3> HIDE DEF r, p, t
    <3>5. Bracket(open, <<>>, close) \in Seq(Byte) /\ Takes(r, Bracket(open, <<>>, close), t)
      BY <1>1, <2>1, <3>3, BracketsOnly
    <3> QED BY <3>4, <3>5 DEF r, t
  <2>3. CASE n # 0
    <3> DEFINE q == [i \in 1 .. n |-> at("after", SubSeq(s, 1, i))]
               w == [i \in 1 .. n |-> at("value", SubSeq(s, 1, i))]
    <3>1. Takes(p, parts[1], q[1])
      <4>1. 1 \in 1 .. n
        BY <1>1, <2>3
      <4>2. ReadBack(parts[1], s[1])
        BY <4>1
      <4>3. p = at("first", <<>>)
        BY DEF EmptyArray, Array
      <4>4. q[1] = at("after", Append(<<>>, s[1]))
        <5>1. q[1] = at("after", SubSeq(s, 1, 1))
          BY <4>1
        <5>2. SubSeq(s, 1, 1) = Append(<<>>, s[1])
          BY SMTT(30), <1>1, <2>3, Growing
        <5> HIDE DEF q
        <5> QED BY <5>1, <5>2
      <4> HIDE DEF p, q
      <4>5. Takes(at("first", <<>>), parts[1], at("after", Append(<<>>, s[1])))
        BY <1>5, <4>2, ElementRead
      <4> QED BY <4>3, <4>4, <4>5
    <3>2. ASSUME NEW i \in 1 .. Len(parts) - 1
          PROVE  Steps(q[i], 44, w[i]) /\ Takes(w[i], parts[i + 1], q[i + 1])
      <4>1. i \in 1 .. n - 1 /\ i \in 1 .. n /\ i + 1 \in 1 .. n
        OBVIOUS
      <4>2. ReadBack(parts[i + 1], s[i + 1])
        BY <4>1
      <4>3. /\ q[i] = at("after", SubSeq(s, 1, i)) /\ w[i] = at("value", SubSeq(s, 1, i))
            /\ q[i + 1] = at("after", SubSeq(s, 1, i + 1))
        BY <4>1
      <4>4. SubSeq(s, 1, i + 1) = Append(SubSeq(s, 1, i), s[i + 1])
        BY <4>1, Growing
      <4> HIDE DEF q, w
      <4>5. Steps(at("after", SubSeq(s, 1, i)), 44, at("value", SubSeq(s, 1, i)))
        BY <1>4, <1>5
      <4>6. Takes(at("value", SubSeq(s, 1, i)), parts[i + 1],
                  at("after", Append(SubSeq(s, 1, i), s[i + 1])))
        BY <1>5, <4>2, ElementRead
      <4> QED BY <4>3, <4>4, <4>5, <4>6
    <3>3. q[n] = at("after", s)
      <4>1. q[n] = at("after", SubSeq(s, 1, n))
        BY <1>1, <2>3
      <4>2. SubSeq(s, 1, n) = s
        BY Growing
      <4> HIDE DEF q
      <4> QED BY <4>1, <4>2
    <3>4. Steps(at("after", s), close, t)
      BY <1>3, <1>5
    <3> HIDE DEF r, p, t, q, w, at
    <3>5. Joined(parts) \in Seq(Byte) /\ Takes(p, Joined(parts), q[n])
      <4>1. Len(parts) > 0
        BY <1>1, <2>3
      <4>2. Joined(parts) \in Seq(Byte) /\ Takes(p, Joined(parts), q[Len(parts)])
        BY <3>1, <3>2, <4>1, JoinedTaken
      <4> QED BY <4>2
    <3> DEFINE text_s == Joined(parts)
    <3>6. text_s \in Seq(Byte) /\ Takes(p, text_s, at("after", s))
      BY <3>3, <3>5
    <3> HIDE DEF text_s
    <3>7. Bracket(open, text_s, close) \in Seq(Byte) /\ Takes(r, Bracket(open, text_s, close), t)
      BY <1>1, <2>1, <3>4, <3>6, Enclosed
    <3> QED BY <3>7 DEF r, t, text_s
  <2> QED BY <2>2, <2>3
<1>6. \E wants, stack, root : IsStack(stack) /\ WantsValue(Ready(wants, stack, root))
  BY SomeStart
<1>7. whole \in Seq(Byte)
  BY <1>5, <1>6
<1> HIDE DEF whole
<1>8. ReadBack(whole, Array(s))
  BY <1>5, <1>7 DEF ReadBack
<1> QED BY <1>8 DEF whole, open, close

\* The key of a member goes into the uppermost frame,
LEMMA KeyPlaced ==
  ASSUME NEW stack, IsStack(stack), NEW value, NEW old, NEW key
  PROVE  LET k == Append(stack, Frame(value, old))
         IN [k EXCEPT ![Len(k)].key = key] = Append(stack, Frame(value, key))
<1> PICK S : stack \in Seq(S)
  BY DEF IsStack
<1> DEFINE a == Frame(value, old)
           b == Frame(value, key)
           T == S \cup {a, b}
           k == Append(stack, a)
           top == [k[Len(k)] EXCEPT !.key = key]
           l == [k EXCEPT ![Len(k)] = top]
           m == Append(stack, b)
<1>1. stack \in Seq(T) /\ a \in T /\ b \in T
  OBVIOUS
<1>2. [a EXCEPT !.key = key] = b
  BY DEF Frame
<1> HIDE DEF T, a, b
<1>3. /\ k \in Seq(T) /\ Len(k) = Len(stack) + 1 /\ Len(stack) \in Nat
      /\ k[Len(stack) + 1] = a /\ \A i \in 1 .. Len(stack) : k[i] = stack[i]
  BY <1>1
<1>4. /\ m \in Seq(T) /\ Len(m) = Len(stack) + 1
      /\ m[Len(stack) + 1] = b /\ \A i \in 1 .. Len(stack) : m[i] = stack[i]
  BY <1>1
<1> HIDE DEF k, m
<1>5. top = b
  BY <1>2, <1>3
<1>6. k[Len(k)] = a /\ Len(k) \in 1 .. Len(k)
  BY <1>3
<1> HIDE DEF top
<1>7. l \in Seq(T) /\ Len(l) = Len(k) /\ \A i \in 1 .. Len(k) : l[i] = IF i = Len(k) THEN top ELSE k[i]
  BY <1>1, <1>3, <1>5
<1> HIDE DEF l
<1>8. Len(l) = Len(m) /\ \A i \in 1 .. Len(l) : l[i] = m[i]
  <2>1. Len(l) = Len(m)
    BY <1>3, <1>4, <1>7
  <2>2. ASSUME NEW i \in 1 .. Len(l) PROVE l[i] = m[i]
    <3>1. CASE i = Len(stack) + 1
      BY <1>3, <1>4, <1>5, <1>7, <3>1
    <3>2. CASE i # Len(stack) + 1
      <4>1. i \in 1 .. Len(stack)
        BY <1>3, <1>7, <3>2
      <4> QED BY <1>3, <1>4, <1>7, <4>1
    <3> QED BY <3>1, <3>2
  <2> QED BY <2>1, <2>2
<1>9. l = m
  BY <1>4, <1>7, <1>8, SeqEqual
<1> QED BY <1>9 DEF l, top, k, m, a, b

\* where the parser takes it,
LEMMA KeyTaken ==
  ASSUME NEW stack, IsStack(stack), NEW root, NEW m, NEW old, NEW key,
         NEW wants \in {"first", "key"}
  PROVE  Token(Within(wants, stack, root, Object(m), old), "value", Text(key)) =
           Within("separator", stack, root, Object(m), key)
<1> DEFINE r == Within(wants, stack, root, Object(m), old)
           v == Text(key)
           k == Append(stack, Frame(Object(m), old))
           l == [k EXCEPT ![Len(k)].key = key]
           q(t) == Pushed(r, t, "separator")
<1>1. r.wants = wants /\ r.stack = k /\ r.stack # <<>>
  <2>1. \A x : LET p == Within(wants, stack, root, x, old)
               IN p.wants = wants /\ p.stack = Append(stack, Frame(x, old)) /\ p.stack # <<>>
    BY WithinFields
  <2> QED BY <2>1
<1>2. Last(r.stack).value[1] = "object"
  <2>1. \A x : LET p == Within(wants, stack, root, x, old) IN Last(p.stack).value = x
    BY WithinFields
  <2>2. Last(r.stack).value = Object(m)
    BY <2>1
  <2> HIDE DEF r
  <2> QED BY <2>2 DEF Object
<1>3. \A t : q(t) = Ready("separator", t, root)
  BY Pushes DEF Ready, Within
<1>4. v[1] = "string" /\ v[2] = key
  BY DEF Text
<1>5. l = Append(stack, Frame(Object(m), key))
  BY KeyPlaced
<1>6. IsMade(r)
  BY Fields DEF Within, Ready
<1> HIDE DEF r, v, k
<1>7. Token(r, "value", v) =
        [r EXCEPT !.stack[Len(r.stack)].key = v[2], !.wants = "separator"]
  <2>1. Inside(r, "object") /\ ~Inside(r, "array") /\ ~WantsValue(r)
    BY <1>1, <1>2 DEF Inside, WantsValue
  <2> QED BY <1>1, <1>4, <2>1 DEF Token
<1>8. [r EXCEPT !.stack[Len(r.stack)].key = v[2], !.wants = "separator"] = q(l)
  BY <1>1, <1>4, <1>6 DEF Pushed, IsMade, ReaderFields
<1> HIDE DEF q, l
<1>9. Token(r, "value", v) = Ready("separator", l, root)
  BY <1>3, <1>7, <1>8
<1> QED BY <1>5, <1>9 DEF r, v, Within

\* the colon follows,
LEMMA ColonRead ==
  ASSUME NEW stack, IsStack(stack), NEW root, NEW value, NEW key
  PROVE  Steps(Within("separator", stack, root, value, key), 58,
               Within("value", stack, root, value, key))
<1> DEFINE r == Within("separator", stack, root, value, key)
           q(w) == [r EXCEPT !.wants = w]
<1>1. Steps(r, 58, Token(r, "separator", Null))
  BY ReadsStructure, StructureIs DEF Within, Going
<1>2. \A w : q(w) = Within(w, stack, root, value, key)
  BY Wants DEF Within, Ready
<1>3. r.wants = "separator"
  <2>1. \A w : Within(w, stack, root, value, key).wants = w
    BY WithinFields
  <2> QED BY <2>1
<1> HIDE DEF r
<1>4. Token(r, "separator", Null) = q("value")
  BY <1>3 DEF Token
<1> HIDE DEF q
<1> QED BY <1>1, <1>2, <1>4 DEF r

\* and the value is what the key refers to.
Plus(m, key, v) == [k \in DOMAIN m \cup {key} |-> IF k = key THEN v ELSE m[k]]

\* so that the object has one more member.
LEMMA MemberTaken ==
  ASSUME NEW wants, NEW stack, IsStack(stack), NEW root, NEW m, NEW key, NEW v
  PROVE  HandleValue(Within(wants, stack, root, Object(m), key), v) =
           Within("after", stack, root, Object(Plus(m, key, v)), key)
<1> DEFINE r == Within(wants, stack, root, Object(m), key)
           q(k) == Pushed(r, k, "after")
           top == Frame(Object(m), key)
           grown == Object(Plus(m, key, v))
<1>1. r.stack # <<>> /\ Last(r.stack) = top /\ Front(r.stack) = stack
      /\ top.value = Object(m) /\ top.key = key
  <2>1. \A x : LET p == Within(wants, stack, root, x, key)
               IN /\ p.stack # <<>> /\ Last(p.stack) = Frame(x, key) /\ Front(p.stack) = stack
                  /\ Frame(x, key).value = x /\ Frame(x, key).key = key
    BY WithinFields
  <2> QED BY <2>1
<1>2. \A k : q(k) = Ready("after", k, root)
  BY Pushes DEF Ready, Within
<1>3. \A x : [top EXCEPT !.value = x] = Frame(x, key)
  BY DEF Frame
<1>4. Object(m)[1] = "object" /\ Object(m)[2] = m
  BY DEF Object
<1> HIDE DEF r, top
<1>5. HandleValue(r, v) = q(Append(stack, [top EXCEPT !.value = grown]))
  BY <1>1, <1>4 DEF HandleValue, Pushed, Object, Plus
<1> HIDE DEF q, grown
<1>6. HandleValue(r, v) = Ready("after", Append(stack, Frame(grown, key)), root)
  BY <1>2, <1>3, <1>5
<1> QED BY <1>6 DEF r, Within, grown

MemberText(key, t) == DumpString(key) \o <<58>> \o t

\* The text of a member: its key, a colon and the text of its value.
LEMMA MemberRead ==
  ASSUME NEW stack, IsStack(stack), NEW root, NEW m, NEW old, NEW wants \in {"first", "key"},
         NEW key \in Strings, NEW t, NEW v, ReadBack(t, v)
  PROVE  /\ MemberText(key, t) \in Seq(Byte)
         /\ Takes(Within(wants, stack, root, Object(m), old), MemberText(key, t),
                  Within("after", stack, root, Object(Plus(m, key, v)), key))
<1> DEFINE r == Within(wants, stack, root, Object(m), old)
           at(w) == Within(w, stack, root, Object(m), key)
           k == Append(stack, Frame(Object(m), key))
           q == Within("after", stack, root, Object(Plus(m, key, v)), key)
           quoted == DumpString(key)
           colon == <<58>>
<1>1. quoted \in Seq(Byte) /\ Reads(r, quoted, at("separator"))
  <2>1. Going(wants)
    BY DEF Going
  <2>2. quoted \in Seq(Byte) /\ Reads(r, quoted, Token(r, "value", Text(key)))
    BY <2>1, StringsReadBack DEF Within
  <2>3. Token(r, "value", Text(key)) = at("separator")
    BY KeyTaken
  <2> HIDE DEF r, quoted, at
  <2> QED BY <2>2, <2>3
<1>2. colon \in Seq(Byte) /\ Reads(at("separator"), colon, at("value"))
  <2>1. Steps(at("separator"), 58, at("value"))
    BY ColonRead
  <2>2. colon \in Seq(Byte)
    BY DEF Byte
  <2> HIDE DEF at
  <2> QED BY <2>1, <2>2, StepReads
<1>3. t \in Seq(Byte) /\ Takes(at("value"), t, q)
  <2>1. at("value") = Ready("value", k, root)
    BY DEF Within
  <2>2. HandleValue(at("value"), v) = q
    BY MemberTaken
  <2>3. IsStack(k)
    BY Stacks
  <2>4. WantsValue(Ready("value", k, root))
    BY ReadyFields DEF WantsValue
  <2> HIDE DEF at, k, q
  <2> QED BY <2>1, <2>2, <2>3, <2>4 DEF ReadBack
<1>4. MemberText(key, t) = (quoted \o colon) \o t
  BY DEF MemberText
<1> HIDE DEF r, at, q, quoted, colon
<1> DEFINE head == quoted \o colon
<1>5. head \in Seq(Byte) /\ Reads(r, head, at("value"))
  BY <1>1, <1>2, ReadsOn, ConcatProperties
<1> HIDE DEF head
<1>6. head \o t \in Seq(Byte) /\ Takes(r, head \o t, q)
  BY <1>3, <1>5, ReadsThenTakes, ConcatProperties
<1>7. MemberText(key, t) = head \o t
  BY <1>4 DEF head
<1> QED BY <1>6, <1>7 DEF r, q

\* The first members of an object, in the order of its keys.
Part(m, keys, i) == [key \in {keys[j] : j \in 1 .. i} |-> m[key]]

\* One member more,
LEMMA PartGrows ==
  ASSUME NEW m, NEW keys, NEW i \in Nat
  PROVE  Plus(Part(m, keys, i), keys[i + 1], m[keys[i + 1]]) = Part(m, keys, i + 1)
<1> DEFINE key == keys[i + 1]
           p == Part(m, keys, i)
           D == {keys[j] : j \in 1 .. i + 1}
           E == {keys[j] : j \in 1 .. i}
<1>1. D = E \cup {key}
  <2>1. D \subseteq E \cup {key}
    <3> SUFFICES ASSUME NEW j \in 1 .. i + 1 PROVE keys[j] \in E \cup {key}
      OBVIOUS
    <3>1. CASE j = i + 1
      BY <3>1
    <3>2. CASE j # i + 1
      <4>1. j \in 1 .. i
        BY <3>2
      <4> QED BY <4>1
    <3> QED BY <3>1, <3>2
  <2>2. E \cup {key} \subseteq D
    OBVIOUS
  <2> HIDE DEF D, E
  <2> QED BY <2>1, <2>2
<1>2. p = [k \in E |-> m[k]] /\ Part(m, keys, i + 1) = [k \in D |-> m[k]]
  BY DEF Part
<1> HIDE DEF D, E, p, key
<1>3. DOMAIN p = E /\ \A k \in E : p[k] = m[k]
  BY <1>2
<1>4. Plus(p, key, m[key]) = [k \in D |-> IF k = key THEN m[key] ELSE p[k]]
  BY <1>1, <1>3 DEF Plus
<1>5. \A k \in D : (IF k = key THEN m[key] ELSE p[k]) = m[k]
  BY <1>1, <1>3
<1>6. [k \in D |-> IF k = key THEN m[key] ELSE p[k]] = [k \in D |-> m[k]]
  BY <1>5
<1>7. Plus(p, key, m[key]) = Part(m, keys, i + 1)
  BY <1>2, <1>4, <1>6
<1> QED BY <1>7 DEF p, key

\* from none to all of them.
LEMMA PartEnds ==
  ASSUME NEW m, NEW S, m \in [DOMAIN m -> S], NEW keys
  PROVE  /\ Object(Part(m, keys, 0)) = EmptyObject
         /\ \A n \in Nat : {keys[j] : j \in 1 .. n} = DOMAIN m => Part(m, keys, n) = m
<1>1. Object(Part(m, keys, 0)) = EmptyObject
  <2> DEFINE D == {keys[j] : j \in 1 .. 0}
  <2>1. D = {}
    OBVIOUS
  <2>2. Part(m, keys, 0) = [k \in D |-> m[k]]
    BY DEF Part
  <2> HIDE DEF D
  <2>3. [k \in D |-> m[k]] = [k \in {} |-> Null]
    BY <2>1
  <2> QED BY <2>2, <2>3 DEF EmptyObject
<1>2. ASSUME NEW n \in Nat, {keys[j] : j \in 1 .. n} = DOMAIN m PROVE Part(m, keys, n) = m
  <2>1. Part(m, keys, n) = [k \in DOMAIN m |-> m[k]]
    BY <1>2 DEF Part
  <2> QED BY <2>1
<1> QED BY <1>1, <1>2

\* What dump writes of an object is read as that object, if the values are.
LEMMA ObjectsReadBack ==
  ASSUME NEW S, NEW m, m \in [DOMAIN m -> S], NEW n \in Nat, NEW keys, NEW texts, NEW parts,
         \A i \in 1 .. n : keys[i] \in Strings /\ ReadBack(texts[i], m[keys[i]]),
         {keys[j] : j \in 1 .. n} = DOMAIN m,
         parts = [i \in 1 .. n |-> MemberText(keys[i], texts[i])]
  PROVE  ReadBack(Bracket(123, Joined(parts), 125), Object(m))
<1> DEFINE open == 123
           close == 125
           whole == Bracket(open, Joined(parts), close)
           Got(i) == Part(m, keys, i)
<1>1. open \in Byte /\ close \in Behinds
  BY DEF Byte, Behinds
<1>2. \A wants, stack, root : WantsValue(Ready(wants, stack, root)) =>
        Steps(Ready(wants, stack, root), open, Within("first", stack, root, EmptyObject, <<>>))
  BY ObjectOpens
<1>3. \A wants \in {"first", "after"} : \A stack, root, key, t, w : IsStack(stack) =>
        Steps(Within(wants, stack, root, Object(t), key), close,
              HandleValue(Ready(w, stack, root), Object(t)))
  BY ObjectCloses
<1>4. \A stack, root, t, key : IsStack(stack) =>
        Steps(Within("after", stack, root, Object(t), key), 44,
              Within("key", stack, root, Object(t), key))
  <2> SUFFICES ASSUME NEW stack, NEW root, NEW t, NEW key, IsStack(stack)
               PROVE  Steps(Within("after", stack, root, Object(t), key), 44,
                            Within("key", stack, root, Object(t), key))
    OBVIOUS
  <2> DEFINE v == Object(t)
  <2>1. v[1] = "object"
    BY DEF Object
  <2> HIDE DEF v
  <2>2. Steps(Within("after", stack, root, v, key), 44,
              Within(IF v[1] = "object" THEN "key" ELSE "value", stack, root, v, key))
    BY CommaRead
  <2> QED BY <2>1, <2>2 DEF v
<1>5. /\ Object(Got(0)) = EmptyObject /\ Got(n) = m
      /\ \A i \in Nat : Plus(Got(i), keys[i + 1], m[keys[i + 1]]) = Got(i + 1)
  BY PartEnds, PartGrows
<1> DEFINE Fine(wants, stack, root, old, i, j) ==
             /\ parts[j] \in Seq(Byte)
             /\ Takes(Within(wants, stack, root, Object(Got(i)), old), parts[j],
                      Within("after", stack, root, Object(Got(j)), keys[j]))
<1>6. \A wants \in {"first", "key"}, i \in 0 .. n - 1, j \in 1 .. n : \A stack, root, old :
        IsStack(stack) /\ j = i + 1 => Fine(wants, stack, root, old, i, j)
  <2> SUFFICES ASSUME NEW wants \in {"first", "key"}, NEW stack, NEW root, NEW old,
                      NEW i \in 0 .. n - 1, IsStack(stack), NEW j \in 1 .. n, j = i + 1
               PROVE  Fine(wants, stack, root, old, i, j)
    <3> HIDE DEF Fine
    <3> QED OBVIOUS
  <2> DEFINE key == keys[j]
             t == texts[j]
             v == m[key]
             g == Got(i)
  <2>1. i \in Nat
    OBVIOUS
  <2>2. key \in Strings /\ ReadBack(t, v) /\ parts[j] = MemberText(key, t)
    OBVIOUS
  <2>3. Plus(g, key, v) = Got(j)
    BY <1>5, <2>1
  <2> HIDE DEF key, t, v, g
  <2>4. MemberText(key, t) \in Seq(Byte)
        /\ Takes(Within(wants, stack, root, Object(g), old), MemberText(key, t),
                 Within("after", stack, root, Object(Plus(g, key, v)), key))
    BY <2>2, MemberRead
  <2> HIDE DEF Got
  <2> QED BY <2>2, <2>3, <2>4 DEF g, key
<1>7. DOMAIN parts = 1 .. n /\ parts \in Seq(Seq(Byte)) /\ Len(parts) = n
  <2>1. \A i \in 1 .. n : parts[i] \in Seq(Byte)
    <3> TAKE i \in 1 .. n
    <3>1. i - 1 \in 0 .. n - 1 /\ i = (i - 1) + 1
      OBVIOUS
    <3>2. IsStack(<<>>)
      BY SomeStart
    <3>3. "first" \in {"first", "key"}
      OBVIOUS
    <3>4. \A root, old : Fine("first", <<>>, root, old, i - 1, i)
      <4> HIDE DEF Fine
      <4> QED BY <1>6, <3>1, <3>2, <3>3
    <3> HIDE DEF Got
    <3> QED BY <3>4
  <2> QED BY <2>1
<1> HIDE DEF open, close, Got
<1>8. ASSUME NEW wants, NEW stack, NEW root, IsStack(stack), WantsValue(Ready(wants, stack, root))
      PROVE  /\ whole \in Seq(Byte)
             /\ Takes(Ready(wants, stack, root), whole,
                      HandleValue(Ready(wants, stack, root), Object(m)))
  <2> DEFINE r == Ready(wants, stack, root)
             p == Within("first", stack, root, EmptyObject, <<>>)
             at(w, i, key) == Within(w, stack, root, Object(Got(i)), key)
             t == HandleValue(r, Object(m))
  <2>1. Steps(r, open, p)
    BY <1>2, <1>8
  <2>2. CASE n = 0
    <3>1. parts = <<>>
      BY <1>7, <2>2
    <3>2. EmptyObject = Object(m)
      BY <1>5, <2>2
    <3>3. Steps(p, close, t)
      BY <1>3, <1>8, <3>2
    <3>4. Joined(parts) = <<>>
      BY <3>1, JoinedNothing
    <3> HIDE DEF r, p, t
    <3>5. Bracket(open, <<>>, close) \in Seq(Byte) /\ Takes(r, Bracket(open, <<>>, close), t)
      BY <1>1, <2>1, <3>3, BracketsOnly
    <3> QED BY <3>4, <3>5 DEF r, t
  <2>3. CASE n # 0
    <3> DEFINE q == [i \in 1 .. n |-> at("after", i, keys[i])]
               w == [i \in 1 .. n |-> at("key", i, keys[i])]
    <3>1. Takes(p, parts[1], q[1])
      <4>1. 1 \in 1 .. n /\ 0 \in 0 .. n - 1 /\ 0 + 1 = 1
        BY <2>3
      <4>2. p = at("first", 0, <<>>)
        BY <1>5
      <4>3. q[1] = at("after", 1, keys[1])
        BY <4>1
      <4> HIDE DEF p, q
      <4>4. Takes(at("first", 0, <<>>), parts[1], at("after", 1, keys[1]))
        <5>1. "first" \in {"first", "key"}
          OBVIOUS
        <5>2. Fine("first", stack, root, <<>>, 0, 1)
          <6> HIDE DEF Fine
          <6> QED BY <1>6, <1>8, <4>1, <5>1
        <5> QED BY <5>2
      <4> QED BY <4>2, <4>3, <4>4
    <3>2. ASSUME NEW i \in 1 .. Len(parts) - 1
          PROVE  Steps(q[i], 44, w[i]) /\ Takes(w[i], parts[i + 1], q[i + 1])
      <4>1. i \in 0 .. n - 1 /\ i \in 1 .. n /\ i + 1 \in 1 .. n
        BY <1>7
      <4>2. /\ q[i] = at("after", i, keys[i]) /\ w[i] = at("key", i, keys[i])
            /\ q[i + 1] = at("after", i + 1, keys[i + 1])
        BY <4>1
      <4> HIDE DEF q, w
      <4>3. Steps(at("after", i, keys[i]), 44, at("key", i, keys[i]))
        BY <1>4, <1>8
      <4>4. Takes(at("key", i, keys[i]), parts[i + 1], at("after", i + 1, keys[i + 1]))
        <5>1. "key" \in {"first", "key"} /\ i + 1 = i + 1
          OBVIOUS
        <5>2. Fine("key", stack, root, keys[i], i, i + 1)
          <6> HIDE DEF Fine
          <6> QED BY <1>6, <1>8, <4>1, <5>1
        <5> QED BY <5>2
      <4> QED BY <4>2, <4>3, <4>4
    <3>3. q[n] = Within("after", stack, root, Object(m), keys[n])
      <4>1. n \in 1 .. n
        BY <2>3
      <4>2. q[n] = at("after", n, keys[n])
        BY <4>1
      <4> QED BY <1>5, <4>2
    <3>4. Steps(q[n], close, t)
      <4>1. Steps(Within("after", stack, root, Object(m), keys[n]), close, t)
        BY <1>3, <1>8
      <4> HIDE DEF q
      <4> QED BY <3>3, <4>1
    <3> HIDE DEF r, p, t, q, w, at
    <3>5. Joined(parts) \in Seq(Byte) /\ Takes(p, Joined(parts), q[n])
      <4>1. Len(parts) > 0
        BY <1>7, <2>3
      <4>2. Joined(parts) \in Seq(Byte) /\ Takes(p, Joined(parts), q[Len(parts)])
        BY <1>7, <3>1, <3>2, <4>1, JoinedTaken
      <4> QED BY <1>7, <4>2
    <3> DEFINE text_m == Joined(parts)
               last == q[n]
    <3>6. text_m \in Seq(Byte) /\ Takes(p, text_m, last) /\ Steps(last, close, t)
      BY <3>4, <3>5
    <3> HIDE DEF text_m, last
    <3>7. Bracket(open, text_m, close) \in Seq(Byte) /\ Takes(r, Bracket(open, text_m, close), t)
      BY <1>1, <2>1, <3>6, Enclosed
    <3> QED BY <3>7 DEF r, t, text_m
  <2> QED BY <2>2, <2>3
<1>9. \E wants, stack, root : IsStack(stack) /\ WantsValue(Ready(wants, stack, root))
  BY SomeStart
<1>10. whole \in Seq(Byte)
  BY <1>8, <1>9
<1> HIDE DEF whole
<1>11. ReadBack(whole, Object(m))
  BY <1>8, <1>10 DEF ReadBack
<1> QED BY <1>11 DEF whole, open, close
-----------------------------------------------------------------------------
(* The order of the keys *)

\* The byte at a place of a string, and -1 behind its end: of two strings the
\* one is before the other whose byte is smaller where they first differ.
ByteAt(a, i) == IF i \in DOMAIN a THEN a[i] ELSE -1
DiffersAt(a, b, i) ==
  ByteAt(a, i) < ByteAt(b, i) /\ \A j \in 1 .. i - 1 : ByteAt(a, j) = ByteAt(b, j)

\* Inside a string there is a byte.
LEMMA BytesAt ==
  ASSUME NEW a \in Seq(Byte), NEW i \in Nat
  PROVE  ByteAt(a, i) \in Int /\ (i \in DOMAIN a <=> ByteAt(a, i) >= 0)
         /\ (i \in DOMAIN a <=> i # 0 /\ i <= Len(a))
<1>1. DOMAIN a = 1 .. Len(a) /\ Len(a) \in Nat
  OBVIOUS
<1>2. i \in DOMAIN a => a[i] \in Int /\ a[i] >= 0
  <2>1. i \in DOMAIN a => a[i] \in Byte
    OBVIOUS
  <2>2. \A c \in Byte : c \in Int /\ c >= 0
    BY DEF Byte
  <2> QED BY <2>1, <2>2
<1>3. CASE i \in DOMAIN a
  <2>1. ByteAt(a, i) = a[i]
    BY <1>3 DEF ByteAt
  <2> QED BY <1>1, <1>2, <1>3, <2>1
<1>4. CASE i \notin DOMAIN a
  <2>1. ByteAt(a, i) = -1
    BY <1>4 DEF ByteAt
  <2> QED BY <1>1, <1>4, <2>1
<1> QED BY <1>3, <1>4

\* A beginning has the same bytes.
LEMMA PrefixBytes ==
  ASSUME NEW a \in Seq(Byte), NEW b \in Seq(Byte), Len(a) <= Len(b)
  PROVE  IsPrefix(a, b) <=> \A j \in 1 .. Len(a) : a[j] = b[j]
<1> DEFINE p == SubSeq(a, 1, Len(a))
           q == SubSeq(b, 1, Len(a))
<1>1. Len(a) \in Nat /\ Len(b) \in Nat
  OBVIOUS
<1>2. p = a
  OBVIOUS
<1>3. q \in Seq(Byte) /\ Len(q) = Len(a) /\ \A j \in 1 .. Len(a) : q[j] = b[j]
  BY <1>1
<1>4. IsPrefix(a, b) <=> p = q
  BY <1>1 DEF IsPrefix
<1> HIDE DEF p, q
<1>5. (\A j \in 1 .. Len(a) : a[j] = b[j]) => a = q
  <2> SUFFICES ASSUME \A j \in 1 .. Len(a) : a[j] = b[j] PROVE a = q
    OBVIOUS
  <2>1. Len(a) = Len(q) /\ \A j \in 1 .. Len(a) : a[j] = q[j]
    BY <1>3
  <2> QED BY <1>3, <2>1, SeqEqual
<1>6. a = q => \A j \in 1 .. Len(a) : a[j] = b[j]
  BY <1>3
<1> QED BY <1>2, <1>4, <1>5, <1>6

\* The order of std::map, by the first place where two keys differ.
LEMMA BeforeIs ==
  ASSUME NEW a \in Seq(Byte), NEW b \in Seq(Byte)
  PROVE  Before(a, b) <=> \E i \in Nat \ {0} : DiffersAt(a, b, i)
<1>1. /\ DOMAIN a = 1 .. Len(a) /\ Len(a) \in Nat
      /\ DOMAIN b = 1 .. Len(b) /\ Len(b) \in Nat
  OBVIOUS
<1>2. ASSUME Len(a) < Len(b), IsPrefix(a, b) PROVE \E i \in Nat \ {0} : DiffersAt(a, b, i)
  <2> DEFINE i == Len(a) + 1
  <2>1. \A j \in 1 .. Len(a) : a[j] = b[j]
    BY <1>1, <1>2, PrefixBytes
  <2>2. i \in Nat \ {0} /\ i \in DOMAIN b /\ i \notin DOMAIN a /\ i - 1 = Len(a)
    BY <1>1, <1>2
  <2>3. ByteAt(a, i) = -1
    BY <2>2 DEF ByteAt
  <2>4. ByteAt(b, i) >= 0 /\ ByteAt(b, i) \in Int
    BY <2>2, BytesAt
  <2>5. \A j \in 1 .. i - 1 : ByteAt(a, j) = ByteAt(b, j)
    BY <1>1, <1>2, <2>1 DEF ByteAt
  <2> HIDE DEF i
  <2>6. DiffersAt(a, b, i)
    BY <2>3, <2>4, <2>5 DEF DiffersAt
  <2> QED BY <2>2, <2>6
<1>3. ASSUME NEW i \in DOMAIN a \cap DOMAIN b, a[i] < b[i], \A j \in 1 .. i - 1 : a[j] = b[j]
      PROVE  \E k \in Nat \ {0} : DiffersAt(a, b, k)
  <2>1. i \in Nat \ {0}
    BY <1>1
  <2>2. \A j \in 1 .. i - 1 : j \in DOMAIN a /\ j \in DOMAIN b
    BY <1>1
  <2>3. DiffersAt(a, b, i)
    BY <1>3, <2>2 DEF DiffersAt, ByteAt
  <2> QED BY <2>1, <2>3
<1>4. ASSUME NEW i \in Nat \ {0}, DiffersAt(a, b, i) PROVE Before(a, b)
  <2>1. /\ i \in DOMAIN b
        /\ \A j \in 1 .. i - 1 : ByteAt(a, j) = ByteAt(b, j)
        /\ ByteAt(a, i) < ByteAt(b, i)
    <3>1. ByteAt(a, i) \in Int /\ ByteAt(b, i) \in Int /\ ByteAt(a, i) < ByteAt(b, i)
      BY <1>4, BytesAt DEF DiffersAt
    <3>2. ByteAt(a, i) >= -1
      <4>1. i \notin DOMAIN a => ByteAt(a, i) = -1
        BY DEF ByteAt
      <4>2. i \in DOMAIN a => ByteAt(a, i) >= 0
        BY BytesAt
      <4> QED BY <3>1, <4>1, <4>2
    <3>3. ByteAt(b, i) >= 0
      BY <3>1, <3>2
    <3> QED BY <1>4, <3>1, <3>3, BytesAt DEF DiffersAt
  <2>2. CASE i \in DOMAIN a
    <3>1. a[i] < b[i] /\ i \in DOMAIN a \cap DOMAIN b
      BY <2>1, <2>2 DEF ByteAt
    <3>2. \A j \in 1 .. i - 1 : a[j] = b[j]
      <4> TAKE j \in 1 .. i - 1
      <4>1. j \in DOMAIN a /\ j \in DOMAIN b
        BY <1>1, <2>1, <2>2
      <4>2. ByteAt(a, j) = ByteAt(b, j)
        BY <2>1
      <4> QED BY <4>1, <4>2 DEF ByteAt
    <3> QED BY <3>1, <3>2 DEF Before
  <2>3. CASE i \notin DOMAIN a
    <3>1. Len(a) < i /\ i <= Len(b)
      BY <1>1, <2>1, <2>3
    <3>2. \A j \in 1 .. Len(a) : a[j] = b[j]
      <4> TAKE j \in 1 .. Len(a)
      <4>1. j \in DOMAIN a /\ j \in DOMAIN b /\ j \in 1 .. i - 1
        BY <1>1, <3>1
      <4>2. ByteAt(a, j) = ByteAt(b, j)
        BY <2>1, <4>1
      <4> QED BY <4>1, <4>2 DEF ByteAt
    <3>3. Len(a) < Len(b)
      BY <1>1, <3>1
    <3>4. IsPrefix(a, b)
      BY <1>1, <3>2, <3>3, PrefixBytes
    <3> QED BY <3>3, <3>4 DEF Before
  <2> QED BY <2>2, <2>3
<1> QED BY <1>2, <1>3, <1>4 DEF Before

\* A strict total order.
LEMMA BeforeOrders ==
  /\ \A a \in Seq(Byte) : ~Before(a, a)
  /\ \A a, b, c \in Seq(Byte) : Before(a, b) /\ Before(b, c) => Before(a, c)
  /\ \A a, b \in Seq(Byte) : a # b => Before(a, b) \/ Before(b, a)
<1>1. ASSUME NEW a \in Seq(Byte) PROVE ~Before(a, a)
  <2>1. \A i \in Nat : ~(ByteAt(a, i) < ByteAt(a, i))
    BY BytesAt
  <2> QED BY <2>1, BeforeIs DEF DiffersAt
<1>2. ASSUME NEW a \in Seq(Byte), NEW b \in Seq(Byte), NEW c \in Seq(Byte),
             Before(a, b), Before(b, c)
      PROVE  Before(a, c)
  <2>1. PICK i \in Nat \ {0} : DiffersAt(a, b, i)
    BY <1>2, BeforeIs
  <2>2. PICK j \in Nat \ {0} : DiffersAt(b, c, j)
    BY <1>2, BeforeIs
  <2>3. \A k \in Nat : ByteAt(a, k) \in Int /\ ByteAt(b, k) \in Int /\ ByteAt(c, k) \in Int
    BY BytesAt
  <2>4. CASE i <= j
    <3>1. \A k \in 1 .. i - 1 : ByteAt(a, k) = ByteAt(b, k) /\ ByteAt(b, k) = ByteAt(c, k)
      BY <2>1, <2>2, <2>4 DEF DiffersAt
    <3>2. ByteAt(a, i) < ByteAt(b, i) /\ (ByteAt(b, i) = ByteAt(c, i) \/ ByteAt(b, i) < ByteAt(c, i))
      BY <2>1, <2>2, <2>4 DEF DiffersAt
    <3>3. DiffersAt(a, c, i)
      BY SMTT(30), <2>3, <3>1, <3>2 DEF DiffersAt
    <3> QED BY <3>3, BeforeIs
  <2>5. CASE j < i
    <3>1. \A k \in 1 .. j - 1 : ByteAt(a, k) = ByteAt(b, k) /\ ByteAt(b, k) = ByteAt(c, k)
      BY <2>1, <2>2, <2>5 DEF DiffersAt
    <3>2. ByteAt(a, j) = ByteAt(b, j) /\ ByteAt(b, j) < ByteAt(c, j)
      BY <2>1, <2>2, <2>5 DEF DiffersAt
    <3>3. DiffersAt(a, c, j)
      BY <2>3, <3>1, <3>2 DEF DiffersAt
    <3> QED BY <3>3, BeforeIs
  <2> QED BY <2>4, <2>5
<1>3. ASSUME NEW a \in Seq(Byte), NEW b \in Seq(Byte), a # b
      PROVE  Before(a, b) \/ Before(b, a)
  <2> DEFINE Bad == {i \in Nat \ {0} : ByteAt(a, i) # ByteAt(b, i)}
  <2>1. Bad # {}
    <3> SUFFICES ASSUME \A i \in Nat \ {0} : ByteAt(a, i) = ByteAt(b, i) PROVE a = b
      BY <1>3
    <3>1. /\ DOMAIN a = 1 .. Len(a) /\ Len(a) \in Nat
          /\ DOMAIN b = 1 .. Len(b) /\ Len(b) \in Nat
      OBVIOUS
    <3>2. \A i \in Nat \ {0} : i \in DOMAIN a <=> i \in DOMAIN b
      BY BytesAt
    <3>3. Len(a) = Len(b)
      <4>1. Len(a) # 0 => Len(a) <= Len(b)
        BY <3>1, <3>2
      <4>2. Len(b) # 0 => Len(b) <= Len(a)
        BY <3>1, <3>2
      <4> DEFINE x == Len(a)
                 y == Len(b)
      <4>3. x \in Nat /\ y \in Nat /\ (x # 0 => x <= y) /\ (y # 0 => y <= x)
        BY <3>1, <4>1, <4>2
      <4> HIDE DEF x, y
      <4>4. x = y
        BY <4>3
      <4> QED BY <4>4 DEF x, y
    <3>4. \A i \in 1 .. Len(a) : a[i] = b[i]
      BY <3>1, <3>3 DEF ByteAt
    <3> QED BY <3>3, <3>4, SeqEqual
  <2>2. PICK i \in Bad : \A k \in Nat : k < i => k \notin Bad
    <3>1. Bad \subseteq Nat
      OBVIOUS
    <3> HIDE DEF Bad
    <3> QED BY <2>1, <3>1, SmallestNumber
  <2>3. i \in Nat \ {0} /\ \A k \in 1 .. i - 1 : ByteAt(a, k) = ByteAt(b, k)
    <3>1. i \in Nat \ {0}
      OBVIOUS
    <3>2. \A k \in 1 .. i - 1 : k \in Nat \ {0} /\ k < i
      BY <3>1
    <3> QED BY <2>2, <3>1, <3>2
  <2>4. ByteAt(a, i) \in Int /\ ByteAt(b, i) \in Int /\ ByteAt(a, i) # ByteAt(b, i)
    BY <2>3, BytesAt
  <2>5. ByteAt(a, i) < ByteAt(b, i) \/ ByteAt(b, i) < ByteAt(a, i)
    BY <2>4
  <2>6. DiffersAt(a, b, i) \/ DiffersAt(b, a, i)
    BY <2>3, <2>5 DEF DiffersAt
  <2> QED BY <2>3, <2>6, BeforeIs
<1> QED BY <1>1, <1>2, <1>3

\* dump visits every key once: the number of keys before one is its place.
LEMMA KeysSorted ==
  ASSUME NEW m, IsFiniteSet(DOMAIN m), DOMAIN m \subseteq Seq(Byte)
  PROVE  /\ Cardinality(DOMAIN m) \in Nat
         /\ DOMAIN SortedKeys(m) = 1 .. Cardinality(DOMAIN m)
         /\ \A i \in 1 .. Cardinality(DOMAIN m) : SortedKeys(m)[i] \in DOMAIN m
         /\ {SortedKeys(m)[j] : j \in 1 .. Cardinality(DOMAIN m)} = DOMAIN m
<1> DEFINE keys == DOMAIN m
           n == Cardinality(keys)
           Smaller(key) == {k \in keys : Before(k, key)}
           place(key) == Cardinality(Smaller(key)) + 1
           T == 1 .. n
           f == [key \in keys |-> place(key)]
           sorted == [i \in 1 .. n |-> CHOOSE key \in keys : place(key) = i]
<1>1. n \in Nat /\ IsFiniteSet(keys) /\ keys \subseteq Seq(Byte)
  BY FS_CardinalityType
<1>2. SortedKeys(m) = sorted
  BY DEF SortedKeys
<1> HIDE DEF keys
<1>3. ASSUME NEW key \in keys
      PROVE  IsFiniteSet(Smaller(key)) /\ Cardinality(Smaller(key)) \in Nat
             /\ Cardinality(Smaller(key)) < n
  <2> DEFINE A == Smaller(key)
             B == keys \ {key}
  <2>1. key \notin A /\ A \subseteq B
    BY <1>1, BeforeOrders
  <2>2. IsFiniteSet(B) /\ Cardinality(B) = n - 1
    BY <1>1, FS_RemoveElement
  <2> HIDE DEF A, B
  <2>3. IsFiniteSet(A) /\ Cardinality(A) <= Cardinality(B)
    BY <2>1, <2>2, FS_Subset
  <2>4. Cardinality(A) \in Nat
    BY <2>3, FS_CardinalityType
  <2> HIDE DEF n
  <2>5. Cardinality(A) < n
    BY <1>1, <2>2, <2>3, <2>4
  <2> QED BY <2>3, <2>4, <2>5 DEF A
<1>4. ASSUME NEW a \in keys, NEW b \in keys, Before(a, b)
      PROVE  place(a) < place(b)
  <2> DEFINE A == Smaller(a)
             B == Smaller(b)
             B_1 == B \ {a}
  <2>1. A \subseteq B_1 /\ a \in B
    <3>1. a \notin A /\ A \subseteq B
      BY <1>1, <1>4, BeforeOrders
    <3>2. a \in B
      BY <1>4
    <3> QED BY <3>1, <3>2
  <2>2. IsFiniteSet(B) /\ Cardinality(B) \in Nat /\ Cardinality(A) \in Nat
    BY <1>3
  <2> HIDE DEF A, B
  <2>3. IsFiniteSet(B_1) /\ Cardinality(B_1) = Cardinality(B) - 1
    BY <2>1, <2>2, FS_RemoveElement
  <2> HIDE DEF B_1
  <2>4. Cardinality(A) <= Cardinality(B_1)
    BY <2>1, <2>3, FS_Subset
  <2>5. Cardinality(A) < Cardinality(B)
    BY <2>2, <2>3, <2>4
  <2>6. place(a) = Cardinality(A) + 1 /\ place(b) = Cardinality(B) + 1
    BY DEF A, B
  <2> HIDE DEF place
  <2> QED BY <2>2, <2>5, <2>6
<1>5. ASSUME NEW key \in keys PROVE place(key) \in T
  <2> DEFINE c == Cardinality(Smaller(key))
  <2>1. c \in Nat /\ c < n
    BY <1>3
  <2> HIDE DEF c, n
  <2>2. c + 1 \in 1 .. n
    BY <1>1, <2>1
  <2> QED BY <2>2 DEF c
<1>6. ASSUME NEW a \in keys, NEW b \in keys, place(a) = place(b) PROVE a = b
  <2> SUFFICES ASSUME a # b PROVE FALSE
    OBVIOUS
  <2>1. Before(a, b) \/ Before(b, a)
    BY <1>1, BeforeOrders
  <2>2. place(a) \in Int /\ place(b) \in Int
    BY <1>1, <1>5
  <2>3. place(a) < place(b) \/ place(b) < place(a)
    BY <1>4, <2>1
  <2> HIDE DEF place
  <2> QED BY <1>6, <2>2, <2>3
<1> HIDE DEF place, T
<1>7. f \in Injection(keys, T)
  BY <1>5, <1>6 DEF Injection, IsInjective
<1>8. IsFiniteSet(T) /\ Cardinality(T) = n
  BY <1>1, FS_Interval DEF T
<1> HIDE DEF f, n
<1>9. f \in Surjection(keys, T)
  <2>1. Cardinality(keys) = Cardinality(T)
    BY <1>8 DEF n
  <2> QED BY <1>7, <1>8, <2>1, FS_Injection
<1>10. \A i \in T : \E key \in keys : place(key) = i
  BY <1>9 DEF Surjection, f
<1>11. \A i \in T : sorted[i] \in keys /\ place(sorted[i]) = i
  <2> TAKE i \in T
  <2>1. sorted[i] = CHOOSE key \in keys : place(key) = i
    BY DEF T
  <2> HIDE DEF sorted
  <2> QED BY <1>10, <2>1
<1>12. DOMAIN sorted = 1 .. n
  OBVIOUS
<1> HIDE DEF sorted
<1>13. {sorted[j] : j \in T} = keys
  <2>1. \A j \in T : sorted[j] \in keys
    BY <1>11
  <2>2. ASSUME NEW key \in keys PROVE \E j \in T : sorted[j] = key
    <3>1. place(key) \in T
      BY <1>5
    <3>2. sorted[place(key)] \in keys /\ place(sorted[place(key)]) = place(key)
      BY <1>11, <3>1
    <3>3. sorted[place(key)] = key
      BY <1>6, <3>2
    <3> QED BY <3>1, <3>3
  <2> QED BY <2>1, <2>2
<1> QED BY <1>1, <1>2, <1>11, <1>12, <1>13 DEF keys, n, T
-----------------------------------------------------------------------------
(* What dump is *)

\* The text of a value, from the texts f of its parts.
Record(f, m) ==
  LET keys == SortedKeys(m)
  IN [i \in DOMAIN keys |-> DumpString(keys[i]) \o <<58>> \o f[m[keys[i]]]]
List(f, s) == [i \in DOMAIN s |-> f[s[i]]]
Word(v) == CHOOSE literal \in Literals : LiteralValue(literal) = v
Written(f, v) ==
  CASE v[1] = "object" -> <<123>> \o Joined(Record(f, v[2])) \o <<125>>
    [] v[1] = "array" -> <<91>> \o Joined(List(f, v[2])) \o <<93>>
    [] v[1] = "string" -> DumpString(v[2])
    [] v[1] = "integer" -> DumpInteger(v[2])
    [] OTHER -> Word(v)
IsDump(f) == f = [v \in Values |-> Written(f, v)]

\* A value to be dumped is a scalar, or has parts that are nested less deeply.
LEMMA Kinds ==
  ASSUME NEW v \in Values
  PROVE  /\ v[1] = "object" => IsRecord(v)
         /\ v[1] = "array" => IsList(v)
         /\ v[1] \notin {"object", "array"} => IsScalar(v)
<1>1. IsScalar(v) \/ (Is(v, "array") /\ IsList(v)) \/ (Is(v, "object") /\ IsRecord(v))
  BY WriterAssumption
<1>2. IsScalar(v) => v[1] \notin {"object", "array"}
  <2>1. Null[1] = "null" /\ \A x : Boolean(x)[1] = "boolean" /\ Integer(x)[1] = "integer"
    BY DEF Null, Boolean, Integer
  <2>2. CASE v \in {Null, Boolean(TRUE), Boolean(FALSE)}
    BY <2>1, <2>2
  <2>3. CASE \E n \in -NumberRange .. 2 * NumberRange - 1 : v = Integer(n)
    BY <2>1, <2>3
  <2>4. CASE Is(v, "string")
    BY <2>4 DEF Is
  <2> QED BY <2>2, <2>3, <2>4 DEF IsScalar
<1> QED BY <1>1, <1>2 DEF Is

\* Its parts are values, and less deeply nested.
LEMMA Parts ==
  ASSUME NEW v \in Values
  PROVE  /\ Nesting[v] \in Nat
         /\ v[1] = "object" =>
              \A i \in DOMAIN SortedKeys(v[2]) :
                /\ v[2][SortedKeys(v[2])[i]] \in Values
                /\ Nesting[v[2][SortedKeys(v[2])[i]]] < Nesting[v]
         /\ v[1] = "array" =>
              \A i \in DOMAIN v[2] : v[2][i] \in Values /\ Nesting[v[2][i]] < Nesting[v]
<1>1. Nesting[v] \in Nat
  BY WriterAssumption
<1>2. ASSUME v[1] = "object", NEW i \in DOMAIN SortedKeys(v[2])
      PROVE  /\ v[2][SortedKeys(v[2])[i]] \in Values
             /\ Nesting[v[2][SortedKeys(v[2])[i]]] < Nesting[v]
  <2> DEFINE m == v[2]
             key == SortedKeys(m)[i]
  <2>1. /\ m \in [DOMAIN m -> Values] /\ DOMAIN m \subseteq Strings /\ IsFiniteSet(DOMAIN m)
        /\ \A k \in DOMAIN m : Nesting[m[k]] < Nesting[v]
    BY <1>2, Kinds DEF IsRecord
  <2> HIDE DEF m
  <2>2. DOMAIN m \subseteq Seq(Byte)
    BY <2>1 DEF Strings
  <2>3. i \in DOMAIN SortedKeys(m)
    BY <1>2 DEF m
  <2>4. key \in DOMAIN m
    BY <2>1, <2>2, <2>3, KeysSorted
  <2> HIDE DEF key
  <2>5. m[key] \in Values /\ Nesting[m[key]] < Nesting[v]
    BY <2>1, <2>4
  <2> QED BY <2>5 DEF key, m
<1>3. ASSUME v[1] = "array", NEW i \in DOMAIN v[2]
      PROVE  v[2][i] \in Values /\ Nesting[v[2][i]] < Nesting[v]
  BY <1>3, Kinds DEF IsList
<1> QED BY <1>1, <1>2, <1>3

\* The text of a value depends on those of its parts only.
LEMMA WrittenFrom ==
  ASSUME NEW f, NEW g, NEW v \in Values,
         \A u \in Values : Nesting[u] < Nesting[v] => f[u] = g[u]
  PROVE  Written(f, v) = Written(g, v)
<1>1. CASE v[1] = "object"
  <2> DEFINE m == v[2]
             keys == SortedKeys(m)
             text_f(i) == DumpString(keys[i]) \o <<58>> \o f[m[keys[i]]]
             text_g(i) == DumpString(keys[i]) \o <<58>> \o g[m[keys[i]]]
  <2>1. \A i \in DOMAIN keys : f[m[keys[i]]] = g[m[keys[i]]]
    BY <1>1, Parts
  <2>2. \A i \in DOMAIN keys : text_f(i) = text_g(i)
    <3> HIDE DEF keys, m
    <3> QED BY <2>1
  <2>3. Record(f, m) = [i \in DOMAIN keys |-> text_f(i)] /\ Record(g, m) = [i \in DOMAIN keys |-> text_g(i)]
    BY DEF Record
  <2>4. Record(f, m) = Record(g, m)
    <3> HIDE DEF text_f, text_g, keys, m
    <3> QED BY <2>2, <2>3
  <2> QED BY <1>1, <2>4 DEF Written
<1>2. CASE v[1] = "array"
  <2>1. List(f, v[2]) = List(g, v[2])
    <3>1. \A i \in DOMAIN v[2] : f[v[2][i]] = g[v[2][i]]
      BY <1>2, Parts
    <3> QED BY <3>1 DEF List
  <2> QED BY <1>2, <2>1 DEF Written
<1>3. CASE v[1] \notin {"object", "array"}
  BY <1>3 DEF Written
<1> QED BY <1>1, <1>2, <1>3

\* f has the texts of the values that are nested less than n deep.
UpToNesting(f, n) == \A v \in Values : Nesting[v] < n => f[v] = Written(f, v)

\* Such texts exist, for any depth;
LEMMA NestedTexts == \A n \in Nat : \E f : UpToNesting(f, n)
<1> DEFINE Good == {n \in Nat : \E f : UpToNesting(f, n)}
<1>1. 0 \in Good
  <2>1. \A v \in Values : ~(Nesting[v] < 0)
    BY Parts
  <2>2. \A f : UpToNesting(f, 0)
    BY <2>1 DEF UpToNesting
  <2> QED BY <2>2
<1>2. ASSUME NEW n \in Nat \ {0}, n - 1 \in Good PROVE n \in Good
  <2> DEFINE k == n - 1
  <2>1. k \in Nat /\ n = k + 1
    OBVIOUS
  <2>2. PICK f : UpToNesting(f, k)
    BY <1>2
  <2> HIDE DEF k
  <2> DEFINE g == [v \in Values |-> IF Nesting[v] < k THEN f[v] ELSE Written(f, v)]
  <2>3. \A v \in Values : g[v] = Written(f, v) /\ (Nesting[v] < k => g[v] = f[v])
    BY <2>2 DEF UpToNesting
  <2> HIDE DEF g
  <2>4. ASSUME NEW v \in Values, Nesting[v] < n PROVE g[v] = Written(g, v)
    <3>1. \A u \in Values : Nesting[u] < Nesting[v] => f[u] = g[u]
      <4> TAKE u \in Values
      <4> HAVE Nesting[u] < Nesting[v]
      <4>1. Nesting[u] \in Nat /\ Nesting[v] \in Nat
        BY Parts
      <4>2. Nesting[u] < k
        BY <2>1, <2>4, <4>1
      <4> QED BY <2>3, <4>2
    <3>2. Written(f, v) = Written(g, v)
      BY <3>1, WrittenFrom
    <3> QED BY <2>3, <3>2
  <2>0. UpToNesting(g, n)
    BY <2>4 DEF UpToNesting
  <2> QED BY <2>0
<1>3. ASSUME NEW n \in Nat PROVE n \in Good
  <2>1. \A i \in 1 .. n : i \in Nat \ {0}
    OBVIOUS
  <2> HIDE DEF Good
  <2>2. \A i \in 1 .. n : i - 1 \in Good => i \in Good
    BY <1>2, <2>1
  <2>3. \A i \in 0 .. n : i \in Good
    BY <1>1, <2>2, UpTo
  <2> QED BY <2>3
<1> QED BY <1>3

\* they are the same whatever the depth;
LEMMA NestedOnce ==
  ASSUME NEW n \in Nat, NEW f, NEW g, UpToNesting(f, n), UpToNesting(g, n)
  PROVE  \A v \in Values : Nesting[v] < n => f[v] = g[v]
<1> DEFINE Bad == {Nesting[v] : v \in {u \in Values : Nesting[u] < n /\ f[u] # g[u]}}
<1>1. SUFFICES ASSUME Bad # {} PROVE FALSE
  OBVIOUS
<1>2. Bad \subseteq Nat
  BY Parts
<1>3. PICK m \in Bad : \A k \in Nat : k < m => k \notin Bad
  <2> HIDE DEF Bad
  <2> QED BY <1>1, <1>2, SmallestNumber
<1>4. PICK v \in Values : Nesting[v] = m /\ Nesting[v] < n /\ f[v] # g[v]
  OBVIOUS
<1>5. ASSUME NEW u \in Values, Nesting[u] < Nesting[v] PROVE f[u] = g[u]
  <2>1. Nesting[u] \in Nat /\ Nesting[v] \in Nat
    BY Parts
  <2>2. Nesting[u] \notin Bad
    BY <1>3, <1>4, <1>5, <2>1
  <2>3. Nesting[u] < n
    BY <1>4, <1>5, <2>1
  <2> QED BY <2>2, <2>3
<1>6. Written(f, v) = Written(g, v)
  BY <1>5, WrittenFrom
<1>7. f[v] = Written(f, v) /\ g[v] = Written(g, v)
  BY <1>4 DEF UpToNesting
<1> QED BY <1>4, <1>6, <1>7

\* and so dump is defined on all values, by its own equation.
LEMMA DumpExists == \E f : IsDump(f)
<1> DEFINE texts(n) == CHOOSE f : UpToNesting(f, n)
           g == [v \in Values |-> texts(Nesting[v] + 1)[v]]
<1>1. \A n \in Nat : UpToNesting(texts(n), n)
  BY NestedTexts
<1>2. \A v \in Values : g[v] = texts(Nesting[v] + 1)[v]
  OBVIOUS
<1> HIDE DEF texts
<1>3. ASSUME NEW v \in Values PROVE texts(Nesting[v] + 1)[v] = Written(g, v)
  <2> DEFINE n == Nesting[v] + 1
             f == texts(n)
  <2>1. Nesting[v] \in Nat /\ n \in Nat /\ Nesting[v] < n
    BY Parts
  <2> HIDE DEF g
  <2>2. UpToNesting(f, n)
    BY <1>1, <2>1
  <2> HIDE DEF f, n
  <2>3. ASSUME NEW u \in Values, Nesting[u] < Nesting[v] PROVE f[u] = g[u]
    <3> DEFINE k == Nesting[u] + 1
               h == texts(k)
    <3>1. Nesting[u] \in Nat /\ k \in Nat /\ Nesting[u] < k /\ k <= Nesting[v]
      BY <2>1, <2>3, Parts
    <3>2. UpToNesting(h, k) /\ g[u] = h[u]
      BY <1>1, <1>2, <3>1
    <3> HIDE DEF h, k
    <3>3. UpToNesting(f, k)
      <4> SUFFICES ASSUME NEW w \in Values, Nesting[w] < k PROVE f[w] = Written(f, w)
        BY DEF UpToNesting
      <4>1. Nesting[w] \in Nat
        BY Parts
      <4>2. Nesting[w] < n
        BY <2>1, <3>1, <4>1
      <4> QED BY <2>2, <4>2 DEF UpToNesting
    <3> QED BY <3>1, <3>2, <3>3, NestedOnce
  <2>4. Written(f, v) = Written(g, v)
    BY <2>3, WrittenFrom
  <2>0. f[v] = Written(f, v)
    BY <2>1, <2>2 DEF UpToNesting
  <2> QED BY <2>4, <2>0 DEF f, n
<1>4. \A v \in Values : texts(Nesting[v] + 1)[v] = Written(g, v)
  BY <1>3
<1>5. g = [v \in Values |-> Written(g, v)]
  <2> DEFINE r(v) == texts(Nesting[v] + 1)[v]
             w(v) == Written(g, v)
  <2>1. g = [v \in Values |-> r(v)]
    OBVIOUS
  <2>2. \A v \in Values : r(v) = w(v)
    BY <1>4
  <2> HIDE DEF r, w, g
  <2>3. [v \in Values |-> r(v)] = [v \in Values |-> w(v)]
    BY <2>2
  <2> QED BY <2>1, <2>3 DEF w
<1> HIDE DEF g
<1> QED BY <1>5 DEF IsDump

LEMMA DumpIs == \A v \in Values : Dump[v] = Written(Dump, v)
<1>1. Dump = CHOOSE f : IsDump(f)
  BY DEF Dump, IsDump, Written, Record, List, Word
<1>2. IsDump(Dump)
  BY <1>1, DumpExists
<1> QED BY <1>2 DEF IsDump
-----------------------------------------------------------------------------
(* What dump writes is read back *)

\* No text begins with white space or with a byte order mark.
Begins(t) == t # <<>> /\ Head(t) \in Digit \cup {Minus, Quote, 91, 102, 110, 116, 123}

\* The text of an array, an object or a string begins and ends with a mark.
Delimited(v, t) ==
  v[1] \in {"array", "object", "string"} =>
    t[1] \in {91, 123, Quote} /\ Last(t) \in {93, 125, Quote}

\* How the text of an array, of an object and of a string begins and ends.
LEMMA BracketBegins ==
  ASSUME NEW a \in Byte, NEW b \in Byte, NEW s \in Seq(Byte)
  PROVE  /\ Bracket(a, s, b) # <<>> /\ Head(Bracket(a, s, b)) = a
         /\ Bracket(a, s, b)[1] = a /\ Last(Bracket(a, s, b)) = b
<1> DEFINE t == s \o <<b>>
           u == <<a>> \o t
<1>1. <<a>> \in Seq(Byte) /\ <<b>> \in Seq(Byte)
  OBVIOUS
<1>2. Bracket(a, s, b) = u
  <2>1. (<<a>> \o s) \o <<b>> = <<a>> \o (s \o <<b>>)
    BY <1>1, ConcatAssociative
  <2> QED BY <2>1 DEF Bracket
<1>3. t \in Seq(Byte)
  BY <1>1, ConcatProperties
<1> HIDE DEF t
<1>4. Head(u) = a /\ u # <<>>
  <2>1. u \in Seq(Byte) /\ Len(u) = 1 + Len(t) /\ u[1] = a
    BY <1>3
  <2>2. Len(t) \in Nat
    BY <1>3
  <2> HIDE DEF u
  <2>3. Len(u) # 0
    BY <2>1, <2>2
  <2> QED BY <2>1, <2>3, EmptySeq
<1>5. u[1] = a
  BY <1>3
<1>6. Last(Bracket(a, s, b)) = b
  <2> DEFINE w == <<a>> \o s
  <2>1. w \in Seq(Byte)
    BY <1>1, ConcatProperties
  <2>2. Bracket(a, s, b) = w \o <<b>>
    BY DEF Bracket
  <2> HIDE DEF w
  <2>3. Len(w \o <<b>>) = Len(w) + 1 /\ (w \o <<b>>)[Len(w) + 1] = b
    BY <2>1
  <2> QED BY <2>2, <2>3 DEF Last
<1> HIDE DEF u
<1> QED BY <1>2, <1>4, <1>5, <1>6

LEMMA StringBegins ==
  ASSUME NEW s \in Strings
  PROVE  Begins(DumpString(s)) /\ \A v : Delimited(v, DumpString(s))
<1> DEFINE body == FlattenSeq([i \in DOMAIN s |-> Escaped(s[i])])
<1>1. body \in Seq(Byte) /\ Quote \in Byte
  <2>1. Going("value")
    BY DEF Going
  <2>2. body \in Seq(Byte)
    BY <2>1, ReadsBytes
  <2>3. Quote \in Byte
    BY DEF Quote, Byte
  <2> QED BY <2>2, <2>3
<1>2. DumpString(s) = Bracket(Quote, body, Quote)
  BY DEF DumpString, Bracket
<1> HIDE DEF body
<1>3. /\ Bracket(Quote, body, Quote) # <<>> /\ Head(Bracket(Quote, body, Quote)) = Quote
      /\ Bracket(Quote, body, Quote)[1] = Quote /\ Last(Bracket(Quote, body, Quote)) = Quote
  BY <1>1, BracketBegins
<1> QED BY <1>2, <1>3 DEF Begins, Delimited

\* A string, a number and a word are taken as values where one is wanted.
LEMMA ScalarsReadBack ==
  /\ \A s \in Strings : ReadBack(DumpString(s), Text(s)) /\ Begins(DumpString(s))
  /\ \A n \in -NumberRange .. 2 * NumberRange - 1 :
       ReadBack(DumpInteger(n), Integer(n)) /\ Begins(DumpInteger(n))
  /\ \A literal \in Literals :
       ReadBack(literal, LiteralValue(literal)) /\ Begins(literal)
<1>1. ASSUME NEW s \in Strings PROVE ReadBack(DumpString(s), Text(s))
  <2>1. DumpString(s) \in Seq(Byte)
    <3>1. Going("value")
      BY DEF Going
    <3> QED BY <3>1, StringsReadBack
  <2>2. ASSUME NEW wants, NEW stack, NEW root, WantsValue(Ready(wants, stack, root))
        PROVE  Takes(Ready(wants, stack, root), DumpString(s),
                     HandleValue(Ready(wants, stack, root), Text(s)))
    <3> DEFINE r == Ready(wants, stack, root)
               p == Token(r, "value", Text(s))
    <3>1. Going(wants)
      BY <2>2, WantedGoing
    <3>2. Reads(r, DumpString(s), p)
      BY <3>1, StringsReadBack
    <3>3. p = HandleValue(r, Text(s))
      BY <2>2, ValueTaken, FiniteValues
    <3> HIDE DEF r, p
    <3>4. Takes(r, DumpString(s), p)
      BY <3>2, TakesAtOnce
    <3> QED BY <3>3, <3>4 DEF r
  <2> QED BY <2>1, <2>2 DEF ReadBack
<1>2. ASSUME NEW n \in -NumberRange .. 2 * NumberRange - 1
      PROVE  ReadBack(DumpInteger(n), Integer(n)) /\ Begins(DumpInteger(n))
  <2>1. DumpInteger(n) \in Seq(Byte) /\ DumpInteger(n) # <<>> /\ Head(DumpInteger(n)) \in Digit \cup {Minus}
    <3>1. Going("value")
      BY DEF Going
    <3> QED BY <3>1, IntegersReadBack
  <2>2. ASSUME NEW wants, NEW stack, NEW root, WantsValue(Ready(wants, stack, root))
        PROVE  Takes(Ready(wants, stack, root), DumpInteger(n),
                     HandleValue(Ready(wants, stack, root), Integer(n)))
    <3> DEFINE r == Ready(wants, stack, root)
               p == Token(r, "value", Integer(n))
    <3>1. Going(wants)
      BY <2>2, WantedGoing
    <3>2. Takes(r, DumpInteger(n), p)
      BY <3>1, IntegersReadBack
    <3>3. p = HandleValue(r, Integer(n))
      BY <2>2, ValueTaken, FiniteValues
    <3> HIDE DEF r, p
    <3> QED BY <3>2, <3>3 DEF r
  <2>3. Begins(DumpInteger(n))
    BY <2>1 DEF Begins
  <2> QED BY <2>1, <2>2, <2>3 DEF ReadBack
<1>3. ASSUME NEW literal \in Literals
      PROVE  ReadBack(literal, LiteralValue(literal)) /\ Begins(literal)
  <2>1. literal \in Seq(Byte)
    <3>1. Going("value")
      BY DEF Going
    <3> QED BY <3>1, LiteralsReadBack
  <2>2. ASSUME NEW wants, NEW stack, NEW root, WantsValue(Ready(wants, stack, root))
        PROVE  Takes(Ready(wants, stack, root), literal,
                     HandleValue(Ready(wants, stack, root), LiteralValue(literal)))
    <3> DEFINE r == Ready(wants, stack, root)
               p == Token(r, "value", LiteralValue(literal))
    <3>1. Going(wants)
      BY <2>2, WantedGoing
    <3>2. Reads(r, literal, p)
      BY <3>1, LiteralsReadBack
    <3>3. p = HandleValue(r, LiteralValue(literal))
      BY <2>2, ValueTaken, FiniteValues
    <3> HIDE DEF r, p
    <3>4. Takes(r, literal, p)
      BY <3>2, TakesAtOnce
    <3> QED BY <3>3, <3>4 DEF r
  <2>3. Begins(literal)
    BY DEF Literals, Begins
  <2> QED BY <2>1, <2>2, <2>3 DEF ReadBack
<1> QED BY <1>1, <1>2, <1>3, StringBegins

\* Joined texts are bytes.
LEMMA JoinedBytes ==
  ASSUME NEW parts \in Seq(Seq(Byte))
  PROVE  Joined(parts) \in Seq(Byte)
<1> DEFINE n == Len(parts)
           comma == <<44>>
           seqs == [i \in DOMAIN parts |-> IF i = 1 THEN parts[i] ELSE comma \o parts[i]]
<1>1. n \in Nat /\ DOMAIN parts = 1 .. n /\ \A i \in 1 .. n : parts[i] \in Seq(Byte)
  OBVIOUS
<1>2. comma \in Seq(Byte)
  BY DEF Byte
<1>3. seqs \in Seq(Seq(Byte)) /\ Len(seqs) \in Nat
  <2>1. \A i \in 1 .. n : comma \o parts[i] \in Seq(Byte)
    <3> HIDE DEF comma, n
    <3> QED BY <1>1, <1>2, ConcatProperties
  <2> HIDE DEF comma
  <2> QED BY <1>1, <2>1
<1>4. Joined(parts) = FlattenSeq(seqs)
  BY DEF Joined
<1> HIDE DEF seqs
<1>5. FlattenSeq(seqs) \in Seq(Byte)
  <2>1. PICK f : /\ \A i \in 0 .. Len(seqs) : f[i] \in Seq(Byte)
                 /\ FlattenSeq(seqs) = f[Len(seqs)]
    BY <1>3, Flattened
  <2>2. Len(seqs) \in 0 .. Len(seqs)
    BY <1>3
  <2> QED BY <2>1, <2>2
<1> QED BY <1>4, <1>5

\* An array and an object begin and end with their brackets.
LEMMA BracketsBegin ==
  ASSUME NEW parts \in Seq(Seq(Byte)), NEW b \in {93, 125}
  PROVE  \A a \in {91, 123} : /\ Begins(Bracket(a, Joined(parts), b))
                              /\ \A v : Delimited(v, Bracket(a, Joined(parts), b))
<1> DEFINE s == Joined(parts)
<1>1. s \in Seq(Byte) /\ b \in Byte
  BY JoinedBytes DEF Byte
<1> HIDE DEF s
<1>2. ASSUME NEW a \in Byte, a \in {91, 123}
      PROVE  Begins(Bracket(a, s, b)) /\ \A v : Delimited(v, Bracket(a, s, b))
  <2>1. /\ Bracket(a, s, b) # <<>> /\ Head(Bracket(a, s, b)) = a
        /\ Bracket(a, s, b)[1] = a /\ Last(Bracket(a, s, b)) = b
    BY <1>1, BracketBegins
  <2> QED BY <1>2, <2>1 DEF Begins, Delimited
<1>3. \A a \in {91, 123} : a \in Byte
  BY DEF Byte
<1>4. \A a \in {91, 123} : Begins(Bracket(a, s, b)) /\ \A v : Delimited(v, Bracket(a, s, b))
  <2> SUFFICES ASSUME NEW a \in {91, 123}
               PROVE  Begins(Bracket(a, s, b)) /\ \A v : Delimited(v, Bracket(a, s, b))
    OBVIOUS
  <2>1. a \in Byte
    BY <1>3
  <2> QED BY <1>2, <2>1
<1> QED BY <1>4 DEF s

\* If the texts of the parts of a value are read back, so is its own text.
LEMMA WrittenReadsBack ==
  ASSUME NEW f, NEW v \in Values,
         \A u \in Values : Nesting[u] < Nesting[v] => ReadBack(f[u], u)
  PROVE  ReadBack(Written(f, v), v) /\ Begins(Written(f, v)) /\ Delimited(v, Written(f, v))
<1> DEFINE open == 123
           begin == 91
           end == 93
           close == 125
<1>0. end \in {93, 125} /\ close \in {93, 125} /\ begin \in {91, 123} /\ open \in {91, 123}
  OBVIOUS
<1>1. CASE v[1] = "object"
  <2> DEFINE m == v[2]
             n == Cardinality(DOMAIN m)
             keys == SortedKeys(m)
             texts == [i \in 1 .. n |-> f[m[keys[i]]]]
             parts == [i \in 1 .. n |-> MemberText(keys[i], texts[i])]
  <2>1. /\ v = Object(m) /\ m \in [DOMAIN m -> Values]
        /\ DOMAIN m \subseteq Strings /\ IsFiniteSet(DOMAIN m)
    BY <1>1, Kinds DEF IsRecord
  <2>2. \A i \in DOMAIN keys : m[keys[i]] \in Values /\ Nesting[m[keys[i]]] < Nesting[v]
    BY <1>1, Parts
  <2>9. Written(f, v) = Bracket(open, Joined(Record(f, m)), close)
    BY <1>1 DEF Written, Bracket
  <2> HIDE DEF m
  <2>3. DOMAIN m \subseteq Seq(Byte)
    BY <2>1 DEF Strings
  <2>4. /\ n \in Nat /\ DOMAIN keys = 1 .. n /\ \A i \in 1 .. n : keys[i] \in DOMAIN m
        /\ {keys[j] : j \in 1 .. n} = DOMAIN m
    BY <2>1, <2>3, KeysSorted
  <2> HIDE DEF n
  <2>6. parts = Record(f, m)
    <3> DEFINE a(i) == MemberText(keys[i], texts[i])
               b(i) == DumpString(keys[i]) \o <<58>> \o f[m[keys[i]]]
    <3>1. \A i \in 1 .. n : a(i) = b(i)
      BY DEF MemberText
    <3>2. Record(f, m) = [i \in 1 .. n |-> b(i)]
      BY <2>4 DEF Record
    <3>3. parts = [i \in 1 .. n |-> a(i)]
      OBVIOUS
    <3> HIDE DEF a, b, parts
    <3> QED BY <3>1, <3>2, <3>3
  <2> HIDE DEF keys
  <2>0. \A i \in 1 .. n : keys[i] \in Strings /\ ReadBack(texts[i], m[keys[i]])
    BY <2>1, <2>2, <2>4
  <2> HIDE DEF texts
  <2>7. ReadBack(Bracket(open, Joined(parts), close), Object(m))
    <3>1. parts = [i \in 1 .. n |-> MemberText(keys[i], texts[i])]
      OBVIOUS
    <3> HIDE DEF parts
    <3> QED BY <2>1, <2>4, <2>0, <3>1, ObjectsReadBack
  <2>8. parts \in Seq(Seq(Byte))
    <3>1. ASSUME NEW i \in 1 .. n PROVE MemberText(keys[i], texts[i]) \in Seq(Byte)
      <4> DEFINE t == texts[i]
                 key == keys[i]
                 colon == <<58>>
      <4>1. t \in Seq(Byte) /\ key \in Strings
        BY <2>0 DEF ReadBack
      <4> HIDE DEF t, key
      <4>2. DumpString(key) \in Seq(Byte)
        BY <4>1, ScalarsReadBack DEF ReadBack
      <4>3. colon \in Seq(Byte)
        BY DEF Byte
      <4>4. MemberText(key, t) = (DumpString(key) \o colon) \o t
        BY DEF MemberText
      <4> HIDE DEF colon
      <4>5. DumpString(key) \o colon \in Seq(Byte)
        BY <4>2, <4>3, ConcatProperties
      <4>6. (DumpString(key) \o colon) \o t \in Seq(Byte)
        BY <4>1, <4>5, ConcatProperties
      <4> QED BY <4>4, <4>6 DEF t, key
    <3> QED BY <2>4, <3>1
  <2> HIDE DEF parts, open, close
  <2>10. /\ Begins(Bracket(open, Joined(parts), close))
         /\ Delimited(v, Bracket(open, Joined(parts), close))
    BY <1>0, <2>8, BracketsBegin
  <2> QED BY <2>1, <2>6, <2>7, <2>9, <2>10
<1>2. CASE v[1] = "array"
  <2> DEFINE s == v[2]
             parts == List(f, s)
  <2>1. v = Array(s) /\ s \in Seq(Values)
    BY <1>2, Kinds DEF IsList
  <2>2. \A i \in DOMAIN s : s[i] \in Values /\ Nesting[s[i]] < Nesting[v]
    BY <1>2, Parts
  <2>9. Written(f, v) = Bracket(begin, Joined(parts), end)
    BY <1>2 DEF Written, Bracket
  <2> HIDE DEF s
  <2>3. /\ Len(s) \in Nat /\ DOMAIN s = 1 .. Len(s)
        /\ parts = [i \in 1 .. Len(s) |-> f[s[i]]]
    BY <2>1 DEF List
  <2>4. \A i \in 1 .. Len(s) : ReadBack(parts[i], s[i])
    BY <2>2, <2>3
  <2> HIDE DEF parts
  <2>0. \A i \in 1 .. Len(s) : parts[i] \in Seq(Byte)
    BY <2>4 DEF ReadBack
  <2>6. parts \in Seq(Seq(Byte)) /\ Len(parts) = Len(s)
    BY <2>3, <2>0
  <2>7. ReadBack(Bracket(begin, Joined(parts), end), Array(s))
    BY <2>1, <2>4, <2>6, ArraysReadBack
  <2> HIDE DEF begin, end
  <2>8. /\ Begins(Bracket(begin, Joined(parts), end))
        /\ Delimited(v, Bracket(begin, Joined(parts), end))
    BY <1>0, <2>6, BracketsBegin
  <2> QED BY <2>1, <2>7, <2>8, <2>9
<1>3. CASE v[1] \notin {"object", "array"}
  <2>0. Delimited(v, Written(f, v))
    <3>1. CASE v[1] = "string"
      <4>1. v[2] \in Strings
        <5>1. IsScalar(v)
          BY <1>3, Kinds
        <5>2. v[1] \notin {"null", "boolean", "integer"}
          BY <3>1
        <5>3. Null[1] = "null" /\ \A x : Boolean(x)[1] = "boolean" /\ Integer(x)[1] = "integer"
          BY DEF Null, Boolean, Integer
        <5> QED BY <5>1, <5>2, <5>3 DEF IsScalar
      <4>2. Written(f, v) = DumpString(v[2])
        BY <3>1 DEF Written
      <4> QED BY <4>1, <4>2, StringBegins
    <3>2. CASE v[1] # "string"
      BY <1>3, <3>2 DEF Delimited
    <3> QED BY <3>1, <3>2
  <2>1. CASE Is(v, "string") /\ v = Text(v[2]) /\ v[2] \in Strings
    <3>1. Written(f, v) = DumpString(v[2])
      BY <2>1 DEF Written, Is
    <3> DEFINE s == v[2]
    <3>2. v = Text(s) /\ s \in Strings
      BY <2>1
    <3> HIDE DEF s
    <3>3. ReadBack(DumpString(s), v) /\ Begins(DumpString(s))
      BY <3>2, ScalarsReadBack
    <3> QED BY <2>0, <3>1, <3>3 DEF s
  <2>2. ASSUME NEW n \in -NumberRange .. 2 * NumberRange - 1, v = Integer(n)
        PROVE  ReadBack(Written(f, v), v) /\ Begins(Written(f, v))
    <3>1. v[1] = "integer" /\ v[2] = n
      BY <2>2 DEF Integer
    <3>2. Written(f, v) = DumpInteger(n)
      BY <3>1 DEF Written
    <3>3. ReadBack(DumpInteger(n), Integer(n)) /\ Begins(DumpInteger(n))
      BY ScalarsReadBack
    <3> QED BY <2>2, <3>2, <3>3
  <2>3. CASE v \in {Null, Boolean(TRUE), Boolean(FALSE)}
    <3>1. v[1] \in {"null", "boolean"}
      <4>1. Null[1] = "null" /\ \A x : Boolean(x)[1] = "boolean"
        BY DEF Null, Boolean
      <4> QED BY <2>3, <4>1
    <3>2. Written(f, v) = Word(v)
      BY <3>1 DEF Written
    <3>3. \E literal \in Literals : LiteralValue(literal) = v
      <4> DEFINE a == <<116, 114, 117, 101>>
                 b == <<102, 97, 108, 115, 101>>
                 c == <<110, 117, 108, 108>>
      <4>1. a \in Literals /\ b \in Literals /\ c \in Literals
        BY DEF Literals
      <4>2. LiteralValue(a) = Boolean(TRUE)
        <5>1. a[1] = 116
          OBVIOUS
        <5>2. 116 # 102
          OBVIOUS
        <5> HIDE DEF a
        <5>3. LiteralValue(a) = <<"boolean", TRUE>>
          BY <5>1, <5>2, Zenon DEF LiteralValue
        <5> QED BY <5>3, Zenon DEF Boolean
      <4>3. LiteralValue(b) = Boolean(FALSE)
        <5>1. b[1] = 102
          OBVIOUS
        <5>2. 116 # 102
          OBVIOUS
        <5> HIDE DEF b
        <5>3. LiteralValue(b) = <<"boolean", FALSE>>
          BY <5>1, <5>2, Zenon DEF LiteralValue
        <5> QED BY <5>3, Zenon DEF Boolean
      <4>4. LiteralValue(c) = Null
        <5>1. c[1] = 110
          OBVIOUS
        <5> HIDE DEF c
        <5> QED BY <5>1 DEF LiteralValue, Null
      <4> HIDE DEF a, b, c
      <4> QED BY <2>3, <4>1, <4>2, <4>3, <4>4
    <3>4. Word(v) \in Literals /\ LiteralValue(Word(v)) = v
      BY <3>3 DEF Word
    <3>5. ReadBack(Word(v), v) /\ Begins(Word(v))
      BY <3>4, ScalarsReadBack
    <3> QED BY <2>0, <3>2, <3>5
  <2>4. IsScalar(v)
    BY <1>3, Kinds
  <2> QED BY <2>0, <2>1, <2>2, <2>3, <2>4 DEF IsScalar
<1> QED BY <1>1, <1>2, <1>3

\* What dump writes of a value is read as that value, wherever a value is wanted.
THEOREM DumpsReadBack ==
  \A v \in Values : ReadBack(Dump[v], v) /\ Begins(Dump[v])
<1> DEFINE Good(v) == ReadBack(Dump[v], v) /\ Begins(Dump[v])
           Bad == {Nesting[v] : v \in {u \in Values : ~Good(u)}}
<1>1. SUFFICES ASSUME Bad # {} PROVE FALSE
  OBVIOUS
<1>2. Bad \subseteq Nat
  BY Parts
<1>3. PICK m \in Bad : \A k \in Nat : k < m => k \notin Bad
  <2> HIDE DEF Bad
  <2> QED BY <1>1, <1>2, SmallestNumber
<1>4. PICK v \in Values : Nesting[v] = m /\ ~Good(v)
  <2> HIDE DEF Good
  <2> QED OBVIOUS
<1>5. ASSUME NEW u \in Values, Nesting[u] < Nesting[v] PROVE Good(u)
  <2>1. Nesting[u] \in Nat
    BY Parts
  <2>2. Nesting[u] \notin Bad
    BY <1>3, <1>4, <1>5, <2>1
  <2> HIDE DEF Good
  <2> QED BY <2>2
<1>6. \A u \in Values : Nesting[u] < Nesting[v] => ReadBack(Dump[u], u)
  BY <1>5
<1>7. ReadBack(Written(Dump, v), v) /\ Begins(Written(Dump, v))
  BY <1>6, WrittenReadsBack
<1> QED BY <1>4, <1>7, DumpIs
-----------------------------------------------------------------------------
(* From the beginning to the end of the input *)

\* At the beginning of the input, a first byte that is no byte order mark is read
\* as one between two tokens is.
LEMMA StartSame ==
  ASSUME NEW c \in Digit \cup {Minus, Quote, 91, 102, 110, 116, 123}
  PROVE  Feed(StartReader, c) = Feed(Ready("value", <<>>, Null), c)
<1> DEFINE r == StartReader
           p == Ready("value", <<>>, Null)
<1>1. r = Amid("start", <<>>, <<>>, "value", <<>>, Null)
  BY DEF StartReader, Amid
<1>2. p = Amid("between", <<>>, <<>>, "value", <<>>, Null)
  BY DEF Ready
<1>3. Feed(r, c) = Between(r, c)
  <2>1. c # 239
    BY DEF Digit, Minus, Quote
  <2>2. ~Final(r) /\ r.scan = "start"
    BY DEF Final, StartReader
  <2> HIDE DEF r
  <2>3. \A d : d # 239 => Feed(r, d) = Between(r, d)
    <3> TAKE d
    <3> HAVE d # 239
    <3> QED BY <2>2 DEF Feed, NumberStates
  <2> QED BY <2>1, <2>3
<1>4. Feed(p, c) = Between(p, c)
  <2>1. Going("value")
    BY DEF Going
  <2> QED BY <2>1, Feeds DEF Ready
<1>5. \A t, v : Deliver(r, t, v) = Deliver(p, t, v)
  BY <1>1, <1>2, Delivers
<1>6. \A to, bytes : Await(r, to, bytes) = Await(p, to, bytes)
  <2> TAKE to, bytes
  <2>1. Await(r, to, bytes) = Amid(to, bytes, <<>>, "value", <<>>, Null)
    BY <1>1, Awaits
  <2>2. Await(p, to, bytes) = Amid(to, bytes, <<>>, "value", <<>>, Null)
    BY <1>2, Awaits
  <2> QED BY <2>1, <2>2
<1>7. \A to, t : Moved(r, to, t) = Moved(p, to, t)
  <2> TAKE to, t
  <2>1. Moved(r, to, t) = Amid(to, <<>>, t, "value", <<>>, Null)
    BY <1>1, Moves
  <2>2. Moved(p, to, t) = Amid(to, <<>>, t, "value", <<>>, Null)
    BY <1>2, Moves
  <2> QED BY <2>1, <2>2
<1> HIDE DEF r, p
<1>8. c \notin White /\ c \notin {0, EOF}
  BY DEF Digit, Minus, Quote, White, EOF
<1>9. Between(r, c) = Between(p, c)
  <2>1. CASE c \in {91, 123}
    <3>1. c \in DOMAIN Structure
      BY <2>1 DEF Structure
    <3>3. c # Quote /\ c # Minus /\ c \notin Digit /\ ~\E t \in Literals : c = Head(t)
      BY <2>1 DEF Quote, Minus, Digit, Literals
    <3>2. \A q : Between(q, c) = Deliver(q, Structure[c], Null)
      BY <1>8, <3>1, <3>3 DEF Between
    <3> QED BY <1>5, <3>2
  <2>2. CASE c \notin {91, 123}
    <3>1. c \notin DOMAIN Structure
      BY <2>2 DEF Structure, Digit, Minus, Quote
    <3>2. CASE c \in {102, 110, 116}
      <4> DEFINE literal == CHOOSE t \in Literals : c = Head(t)
      <4>1. \E t \in Literals : c = Head(t)
        BY <3>2 DEF Literals
      <4>3. c # Quote /\ c # Minus /\ c \notin Digit
        BY <3>2 DEF Quote, Minus, Digit
      <4>2. \A q : Between(q, c) = [Await(q, "literal", Exactly(Tail(literal))) EXCEPT !.token = literal]
        BY <1>8, <3>1, <4>1, <4>3 DEF Between
      <4> HIDE DEF literal
      <4> QED BY <1>6, <4>2
    <3>3. CASE c \notin {102, 110, 116}
      <4>1. ~\E t \in Literals : c = Head(t)
        BY <3>3 DEF Literals
      <4>2. CASE c = Quote
        <5>2. c # Minus /\ c \notin Digit
          BY <4>2 DEF Quote, Minus, Digit
        <5>1. \A q : Between(q, c) = Await(q, "string", <<>>)
          BY <1>8, <3>1, <4>1, <4>2, <5>2 DEF Between
        <5> QED BY <1>6, <5>1
      <4>3. CASE c = Minus
        <5>1. c # Quote /\ c \notin Digit
          BY <4>3 DEF Quote, Minus, Digit
        <5>2. \A q : Between(q, c) = Moved(q, "minus", <<c>>)
          BY <1>8, <3>1, <4>1, <4>3, <5>1 DEF Between, Moved
        <5> QED BY <1>7, <5>2
      <4>4. CASE c \in Digit
        <5>1. c # Quote /\ c # Minus
          BY <4>4 DEF Quote, Minus, Digit
        <5>2. \A q : Between(q, c) = Moved(q, NumberMove("minus", c), <<c>>)
          BY <1>8, <3>1, <4>1, <4>4, <5>1 DEF Between, Moved
        <5> QED BY <1>7, <5>2
      <4> QED BY <2>2, <3>3, <4>2, <4>3, <4>4
    <3> QED BY <3>2, <3>3
  <2> QED BY <2>1, <2>2
<1> QED BY <1>3, <1>4, <1>9 DEF r, p

\* So a text that is taken between two tokens is taken at the beginning.
LEMMA StartTakes ==
  ASSUME NEW t \in Seq(Byte), Begins(t), NEW q, Takes(Ready("value", <<>>, Null), t, q)
  PROVE  Takes(StartReader, t, q)
<1> DEFINE r == Ready("value", <<>>, Null)
           s == StartReader
<1>1. PICK p : Reads(r, t, p) /\ \A c \in Delimiters : Feed(p, c) = Feed(q, c)
  BY DEF Takes
<1>2. PICK f : IsReading(f, r, t) /\ f[Len(t)] = p
  BY <1>1 DEF Reads
<1>3. Len(t) \in Nat \ {0} /\ Head(t) = t[1]
  BY EmptySeq DEF Begins
<1>4. Feed(s, t[1]) = Feed(r, t[1])
  BY <1>3, StartSame DEF Begins
<1> HIDE DEF r, s
<1> DEFINE g == [i \in 0 .. Len(t) |-> IF i = 0 THEN s ELSE f[i]]
<1>5. g[0] = s /\ \A i \in 1 .. Len(t) : g[i] = f[i]
  BY <1>3
<1> HIDE DEF g
<1>6. ASSUME NEW i \in 1 .. Len(t) PROVE g[i] = Feed(g[i - 1], t[i])
  <2>1. f[0] = r /\ f[i] = Feed(f[i - 1], t[i])
    BY <1>2 DEF IsReading
  <2>2. CASE i = 1
    <3>1. g[1 - 1] = s /\ f[1 - 1] = r /\ g[1] = f[1]
      BY <1>3, <1>5, <2>1
    <3> QED BY <1>4, <2>1, <2>2, <3>1
  <2>3. CASE i # 1
    <3>1. i - 1 \in 1 .. Len(t)
      BY <1>3, <2>3
    <3> QED BY <1>5, <2>1, <3>1
  <2> QED BY <2>2, <2>3
<1>7. Reads(s, t, p)
  <2>1. IsReading(g, s, t)
    BY <1>5, <1>6 DEF IsReading
  <2>2. g[Len(t)] = p
    BY <1>2, <1>3, <1>5
  <2> QED BY <2>1, <2>2 DEF Reads
<1>8. Takes(s, t, q)
  BY <1>1, <1>7 DEF Takes
<1> QED BY <1>8 DEF s

\* At the end of the input a whole value is what parse returns.
LEMMA EndOfInput ==
  ASSUME NEW v
  PROVE  Feed(Ready("after", <<>>, v), EOF) = Ready("done", <<>>, v)
<1> DEFINE r == Ready("after", <<>>, v)
           q(w) == [r EXCEPT !.wants = w]
<1>1. Feed(r, EOF) = Between(r, EOF)
  <2>1. Going("after")
    BY DEF Going
  <2> QED BY <2>1, Feeds DEF Ready
<1>2. Deliver(r, "end_of_input", Null) = Token(r, "end_of_input", Null)
  BY Delivers DEF Ready
<1>3. \A w : q(w) = Ready(w, <<>>, v)
  BY Wants DEF Ready
<1>4. r.wants = "after" /\ r.stack = <<>>
  BY ReadyFields
<1> HIDE DEF r
<1>5. Between(r, EOF) = Deliver(r, "end_of_input", Null)
  <2> DEFINE c == EOF
  <2>1. c \notin White /\ c \in {0, EOF} /\ c \notin DOMAIN Structure /\ c \notin Digit
        /\ c # Quote /\ c # Minus
    BY DEF EOF, White, Structure, Digit, Quote, Minus
  <2>2. ~\E t \in Literals : c = Head(t)
    BY DEF EOF, Literals
  <2> HIDE DEF c
  <2>3. Between(r, c) = Deliver(r, "end_of_input", Null)
    BY <2>1, <2>2 DEF Between
  <2> QED BY <2>3 DEF c
<1>6. Token(r, "end_of_input", Null) = q("done")
  BY <1>4 DEF Token, Ended
<1> HIDE DEF q
<1> QED BY <1>1, <1>2, <1>3, <1>5, <1>6 DEF r

\* The text of a value is taken from the beginning of the input.
LEMMA DumpTaken ==
  ASSUME NEW v \in Values
  PROVE  Takes(StartReader, Dump[v], Ready("after", <<>>, v))
<1> DEFINE t == Dump[v]
           r == Ready("value", <<>>, Null)
           done == Ready("after", <<>>, v)
<1>1. t \in Seq(Byte) /\ Begins(t) /\ ReadBack(t, v)
  BY DumpsReadBack DEF ReadBack
<1> HIDE DEF t
<1>2. Takes(r, t, HandleValue(r, v))
  BY <1>1, SomeStart DEF ReadBack
<1>3. HandleValue(r, v) = done
  BY TopValue
<1> HIDE DEF done
<1>4. Takes(r, t, done)
  BY <1>2, <1>3
<1>5. Takes(StartReader, t, done)
  BY <1>1, <1>4, StartTakes
<1> QED BY <1>5 DEF t, done

\* parse returns the value that was dumped.
LEMMA DumpIsWhole ==
  ASSUME NEW v \in Values, NEW q, Reads(StartReader, Dump[v], q)
  PROVE  Complete(q) /\ Result(q) = v
<1> DEFINE t == Dump[v]
           done == Ready("after", <<>>, v)
<1>1. t \in Seq(Byte)
  BY DumpsReadBack DEF ReadBack
<1>2. PICK p : Reads(StartReader, t, p) /\ \A c \in Delimiters : Feed(p, c) = Feed(done, c)
  BY DumpTaken DEF Takes
<1> HIDE DEF t
<1>3. p = q
  <2>1. Reads(StartReader, t, q)
    BY DEF t
  <2> QED BY <1>1, <1>2, <2>1, ReadsOnce
<1>4. Feed(q, EOF) = Ready("done", <<>>, v)
  <2>1. EOF \in Delimiters
    BY DEF Delimiters
  <2> QED BY <1>2, <1>3, <2>1, EndOfInput
<1>5. Ready("done", <<>>, v).wants = "done" /\ Ready("done", <<>>, v).root = v
  BY ReadyFields
<1> QED BY <1>4, <1>5 DEF Complete, Result

\* An array and an object are dumped between brackets, a string between quotation
\* marks.
LEMMA DumpDelimited ==
  ASSUME NEW v \in Values
  PROVE  Delimited(v, Dump[v])
<1>1. \A u \in Values : Nesting[u] < Nesting[v] => ReadBack(Dump[u], u)
  BY DumpsReadBack
<1>2. Delimited(v, Written(Dump, v))
  BY <1>1, WrittenReadsBack
<1> QED BY <1>2, DumpIs

-----------------------------------------------------------------------------
(* A dumped text that is cut *)

\* The whole value has been read, or nothing counts any more.
Over(r) == IsReader(r) /\ Sound(r) /\ (Ended(r) \/ Final(r))

\* It stays so.
LEMMA OverStays ==
  ASSUME NEW r, Over(r), NEW c \in Byte
  PROVE  Over(Feed(r, c))
<1>1. CASE Final(r)
  BY <1>1 DEF Feed
<1>2. CASE Ended(r) /\ ~Final(r)
  <2>1. IsReader(r) /\ Sound(r) /\ r.scan \notin {"start", "bom"} /\ c \in Input
    BY <1>2 DEF Over, Sound, Ended, Final, Input
  <2>2. Follows(r, c, Feed(r, c))
    BY <1>2, <2>1, FeedFollows
  <2>3. IsReader(Feed(r, c)) /\ Sound(Feed(r, c))
    BY <1>2, <2>1, FeedIsReader, FeedKeeps DEF Keeps
  <2> QED BY <2>2, <2>3 DEF Over, Follows, Final
<1> QED BY <1>1, <1>2 DEF Over

\* No bracket or quotation mark ends a text there, unless a terminator did before.
LEMMA NoneBehind ==
  ASSUME NEW r, Over(r), NEW c \in {93, 125, Quote}, Complete(Feed(r, c))
  PROVE  Feed(r, c).wants = "done"
<1> DEFINE s == Feed(r, c)
<1>1. CASE Final(r)
  <2>1. s = r /\ Feed(r, EOF) = r
    BY <1>1 DEF Feed
  <2> QED BY <2>1 DEF Complete
<1>2. CASE Ended(r) /\ ~Final(r)
  <2>1. IsReader(r) /\ Sound(r) /\ r.scan \notin {"start", "bom"} /\ c \in Byte /\ c \in Input
    BY <1>2 DEF Over, Sound, Ended, Final, Input, Byte, Quote
  <2>2. c \notin {0, EOF} /\ c \notin White
    BY DEF EOF, White, Quote
  <2>3. Follows(r, c, s) /\ IsReader(s)
    BY <1>2, <2>1, FeedFollows, FeedIsReader
  <2>4. Complete(s)
    OBVIOUS
  <2> HIDE DEF s
  <2>5. CASE s.wants = "refused"
    <3>1. Feed(s, EOF) = s
      BY <2>5 DEF Feed, Final
    <3> QED BY <2>4, <2>5, <3>1 DEF Complete
  <2>6. CASE Ended(s) /\ s.scan \notin {"start", "bom"} /\ s.scan # "between"
    <3>1. Follows(s, EOF, Feed(s, EOF))
      <4>1. EOF \in Input
        BY DEF Input
      <4> QED BY <2>3, <2>6, <4>1, FeedFollows
    <3> QED BY <2>4, <2>6, <3>1 DEF Follows, Complete, Ended
  <2>7. s.wants = "refused" \/ (Ended(s) /\ s.scan \notin {"start", "bom"} /\ s.scan # "between")
    BY <2>2, <2>3 DEF Follows
  <2> QED BY <2>5, <2>6, <2>7
<1> QED BY <1>1, <1>2 DEF Over

\* A comma behind a whole value is refused.
LEMMA CommaRefused ==
  ASSUME NEW v
  PROVE  Feed(Ready("after", <<>>, v), 44).wants = "refused"
<1> DEFINE r == Ready("after", <<>>, v)
<1>1. Steps(r, 44, Token(r, "comma", Null))
  <2>1. Going("after") /\ 44 \in DOMAIN Structure /\ Structure[44] = "comma"
    BY StructureIs DEF Going
  <2> DEFINE c == 44
  <2>2. Going("after") /\ c \in DOMAIN Structure /\ Structure[c] = "comma"
    BY <2>1
  <2> HIDE DEF c
  <2>3. Steps(r, c, Token(r, Structure[c], Null))
    BY <2>2, ReadsStructure
  <2> QED BY <2>2, <2>3 DEF c
<1>2. r.wants = "after" /\ r.stack = <<>> /\ "wants" \in DOMAIN r
  <2>1. "wants" \in DOMAIN r
    BY DEF Ready, Amid
  <2> QED BY <2>1, ReadyFields
<1> HIDE DEF r
<1>3. Token(r, "comma", Null) = Refuse(r)
  BY <1>2 DEF Token, WantsValue, Inside
<1>4. Refuse(r).wants = "refused"
  BY <1>2 DEF Refuse
<1> QED BY <1>1, <1>3, <1>4 DEF Steps, r

\* In a string that is the whole value.
Quoted(r) ==
  r.stack = <<>> /\ r.wants = "value" /\ r.scan \in {"string", "escape", "hex", "low"}

\* The quotation mark that comes first is closed before the value is whole.
LEMMA QuotedStays ==
  ASSUME NEW r, IsReader(r), Quoted(r), NEW c
  PROVE  LET s == Feed(r, c) IN Quoted(s) \/ Ended(s) \/ Final(s)
<1> DEFINE Fine(s) == Quoted(s) \/ Ended(s) \/ Final(s)
<1>1. ~Final(r)
  BY DEF Quoted, Final
<1>2. Fine(Refuse(r))
  BY RefuseFinal
<1>3. \A rest : Fine(Await(r, "escape", rest)) /\ Fine(Await(r, "hex", rest))
  BY DEF IsReader, Await, Quoted
<1>4. \A rest, t : Fine([r EXCEPT !.rest = rest]) /\ Fine([r EXCEPT !.rest = rest, !.token = t])
  BY DEF IsReader, Quoted
<1>5. \A v : IsFinite(v) => Fine(Deliver(r, "value", v))
  <2> TAKE v
  <2> HAVE IsFinite(v)
  <2> DEFINE s == [r EXCEPT !.scan = "between", !.rest = <<>>, !.token = <<>>]
             p == [s EXCEPT !.root = v, !.wants = "after"]
  <2>1. s.wants = "value" /\ s.stack = <<>>
    BY DEF IsReader, Quoted
  <2>2. p.wants = "after" /\ p.stack = <<>>
    BY DEF IsReader, Quoted
  <2>3. Deliver(r, "value", v) = Token(s, "value", v)
    BY DEF Deliver
  <2> HIDE DEF s
  <2>4. HandleValue(s, v) = p
    BY <2>1 DEF HandleValue
  <2>5. Token(s, "value", v) = HandleValue(s, v)
    BY <2>1 DEF Token, WantsValue, Inside
  <2> HIDE DEF p
  <2> QED BY <2>2, <2>3, <2>4, <2>5 DEF Ended
<1>6. CASE r.scan = "string"
  <2>1. Fine(String(r, c))
    <3>1. IsFinite(<<"string", r.token>>)
      BY FiniteValues DEF Text
    <3> HIDE DEF Fine
    <3> QED BY <1>2, <1>3, <1>4, <1>5, <3>1 DEF String
  <2>2. Feed(r, c) = String(r, c)
    BY <1>1, <1>6 DEF Feed, NumberStates
  <2> QED BY <2>1, <2>2
<1>7. CASE r.scan = "escape"
  <2>1. Fine(Escape(r, c))
    <3>1. \A t : Fine([Await(r, "string", <<>>) EXCEPT !.token = t])
      BY DEF IsReader, Await, Quoted
    <3> HIDE DEF Fine
    <3> QED BY <1>2, <1>3, <3>1 DEF Escape
  <2>2. Feed(r, c) = Escape(r, c)
    BY <1>1, <1>7 DEF Feed, NumberStates
  <2> QED BY <2>1, <2>2
<1>8. CASE r.scan = "low"
  <2>1. Fine(Expect(r, c))
    <3> HIDE DEF Fine
    <3> QED BY <1>2, <1>3, <1>4, <1>8 DEF Expect
  <2>2. Feed(r, c) = Expect(r, c)
    BY <1>1, <1>8 DEF Feed, NumberStates
  <2> QED BY <2>1, <2>2
<1>9. CASE r.scan = "hex"
  <2>1. \A p : Fine(Character(r, p)) /\ Fine(FirstHalf(r, p))
    <3>1. \A t, h : Fine([Await(r, "string", <<>>) EXCEPT !.token = t, !.high = h])
      BY DEF IsReader, Await, Quoted
    <3>2. \A rest, h : Fine([Await(r, "low", rest) EXCEPT !.high = h])
      BY DEF IsReader, Await, Quoted
    <3> HIDE DEF Fine
    <3>3. \A p : Fine(Character(r, p))
      BY <3>1, Zenon DEF Character
    <3>4. \A p : Fine(FirstHalf(r, p))
      BY <3>2, Zenon DEF FirstHalf
    <3> QED BY <3>3, <3>4
  <2>2. \A p : Fine(CodePoint(r, p))
    <3> HIDE DEF Fine
    <3> QED BY <1>2, <2>1 DEF CodePoint
  <2>3. Fine(Hex(r, c))
    <3> HIDE DEF Fine
    <3> QED BY <1>2, <1>4, <2>2 DEF Hex
  <2>4. Feed(r, c) = Hex(r, c)
    BY <1>1, <1>9 DEF Feed, NumberStates
  <2> QED BY <2>3, <2>4
<1> QED BY <1>6, <1>7, <1>8, <1>9 DEF Quoted

\* What has begun with the byte c is still in it, unless it is whole or refused.
Begun(c, r) ==
  /\ IsReader(r) /\ Sound(r)
  /\ IF c = Quote THEN Quoted(r) \/ Over(r) ELSE Bracketed(r)

LEMMA BegunFirst ==
  ASSUME NEW c \in {91, 123, Quote}
  PROVE  Begun(c, Feed(StartReader, c))
<1>1. IsReader(StartReader) /\ Sound(StartReader)
  <2>1. <<>> \in Seq({})
    OBVIOUS
  <2> QED BY <2>1 DEF StartReader, IsReader, Scans, Sound, IsStack
<1>2. c \in Byte
  BY DEF Byte, Quote
<1>3. IsReader(Feed(StartReader, c)) /\ Sound(Feed(StartReader, c))
  BY <1>1, <1>2, FeedIsReader, FeedKeeps DEF Keeps
<1>4. CASE c = Quote
  <2> DEFINE r == Ready("value", <<>>, Null)
             s == Amid("string", <<>>, <<>>, "value", <<>>, Null)
  <2>1. Feed(StartReader, c) = Feed(r, c)
    BY <1>4, StartSame
  <2>2. Feed(r, Quote) = s
    BY ReadsQuote DEF Steps, Going
  <2>3. Quoted(s)
    BY DEF Amid, Quoted
  <2> HIDE DEF r, s
  <2> QED BY <1>3, <1>4, <2>1, <2>2, <2>3 DEF Begun
<1>5. CASE c # Quote
  <2>1. Bracketed(Feed(StartReader, c))
    BY <1>5, Opens
  <2> QED BY <1>3, <1>5, <2>1 DEF Begun
<1> QED BY <1>4, <1>5

LEMMA BegunStays ==
  ASSUME NEW c, NEW r, Begun(c, r), NEW d \in Byte
  PROVE  Begun(c, Feed(r, d))
<1>1. IsReader(r) /\ Sound(r)
  BY DEF Begun
<1>2. IsReader(Feed(r, d)) /\ Keeps(r, Feed(r, d))
  BY <1>1, FeedIsReader, FeedKeeps
<1>3. CASE c # Quote
  BY <1>2, <1>3 DEF Begun, Keeps
<1>4. CASE c = Quote /\ Over(r)
  <2>1. Over(Feed(r, d))
    BY <1>4, OverStays
  <2> QED BY <1>2, <1>4, <2>1 DEF Begun, Keeps
<1>5. CASE c = Quote /\ Quoted(r)
  <2>1. Quoted(Feed(r, d)) \/ Ended(Feed(r, d)) \/ Final(Feed(r, d))
    BY <1>1, <1>5, QuotedStays
  <2> QED BY <1>2, <1>5, <2>1 DEF Begun, Keeps, Over
<1> QED BY <1>3, <1>4, <1>5 DEF Begun

\* So it is a text only when it is whole.
LEMMA BegunWhole ==
  ASSUME NEW c, NEW r, Begun(c, r), Complete(r)
  PROVE  Over(r)
<1>1. IsReader(r) /\ Sound(r)
  BY DEF Begun
<1>2. CASE c # Quote
  <2>1. r.stack = <<>> /\ r.wants \in {"after", "done"}
    BY <1>1, <1>2, CompleteClosed DEF Begun
  <2> QED BY <1>1, <2>1 DEF Over, Ended, Final
<1>3. CASE c = Quote /\ Quoted(r)
  <2>1. ~Final(r) /\ r.scan \in {"string", "escape", "hex", "low"}
    BY <1>3 DEF Quoted, Final
  <2>2. r.scan \in {"start", "between"} \cup NumberStates
    BY <1>1, <2>1, CutToken
  <2> QED BY <2>1, <2>2 DEF NumberStates
<1> QED BY <1>2, <1>3 DEF Begun

\* What has been read of a text that begins so.
LEMMA BegunReading ==
  ASSUME NEW s \in Seq(Byte), s # <<>>, s[1] \in {91, 123, Quote}, NEW p,
         Reads(StartReader, s, p)
  PROVE  Begun(s[1], p)
<1> DEFINE n == Len(s)
           In(r) == Begun(s[1], r)
<1>1. PICK g : IsReading(g, StartReader, s) /\ g[n] = p
  BY DEF Reads
<1>2. n \in Nat /\ n > 0 /\ \A i \in 1 .. n : s[i] \in Byte
  BY EmptySeq
<1>3. g[0] = StartReader /\ \A i \in 1 .. n : g[i] = Feed(g[i - 1], s[i])
  BY <1>1 DEF IsReading
<1> DEFINE Good == {i \in 0 .. n : i > 0 => In(g[i])}
<1>4. 0 \in Good
  BY <1>2
<1>5. ASSUME NEW i \in 1 .. n, i - 1 \in Good PROVE i \in Good
  <2>1. g[i] = Feed(g[i - 1], s[i]) /\ s[i] \in Byte
    BY <1>2, <1>3
  <2>2. CASE i = 1
    <3>1. g[1] = Feed(StartReader, s[1])
      BY <1>3, <2>1, <2>2
    <3>2. In(g[1])
      BY <3>1, BegunFirst
    <3> QED BY <2>2, <3>2
  <2>3. CASE i # 1
    <3>1. In(g[i - 1])
      BY <1>2, <1>5, <2>3
    <3>2. In(g[i])
      BY <2>1, <3>1, BegunStays
    <3> QED BY <3>2
  <2> QED BY <2>2, <2>3
<1>6. n \in Good
  <2> HIDE DEF Good
  <2>1. \A i \in 0 .. n : i \in Good
    BY <1>2, <1>4, <1>5, UpTo
  <2> QED BY <1>2, <2>1
<1> QED BY <1>1, <1>2, <1>6

\* Of an array, an object or a string that is dumped, parse takes no beginning
\* for a text.
LEMMA BeginningRefused ==
  ASSUME NEW v \in Values, v[1] \in {"array", "object", "string"},
         NEW s \in Seq(Byte), NEW t \in Seq(Byte), t # <<>>, Dump[v] = s \o t,
         NEW p, Reads(StartReader, s, p)
  PROVE  ~Complete(p)
<1> SUFFICES ASSUME Complete(p) PROVE FALSE
  OBVIOUS
<1> DEFINE m == Len(s)
           n == Len(t)
           u == Dump[v]
           done == Ready("after", <<>>, v)
<1>1. /\ m \in Nat /\ n \in Nat /\ n > 0 /\ Len(u) = m + n /\ u \in Seq(Byte)
      /\ \A i \in 1 .. m : u[i] = s[i]
  <2>1. n \in Nat /\ n > 0
    BY EmptySeq
  <2>2. Len(s \o t) = m + n /\ s \o t \in Seq(Byte) /\ \A i \in 1 .. m : (s \o t)[i] = s[i]
    OBVIOUS
  <2>3. m \in Nat
    OBVIOUS
  <2> HIDE DEF m, n
  <2> QED BY <2>1, <2>2, <2>3
<1>2. u[1] \in {91, 123, Quote} /\ u[m + n] \in {93, 125, Quote}
  <2>1. Delimited(v, u)
    BY DumpDelimited
  <2> HIDE DEF u, m, n
  <2> QED BY <1>1, <2>1 DEF Delimited, Last
<1>3. Takes(StartReader, u, done)
  BY DumpTaken
<1>4. s # <<>>
  <2> SUFFICES ASSUME s = <<>> PROVE FALSE
    OBVIOUS
  <2>1. p = StartReader
    <3>1. Reads(StartReader, s, StartReader)
      BY ReadsNothing
    <3> QED BY <3>1, ReadsOnce
  <2>2. ~Ended(StartReader)
    BY DEF StartReader, Ended
  <2>3. IsReader(StartReader)
    BY DEF StartReader, IsReader, Scans
  <2>4. Feed(StartReader, EOF) = Between(StartReader, EOF)
    <3> DEFINE r == StartReader
    <3>1. ~Final(r) /\ r.scan = "start" /\ EOF # 239
      BY DEF Final, StartReader, EOF
    <3> HIDE DEF r
    <3>2. \A c : c # 239 => Feed(r, c) = Between(r, c)
      BY <3>1 DEF Feed, NumberStates
    <3> QED BY <3>1, <3>2 DEF r
  <2> QED BY <2>1, <2>2, <2>3, <2>4, EndDone DEF Complete
<1> HIDE DEF done, u
<1>5. PICK q : Reads(StartReader, u, q) /\ \A c \in Delimiters : Feed(q, c) = Feed(done, c)
  BY <1>3 DEF Takes
<1>6. PICK f : IsReading(f, StartReader, u) /\ f[m + n] = q
  BY <1>1, <1>5 DEF Reads
<1>7. f[0] = StartReader /\ \A i \in 1 .. m + n : f[i] = Feed(f[i - 1], u[i])
  BY <1>1, <1>6 DEF IsReading
<1> HIDE DEF n
<1>8. f[m] = p
  <2>1. \A i \in 1 .. m : i \in 1 .. m + n
    BY <1>1
  <2>2. IsReading(f, StartReader, s)
    BY <1>1, <1>7, <2>1 DEF IsReading
  <2>3. Reads(StartReader, s, f[m])
    BY <2>2 DEF Reads
  <2> QED BY <2>3, ReadsOnce
<1>9. Over(p)
  <2>1. s[1] \in {91, 123, Quote}
    BY <1>1, <1>2, <1>4, EmptySeq
  <2>2. Begun(s[1], p)
    BY <1>4, <2>1, BegunReading
  <2> QED BY <2>2, BegunWhole
<1> HIDE DEF m
<1> DEFINE k == n - 1
           Good == {i \in 0 .. k : Over(f[m + i])}
<1>10. k \in Nat /\ k + 1 = n
  BY <1>1
<1> HIDE DEF k
<1>11. 0 \in Good
  <2>1. m + 0 = m
    BY <1>1
  <2> QED BY <1>8, <1>9, <1>10, <2>1
<1>12. ASSUME NEW i \in 1 .. k, i - 1 \in Good PROVE i \in Good
  <2>1. m + i \in 1 .. m + n /\ (m + i) - 1 = m + (i - 1) /\ i \in 0 .. k
    BY <1>1, <1>10
  <2>2. Over(f[m + (i - 1)]) /\ f[m + i] = Feed(f[m + (i - 1)], u[m + i])
    BY <1>7, <1>12, <2>1
  <2>3. u[m + i] \in Byte
    BY <1>1, <2>1
  <2>4. Over(f[m + i])
    BY <2>2, <2>3, OverStays
  <2> QED BY <2>1, <2>4
<1>13. Over(f[m + k])
  <2> HIDE DEF Good
  <2>1. \A i \in 0 .. k : i \in Good
    BY <1>10, <1>11, <1>12, UpTo
  <2>2. k \in Good
    BY <1>10, <2>1
  <2> QED BY <2>2 DEF Good
<1>14. q = Feed(f[m + k], u[m + n])
  <2>1. m + n \in 1 .. m + n /\ (m + n) - 1 = m + k
    BY <1>1, <1>10
  <2> QED BY <1>6, <1>7, <2>1
<1>15. q.wants = "done"
  <2>1. Complete(q)
    <3>1. Reads(StartReader, Dump[v], q)
      BY <1>5 DEF u
    <3> QED BY <3>1, DumpIsWhole
  <2> QED BY <1>2, <1>13, <1>14, <2>1, NoneBehind
<1>16. Feed(q, 44) = Feed(done, 44) /\ Feed(done, 44).wants = "refused"
  <2>1. 44 \in Delimiters
    BY DEF Delimiters
  <2>2. Feed(done, 44).wants = "refused"
    BY CommaRefused DEF done
  <2> QED BY <1>5, <2>1, <2>2
<1>17. Feed(q, 44) = q
  BY <1>15 DEF Feed, Final
<1> QED BY <1>15, <1>16, <1>17
-----------------------------------------------------------------------------
(* The specification *)

\* What has come of a dumped text is a beginning of it, and the reader has read it.
Dumping ==
  origin[1] = "dump" =>
    /\ \E v \in Values :
         /\ origin = <<"dump", v, Dump[v]>>
         /\ \E rest \in Seq(Byte) : Dump[v] = text \o rest
    /\ text \in Seq(Byte)
    /\ Reads(StartReader, text, reader)

LEMMA ReadingInvariant == Spec => []Dumping
<1>1. Init => Dumping
  <2> SUFFICES ASSUME Init, origin[1] = "dump"
               PROVE  /\ \E v \in Values :
                           /\ origin = <<"dump", v, Dump[v]>>
                           /\ \E rest \in Seq(Byte) : Dump[v] = text \o rest
                      /\ text \in Seq(Byte)
                      /\ Reads(StartReader, text, reader)
    BY DEF Dumping
  <2>1. \A start : <<"network", start>>[1] # "dump"
    OBVIOUS
  <2>2. PICK v \in Values : origin = <<"dump", v, Dump[v]>> /\ text = <<>> /\ reader = StartReader
    BY <2>1 DEF Init
  <2>3. Reads(StartReader, <<>>, StartReader)
    BY ReadsNothing
  <2>4. Dump[v] \in Seq(Byte)
    BY DumpsReadBack DEF ReadBack
  <2>5. Dump[v] = <<>> \o Dump[v] /\ <<>> \in Seq(Byte)
    BY <2>4, ConcatEmptySeq
  <2> QED BY <2>2, <2>3, <2>4, <2>5
<1>2. Dumping /\ [Next]_vars => Dumping'
  <2> SUFFICES ASSUME Dumping, [Next]_vars, origin'[1] = "dump"
               PROVE  /\ \E v \in Values :
                           /\ origin' = <<"dump", v, Dump[v]>>
                           /\ \E rest \in Seq(Byte) : Dump[v] = text' \o rest
                      /\ text' \in Seq(Byte)
                      /\ Reads(StartReader, text', reader')
    BY DEF Dumping
  <2>1. CASE FromDump
    <3>1. origin' = origin /\ Len(text) < Len(origin[3]) /\ Arrive(origin[3][Len(text) + 1])
      BY <2>1 DEF FromDump
    <3>2. PICK v \in Values : /\ origin = <<"dump", v, Dump[v]>>
                              /\ \E rest \in Seq(Byte) : Dump[v] = text \o rest
      BY <3>1 DEF Dumping
    <3> DEFINE t == Dump[v]
               c == t[Len(text) + 1]
    <3>3. Len(text) < Len(t) /\ Arrive(c)
      BY <3>1, <3>2
    <3>4. text \in Seq(Byte) /\ Reads(StartReader, text, reader)
      BY <3>1 DEF Dumping
    <3>5. PICK rest \in Seq(Byte) : t = text \o rest
      BY <3>2
    <3>6. rest # <<>> /\ c = Head(rest)
      <4> HIDE DEF t
      <4>1. Len(t) = Len(text) + Len(rest)
        BY <3>4, <3>5
      <4>2. Len(rest) > 0
        BY <3>3, <3>4, <4>1
      <4>3. t[Len(text) + 1] = rest[1]
        BY <3>4, <3>5, <4>2
      <4> QED BY <4>2, <4>3
    <3> HIDE DEF t, c
    <3>7. c \in Byte /\ Tail(rest) \in Seq(Byte)
      BY <3>6
    <3>8. text \o rest = Append(text, c) \o Tail(rest)
      <4> DEFINE one == <<c>>
                 more == Tail(rest)
      <4>1. rest = one \o more /\ one \in Seq(Byte)
        BY <3>6, <3>7
      <4>2. Append(text, c) = text \o one
        BY <3>4, <3>7, AppendIsConcat
      <4>3. more \in Seq(Byte)
        BY <3>7
      <4> HIDE DEF one, more
      <4>4. (text \o one) \o more = text \o (one \o more)
        BY <3>4, <4>1, <4>3, ConcatAssociative
      <4> QED BY <4>1, <4>2, <4>4 DEF more
    <3>9. text' = Append(text, c) /\ reader' = Feed(reader, c)
      BY <3>3 DEF Arrive
    <3>10. Reads(StartReader, Append(text, c), Feed(reader, c)) /\ Append(text, c) \in Seq(Byte)
      BY <3>4, <3>7, ReadsMore
    <3>11. Dump[v] = text' \o Tail(rest)
      BY <3>5, <3>8, <3>9 DEF t
    <3> QED BY <3>1, <3>2, <3>7, <3>9, <3>10, <3>11
  <2>2. CASE FromNetwork
    <3>1. origin' = origin /\ origin[1] = "network"
      BY <2>2 DEF FromNetwork
    <3> QED BY <3>1
  <2>3. CASE UNCHANGED vars
    <3>1. origin' = origin /\ text' = text /\ reader' = reader
      BY <2>3 DEF vars
    <3> QED BY <3>1 DEF Dumping
  <2> QED BY <2>1, <2>2, <2>3 DEF Next
<1> QED BY <1>1, <1>2, PTL DEF Spec

\* A dumped value is read back as the same value (dump and parse of
\* src/src/json.h): whatever value the program sends, the text is whole for the
\* reader when all its bytes have come, and the value read is the one sent.
THEOREM SentIsRead == Spec => []ReadsBack
<1>1. Dumping => ReadsBack
  <2> SUFFICES ASSUME Dumping, origin[1] = "dump", text = origin[3]
               PROVE  Complete(reader) /\ Result(reader) = origin[2]
    BY DEF ReadsBack
  <2>1. PICK v \in Values : origin = <<"dump", v, Dump[v]>>
    BY DEF Dumping
  <2>2. text = Dump[v] /\ origin[2] = v
    BY <2>1
  <2>3. Reads(StartReader, Dump[v], reader)
    BY <2>2 DEF Dumping
  <2> QED BY <2>2, <2>3, DumpIsWhole
<1> QED BY <1>1, ReadingInvariant, PTL

\* Every request is an object, every reply an object or a sentence in quotation
\* marks, and until its last byte has come parse throws (Session::HandleRead,
\* ReadResponse): what a read that is too early or a buffer that is too small cuts
\* off never passes for something shorter.
CutsRefused ==
  origin[1] = "dump" /\ origin[2][1] \in {"array", "object", "string"} /\ text # origin[3] =>
    ~Complete(reader)

\* No array, object or string that is dumped is taken for a text before it is
\* whole, whatever its contents, its length and its nesting.
THEOREM CutsAreRefused == Spec => []CutsRefused
<1>1. Dumping => CutsRefused
  <2> SUFFICES ASSUME Dumping, origin[1] = "dump", origin[2][1] \in {"array", "object", "string"},
                      text # origin[3]
               PROVE  ~Complete(reader)
    BY DEF CutsRefused
  <2>1. PICK v \in Values : /\ origin = <<"dump", v, Dump[v]>>
                            /\ \E rest \in Seq(Byte) : Dump[v] = text \o rest
    BY DEF Dumping
  <2>2. PICK rest \in Seq(Byte) : Dump[v] = text \o rest
    BY <2>1
  <2>3. v[1] \in {"array", "object", "string"} /\ text # Dump[v]
    BY <2>1
  <2>4. text \in Seq(Byte) /\ Reads(StartReader, text, reader)
    BY DEF Dumping
  <2>5. rest # <<>>
    BY <2>2, <2>3, <2>4, ConcatEmptySeq
  <2> QED BY <2>2, <2>3, <2>4, <2>5, BeginningRefused
<1> QED BY <1>1, ReadingInvariant, PTL
=============================================================================
