--------------------------- MODULE ProtocolProofs ---------------------------
(***************************************************************************)
(* What module Protocol promises, for all widths of the integers, all      *)
(* users, names and passwords, and reports of any length.                  *)
(***************************************************************************)
EXTENDS Protocol, SequenceTheorems, FiniteSetTheorems, FunctionTheorems,
        WellFoundedInduction, TLAPS

-----------------------------------------------------------------------------
(* The lists of a report *)

\* A property that fails for some natural number fails for a smallest one.
LEMMA SmallestNumber ==
  ASSUME NEW Bad, Bad \subseteq Nat, Bad # {}
  PROVE  \E m \in Bad : \A k \in Nat : k < m => k \notin Bad
<1>1. PICK n \in Bad : TRUE
  OBVIOUS
<1> DEFINE S == 0 .. n
           Sets == {0 .. m : m \in Bad \cap (0 .. n)}
<1>2. n \in Nat /\ IsFiniteSet(S)
  BY FS_Interval
<1>3. Sets \subseteq FiniteSubsetsOf(S) /\ Sets # {}
  <2>1. 0 .. n \in Sets
    BY <1>2
  <2>2. \A T \in Sets : T \subseteq S
    BY <1>2
  <2> HIDE DEF Sets, S
  <2> QED BY <1>2, <2>1, <2>2, FS_Subset DEF FiniteSubsetsOf
<1>4. PICK T \in Sets : \A U \in Sets : <<U, T>> \notin StrictSubsetOrdering(S)
  <2> HIDE DEF Sets
  <2> QED BY <1>2, <1>3, FS_StrictSubsetOrderingWellFounded, WFMin
<1>5. PICK m \in Bad \cap (0 .. n) : T = 0 .. m
  OBVIOUS
<1>6. ASSUME NEW k \in Nat, k < m, k \in Bad PROVE FALSE
  <2>1. 0 .. k \in Sets
    BY <1>5, <1>6
  <2>2. 0 .. k \subseteq 0 .. m /\ 0 .. k # 0 .. m
    BY <1>5, <1>6
  <2>3. <<0 .. k, T>> \in StrictSubsetOrdering(S)
    BY <1>3, <1>5, <2>1, <2>2 DEF StrictSubsetOrdering, FiniteSubsetsOf
  <2> QED BY <1>4, <2>1, <2>3
<1> QED BY <1>5, <1>6

\* The function that Listed is computed with, on the first n rows.
IsUpTo(f, rows, kinds, kind, n) ==
  f = [i \in 0 .. n |->
         IF i = 0 THEN <<>>
         ELSE IF kinds[i] = kind THEN Append(f[i - 1], rows[i]) ELSE f[i - 1]]

LEMMA UpToExists ==
  ASSUME NEW rows, NEW kinds, NEW kind, NEW n \in Nat
  PROVE  \E f : IsUpTo(f, rows, kinds, kind, n)
<1> DEFINE Bad == {m \in Nat : ~ \E f : IsUpTo(f, rows, kinds, kind, m)}
<1>1. SUFFICES ASSUME Bad # {} PROVE FALSE
  OBVIOUS
<1>2. PICK m \in Bad : \A k \in Nat : k < m => k \notin Bad
  <2> HIDE DEF Bad
  <2> QED BY <1>1, SmallestNumber DEF Bad
<1>3. m # 0
  <2> DEFINE f == [i \in 0 .. 0 |-> <<>>]
  <2>1. IsUpTo(f, rows, kinds, kind, 0)
    BY DEF IsUpTo
  <2> QED BY <2>1
<1>4. m - 1 \in Nat /\ m - 1 < m /\ m \in Nat
  BY <1>3
<1>5. PICK g : IsUpTo(g, rows, kinds, kind, m - 1)
  BY <1>2, <1>4
<1> DEFINE body(i, before) ==
             IF i = 0 THEN <<>>
             ELSE IF kinds[i] = kind THEN Append(before, rows[i]) ELSE before
           f == [i \in 0 .. m |-> IF i = m THEN body(m, g[m - 1]) ELSE g[i]]
<1>6. \A i \in 0 .. m - 1 : g[i] = body(i, g[i - 1])
  BY <1>5, <1>4 DEF IsUpTo
<1>7. ASSUME NEW i \in 0 .. m PROVE f[i] = body(i, f[i - 1])
  <2> HIDE DEF body
  <2>1. CASE i = 0
    BY <2>1, <1>4, <1>6 DEF body
  <2>2. CASE i # 0
    <3>1. f[i - 1] = g[i - 1]
      BY <2>2, <1>4
    <3> QED BY <2>2, <3>1, <1>4, <1>6
  <2> QED BY <2>1, <2>2
<1>8. f = [i \in 0 .. m |-> body(i, f[i - 1])]
  <2>1. [i \in 0 .. m |-> f[i]] = [i \in 0 .. m |-> body(i, f[i - 1])]
    <3> HIDE DEF f, body
    <3> QED BY <1>7
  <2> QED BY <2>1
<1>9. IsUpTo(f, rows, kinds, kind, m)
  BY <1>8 DEF IsUpTo
<1> QED BY <1>9

\* The positions of the rows of one kind, among the first n.
Of(kinds, kind, n) == {k \in 1 .. n : kinds[k] = kind}

\* The list of one kind has each row of that kind once.
LEMMA ListedPositions ==
  ASSUME NEW S, NEW rows \in Seq(S), NEW kinds, NEW kind
  PROVE  \E list \in Seq(S) :
           /\ Listed(rows, kinds, kind) = Array(list)
           /\ \E pos \in Bijection(1 .. Len(list), Of(kinds, kind, Len(rows))) :
                \A i \in 1 .. Len(list) : list[i] = rows[pos[i]]
<1> DEFINE n == Len(rows)
           upTo == CHOOSE f : IsUpTo(f, rows, kinds, kind, n)
           Good(m) ==
             /\ upTo[m] \in Seq(S)
             /\ \E pos \in Bijection(1 .. Len(upTo[m]), Of(kinds, kind, m)) :
                  \A i \in 1 .. Len(upTo[m]) : upTo[m][i] = rows[pos[i]]
           Bad == {m \in 0 .. n : ~ Good(m)}
<1>1. n \in Nat
  BY LenProperties
<1>2. Listed(rows, kinds, kind) = Array(upTo[n])
  BY DEF Listed, IsUpTo
<1>3. IsUpTo(upTo, rows, kinds, kind, n)
  <2>1. \E f : IsUpTo(f, rows, kinds, kind, n)
    BY <1>1, UpToExists
  <2> QED BY <2>1
<1> HIDE DEF upTo
<1>4. \A i \in 0 .. n :
        upTo[i] = IF i = 0 THEN <<>>
                  ELSE IF kinds[i] = kind THEN Append(upTo[i - 1], rows[i]) ELSE upTo[i - 1]
  BY <1>1, <1>3 DEF IsUpTo
<1>5. SUFFICES ASSUME Bad # {} PROVE FALSE
  <2>1. n \notin Bad
    BY <1>5
  <2>2. Good(n)
    BY <1>1, <2>1
  <2> QED BY <1>2, <2>2
<1>6. PICK m \in Bad : \A k \in Nat : k < m => k \notin Bad
  <2>1. Bad \subseteq Nat
    BY <1>1
  <2> HIDE DEF Bad
  <2> QED BY <1>5, <2>1, SmallestNumber
<1>7. m \in 0 .. n /\ ~ Good(m)
  OBVIOUS
<1>8. CASE m = 0
  <2>1. upTo[0] = <<>>
    BY <1>1, <1>4
  <2>2. Len(upTo[0]) = 0 /\ upTo[0] \in Seq(S)
    BY <2>1, EmptySeq
  <2>3. 1 .. 0 = {} /\ Of(kinds, kind, 0) = {}
    BY DEF Of
  <2>4. [x \in {} |-> x] \in Bijection({}, {})
    BY DEF Bijection, Injection, Surjection, IsInjective
  <2>5. Good(0)
    BY <2>2, <2>3, <2>4
  <2> QED BY <1>7, <1>8, <2>5
<1>9. CASE m # 0
  <2>1. m \in 1 .. n /\ m - 1 \in 0 .. n /\ m - 1 \in Nat /\ m - 1 < m
    BY <1>1, <1>7, <1>9
  <2>2. Good(m - 1)
    BY <1>6, <2>1
  <2> DEFINE old == upTo[m - 1]
             l == Len(old)
  <2>3. old \in Seq(S) /\ l \in Nat
    BY <2>2, LenProperties
  <2>4. PICK pos \in Bijection(1 .. l, Of(kinds, kind, m - 1)) :
          \A i \in 1 .. l : old[i] = rows[pos[i]]
    BY <2>2
  <2>5. CASE kinds[m] # kind
    <3>1. upTo[m] = old
      BY <1>4, <1>7, <1>9, <2>5
    <3>2. Of(kinds, kind, m) = Of(kinds, kind, m - 1)
      BY <2>1, <2>5 DEF Of
    <3>3. Good(m)
      BY <2>2, <3>1, <3>2
    <3> QED BY <1>7, <3>3
  <2>6. CASE kinds[m] = kind
    <3>1. upTo[m] = Append(old, rows[m])
      BY <1>4, <1>7, <1>9, <2>6
    <3>2. rows[m] \in S
      BY <2>1, ElementOfSeq
    <3>3. /\ upTo[m] \in Seq(S) /\ Len(upTo[m]) = l + 1
          /\ \A i \in 1 .. l : upTo[m][i] = old[i]
          /\ upTo[m][l + 1] = rows[m]
      BY <2>3, <3>1, <3>2, AppendProperties
    <3> DEFINE new == [i \in 1 .. l + 1 |-> IF i = l + 1 THEN m ELSE pos[i]]
    <3>4. /\ Of(kinds, kind, m) = Of(kinds, kind, m - 1) \cup {m}
          /\ m \notin Of(kinds, kind, m - 1)
      BY <2>1, <2>6 DEF Of
    <3>5. /\ pos \in [1 .. l -> Of(kinds, kind, m - 1)]
          /\ \A i, j \in 1 .. l : pos[i] = pos[j] => i = j
          /\ \A k \in Of(kinds, kind, m - 1) : \E i \in 1 .. l : pos[i] = k
      BY DEF Bijection, Injection, Surjection, IsInjective
    <3> HIDE DEF l, old
    <3>6. new \in [1 .. l + 1 -> Of(kinds, kind, m)]
      BY <2>3, <3>4, <3>5
    <3>7. \A i, j \in 1 .. l + 1 : new[i] = new[j] => i = j
      BY <2>3, <3>4, <3>5
    <3>8. \A k \in Of(kinds, kind, m) : \E i \in 1 .. l + 1 : new[i] = k
      BY <2>3, <3>4, <3>5
    <3>9. new \in Bijection(1 .. l + 1, Of(kinds, kind, m))
      <4> HIDE DEF new
      <4> QED BY <3>6, <3>7, <3>8 DEF Bijection, Injection, Surjection, IsInjective
    <3>10. \A i \in 1 .. l + 1 : upTo[m][i] = rows[new[i]]
      BY <2>3, <2>4, <3>3
    <3>11. Good(m)
      <4> HIDE DEF new
      <4> QED BY <3>3, <3>9, <3>10
    <3> QED BY <1>7, <3>11
  <2> QED BY <2>5, <2>6
<1> QED BY <1>8, <1>9

\* A list with each chosen row once has the columns of the chosen rows, each as
\* often as it is theirs.
LEMMA TellsChosen ==
  ASSUME NEW T, NEW shownRows \in Seq(T), NEW columns, NEW chosen,
         NEW pos \in Bijection(1 .. Len(shownRows), chosen),
         \A i \in 1 .. Len(shownRows) : shownRows[i] = columns[pos[i]]
  PROVE  Tells(Array(shownRows), columns, chosen)
<1> DEFINE l == Len(shownRows)
           here(w) == {j \in 1 .. l : shownRows[j] = w}
           there(w) == {k \in chosen : columns[k] = w}
<1>1. l \in Nat /\ DOMAIN shownRows = 1 .. l
  BY LenProperties
<1>2. IsFiniteSet(1 .. l) /\ Cardinality(1 .. l) = l
  <2> HIDE DEF l
  <2>1. IsFiniteSet(1 .. l) /\ Cardinality(1 .. l) = IF 1 > l THEN 0 ELSE l - 1 + 1
    BY <1>1, FS_Interval
  <2> QED BY <1>1, <2>1
<1>3. Cardinality(chosen) = l
  BY <1>2, FS_Bijection DEF ExistsBijection
<1>4. /\ pos \in [1 .. l -> chosen]
      /\ \A i, j \in 1 .. l : pos[i] = pos[j] => i = j
      /\ \A k \in chosen : \E i \in 1 .. l : pos[i] = k
  BY DEF Bijection, Injection, Surjection, IsInjective
<1> HIDE DEF l
<1>5. ASSUME NEW w PROVE Cardinality(here(w)) = Cardinality(there(w))
  <2> DEFINE part == [j \in here(w) |-> pos[j]]
  <2>1. part \in [here(w) -> there(w)]
    BY <1>4 DEF l
  <2>2. \A i, j \in here(w) : part[i] = part[j] => i = j
    BY <1>4
  <2>3. \A k \in there(w) : \E i \in here(w) : part[i] = k
    BY <1>4 DEF l
  <2>4. part \in Bijection(here(w), there(w))
    <3> HIDE DEF part, here, there
    <3> QED BY <2>1, <2>2, <2>3 DEF Bijection, Injection, Surjection, IsInjective
  <2>5. IsFiniteSet(here(w))
    BY <1>2, FS_Subset
  <2> HIDE DEF here, there
  <2> QED BY <2>4, <2>5, FS_Bijection DEF ExistsBijection
<1>6. Array(shownRows)[2] = shownRows
  BY DEF Array
<1> HIDE DEF here, there
<1>7. Len(shownRows) = Cardinality(chosen) /\ DOMAIN shownRows = 1 .. l
  BY <1>1, <1>3 DEF l
<1>8. \A i \in DOMAIN shownRows :
        Cardinality({j \in DOMAIN shownRows : shownRows[j] = shownRows[i]})
          = Cardinality({k \in chosen : columns[k] = shownRows[i]})
  BY <1>5, <1>7 DEF here, there
<1> QED BY <1>6, <1>7, <1>8 DEF Tells

-----------------------------------------------------------------------------
(* Short tuples *)

LEMMA FunctionIsSeq ==
  ASSUME NEW n \in Nat, NEW S, NEW f \in [1 .. n -> S]
  PROVE  f \in Seq(S) /\ Len(f) = n
<1>1. f \in Seq(S)
  BY SeqDef
<1> QED BY <1>1, LenProperties

LEMMA Prefixed ==
  ASSUME NEW T, NEW a \in T, NEW f \in Seq(T), NEW g \in Seq(T),
         Len(g) = Len(f) + 1, g[1] = a, \A i \in 1 .. Len(f) : g[i + 1] = f[i]
  PROVE  <<a>> \o f = g
<1>1. <<a>> \in Seq(T) /\ Len(<<a>>) = 1 /\ <<a>>[1] = a
  OBVIOUS
<1>2. Len(f) \in Nat
  BY LenProperties
<1>3. /\ <<a>> \o f \in Seq(T)
      /\ Len(<<a>> \o f) = Len(f) + 1
      /\ \A i \in 1 .. Len(f) + 1 : (<<a>> \o f)[i] = IF i <= 1 THEN <<a>>[i] ELSE f[i - 1]
  <2>1. Len(<<a>>) + Len(f) = Len(f) + 1
    BY <1>1, <1>2
  <2> QED BY <1>1, <2>1, ConcatProperties
<1>4. ASSUME NEW i \in 1 .. Len(f) + 1 PROVE (<<a>> \o f)[i] = g[i]
  <2>1. CASE i = 1
    BY <1>1, <1>3, <2>1
  <2>2. CASE i # 1
    <3>1. ~(i <= 1) /\ i - 1 \in 1 .. Len(f) /\ (i - 1) + 1 = i
      BY <1>2, <2>2
    <3>2. (<<a>> \o f)[i] = f[i - 1]
      BY <1>3, <3>1
    <3> QED BY <3>1, <3>2
  <2> QED BY <2>1, <2>2
<1> QED BY <1>3, <1>4, SeqEqual

LEMMA Appended ==
  ASSUME NEW T, NEW a \in T, NEW f \in Seq(T), NEW g \in Seq(T),
         Len(g) = Len(f) + 1, g[Len(f) + 1] = a, \A i \in 1 .. Len(f) : g[i] = f[i]
  PROVE  Append(f, a) = g
<1>1. Len(f) \in Nat
  BY LenProperties
<1>2. /\ Append(f, a) \in Seq(T)
      /\ Len(Append(f, a)) = Len(f) + 1
      /\ \A i \in 1 .. Len(f) : Append(f, a)[i] = f[i]
      /\ Append(f, a)[Len(f) + 1] = a
  BY AppendProperties
<1>3. ASSUME NEW i \in 1 .. Len(f) + 1 PROVE Append(f, a)[i] = g[i]
  <2>1. CASE i = Len(f) + 1
    BY <1>2, <2>1
  <2>2. CASE i # Len(f) + 1
    <3>1. i \in 1 .. Len(f)
      BY <1>1, <2>2
    <3> QED BY <1>2, <3>1
  <2> QED BY <2>1, <2>2
<1> QED BY <1>2, <1>3, SeqEqual

LEMMA TypedMore ==
  ASSUME NEW a, NEW b, NEW c, NEW d
  PROVE  /\ Append(<<>>, a) = <<a>>
         /\ Append(<<a>>, b) = <<a, b>>
         /\ Append(<<a, b>>, c) = <<a, b, c>>
         /\ <<a>> \o <<b, c>> = <<a, b, c>>
         /\ <<a>> \o <<b, c, d>> = <<a, b, c, d>>
<1> DEFINE T == {a, b, c, d}
<1>1. a \in T /\ b \in T /\ c \in T /\ d \in T
  OBVIOUS
<1>2. <<>> \in Seq(T) /\ <<a>> \in Seq(T) /\ <<a, b>> \in Seq(T) /\ <<b, c>> \in Seq(T)
  OBVIOUS
<1>3. <<a, b, c>> \in Seq(T) /\ <<b, c, d>> \in Seq(T) /\ <<a, b, c, d>> \in Seq(T)
  OBVIOUS
<1> HIDE DEF T
<1>4. Append(<<>>, a) = <<a>>
  <2>1. Len(<<a>>) = Len(<<>>) + 1 /\ <<a>>[Len(<<>>) + 1] = a
    OBVIOUS
  <2>2. \A i \in 1 .. Len(<<>>) : <<a>>[i] = <<>>[i]
    OBVIOUS
  <2> QED BY <1>1, <1>2, <2>1, <2>2, Appended
<1>5. Append(<<a>>, b) = <<a, b>>
  <2>1. Len(<<a, b>>) = Len(<<a>>) + 1 /\ <<a, b>>[Len(<<a>>) + 1] = b
    OBVIOUS
  <2>2. \A i \in 1 .. Len(<<a>>) : <<a, b>>[i] = <<a>>[i]
    OBVIOUS
  <2> QED BY <1>1, <1>2, <2>1, <2>2, Appended
<1>6. Append(<<a, b>>, c) = <<a, b, c>>
  <2>1. Len(<<a, b, c>>) = Len(<<a, b>>) + 1 /\ <<a, b, c>>[Len(<<a, b>>) + 1] = c
    OBVIOUS
  <2>2. \A i \in 1 .. Len(<<a, b>>) : <<a, b, c>>[i] = <<a, b>>[i]
    OBVIOUS
  <2> QED BY <1>1, <1>2, <1>3, <2>1, <2>2, Appended
<1>7. <<a>> \o <<b, c>> = <<a, b, c>>
  <2>1. Len(<<a, b, c>>) = Len(<<b, c>>) + 1 /\ <<a, b, c>>[1] = a
    OBVIOUS
  <2>2. \A i \in 1 .. Len(<<b, c>>) : <<a, b, c>>[i + 1] = <<b, c>>[i]
    OBVIOUS
  <2> QED BY <1>1, <1>2, <1>3, <2>1, <2>2, Prefixed
<1>8. <<a>> \o <<b, c, d>> = <<a, b, c, d>>
  <2>1. Len(<<a, b, c, d>>) = Len(<<b, c, d>>) + 1 /\ <<a, b, c, d>>[1] = a
    OBVIOUS
  <2>2. \A i \in 1 .. Len(<<b, c, d>>) : <<a, b, c, d>>[i + 1] = <<b, c, d>>[i]
    OBVIOUS
  <2> QED BY <1>1, <1>3, <2>1, <2>2, Prefixed
<1> QED BY <1>4, <1>5, <1>6, <1>7, <1>8

LEMMA TypedFourth ==
  ASSUME NEW a, NEW b, NEW c, NEW d
  PROVE  Append(<<a, b, c>>, d) = <<a, b, c, d>>
<1> DEFINE T == {a, b, c, d}
<1>1. d \in T /\ <<a, b, c>> \in Seq(T) /\ <<a, b, c, d>> \in Seq(T)
  OBVIOUS
<1> HIDE DEF T
<1>2. Len(<<a, b, c, d>>) = Len(<<a, b, c>>) + 1 /\ <<a, b, c, d>>[Len(<<a, b, c>>) + 1] = d
  OBVIOUS
<1>3. \A i \in 1 .. Len(<<a, b, c>>) : <<a, b, c, d>>[i] = <<a, b, c>>[i]
  OBVIOUS
<1> QED BY <1>1, <1>2, <1>3, Appended

\* A call whose conversions succeed has their results as arguments.
LEMMA Called ==
  ASSUME NEW op, NEW T, NEW arguments \in Seq(T), NEW U, NEW c \in Seq(U), op \in U,
         Len(c) = Len(arguments) + 1, c[1] = op,
         \A i \in 1 .. Len(arguments) : arguments[i] # Throw /\ c[i + 1] = arguments[i][2]
  PROVE  Calling(op, arguments) = c
<1> DEFINE n == Len(arguments)
           f == [i \in DOMAIN arguments |-> arguments[i][2]]
<1>1. n \in Nat /\ DOMAIN arguments = 1 .. n
  BY LenProperties
<1>2. Calling(op, arguments) = <<op>> \o f
  BY <1>1 DEF Calling
<1>3. \A i \in 1 .. n : c[i + 1] \in U
  <2>1. \A i \in 1 .. n : i + 1 \in 1 .. Len(c)
    BY <1>1
  <2> QED BY <2>1, ElementOfSeq
<1>4. f \in [1 .. n -> U] /\ \A i \in 1 .. n : f[i] = c[i + 1]
  BY <1>1, <1>3
<1> HIDE DEF f, n
<1>5. f \in Seq(U) /\ Len(f) = n
  BY <1>1, <1>4, FunctionIsSeq
<1>6. <<op>> \o f = c
  BY <1>4, <1>5, Prefixed DEF n
<1> QED BY <1>2, <1>6

LEMMA Called0 == ASSUME NEW op PROVE Calling(op, <<>>) = <<op>>
<1> DEFINE T == {op}  U == {op}
           arguments == <<>>
           c == <<op>>
<1>1. arguments \in Seq(T) /\ c \in Seq(U) /\ op \in U
  OBVIOUS
<1>2. Len(c) = Len(arguments) + 1 /\ c[1] = op
  OBVIOUS
<1>3. \A i \in 1 .. Len(arguments) : arguments[i] # Throw /\ c[i + 1] = arguments[i][2]
  OBVIOUS
<1> HIDE DEF T, U, arguments, c
<1>4. Calling(op, arguments) = c
  BY <1>1, <1>2, <1>3, Called
<1> QED BY <1>4 DEF arguments, c

LEMMA Called1 ==
  ASSUME NEW op, NEW v, NEW A, v # Throw, v[2] = A
  PROVE  Calling(op, <<v>>) = <<op, A>>
<1> DEFINE T == {v}  U == {op, A}
           arguments == <<v>>
           c == <<op, A>>
<1>1. arguments \in Seq(T) /\ c \in Seq(U) /\ op \in U
  OBVIOUS
<1>2. Len(c) = Len(arguments) + 1 /\ c[1] = op
  OBVIOUS
<1>3. \A i \in 1 .. Len(arguments) : arguments[i] # Throw /\ c[i + 1] = arguments[i][2]
  OBVIOUS
<1> HIDE DEF T, U, arguments, c
<1>4. Calling(op, arguments) = c
  BY <1>1, <1>2, <1>3, Called
<1> QED BY <1>4 DEF arguments, c

LEMMA Called2 ==
  ASSUME NEW op, NEW v, NEW A, v # Throw, v[2] = A, NEW w, NEW B, w # Throw, w[2] = B
  PROVE  Calling(op, <<v, w>>) = <<op, A, B>>
<1> DEFINE T == {v, w}  U == {op, A, B}
           arguments == <<v, w>>
           c == <<op, A, B>>
<1>1. arguments \in Seq(T) /\ c \in Seq(U) /\ op \in U
  OBVIOUS
<1>2. Len(c) = Len(arguments) + 1 /\ c[1] = op
  OBVIOUS
<1>3. \A i \in 1 .. Len(arguments) : arguments[i] # Throw /\ c[i + 1] = arguments[i][2]
  OBVIOUS
<1> HIDE DEF T, U, arguments, c
<1>4. Calling(op, arguments) = c
  BY <1>1, <1>2, <1>3, Called
<1> QED BY <1>4 DEF arguments, c

LEMMA Called4 ==
  ASSUME NEW op, NEW v, NEW A, v # Throw, v[2] = A, NEW w, NEW B, w # Throw, w[2] = B,
                 NEW x, NEW C, x # Throw, x[2] = C, NEW y, NEW D, y # Throw, y[2] = D
  PROVE  Calling(op, <<v, w, x, y>>) = <<op, A, B, C, D>>
<1> DEFINE T == {v, w, x, y}  U == {op, A, B, C, D}
           arguments == <<v, w, x, y>>
           c == <<op, A, B, C, D>>
<1>1. arguments \in Seq(T) /\ c \in Seq(U) /\ op \in U
  OBVIOUS
<1>2. Len(c) = Len(arguments) + 1 /\ c[1] = op
  OBVIOUS
<1>3. \A i \in 1 .. Len(arguments) : arguments[i] # Throw /\ c[i + 1] = arguments[i][2]
  OBVIOUS
<1> HIDE DEF T, U, arguments, c
<1>4. Calling(op, arguments) = c
  BY <1>1, <1>2, <1>3, Called
<1> QED BY <1>4 DEF arguments, c

-----------------------------------------------------------------------------
(* From a request to the call *)

\* What Send puts on its way.
Message(type, fields) ==
  Object([k \in DOMAIN fields \cup {"TYPE"} |->
            IF k = "TYPE" THEN Text(type) ELSE fields[k]])

LEMMA MessageFields ==
  ASSUME NEW type, NEW fields, "TYPE" \notin DOMAIN fields
  PROVE  /\ Subscript(Message(type, fields), "TYPE") = Text(type)
         /\ \A k \in DOMAIN fields : /\ Subscript(Message(type, fields), k) = fields[k]
                                     /\ At(Message(type, fields), k) = fields[k]
BY DEF Message, Object, Subscript, At, Is

\* An id, a hash and a price keep their value in the types of the server.
LEMMA Converted ==
  /\ \A u \in UInt64 : ToUnsigned(Integer(u), LongRange) = Integer(u)
  /\ \A n \in Int32 : ToSigned(Integer(n), IntRange) = Integer(n)
  /\ \A n \in 0 .. IntRange - 1 : n \in UInt64
  /\ \A n \in Int32 : n \in Int
<1>1. IntRange \in Nat /\ LongRange \in Nat /\ IntRange <= LongRange
  BY ProtocolAssumption
<1>2. ASSUME NEW u \in UInt64 PROVE ToUnsigned(Integer(u), LongRange) = Integer(u)
  <2>1. u % (2 * LongRange) = u
    BY <1>1 DEF UInt64
  <2> QED BY <2>1 DEF ToUnsigned, Integer, Is
<1>3. ASSUME NEW n \in Int32 PROVE ToSigned(Integer(n), IntRange) = Integer(n)
  <2>1. /\ n \in Int /\ n + IntRange \in Nat /\ n + IntRange < 2 * IntRange
        /\ 2 * IntRange \in Nat
    BY <1>1 DEF Int32
  <2>2. (n + IntRange) % (2 * IntRange) = n + IntRange
    BY <2>1
  <2>3. ((n + IntRange) % (2 * IntRange)) - IntRange = n
    BY <1>1, <2>1, <2>2
  <2> QED BY <2>3 DEF ToSigned, Integer, Is
<1> QED BY <1>1, <1>2, <1>3 DEF UInt64, Int32

\* A value is no exception.
LEMMA NoThrow ==
  /\ \A n : Integer(n) # Throw /\ Text(n) # Throw /\ Boolean(n) # Throw
  /\ \A n : Integer(n)[2] = n /\ Text(n)[2] = n
  /\ Null # Throw
BY DEF Integer, Text, Boolean, Null, Throw

LEMMA CredentialsArrive ==
  ASSUME NEW name, NEW h \in UInt64
  PROVE  LET fields == [USERNAME |-> Text(name), PW_HASH |-> Integer(h)]
         IN /\ Dispatch(Message("Reg", fields)) = <<"RegisterUser", name, h>>
            /\ Dispatch(Message("Log", fields)) = <<"Login", name, h>>
<1> DEFINE fields == [USERNAME |-> Text(name), PW_HASH |-> Integer(h)]
           calling(op) == Calling(op, <<Text(name), Integer(h)>>)
<1>1. /\ DOMAIN fields = {"USERNAME", "PW_HASH"} /\ "TYPE" \notin DOMAIN fields
      /\ fields["USERNAME"] = Text(name) /\ fields["PW_HASH"] = Integer(h)
  OBVIOUS
<1> HIDE DEF fields
<1>2. ASSUME NEW type
      PROVE  /\ Subscript(Message(type, fields), "TYPE") = Text(type)
             /\ ToText(Subscript(Message(type, fields), "USERNAME")) = Text(name)
             /\ ToUnsigned(Subscript(Message(type, fields), "PW_HASH"), LongRange) = Integer(h)
  <2>1. /\ Subscript(Message(type, fields), "TYPE") = Text(type)
        /\ Subscript(Message(type, fields), "USERNAME") = Text(name)
        /\ Subscript(Message(type, fields), "PW_HASH") = Integer(h)
    BY <1>1, MessageFields
  <2>2. ToText(Text(name)) = Text(name)
    BY DEF ToText, Text, Is
  <2> QED BY <2>1, <2>2, Converted
<1>3. ASSUME NEW op PROVE calling(op) = <<op, name, h>>
  BY NoThrow, Called2
<1> HIDE DEF calling
<1>4. Dispatch(Message("Reg", fields)) = calling("RegisterUser")
  BY <1>2 DEF Dispatch, Text, calling
<1>5. Dispatch(Message("Log", fields)) = calling("Login")
  BY <1>2 DEF Dispatch, Text, calling
<1> QED BY <1>3, <1>4, <1>5 DEF fields

LEMMA QuestionArrives ==
  ASSUME NEW u \in UInt64
  PROVE  LET fields == [USER_ID |-> Integer(u)]
         IN /\ Dispatch(Message("Quotes", fields)) = <<"GetQuotes">>
            /\ Dispatch(Message("Balance", fields)) = <<"GetBalance", u>>
            /\ Dispatch(Message("Active", fields)) = <<"GetActiveOffers", u>>
            /\ Dispatch(Message("Deal", fields)) = <<"GetClosedDeals", u>>
<1> DEFINE fields == [USER_ID |-> Integer(u)]
           calling(op) == Calling(op, <<Integer(u)>>)
<1>1. /\ DOMAIN fields = {"USER_ID"} /\ "TYPE" \notin DOMAIN fields
      /\ fields["USER_ID"] = Integer(u)
  OBVIOUS
<1> HIDE DEF fields
<1>2. ASSUME NEW type
      PROVE  /\ Subscript(Message(type, fields), "TYPE") = Text(type)
             /\ ToUnsigned(Subscript(Message(type, fields), "USER_ID"), LongRange) = Integer(u)
  BY <1>1, MessageFields, Converted
<1>3. ASSUME NEW op PROVE calling(op) = <<op, u>>
  BY NoThrow, Called1
<1> HIDE DEF calling
<1>4. Dispatch(Message("Quotes", fields)) = Calling("GetQuotes", <<>>)
  BY <1>2 DEF Dispatch, Text
<1>5. Dispatch(Message("Balance", fields)) = calling("GetBalance")
  BY <1>2 DEF Dispatch, Text, calling
<1>6. Dispatch(Message("Active", fields)) = calling("GetActiveOffers")
  BY <1>2 DEF Dispatch, Text, calling
<1>7. Dispatch(Message("Deal", fields)) = calling("GetClosedDeals")
  BY <1>2 DEF Dispatch, Text, calling
<1> QED BY <1>3, <1>4, <1>5, <1>6, <1>7, Called0 DEF fields

LEMMA PostArrives ==
  ASSUME NEW u \in UInt64, NEW side \in {"BUY", "SELL"},
         NEW amount \in 1 .. IntRange - 1, NEW price \in Int32
  PROVE  Dispatch(Message("PostOffer",
                          [USER_ID |-> Integer(u), OFFER_SIDE |-> Text(side),
                           AMOUNT |-> Integer(amount), PRICE |-> Integer(price)]))
           = <<"PostOffer", u, side, price, amount>>
<1> DEFINE fields == [USER_ID |-> Integer(u), OFFER_SIDE |-> Text(side),
                      AMOUNT |-> Integer(amount), PRICE |-> Integer(price)]
           r == Message("PostOffer", fields)
           called == Calling("PostOffer", <<Integer(u), Text(side), Integer(price), Integer(amount)>>)
<1>1. /\ DOMAIN fields = {"USER_ID", "OFFER_SIDE", "AMOUNT", "PRICE"}
      /\ fields["USER_ID"] = Integer(u) /\ fields["OFFER_SIDE"] = Text(side)
      /\ fields["AMOUNT"] = Integer(amount) /\ fields["PRICE"] = Integer(price)
  OBVIOUS
<1> HIDE DEF fields
<1>2. /\ Subscript(r, "TYPE") = Text("PostOffer")
      /\ At(r, "USER_ID") = Integer(u) /\ At(r, "OFFER_SIDE") = Text(side)
      /\ At(r, "AMOUNT") = Integer(amount) /\ At(r, "PRICE") = Integer(price)
  BY <1>1, MessageFields
<1> HIDE DEF r
<1>3. /\ ToUnsigned(At(r, "USER_ID"), LongRange) = Integer(u)
      /\ ToUnsigned(At(r, "AMOUNT"), LongRange) = Integer(amount)
      /\ ToSigned(At(r, "PRICE"), IntRange) = Integer(price)
  <2>1. amount \in UInt64
    <3>1. IntRange \in Nat
      BY ProtocolAssumption
    <3>2. amount \in 0 .. IntRange - 1
      BY <3>1
    <3> QED BY <3>2, Converted
  <2> QED BY <1>2, <2>1, Converted
<1>4. OfferSide(r) = Text(side)
  BY <1>2, NoThrow DEF OfferSide, Text
<1>5. called = <<"PostOffer", u, side, price, amount>>
  BY NoThrow, Called4
<1> HIDE DEF called
<1>6. Dispatch(r) = called
  BY <1>2, <1>3, <1>4 DEF Dispatch, Text, called
<1> QED BY <1>5, <1>6 DEF r, fields

LEMMA CancelArrives ==
  ASSUME NEW u \in UInt64, NEW o \in UInt64
  PROVE  Dispatch(Message("Cancel", [USER_ID |-> Integer(u), OFFER_ID |-> Integer(o)]))
           = <<"CancelOffer", u, o>>
<1> DEFINE fields == [USER_ID |-> Integer(u), OFFER_ID |-> Integer(o)]
           r == Message("Cancel", fields)
           called == Calling("CancelOffer", <<Integer(u), Integer(o)>>)
<1>1. /\ DOMAIN fields = {"USER_ID", "OFFER_ID"}
      /\ fields["USER_ID"] = Integer(u) /\ fields["OFFER_ID"] = Integer(o)
  OBVIOUS
<1> HIDE DEF fields
<1>2. /\ Subscript(r, "TYPE") = Text("Cancel")
      /\ At(r, "USER_ID") = Integer(u) /\ At(r, "OFFER_ID") = Integer(o)
  BY <1>1, MessageFields
<1> HIDE DEF r
<1>3. /\ ToUnsigned(At(r, "USER_ID"), LongRange) = Integer(u)
      /\ ToUnsigned(At(r, "OFFER_ID"), LongRange) = Integer(o)
  BY <1>2, Converted
<1>4. called = <<"CancelOffer", u, o>>
  BY NoThrow, Called2
<1> HIDE DEF called
<1>5. Dispatch(r) = called
  BY <1>2, <1>3 DEF Dispatch, Text, called
<1> QED BY <1>4, <1>5 DEF r, fields

-----------------------------------------------------------------------------
(* From an answer to what is printed *)

\* A list of the reply is printed, and tells the rows it was made of.
LEMMA RowsTell ==
  ASSUME NEW S, NEW rows \in Seq(S), NEW kinds, NEW kind, NEW keys, NEW columns,
         \A k \in 1 .. Len(rows) :
           /\ columns[k] = [j \in DOMAIN keys |-> At(rows[k], keys[j])]
           /\ \A j \in DOMAIN keys : At(rows[k], keys[j]) # Throw
  PROVE  /\ Rows(Listed(rows, kinds, kind), keys) # Throw
         /\ Tells(Rows(Listed(rows, kinds, kind), keys), columns, Of(kinds, kind, Len(rows)))
<1>1. PICK list \in Seq(S) :
        /\ Listed(rows, kinds, kind) = Array(list)
        /\ \E pos \in Bijection(1 .. Len(list), Of(kinds, kind, Len(rows))) :
             \A i \in 1 .. Len(list) : list[i] = rows[pos[i]]
  BY ListedPositions
<1>2. PICK pos \in Bijection(1 .. Len(list), Of(kinds, kind, Len(rows))) :
        \A i \in 1 .. Len(list) : list[i] = rows[pos[i]]
  BY <1>1
<1> DEFINE n == Len(list)
           row(v) == [j \in DOMAIN keys |-> At(v, keys[j])]
           printed == [i \in 1 .. n |-> row(list[i])]
           T == {columns[k] : k \in 1 .. Len(rows)}
<1>3. n \in Nat /\ DOMAIN list = 1 .. n
  BY LenProperties
<1>4. \A i \in 1 .. n : pos[i] \in 1 .. Len(rows)
  BY <1>2 DEF Bijection, Injection, Of
<1> HIDE DEF n
<1>5. \A i \in 1 .. n : list[i] = rows[pos[i]] /\ row(list[i]) = columns[pos[i]]
  BY <1>2, <1>4 DEF n
<1>6. ASSUME NEW i \in 1 .. n, NEW j \in DOMAIN keys PROVE row(list[i])[j] # Throw
  <2>1. row(list[i])[j] = At(list[i], keys[j])
    OBVIOUS
  <2>2. pos[i] \in 1 .. Len(rows) /\ list[i] = rows[pos[i]]
    BY <1>4, <1>5
  <2> QED BY <2>1, <2>2
<1>7. Rows(Listed(rows, kinds, kind), keys) = Array(printed)
  <2>1. Is(Array(list), "array") /\ Array(list)[2] = list
    BY DEF Array, Is
  <2> HIDE DEF row
  <2>2. Rows(Array(list), keys) =
          IF ~Is(Array(list), "array")
               \/ \E i \in DOMAIN Array(list)[2] : \E j \in DOMAIN keys :
                    row(Array(list)[2][i])[j] = Throw
          THEN Throw
          ELSE Array([i \in DOMAIN Array(list)[2] |-> row(Array(list)[2][i])])
    BY DEF Rows, row
  <2> QED BY <1>1, <1>3, <1>6, <2>1, <2>2, SMTT(30)
<1>8. printed \in Seq(T) /\ Len(printed) = n
  <2>1. printed \in [1 .. n -> T]
    <3> HIDE DEF row
    <3> QED BY <1>4, <1>5
  <2> HIDE DEF printed, T
  <2> QED BY <1>3, <2>1, FunctionIsSeq
<1>9. \A i \in 1 .. Len(printed) : printed[i] = columns[pos[i]]
  <2> HIDE DEF row
  <2> QED BY <1>5, <1>8
<1> HIDE DEF printed, T
<1>10. Tells(Array(printed), columns, Of(kinds, kind, Len(rows)))
  BY <1>2, <1>8, <1>9, TellsChosen DEF n
<1>11. Array(printed) # Throw
  BY DEF Array, Throw
<1> QED BY <1>7, <1>10, <1>11

\* What is printed of the answer to each question, and nothing throws.
LEMMA AuthPrinted ==
  ASSUME NEW type, NEW user \in Optional(UserIds)
  PROVE  /\ ToBoolean(At(UserReply(type, user), "SUCCESS")) = Boolean(user # <<>>)
         /\ user # <<>> =>
              /\ ToUnsigned(At(UserReply(type, user), "USER_ID"), LongRange) = Integer(user[1])
              /\ user[1] \in UInt64 /\ user = <<user[1]>>
<1> DEFINE r == UserReply(type, user)
<1>1. At(r, "SUCCESS") = Boolean(user # <<>>) /\ At(r, "USER_ID") = OrNull(user)
  BY DEF UserReply, At, Object, Is
<1>2. ToBoolean(At(r, "SUCCESS")) = Boolean(user # <<>>)
  BY <1>1 DEF ToBoolean, Boolean, Is
<1>3. ASSUME user # <<>>
      PROVE  /\ ToUnsigned(At(r, "USER_ID"), LongRange) = Integer(user[1])
             /\ user[1] \in UInt64 /\ user = <<user[1]>>
  <2>1. user[1] \in UserIds /\ user = <<user[1]>>
    BY <1>3 DEF Optional
  <2>2. user[1] \in UInt64
    BY <2>1, ProtocolAssumption
  <2>3. OrNull(user) = Integer(user[1])
    BY <1>3 DEF OrNull
  <2> QED BY <1>1, <2>1, <2>2, <2>3, Converted
<1> QED BY <1>2, <1>3

Maybe(optional) == IF optional = <<>> THEN Text("none") ELSE Integer(optional[1])

LEMMA MaybePrinted ==
  ASSUME NEW optional \in Optional(Int32)
  PROVE  Nullable(OrNull(optional)) = Maybe(optional) /\ Maybe(optional) # Throw
<1>1. CASE optional = <<>>
  BY <1>1, NoThrow DEF OrNull, Nullable, Maybe
<1>2. CASE optional # <<>>
  <2>1. optional[1] \in Int32
    BY <1>2 DEF Optional
  <2>2. OrNull(optional) = Integer(optional[1]) /\ Integer(optional[1]) # Null
    BY <1>2 DEF OrNull, Integer, Null
  <2>3. Nullable(OrNull(optional)) = Integer(optional[1])
    BY <2>1, <2>2, Converted DEF Nullable
  <2> QED BY <1>2, <2>3, NoThrow DEF Maybe
<1> QED BY <1>1, <1>2

LEMMA QuotesPrinted ==
  ASSUME NEW q, q \in Answers(<<"GetQuotes">>)
  PROVE  /\ Printed(3, QuotesReply(q)) =
              <<"quotes", Maybe(q.quote), Maybe(q.ask), Maybe(q.bid), Maybe(q.spread)>>
         /\ ~Failed(Printed(3, QuotesReply(q)))
<1>1. Money \subseteq Int32
  BY ProtocolAssumption
<1>2. Answers(<<"GetQuotes">>) =
        {p \in [quote : Optional(Money), ask : Optional(Money), bid : Optional(Money),
                spread : Optional(Int32)] :
           p.spread = IF p.ask # <<>> /\ p.bid # <<>> THEN <<p.ask[1] - p.bid[1]>> ELSE <<>>}
  BY DEF Answers
<1>3. /\ q.quote \in Optional(Int32) /\ q.ask \in Optional(Int32)
      /\ q.bid \in Optional(Int32) /\ q.spread \in Optional(Int32)
  BY <1>1, <1>2 DEF Optional
<1>4. /\ At(QuotesReply(q), "QUOTE") = OrNull(q.quote)
      /\ At(QuotesReply(q), "ASK_QUOTE") = OrNull(q.ask)
      /\ At(QuotesReply(q), "BID_QUOTE") = OrNull(q.bid)
      /\ At(QuotesReply(q), "SPREAD") = OrNull(q.spread)
  BY DEF QuotesReply, At, Object, Is
<1>5. Printed(3, QuotesReply(q)) =
        <<"quotes", Maybe(q.quote), Maybe(q.ask), Maybe(q.bid), Maybe(q.spread)>>
  BY <1>3, <1>4, MaybePrinted DEF Printed
<1>6. /\ Maybe(q.quote) # Throw /\ Maybe(q.ask) # Throw
      /\ Maybe(q.bid) # Throw /\ Maybe(q.spread) # Throw
  BY <1>3, MaybePrinted
<1>7. ~Failed(<<"quotes", Maybe(q.quote), Maybe(q.ask), Maybe(q.bid), Maybe(q.spread)>>)
  BY <1>6 DEF Failed
<1> QED BY <1>5, <1>7

LEMMA FirstPrinted ==
  ASSUME NEW r
  PROVE  /\ Printed(1, r) = <<"posted", ToText(r)>>
         /\ Printed(2, r) = <<"canceled", ToBoolean(At(r, "SUCCESS"))>>
<1>1. Printed(1, r) = <<"posted", ToText(r)>>
  BY DEF Printed
<1>2. Printed(2, r) = <<"canceled", ToBoolean(At(r, "SUCCESS"))>>
  BY DEF Printed
<1> QED BY <1>1, <1>2

LEMMA ShortPrinted ==
  ASSUME NEW a
  PROVE  /\ Printed(1, Text("Offer was posted.")) = <<"posted", Text("Offer was posted.")>>
         /\ Printed(2, Object([TYPE |-> Text("Cancel"), SUCCESS |-> Boolean(a[1])])) =
              <<"canceled", Boolean(a[1])>>
         /\ Printed(4, BalanceReply(a)) = <<"balance", Integer(a.usd), Integer(a.rub)>>
         /\ ~Failed(<<"posted", Text("Offer was posted.")>>)
         /\ ~Failed(<<"canceled", Boolean(a[1])>>)
         /\ ~Failed(<<"balance", Integer(a.usd), Integer(a.rub)>>)
<1>1. Printed(1, Text("Offer was posted.")) = <<"posted", Text("Offer was posted.")>>
  <2>1. ToText(Text("Offer was posted.")) = Text("Offer was posted.")
    BY DEF ToText, Text, Is
  <2> QED BY <2>1, FirstPrinted
<1>2. Printed(2, Object([TYPE |-> Text("Cancel"), SUCCESS |-> Boolean(a[1])])) =
        <<"canceled", Boolean(a[1])>>
  <2> DEFINE r == Object([TYPE |-> Text("Cancel"), SUCCESS |-> Boolean(a[1])])
  <2>1. At(r, "SUCCESS") = Boolean(a[1])
    BY DEF At, Object, Is
  <2>2. ToBoolean(At(r, "SUCCESS")) = Boolean(a[1])
    BY <2>1 DEF ToBoolean, Boolean, Is
  <2> HIDE DEF r
  <2>3. Printed(2, r) = <<"canceled", Boolean(a[1])>>
    BY <2>2, FirstPrinted
  <2> QED BY <2>3 DEF r
<1>3. Printed(4, BalanceReply(a)) = <<"balance", Integer(a.usd), Integer(a.rub)>>
  <2>1. /\ At(BalanceReply(a), "USD") = Integer(a.usd)
        /\ At(BalanceReply(a), "RUB") = Integer(a.rub)
    BY DEF BalanceReply, At, Object, Is
  <2> QED BY <2>1 DEF Printed
<1>4. ~Failed(<<"posted", Text("Offer was posted.")>>) /\ ~Failed(<<"canceled", Boolean(a[1])>>)
  <2>1. ASSUME NEW title, NEW v, v # Throw PROVE ~Failed(<<title, v>>)
    BY <2>1 DEF Failed
  <2> QED BY <2>1, NoThrow
<1>5. ~Failed(<<"balance", Integer(a.usd), Integer(a.rub)>>)
  BY NoThrow DEF Failed
<1> QED BY <1>1, <1>2, <1>3, <1>4, <1>5

\* The columns of the reports of offers and of deals.
OfferColumns(s) ==
  [i \in DOMAIN s |-> <<Integer(s[i].id), Integer(s[i].amount), Integer(s[i].price)>>]
DealColumns(s) == [i \in DOMAIN s |-> <<Integer(s[i].amount), Integer(s[i].price)>>]

LEMMA OffersPrinted ==
  ASSUME NEW R, NEW s \in Seq(R)
  PROVE  LET values == Printed(5, ActiveReply(s))
         IN /\ ~Failed(values)
            /\ Tells(values[2], OfferColumns(s), {i \in DOMAIN s : s[i].side = "BUY"})
            /\ Tells(values[3], OfferColumns(s), {i \in DOMAIN s : s[i].side = "SELL"})
<1> DEFINE rows == OfferRows(s)
           kinds == OfferKinds(s)
           keys == <<"OFFER_ID", "AMOUNT", "PRICE">>
           columns == OfferColumns(s)
           n == Len(s)
           S == {rows[i] : i \in 1 .. n}
           printed(side) == Rows(Listed(rows, kinds, side), keys)
           values == Printed(5, ActiveReply(s))
<1>1. n \in Nat /\ DOMAIN s = 1 .. n
  BY LenProperties
<1> HIDE DEF n
<1>2. rows \in [1 .. n -> S]
  BY <1>1 DEF OfferRows
<1>3. rows \in Seq(S) /\ Len(rows) = n
  <2> HIDE DEF rows, S
  <2> QED BY <1>1, <1>2, FunctionIsSeq
<1>4. ASSUME NEW k \in 1 .. n
      PROVE  /\ columns[k] = [j \in DOMAIN keys |-> At(rows[k], keys[j])]
             /\ \A j \in DOMAIN keys : At(rows[k], keys[j]) # Throw
  <2>1. rows[k] = Object([OFFER_ID |-> Integer(s[k].id), PRICE |-> Integer(s[k].price),
                          AMOUNT |-> Integer(s[k].amount)])
    BY <1>1 DEF OfferRows
  <2>2. /\ At(rows[k], "OFFER_ID") = Integer(s[k].id)
        /\ At(rows[k], "AMOUNT") = Integer(s[k].amount)
        /\ At(rows[k], "PRICE") = Integer(s[k].price)
    BY <2>1 DEF At, Object, Is
  <2>3. columns[k] = <<Integer(s[k].id), Integer(s[k].amount), Integer(s[k].price)>>
    BY <1>1 DEF OfferColumns
  <2> HIDE DEF rows, columns
  <2>4. [j \in DOMAIN keys |-> At(rows[k], keys[j])] =
          <<At(rows[k], "OFFER_ID"), At(rows[k], "AMOUNT"), At(rows[k], "PRICE")>>
    OBVIOUS
  <2>5. \A j \in DOMAIN keys : keys[j] \in {"OFFER_ID", "AMOUNT", "PRICE"}
    OBVIOUS
  <2> HIDE DEF keys
  <2> QED BY <2>2, <2>3, <2>4, <2>5, NoThrow
<1>5. /\ {i \in DOMAIN s : s[i].side = "BUY"} = Of(kinds, "BUY", n)
      /\ {i \in DOMAIN s : s[i].side = "SELL"} = Of(kinds, "SELL", n)
  BY <1>1 DEF OfferKinds, Of
<1>6. ASSUME NEW side PROVE printed(side) # Throw /\ Tells(printed(side), columns, Of(kinds, side, n))
  <2> HIDE DEF rows, columns, kinds, keys, S
  <2> QED BY <1>3, <1>4, RowsTell
<1>7. values = <<"offers", printed("BUY"), printed("SELL")>>
  <2> DEFINE r == ActiveReply(s)
             lists == <<"BUY", "SELL">>
  <2>1. At(r, "BUY") = Listed(rows, kinds, "BUY") /\ At(r, "SELL") = Listed(rows, kinds, "SELL")
    BY DEF ActiveReply, At, Object, Is
  <2> HIDE DEF r, rows, kinds
  <2>2. values = <<"offers">> \o [i \in DOMAIN lists |-> Rows(At(r, lists[i]), keys)]
    BY DEF Printed, Report, r
  <2>3. [i \in DOMAIN lists |-> Rows(At(r, lists[i]), keys)] =
          <<Rows(At(r, "BUY"), keys), Rows(At(r, "SELL"), keys)>>
    <3> HIDE DEF keys
    <3> QED OBVIOUS
  <2> QED BY <2>1, <2>2, <2>3, TypedMore
<1> HIDE DEF values, printed, columns
<1>8. ~Failed(values)
  BY <1>6, <1>7 DEF Failed
<1>9. values[2] = printed("BUY") /\ values[3] = printed("SELL")
  BY <1>7
<1> QED BY <1>5, <1>6, <1>8, <1>9 DEF values, columns

LEMMA DealsPrinted ==
  ASSUME NEW R, NEW s \in Seq(R), NEW user,
         \A i \in DOMAIN s : user \in {s[i].buyer, s[i].seller}
  PROVE  LET values == Printed(6, ClosedReply(s, user))
             bought == {i \in DOMAIN s : s[i].buyer = user}
             sold == {i \in DOMAIN s : s[i].seller = user}
         IN /\ ~Failed(values)
            /\ Tells(values[2], DealColumns(s), bought \ sold)
            /\ Tells(values[3], DealColumns(s), sold \ bought)
            /\ Tells(values[4], DealColumns(s), bought \cap sold)
<1> DEFINE rows == DealRows(s)
           kinds == DealKinds(s, user)
           keys == <<"AMOUNT", "PRICE">>
           columns == DealColumns(s)
           n == Len(s)
           S == {rows[i] : i \in 1 .. n}
           printed(kind) == Rows(Listed(rows, kinds, kind), keys)
           values == Printed(6, ClosedReply(s, user))
           bought == {i \in DOMAIN s : s[i].buyer = user}
           sold == {i \in DOMAIN s : s[i].seller = user}
<1>1. n \in Nat /\ DOMAIN s = 1 .. n
  BY LenProperties
<1> HIDE DEF n
<1>2. rows \in [1 .. n -> S]
  BY <1>1 DEF DealRows
<1>3. rows \in Seq(S) /\ Len(rows) = n
  <2> HIDE DEF rows, S
  <2> QED BY <1>1, <1>2, FunctionIsSeq
<1>4. ASSUME NEW k \in 1 .. n
      PROVE  /\ columns[k] = [j \in DOMAIN keys |-> At(rows[k], keys[j])]
             /\ \A j \in DOMAIN keys : At(rows[k], keys[j]) # Throw
  <2>1. rows[k] = Object([PRICE |-> Integer(s[k].price), AMOUNT |-> Integer(s[k].amount)])
    BY <1>1 DEF DealRows
  <2>2. /\ At(rows[k], "AMOUNT") = Integer(s[k].amount)
        /\ At(rows[k], "PRICE") = Integer(s[k].price)
    BY <2>1 DEF At, Object, Is
  <2>3. columns[k] = <<Integer(s[k].amount), Integer(s[k].price)>>
    BY <1>1 DEF DealColumns
  <2> HIDE DEF rows, columns
  <2>4. [j \in DOMAIN keys |-> At(rows[k], keys[j])] =
          <<At(rows[k], "AMOUNT"), At(rows[k], "PRICE")>>
    OBVIOUS
  <2>5. \A j \in DOMAIN keys : keys[j] \in {"AMOUNT", "PRICE"}
    OBVIOUS
  <2> HIDE DEF keys
  <2> QED BY <2>2, <2>3, <2>4, <2>5, NoThrow
<1>5. /\ bought \ sold = Of(kinds, "BUY", n)
      /\ sold \ bought = Of(kinds, "SELL", n)
      /\ bought \cap sold = Of(kinds, "BUY_SELL", n)
  <2>1. \A i \in 1 .. n :
          kinds[i] = IF s[i].buyer = s[i].seller THEN "BUY_SELL"
                     ELSE IF s[i].buyer = user THEN "BUY" ELSE "SELL"
    BY <1>1 DEF DealKinds
  <2>2. \A i \in 1 .. n : s[i].buyer = user \/ s[i].seller = user
    BY <1>1
  <2> HIDE DEF kinds
  <2>3. bought \ sold = Of(kinds, "BUY", n)
    BY <1>1, <2>1, <2>2 DEF Of
  <2>4. sold \ bought = Of(kinds, "SELL", n)
    BY <1>1, <2>1, <2>2 DEF Of
  <2>5. bought \cap sold = Of(kinds, "BUY_SELL", n)
    BY <1>1, <2>1, <2>2 DEF Of
  <2> QED BY <2>3, <2>4, <2>5
<1>6. ASSUME NEW kind PROVE printed(kind) # Throw /\ Tells(printed(kind), columns, Of(kinds, kind, n))
  <2> HIDE DEF rows, columns, kinds, keys, S
  <2> QED BY <1>3, <1>4, RowsTell
<1>7. values = <<"deals", printed("BUY"), printed("SELL"), printed("BUY_SELL")>>
  <2> DEFINE r == ClosedReply(s, user)
             lists == <<"BUY", "SELL", "BUY_SELL">>
  <2>1. /\ At(r, "BUY") = Listed(rows, kinds, "BUY")
        /\ At(r, "SELL") = Listed(rows, kinds, "SELL")
        /\ At(r, "BUY_SELL") = Listed(rows, kinds, "BUY_SELL")
    BY DEF ClosedReply, At, Object, Is
  <2> HIDE DEF r, rows, kinds
  <2>2. values = <<"deals">> \o [i \in DOMAIN lists |-> Rows(At(r, lists[i]), keys)]
    BY DEF Printed, Report, r
  <2>3. [i \in DOMAIN lists |-> Rows(At(r, lists[i]), keys)] =
          <<Rows(At(r, "BUY"), keys), Rows(At(r, "SELL"), keys), Rows(At(r, "BUY_SELL"), keys)>>
    <3> HIDE DEF keys
    <3> QED OBVIOUS
  <2> QED BY <2>1, <2>2, <2>3, TypedMore
<1> HIDE DEF values, printed, columns, bought, sold
<1>8. ~Failed(values)
  BY <1>6, <1>7 DEF Failed
<1>9. /\ values[2] = printed("BUY") /\ values[3] = printed("SELL")
      /\ values[4] = printed("BUY_SELL")
  BY <1>7
<1> QED BY <1>5, <1>6, <1>8, <1>9 DEF values, columns, bought, sold

-----------------------------------------------------------------------------
(* The inductive invariant *)

\* What was typed when an order is complete: before and after the login.
Credentials == {<<k, n, p>> : k \in {1, 2}, n \in Names, p \in Passwords}
Posts == {<<1, s, a, p>> : s \in {1, 2}, a \in 1 .. IntRange - 1, p \in Int32}
Cancels == {<<2, o>> : o \in 0 .. IntRange - 1}
Questions == {<<k>> : k \in 3 .. 6}

\* The message of the order that was typed.
Sent ==
  CASE id = <<>> ->
         Message(IF typed[1] = 1 THEN "Reg" ELSE "Log",
                 [USERNAME |-> Text(typed[2]), PW_HASH |-> Integer(Hash[typed[3]])])
    [] id # <<>> /\ typed[1] = 1 ->
         Message("PostOffer",
                 [USER_ID |-> Integer(id[1]),
                  OFFER_SIDE |-> Text(IF typed[2] = 1 THEN "BUY" ELSE "SELL"),
                  AMOUNT |-> Integer(typed[3]), PRICE |-> Integer(typed[4])])
    [] id # <<>> /\ typed[1] = 2 ->
         Message("Cancel", [USER_ID |-> Integer(id[1]), OFFER_ID |-> Integer(typed[2])])
    [] id # <<>> /\ typed[1] \in 3 .. 6 ->
         Message(RequestType(typed[1]), [USER_ID |-> Integer(id[1])])

Typing ==
  /\ id \in Optional(UInt64)
  /\ input \in [Prompts -> Int]
  /\ screen \in Prompts \cup {"name", "waiting", "ended", "failed"}

\* At a prompt, or when a program has thrown, nothing is on its way; and what was
\* typed for this order so far is still in the variables it is sent from.
AtPrompts ==
  /\ screen # "waiting" => request = Nothing /\ reply = Nothing
  /\ screen \in {"auth", "name"} => id = <<>>
  /\ screen \in {"menu", "side", "amount", "price", "offer"} => id # <<>>
  /\ screen \in {"auth", "menu"} => typed = <<>>
  /\ screen = "name" => input["auth"] \in {1, 2} /\ typed = <<input["auth"]>>
  /\ screen = "side" => input["menu"] = 1 /\ typed = <<1>>
  /\ screen = "amount" =>
       input["menu"] = 1 /\ input["side"] \in {1, 2} /\ typed = <<1, input["side"]>>
  /\ screen = "price" =>
       /\ input["menu"] = 1 /\ input["side"] \in {1, 2}
       /\ input["amount"] \in 1 .. IntRange - 1
       /\ typed = <<1, input["side"], input["amount"]>>
  /\ screen = "offer" => input["menu"] = 2 /\ typed = <<2>>
  /\ screen \notin {"auth", "menu", "waiting", "failed"} =>
       call = Nothing /\ shown = Nothing
  /\ screen = "failed" => MayThrow

\* An order is with the server, or its answer on the way back.
WhileWaiting ==
  screen = "waiting" =>
    /\ typed \in IF id = <<>> THEN Credentials ELSE Posts \cup Cancels \cup Questions
    /\ id # <<>> => input["menu"] = typed[1]
    /\ shown = Nothing
    /\ \/ request = Sent /\ reply = Nothing /\ call = Nothing
       \/ /\ request = Nothing
          /\ call = Meant
          /\ answer \in Answers(call)
          /\ reply = ReplyTo(call, answer)

ProtocolInv == Typing /\ AtPrompts /\ WhileWaiting /\ ShownIsAnswered
-----------------------------------------------------------------------------
(* Every step keeps it *)

\* What the server calls is what was meant.
LEMMA OrderArrives ==
  ASSUME id \in Optional(UInt64),
         typed \in IF id = <<>> THEN Credentials ELSE Posts \cup Cancels \cup Questions
  PROVE  Dispatch(Sent) = Meant /\ Meant # Throw
<1>1. ASSUME id = <<>> PROVE Dispatch(Sent) = Meant /\ Meant # Throw
  <2>1. PICK k \in {1, 2}, n \in Names, p \in Passwords : typed = <<k, n, p>>
    BY <1>1 DEF Credentials
  <2>2. Hash[p] \in UInt64 /\ typed[1] = k /\ typed[2] = n /\ typed[3] = p
    BY <2>1, ProtocolAssumption
  <2> DEFINE fields == [USERNAME |-> Text(n), PW_HASH |-> Integer(Hash[p])]
  <2>3. Sent = Message(IF k = 1 THEN "Reg" ELSE "Log", fields)
    BY <1>1, <2>2 DEF Sent
  <2>4. /\ Dispatch(Message("Reg", fields)) = <<"RegisterUser", n, Hash[p]>>
        /\ Dispatch(Message("Log", fields)) = <<"Login", n, Hash[p]>>
    BY <2>2, CredentialsArrive
  <2> HIDE DEF fields
  <2>5. CASE k = 1
    <3>1. Meant = <<"RegisterUser", n, Hash[p]>>
      BY <1>1, <2>2, <2>5 DEF Meant
    <3> QED BY <2>3, <2>4, <2>5, <3>1 DEF Throw
  <2>6. CASE k = 2
    <3>1. Meant = <<"Login", n, Hash[p]>>
      BY <1>1, <2>2, <2>6 DEF Meant
    <3> QED BY <2>3, <2>4, <2>6, <3>1 DEF Throw
  <2> QED BY <2>5, <2>6
<1>2. ASSUME id # <<>> PROVE Dispatch(Sent) = Meant /\ Meant # Throw
  <2>1. id[1] \in UInt64
    BY <1>2 DEF Optional
  <2>2. CASE typed \in Posts
    <3>1. PICK s \in {1, 2}, a \in 1 .. IntRange - 1, p \in Int32 : typed = <<1, s, a, p>>
      BY <2>2 DEF Posts
    <3>2. typed[1] = 1 /\ typed[2] = s /\ typed[3] = a /\ typed[4] = p
      BY <3>1
    <3> DEFINE side == IF s = 1 THEN "BUY" ELSE "SELL"
    <3>3. side \in {"BUY", "SELL"}
      OBVIOUS
    <3>4. Sent = Message("PostOffer",
                         [USER_ID |-> Integer(id[1]), OFFER_SIDE |-> Text(side),
                          AMOUNT |-> Integer(a), PRICE |-> Integer(p)])
      BY <1>2, <3>2 DEF Sent
    <3>5. Meant = <<"PostOffer", id[1], side, p, a>>
      BY <1>2, <3>2 DEF Meant
    <3> HIDE DEF side
    <3>6. Dispatch(Sent) = <<"PostOffer", id[1], side, p, a>>
      BY <2>1, <3>3, <3>4, PostArrives
    <3> QED BY <3>5, <3>6 DEF Throw
  <2>3. CASE typed \in Cancels
    <3>1. PICK o \in 0 .. IntRange - 1 : typed = <<2, o>>
      BY <2>3 DEF Cancels
    <3>2. typed[1] = 2 /\ typed[2] = o /\ o \in UInt64
      BY <3>1, Converted
    <3>3. Sent = Message("Cancel", [USER_ID |-> Integer(id[1]), OFFER_ID |-> Integer(o)])
      BY <1>2, <3>2 DEF Sent
    <3>4. Meant = <<"CancelOffer", id[1], o>>
      BY <1>2, <3>2 DEF Meant
    <3>5. Dispatch(Sent) = <<"CancelOffer", id[1], o>>
      BY <2>1, <3>2, <3>3, CancelArrives
    <3> QED BY <3>4, <3>5 DEF Throw
  <2>4. CASE typed \in Questions
    <3>1. typed[1] \in 3 .. 6
      BY <2>4 DEF Questions
    <3> DEFINE fields == [USER_ID |-> Integer(id[1])]
    <3>2. Sent = Message(RequestType(typed[1]), fields)
      BY <1>2, <3>1 DEF Sent
    <3>3. /\ Dispatch(Message("Quotes", fields)) = <<"GetQuotes">>
          /\ Dispatch(Message("Balance", fields)) = <<"GetBalance", id[1]>>
          /\ Dispatch(Message("Active", fields)) = <<"GetActiveOffers", id[1]>>
          /\ Dispatch(Message("Deal", fields)) = <<"GetClosedDeals", id[1]>>
      BY <2>1, QuestionArrives
    <3> HIDE DEF fields
    <3>4. CASE typed[1] = 3
      <4>1. Meant = <<"GetQuotes">> /\ RequestType(typed[1]) = "Quotes"
        BY <1>2, <3>4 DEF Meant, RequestType
      <4> QED BY <3>2, <3>3, <4>1 DEF Throw
    <3>5. CASE typed[1] = 4
      <4>1. Meant = <<"GetBalance", id[1]>> /\ RequestType(typed[1]) = "Balance"
        BY <1>2, <3>5 DEF Meant, RequestType
      <4> QED BY <3>2, <3>3, <4>1 DEF Throw
    <3>6. CASE typed[1] = 5
      <4>1. Meant = <<"GetActiveOffers", id[1]>> /\ RequestType(typed[1]) = "Active"
        BY <1>2, <3>6 DEF Meant, RequestType
      <4> QED BY <3>2, <3>3, <4>1 DEF Throw
    <3>7. CASE typed[1] = 6
      <4>1. Meant = <<"GetClosedDeals", id[1]>> /\ RequestType(typed[1]) = "Deal"
        BY <1>2, <3>7 DEF Meant, RequestType
      <4> QED BY <3>2, <3>3, <4>1 DEF Throw
    <3> QED BY <3>1, <3>4, <3>5, <3>6, <3>7
  <2> QED BY <1>2, <2>2, <2>3, <2>4
<1> QED BY <1>1, <1>2

LEMMA ProtocolInit == ASSUME Init PROVE ProtocolInv
<1>1. Typing
  BY DEF Init, Typing, Optional, Prompts
<1>2. AtPrompts
  BY DEF Init, AtPrompts
<1>3. WhileWaiting
  BY DEF Init, WhileWaiting
<1>4. ShownIsAnswered
  BY DEF Init, ShownIsAnswered, Nothing
<1> QED BY <1>1, <1>2, <1>3, <1>4 DEF ProtocolInv

\* Proceed and Valid, prompt by prompt.
LEMMA Proceeding ==
  ASSUME NEW prompt, NEW values, Proceed(prompt, values)
  PROVE  /\ prompt = "menu" /\ values["menu"] \in 3 .. 6 =>
              /\ screen' = "waiting"
              /\ request' = Object([k \in DOMAIN [USER_ID |-> Integer(id[1])] \cup {"TYPE"} |->
                                      IF k = "TYPE" THEN Text(RequestType(values["menu"]))
                                      ELSE [USER_ID |-> Integer(id[1])][k]])
         /\ prompt = "side" => screen' = "amount" /\ UNCHANGED request
         /\ prompt = "amount" => screen' = "price" /\ UNCHANGED request
         /\ prompt = "price" => screen' = "waiting" /\ SendPost(values)
         /\ prompt = "offer" => screen' = "waiting" /\ SendCancel(values)
<1>1. CASE prompt = "menu" /\ values["menu"] \in 3 .. 6
  <2>1. values["menu"] # 1 /\ values["menu"] # 2 /\ values["menu"] # 7
    BY <1>1
  <2> QED BY <1>1, <2>1 DEF Proceed, SendIdOnly, Send
<1>2. CASE prompt = "side"
  BY <1>2 DEF Proceed
<1>3. CASE prompt = "amount"
  BY <1>3 DEF Proceed
<1>4. CASE prompt = "price"
  BY <1>4 DEF Proceed
<1>5. CASE prompt = "offer"
  BY <1>5 DEF Proceed
<1> QED BY <1>1, <1>2, <1>3, <1>4, <1>5

LEMMA ValidNumbers ==
  ASSUME NEW n
  PROVE  /\ Valid("side", n) => n \in {1, 2}
         /\ Valid("amount", n) => n > 0
         /\ Valid("offer", n) => n >= 0
BY DEF Valid

LEMMA TypeNumberKeeps ==
  ASSUME ProtocolInv, NEW n \in Int32, TypeNumber(n)
  PROVE  ProtocolInv'
<1>1. /\ screen \in Prompts /\ Forget /\ id' = id /\ reply' = reply
      /\ input' = [input EXCEPT ![screen] = n]
  BY DEF TypeNumber
<1>2. n \in Int /\ IntRange \in Nat
  BY Converted, ProtocolAssumption
<1>3. shown' = Nothing /\ call' = Nothing
  BY <1>1 DEF Forget
<1>4. /\ id \in Optional(UInt64) /\ request = Nothing /\ reply = Nothing
      /\ (screen = "auth" => id = <<>>) /\ (screen # "auth" => id # <<>>)
      /\ input \in [Prompts -> Int]
  BY <1>1 DEF ProtocolInv, Typing, AtPrompts, Prompts
<1>5. /\ input' \in [Prompts -> Int] /\ input'[screen] = n
      /\ \A p \in Prompts : p # screen => input'[p] = input[p]
  BY <1>1, <1>2, <1>4
<1>6. ShownIsAnswered'
  BY <1>3 DEF ShownIsAnswered
<1>7. CASE ~Valid(screen, n)
  <2>1. UNCHANGED <<screen, typed, request>>
    BY <1>7 DEF TypeNumber
  <2>2. Typing'
    BY <1>1, <1>4, <1>5, <2>1 DEF ProtocolInv, Typing
  <2>3. AtPrompts'
    BY <1>1, <1>3, <1>4, <1>5, <2>1 DEF ProtocolInv, AtPrompts, Prompts
  <2>4. WhileWaiting'
    BY <1>1, <2>1 DEF WhileWaiting, Prompts
  <2> QED BY <1>6, <2>2, <2>3, <2>4 DEF ProtocolInv
<1>8. CASE Valid(screen, n)
  <2>1. Proceed(screen, input') /\ typed' = Append(typed, n)
    BY <1>8 DEF TypeNumber
  <2>2. ASSUME screen' \in Prompts \cup {"name", "ended"}, UNCHANGED request, AtPrompts'
        PROVE  ProtocolInv'
    <3>1. Typing'
      BY <1>1, <1>4, <1>5, <2>2 DEF Typing
    <3>2. WhileWaiting'
      BY <2>2 DEF WhileWaiting, Prompts
    <3> QED BY <1>6, <2>2, <3>1, <3>2 DEF ProtocolInv
  <2>3. ASSUME screen' = "waiting", id # <<>>, request' = Sent',
               typed' \in Posts \cup Cancels \cup Questions, input'["menu"] = typed'[1]
        PROVE  ProtocolInv'
    <3>1. Typing'
      BY <1>1, <1>4, <1>5, <2>3 DEF Typing
    <3>2. AtPrompts'
      BY <2>3 DEF AtPrompts
    <3>3. WhileWaiting'
      BY <1>1, <1>3, <1>4, <2>3 DEF WhileWaiting
    <3> QED BY <1>6, <3>1, <3>2, <3>3 DEF ProtocolInv
  <2>4. CASE screen = "auth"
    <3>1. /\ screen' = "name" /\ UNCHANGED request /\ typed' = <<n>> /\ n \in {1, 2}
          /\ input'["auth"] = n
      BY <1>5, <1>8, <2>1, <2>4, TypedMore DEF Proceed, Valid, ProtocolInv, AtPrompts
    <3>2. AtPrompts'
      BY <1>1, <1>3, <1>4, <2>4, <3>1 DEF AtPrompts
    <3> QED BY <2>2, <3>1, <3>2
  <2>5. CASE screen = "menu"
    <3>1. typed' = <<n>> /\ n \in 1 .. 7 /\ input'["menu"] = n /\ id # <<>>
      BY <1>4, <1>5, <1>8, <2>1, <2>5, TypedMore DEF Valid, ProtocolInv, AtPrompts
    <3>2. CASE n = 1
      <4>1. screen' = "side" /\ UNCHANGED request
        BY <2>1, <2>5, <3>1, <3>2 DEF Proceed
      <4>2. AtPrompts'
        BY <1>1, <1>3, <1>4, <3>1, <3>2, <4>1 DEF AtPrompts
      <4> QED BY <2>2, <4>1, <4>2 DEF Prompts
    <3>3. CASE n = 2
      <4>1. screen' = "offer" /\ UNCHANGED request
        BY <2>1, <2>5, <3>1, <3>3 DEF Proceed
      <4>2. AtPrompts'
        BY <1>1, <1>3, <1>4, <3>1, <3>3, <4>1 DEF AtPrompts
      <4> QED BY <2>2, <4>1, <4>2 DEF Prompts
    <3>4. CASE n = 7
      <4>1. screen' = "ended" /\ UNCHANGED request
        BY <2>1, <2>5, <3>1, <3>4 DEF Proceed
      <4>2. AtPrompts'
        BY <1>1, <1>3, <1>4, <3>1, <3>4, <4>1 DEF AtPrompts
      <4> QED BY <2>2, <4>1, <4>2
    <3>5. CASE n \in 3 .. 6
      <4>1. /\ screen' = "waiting"
            /\ request' = Message(RequestType(n), [USER_ID |-> Integer(id[1])])
        BY <2>1, <2>5, <3>1, <3>5, Proceeding DEF Message
      <4>3. typed'[1] = n /\ typed' \in Questions
        BY <3>1, <3>5 DEF Questions
      <4>4. Sent' = Message(RequestType(n), [USER_ID |-> Integer(id[1])])
        BY <1>1, <3>1, <3>5, <4>3 DEF Sent
      <4> QED BY <2>3, <3>1, <4>1, <4>3, <4>4
    <3> QED BY <3>1, <3>2, <3>3, <3>4, <3>5
  <2>6. CASE screen = "side"
    <3>1. /\ screen' = "amount" /\ UNCHANGED request /\ typed' = <<1, n>> /\ n \in {1, 2}
          /\ input'["side"] = n /\ input'["menu"] = 1
      <4>1. typed = <<1>> /\ input["menu"] = 1
        BY <2>6 DEF ProtocolInv, AtPrompts
      <4>2. typed' = <<1, n>>
        BY <2>1, <4>1, TypedMore
      <4>3. screen' = "amount" /\ UNCHANGED request
        BY <2>1, <2>6, Proceeding
      <4>4. n \in {1, 2}
        BY <1>8, <2>6, ValidNumbers
      <4>5. input'["side"] = n /\ input'["menu"] = 1
        BY <1>5, <2>6, <4>1 DEF Prompts
      <4> QED BY <4>2, <4>3, <4>4, <4>5
    <3>2. AtPrompts'
      BY <1>1, <1>3, <1>4, <2>6, <3>1 DEF AtPrompts
    <3> QED BY <2>2, <3>1, <3>2 DEF Prompts
  <2>7. CASE screen = "amount"
    <3>1. /\ screen' = "price" /\ UNCHANGED request
          /\ typed' = <<1, input["side"], n>> /\ n > 0
          /\ input'["amount"] = n /\ input'["side"] = input["side"] /\ input'["menu"] = 1
          /\ input["side"] \in {1, 2}
      <4> DEFINE s == input["side"]
      <4>1. typed = <<1, s>> /\ s \in {1, 2} /\ input["menu"] = 1
        BY <2>7 DEF ProtocolInv, AtPrompts
      <4>2. screen' = "price" /\ UNCHANGED request
        BY <2>1, <2>7, Proceeding
      <4>3. n > 0
        BY <1>8, <2>7, ValidNumbers
      <4>4. input'["amount"] = n /\ input'["side"] = s /\ input'["menu"] = 1
        BY <1>5, <2>7, <4>1 DEF Prompts
      <4> HIDE DEF s
      <4>5. Append(<<1, s>>, n) = <<1, s, n>>
        BY TypedMore
      <4>6. typed' = <<1, s, n>>
        BY <2>1, <4>1, <4>5
      <4> QED BY <4>1, <4>2, <4>3, <4>4, <4>6 DEF s
    <3>2. n \in 1 .. IntRange - 1
      BY <1>2, <3>1 DEF Int32
    <3>3. AtPrompts'
      BY <1>1, <1>3, <1>4, <2>7, <3>1, <3>2 DEF AtPrompts
    <3> QED BY <2>2, <3>1, <3>3 DEF Prompts
  <2>8. CASE screen = "price"
    <3>1. /\ screen' = "waiting" /\ SendPost(input')
          /\ typed' = <<1, input["side"], input["amount"], n>>
          /\ input["side"] \in {1, 2} /\ input["amount"] \in 1 .. IntRange - 1
          /\ input'["price"] = n /\ input'["amount"] = input["amount"]
          /\ input'["side"] = input["side"] /\ input'["menu"] = 1
      <4> DEFINE s == input["side"]  a == input["amount"]
      <4>1. typed = <<1, s, a>> /\ s \in {1, 2} /\ a \in 1 .. IntRange - 1 /\ input["menu"] = 1
        BY <2>8 DEF ProtocolInv, AtPrompts
      <4>2. screen' = "waiting" /\ SendPost(input')
        BY <2>1, <2>8, Proceeding
      <4>3. /\ input'["price"] = n /\ input'["amount"] = a
            /\ input'["side"] = s /\ input'["menu"] = 1
        BY <1>5, <2>8, <4>1 DEF Prompts
      <4> HIDE DEF s, a
      <4>4. Append(<<1, s, a>>, n) = <<1, s, a, n>>
        BY TypedFourth
      <4>5. typed' = <<1, s, a, n>>
        BY <2>1, <4>1, <4>4
      <4> QED BY <4>1, <4>2, <4>3, <4>5 DEF s, a
    <3> DEFINE message(s, a) ==
                 Message("PostOffer",
                         [USER_ID |-> Integer(id[1]),
                          OFFER_SIDE |-> Text(IF s = 1 THEN "BUY" ELSE "SELL"),
                          AMOUNT |-> Integer(a), PRICE |-> Integer(n)])
    <3>2. request' = message(input["side"], input["amount"])
      BY <3>1 DEF SendPost, Send, Message
    <3>3. /\ typed'[1] = 1 /\ typed'[2] = input["side"] /\ typed'[3] = input["amount"]
          /\ typed'[4] = n /\ typed' \in Posts
      BY <3>1 DEF Posts
    <3>4. Sent' = message(input["side"], input["amount"])
      BY <1>1, <1>4, <2>8, <3>3 DEF Sent
    <3> HIDE DEF message
    <3> QED BY <1>4, <2>3, <2>8, <3>1, <3>2, <3>3, <3>4
  <2>9. CASE screen = "offer"
    <3>1. /\ screen' = "waiting" /\ SendCancel(input')
          /\ typed' = <<2, n>> /\ n >= 0
          /\ input'["offer"] = n /\ input'["menu"] = 2
      <4>1. typed = <<2>> /\ input["menu"] = 2
        BY <2>9 DEF ProtocolInv, AtPrompts
      <4>2. typed' = <<2, n>>
        BY <2>1, <4>1, TypedMore
      <4>3. screen' = "waiting" /\ SendCancel(input')
        BY <2>1, <2>9, Proceeding
      <4>4. n >= 0
        BY <1>8, <2>9, ValidNumbers
      <4>5. input'["offer"] = n /\ input'["menu"] = 2
        BY <1>5, <2>9, <4>1 DEF Prompts
      <4> QED BY <4>2, <4>3, <4>4, <4>5
    <3>2. n \in 0 .. IntRange - 1
      BY <1>2, <3>1 DEF Int32
    <3>3. request' = Message("Cancel", [USER_ID |-> Integer(id[1]), OFFER_ID |-> Integer(n)])
      BY <3>1 DEF SendCancel, Send, Message
    <3>4. typed'[1] = 2 /\ typed'[2] = n /\ typed' \in Cancels
      BY <3>1, <3>2 DEF Cancels
    <3>5. Sent' = Message("Cancel", [USER_ID |-> Integer(id[1]), OFFER_ID |-> Integer(n)])
      BY <1>1, <1>4, <2>9, <3>4 DEF Sent
    <3> QED BY <1>4, <2>3, <2>9, <3>1, <3>3, <3>4, <3>5
  <2> QED BY <1>1, <2>4, <2>5, <2>6, <2>7, <2>8, <2>9 DEF Prompts
<1> QED BY <1>7, <1>8

LEMMA TypeOtherKeeps == ASSUME ProtocolInv, TypeOther PROVE ProtocolInv'
<1>1. PICK n \in {0, IntRange - 1, -IntRange} : input' = [input EXCEPT ![screen] = n]
  BY DEF TypeOther
<1>2. /\ screen \in Prompts /\ UNCHANGED <<screen, typed, id, request, reply>>
      /\ shown' = Nothing /\ call' = Nothing
  BY DEF TypeOther, Forget
<1>3. n \in Int
  BY ProtocolAssumption
<1>4. input \in [Prompts -> Int]
  BY DEF ProtocolInv, Typing
<1>5. /\ input' \in [Prompts -> Int]
      /\ \A p \in Prompts : p # screen => input'[p] = input[p]
  BY <1>1, <1>3, <1>4
<1>6. Typing'
  BY <1>2, <1>5 DEF ProtocolInv, Typing
<1>7. AtPrompts'
  BY <1>2, <1>5 DEF ProtocolInv, AtPrompts, Prompts
<1>8. WhileWaiting'
  BY <1>2 DEF WhileWaiting, Prompts
<1>9. ShownIsAnswered'
  BY <1>2 DEF ShownIsAnswered
<1> QED BY <1>6, <1>7, <1>8, <1>9 DEF ProtocolInv

LEMMA AuthenticateKeeps ==
  ASSUME ProtocolInv, NEW name \in Names, NEW password \in Passwords,
         Authenticate(name, password)
  PROVE  ProtocolInv'
<1>1. /\ screen = "name" /\ id' = id /\ id = <<>>
      /\ UNCHANGED <<input, call, answer, reply, shown>>
      /\ request = Nothing /\ reply = Nothing /\ shown = Nothing /\ call = Nothing
  BY DEF Authenticate, ProtocolInv, AtPrompts
<1>2. input["auth"] \in {1, 2} /\ typed' = <<input["auth"], name, password>>
  <2> DEFINE k == input["auth"]
  <2>1. k \in {1, 2} /\ typed = <<k>> /\ typed' = typed \o <<name, password>>
    BY <1>1 DEF Authenticate, ProtocolInv, AtPrompts
  <2> HIDE DEF k
  <2>2. <<k>> \o <<name, password>> = <<k, name, password>>
    BY TypedMore
  <2> QED BY <2>1, <2>2 DEF k
<1>3. typed'[1] = input["auth"] /\ typed'[2] = name /\ typed'[3] = password /\ Len(typed') = 3
  BY <1>2
<1>4. ShownIsAnswered'
  BY <1>1 DEF ShownIsAnswered
<1>5. CASE name \in NotUtf8
  <2>1. screen' = "failed" /\ UNCHANGED request
    BY <1>5 DEF Authenticate
  <2>2. Typing'
    BY <1>1, <2>1 DEF ProtocolInv, Typing
  <2>3. MayThrow'
    BY <1>1, <1>3, <1>5 DEF MayThrow
  <2>4. AtPrompts'
    BY <1>1, <2>1, <2>3 DEF AtPrompts
  <2>5. WhileWaiting'
    BY <2>1 DEF WhileWaiting
  <2> QED BY <1>4, <2>2, <2>4, <2>5 DEF ProtocolInv
<1>6. CASE name \notin NotUtf8
  <2> DEFINE message(k) ==
               Message(IF k = 1 THEN "Reg" ELSE "Log",
                       [USERNAME |-> Text(name), PW_HASH |-> Integer(Hash[password])])
  <2>1. screen' = "waiting" /\ request' = message(input["auth"])
    BY <1>6 DEF Authenticate, Send, Message
  <2>2. typed' \in Credentials
    BY <1>2 DEF Credentials
  <2>3. Sent' = message(input["auth"])
    BY <1>1, <1>3 DEF Sent
  <2> HIDE DEF message
  <2>4. Typing'
    BY <1>1, <2>1 DEF ProtocolInv, Typing
  <2>5. AtPrompts'
    BY <2>1 DEF AtPrompts
  <2>6. WhileWaiting'
    BY <1>1, <2>1, <2>2, <2>3 DEF WhileWaiting
  <2> QED BY <1>4, <2>4, <2>5, <2>6 DEF ProtocolInv
<1> QED BY <1>5, <1>6

LEMMA HandleReadKeeps == ASSUME ProtocolInv, HandleRead PROVE ProtocolInv'
<1>1. /\ request # Nothing /\ request' = Nothing /\ call' = Dispatch(request)
      /\ UNCHANGED <<input, typed, id, shown>>
  BY DEF HandleRead
<1>2. screen = "waiting"
  BY <1>1 DEF ProtocolInv, AtPrompts
<1>3. /\ request = Sent /\ shown = Nothing
      /\ typed \in IF id = <<>> THEN Credentials ELSE Posts \cup Cancels \cup Questions
      /\ id # <<>> => input["menu"] = typed[1]
  BY <1>1, <1>2 DEF ProtocolInv, WhileWaiting
<1>4. id \in Optional(UInt64)
  BY DEF ProtocolInv, Typing
<1>5. call' = Meant /\ call' # Throw
  BY <1>1, <1>3, <1>4, OrderArrives
<1>6. Meant' = Meant
  BY <1>1 DEF Meant
<1>7. ShownIsAnswered'
  BY <1>1, <1>3 DEF ShownIsAnswered
<1>8. CASE LooksUpOldUser(call')
  <2>1. screen' = "failed" /\ UNCHANGED reply
    BY <1>8 DEF HandleRead
  <2>2. reply = Nothing
    BY <1>1, <1>2 DEF ProtocolInv, WhileWaiting
  <2>3. MayThrow'
    BY <1>8 DEF MayThrow, LooksUpOldUser
  <2>4. Typing'
    BY <1>1, <2>1 DEF ProtocolInv, Typing
  <2>5. AtPrompts'
    BY <1>1, <2>1, <2>2, <2>3 DEF AtPrompts
  <2>6. WhileWaiting'
    BY <2>1 DEF WhileWaiting
  <2> QED BY <1>7, <2>4, <2>5, <2>6 DEF ProtocolInv
<1>9. CASE ~LooksUpOldUser(call')
  <2>1. /\ answer' \in Answers(call') /\ reply' = ReplyTo(call', answer')
        /\ UNCHANGED screen
    BY <1>5, <1>9 DEF HandleRead
  <2>2. Typing'
    BY <1>1, <2>1 DEF ProtocolInv, Typing
  <2>3. AtPrompts'
    BY <1>2, <2>1 DEF AtPrompts
  <2>4. WhileWaiting'
    BY <1>1, <1>3, <1>5, <1>6, <2>1 DEF WhileWaiting
  <2> QED BY <1>7, <2>2, <2>3, <2>4 DEF ProtocolInv
<1> QED BY <1>8, <1>9

LEMMA OrderMeant ==
  ASSUME id # <<>>, typed \in Posts \cup Cancels \cup Questions
  PROVE  \/ typed[1] = 1 /\ Meant[1] = "PostOffer"
         \/ typed[1] = 2 /\ Meant[1] = "CancelOffer"
         \/ typed[1] = 3 /\ Meant = <<"GetQuotes">>
         \/ typed[1] = 4 /\ Meant[1] = "GetBalance"
         \/ typed[1] = 5 /\ Meant[1] = "GetActiveOffers"
         \/ typed[1] = 6 /\ Meant = <<"GetClosedDeals", id[1]>>
<1>1. typed[1] \in 1 .. 6
  BY DEF Posts, Cancels, Questions
<1>2. CASE typed[1] = 1
  BY <1>2 DEF Meant
<1>3. CASE typed[1] = 2
  BY <1>3 DEF Meant
<1>4. CASE typed[1] = 3
  BY <1>4 DEF Meant
<1>5. CASE typed[1] = 4
  BY <1>5 DEF Meant
<1>6. CASE typed[1] = 5
  BY <1>6 DEF Meant
<1>7. CASE typed[1] = 6
  BY <1>7 DEF Meant
<1> QED BY <1>1, <1>2, <1>3, <1>4, <1>5, <1>6, <1>7

\* Reports are sequences.
LEMMA ShortIsSeq ==
  ASSUME NEW R, NEW s \in Short(R)
  PROVE  s \in Seq(R)
<1>1. PICK n \in 0 .. MaxReported : s \in [1 .. n -> R]
  BY DEF Short
<1>2. n \in Nat
  BY ProtocolAssumption
<1> QED BY <1>1, <1>2, FunctionIsSeq

\* What is printed is what was answered, whatever was ordered.
LEMMA PrintedIsAnswered ==
  ASSUME id # <<>>, typed \in Posts \cup Cancels \cup Questions,
         call = Meant, answer \in Answers(call), reply = ReplyTo(call, answer)
  PROVE  LET values == Printed(typed[1], reply)
         IN /\ ~Failed(values)
            /\ shown' = values /\ call' = call /\ answer' = answer => ShownIsAnswered'
<1> DEFINE values == Printed(typed[1], reply)
           same == shown' = values /\ call' = call /\ answer' = answer
<1>1. CASE typed[1] = 1 /\ call[1] = "PostOffer"
  <2>1. reply = Text("Offer was posted.")
    BY <1>1 DEF ReplyTo
  <2>2. ~Failed(values)
    BY <1>1, <2>1, ShortPrinted
  <2>3. same => ShownIsAnswered'
    BY <1>1 DEF ShownIsAnswered
  <2> QED BY <2>2, <2>3
<1>2. CASE typed[1] = 2 /\ call[1] = "CancelOffer"
  <2>1. reply = Object([TYPE |-> Text("Cancel"), SUCCESS |-> Boolean(answer[1])])
    BY <1>2 DEF ReplyTo
  <2>2. values = <<"canceled", Boolean(answer[1])>> /\ ~Failed(values)
    BY <1>2, <2>1, ShortPrinted
  <2>3. same => ShownIsAnswered'
    BY <1>2, <2>2 DEF ShownIsAnswered
  <2> QED BY <2>2, <2>3
<1>3. CASE typed[1] = 3 /\ call = <<"GetQuotes">>
  <2>1. reply = QuotesReply(answer)
    BY <1>3 DEF ReplyTo
  <2>2. answer \in Answers(<<"GetQuotes">>)
    BY <1>3
  <2>3. /\ ~Failed(values)
        /\ values = <<"quotes", Maybe(answer.quote), Maybe(answer.ask), Maybe(answer.bid),
                      Maybe(answer.spread)>>
    BY <1>3, <2>1, <2>2, QuotesPrinted
  <2>4. same => ShownIsAnswered'
    BY <1>3, <2>3 DEF ShownIsAnswered, Maybe
  <2> QED BY <2>3, <2>4
<1>4. CASE typed[1] = 4 /\ call[1] = "GetBalance"
  <2>1. reply = BalanceReply(answer)
    BY <1>4 DEF ReplyTo
  <2>2. values = <<"balance", Integer(answer.usd), Integer(answer.rub)>> /\ ~Failed(values)
    BY <1>4, <2>1, ShortPrinted
  <2>3. same => ShownIsAnswered'
    BY <1>4, <2>2 DEF ShownIsAnswered
  <2> QED BY <2>2, <2>3
<1>5. CASE typed[1] = 5 /\ call[1] = "GetActiveOffers"
  <2> DEFINE R == [id : OfferIds, side : {"BUY", "SELL"}, price : Money, amount : Amounts]
  <2>1. reply = ActiveReply(answer)
    BY <1>5 DEF ReplyTo
  <2>2. answer \in {s \in Short(R) : \A i, j \in DOMAIN s : s[i].id = s[j].id => i = j}
    BY <1>5 DEF Answers
  <2> HIDE DEF R
  <2>3. answer \in Seq(R)
    BY <2>2, ShortIsSeq
  <2>4. /\ ~Failed(values)
        /\ Tells(values[2], OfferColumns(answer), {i \in DOMAIN answer : answer[i].side = "BUY"})
        /\ Tells(values[3], OfferColumns(answer), {i \in DOMAIN answer : answer[i].side = "SELL"})
    BY <1>5, <2>1, <2>3, OffersPrinted
  <2>5. same => ShownIsAnswered'
    BY <1>5, <2>4 DEF ShownIsAnswered, OfferColumns
  <2> QED BY <2>4, <2>5
<1>6. CASE typed[1] = 6 /\ call = <<"GetClosedDeals", id[1]>>
  <2> DEFINE R == [buyer : Present, seller : Present, price : Money, amount : Amounts]
             user == call[2]
             bought == {i \in DOMAIN answer : answer[i].buyer = user}
             sold == {i \in DOMAIN answer : answer[i].seller = user}
  <2>1. call[1] = "GetClosedDeals"
    BY <1>6
  <2>2. reply = ClosedReply(answer, user)
    BY <2>1 DEF ReplyTo
  <2>3. answer \in {s \in Short(R) : \A i \in DOMAIN s : user \in {s[i].buyer, s[i].seller}}
    BY <2>1 DEF Answers
  <2> HIDE DEF R
  <2>4. answer \in Seq(R) /\ \A i \in DOMAIN answer : user \in {answer[i].buyer, answer[i].seller}
    BY <2>3, ShortIsSeq
  <2> HIDE DEF user
  <2>5. /\ ~Failed(values)
        /\ Tells(values[2], DealColumns(answer), bought \ sold)
        /\ Tells(values[3], DealColumns(answer), sold \ bought)
        /\ Tells(values[4], DealColumns(answer), bought \cap sold)
    <3>1. values = Printed(6, ClosedReply(answer, user))
      BY <1>6, <2>2
    <3> HIDE DEF values
    <3> QED BY <2>4, <3>1, DealsPrinted, ZenonT(30)
  <2>6. same => ShownIsAnswered'
    BY <2>1, <2>5 DEF ShownIsAnswered, DealColumns, user
  <2> QED BY <2>5, <2>6
<1> QED BY <1>1, <1>2, <1>3, <1>4, <1>5, <1>6, OrderMeant

\* At the next prompt nothing is left of the order but the printed answer.
LEMMA NextPrompt ==
  ASSUME ProtocolInv, NEW next \in {"auth", "menu"}, Answered(next),
         id' \in Optional(UInt64), next = "auth" <=> id' = <<>>
  PROVE  Typing' /\ AtPrompts' /\ WhileWaiting'
<1>1. /\ reply # Nothing /\ reply' = Nothing /\ screen' = next /\ typed' = <<>>
      /\ input' = [p \in Prompts |-> 0] /\ UNCHANGED <<request, call, answer>>
  BY DEF Answered
<1>2. request = Nothing
  BY <1>1 DEF ProtocolInv, AtPrompts, WhileWaiting
<1>3. Typing'
  BY <1>1 DEF Typing, Prompts
<1>4. AtPrompts'
  BY <1>1, <1>2 DEF AtPrompts
<1>5. WhileWaiting'
  BY <1>1 DEF WhileWaiting
<1> QED BY <1>3, <1>4, <1>5

LEMMA PrintResultKeeps == ASSUME ProtocolInv, PrintResult PROVE ProtocolInv'
<1>1. id # <<>> /\ reply # Nothing /\ id' = id /\ UNCHANGED <<call, answer>>
  BY DEF PrintResult, Answered
<1>2. screen = "waiting"
  BY <1>1 DEF ProtocolInv, AtPrompts
<1>3. /\ typed \in Posts \cup Cancels \cup Questions /\ input["menu"] = typed[1]
      /\ call = Meant /\ answer \in Answers(call) /\ reply = ReplyTo(call, answer)
  BY <1>1, <1>2 DEF ProtocolInv, WhileWaiting
<1> DEFINE values == Printed(typed[1], reply)
<1>4. shown' = values /\ Answered(IF Failed(values) THEN "failed" ELSE "menu")
  BY <1>3 DEF PrintResult
<1>5. /\ ~Failed(values)
      /\ shown' = values /\ call' = call /\ answer' = answer => ShownIsAnswered'
  BY <1>1, <1>3, PrintedIsAnswered
<1>6. ShownIsAnswered'
  BY <1>1, <1>4, <1>5
<1>7. Answered("menu")
  BY <1>4, <1>5
<1>8. id' \in Optional(UInt64) /\ id' # <<>>
  BY <1>1 DEF ProtocolInv, Typing
<1>9. Typing' /\ AtPrompts' /\ WhileWaiting'
  BY <1>7, <1>8, NextPrompt
<1> QED BY <1>6, <1>9 DEF ProtocolInv

LEMMA ReadAuthKeeps == ASSUME ProtocolInv, ReadAuthResponse PROVE ProtocolInv'
<1>1. id = <<>> /\ reply # Nothing /\ UNCHANGED <<call, answer>>
  BY DEF ReadAuthResponse, Answered
<1>2. screen = "waiting"
  BY <1>1 DEF ProtocolInv, AtPrompts
<1>3. /\ typed \in Credentials
      /\ call = Meant /\ answer \in Answers(call) /\ reply = ReplyTo(call, answer)
  BY <1>1, <1>2 DEF ProtocolInv, WhileWaiting
<1>4. call[1] \in {"RegisterUser", "Login"}
  <2>1. typed[1] \in {1, 2}
    BY <1>3 DEF Credentials
  <2>2. CASE typed[1] = 1
    BY <1>1, <1>3, <2>2 DEF Meant
  <2>3. CASE typed[1] = 2
    BY <1>1, <1>3, <2>3 DEF Meant
  <2> QED BY <2>1, <2>2, <2>3
<1>5. answer \in Optional(UserIds)
  BY <1>3, <1>4 DEF Answers, Optional, Present
<1>6. PICK type : reply = UserReply(type, answer)
  BY <1>3, <1>4 DEF ReplyTo
<1> DEFINE success == ToBoolean(At(reply, "SUCCESS"))
           user == ToUnsigned(At(reply, "USER_ID"), LongRange)
           granted == success = Boolean(TRUE) /\ user # Throw
<1>7. /\ success = Boolean(answer # <<>>)
      /\ answer # <<>> => /\ user = Integer(answer[1])
                          /\ answer[1] \in UInt64 /\ answer = <<answer[1]>>
  BY <1>5, <1>6, AuthPrinted
<1>8. /\ Answered(CASE granted -> "menu"
                   [] success = Boolean(FALSE) -> "auth"
                   [] OTHER -> "failed")
      /\ shown' = <<"user", success>>
      /\ id' = IF granted THEN <<user[2]>> ELSE id
  BY DEF ReadAuthResponse
<1> HIDE DEF success, user
<1>9. Boolean(TRUE) # Boolean(FALSE)
  BY DEF Boolean
<1>10. CASE answer # <<>>
  <2>1. granted /\ user[2] = answer[1]
    <3>1. (answer # <<>>) = TRUE
      BY <1>10
    <3> QED BY <1>7, <1>10, <3>1, NoThrow
  <2>2. Answered("menu") /\ id' = answer
    <3>1. success # Boolean(FALSE)
      BY <1>9, <2>1
    <3>2. Answered("menu") /\ id' = <<user[2]>>
      BY <1>8, <2>1, <3>1
    <3> QED BY <1>7, <1>10, <2>1, <3>2
  <2>3. id' \in Optional(UInt64) /\ id' # <<>>
    BY <1>7, <1>10, <2>2 DEF Optional
  <2>4. Typing' /\ AtPrompts' /\ WhileWaiting'
    BY <2>2, <2>3, NextPrompt
  <2>5. ShownIsAnswered'
    BY <1>1, <1>4, <1>7, <1>8, <2>2 DEF ShownIsAnswered
  <2> QED BY <2>4, <2>5 DEF ProtocolInv
<1>11. CASE answer = <<>>
  <2>1. success = Boolean(FALSE)
    <3>1. (answer # <<>>) = FALSE
      BY <1>11
    <3> QED BY <1>7, <3>1
  <2>2. Answered("auth") /\ id' = <<>>
    BY <1>1, <1>8, <1>9, <2>1
  <2>3. id' \in Optional(UInt64)
    BY <2>2 DEF Optional
  <2>4. Typing' /\ AtPrompts' /\ WhileWaiting'
    BY <2>2, <2>3, NextPrompt
  <2>5. ShownIsAnswered'
    BY <1>1, <1>4, <1>7, <1>8, <1>11, <2>2 DEF ShownIsAnswered
  <2> QED BY <2>4, <2>5 DEF ProtocolInv
<1> QED BY <1>10, <1>11

LEMMA ProtocolStep == ASSUME ProtocolInv, [Next]_vars PROVE ProtocolInv'
<1>1. CASE UNCHANGED vars
  <2> USE <1>1 DEF vars
  <2>1. Typing'
    BY DEF ProtocolInv, Typing
  <2>2. AtPrompts'
    BY DEF ProtocolInv, AtPrompts, MayThrow, LooksUpOldUser
  <2>3. Meant' = Meant /\ Sent' = Sent
    BY DEF Meant, Sent
  <2>4. WhileWaiting'
    BY <2>3 DEF ProtocolInv, WhileWaiting
  <2>5. ShownIsAnswered'
    BY DEF ProtocolInv, ShownIsAnswered
  <2> QED BY <2>1, <2>2, <2>4, <2>5 DEF ProtocolInv
<1>2. ASSUME NEW n \in Int32, TypeNumber(n) PROVE ProtocolInv'
  BY <1>2, TypeNumberKeeps
<1>3. CASE TypeOther
  BY <1>3, TypeOtherKeeps
<1>4. ASSUME NEW name \in Names, NEW password \in Passwords, Authenticate(name, password)
      PROVE  ProtocolInv'
  BY <1>4, AuthenticateKeeps
<1>5. CASE HandleRead
  BY <1>5, HandleReadKeeps
<1>6. CASE PrintResult
  BY <1>6, PrintResultKeeps
<1>7. CASE ReadAuthResponse
  BY <1>7, ReadAuthKeeps
<1> QED BY <1>1, <1>2, <1>3, <1>4, <1>5, <1>6, <1>7 DEF Next

\* However the user types and whatever the market answers, at every prompt what
\* was accepted stands in its variable, and a message carries what was meant.
THEOREM ProtocolInvariant == Spec => []ProtocolInv
<1>1. Init => ProtocolInv
  BY ProtocolInit
<1>2. ProtocolInv /\ [Next]_vars => ProtocolInv'
  BY ProtocolStep
<1> QED BY <1>1, <1>2, PTL DEF Spec

-----------------------------------------------------------------------------
(* The properties *)

\* The server does what the user ordered, for that user, with the numbers he
\* typed, for all widths of the integers.
THEOREM OrdersAreDone == Spec => []OrderedIsDone
<1>1. ProtocolInv => OrderedIsDone
  BY DEF ProtocolInv, WhileWaiting, OrderedIsDone
<1> QED BY <1>1, ProtocolInvariant, PTL

\* No field access and no conversion throws, on either side: only a name that is
\* not UTF-8 and a user the market lacks make a program throw.
THEOREM OnlyTheseThrow == Spec => []NothingElseThrows
<1>1. ProtocolInv => NothingElseThrows
  BY DEF ProtocolInv, AtPrompts, NothingElseThrows
<1> QED BY <1>1, ProtocolInvariant, PTL

\* What is printed is what the market answered, in reports of any length.
THEOREM AnswersAreShown == Spec => []ShownIsAnswered
<1>1. ProtocolInv => ShownIsAnswered
  BY DEF ProtocolInv
<1> QED BY <1>1, ProtocolInvariant, PTL
=============================================================================
