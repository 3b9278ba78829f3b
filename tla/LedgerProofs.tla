---------------------------- MODULE LedgerProofs ----------------------------
(***************************************************************************)
(* The money of module Market, for every number of users, deals and        *)
(* deposits and every width of an int: the balance of a user is what his   *)
(* deposits and deals make it, and all balances together are what was      *)
(* deposited, although every sum may wrap.  Both rest on facts about sums  *)
(* over a finite set (SumFunctionOnSet of the community module Functions), *)
(* which are proved here by taking a smallest set that would refute them.  *)
(***************************************************************************)
EXTENDS MarketProofs, FiniteSetTheorems, WellFoundedInduction

-----------------------------------------------------------------------------
(* Sums over a finite set *)

\* Induction over finite sets, in the form of a smallest counterexample: a
\* property that fails for a subset of S fails for one all of whose proper
\* subsets have it.
LEMMA SmallestBad ==
  ASSUME NEW S, IsFiniteSet(S), NEW Bad, Bad \subseteq SUBSET S, Bad # {}
  PROVE  \E T \in Bad : /\ IsFiniteSet(T)
                        /\ \A U \in SUBSET T : U # T => U \notin Bad
<1>1. Bad \subseteq FiniteSubsetsOf(S) /\ \A T \in Bad : IsFiniteSet(T)
  BY FS_Subset DEF FiniteSubsetsOf
<1>2. PICK T \in Bad : \A U \in Bad : <<U, T>> \notin StrictSubsetOrdering(S)
  BY <1>1, FS_StrictSubsetOrderingWellFounded, WFMin
<1>3. ASSUME NEW U \in SUBSET T, U # T, U \in Bad PROVE FALSE
  BY <1>1, <1>2, <1>3 DEF StrictSubsetOrdering
<1> QED BY <1>1, <1>2, <1>3

\* The element that a fold takes first.
First(s) == CHOOSE x \in s : TRUE

\* The function a sum over S is computed with, on all subsets of S.
Sums(g, f, S) ==
  g = [s \in SUBSET S |-> IF s = {} THEN 0 ELSE f[First(s)] + g[s \ {First(s)}]]

\* What the operator of the library expands to.
LEMMA SumUnfold ==
  ASSUME NEW f, NEW S
  PROVE  SumFunctionOnSet(f, S) = (CHOOSE g : Sums(g, f, S))[S]
BY DEF SumFunctionOnSet, FoldFunctionOnSet, MapThenFoldSet, Sums, First

LEMMA SumsEquation ==
  ASSUME NEW f, NEW S, NEW g, Sums(g, f, S), NEW s \in SUBSET S
  PROVE  /\ s = {} => g[s] = 0
         /\ s # {} => /\ First(s) \in s
                      /\ s \ {First(s)} \in SUBSET S
                      /\ g[s] = f[First(s)] + g[s \ {First(s)}]
<1>1. s # {} => First(s) \in s
  BY DEF First
<1>2. DEFINE body(x) == IF x = {} THEN 0 ELSE f[First(x)] + g[x \ {First(x)}]
<1>3. g = [x \in SUBSET S |-> body(x)]
  BY DEF Sums
<1>4. g[s] = body(s)
  <2> HIDE DEF body
  <2> QED BY <1>3
<1> QED BY <1>1, <1>4

\* Two such functions agree wherever both are defined.
LEMMA SumsUnique ==
  ASSUME NEW f, NEW S, NEW T, NEW g, Sums(g, f, S), NEW h, Sums(h, f, T),
         IsFiniteSet(S), NEW s, s \in SUBSET S, s \in SUBSET T
  PROVE  g[s] = h[s]
<1> DEFINE Bad == {x \in SUBSET (S \cap T) : g[x] # h[x]}
<1>1. SUFFICES ASSUME Bad # {} PROVE FALSE
  OBVIOUS
<1>2. Bad \subseteq SUBSET S
  OBVIOUS
<1> HIDE DEF Bad
<1>3. PICK x \in Bad : \A U \in SUBSET x : U # x => U \notin Bad
  BY <1>1, <1>2, SmallestBad
<1>4. x \in SUBSET S /\ x \in SUBSET T /\ g[x] # h[x]
  BY DEF Bad
<1>5. x # {}
  BY <1>4, SumsEquation
<1>6. /\ First(x) \in x
      /\ g[x] = f[First(x)] + g[x \ {First(x)}]
      /\ h[x] = f[First(x)] + h[x \ {First(x)}]
  BY <1>4, <1>5, SumsEquation
<1>7. g[x \ {First(x)}] = h[x \ {First(x)}]
  BY <1>3, <1>4, <1>6 DEF Bad
<1> QED BY <1>4, <1>6, <1>7

\* There is such a function: the sums over the proper subsets of a set give
\* the one over the set.
LEMMA SumsExists ==
  ASSUME NEW f, NEW S, IsFiniteSet(S)
  PROVE  \E g : Sums(g, f, S)
<1> DEFINE Bad == {x \in SUBSET S : ~ \E g : Sums(g, f, x)}
           sum(x) == SumFunctionOnSet(f, x)
<1>1. SUFFICES ASSUME Bad # {} PROVE FALSE
  OBVIOUS
<1>2. PICK T \in Bad : IsFiniteSet(T) /\ \A U \in SUBSET T : U # T => U \notin Bad
  <2> HIDE DEF Bad
  <2>1. Bad \subseteq SUBSET S BY DEF Bad
  <2> QED BY <1>1, <2>1, SmallestBad
<1>3. ASSUME NEW U \in SUBSET T, U # T
      PROVE  Sums(CHOOSE g : Sums(g, f, U), f, U)
  <2>1. \E g : Sums(g, f, U)
    BY <1>2, <1>3
  <2> QED BY <2>1
<1>4. ASSUME NEW U \in SUBSET T, U # T, NEW V \in SUBSET U
      PROVE  sum(V) = (CHOOSE g : Sums(g, f, U))[V]
  <2>1. V \in SUBSET T /\ V # T
    BY <1>4
  <2>2. sum(V) = (CHOOSE g : Sums(g, f, V))[V]
    BY SumUnfold
  <2>3. IsFiniteSet(V)
    BY <1>2, <2>1, FS_Subset
  <2> DEFINE g == CHOOSE k : Sums(k, f, U)
             h == CHOOSE k : Sums(k, f, V)
  <2>4. Sums(g, f, U) /\ Sums(h, f, V)
    BY <1>3, <1>4, <2>1
  <2> HIDE DEF g, h
  <2>5. h[V] = g[V]
    BY <2>3, <2>4, SumsUnique
  <2> QED BY <2>2, <2>5 DEF g, h
<1>5. ASSUME NEW U \in SUBSET T, U # T
      PROVE  sum(U) = IF U = {} THEN 0 ELSE f[First(U)] + sum(U \ {First(U)})
  <2> DEFINE g == CHOOSE k : Sums(k, f, U)
  <2>1. Sums(g, f, U)
    BY <1>3, <1>5
  <2>2. \A V \in SUBSET U : sum(V) = g[V]
    BY <1>4, <1>5
  <2> HIDE DEF g, sum
  <2> QED BY <2>1, <2>2, SumsEquation
<1> DEFINE body(s) == IF s = {} THEN 0 ELSE f[First(s)] + sum(s \ {First(s)})
           g == [s \in SUBSET T |-> body(s)]
<1>6. ASSUME NEW s \in SUBSET T
      PROVE  body(s) = IF s = {} THEN 0 ELSE f[First(s)] + g[s \ {First(s)}]
  <2>1. CASE s = {}
    BY <2>1
  <2>2. CASE s # {}
    <3>1. First(s) \in s
      BY <2>2 DEF First
    <3>2. s \ {First(s)} \in SUBSET T /\ s \ {First(s)} # T
      BY <3>1
    <3> HIDE DEF sum
    <3>3. g[s \ {First(s)}] = sum(s \ {First(s)})
      BY <1>5, <3>2
    <3> QED BY <2>2, <3>3
  <2> QED BY <2>1, <2>2
<1>7. Sums(g, f, T)
  <2> HIDE DEF body
  <2>1. g = [s \in SUBSET T |-> body(s)]
    OBVIOUS
  <2> HIDE DEF g
  <2> QED BY <1>6, <2>1 DEF Sums
<1> QED BY <1>2, <1>7

\* What a sum is computed with gives the sums over the subsets too.
LEMMA SumsAreSums ==
  ASSUME NEW f, NEW S, IsFiniteSet(S)
  PROVE  \E g : Sums(g, f, S) /\ \A T \in SUBSET S : SumFunctionOnSet(f, T) = g[T]
<1>1. PICK g : Sums(g, f, S)
  BY SumsExists
<1>2. ASSUME NEW T \in SUBSET S
      PROVE  SumFunctionOnSet(f, T) = g[T]
  <2>1. IsFiniteSet(T)
    BY FS_Subset
  <2> DEFINE h == CHOOSE k : Sums(k, f, T)
  <2>2. Sums(h, f, T)
    BY <2>1, SumsExists
  <2>3. SumFunctionOnSet(f, T) = h[T]
    BY SumUnfold
  <2> HIDE DEF h
  <2> QED BY <1>1, <2>1, <2>2, <2>3, SumsUnique
<1> QED BY <1>1, <1>2

\* The equation of a sum: it takes its elements one by one.
LEMMA SumEquation ==
  ASSUME NEW f, NEW S, IsFiniteSet(S)
  PROVE  /\ S = {} => SumFunctionOnSet(f, S) = 0
         /\ S # {} => /\ First(S) \in S
                      /\ SumFunctionOnSet(f, S) =
                           f[First(S)] + SumFunctionOnSet(f, S \ {First(S)})
<1>1. PICK g : Sums(g, f, S) /\ \A T \in SUBSET S : SumFunctionOnSet(f, T) = g[T]
  BY SumsAreSums
<1> QED BY <1>1, SumsEquation

\* A sum of integers is an integer.
LEMMA SumType ==
  ASSUME NEW f, NEW S, IsFiniteSet(S), \A x \in S : f[x] \in Int
  PROVE  SumFunctionOnSet(f, S) \in Int
<1> DEFINE Bad == {T \in SUBSET S : SumFunctionOnSet(f, T) \notin Int}
<1>1. SUFFICES ASSUME Bad # {} PROVE FALSE
  OBVIOUS
<1>2. Bad \subseteq SUBSET S
  OBVIOUS
<1> HIDE DEF Bad
<1>3. PICK T \in Bad : IsFiniteSet(T) /\ \A U \in SUBSET T : U # T => U \notin Bad
  BY <1>1, <1>2, SmallestBad
<1>4. T \in SUBSET S /\ SumFunctionOnSet(f, T) \notin Int
  BY DEF Bad
<1>5. T # {} /\ First(T) \in T
  <2>1. 0 \in Int
    OBVIOUS
  <2>2. T # {}
    BY <1>3, <1>4, <2>1, SumEquation
  <2> QED BY <1>3, <2>2, SumEquation
<1>6. SumFunctionOnSet(f, T \ {First(T)}) \in Int
  BY <1>3, <1>4, <1>5 DEF Bad
<1> QED BY <1>3, <1>4, <1>5, <1>6, SumEquation

\* The order does not matter: any element may be taken first.
LEMMA SumTake ==
  ASSUME NEW f, NEW S, IsFiniteSet(S), \A x \in S : f[x] \in Int, NEW a \in S
  PROVE  SumFunctionOnSet(f, S) = f[a] + SumFunctionOnSet(f, S \ {a})
<1> DEFINE sum(T) == SumFunctionOnSet(f, T)
           Bad == {T \in SUBSET S : \E x \in T : sum(T) # f[x] + sum(T \ {x})}
<1>1. SUFFICES ASSUME Bad # {} PROVE FALSE
  OBVIOUS
<1>2. Bad \subseteq SUBSET S
  OBVIOUS
<1> HIDE DEF Bad
<1>3. PICK T \in Bad : IsFiniteSet(T) /\ \A U \in SUBSET T : U # T => U \notin Bad
  BY <1>1, <1>2, SmallestBad
<1>4. PICK x \in T : T \in SUBSET S /\ sum(T) # f[x] + sum(T \ {x})
  BY DEF Bad
<1>5. PICK y : y = First(T)
  OBVIOUS
<1>6. y \in T /\ sum(T) = f[y] + sum(T \ {y})
  BY <1>3, <1>4, <1>5, SumEquation
<1>7. x # y
  BY <1>4, <1>6
<1> DEFINE rest == T \ {x, y}
<1>8. /\ T \ {y} \notin Bad /\ x \in T \ {y} /\ (T \ {y}) \ {x} = rest
      /\ T \ {x} \notin Bad /\ y \in T \ {x} /\ (T \ {x}) \ {y} = rest
      /\ T \ {y} \in SUBSET S /\ T \ {x} \in SUBSET S
  BY <1>3, <1>4, <1>6, <1>7
<1>9. sum(T \ {y}) = f[x] + sum(rest) /\ sum(T \ {x}) = f[y] + sum(rest)
  BY <1>8 DEF Bad
<1>10. f[x] \in Int /\ f[y] \in Int /\ sum(rest) \in Int
  <2>1. rest \in SUBSET S
    BY <1>4
  <2> QED BY <1>4, <1>6, <2>1, FS_Subset, SumType
<1> HIDE DEF sum, rest
<1> QED BY <1>4, <1>6, <1>9, <1>10

\* A sum depends on the values at its indices only.
LEMMA SumSame ==
  ASSUME NEW f, NEW g, NEW S, IsFiniteSet(S), \A x \in S : f[x] = g[x]
  PROVE  SumFunctionOnSet(f, S) = SumFunctionOnSet(g, S)
<1> DEFINE Bad == {T \in SUBSET S : SumFunctionOnSet(f, T) # SumFunctionOnSet(g, T)}
<1>1. SUFFICES ASSUME Bad # {} PROVE FALSE
  OBVIOUS
<1>2. Bad \subseteq SUBSET S
  OBVIOUS
<1> HIDE DEF Bad
<1>3. PICK T \in Bad : IsFiniteSet(T) /\ \A U \in SUBSET T : U # T => U \notin Bad
  BY <1>1, <1>2, SmallestBad
<1>4. T \in SUBSET S /\ SumFunctionOnSet(f, T) # SumFunctionOnSet(g, T)
  BY DEF Bad
<1>5. T # {} /\ First(T) \in T
  BY <1>3, <1>4, SumEquation
<1>6. SumFunctionOnSet(f, T \ {First(T)}) = SumFunctionOnSet(g, T \ {First(T)})
  BY <1>3, <1>4, <1>5 DEF Bad
<1> QED BY <1>3, <1>4, <1>5, <1>6, SumEquation

\* A sum over one more index.
LEMMA SumAdd ==
  ASSUME NEW f, NEW S, IsFiniteSet(S), NEW a, a \notin S,
         \A x \in S \cup {a} : f[x] \in Int
  PROVE  SumFunctionOnSet(f, S \cup {a}) = f[a] + SumFunctionOnSet(f, S)
<1>1. IsFiniteSet(S \cup {a}) /\ (S \cup {a}) \ {a} = S
  BY FS_AddElement
<1> QED BY <1>1, SumTake

\* A sum of which one term changed.
LEMMA SumUpdate ==
  ASSUME NEW f, NEW g, NEW S, IsFiniteSet(S), NEW a \in S,
         \A x \in S : f[x] \in Int /\ g[x] \in Int,
         \A x \in S \ {a} : f[x] = g[x]
  PROVE  SumFunctionOnSet(g, S) = SumFunctionOnSet(f, S) + (g[a] - f[a])
<1>1. IsFiniteSet(S \ {a})
  BY FS_RemoveElement
<1>2. SumFunctionOnSet(f, S \ {a}) = SumFunctionOnSet(g, S \ {a})
  BY <1>1, SumSame
<1>3. /\ SumFunctionOnSet(f, S) = f[a] + SumFunctionOnSet(f, S \ {a})
      /\ SumFunctionOnSet(g, S) = g[a] + SumFunctionOnSet(g, S \ {a})
  BY SumTake
<1>4. SumFunctionOnSet(f, S \ {a}) \in Int
  BY <1>1, SumType
<1> QED BY <1>2, <1>3, <1>4


\* The same for the sum over all indices of a function.
LEMMA SumFunctionType ==
  ASSUME NEW f, IsFiniteSet(DOMAIN f), \A x \in DOMAIN f : f[x] \in Int
  PROVE  SumFunction(f) \in Int
BY SumType DEF SumFunction

\* A function with one more index, one of which one value changed, and one with
\* the same value at every index.
LEMMA SumFunctionAdd ==
  ASSUME NEW f, NEW g, IsFiniteSet(DOMAIN f), NEW a, a \notin DOMAIN f,
         DOMAIN g = DOMAIN f \cup {a}, \A x \in DOMAIN g : g[x] \in Int,
         \A x \in DOMAIN f : g[x] = f[x]
  PROVE  SumFunction(g) = SumFunction(f) + g[a]
<1>1. SumFunctionOnSet(g, DOMAIN f \cup {a}) = g[a] + SumFunctionOnSet(g, DOMAIN f)
  BY SumAdd
<1>2. SumFunctionOnSet(g, DOMAIN f) = SumFunctionOnSet(f, DOMAIN f)
  BY SumSame
<1>3. SumFunctionOnSet(f, DOMAIN f) \in Int /\ g[a] \in Int
  BY SumType
<1> QED BY <1>1, <1>2, <1>3 DEF SumFunction


LEMMA SumFunctionUpdate ==
  ASSUME NEW f, NEW g, IsFiniteSet(DOMAIN f), DOMAIN g = DOMAIN f,
         \A x \in DOMAIN f : f[x] \in Int /\ g[x] \in Int,
         NEW a \in DOMAIN f, \A x \in DOMAIN f \ {a} : g[x] = f[x]
  PROVE  SumFunction(g) = SumFunction(f) + (g[a] - f[a])
BY SumUpdate DEF SumFunction

LEMMA SumFunctionSame ==
  ASSUME NEW f, NEW g, IsFiniteSet(DOMAIN f), DOMAIN g = DOMAIN f,
         \A x \in DOMAIN f : g[x] = f[x]
  PROVE  SumFunction(g) = SumFunction(f)
BY SumSame DEF SumFunction
-----------------------------------------------------------------------------
(* Wrapping *)

Multiple(x) == \E k \in Int : x = k * (2 * HalfRange)

LEMMA MultipleSum ==
  ASSUME NEW x \in Int, NEW y \in Int, Multiple(x), Multiple(y)
  PROVE  Multiple(x + y) /\ Multiple(x - y)
<1> PICK j \in Int, k \in Int : x = j * (2 * HalfRange) /\ y = k * (2 * HalfRange)
  BY DEF Multiple
<1>1. HalfRange \in Int
  BY MarketAssumption
<1>2. x + y = (j + k) * (2 * HalfRange) /\ x - y = (j - k) * (2 * HalfRange)
  BY <1>1
<1>3. j + k \in Int /\ j - k \in Int
  OBVIOUS
<1> QED BY <1>2, <1>3 DEF Multiple

LEMMA MultipleZero == Multiple(0)
<1>1. 0 = 0 * (2 * HalfRange)
  BY MarketAssumption
<1> QED BY <1>1 DEF Multiple

LEMMA MultipleMoved ==
  ASSUME NEW x \in Int, NEW y \in Int, Multiple(x), Multiple(y - x)
  PROVE  Multiple(y)
<1>1. (y - x) + x = y
  OBVIOUS
<1> QED BY <1>1, MultipleSum

\* Wrapping takes away a multiple of the size of an int.
LEMMA WrapMultiple ==
  ASSUME NEW x \in Int
  PROVE  Multiple(x - Wrap(x)) /\ Multiple(Wrap(x) - x) /\ Wrap(x) \in Int
<1> DEFINE m == 2 * HalfRange
           y == x + HalfRange
           k == y \div m
<1>1. HalfRange \in Nat \ {0} /\ m \in Nat /\ m > 0 /\ y \in Int
  BY MarketAssumption
<1>2. k \in Int /\ y = k * m + (y % m) /\ y % m \in Int
  <2> HIDE DEF m, y
  <2> QED BY <1>1
<1>3. x - Wrap(x) = k * m /\ Wrap(x) - x = (-k) * m /\ -k \in Int
  BY <1>1, <1>2 DEF Wrap
<1>4. Wrap(x) \in Int
  BY <1>1, <1>2 DEF Wrap
<1> HIDE DEF k
<1> QED BY <1>2, <1>3, <1>4 DEF Multiple

\* An int is known by its value modulo the size.
LEMMA WrapUnique ==
  ASSUME NEW x \in IntValue, NEW y \in IntValue, Multiple(x - y)
  PROVE  x = y
<1> DEFINE m == 2 * HalfRange
<1>1. HalfRange \in Nat \ {0} /\ m \in Nat /\ m > 0
  BY MarketAssumption
<1>2. x \in Int /\ y \in Int /\ x - y < m /\ y - x < m
  BY <1>1 DEF IntValue
<1> PICK k \in Int : x - y = k * m
  BY DEF Multiple
<1> HIDE DEF m
<1>3. CASE k > 0
  <2>1. k * m >= m
    BY <1>1, <1>3
  <2> QED BY <1>1, <1>2, <2>1
<1>4. CASE k < 0
  <2>1. k * m <= -m
    BY <1>1, <1>4
  <2> QED BY <1>1, <1>2, <2>1
<1> QED BY <1>1, <1>2, <1>3, <1>4

\* Two numbers that differ by a multiple of the size wrap to the same int.
LEMMA WrapSame ==
  ASSUME NEW x \in Int, NEW y \in Int, Multiple(x - y)
  PROVE  Wrap(x) = Wrap(y)
<1> DEFINE v == Wrap(x)
           w == Wrap(y)
<1>1. v \in IntValue /\ w \in IntValue
  BY WrapType
<1>2. Multiple(x - v) /\ Multiple(y - w) /\ v \in Int /\ w \in Int
  BY WrapMultiple
<1> HIDE DEF v, w
<1>3. Multiple((x - y) - (x - v))
  BY <1>2, MultipleSum
<1>4. Multiple(((x - y) - (x - v)) + (y - w))
  BY <1>2, <1>3, MultipleSum
<1>5. ((x - y) - (x - v)) + (y - w) = v - w
  BY <1>2
<1> QED BY <1>1, <1>4, <1>5, WrapUnique DEF v, w

\* Wrapping after every addition is wrapping once: the overflows of a balance
\* do not depend on the order of its deposits and deals.
LEMMA WrapAdd ==
  ASSUME NEW x \in Int, NEW y \in Int
  PROVE  Wrap(Wrap(x) + y) = Wrap(x + y)
<1> DEFINE w == Wrap(x)
<1>1. Multiple(x - w) /\ w \in Int
  BY WrapMultiple
<1> HIDE DEF w
<1>2. (x + y) - (w + y) = x - w
  BY <1>1
<1> QED BY <1>1, <1>2, WrapSame DEF w

\* An int that did not change is as it was.
LEMMA WrapInt ==
  ASSUME NEW x \in IntValue
  PROVE  Wrap(x) = x /\ x \in Int
<1>1. x \in Int
  BY MarketAssumption DEF IntValue
<1> QED BY <1>1, WrapType, WrapMultiple, WrapUnique, MultipleSum DEF Multiple

\* The two ways to say that a number is a multiple.
LEMMA MultipleMod ==
  ASSUME NEW x \in Int
  PROVE  Multiple(x) <=> x % (2 * HalfRange) = 0
<1> DEFINE m == 2 * HalfRange
<1>1. HalfRange \in Nat \ {0} /\ m \in Nat /\ m > 0
  BY MarketAssumption
<1> HIDE DEF m
<1>2. ASSUME x % m = 0 PROVE \E k \in Int : x = k * m
  <2>1. x \div m \in Int /\ x = (x \div m) * m + (x % m)
    BY <1>1
  <2> QED BY <1>1, <1>2, <2>1
<1>3. ASSUME NEW k \in Int, x = k * m PROVE x % m = 0
  <2> DEFINE q == x \div m
             r == x % m
  <2>1. q \in Int /\ x = q * m + r /\ r \in Int /\ 0 <= r /\ r < m
    BY <1>1
  <2> HIDE DEF q, r
  <2>2. (k - q) * m = r
    BY <1>1, <1>3, <2>1
  <2>3. k - q = 0
    <3>1. CASE k - q > 0
      BY <1>1, <2>1, <2>2, <3>1
    <3>2. CASE k - q < 0
      BY <1>1, <2>1, <2>2, <3>2
    <3> QED BY <2>1, <3>1, <3>2
  <2> QED BY <1>1, <2>2, <2>3 DEF r
<1> QED BY <1>2, <1>3 DEF Multiple, m
-----------------------------------------------------------------------------
(* The steps that move money *)

\* Only deposits and deals touch a balance or what it is explained by.
LEMMA MoneySteps ==
  ASSUME [Next]_vars
  PROVE  \/ \E u \in Users, sum \in Deposits : DepositUSD(u, sum) \/ DepositRUB(u, sum)
         \/ \E p \in Prices : Trade(p)
         \/ UNCHANGED <<balance, closed, deals, deposited>>
BY DEF Next, Handler, Request, RegisterUser, RemoveOffer, PostOffer, GetAskBidQuotes,
       SkipExpired, PruneExpired, FindQuote, Rest, NoQuote, ReturnQuotes, userVars, vars

\* The numbers of one user's account.
LEMMA AccountTypes ==
  ASSUME TypeOK, NEW u \in Users
  PROVE  /\ balance[u].usd \in IntValue /\ balance[u].usd \in Int
         /\ balance[u].rub \in IntValue /\ balance[u].rub \in Int
         /\ deposited[u].usd \in Int /\ deposited[u].rub \in Int
<1>1. balance[u] \in Balance /\ deposited[u] \in [usd : Nat, rub : Nat]
  BY DEF TypeOK
<1>2. balance[u].usd \in IntValue /\ balance[u].rub \in IntValue
  BY <1>1 DEF Balance
<1>3. deposited[u].usd \in Nat /\ deposited[u].rub \in Nat
  BY <1>1
<1> QED BY <1>2, <1>3, WrapInt

\* What a deal brings a user.
LEMMA DealTypes ==
  ASSUME NEW deal \in Deal, NEW u
  PROVE  /\ deal.amount \in Int /\ deal.price \in Int
         /\ Bought(u, deal) \in Int /\ Sold(u, deal) \in Int
         /\ Bought(u, deal) - Sold(u, deal) \in Int
         /\ (Bought(u, deal) - Sold(u, deal)) * deal.price \in Int
         /\ u \notin {deal.buyer, deal.seller} \/ deal.buyer = deal.seller
              => Bought(u, deal) - Sold(u, deal) = 0
<1>1. deal.amount \in Nat /\ deal.price \in Prices
  BY DEF Deal
<1>2. deal.price \in Int
  BY <1>1, MarketAssumption
<1> DEFINE net == Bought(u, deal) - Sold(u, deal)
<1>3. /\ Bought(u, deal) \in Int /\ Sold(u, deal) \in Int /\ net \in Int
      /\ u \notin {deal.buyer, deal.seller} \/ deal.buyer = deal.seller => net = 0
  BY <1>1 DEF Bought, Sold
<1>4. net * deal.price \in Int
  <2> HIDE DEF net
  <2> QED BY <1>2, <1>3
<1> QED BY <1>1, <1>2, <1>3, <1>4

\* What the deals of one user sum up to are integers: he has a finite number of
\* them, and all are deals of the market.
LEMMA AccountSums ==
  ASSUME TypeOK, NEW u \in Users
  PROVE  /\ IsFiniteSet(closed[u])
         /\ \A d \in closed[u] : d \in 1 .. Len(deals) /\ deals[d] \in Deal
         /\ DOMAIN UsdOf(u) = closed[u] /\ DOMAIN RubOf(u) = closed[u]
         /\ \A d \in closed[u] : UsdOf(u)[d] \in Int /\ RubOf(u)[d] \in Int
         /\ SumFunction(UsdOf(u)) \in Int /\ SumFunction(RubOf(u)) \in Int
<1>1. /\ Len(deals) \in Nat /\ closed[u] \in SUBSET (1 .. Len(deals))
      /\ \A d \in 1 .. Len(deals) : deals[d] \in Deal
  BY DEF TypeOK
<1>2. IsFiniteSet(closed[u])
  <2>1. IsFiniteSet(1 .. Len(deals))
    BY <1>1, FS_Interval
  <2> QED BY <1>1, <2>1, FS_Subset
<1>3. DOMAIN UsdOf(u) = closed[u] /\ DOMAIN RubOf(u) = closed[u]
  BY DEF UsdOf, RubOf
<1>4. ASSUME NEW d \in closed[u]
      PROVE  UsdOf(u)[d] \in Int /\ RubOf(u)[d] \in Int
  <2> DEFINE net == Bought(u, deals[d]) - Sold(u, deals[d])
  <2>1. net \in Int /\ net * deals[d].price \in Int
    BY <1>1, DealTypes
  <2>2. UsdOf(u)[d] = net /\ RubOf(u)[d] = -(net * deals[d].price)
    BY DEF UsdOf, RubOf
  <2> HIDE DEF net
  <2> QED BY <2>1, <2>2
<1> QED BY <1>1, <1>2, <1>3, <1>4, SumFunctionType

\* RegisterDeal adds the new deal to the sums of its buyer and its seller.
LEMMA DealSums ==
  ASSUME TypeOK, TypeOK', NEW deal \in Deal, RegisterDeal(deal), NEW u \in Users
  PROVE  /\ SumFunction(UsdOf(u))' =
              SumFunction(UsdOf(u)) + (Bought(u, deal) - Sold(u, deal))
         /\ SumFunction(RubOf(u))' =
              SumFunction(RubOf(u)) - (Bought(u, deal) - Sold(u, deal)) * deal.price
<1> DEFINE new == Len(deals) + 1
           net == Bought(u, deal) - Sold(u, deal)
           cost == net * deal.price
<1>1. /\ Len(deals) \in Nat
      /\ deals'[new] = deal
      /\ \A d \in 1 .. Len(deals) : deals'[d] = deals[d]
      /\ closed'[u] = IF u \in {deal.buyer, deal.seller} THEN closed[u] \cup {new}
                      ELSE closed[u]
  BY AppendProperties DEF TypeOK, RegisterDeal
<1>2. /\ IsFiniteSet(closed[u]) /\ \A d \in closed[u] : d \in 1 .. Len(deals)
      /\ DOMAIN UsdOf(u) = closed[u] /\ DOMAIN RubOf(u) = closed[u]
      /\ SumFunction(UsdOf(u)) \in Int /\ SumFunction(RubOf(u)) \in Int
  BY AccountSums
<1>3. DOMAIN UsdOf(u)' = closed'[u] /\ DOMAIN RubOf(u)' = closed'[u]
  BY DEF UsdOf, RubOf
<1>4. \A d \in closed'[u] :
        /\ UsdOf(u)'[d] = Bought(u, deals'[d]) - Sold(u, deals'[d])
        /\ RubOf(u)'[d] = -((Bought(u, deals'[d]) - Sold(u, deals'[d])) * deals'[d].price)
  BY DEF UsdOf, RubOf
<1>5. \A d \in closed[u] : /\ d \in closed'[u]
                           /\ UsdOf(u)'[d] = UsdOf(u)[d]
                           /\ RubOf(u)'[d] = RubOf(u)[d]
  <2> SUFFICES ASSUME NEW d \in closed[u]
               PROVE  /\ d \in closed'[u]
                      /\ UsdOf(u)'[d] = UsdOf(u)[d]
                      /\ RubOf(u)'[d] = RubOf(u)[d]
    OBVIOUS
  <2>1. d \in closed'[u] /\ deals'[d] = deals[d]
    BY <1>1, <1>2
  <2> QED BY <2>1 DEF UsdOf, RubOf
<1>6. net \in Int /\ cost \in Int
  BY DealTypes
<1>7. CASE u \in {deal.buyer, deal.seller}
  <2>1. closed'[u] = closed[u] \cup {new} /\ new \notin closed[u]
    BY <1>1, <1>2, <1>7
  <2>2. UsdOf(u)'[new] = net /\ RubOf(u)'[new] = -cost
    BY <1>1, <1>4, <2>1
  <2> DEFINE f == UsdOf(u)
             g == RubOf(u)
  <2>3. \A d \in closed[u] : UsdOf(u)'[d] \in Int /\ RubOf(u)'[d] \in Int
    BY <1>5, AccountSums
  <2>4. /\ IsFiniteSet(DOMAIN f) /\ new \notin DOMAIN f /\ DOMAIN f' = DOMAIN f \cup {new}
        /\ IsFiniteSet(DOMAIN g) /\ new \notin DOMAIN g /\ DOMAIN g' = DOMAIN g \cup {new}
        /\ \A d \in DOMAIN f' : f'[d] \in Int
        /\ \A d \in DOMAIN g' : g'[d] \in Int
        /\ \A d \in DOMAIN f : f'[d] = f[d]
        /\ \A d \in DOMAIN g : g'[d] = g[d]
    <3> HIDE DEF new, net, cost
    <3> QED BY <1>2, <1>3, <1>5, <1>6, <2>1, <2>2, <2>3
  <2> HIDE DEF f, g, new, net, cost
  <2>5. SumFunction(f') = SumFunction(f) + f'[new]
    BY <2>4, SumFunctionAdd
  <2>6. SumFunction(g') = SumFunction(g) + g'[new]
    BY <2>4, SumFunctionAdd
  <2> QED BY <1>2, <1>6, <2>2, <2>5, <2>6 DEF f, g, net, cost
<1>8. CASE u \notin {deal.buyer, deal.seller}
  <2>1. closed'[u] = closed[u]
    BY <1>1, <1>8
  <2>2. \A d \in closed[u] : deals'[d] = deals[d]
    BY <1>1, <1>2
  <2>3. UsdOf(u)' = UsdOf(u)
    BY <2>1, <2>2 DEF UsdOf
  <2>4. RubOf(u)' = RubOf(u)
    BY <2>1, <2>2, <2>3 DEF RubOf
  <2>5. net = 0 /\ cost = 0
    <3>1. net = 0 /\ deal.price \in Int
      BY <1>8, DealTypes
    <3> HIDE DEF net
    <3> QED BY <3>1
  <2> HIDE DEF net, cost
  <2> QED BY <1>2, <2>3, <2>4, <2>5 DEF net, cost
<1> QED BY <1>7, <1>8
-----------------------------------------------------------------------------
(* Balances are explained by deposits and deals *)

LEMMA BalancesInit == Init => BalancesMatchDeals
<1> SUFFICES ASSUME Init, NEW u \in Users
             PROVE  /\ balance[u].usd = Wrap(deposited[u].usd + SumFunction(UsdOf(u)))
                    /\ balance[u].rub = Wrap(deposited[u].rub + SumFunction(RubOf(u)))
  BY DEF BalancesMatchDeals
<1>1. DOMAIN UsdOf(u) = {} /\ DOMAIN RubOf(u) = {}
  BY DEF Init, UsdOf, RubOf
<1>2. SumFunction(UsdOf(u)) = 0 /\ SumFunction(RubOf(u)) = 0
  BY <1>1, SumEquation, FS_EmptySet DEF SumFunction
<1>3. 0 \in IntValue
  BY MarketAssumption DEF IntValue
<1>4. Wrap(0) = 0
  BY <1>3, WrapInt
<1> QED BY <1>2, <1>4 DEF Init

\* A deposit adds the same to both sides.
LEMMA BalancesDeposit ==
  ASSUME MarketInv, BalancesMatchDeals, NEW v \in Users, NEW sum \in Deposits,
         DepositUSD(v, sum) \/ DepositRUB(v, sum)
  PROVE  BalancesMatchDeals'
<1> SUFFICES ASSUME NEW u \in Users
             PROVE  /\ balance'[u].usd = Wrap(deposited'[u].usd + SumFunction(UsdOf(u))')
                    /\ balance'[u].rub = Wrap(deposited'[u].rub + SumFunction(RubOf(u))')
  BY DEF BalancesMatchDeals
<1> DEFINE usd == SumFunction(UsdOf(u))
           rub == SumFunction(RubOf(u))
           usdBefore == deposited[u].usd + usd
           rubBefore == deposited[u].rub + rub
<1>1. usd' = usd /\ rub' = rub
  BY DEF DepositUSD, DepositRUB, UsdOf, RubOf
<1>2. balance[u].usd = Wrap(usdBefore) /\ balance[u].rub = Wrap(rubBefore)
  BY DEF BalancesMatchDeals
<1>3. usd \in Int /\ rub \in Int /\ deposited[u].usd \in Int /\ deposited[u].rub \in Int
  BY AccountTypes, AccountSums DEF MarketInv
<1>4. sum \in Int
  BY MarketAssumption
<1>5. /\ balance \in [Users -> Balance] /\ deposited \in [Users -> [usd : Nat, rub : Nat]]
  BY DEF MarketInv, TypeOK
<1> HIDE DEF usd, rub
<1>6. usdBefore \in Int /\ rubBefore \in Int
  BY <1>3
<1>7. CASE u = v /\ DepositUSD(v, sum)
  <2>1. /\ balance'[u].usd = Wrap(balance[u].usd + sum) /\ balance'[u].rub = balance[u].rub
        /\ deposited'[u].usd = deposited[u].usd + sum
        /\ deposited'[u].rub = deposited[u].rub
    BY <1>5, <1>7 DEF DepositUSD, Balance
  <2>2. Wrap(balance[u].usd + sum) = Wrap(usdBefore + sum)
    <3> HIDE DEF usdBefore
    <3> QED BY <1>2, <1>4, <1>6, WrapAdd
  <2>3. usdBefore + sum = (deposited[u].usd + sum) + usd
    BY <1>3, <1>4
  <2> QED BY <1>1, <1>2, <2>1, <2>2, <2>3 DEF usd, rub
<1>8. CASE u = v /\ DepositRUB(v, sum)
  <2>1. /\ balance'[u].rub = Wrap(balance[u].rub + sum) /\ balance'[u].usd = balance[u].usd
        /\ deposited'[u].rub = deposited[u].rub + sum
        /\ deposited'[u].usd = deposited[u].usd
    BY <1>5, <1>8 DEF DepositRUB, Balance
  <2>2. Wrap(balance[u].rub + sum) = Wrap(rubBefore + sum)
    <3> HIDE DEF rubBefore
    <3> QED BY <1>2, <1>4, <1>6, WrapAdd
  <2>3. rubBefore + sum = (deposited[u].rub + sum) + rub
    BY <1>3, <1>4
  <2> QED BY <1>1, <1>2, <2>1, <2>2, <2>3 DEF usd, rub
<1>9. CASE u # v
  <2>1. balance'[u] = balance[u] /\ deposited'[u] = deposited[u]
    BY <1>5, <1>9 DEF DepositUSD, DepositRUB
  <2> QED BY <1>1, <1>2, <2>1 DEF usd, rub
<1> QED BY <1>7, <1>8, <1>9

\* A deal adds to a balance what it adds to the sum over the user's deals.
LEMMA BalancesTrade ==
  ASSUME MarketInv, BalancesMatchDeals, NEW p \in Prices, Trade(p)
  PROVE  BalancesMatchDeals'
<1> PICK deal \in Deal : RegisterDeal(deal) /\ UNCHANGED deposited
  BY TradeParties DEF Trade
<1> SUFFICES ASSUME NEW u \in Users
             PROVE  /\ balance'[u].usd = Wrap(deposited'[u].usd + SumFunction(UsdOf(u))')
                    /\ balance'[u].rub = Wrap(deposited'[u].rub + SumFunction(RubOf(u))')
  BY DEF BalancesMatchDeals
<1> DEFINE usd == SumFunction(UsdOf(u))
           rub == SumFunction(RubOf(u))
           usdBefore == deposited[u].usd + usd
           rubBefore == deposited[u].rub + rub
           net == Bought(u, deal) - Sold(u, deal)
           cost == net * deal.price
<1>1. TypeOK /\ TypeOK'
  BY TradeInv DEF MarketInv
<1>2. usd' = usd + net /\ rub' = rub - cost
  BY <1>1, DealSums
<1>3. balance[u].usd = Wrap(usdBefore) /\ balance[u].rub = Wrap(rubBefore)
  BY DEF BalancesMatchDeals
<1>4. usd \in Int /\ rub \in Int /\ deposited[u].usd \in Int /\ deposited[u].rub \in Int
  BY <1>1, AccountTypes, AccountSums
<1>5. net \in Int /\ cost \in Int
  BY DealTypes
<1>6. balance'[u].usd = Wrap(balance[u].usd + net)
      /\ balance'[u].rub = Wrap(balance[u].rub - cost)
  BY DEF RegisterDeal, Settle
<1> HIDE DEF usd, rub, net, cost
<1>7. usdBefore \in Int /\ rubBefore \in Int /\ -cost \in Int
  BY <1>4, <1>5
<1>8. balance'[u].usd = Wrap(usdBefore + net)
  <2> HIDE DEF usdBefore
  <2> QED BY <1>3, <1>5, <1>6, <1>7, WrapAdd
<1>9. balance'[u].rub = Wrap(rubBefore + (-cost))
  <2>1. balance'[u].rub = Wrap(balance[u].rub + (-cost))
    BY <1>1, <1>5, <1>6, AccountTypes
  <2> HIDE DEF rubBefore
  <2> QED BY <1>3, <1>7, <2>1, WrapAdd
<1>10. /\ usdBefore + net = deposited'[u].usd + usd'
       /\ rubBefore + (-cost) = deposited'[u].rub + rub'
  BY <1>2, <1>4, <1>5
<1> QED BY <1>8, <1>9, <1>10 DEF usd, rub

LEMMA BalancesNext ==
  ASSUME MarketInv, BalancesMatchDeals, [Next]_vars
  PROVE  BalancesMatchDeals'
<1>1. CASE UNCHANGED <<balance, closed, deals, deposited>>
  BY <1>1 DEF BalancesMatchDeals, UsdOf, RubOf
<1> QED BY <1>1, MoneySteps, BalancesDeposit, BalancesTrade

\* In any reachable state and for every user, each balance is, in int
\* arithmetic, the sum of his deposits and of all the deals on his list, however
\* often it overflowed on the way and whether or not he traded with himself.
THEOREM BalancesExplained == Spec => []BalancesMatchDeals
BY BalancesInit, BalancesNext, Invariance, PTL DEF Spec
-----------------------------------------------------------------------------
(* Money is conserved *)

LEMMA MovedTypes ==
  ASSUME TypeOK
  PROVE  /\ DOMAIN UsdMoved = Users /\ DOMAIN RubMoved = Users
         /\ \A u \in Users : /\ UsdMoved[u] = balance[u].usd - deposited[u].usd
                             /\ RubMoved[u] = balance[u].rub - deposited[u].rub
                             /\ UsdMoved[u] \in Int /\ RubMoved[u] \in Int
<1>1. \A u \in Users : /\ UsdMoved[u] = balance[u].usd - deposited[u].usd
                       /\ RubMoved[u] = balance[u].rub - deposited[u].rub
  BY DEF UsdMoved, RubMoved
<1> QED BY <1>1, AccountTypes DEF UsdMoved, RubMoved

LEMMA MovedTypesNext ==
  ASSUME TypeOK'
  PROVE  /\ DOMAIN UsdMoved' = Users /\ DOMAIN RubMoved' = Users
         /\ \A u \in Users : /\ UsdMoved'[u] = balance'[u].usd - deposited'[u].usd
                             /\ RubMoved'[u] = balance'[u].rub - deposited'[u].rub
                             /\ UsdMoved'[u] \in Int /\ RubMoved'[u] \in Int
<1>1. \A u \in Users : /\ balance'[u] \in Balance
                       /\ deposited'[u] \in [usd : Nat, rub : Nat]
  BY DEF TypeOK
<1>2. \A u \in Users : /\ balance'[u].usd \in Int /\ balance'[u].rub \in Int
                       /\ deposited'[u].usd \in Int /\ deposited'[u].rub \in Int
  BY <1>1, WrapInt DEF Balance
<1> QED BY <1>2 DEF UsdMoved, RubMoved

\* A sum of which one term changed by a multiple.
LEMMA SumChange ==
  ASSUME NEW S, IsFiniteSet(S),
         NEW f, DOMAIN f = S, NEW g, DOMAIN g = S,
         \A x \in S : f[x] \in Int /\ g[x] \in Int,
         NEW a \in S, \A x \in S \ {a} : g[x] = f[x], Multiple(g[a] - f[a])
  PROVE  Multiple(SumFunction(g) - SumFunction(f))
<1>1. SumFunction(f) \in Int /\ SumFunction(g) = SumFunction(f) + (g[a] - f[a])
  BY SumUpdate, SumFunctionType DEF SumFunction
<1>2. SumFunction(g) - SumFunction(f) = g[a] - f[a]
  BY <1>1
<1> QED BY <1>2

\* A sum of which two terms changed, one by what the other lost and both by a
\* multiple more.
LEMMA SumExchange ==
  ASSUME NEW S, IsFiniteSet(S),
         NEW f, DOMAIN f = S, NEW g, DOMAIN g = S,
         \A x \in S : f[x] \in Int /\ g[x] \in Int,
         NEW a \in S, NEW b \in S, a # b, NEW gain \in Int,
         \A x \in S \ {a, b} : g[x] = f[x],
         Multiple((g[a] - f[a]) - gain), Multiple((g[b] - f[b]) + gain)
  PROVE  Multiple(SumFunction(g) - SumFunction(f))
<1> DEFINE h == [f EXCEPT ![a] = g[a]]
           before == SumFunctionOnSet(f, S)
           between == SumFunctionOnSet(h, S)
           after == SumFunctionOnSet(g, S)
<1>1. /\ DOMAIN h = S /\ h[a] = g[a] /\ h[b] = f[b]
      /\ \A x \in S \ {a} : h[x] = f[x]
      /\ \A x \in S : h[x] \in Int
  OBVIOUS
<1>2. before \in Int
  BY SumType
<1> HIDE DEF h
<1>3. between = before + (g[a] - f[a])
  BY <1>1, SumUpdate
<1>4. after = between + (g[b] - h[b])
  BY <1>1, SumUpdate
<1>5. after - before = ((g[a] - f[a]) - gain) + ((g[b] - f[b]) + gain)
  BY <1>1, <1>2, <1>3, <1>4
<1>6. Multiple(((g[a] - f[a]) - gain) + ((g[b] - f[b]) + gain))
  BY MultipleSum
<1> QED BY <1>5, <1>6 DEF SumFunction

LEMMA MovedMultiples ==
  ASSUME TypeOK, IsFiniteSet(Users)
  PROVE  MoneyConserved <=> /\ Multiple(SumFunction(UsdMoved))
                            /\ Multiple(SumFunction(RubMoved))
<1>1. SumFunction(UsdMoved) \in Int /\ SumFunction(RubMoved) \in Int
  BY MovedTypes, SumFunctionType
<1> QED BY <1>1, MultipleMod DEF MoneyConserved

LEMMA MoneyMoves ==
  ASSUME TypeOK, TypeOK', IsFiniteSet(Users), MoneyConserved,
         Multiple(SumFunction(UsdMoved)' - SumFunction(UsdMoved)),
         Multiple(SumFunction(RubMoved)' - SumFunction(RubMoved))
  PROVE  MoneyConserved'
<1> DEFINE usd == SumFunction(UsdMoved)
           rub == SumFunction(RubMoved)
<1>1. usd \in Int /\ rub \in Int /\ Multiple(usd) /\ Multiple(rub)
  BY MovedTypes, SumFunctionType, MovedMultiples
<1>2. usd' \in Int /\ rub' \in Int
  BY MovedTypesNext, SumFunctionType
<1>3. Multiple(usd') /\ Multiple(rub')
  BY <1>1, <1>2, MultipleMoved
<1> QED BY <1>2, <1>3, MultipleMod DEF MoneyConserved

LEMMA MoneyInit == IsFiniteSet(Users) /\ Init => MoneyConserved
<1> SUFFICES ASSUME IsFiniteSet(Users), Init PROVE MoneyConserved
  OBVIOUS
<1>1. TypeOK
  BY InitInv DEF MarketInv
<1> DEFINE Bad == {T \in SUBSET Users : \/ SumFunctionOnSet(UsdMoved, T) # 0
                                        \/ SumFunctionOnSet(RubMoved, T) # 0}
<1>2. Bad = {}
  <2> SUFFICES ASSUME Bad # {} PROVE FALSE
    OBVIOUS
  <2>1. Bad \subseteq SUBSET Users
    OBVIOUS
  <2> HIDE DEF Bad
  <2>2. PICK T \in Bad : IsFiniteSet(T) /\ \A U \in SUBSET T : U # T => U \notin Bad
    BY <2>1, SmallestBad
  <2>3. /\ T \in SUBSET Users
        /\ SumFunctionOnSet(UsdMoved, T) # 0 \/ SumFunctionOnSet(RubMoved, T) # 0
    BY DEF Bad
  <2>4. T # {} /\ First(T) \in T
    BY <2>2, <2>3, SumEquation
  <2>5. /\ SumFunctionOnSet(UsdMoved, T \ {First(T)}) = 0
        /\ SumFunctionOnSet(RubMoved, T \ {First(T)}) = 0
    BY <2>2, <2>3, <2>4 DEF Bad
  <2>6. UsdMoved[First(T)] = 0 /\ RubMoved[First(T)] = 0
    BY <2>3, <2>4 DEF Init, UsdMoved, RubMoved
  <2> QED BY <2>2, <2>3, <2>4, <2>5, <2>6, SumEquation
<1>3. SumFunction(UsdMoved) = 0 /\ SumFunction(RubMoved) = 0
  BY <1>2 DEF SumFunction, UsdMoved, RubMoved
<1> QED BY <1>1, <1>3, MovedMultiples, MultipleZero

\* A deposit moves nothing: balance and deposits grow together, modulo the size.
LEMMA MoneyDeposit ==
  ASSUME MarketInv, MarketInv', MoneyConserved, IsFiniteSet(Users),
         NEW v \in Users, NEW sum \in Deposits, DepositUSD(v, sum) \/ DepositRUB(v, sum)
  PROVE  MoneyConserved'
<1>1. TypeOK /\ TypeOK' /\ sum \in Int
  BY MarketAssumption DEF MarketInv
<1>2. /\ balance \in [Users -> Balance] /\ deposited \in [Users -> [usd : Nat, rub : Nat]]
  BY <1>1 DEF TypeOK
<1>3. /\ balance[v].usd \in Int /\ deposited[v].usd \in Int
      /\ balance[v].rub \in Int /\ deposited[v].rub \in Int
  BY <1>1, AccountTypes
<1> DEFINE usd == UsdMoved
           rub == RubMoved
<1>4. /\ DOMAIN usd = Users /\ DOMAIN rub = Users
      /\ \A u \in Users : usd[u] \in Int /\ rub[u] \in Int
  BY <1>1, MovedTypes
<1>5. /\ DOMAIN usd' = Users /\ DOMAIN rub' = Users
      /\ \A u \in Users : /\ usd'[u] = balance'[u].usd - deposited'[u].usd
                          /\ rub'[u] = balance'[u].rub - deposited'[u].rub
      /\ \A u \in Users : usd'[u] \in Int /\ rub'[u] \in Int
  BY <1>1, MovedTypesNext
<1>6. \A u \in Users \ {v} : usd'[u] = usd[u] /\ rub'[u] = rub[u]
  BY <1>2 DEF DepositUSD, DepositRUB, UsdMoved, RubMoved
<1>7. Multiple(usd'[v] - usd[v]) /\ Multiple(rub'[v] - rub[v])
  <2>1. usd[v] = balance[v].usd - deposited[v].usd /\ rub[v] = balance[v].rub - deposited[v].rub
    BY DEF UsdMoved, RubMoved
  <2>2. CASE DepositUSD(v, sum)
    <3>1. /\ balance'[v].usd = Wrap(balance[v].usd + sum) /\ balance'[v].rub = balance[v].rub
          /\ deposited'[v].usd = deposited[v].usd + sum
          /\ deposited'[v].rub = deposited[v].rub
      BY <1>2, <2>2 DEF DepositUSD, Balance
    <3> DEFINE x == balance[v].usd + sum
    <3>2. x \in Int
      BY <1>1, <1>3
    <3>3. Multiple(Wrap(x) - x) /\ Wrap(x) \in Int
      <4> HIDE DEF x
      <4> QED BY <3>2, WrapMultiple
    <3>4. usd'[v] - usd[v] = Wrap(x) - x /\ rub'[v] - rub[v] = 0
      BY <1>1, <1>3, <1>5, <2>1, <3>1, <3>3
    <3> QED BY <3>3, <3>4, MultipleZero
  <2>3. CASE DepositRUB(v, sum)
    <3>1. /\ balance'[v].rub = Wrap(balance[v].rub + sum) /\ balance'[v].usd = balance[v].usd
          /\ deposited'[v].rub = deposited[v].rub + sum
          /\ deposited'[v].usd = deposited[v].usd
      BY <1>2, <2>3 DEF DepositRUB, Balance
    <3> DEFINE x == balance[v].rub + sum
    <3>2. x \in Int
      BY <1>1, <1>3
    <3>3. Multiple(Wrap(x) - x) /\ Wrap(x) \in Int
      <4> HIDE DEF x
      <4> QED BY <3>2, WrapMultiple
    <3>4. rub'[v] - rub[v] = Wrap(x) - x /\ usd'[v] - usd[v] = 0
      BY <1>1, <1>3, <1>5, <2>1, <3>1, <3>3
    <3> QED BY <3>3, <3>4, MultipleZero
  <2> QED BY <2>2, <2>3
<1> QED
  <2> HIDE DEF usd, rub
  <2>1. Multiple(SumFunction(usd') - SumFunction(usd))
    BY <1>4, <1>5, <1>6, <1>7, SumChange
  <2>2. Multiple(SumFunction(rub') - SumFunction(rub))
    BY <1>4, <1>5, <1>6, <1>7, SumChange
  <2> QED BY <1>1, <2>1, <2>2, MoneyMoves DEF usd, rub

\* A deal moves money from its seller to its buyer, or nowhere.
LEMMA MoneyTrade ==
  ASSUME MarketInv, MarketInv', MoneyConserved, IsFiniteSet(Users),
         NEW p \in Prices, Trade(p)
  PROVE  MoneyConserved'
<1> PICK deal \in Deal : RegisterDeal(deal) /\ UNCHANGED deposited
  BY TradeParties DEF Trade
<1> DEFINE usd == UsdMoved
           rub == RubMoved
           net(u) == Bought(u, deal) - Sold(u, deal)
           cost(u) == net(u) * deal.price
           paid == deal.amount * deal.price
           b == deal.buyer
           s == deal.seller
<1>1. TypeOK /\ TypeOK'
  BY DEF MarketInv
<1>2. /\ DOMAIN usd = Users /\ DOMAIN rub = Users
      /\ \A u \in Users : /\ usd[u] = balance[u].usd - deposited[u].usd
                          /\ rub[u] = balance[u].rub - deposited[u].rub
      /\ \A u \in Users : usd[u] \in Int /\ rub[u] \in Int
  BY <1>1, MovedTypes
<1>3. /\ DOMAIN usd' = Users /\ DOMAIN rub' = Users
      /\ \A u \in Users : /\ usd'[u] = balance'[u].usd - deposited[u].usd
                          /\ rub'[u] = balance'[u].rub - deposited[u].rub
      /\ \A u \in Users : usd'[u] \in Int /\ rub'[u] \in Int
  BY <1>1, MovedTypesNext
<1>4. /\ b \in Users /\ s \in Users /\ deal.amount \in Int /\ deal.price \in Int
      /\ paid \in Int
  <2>1. b \in Users /\ s \in Users /\ deal.amount \in Int /\ deal.price \in Int
    BY DealTypes DEF Deal
  <2> QED BY <2>1
<1>5. \A u \in Users : /\ balance'[u].usd = Wrap(balance[u].usd + net(u))
                       /\ balance'[u].rub = Wrap(balance[u].rub - cost(u))
  BY DEF RegisterDeal, Settle
<1>6. ASSUME NEW u \in Users
      PROVE  /\ Multiple((usd'[u] - usd[u]) - net(u)) /\ net(u) \in Int
             /\ Multiple((rub'[u] - rub[u]) + cost(u)) /\ cost(u) \in Int
             /\ net(u) = 0 => usd'[u] = usd[u] /\ rub'[u] = rub[u]
  <2> DEFINE n == net(u)
             c == cost(u)
             x == balance[u].usd
             y == balance[u].rub
             d == deposited[u].usd
             e == deposited[u].rub
  <2>1. n \in Int /\ c \in Int
    BY DealTypes
  <2>2. x \in IntValue /\ y \in IntValue /\ x \in Int /\ y \in Int /\ d \in Int /\ e \in Int
    BY <1>1, AccountTypes
  <2>3. n = 0 => c = 0
    <3>1. c = n * deal.price
      OBVIOUS
    <3> HIDE DEF n, c
    <3> QED BY <1>4, <3>1
  <2>4. /\ usd'[u] = Wrap(x + n) - d /\ usd[u] = x - d
        /\ rub'[u] = Wrap(y - c) - e /\ rub[u] = y - e
    BY <1>2, <1>3, <1>5
  <2> HIDE DEF n, c, x, y, d, e, usd, rub
  <2>5. x + n \in Int /\ y - c \in Int
    BY <2>1, <2>2
  <2>6. /\ Multiple(Wrap(x + n) - (x + n)) /\ Wrap(x + n) \in Int
        /\ Multiple(Wrap(y - c) - (y - c)) /\ Wrap(y - c) \in Int
    BY <2>5, WrapMultiple
  <2>7. /\ (usd'[u] - usd[u]) - n = Wrap(x + n) - (x + n)
        /\ (rub'[u] - rub[u]) + c = Wrap(y - c) - (y - c)
    BY <2>1, <2>2, <2>4, <2>6
  <2>8. n = 0 => usd'[u] = usd[u] /\ rub'[u] = rub[u]
    <3> SUFFICES ASSUME n = 0 PROVE usd'[u] = usd[u] /\ rub'[u] = rub[u]
      OBVIOUS
    <3>1. x + n = x /\ y - c = y
      BY <2>2, <2>3
    <3> QED BY <2>2, <2>4, <3>1, WrapInt
  <2> QED BY <2>1, <2>6, <2>7, <2>8 DEF n, c
<1>7. \A u \in Users \ {b, s} : usd'[u] = usd[u] /\ rub'[u] = rub[u]
  <2>1. \A u \in Users \ {b, s} : net(u) = 0
    BY DealTypes
  <2> HIDE DEF usd, rub, net
  <2> QED BY <1>6, <2>1
<1>8. CASE b = s
  <2>1. net(b) = 0
    BY <1>8, DealTypes
  <2>2. usd'[b] - usd[b] = 0 /\ rub'[b] - rub[b] = 0
    <3> HIDE DEF usd, rub, net, b
    <3> QED BY <1>2, <1>3, <1>4, <1>6, <2>1
  <2> HIDE DEF usd, rub, b, s
  <2>3. Multiple(usd'[b] - usd[b]) /\ Multiple(rub'[b] - rub[b])
    BY <2>2, MultipleZero
  <2>4. \A u \in Users \ {b} : usd'[u] = usd[u] /\ rub'[u] = rub[u]
    BY <1>7, <1>8
  <2>5. Multiple(SumFunction(usd') - SumFunction(usd))
    BY <1>2, <1>3, <1>4, <2>3, <2>4, SumChange
  <2>6. Multiple(SumFunction(rub') - SumFunction(rub))
    BY <1>2, <1>3, <1>4, <2>3, <2>4, SumChange
  <2> QED BY <1>1, <2>5, <2>6, MoneyMoves DEF usd, rub
<1>9. CASE b # s
  <2>1. /\ net(b) = deal.amount /\ net(s) = -deal.amount
        /\ cost(b) = paid /\ cost(s) = -paid
    <3>1. net(b) = deal.amount /\ net(s) = -deal.amount
      BY <1>4, <1>9 DEF Bought, Sold
    <3> HIDE DEF net
    <3> QED BY <1>4, <3>1
  <2>2. /\ Multiple((usd'[b] - usd[b]) - deal.amount)
        /\ Multiple((usd'[s] - usd[s]) + deal.amount)
        /\ Multiple((rub'[s] - rub[s]) - paid)
        /\ Multiple((rub'[b] - rub[b]) + paid)
    <3>1. /\ Multiple((usd'[b] - usd[b]) - net(b)) /\ Multiple((rub'[b] - rub[b]) + cost(b))
          /\ Multiple((usd'[s] - usd[s]) - net(s)) /\ Multiple((rub'[s] - rub[s]) + cost(s))
      BY <1>4, <1>6
    <3> HIDE DEF usd, rub, net, cost, b, s, paid
    <3>2. /\ (usd'[b] - usd[b]) - net(b) = (usd'[b] - usd[b]) - deal.amount
          /\ (usd'[s] - usd[s]) - net(s) = (usd'[s] - usd[s]) + deal.amount
          /\ (rub'[b] - rub[b]) + cost(b) = (rub'[b] - rub[b]) + paid
          /\ (rub'[s] - rub[s]) + cost(s) = (rub'[s] - rub[s]) - paid
      BY <1>2, <1>3, <1>4, <2>1
    <3> QED BY <3>1, <3>2
  <2>3. /\ DOMAIN usd = Users /\ DOMAIN usd' = Users
        /\ DOMAIN rub = Users /\ DOMAIN rub' = Users
        /\ \A u \in Users : usd[u] \in Int /\ usd'[u] \in Int
        /\ \A u \in Users : rub[u] \in Int /\ rub'[u] \in Int
        /\ \A u \in Users \ {b, s} : usd'[u] = usd[u]
        /\ \A u \in Users \ {s, b} : rub'[u] = rub[u]
    BY <1>2, <1>3, <1>7
  <2> HIDE DEF usd, rub, b, s, paid
  <2>4. Multiple(SumFunction(usd') - SumFunction(usd))
    BY <1>4, <1>9, <2>2, <2>3, SumExchange
  <2>5. Multiple(SumFunction(rub') - SumFunction(rub))
    BY <1>4, <1>9, <2>2, <2>3, SumExchange
  <2> QED BY <1>1, <2>4, <2>5, MoneyMoves DEF usd, rub
<1> QED BY <1>8, <1>9

LEMMA MoneyNext ==
  ASSUME IsFiniteSet(Users), MarketInv, MarketInv', MoneyConserved, [Next]_vars
  PROVE  MoneyConserved'
<1>1. CASE UNCHANGED <<balance, closed, deals, deposited>>
  BY <1>1 DEF MoneyConserved, UsdMoved, RubMoved
<1> QED BY <1>1, MoneySteps, MoneyDeposit, MoneyTrade

\* Whatever a finite number of users post, cancel and deposit, no money appears
\* or is lost: their balances add up to their deposits modulo the size of an int,
\* in dollars and in roubles.
THEOREM MoneyKept ==
  ASSUME IsFiniteSet(Users)
  PROVE  Spec => []MoneyConserved
<1>1. Init => MoneyConserved
  BY MoneyInit
<1>2. MarketInv /\ MarketInv' /\ MoneyConserved /\ [Next]_vars => MoneyConserved'
  BY MoneyNext
<1> QED BY <1>1, <1>2, Invariance, PTL DEF Spec
=============================================================================
