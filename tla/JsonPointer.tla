----------------------------- MODULE JsonPointer ----------------------------
(***************************************************************************)
(* JSON pointers in the JSON library (src/src/json.h, json_pointer and the *)
(* functions of basic_json they call).  A pointer is a sequence of tokens, *)
(* and a token names a member of an object or an element of an array.      *)
(*                                                                         *)
(* A reference into a value that is assigned through is modelled by the    *)
(* value that the assignment leaves: Place, Create.                        *)
(***************************************************************************)
EXTENDS JsonWriter

Tilde == 126
Slash == 47
Dash == <<45>>
-----------------------------------------------------------------------------
(* Pointers and their text *)

\* replace_substring
RECURSIVE Replaced(_, _, _)
Replaced(s, from, to) ==
  CASE s = <<>> -> <<>>
    [] s # <<>> /\ IsPrefix(from, s) ->
         to \o Replaced(SubSeq(s, Len(from) + 1, Len(s)), from, to)
    [] OTHER -> <<Head(s)>> \o Replaced(Tail(s), from, to)

\* Mutant of EscapeToken: the slash is escaped first.
EscapeSlashFirst(token) == Replaced(Replaced(token, <<Slash>>, <<Tilde, 49>>), <<Tilde>>, <<Tilde, 48>>)

\* escape and unescape: the orders are each other's reverse.
EscapeToken(token) == Replaced(Replaced(token, <<Tilde>>, <<Tilde, 48>>), <<Slash>>, <<Tilde, 49>>)
UnescapeToken(token) == Replaced(Replaced(token, <<Tilde, 49>>, <<Slash>>), <<Tilde, 48>>, <<Tilde>>)

\* path + "/" + token
Below(path, token) == path \o <<Slash>> \o EscapeToken(token)
BelowIndex(path, i) == path \o <<Slash>> \o DumpInteger(i - 1)
PointerText(tokens) == FoldLeft(Below, <<>>, tokens)

\* split: the tokens between slashes, where "~" stands before "0" and "1" only.
RECURSIVE Tokens(_)
Tokens(s) ==
  IF Slash \notin Range(s) THEN <<s>>
  ELSE LET slash == SelectInSeq(s, LAMBDA c : c = Slash)
       IN <<SubSeq(s, 1, slash - 1)>> \o Tokens(SubSeq(s, slash + 1, Len(s)))
WellEscaped(token) ==
  \A i \in DOMAIN token :
    token[i] = Tilde => i < Len(token) /\ token[i + 1] \in {48, 49}
Split(reference) ==
  CASE reference = <<>> -> <<"pointer", <<>>>>
    [] reference # <<>> /\ Head(reference) = Slash /\ (\A i \in DOMAIN Tokens(Tail(reference)) :
                                                         WellEscaped(Tokens(Tail(reference))[i])) ->
         <<"pointer", [i \in DOMAIN Tokens(Tail(reference)) |->
                         UnescapeToken(Tokens(Tail(reference))[i])]>>
    [] OTHER -> Throw

\* array_index: a decimal number without leading zeros.
ArrayIndex(token) ==
  IF /\ token # <<>> /\ Range(token) \subseteq Digit
     /\ Len(token) > 1 => token[1] # 48
  THEN Integer(FoldLeft(LAMBDA n, c : 10 * n + (c - 48), 0, token))
  ELSE Throw
-----------------------------------------------------------------------------
(* Elements of an array, by an index that counts from 0 *)

\* at(size_type)
AtIndex(v, n) == IF n < Len(v[2]) THEN v[2][n + 1] ELSE Throw

\* operator[](size_type): an array is filled up with null.
SubscriptIndex(v, n) == IF n < Len(v[2]) THEN v[2][n + 1] ELSE Null
AssignIndex(v, n, x) ==
  Array(SubSeq(v[2], 1, Min({n, Len(v[2])}))
          \o [i \in 1 .. Max({0, n - Len(v[2])}) |-> Null]
          \o <<x>> \o SubSeq(v[2], n + 2, Len(v[2])))
-----------------------------------------------------------------------------
(* What a pointer leads to *)

\* get_checked, of a constant value
ResolveToken(v, token) ==
  LET index == ArrayIndex(token)
  IN CASE Is(v, "object") -> At(v, token)
       [] Is(v, "array") /\ Is(index, "integer") -> AtIndex(v, index[2])
       [] OTHER -> Throw
Resolve(v, tokens) == FoldLeft(ResolveToken, v, tokens)

\* contains: "-" and what is no number are no elements; of an empty token
\* array_index throws.
RECURSIVE HasPointer(_, _)
HasPointer(v, tokens) ==
  CASE tokens = <<>> -> Boolean(TRUE)
    [] tokens # <<>> /\ Is(v, "object") ->
         IF Head(tokens) \in DOMAIN v[2] THEN HasPointer(v[2][Head(tokens)], Tail(tokens))
         ELSE Boolean(FALSE)
    [] tokens # <<>> /\ Is(v, "array") ->
         LET token == Head(tokens)
             index == ArrayIndex(token)
         IN CASE token = <<>> -> Throw
              [] token # <<>> /\ Is(index, "integer") ->
                   IF index[2] < Len(v[2]) THEN HasPointer(v[2][index[2] + 1], Tail(tokens))
                   ELSE Boolean(FALSE)
              [] OTHER -> Boolean(FALSE)
    [] OTHER -> Boolean(FALSE)

\* operator[](token) of a container, and the container with x in that place.
Child(v, token) ==
  LET index == ArrayIndex(token)
  IN CASE Is(v, "object") -> Subscript(v, token)
       [] Is(v, "array") /\ Is(index, "integer") -> SubscriptIndex(v, index[2])
       [] OTHER -> Throw
WithChild(v, token, x) ==
  LET index == ArrayIndex(token)
  IN IF Is(x, "throw") THEN Throw
     ELSE CASE Is(v, "object") -> Object(token :> x @@ v[2])
            [] Is(v, "array") /\ Is(index, "integer") -> AssignIndex(v, index[2], x)
            [] OTHER -> Throw

\* get_checked, of a value where x is assigned to what the pointer leads to.
RECURSIVE Place(_, _, _)
Place(v, tokens, x) ==
  CASE tokens = <<>> -> x
    [] tokens # <<>> /\ Is(ResolveToken(v, Head(tokens)), "throw") -> Throw
    [] OTHER ->
         WithChild(v, Head(tokens), Place(ResolveToken(v, Head(tokens)), Tail(tokens), x))

\* get_and_create: null becomes an array where the token is "0", and an object
\* everywhere else.
RECURSIVE Create(_, _, _)
Create(v, tokens, x) ==
  IF tokens = <<>> THEN x
  ELSE LET holder == CASE ~Is(v, "null") -> v
                       [] Is(v, "null") /\ Head(tokens) = <<48>> -> EmptyArray
                       [] Is(v, "null") /\ Head(tokens) # <<48>> -> EmptyObject
       IN WithChild(holder, Head(tokens), Create(Child(holder, Head(tokens)), Tail(tokens), x))
-----------------------------------------------------------------------------
(* flatten and unflatten *)

\* flatten: a member per primitive value, and null for what is empty.
RECURSIVE FlattenAt(_, _)
FlattenAt(reference, v) ==
  CASE v \in {EmptyArray, EmptyObject} -> reference :> Null
    [] Is(v, "array") /\ v # EmptyArray ->
         FoldLeft(LAMBDA members, i : FlattenAt(BelowIndex(reference, i), v[2][i]) @@ members,
                  EmptyObject[2], [i \in DOMAIN v[2] |-> i])
    [] Is(v, "object") /\ v # EmptyObject ->
         FoldLeft(LAMBDA members, key : FlattenAt(Below(reference, key), v[2][key]) @@ members,
                  EmptyObject[2], SortedKeys(v[2]))
    [] OTHER -> reference :> v
Flatten(v) == Object(FlattenAt(<<>>, v))

\* Mutant of UnflattenMember: the text of the pointer is one token.
UnflattenWholeKey(result, key, x) == Create(result, <<key>>, x)

UnflattenMember(result, key, x) ==
  IF Is(x, "object") \/ Is(x, "array") \/ Is(Split(key), "throw") THEN Throw
  ELSE Create(result, Split(key)[2], x)
Unflatten(v) ==
  IF ~Is(v, "object") THEN Throw
  ELSE FoldLeft(LAMBDA result, key : IF Is(result, "throw") THEN Throw
                                     ELSE UnflattenMember(result, key, v[2][key]),
                Null, SortedKeys(v[2]))
=============================================================================
