------------------------------ MODULE JsonValue -----------------------------
(***************************************************************************)
(* Values of the JSON library (src/src/json.h, basic_json) and the ways    *)
(* the program takes them apart: operator[], at, the conversions behind    *)
(* get<T>() and behind an argument of type T.  A value is a tuple of its   *)
(* type and its contents; floating-point values are read but never written *)
(* by the program and carry nothing but whether they are finite.  Throw is *)
(* an exception.                                                           *)
(***************************************************************************)
EXTENDS Integers, Sequences

Null == <<"null">>
Float == <<"float">>
Infinite == <<"infinite">>
Boolean(b) == <<"boolean", b>>
Integer(n) == <<"integer", n>>
Text(s) == <<"string", s>>
Object(members) == <<"object", members>>
Array(elements) == <<"array", elements>>
Throw == <<"throw">>

EmptyObject == Object([k \in {} |-> Null])
EmptyArray == Array(<<>>)

Is(v, type) == v[1] = type

\* at(key)
At(v, key) ==
  IF Is(v, "object") /\ key \in DOMAIN v[2] THEN v[2][key] ELSE Throw

\* operator[](key) of a value that may be changed: a missing key is inserted.
Subscript(v, key) ==
  CASE Is(v, "object") /\ key \in DOMAIN v[2] -> v[2][key]
    [] Is(v, "object") /\ key \notin DOMAIN v[2] -> Null
    [] Is(v, "null") -> Null
    [] OTHER -> Throw

\* Conversions to an unsigned type, a signed type (of 2 * range values), bool
\* and std::string.  No floating-point value reaches them.
ToUnsigned(v, range) == IF Is(v, "integer") THEN Integer(v[2] % (2 * range)) ELSE Throw
ToSigned(v, range) ==
  CASE Is(v, "integer") -> Integer(((v[2] + range) % (2 * range)) - range)
    [] Is(v, "boolean") -> Integer(IF v[2] THEN 1 ELSE 0)
    [] OTHER -> Throw
ToBoolean(v) == IF Is(v, "boolean") THEN v ELSE Throw
ToText(v) == IF Is(v, "string") THEN v ELSE Throw
=============================================================================
