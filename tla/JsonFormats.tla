----------------------------- MODULE JsonFormats ----------------------------
(***************************************************************************)
(* The four binary formats of the JSON library side by side, UBJSON with   *)
(* the three ways of writing a container.                                  *)
(***************************************************************************)
EXTENDS Cbor, MsgPack, Bson, Ubjson

Formats == {"cbor", "msgpack", "bson", "ubjson", "counted ubjson", "typed ubjson"}
IsUbjson(format) == format \in Formats \ {"cbor", "msgpack", "bson"}

EncodeAs(format, v) ==
  CASE format = "cbor" -> ToCbor(v)
    [] format = "msgpack" -> ToMsgPack(v)
    [] format = "bson" -> ToBson(v)
    [] format = "ubjson" -> ToUbjson(v, FALSE, FALSE)
    [] format = "counted ubjson" -> ToUbjson(v, TRUE, FALSE)
    [] format = "typed ubjson" -> ToUbjson(v, TRUE, TRUE)

\* Tags of CBOR are kept as subtypes: no other way of reading them keeps them.
DecodeAs(format, s) ==
  CASE format = "cbor" -> FromCbor(s, "store")
    [] format = "msgpack" -> FromMsgPack(s)
    [] format = "bson" -> FromBson(s)
    [] IsUbjson(format) -> FromUbjson(s)

\* What a format makes of a binary value: the type of MessagePack and BSON is a
\* byte, which BSON always has, and UBJSON has arrays of numbers instead.
NormalBinary(format, v) ==
  CASE format = "cbor" -> v
    [] format = "msgpack" -> Binary(v[2], [i \in DOMAIN v[3] |-> v[3][i] % 256])
    [] format = "bson" -> Binary(v[2], <<IF v[3] = <<>> THEN 0 ELSE v[3][1] % 256>>)
    [] IsUbjson(format) -> Array([i \in DOMAIN v[2] |-> Integer(v[2][i])])

RECURSIVE Normal(_, _)
Normal(format, v) ==
  CASE Is(v, "binary") -> NormalBinary(format, v)
    [] Is(v, "array") -> Array([i \in DOMAIN v[2] |-> Normal(format, v[2][i])])
    [] Is(v, "object") -> Object([key \in DOMAIN v[2] |-> Normal(format, v[2][key])])
    [] OTHER -> v

RECURSIVE HasFloat(_)
HasFloat(v) ==
  CASE Is(v, "array") -> \E i \in DOMAIN v[2] : HasFloat(v[2][i])
    [] Is(v, "object") -> \E key \in DOMAIN v[2] : HasFloat(v[2][key])
    [] OTHER -> v = Float
=============================================================================
