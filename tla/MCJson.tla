------------------------------- MODULE MCJson -------------------------------
(* The readers on short sequences of well-chosen bytes, the writers and the *)
(* patches on a few documents.                                              *)
EXTENDS JsonLibrary

Structural == {0, 32, 34, 44, 45, 49, 58, 91, 93, 97, 110, 123, 125, 239}
Numeric == {0, 32, 43, 44, 45, 46, 48, 49, 57, 69, 93, 101}
InString == {0, 31, 32, 34, 92, 97, 98, 117, 127}
            \cup {128, 143, 144, 159, 160, 191, 193, 194, 223, 224, 225, 236, 237, 238,
                  239, 240, 241, 243, 244, 245}
HexBytes == {34, 48, 49, 56, 57, 65, 67, 68, 70, 71, 92, 97, 99, 100, 102, 117}

Start(s, alphabet, more) == [text |-> s, bytes |-> alphabet, more |-> more]
MCStarts == {
  Start(<<>>, Structural, 4),
  Start(<<91, 49>>, Structural, 3),
  Start(<<123, 34, 97, 34>>, Structural, 4),
  Start(<<123, 34, 97, 34, 58, 49>>, Structural, 3),
  Start(<<91>>, Numeric, 5),
  Start(<<34>>, InString, 4),
  Start(<<34, 92, 117>>, HexBytes, 4),
  Start(<<34, 92, 117, 100, 56, 52, 50>>, HexBytes, 4),
  Start(<<34, 92, 117, 68, 56, 51, 100, 92, 117, 100>>, HexBytes, 3),
  Start(<<116, 114, 117>>, {0, 32, 101, 110, 34}, 3),
  Start(<<102, 97, 108, 115>>, {0, 32, 101, 115, 93}, 3),
  Start(<<239, 187>>, {0, 32, 49, 187, 191}, 3)}

MCEndings == {<<>>, <<34>>, <<34, 93>>, <<93>>, <<125>>, <<49>>, <<0, 49>>, <<48, 48, 34>>}

\* Replies and requests with keys of a byte, and strings of every kind; and all
\* that is in them.
Dumped == {
  Object(<<97>> :> <<"boolean", TRUE>> @@ <<98>> :> Integer(12)),
  Object(<<66>> :> <<"array", <<Object(<<65>> :> Integer(1) @@ <<80>> :> Integer(-8)), EmptyObject>>>>
      @@ <<66, 83>> :> EmptyArray @@ <<83>> :> <<"array", <<Null, Integer(15)>>>>),
  Object(<<65>> :> Text(<<34, 92, 47, 10, 31, 0, 127>>) @@ <<>> :> <<"boolean", FALSE>>),
  Object(<<65>> :> Text(<<194, 128, 226, 130, 172, 240, 144, 128, 128>>)),
  Text(<<112, 111, 115, 116, 101, 100, 46>>), Integer(0), Integer(9), Integer(10), Null, EmptyArray}

RECURSIVE Parts(_), Depth(_)
PartsOf(v) == IF v[1] \in {"array", "object"} THEN {v[2][k] : k \in DOMAIN v[2]} ELSE {}
Parts(v) == {v} \cup UNION {Parts(w) : w \in PartsOf(v)}
Depth(v) == IF PartsOf(v) = {} THEN 0 ELSE 1 + Max({Depth(w) : w \in PartsOf(v)})
MCValues == UNION {Parts(v) : v \in Dumped}
MCNesting == [v \in MCValues |-> Depth(v)]

From(format, start, alphabet, more) ==
  [format |-> format, start |-> start, bytes |-> alphabet, more |-> more]
MCStreams == {
  From("cbor", <<>>, {0, 24, 33, 65, 95, 97, 130, 159, 161, 193, 216, 255}, 3),
  From("cbor", <<191, 97>>, {0, 65, 97, 127, 245, 255}, 4),
  From("cbor", <<95, 65>>, {1, 64, 65, 95, 255}, 4),
  From("cbor", <<58, 0, 1>>, {0, 1, 128, 249}, 2),
  From("msgpack", <<>>, {1, 129, 145, 161, 192, 193, 196, 199, 204, 208, 212, 217, 255}, 3),
  From("msgpack", <<220, 0>>, {0, 1, 2, 192}, 3),
  From("msgpack", <<222, 0>>, {0, 1, 160, 161}, 4),
  From("msgpack", <<130, 161, 97>>, {1, 161, 195, 217}, 4),
  From("msgpack", <<200, 0>>, {0, 1, 2, 255}, 4),
  From("msgpack", <<209>>, {0, 127, 128, 223, 224, 255}, 2),
  From("bson", <<0, 0, 0, 0>>, {0, 2, 3, 4, 8, 10, 97}, 4),
  From("bson", <<0, 0, 0, 0, 2, 97, 0, 2, 0, 0, 0>>, {0, 97}, 4),
  From("bson", <<0, 0, 0, 0, 5, 0, 1, 0, 0, 0>>, {0, 8, 255}, 4),
  From("bson", <<0, 0, 0, 0, 4, 97, 0, 9, 0, 0, 0, 8, 0>>, {0, 1, 10}, 5),
  From("ubjson", <<>>, {1, 67, 73, 78, 83, 84, 85, 91, 93, 105, 123, 125, 255}, 3),
  From("counted ubjson", <<91, 36>>, {1, 35, 78, 84, 85, 93, 105}, 4),
  From("typed ubjson", <<91>>, {2, 35, 78, 85, 93, 105}, 4),
  From("typed ubjson", <<123, 35, 105, 2>>, {1, 78, 84, 85, 105}, 4),
  From("ubjson", <<72, 105, 2>>, {45, 48, 49, 78, 110}, 2)}

Letters(n) == [i \in 1 .. n |-> 97]
MCDocuments == {
  Null, Integer(-33), EmptyArray, EmptyObject, Text(<<126, 49>>),
  Object(<<97>> :> Array([i \in 1 .. 12 |-> Integer(i * 11 - 45)])
      @@ <<126, 49, 47>> :> Object(<<47>> :> Null @@ <<126>> :> EmptyArray)),
  Object(<<97>> :> Array(<<Integer(-34), Object(<<98>> :> Boolean(TRUE) @@ <<>> :> Integer(65536))>>)
      @@ <<48>> :> Text(Letters(3))),
  Object(<<97>> :> Object(<<98>> :> Integer(-32769) @@ <<99>> :> Binary(<<0, 255>>, <<300>>))
      @@ <<98>> :> Binary(Letters(4), <<>>)),
  Object(<<48>> :> Text(Letters(32)) @@ <<49>> :> Boolean(FALSE)),
  Object(<<97>> :> Array(<<Boolean(TRUE), Boolean(TRUE)>>)
      @@ <<98>> :> Array(<<Integer(128), Integer(255)>>)
      @@ <<98, 97>> :> Array(<<Null, Object(<<97>> :> Array(<<EmptyArray>>))>>))}

\* "", "/a", "/a/0", "/a/1/b", "/a/11", "/a/-", "/a/01", "/a/b", "/~01~1/~1", "/0", "/a/b/c"
MCPointers == {
  <<>>, <<<<97>>>>, <<<<97>>, <<48>>>>, <<<<97>>, <<49>>, <<98>>>>, <<<<97>>, <<49, 49>>>>,
  <<<<97>>, <<45>>>>, <<<<97>>, <<48, 49>>>>, <<<<97>>, <<98>>>>, <<<<126, 49, 47>>, <<47>>>>,
  <<<<48>>>>, <<<<97>>, <<>>>>, <<<<97>>, <<98>>, <<99>>>>}
=============================================================================
