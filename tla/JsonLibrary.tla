---------------------------- MODULE JsonLibrary -----------------------------
(***************************************************************************)
(* The rest of what the JSON library (src/src/json.h) does with values,    *)
(* beside JsonReading: bytes of a binary format arrive, either any bytes   *)
(* or those of a value that was encoded, and the patch that diff makes of  *)
(* two documents is applied to the first, one operation after the other.   *)
(***************************************************************************)
EXTENDS JsonReading, JsonFormats, JsonPatch

CONSTANTS
  Endings,    \* continuations by which two texts are told apart
  Streams,    \* beginnings: [format, start, bytes, more], as Starts has them
  Documents,  \* values that are encoded and compared
  Pointers    \* sequences of tokens that are looked up in documents

ASSUME LibraryAssumption ==
  /\ Endings \subseteq Seq(Byte)
  /\ \A stream \in Streams : stream.format \in Formats /\ stream.bytes \subseteq Byte

G == INSTANCE JsonGrammar WITH NumberLimit <- FloatLimit

VARIABLES
  job,      \* <<"none">>, <<"stream", stream>>, <<"encoding", format, value, bytes>>
            \* or <<"patch", source, target, operations>>
  bytes,    \* the bytes that have arrived
  document  \* the document that is being patched

libraryVars == <<job, bytes, document>>
allVars == <<vars, libraryVars>>

\* Nothing is read as text while a job of the other kinds is done.
NoText == origin = <<"none">> /\ text = <<>> /\ reader = StartReader

LibraryInit ==
  \/ Init /\ job = <<"none">> /\ bytes = <<>> /\ document = Null
  \/ \E stream \in Streams :
       /\ NoText
       /\ job = <<"stream", stream>>
       /\ bytes = stream.start
       /\ document = Null
  \/ \E format \in Formats, v \in Documents :
       /\ NoText
       /\ EncodeAs(format, v) # <<>>
       /\ job = <<"encoding", format, v, EncodeAs(format, v)>>
       /\ bytes = <<>>
       /\ document = Null
  \/ \E source, target \in Documents :
       /\ NoText
       /\ job = <<"patch", source, target, Diff(source, target)[2]>>
       /\ bytes = <<>>
       /\ document = source

AsText == Next /\ UNCHANGED libraryVars

FromStream ==
  /\ job[1] = "stream"
  /\ Len(bytes) < Len(job[2].start) + job[2].more
  /\ \E c \in job[2].bytes : bytes' = Append(bytes, c)
  /\ UNCHANGED <<vars, job, document>>

FromEncoding ==
  /\ job[1] = "encoding"
  /\ Len(bytes) < Len(job[4])
  /\ bytes' = Append(bytes, job[4][Len(bytes) + 1])
  /\ UNCHANGED <<vars, job, document>>

\* The loop of patch.
ApplyOperation ==
  /\ job[1] = "patch"
  /\ job[4] # <<>>
  /\ document' = PatchOperation(document, Head(job[4]))
  /\ job' = [job EXCEPT ![4] = Tail(@)]
  /\ UNCHANGED <<vars, bytes>>

LibraryNext == AsText \/ FromStream \/ FromEncoding \/ ApplyOperation

LibrarySpec == LibraryInit /\ [][LibraryNext]_allVars
-----------------------------------------------------------------------------
BeforeNul(s) == IF 0 \in Range(s) THEN SubSeq(s, 1, SelectInSeq(s, LAMBDA c : c = 0) - 1) ELSE s

\* The reader accepts the JSON texts whose numbers a float can hold, and no
\* others, however a text goes on; and a terminator ends the text
\* (sax_parse_internal, scan, scan_number).
ReaderAcceptsJson ==
  \A ending \in Endings :
    Complete(Read(reader, ending)) <=> G!JsonTextual(BeforeNul(text \o ending))

\* A document that is compared or changed; a thrown exception is none.
IsPatched == job[1] = "patch" /\ ~Is(document, "throw")

Format == CASE job[1] = "stream" -> job[2].format
            [] job[1] = "encoding" -> job[2]
IsBinary == job[1] \in {"stream", "encoding"}

\* What is encoded is read back, but for what the format has no place for
\* (write_cbor, write_msgpack, write_bson, write_ubjson and their readers).
EncodedReadsBack ==
  job[1] = "encoding" /\ bytes = job[4] =>
    DecodeAs(job[2], bytes) = Normal(job[2], job[3])

WrittenAgain(v) ==
  ~Is(v, "throw") /\ ~HasFloat(v) /\ EncodeAs(Format, v) # <<>> =>
    DecodeAs(Format, EncodeAs(Format, v)) = Normal(Format, v)

\* What has been read, whichever of the ways to write it was taken, is written
\* and read back as the same value (the readers take more than is written).
ReadIsWritable == IsBinary /\ bytes # <<>> => WrittenAgain(DecodeAs(Format, bytes))

\* A value's bytes say where they end: no reader accepts bytes and also the
\* beginning of them, so that what is cut short is refused; and the size with
\* which a document of BSON begins, which was computed before its bytes, is their
\* number (calc_bson_object_size, write_bson_object).
EndsWhereItSays ==
  /\ IsBinary /\ bytes # <<>> /\ ~Is(DecodeAs(Format, bytes), "throw") =>
       \A n \in 1 .. Len(bytes) - 1 :
         \/ Is(DecodeAs(Format, SubSeq(bytes, 1, n)), "throw")
         \/ IsUbjson(Format) /\ \A i \in n + 1 .. Len(bytes) : bytes[i] = Noop
  /\ job[1] = "encoding" /\ job[2] = "bson" /\ bytes = job[4] =>
       LittleEndian(bytes, 1, Int32Size).value = Len(bytes)

\* Members named "0" are left out: where one comes first, unflatten takes the
\* object for an array.
RECURSIVE HasZeroKey(_)
HasZeroKey(v) ==
  CASE Is(v, "object") -> \E key \in DOMAIN v[2] : key = <<48>> \/ HasZeroKey(v[2][key])
    [] Is(v, "array") -> \E i \in DOMAIN v[2] : HasZeroKey(v[2][i])
    [] OTHER -> FALSE
RECURSIVE EmptyAsNull(_)
EmptyAsNull(v) ==
  CASE v \in {EmptyArray, EmptyObject} -> Null
    [] Is(v, "array") /\ v # EmptyArray -> Array([i \in DOMAIN v[2] |-> EmptyAsNull(v[2][i])])
    [] Is(v, "object") /\ v # EmptyObject ->
         Object([key \in DOMAIN v[2] |-> EmptyAsNull(v[2][key])])
    [] OTHER -> v

\* A flattened document is unflattened to itself, whatever the order of its
\* members' names, of which "/10" comes before "/2" (flatten, unflatten).
FlattenedReadsBack ==
  IsPatched /\ ~HasZeroKey(document) =>
    Unflatten(Flatten(document)) = EmptyAsNull(document)

\* A pointer is found in its own text, and contains says of it what at does.
PointersAgree ==
  IsPatched =>
    \A tokens \in Pointers :
      /\ Split(PointerText(tokens)) = <<"pointer", tokens>>
      /\ HasPointer(document, tokens) = Boolean(TRUE) <=> ~Is(Resolve(document, tokens), "throw")

Operation(op, from, path) ==
  Object([op |-> Text(op), from |-> Text(PointerText(from)), path |-> Text(PointerText(path))])
Aside == <<<<126, 47>>>>

\* What is moved aside and back leaves the document as it was, and so does what
\* is copied, found to be the same, and removed.
MovedBack ==
  IsPatched /\ Is(document, "object") =>
    \A tokens \in Pointers :
      tokens # <<>> /\ ~Is(Resolve(document, tokens), "throw") =>
        /\ Patch(document, Array(<<Operation("move", tokens, Aside),
                                   Operation("move", Aside, tokens)>>)) = document
        /\ Patch(document,
             Array(<<Operation("copy", tokens, Aside),
                     Object([op |-> Text("test"), path |-> Text(PointerText(Aside)),
                             value |-> Resolve(document, tokens)]),
                     RemoveOperation(PointerText(Aside))>>)) = document

\* The merge patch from one document to another, and whether there is one.
RECURSIVE Change(_, _)
Change(v, w) ==
  IF Is(v, "object") /\ Is(w, "object")
  THEN Object([key \in {k \in DOMAIN v[2] : k \notin DOMAIN w[2]}
                       \cup {k \in DOMAIN w[2] : k \in DOMAIN v[2] => v[2][k] # w[2][k]} |->
                 CASE key \notin DOMAIN w[2] -> Null
                   [] key \in DOMAIN w[2] \cap DOMAIN v[2] -> Change(v[2][key], w[2][key])
                   [] OTHER -> w[2][key]])
  ELSE w
RECURSIVE HasNullMember(_)
HasNullMember(v) ==
  Is(v, "object") /\ \E key \in DOMAIN v[2] : v[2][key] = Null \/ HasNullMember(v[2][key])

\* The patch of two documents makes the one of the other: an element that an
\* operation removes or adds does not move those the next ones name (diff, patch).
\* So does, from every document on the way, merging what has changed, if the
\* other has no member that is null (merge_patch).
DiffPatches ==
  /\ job[1] = "patch" /\ job[4] = <<>> => document = job[3]
  /\ IsPatched /\ ~HasNullMember(job[3]) =>
       MergePatch(document, Change(document, job[3])) = job[3]
=============================================================================
