----------------------------- MODULE JsonStream -----------------------------
(***************************************************************************)
(* The reader of module JsonText as a machine: json::parse(data_) takes    *)
(* the bytes of the array one after the other.  The array holds a request, *)
(* a terminator, and what an earlier and longer request left behind it     *)
(* (src/src/session.cpp:25-28).                                            *)
(***************************************************************************)
EXTENDS JsonText

VARIABLES
  text,    \* what has been read
  reader   \* what the reader has made of it

StreamInit == text = <<>> /\ reader = StartReader

Arrive(c) ==
  /\ text' = Append(text, c)
  /\ reader' = Feed(reader, c)

Stream == StreamInit /\ [][\E c \in Byte : Arrive(c)]_<<text, reader>>
-----------------------------------------------------------------------------
\* After a terminator nothing counts: the rest of an earlier, longer request in
\* data_ changes neither the verdict nor the value.
LeftoversUnread ==
  [][0 \in Range(text) =>
       /\ Complete(reader') = Complete(reader)
       /\ Result(reader') = Result(reader)]_<<text, reader>>

\* Whatever string the reader has read, dump can write: it never throws for a
\* name that came in by the network.
StringsAreWritable ==
  reader.scan = "string" /\ reader.wants # "refused" =>
    LET state == Decoded(reader.token)
    IN state # UTF8_REJECT /\ reader.rest = Expected(state)

\* A text that begins with a bracket is whole only once all its brackets are
\* closed, whatever brackets, commas and tokens come between: what is cut before
\* the last bracket is refused (sax_parse_internal).
BracketsClosed ==
  text # <<>> /\ text[1] \in {91, 123} /\ Complete(reader) =>
    reader.stack = <<>> /\ reader.wants \in {"after", "done"}

\* Behind the value of a text there may be white space and a terminator.  After
\* anything else it is no text any more, however it goes on, and its value never
\* changes; so no object is the beginning of another one.
NothingFollows ==
  [][Ended(reader) =>
       /\ Ended(reader') \/ Final(reader')
       /\ reader'.root = reader.root
       /\ Complete(reader') => Complete(reader) /\ Last(text') \in White \cup {0}
    ]_<<text, reader>>
=============================================================================
