---------------------------- MODULE JsonReading -----------------------------
(***************************************************************************)
(* Reader and writer of the JSON library together: the bytes that arrive   *)
(* are any bytes at all, after some beginning, or those of a dumped value. *)
(***************************************************************************)
EXTENDS JsonStream, JsonWriter

CONSTANT
  Starts  \* beginnings: [text, bytes, more], to be continued by at most "more"
          \* of the "bytes"

ASSUME ReadingAssumption ==
  \A start \in Starts : start.text \in Seq(Byte) /\ start.bytes \subseteq Byte

VARIABLE origin  \* <<"network", start>> or <<"dump", value, its text>>

vars == <<origin, text, reader>>

Init ==
  \/ \E start \in Starts :
       /\ origin = <<"network", start>>
       /\ text = start.text
       /\ reader = Read(StartReader, text)
  \/ \E v \in Values :
       /\ origin = <<"dump", v, Dump[v]>>
       /\ text = <<>>
       /\ reader = StartReader

\* Bytes arrive until the reader refuses them; one more after a terminator.
FromNetwork ==
  /\ origin[1] = "network"
  /\ Len(text) < Len(origin[2].text) + origin[2].more
  /\ reader.wants # "refused"
  /\ Final(reader) => Last(text) = 0
  /\ \E c \in origin[2].bytes : Arrive(c)
  /\ UNCHANGED origin

FromDump ==
  /\ origin[1] = "dump"
  /\ Len(text) < Len(origin[3])
  /\ Arrive(origin[3][Len(text) + 1])
  /\ UNCHANGED origin

Next == FromNetwork \/ FromDump

Spec == Init /\ [][Next]_vars
-----------------------------------------------------------------------------
\* A dumped value is read back as the same value: what the client asked is what
\* the server sees, and what the server answers is what the client prints.
ReadsBack ==
  origin[1] = "dump" /\ text = origin[3] =>
    Complete(reader) /\ Result(reader) = origin[2]
=============================================================================
