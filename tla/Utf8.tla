-------------------------------- MODULE Utf8 --------------------------------
(***************************************************************************)
(* The two places of the JSON library (src/src/json.h) that know UTF-8.    *)
(* The writer runs a table-driven automaton over a string (decode) and     *)
(* throws when it rejects; the reader has one case per leading byte, with  *)
(* the ranges of the bytes that must follow.  A name that is typed in a    *)
(* client goes through both, on its way to the server.                     *)
(***************************************************************************)
EXTENDS Integers, Sequences

Byte == 0 .. 255
-----------------------------------------------------------------------------
(* The writer: decode *)

UTF8_ACCEPT == 0
UTF8_REJECT == 1
DecodeState == 0 .. 8

\* The first 256 entries of utf8d.
Class(byte) ==
  CASE byte \in 0 .. 127 -> 0
    [] byte \in 128 .. 143 -> 1
    [] byte \in 144 .. 159 -> 9
    [] byte \in 160 .. 191 -> 7
    [] byte \in 194 .. 223 -> 2
    [] byte = 224 -> 10
    [] byte \in (225 .. 236) \cup {238, 239} -> 3
    [] byte = 237 -> 4
    [] byte = 240 -> 11
    [] byte \in 241 .. 243 -> 6
    [] byte = 244 -> 5
    [] byte \in {192, 193} \cup (245 .. 255) -> 8

\* The rest of utf8d, a row per state: what a byte of each class leads to.
Row(state) ==
  CASE state = 0 -> <<0, 1, 2, 3, 5, 8, 7, 1, 1, 1, 4, 6>>
    [] state = 1 -> <<1, 1, 1, 1, 1, 1, 1, 1, 1, 1, 1, 1>>
    [] state = 2 -> <<1, 0, 1, 1, 1, 1, 1, 0, 1, 0, 1, 1>>
    [] state = 3 -> <<1, 2, 1, 1, 1, 1, 1, 2, 1, 2, 1, 1>>
    [] state = 4 -> <<1, 1, 1, 1, 1, 1, 1, 2, 1, 1, 1, 1>>
    [] state = 5 -> <<1, 2, 1, 1, 1, 1, 1, 1, 1, 2, 1, 1>>
    [] state = 6 -> <<1, 1, 1, 1, 1, 1, 1, 3, 1, 3, 1, 1>>
    [] state = 7 -> <<1, 3, 1, 1, 1, 1, 1, 3, 1, 3, 1, 1>>
    [] state = 8 -> <<1, 3, 1, 1, 1, 1, 1, 1, 1, 1, 1, 1>>

Decode(state, byte) == Row(state)[Class(byte) + 1]

\* The loop of dump_escaped: the state after all bytes of a string.
Decoded(s) ==
  LET state[i \in 0 .. Len(s)] ==
        IF i = 0 THEN UTF8_ACCEPT ELSE Decode(state[i - 1], s[i])
  IN state[Len(s)]
-----------------------------------------------------------------------------
(* The reader: the cases of scan_string for bytes from 0x80 on *)

Continuation == <<128, 191>>

\* Bytes that no character starts with.
IllFormed(byte) == byte \in (128 .. 193) \cup (245 .. 255)

\* Mutant of Following: E0 takes every continuation.
FollowingOverlong(byte) ==
  IF byte \in 194 .. 223 THEN <<Continuation>>
  ELSE IF byte = 237 THEN <<<<128, 159>>, Continuation>>
  ELSE IF byte \in 224 .. 239 THEN <<Continuation, Continuation>>
  ELSE IF byte = 240 THEN <<<<144, 191>>, Continuation, Continuation>>
  ELSE IF byte \in 241 .. 243 THEN <<Continuation, Continuation, Continuation>>
  ELSE IF byte = 244 THEN <<<<128, 143>>, Continuation, Continuation>>
  ELSE <<>>

\* The ranges in which the bytes after a leading byte must lie.
Following(byte) ==
  IF byte \in 194 .. 223 THEN <<Continuation>>
  ELSE IF byte = 224 THEN <<<<160, 191>>, Continuation>>
  ELSE IF byte = 237 THEN <<<<128, 159>>, Continuation>>
  ELSE IF byte \in 224 .. 239 THEN <<Continuation, Continuation>>
  ELSE IF byte = 240 THEN <<<<144, 191>>, Continuation, Continuation>>
  ELSE IF byte \in 241 .. 243 THEN <<Continuation, Continuation, Continuation>>
  ELSE IF byte = 244 THEN <<<<128, 143>>, Continuation, Continuation>>
  ELSE <<>>

InRange(byte, range) == range[1] <= byte /\ byte <= range[2]

\* next_byte_in_range, one byte: does the reader go on, and with which ranges?
Accepts(ranges, byte) ==
  IF ranges = <<>> THEN ~IllFormed(byte) ELSE InRange(byte, Head(ranges))
Remaining(ranges, byte) ==
  IF ranges = <<>> THEN Following(byte) ELSE Tail(ranges)
-----------------------------------------------------------------------------
\* What the reader still expects when the writer is in a state.
Expected(state) ==
  CASE state = 0 -> <<>>
    [] state = 2 -> <<Continuation>>
    [] state = 3 -> <<Continuation, Continuation>>
    [] state = 4 -> <<<<160, 191>>, Continuation>>
    [] state = 5 -> <<<<128, 159>>, Continuation>>
    [] state = 6 -> <<<<144, 191>>, Continuation, Continuation>>
    [] state = 7 -> <<Continuation, Continuation, Continuation>>
    [] state = 8 -> <<<<128, 143>>, Continuation, Continuation>>
=============================================================================
