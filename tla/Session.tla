------------------------------ MODULE Session ------------------------------
(***************************************************************************)
(* Connections: the accept loop (src/src/server.cpp), a Session per client *)
(* (session.cpp), and the client's side of the protocol (client.cpp,       *)
(* request_handler.cpp).  What a request does is module Server's subject;  *)
(* here it is a number of pieces that is answered by a number of pieces.   *)
(*                                                                         *)
(* TCP may deliver what was written in one call in several pieces.  A      *)
(* session takes what one read brings for one whole request.  A client     *)
(* takes what one read brings, ReadSize pieces at most, for the whole      *)
(* reply: read_until finds its empty delimiter in anything.  Each parses   *)
(* what it took; if that is cut the parser throws, and the program ends.   *)
(***************************************************************************)
EXTENDS Integers, Sequences, FiniteSetsExt

CONSTANTS
  Clients,      \* client programs; each has one connection at a time
  MaxRequest,   \* bound: pieces of a request
  MaxReply,     \* bound: pieces of a reply
  ReadSize,     \* pieces one read of a client takes
  SendSize,     \* pieces the socket takes at once
  AcceptFails,  \* whether accept may fail, e.g. without file descriptors
  UnknownUsers  \* whether users of an earlier run log in: the market lacks them

ASSUME SessionAssumption ==
  /\ {MaxRequest, MaxReply, ReadSize, SendSize} \subseteq Nat \ {0}
  /\ {AcceptFails, UnknownUsers} \subseteq BOOLEAN

VARIABLES
  up,          \* io_service.run() runs
  ended,       \* what ended it last
  accepting,   \* an async_accept is pending
  conn,        \* per client: its connection as the server's system sees it
  pending,     \* per session: the operation whose handler is awaited
  incoming,    \* per client: pieces of its request no one has read
  unsent,      \* per session: pieces of the reply the socket did not take yet
  reply,       \* per client: pieces of the reply it has not read
  length,      \* per client: pieces of the whole reply
  client       \* per client: what the program does

vars == <<up, ended, accepting, conn, pending, incoming, unsent, reply, length,
          client>>

Gone(c) == client[c] \in {"out", "failed"}
Asking(c) == client[c] \in {"asking", "waiting"}
-----------------------------------------------------------------------------
Init ==
  /\ up = FALSE
  /\ ended = "none"
  /\ accepting = FALSE
  /\ conn = [c \in Clients |-> "none"]
  /\ pending = [c \in Clients |-> "none"]
  /\ incoming = [c \in Clients |-> 0]
  /\ unsent = [c \in Clients |-> 0]
  /\ reply = [c \in Clients |-> <<>>]
  /\ length = [c \in Clients |-> 0]
  /\ client = [c \in Clients |-> "out"]

\* Server::Server: listen, and wait for the first connection.
Serve ==
  /\ ~up
  /\ up' = TRUE
  /\ ended' = "none"
  /\ accepting' = TRUE
  /\ UNCHANGED <<conn, pending, incoming, unsent, reply, length, client>>

\* The process ends and its system closes the sockets.  What was sent before
\* can still be read.
Ends(why) ==
  /\ up' = FALSE
  /\ ended' = why
  /\ accepting' = FALSE
  /\ conn' = [c \in Clients |-> "none"]
  /\ pending' = [c \in Clients |-> "none"]
  /\ incoming' = [c \in Clients |-> 0]
  /\ unsent' = [c \in Clients |-> 0]
  /\ UNCHANGED <<reply, length, client>>

Signal == up /\ Ends("signal")

\* run() returns when no operation is pending.
RunReturns ==
  /\ up
  /\ ~accepting
  /\ \A c \in Clients : pending[c] = "none"
  /\ Ends("idle")

\* Mutant of HandleAccept: the session is not started.
HandleAcceptNoStart(c) ==
  /\ accepting
  /\ conn[c] = "backlog"
  /\ conn' = [conn EXCEPT ![c] = "open"]
  /\ UNCHANGED <<up, ended, accepting, pending, incoming, unsent, reply, length, client>>

\* HandleAccept: start the session and accept the next.
HandleAccept(c) ==
  /\ accepting
  /\ conn[c] = "backlog"
  /\ conn' = [conn EXCEPT ![c] = "open"]
  /\ pending' = [pending EXCEPT ![c] = "read"]
  /\ UNCHANGED <<up, ended, accepting, incoming, unsent, reply, length, client>>

\* HandleAccept with an error: nothing accepts any more.
HandleAcceptError ==
  /\ AcceptFails
  /\ accepting
  /\ accepting' = FALSE
  /\ UNCHANGED <<up, ended, conn, pending, incoming, unsent, reply, length, client>>

\* HandleRead of a whole request: one reply.  The socket takes what it has room
\* for before reply, a local of HandleRead, is destroyed.
HandleRead(c) ==
  /\ pending[c] = "read"
  /\ incoming[c] > 0
  /\ incoming' = [incoming EXCEPT ![c] = 0]
  /\ \E n \in 1 .. MaxReply :
       LET sent == Min({n, SendSize}) IN
       /\ length' = [length EXCEPT ![c] = n]
       /\ reply' = [reply EXCEPT ![c] = [i \in 1 .. sent |-> "good"]]
       /\ unsent' = [unsent EXCEPT ![c] = n - sent]
  /\ pending' = [pending EXCEPT ![c] = "write"]
  /\ UNCHANGED <<up, ended, accepting, conn, client>>

\* HandleRead of a part of a request: json::parse throws.  Of a whole one about a
\* user the market lacks: at() throws; an authentication looks no one up (of a
\* client that has left it is not known what it asked).
HandleReadThrows(c) ==
  /\ pending[c] = "read"
  /\ incoming[c] > 0
  /\ incoming[c] > 1 \/ (UnknownUsers /\ client[c] # "asking")
  /\ Ends("exception")

\* HandleRead, HandleWrite with an error: delete this.
Delete(c) ==
  /\ conn' = [conn EXCEPT ![c] = "none"]
  /\ pending' = [pending EXCEPT ![c] = "none"]
  /\ incoming' = [incoming EXCEPT ![c] = 0]
  /\ unsent' = [unsent EXCEPT ![c] = 0]
  /\ UNCHANGED <<up, ended, accepting, reply, length, client>>

\* Mutant of HandleError: a failed write is ignored.
HandleReadError(c) ==
  /\ pending[c] = "read"
  /\ Gone(c)
  /\ Delete(c)

HandleError(c) ==
  /\ pending[c] # "none"
  /\ Gone(c)
  /\ Delete(c)

\* Mutant of WriteSome: one piece too many.
WriteSomeMore(c) ==
  /\ pending[c] = "write"
  /\ ~Gone(c)
  /\ unsent' = [unsent EXCEPT ![c] = @ - 1]
  /\ \E piece \in {"good", "junk"} : reply' = [reply EXCEPT ![c] = Append(@, piece)]
  /\ UNCHANGED <<up, ended, accepting, conn, pending, incoming, length, client>>

\* async_write goes on, from memory that was freed meanwhile.
WriteSome(c) ==
  /\ pending[c] = "write"
  /\ ~Gone(c)
  /\ unsent[c] > 0
  /\ unsent' = [unsent EXCEPT ![c] = @ - 1]
  /\ \E piece \in {"good", "junk"} : reply' = [reply EXCEPT ![c] = Append(@, piece)]
  /\ UNCHANGED <<up, ended, accepting, conn, pending, incoming, length, client>>

\* Mutant of HandleWrite: no read follows.
HandleWriteForgets(c) ==
  /\ pending[c] = "write"
  /\ unsent[c] = 0
  /\ pending' = [pending EXCEPT ![c] = "none"]
  /\ UNCHANGED <<up, ended, accepting, conn, incoming, unsent, reply, length, client>>

\* HandleWrite: the reply is sent, read the next request.
HandleWrite(c) ==
  /\ pending[c] = "write"
  /\ unsent[c] = 0
  /\ pending' = [pending EXCEPT ![c] = "read"]
  /\ UNCHANGED <<up, ended, accepting, conn, incoming, unsent, reply, length, client>>
-----------------------------------------------------------------------------
(* The client *)

\* The system completes the connection before the server accepts it.
Connect(c) ==
  /\ up
  /\ Gone(c)
  /\ conn[c] = "none"
  /\ conn' = [conn EXCEPT ![c] = "backlog"]
  /\ client' = [client EXCEPT ![c] = "anonymous"]
  /\ reply' = [reply EXCEPT ![c] = <<>>]
  /\ UNCHANGED <<up, ended, accepting, pending, incoming, unsent, length>>

Send(c, next) ==
  /\ IF conn[c] = "none"
     THEN /\ client' = [client EXCEPT ![c] = "failed"]
          /\ UNCHANGED incoming
     ELSE /\ client' = [client EXCEPT ![c] = next]
          /\ \E n \in 1 .. MaxRequest : incoming' = [incoming EXCEPT ![c] = n]
  /\ UNCHANGED <<up, ended, accepting, conn, pending, unsent, reply, length>>

\* ProcessAuthentication: Register or Login.
Authenticate(c) == client[c] = "anonymous" /\ Send(c, "asking")

\* Any other request.
SendRequest(c) == client[c] = "known" /\ Send(c, "waiting")

\* One read.  Of a whole reply the client takes the answer; it cannot parse
\* anything else.
Read(c, answers) ==
  /\ reply[c] # <<>>
  /\ \E k \in 1 .. Min({Len(reply[c]), ReadSize}) :
       IF k = length[c] /\ \A i \in 1 .. k : reply[c][i] = "good"
       THEN \E next \in answers : client' = [client EXCEPT ![c] = next]
       ELSE client' = [client EXCEPT ![c] = "failed"]
  /\ reply' = [reply EXCEPT ![c] = <<>>]
  /\ UNCHANGED <<up, ended, accepting, conn, pending, incoming, unsent, length>>

\* After a refused authentication the client tries again.
ReadAuthResponse(c) == client[c] = "asking" /\ Read(c, {"anonymous", "known"})

ReadResponse(c) == client[c] = "waiting" /\ Read(c, {"known"})

\* The connection was closed and nothing is left to read.
ReadEof(c) ==
  /\ Asking(c)
  /\ reply[c] = <<>>
  /\ conn[c] = "none"
  /\ client' = [client EXCEPT ![c] = "failed"]
  /\ UNCHANGED <<up, ended, accepting, conn, pending, incoming, unsent, reply, length>>

\* "End session", or the program is closed while it waits.
Leave(c) ==
  /\ ~Gone(c)
  /\ client' = [client EXCEPT ![c] = "out"]
  /\ reply' = [reply EXCEPT ![c] = <<>>]
  /\ UNCHANGED <<up, ended, accepting, conn, pending, incoming, unsent, length>>
-----------------------------------------------------------------------------
SessionStep(c) ==
  \/ HandleRead(c)
  \/ HandleReadThrows(c)
  \/ HandleError(c)
  \/ WriteSome(c)
  \/ HandleWrite(c)

Next ==
  \/ Serve
  \/ Signal
  \/ RunReturns
  \/ HandleAcceptError
  \/ \E c \in Clients :
       \/ HandleAccept(c)
       \/ SessionStep(c)
       \/ Connect(c)
       \/ Authenticate(c)
       \/ SendRequest(c)
       \/ ReadAuthResponse(c)
       \/ ReadResponse(c)
       \/ ReadEof(c)
       \/ Leave(c)

\* io_service.run() gets to every handler that is due, and a client that waits
\* reads.  No one has to connect, ask or leave.
Fairness ==
  /\ WF_vars(RunReturns)
  /\ \A c \in Clients :
       /\ WF_vars(HandleAccept(c))
       /\ WF_vars(SessionStep(c))
       /\ WF_vars(ReadAuthResponse(c) \/ ReadResponse(c) \/ ReadEof(c))

Spec == Init /\ [][Next]_vars
FairSpec == Spec /\ Fairness
-----------------------------------------------------------------------------
(* Properties *)

\* Every variable has its type.
SessionTypeOK ==
  /\ up \in BOOLEAN
  /\ ended \in {"none", "signal", "exception", "idle"}
  /\ accepting \in BOOLEAN
  /\ conn \in [Clients -> {"none", "backlog", "open"}]
  /\ pending \in [Clients -> {"none", "read", "write"}]
  /\ incoming \in [Clients -> 0 .. MaxRequest]
  /\ unsent \in [Clients -> 0 .. MaxReply]
  /\ reply \in [Clients -> Seq({"good", "junk"})]
  /\ length \in [Clients -> 0 .. MaxReply]
  /\ client \in [Clients -> {"out", "anonymous", "asking", "known", "waiting",
                             "failed"}]

\* A client that waits has its request or the reply to it somewhere on the way,
\* once and not twice, or its connection is closed: no session is ever left
\* without an operation that goes on with it.
NothingLost ==
  \A c \in Clients :
    /\ conn[c] = "open" <=> pending[c] # "none"
    /\ Asking(c) /\ conn[c] # "none" =>
         \/ incoming[c] > 0 /\ reply[c] = <<>> /\ unsent[c] = 0
         \/ incoming[c] = 0 /\ Len(reply[c]) + unsent[c] = length[c]
                            /\ length[c] > 0 /\ conn[c] = "open"
    /\ client[c] \in {"anonymous", "known"} =>
         reply[c] = <<>> /\ incoming[c] = 0 /\ unsent[c] = 0

\* A client whose connection was accepted gets an answer or learns that there
\* will be none: it does not wait for ever, whatever is cut on the way and
\* whenever the server ends.
ServedClientsAnswered ==
  \A c \in Clients : Asking(c) /\ conn[c] # "backlog" ~> ~Asking(c)

\* The session of a client that is gone is deleted and its descriptor freed.
SessionsReleased ==
  \A c \in Clients : conn[c] = "open" /\ Gone(c) ~> conn[c] = "none"

\* README.md:5: the server takes connections of several clients at once.  So no
\* client waits for ever behind another's.
NoClientWaitsForEver == \A c \in Clients : Asking(c) ~> ~Asking(c)

\* README.md:5: a client gets reports of its active offers and closed deals.  One
\* that waits for an answer fails only when its connection is closed, never over
\* a reply that came.
ClientsGetReports ==
  [][\A c \in Clients :
       client[c] = "waiting" /\ client'[c] = "failed" => conn[c] = "none"]_vars

\* README.md:46: to shut the server down one has to send SIGINT.
OnlySignalStops == ended \in {"none", "signal"}
=============================================================================
