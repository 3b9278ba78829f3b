--------------------------- MODULE SessionProofs ---------------------------
(***************************************************************************)
(* What module Session promises without fairness, for any clients, any     *)
(* lengths of requests and replies and any sizes of reads and writes; and  *)
(* on which lengths the statements of README.md are true.                  *)
(***************************************************************************)
EXTENDS Session, SequenceTheorems, TLAPS

\* What NothingLost does not say: a closed connection holds nothing, so that the
\* next one of the client starts clean.
ClosedIsEmpty ==
  \A c \in Clients : conn[c] = "none" => incoming[c] = 0 /\ unsent[c] = 0

SessionInv == SessionTypeOK /\ NothingLost /\ ClosedIsEmpty

-----------------------------------------------------------------------------
LEMMA Sizes ==
  /\ MaxRequest \in Nat /\ MaxRequest > 0
  /\ MaxReply \in Nat /\ MaxReply > 0
  /\ ReadSize \in Nat
  /\ SendSize \in Nat /\ SendSize > 0
BY SessionAssumption

LEMMA MinOfTwo ==
  ASSUME NEW a \in Nat, NEW b \in Nat
  PROVE  Min({a, b}) \in {a, b} /\ Min({a, b}) <= a /\ Min({a, b}) <= b
<1>1. \E x \in {a, b} : \A y \in {a, b} : x =< y
  OBVIOUS
<1> QED
  BY <1>1 DEF Min

LEMMA GoodPieces ==
  ASSUME NEW n \in Nat
  PROVE  /\ [i \in 1 .. n |-> "good"] \in Seq({"good", "junk"})
         /\ Len([i \in 1 .. n |-> "good"]) = n
<1> DEFINE pieces == [i \in 1 .. n |-> "good"]
<1>1. pieces \in [1 .. n -> {"good", "junk"}]
  OBVIOUS
<1>2. pieces \in Seq({"good", "junk"})
  BY <1>1, SeqDef
<1>3. Len(pieces) = n
  BY <1>2, LenProperties
<1> QED
  BY <1>2, <1>3

USE Sizes

LEMMA InitInv == ASSUME Init PROVE SessionInv
<1>1. <<>> \in Seq({"good", "junk"})
  OBVIOUS
<1>2. SessionTypeOK
  <2>1. conn \in [Clients -> {"none", "backlog", "open"}]
    BY DEF Init
  <2>2. pending \in [Clients -> {"none", "read", "write"}]
    BY DEF Init
  <2>3. /\ incoming \in [Clients -> 0 .. MaxRequest]
        /\ unsent \in [Clients -> 0 .. MaxReply]
        /\ length \in [Clients -> 0 .. MaxReply]
    BY DEF Init
  <2>4. reply \in [Clients -> Seq({"good", "junk"})]
    BY <1>1 DEF Init
  <2>5. client \in [Clients -> {"out", "anonymous", "asking", "known",
                                "waiting", "failed"}]
    BY DEF Init
  <2> QED
    BY <2>1, <2>2, <2>3, <2>4, <2>5 DEF Init, SessionTypeOK
<1>3. NothingLost /\ ClosedIsEmpty
  BY DEF Init, NothingLost, ClosedIsEmpty, Asking
<1> QED
  BY <1>2, <1>3 DEF SessionInv

\* However the server ends, its system keeps nothing.
LEMMA EndsInv ==
  ASSUME SessionInv, NEW why \in {"signal", "exception", "idle"}, Ends(why)
  PROVE  SessionInv'
<1>1. SessionTypeOK'
  <2>1. conn' \in [Clients -> {"none", "backlog", "open"}]
    BY DEF Ends
  <2>2. pending' \in [Clients -> {"none", "read", "write"}]
    BY DEF Ends
  <2>3. incoming' \in [Clients -> 0 .. MaxRequest] /\ unsent' \in [Clients -> 0 .. MaxReply]
    BY DEF Ends
  <2> QED
    BY <2>1, <2>2, <2>3 DEF SessionInv, SessionTypeOK, Ends
<1>2. NothingLost'
  BY DEF SessionInv, SessionTypeOK, NothingLost, ClosedIsEmpty, Asking, Ends
<1>3. ClosedIsEmpty'
  BY DEF ClosedIsEmpty, Ends
<1> QED
  BY <1>1, <1>2, <1>3 DEF SessionInv

LEMMA ServeInv == ASSUME SessionInv, Serve PROVE SessionInv'
BY DEF SessionInv, SessionTypeOK, NothingLost, ClosedIsEmpty, Asking, Serve

LEMMA AcceptInv ==
  ASSUME SessionInv, NEW c \in Clients, HandleAccept(c) \/ HandleAcceptError
  PROVE  SessionInv'
<1>1. CASE HandleAccept(c)
  BY <1>1 DEF SessionInv, SessionTypeOK, NothingLost, ClosedIsEmpty, Asking, HandleAccept
<1>2. CASE HandleAcceptError
  BY <1>2 DEF SessionInv, SessionTypeOK, NothingLost, ClosedIsEmpty, Asking, HandleAcceptError
<1> QED
  BY <1>1, <1>2

LEMMA ReadInv ==
  ASSUME SessionInv, NEW c \in Clients, HandleRead(c)
  PROVE  SessionInv'
<1>1. PICK n \in 1 .. MaxReply :
        /\ length' = [length EXCEPT ![c] = n]
        /\ reply' = [reply EXCEPT ![c] = [i \in 1 .. Min({n, SendSize}) |-> "good"]]
        /\ unsent' = [unsent EXCEPT ![c] = n - Min({n, SendSize})]
  BY DEF HandleRead
<1> DEFINE sent == Min({n, SendSize})
           first == [i \in 1 .. sent |-> "good"]
<1>2. sent \in Nat /\ sent <= n
  BY MinOfTwo
<1>3. first \in Seq({"good", "junk"}) /\ Len(first) = sent
  BY <1>2, GoodPieces
<1> HIDE DEF sent, first
<1>4. /\ length' = [length EXCEPT ![c] = n]
      /\ reply' = [reply EXCEPT ![c] = first]
      /\ unsent' = [unsent EXCEPT ![c] = n - sent]
  BY <1>1 DEF sent, first
<1>5. SessionTypeOK'
  <2>1. /\ length' \in [Clients -> 0 .. MaxReply]
        /\ unsent' \in [Clients -> 0 .. MaxReply]
        /\ incoming' \in [Clients -> 0 .. MaxRequest]
    BY <1>2, <1>4 DEF SessionInv, SessionTypeOK, HandleRead
  <2>2. reply' \in [Clients -> Seq({"good", "junk"})]
    BY <1>3, <1>4 DEF SessionInv, SessionTypeOK
  <2>3. pending' \in [Clients -> {"none", "read", "write"}]
    BY DEF SessionInv, SessionTypeOK, HandleRead
  <2> QED
    BY <2>1, <2>2, <2>3 DEF SessionInv, SessionTypeOK, HandleRead
<1>6. NothingLost'
  <2>1. /\ incoming[c] > 0 /\ pending[c] = "read" /\ conn[c] = "open"
        /\ client[c] \notin {"anonymous", "known"}
    BY DEF SessionInv, SessionTypeOK, NothingLost, HandleRead
  <2>2. /\ incoming'[c] = 0 /\ pending'[c] = "write" /\ conn'[c] = "open"
        /\ length'[c] = n /\ reply'[c] = first /\ unsent'[c] = n - sent
        /\ client'[c] = client[c]
    BY <1>4, <2>1 DEF SessionInv, SessionTypeOK, HandleRead
  <2>3. Len(reply'[c]) + unsent'[c] = length'[c] /\ length'[c] > 0
    BY <1>2, <1>3, <2>2
  <2>4. ASSUME NEW d \in Clients \ {c}
        PROVE  /\ incoming'[d] = incoming[d] /\ pending'[d] = pending[d]
               /\ conn'[d] = conn[d] /\ length'[d] = length[d]
               /\ reply'[d] = reply[d] /\ unsent'[d] = unsent[d]
               /\ client'[d] = client[d]
    BY <1>4 DEF SessionInv, SessionTypeOK, HandleRead
  <2> QED
    BY <2>1, <2>2, <2>3, <2>4 DEF SessionInv, NothingLost, Asking
<1>7. ClosedIsEmpty'
  BY <1>4 DEF SessionInv, SessionTypeOK, NothingLost, ClosedIsEmpty, HandleRead
<1> QED
  BY <1>5, <1>6, <1>7 DEF SessionInv

LEMMA WriteInv ==
  ASSUME SessionInv, NEW c \in Clients, WriteSome(c)
  PROVE  SessionInv'
<1>1. PICK piece \in {"good", "junk"} : reply' = [reply EXCEPT ![c] = Append(@, piece)]
  BY DEF WriteSome
<1>2. /\ Append(reply[c], piece) \in Seq({"good", "junk"})
      /\ Len(Append(reply[c], piece)) = Len(reply[c]) + 1
  BY DEF SessionInv, SessionTypeOK
<1>3. SessionTypeOK'
  BY <1>1, <1>2 DEF SessionInv, SessionTypeOK, WriteSome
<1>4. NothingLost'
  <2>1. /\ unsent[c] \in Nat /\ unsent[c] > 0 /\ Asking(c)
        /\ incoming[c] = 0 /\ conn[c] = "open"
        /\ Len(reply[c]) \in Nat /\ Len(reply[c]) + unsent[c] = length[c]
        /\ length[c] > 0
    BY DEF SessionInv, SessionTypeOK, NothingLost, WriteSome, Asking, Gone
  <2>2. /\ unsent'[c] = unsent[c] - 1
        /\ Len(reply'[c]) = Len(reply[c]) + 1
    BY <1>1, <1>2 DEF SessionInv, SessionTypeOK, WriteSome
  <2>3. Len(reply'[c]) + unsent'[c] = length[c]
    BY <2>1, <2>2
  <2>4. ASSUME NEW d \in Clients \ {c}
        PROVE  reply'[d] = reply[d] /\ unsent'[d] = unsent[d]
    BY <1>1 DEF SessionInv, SessionTypeOK, WriteSome
  <2> QED
    BY <2>1, <2>3, <2>4 DEF SessionInv, NothingLost, WriteSome, Asking
<1>5. ClosedIsEmpty'
  BY DEF SessionInv, SessionTypeOK, NothingLost, ClosedIsEmpty, WriteSome
<1> QED
  BY <1>3, <1>4, <1>5 DEF SessionInv

\* The other steps of a session.
LEMMA SessionStepInv ==
  ASSUME SessionInv, NEW c \in Clients, SessionStep(c)
  PROVE  SessionInv'
<1>1. CASE HandleRead(c)
  BY <1>1, ReadInv
<1>2. CASE HandleReadThrows(c)
  BY <1>2, EndsInv DEF HandleReadThrows
<1>3. CASE HandleError(c)
  BY <1>3 DEF SessionInv, SessionTypeOK, NothingLost, ClosedIsEmpty, Asking, Gone,
              HandleError, Delete
<1>4. CASE WriteSome(c)
  BY <1>4, WriteInv
<1>5. CASE HandleWrite(c)
  BY <1>5 DEF SessionInv, SessionTypeOK, NothingLost, ClosedIsEmpty, Asking, HandleWrite
<1> QED
  BY <1>1, <1>2, <1>3, <1>4, <1>5 DEF SessionStep

LEMMA ConnectInv ==
  ASSUME SessionInv, NEW c \in Clients, Connect(c)
  PROVE  SessionInv'
<1>1. SessionTypeOK'
  BY DEF SessionInv, SessionTypeOK, Connect
<1>2. NothingLost'
  BY DEF SessionInv, SessionTypeOK, NothingLost, ClosedIsEmpty, Asking, Gone, Connect
<1>3. ClosedIsEmpty'
  BY DEF SessionInv, SessionTypeOK, ClosedIsEmpty, Connect
<1> QED
  BY <1>1, <1>2, <1>3 DEF SessionInv

LEMMA SendInv ==
  ASSUME SessionInv, NEW c \in Clients, NEW next \in {"asking", "waiting"},
         client[c] \in {"anonymous", "known"}, Send(c, next)
  PROVE  SessionInv'
<1>1. CASE conn[c] = "none"
  BY <1>1 DEF SessionInv, SessionTypeOK, NothingLost, ClosedIsEmpty, Asking, Send
<1>2. CASE conn[c] # "none"
  <2>1. PICK n \in 1 .. MaxRequest : incoming' = [incoming EXCEPT ![c] = n]
    BY <1>2 DEF Send
  <2>2. client' = [client EXCEPT ![c] = next]
    BY <1>2 DEF Send
  <2>3. SessionTypeOK'
    BY <2>1, <2>2 DEF SessionInv, SessionTypeOK, Send
  <2>4. NothingLost'
    BY <2>1, <2>2 DEF SessionInv, SessionTypeOK, NothingLost, Asking, Send
  <2>5. ClosedIsEmpty'
    BY <1>2, <2>1 DEF SessionInv, SessionTypeOK, ClosedIsEmpty, Send
  <2> QED
    BY <2>3, <2>4, <2>5 DEF SessionInv
<1> QED
  BY <1>1, <1>2

\* What a client read whole was all there was to come.
LEMMA ResponseInv ==
  ASSUME SessionInv, NEW c \in Clients, NEW answers \in SUBSET {"anonymous", "known"},
         client[c] \in {"asking", "waiting"}, Read(c, answers)
  PROVE  SessionInv'
<1>1. PICK k \in 1 .. Min({Len(reply[c]), ReadSize}) :
        \/ k = length[c] /\ \E next \in {"anonymous", "known"} :
                              client' = [client EXCEPT ![c] = next]
        \/ client' = [client EXCEPT ![c] = "failed"]
  BY DEF Read
<1>2. Len(reply[c]) \in Nat /\ k \in Nat /\ k <= Len(reply[c])
  <2>1. Len(reply[c]) \in Nat
    BY DEF SessionInv, SessionTypeOK
  <2> QED
    BY <2>1, MinOfTwo
<1>3. CASE client' = [client EXCEPT ![c] = "failed"]
  BY <1>3 DEF SessionInv, SessionTypeOK, NothingLost, ClosedIsEmpty, Asking, Read
<1>4. CASE k = length[c] /\ \E next \in {"anonymous", "known"} :
                              client' = [client EXCEPT ![c] = next]
  <2>1. PICK next \in {"anonymous", "known"} : client' = [client EXCEPT ![c] = next]
    BY <1>4
  <2>2. incoming[c] = 0 /\ unsent[c] = 0
    BY <1>2, <1>4 DEF SessionInv, SessionTypeOK, NothingLost, ClosedIsEmpty, Asking, Read
  <2> QED
    BY <2>1, <2>2 DEF SessionInv, SessionTypeOK, NothingLost, ClosedIsEmpty, Asking, Read
<1> QED
  BY <1>1, <1>3, <1>4

LEMMA GoneInv ==
  ASSUME SessionInv, NEW c \in Clients, ReadEof(c) \/ Leave(c)
  PROVE  SessionInv'
<1>1. CASE ReadEof(c)
  BY <1>1 DEF SessionInv, SessionTypeOK, NothingLost, ClosedIsEmpty, Asking, ReadEof
<1>2. CASE Leave(c)
  BY <1>2 DEF SessionInv, SessionTypeOK, NothingLost, ClosedIsEmpty, Asking, Leave
<1> QED
  BY <1>1, <1>2
-----------------------------------------------------------------------------
\* Every reachable state: the types, where requests and replies are, and that a
\* closed connection holds nothing.
THEOREM SessionInvariance == Spec => []SessionInv
<1>1. ASSUME SessionInv, [Next]_vars PROVE SessionInv'
  <2> USE <1>1
  <2>1. CASE Serve
    BY <2>1, ServeInv
  <2>2. CASE Signal \/ RunReturns
    BY <2>2, EndsInv DEF Signal, RunReturns
  <2>3. CASE HandleAcceptError
    BY <2>3 DEF SessionInv, SessionTypeOK, NothingLost, ClosedIsEmpty, Asking, HandleAcceptError
  <2>4. ASSUME NEW c \in Clients,
               \/ HandleAccept(c)
               \/ SessionStep(c)
               \/ Connect(c)
               \/ Authenticate(c)
               \/ SendRequest(c)
               \/ ReadAuthResponse(c)
               \/ ReadResponse(c)
               \/ ReadEof(c)
               \/ Leave(c)
        PROVE  SessionInv'
    <3>1. CASE Authenticate(c) \/ SendRequest(c)
      BY <3>1, SendInv DEF Authenticate, SendRequest
    <3>2. CASE ReadAuthResponse(c)
      <4>1. client[c] = "asking" /\ Read(c, {"anonymous", "known"})
        BY <3>2 DEF ReadAuthResponse
      <4> QED
        BY <4>1, ResponseInv
    <3>3. CASE ReadResponse(c)
      <4>1. client[c] = "waiting" /\ Read(c, {"known"})
        BY <3>3 DEF ReadResponse
      <4>2. {"known"} \in SUBSET {"anonymous", "known"}
        OBVIOUS
      <4> QED
        BY <4>1, <4>2, ResponseInv
    <3> QED
      BY <2>4, <3>1, <3>2, <3>3, AcceptInv, SessionStepInv, ConnectInv, GoneInv
  <2>5. CASE UNCHANGED vars
    BY <2>5 DEF SessionInv, SessionTypeOK, NothingLost, ClosedIsEmpty, Asking, vars
  <2> QED
    BY <2>1, <2>2, <2>3, <2>4, <2>5 DEF Next
<1> QED
  BY <1>1, InitInv, PTL DEF Spec

\* The variables of the connections keep their types.
THEOREM SessionTypes == Spec => []SessionTypeOK
BY SessionInvariance, PTL DEF SessionInv

\* The request of a client that waits, or its reply, is on the way once, or the
\* connection is closed; and an open connection has a handler to come.
THEOREM NoRequestLost == Spec => []NothingLost
BY SessionInvariance, PTL DEF SessionInv
-----------------------------------------------------------------------------
(* When README.md is right: one piece for a request, one for a reply *)

\* Requests that arrive in one piece and are about users of this run, and accepts
\* that succeed: then nothing but a signal ends the server.  What ends it
\* otherwise is one of these three.
THEOREM WholeRequestsServed ==
  ASSUME MaxRequest = 1, ~UnknownUsers, ~AcceptFails
  PROVE  Spec => []OnlySignalStops
<1> DEFINE Accepts == (up => accepting) /\ OnlySignalStops
<1>1. Init => Accepts
  BY DEF Init, OnlySignalStops
<1>2. ASSUME SessionInv, Accepts, [Next]_vars PROVE Accepts'
  <2>1. ~RunReturns /\ ~HandleAcceptError
    BY <1>2 DEF RunReturns, HandleAcceptError
  <2>2. \A c \in Clients : ~HandleReadThrows(c)
    <3>1. \A c \in Clients : incoming[c] \in 0 .. 1
      BY <1>2 DEF SessionInv, SessionTypeOK
    <3> QED BY <3>1 DEF HandleReadThrows
  <2>3. CASE Serve \/ Signal
    BY <2>3 DEF Serve, Signal, Ends, OnlySignalStops
  <2>4. CASE UNCHANGED <<up, ended, accepting>>
    BY <1>2, <2>4 DEF OnlySignalStops
  <2>5. Next => Serve \/ Signal \/ UNCHANGED <<up, ended, accepting>>
    BY <2>1, <2>2 DEF Next, SessionStep, HandleAccept, HandleRead, HandleError, Delete,
       WriteSome, HandleWrite, Connect, Authenticate, SendRequest, Send,
       ReadAuthResponse, ReadResponse, Read, ReadEof, Leave
  <2>6. UNCHANGED vars => UNCHANGED <<up, ended, accepting>>
    BY DEF vars
  <2> QED BY <1>2, <2>3, <2>4, <2>5, <2>6
<1>3. Accepts => OnlySignalStops
  OBVIOUS
<1> QED BY <1>1, <1>2, <1>3, SessionInvariance, PTL DEF Spec

\* What has come of a reply is what was sent, while nothing of it is unsent.
WholeReplies ==
  \A c \in Clients :
    /\ unsent[c] = 0
    /\ \A i \in 1 .. Len(reply[c]) : reply[c][i] = "good"

LEMMA OnePieceReplies ==
  ASSUME MaxReply = 1, SessionInv, WholeReplies, [Next]_vars
  PROVE  WholeReplies'
<1>1. CASE \E c \in Clients : HandleRead(c)
  <2> PICK c \in Clients : HandleRead(c)
    BY <1>1
  <2>1. PICK n \in 1 .. MaxReply :
          LET sent == Min({n, SendSize}) IN
          /\ reply' = [reply EXCEPT ![c] = [i \in 1 .. sent |-> "good"]]
          /\ unsent' = [unsent EXCEPT ![c] = n - sent]
    BY DEF HandleRead
  <2> DEFINE sent == Min({n, SendSize})
             pieces == [i \in 1 .. sent |-> "good"]
  <2>2. n = 1 /\ sent \in {1, SendSize} /\ sent <= 1
    BY MinOfTwo
  <2>3. sent = 1
    BY <2>2
  <2> HIDE DEF sent
  <2>4. Len(pieces) = 1 /\ pieces[1] = "good"
    BY <2>3, GoodPieces
  <2>5. reply' = [reply EXCEPT ![c] = pieces] /\ unsent' = [unsent EXCEPT ![c] = 0]
    <3>1. reply' = [reply EXCEPT ![c] = pieces] /\ unsent' = [unsent EXCEPT ![c] = n - sent]
      BY <2>1 DEF sent
    <3>2. n - sent = 0
      BY <2>2, <2>3
    <3> QED BY <3>1, <3>2
  <2> HIDE DEF pieces
  <2>6. /\ DOMAIN reply = Clients /\ DOMAIN unsent = Clients
    BY DEF SessionInv, SessionTypeOK
  <2>7. /\ reply'[c] = pieces /\ unsent'[c] = 0
        /\ \A d \in Clients \ {c} : reply'[d] = reply[d] /\ unsent'[d] = unsent[d]
    BY <2>5, <2>6
  <2>8. \A i \in 1 .. Len(pieces) : pieces[i] = "good"
    BY <2>4
  <2>9. ASSUME NEW d \in Clients
        PROVE  unsent'[d] = 0 /\ \A i \in 1 .. Len(reply'[d]) : reply'[d][i] = "good"
    BY <2>7, <2>8 DEF WholeReplies
  <2> QED BY <2>9 DEF WholeReplies
<1>2. \A c \in Clients : ~WriteSome(c)
  BY DEF WholeReplies, WriteSome
<1>3. CASE /\ \A c \in Clients : unsent'[c] \in {unsent[c], 0}
           /\ \A c \in Clients : reply'[c] \in {reply[c], <<>>}
  BY <1>3 DEF WholeReplies
<1>4. ASSUME Next, \A c \in Clients : ~HandleRead(c)
      PROVE  /\ \A c \in Clients : unsent'[c] \in {unsent[c], 0}
             /\ \A c \in Clients : reply'[c] \in {reply[c], <<>>}
  <2>1. DOMAIN reply = Clients /\ DOMAIN unsent = Clients
    BY DEF SessionInv, SessionTypeOK
  <2>2. CASE UNCHANGED <<unsent, reply>>
    BY <2>2
  <2>3. CASE reply' = reply /\ unsent' = [c \in Clients |-> 0]
    BY <2>3
  <2>4. CASE reply' = reply /\ \E c \in Clients : unsent' = [unsent EXCEPT ![c] = 0]
    BY <2>1, <2>4
  <2>5. CASE unsent' = unsent /\ \E c \in Clients : reply' = [reply EXCEPT ![c] = <<>>]
    BY <2>1, <2>5
  <2> QED
    BY <1>2, <1>4, <2>2, <2>3, <2>4, <2>5
       DEF Next, Serve, Signal, RunReturns, Ends, HandleAcceptError, HandleAccept,
       SessionStep, HandleReadThrows, HandleError, Delete, HandleWrite, Connect,
       Authenticate, SendRequest, Send, ReadAuthResponse, ReadResponse, Read,
       ReadEof, Leave
<1>5. UNCHANGED vars => /\ \A c \in Clients : unsent'[c] \in {unsent[c], 0}
                        /\ \A c \in Clients : reply'[c] \in {reply[c], <<>>}
  BY DEF vars
<1> QED BY <1>1, <1>3, <1>4, <1>5

\* Replies that fit into one piece: then a client that waits for one fails only
\* when its connection is closed.
THEOREM ShortRepliesShown ==
  ASSUME MaxReply = 1
  PROVE  Spec => ClientsGetReports
<1>1. Init => WholeReplies
  BY DEF Init, WholeReplies
<1>2. Spec => []WholeReplies
  BY <1>1, OnePieceReplies, SessionInvariance, PTL DEF Spec
<1>3. ASSUME SessionInv, WholeReplies, Next, NEW c \in Clients,
             client[c] = "waiting", client'[c] = "failed", conn[c] # "none"
      PROVE  FALSE
  <2>1. client \in [Clients -> {"out", "anonymous", "asking", "known", "waiting", "failed"}]
    BY <1>3 DEF SessionInv, SessionTypeOK
  <2>2. ReadResponse(c)
    BY <1>3, <2>1, ZenonT(60) DEF Next, Serve, Signal, RunReturns, Ends, HandleAcceptError,
       HandleAccept, SessionStep, HandleRead, HandleReadThrows, HandleError, Delete,
       WriteSome, HandleWrite, Connect, Authenticate, SendRequest, Send,
       ReadAuthResponse, ReadResponse, Read, ReadEof, Leave
  <2>3. /\ reply[c] # <<>> /\ reply[c] \in Seq({"good", "junk"})
        /\ length[c] \in 0 .. 1
    BY <1>3, <2>2 DEF ReadResponse, Read, SessionInv, SessionTypeOK
  <2>4. Len(reply[c]) = length[c] /\ length[c] > 0
    BY <1>3, <2>3 DEF SessionInv, NothingLost, WholeReplies, Asking
  <2>5. Len(reply[c]) = 1 /\ length[c] = 1
    BY <2>3, <2>4
  <2>6. PICK k \in 1 .. Min({Len(reply[c]), ReadSize}) :
          IF k = length[c] /\ \A i \in 1 .. k : reply[c][i] = "good"
          THEN \E next \in {"known"} : client' = [client EXCEPT ![c] = next]
          ELSE client' = [client EXCEPT ![c] = "failed"]
    BY <2>2 DEF ReadResponse, Read
  <2>7. k = 1
    <3>1. Min({1, ReadSize}) \in {1, ReadSize} /\ Min({1, ReadSize}) <= 1
      BY MinOfTwo
    <3> QED BY <2>5, <2>6, <3>1
  <2>8. reply[c][1] = "good"
    BY <1>3, <2>5 DEF WholeReplies
  <2> QED BY <1>3, <2>1, <2>5, <2>6, <2>7, <2>8
<1>4. SessionInv /\ WholeReplies /\ [Next]_vars
        => [\A c \in Clients :
              client[c] = "waiting" /\ client'[c] = "failed" => conn[c] = "none"]_vars
  BY <1>3
<1> QED BY <1>2, <1>4, SessionInvariance, PTL DEF Spec, ClientsGetReports
=============================================================================
