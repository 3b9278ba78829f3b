------------------------------- MODULE Server -------------------------------
(***************************************************************************)
(* The server process around the market (src/src/server_main.cpp,          *)
(* session.cpp, serializer.cpp): its requests, the rows they write, and    *)
(* what ends and restarts it.                                              *)
(*                                                                         *)
(* io_service.run() runs one request handler at a time, so a request is    *)
(* one step here unless the market splits it into several.  The tables     *)
(* survive a restart and the ids continue after the largest stored ones,   *)
(* but the market starts empty.  An id of an earlier run makes at() throw; *)
(* the exception leaves run() and main.                                    *)
(*                                                                         *)
(* Module Market counts offers and deals of this run from 1; their ids are *)
(* these numbers counted on from firstOffer and firstDeal.                 *)
(***************************************************************************)
EXTENDS Market, Database

CONSTANTS
  Clients,     \* client programs
  MaxRuns      \* bound: how often the server is started

ASSUME ServerAssumption == Users \subseteq Nat /\ MaxRuns \in Nat

VARIABLES
  up,          \* the server runs
  runs,        \* how often it was started
  firstUser, firstOffer, firstDeal,  \* where the ids of this run begin
  nextUser,    \* UserData::user_id_
  username,    \* UserData::username_, per user of this run
  client       \* per client: Client::id_, the name and the password it was told it for

idVars == <<runs, firstUser, firstOffer, firstDeal>>
serverVars == <<up, idVars, nextUser, username, client>>
allVars == <<vars, tables, serverVars>>

OfferId(n) == firstOffer + n - 1
DealId(n) == firstDeal + n - 1
NoName == [u \in Users |-> NoUser]
NoClient == [c \in Clients |-> NoUser]
-----------------------------------------------------------------------------
ServerInit ==
  /\ Init
  /\ DatabaseInit
  /\ up = FALSE
  /\ runs = 0
  /\ firstUser = 0 /\ firstOffer = 0 /\ firstDeal = 0
  /\ nextUser = 0
  /\ username = NoName
  /\ client = NoClient

\* A new process: a new market, and the id counters from the tables.
Start ==
  /\ ~up
  /\ runs < MaxRuns
  /\ up' = TRUE
  /\ runs' = runs + 1
  /\ firstOffer' \in GetMaxId(offerRows)
  /\ firstDeal' \in GetMaxId(dealRows)
  /\ firstUser' \in GetMaxId(userRows)
  /\ nextUser' = firstUser'
  /\ users' = {}
  /\ balance' = [u \in Users |-> [usd |-> 0, rub |-> 0]]
  /\ active' = [u \in Users |-> {}]
  /\ closed' = [u \in Users |-> {}]
  /\ offers' = <<>>
  /\ deals' = <<>>
  /\ book' = [s \in Side |-> [p \in {} |-> <<>>]]
  /\ quote' = None
  /\ phase' = "idle"
  /\ info' = NoInfo
  /\ deposited' = [u \in Users |-> [usd |-> 0, rub |-> 0]]
  /\ username' = NoName
  /\ UNCHANGED <<tables, client>>

\* The process ends, and with it every connection and so every client.
Ends ==
  /\ up' = FALSE
  /\ client' = NoClient

\* A kill, at any moment; SIGINT does the same between two handlers.
Stop ==
  /\ up
  /\ Ends
  /\ UNCHANGED <<vars, tables, idVars, nextUser, username>>

\* at() throws for a user the market does not have.
Throw ==
  /\ Ends
  /\ UNCHANGED <<vars, idVars, nextUser, username>>

\* A handler may start: the previous one has returned.
Ready == up /\ phase = "idle"
-----------------------------------------------------------------------------
(* The requests *)

\* What a client remembers of the reply and of its request.
Known(id, name, password) == [id |-> id, username |-> name, password |-> password]

\* Mutant of Register: the user is not inserted into the market.
RegisterNotInserted(c, name, password) ==
  /\ Ready
  /\ client[c] = NoUser
  /\ nextUser \in Users
  /\ FALSE \in UsernameExist(name)
  /\ AddUser(nextUser, name, password)
  /\ nextUser' = nextUser + 1
  /\ client' = [client EXCEPT ![c] = Known(nextUser, name, password)]
  /\ UNCHANGED <<vars, offerRows, dealRows, up, idVars, username>>

\* CreateUser: refuse a name that exists, or else construct the user, which
\* writes its row, and tell the client its id.
Register(c, name, password) ==
  /\ Ready
  /\ client[c] = NoUser
  /\ nextUser \in Users
  /\ FALSE \in UsernameExist(name)
  /\ AddUser(nextUser, name, password)
  /\ RegisterUser(nextUser)
  /\ nextUser' = nextUser + 1
  /\ username' = [username EXCEPT ![nextUser] = name]
  /\ client' = [client EXCEPT ![c] = Known(nextUser, name, password)]
  /\ UNCHANGED <<offerRows, dealRows, up, idVars>>

\* The answer comes from the table alone.
Login(c, name, password) ==
  /\ Ready
  /\ client[c] = NoUser
  /\ \E id \in GetUserId(name, password) \ {NoUser} :
       client' = [client EXCEPT ![c] = Known(id, name, password)]
  /\ UNCHANGED <<vars, tables, up, idVars, nextUser, username>>

\* "End session".
Leave(c) ==
  /\ client[c] # NoUser
  /\ client' = [client EXCEPT ![c] = NoUser]
  /\ UNCHANGED <<vars, tables, up, idVars, nextUser, username>>

\* A request of client c about user u.
Asks(c, u) ==
  /\ Ready
  /\ client[c] # NoUser
  /\ u = client[c].id

\* The offer is constructed, and its row written, before its owner is looked
\* up.
Post(c, u, side, price, amount) ==
  /\ Asks(c, u)
  /\ Len(offers) < MaxOffers
  /\ AddOffer(OfferId(Len(offers) + 1),
              [owner |-> u, side |-> side, price |-> price, amount |-> amount])
  /\ \/ PostOffer(u, side, price, amount)
        /\ UNCHANGED serverVars
     \/ u \notin users /\ Throw
  /\ UNCHANGED <<userRows, dealRows>>

\* The client may enter any id; one that is not an offer of this run is
\* refused.
Cancel(c, u, id) ==
  /\ Asks(c, u)
  /\ \/ \E o \in 1 .. Len(offers) : id = OfferId(o) /\ RemoveOffer(u, o)
        /\ UNCHANGED serverVars
     \/ u \notin users /\ Throw
  /\ UNCHANGED tables

\* Balance, active offers and closed deals of a user the market does not have;
\* for one it has they change nothing.
ReportUnknown(c, u) ==
  /\ Asks(c, u)
  /\ u \notin users
  /\ Throw
  /\ UNCHANGED tables

Quotes(c) ==
  /\ Ready
  /\ client[c] # NoUser
  /\ GetAskBidQuotes
  /\ UNCHANGED <<tables, serverVars>>

\* A step of the handler that runs; one that makes a deal constructs it, which
\* writes its row.
Continue ==
  /\ up
  /\ Handler
  /\ IF deals' = deals THEN UNCHANGED dealRows
     ELSE AddDeal(DealId(Len(deals')), deals'[Len(deals')])
  /\ UNCHANGED <<userRows, offerRows, serverVars>>
-----------------------------------------------------------------------------
ServerNext ==
  \/ Start
  \/ Stop
  \/ Continue
  \/ \E c \in Clients :
       \/ \E name \in Usernames, password \in Passwords :
            Register(c, name, password) \/ Login(c, name, password)
       \/ Leave(c)
       \/ Quotes(c)
       \/ \E u \in Users :
            \/ \E side \in Side, price \in Prices, amount \in Amounts :
                 Post(c, u, side, price, amount)
            \/ \E id \in DOMAIN offerRows \cup {OfferId(o) : o \in 1 .. Len(offers)} :
                 Cancel(c, u, id)
            \/ ReportUnknown(c, u)

ServerSpec == ServerInit /\ [][ServerNext]_allVars
-----------------------------------------------------------------------------
(* Properties *)

\* Every variable of the server has its type.
ServerTypeOK ==
  /\ TypeOK
  /\ DOMAIN userRows \subseteq Users
  /\ \A id \in DOMAIN userRows :
       userRows[id] \in [username : Usernames, password : Passwords, rowid : Nat]
  /\ DOMAIN offerRows \cup DOMAIN dealRows \subseteq Nat
  /\ \A id \in DOMAIN offerRows :
       offerRows[id] \in [owner : Users, side : Side, price : Prices,
                          amount : Amounts]
  /\ \A id \in DOMAIN dealRows : dealRows[id] \in Deal
  /\ up \in BOOLEAN
  /\ runs \in 0 .. MaxRuns
  /\ {firstUser, firstOffer, firstDeal, nextUser} \subseteq Nat
  /\ username \in [Users -> Usernames \cup {NoUser}]
  /\ client \in [Clients -> [id : Users, username : Usernames, password : Passwords]
                           \cup {NoUser}]

\* While the server runs and as long as no statement fails, what the market has
\* is what the tables say: the INSERT of a user, an offer or a deal never meets
\* a row of an earlier run with its id.
TablesMirrorMarket ==
  up =>
    /\ \A u \in users : u \in DOMAIN userRows
                        /\ userRows[u].username = username[u]
    /\ \A n \in 1 .. Len(offers) :
         /\ OfferId(n) \in DOMAIN offerRows
         /\ LET row == offerRows[OfferId(n)] IN
              /\ row.owner = offers[n].owner
              /\ row.side = offers[n].side
              /\ row.price = offers[n].price
              /\ row.amount >= offers[n].amount
    /\ \A n \in 1 .. Len(deals) :
         /\ DealId(n) \in DOMAIN dealRows
         /\ dealRows[DealId(n)] = deals[n]

\* What is gone from a user's offers on one side since they were written, and
\* what the stored deals of this run gave him there.
GoneFrom(u, side) ==
  [n \in {n \in 1 .. Len(offers) : offers[n].owner = u /\ offers[n].side = side} |->
     offerRows[OfferId(n)].amount - offers[n].amount]
StoredDeals == {id \in DOMAIN dealRows : id >= firstDeal}
StoredFor(u, side) ==
  [id \in StoredDeals |-> IF side = "BUY" THEN Bought(u, dealRows[id])
                          ELSE Sold(u, dealRows[id])]

\* The two histories agree: what is gone from a user's offers on one side since
\* they were written is what the stored deals of this run gave him there.
StoredDealsExplainFills ==
  up => \A u \in Users, side \in Side :
          SumFunction(GoneFrom(u, side)) = SumFunction(StoredFor(u, side))

\* No column of User is called like this: it is a string in every statement.
Plain(name) == Column[name] = "none"

\* A name is registered once, in all runs of the server together, unless it is
\* that of a column of User (such a name is compared with the column: id, when
\* it is registered, is not found, and can be registered again).
UsernamesUnique ==
  \A i, j \in DOMAIN userRows :
    userRows[i].username = userRows[j].username /\ Plain(userRows[i].username)
    => i = j

\* All the instances a user works from act for that user: the id a client was
\* told, by registration or login, is that of a user with the password it gave,
\* and in the market it denotes the name it gave, unless that is the name of a
\* column (who logs in as username is told the id of anyone with his password).
ClientsActForThemselves ==
  \A c \in Clients : client[c] # NoUser =>
    LET id == client[c].id
        name == client[c].username
    IN /\ id \in DOMAIN userRows /\ userRows[id].password = client[c].password
       /\ id \in users /\ Plain(name) => username[id] = name

\* Only users of an earlier run can end the server with a request: whoever was
\* told an id of this run is in the market.
UnknownUsersAreOld ==
  \A c \in Clients :
    client[c] # NoUser /\ client[c].id \notin users => client[c].id < firstUser

\* On an empty database, as the README recommends, every client that was told
\* an id is served, and under the name it gave if that is no column's, whatever
\* statements fail (a name whose row was lost is free again, and may be
\* registered twice).
FreshServerServesAll ==
  runs = 1 =>
    \A c \in Clients : client[c] # NoUser =>
      LET id == client[c].id
          name == client[c].username
      IN id \in users /\ (Plain(name) => username[id] = name)

\* What is stored stays as it was written, whatever statements fail and
\* whichever ids are given out again.
Kept(rows, later) ==
  \A id \in DOMAIN rows : id \in DOMAIN later /\ later[id] = rows[id]
HistoryKept ==
  [][/\ Kept(userRows, userRows')
     /\ Kept(offerRows, offerRows')
     /\ Kept(dealRows, dealRows')]_tables

\* README.md:46 says the data stays consistent if the database is kept between
\* runs: every stored offer of this run is one the market had.
StoredOffersReachTheMarket ==
  \A id \in DOMAIN offerRows :
    id >= firstOffer => \E n \in 1 .. Len(offers) : id = OfferId(n)
=============================================================================
