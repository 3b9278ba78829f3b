---------------------------- MODULE ServerProofs ----------------------------
(***************************************************************************)
(* Theorems of module Server, for every set of clients, names, ids and     *)
(* offers and every number of runs.  What module MarketProofs proves of    *)
(* the market alone holds inside the server, whatever statements fail and  *)
(* whenever it is stopped; when no statement fails, no id and no name but  *)
(* a column's is given twice, and the tables mirror the market.            *)
(***************************************************************************)
EXTENDS Server, LedgerProofs
-----------------------------------------------------------------------------
(* The market inside the server *)

\* Every step of the server is one of the market, or starts a new market.
LEMMA MarketStep ==
  ASSUME [ServerNext]_allVars
  PROVE  [Next]_vars \/ Start
<1>1. CASE Stop
  BY <1>1 DEF Stop
<1>2. CASE Continue
  BY <1>2 DEF Continue, Next
<1>3. ASSUME NEW c \in Clients, NEW name \in Usernames, NEW password \in Passwords,
             Register(c, name, password) \/ Login(c, name, password)
      PROVE  [Next]_vars
  BY <1>3 DEF Register, Login, Next, Request
<1>4. ASSUME NEW c \in Clients, Leave(c) \/ Quotes(c)
      PROVE  [Next]_vars
  BY <1>4 DEF Leave, Quotes, Next, Request
<1>5. ASSUME NEW c \in Clients, NEW u \in Users, NEW side \in Side,
             NEW price \in Prices, NEW amount \in Amounts,
             Post(c, u, side, price, amount)
      PROVE  [Next]_vars
  BY <1>5 DEF Post, Throw, Next, Request
<1>6. ASSUME NEW c \in Clients, NEW u \in Users, NEW id, Cancel(c, u, id)
      PROVE  [Next]_vars
  BY <1>6 DEF Cancel, Throw, Next, Request
<1>7. ASSUME NEW c \in Clients, NEW u \in Users, ReportUnknown(c, u)
      PROVE  [Next]_vars
  BY <1>7 DEF ReportUnknown, Throw
<1>8. CASE UNCHANGED allVars
  BY <1>8 DEF allVars
<1> QED BY <1>1, <1>2, <1>3, <1>4, <1>5, <1>6, <1>7, <1>8 DEF ServerNext

\* A new process has a market in its initial state.
LEMMA StartInit ==
  ASSUME Start
  PROVE  Init'
BY DEF Start, Init, NoInfo

\* The market's invariant holds through requests of unknown users, kills in the
\* middle of a post, restarts and failing statements.
THEOREM MarketInside == ServerSpec => []MarketInv
<1>1. ServerInit => MarketInv
  BY InitInv DEF ServerInit
<1>2. Init' => MarketInv'
  BY InitInv, PTL
<1>3. MarketInv /\ [ServerNext]_allVars => MarketInv'
  BY <1>2, MarketStep, StartInit, NextInv
<1> QED BY <1>1, <1>3, PTL DEF ServerSpec
-----------------------------------------------------------------------------
(* The tables *)

\* Ids are natural numbers and, unless there are none, one is the largest.
HasMax(rows) ==
  /\ DOMAIN rows \subseteq Nat
  /\ DOMAIN rows = {} \/ \E m \in DOMAIN rows : \A id \in DOMAIN rows : m >= id

\* The tables before and after an INSERT that succeeds.
Inserted(rows, id, row, after) ==
  /\ DOMAIN after = DOMAIN rows \cup {id}
  /\ \A i \in DOMAIN rows : after[i] = rows[i]
  /\ after[id] = row
  /\ HasMax(after)

\* INSERT with a new id, when no statement fails.
LEMMA InsertNew ==
  ASSUME MayFail = FALSE, NEW rows, HasMax(rows), NEW id \in Nat,
         id \notin DOMAIN rows, NEW row, NEW after \in Insert(rows, id, row)
  PROVE  Inserted(rows, id, row, after)
<1>1. after = [i \in DOMAIN rows \cup {id} |->
                 IF i \in DOMAIN rows THEN rows[i] ELSE row]
  BY DEF Insert
<1>2. HasMax(after)
  <2>1. CASE DOMAIN rows = {}
    BY <1>1, <2>1 DEF HasMax
  <2>2. CASE \E m \in DOMAIN rows : \A i \in DOMAIN rows : m >= i
    <3> PICK m \in DOMAIN rows : \A i \in DOMAIN rows : m >= i
      BY <2>2
    <3>1. m \in Nat /\ DOMAIN after = DOMAIN rows \cup {id}
      BY <1>1 DEF HasMax
    <3>2. CASE m >= id
      BY <3>1, <3>2 DEF HasMax
    <3>3. CASE id > m
      BY <3>1, <3>3 DEF HasMax
    <3> QED BY <3>1, <3>2, <3>3
  <2> QED BY <2>1, <2>2 DEF HasMax
<1> QED BY <1>1, <1>2 DEF Inserted

\* The ids of a run begin behind all stored ones.
LEMMA MaxIdFresh ==
  ASSUME MayFail = FALSE, NEW rows, HasMax(rows), NEW first \in GetMaxId(rows)
  PROVE  first \in Nat /\ \A id \in DOMAIN rows : id < first
<1>1. CASE DOMAIN rows = {}
  BY <1>1 DEF GetMaxId
<1>2. CASE DOMAIN rows # {}
  <2>1. PICK m \in DOMAIN rows : \A id \in DOMAIN rows : m >= id
    BY <1>2 DEF HasMax
  <2>2. /\ Max(DOMAIN rows) \in DOMAIN rows
        /\ \A id \in DOMAIN rows : Max(DOMAIN rows) >= id
    BY <2>1 DEF Max
  <2>3. first = Max(DOMAIN rows) + 1
    BY <1>2 DEF GetMaxId
  <2> QED BY <2>2, <2>3 DEF HasMax
<1> QED BY <1>1, <1>2

\* INSERT leaves the rows of other ids, and a row of its own id, as they were.
LEMMA InsertKeeps ==
  ASSUME NEW rows, NEW id, NEW row, NEW after \in Insert(rows, id, row)
  PROVE  Kept(rows, after)
BY DEF Insert, Kept

\* What is stored is never changed or removed, whatever fails.
THEOREM HistoryStays == ServerSpec => HistoryKept
<1>1. ASSUME ServerNext
      PROVE  /\ Kept(userRows, userRows')
             /\ Kept(offerRows, offerRows')
             /\ Kept(dealRows, dealRows')
  <2>1. CASE UNCHANGED tables
    BY <2>1 DEF tables, Kept
  <2>2. ASSUME NEW c \in Clients, NEW name \in Usernames, NEW password \in Passwords,
               Register(c, name, password)
        PROVE  /\ Kept(userRows, userRows')
               /\ Kept(offerRows, offerRows')
               /\ Kept(dealRows, dealRows')
    <3>1. Kept(userRows, userRows')
      BY <2>2, InsertKeeps DEF Register, AddUser
    <3>2. UNCHANGED <<offerRows, dealRows>>
      BY <2>2 DEF Register
    <3> QED BY <3>1, <3>2 DEF Kept
  <2>3. ASSUME NEW c \in Clients, NEW u \in Users, NEW side \in Side,
               NEW price \in Prices, NEW amount \in Amounts,
               Post(c, u, side, price, amount)
        PROVE  /\ Kept(userRows, userRows')
               /\ Kept(offerRows, offerRows')
               /\ Kept(dealRows, dealRows')
    <3>1. Kept(offerRows, offerRows')
      BY <2>3, InsertKeeps DEF Post, AddOffer
    <3>2. UNCHANGED <<userRows, dealRows>>
      BY <2>3 DEF Post
    <3> QED BY <3>1, <3>2 DEF Kept
  <2>4. CASE Continue
    <3>1. Kept(dealRows, dealRows')
      BY <2>4, InsertKeeps DEF Continue, AddDeal, Kept
    <3>2. UNCHANGED <<userRows, offerRows>>
      BY <2>4 DEF Continue
    <3> QED BY <3>1, <3>2 DEF Kept
  <2> QED BY <1>1, <2>1, <2>2, <2>3, <2>4
      DEF ServerNext, Start, Stop, Login, Leave, Cancel, ReportUnknown, Quotes
<1>2. [ServerNext]_allVars =>
        [/\ Kept(userRows, userRows')
         /\ Kept(offerRows, offerRows')
         /\ Kept(dealRows, dealRows')]_tables
  BY <1>1 DEF allVars
<1> QED BY <1>2, PTL DEF ServerSpec, HistoryKept
-----------------------------------------------------------------------------
(* Users, when no statement fails *)

\* What a client that was told an id remembers.
Answer == [id : Users, username : Usernames, password : Passwords]

LEMMA KnownTyped ==
  ASSUME NEW id \in Users, NEW name \in Usernames, NEW password \in Passwords
  PROVE  Known(id, name, password) \in Answer
BY DEF Known, Answer

\* A name that is no column's is compared as the string it is.
LEMMA PlainCalled ==
  ASSUME NEW id, NEW name, Plain(name)
  PROVE  IsCalled(id, name) <=> userRows[id].username = name
BY DEF Plain, IsCalled

UserTable ==
  /\ HasMax(userRows)
  /\ DOMAIN userRows \subseteq Users
  /\ firstUser \in Nat /\ nextUser \in Nat
  /\ username \in [Users -> Usernames \cup {NoUser}]
  /\ client \in [Clients -> Answer \cup {NoUser}]

\* The market's users are those whose rows this run wrote.
UsersStored ==
  /\ \A id \in DOMAIN userRows : id < nextUser
  /\ \A u \in users : u \in DOMAIN userRows /\ userRows[u].username = username[u]
  /\ \A id \in DOMAIN userRows : id >= firstUser => id \in users

\* A client has the id of a row with its password and, unless that is a
\* column's, its name.
StoredAs(answer, rows) ==
  /\ answer.id \in DOMAIN rows
  /\ rows[answer.id].password = answer.password
  /\ Plain(answer.username) => rows[answer.id].username = answer.username
ClientsStored ==
  \A c \in Clients : client[c] # NoUser => StoredAs(client[c], userRows)

UserInv ==
  /\ UserTable
  /\ IF up THEN UsersStored ELSE client = NoClient
  /\ ClientsStored
  /\ UsernamesUnique

LEMMA UserInit ==
  ASSUME ServerInit
  PROVE  UserInv
BY DEF ServerInit, DatabaseInit, EmptyTable, NoName, NoClient, UserInv,
   UserTable, UsersStored, ClientsStored, UsernamesUnique, HasMax

\* A step that leaves the users and the clients alone, or ends the process.
LEMMA UserFrame ==
  ASSUME UserInv,
         UNCHANGED <<userRows, firstUser, nextUser, username, users>>,
         \/ UNCHANGED <<up, client>>
         \/ up' = FALSE /\ client' = NoClient
  PROVE  UserInv'
<1>1. UsernamesUnique' /\ IF up' THEN UsersStored' ELSE client' = NoClient
  BY DEF UserInv, UsernamesUnique, UsersStored, Plain
<1>2. UserTable' /\ ClientsStored'
  BY DEF UserInv, UserTable, ClientsStored, StoredAs, Plain, NoClient, HasMax
<1> QED BY <1>1, <1>2 DEF UserInv

LEMMA UserStart ==
  ASSUME MayFail = FALSE, UserInv, Start
  PROVE  UserInv'
<1>1. firstUser' \in Nat /\ \A id \in DOMAIN userRows : id < firstUser'
  BY MaxIdFresh DEF Start, UserInv, UserTable
<1>2. UserTable'
  BY <1>1 DEF Start, UserInv, UserTable, HasMax, NoName, tables
<1>3. UsersStored'
  <2>1. \A id \in DOMAIN userRows : id \in Nat
    BY DEF UserInv, UserTable, HasMax
  <2> QED BY <1>1, <2>1 DEF Start, UsersStored, tables
<1>4. UsernamesUnique' /\ ClientsStored'
  BY DEF Start, UserInv, UsernamesUnique, ClientsStored, StoredAs, Plain, tables
<1> QED BY <1>2, <1>3, <1>4 DEF UserInv, Start

LEMMA UserRegister ==
  ASSUME MayFail = FALSE, UserInv, NEW c \in Clients, NEW name \in Usernames,
         NEW password \in Passwords, Register(c, name, password)
  PROVE  UserInv'
<1> DEFINE n == nextUser
           row == [username |-> name, password |-> password,
                   rowid |-> Cardinality(DOMAIN userRows) + 1]
<1>1. /\ up /\ up' = up /\ n \in Users
      /\ FALSE \in UsernameExist(name)
      /\ userRows' \in Insert(userRows, n, row)
      /\ users' = users \cup {n}
      /\ nextUser' = n + 1 /\ firstUser' = firstUser
      /\ username' = [username EXCEPT ![n] = name]
      /\ client' = [client EXCEPT ![c] = Known(n, name, password)]
  BY DEF Register, Ready, AddUser, RegisterUser, idVars
<1>2. /\ UserTable /\ UsersStored /\ ClientsStored /\ UsernamesUnique
      /\ n \in Nat /\ n \notin DOMAIN userRows
  BY <1>1 DEF UserInv, UserTable, UsersStored
<1>3. Plain(name) => \A id \in DOMAIN userRows : userRows[id].username # name
  BY <1>1, PlainCalled DEF UsernameExist
<1>4. Inserted(userRows, n, row, userRows')
  BY <1>1, <1>2, InsertNew DEF UserTable
<1>5. row.username = name /\ row.password = password
  OBVIOUS
<1> HIDE DEF n, row
<1>6. UserTable'
  <2>1. Known(n, name, password) \in Answer
    BY <1>1, KnownTyped
  <2> QED BY <1>1, <1>2, <1>4, <2>1 DEF UserTable, Inserted
<1>7. UsersStored'
  <2>1. \A id \in DOMAIN userRows' : id \in DOMAIN userRows \/ id = n
    BY <1>4 DEF Inserted
  <2>2. \A id \in DOMAIN userRows : id \in Nat
    BY <1>2 DEF UserTable, HasMax
  <2>3. \A id \in DOMAIN userRows' : id < nextUser'
    BY <1>1, <1>2, <2>1, <2>2 DEF UsersStored, n
  <2>4. \A id \in DOMAIN userRows' : id >= firstUser' => id \in users'
    BY <1>1, <1>2, <2>1 DEF UsersStored
  <2>5. \A u \in users' : u \in DOMAIN userRows' /\ userRows'[u].username = username'[u]
    <3>1. /\ n \in DOMAIN userRows' /\ userRows'[n].username = name
          /\ username'[n] = name
      BY <1>1, <1>2, <1>4, <1>5 DEF Inserted, UserTable
    <3>2. ASSUME NEW u \in users, u # n
          PROVE  u \in DOMAIN userRows' /\ userRows'[u].username = username'[u]
      <4>1. u \in DOMAIN userRows /\ userRows[u].username = username[u]
        BY <1>2 DEF UsersStored
      <4>2. username'[u] = username[u]
        BY <1>1, <1>2, <3>2 DEF UserTable
      <4>3. userRows'[u] = userRows[u] /\ u \in DOMAIN userRows'
        BY <1>4, <4>1 DEF Inserted
      <4> QED BY <4>1, <4>2, <4>3
    <3> QED BY <1>1, <3>1, <3>2
  <2> QED BY <2>3, <2>4, <2>5 DEF UsersStored
<1>8. ClientsStored'
  <2> SUFFICES ASSUME NEW d \in Clients, client'[d] # NoUser
               PROVE  StoredAs(client'[d], userRows')
    BY DEF ClientsStored, StoredAs, Plain
  <2>1. CASE d = c
    <3>1. client'[d] = Known(n, name, password)
      BY <1>1, <1>2, <2>1 DEF UserTable
    <3> QED BY <1>4, <1>5, <3>1 DEF Inserted, StoredAs, Known
  <2>2. CASE d # c
    <3>1. client'[d] = client[d]
      BY <1>1, <1>2, <2>2 DEF UserTable
    <3>2. StoredAs(client[d], userRows)
      BY <1>2, <3>1 DEF ClientsStored
    <3> QED BY <1>4, <3>1, <3>2 DEF Inserted, StoredAs
  <2> QED BY <2>1, <2>2
<1>9. UsernamesUnique'
  <2> SUFFICES ASSUME NEW i \in DOMAIN userRows', NEW j \in DOMAIN userRows',
                      userRows'[i].username = userRows'[j].username,
                      Plain(userRows'[i].username)
               PROVE  i = j
    BY DEF UsernamesUnique, Plain
  <2>1. /\ i \in DOMAIN userRows \/ i = n
        /\ j \in DOMAIN userRows \/ j = n
        /\ userRows'[n].username = name
        /\ i # n => userRows'[i] = userRows[i]
        /\ j # n => userRows'[j] = userRows[j]
    BY <1>4, <1>5 DEF Inserted
  <2> QED BY <1>2, <1>3, <2>1 DEF UsernamesUnique
<1> QED BY <1>1, <1>6, <1>7, <1>8, <1>9 DEF UserInv

LEMMA UserLogin ==
  ASSUME MayFail = FALSE, UserInv, NEW c \in Clients, NEW name \in Usernames,
         NEW password \in Passwords, Login(c, name, password)
  PROVE  UserInv'
<1>1. PICK id \in GetUserId(name, password) \ {NoUser} :
        client' = [client EXCEPT ![c] = Known(id, name, password)]
  BY DEF Login
<1>2. UNCHANGED <<userRows, firstUser, nextUser, username, users, up>>
  BY DEF Login, tables, idVars, vars
<1>3. /\ id \in DOMAIN userRows /\ userRows[id].password = password
      /\ Plain(name) => userRows[id].username = name
  BY <1>1, PlainCalled DEF GetUserId
<1>4. UserTable'
  <2>1. Known(id, name, password) \in Answer
    BY <1>3, KnownTyped DEF UserInv, UserTable
  <2> QED BY <1>1, <1>2, <2>1 DEF UserInv, UserTable, HasMax
<1>5. UsernamesUnique' /\ up' /\ UsersStored'
  BY <1>2 DEF Login, Ready, UserInv, UsernamesUnique, UsersStored, Plain
<1>6. ClientsStored'
  <2> SUFFICES ASSUME NEW d \in Clients, client'[d] # NoUser
               PROVE  StoredAs(client'[d], userRows)
    BY <1>2 DEF ClientsStored, StoredAs, Plain
  <2>1. CASE d = c
    BY <1>1, <1>3, <2>1 DEF UserInv, UserTable, StoredAs, Known
  <2>2. CASE d # c
    BY <1>1, <2>2 DEF UserInv, UserTable, ClientsStored
  <2> QED BY <2>1, <2>2
<1> QED BY <1>4, <1>5, <1>6 DEF UserInv

LEMMA UserLeave ==
  ASSUME UserInv, NEW c \in Clients, Leave(c)
  PROVE  UserInv'
<1>1. /\ client' = [client EXCEPT ![c] = NoUser]
      /\ UNCHANGED <<userRows, firstUser, nextUser, username, users, up>>
  BY DEF Leave, tables, idVars, vars
<1>2. UserTable' /\ ClientsStored'
  BY <1>1 DEF UserInv, UserTable, ClientsStored, StoredAs, Plain, HasMax
<1>3. up
  BY DEF Leave, UserInv, NoClient
<1>4. UsernamesUnique' /\ UsersStored'
  BY <1>1, <1>3 DEF UserInv, UsernamesUnique, UsersStored, Plain
<1> QED BY <1>1, <1>2, <1>3, <1>4 DEF UserInv

LEMMA UserNext ==
  ASSUME MayFail = FALSE, UserInv, [ServerNext]_allVars
  PROVE  UserInv'
<1>1. CASE Start
  BY <1>1, UserStart
<1>2. CASE Stop
  BY <1>2, UserFrame DEF Stop, Ends, vars, tables, idVars
<1>3. CASE Continue
  <2>1. UNCHANGED users
    BY <1>3 DEF Continue, Handler, SkipExpired, Trade, PruneExpired, FindQuote,
       Rest, NoQuote, ReturnQuotes, userVars
  <2> QED BY <1>3, <2>1, UserFrame DEF Continue, serverVars, idVars
<1>4. ASSUME NEW c \in Clients, NEW name \in Usernames, NEW password \in Passwords,
             Register(c, name, password) \/ Login(c, name, password)
      PROVE  UserInv'
  BY <1>4, UserRegister, UserLogin
<1>5. ASSUME NEW c \in Clients, Leave(c)
      PROVE  UserInv'
  BY <1>5, UserLeave
<1>6. ASSUME NEW c \in Clients, Quotes(c)
      PROVE  UserInv'
  BY <1>6, UserFrame DEF Quotes, GetAskBidQuotes, userVars, tables, serverVars, idVars
<1>7. ASSUME NEW c \in Clients, NEW u \in Users, NEW side \in Side,
             NEW price \in Prices, NEW amount \in Amounts,
             Post(c, u, side, price, amount)
      PROVE  UserInv'
  BY <1>7, UserFrame DEF Post, Throw, Ends, PostOffer, userVars, vars, serverVars,
     idVars
<1>8. ASSUME NEW c \in Clients, NEW u \in Users, NEW id, Cancel(c, u, id)
      PROVE  UserInv'
  BY <1>8, UserFrame DEF Cancel, Throw, Ends, RemoveOffer, userVars, vars, tables,
     serverVars, idVars
<1>9. ASSUME NEW c \in Clients, NEW u \in Users, ReportUnknown(c, u)
      PROVE  UserInv'
  BY <1>9, UserFrame DEF ReportUnknown, Throw, Ends, vars, tables, idVars
<1>10. CASE UNCHANGED allVars
  BY <1>10, UserFrame DEF allVars, vars, tables, serverVars, idVars
<1> QED BY <1>1, <1>2, <1>3, <1>4, <1>5, <1>6, <1>7, <1>8, <1>9, <1>10
        DEF ServerNext

\* The inductive invariant of the users, their rows and their clients.
THEOREM UserInvariance ==
  ASSUME MayFail = FALSE
  PROVE  ServerSpec => []UserInv
BY UserInit, UserNext, PTL DEF ServerSpec

\* No name but a column's is registered twice in any number of runs.
THEOREM NamesUnique ==
  ASSUME MayFail = FALSE
  PROVE  ServerSpec => []UsernamesUnique
<1>1. UserInv => UsernamesUnique
  BY DEF UserInv
<1> QED BY <1>1, UserInvariance, PTL

\* A client only ever acts for a user with its password and, unless it gave a
\* column's name, for the user it named.
THEOREM ClientsAct ==
  ASSUME MayFail = FALSE
  PROVE  ServerSpec => []ClientsActForThemselves
<1>1. UserInv => ClientsActForThemselves
  BY DEF UserInv, UsersStored, ClientsStored, StoredAs, ClientsActForThemselves,
     NoClient
<1> QED BY <1>1, UserInvariance, PTL
\* Only users of an earlier run are unknown to the market.
THEOREM UnknownOld ==
  ASSUME MayFail = FALSE
  PROVE  ServerSpec => []UnknownUsersAreOld
<1>1. UserInv => UnknownUsersAreOld
  <2> SUFFICES ASSUME UserInv, NEW c \in Clients, client[c] # NoUser,
                      client[c].id \notin users
               PROVE  client[c].id < firstUser
    BY DEF UnknownUsersAreOld
  <2>1. client[c].id \in DOMAIN userRows /\ up
    BY DEF UserInv, ClientsStored, StoredAs, NoClient
  <2>2. client[c].id \in Nat /\ firstUser \in Nat
    BY <2>1 DEF UserInv, UserTable, HasMax
  <2> QED BY <2>1, <2>2 DEF UserInv, UsersStored
<1> QED BY <1>1, UserInvariance, PTL
-----------------------------------------------------------------------------
(* The first run on an empty database, whatever statements fail *)

\* In the first run every stored user is in the market under its name, and so is
\* every client's unless it gave a column's; ids are given out in ascending order.
ServedAs(answer, served, names) ==
  answer.id \in served /\ (Plain(answer.username) => names[answer.id] = answer.username)
FirstRun ==
  /\ nextUser \in Nat
  /\ \A u \in users : u \in Nat /\ u < nextUser
  /\ \A id \in DOMAIN userRows : id \in users /\ userRows[id].username = username[id]
  /\ \A c \in Clients : client[c] # NoUser => ServedAs(client[c], users, username)

FreshInv ==
  /\ runs \in Nat
  /\ DOMAIN username = Users /\ DOMAIN client = Clients
  /\ ~up => client = NoClient
  /\ runs = 0 => ~up /\ DOMAIN userRows = {}
  /\ runs = 1 /\ up => FirstRun

LEMMA FreshInit ==
  ASSUME ServerInit
  PROVE  FreshInv
BY DEF ServerInit, DatabaseInit, EmptyTable, NoName, NoClient, FreshInv

\* A step that leaves the users and the clients alone, or ends the process.
LEMMA FreshFrame ==
  ASSUME FreshInv,
         UNCHANGED <<userRows, nextUser, username, users, runs>>,
         \/ UNCHANGED <<up, client>>
         \/ up /\ up' = FALSE /\ client' = NoClient
  PROVE  FreshInv'
<1>1. FirstRun /\ up' /\ runs = 1 => FirstRun'
  BY DEF FirstRun
<1> QED BY <1>1 DEF FreshInv, NoClient

\* The ids of the first run begin at 0: there is no row to begin behind.
LEMMA FreshStart ==
  ASSUME FreshInv, Start
  PROVE  FreshInv'
<1>1. /\ ~up /\ client = NoClient /\ client' = client /\ up'
      /\ runs' = runs + 1 /\ runs \in Nat
      /\ userRows' = userRows /\ users' = {} /\ nextUser' \in GetMaxId(userRows)
      /\ DOMAIN username' = Users
  BY DEF FreshInv, Start, tables, NoName
<1>2. ASSUME runs = 0 PROVE FirstRun'
  <2>1. DOMAIN userRows = {}
    BY <1>2 DEF FreshInv
  <2>2. nextUser' = 0
    BY <1>1, <2>1 DEF GetMaxId
  <2> QED BY <1>1, <2>1, <2>2 DEF FirstRun, NoClient
<1> QED BY <1>1, <1>2 DEF FreshInv

\* The user is in the market, and its client knows it, even if its row was lost.
LEMMA FreshRegister ==
  ASSUME FreshInv, NEW c \in Clients, NEW name \in Usernames,
         NEW password \in Passwords, Register(c, name, password)
  PROVE  FreshInv'
<1> DEFINE n == nextUser
           row == [username |-> name, password |-> password,
                   rowid |-> Cardinality(DOMAIN userRows) + 1]
<1>1. /\ up /\ up' = up /\ runs' = runs /\ n \in Users
      /\ userRows' \in Insert(userRows, n, row)
      /\ users' = users \cup {n} /\ nextUser' = n + 1
      /\ username' = [username EXCEPT ![n] = name]
      /\ client' = [client EXCEPT ![c] = Known(n, name, password)]
  BY DEF Register, Ready, AddUser, RegisterUser, idVars
<1>2. runs \in Nat /\ DOMAIN username = Users /\ DOMAIN client = Clients /\ runs # 0
  BY <1>1 DEF FreshInv
<1>3. ASSUME runs = 1 PROVE FirstRun'
  <2>1. FirstRun
    BY <1>1, <1>3 DEF FreshInv
  <2>2. n \in Nat /\ n \notin users /\ n \notin DOMAIN userRows
    BY <2>1 DEF FirstRun
  <2>3. \A u \in users : username'[u] = username[u]
    BY <1>1, <1>2, <2>2
  <2>4. username'[n] = name /\ row.username = name
    BY <1>1, <1>2
  <2>5. \A id \in DOMAIN userRows' :
          \/ id \in DOMAIN userRows /\ userRows'[id] = userRows[id]
          \/ id = n /\ userRows'[id] = row
    BY <1>1 DEF Insert
  <2> HIDE DEF row
  <2>6. \A id \in DOMAIN userRows' :
          id \in users' /\ userRows'[id].username = username'[id]
    BY <1>1, <2>1, <2>3, <2>4, <2>5 DEF FirstRun
  <2>7. nextUser' \in Nat /\ \A u \in users' : u \in Nat /\ u < nextUser'
    BY <1>1, <2>1, <2>2 DEF FirstRun
  <2>8. ASSUME NEW d \in Clients, client'[d] # NoUser
        PROVE  ServedAs(client'[d], users', username')
    <3>1. CASE d = c
      <4>1. client'[d] = Known(n, name, password)
        BY <1>1, <1>2, <3>1
      <4> QED BY <1>1, <2>4, <4>1 DEF ServedAs, Known
    <3>2. CASE d # c
      <4>1. client'[d] = client[d]
        BY <1>1, <1>2, <3>2
      <4> QED BY <1>1, <2>1, <2>3, <2>8, <4>1 DEF FirstRun, ServedAs
    <3> QED BY <3>1, <3>2
  <2> QED BY <2>6, <2>7, <2>8 DEF FirstRun
<1> QED BY <1>1, <1>2, <1>3 DEF FreshInv

\* Who logs in is stored, and so in the market.
LEMMA FreshLogin ==
  ASSUME FreshInv, NEW c \in Clients, NEW name \in Usernames,
         NEW password \in Passwords, Login(c, name, password)
  PROVE  FreshInv'
<1>1. PICK id \in GetUserId(name, password) \ {NoUser} :
        client' = [client EXCEPT ![c] = Known(id, name, password)]
  BY DEF Login
<1>2. /\ UNCHANGED <<userRows, nextUser, username, users, up, runs>> /\ up
      /\ DOMAIN client = Clients
  BY DEF Login, Ready, tables, idVars, vars, FreshInv
<1>3. /\ id \in DOMAIN userRows
      /\ Plain(name) => userRows[id].username = name
  BY <1>1, PlainCalled DEF GetUserId
<1>4. ASSUME runs = 1 PROVE FirstRun'
  <2>1. FirstRun
    BY <1>2, <1>4 DEF FreshInv
  <2>2. ASSUME NEW d \in Clients, client'[d] # NoUser
        PROVE  ServedAs(client'[d], users, username)
    <3>1. CASE d = c
      <4>1. client'[d] = Known(id, name, password)
        BY <1>1, <1>2, <3>1
      <4> QED BY <1>3, <2>1, <4>1 DEF FirstRun, ServedAs, Known
    <3>2. CASE d # c
      <4>1. client'[d] = client[d]
        BY <1>1, <1>2, <3>2
      <4> QED BY <2>1, <2>2, <4>1 DEF FirstRun
    <3> QED BY <3>1, <3>2
  <2> QED BY <1>2, <2>1, <2>2 DEF FirstRun
<1> QED BY <1>1, <1>2, <1>4 DEF FreshInv

LEMMA FreshLeave ==
  ASSUME FreshInv, NEW c \in Clients, Leave(c)
  PROVE  FreshInv'
<1>1. /\ client' = [client EXCEPT ![c] = NoUser] /\ DOMAIN client = Clients
      /\ UNCHANGED <<userRows, nextUser, username, users, up, runs>>
  BY DEF Leave, tables, idVars, vars, FreshInv
<1>2. \A d \in Clients : client'[d] = client[d] \/ client'[d] = NoUser
  BY <1>1
<1>3. up
  BY DEF Leave, FreshInv, NoClient
<1>4. FirstRun => FirstRun'
  BY <1>1, <1>2 DEF FirstRun
<1> QED BY <1>1, <1>3, <1>4 DEF FreshInv

LEMMA FreshNext ==
  ASSUME FreshInv, [ServerNext]_allVars
  PROVE  FreshInv'
<1>1. CASE Start
  BY <1>1, FreshStart
<1>2. CASE Stop
  BY <1>2, FreshFrame DEF Stop, Ends, vars, tables, idVars
<1>3. CASE Continue
  <2>1. UNCHANGED users
    BY <1>3 DEF Continue, Handler, SkipExpired, Trade, PruneExpired, FindQuote,
       Rest, NoQuote, ReturnQuotes, userVars
  <2> QED BY <1>3, <2>1, FreshFrame DEF Continue, serverVars, idVars
<1>4. ASSUME NEW c \in Clients, NEW name \in Usernames, NEW password \in Passwords,
             Register(c, name, password) \/ Login(c, name, password)
      PROVE  FreshInv'
  BY <1>4, FreshRegister, FreshLogin
<1>5. ASSUME NEW c \in Clients, Leave(c)
      PROVE  FreshInv'
  BY <1>5, FreshLeave
<1>6. ASSUME NEW c \in Clients, Quotes(c)
      PROVE  FreshInv'
  BY <1>6, FreshFrame DEF Quotes, GetAskBidQuotes, userVars, tables, serverVars, idVars
<1>7. ASSUME NEW c \in Clients, NEW u \in Users, NEW side \in Side,
             NEW price \in Prices, NEW amount \in Amounts,
             Post(c, u, side, price, amount)
      PROVE  FreshInv'
  BY <1>7, FreshFrame DEF Post, Asks, Ready, Throw, Ends, PostOffer, userVars, vars,
     serverVars, idVars
<1>8. ASSUME NEW c \in Clients, NEW u \in Users, NEW id, Cancel(c, u, id)
      PROVE  FreshInv'
  BY <1>8, FreshFrame DEF Cancel, Asks, Ready, Throw, Ends, RemoveOffer, userVars,
     vars, tables, serverVars, idVars
<1>9. ASSUME NEW c \in Clients, NEW u \in Users, ReportUnknown(c, u)
      PROVE  FreshInv'
  BY <1>9, FreshFrame DEF ReportUnknown, Asks, Ready, Throw, Ends, vars, tables, idVars
<1>10. CASE UNCHANGED allVars
  BY <1>10, FreshFrame DEF allVars, vars, tables, serverVars, idVars
<1> QED BY <1>1, <1>2, <1>3, <1>4, <1>5, <1>6, <1>7, <1>8, <1>9, <1>10
        DEF ServerNext

\* A server started on an empty database serves every client that was told an
\* id, under the name it gave if that is no column's, whatever statements fail.
THEOREM FreshServes == ServerSpec => []FreshServerServesAll
<1>1. FreshInv => FreshServerServesAll
  BY DEF FreshInv, FirstRun, ServedAs, FreshServerServesAll, NoClient
<1> QED BY <1>1, FreshInit, FreshNext, PTL DEF ServerSpec
-----------------------------------------------------------------------------
(* Offers, when no statement fails *)

\* Row n of this run's offers says what the market's offer says; of its amount
\* some may have been traded.
Mirrors(row, offer) ==
  /\ row.owner = offer.owner
  /\ row.side = offer.side
  /\ row.price = offer.price
  /\ row.amount \in Nat
  /\ row.amount >= offer.amount

OffersStored ==
  /\ \A id \in DOMAIN offerRows : id < firstOffer + Len(offers)
  /\ \A n \in 1 .. Len(offers) :
       /\ firstOffer + n - 1 \in DOMAIN offerRows
       /\ Mirrors(offerRows[firstOffer + n - 1], offers[n])

OfferInv ==
  /\ HasMax(offerRows)
  /\ firstOffer \in Nat
  /\ up => OffersStored

DealsStored ==
  /\ \A id \in DOMAIN dealRows : id < firstDeal + Len(deals)
  /\ \A n \in 1 .. Len(deals) :
       /\ firstDeal + n - 1 \in DOMAIN dealRows
       /\ dealRows[firstDeal + n - 1] = deals[n]

DealInv ==
  /\ HasMax(dealRows)
  /\ firstDeal \in Nat
  /\ up => DealsStored

\* The offers before and after a step that posts none.
Traded(before, after) ==
  /\ Len(after) = Len(before)
  /\ \A n \in 1 .. Len(before) :
       /\ after[n].owner = before[n].owner
       /\ after[n].side = before[n].side
       /\ after[n].price = before[n].price
       /\ after[n].amount \in Nat
       /\ after[n].amount <= before[n].amount

\* What a trade changes of the offers and the deals.
LEMMA TradeStep ==
  ASSUME MarketInv, NEW p \in Prices, Trade(p)
  PROVE  /\ Traded(offers, offers')
         /\ \E deal \in Deal : deals' = Append(deals, deal)
<1> DEFINE n == Incoming
           maker == Oldest(OtherSide, p)
           deal == MakeDeal(n, maker)
           a == deal.amount
<1>1. /\ n \in 1 .. Len(offers) /\ maker \in 1 .. Len(offers) /\ maker # n
      /\ deal \in Deal
      /\ a \in Nat \ {0}
      /\ a <= offers[maker].amount /\ a <= offers[n].amount
  BY TradeParties DEF Trade
<1>2. /\ offers' = [offers EXCEPT ![n] = Fill(@, a), ![maker] = Fill(@, a)]
      /\ deals' = Append(deals, deal)
  BY DEF Trade, RegisterDeal
<1>3. /\ offers \in Seq(Offer) /\ offers[n] \in Offer /\ offers[maker] \in Offer
      /\ \A o \in 1 .. Len(offers) : offers[o].amount \in Nat
  BY <1>1, OfferTypes DEF MarketInv, TypeOK
<1> HIDE DEF n, maker, deal, a
<1>4. /\ Len(offers') = Len(offers)
      /\ offers'[n] = Fill(offers[n], a)
      /\ offers'[maker] = Fill(offers[maker], a)
      /\ \A o \in 1 .. Len(offers) : o # n /\ o # maker => offers'[o] = offers[o]
  BY <1>1, <1>2, <1>3
<1>5. \A o \in {n, maker} :
        /\ offers'[o].owner = offers[o].owner
        /\ offers'[o].side = offers[o].side
        /\ offers'[o].price = offers[o].price
        /\ offers'[o].amount = offers[o].amount - a
  BY <1>1, <1>3, <1>4, FillOffer DEF a
<1>6. Traded(offers, offers')
  BY <1>1, <1>3, <1>4, <1>5, SMTT(30) DEF Traded
<1> QED BY <1>1, <1>2, <1>6

\* A step that posts no offer.
LEMMA OfferFrame ==
  ASSUME MarketInv, OfferInv, Traded(offers, offers'),
         UNCHANGED <<offerRows, firstOffer>>, up' => up
  PROVE  OfferInv'
<1>1. HasMax(offerRows)' /\ firstOffer' \in Nat
  BY DEF OfferInv, HasMax
<1>2. ASSUME up' PROVE OffersStored'
  <2>1. OffersStored
    BY <1>2 DEF OfferInv
  <2>2. ASSUME NEW n \in 1 .. Len(offers)
        PROVE  Mirrors(offerRows[firstOffer + n - 1], offers'[n])
    <3>1. /\ Mirrors(offerRows[firstOffer + n - 1], offers[n])
          /\ offers[n].amount \in Nat
      BY <2>1, OfferTypes DEF OffersStored, MarketInv
    <3> QED BY <3>1 DEF Traded, Mirrors
  <2> QED BY <2>1, <2>2 DEF OffersStored, Traded
<1> QED BY <1>1, <1>2 DEF OfferInv

\* A step that leaves the offers as they are.
LEMMA OfferSame ==
  ASSUME MarketInv, OfferInv, UNCHANGED <<offers, offerRows, firstOffer>>, up' => up
  PROVE  OfferInv'
<1>1. Traded(offers, offers')
  BY OfferTypes DEF Traded, MarketInv
<1> QED BY <1>1, OfferFrame

LEMMA OfferStart ==
  ASSUME MayFail = FALSE, OfferInv, Start
  PROVE  OfferInv'
<1>1. /\ firstOffer' \in Nat /\ \A id \in DOMAIN offerRows : id < firstOffer'
      /\ offerRows' = offerRows /\ offers' = <<>>
  BY MaxIdFresh DEF Start, OfferInv, tables
<1>2. OffersStored'
  BY <1>1 DEF OffersStored, OfferInv, HasMax
<1> QED BY <1>1, <1>2 DEF OfferInv, HasMax

LEMMA OfferPost ==
  ASSUME MayFail = FALSE, MarketInv, OfferInv, NEW c \in Clients, NEW u \in Users,
         NEW side \in Side, NEW price \in Prices, NEW amount \in Amounts,
         Post(c, u, side, price, amount)
  PROVE  OfferInv'
<1> DEFINE row == [owner |-> u, side |-> side, price |-> price, amount |-> amount]
           new == [owner |-> u, side |-> side, price |-> price, amount |-> amount,
                   status |-> "ACTIVE"]
           id == firstOffer + Len(offers)
<1>1. /\ Len(offers) \in Nat /\ offers \in Seq(Offer)
      /\ firstOffer \in Nat /\ HasMax(offerRows)
      /\ up /\ OffersStored
  BY OfferTypes DEF MarketInv, TypeOK, OfferInv, Post, Asks, Ready
<1>2. id \in Nat /\ id \notin DOMAIN offerRows
  BY <1>1 DEF OffersStored
<1>3. offerRows' \in Insert(offerRows, id, row)
  <2>1. firstOffer + (Len(offers) + 1) - 1 = firstOffer + Len(offers)
    BY <1>1
  <2> QED BY <2>1 DEF Post, AddOffer, OfferId
<1>4. Inserted(offerRows, id, row, offerRows')
  BY <1>1, <1>2, <1>3, InsertNew
<1>5. HasMax(offerRows') /\ firstOffer' \in Nat
  BY <1>1, <1>4 DEF Inserted, Post, Throw, serverVars, idVars
<1>6. CASE PostOffer(u, side, price, amount) /\ UNCHANGED serverVars
  <2>1. offers' = Append(offers, new) /\ firstOffer' = firstOffer
    BY <1>6 DEF PostOffer, serverVars, idVars
  <2>2. new \in Offer
    BY MarketAssumption DEF Offer, Status
  <2>3. Mirrors(row, new)
    BY MarketAssumption DEF Mirrors
  <2> HIDE DEF row, new
  <2>4. /\ Len(offers') = Len(offers) + 1
        /\ offers'[Len(offers) + 1] = new
        /\ \A n \in 1 .. Len(offers) : offers'[n] = offers[n]
    BY <1>1, <2>1, <2>2, AppendProperties, LenProperties
  <2>5. \A i \in DOMAIN offerRows' : i < firstOffer' + Len(offers')
    <3>1. \A i \in DOMAIN offerRows' : i \in DOMAIN offerRows \/ i = id
      BY <1>4 DEF Inserted
    <3>2. \A i \in DOMAIN offerRows : i \in Nat /\ i < firstOffer + Len(offers)
      BY <1>1 DEF HasMax, OffersStored
    <3> QED BY <1>1, <2>1, <2>4, <3>1, <3>2
  <2>6. ASSUME NEW n \in 1 .. Len(offers')
        PROVE  /\ firstOffer + n - 1 \in DOMAIN offerRows'
               /\ Mirrors(offerRows'[firstOffer + n - 1], offers'[n])
    <3>1. CASE n \in 1 .. Len(offers)
      <4>1. /\ firstOffer + n - 1 \in DOMAIN offerRows
            /\ Mirrors(offerRows[firstOffer + n - 1], offers[n])
        BY <1>1, <3>1 DEF OffersStored
      <4> QED BY <1>4, <2>4, <3>1, <4>1 DEF Inserted
    <3>2. CASE n = Len(offers) + 1
      <4>1. firstOffer + n - 1 = id
        BY <1>1, <3>2
      <4> HIDE DEF id
      <4> QED BY <1>4, <2>3, <2>4, <3>2, <4>1 DEF Inserted
    <3> QED BY <1>1, <2>4, <3>1, <3>2
  <2> QED BY <1>5, <2>1, <2>5, <2>6 DEF OfferInv, OffersStored
<1>7. CASE up' = FALSE
  BY <1>5, <1>7 DEF OfferInv
<1> QED BY <1>6, <1>7 DEF Post, Throw, Ends

LEMMA OfferNext ==
  ASSUME MayFail = FALSE, MarketInv, OfferInv, [ServerNext]_allVars
  PROVE  OfferInv'
<1>1. CASE Start
  BY <1>1, OfferStart
<1>2. CASE Stop
  BY <1>2, OfferSame DEF Stop, Ends, vars, tables, idVars
<1>3. CASE Continue
  <2>1. UNCHANGED <<offerRows, firstOffer, up>>
    BY <1>3 DEF Continue, serverVars, idVars
  <2>2. CASE \E p \in Prices : Trade(p)
    BY <2>1, <2>2, TradeStep, OfferFrame
  <2>3. CASE UNCHANGED offers
    BY <2>1, <2>3, OfferSame
  <2> QED BY <1>3, <2>2, <2>3 DEF Continue, Handler, SkipExpired, PruneExpired,
        FindQuote, Rest, NoQuote, ReturnQuotes
<1>4. ASSUME NEW c \in Clients, NEW name \in Usernames, NEW password \in Passwords,
             Register(c, name, password) \/ Login(c, name, password)
      PROVE  OfferInv'
  <2>1. CASE Register(c, name, password)
    <3>1. UNCHANGED <<offers, offerRows, firstOffer, up>>
      BY <2>1 DEF Register, RegisterUser, idVars
    <3> QED BY <3>1, OfferSame
  <2>2. CASE Login(c, name, password)
    BY <2>2, OfferSame DEF Login, vars, tables, idVars
  <2> QED BY <1>4, <2>1, <2>2
<1>5. ASSUME NEW c \in Clients, Leave(c) \/ Quotes(c)
      PROVE  OfferInv'
  BY <1>5, OfferSame DEF Leave, Quotes, GetAskBidQuotes, vars, tables, serverVars, idVars
<1>6. ASSUME NEW c \in Clients, NEW u \in Users, NEW side \in Side,
             NEW price \in Prices, NEW amount \in Amounts,
             Post(c, u, side, price, amount)
      PROVE  OfferInv'
  BY <1>6, OfferPost
<1>7. ASSUME NEW c \in Clients, NEW u \in Users, NEW id, Cancel(c, u, id)
      PROVE  OfferInv'
  BY <1>7, OfferSame DEF Cancel, Throw, Ends, RemoveOffer, vars, tables, serverVars,
     idVars
<1>8. ASSUME NEW c \in Clients, NEW u \in Users, ReportUnknown(c, u)
      PROVE  OfferInv'
  BY <1>8, OfferSame DEF ReportUnknown, Throw, Ends, vars, tables, idVars
<1>9. CASE UNCHANGED allVars
  BY <1>9, OfferSame DEF allVars, vars, tables, serverVars, idVars
<1> QED BY <1>1, <1>2, <1>3, <1>4, <1>5, <1>6, <1>7, <1>8, <1>9 DEF ServerNext

-----------------------------------------------------------------------------
(* The offers of the first run, whatever statements fail *)

\* In the first run every row of an offer is one the market has.
FirstOffers ==
  /\ runs = 0 => DOMAIN offerRows = {}
  /\ runs = 1 => \A id \in DOMAIN offerRows :
                   \E n \in 1 .. Len(offers) : id = OfferId(n)

\* A step that posts no offer.
LEMMA FirstOffersSame ==
  ASSUME FirstOffers, UNCHANGED <<offerRows, firstOffer, runs>>,
         Len(offers') = Len(offers)
  PROVE  FirstOffers'
BY DEF FirstOffers, OfferId

\* A client of the first run is in the market, so the row is never written in
\* vain.
LEMMA FirstOffersPost ==
  ASSUME MarketInv, FreshInv, FirstOffers, NEW c \in Clients, NEW u \in Users,
         NEW side \in Side, NEW price \in Prices, NEW amount \in Amounts,
         Post(c, u, side, price, amount)
  PROVE  FirstOffers'
<1>1. up /\ runs # 0 /\ client[c] # NoUser /\ u = client[c].id
  BY DEF Post, Asks, Ready, FreshInv
<1>2. CASE PostOffer(u, side, price, amount) /\ UNCHANGED serverVars
  <2>1. runs' = runs /\ firstOffer' = firstOffer /\ Len(offers) \in Nat
    BY <1>2, OfferTypes DEF serverVars, idVars, MarketInv
  <2>2. Len(offers') = Len(offers) + 1
    BY <1>2, OfferTypes, LenProperties, AppendProperties DEF PostOffer, MarketInv, TypeOK
  <2>3. \A id \in DOMAIN offerRows' :
          id \in DOMAIN offerRows \/ id = OfferId(Len(offers) + 1)
    BY DEF Post, AddOffer, Insert
  <2>4. \A n \in 1 .. Len(offers) : n \in 1 .. Len(offers')
    BY <2>1, <2>2
  <2>5. Len(offers) + 1 \in 1 .. Len(offers')
    BY <2>1, <2>2
  <2> QED BY <1>1, <2>1, <2>3, <2>4, <2>5 DEF FirstOffers, OfferId
<1>3. CASE u \notin users /\ Throw
  <2>1. runs # 1
    BY <1>1, <1>3 DEF FreshInv, FirstRun, ServedAs
  <2> QED BY <1>1, <1>3, <2>1 DEF Throw, idVars, FirstOffers
<1> QED BY <1>2, <1>3 DEF Post

LEMMA FirstOffersNext ==
  ASSUME MarketInv, FreshInv, FirstOffers, [ServerNext]_allVars
  PROVE  FirstOffers'
<1>1. CASE Start
  <2>1. /\ offerRows' = offerRows /\ runs' = runs + 1 /\ runs \in Nat
    BY <1>1 DEF Start, tables, FreshInv
  <2> QED BY <2>1 DEF FirstOffers
<1>2. CASE Stop
  BY <1>2, FirstOffersSame DEF Stop, vars, tables, idVars
<1>3. CASE Continue
  <2>1. UNCHANGED <<offerRows, firstOffer, runs>>
    BY <1>3 DEF Continue, serverVars, idVars
  <2>2. CASE \E p \in Prices : Trade(p)
    BY <2>1, <2>2, TradeStep, FirstOffersSame DEF Traded
  <2>3. CASE UNCHANGED offers
    BY <2>1, <2>3, FirstOffersSame
  <2> QED BY <1>3, <2>2, <2>3 DEF Continue, Handler, SkipExpired, PruneExpired,
        FindQuote, Rest, NoQuote, ReturnQuotes
<1>4. ASSUME NEW c \in Clients, NEW name \in Usernames, NEW password \in Passwords,
             Register(c, name, password) \/ Login(c, name, password)
      PROVE  FirstOffers'
  <2>1. UNCHANGED <<offers, offerRows, firstOffer, runs>>
    BY <1>4 DEF Register, RegisterUser, Login, vars, tables, idVars
  <2> QED BY <2>1, FirstOffersSame
<1>5. ASSUME NEW c \in Clients, Leave(c) \/ Quotes(c)
      PROVE  FirstOffers'
  BY <1>5, FirstOffersSame DEF Leave, Quotes, GetAskBidQuotes, vars, tables,
     serverVars, idVars
<1>6. ASSUME NEW c \in Clients, NEW u \in Users, NEW side \in Side,
             NEW price \in Prices, NEW amount \in Amounts,
             Post(c, u, side, price, amount)
      PROVE  FirstOffers'
  BY <1>6, FirstOffersPost
<1>7. ASSUME NEW c \in Clients, NEW u \in Users, NEW id, Cancel(c, u, id)
      PROVE  FirstOffers'
  BY <1>7, FirstOffersSame DEF Cancel, Throw, RemoveOffer, vars, tables, serverVars,
     idVars
<1>8. ASSUME NEW c \in Clients, NEW u \in Users, ReportUnknown(c, u)
      PROVE  FirstOffers'
  BY <1>8, FirstOffersSame DEF ReportUnknown, Throw, vars, tables, idVars
<1>9. CASE UNCHANGED allVars
  BY <1>9, FirstOffersSame DEF allVars, vars, tables, serverVars, idVars
<1> QED BY <1>1, <1>2, <1>3, <1>4, <1>5, <1>6, <1>7, <1>8, <1>9 DEF ServerNext

\* README.md:46 is right about the first run on an empty database, whatever
\* statements fail: every stored offer is one the market had.  A row that no
\* market knows needs a second run, where login confirms users of the first.
THEOREM FirstRunOffers ==
  ServerSpec => [](runs = 1 => StoredOffersReachTheMarket)
<1>1. ServerInit => FirstOffers
  BY DEF ServerInit, DatabaseInit, EmptyTable, FirstOffers
<1>2. ServerSpec => []FirstOffers
  BY <1>1, FirstOffersNext, MarketInside, FreshInit, FreshNext, PTL DEF ServerSpec
<1>3. FirstOffers => (runs = 1 => StoredOffersReachTheMarket)
  BY DEF FirstOffers, StoredOffersReachTheMarket
<1> QED BY <1>2, <1>3, PTL
-----------------------------------------------------------------------------
(* Deals, when no statement fails *)

\* A step that makes no deal.
LEMMA DealSame ==
  ASSUME DealInv, UNCHANGED <<deals, dealRows, firstDeal>>, up' => up
  PROVE  DealInv'
BY DEF DealInv, DealsStored, HasMax

LEMMA DealStart ==
  ASSUME MayFail = FALSE, DealInv, Start
  PROVE  DealInv'
<1>1. /\ firstDeal' \in Nat /\ \A id \in DOMAIN dealRows : id < firstDeal'
      /\ dealRows' = dealRows /\ deals' = <<>>
  BY MaxIdFresh DEF Start, DealInv, tables
<1>2. DealsStored'
  BY <1>1 DEF DealsStored, DealInv, HasMax
<1> QED BY <1>1, <1>2 DEF DealInv, HasMax

LEMMA DealContinue ==
  ASSUME MayFail = FALSE, MarketInv, DealInv, Continue
  PROVE  DealInv'
<1>1. /\ Len(deals) \in Nat /\ deals \in Seq(Deal)
      /\ firstDeal \in Nat /\ HasMax(dealRows)
      /\ up /\ UNCHANGED <<up, firstDeal>> /\ DealsStored
  BY OfferTypes DEF MarketInv, TypeOK, DealInv, Continue, serverVars, idVars
<1>2. CASE deals' = deals
  BY <1>1, <1>2, DealSame DEF Continue
<1>3. CASE deals' # deals
  <2>1. PICK deal \in Deal : deals' = Append(deals, deal)
    BY <1>3, TradeStep DEF Continue, Handler, SkipExpired, PruneExpired, FindQuote,
       Rest, NoQuote, ReturnQuotes
  <2> DEFINE id == firstDeal + Len(deals)
  <2>2. /\ Len(deals') = Len(deals) + 1
        /\ deals'[Len(deals) + 1] = deal
        /\ \A n \in 1 .. Len(deals) : deals'[n] = deals[n]
    BY <1>1, <2>1, AppendProperties, LenProperties
  <2>3. id \in Nat /\ id \notin DOMAIN dealRows
    BY <1>1 DEF DealsStored
  <2>4. dealRows' \in Insert(dealRows, id, deal)
    <3>1. dealRows' \in Insert(dealRows, firstDeal + Len(deals') - 1, deals'[Len(deals')])
      BY <1>3 DEF Continue, AddDeal, DealId
    <3>2. firstDeal + Len(deals') - 1 = id
      BY <1>1, <2>2
    <3> QED BY <2>2, <3>1, <3>2
  <2>5. Inserted(dealRows, id, deal, dealRows')
    BY <1>1, <2>3, <2>4, InsertNew
  <2>6. \A i \in DOMAIN dealRows' : i < firstDeal' + Len(deals')
    <3>1. \A i \in DOMAIN dealRows' : i \in DOMAIN dealRows \/ i = id
      BY <2>5 DEF Inserted
    <3>2. \A i \in DOMAIN dealRows : i \in Nat /\ i < firstDeal + Len(deals)
      BY <1>1 DEF HasMax, DealsStored
    <3> QED BY <1>1, <2>2, <3>1, <3>2
  <2>7. ASSUME NEW n \in 1 .. Len(deals')
        PROVE  /\ firstDeal + n - 1 \in DOMAIN dealRows'
               /\ dealRows'[firstDeal + n - 1] = deals'[n]
    <3>1. CASE n \in 1 .. Len(deals)
      <4>1. /\ firstDeal + n - 1 \in DOMAIN dealRows
            /\ dealRows[firstDeal + n - 1] = deals[n]
        BY <1>1, <3>1 DEF DealsStored
      <4> QED BY <2>2, <2>5, <3>1, <4>1 DEF Inserted
    <3>2. CASE n = Len(deals) + 1
      <4>1. firstDeal + n - 1 = id
        BY <1>1, <3>2
      <4> HIDE DEF id
      <4> QED BY <2>2, <2>5, <3>2, <4>1 DEF Inserted
    <3> QED BY <1>1, <2>2, <3>1, <3>2
  <2>8. HasMax(dealRows')
    BY <2>5 DEF Inserted
  <2> QED BY <1>1, <2>6, <2>7, <2>8 DEF DealInv, DealsStored
<1> QED BY <1>2, <1>3

LEMMA DealNext ==
  ASSUME MayFail = FALSE, MarketInv, DealInv, [ServerNext]_allVars
  PROVE  DealInv'
<1>1. CASE Start
  BY <1>1, DealStart
<1>2. CASE Stop
  BY <1>2, DealSame DEF Stop, Ends, vars, tables, idVars
<1>3. CASE Continue
  BY <1>3, DealContinue
<1>4. ASSUME NEW c \in Clients, NEW name \in Usernames, NEW password \in Passwords,
             Register(c, name, password) \/ Login(c, name, password)
      PROVE  DealInv'
  <2>1. CASE Register(c, name, password)
    <3>1. UNCHANGED <<deals, dealRows, firstDeal, up>>
      BY <2>1 DEF Register, RegisterUser, idVars
    <3> QED BY <3>1, DealSame
  <2>2. CASE Login(c, name, password)
    BY <2>2, DealSame DEF Login, vars, tables, idVars
  <2> QED BY <1>4, <2>1, <2>2
<1>5. ASSUME NEW c \in Clients, Leave(c) \/ Quotes(c)
      PROVE  DealInv'
  BY <1>5, DealSame DEF Leave, Quotes, GetAskBidQuotes, vars, tables, serverVars, idVars
<1>6. ASSUME NEW c \in Clients, NEW u \in Users, NEW side \in Side,
             NEW price \in Prices, NEW amount \in Amounts,
             Post(c, u, side, price, amount)
      PROVE  DealInv'
  BY <1>6, DealSame DEF Post, PostOffer, Throw, Ends, vars, serverVars, idVars
<1>7. ASSUME NEW c \in Clients, NEW u \in Users, NEW id, Cancel(c, u, id)
      PROVE  DealInv'
  BY <1>7, DealSame DEF Cancel, Throw, Ends, RemoveOffer, vars, tables, serverVars,
     idVars
<1>8. ASSUME NEW c \in Clients, NEW u \in Users, ReportUnknown(c, u)
      PROVE  DealInv'
  BY <1>8, DealSame DEF ReportUnknown, Throw, Ends, vars, tables, idVars
<1>9. CASE UNCHANGED allVars
  BY <1>9, DealSame DEF allVars, vars, tables, serverVars, idVars
<1> QED BY <1>1, <1>2, <1>3, <1>4, <1>5, <1>6, <1>7, <1>8, <1>9 DEF ServerNext

LEMMA RowsInvariance ==
  ASSUME MayFail = FALSE
  PROVE  ServerSpec => [](OfferInv /\ DealInv)
<1>1. ServerInit => OfferInv /\ DealInv
  BY DEF ServerInit, DatabaseInit, EmptyTable, OfferInv, DealInv, HasMax
<1>2. MarketInv /\ OfferInv /\ DealInv /\ [ServerNext]_allVars => OfferInv' /\ DealInv'
  BY OfferNext, DealNext
<1> QED BY <1>1, <1>2, MarketInside, PTL DEF ServerSpec

\* The rows of a run are the users, offers and deals of its market: ids go on
\* behind the stored ones, so no INSERT is refused.
THEOREM TablesMirror ==
  ASSUME MayFail = FALSE
  PROVE  ServerSpec => []TablesMirrorMarket
<1>1. UserInv /\ OfferInv /\ DealInv => TablesMirrorMarket
  <2> SUFFICES ASSUME up, UserInv, OfferInv, DealInv
               PROVE  TablesMirrorMarket
    BY DEF TablesMirrorMarket
  <2>1. \A u \in users : u \in DOMAIN userRows
                          /\ userRows[u].username = username[u]
    BY DEF UserInv, UsersStored
  <2>2. \A n \in 1 .. Len(offers) :
          /\ firstOffer + n - 1 \in DOMAIN offerRows
          /\ Mirrors(offerRows[firstOffer + n - 1], offers[n])
    BY DEF OfferInv, OffersStored
  <2>3. \A n \in 1 .. Len(deals) :
          /\ firstDeal + n - 1 \in DOMAIN dealRows
          /\ dealRows[firstDeal + n - 1] = deals[n]
    BY DEF DealInv, DealsStored
  <2> QED BY <2>1, <2>2, <2>3 DEF TablesMirrorMarket, OfferId, DealId, Mirrors
<1> QED BY <1>1, RowsInvariance, UserInvariance, PTL
-----------------------------------------------------------------------------
(* The two histories, when no statement fails *)

\* The two offers of a deal, one of each side: both lose its amount, and their
\* owners are its buyer and its seller.
Deals(before, after, deal) ==
  \E buy, sell \in 1 .. Len(before) :
    /\ before[buy].side = "BUY" /\ before[buy].owner = deal.buyer
    /\ before[sell].side = "SELL" /\ before[sell].owner = deal.seller
    /\ after[buy].amount = before[buy].amount - deal.amount
    /\ after[sell].amount = before[sell].amount - deal.amount
    /\ \A n \in (1 .. Len(before)) \ {buy, sell} : after[n].amount = before[n].amount

LEMMA TradeDeals ==
  ASSUME MarketInv, NEW p \in Prices, Trade(p)
  PROVE  \E deal \in Deal : deals' = Append(deals, deal) /\ Deals(offers, offers', deal)
<1> DEFINE n == Incoming
           maker == Oldest(OtherSide, p)
           deal == MakeDeal(n, maker)
           a == deal.amount
           buy == IF offers[n].side = "BUY" THEN n ELSE maker
           sell == IF offers[n].side = "SELL" THEN n ELSE maker
<1>1. /\ n \in 1 .. Len(offers) /\ maker \in 1 .. Len(offers) /\ maker # n
      /\ deal \in Deal
      /\ OtherSide \in Side /\ offers[maker].side = OtherSide
      /\ offers[n].side # OtherSide /\ offers[n].side \in Side
  BY TradeParties, OfferTypes DEF Trade, MarketInv
<1>2. /\ offers[buy].side = "BUY" /\ offers[sell].side = "SELL"
      /\ buy \in 1 .. Len(offers) /\ sell \in 1 .. Len(offers)
      /\ {buy, sell} = {n, maker}
  BY <1>1 DEF Side
<1>3. offers[buy].owner = deal.buyer /\ offers[sell].owner = deal.seller
  BY DEF MakeDeal
<1>4. \A o \in 1 .. Len(offers) :
        offers'[o].amount = IF o \in {n, maker} THEN offers[o].amount - a
                            ELSE offers[o].amount
  BY TradeOffers
<1> HIDE DEF n, maker, deal, a, buy, sell
<1>5. Deals(offers, offers', deal)
  BY <1>2, <1>3, <1>4, ZenonT(30) DEF Deals, a
<1>6. deals' = Append(deals, deal)
  BY DEF Trade, RegisterDeal, deal, n, maker
<1> QED BY <1>1, <1>5, <1>6

\* What the histories are sums of: integers, over a finite number of offers and
\* of deals.
LEMMA HistoryTypes ==
  ASSUME MarketInv, OfferInv, DealInv, up, NEW u \in Users, NEW side \in Side
  PROVE  /\ DOMAIN GoneFrom(u, side) =
              {n \in 1 .. Len(offers) : offers[n].owner = u /\ offers[n].side = side}
         /\ IsFiniteSet(DOMAIN GoneFrom(u, side))
         /\ \A n \in DOMAIN GoneFrom(u, side) :
              /\ GoneFrom(u, side)[n] = offerRows[OfferId(n)].amount - offers[n].amount
              /\ GoneFrom(u, side)[n] \in Int
              /\ offerRows[OfferId(n)].amount \in Int /\ offers[n].amount \in Int
         /\ DOMAIN StoredFor(u, side) = StoredDeals
         /\ IsFiniteSet(StoredDeals)
         /\ \A id \in StoredDeals : /\ id \in DOMAIN dealRows /\ dealRows[id] \in Deal
                                    /\ StoredFor(u, side)[id] \in Int
<1>1. /\ Len(offers) \in Nat /\ Len(deals) \in Nat /\ firstDeal \in Nat
      /\ \A n \in 1 .. Len(deals) : deals[n] \in Deal
      /\ DOMAIN dealRows \subseteq Nat
      /\ OffersStored /\ DealsStored
  BY OfferTypes DEF MarketInv, TypeOK, OfferInv, DealInv, HasMax
<1>2. IsFiniteSet(DOMAIN GoneFrom(u, side))
  <2>1. IsFiniteSet(1 .. Len(offers))
    BY <1>1, FS_Interval
  <2>2. DOMAIN GoneFrom(u, side) \in SUBSET (1 .. Len(offers))
    BY DEF GoneFrom
  <2> QED BY <2>1, <2>2, FS_Subset
<1>3. ASSUME NEW n \in DOMAIN GoneFrom(u, side)
      PROVE  /\ GoneFrom(u, side)[n] = offerRows[OfferId(n)].amount - offers[n].amount
             /\ GoneFrom(u, side)[n] \in Int
             /\ offerRows[OfferId(n)].amount \in Int /\ offers[n].amount \in Int
  <2>1. n \in 1 .. Len(offers)
    BY <1>3 DEF GoneFrom
  <2>2. offers[n].amount \in Nat /\ offerRows[OfferId(n)].amount \in Nat
    BY <1>1, <2>1, OfferTypes DEF OffersStored, Mirrors, OfferId, MarketInv
  <2>3. GoneFrom(u, side)[n] = offerRows[OfferId(n)].amount - offers[n].amount
    BY <1>3 DEF GoneFrom
  <2> QED BY <2>2, <2>3
<1>4. \A id \in StoredDeals : /\ id \in firstDeal .. firstDeal + Len(deals)
                              /\ id \in DOMAIN dealRows
                              /\ id - firstDeal + 1 \in 1 .. Len(deals)
                              /\ firstDeal + (id - firstDeal + 1) - 1 = id
  BY <1>1 DEF StoredDeals, DealsStored
<1>5. \A id \in StoredDeals : dealRows[id] \in Deal
  BY <1>1, <1>4 DEF DealsStored
<1>6. IsFiniteSet(StoredDeals)
  <2>1. IsFiniteSet(firstDeal .. firstDeal + Len(deals))
    BY <1>1, FS_Interval
  <2> QED BY <1>4, <2>1, FS_Subset
<1>7. \A id \in StoredDeals : StoredFor(u, side)[id] \in Int
  BY <1>5, DealTypes DEF StoredFor
<1> QED BY <1>2, <1>3, <1>4, <1>5, <1>6, <1>7 DEF GoneFrom, StoredFor

\* A new process has neither offers nor deals, and every row is an old one.
LEMMA HistoriesStart ==
  ASSUME MayFail = FALSE, OfferInv, DealInv, Start
  PROVE  StoredDealsExplainFills'
<1> SUFFICES ASSUME NEW u \in Users, NEW side \in Side
             PROVE  SumFunction(GoneFrom(u, side))' = SumFunction(StoredFor(u, side))'
  BY DEF StoredDealsExplainFills
<1>1. DOMAIN GoneFrom(u, side)' = {}
  BY DEF GoneFrom, Start
<1>2. StoredDeals' = {}
  <2>1. firstDeal' \in Nat /\ \A id \in DOMAIN dealRows : id \in Nat /\ id < firstDeal'
    BY MaxIdFresh DEF Start, DealInv, HasMax
  <2> QED BY <2>1 DEF StoredDeals, Start, tables
<1>3. DOMAIN StoredFor(u, side)' = {}
  BY <1>2 DEF StoredFor
<1> QED BY <1>1, <1>3, SumEquation, FS_EmptySet DEF SumFunction

\* A step that touches neither offers nor deals, or ends the process.
LEMMA HistoriesSame ==
  ASSUME StoredDealsExplainFills,
         up' => up /\ UNCHANGED <<offers, offerRows, dealRows, firstOffer, firstDeal>>
  PROVE  StoredDealsExplainFills'
BY DEF StoredDealsExplainFills, GoneFrom, StoredFor, StoredDeals, OfferId

\* A new offer is complete, as its row is.
LEMMA HistoriesPost ==
  ASSUME MayFail = FALSE, MarketInv, OfferInv, DealInv, MarketInv', OfferInv', DealInv',
         StoredDealsExplainFills,
         NEW c \in Clients, NEW v \in Users, NEW kind \in Side, NEW price \in Prices,
         NEW amount \in Amounts, Post(c, v, kind, price, amount)
  PROVE  StoredDealsExplainFills'
<1> SUFFICES ASSUME up', NEW u \in Users, NEW side \in Side
             PROVE  SumFunction(GoneFrom(u, side))' = SumFunction(StoredFor(u, side))'
  BY DEF StoredDealsExplainFills
<1> DEFINE new == [owner |-> v, side |-> kind, price |-> price, amount |-> amount,
                   status |-> "ACTIVE"]
           row == [owner |-> v, side |-> kind, price |-> price, amount |-> amount]
           gone == GoneFrom(u, side)
<1> PICK n : n = Len(offers) + 1
  OBVIOUS
<1> PICK id : id = firstOffer + Len(offers)
  OBVIOUS
<1>1. /\ up /\ PostOffer(v, kind, price, amount)
      /\ UNCHANGED <<dealRows, firstDeal, firstOffer>>
  BY DEF Post, Throw, Ends, Asks, Ready, serverVars, idVars
<1>2. StoredFor(u, side)' = StoredFor(u, side)
  BY <1>1 DEF StoredFor, StoredDeals
<1>3. /\ Len(offers) \in Nat /\ offers \in Seq(Offer) /\ firstOffer \in Nat
      /\ HasMax(offerRows) /\ OffersStored
  BY <1>1, OfferTypes DEF MarketInv, TypeOK, OfferInv
<1>4. /\ Len(offers') = n /\ offers'[n] = new
      /\ \A o \in 1 .. Len(offers) : offers'[o] = offers[o]
  <2>1. new \in Offer
    BY MarketAssumption DEF Offer, Status
  <2>2. offers' = Append(offers, new)
    BY <1>1 DEF PostOffer
  <2> HIDE DEF new
  <2> QED BY <1>3, <2>1, <2>2, AppendProperties, LenProperties
<1>5. id \in Nat /\ id \notin DOMAIN offerRows
  BY <1>3 DEF OffersStored
<1>6. Inserted(offerRows, id, row, offerRows')
  <2>1. firstOffer + (Len(offers) + 1) - 1 = id
    BY <1>3
  <2>2. offerRows' \in Insert(offerRows, id, row)
    BY <2>1 DEF Post, AddOffer, OfferId
  <2> QED BY <1>3, <1>5, <2>2, InsertNew
<1>7. /\ OfferId(n) = id /\ OfferId(n)' = id
      /\ \A o \in 1 .. Len(offers) :
           /\ OfferId(o)' = OfferId(o) /\ OfferId(o) \in DOMAIN offerRows
           /\ offerRows'[OfferId(o)] = offerRows[OfferId(o)]
  <2>1. \A o \in 1 .. Len(offers) : OfferId(o)' = OfferId(o) /\ OfferId(o) \in DOMAIN offerRows
    BY <1>1, <1>3 DEF OffersStored, OfferId
  <2>2. OfferId(n) = id /\ OfferId(n)' = id
    BY <1>1, <1>3 DEF OfferId
  <2> QED BY <1>6, <2>1, <2>2 DEF Inserted
<1>8. /\ DOMAIN gone =
           {o \in 1 .. Len(offers) : offers[o].owner = u /\ offers[o].side = side}
      /\ IsFiniteSet(DOMAIN gone)
      /\ \A o \in DOMAIN gone : gone[o] = offerRows[OfferId(o)].amount - offers[o].amount
      /\ \A o \in DOMAIN gone : gone[o] \in Int
  BY <1>1, HistoryTypes
<1>9. /\ DOMAIN gone' =
           {o \in 1 .. Len(offers') : offers'[o].owner = u /\ offers'[o].side = side}
      /\ \A o \in DOMAIN gone' :
           gone'[o] = offerRows'[OfferId(o)'].amount - offers'[o].amount
  BY DEF GoneFrom
<1>10. DOMAIN gone \subseteq DOMAIN gone' /\ n \notin DOMAIN gone
  BY <1>3, <1>4, <1>8, <1>9
<1>11. \A o \in DOMAIN gone : gone'[o] = gone[o]
  BY <1>4, <1>7, <1>8, <1>9, <1>10
<1>12. SumFunction(gone') = SumFunction(gone)
  <2>1. CASE n \in DOMAIN gone'
    <3>1. gone'[n] = 0
      <4>1. gone'[n] = row.amount - new.amount
        <5> HIDE DEF gone, new, row
        <5> QED BY <1>4, <1>6, <1>7, <1>9, <2>1 DEF Inserted
      <4>2. row.amount = amount /\ new.amount = amount /\ amount \in Int
        BY MarketAssumption
      <4> QED BY <4>1, <4>2
    <3>2. DOMAIN gone' = DOMAIN gone \cup {n}
      BY <1>3, <1>4, <1>8, <1>9, <1>10, <2>1
    <3> HIDE DEF gone
    <3>3. \A o \in DOMAIN gone' : gone'[o] \in Int
      BY <1>8, <1>11, <3>1, <3>2
    <3>4. SumFunction(gone') = SumFunction(gone) + gone'[n]
      BY <1>8, <1>10, <1>11, <3>2, <3>3, SumFunctionAdd
    <3>5. SumFunction(gone) \in Int
      BY <1>8, SumFunctionType
    <3> QED BY <3>1, <3>4, <3>5
  <2>2. CASE n \notin DOMAIN gone'
    <3>1. DOMAIN gone' = DOMAIN gone
      BY <1>3, <1>4, <1>8, <1>9, <1>10, <2>2
    <3> HIDE DEF gone
    <3> QED BY <1>8, <1>11, <3>1, SumFunctionSame
  <2> QED BY <2>1, <2>2
<1> QED BY <1>1, <1>2, <1>12 DEF StoredDealsExplainFills

\* What a deal takes from the offers of a user on one side, its row gives him
\* there.
Gain(u, side, deal) == IF side = "BUY" THEN Bought(u, deal) ELSE Sold(u, deal)

LEMMA GoneTrade ==
  ASSUME MarketInv, OfferInv, DealInv, up, Traded(offers, offers'),
         UNCHANGED <<offerRows, firstOffer>>,
         NEW deal \in Deal, Deals(offers, offers', deal),
         NEW u \in Users, NEW side \in Side
  PROVE  SumFunction(GoneFrom(u, side))' =
           SumFunction(GoneFrom(u, side)) + Gain(u, side, deal)
<1> DEFINE gone == GoneFrom(u, side)
<1> PICK buy \in 1 .. Len(offers), sell \in 1 .. Len(offers) :
       /\ offers[buy].side = "BUY" /\ offers[buy].owner = deal.buyer
       /\ offers[sell].side = "SELL" /\ offers[sell].owner = deal.seller
       /\ offers'[buy].amount = offers[buy].amount - deal.amount
       /\ offers'[sell].amount = offers[sell].amount - deal.amount
       /\ \A n \in (1 .. Len(offers)) \ {buy, sell} : offers'[n].amount = offers[n].amount
  BY DEF Deals
<1> PICK o : o = IF side = "BUY" THEN buy ELSE sell
  OBVIOUS
<1>1. /\ DOMAIN gone =
           {n \in 1 .. Len(offers) : offers[n].owner = u /\ offers[n].side = side}
      /\ IsFiniteSet(DOMAIN gone)
      /\ \A n \in DOMAIN gone :
           /\ gone[n] = offerRows[OfferId(n)].amount - offers[n].amount
           /\ gone[n] \in Int
           /\ offerRows[OfferId(n)].amount \in Int /\ offers[n].amount \in Int
  BY HistoryTypes
<1>2. DOMAIN gone' = DOMAIN gone
  BY <1>1 DEF GoneFrom, Traded
<1>3. \A n \in DOMAIN gone :
        gone'[n] = offerRows[OfferId(n)].amount - offers'[n].amount
  BY <1>2 DEF GoneFrom, OfferId
<1>4. /\ o \in 1 .. Len(offers) /\ offers[o].side = side
      /\ offers'[o].amount = offers[o].amount - deal.amount
      /\ deal.amount \in Int
      /\ Gain(u, side, deal) = IF u = offers[o].owner THEN deal.amount ELSE 0
  BY DealTypes DEF Side, Gain, Bought, Sold
<1>5. \A n \in DOMAIN gone \ {o} : offers'[n].amount = offers[n].amount
  BY <1>1 DEF Side
<1> HIDE DEF gone
<1>6. \A n \in DOMAIN gone \ {o} : gone'[n] = gone[n]
  BY <1>1, <1>3, <1>5
<1>7. SumFunction(gone) \in Int
  BY <1>1, SumFunctionType
<1>8. CASE u = offers[o].owner
  <2>1. o \in DOMAIN gone
    BY <1>1, <1>4, <1>8
  <2>2. /\ gone[o] = offerRows[OfferId(o)].amount - offers[o].amount
        /\ gone'[o] = offerRows[OfferId(o)].amount - offers'[o].amount
        /\ offerRows[OfferId(o)].amount \in Int /\ offers[o].amount \in Int
    BY <1>1, <1>3, <2>1
  <2>3. gone'[o] - gone[o] = deal.amount /\ gone'[o] \in Int
    BY <1>4, <2>2
  <2>4. \A n \in DOMAIN gone : gone[n] \in Int /\ gone'[n] \in Int
    BY <1>1, <1>6, <2>3
  <2>5. SumFunction(gone') = SumFunction(gone) + (gone'[o] - gone[o])
    BY <1>1, <1>2, <1>6, <2>1, <2>4, SumFunctionUpdate
  <2> QED BY <1>4, <1>8, <2>3, <2>5 DEF gone
<1>9. CASE u # offers[o].owner
  <2>1. o \notin DOMAIN gone
    BY <1>1, <1>9
  <2>2. \A n \in DOMAIN gone : gone'[n] = gone[n]
    BY <1>6, <2>1
  <2>3. SumFunction(gone') = SumFunction(gone)
    BY <1>1, <1>2, <2>2, SumFunctionSame
  <2> QED BY <1>4, <1>7, <1>9, <2>3 DEF gone
<1> QED BY <1>8, <1>9

LEMMA StoredTrade ==
  ASSUME MayFail = FALSE, MarketInv, OfferInv, DealInv, Continue,
         NEW deal \in Deal, deals' = Append(deals, deal),
         NEW u \in Users, NEW side \in Side
  PROVE  SumFunction(StoredFor(u, side))' =
           SumFunction(StoredFor(u, side)) + Gain(u, side, deal)
<1> DEFINE stored == StoredFor(u, side)
<1> PICK id : id = firstDeal + Len(deals)
  OBVIOUS
<1>1. /\ up /\ firstDeal' = firstDeal /\ firstDeal \in Nat
      /\ HasMax(dealRows) /\ DealsStored
      /\ Len(deals) \in Nat /\ deals \in Seq(Deal)
  BY OfferTypes DEF MarketInv, TypeOK, DealInv, Continue, serverVars, idVars
<1>2. Len(deals') = Len(deals) + 1 /\ deals'[Len(deals')] = deal /\ deals' # deals
  BY <1>1, AppendProperties, LenProperties
<1>3. id \in Nat /\ id \notin DOMAIN dealRows /\ id >= firstDeal
  BY <1>1 DEF DealsStored
<1>4. Inserted(dealRows, id, deal, dealRows')
  <2>1. firstDeal + Len(deals') - 1 = id
    BY <1>1, <1>2
  <2>2. dealRows' \in Insert(dealRows, firstDeal + Len(deals') - 1, deals'[Len(deals')])
    BY <1>2 DEF Continue, AddDeal, DealId
  <2> QED BY <1>1, <1>2, <1>3, <2>1, <2>2, InsertNew
<1>5. StoredDeals' = StoredDeals \cup {id} /\ id \notin StoredDeals
  BY <1>1, <1>3, <1>4 DEF StoredDeals, Inserted
<1>6. /\ DOMAIN stored = StoredDeals /\ IsFiniteSet(StoredDeals)
      /\ \A i \in StoredDeals : i \in DOMAIN dealRows /\ stored[i] \in Int
  BY <1>1, HistoryTypes
<1>7. DOMAIN stored' = DOMAIN stored \cup {id}
  BY <1>5 DEF StoredFor
<1>8. \A i \in DOMAIN stored : stored'[i] = stored[i]
  <2>1. \A i \in StoredDeals : i \in StoredDeals' /\ dealRows'[i] = dealRows[i]
    BY <1>4, <1>5, <1>6 DEF Inserted
  <2> QED BY <2>1 DEF StoredFor
<1>9. stored'[id] = Gain(u, side, deal) /\ Gain(u, side, deal) \in Int
  <2>1. dealRows'[id] = deal
    BY <1>4 DEF Inserted
  <2> QED BY <1>5, <2>1, DealTypes DEF StoredFor, Gain
<1> HIDE DEF stored
<1>10. \A i \in DOMAIN stored' : stored'[i] \in Int
  BY <1>6, <1>7, <1>8, <1>9
<1>11. SumFunction(stored') = SumFunction(stored) + stored'[id]
  BY <1>5, <1>6, <1>7, <1>8, <1>10, SumFunctionAdd
<1> QED BY <1>9, <1>11 DEF stored

LEMMA HistoriesContinue ==
  ASSUME MayFail = FALSE, MarketInv, OfferInv, DealInv, StoredDealsExplainFills, Continue
  PROVE  StoredDealsExplainFills'
<1>1. up /\ UNCHANGED <<offerRows, firstOffer, firstDeal>>
  BY DEF Continue, serverVars, idVars
<1>2. CASE \E p \in Prices : Trade(p)
  <2> PICK p \in Prices : Trade(p)
    BY <1>2
  <2>1. Traded(offers, offers')
    BY TradeStep
  <2>2. PICK deal \in Deal : deals' = Append(deals, deal) /\ Deals(offers, offers', deal)
    BY TradeDeals
  <2> SUFFICES ASSUME NEW u \in Users, NEW side \in Side
               PROVE  SumFunction(GoneFrom(u, side))' = SumFunction(StoredFor(u, side))'
    BY DEF StoredDealsExplainFills
  <2>3. SumFunction(GoneFrom(u, side))' =
          SumFunction(GoneFrom(u, side)) + Gain(u, side, deal)
    BY <1>1, <2>1, <2>2, GoneTrade
  <2>4. SumFunction(StoredFor(u, side))' =
          SumFunction(StoredFor(u, side)) + Gain(u, side, deal)
    BY <2>2, StoredTrade
  <2> QED BY <1>1, <2>3, <2>4 DEF StoredDealsExplainFills
<1>3. CASE UNCHANGED <<offers, deals>>
  <2>1. UNCHANGED dealRows
    BY <1>3 DEF Continue
  <2> QED BY <1>1, <1>3, <2>1, HistoriesSame
<1> QED BY <1>2, <1>3 DEF Continue, Handler, SkipExpired, PruneExpired, FindQuote, Rest,
      NoQuote, ReturnQuotes

LEMMA HistoriesNext ==
  ASSUME MayFail = FALSE, MarketInv, OfferInv, DealInv, MarketInv', OfferInv', DealInv',
         StoredDealsExplainFills, [ServerNext]_allVars
  PROVE  StoredDealsExplainFills'
<1>1. CASE Start
  BY <1>1, HistoriesStart
<1>2. CASE Stop
  BY <1>2, HistoriesSame DEF Stop, Ends
<1>3. CASE Continue
  BY <1>3, HistoriesContinue
<1>4. ASSUME NEW c \in Clients, NEW name \in Usernames, NEW password \in Passwords,
             Register(c, name, password) \/ Login(c, name, password)
      PROVE  StoredDealsExplainFills'
  <2>1. CASE Register(c, name, password)
    <3>1. UNCHANGED <<offers, offerRows, dealRows, firstOffer, firstDeal, up>>
      BY <2>1 DEF Register, RegisterUser, idVars
    <3> QED BY <3>1, HistoriesSame
  <2>2. CASE Login(c, name, password)
    BY <2>2, HistoriesSame DEF Login, vars, tables, idVars
  <2> QED BY <1>4, <2>1, <2>2
<1>5. ASSUME NEW c \in Clients, Leave(c) \/ Quotes(c)
      PROVE  StoredDealsExplainFills'
  BY <1>5, HistoriesSame DEF Leave, Quotes, GetAskBidQuotes, vars, tables, serverVars, idVars
<1>6. ASSUME NEW c \in Clients, NEW u \in Users, NEW side \in Side,
             NEW price \in Prices, NEW amount \in Amounts,
             Post(c, u, side, price, amount)
      PROVE  StoredDealsExplainFills'
  BY <1>6, HistoriesPost
<1>7. ASSUME NEW c \in Clients, NEW u \in Users, NEW id, Cancel(c, u, id)
      PROVE  StoredDealsExplainFills'
  BY <1>7, HistoriesSame DEF Cancel, Throw, Ends, RemoveOffer, vars, tables, serverVars,
     idVars
<1>8. ASSUME NEW c \in Clients, NEW u \in Users, ReportUnknown(c, u)
      PROVE  StoredDealsExplainFills'
  BY <1>8, HistoriesSame DEF ReportUnknown, Throw, Ends
<1>9. CASE UNCHANGED allVars
  BY <1>9, HistoriesSame DEF allVars, vars, tables, serverVars, idVars
<1> QED BY <1>1, <1>2, <1>3, <1>4, <1>5, <1>6, <1>7, <1>8, <1>9 DEF ServerNext

\* What the tables say of the past is consistent in every run: what is gone from
\* a user's offers of one side is, to the dollar, what the rows of this run's
\* deals gave him on that side, whoever he traded with.
THEOREM HistoriesAgree ==
  ASSUME MayFail = FALSE
  PROVE  ServerSpec => []StoredDealsExplainFills
<1>1. ServerSpec => [](OfferInv /\ DealInv)
  BY RowsInvariance
<1>2. ServerInit => StoredDealsExplainFills
  BY DEF ServerInit, StoredDealsExplainFills
<1>3. /\ MarketInv /\ OfferInv /\ DealInv /\ MarketInv' /\ OfferInv' /\ DealInv'
      /\ StoredDealsExplainFills /\ [ServerNext]_allVars
      => StoredDealsExplainFills'
  BY HistoriesNext
<1> QED BY <1>1, <1>2, <1>3, MarketInside, PTL DEF ServerSpec
-----------------------------------------------------------------------------
(* Types, whatever statements fail *)

\* The types of what the server adds to the market, and that each table with a
\* row has a row with the largest id.
RowsTyped ==
  /\ \A id \in DOMAIN userRows :
       userRows[id] \in [username : Usernames, password : Passwords, rowid : Nat]
  /\ \A id \in DOMAIN offerRows :
       offerRows[id] \in [owner : Users, side : Side, price : Prices,
                          amount : Amounts]
  /\ \A id \in DOMAIN dealRows : dealRows[id] \in Deal

Typed ==
  /\ DOMAIN userRows \subseteq Users /\ IsFiniteSet(DOMAIN userRows)
  /\ HasMax(userRows) /\ HasMax(offerRows) /\ HasMax(dealRows)
  /\ RowsTyped
  /\ up \in BOOLEAN
  /\ runs \in 0 .. MaxRuns
  /\ {firstUser, firstOffer, firstDeal, nextUser} \subseteq Nat
  /\ username \in [Users -> Usernames \cup {NoUser}]
  /\ client \in [Clients -> Answer \cup {NoUser}]

\* INSERT, that it fails or not.
LEMMA InsertTyped ==
  ASSUME NEW rows, HasMax(rows), NEW id \in Nat, NEW S, NEW row \in S,
         \A i \in DOMAIN rows : rows[i] \in S,
         NEW after \in Insert(rows, id, row)
  PROVE  /\ HasMax(after)
         /\ DOMAIN after \subseteq DOMAIN rows \cup {id}
         /\ \A i \in DOMAIN after : after[i] \in S
<1>1. CASE after = rows
  BY <1>1
<1>2. CASE after = [i \in DOMAIN rows \cup {id} |->
                      IF i \in DOMAIN rows THEN rows[i] ELSE row]
  <2>1. HasMax(after)
    <3>1. CASE DOMAIN rows = {}
      BY <1>2, <3>1 DEF HasMax
    <3>2. CASE DOMAIN rows # {}
      <4>1. PICK m \in DOMAIN rows : \A i \in DOMAIN rows : m >= i
        BY <3>2 DEF HasMax
      <4>2. m \in Nat /\ DOMAIN after = DOMAIN rows \cup {id} /\ DOMAIN rows \subseteq Nat
        BY <1>2 DEF HasMax
      <4>3. CASE m >= id
        BY <4>1, <4>2, <4>3 DEF HasMax
      <4>4. CASE id > m
        BY <4>1, <4>2, <4>4 DEF HasMax
      <4> QED BY <4>2, <4>3, <4>4
    <3> QED BY <3>1, <3>2
  <2> QED BY <1>2, <2>1
<1> QED BY <1>1, <1>2 DEF Insert

\* The first id of a run.
LEMMA MaxIdNat ==
  ASSUME NEW rows, HasMax(rows), NEW first \in GetMaxId(rows)
  PROVE  first \in Nat
<1>1. CASE DOMAIN rows = {}
  BY <1>1 DEF GetMaxId
<1>2. CASE DOMAIN rows # {}
  <2>1. PICK m \in DOMAIN rows : \A id \in DOMAIN rows : m >= id
    BY <1>2 DEF HasMax
  <2>2. Max(DOMAIN rows) \in DOMAIN rows
    BY <2>1 DEF Max
  <2>3. first = Max(DOMAIN rows) + 1 \/ first = 0
    BY <1>2 DEF GetMaxId
  <2> QED BY <2>2, <2>3 DEF HasMax
<1> QED BY <1>1, <1>2

LEMMA TypedInit ==
  ASSUME ServerInit
  PROVE  Typed
<1>1. HasMax(EmptyTable) /\ DOMAIN EmptyTable = {} /\ IsFiniteSet({})
  BY FS_EmptySet DEF EmptyTable, HasMax
<1>2. RowsTyped
  BY <1>1 DEF ServerInit, DatabaseInit, RowsTyped
<1>3. 0 \in 0 .. MaxRuns /\ 0 \in Nat
  BY ServerAssumption
<1> QED BY <1>1, <1>2, <1>3 DEF ServerInit, DatabaseInit, NoName, NoClient, Typed

\* A step that writes no row and gives out no id.
LEMMA TypedFrame ==
  ASSUME Typed,
         UNCHANGED <<tables, runs, firstUser, firstOffer, firstDeal, nextUser, username>>,
         up' \in BOOLEAN,
         client' \in [Clients -> Answer \cup {NoUser}]
  PROVE  Typed'
BY DEF Typed, RowsTyped, HasMax, tables

LEMMA TypedStart ==
  ASSUME Typed, Start
  PROVE  Typed'
<1>1. {firstUser', firstOffer', firstDeal', nextUser'} \subseteq Nat
  BY MaxIdNat DEF Start, Typed
<1>2. runs' \in 0 .. MaxRuns
  BY ServerAssumption DEF Start, Typed
<1>3. username' \in [Users -> Usernames \cup {NoUser}]
  BY DEF Start, NoName
<1> QED BY <1>1, <1>2, <1>3 DEF Start, Typed, RowsTyped, HasMax, tables

LEMMA TypedRegister ==
  ASSUME Typed, NEW c \in Clients, NEW name \in Usernames,
         NEW password \in Passwords, Register(c, name, password)
  PROVE  Typed'
<1> DEFINE n == nextUser
           row == [username |-> name, password |-> password,
                   rowid |-> Cardinality(DOMAIN userRows) + 1]
           S == [username : Usernames, password : Passwords, rowid : Nat]
<1>1. /\ up /\ up' = up /\ n \in Users
      /\ userRows' \in Insert(userRows, n, row)
      /\ nextUser' = n + 1
      /\ username' = [username EXCEPT ![n] = name]
      /\ client' = [client EXCEPT ![c] = Known(n, name, password)]
      /\ UNCHANGED <<offerRows, dealRows, runs, firstUser, firstOffer, firstDeal>>
  BY DEF Register, Ready, AddUser, idVars
<1>2. n \in Nat /\ n + 1 \in Nat
  BY DEF Typed
<1>3. row \in S /\ \A i \in DOMAIN userRows : userRows[i] \in S
  BY FS_CardinalityType DEF Typed, RowsTyped
<1>4. Known(n, name, password) \in Answer
  BY <1>1, KnownTyped
<1> HIDE DEF n, row, S
<1>5. /\ HasMax(userRows') /\ DOMAIN userRows' \subseteq DOMAIN userRows \cup {n}
      /\ \A i \in DOMAIN userRows' : userRows'[i] \in S
  BY <1>1, <1>2, <1>3, InsertTyped DEF Typed
<1>6. RowsTyped'
  BY <1>1, <1>5 DEF Typed, RowsTyped, S
<1>7. /\ username' \in [Users -> Usernames \cup {NoUser}]
      /\ client' \in [Clients -> Answer \cup {NoUser}]
  BY <1>1, <1>4 DEF Typed
<1>8. IsFiniteSet(DOMAIN userRows')
  BY <1>5, FS_AddElement, FS_Subset DEF Typed
<1> QED BY <1>1, <1>2, <1>5, <1>6, <1>7, <1>8 DEF Typed, HasMax

LEMMA TypedPost ==
  ASSUME Typed, TypeOK, NEW c \in Clients, NEW u \in Users, NEW side \in Side,
         NEW price \in Prices, NEW amount \in Amounts,
         Post(c, u, side, price, amount)
  PROVE  Typed'
<1> DEFINE n == OfferId(Len(offers) + 1)
           row == [owner |-> u, side |-> side, price |-> price, amount |-> amount]
           S == [owner : Users, side : Side, price : Prices, amount : Amounts]
<1>1. /\ offerRows' \in Insert(offerRows, n, row)
      /\ UNCHANGED <<userRows, dealRows, runs, firstUser, firstOffer, firstDeal,
                     nextUser, username>>
      /\ UNCHANGED <<up, client>> \/ (up' = FALSE /\ client' = NoClient)
  BY DEF Post, AddOffer, Throw, Ends, serverVars, idVars
<1>2. n \in Nat
  BY OfferTypes DEF Typed, OfferId
<1>3. row \in S /\ \A i \in DOMAIN offerRows : offerRows[i] \in S
  BY DEF Typed, RowsTyped
<1> HIDE DEF n, row, S
<1>4. HasMax(offerRows') /\ \A i \in DOMAIN offerRows' : offerRows'[i] \in S
  BY <1>1, <1>2, <1>3, InsertTyped DEF Typed
<1>5. RowsTyped'
  BY <1>1, <1>4 DEF Typed, RowsTyped, S
<1> QED BY <1>1, <1>4, <1>5 DEF Typed, HasMax, NoClient

\* Only a trade makes a deal.
LEMMA TypedContinue ==
  ASSUME Typed, MarketInv, Continue
  PROVE  Typed'
<1>1. UNCHANGED <<userRows, offerRows, up, runs, firstUser, firstOffer, firstDeal,
                  nextUser, username, client>>
  BY DEF Continue, serverVars, idVars
<1>2. HasMax(dealRows') /\ \A i \in DOMAIN dealRows' : dealRows'[i] \in Deal
  <2>1. CASE deals' = deals
    BY <2>1 DEF Continue, Typed, RowsTyped, HasMax
  <2>2. CASE deals' # deals
    <3>1. PICK p \in Prices : Trade(p)
      BY <2>2 DEF Continue, Handler, SkipExpired, PruneExpired, FindQuote, Rest,
         NoQuote, ReturnQuotes
    <3>2. PICK deal \in Deal : deals' = Append(deals, deal)
      BY <3>1, TradeStep
    <3>3. Len(deals') \in Nat /\ deals'[Len(deals')] = deal /\ Len(deals') > 0
      BY <3>2, AppendProperties, LenProperties DEF MarketInv, TypeOK
    <3>4. DealId(Len(deals')) \in Nat
      BY <3>3 DEF DealId, Typed
    <3>5. dealRows' \in Insert(dealRows, DealId(Len(deals')), deal)
      BY <2>2, <3>3 DEF Continue, AddDeal
    <3> QED BY <3>4, <3>5, InsertTyped DEF Typed, RowsTyped
  <2> QED BY <2>1, <2>2
<1>3. RowsTyped'
  BY <1>1, <1>2 DEF Typed, RowsTyped
<1> QED BY <1>1, <1>2, <1>3 DEF Typed, HasMax

LEMMA TypedLogin ==
  ASSUME Typed, NEW c \in Clients, NEW name \in Usernames,
         NEW password \in Passwords, Login(c, name, password)
  PROVE  Typed'
<1>1. PICK id \in GetUserId(name, password) \ {NoUser} :
        client' = [client EXCEPT ![c] = Known(id, name, password)]
  BY DEF Login
<1>2. id \in Users
  BY <1>1 DEF GetUserId, Typed
<1>3. Known(id, name, password) \in Answer
  BY <1>2, KnownTyped
<1>4. client' \in [Clients -> Answer \cup {NoUser}]
  BY <1>1, <1>3 DEF Typed
<1> QED BY <1>4, TypedFrame DEF Login, idVars, Typed

LEMMA TypedNext ==
  ASSUME Typed, MarketInv, [ServerNext]_allVars
  PROVE  Typed'
<1>1. CASE Start
  BY <1>1, TypedStart
<1>2. ASSUME up' = FALSE, client' = NoClient, UNCHANGED <<tables, idVars, nextUser, username>>
      PROVE  Typed'
  BY <1>2, TypedFrame DEF NoClient, idVars
<1>3. ASSUME UNCHANGED <<tables, serverVars>>
      PROVE  Typed'
  BY <1>3, TypedFrame DEF serverVars, idVars, Typed
<1>4. CASE Stop
  BY <1>2, <1>4 DEF Stop, Ends
<1>5. CASE Continue
  BY <1>5, TypedContinue
<1>6. ASSUME NEW c \in Clients, NEW name \in Usernames, NEW password \in Passwords,
             Register(c, name, password) \/ Login(c, name, password)
      PROVE  Typed'
  BY <1>6, TypedRegister, TypedLogin
<1>7. ASSUME NEW c \in Clients, Leave(c)
      PROVE  Typed'
  <2>1. client' \in [Clients -> Answer \cup {NoUser}]
    BY <1>7 DEF Leave, Typed
  <2> QED BY <1>7, <2>1, TypedFrame DEF Leave, idVars, Typed
<1>8. ASSUME NEW c \in Clients, Quotes(c)
      PROVE  Typed'
  BY <1>3, <1>8 DEF Quotes
<1>9. ASSUME NEW c \in Clients, NEW u \in Users, NEW side \in Side,
             NEW price \in Prices, NEW amount \in Amounts,
             Post(c, u, side, price, amount)
      PROVE  Typed'
  BY <1>9, TypedPost DEF MarketInv
<1>10. ASSUME NEW c \in Clients, NEW u \in Users, NEW id, Cancel(c, u, id)
       PROVE  Typed'
  BY <1>2, <1>3, <1>10 DEF Cancel, Throw, Ends
<1>11. ASSUME NEW c \in Clients, NEW u \in Users, ReportUnknown(c, u)
       PROVE  Typed'
  BY <1>2, <1>11 DEF ReportUnknown, Throw, Ends
<1>12. CASE UNCHANGED allVars
  BY <1>3, <1>12 DEF allVars
<1> QED BY <1>1, <1>4, <1>5, <1>6, <1>7, <1>8, <1>9, <1>10, <1>11, <1>12
        DEF ServerNext

\* Every variable of the server has its type, whatever statements fail.
THEOREM ServerTypes == ServerSpec => []ServerTypeOK
<1>1. ServerSpec => []Typed
  <2>1. Typed /\ MarketInv /\ [ServerNext]_allVars => Typed'
    BY TypedNext
  <2> QED BY <2>1, TypedInit, MarketInside, PTL DEF ServerSpec
<1>2. Typed /\ MarketInv => ServerTypeOK
  BY DEF Typed, RowsTyped, HasMax, MarketInv, ServerTypeOK, Answer
<1> QED BY <1>1, <1>2, MarketInside, PTL
=============================================================================
