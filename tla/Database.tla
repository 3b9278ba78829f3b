------------------------------ MODULE Database ------------------------------
(***************************************************************************)
(* The tables the server writes, and the statements of class DBManager     *)
(* (src/src/db_manager.cpp).  A table maps primary keys to rows, and each  *)
(* statement commits by itself.                                            *)
(*                                                                         *)
(* Every statement may fail (the file is locked by another process, or the *)
(* disk is full): DBManager logs that and returns to its caller, which     *)
(* cannot tell.  An operator that queries is the set of the answers the    *)
(* caller may get, one that inserts is the set of the tables it may leave. *)
(***************************************************************************)
EXTENDS Integers, FiniteSetsExt

CONSTANTS
  Usernames,   \* the names a client may enter; one with a quotation mark or a
               \* zero byte would make another statement, and is left out
  Column,      \* per name: the column of User it names, in any case, or "none"
  Number,      \* per name: the number it is written as, or NoUser
  Passwords,   \* the password hashes a client may send, as PW_HASH keeps them
  MayFail,     \* whether statements fail
  NoUser       \* std::nullopt of GetUserId

ASSUME DatabaseAssumption ==
  /\ Column \in [Usernames -> {"none", "ID", "USERNAME", "PW_HASH", "ROWID"}]
  /\ Number \in [Usernames -> Int \cup {NoUser}]
  /\ MayFail \in BOOLEAN
  /\ NoUser \notin Int

VARIABLES
  userRows,    \* table User
  offerRows,   \* table Offer
  dealRows     \* table Deal

tables == <<userRows, offerRows, dealRows>>

EmptyTable == [id \in {} |-> NoUser]

DatabaseInit ==
  /\ userRows = EmptyTable
  /\ offerRows = EmptyTable
  /\ dealRows = EmptyTable

\* Mutant of Insert: INSERT OR REPLACE.
InsertOrReplace(rows, id, row) ==
  {[i \in DOMAIN rows \cup {id} |-> IF i = id THEN row ELSE rows[i]]}
    \cup (IF MayFail THEN {rows} ELSE {})

\* The primary key refuses a second row with the same id.
Insert(rows, id, row) ==
  {[i \in DOMAIN rows \cup {id} |-> IF i \in DOMAIN rows THEN rows[i] ELSE row]}
    \cup (IF MayFail THEN {rows} ELSE {})

\* Where no column is in scope, a name in double quotes is a string.
AddUser(id, username, password) ==
  userRows' \in Insert(userRows, id,
                       [username |-> username, password |-> password,
                        rowid |-> Cardinality(DOMAIN userRows) + 1])

AddOffer(id, offer) ==
  offerRows' \in Insert(offerRows, id,
    [owner |-> offer.owner, side |-> offer.side, price |-> offer.price,
     amount |-> offer.amount])

\* Mutant of AddDeal: the columns of the two users swapped.
AddDealSwapped(id, deal) ==
  dealRows' \in Insert(dealRows, id,
                       [deal EXCEPT !.seller = deal.buyer, !.buyer = deal.seller])

AddDeal(id, deal) == dealRows' \in Insert(dealRows, id, deal)

\* Mutant of GetMaxId: the largest stored id itself.
GetMaxIdOffByOne(rows) ==
  {IF DOMAIN rows = {} THEN 0 ELSE Max(DOMAIN rows)}
    \cup (IF MayFail THEN {0} ELSE {})

\* The id after the largest stored one.  An empty table has MAX(ID) NULL; then,
\* as when the query fails, id keeps its -1.
GetMaxId(rows) ==
  {IF DOMAIN rows = {} THEN 0 ELSE Max(DOMAIN rows) + 1}
    \cup (IF MayFail THEN {0} ELSE {})

\* USERNAME = "..." in a WHERE clause, for one row.  A name in double quotes that
\* is a column's, or SQLite's for the row number, is that column and no string;
\* and a text is compared with an integer as the number it is written as.
IsCalled(id, username) ==
  LET row == userRows[id]
  IN CASE Column[username] = "none" -> row.username = username
       [] Column[username] = "USERNAME" -> TRUE
       [] Column[username] = "ID" -> Number[row.username] = id
       [] Column[username] = "PW_HASH" -> Number[row.username] = row.password
       [] Column[username] = "ROWID" -> Number[row.username] = row.rowid

\* Mutant of UsernameExist: the callback never writes the answer.
UsernameNeverExists(username) == {FALSE}

\* When the query fails, exist is returned uninitialized.
UsernameExist(username) ==
  IF MayFail THEN BOOLEAN
  ELSE {\E id \in DOMAIN userRows : IsCalled(id, username)}

\* Mutant of GetUserId: -1 + 1, as in GetMaxId, is taken for an id.
GetUserIdOrZero(username, password) ==
  LET found == {id \in DOMAIN userRows :
                  IsCalled(id, username) /\ userRows[id].password = password}
  IN IF found = {} THEN {0} ELSE found

\* Mutant of GetUserId: the password is not asked for.
GetUserIdByName(username, password) ==
  LET found == {id \in DOMAIN userRows : IsCalled(id, username)}
  IN found \cup (IF found = {} \/ MayFail THEN {NoUser} ELSE {})

\* Mutant of GetUserId: the password alone decides.
GetUserIdByPassword(username, password) ==
  LET found == {id \in DOMAIN userRows : userRows[id].password = password}
  IN found \cup (IF found = {} \/ MayFail THEN {NoUser} ELSE {})

\* Any one row with that name and password; no row, or a failed query, leaves
\* user_id at -1.
GetUserId(username, password) ==
  LET found == {id \in DOMAIN userRows :
                  IsCalled(id, username) /\ userRows[id].password = password}
  IN found \cup (IF found = {} \/ MayFail THEN {NoUser} ELSE {})
=============================================================================
