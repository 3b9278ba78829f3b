# Formal specification of the foreign exchange market

TLA+ modules, TLC configurations and TLAPS proofs for the exchange in this
repository: a server that matches offers to buy and sell USD for RUB, keeps its
state in memory, mirrors some of it into SQLite and talks JSON to its clients
over TCP.

## The system

| Component | Source | State | Operations | What makes it correct |
|---|---|---|---|---|
| Market | `market.h`, `market.cpp` | users by id, a set of price queues per side, the last deal's price | register, deposit, post, cancel, quotes, getters | offers that accept each other trade, in price and time order; queues and active sets agree; every operation returns |
| Offer, Deal | `offer.*`, `deal.*` | id, owner, side, price, amount, status; deal parties, price, amount | construct, `MakeDeal` | an offer never goes below zero and is FULLFILLED exactly at zero |
| UserData | `user_data.*` | balance, active offers (the only owners of an offer), closed deals | add and remove an offer, add a deal, deposit, withdraw | the balance is the deposits plus the listed deals, in int arithmetic |
| Database | `db_manager.*` | tables User, Deal, Offer | insert rows, `UsernameExist`, `GetUserId`, `GetMaxId` | rows and memory agree; ids are unique, and usernames that are no column of the table |
| Serializer | `serializer.*` | the one Market | one call per request, answers as JSON | every answer is about one moment |
| Session, Server | `session.*`, `server.*` | a socket and a 4096 byte buffer per session | accept, read, handle, write | one reply per request; sessions are accepted for ever |
| Server main | `server_main.cpp` | id counters, the io_service | start, run, stop on SIGINT | a restart does not reuse ids |
| Client, request handlers | `client.*`, `request_handler.*` | socket, own id | authenticate, then one request at a time | the reply read is the whole reply to the request sent |
| Wire constants | `common.h` | none | the names of requests and fields | both programs mean the same by each |
| JSON library | `json.h` | the reader's lexer and stack; values | parse, dump, element access, conversions; binary formats, pointers, patches | what is written is read back; what is cut, or is no JSON, is refused |
| Logger, srializer.cpp | | none | | not modelled: a stream of lines, a stale file that is not compiled |

**How they interact.** `io_service.run()` executes the handlers of all sessions
on one thread. `Session::HandleRead` parses one read as one request and calls the
Serializer, which calls the Market (and the Database, for a login); constructing
an Offer, a Deal or a UserData writes its row. The reply goes out in
`HandleWrite`. A handler runs to its end before another starts, so the Market
needs no locks; an exception in one leaves `run()` and ends the server.

**What is hard.** The queues hold weak pointers and `active_offers_` the only
strong ones: cancelling or filling an offer leaves pointers that two different
loops must recognise and remove, erase queues they emptied, and not lose or
reorder the rest. One post can make many deals, one user can be both parties,
prices may be negative and balances are 32-bit. Around the market: statements that
fail silently, a restart that forgets everything but the tables, replies and
requests that TCP splits, a reply buffer that dies before it is written. And between
the programs: names, types and sides that two sources spell out apart from each other,
numbers that cross four integer types, a text reader that keeps a stack of brackets and
two descriptions of UTF-8.
`PROJECT.json` lists these under "hazards" with their lines.

## The modules

### Market.tla

One instance of class Market with the objects it owns.

| Variable | Code |
|---|---|
| `users`, `balance`, `active`, `closed` | `user_id_to_user_data_` and `balance_`, `active_offers_`, `closed_deals_` of each UserData |
| `offers`, `deals` | every Offer and Deal ever constructed; position = id (ids start at 1 here, and only their order matters) |
| `book` | `active_buy_offers_` and `active_sell_offers_`: per side a function from the prices that have a queue to the queue, oldest offer first (the deque's back is the sequence's head) |
| `quote` | `quote_` |
| `phase`, `info` | which operation runs, and the answer of `GetAskBidQuotes` so far |
| `deposited` | history variable for the ledger properties |

| Action | Code |
|---|---|
| `RegisterUser`, `DepositUSD`, `DepositRUB`, `RemoveOffer` | the functions of the same names |
| `PostOffer` | construct the Offer, `AddOffer`, enter `ProcessOffer` |
| `SkipExpired`, `Trade`, `Rest` | one iteration of `ProcessOffer`: an expired pointer, a deal with all its effects, or `AddActiveOffer` |
| `GetAskBidQuotes`, `PruneExpired`, `FindQuote`, `NoQuote`, `ReturnQuotes` | the call, the iterations of `DetermineQuote` for BUY then SELL, the answer |

An operation that loops is split into its iterations, and `phase` keeps every
other operation out until it ends, because one thread runs them. Splitting
costs nothing in faithfulness and makes "the loop ends" a property instead of an
assumption.

Two places in the code read memory after it was released. In `ProcessOffer`
`best_offer` refers to a weak pointer that `pop_back` has destroyed; its bytes
stay in the deque's block and its control block is kept alive by the owner's set,
so the build reads the offer that was popped. In `DetermineQuote` the inner loop
tests a queue that `erase` has freed; the allocator's bookkeeping does not reach
the deque's iterators in the node, which are equal after the last `pop_back`, so
the build sees an empty queue. Each has one outcome, and that outcome is
modelled. An empty queue in the set, on the other hand, would have no defined
meaning: `QueuesInOrder` shows that none is ever left.

The deposits are operations of the class that the tests call; the server has no
request for them.

### OrderBook.tla

What the exchange promises: a set of live orders, one of which may be executing.
It trades with the order of the other side that has priority for as long as one
is acceptable, then rests. There are no queues, prices with levels, pointers or
statuses here. `Market!ImplementsOrderBook` maps the active offers to the live
orders and states that every behaviour of the market is one of the order book.

### Database.tla

The three tables as functions from primary keys to rows, and one operator per
statement of `DBManager`. Each is a set: of the tables an INSERT may leave, of the
answers a SELECT may give. With `MayFail` the sets contain what a failing statement
does: it is logged, nothing is written, and `UsernameExist` answers with what its
uninitialized `exist` held (`db_manager.cpp:139`). The primary key refuses a second
row of an id in every case.

A name is opaque but for what SQLite makes of it. The statements put names in double
quotes, which are those of an identifier: where it names a column of the table, in any
case, it is the column, and elsewhere it falls back to a string. So `IsCalled`, the test
`USERNAME = "..."` of `UsernameExist` and `GetUserId`, compares with the row's id for the
name `id`, with its hash for `pw_hash`, with the row number for `rowid`, and for
`username` with itself. `Column` says which names are such, `Number` which names an
integer column can equal (the text `1` is 1 beside it). In the INSERT no column is in
scope, and every name is stored as it is. What follows is not promised away: the name
`id` is found only if a user has his own id for a name, so it can be registered again and
again; and who logs in as `username` is told the id of a user with his password, whatever
that user's name. `client.cpp:57` ("User with this username already exist") and the
authentication that README.md:5 lists do not hold for such names. `UsernamesUnique`,
`ClientsActForThemselves` and `FreshServerServesAll` are stated for all others (`Plain`),
and for the password of all.

### Server.tla

Composes `Market` and `Database`. A request is a step, a post or a quote request
goes on as steps of the market (`Continue`), and no other request starts meanwhile
(`Ready`).

| Variable | Code |
|---|---|
| `up`, `runs` | the process runs; how often it was started |
| `firstUser`, `firstOffer`, `firstDeal` | the results of `GetMaxId` at start; offer n of this run has the id `firstOffer + n - 1` |
| `nextUser` | `UserData::user_id_` |
| `username` | `UserData::username_` |
| `client` | per client `Client::id_`, with the name and the password it authenticated with |

| Action | Code |
|---|---|
| `Start` | static initialisers of `server_main.cpp`, a new `Market` |
| `Stop`, `Throw` | SIGINT or a kill, also in the middle of a post; an exception that leaves `run()` |
| `Register`, `Login` | `Serializer::RegisterUser` with `CreateUser` and its row; `Serializer::Login`, which asks the table only |
| `Post` | `Serializer::PostOffer`: the row of the offer, then the market, where `at()` may throw |
| `Cancel`, `ReportUnknown`, `Quotes` | the other requests. A report of a known user changes nothing; one of an unknown user throws |
| `Continue` | the steps of module Market; a trade writes the row of its deal |
| `Leave` | the client ends |

The server never asks for a password after a login: a client sends the id it was
told. An id of an earlier run therefore reaches the new market, which does not know
it, and that exception ends the server.

`std::signal` may call `io_service.stop()` between any two instructions. `run()`
then returns after the current handler; a kill does not wait. `Stop` allows both, so
every prefix of a post's rows can be what the next run finds.

### Session.tla

The accept loop, the sessions and the client programs, apart from what a request
means. A request or a reply is a number of pieces, because TCP keeps no boundaries.

| Variable | Code |
|---|---|
| `up`, `ended` | `io_service.run()`, and what it ended with |
| `accepting` | an `async_accept` is pending |
| `conn` | the connection of a client: in the listen queue, or with a Session |
| `pending` | which handler of the Session is due |
| `incoming`, `unsent`, `reply` | pieces in the server's socket, in the rest of `async_write`, in the client's socket |
| `length` | how long the whole reply is |
| `client` | what the client program does: authenticates, is authenticated, waits, has failed |

| Action | Code |
|---|---|
| `Serve`, `Signal`, `RunReturns` | the constructor of Server; SIGINT; `run()` without anything pending |
| `HandleAccept`, `HandleAcceptError` | the two branches of `Server::HandleAccept` |
| `HandleRead`, `HandleReadThrows`, `WriteSome`, `HandleWrite`, `HandleError` | the handlers of Session |
| `Connect`, `Authenticate`, `SendRequest`, `ReadAuthResponse`, `ReadResponse`, `ReadEof`, `Leave` | `client_main.cpp`, `client.cpp`, `request_handler.cpp` |

Three places of the code shape this module. `HandleRead` takes what one read brought
for one request. The client's `read_until(socket_, buff, "\0")` has an empty
delimiter, since the literal is converted as a C string, so it is satisfied by the
first bytes that come, at most 512. And `async_write` refers to the local `reply`,
which is destroyed when `HandleRead` returns: what the socket took in the first
attempt is right, the rest is whatever the memory holds by then (`"junk"` or still
`"good"`).

`HandleReadThrows` is every exception that leaves `HandleRead`: of `json::parse` over a
part of a request, and of `at()` over a whole one of a user of an earlier run
(`market.cpp:72`; `Server!Throw` is the same step from the market's side). The constant
`UnknownUsers` says whether such users log in; an authentication itself looks no one up.

Server and Session are separate because they share nothing but that a request has one
reply: what a request does never depends on how its bytes came, and sessions never
look at the market. Both let the process end at any moment.

### Protocol.tla

One user, one client, one order at a time, from what is typed to the call of the market
and from its answer to what is printed. The market is anything: it gives any answer of
the right type, and has any users but `OldUsers`, those of an earlier run, whom a login
finds in the table.

| Variable | Code |
|---|---|
| `screen` | the prompt or the answer the client waits for |
| `input` | `option`, `offer_side_`, `amount_`, `price_`, `offer_id_`: what the extraction left in them, accepted or not |
| `typed` | history variable: the inputs of this order that were accepted |
| `id` | `Client::id_` |
| `request`, `reply` | the JSON values on their way |
| `call`, `answer` | what the session calls the Serializer with, and what the market returned |
| `shown` | what `PrintResult` prints |

| Action | Code |
|---|---|
| `TypeNumber`, `TypeOther` | one round of `SafeIntInput`, for a number and for anything else |
| `Authenticate` | `GetAuthInfo` with the request of `Register` or `Login`, or the exception of `dump()` for a name that is not UTF-8 (`NotUtf8`) |
| `HandleRead` | the dispatch of `Session::HandleRead` with its field accesses and conversions, and the answer of the Serializer, or the exception of `at()` for a user of `OldUsers` |
| `PrintResult`, `ReadAuthResponse` | the end of an order, of an authentication |

`JsonValue` has the values, and `operator[]`, `at` and the conversions as the two
programs use them: `request["TYPE"]` inserts null for a field that is missing, a
conversion of a wrong type throws, one between integers wraps.

### The JSON library

`json.h` is vendored, 22,000 lines long. Every module stands for some of its
functions.

| Module | Code |
|---|---|
| `JsonValue` | `basic_json`: its types, `at`, `operator[]`, `from_json` |
| `Utf8` | `serializer::decode` with its table, and the byte ranges of `scan_string` |
| `JsonText` | lexer, parser and `json_sax_dom_parser` as one function of the next byte, `Feed`; "scan" says which function of the lexer waits for it |
| `JsonWriter` | `serializer::dump` without pretty-printing, `count_digits`, `dump_integer`; `Dump` is a function on `Values`, each with its parts and a `Nesting` greater than theirs |
| `JsonBinary`, `Cbor`, `MsgPack`, `Bson`, `Ubjson`, `JsonFormats` | `binary_reader`, `binary_writer` |
| `JsonPointer` | `json_pointer`, `flatten`, `unflatten` |
| `JsonPatch` | `patch`, `diff`, `merge_patch` |

Two modules make them specifications. `JsonStream` is the reader with bytes that
arrive, one action. `JsonReading` says which: any bytes after some beginning, or those
of a value that was dumped. `JsonLibrary` adds the bytes of the binary formats and a
patch whose operations are applied one after the other. `JsonGrammar` is the reference:
JSON as RFC 8259 has it, a predicate on byte sequences that takes nothing from the code.
The RFC lets a reader limit the range of its numbers; this one refuses those that
`strtod` makes infinite (`Overflows`, `IsFinite`), from `FloatLimit` on. The reader's
module finds them by scaling an integer, the grammar by moving the decimal point.

The program itself calls the text reader, the writer, the accesses and the conversions.
The rest is modelled because it is in the source, and no hazard of the program is among
it. What each format loses is written down
in `Normal`, and the runs show that it loses nothing else.

- CBOR keeps everything when its tags are read as subtypes (the mode modelled here, "store").
- MessagePack and BSON keep one byte of a binary value's subtype; BSON always has one.
- UBJSON has no binary values: they are read as arrays of numbers.
- BSON encodes objects only, at the top.
- `unflatten` takes an object whose first token is `0` for an array, so an object with
  such a member may not come back (`HasZeroKey` leaves these out), and an empty array or
  object comes back as null.
- An `add` into a string, number or boolean meets an assertion (`Throw` in the model); a
  `remove` from one does nothing.

### MCMarket.tla, MCServer.tla, MCSession.tla, MCProtocol.tla, MCJson.tla

Model values and small sets for TLC.

### MarketProofs.tla, LedgerProofs.tla, ServerProofs.tla, SessionProofs.tla, ProtocolProofs.tla, Utf8Proofs.tla, JsonProofs.tla, JsonReadingProofs.tla

The theorems, below.

## The runs

| Run | Bounds | What it shows |
|---|---|---|
| `market_safety` | 2 users (symmetric), 3 prices, amounts 1 and 2, 3 offers | `TypeOK`, `ActiveOffersRest`, `BookNotCrossed`, `DeadOffersStayDead`, and the order book is implemented: `ImplementsOrderBook` |
| `market_depth` | 1 user, 2 prices, amounts 1 and 2, 4 offers, fairness | `QueuesInOrder`, `QuotesAreLive`, `PriceTimePriority`, `OperationsAdvance`, `OperationsReturn` |
| `market_ledger` | 2 users (symmetric), prices -1 and 2, amounts 1 and 2, 3 offers, one deposit of 1 per user, an int of six values | `BalancesMatchDeals`, `MoneyConserved` |
| `server_restart` | two runs on one database, 2 clients and 2 hashes (both symmetric), 3 names (`1`, `id`, `username`), 2 user ids, 1 price, amounts 1 and 2, 2 offers per run | `ServerTypeOK`, `TablesMirrorMarket`, `StoredDealsExplainFills`, `UsernamesUnique`, `ClientsActForThemselves`, `UnknownUsersAreOld` |
| `server_failures` | two runs, any statement may fail, 1 client, 5 names (those and `pw_hash`, `rowid`), the hash 1, 2 user ids, 1 price and amount, 1 offer per run | `FreshServerServesAll`, `HistoryKept` |
| `server_foreign_offer` | two runs, 1 client, 2 names, 3 user ids, amounts 1 and 2, 3 offers per run | finding: `StoredOffersReachTheMarket` |
| `session_protocol` | 2 clients, requests up to 2 pieces, replies up to 3, reads and first writes of 2, accept may fail, users of an earlier run, fairness | `SessionTypeOK`, `NothingLost`, `ServedClientsAnswered`, `SessionsReleased` |
| `session_long_reply` | replies of 2 pieces, a read takes 1, nothing else unusual | finding: `ClientsGetReports` |
| `session_split_request` | requests of 2 pieces, nothing else unusual | finding: `OnlySignalStops` |
| `session_accept_error` | accept may fail, nothing else unusual | finding: `NoClientWaitsForEver` |
| `protocol` | an int of 16 values in a size_t of 32, 3 names (one is not UTF-8), 2 passwords, 3 user ids (one of an earlier run), 2 offer ids, sums of either sign, reports of up to 2 lines | `OrderedIsDone`, `NothingElseThrows`, `ShownIsAnswered` |
| `json` | texts of up to 5 bytes after twelve beginnings, ten dumped values; bytes of the binary formats after nineteen beginnings, ten documents in every format, the patches between every two of them, twelve pointers | `StringsAreWritable`, `BracketsClosed`, `LeftoversUnread`, `NothingFollows`; `ReadsBack`; `ReaderAcceptsJson`, `EncodedReadsBack`, `ReadIsWritable`, `EndsWhereItSays`, `DiffPatches`, `PointersAgree`, `FlattenedReadsBack`, `MovedBack` |

The bounds are large enough for the cases that matter. In the market, four offers of
one user (`market_depth`) let three stand in one queue with the middle one cancelled
while the fourth meets them, or an expired pointer lie at the head, between live ones,
and alone in its queue; who owns them does not matter to the queues. Amounts 1 and 2
give partial fills on either side and exact ones. Two prices give a better and a worse
level, three a middle one. Two users give self-trades and trades with another; a third
would be a copy of one of them. `HalfRange` stands for 2^31: the smaller it is, the
sooner the ledger wraps, and the conversions are the same modular arithmetic at every
size. In the runs without ledger properties it is small only to keep the balances from
multiplying the states; it still exceeds every spread.

In the server, two runs are what a restart needs: a third finds nothing the second
could not. Two offers of one or two units give a full and a partial fill, with a stop
between the row of an offer and the row of its deal; a post with two deals is proved
about and not run. Two ids let a user of each run meet a client of the other. One price
is enough since the order of prices is the market's subject. Of the names one is a string
that is also a number, one makes the test of a name true and one compares it with the id;
the columns `pw_hash` and `rowid`, which compare as `id` does, are added in the run with
failing statements, with a hash that is that number. There one client suffices for a registration that is lost, repeated or answered at
random. In the sessions, a reply of three pieces exceeds both the first write and one
read, one of two exceeds neither; the second client shows what one session does to
another.

In the protocol every number of the narrow int is typed at every prompt, and each of the
eight calls gets every answer. Two lines of a report tell its lists apart and show their
order. In the JSON run the beginnings lead to each part of the reader, and the bytes that
follow are those it tells apart there, one below and one above each of its ranges:
structure, numbers (integers up to 15, floats below 99, so that a text of four bytes is at the
limit by its digits, its decimals or its exponent), strings with every first byte of UTF-8, surrogate pairs, literals, the
byte order mark. After every prefix the `Endings` close what may be open (a string, a
list, a number, an escape), so that the verdict is compared in the middle of a text too.
The bytes of the binary formats lead into each family of types: fixed and sized numbers and
strings, extensions, tags, lists of known and of unknown length, typed containers. The
documents have numbers on either side of zero and of the first steps of the ladders of
widths, strings of 3 and of 32 letters, binary values with and without a subtype, lists of
more than ten elements (whose indexes are not in the order of their digits), empty lists,
and names that have to be escaped in a pointer.

`MaxOffers`, `MaxDeposit`, `MaxRuns`, `MaxRequest` and `MaxReply` bound the
behaviours, nothing in the code does; so do the sets of values, ids, texts and documents
of the last two runs. Deadlock is checked in the runs of the market and of the sessions.
A server that stopped after its last run stays stopped, a client ends, a text, an encoding
and a patch end: the runs of Server, Protocol and JsonLibrary do not check it.

**Fairness.** The market's `FairSpec` assumes weak fairness of `Handler` only: the
thread that runs an operation keeps running it. The sessions' assumes that
`io_service.run()` gets to every handler that is due, that it returns when nothing is
pending, and that a client blocked in a read goes on when there is something to
read or the connection is closed. No one has to connect, to ask or to leave, and the
server need not be stopped or started.

**Findings.** Four runs show a statement of the README that the code does not keep;
each states it as a property and TLC's counterexample is the schedule.

- `server_foreign_offer`: the consistency of the data across runs (README.md:46). The
  row of an offer is written before its owner is looked up; a user of an earlier run
  logs in, posts, and leaves a row of an offer that no market ever had.
- `session_long_reply`: clients get reports (README.md:5). A report longer than the
  first read of the client makes its parser throw.
- `session_split_request`: SIGINT is what shuts the server down (README.md:46). A
  request in two pieces does too.
- `session_accept_error`: several clients at a time (README.md:5). After a failed
  accept no other client is served while the present ones are.

One more divergence has no run of its own, since it shows in the definitions: the names of
columns, above under `Database.tla`.

Every property of a run also has a mutant: a changed definition (a strict
comparison, `push_back` for `push_front`, a queue that is not erased, an expiry
test that is dropped, ...) that stands beside the right one in the module and
under which TLC finds the property violated.

## The proofs

For every set of users, every set of integer prices, every set of positive
amounts, every number of offers and every width of the int (`MarketAssumption`),
`MarketProofs` proves that the market keeps `TypeOK`, `QueuesInOrder`,
`ActiveOffersRest`, `BookNotCrossed` and `QuotesAreLive`, and that its steps
satisfy `PriceTimePriority` and `DeadOffersStayDead`.

None of these is inductive alone. `BookNotCrossed` says nothing while an offer is
being matched, when the offer in hand does cross; and it can only be preserved by
`Rest` because every active offer has its price among the queues, so that the best
queue bounds them all. The inductive invariant `MarketInv` is

- `TypeOK`;
- `ActiveSound`: an active offer is its owner's, ACTIVE and not empty;
- `QueuesSound`: a queue points to existing offers of its own side and price,
  never to the one in hand;
- `QueuesInOrder`: no queue is empty, ids ascend;
- `ActiveStand`: every active offer but the one in hand stands in its queue;
- `TakerActive`: the offer in hand is active;
- `NotCrossed`: of the others, no two accept each other.

Expired pointers are covered by what the invariant does not say: a queue may hold
ids that are active nowhere. Lemma `Pop` says what removing a head preserves, and
serves both loops and `Trade`; lemma `TradeParties` collects what is known of the
two offers of a deal. `PriceTimePriority` follows from `ActiveStand` (an offer with
priority would stand in some queue), the choice of the best queue, and the order
within it. For `QuotesAreLive` the invariant is extended by `QuoteInv`: what was
determined for the first side is still right after the second was.

`OperationsReturn` is liveness, but most of it is not. `OperationsEnd` proves that every
step of a running operation either comes to a later stage of it, of which there are three
at most, or takes an offer out of the queues and stays; a pointer that is popped is gone,
since it stood in one queue only, and no more than once there (`PopShrinks`). So no
operation goes on for ever. `OperationsGoOn` proves that none is stuck: where a loop looks
there is no queue left, or one of them is the first to look at, which needs that every
set of prices that occurs has a smallest and a largest element (`PricesEnd`), and has a
pointer to take, by `QueuesInOrder`; in the runs such a loop would be a deadlock. What
is left to TLC is that fairness turns the two into an end.

`LedgerProofs` is about the sums. `BalancesExplained` proves `BalancesMatchDeals` for every
width of the int, `MoneyKept` proves `MoneyConserved` for every finite set of users (without
finiteness "all balances together" has no meaning). A sum is the fold of the community
modules, computed by a recursive function on the subsets of a set that `CHOOSE` takes
elements of. The provers have no induction over sets, but the library's theorem that the
proper subsets of a finite set are well-founded is a first-order fact: a law of sums that
failed would fail for a set all of whose proper subsets obey it (`SmallestBad`). That gives
what an update, an insertion or an addition does to a sum. The rest is arithmetic modulo
the width: `Wrap` changes a number by a multiple of it, so a balance that has wrapped
is still congruent to the sum of the deals, and a deal with oneself counts twice.

The last part of `MarketProofs` turns the invariant into the refinement,
`MarketIsOrderBook`: for every value of the constants the market implements the order book. The initial book is
empty (`BookInit`), and each step is one of the book or none (`StepIsStep`): posting is
`Post`, since the new id names no active offer; removing is `Cancel`, or nothing when the
offer was gone, since `ActiveSound` gives an offer one owner; `Trade` is `Execute` with the
head of the best queue, which has priority over every live order by `TradePriority` and
leaves the amounts, the deal and the end of the execution the book asks for; `Rest` is
`RestOrder`, as lemma `RestUncrossed` bounds all prices by the best queue's; and expired
pointers, money and quotes are not in the book (`Unseen`).

`ServerProofs` goes on from there. Its assumptions are the market's, that user ids are
naturals, and `DatabaseAssumption`. Every step of the server that touches the market is a
step of the market (lemma `MarketStep`) or starts a new one (`StartInit`), so
`MarketInv` holds through requests of unknown users, kills, restarts and failing
statements (`MarketInside`). `HistoryStays` (no stored row is changed or removed,
whatever fails) rests on the primary key alone. Two more hold whatever fails:
`ServerTypeOK` (`ServerTypes`, by `Typed`, in which every table with a row has a row with
the largest id, so that the next id is a number), and `FreshServerServesAll`
(`FreshServes`, by `FreshInv`: in the first run every row belongs to a user of the market,
and the ids ascend from 0, since the empty table has no largest id). From `FreshInv` also
follows `FirstRunOffers`, that in the first run on an empty database every stored offer is
one the market had: the row that run `server_foreign_offer` finds needs a second run. The
others assume `~MayFail`:

- `UserInv`: the stored ids are below the next one, the users of this run are exactly
  the market's and have their rows, what a client was told names a row with its password,
  and with its name unless that is a column's, and usernames that are no column are
  unique. It gives `NamesUnique`, `ClientsAct`, `UnknownOld`. Of `IsCalled` the proofs use
  that it compares a plain name with that of the row; what it does with columns is open;
- `OfferInv` and `DealInv`: the rows from `firstOffer` and `firstDeal` on are the
  market's offers and deals, and there are none beyond them. With `UserInv` they give
  `TablesMirror`;
- for `HistoriesAgree` (`StoredDealsExplainFills`), both, and the property itself: a post
  adds an offer of which nothing is gone, and a trade adds a deal and takes its amount
  from an offer of the buyer and one of the seller. The sums are over all offers and deals
  of a run, with the lemmas of `LedgerProofs`;
- `HasMax`, in each of them: a table that is not empty has a largest key. The keys of
  a table are a finite set, but the proofs need no more of it than that, since
  `GetMaxId` is a maximum.

`SessionProofs` shows, for any clients and any sizes of requests, replies, reads and
writes (`SessionAssumption`), that the sessions keep `SessionTypeOK` and `NothingLost`. The
invariant adds `ClosedIsEmpty`, without which a client that connects again might find
a request of its earlier connection. `NothingLost` is counted in pieces:
`Len(reply) + unsent = length` says that a client that has read a whole reply has left
nothing behind that it could take for the next one.

Two more theorems say on what the Findings depend. If requests are never split, no user
of an earlier run logs in and no accept fails, only a signal stops the server
(`WholeRequestsServed`); if every reply is one piece, every client that gets an answer
can read it (`ShortRepliesShown`). So the statements of the README are true of a network
that keeps boundaries, a server with an empty database and short replies; each of the
runs that refute them drops one of these and needs nothing else.

`ProtocolProofs` shows `OrderedIsDone`, `NothingElseThrows` and `ShownIsAnswered` for all widths
of the integers (`ProtocolAssumption`), all users, names, passwords and answers. None of
them speaks of a prompt, where the order is half typed; `ProtocolInv` does:

- `Typing`: the types, with any number in any variable, since a refused one stays there;
- `AtPrompts`: at each prompt, the variables behind it hold what was accepted for this
  order, and nothing is on its way;
- `WhileWaiting`: the request on its way is the message of the order (`Sent`), or the
  call was what was meant and the reply carries one of its answers;
- `ShownIsAnswered`.

The messages of each form have a lemma on their way to the server (`CredentialsArrive`,
`QuestionArrives`, `PostArrives`, `CancelArrives`) and one on the way back (`AuthPrinted`,
..., `DealsPrinted`): the session that takes a request apart finds every field under its
name and in a type it can convert, and so does the client with the reply. A report may have any number of lines. That the
lists of purchases, sales and deals with oneself hold each deal once is a
bijection of the positions of a list and those of the deals of its kind
(`ListedPositions`), by the smallest number of lines for which there would be none
(`SmallestNumber`).

`Utf8Proofs` compares the two descriptions of UTF-8 byte by byte (`SameUtf8`): in every
state of the writer's automaton, the reader, expecting what belongs to that state,
accepts exactly the bytes the automaton does, and goes on to expect what belongs to the
next state. The proof classifies the bytes once (`Classes`) and then goes
through the nine states.

`JsonProofs` is about texts of any length and any bytes. `NulEnds`: whatever function of
the lexer is in the middle of whatever token, a terminator leaves the reader done or
refused, and then no byte changes it. `StreamLeftoversUnread` follows: the rest of a longer
request behind the terminator is never taken for part of this one. The inductive
invariant is `EndedByNul`; it needs `IsReader`, that a lexer which waits for the rest of a
literal, of a byte order mark or of an escape waits for something, and for no zero byte.
A number is the hard case: the terminator ends it, is put back and is read again.

`StreamStringsWritable` proves `StringsAreWritable` for all texts: the invariant `Writable`
says that the characters of a string so far lead the writer's automaton into the state the
reader waits in (`RunsTo`, `Expected`), and into the accepting one while an escape is
read. Each byte is a step of `SameUtf8`; what an escape or a pair of halves encodes is
a whole character (`EncodedCharacter`). An induction over the bytes of a string is not
needed, because the reader's own steps are one.

`StreamBracketsClosed` and `StreamNothingFollows` are what makes a cut request safe. The
first, by `Sound` and `Bracketed`: after an opening bracket the stack is not empty until
the value is whole, so nothing that begins with a bracket is accepted before its last
bracket is closed. The second, by `Follows`: behind a whole value only white space and the
terminator are accepted, and nothing changes the value. Together: an object ends in
its closing brace, so no shorter beginning of it was accepted; for then the brace would
have followed a whole value. `CutsAreRefused`, below, is that argument made exact.

`JsonReadingProofs` is about writer and reader together: `SentIsRead` proves `ReadsBack`,
that every value that is dumped is parsed as the same value. The values are any set that
holds the parts of each of its members (`WriterAssumption`): null, booleans, integers
that fit, strings that are UTF-8, arrays, objects, of any length and depth. Left out
are floating-point and binary values, which the program never dumps. The proof goes
bottom up:

- *Readings.* `Reads(r, s, q)` says that the bytes `s` take the reader `r` to `q`; one text
  after the other is read so (`ReadsOn`), and the result is determined (`ReadsOnce`). A
  number is only taken when the byte behind it comes, so what is proved of a value is
  `Takes(r, t, p)`: after `t` the reader does with every comma, closing bracket and end of
  the input what `p`, which has the value already, does.
- *Strings.* `StringsReadBack`: each byte that is written as it stands, with a backslash or as
  `\u00..` gives the reader that byte, and between them the reader's `rest` is what the
  writer's automaton expects (`Expected`, by `SameUtf8`).
- *Integers.* `IntegersReadBack`: the rounds of `count_digits` end, with a count that is
  the number of decimal digits (`CountRight`), so the digits that `dump_integer` writes
  from the end are all there and without a leading zero, and the value of each beginning of
  them is a quotient of the number (`FiguresRight`).
- *Keys.* The order of `std::map` is a strict total order on byte strings
  (`BeforeOrders`), so an object's members are visited each once (`KeysSorted`).
- *Containers.* In `ArraysReadBack` and `ObjectsReadBack` the uppermost frame of the stack
  grows by one element or member with each part, whatever lies below it.
- *Values.* `Dump` satisfies its equation (`DumpIs`; a function that does exists by
  `Nesting`, `DumpExists`), and of values not read back none could be nested least:
  `DumpsReadBack`.

The invariant, `Dumping`, says that what has come is a beginning of the dumped text, and
that the reader has read it.

`CutsAreRefused` uses the same invariant: of an array, an object or a string, which is all
the program sends, no beginning but the whole is accepted. What begins with a bracket or a
quotation mark is inside it until it is whole or refused (`Begun`); a value that is whole
too early would stay so (`Over`), and then the closing mark at the end could not be the
last byte of an accepted text (`NoneBehind`), which it is.

The provers have no induction, but it can be had for numbers. The theorem
that the subsets of a finite set are well-founded, applied to the intervals from 0, gives
every set of numbers a smallest element (`SmallestNumber`), and the smallest
counterexample is an induction, on lengths (`UpTo`) and on nesting. It takes a set of
numbers in place of a predicate, and a proof that each recursive function exists.

Only model-checked:

- liveness (`OperationsReturn`, `ServedClientsAnswered`, `SessionsReleased`), which TLAPS
  does not cover;
- the invariants of `JsonLibrary`, `ReaderAcceptsJson` among them. The grammar, the binary
  formats, pointers and patches are recursive operators, and a module with a theorem can
  reach none: the provers lose arithmetic there. `Dump` and the value of a number are
  recursive functions for that reason.

## Plan

Done: `Market` and `OrderBook`, `Database`, `Server`, `Session`, `Protocol`, the JSON
library's modules, and the theorems above. What could follow:

1. Sessions on top of `Server` with more than one request under way, so that the answer
   a client reads is related to the moment of the market it describes.
2. What the reader accepts, as a theorem: it takes a grammar of productions with the
   stack in them in place of the recursive predicate of `JsonGrammar`.

## Not modelled

- The logger, the wording of the terminal dialogue and the port.
- `srializer.cpp`, an older copy of `serializer.cpp` that no build file names.
- Names with a quotation mark or a zero byte: the statement they are put into is another
  one. Where it is none, it fails, which `MayFail` has; what other statements do is left
  out. That a name in double quotes may be a string at all is SQLite's default, which a
  build of it can turn off.
- Of `json.h`: floating-point values (reading them yields `Float` without a number, and
  the program never writes one), so not the shortest-digits algorithm; in the binary
  formats integers beyond 32 bits; iterators, parser callbacks,
  comments, pretty printing, ASCII output, wide-character input; and the templates, macros
  and conversions that have no behaviour of their own. Two thirds of the file are of this
  kind.
- The byte that a full read writes past the session's buffer (`session.cpp:28`), for which
  no outcome is defined, and the lock that `stop()` takes in a signal handler
  (`server_main.cpp:17`), which is inside the networking library. They are listed as
  hazards.
- At the end of its input the client repeats its error message for ever (`client.h:44`).
  `TypeOther` has that step; a property would have to assume that the user answers.
