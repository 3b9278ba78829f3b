------------------------------- MODULE Market -------------------------------
(***************************************************************************)
(* The exchange itself: class Market (src/src/market.h, market.cpp) with   *)
(* the objects it owns, Offer, Deal and UserData.                          *)
(*                                                                         *)
(* Users post BUY and SELL offers for USD priced in RUB.  A new offer is   *)
(* matched against the queues of the other side, best price first and      *)
(* oldest offer first; what is left of it rests in a queue of its own      *)
(* side.  The queues hold weak pointers: the only owner of an offer is the *)
(* active_offers_ set of the user who posted it, so cancelling an offer    *)
(* only drops it from that set and leaves an expired pointer behind, which *)
(* the loops of ProcessOffer and DetermineQuote remove when they meet it.  *)
(*                                                                         *)
(* The server runs every request on one thread.  The two loops are written *)
(* here one iteration per step, and "phase" keeps every other operation    *)
(* out until the running one returns.                                      *)
(***************************************************************************)
EXTENDS Integers, Sequences, FiniteSetsExt

CONSTANTS
  Users,       \* the users that may register
  Prices,      \* the prices an offer may carry
  Amounts,     \* the amounts an offer may carry
  MaxOffers,   \* bound: how many offers are ever posted
  Deposits,    \* the sums a deposit may carry
  MaxDeposit,  \* bound: how much a user ever deposits, of both currencies
  HalfRange,   \* an int holds -HalfRange .. HalfRange - 1 (2^31 in the build)
  None         \* std::nullopt

\* SafeIntInput (client.h) refuses an amount below 1 and accepts any price.
ASSUME MarketAssumption ==
  /\ Prices \subseteq Int
  /\ Amounts \subseteq Nat \ {0}
  /\ MaxOffers \in Nat
  /\ Deposits \subseteq Nat
  /\ MaxDeposit \in Nat
  /\ HalfRange \in Nat \ {0}
  /\ None \notin Int

VARIABLES
  users,       \* ids in user_id_to_user_data_
  balance,     \* UserData::balance_, per user
  active,      \* UserData::active_offers_, per user: offer ids
  closed,      \* UserData::closed_deals_, per user: deal ids
  offers,      \* the Offer objects; an offer's id is its position
  deals,       \* the Deal objects; a deal's id is its position
  book,        \* active_buy_offers_ and active_sell_offers_
  quote,       \* quote_
  phase,       \* the operation that runs, or "idle"
  info,        \* the AskBidQuotesInfo being determined
  deposited    \* history: what each user has deposited

userVars == <<users, balance, closed, deposited>>
vars == <<users, balance, active, closed, offers, deals, book, quote, phase,
          info, deposited>>
-----------------------------------------------------------------------------
(* Types *)

Side == {"BUY", "SELL"}
Status == {"ACTIVE", "FULLFILLED"}
Offer == [owner : Users, side : Side, price : Prices, amount : Nat,
          status : Status]
Deal == [seller : Users, buyer : Users, price : Prices, amount : Nat]

\* std::set<OfferQueue>: one queue per price that has one, oldest offer first.
IsOfferQueues(queues) ==
  /\ DOMAIN queues \subseteq Prices
  /\ queues \in [DOMAIN queues -> Seq(Nat)]

Phase == {"idle", "matching", "ask", "bid", "answer"}
IntValue == -HalfRange .. HalfRange - 1
Balance == [usd : IntValue, rub : IntValue]
NoInfo == [end \in {"ask", "bid"} |-> None]
-----------------------------------------------------------------------------
(* Money *)

\* Mutant of Wrap: the sums saturate instead of wrapping.
SaturatingWrap(x) ==
  IF x < -HalfRange THEN -HalfRange
  ELSE IF x >= HalfRange THEN HalfRange - 1 ELSE x

\* balance_ is an int and the sums are size_t: += and -= convert modulo 2^32.
Wrap(x) == ((x + HalfRange) % (2 * HalfRange)) - HalfRange

\* The sign a deal carries for user u: a buyer gains, a seller loses, and who
\* buys from himself does both.
Bought(u, deal) == IF u = deal.buyer THEN deal.amount ELSE 0
Sold(u, deal) == IF u = deal.seller THEN deal.amount ELSE 0

\* Mutant of Settle: a user who trades with himself is only settled as buyer.
SettleOneRole(deal) ==
  [u \in Users |->
     LET net == IF u = deal.buyer THEN deal.amount ELSE -Sold(u, deal) IN
     [usd |-> Wrap(balance[u].usd + net),
      rub |-> Wrap(balance[u].rub - net * deal.price)]]

\* RegisterDeal's four deposits and withdrawals.
Settle(deal) ==
  [u \in Users |->
     LET net == Bought(u, deal) - Sold(u, deal) IN
     [usd |-> Wrap(balance[u].usd + net),
      rub |-> Wrap(balance[u].rub - net * deal.price)]]
-----------------------------------------------------------------------------
(* The queues *)

Opposite(side) == IF side = "BUY" THEN "SELL" ELSE "BUY"

\* The order of the queues of one side, from the end ProcessOffer reads.
AtLeastAsGood(side, p, q) == IF side = "SELL" THEN p <= q ELSE p >= q

\* Mutant of BestPrice: begin() and --end() swapped.
WrongEnd(side, p) ==
  /\ p \in DOMAIN book[side]
  /\ \A q \in DOMAIN book[side] : AtLeastAsGood(side, q, p)

\* begin() of the sell queues, --end() of the buy queues.
BestPrice(side, p) ==
  /\ p \in DOMAIN book[side]
  /\ \A q \in DOMAIN book[side] : AtLeastAsGood(side, p, q)

\* Mutant of WorstPrice: DetermineQuote looks where ProcessOffer does.
NearestPrice(side, p) == BestPrice(side, p)

\* --end() of the sell queues, begin() of the buy queues.
WorstPrice(side, p) ==
  /\ p \in DOMAIN book[side]
  /\ \A q \in DOMAIN book[side] : AtLeastAsGood(side, q, p)

\* Mutant of Crosses: strict comparisons.
CrossesStrictly(side, limit, p) == IF side = "SELL" THEN p > limit ELSE p < limit

\* The BorderPricePredicate of an offer of the given side and limit price.
Crosses(side, limit, p) == IF side = "SELL" THEN p >= limit ELSE p <= limit

\* The deque's back() is its oldest offer, here the head of the sequence.
Oldest(side, p) == Head(book[side][p])

\* Mutants of PushFront: push_back for push_front; insert for push_front.
PushBack(queues, p, o) ==
  [q \in DOMAIN queues \cup {p} |->
     IF q # p THEN queues[q]
     ELSE IF p \in DOMAIN queues THEN <<o>> \o queues[p] ELSE <<o>>]
InsertQueue(queues, p, o) ==
  [q \in DOMAIN queues \cup {p} |-> IF q = p THEN <<o>> ELSE queues[q]]

\* find, then push_front or insert.
PushFront(queues, p, o) ==
  [q \in DOMAIN queues \cup {p} |->
     IF q # p THEN queues[q]
     ELSE IF p \in DOMAIN queues THEN Append(queues[p], o) ELSE <<o>>]

\* Mutants of PopBack: the emptied queue is not erased; nothing is popped.
PopBackKeepQueue(queues, p) == [queues EXCEPT ![p] = Tail(@)]
PopBackForgotten(queues, p) == queues

\* pop_back, then erase the queue if that emptied it.
PopBack(queues, p) ==
  IF Len(queues[p]) = 1
  THEN [q \in DOMAIN queues \ {p} |-> queues[q]]
  ELSE [queues EXCEPT ![p] = Tail(@)]

\* Mutant of Expired: the test is dropped.
NeverExpired(o) == FALSE

\* weak_ptr::expired: no active_offers_ set owns the offer any more.
Expired(o) == \A u \in Users : o \notin active[u]
-----------------------------------------------------------------------------
Init ==
  /\ users = {}
  /\ balance = [u \in Users |-> [usd |-> 0, rub |-> 0]]
  /\ active = [u \in Users |-> {}]
  /\ closed = [u \in Users |-> {}]
  /\ offers = <<>>
  /\ deals = <<>>
  /\ book = [s \in Side |-> [p \in {} |-> <<>>]]
  /\ quote = None
  /\ phase = "idle"
  /\ info = NoInfo
  /\ deposited = [u \in Users |-> [usd |-> 0, rub |-> 0]]

\* A new UserData, with zero balances and no offers or deals.
RegisterUser(u) ==
  /\ phase = "idle"
  /\ u \notin users
  /\ users' = users \cup {u}
  /\ UNCHANGED <<balance, active, closed, offers, deals, book, quote, phase,
                 info, deposited>>

DepositUSD(u, sum) ==
  /\ phase = "idle"
  /\ u \in users
  /\ deposited[u].usd + deposited[u].rub + sum <= MaxDeposit
  /\ balance' = [balance EXCEPT ![u].usd = Wrap(@ + sum)]
  /\ deposited' = [deposited EXCEPT ![u].usd = @ + sum]
  /\ UNCHANGED <<users, active, closed, offers, deals, book, quote, phase,
                 info>>

DepositRUB(u, sum) ==
  /\ phase = "idle"
  /\ u \in users
  /\ deposited[u].usd + deposited[u].rub + sum <= MaxDeposit
  /\ balance' = [balance EXCEPT ![u].rub = Wrap(@ + sum)]
  /\ deposited' = [deposited EXCEPT ![u].rub = @ + sum]
  /\ UNCHANGED <<users, active, closed, offers, deals, book, quote, phase,
                 info>>

\* The owner's set is the only owner of an offer: erasing it there destroys it.
\* An offer that is not in the set is refused and nothing changes.
RemoveOffer(u, o) ==
  /\ phase = "idle"
  /\ u \in users
  /\ o \in 1 .. Len(offers)
  /\ active' = [active EXCEPT ![u] = @ \ {o}]
  /\ UNCHANGED <<userVars, offers, deals, book, quote, phase, info>>
-----------------------------------------------------------------------------
(* PostOffer *)

\* Construct the offer, make its owner own it, and enter ProcessOffer.
PostOffer(u, side, price, amount) ==
  /\ phase = "idle"
  /\ u \in users
  /\ Len(offers) < MaxOffers
  /\ offers' = Append(offers, [owner |-> u, side |-> side, price |-> price,
                               amount |-> amount, status |-> "ACTIVE"])
  /\ active' = [active EXCEPT ![u] = @ \cup {Len(offers) + 1}]
  /\ phase' = "matching"
  /\ UNCHANGED <<userVars, deals, book, quote, info>>

\* The offer ProcessOffer was called with: no other can be posted meanwhile.
Incoming == Len(offers)
OtherSide == Opposite(offers[Incoming].side)

\* The best queue of the other side, when the incoming offer accepts its price.
Matches(p) ==
  /\ phase = "matching"
  /\ BestPrice(OtherSide, p)
  /\ Crosses(offers[Incoming].side, offers[Incoming].price, p)

\* Mutant of MakeDeal: the amount is not limited by the resting offer.
MakeWholeDeal(taker, maker) ==
  LET buy  == IF offers[taker].side = "BUY" THEN taker ELSE maker
      sell == IF offers[taker].side = "SELL" THEN taker ELSE maker
  IN [seller |-> offers[sell].owner,
      buyer  |-> offers[buy].owner,
      price  |-> offers[maker].price,
      amount |-> offers[taker].amount]

\* Offer::MakeDeal at the price of the offer that was there first.
MakeDeal(taker, maker) ==
  LET buy  == IF offers[taker].side = "BUY" THEN taker ELSE maker
      sell == IF offers[taker].side = "SELL" THEN taker ELSE maker
  IN [seller |-> offers[sell].owner,
      buyer  |-> offers[buy].owner,
      price  |-> offers[maker].price,
      amount |-> IF offers[buy].amount <= offers[sell].amount
                 THEN offers[buy].amount ELSE offers[sell].amount]

Fill(offer, amount) ==
  [offer EXCEPT !.amount = @ - amount,
                !.status = IF offer.amount = amount THEN "FULLFILLED" ELSE @]

RegisterDeal(deal) ==
  /\ deals' = Append(deals, deal)
  /\ balance' = Settle(deal)
  /\ closed' = [u \in Users |-> IF u \in {deal.buyer, deal.seller}
                                THEN closed[u] \cup {Len(deals) + 1}
                                ELSE closed[u]]

\* Iteration that meets the pointer of a cancelled offer.
SkipExpired(p) ==
  /\ Matches(p)
  /\ Expired(Oldest(OtherSide, p))
  /\ book' = [book EXCEPT ![OtherSide] = PopBack(@, p)]
  /\ UNCHANGED <<userVars, active, offers, deals, quote, phase, info>>

\* Iteration that makes a deal.  Every offer the deal fills leaves its owner's
\* set; the resting one leaves its queue too, and the loop and the operation
\* end when the incoming one is filled.
Trade(p) ==
  LET maker  == Oldest(OtherSide, p)
      deal   == MakeDeal(Incoming, maker)
      filled == {o \in {Incoming, maker} :
                   Fill(offers[o], deal.amount).status = "FULLFILLED"}
  IN
  /\ Matches(p)
  /\ ~Expired(maker)
  /\ offers' = [offers EXCEPT ![Incoming] = Fill(@, deal.amount),
                              ![maker] = Fill(@, deal.amount)]
  /\ RegisterDeal(deal)
  /\ quote' = deal.price
  /\ book' = IF maker \in filled
             THEN [book EXCEPT ![OtherSide] = PopBack(@, p)]
             ELSE book
  /\ active' = [u \in Users |->
                  active[u] \ {o \in filled : offers[o].owner = u}]
  /\ phase' = IF Incoming \in filled THEN "idle" ELSE "matching"
  /\ UNCHANGED <<users, deposited, info>>

\* AddActiveOffer: nothing on the other side is acceptable.
Rest ==
  /\ phase = "matching"
  /\ \/ DOMAIN book[OtherSide] = {}
     \/ \E p \in DOMAIN book[OtherSide] :
          /\ BestPrice(OtherSide, p)
          /\ ~Crosses(offers[Incoming].side, offers[Incoming].price, p)
  /\ book' = [book EXCEPT ![offers[Incoming].side] =
                PushFront(@, offers[Incoming].price, Incoming)]
  /\ phase' = "idle"
  /\ UNCHANGED <<userVars, active, offers, deals, quote, info>>
-----------------------------------------------------------------------------
(* GetAskBidQuotes: DetermineQuote(BUY), then DetermineQuote(SELL) *)

GetAskBidQuotes ==
  /\ phase = "idle"
  /\ phase' = "ask"
  /\ UNCHANGED <<userVars, active, offers, deals, book, quote, info>>

QuoteSide == IF phase = "ask" THEN "BUY" ELSE "SELL"
NextPhase == IF phase = "ask" THEN "bid" ELSE "answer"

\* The queue DetermineQuote looks at: the lowest of the buy queues, the highest
\* of the sell queues, as the "Get quotes" test has it.
Quoted(p) ==
  /\ phase \in {"ask", "bid"}
  /\ WorstPrice(QuoteSide, p)
  /\ book[QuoteSide][p] # <<>>

\* The inner loop's condition reads a queue that erase() has just destroyed;
\* its memory still describes an empty deque, so the outer loop goes on.
PruneExpired(p) ==
  /\ Quoted(p)
  /\ Expired(Oldest(QuoteSide, p))
  /\ book' = [book EXCEPT ![QuoteSide] = PopBack(@, p)]
  /\ UNCHANGED <<userVars, active, offers, deals, quote, phase, info>>

FindQuote(p) ==
  /\ Quoted(p)
  /\ ~Expired(Oldest(QuoteSide, p))
  /\ info' = [info EXCEPT ![phase] = offers[Oldest(QuoteSide, p)].price]
  /\ phase' = NextPhase
  /\ UNCHANGED <<userVars, active, offers, deals, book, quote>>

NoQuote ==
  /\ phase \in {"ask", "bid"}
  /\ DOMAIN book[QuoteSide] = {}
  /\ phase' = NextPhase
  /\ UNCHANGED <<userVars, active, offers, deals, book, quote, info>>

\* The int subtraction overflows only for quotes HalfRange apart.
Spread == IF None \in {info["ask"], info["bid"]} THEN None
          ELSE Wrap(info["bid"] - info["ask"])

\* The answer leaves the market.
ReturnQuotes ==
  /\ phase = "answer"
  /\ phase' = "idle"
  /\ info' = NoInfo
  /\ UNCHANGED <<userVars, active, offers, deals, book, quote>>
-----------------------------------------------------------------------------
\* One step of the operation that is running.
Handler ==
  \/ \E p \in Prices : \/ SkipExpired(p)
                       \/ Trade(p)
                       \/ PruneExpired(p)
                       \/ FindQuote(p)
  \/ Rest
  \/ NoQuote
  \/ ReturnQuotes

Request ==
  \/ \E u \in Users :
       \/ RegisterUser(u)
       \/ \E sum \in Deposits : DepositUSD(u, sum) \/ DepositRUB(u, sum)
       \/ \E o \in 1 .. Len(offers) : RemoveOffer(u, o)
       \/ \E side \in Side, price \in Prices, amount \in Amounts :
            PostOffer(u, side, price, amount)
  \/ GetAskBidQuotes

Next == Handler \/ Request

Spec == Init /\ [][Next]_vars

\* The thread that runs an operation keeps running it; no one has to ask for
\* anything.
FairSpec == Spec /\ WF_vars(Handler)
-----------------------------------------------------------------------------
(* Properties *)

\* Every variable has its type.
TypeOK ==
  /\ users \subseteq Users
  /\ balance \in [Users -> Balance]
  /\ active \in [Users -> SUBSET (1 .. Len(offers))]
  /\ closed \in [Users -> SUBSET (1 .. Len(deals))]
  /\ offers \in Seq(Offer)
  /\ deals \in Seq(Deal)
  /\ DOMAIN book = Side
  /\ \A s \in Side : IsOfferQueues(book[s])
  /\ quote \in Prices \cup {None}
  /\ phase \in Phase
  /\ info \in [{"ask", "bid"} -> Prices \cup {None}]
  /\ deposited \in [Users -> [usd : Nat, rub : Nat]]

\* The offers some user's set owns, those of one side, and the one of them that
\* ProcessOffer holds and no queue has yet.
Active == UNION {active[u] : u \in Users}
ActiveOn(side) == {o \in Active : offers[o].side = side}
InProcess == IF phase = "matching" THEN {Incoming} ELSE {}

\* Offer o has a pointer in the queue of price p.
Holds(queues, p, o) ==
  /\ p \in DOMAIN queues
  /\ \E i \in 1 .. Len(queues[p]) : queues[p][i] = o

\* No queue is empty, which would hang DetermineQuote and make back() undefined
\* in ProcessOffer; and a queue holds each of its offers once, oldest first,
\* whatever was cancelled or filled in between.
QueuesInOrder ==
  \A side \in Side : \A p \in DOMAIN book[side] :
    /\ book[side][p] # <<>>
    /\ \A i, j \in 1 .. Len(book[side][p]) :
         i < j => book[side][p][i] < book[side][p][j]

\* The two places an offer is kept in agree: what a user sees as active is
\* unfilled, is his, and stands in the one queue of its side and price (so a
\* later offer can still meet it), until it is filled or cancelled.
ActiveOffersRest ==
  \A u \in Users : \A o \in active[u] :
    /\ offers[o].owner = u
    /\ offers[o].status = "ACTIVE"
    /\ offers[o].amount > 0
    /\ \A side \in Side, p \in Prices :
         Holds(book[side], p, o) <=> /\ o \notin InProcess
                                      /\ side = offers[o].side
                                      /\ p = offers[o].price

\* Between operations no buyer and seller who would accept each other both
\* wait: ProcessOffer never lets an offer rest that could still trade.
BookNotCrossed ==
  phase # "matching" =>
    \A b \in ActiveOn("BUY"), s \in ActiveOn("SELL") :
      offers[b].price < offers[s].price

\* The prices of the active offers, whatever the queues hold.
LowestBuy == IF ActiveOn("BUY") = {} THEN None
             ELSE Min({offers[o].price : o \in ActiveOn("BUY")})
HighestSell == IF ActiveOn("SELL") = {} THEN None
               ELSE Max({offers[o].price : o \in ActiveOn("SELL")})

\* GetAskBidQuotes answers from offers that are still active, past all the
\* expired pointers: the lowest buy price and the highest sell price, nothing
\* for a side without offers, and so a spread above zero unless it overflows.
QuotesAreLive ==
  phase = "answer" =>
    /\ info["ask"] = LowestBuy
    /\ info["bid"] = HighestSell
    /\ Spread # None =>
         \/ Spread > 0
         \/ info["bid"] - info["ask"] >= HalfRange

\* A deal is made with the offer that has priority among all active offers of
\* the other side: no better price waits, and none that waits longer at that
\* price.  The deal is at that offer's price, which both sides accept.
PriceTimePriority ==
  [][\A maker \in 1 .. Len(offers) :
       (phase = "matching" /\ maker # Incoming /\ offers'[maker] # offers[maker])
       => /\ maker \in ActiveOn(OtherSide)
          /\ \A o \in ActiveOn(OtherSide) :
               /\ AtLeastAsGood(OtherSide, offers[maker].price, offers[o].price)
               /\ offers[o].price = offers[maker].price => maker <= o
          /\ deals'[Len(deals')].price = offers[maker].price
          /\ Crosses(offers[Incoming].side, offers[Incoming].price,
                     offers[maker].price)]_vars

\* An offer that was cancelled or filled never trades and is never active
\* again, however long its pointer stays in a queue.
DeadOffersStayDead ==
  [][\A o \in (1 .. Len(offers)) \ Active :
       offers'[o] = offers[o] /\ \A u \in Users : o \notin active'[u]]_vars

\* What each closed deal of user u brought him, in dollars and in roubles, and
\* what the deals of each user must have brought him in all.
UsdOf(u) == [d \in closed[u] |-> Bought(u, deals[d]) - Sold(u, deals[d])]
RubOf(u) == [d \in closed[u] |-> -(UsdOf(u)[d] * deals[d].price)]
UsdMoved == [u \in Users |-> balance[u].usd - deposited[u].usd]
RubMoved == [u \in Users |-> balance[u].rub - deposited[u].rub]

\* What GetBalance tells a user is, in int arithmetic, what he deposited and
\* what the deals GetClosedDeals lists for him add up to, deals with himself
\* and deals that overflow the int included.
BalancesMatchDeals ==
  \A u \in Users :
    /\ balance[u].usd = Wrap(deposited[u].usd + SumFunction(UsdOf(u)))
    /\ balance[u].rub = Wrap(deposited[u].rub + SumFunction(RubOf(u)))

\* Deals move money and never make any: the balances of all users add up to
\* what was deposited, modulo the size of an int.
MoneyConserved ==
  /\ SumFunction(UsdMoved) % (2 * HalfRange) = 0
  /\ SumFunction(RubMoved) % (2 * HalfRange) = 0

\* The offers that pointers in the queues still name, the expired included, and
\* how many phases the running operation has before it.
Queued == {o \in 1 .. Len(offers) :
             \E side \in Side, p \in Prices : Holds(book[side], p, o)}
StagesLeft == CASE phase = "idle" -> 0
                [] phase \in {"matching", "answer"} -> 1
                [] phase = "bid" -> 2
                [] phase = "ask" -> 3

\* No iteration of either loop is for nothing: while an operation runs, every
\* step ends one of its phases, or leaves fewer offers in the queues and the
\* phase as it was.  So no loop has more iterations than there are pointers.
OperationsAdvance ==
  [][phase # "idle" =>
       \/ StagesLeft' < StagesLeft
       \/ /\ StagesLeft' = StagesLeft
          /\ Queued' \subseteq Queued
          /\ Queued' # Queued]_vars

\* Every operation returns: neither loop runs forever, and neither is left with
\* a queue it can do nothing with.  Until it returns no request is served.
OperationsReturn == phase # "idle" ~> phase = "idle"
-----------------------------------------------------------------------------
(* The market implements the order book of module OrderBook: queues, weak     *)
(* pointers and their removal are invisible to its users.                     *)

Order(o) == [owner |-> offers[o].owner, side |-> offers[o].side,
             price |-> offers[o].price, amount |-> offers[o].amount]

Abstract == INSTANCE OrderBook WITH
  live <- [o \in Active |-> Order(o)],
  posted <- Len(offers),
  taker <- IF phase = "matching" THEN Incoming ELSE 0,
  deals <- deals

\* Every behaviour of the market is one of the order book: an offer posted,
\* executed by priority, left to rest or cancelled by its owner, in that order
\* and nothing else.
ImplementsOrderBook == Abstract!Spec
=============================================================================
