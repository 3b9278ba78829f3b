----------------------------- MODULE OrderBook ------------------------------
(***************************************************************************)
(* What the exchange promises its users, with no word on how offers are    *)
(* stored: a set of live orders, one of which may be executing.  The       *)
(* executing order trades with the order of the other side that has        *)
(* priority (best price, then oldest) for as long as there is one it       *)
(* accepts; then what is left of it rests.  Only its owner takes an order  *)
(* away, and only between executions.                                      *)
(***************************************************************************)
EXTENDS Integers, Sequences

CONSTANTS
  Users,      \* who may own an order
  Prices,     \* the prices of orders
  Amounts,    \* the amounts of orders
  MaxOffers   \* bound: how many orders are ever posted

VARIABLES
  live,       \* the live orders: a function from their ids
  posted,     \* how many orders were posted; the id of the latest
  taker,      \* the id of the executing order, or 0
  deals       \* every deal made, in order

bookVars == <<live, posted, taker, deals>>

Sides == {"BUY", "SELL"}

\* May the order taker trade with the order maker?
Acceptable(t, m) ==
  /\ live[m].side # live[t].side
  /\ IF live[t].side = "BUY"
     THEN live[m].price <= live[t].price
     ELSE live[m].price >= live[t].price

\* Has maker m priority over maker n, seen from a taker?
Precedes(t, m, n) ==
  \/ live[t].side = "BUY" /\ live[m].price < live[n].price
  \/ live[t].side = "SELL" /\ live[m].price > live[n].price
  \/ live[m].price = live[n].price /\ m <= n

\* The order that executes is filled first by the order with priority.
Priority(t, m) ==
  /\ m \in DOMAIN live
  /\ Acceptable(t, m)
  /\ \A n \in DOMAIN live : Acceptable(t, n) => Precedes(t, m, n)

\* The live orders once amount has been traded between t and m.
AfterTrade(t, m, amount) ==
  [o \in {x \in DOMAIN live : ~(x \in {t, m} /\ live[x].amount = amount)} |->
     IF o \in {t, m} THEN [live[o] EXCEPT !.amount = @ - amount] ELSE live[o]]

Seller(t, m) == IF live[t].side = "SELL" THEN live[t].owner ELSE live[m].owner
Buyer(t, m) == IF live[t].side = "BUY" THEN live[t].owner ELSE live[m].owner
-----------------------------------------------------------------------------
Init ==
  /\ live = [o \in {} |-> <<>>]
  /\ posted = 0
  /\ taker = 0
  /\ deals = <<>>

Post(u, side, price, amount) ==
  /\ taker = 0
  /\ posted < MaxOffers
  /\ posted' = posted + 1
  /\ taker' = posted + 1
  /\ live' = [o \in DOMAIN live \cup {posted + 1} |->
                IF o = posted + 1
                THEN [owner |-> u, side |-> side, price |-> price,
                      amount |-> amount]
                ELSE live[o]]
  /\ UNCHANGED deals

Execute(m) ==
  /\ taker # 0
  /\ Priority(taker, m)
  /\ \E amount \in {live[taker].amount, live[m].amount} :
       /\ amount <= live[taker].amount /\ amount <= live[m].amount
       /\ deals' = Append(deals, [seller |-> Seller(taker, m),
                                  buyer |-> Buyer(taker, m),
                                  price |-> live[m].price,
                                  amount |-> amount])
       /\ live' = AfterTrade(taker, m, amount)
       /\ taker' = IF live[taker].amount = amount THEN 0 ELSE taker
  /\ UNCHANGED posted

RestOrder ==
  /\ taker # 0
  /\ \A m \in DOMAIN live : ~Acceptable(taker, m)
  /\ taker' = 0
  /\ UNCHANGED <<live, posted, deals>>

Cancel(u, o) ==
  /\ taker = 0
  /\ o \in DOMAIN live
  /\ live[o].owner = u
  /\ live' = [x \in DOMAIN live \ {o} |-> live[x]]
  /\ UNCHANGED <<posted, taker, deals>>

Next ==
  \/ \E u \in Users, side \in Sides, price \in Prices, amount \in Amounts :
       Post(u, side, price, amount)
  \/ \E m \in 1 .. posted : Execute(m)
  \/ RestOrder
  \/ \E u \in Users, o \in 1 .. posted : Cancel(u, o)

Spec == Init /\ [][Next]_bookVars
=============================================================================
