---------------------------- MODULE MarketProofs ----------------------------
(***************************************************************************)
(* Theorems of module Market, for every set of users, prices and amounts   *)
(* and every number of offers.  Each is an invariant, or a step property,  *)
(* that follows from the inductive invariant MarketInv below; two say that *)
(* no operation goes on for ever or is stuck, and the last one that the    *)
(* market implements the order book of module OrderBook.                   *)
(***************************************************************************)
EXTENDS Market, SequenceTheorems, TLAPS

-----------------------------------------------------------------------------
(* The operators *)

\* Wrapping an integer gives a value an int can hold: the conversions behind
\* the += and -= of UserData's deposits and withdrawals.
LEMMA WrapType ==
  ASSUME NEW x \in Int
  PROVE  Wrap(x) \in IntValue
<1> DEFINE m == 2 * HalfRange
<1>1. HalfRange \in Nat \ {0} /\ m \in Nat /\ m > 0
  BY MarketAssumption
<1>2. (x + HalfRange) % m \in 0 .. m - 1
  <2> HIDE DEF m
  <2> QED BY <1>1
<1> QED BY <1>1, <1>2 DEF Wrap, IntValue

\* What PopBack leaves: the other queues as they were, and of the popped queue,
\* unless it had one pointer only, everything behind the oldest.
LEMMA PopBackQueues ==
  ASSUME NEW S, NEW queues, queues \in [DOMAIN queues -> Seq(S)],
         NEW p \in DOMAIN queues, queues[p] # <<>>
  PROVE  /\ PopBack(queues, p) \in [DOMAIN PopBack(queues, p) -> Seq(S)]
         /\ DOMAIN PopBack(queues, p) \subseteq DOMAIN queues
         /\ DOMAIN queues \ {p} \subseteq DOMAIN PopBack(queues, p)
         /\ p \in DOMAIN PopBack(queues, p) <=> Len(queues[p]) # 1
         /\ \A q \in DOMAIN PopBack(queues, p) :
              PopBack(queues, p)[q] = IF q = p THEN Tail(queues[p]) ELSE queues[q]
         /\ Len(queues[p]) \in Nat \ {0}
         /\ Tail(queues[p]) \in Seq(S)
         /\ Len(Tail(queues[p])) = Len(queues[p]) - 1
         /\ \A i \in 1 .. Len(queues[p]) - 1 : Tail(queues[p])[i] = queues[p][i + 1]
         /\ Head(queues[p]) = queues[p][1]
<1>1. queues[p] \in Seq(S)
  OBVIOUS
<1>2. /\ Len(queues[p]) \in Nat \ {0}
      /\ Tail(queues[p]) \in Seq(S)
      /\ Len(Tail(queues[p])) = Len(queues[p]) - 1
      /\ \A i \in 1 .. Len(queues[p]) - 1 : Tail(queues[p])[i] = queues[p][i + 1]
      /\ Head(queues[p]) = queues[p][1]
  BY <1>1, HeadTailProperties, EmptySeq
<1>3. CASE Len(queues[p]) = 1
  BY <1>2, <1>3 DEF PopBack
<1>4. CASE Len(queues[p]) # 1
  BY <1>2, <1>4 DEF PopBack
<1> QED BY <1>3, <1>4

\* The queues once o was pushed to the queue of price p: the others as they
\* were, and the pointer behind all that were in its queue.
Pushed(queues, p, o, after) ==
  /\ DOMAIN after = DOMAIN queues \cup {p}
  /\ after \in [DOMAIN after -> Seq(Nat)]
  /\ \A q \in DOMAIN queues \ {p} : after[q] = queues[q]
  /\ p \in DOMAIN queues =>
       /\ Len(queues[p]) \in Nat
       /\ Len(after[p]) = Len(queues[p]) + 1
       /\ \A i \in 1 .. Len(queues[p]) : after[p][i] = queues[p][i]
       /\ after[p][Len(queues[p]) + 1] = o
  /\ p \notin DOMAIN queues => after[p] = <<o>>

\* What PushFront makes of the queues.
LEMMA PushFrontQueues ==
  ASSUME NEW queues, queues \in [DOMAIN queues -> Seq(Nat)],
         NEW p, NEW o \in Nat
  PROVE  Pushed(queues, p, o, PushFront(queues, p, o))
<1>1. CASE p \in DOMAIN queues
  BY <1>1, AppendProperties, LenProperties DEF PushFront, Pushed
<1>2. CASE p \notin DOMAIN queues
  BY <1>2 DEF PushFront, Pushed
<1> QED BY <1>1, <1>2

-----------------------------------------------------------------------------
(* The inductive invariant *)

\* What a user sees as active is his and still wants something.
ActiveSound ==
  \A u \in Users : \A o \in active[u] :
    offers[o].owner = u /\ offers[o].status = "ACTIVE" /\ offers[o].amount > 0

\* A queue points to offers of its own side and price, and never to the one
\* that ProcessOffer holds.
QueuesSound ==
  \A side \in Side : \A p \in DOMAIN book[side] :
    \A i \in 1 .. Len(book[side][p]) :
      LET o == book[side][p][i] IN
      /\ o \in 1 .. Len(offers)
      /\ o \notin InProcess
      /\ offers[o].side = side
      /\ offers[o].price = p

\* Every other active offer stands in its queue.
ActiveStand ==
  \A u \in Users : \A o \in active[u] :
    o \notin InProcess => Holds(book[offers[o].side], offers[o].price, o)

\* The offer that ProcessOffer holds is active until it is filled.
TakerActive ==
  phase = "matching" => /\ Incoming \in 1 .. Len(offers)
                        /\ Incoming \in active[offers[Incoming].owner]

\* The offers that rest do not accept each other.
NotCrossed ==
  \A u, v \in Users : \A b \in active[u], s \in active[v] :
    /\ b \notin InProcess /\ offers[b].side = "BUY"
    /\ s \notin InProcess /\ offers[s].side = "SELL"
    => offers[b].price < offers[s].price

MarketInv ==
  /\ TypeOK
  /\ ActiveSound
  /\ QueuesSound
  /\ QueuesInOrder
  /\ ActiveStand
  /\ TakerActive
  /\ NotCrossed

\* TypeOK and what it says of single offers.
LEMMA OfferTypes ==
  ASSUME TypeOK
  PROVE  /\ Len(offers) \in Nat
         /\ Len(deals) \in Nat
         /\ \A o \in 1 .. Len(offers) :
              /\ offers[o] \in Offer
              /\ offers[o].owner \in Users
              /\ offers[o].side \in Side
              /\ offers[o].price \in Prices /\ offers[o].price \in Int
              /\ offers[o].amount \in Nat
         /\ \A u \in Users : \A o \in active[u] : o \in 1 .. Len(offers)
<1>1. /\ Len(offers) \in Nat /\ Len(deals) \in Nat
      /\ \A o \in 1 .. Len(offers) : offers[o] \in Offer
  BY DEF TypeOK
<1> QED BY <1>1, MarketAssumption DEF TypeOK, Offer

\* The operations that change neither offers, queues, active sets nor phase
\* between "matching" and the rest change nothing the structure speaks of.
LEMMA Frame ==
  ASSUME MarketInv, UNCHANGED <<active, offers, book>>,
         phase # "matching", phase' # "matching"
  PROVE  /\ ActiveSound' /\ QueuesSound' /\ QueuesInOrder' /\ ActiveStand'
         /\ TakerActive' /\ NotCrossed'
BY DEF MarketInv, ActiveSound, QueuesSound, QueuesInOrder, ActiveStand,
       TakerActive, NotCrossed, Holds, InProcess, Incoming

\* The exchange starts without users, offers and deals.
LEMMA InitInv == Init => MarketInv
<1> SUFFICES ASSUME Init PROVE MarketInv
  OBVIOUS
<1>1. Len(offers) = 0 /\ 0 \in IntValue
  BY MarketAssumption DEF Init, IntValue
<1>2. TypeOK
  BY <1>1 DEF Init, TypeOK, Balance, NoInfo, Phase, IsOfferQueues, Side
<1> QED BY <1>2 DEF Init, MarketInv, ActiveSound, QueuesSound, QueuesInOrder,
           ActiveStand, TakerActive, NotCrossed
-----------------------------------------------------------------------------
(* Every step preserves it *)

\* Requests that touch no offer, and the steps of GetAskBidQuotes that answer.
LEMMA AccountsInv ==
  ASSUME MarketInv,
         \/ \E u \in Users : RegisterUser(u)
         \/ \E u \in Users, sum \in Deposits : DepositUSD(u, sum) \/ DepositRUB(u, sum)
  PROVE  MarketInv'
<1>1. CASE \E u \in Users : RegisterUser(u)
  <2>1. TypeOK'
    BY <1>1 DEF MarketInv, TypeOK, RegisterUser, IsOfferQueues
  <2> QED BY <1>1, <2>1, Frame DEF MarketInv, RegisterUser
<1>2. CASE \E u \in Users, sum \in Deposits : DepositUSD(u, sum) \/ DepositRUB(u, sum)
  <2> PICK u \in Users, sum \in Deposits : DepositUSD(u, sum) \/ DepositRUB(u, sum)
    BY <1>2
  <2>1. /\ sum \in Nat
        /\ balance[u] \in Balance
        /\ deposited[u].usd \in Nat /\ deposited[u].rub \in Nat
        /\ balance[u].usd \in Int /\ balance[u].rub \in Int
    BY MarketAssumption, SMTT(30) DEF MarketInv, TypeOK, Balance, IntValue
  <2>2. Wrap(balance[u].usd + sum) \in IntValue /\ Wrap(balance[u].rub + sum) \in IntValue
    BY <2>1, WrapType
  <2>3. balance' \in [Users -> Balance] /\ deposited' \in [Users -> [usd : Nat, rub : Nat]]
    <3>1. CASE DepositUSD(u, sum)
      BY <3>1, <2>1, <2>2, SMTT(30) DEF DepositUSD, MarketInv, TypeOK, Balance
    <3>2. CASE DepositRUB(u, sum)
      BY <3>2, <2>1, <2>2, SMTT(30) DEF DepositRUB, MarketInv, TypeOK, Balance
    <3> QED BY <3>1, <3>2
  <2>4. TypeOK'
    BY <2>3 DEF DepositUSD, DepositRUB, MarketInv, TypeOK, IsOfferQueues
  <2> QED BY <2>4, Frame DEF MarketInv, DepositUSD, DepositRUB
<1> QED BY <1>1, <1>2

LEMMA AnswerInv ==
  ASSUME MarketInv,
         \/ GetAskBidQuotes \/ NoQuote \/ ReturnQuotes
         \/ \E p \in Prices : FindQuote(p)
  PROVE  MarketInv'
<1>1. CASE GetAskBidQuotes
  <2>1. TypeOK'
    BY <1>1 DEF GetAskBidQuotes, MarketInv, TypeOK, IsOfferQueues,
       Phase, NoInfo, NextPhase, userVars
  <2> QED BY <1>1, <2>1, Frame DEF GetAskBidQuotes, NextPhase, MarketInv
<1>2. CASE NoQuote
  <2>1. TypeOK'
    BY <1>2 DEF NoQuote, MarketInv, TypeOK, IsOfferQueues,
       Phase, NoInfo, NextPhase, userVars
  <2> QED BY <1>2, <2>1, Frame DEF NoQuote, NextPhase, MarketInv
<1>3. CASE ReturnQuotes
  <2>1. TypeOK'
    BY <1>3 DEF ReturnQuotes, MarketInv, TypeOK, IsOfferQueues,
       Phase, NoInfo, NextPhase, userVars
  <2> QED BY <1>3, <2>1, Frame DEF ReturnQuotes, NextPhase, MarketInv
<1>4. CASE \E p \in Prices : FindQuote(p)
  <2> PICK p \in Prices : FindQuote(p)
    BY <1>4
  <2>1. QuoteSide \in Side /\ p \in DOMAIN book[QuoteSide] /\ book[QuoteSide][p] # <<>>
    BY DEF FindQuote, Quoted, WorstPrice, QuoteSide, Side
  <2>2. 1 \in 1 .. Len(book[QuoteSide][p]) /\ Oldest(QuoteSide, p) = book[QuoteSide][p][1]
    BY <2>1, HeadTailProperties, EmptySeq DEF Oldest, MarketInv, TypeOK, IsOfferQueues
  <2>3. offers[Oldest(QuoteSide, p)].price \in Prices
    BY <2>1, <2>2, OfferTypes DEF QueuesSound, MarketInv
  <2>4. TypeOK'
    BY <2>3 DEF FindQuote, Quoted, MarketInv, TypeOK, IsOfferQueues,
       Phase, NoInfo, NextPhase, userVars
  <2> QED BY <2>4, Frame DEF FindQuote, Quoted, NextPhase, MarketInv
<1> QED BY <1>1, <1>2, <1>3, <1>4

\* Cancelling an offer leaves its pointer where it is.
LEMMA RemoveOfferInv ==
  ASSUME MarketInv, NEW u \in Users, NEW o, RemoveOffer(u, o)
  PROVE  MarketInv'
<1>1. TypeOK'
  BY DEF MarketInv, TypeOK, RemoveOffer, IsOfferQueues, userVars
<1>2. /\ active' \in [Users -> SUBSET (1 .. Len(offers))]
      /\ \A v \in Users : active'[v] \subseteq active[v]
      /\ UNCHANGED <<offers, book, phase>> /\ phase = "idle"
  BY <1>1 DEF MarketInv, TypeOK, RemoveOffer
<1> QED BY <1>1, <1>2 DEF MarketInv, ActiveSound, QueuesSound, QueuesInOrder,
           ActiveStand, TakerActive, NotCrossed, Holds, InProcess, Incoming

\* A new offer has an id of its own and stands in no queue yet.
LEMMA PostOfferInv ==
  ASSUME MarketInv, NEW u \in Users, NEW side \in Side, NEW price \in Prices,
         NEW amount \in Amounts, PostOffer(u, side, price, amount)
  PROVE  MarketInv'
<1> DEFINE new == [owner |-> u, side |-> side, price |-> price,
                   amount |-> amount, status |-> "ACTIVE"]
           n == Len(offers) + 1
<1>1. new \in Offer /\ amount > 0
  BY MarketAssumption DEF Offer, Status
<1>2. /\ Len(offers) \in Nat
      /\ offers' \in Seq(Offer)
      /\ Len(offers') = n
      /\ offers'[n] = new
      /\ \A o \in 1 .. Len(offers) : offers'[o] = offers[o]
  BY <1>1, AppendProperties DEF PostOffer, MarketInv, TypeOK
<1>3. /\ phase = "idle" /\ phase' = "matching"
      /\ InProcess = {} /\ InProcess' = {n} /\ Incoming' = n
      /\ UNCHANGED book
      /\ active' = [active EXCEPT ![u] = @ \cup {n}]
  BY <1>2 DEF PostOffer, InProcess, Incoming
<1> HIDE DEF new
<1>4. active' \in [Users -> SUBSET (1 .. Len(offers'))]
  BY <1>2, <1>3 DEF MarketInv, TypeOK
<1>5. TypeOK'
  BY <1>2, <1>3, <1>4 DEF MarketInv, TypeOK, PostOffer, IsOfferQueues, userVars, Phase
<1>6. /\ \A v \in Users : \A o \in active[v] : o \in 1 .. Len(offers)
      /\ \A v \in Users : \A o \in active'[v] : o # n => o \in active[v]
      /\ n \in active'[u]
      /\ \A v \in Users : n \in active'[v] => v = u
  BY <1>2, <1>3 DEF MarketInv, TypeOK
<1>7. ActiveSound'
  BY <1>1, <1>2, <1>6 DEF MarketInv, ActiveSound, new
<1>8. QueuesSound'
  BY <1>2, <1>3 DEF MarketInv, QueuesSound
<1>9. QueuesInOrder'
  BY <1>3 DEF MarketInv, QueuesInOrder
<1>10. ActiveStand'
  BY <1>2, <1>3, <1>6 DEF MarketInv, ActiveStand, Holds
<1>11. TakerActive'
  BY <1>2, <1>3, <1>6 DEF TakerActive, new
<1>12. NotCrossed'
  BY <1>2, <1>3, <1>6 DEF MarketInv, NotCrossed
<1> QED BY <1>5, <1>7, <1>8, <1>9, <1>10, <1>11, <1>12 DEF MarketInv

\* A step that adds no pointer, keeps the queues in order, and takes away the
\* pointer of offer oldest and no other.
Popped(oldest) ==
  /\ DOMAIN book' = Side
  /\ \A s \in Side : IsOfferQueues(book'[s])
  /\ \A s \in Side : \A q \in DOMAIN book'[s] :
       /\ q \in DOMAIN book[s]
       /\ \A i \in 1 .. Len(book'[s][q]) :
            \E j \in 1 .. Len(book[s][q]) : book'[s][q][i] = book[s][q][j]
  /\ QueuesInOrder'
  /\ \A s \in Side : \A o, q :
       Holds(book[s], q, o) /\ o # oldest => Holds(book'[s], q, o)
  /\ \A s \in Side : \A q : ~Holds(book'[s], q, oldest)

\* Popping the oldest pointer of a queue.
LEMMA Pop ==
  ASSUME MarketInv, NEW side \in Side, NEW p \in DOMAIN book[side],
         book' = [book EXCEPT ![side] = PopBack(@, p)]
  PROVE  Popped(Oldest(side, p))
<1> DEFINE queues == book[side]
           after == PopBack(queues, p)
<1>1. /\ DOMAIN queues \subseteq Prices /\ queues \in [DOMAIN queues -> Seq(Nat)]
      /\ p \in DOMAIN queues /\ queues[p] # <<>>
      /\ DOMAIN book = Side
      /\ \A s \in Side : \A q \in DOMAIN book[s] : Len(book[s][q]) \in Nat
  BY DEF MarketInv, TypeOK, IsOfferQueues, QueuesInOrder
<1>2. /\ after \in [DOMAIN after -> Seq(Nat)]
      /\ DOMAIN after \subseteq DOMAIN queues
      /\ DOMAIN queues \ {p} \subseteq DOMAIN after
      /\ p \in DOMAIN after <=> Len(queues[p]) # 1
      /\ \A q \in DOMAIN after :
           after[q] = IF q = p THEN Tail(queues[p]) ELSE queues[q]
      /\ Len(queues[p]) \in Nat \ {0}
      /\ Tail(queues[p]) \in Seq(Nat)
      /\ Len(Tail(queues[p])) = Len(queues[p]) - 1
      /\ \A i \in 1 .. Len(queues[p]) - 1 : Tail(queues[p])[i] = queues[p][i + 1]
      /\ Oldest(side, p) = queues[p][1]
  <2> HIDE DEF queues
  <2>1. Oldest(side, p) = Head(queues[p])
    BY DEF Oldest, queues
  <2> QED BY <1>1, <2>1, PopBackQueues
<1>3. /\ DOMAIN book' = Side
      /\ \A s \in Side : book'[s] = IF s = side THEN after ELSE book[s]
  BY <1>1 DEF MarketInv, TypeOK
<1> HIDE DEF after
<1>4. \A s \in Side : IsOfferQueues(book'[s])
  BY <1>1, <1>2, <1>3 DEF MarketInv, TypeOK, IsOfferQueues
<1>5. \A s \in Side : \A q \in DOMAIN book'[s] :
         /\ q \in DOMAIN book[s]
         /\ IF s = side /\ q = p
            THEN /\ Len(book'[s][q]) = Len(book[s][q]) - 1
                 /\ Len(book'[s][q]) > 0
                 /\ \A i \in 1 .. Len(book'[s][q]) : book'[s][q][i] = book[s][q][i + 1]
            ELSE book'[s][q] = book[s][q]
  BY <1>1, <1>2, <1>3, SMTT(30)
<1>6. \A s \in Side : \A q \in DOMAIN book'[s] :
        \A i \in 1 .. Len(book'[s][q]) :
           \E j \in 1 .. Len(book[s][q]) : book'[s][q][i] = book[s][q][j]
  <2> TAKE s \in Side
  <2> TAKE q \in DOMAIN book'[s]
  <2> TAKE i \in 1 .. Len(book'[s][q])
  <2>1. CASE s = side /\ q = p
    <3>1. /\ i + 1 \in 1 .. Len(book[s][q])
          /\ book'[s][q][i] = book[s][q][i + 1]
      BY <1>1, <1>5, <2>1
    <3> QED BY <3>1
  <2>2. CASE ~(s = side /\ q = p)
    BY <1>5, <2>2
  <2> QED BY <2>1, <2>2
<1>7. QueuesInOrder'
  <2> SUFFICES ASSUME NEW s \in Side, NEW q \in DOMAIN book'[s]
               PROVE  /\ book'[s][q] # <<>>
                      /\ \A i, j \in 1 .. Len(book'[s][q]) :
                           i < j => book'[s][q][i] < book'[s][q][j]
    BY DEF QueuesInOrder
  <2>1. CASE s = side /\ q = p
    <3>1. /\ q \in DOMAIN book[s] /\ Len(book[s][q]) \in Nat
          /\ Len(book'[s][q]) = Len(book[s][q]) - 1
          /\ Len(book'[s][q]) > 0
          /\ \A i \in 1 .. Len(book'[s][q]) : book'[s][q][i] = book[s][q][i + 1]
      BY <1>1, <1>5, <2>1
    <3>2. \A i, j \in 1 .. Len(book[s][q]) : i < j => book[s][q][i] < book[s][q][j]
      BY <3>1 DEF MarketInv, QueuesInOrder
    <3>3. \A i, j \in 1 .. Len(book'[s][q]) : i < j => book'[s][q][i] < book'[s][q][j]
      BY <3>1, <3>2, SMTT(30)
    <3> QED BY <3>1, <3>3
  <2>2. CASE ~(s = side /\ q = p)
    BY <1>5, <2>2 DEF MarketInv, QueuesInOrder
  <2> QED BY <2>1, <2>2
<1>8. \A s \in Side : \A o, q :
        Holds(book[s], q, o) /\ o # Oldest(side, p) => Holds(book'[s], q, o)
  <2> SUFFICES ASSUME NEW s \in Side, NEW o, NEW q, Holds(book[s], q, o),
                      o # Oldest(side, p)
               PROVE  Holds(book'[s], q, o)
    OBVIOUS
  <2>1. PICK i \in 1 .. Len(book[s][q]) : q \in DOMAIN book[s] /\ book[s][q][i] = o
    BY DEF Holds
  <2>2. CASE s = side /\ q = p
    <3>1. i # 1 /\ i - 1 \in 1 .. Len(book[s][q]) - 1
      BY <1>2, <2>1, <2>2
    <3>2. p \in DOMAIN after /\ book'[s][q] = Tail(queues[p])
      BY <1>2, <1>3, <2>1, <2>2, <3>1, SMTT(30)
    <3>3. /\ i - 1 \in 1 .. Len(book'[s][q])
          /\ book'[s][q][i - 1] = o
      <4>1. Tail(queues[p])[i - 1] = queues[p][(i - 1) + 1] /\ (i - 1) + 1 = i
        BY <1>2, <2>1, <2>2, <3>1
      <4> QED BY <1>2, <2>1, <2>2, <3>1, <3>2, <4>1
    <3> QED BY <1>3, <2>2, <3>2, <3>3 DEF Holds
  <2>3. CASE ~(s = side /\ q = p)
    BY <1>2, <1>3, <2>1, <2>3 DEF Holds
  <2> QED BY <2>2, <2>3
<1>9. \A s \in Side : \A q : ~Holds(book'[s], q, Oldest(side, p))
  <2> SUFFICES ASSUME NEW s \in Side, NEW q \in DOMAIN book'[s],
                      NEW i \in 1 .. Len(book'[s][q])
               PROVE  book'[s][q][i] # Oldest(side, p)
    BY DEF Holds
  <2>1. 1 \in 1 .. Len(book[side][p]) /\ Oldest(side, p) = book[side][p][1]
    BY <1>2
  <2>2. CASE s = side /\ q = p
    <3>1. /\ i + 1 \in 1 .. Len(book[s][q]) /\ 1 < i + 1
          /\ book'[s][q][i] = book[s][q][i + 1]
      BY <1>1, <1>5, <2>2
    <3>2. book[s][q][1] < book[s][q][i + 1]
      BY <2>1, <2>2, <3>1 DEF MarketInv, QueuesInOrder
    <3>3. book[s][q][1] \in Nat
      BY <1>1, <2>1, <2>2
    <3> QED BY <2>1, <2>2, <3>1, <3>2, <3>3
  <2>3. CASE ~(s = side /\ q = p)
    <3>1. q \in DOMAIN book[s] /\ book'[s][q] = book[s][q]
      BY <1>5, <2>3
    <3>2. /\ offers[book'[s][q][i]].side = s /\ offers[book'[s][q][i]].price = q
          /\ offers[book[side][p][1]].side = side /\ offers[book[side][p][1]].price = p
      BY <2>1, <3>1 DEF MarketInv, QueuesSound
    <3> QED BY <2>1, <2>3, <3>2
  <2> QED BY <2>2, <2>3
<1> QED BY <1>3, <1>4, <1>5, <1>6, <1>7, <1>8, <1>9 DEF Popped

\* Popping a pointer whose offer no one owns, in either loop.
LEMMA PopExpiredInv ==
  ASSUME MarketInv, NEW side \in Side, NEW p \in DOMAIN book[side],
         Expired(Oldest(side, p)),
         book' = [book EXCEPT ![side] = PopBack(@, p)],
         UNCHANGED <<userVars, active, offers, deals, quote, phase, info>>
  PROVE  MarketInv'
<1>1. /\ DOMAIN book' = Side
      /\ \A s \in Side : IsOfferQueues(book'[s])
      /\ \A s \in Side : \A q \in DOMAIN book'[s] :
           /\ q \in DOMAIN book[s]
           /\ \A i \in 1 .. Len(book'[s][q]) :
                \E j \in 1 .. Len(book[s][q]) : book'[s][q][i] = book[s][q][j]
      /\ QueuesInOrder'
      /\ \A s \in Side : \A o, q :
           Holds(book[s], q, o) /\ o # Oldest(side, p) => Holds(book'[s], q, o)
  BY Pop DEF Popped
<1>2. TypeOK'
  BY <1>1 DEF MarketInv, TypeOK, IsOfferQueues, userVars
<1>3. InProcess' = InProcess /\ Incoming' = Incoming
  BY DEF InProcess, Incoming
<1>4. \A u \in Users : \A o \in active[u] : o # Oldest(side, p) /\ offers[o].side \in Side
  BY OfferTypes DEF Expired, MarketInv
<1>5. QueuesSound'
  <2> SUFFICES ASSUME NEW s \in Side, NEW q \in DOMAIN book'[s],
                      NEW i \in 1 .. Len(book'[s][q])
               PROVE  LET o == book'[s][q][i] IN
                      /\ o \in 1 .. Len(offers)
                      /\ o \notin InProcess
                      /\ offers[o].side = s
                      /\ offers[o].price = q
    BY <1>3 DEF QueuesSound
  <2>1. PICK j \in 1 .. Len(book[s][q]) :
           q \in DOMAIN book[s] /\ book'[s][q][i] = book[s][q][j]
    BY <1>1
  <2> QED BY <2>1 DEF MarketInv, QueuesSound
<1>6. ActiveStand'
  BY <1>1, <1>3, <1>4 DEF MarketInv, ActiveStand
<1>7. ActiveSound' /\ TakerActive' /\ NotCrossed'
  BY <1>3 DEF MarketInv, ActiveSound, TakerActive, NotCrossed
<1> QED BY <1>1, <1>2, <1>5, <1>6, <1>7 DEF MarketInv

LEMMA ExpiredInv ==
  ASSUME MarketInv,
         \E p \in Prices : SkipExpired(p) \/ PruneExpired(p)
  PROVE  MarketInv'
<1> PICK p \in Prices : SkipExpired(p) \/ PruneExpired(p)
  OBVIOUS
<1>1. CASE SkipExpired(p)
  <2>1. OtherSide \in Side
    BY DEF OtherSide, Opposite, Side
  <2>2. p \in DOMAIN book[OtherSide]
    BY <1>1 DEF SkipExpired, Matches, BestPrice
  <2> QED BY <1>1, <2>1, <2>2, PopExpiredInv DEF SkipExpired
<1>2. CASE PruneExpired(p)
  <2>1. QuoteSide \in Side
    BY DEF QuoteSide, Side
  <2>2. p \in DOMAIN book[QuoteSide]
    BY <1>2 DEF PruneExpired, Quoted, WorstPrice
  <2> QED BY <1>2, <2>1, <2>2, PopExpiredInv DEF PruneExpired
<1> QED BY <1>1, <1>2

\* Where ProcessOffer stops, the offer accepts no active one of the other side:
\* not the best queue's price, and so not the price of any other.
LEMMA RestUncrossed ==
  ASSUME MarketInv, Rest, NEW u \in Users, NEW o \in active[u],
         offers[o].side = OtherSide
  PROVE  ~Crosses(offers[Incoming].side, offers[Incoming].price, offers[o].price)
<1> DEFINE mine == offers[Incoming].side
           price == offers[Incoming].price
<1>1. /\ mine \in Side /\ price \in Int
      /\ OtherSide \in Side /\ OtherSide # mine
      /\ o \notin InProcess
      /\ DOMAIN book[OtherSide] \subseteq Prices
  BY OfferTypes DEF MarketInv, Rest, TakerActive, InProcess, OtherSide,
     Opposite, Side, TypeOK, IsOfferQueues
<1>2. offers[o].price \in DOMAIN book[OtherSide] /\ offers[o].price \in Int
  BY <1>1, OfferTypes DEF MarketInv, ActiveStand, Holds
<1>3. PICK p \in DOMAIN book[OtherSide] :
        BestPrice(OtherSide, p) /\ ~Crosses(mine, price, p)
  BY <1>2 DEF Rest
<1>4. p \in Int /\ AtLeastAsGood(OtherSide, p, offers[o].price)
  BY <1>1, <1>2, <1>3, MarketAssumption DEF BestPrice
<1> QED BY <1>1, <1>2, <1>3, <1>4 DEF AtLeastAsGood, Crosses, Side

\* Letting an offer rest appends the newest id to its queue, and the best
\* offer of the other side bounds all others: nothing crosses.
LEMMA RestInv ==
  ASSUME MarketInv, Rest
  PROVE  MarketInv'
<1> DEFINE n == Incoming
           mine == offers[n].side
           price == offers[n].price
           before == IF price \in DOMAIN book[mine] THEN book[mine][price] ELSE <<>>
<1>1. /\ n \in 1 .. Len(offers) /\ n \in Nat
      /\ n \in active[offers[n].owner]
      /\ offers[n].owner \in Users
      /\ mine \in Side /\ price \in Prices /\ price \in Int
      /\ phase = "matching" /\ phase' = "idle"
      /\ InProcess = {n} /\ InProcess' = {} /\ Incoming' = n
      /\ OtherSide \in Side /\ OtherSide # mine
      /\ OtherSide = "BUY" <=> mine = "SELL"
  BY OfferTypes DEF MarketInv, Rest, TakerActive, InProcess, Incoming, OtherSide,
     Opposite, Side
<1>2. /\ UNCHANGED <<users, balance, closed, deposited, active, offers, deals,
                     quote, info>>
      /\ book' = [book EXCEPT ![mine] = PushFront(@, price, n)]
  BY DEF Rest, userVars
<1> HIDE DEF n
<1>3. /\ DOMAIN book = Side
      /\ \A s \in Side : /\ DOMAIN book[s] \subseteq Prices
                         /\ book[s] \in [DOMAIN book[s] -> Seq(Nat)]
  BY DEF MarketInv, TypeOK, IsOfferQueues
<1>4. /\ DOMAIN book' = Side
      /\ \A s \in Side : book'[s] = IF s = mine THEN PushFront(book[mine], price, n)
                                    ELSE book[s]
  BY <1>1, <1>2, <1>3
<1>5. /\ DOMAIN book'[mine] = DOMAIN book[mine] \cup {price}
      /\ book'[mine] \in [DOMAIN book'[mine] -> Seq(Nat)]
      /\ \A q \in DOMAIN book[mine] : q # price => book'[mine][q] = book[mine][q]
      /\ Len(before) \in Nat
      /\ Len(book'[mine][price]) = Len(before) + 1
      /\ book'[mine][price] # <<>>
      /\ \A i \in 1 .. Len(before) : book'[mine][price][i] = before[i]
      /\ book'[mine][price][Len(before) + 1] = n
  <2>1. book[mine] \in [DOMAIN book[mine] -> Seq(Nat)] /\ n \in Nat
    BY <1>1, <1>3
  <2>2. Pushed(book[mine], price, n, book'[mine])
    BY <1>1, <1>4, <2>1, PushFrontQueues
  <2> HIDE DEF mine, price
  <2>3. CASE price \in DOMAIN book[mine]
    <3>1. before = book[mine][price]
      BY <2>3
    <3> HIDE DEF before
    <3>2. book'[mine] \in [DOMAIN book'[mine] -> Seq(Nat)] /\ price \in DOMAIN book'[mine]
      BY <2>2 DEF Pushed
    <3>3. Len(book'[mine][price]) # 0
      BY <2>2, <2>3 DEF Pushed
    <3>4. book'[mine][price] # <<>>
      BY <3>3, EmptySeq
    <3>5. \A q \in DOMAIN book[mine] : q # price => book'[mine][q] = book[mine][q]
      BY <2>2 DEF Pushed
    <3>6. /\ DOMAIN book'[mine] = DOMAIN book[mine] \cup {price}
          /\ Len(book[mine][price]) \in Nat
          /\ Len(book'[mine][price]) = Len(book[mine][price]) + 1
          /\ \A i \in 1 .. Len(book[mine][price]) :
               book'[mine][price][i] = book[mine][price][i]
          /\ book'[mine][price][Len(book[mine][price]) + 1] = n
      BY <2>2, <2>3 DEF Pushed
    <3> QED BY <3>1, <3>2, <3>4, <3>5, <3>6
  <2>4. CASE price \notin DOMAIN book[mine]
    <3>1. before = <<>> /\ book'[mine][price] = <<n>>
      BY <2>2, <2>4 DEF Pushed
    <3>2. /\ DOMAIN book'[mine] = DOMAIN book[mine] \cup {price}
          /\ book'[mine] \in [DOMAIN book'[mine] -> Seq(Nat)]
      BY <2>2 DEF Pushed
    <3>3. \A q \in DOMAIN book[mine] : q # price => book'[mine][q] = book[mine][q]
      BY <2>2 DEF Pushed
    <3> HIDE DEF before
    <3>4. Len(before) = 0 /\ Len(book'[mine][price]) = 1 /\ book'[mine][price][1] = n
      BY <3>1, SMTT(30)
    <3> QED BY <3>1, <3>2, <3>3, <3>4
  <2> QED BY <2>3, <2>4
<1>6. \A i \in 1 .. Len(before) :
        /\ before[i] \in 1 .. Len(offers) /\ before[i] < n
        /\ offers[before[i]].side = mine /\ offers[before[i]].price = price
        /\ \A j \in 1 .. Len(before) : i < j => before[i] < before[j]
  <2>1. CASE price \in DOMAIN book[mine]
    <3>1. \A i \in 1 .. Len(before) :
            before[i] \in 1 .. Len(offers) /\ before[i] # n
      BY <1>1, <2>1 DEF MarketInv, QueuesSound
    <3>2. \A i \in 1 .. Len(before) : before[i] < n
      BY <1>1, <3>1, OfferTypes DEF n, Incoming, MarketInv
    <3> QED BY <1>1, <2>1, <3>1, <3>2 DEF MarketInv, QueuesSound, QueuesInOrder
  <2>2. CASE price \notin DOMAIN book[mine]
    BY <2>2
  <2> QED BY <2>1, <2>2
<1> HIDE DEF before
<1>7. TypeOK'
  BY <1>1, <1>2, <1>3, <1>4, <1>5, SMTT(30) DEF MarketInv, TypeOK, IsOfferQueues, Phase
<1>8. QueuesSound'
  <2> SUFFICES ASSUME NEW s \in Side, NEW q \in DOMAIN book'[s],
                      NEW i \in 1 .. Len(book'[s][q])
               PROVE  LET o == book'[s][q][i] IN
                      /\ o \in 1 .. Len(offers)
                      /\ offers[o].side = s
                      /\ offers[o].price = q
    BY <1>1, <1>2 DEF QueuesSound
  <2>1. CASE s = mine /\ q = price
    <3>1. i \in 1 .. Len(before) \/ i = Len(before) + 1
      BY <1>5, <2>1
    <3>2. CASE i \in 1 .. Len(before)
      <4>1. book'[s][q][i] = before[i]
        BY <1>5, <2>1, <3>2
      <4> QED BY <1>6, <2>1, <3>2, <4>1
    <3>3. CASE i = Len(before) + 1
      <4>1. book'[s][q][i] = n
        BY <1>5, <2>1, <3>3
      <4> QED BY <1>1, <2>1, <4>1
    <3> QED BY <3>1, <3>2, <3>3
  <2>2. CASE ~(s = mine /\ q = price)
    <3>1. q \in DOMAIN book[s] /\ book'[s][q] = book[s][q]
      BY <1>4, <1>5, <2>2
    <3> QED BY <3>1 DEF MarketInv, QueuesSound
  <2> QED BY <2>1, <2>2
<1>9. QueuesInOrder'
  <2> SUFFICES ASSUME NEW s \in Side, NEW q \in DOMAIN book'[s]
               PROVE  /\ book'[s][q] # <<>>
                      /\ \A i, j \in 1 .. Len(book'[s][q]) :
                           i < j => book'[s][q][i] < book'[s][q][j]
    BY DEF QueuesInOrder
  <2>1. CASE s = mine /\ q = price
    <3>1. \A i \in 1 .. Len(before) + 1 :
            book'[s][q][i] = IF i = Len(before) + 1 THEN n ELSE before[i]
      BY <1>5, <2>1
    <3>2. \A i, j \in 1 .. Len(before) + 1 : i < j => book'[s][q][i] < book'[s][q][j]
      <4> SUFFICES ASSUME NEW i \in 1 .. Len(before) + 1, NEW j \in 1 .. Len(before) + 1,
                          i < j
                   PROVE  book'[s][q][i] < book'[s][q][j]
        OBVIOUS
      <4>1. i \in 1 .. Len(before) /\ book'[s][q][i] = before[i]
        BY <1>5, <3>1
      <4>2. CASE j = Len(before) + 1
        BY <1>6, <3>1, <4>1, <4>2
      <4>3. CASE j # Len(before) + 1
        <5>1. j \in 1 .. Len(before) /\ book'[s][q][j] = before[j]
          BY <1>5, <3>1, <4>3
        <5> QED BY <1>6, <4>1, <5>1
      <4> QED BY <4>2, <4>3
    <3> QED BY <1>5, <2>1, <3>2
  <2>2. CASE ~(s = mine /\ q = price)
    <3>1. q \in DOMAIN book[s] /\ book'[s][q] = book[s][q]
      BY <1>4, <1>5, <2>2
    <3> QED BY <3>1 DEF MarketInv, QueuesInOrder
  <2> QED BY <2>1, <2>2
<1>10. \A s \in Side : \A o, q : Holds(book[s], q, o) => Holds(book'[s], q, o)
  <2> SUFFICES ASSUME NEW s \in Side, NEW o, NEW q, Holds(book[s], q, o)
               PROVE  Holds(book'[s], q, o)
    OBVIOUS
  <2>1. CASE s = mine /\ q = price
    <3>1. PICK i \in 1 .. Len(before) : before[i] = o
      BY <2>1 DEF Holds, before
    <3>2. /\ q \in DOMAIN book'[s] /\ i \in 1 .. Len(book'[s][q])
          /\ book'[s][q][i] = o
      BY <1>5, <2>1, <3>1, SMTT(30)
    <3> QED BY <3>2 DEF Holds
  <2>2. CASE ~(s = mine /\ q = price)
    BY <1>4, <1>5, <2>2 DEF Holds
  <2> QED BY <2>1, <2>2
<1>11. Holds(book'[mine], price, n)
  BY <1>5, SMTT(30) DEF Holds
<1>12. ActiveStand'
  BY <1>1, <1>2, <1>10, <1>11, OfferTypes DEF MarketInv, ActiveStand
<1>13. \A u \in Users : \A o \in active[u] :
         offers[o].side = OtherSide => ~Crosses(mine, price, offers[o].price)
  BY RestUncrossed DEF n
<1>14. NotCrossed'
  BY <1>1, <1>2, <1>13, OfferTypes, SMTT(30) DEF MarketInv, NotCrossed, Crosses, Side
<1>15. ActiveSound' /\ TakerActive'
  BY <1>1, <1>2 DEF MarketInv, ActiveSound, TakerActive
<1> QED BY <1>7, <1>8, <1>9, <1>12, <1>14, <1>15 DEF MarketInv

\* An offer of which some is traded.
LEMMA FillOffer ==
  ASSUME NEW offer \in Offer, NEW amount \in Nat, amount <= offer.amount
  PROVE  /\ Fill(offer, amount) \in Offer
         /\ Fill(offer, amount).owner = offer.owner
         /\ Fill(offer, amount).side = offer.side
         /\ Fill(offer, amount).price = offer.price
         /\ Fill(offer, amount).amount = offer.amount - amount
         /\ Fill(offer, amount).status =
              IF offer.amount = amount THEN "FULLFILLED" ELSE offer.status
<1> DEFINE status == IF offer.amount = amount THEN "FULLFILLED" ELSE offer.status
<1>1. /\ offer.owner \in Users /\ offer.side \in Side /\ offer.price \in Prices
      /\ offer.amount \in Nat /\ offer.amount - amount \in Nat
      /\ status \in Status
  BY DEF Offer, Status
<1>2. Fill(offer, amount) = [offer EXCEPT !.amount = offer.amount - amount, !.status = status]
  BY DEF Fill
<1> HIDE DEF status
<1>3. Fill(offer, amount) = [owner |-> offer.owner, side |-> offer.side,
                             price |-> offer.price, amount |-> offer.amount - amount,
                             status |-> status]
  BY <1>2 DEF Offer
<1>4. Fill(offer, amount) \in Offer
  BY <1>1, <1>3 DEF Offer
<1> QED BY <1>3, <1>4 DEF status

\* The two offers of a trade: both active, on different sides, and the deal is
\* for all that one of them wants.
LEMMA TradeParties ==
  ASSUME MarketInv, NEW p \in Prices, Matches(p),
         ~Expired(Oldest(OtherSide, p)),
         NEW maker, maker = Oldest(OtherSide, p),
         NEW deal, deal = MakeDeal(Incoming, maker)
  PROVE  /\ Incoming \in 1 .. Len(offers) /\ maker \in 1 .. Len(offers)
         /\ maker # Incoming
         /\ OtherSide \in Side /\ p \in DOMAIN book[OtherSide]
         /\ offers[maker].side = OtherSide /\ offers[maker].price = p
         /\ offers[Incoming].side # OtherSide
         /\ maker \in active[offers[maker].owner]
         /\ Incoming \in active[offers[Incoming].owner]
         /\ offers[maker].status = "ACTIVE" /\ offers[maker].amount > 0
         /\ offers[Incoming].status = "ACTIVE" /\ offers[Incoming].amount > 0
         /\ deal \in Deal /\ deal.price = p
         /\ deal.amount \in Nat \ {0}
         /\ deal.amount <= offers[maker].amount
         /\ deal.amount <= offers[Incoming].amount
<1> DEFINE n == Incoming
<1>1. /\ n \in 1 .. Len(offers) /\ n \in active[offers[n].owner]
      /\ InProcess = {n}
      /\ OtherSide \in Side /\ offers[n].side # OtherSide
      /\ p \in DOMAIN book[OtherSide]
  BY OfferTypes DEF MarketInv, TakerActive, Matches, BestPrice, InProcess,
     OtherSide, Opposite, Side
<1>2. 1 \in 1 .. Len(book[OtherSide][p]) /\ maker = book[OtherSide][p][1]
  <2>1. book[OtherSide][p] \in Seq(Nat) /\ book[OtherSide][p] # <<>>
    BY <1>1 DEF MarketInv, TypeOK, IsOfferQueues, QueuesInOrder
  <2> QED BY <2>1, HeadTailProperties, EmptySeq DEF Oldest
<1>3. /\ maker \in 1 .. Len(offers) /\ maker # n
      /\ offers[maker].side = OtherSide /\ offers[maker].price = p
  BY <1>1, <1>2 DEF MarketInv, QueuesSound
<1>4. PICK u \in Users : maker \in active[u]
  BY DEF Expired
<1>5. maker \in active[offers[maker].owner]
  BY <1>4 DEF MarketInv, ActiveSound
<1>6. /\ offers[n].owner \in Users /\ offers[maker].owner \in Users
      /\ offers[n].amount \in Nat /\ offers[maker].amount \in Nat
      /\ offers[n].side \in Side
  BY <1>1, <1>3, OfferTypes DEF MarketInv
<1>7. /\ offers[maker].status = "ACTIVE" /\ offers[maker].amount > 0
      /\ offers[n].status = "ACTIVE" /\ offers[n].amount > 0
  BY <1>1, <1>5, <1>6 DEF MarketInv, ActiveSound
<1>8. /\ deal.price = p
      /\ deal.amount \in {offers[n].amount, offers[maker].amount}
      /\ deal.amount <= offers[maker].amount /\ deal.amount <= offers[n].amount
      /\ deal \in Deal
  <2> HIDE DEF n
  <2>1. MakeDeal(n, maker) = deal
    BY DEF n
  <2>2. CASE offers[n].side = "BUY"
    BY <1>1, <1>3, <1>6, <2>1, <2>2, SMTT(30) DEF MakeDeal, Deal
  <2>3. CASE offers[n].side = "SELL"
    BY <1>1, <1>3, <1>6, <2>1, <2>3, SMTT(30) DEF MakeDeal, Deal
  <2> QED BY <1>6, <2>2, <2>3 DEF Side
<1>9. deal.amount \in Nat \ {0}
  BY <1>6, <1>7, <1>8
<1> QED BY <1>1, <1>3, <1>5, <1>7, <1>8, <1>9

\* The balances after a deal are values of an int.
LEMMA SettleType ==
  ASSUME TypeOK, NEW deal \in Deal
  PROVE  Settle(deal) \in [Users -> Balance]
<1> SUFFICES ASSUME NEW u \in Users
             PROVE  LET net == Bought(u, deal) - Sold(u, deal) IN
                    /\ Wrap(balance[u].usd + net) \in IntValue
                    /\ Wrap(balance[u].rub - net * deal.price) \in IntValue
  BY DEF Settle, Balance
<1> DEFINE net == Bought(u, deal) - Sold(u, deal)
           cost == net * deal.price
<1>1. /\ deal.amount \in Nat /\ deal.price \in Int
      /\ balance[u].usd \in Int /\ balance[u].rub \in Int
  <2>1. balance[u] \in Balance
    BY DEF TypeOK
  <2>2. deal.amount \in Nat /\ deal.price \in Prices
    BY DEF Deal
  <2>3. balance[u].usd \in IntValue /\ balance[u].rub \in IntValue
    BY <2>1 DEF Balance
  <2>4. IntValue \subseteq Int
    BY MarketAssumption DEF IntValue
  <2>5. deal.price \in Int
    BY <2>2, MarketAssumption
  <2> QED BY <2>2, <2>3, <2>4, <2>5
<1>2. net \in Int
  BY <1>1 DEF Bought, Sold
<1>3. cost \in Int
  <2> HIDE DEF net
  <2> QED BY <1>1, <1>2
<1>4. balance[u].usd + net \in Int /\ balance[u].rub - cost \in Int
  <2> HIDE DEF net, cost
  <2> QED BY <1>1, <1>2, <1>3
<1> QED BY <1>4, WrapType

\* A trade takes the amount of the deal from its two offers, and touches no
\* other.
LEMMA TradeOffers ==
  ASSUME MarketInv, NEW p \in Prices, Trade(p),
         NEW n, n = Incoming, NEW maker, maker = Oldest(OtherSide, p),
         NEW a, a = MakeDeal(n, maker).amount
  PROVE  /\ offers \in Seq(Offer) /\ Len(offers) \in Nat
         /\ \A o \in 1 .. Len(offers) : offers[o] \in Offer
         /\ \A o \in {n, maker} :
              /\ Fill(offers[o], a) \in Offer
              /\ Fill(offers[o], a).owner = offers[o].owner
              /\ Fill(offers[o], a).side = offers[o].side
              /\ Fill(offers[o], a).price = offers[o].price
              /\ Fill(offers[o], a).amount = offers[o].amount - a
              /\ Fill(offers[o], a).status =
                   IF offers[o].amount = a THEN "FULLFILLED" ELSE offers[o].status
         /\ offers' \in Seq(Offer) /\ Len(offers') = Len(offers)
         /\ \A o \in 1 .. Len(offers) :
              offers'[o] = IF o \in {n, maker} THEN Fill(offers[o], a) ELSE offers[o]
<1>1. /\ n \in 1 .. Len(offers) /\ maker \in 1 .. Len(offers) /\ maker # n
      /\ a \in Nat /\ a <= offers[maker].amount /\ a <= offers[n].amount
  BY TradeParties DEF Trade
<1>2. offers' = [offers EXCEPT ![n] = Fill(@, a), ![maker] = Fill(@, a)]
  BY DEF Trade
<1>3. /\ offers \in Seq(Offer) /\ Len(offers) \in Nat
      /\ \A o \in 1 .. Len(offers) : offers[o] \in Offer
  BY OfferTypes DEF MarketInv, TypeOK
<1>4. \A o \in {n, maker} :
         /\ Fill(offers[o], a) \in Offer
         /\ Fill(offers[o], a).owner = offers[o].owner
         /\ Fill(offers[o], a).side = offers[o].side
         /\ Fill(offers[o], a).price = offers[o].price
         /\ Fill(offers[o], a).amount = offers[o].amount - a
         /\ Fill(offers[o], a).status =
              IF offers[o].amount = a THEN "FULLFILLED" ELSE offers[o].status
  BY <1>1, <1>3, FillOffer
<1>5. /\ offers' \in Seq(Offer) /\ Len(offers') = Len(offers)
      /\ \A o \in 1 .. Len(offers) :
           offers'[o] = IF o \in {n, maker} THEN Fill(offers[o], a) ELSE offers[o]
  <2> DEFINE once == [offers EXCEPT ![n] = Fill(offers[n], a)]
  <2>1. /\ once \in Seq(Offer) /\ Len(once) = Len(offers)
        /\ \A o \in 1 .. Len(offers) :
             once[o] = IF o = n THEN Fill(offers[n], a) ELSE offers[o]
    BY <1>1, <1>3, <1>4, ExceptSeq
  <2>2. offers' = [once EXCEPT ![maker] = Fill(offers[maker], a)]
    BY <1>1, <1>2
  <2> HIDE DEF once
  <2>3. /\ offers' \in Seq(Offer) /\ Len(offers') = Len(once)
        /\ \A o \in 1 .. Len(once) :
             offers'[o] = IF o = maker THEN Fill(offers[maker], a) ELSE once[o]
    BY <1>1, <1>4, <2>1, <2>2, ExceptSeq
  <2> QED BY <1>1, <2>1, <2>3
<1> QED BY <1>3, <1>4, <1>5

\* A trade fills at least one of its offers; a filled offer leaves its owner's
\* set and, if it rested, its queue.
LEMMA TradeInv ==
  ASSUME MarketInv, NEW p \in Prices, Trade(p)
  PROVE  MarketInv'
<1> DEFINE n == Incoming
           maker == Oldest(OtherSide, p)
           deal == MakeDeal(n, maker)
           a == deal.amount
           filled == {o \in {n, maker} : Fill(offers[o], a).status = "FULLFILLED"}
<1>1. /\ n \in 1 .. Len(offers) /\ maker \in 1 .. Len(offers) /\ maker # n
      /\ OtherSide \in Side /\ p \in DOMAIN book[OtherSide]
      /\ offers[maker].side = OtherSide /\ offers[n].side # OtherSide
      /\ maker \in active[offers[maker].owner]
      /\ n \in active[offers[n].owner]
      /\ offers[maker].status = "ACTIVE" /\ offers[n].status = "ACTIVE"
      /\ deal \in Deal /\ deal.price = p
      /\ a \in Nat \ {0}
      /\ a <= offers[maker].amount /\ a <= offers[n].amount
  BY TradeParties DEF Trade
<1>2. /\ phase = "matching"
      /\ offers' = [offers EXCEPT ![n] = Fill(@, a), ![maker] = Fill(@, a)]
      /\ RegisterDeal(deal)
      /\ quote' = deal.price
      /\ book' = IF maker \in filled
                 THEN [book EXCEPT ![OtherSide] = PopBack(@, p)]
                 ELSE book
      /\ active' = [u \in Users |-> active[u] \ {o \in filled : offers[o].owner = u}]
      /\ phase' = IF n \in filled THEN "idle" ELSE "matching"
      /\ UNCHANGED <<users, deposited, info>>
  BY DEF Trade, Matches
<1> HIDE DEF n, maker, deal, a
<1>3. /\ offers \in Seq(Offer) /\ Len(offers) \in Nat
      /\ \A o \in 1 .. Len(offers) : offers[o] \in Offer
  BY TradeOffers DEF n, maker, a, deal
<1>4. \A o \in {n, maker} :
         /\ Fill(offers[o], a) \in Offer
         /\ Fill(offers[o], a).owner = offers[o].owner
         /\ Fill(offers[o], a).side = offers[o].side
         /\ Fill(offers[o], a).price = offers[o].price
         /\ Fill(offers[o], a).amount = offers[o].amount - a
         /\ Fill(offers[o], a).status =
              IF offers[o].amount = a THEN "FULLFILLED" ELSE offers[o].status
  BY TradeOffers DEF n, maker, a, deal
<1>5. /\ offers' \in Seq(Offer) /\ Len(offers') = Len(offers)
      /\ \A o \in 1 .. Len(offers) :
           offers'[o] = IF o \in {n, maker} THEN Fill(offers[o], a) ELSE offers[o]
  BY TradeOffers DEF n, maker, a, deal
<1>6. \A o \in 1 .. Len(offers) :
         /\ offers'[o].owner = offers[o].owner
         /\ offers'[o].side = offers[o].side
         /\ offers'[o].price = offers[o].price
         /\ o \notin {n, maker} => offers'[o] = offers[o]
         /\ o \in {n, maker} \ filled =>
              offers'[o].status = "ACTIVE" /\ offers'[o].amount > 0
  <2> SUFFICES ASSUME NEW o \in 1 .. Len(offers)
               PROVE  /\ offers'[o].owner = offers[o].owner
                      /\ offers'[o].side = offers[o].side
                      /\ offers'[o].price = offers[o].price
                      /\ o \notin {n, maker} => offers'[o] = offers[o]
                      /\ o \in {n, maker} \ filled =>
                           offers'[o].status = "ACTIVE" /\ offers'[o].amount > 0
    OBVIOUS
  <2>1. CASE o \in {n, maker}
    <3>1. offers[o].amount \in Nat /\ a <= offers[o].amount /\ offers[o].status = "ACTIVE"
      BY <1>1, <2>1, <1>3 DEF Offer
    <3>2. offers'[o] = Fill(offers[o], a)
      BY <1>5, <2>1
    <3>3. o \notin filled => offers[o].amount # a
      BY <1>4, <2>1
    <3> QED BY <1>1, <1>4, <2>1, <3>1, <3>2, <3>3
  <2>2. CASE o \notin {n, maker}
    BY <1>5, <2>2
  <2> QED BY <2>1, <2>2
<1> HIDE DEF filled
<1>7. \A u \in Users : /\ active'[u] \subseteq active[u]
                       /\ \A o \in active'[u] : o \notin filled
                       /\ \A o \in active[u] : o \notin filled => o \in active'[u]
  BY <1>2 DEF MarketInv, ActiveSound
<1>8. /\ InProcess = {n} /\ Incoming' = n
      /\ InProcess' = IF n \in filled THEN {} ELSE {n}
  BY <1>2, <1>5 DEF InProcess, Incoming, n
<1>9. /\ DOMAIN book' = Side
      /\ \A s \in Side : IsOfferQueues(book'[s])
      /\ \A s \in Side : \A q \in DOMAIN book'[s] :
           /\ q \in DOMAIN book[s]
           /\ \A i \in 1 .. Len(book'[s][q]) :
                \E j \in 1 .. Len(book[s][q]) : book'[s][q][i] = book[s][q][j]
      /\ QueuesInOrder'
      /\ \A s \in Side : \A o, q :
           Holds(book[s], q, o) /\ o \notin filled => Holds(book'[s], q, o)
  <2>1. CASE maker \in filled
    <3>1. book' = [book EXCEPT ![OtherSide] = PopBack(@, p)]
      BY <1>2, <2>1
    <3>2. Popped(maker)
      BY <1>1, <3>1, Pop DEF maker
    <3> QED BY <2>1, <3>2 DEF Popped
  <2>2. CASE maker \notin filled
    <3>1. book' = book
      BY <1>2, <2>2
    <3> QED BY <3>1 DEF MarketInv, TypeOK, IsOfferQueues, QueuesInOrder
  <2> QED BY <2>1, <2>2
<1>10. TypeOK'
  <2>1. balance' \in [Users -> Balance]
    BY <1>1, <1>2, SettleType DEF RegisterDeal, MarketInv
  <2>2. /\ deals' \in Seq(Deal) /\ Len(deals') = Len(deals) + 1
        /\ Len(deals) \in Nat
    BY <1>1, <1>2, AppendProperties, LenProperties DEF RegisterDeal, MarketInv, TypeOK
  <2>3. closed' \in [Users -> SUBSET (1 .. Len(deals'))]
    <3>1. \A u \in Users : closed[u] \in SUBSET (1 .. Len(deals))
      BY DEF MarketInv, TypeOK
    <3>2. \A u \in Users : /\ closed[u] \subseteq 1 .. Len(deals')
                           /\ closed[u] \cup {Len(deals) + 1} \subseteq 1 .. Len(deals')
      BY <2>2, <3>1
    <3> QED BY <1>2, <3>2 DEF RegisterDeal
  <2>4. active' \in [Users -> SUBSET (1 .. Len(offers'))]
    BY <1>2, <1>5, <1>7 DEF MarketInv, TypeOK
  <2>5. quote' \in Prices \cup {None} /\ phase' \in Phase
    BY <1>1, <1>2 DEF Phase
  <2> QED BY <1>2, <1>5, <1>9, <2>1, <2>2, <2>3, <2>4, <2>5 DEF MarketInv, TypeOK
<1>11. ActiveSound'
  <2> SUFFICES ASSUME NEW u \in Users, NEW o \in active'[u]
               PROVE  /\ offers'[o].owner = u
                      /\ offers'[o].status = "ACTIVE" /\ offers'[o].amount > 0
    BY DEF ActiveSound
  <2>1. o \in active[u] /\ o \in 1 .. Len(offers) /\ o \notin filled
    BY <1>7, OfferTypes DEF MarketInv
  <2> QED BY <1>6, <2>1 DEF MarketInv, ActiveSound
<1>12. QueuesSound'
  <2> SUFFICES ASSUME NEW s \in Side, NEW q \in DOMAIN book'[s],
                      NEW i \in 1 .. Len(book'[s][q])
               PROVE  LET o == book'[s][q][i] IN
                      /\ o \in 1 .. Len(offers)
                      /\ o # n
                      /\ offers'[o].side = s
                      /\ offers'[o].price = q
    BY <1>5, <1>8 DEF QueuesSound
  <2>1. PICK j \in 1 .. Len(book[s][q]) :
           q \in DOMAIN book[s] /\ book'[s][q][i] = book[s][q][j]
    BY <1>9
  <2>2. LET o == book'[s][q][i] IN
        o \in 1 .. Len(offers) /\ o # n /\ offers[o].side = s /\ offers[o].price = q
    BY <1>8, <2>1 DEF MarketInv, QueuesSound
  <2> QED BY <1>6, <2>2
<1>13. \A u \in Users : \A o \in active'[u] : o \notin InProcess' =>
          /\ o \in active[u] /\ o \in 1 .. Len(offers)
          /\ o \notin InProcess /\ o \notin filled
  BY <1>7, <1>8, OfferTypes DEF MarketInv
<1>14. ActiveStand'
  <2> SUFFICES ASSUME NEW u \in Users, NEW o \in active'[u], o \notin InProcess'
               PROVE  Holds(book'[offers'[o].side], offers'[o].price, o)
    BY DEF ActiveStand
  <2>1. /\ o \in 1 .. Len(offers) /\ o \notin filled
        /\ Holds(book[offers[o].side], offers[o].price, o)
    BY <1>13 DEF MarketInv, ActiveStand
  <2>2. offers[o].side \in Side
    BY <2>1, OfferTypes DEF MarketInv
  <2> QED BY <1>6, <1>9, <2>1, <2>2
<1>15. TakerActive'
  <2> SUFFICES ASSUME n \notin filled
               PROVE  n \in 1 .. Len(offers') /\ n \in active'[offers'[n].owner]
    BY <1>2, <1>8 DEF TakerActive
  <2>1. offers[n].owner \in Users
    BY <1>1, OfferTypes DEF MarketInv
  <2> QED BY <1>1, <1>5, <1>6, <1>7, <2>1
<1>16. NotCrossed'
  BY <1>6, <1>13 DEF MarketInv, NotCrossed
<1> QED BY <1>9, <1>10, <1>11, <1>12, <1>14, <1>15, <1>16 DEF MarketInv

LEMMA NextInv ==
  ASSUME MarketInv, [Next]_vars
  PROVE  MarketInv'
<1>1. CASE Handler
  BY <1>1, ExpiredInv, TradeInv, RestInv, AnswerInv DEF Handler
<1>2. CASE Request
  <2>1. CASE \E u \in Users : RegisterUser(u)
    BY <2>1, AccountsInv
  <2>2. CASE \E u \in Users, sum \in Deposits : DepositUSD(u, sum) \/ DepositRUB(u, sum)
    BY <2>2, AccountsInv
  <2>3. CASE \E u \in Users, o \in 1 .. Len(offers) : RemoveOffer(u, o)
    BY <2>3, RemoveOfferInv
  <2>4. CASE \E u \in Users, side \in Side, price \in Prices, amount \in Amounts :
               PostOffer(u, side, price, amount)
    BY <2>4, PostOfferInv
  <2>5. CASE GetAskBidQuotes
    BY <2>5, AnswerInv
  <2> QED BY <1>2, <2>1, <2>2, <2>3, <2>4, <2>5 DEF Request
<1>3. CASE UNCHANGED vars
  BY <1>3 DEF vars, MarketInv, TypeOK, IsOfferQueues, ActiveSound, QueuesSound,
     QueuesInOrder, ActiveStand, TakerActive, NotCrossed, Holds, InProcess, Incoming
<1> QED BY <1>1, <1>2, <1>3 DEF Next
-----------------------------------------------------------------------------
(* The theorems *)

\* The inductive invariant holds of every reachable state of the market.
THEOREM Invariance == Spec => []MarketInv
BY InitInv, NextInv, PTL DEF Spec

\* Every variable of the market keeps its type: balances stay values of an int
\* through any deposit and deal, and ids are ids of existing offers and deals.
THEOREM TypeCorrect == Spec => []TypeOK
<1>1. MarketInv => TypeOK
  BY DEF MarketInv
<1> QED BY <1>1, Invariance, PTL

\* No queue of ProcessOffer or DetermineQuote is ever left empty, and each is
\* in the order in which its offers were posted.
THEOREM TimeOrder == Spec => []QueuesInOrder
<1>1. MarketInv => QueuesInOrder
  BY DEF MarketInv
<1> QED BY <1>1, Invariance, PTL

\* What a user's active_offers_ says and what the queues hold always agree.
THEOREM ActiveOffersAgree == Spec => []ActiveOffersRest
<1>1. ASSUME MarketInv PROVE ActiveOffersRest
  <2> SUFFICES ASSUME NEW u \in Users, NEW o \in active[u],
                      NEW side \in Side, NEW p \in Prices
               PROVE  Holds(book[side], p, o) <=> /\ o \notin InProcess
                                                 /\ side = offers[o].side
                                                 /\ p = offers[o].price
    BY <1>1 DEF MarketInv, ActiveSound, ActiveOffersRest
  <2>1. ASSUME Holds(book[side], p, o)
        PROVE  /\ o \notin InProcess
               /\ side = offers[o].side
               /\ p = offers[o].price
    BY <1>1, <2>1 DEF MarketInv, QueuesSound, Holds
  <2>2. o \notin InProcess => Holds(book[offers[o].side], offers[o].price, o)
    BY <1>1 DEF MarketInv, ActiveStand
  <2> QED BY <2>1, <2>2
<1> QED BY <1>1, Invariance, PTL

\* No two resting offers accept each other: ProcessOffer leaves nothing to match.
THEOREM NeverCrossed == Spec => []BookNotCrossed
<1>1. ASSUME MarketInv PROVE BookNotCrossed
  <2>1. phase # "matching" => InProcess = {}
    BY DEF InProcess
  <2> QED BY <1>1, <2>1 DEF MarketInv, NotCrossed, BookNotCrossed, ActiveOn, Active
<1> QED BY <1>1, Invariance, PTL
-----------------------------------------------------------------------------
(* Properties of steps *)

\* Offers change only when they are posted and when they trade.
LEMMA OffersChange ==
  ASSUME Next, phase = "matching", offers' # offers
  PROVE  \E p \in Prices : Trade(p)
BY DEF Next, Handler, Request, RegisterUser, DepositUSD, DepositRUB, RemoveOffer,
       PostOffer, GetAskBidQuotes, SkipExpired, PruneExpired, FindQuote, Rest,
       NoQuote, ReturnQuotes

\* The offer a trade meets has priority among all active ones of its side.
LEMMA TradePriority ==
  ASSUME MarketInv, NEW p \in Prices, Trade(p), NEW o \in ActiveOn(OtherSide)
  PROVE  /\ AtLeastAsGood(OtherSide, p, offers[o].price)
         /\ offers[o].price = p => Oldest(OtherSide, p) <= o
<1>1. PICK u \in Users : o \in active[u] /\ offers[o].side = OtherSide
  BY DEF ActiveOn, Active
<1>2. /\ Incoming \in 1 .. Len(offers) /\ offers[Incoming].side # OtherSide
      /\ OtherSide \in Side /\ p \in DOMAIN book[OtherSide]
      /\ BestPrice(OtherSide, p)
  BY TradeParties DEF Trade, Matches
<1>3. o \notin InProcess /\ Holds(book[OtherSide], offers[o].price, o)
  BY <1>1, <1>2 DEF MarketInv, ActiveStand, InProcess
<1>4. AtLeastAsGood(OtherSide, p, offers[o].price)
  BY <1>2, <1>3 DEF BestPrice, Holds
<1>5. ASSUME offers[o].price = p PROVE Oldest(OtherSide, p) <= o
  <2>1. /\ book[OtherSide][p] \in Seq(Nat) /\ book[OtherSide][p] # <<>>
        /\ \A i, j \in 1 .. Len(book[OtherSide][p]) :
             i < j => book[OtherSide][p][i] < book[OtherSide][p][j]
    BY <1>2 DEF MarketInv, TypeOK, IsOfferQueues, QueuesInOrder
  <2>2. PICK i \in 1 .. Len(book[OtherSide][p]) : book[OtherSide][p][i] = o
    BY <1>3, <1>5 DEF Holds
  <2>3. /\ 1 \in 1 .. Len(book[OtherSide][p])
        /\ Oldest(OtherSide, p) = book[OtherSide][p][1]
        /\ Oldest(OtherSide, p) \in Nat /\ o \in Nat
    BY <2>1, <2>2, HeadTailProperties, EmptySeq, ElementOfSeq DEF Oldest
  <2>4. i = 1 \/ 1 < i
    BY <2>2
  <2> QED BY <2>1, <2>2, <2>3, <2>4
<1> QED BY <1>4, <1>5

\* Every deal is made with the offer that has price and time priority.
THEOREM PriceTime == Spec => PriceTimePriority
<1>1. ASSUME MarketInv, Next, NEW maker \in 1 .. Len(offers),
             phase = "matching", maker # Incoming, offers'[maker] # offers[maker]
      PROVE  /\ maker \in ActiveOn(OtherSide)
             /\ \A o \in ActiveOn(OtherSide) :
                  /\ AtLeastAsGood(OtherSide, offers[maker].price, offers[o].price)
                  /\ offers[o].price = offers[maker].price => maker <= o
             /\ deals'[Len(deals')].price = offers[maker].price
             /\ Crosses(offers[Incoming].side, offers[Incoming].price,
                        offers[maker].price)
  <2>1. PICK p \in Prices : Trade(p)
    BY <1>1, OffersChange
  <2> DEFINE deal == MakeDeal(Incoming, Oldest(OtherSide, p))
  <2>2. /\ offers' = [offers EXCEPT ![Incoming] = Fill(@, deal.amount),
                                    ![Oldest(OtherSide, p)] = Fill(@, deal.amount)]
        /\ deals' = Append(deals, deal)
        /\ Matches(p)
    BY <2>1 DEF Trade, RegisterDeal
  <2> HIDE DEF deal
  <2>3. maker = Oldest(OtherSide, p)
    BY <1>1, <2>2 DEF MarketInv, TypeOK
  <2>4. /\ maker \in active[offers[maker].owner]
        /\ offers[maker].owner \in Users
        /\ offers[maker].side = OtherSide /\ offers[maker].price = p
        /\ deal \in Deal /\ deal.price = p
    BY <1>1, <2>1, <2>3, TradeParties, OfferTypes DEF Trade, deal, MarketInv
  <2>5. maker \in ActiveOn(OtherSide)
    BY <2>4 DEF ActiveOn, Active
  <2>6. deals'[Len(deals')] = deal
    BY <1>1, <2>2, <2>4, AppendProperties DEF MarketInv, TypeOK
  <2>7. Crosses(offers[Incoming].side, offers[Incoming].price, p)
    BY <2>2 DEF Matches
  <2> QED BY <1>1, <2>1, <2>3, <2>4, <2>5, <2>6, <2>7, TradePriority
<1>2. ASSUME MarketInv, [Next]_vars
      PROVE  [\A maker \in 1 .. Len(offers) :
                (phase = "matching" /\ maker # Incoming
                 /\ offers'[maker] # offers[maker])
                => /\ maker \in ActiveOn(OtherSide)
                   /\ \A o \in ActiveOn(OtherSide) :
                        /\ AtLeastAsGood(OtherSide, offers[maker].price,
                                         offers[o].price)
                        /\ offers[o].price = offers[maker].price => maker <= o
                   /\ deals'[Len(deals')].price = offers[maker].price
                   /\ Crosses(offers[Incoming].side, offers[Incoming].price,
                              offers[maker].price)]_vars
  BY <1>1, <1>2
<1> QED BY <1>2, Invariance, PTL DEF Spec, PriceTimePriority

\* An offer that was cancelled or filled never trades and is never active again.
THEOREM DeadStaysDead == Spec => DeadOffersStayDead
<1>1. ASSUME MarketInv, Next, NEW o \in (1 .. Len(offers)) \ Active
      PROVE  offers'[o] = offers[o] /\ \A u \in Users : o \notin active'[u]
  <2>1. \A u \in Users : o \notin active[u]
    BY <1>1 DEF Active
  <2>2. CASE \E p \in Prices : Trade(p)
    <3> PICK p \in Prices : Trade(p)
      BY <2>2
    <3> DEFINE maker == Oldest(OtherSide, p)
               a == MakeDeal(Incoming, maker).amount
    <3>1. /\ offers' = [offers EXCEPT ![Incoming] = Fill(@, a), ![maker] = Fill(@, a)]
          /\ \A u \in Users : active'[u] \subseteq active[u]
      BY DEF Trade
    <3>2. o # Incoming /\ o # maker
      BY <1>1, <2>1, TradeParties, OfferTypes DEF Trade, MarketInv
    <3> HIDE DEF maker, a
    <3> QED BY <1>1, <2>1, <3>1, <3>2 DEF MarketInv, TypeOK
  <2>3. CASE \E u \in Users, side \in Side, price \in Prices, amount \in Amounts :
               PostOffer(u, side, price, amount)
    <3> PICK u \in Users, side \in Side, price \in Prices, amount \in Amounts :
               PostOffer(u, side, price, amount)
      BY <2>3
    <3> DEFINE new == [owner |-> u, side |-> side, price |-> price,
                       amount |-> amount, status |-> "ACTIVE"]
    <3>1. new \in Offer
      BY MarketAssumption DEF Offer, Status
    <3>2. /\ offers' = Append(offers, new)
          /\ active' = [active EXCEPT ![u] = @ \cup {Len(offers) + 1}]
      BY DEF PostOffer
    <3> HIDE DEF new
    <3>3. offers'[o] = offers[o] /\ o # Len(offers) + 1
      BY <1>1, <3>1, <3>2, AppendProperties, LenProperties DEF MarketInv, TypeOK
    <3> QED BY <1>1, <2>1, <3>2, <3>3 DEF MarketInv, TypeOK
  <2>4. CASE \E u \in Users, x \in 1 .. Len(offers) : RemoveOffer(u, x)
    BY <1>1, <2>1, <2>4 DEF RemoveOffer, MarketInv, TypeOK
  <2>5. CASE UNCHANGED <<offers, active>>
    BY <2>1, <2>5
  <2> QED BY <1>1, <2>2, <2>3, <2>4, <2>5
      DEF Next, Handler, Request, RegisterUser, DepositUSD, DepositRUB,
          GetAskBidQuotes, SkipExpired, PruneExpired, FindQuote, Rest,
          NoQuote, ReturnQuotes
<1>2. ASSUME MarketInv, [Next]_vars
      PROVE  [\A o \in (1 .. Len(offers)) \ Active :
                offers'[o] = offers[o] /\ \A u \in Users : o \notin active'[u]]_vars
  BY <1>1, <1>2
<1> QED BY <1>2, Invariance, PTL DEF Spec, DeadOffersStayDead
-----------------------------------------------------------------------------
(* The quotes *)

\* What GetAskBidQuotes has determined so far stays right until it answers.
QuoteInv ==
  /\ phase \in {"bid", "answer"} => info["ask"] = LowestBuy
  /\ phase = "answer" => info["bid"] = HighestSell
  /\ phase \in {"idle", "matching", "ask"} => info["ask"] = None
  /\ phase # "answer" => info["bid"] = None
  /\ info["ask"] # None => \E o \in ActiveOn("BUY") : offers[o].price = info["ask"]
  /\ info["bid"] # None => \E o \in ActiveOn("SELL") : offers[o].price = info["bid"]

\* The steps of GetAskBidQuotes do not change what it is to answer.
LEMMA SameOffers ==
  ASSUME UNCHANGED <<active, offers>>
  PROVE  /\ LowestBuy' = LowestBuy /\ HighestSell' = HighestSell
         /\ ActiveOn("BUY")' = ActiveOn("BUY")
         /\ ActiveOn("SELL")' = ActiveOn("SELL")
BY DEF LowestBuy, HighestSell, ActiveOn, Active

\* Every active offer has its price among the queues of its side.
LEMMA ActivePrices ==
  ASSUME MarketInv, phase # "matching", NEW side \in Side, NEW o \in ActiveOn(side)
  PROVE  /\ offers[o].price \in DOMAIN book[side]
         /\ offers[o].price \in Int
BY OfferTypes DEF MarketInv, ActiveStand, ActiveOn, Active, Holds, InProcess

\* The offer DetermineQuote finds has the extreme price of its side.
LEMMA QuoteFound ==
  ASSUME MarketInv, NEW p \in Prices, FindQuote(p)
  PROVE  /\ offers[Oldest(QuoteSide, p)].price =
              IF phase = "ask" THEN LowestBuy ELSE HighestSell
         /\ Oldest(QuoteSide, p) \in ActiveOn(QuoteSide)
<1> DEFINE o == Oldest(QuoteSide, p)
           live == {offers[x].price : x \in ActiveOn(QuoteSide)}
<1>1. /\ phase \in {"ask", "bid"} /\ QuoteSide \in Side
      /\ WorstPrice(QuoteSide, p) /\ p \in DOMAIN book[QuoteSide]
      /\ book[QuoteSide][p] # <<>> /\ ~Expired(o)
  BY DEF FindQuote, Quoted, WorstPrice, QuoteSide, Side
<1>2. 1 \in 1 .. Len(book[QuoteSide][p]) /\ o = book[QuoteSide][p][1]
  BY <1>1, HeadTailProperties, EmptySeq DEF Oldest, MarketInv, TypeOK, IsOfferQueues
<1>3. offers[o].side = QuoteSide /\ offers[o].price = p
  BY <1>1, <1>2 DEF MarketInv, QueuesSound
<1>4. o \in ActiveOn(QuoteSide)
  BY <1>1, <1>3 DEF ActiveOn, Active, Expired
<1>5. p \in live
  BY <1>3, <1>4
<1>6. \A q \in live : q \in Int /\ AtLeastAsGood(QuoteSide, q, p)
  BY <1>1, ActivePrices DEF WorstPrice
<1>7. p \in Int
  BY <1>5, <1>6
<1>8. CASE phase = "ask"
  <2>1. QuoteSide = "BUY" /\ ActiveOn("BUY") # {}
    BY <1>4, <1>8 DEF QuoteSide
  <2>2. LowestBuy = Min(live)
    BY <2>1 DEF LowestBuy
  <2>3. \A q \in live : q \in Int /\ p <= q
    BY <1>6, <1>7, <2>1 DEF AtLeastAsGood
  <2> HIDE DEF live, o
  <2>4. Min(live) = p
    <3>1. \A x \in live : (\A y \in live : x <= y) => x = p
      BY <1>5, <1>7, <2>3
    <3> QED BY <1>5, <2>3, <3>1 DEF Min
  <2> QED BY <1>3, <1>4, <1>8, <2>2, <2>4 DEF o
<1>9. CASE phase = "bid"
  <2>1. QuoteSide = "SELL" /\ ActiveOn("SELL") # {}
    BY <1>4, <1>9 DEF QuoteSide
  <2>2. HighestSell = Max(live)
    BY <2>1 DEF HighestSell
  <2>3. \A q \in live : q \in Int /\ p >= q
    BY <1>6, <1>7, <2>1 DEF AtLeastAsGood
  <2> HIDE DEF live, o
  <2>4. Max(live) = p
    <3>1. \A x \in live : (\A y \in live : x >= y) => x = p
      BY <1>5, <1>7, <2>3
    <3> QED BY <1>5, <2>3, <3>1 DEF Max
  <2> QED BY <1>3, <1>4, <1>9, <2>2, <2>4 DEF o
<1> QED BY <1>1, <1>4, <1>8, <1>9

LEMMA QuoteInit == Init => QuoteInv
BY DEF Init, QuoteInv, NoInfo

LEMMA QuoteNext ==
  ASSUME MarketInv, QuoteInv, [Next]_vars
  PROVE  QuoteInv'
<1>1. CASE \E p \in Prices : FindQuote(p)
  <2> PICK p \in Prices : FindQuote(p)
    BY <1>1
  <2>1. /\ phase \in {"ask", "bid"} /\ phase' = NextPhase
        /\ info' = [info EXCEPT ![phase] = offers[Oldest(QuoteSide, p)].price]
        /\ UNCHANGED <<active, offers>>
    BY DEF FindQuote, Quoted
  <2>2. /\ offers[Oldest(QuoteSide, p)].price =
             IF phase = "ask" THEN LowestBuy ELSE HighestSell
        /\ Oldest(QuoteSide, p) \in ActiveOn(QuoteSide)
        /\ info \in [{"ask", "bid"} -> Prices \cup {None}]
    BY QuoteFound DEF MarketInv, TypeOK
  <2>3. CASE phase = "ask"
    <3>1. phase' = "bid" /\ QuoteSide = "BUY"
      BY <2>1, <2>3 DEF NextPhase, QuoteSide
    <3>2. /\ info'["bid"] = info["bid"] /\ info'["ask"] = LowestBuy
          /\ LowestBuy = offers[Oldest("BUY", p)].price
      BY <2>1, <2>2, <2>3, <3>1
    <3> QED BY <2>1, <2>2, <2>3, <3>1, <3>2, SameOffers DEF QuoteInv
  <2>4. CASE phase = "bid"
    <3>1. phase' = "answer" /\ QuoteSide = "SELL"
      BY <2>1, <2>4 DEF NextPhase, QuoteSide
    <3>2. /\ info'["ask"] = info["ask"] /\ info'["bid"] = HighestSell
          /\ HighestSell = offers[Oldest("SELL", p)].price
      BY <2>1, <2>2, <2>4, <3>1
    <3> QED BY <2>1, <2>2, <2>4, <3>1, <3>2, SameOffers DEF QuoteInv
  <2> QED BY <2>1, <2>3, <2>4
<1>2. CASE NoQuote
  <2>1. ActiveOn(QuoteSide) = {}
    BY <1>2, ActivePrices DEF NoQuote, QuoteSide, Side
  <2> QED BY <1>2, <2>1, SameOffers
      DEF QuoteInv, NoQuote, QuoteSide, NextPhase, LowestBuy, HighestSell
<1>3. CASE GetAskBidQuotes
  BY <1>3, SameOffers DEF QuoteInv, GetAskBidQuotes
<1>4. CASE ReturnQuotes
  BY <1>4 DEF QuoteInv, ReturnQuotes, NoInfo
<1>5. CASE \E p \in Prices : PruneExpired(p)
  BY <1>5, SameOffers DEF QuoteInv, PruneExpired
<1>6. CASE \/ Rest \/ \E p \in Prices : SkipExpired(p) \/ Trade(p)
           \/ \E u \in Users : RegisterUser(u)
           \/ \E u \in Users, sum \in Deposits : DepositUSD(u, sum) \/ DepositRUB(u, sum)
           \/ \E u \in Users, o \in 1 .. Len(offers) : RemoveOffer(u, o)
           \/ \E u \in Users, side \in Side, price \in Prices, amount \in Amounts :
                PostOffer(u, side, price, amount)
  <2>1. /\ phase \in {"idle", "matching"} /\ phase' \in {"idle", "matching"}
        /\ info' = info
    BY <1>6 DEF Rest, SkipExpired, Trade, Matches, RegisterUser, DepositUSD,
       DepositRUB, RemoveOffer, PostOffer
  <2>2. info["ask"] = None /\ info["bid"] = None
    BY <2>1 DEF QuoteInv
  <2> QED BY <2>1, <2>2 DEF QuoteInv
<1>7. CASE UNCHANGED vars
  BY <1>7, SameOffers DEF vars, QuoteInv
<1> QED BY <1>1, <1>2, <1>3, <1>4, <1>5, <1>6, <1>7 DEF Next, Handler, Request

\* A difference that an int can hold is not changed by wrapping.
LEMMA WrapSmall ==
  ASSUME NEW x \in Int, 0 < x, x < HalfRange
  PROVE  Wrap(x) = x
<1> DEFINE m == 2 * HalfRange
           y == x + HalfRange
<1>1. m \in Nat /\ m > 0 /\ y \in Nat /\ y < m
  BY MarketAssumption
<1>2. y % m = y
  <2> HIDE DEF m, y
  <2> QED BY <1>1
<1> QED BY <1>2, MarketAssumption DEF Wrap

\* GetAskBidQuotes answers with the extreme prices of the offers that are active.
THEOREM LiveQuotes == Spec => []QuotesAreLive
<1>1. Spec => []QuoteInv
  BY QuoteInit, QuoteNext, Invariance, PTL DEF Spec
<1>2. ASSUME MarketInv, QuoteInv PROVE QuotesAreLive
  <2> SUFFICES ASSUME phase = "answer", Spread # None
               PROVE  Spread > 0 \/ info["bid"] - info["ask"] >= HalfRange
    BY <1>2 DEF QuoteInv, QuotesAreLive
  <2>1. /\ info["ask"] = LowestBuy /\ LowestBuy # None
        /\ info["bid"] = HighestSell /\ HighestSell # None
        /\ Spread = Wrap(info["bid"] - info["ask"])
    BY <1>2 DEF QuoteInv, Spread
  <2>2. info["ask"] \in Prices /\ info["bid"] \in Prices
    BY <1>2, <2>1 DEF MarketInv, TypeOK
  <2>3. info["ask"] \in Int /\ info["bid"] \in Int
    BY <2>2, MarketAssumption
  <2>4. info["ask"] < info["bid"]
    <3>1. PICK b \in ActiveOn("BUY") : offers[b].price = info["ask"]
      BY <1>2, <2>1 DEF QuoteInv
    <3>2. PICK s \in ActiveOn("SELL") : offers[s].price = info["bid"]
      BY <1>2, <2>1 DEF QuoteInv
    <3> QED BY <1>2, <3>1, <3>2 DEF MarketInv, NotCrossed, ActiveOn, Active, InProcess
  <2> DEFINE d == info["bid"] - info["ask"]
  <2>5. d \in Int /\ 0 < d /\ Spread = Wrap(d) /\ HalfRange \in Int
    BY <2>1, <2>3, <2>4, MarketAssumption
  <2> HIDE DEF d
  <2>6. d < HalfRange => Spread = d
    BY <2>5, WrapSmall
  <2> QED BY <2>5, <2>6 DEF d
<1> QED BY <1>1, <1>2, Invariance, PTL
-----------------------------------------------------------------------------
(* Operations come to an end *)

\* Popping leaves fewer offers in the queues.
LEMMA PopShrinks ==
  ASSUME MarketInv, NEW side \in Side, NEW p \in DOMAIN book[side],
         book' = [book EXCEPT ![side] = PopBack(@, p)],
         Len(offers') = Len(offers)
  PROVE  Queued' \subseteq Queued /\ Queued' # Queued
<1> DEFINE oldest == Oldest(side, p)
<1>1. Popped(oldest)
  BY Pop
<1>2. Queued' \subseteq Queued
  <2> SUFFICES ASSUME NEW o \in 1 .. Len(offers), NEW s \in Side, NEW q \in Prices,
                      Holds(book'[s], q, o)
               PROVE  Holds(book[s], q, o)
    BY DEF Queued
  <2> HIDE DEF oldest
  <2>1. q \in DOMAIN book'[s] /\ q \in DOMAIN book[s]
    BY <1>1 DEF Holds, Popped
  <2>2. PICK i \in 1 .. Len(book'[s][q]) : book'[s][q][i] = o
    BY DEF Holds
  <2>3. PICK j \in 1 .. Len(book[s][q]) : book'[s][q][i] = book[s][q][j]
    BY <1>1, <2>1 DEF Popped
  <2> QED BY <2>1, <2>2, <2>3 DEF Holds
<1>3. oldest \in Queued
  <2>1. /\ 1 \in 1 .. Len(book[side][p]) /\ oldest = book[side][p][1]
        /\ p \in Prices
    BY HeadTailProperties, EmptySeq
       DEF Oldest, MarketInv, TypeOK, IsOfferQueues, QueuesInOrder
  <2>2. oldest \in 1 .. Len(offers)
    BY <2>1 DEF MarketInv, QueuesSound
  <2> QED BY <2>1, <2>2 DEF Queued, Holds
<1>4. oldest \notin Queued'
  <2> HIDE DEF oldest
  <2> QED BY <1>1 DEF Popped, Queued
<1> QED BY <1>2, <1>3, <1>4

\* A deal that does not fill the incoming offer fills the resting one, and so
\* pops its queue.
LEMMA TradeAdvances ==
  ASSUME MarketInv, NEW p \in Prices, Trade(p)
  PROVE  \/ phase' = "idle"
         \/ /\ phase' = "matching"
            /\ Queued' \subseteq Queued
            /\ Queued' # Queued
<1> DEFINE n == Incoming
           maker == Oldest(OtherSide, p)
           deal == MakeDeal(n, maker)
           filled == {o \in {n, maker} : Fill(offers[o], deal.amount).status = "FULLFILLED"}
<1>1. /\ Matches(p) /\ ~Expired(maker)
      /\ Len(offers') = Len(offers)
      /\ book' = IF maker \in filled THEN [book EXCEPT ![OtherSide] = PopBack(@, p)]
                 ELSE book
      /\ phase' = IF n \in filled THEN "idle" ELSE "matching"
  BY DEF Trade, MarketInv, TypeOK
<1>2. /\ n \in 1 .. Len(offers) /\ maker \in 1 .. Len(offers)
      /\ OtherSide \in Side /\ p \in DOMAIN book[OtherSide]
      /\ offers[n].side # OtherSide /\ offers[maker].side = OtherSide
      /\ offers[n].status = "ACTIVE" /\ offers[maker].status = "ACTIVE"
      /\ deal.amount \in Nat
  BY <1>1, TradeParties
<1>3. deal.amount \in {offers[n].amount, offers[maker].amount}
  BY <1>2 DEF MakeDeal
<1>4. \A o \in {n, maker} : offers[o].amount = deal.amount => o \in filled
  BY <1>2, OfferTypes DEF Fill, Offer, MarketInv
<1>5. n \in filled \/ maker \in filled
  BY <1>3, <1>4
<1>6. CASE n \in filled
  BY <1>1, <1>6
<1>7. CASE n \notin filled
  <2> HIDE DEF n, filled
  <2> QED BY <1>1, <1>2, <1>5, <1>7, PopShrinks
<1> QED BY <1>6, <1>7

\* Every step of a running operation ends one of its phases or takes an offer
\* out of the queues: both loops, of ProcessOffer and of DetermineQuote, end.
THEOREM OperationsEnd == Spec => OperationsAdvance
<1>1. ASSUME MarketInv, Next, phase # "idle"
      PROVE  \/ StagesLeft' < StagesLeft
             \/ /\ StagesLeft' = StagesLeft
                /\ Queued' \subseteq Queued
                /\ Queued' # Queued
  <2>1. Handler
    BY <1>1 DEF Next, Request, RegisterUser, DepositUSD, DepositRUB, RemoveOffer,
                PostOffer, GetAskBidQuotes
  <2>2. CASE \E p \in Prices : SkipExpired(p)
    <3> PICK p \in Prices : SkipExpired(p)
      BY <2>2
    <3>1. /\ OtherSide \in Side /\ p \in DOMAIN book[OtherSide]
          /\ book' = [book EXCEPT ![OtherSide] = PopBack(@, p)]
          /\ Len(offers') = Len(offers) /\ phase' = phase
      BY DEF SkipExpired, Matches, BestPrice, OtherSide, Opposite, Side
    <3> QED BY <1>1, <3>1, PopShrinks DEF StagesLeft
  <2>3. CASE \E p \in Prices : Trade(p)
    <3> PICK p \in Prices : Trade(p)
      BY <2>3
    <3>1. phase = "matching"
      BY DEF Trade, Matches
    <3> QED BY <1>1, <3>1, TradeAdvances DEF StagesLeft
  <2>4. CASE \E p \in Prices : PruneExpired(p)
    <3> PICK p \in Prices : PruneExpired(p)
      BY <2>4
    <3>1. /\ QuoteSide \in Side /\ p \in DOMAIN book[QuoteSide]
          /\ book' = [book EXCEPT ![QuoteSide] = PopBack(@, p)]
          /\ Len(offers') = Len(offers) /\ phase' = phase
      BY DEF PruneExpired, Quoted, WorstPrice, QuoteSide, Side
    <3> QED BY <1>1, <3>1, PopShrinks DEF StagesLeft
  <2>5. CASE Rest \/ NoQuote \/ ReturnQuotes \/ \E p \in Prices : FindQuote(p)
    BY <2>5 DEF Rest, NoQuote, ReturnQuotes, FindQuote, Quoted, NextPhase, StagesLeft
  <2> QED BY <2>1, <2>2, <2>3, <2>4, <2>5 DEF Handler
<1> QED BY <1>1, Invariance, PTL DEF Spec, OperationsAdvance

\* Of any prices among these, some are the extreme ones: what finite sets of
\* numbers have.
HasEnds(S) ==
  \A T \in SUBSET S : T # {} =>
    \E a, b \in T : \A q \in T : a <= q /\ q <= b
PricesEnd == \A side \in Side : HasEnds(DOMAIN book[side])

\* One more price leaves them so.
LEMMA EndsAdd ==
  ASSUME NEW S \in SUBSET Int, HasEnds(S), NEW p \in Int
  PROVE  HasEnds(S \cup {p})
<1> SUFFICES ASSUME NEW T \in SUBSET (S \cup {p}), T # {}
             PROVE  \E a, b \in T : \A q \in T : a <= q /\ q <= b
  BY DEF HasEnds
<1>1. CASE T \ {p} = {}
  <2>1. p \in T /\ \A q \in T : q = p
    BY <1>1
  <2> QED BY <2>1
<1>2. CASE T \ {p} # {}
  <2>1. T \ {p} \in SUBSET S
    OBVIOUS
  <2>2. PICK a, b \in T \ {p} : \A q \in T \ {p} : a <= q /\ q <= b
    BY <1>2, <2>1 DEF HasEnds
  <2>3. PICK low \in T : low <= a /\ (p \in T => low <= p)
    BY <2>2
  <2>4. PICK high \in T : b <= high /\ (p \in T => p <= high)
    BY <2>2
  <2>5. \A q \in T : q \in Int
    OBVIOUS
  <2>6. \A q \in T : low <= q /\ q <= high
    BY <2>2, <2>3, <2>4, <2>5
  <2> QED BY <2>6
<1> QED BY <1>1, <1>2

\* The sets of prices are finite in this sense, in every reachable state: a
\* step adds a price or removes one.
LEMMA PricesNext ==
  ASSUME MarketInv, PricesEnd, [Next]_vars
  PROVE  PricesEnd'
<1>1. CASE \E p \in Prices : SkipExpired(p) \/ Trade(p) \/ PruneExpired(p)
  <2> PICK p \in Prices : SkipExpired(p) \/ Trade(p) \/ PruneExpired(p)
    BY <1>1
  <2>1. \E side \in Side :
          /\ p \in DOMAIN book[side]
          /\ \/ book' = book
             \/ book' = [book EXCEPT ![side] = PopBack(@, p)]
    BY DEF SkipExpired, Trade, Matches, BestPrice, PruneExpired, Quoted, WorstPrice,
           OtherSide, Opposite, QuoteSide, Side
  <2>2. \A s \in Side : DOMAIN book'[s] \subseteq DOMAIN book[s]
    <3>1. CASE book' = book
      BY <3>1
    <3>2. CASE book' # book
      <4>1. PICK side \in Side : /\ p \in DOMAIN book[side]
                                 /\ book' = [book EXCEPT ![side] = PopBack(@, p)]
        BY <2>1, <3>2
      <4> QED BY <4>1, Pop DEF Popped
    <3> QED BY <3>1, <3>2
  <2> QED BY <2>2 DEF PricesEnd, HasEnds
<1>2. CASE Rest
  <2> DEFINE side == offers[Incoming].side
             price == offers[Incoming].price
  <2>1. /\ side \in Side /\ price \in Int
        /\ book' = [book EXCEPT ![side] = PushFront(@, price, Incoming)]
    BY <1>2, OfferTypes DEF Rest, MarketInv, TakerActive
  <2>2. \A s \in Side : /\ DOMAIN book[s] \in SUBSET Int
                        /\ HasEnds(DOMAIN book[s])
    BY MarketAssumption DEF MarketInv, TypeOK, IsOfferQueues, PricesEnd
  <2>3. DOMAIN book'[side] = DOMAIN book[side] \cup {price}
    BY <2>1 DEF MarketInv, TypeOK, PushFront
  <2>4. \A s \in Side \ {side} : book'[s] = book[s]
    BY <2>1 DEF MarketInv, TypeOK
  <2> HIDE DEF side, price
  <2>5. HasEnds(DOMAIN book'[side])
    BY <2>1, <2>2, <2>3, EndsAdd
  <2> QED BY <2>2, <2>4, <2>5 DEF PricesEnd
<1>3. CASE UNCHANGED book
  BY <1>3 DEF PricesEnd
<1> QED
  <2>1. ASSUME Next PROVE \/ \E p \in Prices : SkipExpired(p) \/ Trade(p) \/ PruneExpired(p)
                         \/ Rest
                         \/ UNCHANGED book
    BY <2>1 DEF Next, Handler, Request, RegisterUser, DepositUSD, DepositRUB,
       RemoveOffer, PostOffer, GetAskBidQuotes, FindQuote, NoQuote, ReturnQuotes
  <2>2. UNCHANGED vars => UNCHANGED book
    BY DEF vars
  <2> QED BY <1>1, <1>2, <1>3, <2>1, <2>2

\* No loop is left with queues it can do nothing with: where ProcessOffer and
\* DetermineQuote look there is no queue, or one of them is the first to look
\* at and has a pointer to take.
LoopsGoOn ==
  /\ phase = "matching" /\ DOMAIN book[OtherSide] # {} =>
       \E p \in Prices : BestPrice(OtherSide, p) /\ book[OtherSide][p] # <<>>
  /\ phase \in {"ask", "bid"} /\ DOMAIN book[QuoteSide] # {} =>
       \E p \in Prices : Quoted(p)

\* While an operation runs there is always an iteration to make, or nothing left
\* to look at: with OperationsEnd, the part of "every operation returns" that
\* does not speak of fairness.
THEOREM OperationsGoOn == Spec => []LoopsGoOn
<1>1. Init => PricesEnd
  BY DEF Init, PricesEnd, HasEnds
<1>2. Spec => []PricesEnd
  BY <1>1, PricesNext, Invariance, PTL DEF Spec
<1>3. ASSUME MarketInv, PricesEnd, NEW side \in Side, DOMAIN book[side] # {}
      PROVE  /\ \E p \in Prices : BestPrice(side, p) /\ book[side][p] # <<>>
             /\ \E p \in Prices : WorstPrice(side, p) /\ book[side][p] # <<>>
  <2>1. PICK a, b \in DOMAIN book[side] :
          \A q \in DOMAIN book[side] : a <= q /\ q <= b
    BY <1>3 DEF PricesEnd, HasEnds
  <2>2. /\ a \in Prices /\ b \in Prices
        /\ book[side][a] # <<>> /\ book[side][b] # <<>>
    BY <1>3 DEF MarketInv, TypeOK, IsOfferQueues, QueuesInOrder
  <2>3. side = "SELL" => BestPrice(side, a) /\ WorstPrice(side, b)
    BY <2>1 DEF BestPrice, WorstPrice, AtLeastAsGood
  <2>4. side # "SELL" => BestPrice(side, b) /\ WorstPrice(side, a)
    BY <2>1 DEF BestPrice, WorstPrice, AtLeastAsGood
  <2> QED BY <2>2, <2>3, <2>4
<1>4. ASSUME MarketInv, PricesEnd PROVE LoopsGoOn
  <2>1. OtherSide \in Side /\ QuoteSide \in Side
    BY DEF OtherSide, Opposite, QuoteSide, Side
  <2> QED BY <1>3, <1>4, <2>1 DEF LoopsGoOn, Quoted
<1> QED BY <1>2, <1>4, Invariance, PTL
-----------------------------------------------------------------------------
(* The market implements the order book: every step of module Market is one *)
(* step of module OrderBook, or none, under the mapping that                *)
(* Market!Abstract states.                                                  *)

\* The orders of the book and the one that executes, as the mapping has them.
Live == [o \in Active |-> Order(o)]
Taker == IF phase = "matching" THEN Incoming ELSE 0

\* An offer is active in its owner's set only, and its order tells its fields.
LEMMA LiveOrders ==
  ASSUME MarketInv
  PROVE  /\ DOMAIN Live = Active
         /\ \A o \in Active : /\ Live[o] = Order(o)
                              /\ o \in 1 .. Len(offers)
                              /\ offers[o].owner \in Users
                              /\ o \in active[offers[o].owner]
                              /\ Order(o).owner = offers[o].owner
                              /\ Order(o).side = offers[o].side
                              /\ Order(o).price = offers[o].price
                              /\ Order(o).amount = offers[o].amount
         /\ \A u \in Users : \A o \in active[u] : o \in Active /\ offers[o].owner = u
BY OfferTypes DEF MarketInv, ActiveSound, Active, Live, Order

\* Queues, expired pointers, balances and quotes are not in the book.
LEMMA Unseen ==
  ASSUME UNCHANGED <<active, offers, deals>>,
         phase' = "matching" <=> phase = "matching"
  PROVE  UNCHANGED Abstract!bookVars
BY DEF Abstract!bookVars, Active, Order, Incoming

\* The exchange starts with an empty book.
LEMMA BookInit == Init => Abstract!Init
<1> SUFFICES ASSUME Init PROVE Abstract!Init
  OBVIOUS
<1>1. Active = {} /\ Len(offers) = 0 /\ deals = <<>> /\ phase # "matching"
  BY DEF Init, Active
<1> QED BY <1>1 DEF Abstract!Init

\* A post adds the order and lets it execute.
LEMMA PostIsPost ==
  ASSUME MarketInv, NEW u \in Users, NEW side \in Side, NEW price \in Prices,
         NEW amount \in Amounts, PostOffer(u, side, price, amount)
  PROVE  Abstract!Post(u, side, price, amount)
<1> DEFINE new == [owner |-> u, side |-> side, price |-> price,
                   amount |-> amount, status |-> "ACTIVE"]
<1>0. PICK n : n = Len(offers) + 1
  OBVIOUS
<1> DEFINE after == [o \in Active \cup {n} |->
                       IF o = n THEN [owner |-> u, side |-> side, price |-> price,
                                      amount |-> amount]
                       ELSE Live[o]]
<1>1. new \in Offer
  BY MarketAssumption DEF Offer, Status
<1>2. /\ Len(offers) \in Nat /\ Len(offers') = n /\ offers'[n] = new
      /\ \A o \in 1 .. Len(offers) : offers'[o] = offers[o]
  BY <1>0, <1>1, AppendProperties DEF PostOffer, MarketInv, TypeOK
<1>3. Active' = Active \cup {n} /\ n \notin Active
  BY <1>0, <1>2, LiveOrders DEF PostOffer, Active, MarketInv, TypeOK
<1>4. \A o \in Active : Order(o)' = Live[o]
  BY <1>2, LiveOrders DEF Order
<1>5. Order(n)' = [owner |-> u, side |-> side, price |-> price, amount |-> amount]
  BY <1>2 DEF Order
<1>6. Live' = after
  BY <1>3, <1>4, <1>5 DEF Live
<1>7. /\ phase = "idle" /\ phase' = "matching" /\ Incoming' = n
      /\ Len(offers) < MaxOffers /\ deals' = deals
  BY <1>2 DEF PostOffer, Incoming
<1> QED BY <1>0, <1>2, <1>6, <1>7, LiveOrders DEF Abstract!Post, Live

\* Cancelling takes the order away, if its owner still has it.
LEMMA RemoveIsCancel ==
  ASSUME MarketInv, NEW u \in Users, NEW o \in 1 .. Len(offers), RemoveOffer(u, o)
  PROVE  Abstract!Cancel(u, o) \/ UNCHANGED Abstract!bookVars
<1>1. /\ phase = "idle" /\ phase' = "idle" /\ UNCHANGED <<offers, deals>>
      /\ active' = [active EXCEPT ![u] = @ \ {o}]
      /\ active \in [Users -> SUBSET (1 .. Len(offers))]
  BY DEF RemoveOffer, MarketInv, TypeOK
<1>2. CASE o \in active[u]
  <2>1. o \in Active /\ offers[o].owner = u
    BY <1>2, LiveOrders
  <2>2. \A v \in Users : o \in active[v] => v = u
    BY <2>1, LiveOrders
  <2>3. Active' = Active \ {o}
    BY <1>1, <2>2 DEF Active
  <2>4. \A x \in Active : Order(x)' = Live[x]
    BY <1>1, LiveOrders DEF Order
  <2>5. Live' = [x \in Active \ {o} |-> Live[x]]
    BY <2>3, <2>4 DEF Live
  <2> QED BY <1>1, <2>1, <2>5, LiveOrders DEF Abstract!Cancel, Live
<1>3. CASE o \notin active[u]
  <2>1. active' = active
    BY <1>1, <1>3
  <2> QED BY <1>1, <2>1, Unseen
<1> QED BY <1>2, <1>3

\* When ProcessOffer stops with some of the offer left, no order of the other
\* side is acceptable to it.
LEMMA RestIsRest ==
  ASSUME MarketInv, Rest
  PROVE  Abstract!RestOrder
<1> DEFINE n == Incoming
<1>1. /\ n \in 1 .. Len(offers) /\ n \in active[offers[n].owner]
      /\ offers[n].owner \in Users /\ n \in Active
      /\ offers[n].side \in Side /\ offers[n].price \in Int
      /\ phase = "matching" /\ phase' = "idle" /\ InProcess = {n}
      /\ UNCHANGED <<active, offers, deals>>
  BY OfferTypes DEF MarketInv, Rest, TakerActive, InProcess, Active
<1>2. UNCHANGED <<Live, Len(offers)>>
  BY <1>1 DEF Live, Active, Order
<1>3. \A o \in Active : offers[o].side = OtherSide =>
         ~Crosses(offers[n].side, offers[n].price, offers[o].price)
  BY <1>1, RestUncrossed DEF Active
<1>4. \A o \in Active : offers[o].side # offers[n].side => offers[o].side = OtherSide
  BY <1>1, LiveOrders, OfferTypes DEF MarketInv, OtherSide, Opposite, Side
<1>5. \A o \in DOMAIN Live : ~Abstract!Acceptable(n, o)
  BY <1>1, <1>3, <1>4, LiveOrders DEF Abstract!Acceptable, Live, Crosses, Side
<1> QED BY <1>1, <1>2, <1>5 DEF Abstract!RestOrder, Live

\* The resting order a trade meets is the one that has priority.
LEMMA TradeMeetsPriority ==
  ASSUME MarketInv, NEW p \in Prices, Trade(p),
         NEW n, n = Incoming, NEW maker, maker = Oldest(OtherSide, p)
  PROVE  Abstract!Priority(n, maker)
<1>1. /\ maker \in 1 .. Len(offers) /\ n \in 1 .. Len(offers)
      /\ offers[maker].side = OtherSide /\ offers[maker].price = p
      /\ offers[n].side # OtherSide /\ OtherSide \in Side
      /\ maker \in active[offers[maker].owner]
      /\ n \in active[offers[n].owner]
      /\ Crosses(offers[n].side, offers[n].price, p)
  BY TradeParties DEF Trade, Matches
<1>2. /\ maker \in Active /\ n \in Active
      /\ offers[n].side \in Side /\ offers[n].price \in Int /\ p \in Int
  BY <1>1, OfferTypes, MarketAssumption DEF MarketInv, Active
<1>3. Abstract!Acceptable(n, maker)
  BY <1>1, <1>2, LiveOrders DEF Abstract!Acceptable, Live, Crosses, Side
<1>4. ASSUME NEW o \in Active, Abstract!Acceptable(n, o)
      PROVE  Abstract!Precedes(n, maker, o)
  <2>1. offers[o].side # offers[n].side /\ o \in 1 .. Len(offers)
    BY <1>2, <1>4, LiveOrders DEF Abstract!Acceptable, Live
  <2>2. offers[o].side = OtherSide /\ offers[o].price \in Int
    BY <1>1, <1>2, <2>1, OfferTypes DEF MarketInv, Side
  <2>3. o \in ActiveOn(OtherSide)
    BY <2>2 DEF ActiveOn
  <2>4. /\ AtLeastAsGood(OtherSide, p, offers[o].price)
        /\ offers[o].price = p => maker <= o
    BY <2>3, TradePriority
  <2> QED BY <1>1, <1>2, <2>2, <2>4, LiveOrders
          DEF Abstract!Precedes, Live, AtLeastAsGood, Side
<1> QED BY <1>2, <1>3, <1>4 DEF Abstract!Priority

\* A trade is one execution of the incoming order, with the deal, the orders and
\* the end of the execution that the book prescribes.
LEMMA TradeIsExecute ==
  ASSUME MarketInv, NEW p \in Prices, Trade(p),
         NEW n, n = Incoming, NEW maker, maker = Oldest(OtherSide, p)
  PROVE  Abstract!Execute(maker)
<1>0. PICK deal : deal = MakeDeal(n, maker)
  OBVIOUS
<1>01. PICK a : a = deal.amount
  OBVIOUS
<1> DEFINE filled == {o \in {n, maker} : offers[o].amount = a}
<1>1. /\ n \in 1 .. Len(offers) /\ maker \in 1 .. Len(offers) /\ maker # n
      /\ OtherSide \in Side
      /\ offers[maker].side = OtherSide /\ offers[n].side # OtherSide
      /\ offers[maker].price = p
      /\ maker \in active[offers[maker].owner]
      /\ n \in active[offers[n].owner]
      /\ offers[maker].status = "ACTIVE" /\ offers[n].status = "ACTIVE"
      /\ a \in Nat /\ a <= offers[maker].amount /\ a <= offers[n].amount
  BY <1>0, <1>01, TradeParties DEF Trade
<1>2. /\ offers' \in Seq(Offer) /\ Len(offers') = Len(offers)
      /\ \A o \in {n, maker} :
           /\ Fill(offers[o], a).status = "FULLFILLED" <=> offers[o].amount = a
           /\ offers'[o] = Fill(offers[o], a)
           /\ offers'[o].owner = offers[o].owner /\ offers'[o].side = offers[o].side
           /\ offers'[o].price = offers[o].price
           /\ offers'[o].amount = offers[o].amount - a
      /\ \A o \in 1 .. Len(offers) : o \notin {n, maker} => offers'[o] = offers[o]
  BY <1>0, <1>01, <1>1, TradeOffers
<1>3. /\ phase = "matching" /\ deals' = Append(deals, deal)
      /\ active' = [u \in Users |-> active[u] \ {o \in filled : offers[o].owner = u}]
      /\ phase' = IF n \in filled THEN "idle" ELSE "matching"
  <2>1. {o \in {n, maker} : Fill(offers[o], a).status = "FULLFILLED"} = filled
    BY <1>2
  <2> QED BY <1>0, <1>01, <2>1 DEF Trade, Matches, RegisterDeal
<1>4. n \in Active /\ maker \in Active
  BY <1>1, OfferTypes DEF MarketInv, Active
<1>5. Active' = Active \ filled
  <2>1. \A u \in Users : \A o \in active[u] : offers[o].owner = u
    BY DEF MarketInv, ActiveSound
  <2>2. \A u \in Users : active'[u] = active[u] \ filled
    BY <1>3, <2>1
  <2> HIDE DEF filled
  <2> QED BY <2>2 DEF Active
<1>6. \A o \in Active \ filled :
        Order(o)' = IF o \in {n, maker} THEN [Live[o] EXCEPT !.amount = @ - a] ELSE Live[o]
  <2> SUFFICES ASSUME NEW o \in Active
               PROVE  Order(o)' = IF o \in {n, maker}
                                  THEN [Live[o] EXCEPT !.amount = @ - a] ELSE Live[o]
    OBVIOUS
  <2>1. /\ o \in 1 .. Len(offers)
        /\ Live[o] = [owner |-> offers[o].owner, side |-> offers[o].side,
                      price |-> offers[o].price, amount |-> offers[o].amount]
    BY LiveOrders DEF Order
  <2>2. Order(o)' = [owner |-> offers'[o].owner, side |-> offers'[o].side,
                     price |-> offers'[o].price, amount |-> offers'[o].amount]
    BY DEF Order
  <2> QED BY <1>2, <2>1, <2>2
<1>7. Live' = Abstract!AfterTrade(n, maker, a)
  <2>1. Active \ filled = {x \in DOMAIN Live : ~(x \in {n, maker} /\ Live[x].amount = a)}
    BY <1>4, LiveOrders
  <2> HIDE DEF filled
  <2> QED BY <1>5, <1>6, <2>1 DEF Live, Abstract!AfterTrade
<1>8. /\ a = Live[n].amount \/ a = Live[maker].amount
      /\ a <= Live[n].amount /\ a <= Live[maker].amount
      /\ deal = [seller |-> Abstract!Seller(n, maker), buyer |-> Abstract!Buyer(n, maker),
                 price |-> Live[maker].price, amount |-> a]
  <2>1. offers[n].side \in Side
    BY <1>1, OfferTypes DEF MarketInv
  <2> QED BY <1>0, <1>01, <1>1, <1>4, <2>1, LiveOrders
          DEF MakeDeal, Live, Abstract!Seller, Abstract!Buyer, Side
<1>9. /\ Taker = n /\ n # 0
      /\ Taker' = IF Live[n].amount = a THEN 0 ELSE n
  BY <1>1, <1>2, <1>3, <1>4, LiveOrders DEF Taker, Incoming
<1>10. Abstract!Priority(n, maker)
  BY TradeMeetsPriority
<1> HIDE DEF filled
<1>11. \E amount \in {Live[n].amount, Live[maker].amount} :
         /\ amount <= Live[n].amount /\ amount <= Live[maker].amount
         /\ deals' = Append(deals, [seller |-> Abstract!Seller(n, maker),
                                    buyer |-> Abstract!Buyer(n, maker),
                                    price |-> Live[maker].price, amount |-> amount])
         /\ Live' = Abstract!AfterTrade(n, maker, amount)
         /\ Taker' = IF Live[n].amount = amount THEN 0 ELSE n
  BY <1>3, <1>7, <1>8, <1>9
<1> QED BY <1>2, <1>9, <1>10, <1>11 DEF Abstract!Execute, Live, Taker
-----------------------------------------------------------------------------
\* Every step of the market is a step of the book, or invisible in it.
LEMMA StepIsStep ==
  ASSUME MarketInv, [Next]_vars
  PROVE  [Abstract!Next]_(Abstract!bookVars)
<1>1. CASE \E p \in Prices : Trade(p)
  <2> PICK p \in Prices : Trade(p)
    BY <1>1
  <2>1. PICK n, maker : n = Incoming /\ maker = Oldest(OtherSide, p)
    OBVIOUS
  <2>2. maker \in 1 .. Len(offers)
    BY <2>1, TradeParties DEF Trade
  <2> QED BY <2>1, <2>2, TradeIsExecute DEF Abstract!Next
<1>2. CASE Rest
  BY <1>2, RestIsRest DEF Abstract!Next
<1>3. CASE \E u \in Users, o \in 1 .. Len(offers) : RemoveOffer(u, o)
  BY <1>3, RemoveIsCancel DEF Abstract!Next
<1>4. CASE \E u \in Users, side \in Side, price \in Prices, amount \in Amounts :
             PostOffer(u, side, price, amount)
  BY <1>4, PostIsPost DEF Abstract!Next, Abstract!Sides, Side
<1>5. CASE \/ \E p \in Prices : SkipExpired(p) \/ PruneExpired(p) \/ FindQuote(p)
           \/ NoQuote \/ ReturnQuotes \/ GetAskBidQuotes
           \/ \E u \in Users : RegisterUser(u)
           \/ \E u \in Users, sum \in Deposits : DepositUSD(u, sum) \/ DepositRUB(u, sum)
  <2>1. /\ UNCHANGED <<active, offers, deals>>
        /\ phase' = "matching" <=> phase = "matching"
    BY <1>5 DEF SkipExpired, PruneExpired, FindQuote, Quoted, NoQuote, ReturnQuotes,
       GetAskBidQuotes, NextPhase, RegisterUser, DepositUSD, DepositRUB
  <2> QED BY <2>1, Unseen
<1>6. CASE UNCHANGED vars
  BY <1>6, Unseen DEF vars
<1> QED BY <1>1, <1>2, <1>3, <1>4, <1>5, <1>6 DEF Next, Handler, Request

\* The market is an order book: whatever the users, prices and amounts, every
\* behaviour of its queues and weak pointers is one that the book allows.
THEOREM MarketIsOrderBook == Spec => ImplementsOrderBook
<1>1. Init => Abstract!Init
  BY BookInit
<1>2. MarketInv /\ [Next]_vars => [Abstract!Next]_(Abstract!bookVars)
  BY StepIsStep
<1> QED BY <1>1, <1>2, Invariance, PTL DEF Spec, ImplementsOrderBook, Abstract!Spec
=============================================================================
