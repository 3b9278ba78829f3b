------------------------------ MODULE Protocol ------------------------------
(***************************************************************************)
(* One user, one client, one order at a time: from what is typed at the    *)
(* prompts (src/src/client.cpp, client.h, request_handler.cpp), through    *)
(* the request's JSON, to the call of the market that the session makes    *)
(* (session.cpp); and from what the market answers, through the reply's    *)
(* JSON (serializer.cpp), to what the client prints.                       *)
(*                                                                         *)
(* The market is anything here: it may give any answer of the right type   *)
(* (modules Market and Server say which).  A JSON text is its value, as    *)
(* module JsonReading has that a dumped value is read back the same.       *)
(***************************************************************************)
EXTENDS JsonValue, FiniteSets

CONSTANTS
  Amounts,    \* bound: amounts in the market's answers
  Money,      \* bound: prices and sums in the market's answers
  IntRange,   \* int holds -IntRange .. IntRange - 1 (2^31 in the build)
  LongRange,  \* uint64_t and size_t hold 0 .. 2 * LongRange - 1 (2^63)
  Names, Passwords,
  NotUtf8,    \* the names whose bytes are not UTF-8
  Hash,       \* std::hash of a password
  UserIds, OfferIds,
  OldUsers,   \* users of an earlier run: the table has them, the market does not
  MaxReported \* bound: offers or deals in one report

Int32 == -IntRange .. IntRange - 1
UInt64 == 0 .. 2 * LongRange - 1

ASSUME ProtocolAssumption ==
  /\ IntRange \in Nat /\ LongRange \in Nat /\ IntRange <= LongRange
  /\ MaxReported \in Nat
  /\ Money \subseteq Int32
  /\ UserIds \cup OfferIds \cup Amounts \subseteq UInt64
  /\ NotUtf8 \subseteq Names /\ OldUsers \subseteq UserIds
  /\ Hash \in [Passwords -> UInt64]

VARIABLES
  screen,   \* what the client waits for
  input,    \* its variables: option, offer_side_, amount_, ..., by prompt
  typed,    \* what the user meant: the inputs of this order that were accepted
  id,       \* Client::id_
  request,  \* the message on its way to the server
  call,     \* the call of the market
  answer,   \* what the market returned
  reply,    \* the message on its way to the client
  shown     \* what the client printed last

vars == <<screen, input, typed, id, request, call, answer, reply, shown>>

\* The prompts that take a number, and the others.
Prompts == {"auth", "menu", "side", "amount", "price", "offer"}
Nothing == <<"nothing">>

\* A value that may be missing: <<>> or <<value>>.
Optional(S) == {<<>>} \cup {<<x>> : x \in S}
-----------------------------------------------------------------------------
(* The client asks *)

Init ==
  /\ screen = "auth"
  /\ input = [p \in Prompts |-> 0]
  /\ typed = <<>>
  /\ id = <<>>
  /\ request = Nothing /\ reply = Nothing
  /\ call = Nothing /\ answer = Nothing /\ shown = Nothing

\* The predicates that are passed to SafeIntInput.
Valid(prompt, n) ==
  CASE prompt \in {"auth", "side"} -> n \in {1, 2}
    [] prompt = "menu" -> n \in 1 .. 7
    [] prompt = "amount" -> n > 0
    [] prompt = "price" -> TRUE
    [] prompt = "offer" -> n >= 0

Send(type, fields) ==
  request' = Object([k \in DOMAIN fields \cup {"TYPE"} |->
                       IF k = "TYPE" THEN Text(type) ELSE fields[k]])

\* MakeRequest and IdOnlyRequestHandler: the options that need no more input.
RequestType(option) ==
  CASE option = 3 -> "Quotes"
    [] option = 4 -> "Balance"
    [] option = 5 -> "Active"
    [] option = 6 -> "Deal"

SendIdOnly(option) == Send(RequestType(option), [USER_ID |-> Integer(id[1])])

\* PostOfferRequest::SendRequest and CancleOfferRequest::SendRequest.
SendPost(values) ==
  Send("PostOffer", [USER_ID |-> Integer(id[1]),
                     OFFER_SIDE |-> Text(IF values["side"] = 1 THEN "BUY" ELSE "SELL"),
                     AMOUNT |-> Integer(values["amount"]),
                     PRICE |-> Integer(values["price"])])
SendCancel(values) ==
  Send("Cancel", [USER_ID |-> Integer(id[1]), OFFER_ID |-> Integer(values["offer"])])

\* What follows an accepted input.
Proceed(prompt, values) ==
  CASE prompt = "auth" -> screen' = "name" /\ UNCHANGED request
    [] prompt = "menu" /\ values["menu"] = 1 -> screen' = "side" /\ UNCHANGED request
    [] prompt = "menu" /\ values["menu"] = 2 -> screen' = "offer" /\ UNCHANGED request
    [] prompt = "menu" /\ values["menu"] \in 3 .. 6 ->
         screen' = "waiting" /\ SendIdOnly(values["menu"])
    [] prompt = "menu" /\ values["menu"] = 7 -> screen' = "ended" /\ UNCHANGED request
    [] prompt = "side" -> screen' = "amount" /\ UNCHANGED request
    [] prompt = "amount" -> screen' = "price" /\ UNCHANGED request
    [] prompt = "price" -> screen' = "waiting" /\ SendPost(values)
    [] prompt = "offer" -> screen' = "waiting" /\ SendCancel(values)

\* The last order is over when the user goes on.
Forget == call' = Nothing /\ answer' = Nothing /\ shown' = Nothing

\* SafeIntInput: a number is read into the variable and then judged.
TypeNumber(n) ==
  /\ screen \in Prompts
  /\ input' = [input EXCEPT ![screen] = n]
  /\ IF Valid(screen, n)
     THEN Proceed(screen, input') /\ typed' = Append(typed, n)
     ELSE UNCHANGED <<screen, typed, request>>
  /\ Forget
  /\ UNCHANGED <<id, reply>>

\* What is no number leaves 0, and one that int cannot hold its largest or
\* smallest; both are refused whatever the predicate says.
TypeOther ==
  /\ screen \in Prompts
  /\ \E n \in {0, IntRange - 1, -IntRange} : input' = [input EXCEPT ![screen] = n]
  /\ Forget
  /\ UNCHANGED <<screen, typed, id, request, reply>>

\* GetAuthInfo, and the request of Register or Login.  dump() throws if the name
\* is not UTF-8.
Authenticate(name, password) ==
  /\ screen = "name"
  /\ typed' = typed \o <<name, password>>
  /\ IF name \in NotUtf8 THEN screen' = "failed" /\ UNCHANGED request
     ELSE /\ screen' = "waiting"
          /\ Send(IF input["auth"] = 1 THEN "Reg" ELSE "Log",
                  [USERNAME |-> Text(name), PW_HASH |-> Integer(Hash[password])])
  /\ UNCHANGED <<input, id, call, answer, reply, shown>>
-----------------------------------------------------------------------------
(* The server: the call of the market (Session::HandleRead) *)

\* A call with its arguments, unless a conversion throws.
Calling(op, arguments) ==
  IF \E i \in DOMAIN arguments : arguments[i] = Throw THEN Throw
  ELSE <<op>> \o [i \in DOMAIN arguments |-> arguments[i][2]]

\* Mutant of OfferSide: the sides are confused.
OfferSideSwapped(r) ==
  LET side == At(r, "OFFER_SIDE")
  IN IF side = Throw THEN Throw ELSE Text(IF side = Text("SELL") THEN "BUY" ELSE "SELL")
OfferSide(r) ==
  LET side == At(r, "OFFER_SIDE")
  IN IF side = Throw THEN Throw ELSE Text(IF side = Text("BUY") THEN "BUY" ELSE "SELL")

Dispatch(r) ==
  LET type == Subscript(r, "TYPE")
      name == ToText(Subscript(r, "USERNAME"))
      hash == ToUnsigned(Subscript(r, "PW_HASH"), LongRange)
      user == ToUnsigned(Subscript(r, "USER_ID"), LongRange)
      sure(key) == ToUnsigned(At(r, key), LongRange)
      price == ToSigned(At(r, "PRICE"), IntRange)
  IN CASE type = Text("Reg") -> Calling("RegisterUser", <<name, hash>>)
       [] type = Text("Log") -> Calling("Login", <<name, hash>>)
       [] type = Text("Balance") -> Calling("GetBalance", <<user>>)
       [] type = Text("Active") -> Calling("GetActiveOffers", <<user>>)
       [] type = Text("Deal") -> Calling("GetClosedDeals", <<user>>)
       [] type = Text("PostOffer") ->
            Calling("PostOffer", <<sure("USER_ID"), OfferSide(r), price, sure("AMOUNT")>>)
       [] type = Text("Quotes") -> Calling("GetQuotes", <<>>)
       [] type = Text("Cancel") -> Calling("CancelOffer", <<sure("USER_ID"), sure("OFFER_ID")>>)
       [] OTHER -> <<"unknown">>
-----------------------------------------------------------------------------
(* The market's answer, and the reply (Serializer) *)

\* The calls that look their user up with at().
UserCalls == {"GetBalance", "GetActiveOffers", "GetClosedDeals", "PostOffer", "CancelOffer"}
LooksUpOldUser(c) == c[1] \in UserCalls /\ c[2] \in OldUsers
Present == UserIds \ OldUsers

Short(S) == UNION {[1 .. n -> S] : n \in 0 .. MaxReported}

\* What each call may return, lists in the order of their std::set.  A login is
\* answered from the table.
Answers(c) ==
  CASE c[1] = "RegisterUser" -> Optional(Present)
    [] c[1] = "Login" -> Optional(UserIds)
    [] c[1] = "GetBalance" -> [usd : Money, rub : Money]
    [] c[1] = "GetActiveOffers" ->
         {s \in Short([id : OfferIds, side : {"BUY", "SELL"}, price : Money, amount : Amounts]) :
            \A i, j \in DOMAIN s : s[i].id = s[j].id => i = j}
    [] c[1] = "GetClosedDeals" ->
         {s \in Short([buyer : Present, seller : Present, price : Money, amount : Amounts]) :
            \A i \in DOMAIN s : c[2] \in {s[i].buyer, s[i].seller}}
    [] c[1] = "GetQuotes" ->
         {q \in [quote : Optional(Money), ask : Optional(Money), bid : Optional(Money),
                 spread : Optional(Int32)] :
            q.spread = IF q.ask # <<>> /\ q.bid # <<>> THEN <<q.ask[1] - q.bid[1]>> ELSE <<>>}
    [] c[1] = "CancelOffer" -> {<<TRUE>>, <<FALSE>>}
    [] OTHER -> {<<>>}

OrNull(optional) == IF optional = <<>> THEN Null ELSE Integer(optional[1])

\* RegisterUser and Login.
UserReply(type, user) ==
  Object([TYPE |-> Text(type), SUCCESS |-> Boolean(user # <<>>), USER_ID |-> OrNull(user)])

BalanceReply(b) ==
  Object([TYPE |-> Text("Balance"), USD |-> Integer(b.usd), RUB |-> Integer(b.rub)])

\* push_back in a loop over all rows: the list of those of one kind.
Listed(rows, kinds, kind) ==
  LET upTo[i \in 0 .. Len(rows)] ==
        IF i = 0 THEN <<>>
        ELSE IF kinds[i] = kind THEN Append(upTo[i - 1], rows[i])
        ELSE upTo[i - 1]
  IN Array(upTo[Len(rows)])

OfferRows(s) ==
  [i \in DOMAIN s |-> Object([OFFER_ID |-> Integer(s[i].id), PRICE |-> Integer(s[i].price),
                              AMOUNT |-> Integer(s[i].amount)])]
OfferKinds(s) == [i \in DOMAIN s |-> s[i].side]
ActiveReply(s) ==
  LET of(side) == Listed(OfferRows(s), OfferKinds(s), side)
  IN Object([TYPE |-> Text("Active"), BUY |-> of("BUY"), SELL |-> of("SELL")])

DealRows(s) ==
  [i \in DOMAIN s |-> Object([PRICE |-> Integer(s[i].price), AMOUNT |-> Integer(s[i].amount)])]
DealKinds(s, user) ==
  [i \in DOMAIN s |-> IF s[i].buyer = s[i].seller THEN "BUY_SELL"
                      ELSE IF s[i].buyer = user THEN "BUY" ELSE "SELL"]
ClosedReply(s, user) ==
  LET of(kind) == Listed(DealRows(s), DealKinds(s, user), kind)
  IN Object([TYPE |-> Text("Deal"), BUY |-> of("BUY"), SELL |-> of("SELL"),
             BUY_SELL |-> of("BUY_SELL")])

\* Mutant of QuotesReply: ask and bid are swapped.
QuotesReplySwapped(q) ==
  Object([TYPE |-> Text("Quotes"), QUOTE |-> OrNull(q.quote), ASK_QUOTE |-> OrNull(q.bid),
          BID_QUOTE |-> OrNull(q.ask), SPREAD |-> OrNull(q.spread)])

QuotesReply(q) ==
  Object([TYPE |-> Text("Quotes"), QUOTE |-> OrNull(q.quote), ASK_QUOTE |-> OrNull(q.ask),
          BID_QUOTE |-> OrNull(q.bid), SPREAD |-> OrNull(q.spread)])

ReplyTo(c, a) ==
  CASE c[1] = "RegisterUser" -> UserReply("RegConf", a)
    [] c[1] = "Login" -> UserReply("Log", a)
    [] c[1] = "GetBalance" -> BalanceReply(a)
    [] c[1] = "GetActiveOffers" -> ActiveReply(a)
    [] c[1] = "GetClosedDeals" -> ClosedReply(a, c[2])
    [] c[1] = "GetQuotes" -> QuotesReply(a)
    [] c[1] = "PostOffer" -> Text("Offer was posted.")
    [] c[1] = "CancelOffer" -> Object([TYPE |-> Text("Cancel"), SUCCESS |-> Boolean(a[1])])
    [] OTHER -> Text("ERROR: Unknown request type")

\* Session::HandleRead.  An exception ends the server, and with it the client.
HandleRead ==
  /\ request # Nothing
  /\ request' = Nothing
  /\ call' = Dispatch(request)
  /\ IF call' = Throw \/ LooksUpOldUser(call')
     THEN screen' = "failed" /\ UNCHANGED <<answer, reply>>
     ELSE /\ answer' \in Answers(call')
          /\ reply' = ReplyTo(call', answer')
          /\ UNCHANGED screen
  /\ UNCHANGED <<input, typed, id, shown>>
-----------------------------------------------------------------------------
(* The client prints *)

\* Mutant of Nullable: null is not expected.
NullableNever(v) == ToSigned(v, IntRange)
Nullable(v) == IF v = Null THEN Text("none") ELSE ToSigned(v, IntRange)

\* The elements of a list, each with some fields.
Rows(list, keys) ==
  LET row(v) == [i \in DOMAIN keys |-> At(v, keys[i])]
  IN IF ~Is(list, "array") \/ \E i \in DOMAIN list[2] : \E j \in DOMAIN keys :
          row(list[2][i])[j] = Throw
     THEN Throw
     ELSE Array([i \in DOMAIN list[2] |-> row(list[2][i])])

Report(title, r, lists, keys) ==
  <<title>> \o [i \in DOMAIN lists |-> Rows(At(r, lists[i]), keys)]

\* PrintResult of the handler for a menu option.
Printed(option, r) ==
  CASE option = 1 -> <<"posted", ToText(r)>>
    [] option = 2 -> <<"canceled", ToBoolean(At(r, "SUCCESS"))>>
    [] option = 3 -> <<"quotes", Nullable(At(r, "QUOTE")), Nullable(At(r, "ASK_QUOTE")),
                       Nullable(At(r, "BID_QUOTE")), Nullable(At(r, "SPREAD"))>>
    [] option = 4 -> <<"balance", At(r, "USD"), At(r, "RUB")>>
    [] option = 5 -> Report("offers", r, <<"BUY", "SELL">>, <<"OFFER_ID", "AMOUNT", "PRICE">>)
    [] option = 6 -> Report("deals", r, <<"BUY", "SELL", "BUY_SELL">>, <<"AMOUNT", "PRICE">>)

Failed(values) == \E i \in DOMAIN values : i > 1 /\ values[i] = Throw

\* An order is answered: the handler is gone, and its variables with it (the
\* next one's are written before they are read).
Answered(next) ==
  /\ reply # Nothing
  /\ reply' = Nothing
  /\ screen' = next
  /\ typed' = <<>>
  /\ input' = [p \in Prompts |-> 0]
  /\ UNCHANGED <<request, call, answer>>

PrintResult ==
  LET values == Printed(input["menu"], reply)
  IN /\ id # <<>>
     /\ Answered(IF Failed(values) THEN "failed" ELSE "menu")
     /\ shown' = values
     /\ UNCHANGED id

\* ReadAuthResponse: on to the menu, or again from the start.
ReadAuthResponse ==
  LET success == ToBoolean(At(reply, "SUCCESS"))
      user == ToUnsigned(At(reply, "USER_ID"), LongRange)
      granted == success = Boolean(TRUE) /\ user # Throw
  IN /\ id = <<>>
     /\ Answered(CASE granted -> "menu"
                  [] success = Boolean(FALSE) -> "auth"
                  [] OTHER -> "failed")
     /\ shown' = <<"user", success>>
     /\ id' = IF granted THEN <<user[2]>> ELSE id
-----------------------------------------------------------------------------
Next ==
  \/ \E n \in Int32 : TypeNumber(n)
  \/ TypeOther
  \/ \E name \in Names, password \in Passwords : Authenticate(name, password)
  \/ HandleRead
  \/ PrintResult
  \/ ReadAuthResponse

Spec == Init /\ [][Next]_vars
-----------------------------------------------------------------------------
(* What the user means, by the words of the menus (client.cpp:30-31, 102-109, *)
(* request_handler.cpp:145-158), and what the answers mean to him             *)

Meant ==
  CASE id = <<>> /\ typed[1] = 1 -> <<"RegisterUser", typed[2], Hash[typed[3]]>>
    [] id = <<>> /\ typed[1] = 2 -> <<"Login", typed[2], Hash[typed[3]]>>
    [] id # <<>> /\ typed[1] = 1 ->
         <<"PostOffer", id[1], IF typed[2] = 1 THEN "BUY" ELSE "SELL", typed[4], typed[3]>>
    [] id # <<>> /\ typed[1] = 2 -> <<"CancelOffer", id[1], typed[2]>>
    [] id # <<>> /\ typed[1] = 3 -> <<"GetQuotes">>
    [] id # <<>> /\ typed[1] = 4 -> <<"GetBalance", id[1]>>
    [] id # <<>> /\ typed[1] = 5 -> <<"GetActiveOffers", id[1]>>
    [] id # <<>> /\ typed[1] = 6 -> <<"GetClosedDeals", id[1]>>

\* The server does what the user ordered, for that user, with the numbers he
\* typed: however often he mistyped, no refused input and no input of an earlier
\* order gets into the call, and nothing is cut to a narrower type on the way.
OrderedIsDone == screen = "waiting" /\ call # Nothing => call = Meant

\* Two things make a program throw: a name that is not UTF-8, which the client
\* cannot send, and an order of a user of an earlier run, whom the market lacks.
MayThrow ==
  \/ call = Nothing /\ Len(typed) = 3 /\ typed[2] \in NotUtf8
  \/ LooksUpOldUser(call)

\* No other order makes either program throw: every field that one reads, the
\* other has written, with a type it converts from.
NothingElseThrows == screen = "failed" => MayThrow

\* A printed list has the columns of the chosen offers or deals, each as often
\* as the market has it.
Tells(list, columns, chosen) ==
  /\ Len(list[2]) = Cardinality(chosen)
  /\ \A i \in DOMAIN list[2] :
       Cardinality({j \in DOMAIN list[2] : list[2][j] = list[2][i]})
         = Cardinality({k \in chosen : columns[k] = list[2][i]})

\* What is printed is what the market answered.
ShownIsAnswered ==
  shown # Nothing /\ screen # "failed" =>
    LET maybe(optional) == IF optional = <<>> THEN Text("none") ELSE Integer(optional[1])
        user == call[2]
    IN CASE call[1] = "GetQuotes" ->
              shown = <<"quotes", maybe(answer.quote), maybe(answer.ask), maybe(answer.bid),
                        maybe(answer.spread)>>
         [] call[1] = "GetBalance" -> shown = <<"balance", Integer(answer.usd), Integer(answer.rub)>>
         [] call[1] = "CancelOffer" -> shown = <<"canceled", Boolean(answer[1])>>
         [] call[1] = "GetActiveOffers" ->
              LET columns == [i \in DOMAIN answer |->
                    <<Integer(answer[i].id), Integer(answer[i].amount), Integer(answer[i].price)>>]
              IN /\ Tells(shown[2], columns, {i \in DOMAIN answer : answer[i].side = "BUY"})
                 /\ Tells(shown[3], columns, {i \in DOMAIN answer : answer[i].side = "SELL"})
         [] call[1] = "GetClosedDeals" ->
              LET columns == [i \in DOMAIN answer |->
                    <<Integer(answer[i].amount), Integer(answer[i].price)>>]
                  bought == {i \in DOMAIN answer : answer[i].buyer = user}
                  sold == {i \in DOMAIN answer : answer[i].seller = user}
              IN /\ Tells(shown[2], columns, bought \ sold)
                 /\ Tells(shown[3], columns, sold \ bought)
                 /\ Tells(shown[4], columns, bought \cap sold)
         [] call[1] \in {"RegisterUser", "Login"} ->
              /\ shown = <<"user", Boolean(answer # <<>>)>>
              /\ id = answer
         [] OTHER -> TRUE
=============================================================================
