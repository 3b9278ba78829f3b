\* Queues that grow long: one user, two prices, four offers of one or two units.
SPECIFICATION FairSpec
CONSTANTS
  alice = alice
  bob = bob
  None = None
  Users <- OneUser
  Prices <- TwoPrices
  Amounts = {1, 2}
  MaxOffers = 4
  Deposits = {}
  MaxDeposit = 0
  HalfRange = 2
INVARIANTS
  QueuesInOrder
  QuotesAreLive
PROPERTIES
  PriceTimePriority
  OperationsAdvance
  OperationsReturn
