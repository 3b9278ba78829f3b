\* The matching engine: two users, three prices, three offers of one or two units.
SPECIFICATION Spec
CONSTANTS
  alice = alice
  bob = bob
  None = None
  Users <- MCUsers
  Prices <- ThreePrices
  Amounts = {1, 2}
  MaxOffers = 3
  Deposits = {}
  MaxDeposit = 0
  HalfRange = 4
SYMMETRY UserSymmetry
INVARIANTS
  TypeOK
  ActiveOffersRest
  BookNotCrossed
PROPERTIES
  DeadOffersStayDead
  ImplementsOrderBook
