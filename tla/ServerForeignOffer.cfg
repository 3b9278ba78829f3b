\* The first run leaves the row of an offer no market ever had.
SPECIFICATION ServerSpec
CONSTANTS
  desk = desk
  phone = phone
  alice = alice
  bob = bob
  one = one
  idName = idName
  usernameName = usernameName
  hashName = hashName
  rowidName = rowidName
  secret = secret
  other = other
  None = None
  NoUser = NoUser
  Users <- ThreeIds
  Prices = {1}
  Amounts = {1, 2}
  MaxOffers = 3
  Deposits = {}
  MaxDeposit = 0
  HalfRange = 2
  Usernames <- MCUsernames
  Column <- MCColumn
  Number <- MCNumber
  Passwords = {1}
  Clients <- OneClient
  MaxRuns = 2
  MayFail = FALSE
INVARIANTS
  StoredOffersReachTheMarket
CHECK_DEADLOCK FALSE
