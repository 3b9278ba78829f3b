\* Two runs; any statement may fail.
SPECIFICATION ServerSpec
CONSTANTS
  desk = desk
  phone = phone
  alice = alice
  bob = bob
  one = one
  idName = idName
  usernameName = usernameName
  hashName = hashName
  rowidName = rowidName
  secret = secret
  other = other
  None = None
  NoUser = NoUser
  Users <- TwoIds
  Prices = {1}
  Amounts = {1}
  MaxOffers = 1
  Deposits = {}
  MaxDeposit = 0
  HalfRange = 2
  Usernames <- AllColumns
  Column <- MCColumn
  Number <- MCNumber
  Passwords = {1}
  Clients <- OneClient
  MaxRuns = 2
  MayFail = TRUE
INVARIANTS
  FreshServerServesAll
PROPERTIES
  HistoryKept
CHECK_DEADLOCK FALSE
