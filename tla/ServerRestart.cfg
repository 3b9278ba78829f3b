\* Two runs of the server on one database; every statement succeeds.
SPECIFICATION ServerSpec
CONSTANTS
  desk = desk
  phone = phone
  alice = alice
  bob = bob
  one = one
  idName = idName
  usernameName = usernameName
  hashName = hashName
  rowidName = rowidName
  secret = secret
  other = other
  None = None
  NoUser = NoUser
  Users <- TwoIds
  Prices = {1}
  Amounts = {1, 2}
  MaxOffers = 2
  Deposits = {}
  MaxDeposit = 0
  HalfRange = 2
  Usernames <- QuotedNames
  Column <- MCColumn
  Number <- MCNumber
  Passwords <- MCPasswords
  Clients <- MCClients
  MaxRuns = 2
  MayFail = FALSE
SYMMETRY MCSymmetry
INVARIANTS
  ServerTypeOK
  TablesMirrorMarket
  StoredDealsExplainFills
  UsernamesUnique
  ClientsActForThemselves
  UnknownUsersAreOld
CHECK_DEADLOCK FALSE
