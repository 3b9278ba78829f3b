SPECIFICATION Spec
CONSTANTS
  Amounts <- MCAmounts
  Money <- MCMoney
  IntRange = 8
  LongRange = 16
  Names = {"alice", "bob", "latin"}
  NotUtf8 = {"latin"}
  Passwords = {"p", "q"}
  Hash <- MCHash
  UserIds = {0, 7, 31}
  OldUsers = {7}
  OfferIds = {0, 9}
  MaxReported = 2
INVARIANTS
  OrderedIsDone
  NothingElseThrows
  ShownIsAnswered
CHECK_DEADLOCK FALSE
