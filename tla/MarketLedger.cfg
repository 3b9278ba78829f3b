\* The ledger: prices of both signs, and an int of six values that overflows.
SPECIFICATION Spec
CONSTANTS
  alice = alice
  bob = bob
  None = None
  Users <- MCUsers
  Prices <- SignedPrices
  Amounts = {1, 2}
  MaxOffers = 3
  Deposits = {1}
  MaxDeposit = 1
  HalfRange = 3
SYMMETRY UserSymmetry
INVARIANTS
  BalancesMatchDeals
  MoneyConserved
