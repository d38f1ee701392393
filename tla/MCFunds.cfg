SPECIFICATION FundsSpec
CONSTANTS
  MaxSupplementary = 2
  MaxUint64 = 4
  MaxTotal = 10
INVARIANTS
  VerdictsAreExact
  BalancesAreExact
CHECK_DEADLOCK FALSE
