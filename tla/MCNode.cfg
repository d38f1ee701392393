SPECIFICATION Spec
CONSTANTS
  w1 = w1
  w2 = w2
  Address = {w1, w2}
  Trx <- MCTrx
  Caller = {c1, c2}
  Nothing = Nothing
  MaxEvictions = 1
  MaxRequests = 3
  MaxUnasked = 1
SYMMETRY Callers
INVARIANTS
  ListsCover
  NoSilentLoss
  BalanceIsExplained
CHECK_DEADLOCK FALSE
