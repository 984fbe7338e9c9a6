CONSTANTS
  Requests = {r1, r2, r3}
  GrantKeys = {}
  NoKey = NoKey
  GrantAmounts = {3}
  LotPriorities = {3}
  Expiries <- NeverOnly
  Estimates = {1, 2}
  FinalPrices = {0, 1, 3}
  RefundAmounts = {1}
  CreditAmounts = {}
  DebitAmounts = {1}
  FirstBudgets = {}
  BudgetLimits = {2}
  NoBudget = NoBudget
  MaxLots = 2
  MaxEntries = 6
  MaxTime = 1
  MaxAge = 0
  LateSettlement = FALSE
  WithRebuild = FALSE
SPECIFICATION Spec
CHECK_DEADLOCK FALSE
SYMMETRY Symmetry
INVARIANTS ReservedIsHeld LotsBackHolds AvailableIsBacked
PROPERTY ImplementsContract
