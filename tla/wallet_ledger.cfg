CONSTANTS
  Requests = {r1, r2}
  GrantKeys = {g1}
  NoKey = NoKey
  GrantAmounts = {2}
  LotPriorities = {3}
  Expiries = {1}
  Estimates = {1, 2}
  FinalPrices = {0, 1}
  RefundAmounts = {}
  CreditAmounts = {1}
  DebitAmounts = {}
  FirstBudgets = {2}
  BudgetLimits = {}
  NoBudget = NoBudget
  MaxLots = 3
  MaxEntries = 5
  MaxTime = 2
  MaxAge = 0
  LateSettlement = FALSE
  WithRebuild = TRUE
SPECIFICATION Spec
CHECK_DEADLOCK FALSE
SYMMETRY Symmetry
INVARIANTS ZeroDrift GrantedOncePerKey BudgetTracksHolds
