CONSTANTS
  RequestIds = {r1, r2}
  HoldAmounts = {1, 2}
  SettledPrices = {0, 1}
  Credit = 3
  BudgetLimit = 3
  MaxCalls = 6
SPECIFICATION TransactionSpec
CHECK_DEADLOCK FALSE
SYMMETRY Symmetry
INVARIANT BooksAgree
PROPERTY TransactionsImplementContract
