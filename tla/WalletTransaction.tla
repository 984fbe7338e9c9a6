--------------------------- MODULE WalletTransaction ---------------------------
(***************************************************************************)
(* The wallet handlers again, one repository call at a time.  CreditWallet *)
(* takes a handler for one step; the repository the gateway is built with  *)
(* has a withTransaction that runs the handler's body as it stands, and    *)
(* every await lets the handler of another request in.  Here a handler is  *)
(* a program of repository calls, reads go into the handler's own copies,  *)
(* and writes store values computed from those copies, whatever was stored *)
(* in between.  A book (the lot, the balance, the budget) is torn once a   *)
(* copy that another handler has outdated was stored over it: that happens *)
(* in this code, and the module is about what holds all the same.          *)
(*                                                                         *)
(* The handlers of ONE request do not overlap: the gateway awaits each     *)
(* before it calls the next.  (Overlapping calls of one request are        *)
(* GatewayRequest's, a settlement after the sweep CreditWallet's.)  One    *)
(* lot, one wallet and one budget are enough to see two handlers meet;     *)
(* prices stay within the estimate: a settlement takes its first branch.   *)
(***************************************************************************)
EXTENDS Integers, Sequences, FiniteSets, Functions

CONSTANTS
  RequestIds,     \* gateway request ids
  HoldAmounts,    \* estimated prices, the amounts held
  SettledPrices,  \* final prices
  Credit,         \* what the wallet was granted
  BudgetLimit,    \* hard limit of the workspace
  MaxCalls        \* bound: handlers ever started

Parameters ==
  /\ IsFiniteSet(RequestIds)
  /\ Credit \in Nat /\ BudgetLimit \in Nat /\ MaxCalls \in Nat
  /\ HoldAmounts \subseteq Nat \ {0} /\ SettledPrices \subseteq Nat
  /\ \A p \in SettledPrices, e \in HoldAmounts : p <= e

ASSUME TransactionAssumption == Parameters

VARIABLES
  storedBalance,  \* the stored balance
  lot,            \* the stored credit lot
  storedBudget,   \* the stored workspace budget
  storedRes,      \* the stored reservation of each request
  charges,        \* amounts of the usage_settlement entries of each request
  call,           \* the running handler of each request, with its copies
  started,        \* how many handlers have started
  torn            \* history: the books an outdated copy was stored over

stores == <<storedBalance, lot, storedBudget, storedRes, charges>>
transactionVars == <<storedBalance, lot, storedBudget, storedRes, charges, call, started, torn>>

Kinds == {"authorize", "settle", "release"}

(* The repository calls of each handler, in the order of the code.         *)
Program(kind) ==
  IF kind = "authorize"
  THEN <<"lookup", "readBudget", "readBalance", "readLot", "saveLot",
         "saveReservation", "saveBalance", "saveBudget", "append">>
  ELSE <<"lookup", "readBalance", "readLot", "saveLot", "saveBalance",
         "readBudget", "saveBudget", "append", "saveReservation">>

Idle == [kind |-> "idle", step |-> 0, amount |-> 0, held |-> 0,
         balance |-> [available |-> 0, reserved |-> 0, total |-> 0],
         lot |-> [remaining |-> 0, reserved |-> 0],
         budget |-> [spent |-> 0, reserved |-> 0]]

Running(r) == call[r] # Idle
At(r, kinds, op) ==
  /\ call[r].kind \in kinds
  /\ Program(call[r].kind)[call[r].step] = op

(* The handler's next call, with its copies as in k; or its return.        *)
Return(r) == call' = [call EXCEPT ![r] = Idle]
Continue(r, k) ==
  call' = [call EXCEPT ![r] =
             IF k.step = Len(Program(k.kind)) THEN Idle ELSE [k EXCEPT !.step = @ + 1]]

(* The history of a save: was the copy it was computed from outdated?      *)
Tears(book, copy, stored) ==
  torn' = IF copy = stored THEN torn ELSE torn \cup {book}

AtLeastZero(x) == IF x < 0 THEN 0 ELSE x

TransactionInit ==
  /\ storedBalance = [available |-> Credit, reserved |-> 0, total |-> Credit]
  /\ lot = [remaining |-> Credit, reserved |-> 0]
  /\ storedBudget = [spent |-> 0, reserved |-> 0]
  /\ storedRes = [r \in RequestIds |-> [status |-> "none", amount |-> 0]]
  /\ charges = [r \in RequestIds |-> << >>]
  /\ call = [r \in RequestIds |-> Idle]
  /\ started = 0
  /\ torn = {}

-----------------------------------------------------------------------------
(* A handler enters withTransaction, which keeps nobody out: only another  *)
(* handler of the same request must have returned.  A settlement that      *)
(* starts after the release is CreditWallet's LateSettlement.              *)
Enter(r, kind, amount) ==
  /\ ~Running(r)
  /\ kind = "settle" => storedRes[r].status \in {"active", "settled"}
  /\ kind = "release" => storedRes[r].status # "none"
  /\ started < MaxCalls
  /\ started' = started + 1
  /\ call' = [call EXCEPT ![r] = [Idle EXCEPT !.kind = kind, !.step = 1, !.amount = amount]]
  /\ UNCHANGED <<stores, torn>>

-----------------------------------------------------------------------------
(* Faulty variant: a settled reservation settles again.                    *)
GoesOnWhenSettled(kind) ==
  IF kind = "authorize" THEN {"none"} ELSE {"active", "released", "settled"}

(* getReservationByRequestId or getReservationById, with the early returns *)
(* on the status.                                                          *)
GoesOn(kind) == IF kind = "authorize" THEN {"none"}
                ELSE IF kind = "settle" THEN {"active", "released"} ELSE {"active"}

Lookup(r) ==
  /\ At(r, Kinds, "lookup")
  /\ IF storedRes[r].status \in GoesOn(call[r].kind)
     THEN Continue(r, [call[r] EXCEPT !.held = storedRes[r].amount])
     ELSE Return(r)
  /\ UNCHANGED <<stores, started, torn>>

(* getWorkspaceBudget: authorizeBilling denies over the hard limit.        *)
ReadBudget(r) ==
  /\ At(r, Kinds, "readBudget")
  /\ IF call[r].kind = "authorize"
        /\ storedBudget.spent + storedBudget.reserved + call[r].amount > BudgetLimit
     THEN Return(r)
     ELSE Continue(r, [call[r] EXCEPT !.budget = storedBudget])
  /\ UNCHANGED <<stores, started, torn>>

(* getWalletBalance: authorizeBilling denies what is not available.        *)
ReadBalance(r) ==
  /\ At(r, Kinds, "readBalance")
  /\ IF call[r].kind = "authorize" /\ storedBalance.available < call[r].amount
     THEN Return(r)
     ELSE Continue(r, [call[r] EXCEPT !.balance = storedBalance])
  /\ UNCHANGED <<stores, started, torn>>

(* getActiveCreditLots and the allocator, which throws when the lots are   *)
(* short; getCreditLotById for the other two handlers.                     *)
ReadLot(r) ==
  /\ At(r, Kinds, "readLot")
  /\ IF call[r].kind = "authorize" /\ lot.remaining - lot.reserved < call[r].amount
     THEN Return(r)
     ELSE Continue(r, [call[r] EXCEPT !.lot = lot])
  /\ UNCHANGED <<stores, started, torn>>

-----------------------------------------------------------------------------
(* The writes: each stores the handler's copy with its own change applied. *)

SaveLot(r) ==
  LET k == call[r] IN
  /\ At(r, Kinds, "saveLot")
  /\ lot' = IF k.kind = "authorize" THEN [k.lot EXCEPT !.reserved = @ + k.amount]
            ELSE IF k.kind = "settle"
            THEN [remaining |-> k.lot.remaining - k.amount,
                  reserved |-> k.lot.reserved - k.held]
            ELSE [k.lot EXCEPT !.reserved = @ - k.held]
  /\ Tears("lot", k.lot, lot)
  /\ Continue(r, k)
  /\ UNCHANGED <<storedBalance, storedBudget, storedRes, charges, started>>

SaveWalletBalance(r) ==
  LET k == call[r]
      freed == IF k.kind = "settle" THEN k.held - k.amount ELSE k.held
  IN
  /\ At(r, Kinds, "saveBalance")
  /\ storedBalance' =
       IF k.kind = "authorize"
       THEN [k.balance EXCEPT !.available = AtLeastZero(@ - k.amount), !.reserved = @ + k.amount]
       ELSE [available |-> k.balance.available + freed,
             reserved |-> AtLeastZero(k.balance.reserved - k.held),
             total |-> AtLeastZero(k.balance.total - (k.held - freed))]
  /\ Tears("balance", k.balance, storedBalance)
  /\ Continue(r, k)
  /\ UNCHANGED <<lot, storedBudget, storedRes, charges, started>>

(* Faulty variant: a release leaves the budget as it is.                   *)
SaveBudgetUnlessReleased(r) ==
  LET k == call[r] IN
  /\ At(r, Kinds, "saveBudget")
  /\ storedBudget' = IF k.kind = "authorize" THEN [k.budget EXCEPT !.reserved = @ + k.amount]
                     ELSE IF k.kind = "settle"
                     THEN [spent |-> k.budget.spent + k.amount,
                           reserved |-> k.budget.reserved - k.held]
                     ELSE k.budget
  /\ Tears("budget", k.budget, storedBudget)
  /\ Continue(r, k)
  /\ UNCHANGED <<storedBalance, lot, storedRes, charges, started>>

SaveBudget(r) ==
  LET k == call[r] IN
  /\ At(r, Kinds, "saveBudget")
  /\ storedBudget' = IF k.kind = "authorize" THEN [k.budget EXCEPT !.reserved = @ + k.amount]
                     ELSE IF k.kind = "settle"
                     THEN [spent |-> k.budget.spent + k.amount,
                           reserved |-> k.budget.reserved - k.held]
                     ELSE [k.budget EXCEPT !.reserved = @ - k.held]
  /\ Tears("budget", k.budget, storedBudget)
  /\ Continue(r, k)
  /\ UNCHANGED <<storedBalance, lot, storedRes, charges, started>>

(* appendLedgerEntry: a settlement charges a price above zero; the other   *)
(* entries are not kept here.                                              *)
AppendEntry(r) ==
  LET k == call[r] IN
  /\ At(r, Kinds, "append")
  /\ charges' = IF k.kind = "settle" /\ k.amount > 0
                THEN [charges EXCEPT ![r] = Append(@, k.amount)]
                ELSE charges
  /\ Continue(r, k)
  /\ UNCHANGED <<storedBalance, lot, storedBudget, storedRes, started, torn>>

Outcome(k) == IF k.kind = "authorize" THEN "active"
              ELSE IF k.kind = "settle" THEN "settled" ELSE "released"

SaveReservation(r) ==
  LET k == call[r] IN
  /\ At(r, Kinds, "saveReservation")
  /\ storedRes' = [storedRes EXCEPT ![r] =
                     [status |-> Outcome(k),
                      amount |-> IF k.kind = "authorize" THEN k.amount ELSE k.held]]
  /\ Continue(r, k)
  /\ UNCHANGED <<storedBalance, lot, storedBudget, charges, started, torn>>

Handler(r) ==
  \/ Lookup(r)
  \/ ReadBudget(r)
  \/ ReadBalance(r)
  \/ ReadLot(r)
  \/ SaveLot(r)
  \/ SaveWalletBalance(r)
  \/ SaveBudget(r)
  \/ AppendEntry(r)
  \/ SaveReservation(r)

TransactionNext ==
  \E r \in RequestIds :
    \/ \E est \in HoldAmounts : Enter(r, "authorize", est)
    \/ \E price \in SettledPrices : Enter(r, "settle", price)
    \/ Enter(r, "release", 0)
    \/ Handler(r)

TransactionSpec == TransactionInit /\ [][TransactionNext]_transactionVars
-----------------------------------------------------------------------------
(* Properties *)

Quiescent == \A r \in RequestIds : ~Running(r)

HeldByRequests ==
  SumFunction([r \in RequestIds |-> IF storedRes[r].status = "active" THEN storedRes[r].amount ELSE 0])
ChargedAmount == SumFunction([r \in RequestIds |-> SumFunction(charges[r])])

(* Interleaved handlers can hurt a book in one way only, by storing an     *)
(* outdated copy over it, and no further than that book: between handlers  *)
(* every book no such copy was stored over reserves the active holds and   *)
(* has lost what the ledger charged, and the check its handlers made       *)
(* (against the credit, or the hard limit) still bounds the two together.  *)
BooksAgree ==
  Quiescent =>
    /\ "lot" \notin torn =>
         /\ lot.reserved = HeldByRequests /\ Credit - lot.remaining = ChargedAmount
         /\ HeldByRequests + ChargedAmount <= Credit
    /\ "balance" \notin torn =>
         /\ storedBalance.reserved = HeldByRequests
         /\ Credit - storedBalance.total = ChargedAmount
         /\ storedBalance.available = storedBalance.total - storedBalance.reserved
         /\ HeldByRequests + ChargedAmount <= Credit
    /\ "budget" \notin torn =>
         /\ storedBudget.reserved = HeldByRequests /\ storedBudget.spent = ChargedAmount
         /\ HeldByRequests + ChargedAmount <= BudgetLimit

(* However the handlers of other requests interleave with its calls, each  *)
(* handler is one step of the billing contract: it takes effect with its   *)
(* ledger entry, or with the stored reservation when that comes first.     *)
Phase(r) ==
  IF At(r, {"settle", "release"}, "saveReservation") THEN Outcome(call[r])
  ELSE storedRes[r].status

Billing == INSTANCE BillingContract WITH
  Requests <- RequestIds,
  phase <- [r \in RequestIds |-> Phase(r)],
  billed <- [r \in RequestIds |-> charges[r] # << >>]

TransactionsImplementContract == Billing!Spec
=============================================================================
