----------------------------- MODULE CreditWallet -----------------------------
(***************************************************************************)
(* The prepaid wallet of one organization, as credit-service keeps it:     *)
(* credit lots, reservations (one per gateway request), the materialized   *)
(* balance, one workspace budget, the append-only ledger, and the two      *)
(* sweeps (stale reservations, expired lots) that run beside the gateway.  *)
(*                                                                         *)
(* Every handler runs inside repository.withTransaction and awaits nothing *)
(* but the repository, and a handler is one atomic action here: this is    *)
(* the wallet over a repository whose transactions are isolated.  The one  *)
(* repository in the code does not isolate them; WalletTransaction is about*)
(* handlers whose repository calls interleave.  The sweeps list their      *)
(* candidates OUTSIDE any transaction and then open one transaction per    *)
(* candidate: the list is a variable, each candidate is a step of its own, *)
(* and any handler may run in between.  A wallet is created with credit    *)
(* limit zero and allowNegative false, and nothing in the code changes it. *)
(*                                                                         *)
(* Money is a natural number of indivisible units (Decimal is exact).      *)
(* Lot ids are numbered in grant order, the order grantedAt gives them.    *)
(***************************************************************************)
EXTENDS Integers, Sequences, FiniteSets, Functions

CONSTANTS
  Requests,         \* gateway request ids
  GrantKeys,        \* idempotency keys of grants, refunds and adjustments
  NoKey,            \* the caller passed no idempotency key
  GrantAmounts,     \* amounts a grant may carry
  LotPriorities,    \* lotTypePriority of granted lots
  Expiries,         \* expiry times a grant may carry (Never included)
  Estimates,        \* estimated prices; 0 is a free request
  FinalPrices,      \* final customer prices
  RefundAmounts,    \* amounts of refundCredits
  CreditAmounts,    \* amounts of credit adjustments
  DebitAmounts,     \* amounts of debit adjustments
  FirstBudgets,     \* hard limits the workspace may start with
  BudgetLimits,     \* hard limits setWorkspaceBudget may install
  NoBudget,         \* "the workspace has no enabled budget"
  MaxLots,          \* bound: lots ever created
  MaxEntries,       \* bound: ledger length, reached before a settlement adds two
  MaxTime,          \* bound: clock
  MaxAge,           \* age after which a reservation counts as stale
  LateSettlement,   \* may a settlement arrive after the release of its hold?
  WithRebuild       \* is the reconciliation worker running?

ASSUME WalletAssumption ==
  /\ GrantAmounts \subseteq Nat \ {0}
  /\ LotPriorities \subseteq 0..5
  /\ Estimates \subseteq Nat /\ FinalPrices \subseteq Nat
  /\ RefundAmounts \subseteq Nat \ {0}
  /\ CreditAmounts \subseteq Nat \ {0} /\ DebitAmounts \subseteq Nat \ {0}
  /\ FirstBudgets \subseteq Nat /\ BudgetLimits \subseteq Nat
  /\ MaxLots \in Nat /\ MaxEntries \in Nat /\ MaxTime \in Nat /\ MaxAge \in Nat
  /\ Expiries \subseteq 0..(MaxTime + 1)
  /\ LateSettlement \in BOOLEAN /\ WithRebuild \in BOOLEAN
  /\ NoBudget \notin [limit: Nat, spent: Int, reserved: Int]
  /\ NoKey \notin GrantKeys

VARIABLES
  walletStatus,  \* Wallet.status
  balance,       \* WalletBalance: the materialized projection
  lots,          \* credit lots by id; an id not issued yet holds NoLot
  res,           \* the reservation of each request, with its allocations
  budget,        \* WorkspaceBudget, or NoBudget
  ledger,        \* WalletLedgerEntry sequence, in append order
  projected,     \* running replay of the ledger, before the final clamps
  now,           \* wall clock
  stale,         \* reservations the stale sweep has listed, not yet visited
  expired        \* lots the expiration sweep has listed, not yet visited

vars == <<walletStatus, balance, lots, res, budget, ledger,
          projected, now, stale, expired>>

-----------------------------------------------------------------------------
(* Types *)

LotId == 1..MaxLots
Never == MaxTime + 1           \* expiresAt = null: later than any clock value

Lot == [priority: 0..5, expiresAt: 0..Never,
        original: Nat, remaining: Int, reserved: Int]
NoLot == [priority |-> 0, expiresAt |-> 0,
          original |-> 0, remaining |-> 0, reserved |-> 0]

Reservation == [status: {"none", "active", "settled", "released"},
                amount: Nat, createdAt: Nat, alloc: [LotId -> Nat]]
NoReservation == [status |-> "none", amount |-> 0, createdAt |-> 0,
                  alloc |-> [l \in LotId |-> 0]]

EntryTypes == {"credit_grant", "refund", "adjustment_credit",
               "adjustment_debit", "expiration", "reservation",
               "reservation_release", "usage_settlement"}

(* What an entry is found by: the request of a reservation's entries, the  *)
(* idempotency key of grants, refunds and adjustments.  (The former carry  *)
(* no key, or one their worker makes up from the reservation's id.)        *)
Entry(type, amount, ref, seq) ==
  [entryType |-> type, amount |-> amount, referenceId |-> ref, sequence |-> seq]

Keys == GrantKeys \cup {NoKey}
RefIds == Requests \cup Keys \cup {"expiration"}
Entries == [entryType: EntryTypes, amount: Nat, sequence: Nat, referenceId: RefIds]

Balances == [available: Nat, reserved: Nat, total: Int, version: Nat]
Totals == [available: Int, reserved: Int, total: Int]
Budget == [limit: Nat, spent: Int, reserved: Int]

-----------------------------------------------------------------------------
(* Helpers *)

(* The Decimal clamp `x.lt(ZERO) ? ZERO : x`. *)
NonNeg(x) == IF x < 0 THEN 0 ELSE x

Issued(l) == lots[l].original > 0
Unreserved(l) == lots[l].remaining - lots[l].reserved
Unexpired(l) == lots[l].expiresAt > now

(* consumptionOrder: earliest expiry, then lot type, then grant order.     *)
Before(l, m) ==
  \/ lots[l].expiresAt < lots[m].expiresAt
  \/ /\ lots[l].expiresAt = lots[m].expiresAt
     /\ \/ lots[l].priority < lots[m].priority
        \/ lots[l].priority = lots[m].priority /\ l < m

(* The ways to take amount out of the lots, at most cap[l] from lot l, in  *)
(* consumption order: a lot gives only when every earlier lot gave all it  *)
(* could.  At most one function qualifies; none when the caps are short,   *)
(* which is where allocateCreditLots throws.                               *)
Spread(amount, cap) ==
  {a \in [LotId -> 0..amount] :
     /\ \A l \in LotId : a[l] <= cap[l]
     /\ SumFunction(a) = amount
     /\ \A l, m \in LotId : Before(l, m) /\ a[m] > 0 => a[l] = cap[l]}

(* Faulty variant: the allocator forgets what other requests hold.         *)
AllocatableIgnoringHolds ==
  [l \in LotId |-> IF Unexpired(l) THEN lots[l].remaining ELSE 0]

(* What the allocator may take from each lot now.                          *)
Allocatable ==
  [l \in LotId |-> IF Unexpired(l) /\ Unreserved(l) > 0 THEN Unreserved(l) ELSE 0]

(* The effect of one ledger entry on the replayed balance.                 *)
Inflow == {"credit_grant", "refund", "adjustment_credit"}
Outflow == {"adjustment_debit", "expiration"}

Delta(e, plus, minus) ==
  IF e.entryType \in plus THEN e.amount
  ELSE IF e.entryType \in minus THEN -e.amount ELSE 0

(* Faulty variant: a settlement does not consume the reserved balance.     *)
ReplayKeepsReserved(p, e) ==
  [available |-> p.available + Delta(e, Inflow \cup {"reservation_release"},
                                        Outflow \cup {"reservation"}),
   reserved |-> p.reserved + Delta(e, {"reservation"}, {"reservation_release"}),
   total |-> p.total + Delta(e, Inflow, Outflow \cup {"usage_settlement"})]

Replay(p, e) ==
  [available |-> p.available + Delta(e, Inflow \cup {"reservation_release"},
                                        Outflow \cup {"reservation"}),
   reserved |-> p.reserved + Delta(e, {"reservation"},
                                      {"reservation_release", "usage_settlement"}),
   total |-> p.total + Delta(e, Inflow, Outflow \cup {"usage_settlement"})]

(* appendLedgerEntry; projected follows.                                   *)
Room == Len(ledger) < MaxEntries

Post(e) == /\ Room
           /\ ledger' = Append(ledger, e)
           /\ projected' = Replay(projected, e)

(* saveWalletBalance: every handler saves the version it read plus one.    *)
SaveBalance(available, reserved, total) ==
  balance' = [available |-> available, reserved |-> NonNeg(reserved),
              total |-> NonNeg(total), version |-> balance.version + 1]

NextSequence == balance.version + 1

(* saveCreditLot for the next lot id.                                      *)
IssueLot(amount, priority, expiry) ==
  \E l \in LotId :
    /\ ~Issued(l)
    /\ \A k \in LotId : k < l => Issued(k)
    /\ lots' = [lots EXCEPT ![l] =
         [priority |-> priority, expiresAt |-> expiry, original |-> amount,
          remaining |-> amount, reserved |-> 0]]

ChangeBudget(spent, reserved) ==
  budget' = IF budget = NoBudget THEN NoBudget
            ELSE [budget EXCEPT !.spent = @ + spent, !.reserved = @ + reserved]

-----------------------------------------------------------------------------
(* The wallet after getOrCreateWallet: zero balance at version 1.          *)

Init ==
  /\ walletStatus = "active"
  /\ balance = [available |-> 0, reserved |-> 0, total |-> 0, version |-> 1]
  /\ lots = [l \in LotId |-> NoLot]
  /\ res = [r \in Requests |-> NoReservation]
  /\ budget \in {NoBudget} \cup
       [limit: FirstBudgets, spent: {0}, reserved: {0}]
  /\ ledger = << >>
  /\ projected = [available |-> 0, reserved |-> 0, total |-> 0]
  /\ now = 0
  /\ stale = {}
  /\ expired = {}

-----------------------------------------------------------------------------
(* Faulty variant: the latest entry with the key is looked up.             *)
LatestIsGrant(L, key) ==
  \E i \in 1..Len(L) :
    /\ L[i].referenceId = key /\ L[i].entryType = "credit_grant"
    /\ \A j \in i + 1..Len(L) : L[j].referenceId # key

(* getLedgerEntryByIdempotencyKey returns the first entry of any type; the *)
(* reference of a grant is a lot, that of a refund or adjustment is not.   *)
FindsGrant(L, key) ==
  \E i \in 1..Len(L) :
    /\ L[i].referenceId = key /\ L[i].entryType = "credit_grant"
    /\ \A j \in 1..(i - 1) : L[j].referenceId # key

(* grantCredits: a key under which a lot is found returns that grant; one  *)
(* a refund or an adjustment came first with grants at every call.         *)
GrantCredits(key, amount, priority, expiry) ==
  /\ walletStatus # "closed"
  /\ key = NoKey \/ ~FindsGrant(ledger, key)
  /\ IssueLot(amount, priority, expiry)
  /\ SaveBalance(balance.available + amount, balance.reserved, balance.total + amount)
  /\ Post(Entry("credit_grant", amount, key, NextSequence))
  /\ UNCHANGED <<walletStatus, res, budget, now, stale, expired>>

(* Faulty variant of the budget check: only what is already spent counts.  *)
OverSpent(est) == budget # NoBudget /\ budget.spent + est > budget.limit

(* authorizeBilling.  A request that already has a reservation, whatever   *)
(* its status, gets that one back; a frozen wallet, an exhausted budget or *)
(* too little available credit is a denial; a free request is authorized   *)
(* without a reservation: none of these changes the wallet (their audit    *)
(* record, which nothing reads back, is not modelled).                     *)
OverBudget(est) ==
  budget # NoBudget /\ budget.spent + budget.reserved + est > budget.limit

AuthorizeBilling(r, est) ==
  /\ res[r].status = "none"
  /\ walletStatus = "active"
  /\ ~OverBudget(est)
  /\ est > 0
  /\ balance.available >= est
  /\ \E a \in Spread(est, Allocatable) :
       /\ lots' = [l \in LotId |-> [lots[l] EXCEPT !.reserved = @ + a[l]]]
       /\ res' = [res EXCEPT ![r] = [status |-> "active", amount |-> est,
                                     createdAt |-> now, alloc |-> a]]
  /\ SaveBalance(NonNeg(balance.available - est), balance.reserved + est, balance.total)
  /\ ChangeBudget(0, est)
  /\ Post(Entry("reservation", est, r, NextSequence))
  /\ UNCHANGED <<walletStatus, now, stale, expired>>

-----------------------------------------------------------------------------
(* Faulty variant: a hold that was given back settles.                     *)
CanSettleReleased(r) == res[r].status \in {"active", "released"}

(* settleReservation returns early only for a settled reservation.  The    *)
(* constant LateSettlement is the assumption about its callers: whether a  *)
(* settlement may come after the hold was released.                        *)
CanSettle(r) ==
  \/ res[r].status = "active"
  \/ LateSettlement /\ res[r].status = "released"

Settled(r) == res' = [res EXCEPT ![r].status = "settled"]

(* final <= reserved: consume the price lot by lot, release the rest.  The *)
(* release entry takes the sequence after the saved version.               *)
SettleWithin(r, price) ==
  LET held == res[r].amount
      freed == held - price
      post == Entry("usage_settlement", price, r, NextSequence)
      release == Entry("reservation_release", freed, r, NextSequence + 1)
  IN
  /\ CanSettle(r)
  /\ price <= held
  /\ \E c \in Spread(price, res[r].alloc) :
       lots' = [l \in LotId |-> [lots[l] EXCEPT
                  !.reserved = @ - res[r].alloc[l], !.remaining = @ - c[l]]]
  /\ SaveBalance(balance.available + freed, balance.reserved - held, balance.total - price)
  /\ ChangeBudget(price, -held)
  /\ \/ price > 0 /\ freed > 0
        /\ ledger' = Append(Append(ledger, post), release)
        /\ projected' = Replay(Replay(projected, post), release)
     \/ price > 0 /\ freed = 0 /\ Post(post)
     \/ price = 0 /\ Post(release)
  /\ Settled(r)
  /\ UNCHANGED <<walletStatus, now, stale, expired>>

(* Faulty variant: the lots are consumed but stay reserved.                *)
ConsumeButKeepHold(r) ==
  lots' = [l \in LotId |-> [lots[l] EXCEPT !.remaining = @ - res[r].alloc[l]]]

(* Both overage branches consume the allocated lots whole and leave the    *)
(* budget as it is.                                                        *)
ConsumeAllocations(r) ==
  lots' = [l \in LotId |-> [lots[l] EXCEPT !.reserved = @ - res[r].alloc[l],
                                           !.remaining = @ - res[r].alloc[l]]]

(* final > reserved and the balance covers the extra: debit it all.        *)
SettleOverage(r, price) ==
  LET extra == price - res[r].amount IN
  /\ CanSettle(r)
  /\ extra > 0
  /\ balance.available >= extra
  /\ ConsumeAllocations(r)
  /\ SaveBalance(balance.available - extra, balance.reserved - res[r].amount,
                 balance.total - price)
  /\ Post(Entry("usage_settlement", price, r, NextSequence))
  /\ Settled(r)
  /\ UNCHANGED <<walletStatus, budget, now, stale, expired>>

(* final > reserved and the balance does not: charge what was reserved and *)
(* file a shortfall.                                                       *)
SettleShortfall(r, price) ==
  LET extra == price - res[r].amount IN
  /\ CanSettle(r)
  /\ extra > 0
  /\ balance.available < extra
  /\ ConsumeAllocations(r)
  /\ SaveBalance(balance.available, balance.reserved - res[r].amount,
                 balance.total - res[r].amount)
  /\ Post(Entry("usage_settlement", res[r].amount, r, NextSequence))
  /\ Settled(r)
  /\ UNCHANGED <<walletStatus, budget, now, stale, expired>>

SettleReservation(r, price) ==
  SettleWithin(r, price) \/ SettleOverage(r, price) \/ SettleShortfall(r, price)

-----------------------------------------------------------------------------
(* Faulty variant: the status of the reservation is not looked at.         *)
ReleaseHoldAnyStatus(r) ==
  LET held == res[r].amount IN
  /\ res[r].status # "none"
  /\ lots' = [l \in LotId |-> [lots[l] EXCEPT !.reserved = @ - res[r].alloc[l]]]
  /\ SaveBalance(balance.available + held, balance.reserved - held, balance.total)
  /\ ChangeBudget(0, -held)
  /\ Post(Entry("reservation_release", held, r, NextSequence))
  /\ res' = [res EXCEPT ![r].status = "released"]
  /\ UNCHANGED <<walletStatus, now, expired>>

(* releaseReservation on an active hold; a released one is returned as it  *)
(* is and a settled one is refused, both without effect.                   *)
ReleaseHold(r) ==
  LET held == res[r].amount IN
  /\ res[r].status = "active"
  /\ lots' = [l \in LotId |-> [lots[l] EXCEPT !.reserved = @ - res[r].alloc[l]]]
  /\ SaveBalance(balance.available + held, balance.reserved - held, balance.total)
  /\ ChangeBudget(0, -held)
  /\ Post(Entry("reservation_release", held, r, NextSequence))
  /\ res' = [res EXCEPT ![r].status = "released"]
  /\ UNCHANGED <<walletStatus, now, expired>>

ReleaseReservation(r) == ReleaseHold(r) /\ UNCHANGED stale

(* StaleReservationWorker: list outside the transaction, release one by    *)
(* one; a reservation that is no longer active is skipped.                 *)
ListStale ==
  /\ stale = {}
  /\ stale' = {r \in Requests : res[r].status = "active"
                                /\ res[r].createdAt < now - MaxAge}
  /\ UNCHANGED <<walletStatus, balance, lots, res, budget, ledger,
                 projected, now, expired>>

VisitStale(r) ==
  /\ r \in stale
  /\ stale' = stale \ {r}
  /\ \/ ReleaseHold(r)
     \/ /\ res[r].status # "active"
        /\ UNCHANGED <<walletStatus, balance, lots, res, budget,
                       ledger, projected, now, expired>>

(* CreditExpirationWorker: list, then debit the unreserved rest of each    *)
(* listed lot from a fresh copy.                                           *)
ListExpired ==
  /\ expired = {}
  /\ expired' = {l \in LotId : Issued(l) /\ ~Unexpired(l)
                               /\ lots[l].remaining > 0 /\ Unreserved(l) > 0}
  /\ UNCHANGED <<walletStatus, balance, lots, res, budget, ledger,
                 projected, now, stale>>

VisitExpired(l) ==
  /\ l \in expired
  /\ expired' = expired \ {l}
  /\ \/ /\ Unreserved(l) > 0
        /\ lots' = [lots EXCEPT ![l].remaining = @ - Unreserved(l)]
        /\ SaveBalance(NonNeg(balance.available - Unreserved(l)),
                       balance.reserved, balance.total - Unreserved(l))
        /\ Post(Entry("expiration", Unreserved(l), "expiration", NextSequence))
     \/ /\ Unreserved(l) <= 0
        /\ UNCHANGED <<lots, balance, ledger, projected>>
  /\ UNCHANGED <<walletStatus, res, budget, now, stale>>

-----------------------------------------------------------------------------
(* refundCredits: a new lot that never expires.  Refunds and adjustments   *)
(* store the caller's idempotency key and never look it up.                *)
RefundCredits(key, amount) ==
  /\ IssueLot(amount, 4, Never)
  /\ SaveBalance(balance.available + amount, balance.reserved, balance.total + amount)
  /\ Post(Entry("refund", amount, key, NextSequence))
  /\ UNCHANGED <<walletStatus, res, budget, now, stale, expired>>

(* applyAdjustment: a credit is a new lot, a debit leaves the lots alone.  *)
AdjustCredit(key, amount) ==
  /\ IssueLot(amount, 5, Never)
  /\ SaveBalance(balance.available + amount, balance.reserved, balance.total + amount)
  /\ Post(Entry("adjustment_credit", amount, key, NextSequence))
  /\ UNCHANGED <<walletStatus, res, budget, now, stale, expired>>

AdjustDebit(key, amount) ==
  /\ balance.available >= amount
  /\ SaveBalance(NonNeg(balance.available - amount), balance.reserved,
                 balance.total - amount)
  /\ Post(Entry("adjustment_debit", amount, key, NextSequence))
  /\ UNCHANGED <<walletStatus, lots, res, budget, now, stale, expired>>

(* freezeWallet, unfreezeWallet.                                           *)
SetStatus(status) ==
  /\ walletStatus # status
  /\ walletStatus' = status
  /\ UNCHANGED <<balance, lots, res, budget, ledger, projected, now,
                 stale, expired>>

(* rebuildBalance: the replay, clamped, replaces the materialized balance. *)
RebuildBalance ==
  /\ WithRebuild
  /\ balance' = [available |-> NonNeg(projected.available),
                 reserved |-> NonNeg(projected.reserved),
                 total |-> projected.total, version |-> Len(ledger)]
  /\ UNCHANGED <<walletStatus, lots, res, budget, ledger, projected,
                 now, stale, expired>>

(* setWorkspaceBudget stores the caller's record: a new period starts at 0 *)
SetWorkspaceBudget(limit) ==
  /\ budget' = [limit |-> limit, spent |-> 0, reserved |-> 0]
  /\ UNCHANGED <<walletStatus, balance, lots, res, ledger, projected,
                 now, stale, expired>>

Tick ==
  /\ now < MaxTime
  /\ now' = now + 1
  /\ UNCHANGED <<walletStatus, balance, lots, res, budget, ledger,
                 projected, stale, expired>>

-----------------------------------------------------------------------------
Next ==
  \/ \E k \in Keys, a \in GrantAmounts, p \in LotPriorities, e \in Expiries :
       GrantCredits(k, a, p, e)
  \/ \E r \in Requests, est \in Estimates :
       AuthorizeBilling(r, est)
  \/ \E r \in Requests, price \in FinalPrices : SettleReservation(r, price)
  \/ \E r \in Requests : ReleaseReservation(r) \/ VisitStale(r)
  \/ ListStale
  \/ ListExpired
  \/ \E l \in LotId : VisitExpired(l)
  \/ \E k \in Keys, a \in RefundAmounts : RefundCredits(k, a)
  \/ \E k \in Keys, a \in CreditAmounts : AdjustCredit(k, a)
  \/ \E k \in Keys, a \in DebitAmounts : AdjustDebit(k, a)
  \/ \E s \in {"active", "frozen"} : SetStatus(s)
  \/ RebuildBalance
  \/ \E limit \in BudgetLimits : SetWorkspaceBudget(limit)
  \/ Tick

Spec == Init /\ [][Next]_vars
-----------------------------------------------------------------------------
(* Properties *)

(* Every variable holds a value of its type; balances never go negative.   *)
TypeOK ==
  /\ walletStatus \in {"active", "frozen", "closed"}
  /\ balance \in Balances
  /\ lots \in [LotId -> Lot]
  /\ res \in [Requests -> Reservation]
  /\ budget \in Budget \cup {NoBudget}
  /\ ledger \in Seq(Entries)
  /\ projected \in Totals
  /\ now \in 0..MaxTime
  /\ stale \subseteq Requests
  /\ expired \subseteq LotId

ActiveHolds == {r \in Requests : res[r].status = "active"}
HeldAmount == SumFunctionOnSet([r \in Requests |-> res[r].amount], ActiveHolds)
HeldInLot(l) == SumFunctionOnSet([r \in Requests |-> res[r].alloc[l]], ActiveHolds)

(* The reserved balance is exactly what the active reservations hold:      *)
(* however authorizations, settlements, releases and both sweeps           *)
(* interleave, no hold is freed twice and none is forgotten; and the       *)
(* clamps at zero never swallow a difference to the total.                 *)
ReservedIsHeld ==
  /\ balance.reserved = HeldAmount
  /\ balance.available + balance.reserved = balance.total

(* Each lot is reserved for exactly the allocations of the active holds,   *)
(* and never beyond what remains in it: two requests never hold the same   *)
(* credit.                                                                 *)
LotsBackHolds ==
  \A l \in LotId : /\ lots[l].reserved = HeldInLot(l)
                    /\ lots[l].reserved <= lots[l].remaining
                    /\ lots[l].remaining <= lots[l].original

(* The available balance authorizeBilling checks is backed by unreserved   *)
(* credit in the lots, so the allocator never refuses what the balance     *)
(* check let through.                                                      *)
AvailableIsBacked ==
  balance.available <= SumFunction([l \in LotId |-> Unreserved(l)])

(* A request is charged at most once, and only when its hold ended         *)
(* settled, never after a release: the settlement may be processed any     *)
(* number of times and race the stale sweep.                               *)
Charges(L, r) ==
  {i \in 1..Len(L) : L[i].entryType = "usage_settlement" /\ L[i].referenceId = r}

ChargedAtMostOnce ==
  \A r \in Requests :
    /\ Charges(ledger, r) # {} => res[r].status = "settled"
    /\ \A i, j \in Charges(ledger, r) : i = j

(* A grant that was first with its idempotency key credits the wallet once,*)
(* however often it is retried and whatever refunds and adjustments carry  *)
(* the key afterwards.  Where one of those came first, every retry of the  *)
(* grant credits again.                                                    *)
GrantedOncePerKey ==
  \A i, j \in 1..Len(ledger) :
    /\ ledger[i].entryType = "credit_grant" /\ ledger[j].entryType = "credit_grant"
    /\ ledger[i].referenceId \in GrantKeys
    /\ ledger[j].referenceId = ledger[i].referenceId
    /\ \A h \in 1..(i - 1) : ledger[h].referenceId # ledger[i].referenceId
    => j = i

(* Replaying the ledger gives the materialized balance (what               *)
(* reconcileWallet compares): a rebuild never changes anybody's credit.    *)
ZeroDrift ==
  /\ balance.available = NonNeg(projected.available)
  /\ balance.reserved = NonNeg(projected.reserved)
  /\ balance.total = projected.total

(* No two ledger entries of the wallet carry the same sequence number.     *)
UniqueSequence ==
  \A i, j \in 1..Len(ledger) : ledger[i].sequence = ledger[j].sequence => i = j

(* The budget reserves what the active reservations hold and its spend     *)
(* plus its reservations stay within the hard limit.                       *)
BudgetTracksHolds ==
  budget # NoBudget => /\ budget.reserved = HeldAmount
                       /\ budget.spent + budget.reserved <= budget.limit

(* A settled reservation never changes again, however often settlement,    *)
(* release and the stale sweep are retried; no handler ever changes what a *)
(* reservation holds.                                                      *)
OutcomeIsFinal ==
  [][\A r \in Requests :
       /\ res[r].status = "settled" => res'[r] = res[r]
       /\ res[r].status # "none" => /\ res'[r].amount = res[r].amount
                                    /\ res'[r].alloc = res[r].alloc]_vars

(* The wallet implements the billing contract: the status of the           *)
(* reservation is the phase, a usage_settlement entry is the charge.       *)
Contract == INSTANCE BillingContract WITH
  phase <- [r \in Requests |-> res[r].status],
  billed <- [r \in Requests |-> Charges(ledger, r) # {}]

ImplementsContract == Contract!Spec
=============================================================================
