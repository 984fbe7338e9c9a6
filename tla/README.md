# A verification development for the GrowX AI gateway

TLA+ models of the parts of this repository that move money, admit work and
keep a request alive while other things happen: the credit wallet, the circuit
breaker, the quota engine, the retry loop, chat completions with and without
streaming, webhook delivery and batch jobs. Each module is translated from the
source it names (PROJECT.json maps every definition to its lines), is
model-checked by TLC on a small instance, and the results that matter most are
proved with TLAPS for every value of the constants.

1. The system
2. The modules and the code
3. The runs: what each shows, its bounds, its fairness
4. What is proved, and how
5. Assumptions, and where the code does not keep them
6. Disagreements between the code and its promises
7. Not modelled, and the plan

## 1. The system

The repository is a monorepo of TypeScript services around one gateway. A
request reaches `gateway-service`, which authenticates it, checks policy, looks
into the response cache, reserves quota (`packages/rate-limits`), places a
credit hold (`credit-service`), chooses routes (`routing-service`), runs
attempts against providers through a circuit breaker (`packages/routing`),
records usage, and settles or gives back the hold. Sweeps and workers run
beside it; batch workers are clients of the same gateway.

| Component | State it keeps | Operations | What makes it correct |
|---|---|---|---|
| Credit wallet (`credit-service`) | balance, lots, reservations, budget, ledger | grant, authorize, settle, release, refund, adjust, freeze, rebuild; stale and expiry sweeps | one charge per request at most; reserved = sum of holds; lots back the holds; ledger replays to the balance |
| Quota engine (`rate-limits`) | leases per scope, sliding windows | reserve, finalize, cancel, heartbeat | limits hold for what really runs; nothing stays behind after a denial |
| Circuit breaker (`routing`) and probe worker | circuit, window, permits, override | acquire, record, probe, force, recover, reset | bounded probes, cooldown served, a recovered route comes back |
| Resilience controller (`gateway-service`) | position in the candidates, counters, deadline | attempt, retry, fall back | calls bounded by the policy; permits and capacity returned; cancelling and timing out end it |
| Gateway engine, stream controller, HTTP handler | request record, stream state, timers | admit, run, stream, finalize, compensate | record, tokens and money agree; a request ends |
| Response cache, single flight | stored responses, in-flight promises | look up, join, lead, store | one execution per key; followers are answered |
| Webhook delivery | deliveries with leases and retry counts, endpoint health | route, claim, post, retry, replay | at least once, bounded retries, no lost delivery, no early dead letter |
| Batch processing | jobs, items, leases, a reservation | claim, execute, retry, cancel, finalize, reconcile | what was paid for is kept; a finalized job is whole; every job ends |
| Provider operations | long-running provider jobs | poll, callback, reconcile | one terminal outcome |
| Idempotency (no caller) | keys | claim, execute, complete | one execution per key |
| Payments and subscriptions | intents, subscriptions | provider events, renewal | documented state machines |
| Pricing, invoices, tax, metering, policy, registries, identity, storage, prompts, analytics, UI | records | mostly pure or CRUD | out of scope, see section 7 |

How they interact. The gateway engine calls the quota engine and the wallet
directly and awaits them; the breaker is an object in the same process whose
methods await nothing; the HTTP handler pulls a generator; timers and a closing
socket abort a signal; sweeps list candidates outside a transaction and then
handle them one by one. Webhook and batch workers meet in their repositories
only: claims put a lease on a record, and later writes put back whole records
that were read before.

What is hard. (a) Every `await` lets another request, sweep or timer in.
(b) Settlement, release and the stale sweep race for one hold. (c) Permits and
leases expire by time while the work they stand for goes on. (d) Refunds reach
the quota windows out of order. (e) Any store call may throw after an earlier
one succeeded. (f) A request may be ended by the provider, the client, a timer
or a shutdown, at any await. (g) A client retries under the same id. (h) Leases
keep others from claiming a record, not from writing it. PROJECT.json lists
these hazards at the lines where they bite.

## 2. The modules and the code

`BillingContract` is the abstract specification: what the gateway may rely on
about one request's money. A request is free, held, then settled or given back;
it is charged only as it is settled. `CreditWallet` and `WalletTransaction` are
shown to implement it.

`RequestContract` is the abstract specification one level up: what both paths of
the gateway, streamed or not, promise of one request. It composes the billing
contract with the stored status of the request (`record`) and the reservation of
its tokens (`tokens`), and says how the three go together: a record is made with
tokens reserved, or without any for an answer from elsewhere (the cache, another
call's execution); tokens are counted only for a completed record, money is
charged only for a completed record whose tokens were not returned, and a record
that has been charged never fails. A request that fails after its completion was
stored, or even after its tokens were counted, may still become failed until it is
charged, and then gives its hold back. `GatewayRequest` and `StreamRequest` are
both shown to implement it, and with it the billing contract.

`CreditWallet` is `credit-service.ts` with its two sweeps. `balance`, `lots`,
`res`, `budget` and `ledger` are the repository's tables for one organization and
one workspace; `projected` is the running replay that `calculateBalanceFromLedger`
would compute; `now` is the clock; `stale` and `expired` are the lists a sweep has
taken and not yet worked off. One action is one handler, taken to be isolated;
`WalletTransaction` looks at what happens when it is not. A grant looks its
idempotency key up like the code does: the first entry of any type with the key
counts, and only if it names a lot the grant stops. Settlement has its three
branches (within the hold, overage covered by the balance, shortfall). Lot
allocation is any spread over the lots that the consumption order of
`lot-allocator.ts` admits.

`WalletTransaction` takes the atomicity away: authorize, settle and release as
programs of repository calls with private copies of what they read. The
repository's `withTransaction` is `fn(this)` and keeps nobody out, so the handlers
of different requests interleave at every call; those of one request follow each
other, since the gateway awaits each before it calls the next. `torn` is history:
the books (lot, balance, budget) over which a handler has stored a copy that
another had outdated, which is a lost update of this code.

`CircuitBreaker` is `circuit-breaker.ts`, its window, the health worker's probe
and the resilience controller's use of a permit (acquire, capacity check,
attempt timer, outcome). Absolute timestamps become the time elapsed or left.
The lazy OPEN to HALF_OPEN step stays inside the call that looks. `reset`
forgets permits of running attempts; those attempts are marked FORGOTTEN, since
they no longer count as let through by the circuit that stands. `age` says how
long an attempt has been under way: a permit may expire under it.

`QuotaEngine` is `quota-engine.ts` over `counter-store.ts`, one step per awaited
store call. Buckets are kept as running sums over the last k ticks, which is all
that `getWindowUsed`, reservation and newest-first refund can tell apart.
`spent` is a history variable: what reservations really used, at the time they
used it. `age` says how long a reservation has been under way; its leases may
expire under it.

`ResilienceController` is the loop of `executeNonStream`, one step per await
that matters, with `classifier.ts` as a choice among seven kinds of error. The
breaker, the quota engine and the revalidation of a candidate may give any
answer they can give. `run` is the loop of each request, `time` what is left of
its one deadline, `permits` the half-open permits it has taken and not reported
on. `timedOut`, `calls`, `skipped` and `left` are history for the properties.

`GatewayRequest` is `executeChatCompletion` and `executeProviderExecution` with
the cache lookup and `SingleFlightGroup`. `call` is an invocation, with the await
where it stands; `record`, `phase` and `billed` belong to the request id, which
the client chooses, so that two calls may share them. What `authorizeBilling`,
`settleReservation` and `releaseReservation` do to a hold is translated from
`credit-service.ts` without the amounts. The provider execution is one step,
which `ResilienceController` shows to end.

`StreamRequest` composes the generator `streamChatCompletion`, the
`GatewayStreamController`, the HTTP handler that pulls the generator, the
provider's iterator, the client, both timers, the store and a shutdown. A request
found in the cache takes a way of its own: its record is made completed, no quota
is reserved, and the stored events are replayed without a controller. A record per
request holds the await where the generator stands (`at`), the controller's state
and flags, the armed timers, and the stored status. Billing is `INSTANCE
BillingContract`. Of the quota engine only what becomes of this request's
reservation is kept.

`WebhookDelivery` is the delivery service and its workers over the repository. A
worker claims a batch under one lease, then fetches, posts, writes back and scores
the endpoint, delivery after delivery; each await is a step. `event` is what
becomes of a source event: the endpoints are matched, the event is stored, the
deliveries are made, with an await after each, so that an endpoint may be disabled
in between. A delivery whose event is not there becomes a dead letter without an
attempt; `LoseEvent` is external, since the only repository of the code never
removes an event. `seen` is the `attemptCount` a worker read when it claimed,
which is what it writes back plus one. Absolute times become two facts: the lease
still stands, the next attempt is due. `attempts`, `refused` and `late` are
history.

`BatchProcessing` is one job: `processItem` per worker and item, the scheduler's
`step` and `cancelBatch`, which both end in `finalizeBatch`, and the
reconciler. The repository checks every transition of a status against the
stored one and throws when it is not allowed; each action says what a throw
does in its caller. Several closers may finalize at once. `executions` and
`answered` are history and are forgotten for an item that was `disturbed`: its
lease ran out under a worker, or the worker died.

The `*Proofs` modules hold theorems, `CreditWalletProofs` also those about
`WalletTransaction`; the `MC*` modules hold constant values and symmetry for TLC.

## 3. The runs

Passing runs.

* `wallet_holds`: three requests, one grant of 3, estimates 1 or 2, final prices
  0, 1 and 3, so that settlement takes all three branches; a refund, a debit
  adjustment and a budget change are available. Three requests of up to 2
  against 3 units are the least in which two holds exhaust the wallet while a
  third is refused; six ledger entries let all of them end. Shows balance, lots
  and holds in step and the refinement of `BillingContract`. `MaxAge = 0` makes
  every hold eligible for the stale sweep as soon as it exists, the most adverse
  choice.
* `wallet_ledger`: two requests, lots that expire, a budget of 2, rebuilds and both
  sweeps, prices within the estimate, and one idempotency key that grants and
  credit adjustments share. Three lots and five entries let a key be used three
  times around a request's life; two ticks let a lot expire under a hold. Shows
  that the replayed ledger gives the stored balance, that a key first used by a
  grant credits once whatever else is posted under it, and that the budget
  reserves exactly the active holds. Overages are excluded by the constants because
  they break the first property and the third (section 6, 3 and 10).
* `tx_interleaved`: two requests whose handlers interleave at every repository
  call, six handler starts, a credit and a hard limit of 3 against estimates of 1
  and 2. Two handlers are the least in which one stores over the other; six starts
  let both requests authorize, settle or release, and try each again. Shows that a
  lost update harms only the book it happened to: every book that is not torn
  agrees with reservations and charges and keeps its bound (`BooksAgree`), and each
  handler is one step of the contract however the calls fall. With the exemption
  of torn books dropped, TLC finds the lost updates at once (section 6, 13).
* `circuit`: two concurrent attempts, thresholds of 2 and 3 samples, a window of
  2 ticks, cooldown 1 doubling up to 3, overrides without an end, already
  expired, or of one tick, one operator call, and attempts that live longer (2
  ticks) than a permit (1), as by the code's defaults. Two attempts are the least in
  which a late outcome meets a half-open circuit; a cap of 3 makes the doubling
  both happen and saturate. `MaxSamples` bounds attempts in a window and is
  above the minimum sample size.
* `quota`: three reservations over two scopes (limits 2 and 1) and two windows
  (3 tokens, 1 request), estimates of 2, actual use of 1 or 3 (below and
  above the estimate), a window of 2 ticks, leases of 2 and requests of up to 4, so
  that reservations span windows, are renewed, or outlive their leases.
* `resilience`: one request, three candidates, four attempts, two fallbacks, one
  retry per route. Requests share nothing in this module. Four attempts over three
  candidates with a retry each (six calls possible) let either limit be the one
  that stops the loop. Fallbacks to another provider are allowed: forbidding them
  only takes steps away from the loop, and the theorems hold for both. Shows that
  provider calls stay within the policy in every mixture, that a loop that is over
  holds nothing, that a cancelled client pays for one more call at most, that no
  attempt follows one that used up the deadline, and that the loop ends.
* `gateway`: two calls, equal or not, under the same id or not, with one cache key
  and an uncacheable request. Two calls are the least in which one follows,
  overtakes or repeats the other; the store, the quota engine and the wallet may
  fail at every await, and the calculation of the final price may throw. Shows
  that nobody is charged for an error, that what a call holds comes home or is
  paid, that equal requests never execute beside each other, that the request
  contract is kept across retries, and that followers end however their leader
  does.
* `stream`: one request, which the cache may answer, three candidates, store calls
  and price calculations that may throw. Requests share nothing but the
  database, which only closes once, so a second stream adds no new behaviour to
  the first; three candidates let a failed one have both a predecessor and a
  successor. Shows that a stream keeps the same request contract as a call that
  is not streamed, that an ended one holds nothing, that no answer is spliced
  from two providers, that the first outcome stays, and that connected streams
  end.
* `webhook`: two workers, one event, two deliveries to one endpoint (the event's
  own and a replay), batches of two, two attempts, an endpoint failing after one
  failure, and two mishaps of any kind (a lease that runs out under a worker, a
  batch given up by an exception, an endpoint switched off or on, an event lost).
  Two overruns are the least after which two workers write one delivery in either
  order; two attempts make the last one and a retry differ.
* `batch`: one item, two workers with one item in hand each, the scheduler, one
  `cancelBatch`, the reconciler, two attempts, and two mishaps (lease overruns,
  deaths, or the deadline passing). Two workers and one overrun put two of them
  on one item; with a second mishap the reconciler's old list meets a fresh
  lease. Scheduler and cancellation are the least two closers. One item never
  makes a job "partially completed": what the status says of several items is
  proved for any number instead (section 4). `attemptCount` stops one beyond
  `MaxAttempts`: the code only compares it with that bound, and workers and an
  outdated reconciler can requeue and claim a disturbed item for ever.

Violations (section 6): `found_overlapping_retry`, `found_job_revived`.

Fairness, and why the code justifies it.

* `circuit` (`FairSpec`): time passes; the health worker's interval fires and its
  probe is recorded; the attempt timer ends an attempt. These are `setInterval`
  and `setTimeout` callbacks of a running process. Nothing is assumed of
  traffic, of operators or of the provider.
* `resilience`: the loop goes on (promises of the store settle, an adapter whose
  signal is aborted throws), and time passes. A provider need not answer.
* `gateway`: what a call awaits settles; for the provider execution that is the
  result of `resilience`.
* `stream` (`FairSpec`): weak fairness of every step the generator takes by
  itself (a promise of the store is answered or rejected) and of armed timers;
  a connected client reads what was sent (`Drain`); and strong fairness of the
  adapter throwing while the signal is aborted: every adapter passes the signal
  to `fetch`, and a read on an aborted body rejects, although an event or two may
  still come out first. A client need not leave and a provider need not answer.
* `webhook`: each worker goes on, since the loop re-arms its timer after every
  batch and a post is aborted after ten seconds; leases run out and retries fall
  due because time passes. Customers may refuse or fail for ever.
* `batch`: something the workers can do is done in the end, and likewise for the
  closers, the reconciler and the clock. That is less than each loop going on by
  itself. A deadline need not pass, but one that has is seen by the scheduler's
  next step (`Expire`). Nothing is assumed of cancellation or of the answers of
  the gateway.
* The wallet, transaction and quota runs check safety only and need none.

Deadlock is not checked where the model may stop: when the wallet's bounded
ledger or handler starts are used up, or every request, delivery or job has
ended.

## 4. What is proved, and how

`CreditWalletProofs`
* `TypeCorrect`: all handlers and sweeps preserve `TypeOK`; a lemma for each.
* `AtMostOneCharge`, `FinalOutcome`, `Implementation`: every step has one of four
  effects on each request (`StepEffect`: quiet, holds, settles, gives back).
  The three theorems follow from the effects alone, so the arithmetic of lots
  and balances is looked at once. `Implementation` assumes `~LateSettlement`.
* `GrantOncePerKey`, without any assumption: a key whose first entry is a grant is
  granted once, whatever refunds and adjustments are posted under it later. The
  lookup of every later grant finds that entry, since no handler takes an entry
  out of the ledger or puts one before it, and none but a grant, the rebuild
  included, posts or renames one (`GrantsWithin`). Of keys first used by another
  handler nothing of the kind is true (section 6, 14).
* Sums. The books are sums over holds, lots and ledger entries. That a sum follows
  a change at one point (`SumChange`, `SumJoin`, `SumLeave`) is induction over
  finite sets; it is reasoned here about a least counterexample (`LeastSet`, from
  the well-foundedness of the strict subset ordering), which needs no theorem
  that takes an operator.
* `LotBacking` (from `~LateSettlement`). `LotsInv` is inductive: the active holds
  are finitely many, each took exactly its amount from the lots
  (`HoldIsAllocated`), at an estimate above zero (`HoldIsPriced`), and every lot
  reserves what they took from it (`LotsBackHolds`). Only with the second part
  does giving back an allocation restore the amount that was held.
* `BudgetIsKept` (from `~LateSettlement`, prices within their holds, and no budget
  replaced while holds are active).
* `ReservedBalance`, `AvailableBacking`, `NoDrift` (from `BalanceAssumption`).
  `BalanceInv` moves four accounts together: the balance, the holds, what the
  lots have left (`Free`) and the replay of the ledger (`projected`). None of the
  three properties is inductive alone: the clamps at zero of the code's balance
  arithmetic do nothing only because the other accounts bound the value under
  them, and a rebuild copies the replay into the balance. Section 5 says what
  `BalanceAssumption` asks and why.
* `UntornBooksAgree`, `CallsImplementContract` are about `WalletTransaction`, whose
  names differ from `CreditWallet`'s so that one module can extend both. Nothing is
  assumed of isolation: the handlers of all requests interleave at every call.
  Halfway through a handler every book differs from the reservations and the
  charges by what running handlers have stored and not yet the rest. `TxInv` says
  by how much at each call of each handler, for every book not torn; that a
  handler's copy of a book equals the stored one unless another handler has
  stored since, in which case its own save will tear the book; what its checks
  have established about the credit and the hard limit; and what its reservation
  is, which no other handler touches. So a lost update stays where it happened. For
  the contract the books do not matter: each handler takes effect at its ledger
  entry or at its stored reservation, whichever comes first, and its other calls
  are stutters.

`CircuitBreakerProofs`
* `TypeCorrect`, `OpenCanCoolDown`, `BackoffIsCounted` from the inductive
  invariant `TypeOK /\ Sound(breaker)`. The circuit's properties are not
  inductive without the bound on the backoff and without knowing when
  `openFor` is set; `Sound` says both. `CooldownIsServed` and
  `OverrideStandsStill` are read off `StepSound`, proved of every step.
* `ProbesBounded`, for attempts of any length: of the attempts that a half-open
  circuit admitted within the life of one permit, at most `HalfOpenConcurrent` are
  under way. The invariant says that the live permits are at most that many, and
  that an attempt no older than a permit's life still has its permit
  (`ProbesHoldPermits`). For spans that lie further back there is no permit left
  to count: those admitted together age together, so a span bounds what is left of
  it later.

`QuotaEngineProofs`
* `TypeCorrect` with `Shape`, which ties the position in a path to the phase.
* `LeasesReturned`: every live lease is owed by somebody who will return it.
* `RefundsAreKept`: the store's running sums never exceed the real ones, for
  refunds in any order.
* `ConcurrencyHolds`, for requests of any length: of the requests admitted at a key
  within the life of one lease, no more are under way than its limit. The live
  leases of a key are bounded by its limit (`LeasesBounded`); a request no older
  than a lease has a live one (`Covered`), so a cardinality argument bounds the
  youngest span; and from one tick to the next a span becomes an older one and
  only loses members (`SpanStep`).

`ResilienceControllerProofs`
* `TypeCorrect`, `PolicyLimitsCalls`, `NothingKept`, `OneCallAfterCancel` from one
  inductive invariant, `Sane`, in five parts. The call limits need to know that
  a retry is counted before it is made (`CallsSane`); what is held at the end
  follows from who reports on the permit of the current candidate
  (`HoldsSane`); one call after a cancellation because only an iteration that
  had passed the check at the top still reaches an attempt (`CancelSane`).
* `NoRetryAfterTimeout`: an attempt that timed out has spent the time the check at
  the top asks for (`TimeSane`), so no iteration passes it again.

`StreamRequestProofs`
* `TypeCorrect`, `OnlyCompletedIsCharged`, `AllOrNothing`, `FirstOutcomeStays`,
  `OneProviderPerAnswer`, all from one inductive invariant, `Sane`: for every
  place the generator may await at, what state, record, reservation and hold can
  be. The properties are about the end of a request; the invariant carries back
  through compensation and finalization what makes them true, in particular that a
  finalized stream returns to an attempt only after the store threw, and that no
  event is delivered on a finalized stream. One lemma per action; a step moves one
  request, which `OneMoves` turns into the invariant for all.
* `RequestImplementation`: every step is a step of `RequestContract` on what can be
  seen of the request, or none. Tokens are seen once the record is made. The
  steps are sorted by what they move (`SilentSteps`, `TokenSteps`, `RecordSteps`,
  `MoneySteps`), and what the contract asks of each follows from `Sane` and one
  more invariant, `ExecutingInv`: until its stream is finalized, and where the
  outcome is about to be stored, a recorded request still says "executing".

`WebhookDeliveryProofs`
* `TypeCorrect`, `NoEarlyDeadLetter`, `PolicyLimitsAttempts`, `SettledIsFinal`.
  The invariant compares three numbers: the stored count, the count each worker
  has seen, and the attempts really made. A snapshot is never ahead of the
  attempts (`AttemptSane`), which is what an exhausted delivery needs, however
  late the snapshot is written. The other way to a dead letter is a missing event:
  deliveries, replays included, are made only of events that are stored
  (`EventSane`), so a worker misses none but a lost one, and not one that the
  router has yet to store. The other two need that a delivery whose lease
  did not run out is in one worker's hand only, which has seen it as it is
  (`LeaseSane`), and that attempts not counted yet are the one just made and those
  lost to an exception (`CountSane`).

`GatewayRequestProofs`
* `TypeCorrect`, `NobodyPaysForErrors`, `NothingStaysHeld`, `ExecutedOnce` hold
  with overlapping retries too; `RequestImplementation` and `Implementation` are
  from `~OverlappingRetries`. The invariant says of each call, wherever it awaits,
  what its quota, its record, its hold and its flight can be (`Sane`), and of the
  calls together that one made the record (`OneCreator`), that a settled hold has
  its answered call (`SettledIsPaid`), that an active one has a call that knows it
  (`ActiveIsHeld`), and that without overlap one call is under way per request id
  (`Alone`). Only the call that made the record gets as far as the provider: that
  is why a retry cannot be charged beside the first call.
* A step is reduced to `Steps(c)`, what one call does to itself and to the shared
  records, holds and flights; `OthersStaySane` does the rest for every action.
* `RequestImplementation`: as for streams, but record and money belong to the
  request id and tokens to a call. What is seen of the tokens is the reservation
  of the call that made the record (`Recorders`, of which there is one at most:
  `OneCreator`). `RecorderInv` adds what record and tokens can be while that
  call runs and after it; `RecorderBefore`, `RecorderDuring`, `RecorderAfter`
  keep it. The tokens of a retry that made no record are not seen, and
  `TokensSame` shows that they move nothing.
* `Implementation` is a corollary, by `ContractBilling`: the request contract
  restricts the billing contract. `ContractCharges` says what the request
  contract is worth on its own: under it a charged request is complete with its
  tokens not returned, and stays so.

`BatchProcessingProofs`
* `TypeCorrect`, `AnswersAreKept`, `AttemptsLimitExecutions`, `WholeAtTheEnd`,
  `TerminalIsFinal`. An item not disturbed is in one hand only, leased to it and
  as the worker has read it, until it has ended (`ItemSane`, `HandSane`); so the
  reconciler's list, however old, names no such item that is still running.
* For the end of the job the invariant follows a finalizer through its awaits: it
  reaches its list only when every item has ended, and since an ended item keeps
  its status (`NextEndedStays`) the verdict it computed still fits whenever it is
  written (`CloserSane`). So any number of finalizers agree.
* `TerminalIsFinal` is the property that `found_job_revived` refutes, proved for
  the system without the reconciler's rewriting: nothing else revives a job.

Only model-checked: liveness under fairness (`Recovers`, `OpensWhenDown`,
`ConnectedStreamsEnd`, `EveryRequestEnds`, `EveryCallEnds`, `EveryDeliverySettles`,
`EveryJobEnds`), which these provers do not reach. Every safety property of a
passing run is stated by a theorem.

## 5. Assumptions, and where the code does not keep them

* Handlers are isolated (`CreditWallet`). The gateway constructs the in-memory
  repository (`gateway-engine.ts:170`), whose `withTransaction` is `fn(this)`; its
  own comment says it is for in-memory testing. What `CreditWallet` shows is about
  handlers that follow one another. `WalletTransaction` assumes no isolation and
  shows what is left without it; section 6, 13 says what is not.
* No settlement after the stale sweep's release (`LateSettlement = FALSE`). The
  sweep's default age is 300 s, which is also a stream's default deadline, and
  nothing enforces the order (section 6, 5). Such a settlement takes the hold a
  second time: from the lots, the balance and the budget alike.
* `BalanceAssumption`, of the theorems about the balance, asks besides
  `~LateSettlement` that expiry is exact: nothing granted expires, or there are
  no debit adjustments and no price exceeds its hold. A debit and an overage take
  from the balance and not from a lot; when such a lot expires it is worth more
  than what is available, and the clamp at zero hides the difference. And with
  rebuilds no price may exceed its hold: an overage posts its whole price although
  the extra was never reserved, so the replay drifts and a rebuild writes the
  drift into the balance (section 6, 3). `NoDrift` asks the same of prices without
  rebuilds. `wallet_holds` (overages, a debit, no expiry, no rebuild) and
  `wallet_ledger` (expiry, rebuilds, no overage) meet the assumption in the two
  different ways; where debits and expiry meet, `ReservedIsHeld` is violated
  (section 6, 12).
* `BudgetIsKept` asks that no budget is replaced (`BudgetLimits = {}`): a budget set
  in the middle of a period starts with nothing reserved while holds are
  active, and their ends then take from it what it never held. It asks for prices
  within the holds since an overage leaves its hold reserved (section 6, 10).
* `WalletTransaction` takes the handlers of one request one after another, as the
  gateway calls them, prices within the estimate (`Parameters`) and, like
  `CreditWallet`, no settlement after a release.
* No reservation counts twice in one window (`KeysAreDistinct`). Limits of input
  and of total tokens of one scope do share a key (`quota-engine.ts:293`).
* `QuotaEngine` finalizes or cancels a reservation once. The code stores the
  status that makes them idempotent after the last await (`quota-engine.ts:626`,
  `647`), so two that overlap would both refund; the gateway awaits one before it
  may begin the other.
* A chain of store calls takes less than a tick of the quota clock.
* A retry begins after the call it repeats has ended (`OverlappingRetries =
  FALSE`). The client decides that; section 6, 1.
* `GatewayRequest`: translating the provider's answer (`gateway-engine.ts:928`),
  the last thing that stands between settlement and return, does not throw: it
  only reads fields that the type of the answer requires. The stale sweep returns
  no hold of a call still under way, which is the wallet's `LateSettlement =
  FALSE` again.
* `StreamRequest`: writing to a closed response returns false and no `drain`
  follows; an aborted adapter may deliver an event before it throws. Both are
  properties of the platform and of the adapters, marked in the module.
  Events are written one at a time, so a chunk's serialization and its
  delivery are one step.
* `WebhookDelivery`: leases that run out under a worker, exceptions and endpoint
  changes are bounded together by `MaxMishaps`. The safety theorems hold for
  every bound; liveness needs some bound, since a customer endpoint may be
  toggled, or a batch given up, for ever. `LoseEvent` stands for a store that
  forgets events, which the interface allows and the in-memory one never does.
* `BatchProcessing`: no status changes while the reconciler rewrites a job (`Spec`
  leaves `FindJob` and `RewriteJob` out; `RewritingSpec` has them, section 6, 2).
  The job is stored with its items: `batch-service.ts:224` and `241` store one
  after the other, and a scheduler that looks in between finds a job without
  items, which it finalizes as completed (`batch-scheduler.ts:73`,
  `batch-finalizer.ts:58`); creation is not modelled. Finalizers do not die; one
  that does leaves the job finalizing for ever, since the scheduler's step has no
  branch for that status. Workers may die, up to `MaxMishaps`.
* The running total of real use (`GiveBack` on `spent`) is floored at zero like
  the code's own sums; the floor is never reached in the run.

## 6. Disagreements between the code and its promises

Checked by the violation runs, each with the line it contradicts in
PROJECT.json:

1. A retry under the same `x-request-id` that overtakes the call it repeats fails
   and releases the hold both share; the first call is then charged after its hold
   was given back (`found_overlapping_retry`).
2. The reconciler writes back a job it read earlier, status included; a job that
   ended in between is running again (`found_job_revived`).

Shown by the models but without a run of their own; each is one changed constant
or property away, and TLC finds a counterexample within seconds:

3. A settlement above its hold makes the ledger replay differ from the stored
   balance, and `rebuildBalance` then returns the difference to the customer:
   `wallet_ledger` with a final price of 3, `ZeroDrift`.
4. A settlement that releases a remainder reuses a ledger sequence number, which
   the schema declares unique: `wallet_ledger`, `UniqueSequence`.
5. A settlement after the stale sweep's release takes another hold's reserve:
   `wallet_holds` with `LateSettlement = TRUE`, `ReservedIsHeld`.
6. Attempts outlive their permits (60 s against 30 s by default), and an expired
   permit is given out again, so over spans longer than a permit's life a half-open
   circuit runs more probes at once than `halfOpenMaxConcurrent`:
   `circuit` with `ProbesOfSpan(t)` as all attempts with `admitted = "HALF_OPEN"`.
7. Refunds from the newest bucket let a sliding window admit more than its limit:
   `quota`, `WindowRespected`. And requests outlive their leases: a lease lives
   120 s, a stream up to 300 s, and `heartbeatLease` has no caller, so over spans
   longer than a lease more requests run than a concurrency limit allows: `quota`
   with `RunningOfSpan(k, t)` as all requests under way that need `k`.
8. A client that leaves while the handler waits for `drain` leaves the generator,
   its lease and its hold behind: `stream`, `StreamsEnd`.
9. Candidates that are refused count as fallbacks, but the limit is only looked
   at after a failed attempt, so more fallback routes may be called than
   `maxFallbackRoutes` allows: `resilience` with `MaxFallbackRoutes = 0` or 1,
   `FallbacksBounded`.
10. The overage branches of a settlement leave the workspace budget's reservation
   behind: `wallet_ledger` with a final price of 3, `BudgetTracksHolds`.
11. The reconciler releases an expired lease by item and owner
   (`batch-reconciler.ts:40`). When the owner has claimed the requeued item again
   in between, its new lease is deleted; if it then dies, the item is running
   without a lease, which no worker claims and no reconciliation finds, and the
   job waits for its deadline. The reconciler's own comment promises to "Reconcile
   stuck leases, counter drift, and unfinalized jobs". `batch` with `EveryJobEnds`
   as `<>(job \in Ended)`; the property names the state (`Stranded`) as its only
   exception.
12. A debit adjustment takes credit from the balance and from no lot. When the lot
   that still holds this credit expires, the balance loses it a second time; the
   clamps at zero leave a balance whose total is less than what it reserves:
   `wallet_ledger` with `DebitAmounts = {1}`, `ReservedIsHeld`.
13. Handlers of different requests lose each other's updates: `withTransaction`
   runs its body as it stands, and balances, lots and budgets are read, then
   written. Two authorizations may also pass one hard limit together.
   `TENANT_ISOLATION_MATRIX.md:8` and `THREAT_MODEL.md:18` speak of a serializable
   wallet: `tx_interleaved`, `BooksAgree` without `torn`.
14. A grant whose idempotency key was first used by a refund or an adjustment
   credits again at every retry: the lookup returns that entry, its reference is
   no lot, and `grantCredits` goes on (`credit-service.ts:130-142`).
   `wallet_ledger`, `GrantedOncePerKey` without its condition on the first entry.

Seen while modelling: a deadline or idle timeout of a stream is recorded as
cancelled, never as timed out (`stream-controller.ts:442` against
`gateway-engine.ts:1655`); after a `response.started` event no other candidate can
be connected to; a streaming request whose client cancels before the first token
still tries its other candidates; a failed `emitRequestStarted` leaves a stream's
record "executing"; a finalization that throws after a completed stream gives the
hold back although the record may say completed; the stream registry is never
filled, so a shutdown closes the database under running streams. In webhooks: two
workers on one delivery may set `attemptCount` back, so a customer can be sent
more attempts than the policy says; the endpoint's score is read, then written,
and may undo a `disableEndpoint` in between; a delivery whose event is missing
becomes a dead letter with no attempt recorded
(`webhook-delivery-service.ts:92-100`). When the final price of a stream cannot be
calculated, its hold is given back although the tokens were counted and the record
stays completed. In batch jobs: two finalizers both send the "single" batch
notification (`batch-finalizer.ts:233`); an expired job keeps its reservation and
its items as they are; a success that may not be written is recorded as a failed
attempt; what the early branches of `processItem` throw leaves the lease to the
reconciler; counters drift, since `pendingItems` is never counted down.

## 7. Not modelled, and the plan

Left out for good: pricing, tax and invoice arithmetic, routing scores and policy
evaluation (pure functions whose model would restate them); registries, identity
and key management, prompts, storage, analytics, user interfaces (CRUD, I/O,
reporting); provider adapters (HTTP); the Redis counter store and the idempotency
package, which no service constructs or calls. Within the modelled components:
log lines, metrics, latencies, formatting, the content of chunks, and errors
thrown by the serialization of a chunk; for webhooks secrets and signatures; for
batch jobs validation and creation, counters, output files and the sharing of
workers among tenants.

Most of the repository's lines are in those parts (console, schemas, contracts,
CRUD services), which is why the definitions map to a small share of it.

Modules that could follow, most important first:

1. `ProviderOperation`: poller, callback and reconciler against one outcome.
2. Payments and subscriptions: provider events out of order and repeated.
3. A run of `QuotaEngine` with one key used by two limits.
4. `BatchProcessing` with two workers and two items, by a reduced model of the
   closers.

A theorem that could follow: that the calls of `WalletTransaction`, when its
handlers happen not to overlap, implement the handlers of `CreditWallet` (a
refinement of handlers by calls, in place of the contract both implement).
