----------------------------- MODULE QuotaEngine -----------------------------
(***************************************************************************)
(* Rate, token and concurrency limits (QuotaEngine over the in-memory      *)
(* counter store).  A reservation is what evaluateAndReserveCustomerQuota  *)
(* makes for a request and evaluateAndReserveProviderAttempt for an        *)
(* attempt: the two run the same protocol over different scopes.  It takes *)
(* one concurrency lease per scope, then reserves its amounts in all       *)
(* sliding windows at once; it ends by finalizeReservation or              *)
(* cancelReservation.                                                      *)
(*                                                                         *)
(* Every call to the counter store is awaited, so every call is a step and *)
(* reservations interleave between them; the store's own methods await     *)
(* nothing.  The chains of calls take no time worth a tick: Tick waits for *)
(* them, and only the provider's work lets the clock move.                 *)
(*                                                                         *)
(* The buckets of a window are kept as running sums: used[c][k] is what    *)
(* counter c holds in its buckets of the last k ticks.  Adding to the      *)
(* current bucket raises every sum but the empty one, refunding from the   *)
(* latest buckets first lowers every sum down to zero, a tick moves them   *)
(* up by one, and used[c][Window] is getWindowUsed.                        *)
(***************************************************************************)
EXTENDS Integers, Sequences, FiniteSets

CONSTANTS
  Reservations,    \* reservations that may be under way at the same time
  LeaseKeys,       \* concurrency keys: limits of requests or streams
  Counters,        \* window keys: limits of requests or tokens
  TokenCounters,   \* those that count tokens and are reconciled
  Leases,          \* the concurrency keys of each reservation, in order
  Windows,         \* the window keys of each reservation, in order
  LeaseLimit,      \* limit of each concurrency key (unlimited ones take no lease)
  WindowLimit,     \* limit + burst of each window key, 0 when unlimited
  Estimates,       \* token estimates
  Actuals,         \* tokens reported at the end
  Window,          \* windowSeconds, in ticks
  LeaseTtl,        \* concurrencyLeaseTtlSeconds, in ticks
  MaxRun,          \* how long a request may run: its deadline, in ticks
  Heartbeats       \* does anybody call heartbeatLease?

ASSUME QuotaAssumption ==
  /\ IsFiniteSet(Reservations)
  /\ TokenCounters \subseteq Counters
  /\ Leases \in [Reservations -> Seq(LeaseKeys)]
  /\ Windows \in [Reservations -> Seq(Counters)]
  /\ LeaseLimit \in [LeaseKeys -> Nat \ {0}]
  /\ WindowLimit \in [Counters -> Nat]
  /\ Estimates \subseteq Nat /\ Actuals \subseteq Nat
  /\ Window \in Nat \ {0} /\ LeaseTtl \in Nat \ {0} /\ MaxRun \in Nat
  /\ Heartbeats \in BOOLEAN

(* No reservation asks twice for one key.                                  *)
ASSUME KeysAreDistinct ==
  \A r \in Reservations :
    /\ \A i, j \in DOMAIN Leases[r] : Leases[r][i] = Leases[r][j] => i = j
    /\ \A i, j \in DOMAIN Windows[r] : Windows[r][i] = Windows[r][j] => i = j

VARIABLES
  lease,   \* ticks the lease of each reservation has left, per key; 0 = none
  used,    \* running sums of each window's buckets, as the store keeps them
  spent,   \* running sums of what reservations really used, by their own time
  res      \* what each reservation is doing

vars == <<lease, used, spent, res>>

-----------------------------------------------------------------------------
(* Types and helpers *)

Spans == 0..Window

(* acquiring: taking lease number next; active: the provider works;        *)
(* reconciling: finalizing window number next; releasing: giving back      *)
(* lease number next of the got first ones.                                *)
Reservation ==
  [phase: {"idle", "acquiring", "active", "reconciling", "releasing"},
   next: Nat, got: Nat, tokens: Nat, actual: Nat, age: 0..MaxRun]

Idle == [phase |-> "idle", next |-> 0, got |-> 0, tokens |-> 0, actual |-> 0, age |-> 0]

Live(k, r) == lease[k][r] > 0
Holders(k) == {r \in Reservations : Live(k, r)}

NonNeg(x) == IF x < 0 THEN 0 ELSE x
Add(sums, x) == [k \in Spans |-> IF k = 0 THEN 0 ELSE sums[k] + x]

(* Faulty variant: the oldest buckets are refunded first.                  *)
RefundOldest(sums, x) ==
  LET left == NonNeg(sums[Window] - x)
  IN  [k \in Spans |-> IF sums[k] <= left THEN sums[k] ELSE left]

Refund(sums, x) == [k \in Spans |-> NonNeg(sums[k] - x)]

(* The same for the true usage of a reservation made age ticks ago: its    *)
(* own share goes, wherever it stands.  The sums contain that share, so    *)
(* they are never cut off at zero.                                         *)
GiveBack(sums, age, x) ==
  [k \in Spans |-> IF k > age THEN NonNeg(sums[k] - x) ELSE sums[k]]

Uses(r, c) == \E i \in DOMAIN Windows[r] : Windows[r][i] = c

(* A window key reserves one request or the estimated tokens.              *)
Amount(c, tokens) == IF c \in TokenCounters THEN tokens ELSE 1

(* Where the release of the first n leases leads; nothing to release is    *)
(* the end of the reservation.                                             *)
Releasing(r, n) ==
  IF n = 0 THEN Idle ELSE [res[r] EXCEPT !.phase = "releasing", !.next = 1, !.got = n]

-----------------------------------------------------------------------------
(* Admission *)

Request(r, tokens) ==
  /\ res[r].phase = "idle"
  /\ res' = [res EXCEPT ![r] = [phase |-> "acquiring", next |-> 1, got |-> 0,
                                tokens |-> tokens, actual |-> 0, age |-> 0]]
  /\ UNCHANGED <<lease, used, spent>>

(* Faulty variants of the limit check and of the denial.                   *)
OneTooMany(k) == Cardinality(Holders(k)) <= LeaseLimit[k]
ForgetLeases(r) == Idle

HasRoom(k) == Cardinality(Holders(k)) < LeaseLimit[k]

(* A denial gives back the leases taken so far.                            *)
Denied(r) == Releasing(r, res[r].next - 1)

(* acquireConcurrencyPermit for the next key.                              *)
AcquireLease(r) ==
  /\ res[r].phase = "acquiring"
  /\ res[r].next <= Len(Leases[r])
  /\ LET k == Leases[r][res[r].next]
     IN  \/ /\ HasRoom(k)
            /\ lease' = [lease EXCEPT ![k][r] = LeaseTtl]
            /\ res' = [res EXCEPT ![r].next = @ + 1]
         \/ /\ ~HasRoom(k)
            /\ res' = [res EXCEPT ![r] = Denied(r)]
            /\ UNCHANGED lease
  /\ UNCHANGED <<used, spent>>

Fits(c, tokens) ==
  WindowLimit[c] > 0 => used[c][Window] + Amount(c, tokens) <= WindowLimit[c]

(* checkAndReserveAtomic: all windows, or none.                            *)
CheckAndReserve(r) ==
  /\ res[r].phase = "acquiring"
  /\ res[r].next > Len(Leases[r])
  /\ \/ /\ \A c \in Counters : Uses(r, c) => Fits(c, res[r].tokens)
        /\ used' = [c \in Counters |->
             IF Uses(r, c) THEN Add(used[c], Amount(c, res[r].tokens)) ELSE used[c]]
        /\ spent' = [c \in Counters |->
             IF Uses(r, c) THEN Add(spent[c], Amount(c, res[r].tokens)) ELSE spent[c]]
        /\ res' = [res EXCEPT ![r].phase = "active"]
     \/ /\ \E c \in Counters : Uses(r, c) /\ ~Fits(c, res[r].tokens)
        /\ res' = [res EXCEPT ![r] = Denied(r)]
        /\ UNCHANGED <<used, spent>>
  /\ UNCHANGED lease

-----------------------------------------------------------------------------
(* The end of a reservation *)

(* finalizeReservation with the usage the provider reported.               *)
Finalize(r, actual) ==
  /\ res[r].phase = "active"
  /\ res' = [res EXCEPT ![r].phase = "reconciling", ![r].next = 1, ![r].actual = actual]
  /\ UNCHANGED <<lease, used, spent>>

(* finalizeTokens for the next window; request windows are passed over.    *)
Reconcile(r) ==
  /\ res[r].phase = "reconciling"
  /\ res[r].next <= Len(Windows[r])
  /\ LET c    == Windows[r][res[r].next]
         diff == res[r].actual - res[r].tokens
     IN  IF c \notin TokenCounters THEN UNCHANGED <<used, spent>>
         ELSE IF diff < 0
         THEN /\ used' = [used EXCEPT ![c] = Refund(@, -diff)]
              /\ spent' = [spent EXCEPT ![c] = GiveBack(@, res[r].age, -diff)]
         ELSE /\ used' = [used EXCEPT ![c] = Add(@, diff)]
              /\ spent' = [spent EXCEPT ![c] = Add(@, diff)]
  /\ res' = [res EXCEPT ![r].next = @ + 1]
  /\ UNCHANGED lease

Reconciled(r) ==
  /\ res[r].phase = "reconciling"
  /\ res[r].next > Len(Windows[r])
  /\ res' = [res EXCEPT ![r] = Releasing(r, Len(Leases[r]))]
  /\ UNCHANGED <<lease, used, spent>>

(* cancelReservation: rollbackReservation refunds every window in one call.*)
Cancel(r) ==
  /\ res[r].phase = "active"
  /\ used' = [c \in Counters |->
       IF Uses(r, c) THEN Refund(used[c], Amount(c, res[r].tokens)) ELSE used[c]]
  /\ spent' = [c \in Counters |->
       IF Uses(r, c) THEN GiveBack(spent[c], res[r].age, Amount(c, res[r].tokens))
       ELSE spent[c]]
  /\ res' = [res EXCEPT ![r] = Releasing(r, Len(Leases[r]))]
  /\ UNCHANGED lease

(* releaseConcurrencyPermit; the last one ends the reservation.            *)
ReleaseLease(r) ==
  /\ res[r].phase = "releasing"
  /\ lease' = [lease EXCEPT ![Leases[r][res[r].next]][r] = 0]
  /\ res' = [res EXCEPT ![r] =
               IF res[r].next = res[r].got THEN Idle ELSE [res[r] EXCEPT !.next = @ + 1]]
  /\ UNCHANGED <<used, spent>>

-----------------------------------------------------------------------------
(* heartbeatLease renews the leases that have not expired; it interferes   *)
(* with nobody, so its calls are one step.                                 *)
Heartbeat(r) ==
  /\ Heartbeats
  /\ res[r].phase = "active"
  /\ lease' = [k \in LeaseKeys |->
                 [lease[k] EXCEPT ![r] = IF Live(k, r) THEN LeaseTtl ELSE 0]]
  /\ UNCHANGED <<used, spent, res>>

(* A lease is gone in the tick it expires (expiresAt <= now).              *)
Tick ==
  /\ \A r \in Reservations : \/ res[r].phase = "idle"
                             \/ res[r].phase = "active" /\ res[r].age < MaxRun
  /\ lease' = [k \in LeaseKeys |-> [r \in Reservations |-> NonNeg(lease[k][r] - 1)]]
  /\ used' = [c \in Counters |->
                [k \in Spans |-> IF k = 0 THEN 0 ELSE used[c][k - 1]]]
  /\ spent' = [c \in Counters |->
                 [k \in Spans |-> IF k = 0 THEN 0 ELSE spent[c][k - 1]]]
  /\ res' = [r \in Reservations |->
               IF res[r].phase = "active" THEN [res[r] EXCEPT !.age = @ + 1] ELSE res[r]]

-----------------------------------------------------------------------------
Init ==
  /\ lease = [k \in LeaseKeys |-> [r \in Reservations |-> 0]]
  /\ used = [c \in Counters |-> [k \in Spans |-> 0]]
  /\ spent = [c \in Counters |-> [k \in Spans |-> 0]]
  /\ res = [r \in Reservations |-> Idle]

Next ==
  \/ \E r \in Reservations, tokens \in Estimates : Request(r, tokens)
  \/ \E r \in Reservations, actual \in Actuals : Finalize(r, actual)
  \/ \E r \in Reservations :
       \/ AcquireLease(r)
       \/ CheckAndReserve(r)
       \/ Reconcile(r)
       \/ Reconciled(r)
       \/ Cancel(r)
       \/ ReleaseLease(r)
       \/ Heartbeat(r)
  \/ Tick

Spec == Init /\ [][Next]_vars

-----------------------------------------------------------------------------
(* Properties *)

(* Leases, window sums and reservations keep their types.                  *)
TypeOK ==
  /\ lease \in [LeaseKeys -> [Reservations -> 0..LeaseTtl]]
  /\ used \in [Counters -> [Spans -> Nat]]
  /\ spent \in [Counters -> [Spans -> Nat]]
  /\ res \in [Reservations -> Reservation]

UnderWay(r) == res[r].phase \in {"active", "reconciling"}
Needs(r, k) == \E i \in DOMAIN Leases[r] : Leases[r][i] = k

(* The requests admitted at a key between t + LeaseTtl and t ticks ago, the*)
(* earlier end excluded, that are still under way.                         *)
RunningOfSpan(k, t) ==
  {r \in Reservations : UnderWay(r) /\ Needs(r, k) /\ res[r].age - t \in 0..(LeaseTtl - 1)}

(* At every key, of the requests admitted within the life of one lease no  *)
(* more are under way than its limit allows, although each takes its leases*)
(* one by one beside the others, loses them by expiry and gives them back  *)
(* one by one.  A request that is not kept alive by heartbeats may outlive *)
(* its leases, so over longer spans more may be under way.                 *)
ConcurrencyRespected ==
  \A k \in LeaseKeys, t \in 0..MaxRun : Cardinality(RunningOfSpan(k, t)) <= LeaseLimit[k]

(* The leases a reservation has taken and not yet given back, by their     *)
(* place in its path, and their keys.                                      *)
Held(r) == CASE res[r].phase = "acquiring" -> 1..(res[r].next - 1)
             [] UnderWay(r) -> 1..Len(Leases[r])
             [] res[r].phase = "releasing" -> res[r].next..res[r].got
             [] OTHER -> {}
Owes(r) == {Leases[r][i] : i \in Held(r)}

(* Every live lease belongs to a reservation that is going to give it back:*)
(* a request denied at its third scope, or at its windows, leaves no lease *)
(* behind at the first two.                                                *)
NoLeaseLeaks ==
  \A k \in LeaseKeys, r \in Reservations : Live(k, r) => k \in Owes(r)

(* The store never counts more, over any span of the window, than          *)
(* reservations have really used in it: nobody is refused for capacity     *)
(* that was given back, whatever order refunds and reservations come in.   *)
NeverOvercounts ==
  \A c \in Counters, k \in Spans : used[c][k] <= spent[c][k]

(* What is really used in a window stays within its limit.                 *)
WindowRespected ==
  \A c \in Counters : WindowLimit[c] > 0 => spent[c][Window] <= WindowLimit[c]
=============================================================================
