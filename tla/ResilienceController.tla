------------------------- MODULE ResilienceController -------------------------
(***************************************************************************)
(* GatewayResilienceController.executeNonStream: the loop that takes a     *)
(* request through its candidate routes, with retries on one route,        *)
(* fallback to the next, one deadline for all attempts, a permit of the    *)
(* circuit breaker and a reservation of provider capacity per attempt.     *)
(*                                                                         *)
(* Every await of the loop is a point where the client may cancel and time *)
(* may pass.  Requests meet only in the breaker and the quota engine; both *)
(* (see CircuitBreaker and QuotaEngine), and the candidate's revalidation, *)
(* answer here anything they can answer.  Records, metering and events     *)
(* swallow their errors and are left out.                                  *)
(*                                                                         *)
(* Time is what is left of the request's deadline: "ample", "short" (less  *)
(* than minimumRemainingDeadlineMs) or "spent".  An attempt may take all   *)
(* that is left, so its timer fires when, and only when, time is spent.    *)
(***************************************************************************)
EXTENDS Integers, FiniteSets

CONSTANTS
  Requests,
  Candidates,           \* candidate routes of a request, the primary first
  MaxAttempts,          \* of the retry policy, at most 5
  MaxSameRouteRetries,
  MaxFallbackRoutes,
  AllowCrossProviderFallback

ASSUME PolicyAssumption ==
  /\ Candidates \in Nat \ {0}
  /\ MaxAttempts \in 1..5
  /\ MaxSameRouteRetries \in Nat
  /\ MaxFallbackRoutes \in Nat
  /\ AllowCrossProviderFallback \in BOOLEAN

VARIABLES
  run,      \* the loop of each request
  time,     \* what is left of each request's deadline
  permits   \* the candidates whose half-open permit a request has taken

vars == <<run, time, permits>>

-----------------------------------------------------------------------------
(* What classifyRetry makes of an error.  "cancelled" is what an adapter   *)
(* throws when its signal is aborted, by the client or by the attempt's    *)
(* timer.                                                                  *)
Errors == {"rate_limit", "timeout", "transient", "credential", "model",
           "rejected", "cancelled"}

Retryable(e) == e \in {"rate_limit", "timeout", "transient"}
FallbackAllowed(e) == Retryable(e) \/ e \in {"credential", "model"}
SameRouteAllowed(e) == Retryable(e)

Points == {"idle", "top", "validating", "permitting", "reserving", "starting",
           "calling", "succeeding", "failing", "reporting", "deciding",
           "sleeping", "returned", "threw"}

(* left is the number of attempts made when the client cancelled, or -1.   *)
(* Three fields only serve the properties: timedOut says that an attempt   *)
(* has run into its timer, calls counts the provider calls per candidate,  *)
(* skipped has the candidates passed over for capacity.                    *)
Run == [at: Points, candidate: 1..(Candidates + 1), attempts: 0..MaxAttempts,
        same: 0..MaxSameRouteRetries, fallbacks: 0..Candidates,
        reserved: BOOLEAN, linked: BOOLEAN, error: Errors \cup {"none"},
        left: -1..MaxAttempts, timedOut: BOOLEAN,
        calls: [1..Candidates -> Nat], skipped: SUBSET (1..Candidates)]

Fresh == [at |-> "idle", candidate |-> 1, attempts |-> 0, same |-> 0, fallbacks |-> 0,
          reserved |-> FALSE, linked |-> FALSE, error |-> "none",
          left |-> -1, timedOut |-> FALSE, 
          calls |-> [c \in 1..Candidates |-> 0], skipped |-> {}]

-----------------------------------------------------------------------------
(* Helpers *)

At(r, point) == run[r].at = point
Goes(r, point) == run' = [run EXCEPT ![r].at = point]

(* Faulty variant: the caller's signal is not handed to the loop.          *)
Unheard(r) == FALSE

Aborted(r) == run[r].left >= 0

(* A candidate that is refused now: the next one, which counts as a        *)
(* fallback.                                                               *)
PassOver(r, unused) ==
  run' = [run EXCEPT ![r].at = "top", ![r].candidate = @ + 1,
                     ![r].same = 0, ![r].fallbacks = @ + 1, ![r].skipped = @ \cup unused]

-----------------------------------------------------------------------------
(* Before an attempt *)

Enter(r) ==
  /\ At(r, "idle")
  /\ Goes(r, "top")
  /\ UNCHANGED <<time, permits>>

(* Faulty variant: the deadline is only checked before a first attempt.    *)
DeadlineOnce(r) ==
  /\ run[r].attempts < MaxAttempts
  /\ ~Aborted(r)
  /\ time[r] = "ample" \/ run[r].attempts > 0
  /\ run[r].candidate <= Candidates

(* What the loop asks of an iteration: attempts left, a client, time for   *)
(* an attempt, and a candidate.                                            *)
MayGoOn(r) ==
  /\ run[r].attempts < MaxAttempts
  /\ ~Aborted(r)
  /\ time[r] = "ample"
  /\ run[r].candidate <= Candidates

LoopTop(r) ==
  /\ At(r, "top")
  /\ Goes(r, IF MayGoOn(r) THEN "validating" ELSE "threw")
  /\ UNCHANGED <<time, permits>>

(* revalidateCandidate: an invalid candidate is left behind; the count of  *)
(* retries on one route carries over to the next.                          *)
Revalidate(r) ==
  /\ At(r, "validating")
  /\ \/ Goes(r, "permitting")
     \/ run' = [run EXCEPT ![r].at = "top", ![r].candidate = @ + 1]
  /\ UNCHANGED <<time, permits>>

(* acquireExecutionPermit: a closed circuit needs no permit, a half-open   *)
(* one gives a few, an open one none.                                      *)
AcquirePermit(r) ==
  /\ At(r, "permitting")
  /\ \/ Goes(r, "reserving") /\ UNCHANGED permits
     \/ /\ Goes(r, "reserving")
        /\ permits' = [permits EXCEPT ![r] = @ \cup {run[r].candidate}]
     \/ PassOver(r, {}) /\ UNCHANGED permits
  /\ UNCHANGED time

(* evaluateAndReserveProviderAttempt.  A refusal passes over the candidate *)
(* and leaves its permit to expire.                                        *)
ReserveCapacity(r) ==
  /\ At(r, "reserving")
  /\ \/ run' = [run EXCEPT ![r].at = "starting", ![r].attempts = @ + 1, ![r].reserved = TRUE]
     \/ PassOver(r, {run[r].candidate})
  /\ UNCHANGED <<time, permits>>

-----------------------------------------------------------------------------
(* The attempt *)

(* The attempt is recorded, its timer set and the client's signal linked   *)
(* to it.  A signal aborted before it is linked never reaches the call.    *)
StartCall(r) ==
  /\ At(r, "starting")
  /\ run' = [run EXCEPT ![r].at = "calling", ![r].linked = ~Aborted(r),
                        ![r].calls[run[r].candidate] = @ + 1]
  /\ UNCHANGED <<time, permits>>

ProviderAnswers(r) ==
  /\ At(r, "calling")
  /\ Goes(r, "succeeding")
  /\ UNCHANGED <<time, permits>>

(* executeRoute throws: cancelReservation comes first in the catch.        *)
ProviderFails(r) ==
  /\ At(r, "calling")
  /\ \E e \in Errors \ {"cancelled"} :
       run' = [run EXCEPT ![r].at = "failing", ![r].error = e]
  /\ UNCHANGED <<time, permits>>

CallAborted(r) ==
  /\ At(r, "calling")
  /\ run[r].linked /\ Aborted(r)
  /\ run' = [run EXCEPT ![r].at = "failing", ![r].error = "cancelled"]
  /\ UNCHANGED <<time, permits>>

(* Faulty variant: the timer is set only for a signal that can be linked.  *)
TimerIfLinked(r) ==
  /\ At(r, "calling")
  /\ time[r] = "spent" /\ run[r].linked
  /\ \E e \in {"timeout", "cancelled"} :
       run' = [run EXCEPT ![r].at = "failing", ![r].error = e, ![r].timedOut = TRUE]
  /\ UNCHANGED <<time, permits>>

(* The attempt's timer and the adapter's own have the same length; the one *)
(* that fires first decides what the attempt is taken for.                 *)
TimerFires(r) ==
  /\ At(r, "calling")
  /\ time[r] = "spent"
  /\ \E e \in {"timeout", "cancelled"} :
       run' = [run EXCEPT ![r].at = "failing", ![r].error = e, ![r].timedOut = TRUE]
  /\ UNCHANGED <<time, permits>>

(* recordRouteOutcome with the permit, finalizeReservation, the records.   *)
Succeed(r) ==
  /\ At(r, "succeeding")
  /\ run' = [run EXCEPT ![r].at = "returned", ![r].reserved = FALSE]
  /\ permits' = [permits EXCEPT ![r] = @ \ {run[r].candidate}]
  /\ UNCHANGED time

CancelReservation(r) ==
  /\ At(r, "failing")
  /\ run' = [run EXCEPT ![r].at = "reporting", ![r].reserved = FALSE]
  /\ UNCHANGED <<time, permits>>

(* Faulty variant: the outcome of a failure is reported without permit.    *)
ReportWithoutPermit(r) ==
  /\ At(r, "reporting")
  /\ Goes(r, "deciding")
  /\ UNCHANGED <<time, permits>>

(* recordRouteOutcome with the permit.                                     *)
ReportOutcome(r) ==
  /\ At(r, "reporting")
  /\ Goes(r, "deciding")
  /\ permits' = [permits EXCEPT ![r] = @ \ {run[r].candidate}]
  /\ UNCHANGED time

-----------------------------------------------------------------------------
(* After a failed attempt *)

(* Faulty variant: retries are counted from one.                           *)
OneMoreRetry(r) ==
  SameRouteAllowed(run[r].error) /\ run[r].same <= MaxSameRouteRetries

CanRetrySameRoute(r) ==
  SameRouteAllowed(run[r].error) /\ run[r].same < MaxSameRouteRetries

CanFallback(r) ==
  /\ FallbackAllowed(run[r].error)
  /\ run[r].fallbacks < MaxFallbackRoutes
  /\ run[r].candidate < Candidates
  /\ AllowCrossProviderFallback

MayTryAgain(r) == ~Aborted(r) /\ run[r].attempts < MaxAttempts

RetrySameRoute(r) ==
  /\ At(r, "deciding")
  /\ MayTryAgain(r) /\ CanRetrySameRoute(r)
  /\ run' = [run EXCEPT ![r].at = "sleeping", ![r].same = @ + 1]
  /\ UNCHANGED <<time, permits>>

FallBack(r) ==
  /\ At(r, "deciding")
  /\ MayTryAgain(r) /\ ~CanRetrySameRoute(r) /\ CanFallback(r)
  /\ run' = [run EXCEPT ![r].at = "sleeping", ![r].candidate = @ + 1,
                        ![r].same = 0, ![r].fallbacks = @ + 1]
  /\ UNCHANGED <<time, permits>>

GiveUp(r) ==
  /\ At(r, "deciding")
  /\ ~MayTryAgain(r) \/ ~(CanRetrySameRoute(r) \/ CanFallback(r))
  /\ Goes(r, "threw")
  /\ UNCHANGED <<time, permits>>

(* cancellableSleep: a delay of zero is no delay, and a cancelled one      *)
(* throws.                                                                 *)
Sleep(r) ==
  /\ At(r, "sleeping")
  /\ \/ Goes(r, "top")
     \/ Aborted(r) /\ Goes(r, "threw")
  /\ UNCHANGED <<time, permits>>

-----------------------------------------------------------------------------
(* Around the loop *)

Ended(r) == run[r].at \in {"returned", "threw"}

ClientCancels(r) ==
  /\ ~Aborted(r) /\ ~Ended(r)
  /\ run' = [run EXCEPT ![r].left = run[r].attempts]
  /\ UNCHANGED <<time, permits>>

TimePasses(r) ==
  /\ ~At(r, "idle") /\ ~Ended(r)
  /\ \/ time[r] = "ample" /\ time' = [time EXCEPT ![r] = "short"]
     \/ time[r] = "short" /\ time' = [time EXCEPT ![r] = "spent"]
  /\ UNCHANGED <<run, permits>>

(* A permit nobody reports on expires after permitTtlMs.                   *)
PermitExpires(r, c) ==
  /\ c \in permits[r]
  /\ permits' = [permits EXCEPT ![r] = @ \ {c}]
  /\ UNCHANGED <<run, time>>

-----------------------------------------------------------------------------
Init ==
  /\ run = [r \in Requests |-> Fresh]
  /\ time = [r \in Requests |-> "ample"]
  /\ permits = [r \in Requests |-> {}]

(* What the loop does by itself once it has been entered.                  *)
Proceed(r) ==
  \/ LoopTop(r) \/ Revalidate(r) \/ AcquirePermit(r) \/ ReserveCapacity(r)
  \/ StartCall(r) \/ CallAborted(r) \/ TimerFires(r)
  \/ Succeed(r) \/ CancelReservation(r) \/ ReportOutcome(r)
  \/ RetrySameRoute(r) \/ FallBack(r) \/ GiveUp(r) \/ Sleep(r)

Next ==
  \E r \in Requests :
    \/ Enter(r) \/ Proceed(r)
    \/ ProviderAnswers(r) \/ ProviderFails(r)
    \/ ClientCancels(r) \/ TimePasses(r)
    \/ \E c \in 1..Candidates : PermitExpires(r, c)

Spec == Init /\ [][Next]_vars

(* Promises are answered, time passes, and an adapter whose signal is      *)
(* aborted throws.  A provider need not answer.                            *)
FairSpec ==
  /\ Spec
  /\ \A r \in Requests : WF_vars(Proceed(r)) /\ WF_vars(TimePasses(r))

-----------------------------------------------------------------------------
(* Properties *)

(* Loops, deadlines and permits keep their types.                          *)
TypeOK ==
  /\ run \in [Requests -> Run]
  /\ time \in [Requests -> {"ample", "short", "spent"}]
  /\ permits \in [Requests -> SUBSET (1..Candidates)]

(* However retries, fallbacks and skipped candidates mix, the provider     *)
(* calls of a request stay within the policy's limits in all and on one    *)
(* route, and none is called before its turn.                              *)
CallsBounded ==
  \A r \in Requests :
    /\ run[r].attempts <= MaxAttempts
    /\ \A c \in 1..Candidates :
         /\ run[r].calls[c] <= 1 + MaxSameRouteRetries
         /\ c > run[r].candidate => run[r].calls[c] = 0

(* RetryPolicy: "Maximum number of fallback candidate routes to try".      *)
FallbacksBounded ==
  \A r \in Requests :
    Cardinality({c \in 1..Candidates : run[r].calls[c] > 0}) <= 1 + MaxFallbackRoutes

(* A request that has ended, whether it was answered or has thrown, holds  *)
(* no provider capacity, and no permit but those of candidates that were   *)
(* passed over for capacity, which stay out until they expire.             *)
EndsEmptyHanded ==
  \A r \in Requests :
    Ended(r) => /\ ~run[r].reserved
                /\ permits[r] \subseteq run[r].skipped

(* A client that cancels may pay for one more provider call, the one whose *)
(* candidate was being validated, permitted or recorded when it did, and   *)
(* never for two.                                                          *)
CancelCostsOneCall ==
  \A r \in Requests : run[r].left >= 0 => run[r].attempts <= run[r].left + 1

(* Attempts share one deadline, so an attempt that ran into its timer was  *)
(* the last: whatever the timeout was taken for, no retry follows it.      *)
TimeoutIsLast ==
  [][\A r \in Requests : run[r].timedOut => run'[r].attempts = run[r].attempts]_vars

(* Every request comes to an end, with a silent provider, with candidates  *)
(* that are refused one after the other, and with a client that cancelled  *)
(* too early to be heard by the call.                                      *)
EveryRequestEnds == \A r \in Requests : At(r, "top") ~> Ended(r)
=============================================================================
