---------------------------- MODULE CircuitBreaker ----------------------------
(***************************************************************************)
(* The circuit breaker of one provider route (RouteCircuitBreaker), the    *)
(* attempts the resilience controller runs through it, the active health   *)
(* probe, and the operator's overrides.                                    *)
(*                                                                         *)
(* The breaker lives in one process and its methods await nothing, so each *)
(* call is one action; attempts, probes, operators and the passage of time *)
(* interleave between calls.  The code compares wall-clock timestamps; the *)
(* model keeps the time that went by since openedAt and the time left to   *)
(* permits and overrides, and Tick moves them, so that the state stays     *)
(* finite however long the system runs.  Removing an expired permit or     *)
(* override is lazy in the code but every read removes it first, so Tick   *)
(* removes it here.  The step from OPEN to HALF_OPEN is lazy too, and that *)
(* one is kept: it happens inside the call that looks at the circuit.      *)
(*                                                                         *)
(* Latencies, scores, reasons and event payloads are left out: nothing     *)
(* here depends on them.                                                   *)
(***************************************************************************)
EXTENDS Integers, FiniteSets, Functions

CONSTANTS
  Attempts,            \* attempts that may be under way at the same time
  FailureThreshold,    \* consecutiveFailureThreshold
  MinimumSamples,      \* minimumSampleSize
  FailurePercent,      \* failureRateThreshold, in percent
  TimeoutPercent,      \* timeoutRateThreshold, in percent
  OpenDuration,        \* openDurationMs, in ticks
  MaxOpenDuration,     \* maxOpenDurationMs, in ticks
  HalfOpenConcurrent,  \* halfOpenMaxConcurrent
  RequiredSuccesses,   \* halfOpenRequiredSuccesses
  PermitTtl,           \* permitTtlMs, in ticks
  AttemptTimeout,      \* timeout of an attempt, in ticks
  WindowTicks,         \* length of the rolling window, in ticks
  OverrideLives,       \* remaining lives an override may be given
  MaxSamples,          \* bound: samples in the window before new attempts wait
  MaxOperatorCalls     \* bound: operator calls

ASSUME BreakerAssumption ==
  /\ IsFiniteSet(Attempts)
  /\ FailureThreshold \in Nat \ {0} /\ MinimumSamples \in Nat \ {0}
  /\ FailurePercent \in 0..100 /\ TimeoutPercent \in 0..100
  /\ OpenDuration \in Nat \ {0} /\ MaxOpenDuration \in Nat
  /\ OpenDuration <= MaxOpenDuration
  /\ HalfOpenConcurrent \in Nat \ {0} /\ RequiredSuccesses \in Nat \ {0}
  /\ PermitTtl \in Nat /\ AttemptTimeout \in Nat
  /\ WindowTicks \in Nat \ {0}
  /\ OverrideLives \subseteq Int
  /\ MaxSamples \in Nat /\ MaxOperatorCalls \in Nat

VARIABLES
  breaker,    \* circuitState, openedAt, openCooldownMs, reopenCount and counters
  window,     \* SlidingWindowTracker: sample counts by age
  permits,    \* activePermits: ticks each attempt's permit has left, 0 if none
  override,   \* manualOverride that has not expired
  attempts,   \* attempts under way
  up,         \* is the provider answering?
  probeDue,   \* has the probe scheduler's interval elapsed?
  calls       \* operator calls made

vars == <<breaker, window, permits, override, attempts, up, probeDue, calls>>

-----------------------------------------------------------------------------
(* Types *)

Null == -1               \* openedAt = null; an override without expiresAt
BackoffLimit == 4        \* the exponent stops growing here, and so reopens does

Breaker == [circuit: {"CLOSED", "OPEN", "HALF_OPEN"},
            openFor: Null..MaxOpenDuration,
            cooldown: Nat,
            reopens: 0..BackoffLimit,
            failures: 0..FailureThreshold,
            successes: 0..RequiredSuccesses]

Closed == [circuit |-> "CLOSED", openFor |-> Null, cooldown |-> OpenDuration,
           reopens |-> 0, failures |-> 0, successes |-> 0]

Overrides == [state: {"NONE", "FORCED_OPEN", "FORCED_CLOSED"}, life: Int]
NoOverride == [state |-> "NONE", life |-> 0]

Samples == [all: Nat, failed: Nat, timedOut: Nat]
NoSamples == [all |-> 0, failed |-> 0, timedOut |-> 0]
Ages == 0..(WindowTicks - 1)
EmptyWindow == [a \in Ages |-> NoSamples]

(* An attempt carries the circuit state its permit named, its age, and the *)
(* conditions its provider has been in since it started.  A reset forgets  *)
(* the permits given out: an attempt that held one is FORGOTTEN.           *)
Attempt == [admitted: {"NONE", "CLOSED", "FORCED_CLOSED", "HALF_OPEN", "FORGOTTEN"},
            age: 0..AttemptTimeout, saw: SUBSET BOOLEAN]
Idle == [admitted |-> "NONE", age |-> 0, saw |-> {}]

Failures == {"error", "timeout"}       \* error_5xx and network_error are alike
Pressure == {"pressure"}               \* rate_limit_429, auth_failure
Excluded == {"excluded"}               \* client_cancelled, bad_request, content_rejected
Signals == {"success"} \cup Failures \cup Pressure \cup Excluded

-----------------------------------------------------------------------------
(* Helpers *)

Least(x, y) == IF x <= y THEN x ELSE y

Running(a) == attempts[a].admitted # "NONE"
Live(a) == permits[a] > 0

(* A permit is still good in the instant it expires (now > expiresAt); in  *)
(* the faulty variant it is not.                                           *)
ExpiresAtOnce == PermitTtl
PermitLife == PermitTtl + 1

(* The cooldown after r reopenings in a row.                               *)
Backoff(r) ==
  IF r = 0 THEN OpenDuration
  ELSE Least(OpenDuration * <<2, 4, 8, 16>>[r], MaxOpenDuration)

-----------------------------------------------------------------------------
(* The breaker's own steps *)

(* SlidingWindowTracker.recordSignal.                                      *)
Sampled(w, signal) ==
  IF signal \in Excluded THEN w
  ELSE [w EXCEPT ![0] =
         [all      |-> @.all + 1,
          failed   |-> @.failed + (IF signal \in Failures THEN 1 ELSE 0),
          timedOut |-> @.timedOut + (IF signal = "timeout" THEN 1 ELSE 0)]]

(* Faulty variant: failures only clear the successes.                      *)
CountsNoFailure(b, signal) ==
  IF signal = "success"
  THEN [b EXCEPT !.failures = 0, !.successes = Least(@ + 1, RequiredSuccesses)]
  ELSE [b EXCEPT !.successes = 0]

(* The consecutive counters; both are only ever compared to a threshold.   *)
Counted(b, signal) ==
  CASE signal = "success" ->
         [b EXCEPT !.failures = 0,
                   !.successes = Least(@ + 1, RequiredSuccesses)]
    [] signal \in Failures ->
         [b EXCEPT !.successes = 0,
                   !.failures = Least(@ + 1, FailureThreshold)]
    [] OTHER -> b

(* getCurrentCircuitState: an elapsed cooldown half-opens the circuit.     *)
CooledDown(b) == b.circuit = "OPEN" /\ b.openFor # Null /\ b.openFor >= b.cooldown

(* Faulty variant: the successes counted so far are kept.                  *)
RefreshKeepsSuccesses(b) ==
  IF override = NoOverride /\ CooledDown(b)
  THEN [b EXCEPT !.circuit = "HALF_OPEN"] ELSE b

Refreshed(b) ==
  IF override = NoOverride /\ CooledDown(b)
  THEN [b EXCEPT !.circuit = "HALF_OPEN", !.successes = 0]
  ELSE b

View(b) == IF override # NoOverride THEN override.state ELSE b.circuit

Reopened(b) ==
  LET r == Least(b.reopens + 1, BackoffLimit)
  IN  [b EXCEPT !.circuit = "OPEN", !.openFor = 0, !.successes = 0,
                !.reopens = r, !.cooldown = Backoff(r)]

(* Faulty variant: the backoff survives the recovery.                      *)
RecoveryKeepsBackoff(b) ==
  [b EXCEPT !.circuit = "CLOSED", !.openFor = Null, !.failures = 0,
            !.cooldown = OpenDuration]

Recovered(b) ==
  [b EXCEPT !.circuit = "CLOSED", !.openFor = Null, !.failures = 0,
            !.reopens = 0, !.cooldown = OpenDuration]

Opened(b) == [b EXCEPT !.circuit = "OPEN", !.openFor = 0]

(* The conditions that open a closed circuit, over the window and counters *)
(* the outcome has just been added to.                                     *)
Breached(b, w) ==
  LET all      == SumFunction([a \in Ages |-> w[a].all])
      failed   == SumFunction([a \in Ages |-> w[a].failed])
      timedOut == SumFunction([a \in Ages |-> w[a].timedOut])
  IN  \/ b.failures >= FailureThreshold
      \/ /\ all >= MinimumSamples
         /\ \/ 100 * failed >= FailurePercent * all
            \/ 100 * timedOut >= TimeoutPercent * all

(* recordOutcome, after the permit has been returned: sample, count, look  *)
(* at the circuit, and judge the outcome by what the circuit is now.       *)
Outcome(signal) ==
  LET w        == Sampled(window, signal)
      b        == Refreshed(Counted(breaker, signal))
      reopens  == View(b) = "HALF_OPEN" /\ signal \in Failures
      recovers == /\ View(b) = "HALF_OPEN" /\ signal = "success"
                  /\ b.successes >= RequiredSuccesses
      opens    == View(b) = "CLOSED" /\ Breached(b, w)
  IN  /\ breaker' = CASE reopens  -> Reopened(b)
                      [] recovers -> Recovered(b)
                      [] opens    -> Opened(b)
                      [] OTHER    -> b
      /\ window' = IF recovers THEN Sampled(EmptyWindow, signal) ELSE w

-----------------------------------------------------------------------------
(* Attempts: ResilienceController.executeNonStream *)

Started(a, view) ==
  attempts' = [attempts EXCEPT ![a] = [admitted |-> view, age |-> 0, saw |-> {up}]]

(* MaxSamples leaves room for the outcomes of the attempts under way.      *)
RoomForAttempt ==
  SumFunction([a \in Ages |-> window[a].all])
    + Cardinality({a \in Attempts : Running(a)}) < MaxSamples

(* acquirePermit.  An attempt id is used again only when its permit is gone.*)
AcquirePermit(a) ==
  /\ ~Running(a) /\ ~Live(a) /\ RoomForAttempt
  /\ breaker' = Refreshed(breaker)
  /\ LET view == View(Refreshed(breaker))
         live == {x \in Attempts : Live(x)}
     IN  \/ /\ view \in {"OPEN", "FORCED_OPEN"}
            /\ UNCHANGED <<permits, attempts>>
         \/ /\ view \in {"CLOSED", "FORCED_CLOSED"}
            /\ Started(a, view)
            /\ UNCHANGED permits
         \/ /\ view = "HALF_OPEN"
            /\ Cardinality(live) < HalfOpenConcurrent
            /\ permits' = [permits EXCEPT ![a] = PermitLife]
            /\ Started(a, view)
         \/ /\ view = "HALF_OPEN"
            /\ Cardinality(live) >= HalfOpenConcurrent
            /\ UNCHANGED <<permits, attempts>>
  /\ UNCHANGED <<window, override, up, probeDue, calls>>

(* The provider capacity reservation is refused after the permit was given:*)
(* the controller moves on to the next route and records nothing, so the   *)
(* permit stays until it expires.                                          *)
AbandonAttempt(a) ==
  /\ Running(a) /\ attempts[a].age = 0
  /\ attempts' = [attempts EXCEPT ![a] = Idle]
  /\ UNCHANGED <<breaker, window, permits, override, up, probeDue, calls>>

(* What an attempt may end with, given what its provider did meanwhile.  A *)
(* client may cancel at any time, and a provider may shed load.            *)
Possible(a, signal) ==
  /\ signal = "success" => TRUE \in attempts[a].saw
  /\ signal \in Failures => FALSE \in attempts[a].saw

RecordOutcome(a, signal) ==
  /\ Running(a) /\ Possible(a, signal)
  /\ permits' = [permits EXCEPT ![a] = 0]
  /\ attempts' = [attempts EXCEPT ![a] = Idle]
  /\ Outcome(signal)
  /\ UNCHANGED <<override, up, probeDue, calls>>

-----------------------------------------------------------------------------
(* The probe scheduler and the readers of snapshots *)

(* Faulty variant: routes that are not closed are not probed.              *)
ProbeClosedOnly ==
  /\ probeDue
  /\ probeDue' = FALSE
  /\ IF breaker.circuit = "CLOSED" THEN Outcome(IF up THEN "success" ELSE "error")
     ELSE UNCHANGED <<breaker, window>>
  /\ UNCHANGED <<permits, override, attempts, up, calls>>

(* recordProbe needs no permit: the scheduler probes in every state.       *)
RecordProbe ==
  /\ probeDue
  /\ probeDue' = FALSE
  /\ Outcome(IF up THEN "success" ELSE "error")
  /\ UNCHANGED <<permits, override, attempts, up, calls>>

(* getSnapshot, for routing and for the operator's pages.                  *)
GetSnapshot ==
  /\ breaker' = Refreshed(breaker)
  /\ UNCHANGED <<window, permits, override, attempts, up, probeDue, calls>>

-----------------------------------------------------------------------------
(* The operator *)

OperatorCall == calls < MaxOperatorCalls /\ calls' = calls + 1

ManualOverride(state, life) ==
  /\ OperatorCall
  /\ override' = IF life = 0 THEN NoOverride ELSE [state |-> state, life |-> life]
  /\ UNCHANGED <<breaker, window, permits, attempts, up, probeDue>>

ForceOpen(life) == ManualOverride("FORCED_OPEN", life)
ForceClose(life) == ManualOverride("FORCED_CLOSED", life)

(* recover keeps the permits, the cooldown and the reopen count.           *)
Recover ==
  /\ OperatorCall
  /\ override' = NoOverride
  /\ breaker' = [breaker EXCEPT !.circuit = "HALF_OPEN", !.openFor = Null,
                                !.successes = 0, !.failures = 0]
  /\ UNCHANGED <<window, permits, attempts, up, probeDue>>

Reset ==
  /\ OperatorCall
  /\ override' = NoOverride
  /\ breaker' = Closed
  /\ window' = EmptyWindow
  /\ permits' = [a \in Attempts |-> 0]
  /\ attempts' = [a \in Attempts |->
                    IF attempts[a].admitted = "HALF_OPEN"
                    THEN [attempts[a] EXCEPT !.admitted = "FORGOTTEN"]
                    ELSE attempts[a]]
  /\ UNCHANGED <<up, probeDue>>

-----------------------------------------------------------------------------
(* Time and the provider *)

(* The attempt timer ends an attempt no later than AttemptTimeout.         *)
AttemptTimersHold == \A a \in Attempts : Running(a) => attempts[a].age < AttemptTimeout

(* One tick, which is also the probe interval.                             *)
Tick ==
  /\ AttemptTimersHold
  /\ breaker' = [breaker EXCEPT !.openFor =
                   IF @ = Null THEN Null ELSE Least(@ + 1, MaxOpenDuration)]
  /\ window' = [a \in Ages |-> IF a = 0 THEN NoSamples ELSE window[a - 1]]
  /\ permits' = [a \in Attempts |-> IF Live(a) THEN permits[a] - 1 ELSE 0]
  /\ override' = CASE override.life = 1 -> NoOverride
                   [] override.life > 1 -> [override EXCEPT !.life = @ - 1]
                   [] OTHER -> override
  /\ attempts' = [a \in Attempts |->
                    IF Running(a) THEN [attempts[a] EXCEPT !.age = @ + 1] ELSE Idle]
  /\ probeDue' = TRUE
  /\ UNCHANGED <<up, calls>>

ProviderChanges ==
  /\ up' = ~up
  /\ attempts' = [a \in Attempts |->
                    IF Running(a) THEN [attempts[a] EXCEPT !.saw = @ \cup {~up}]
                    ELSE attempts[a]]
  /\ UNCHANGED <<breaker, window, permits, override, probeDue, calls>>

-----------------------------------------------------------------------------
Init ==
  /\ breaker = Closed
  /\ window = EmptyWindow
  /\ permits = [a \in Attempts |-> 0]
  /\ override = NoOverride
  /\ attempts = [a \in Attempts |-> Idle]
  /\ up = TRUE
  /\ probeDue = TRUE
  /\ calls = 0

Next ==
  \/ \E a \in Attempts : AcquirePermit(a)
  \/ \E a \in Attempts : AbandonAttempt(a)
  \/ \E a \in Attempts, signal \in Signals : RecordOutcome(a, signal)
  \/ RecordProbe
  \/ GetSnapshot
  \/ \E life \in OverrideLives : ForceOpen(life) \/ ForceClose(life)
  \/ Recover
  \/ Reset
  \/ Tick
  \/ ProviderChanges

(* Time passes, the scheduler's loop keeps probing, and the attempt timer  *)
(* makes every attempt end.                                                *)
Fairness ==
  /\ WF_vars(Tick)
  /\ WF_vars(RecordProbe)
  /\ \A a \in Attempts :
       WF_vars(AbandonAttempt(a) \/ \E signal \in Signals : RecordOutcome(a, signal))

Spec == Init /\ [][Next]_vars
FairSpec == Spec /\ Fairness

-----------------------------------------------------------------------------
(* Properties *)

(* Types of the breaker, its window, its permits and the attempts; the     *)
(* counters stay within the thresholds they are compared to.               *)
TypeOK ==
  /\ breaker \in Breaker
  /\ window \in [Ages -> Samples]
  /\ permits \in [Attempts -> 0..PermitLife]
  /\ override \in Overrides
  /\ attempts \in [Attempts -> Attempt]
  /\ up \in BOOLEAN
  /\ probeDue \in BOOLEAN
  /\ calls \in 0..MaxOperatorCalls

(* An open circuit knows when it opened: without openedAt the cooldown of  *)
(* getCurrentCircuitState never elapses and the route is lost for good.    *)
OpenHasDeadline == breaker.circuit = "OPEN" => breaker.openFor # Null

(* The cooldown is the one the number of reopenings in a row calls for, and*)
(* a circuit that has closed starts over, whichever calls of recordOutcome,*)
(* recover and reset came between.                                         *)
BackoffFollowsReopens ==
  /\ breaker.cooldown = Backoff(breaker.reopens)
  /\ breaker.circuit = "CLOSED" => breaker.reopens = 0

(* The attempts let through a half-open circuit between t + PermitTtl and t*)
(* ticks ago that are still under way.                                     *)
ProbesOfSpan(t) ==
  {a \in Attempts : /\ attempts[a].admitted = "HALF_OPEN"
                    /\ attempts[a].age - t \in 0..PermitTtl}

(* However attempts, abandoned permits, expiries, reopenings and recoveries*)
(* interleave, of the attempts let through a half-open circuit within the  *)
(* life of one permit no more than halfOpenMaxConcurrent are under way at  *)
(* once.  Attempts may outlive their permits, so over longer spans, and    *)
(* after a reset, more may be.                                             *)
HalfOpenConcurrency ==
  \A t \in 0..AttemptTimeout : Cardinality(ProbesOfSpan(t)) <= HalfOpenConcurrent

(* An open circuit is left by itself only when its cooldown has elapsed and*)
(* no override is in force, and then only for HALF_OPEN: outcomes of late  *)
(* attempts, however many and however good, never close it.                *)
OperatorActs == calls' # calls
LeavesOpenToProbe ==
  [][/\ breaker.circuit = "OPEN" /\ breaker'.circuit # "OPEN"
     /\ ~OperatorActs
     => /\ breaker'.circuit = "HALF_OPEN"
        /\ CooledDown(breaker) /\ override = NoOverride]_vars

(* While an override is in force no outcome, snapshot or elapsed cooldown  *)
(* moves the circuit under it.                                             *)
OverrideFreezes ==
  [][override # NoOverride /\ override' = override
     => breaker'.circuit = breaker.circuit]_vars

(* A route whose provider answers again, with no override, is closed again *)
(* and stays closed, with no traffic but the probes.                       *)
Recovers ==
  <>[](up /\ override = NoOverride) => <>[](breaker.circuit = "CLOSED")

(* A route whose provider stays down keeps being opened, with no traffic   *)
(* but the probes.                                                         *)
OpensWhenDown ==
  <>[](~up /\ override = NoOverride) => []<>(breaker.circuit = "OPEN")
=============================================================================
