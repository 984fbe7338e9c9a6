------------------------ MODULE CircuitBreakerProofs ------------------------
(* Proofs about CircuitBreaker for every number of attempts, every         *)
(* threshold and every length of the timers.                               *)
EXTENDS CircuitBreaker, FiniteSetTheorems, TLAPS

(* What every breaker record the calls produce satisfies.                  *)
Sound(b) ==
  /\ b \in Breaker
  /\ b.circuit = "OPEN" => b.openFor # Null
  /\ b.cooldown = Backoff(b.reopens)
  /\ b.circuit = "CLOSED" => b.reopens = 0

-----------------------------------------------------------------------------
(* The breaker's own steps keep it sound *)

LEMMA BackoffNat == \A r \in 0..BackoffLimit : Backoff(r) \in Nat
<1> SUFFICES ASSUME NEW r \in 0..BackoffLimit PROVE Backoff(r) \in Nat
  OBVIOUS
<1>1. \A f \in {2, 4, 8, 16} : Least(OpenDuration * f, MaxOpenDuration) \in Nat
  BY BreakerAssumption DEF Least
<1>2. r # 0 => <<2, 4, 8, 16>>[r] \in {2, 4, 8, 16}
  BY DEF BackoffLimit
<1> QED
  BY <1>1, <1>2, BreakerAssumption DEF Backoff

LEMMA Ranges ==
  /\ 0 \in Null..MaxOpenDuration /\ Null \in Null..MaxOpenDuration
  /\ 0 \in 0..RequiredSuccesses /\ 0 \in 0..FailureThreshold /\ 0 \in 0..BackoffLimit
  /\ OpenDuration \in Nat
BY BreakerAssumption DEF Null, BackoffLimit

LEMMA ClosedSound == Sound(Closed)
BY BreakerAssumption DEF Sound, Closed, Breaker, Backoff, Null, BackoffLimit

LEMMA CountedSound ==
  ASSUME NEW b, Sound(b), NEW signal \in Signals
  PROVE  /\ Sound(Counted(b, signal))
         /\ Counted(b, signal).circuit = b.circuit
         /\ Counted(b, signal).openFor = b.openFor
         /\ Counted(b, signal).cooldown = b.cooldown
<1>1. /\ b \in Breaker
      /\ b.failures \in 0..FailureThreshold /\ b.successes \in 0..RequiredSuccesses
  BY DEF Sound, Breaker
<1>2. /\ Least(b.successes + 1, RequiredSuccesses) \in 0..RequiredSuccesses
      /\ Least(b.failures + 1, FailureThreshold) \in 0..FailureThreshold
  BY <1>1, BreakerAssumption DEF Least
<1> DEFINE c == Counted(b, signal)
<1>3. \/ c = [b EXCEPT !.failures = 0, !.successes = Least(b.successes + 1, RequiredSuccesses)]
      \/ c = [b EXCEPT !.successes = 0, !.failures = Least(b.failures + 1, FailureThreshold)]
      \/ c = b
  BY DEF Counted, Failures
<1>4. c \in Breaker
  BY <1>1, <1>2, <1>3, Ranges DEF Breaker
<1>5. /\ c.circuit = b.circuit /\ c.openFor = b.openFor
      /\ c.cooldown = b.cooldown /\ c.reopens = b.reopens
  BY <1>1, <1>3 DEF Breaker
<1> QED
  BY <1>4, <1>5 DEF Sound

LEMMA RefreshedSound ==
  ASSUME NEW b, Sound(b)
  PROVE  Sound(Refreshed(b))
<1>1. b \in Breaker
  BY DEF Sound
<1> DEFINE h == [b EXCEPT !.circuit = "HALF_OPEN", !.successes = 0]
<1>2. h \in Breaker
  BY <1>1, Ranges DEF Breaker
<1>3. h.circuit = "HALF_OPEN" /\ h.cooldown = b.cooldown /\ h.reopens = b.reopens
  BY <1>1 DEF Breaker
<1>4. Sound(h)
  BY <1>2, <1>3 DEF Sound
<1> QED
  BY <1>4 DEF Refreshed

LEMMA ReopenedSound ==
  ASSUME NEW b, Sound(b)
  PROVE  Sound(Reopened(b))
<1> DEFINE r == Least(b.reopens + 1, BackoffLimit)
<1>1. b \in Breaker /\ b.reopens \in 0..BackoffLimit
  BY DEF Sound, Breaker
<1>2. r \in 0..BackoffLimit
  BY <1>1 DEF Least, BackoffLimit
<1>3. Backoff(r) \in Nat
  BY <1>2, BackoffNat
<1>4. Reopened(b) = [b EXCEPT !.circuit = "OPEN", !.openFor = 0, !.successes = 0,
                              !.reopens = r, !.cooldown = Backoff(r)]
  BY DEF Reopened
<1> HIDE DEF r
<1>5. Reopened(b) \in Breaker
  BY <1>1, <1>2, <1>3, <1>4, Ranges DEF Breaker
<1>6. /\ Reopened(b).circuit = "OPEN" /\ Reopened(b).openFor = 0
      /\ Reopened(b).cooldown = Backoff(r) /\ Reopened(b).reopens = r
  BY <1>1, <1>4 DEF Breaker
<1> QED
  BY <1>5, <1>6 DEF Sound, Null

LEMMA RecoveredSound ==
  ASSUME NEW b, Sound(b)
  PROVE  Sound(Recovered(b))
<1>1. b \in Breaker
  BY DEF Sound
<1>2. Recovered(b) \in Breaker
  BY <1>1, Ranges DEF Recovered, Breaker
<1>3. /\ Recovered(b).circuit = "CLOSED"
      /\ Recovered(b).cooldown = OpenDuration /\ Recovered(b).reopens = 0
  BY <1>1 DEF Recovered, Breaker
<1> QED
  BY <1>2, <1>3 DEF Sound, Backoff

LEMMA OpenedSound ==
  ASSUME NEW b, Sound(b)
  PROVE  Sound(Opened(b))
<1>0. b \in Breaker
  BY DEF Sound
<1>1. Opened(b) \in Breaker
  BY <1>0, Ranges DEF Opened, Breaker
<1>2. /\ Opened(b).circuit = "OPEN" /\ Opened(b).openFor = 0
      /\ Opened(b).cooldown = b.cooldown /\ Opened(b).reopens = b.reopens
  BY <1>0 DEF Opened, Breaker
<1> QED
  BY <1>1, <1>2 DEF Sound, Null

LEMMA SampledType ==
  ASSUME NEW w \in [Ages -> Samples], NEW signal \in Signals
  PROVE  Sampled(w, signal) \in [Ages -> Samples]
<1>1. 0 \in Ages /\ w[0] \in Samples
  BY BreakerAssumption DEF Ages
<1> DEFINE s == [all      |-> w[0].all + 1,
                 failed   |-> w[0].failed + (IF signal \in Failures THEN 1 ELSE 0),
                 timedOut |-> w[0].timedOut + (IF signal = "timeout" THEN 1 ELSE 0)]
<1>2. s \in Samples
  BY <1>1 DEF Samples
<1>3. Sampled(w, signal) = w \/ Sampled(w, signal) = [w EXCEPT ![0] = s]
  BY DEF Sampled
<1> HIDE DEF s
<1> QED
  BY <1>1, <1>2, <1>3

LEMMA EmptyWindowType == EmptyWindow \in [Ages -> Samples]
BY DEF EmptyWindow, NoSamples, Samples

(* recordOutcome keeps the breaker sound, and moves an open circuit only   *)
(* to HALF_OPEN and a circuit under an override not at all.                *)
LEMMA OutcomeSound ==
  ASSUME Sound(breaker), window \in [Ages -> Samples], NEW signal \in Signals,
         override \in Overrides, Outcome(signal)
  PROVE  /\ Sound(breaker')
         /\ window' \in [Ages -> Samples]
         /\ breaker.circuit = "OPEN" /\ breaker'.circuit # "OPEN"
            => /\ breaker'.circuit = "HALF_OPEN"
               /\ CooledDown(breaker) /\ override = NoOverride
         /\ override # NoOverride => breaker'.circuit = breaker.circuit
<1> DEFINE c == Counted(breaker, signal)
           b == Refreshed(c)
           w == Sampled(window, signal)
<1>1. /\ Sound(c) /\ c.circuit = breaker.circuit
      /\ c.openFor = breaker.openFor /\ c.cooldown = breaker.cooldown
  BY CountedSound
<1>2. Sound(b)
  BY <1>1, RefreshedSound
<1>3. w \in [Ages -> Samples]
  BY SampledType
<1>4. \/ breaker' = b
      \/ breaker' = Reopened(b) /\ View(b) = "HALF_OPEN"
      \/ /\ breaker' = Recovered(b) /\ View(b) = "HALF_OPEN"
         /\ b.successes >= RequiredSuccesses
      \/ breaker' = Opened(b) /\ View(b) = "CLOSED"
  BY DEF Outcome
<1>5. window' = w \/ window' = Sampled(EmptyWindow, signal)
  BY DEF Outcome
<1>6. Sound(breaker')
  BY <1>2, <1>4, ReopenedSound, RecoveredSound, OpenedSound
<1>7. window' \in [Ages -> Samples]
  BY <1>3, <1>5, SampledType, EmptyWindowType
<1>8. CooledDown(c) <=> CooledDown(breaker)
  BY <1>1 DEF CooledDown
<1> HIDE DEF c
<1>9. CASE override # NoOverride
  <2>1. b = c
    BY <1>9 DEF Refreshed
  <2>2. View(b) \notin {"HALF_OPEN", "CLOSED"}
    BY <1>9 DEF View, Overrides, NoOverride
  <2> QED
    BY <1>1, <1>4, <1>6, <1>7, <1>9, <2>1, <2>2
<1>10. CASE override = NoOverride /\ breaker.circuit = "OPEN"
  <2>1. CASE CooledDown(breaker)
    <3>1. b.circuit = "HALF_OPEN" /\ b.successes = 0
      <4>1. c \in Breaker
        BY <1>1 DEF Sound
      <4>2. b = [c EXCEPT !.circuit = "HALF_OPEN", !.successes = 0]
        BY <1>8, <1>10, <2>1 DEF Refreshed
      <4> QED
        BY <4>1, <4>2 DEF Breaker
    <3>2. View(b) = "HALF_OPEN"
      BY <3>1, <1>10 DEF View
    <3>3. breaker' = b \/ breaker' = Reopened(b)
      BY <1>4, <3>1, <3>2, BreakerAssumption
    <3>4. Reopened(b).circuit = "OPEN"
      <4>1. b \in Breaker
        BY <1>2 DEF Sound
      <4> QED
        BY <4>1 DEF Reopened, Breaker
    <3> QED
      BY <1>6, <1>7, <1>10, <2>1, <3>1, <3>3, <3>4
  <2>2. CASE ~CooledDown(breaker)
    <3>1. b = c
      BY <1>8, <2>2 DEF Refreshed
    <3>2. View(b) = "OPEN"
      BY <1>1, <1>10, <3>1 DEF View
    <3> QED
      BY <1>1, <1>4, <1>6, <1>7, <1>10, <3>1, <3>2
  <2> QED
    BY <2>1, <2>2
<1> QED
  BY <1>6, <1>7, <1>9, <1>10

-----------------------------------------------------------------------------
(* Every step keeps the types and a sound breaker *)

(* What LeavesOpenToProbe and OverrideFreezes say of one step.             *)
LawfulStep ==
  /\ breaker.circuit = "OPEN" /\ breaker'.circuit # "OPEN" /\ ~OperatorActs
     => /\ breaker'.circuit = "HALF_OPEN"
        /\ CooledDown(breaker) /\ override = NoOverride
  /\ override # NoOverride /\ override' = override => breaker'.circuit = breaker.circuit

StepSound == TypeOK' /\ Sound(breaker') /\ LawfulStep

LEMMA RefreshLawful ==
  ASSUME TypeOK, Sound(breaker), breaker' = Refreshed(breaker)
  PROVE  Sound(breaker') /\ LawfulStep
<1>1. breaker \in Breaker
  BY DEF TypeOK
<1>2. Sound(breaker')
  BY RefreshedSound
<1> DEFINE h == [breaker EXCEPT !.circuit = "HALF_OPEN", !.successes = 0]
<1>3. \/ breaker' = breaker
      \/ breaker' = h /\ override = NoOverride /\ CooledDown(breaker)
  BY DEF Refreshed
<1>4. h.circuit = "HALF_OPEN"
  BY <1>1 DEF Breaker
<1> HIDE DEF h
<1>5. \/ breaker'.circuit = breaker.circuit
      \/ /\ breaker'.circuit = "HALF_OPEN"
         /\ override = NoOverride /\ CooledDown(breaker)
  BY <1>3, <1>4
<1> QED
  BY <1>2, <1>5 DEF LawfulStep

LEMMA IdleType == Idle \in Attempt
BY BreakerAssumption DEF Idle, Attempt

LEMMA StartedType ==
  ASSUME TypeOK, NEW a \in Attempts,
         NEW view \in {"CLOSED", "FORCED_CLOSED", "HALF_OPEN"}, Started(a, view)
  PROVE  attempts' \in [Attempts -> Attempt]
<1> DEFINE t == [admitted |-> view, age |-> 0, saw |-> {up}]
<1>1. 0 \in 0..AttemptTimeout /\ {up} \in SUBSET BOOLEAN
  BY BreakerAssumption DEF TypeOK
<1>2. t \in Attempt
  BY <1>1 DEF Attempt
<1>3. attempts' = [attempts EXCEPT ![a] = t] /\ attempts \in [Attempts -> Attempt]
  BY DEF Started, TypeOK
<1> HIDE DEF t
<1> QED
  BY <1>2, <1>3

LEMMA AcquireStep ==
  ASSUME TypeOK, Sound(breaker), NEW a \in Attempts, AcquirePermit(a)
  PROVE  StepSound
<1>1. Sound(breaker') /\ LawfulStep
  BY RefreshLawful DEF AcquirePermit
<1>2. UNCHANGED <<window, override, up, probeDue, calls>>
  BY DEF AcquirePermit
<1>3. PermitLife \in 0..PermitLife
  BY BreakerAssumption DEF PermitLife
<1>4. permits' \in [Attempts -> 0..PermitLife]
  BY <1>3 DEF AcquirePermit, TypeOK
<1>5. attempts' = attempts
      \/ \E view \in {"CLOSED", "FORCED_CLOSED", "HALF_OPEN"} : Started(a, view)
  BY DEF AcquirePermit
<1>6. attempts' \in [Attempts -> Attempt]
  BY <1>5, StartedType DEF TypeOK
<1> QED
  BY <1>1, <1>2, <1>4, <1>6 DEF StepSound, TypeOK, Sound

LEMMA RecordStep ==
  ASSUME TypeOK, Sound(breaker), NEW a \in Attempts, NEW signal \in Signals,
         RecordOutcome(a, signal)
  PROVE  StepSound
<1>1. /\ Outcome(signal) /\ UNCHANGED <<override, up, probeDue, calls>>
      /\ permits' = [permits EXCEPT ![a] = 0]
      /\ attempts' = [attempts EXCEPT ![a] = Idle]
  BY DEF RecordOutcome
<1>2. Sound(breaker') /\ window' \in [Ages -> Samples] /\ LawfulStep
  BY <1>1, OutcomeSound DEF TypeOK, LawfulStep
<1>3. 0 \in 0..PermitLife
  BY BreakerAssumption DEF PermitLife
<1>4. permits' \in [Attempts -> 0..PermitLife] /\ attempts' \in [Attempts -> Attempt]
  BY <1>1, <1>3, IdleType DEF TypeOK
<1> QED
  BY <1>1, <1>2, <1>4 DEF StepSound, TypeOK, Sound

LEMMA ProbeStep ==
  ASSUME TypeOK, Sound(breaker), RecordProbe
  PROVE  StepSound
<1>1. /\ \E signal \in Signals : Outcome(signal)
      /\ UNCHANGED <<permits, override, attempts, up, calls>> /\ probeDue' = FALSE
  BY DEF RecordProbe, Signals, Failures
<1>2. Sound(breaker') /\ window' \in [Ages -> Samples] /\ LawfulStep
  BY <1>1, OutcomeSound DEF TypeOK, LawfulStep
<1> QED
  BY <1>1, <1>2 DEF StepSound, TypeOK, Sound

LEMMA CallsType ==
  ASSUME TypeOK, OperatorCall
  PROVE  calls' \in 0..MaxOperatorCalls /\ OperatorActs
BY BreakerAssumption DEF TypeOK, OperatorCall, OperatorActs

LEMMA ForceStep ==
  ASSUME TypeOK, Sound(breaker), NEW forced \in {"FORCED_OPEN", "FORCED_CLOSED"},
         NEW life \in OverrideLives, ManualOverride(forced, life)
  PROVE  StepSound
<1>1. calls' \in 0..MaxOperatorCalls
  BY CallsType DEF ManualOverride
<1>2. UNCHANGED <<breaker, window, permits, attempts, up, probeDue>>
  BY DEF ManualOverride
<1>3. override' \in Overrides
  BY BreakerAssumption DEF ManualOverride, Overrides, NoOverride
<1> QED
  BY <1>1, <1>2, <1>3 DEF StepSound, TypeOK, Sound, LawfulStep

LEMMA RecoverStep ==
  ASSUME TypeOK, Sound(breaker), Recover
  PROVE  StepSound
<1> DEFINE r == [breaker EXCEPT !.circuit = "HALF_OPEN", !.openFor = Null,
                                !.successes = 0, !.failures = 0]
<1>1. calls' \in 0..MaxOperatorCalls /\ OperatorActs
  BY CallsType DEF Recover
<1>2. /\ breaker' = r /\ override' = NoOverride
      /\ UNCHANGED <<window, permits, attempts, up, probeDue>>
  BY DEF Recover
<1>3. breaker \in Breaker
  BY DEF TypeOK
<1>4. r \in Breaker
  BY <1>3, Ranges DEF Breaker
<1>5. r.circuit = "HALF_OPEN" /\ r.cooldown = breaker.cooldown /\ r.reopens = breaker.reopens
  BY <1>3 DEF Breaker
<1> HIDE DEF r
<1>6. Sound(breaker')
  BY <1>2, <1>4, <1>5 DEF Sound
<1>7. NoOverride \in Overrides
  BY DEF NoOverride, Overrides
<1>8. LawfulStep
  BY <1>1, <1>2 DEF LawfulStep
<1> QED
  BY <1>1, <1>2, <1>6, <1>7, <1>8 DEF StepSound, TypeOK, Sound

LEMMA ResetStep ==
  ASSUME TypeOK, Sound(breaker), Reset
  PROVE  StepSound
<1>1. calls' \in 0..MaxOperatorCalls /\ OperatorActs
  BY CallsType DEF Reset
<1>2. /\ breaker' = Closed /\ override' = NoOverride /\ window' = EmptyWindow
      /\ permits' = [a \in Attempts |-> 0] /\ UNCHANGED <<up, probeDue>>
  BY DEF Reset
<1>3. Sound(breaker')
  BY <1>2, ClosedSound
<1>4. NoOverride \in Overrides
  BY DEF NoOverride, Overrides
<1>5. \A t \in Attempt : [t EXCEPT !.admitted = "FORGOTTEN"] \in Attempt
  BY DEF Attempt
<1>6. attempts' \in [Attempts -> Attempt]
  BY <1>5 DEF Reset, TypeOK
<1>7. permits' \in [Attempts -> 0..PermitLife]
  BY <1>2, BreakerAssumption DEF PermitLife
<1>8. LawfulStep
  BY <1>1, <1>2 DEF LawfulStep
<1> QED
  BY <1>1, <1>2, <1>3, <1>4, <1>6, <1>7, <1>8, EmptyWindowType DEF StepSound, TypeOK, Sound

LEMMA TickStep ==
  ASSUME TypeOK, Sound(breaker), Tick
  PROVE  StepSound
<1> DEFINE o == IF breaker.openFor = Null THEN Null
                ELSE Least(breaker.openFor + 1, MaxOpenDuration)
<1>1. /\ breaker \in Breaker /\ breaker.openFor \in Null..MaxOpenDuration
  BY DEF TypeOK, Breaker
<1>2. o \in Null..MaxOpenDuration /\ (breaker.openFor # Null => o # Null)
  BY <1>1, BreakerAssumption DEF Least, Null
<1>3. breaker' = [breaker EXCEPT !.openFor = o]
  BY DEF Tick
<1> HIDE DEF o
<1>4. breaker' \in Breaker
  BY <1>1, <1>2, <1>3 DEF Breaker
<1>5. /\ breaker'.circuit = breaker.circuit /\ breaker'.openFor = o
      /\ breaker'.cooldown = breaker.cooldown /\ breaker'.reopens = breaker.reopens
  BY <1>1, <1>3 DEF Breaker
<1>6. Sound(breaker') /\ LawfulStep
  BY <1>2, <1>4, <1>5 DEF Sound, LawfulStep
<1>7. \A a \in Ages : a # 0 => a - 1 \in Ages
  BY BreakerAssumption DEF Ages
<1>8. window' \in [Ages -> Samples]
  BY <1>7 DEF Tick, TypeOK, NoSamples, Samples
<1>9. permits' \in [Attempts -> 0..PermitLife]
  <2>1. \A x \in 0..PermitLife : x > 0 => x - 1 \in 0..PermitLife
    BY BreakerAssumption DEF PermitLife
  <2>2. 0 \in 0..PermitLife
    BY BreakerAssumption DEF PermitLife
  <2> QED
    BY <2>1, <2>2 DEF Tick, TypeOK, Live
<1>10. override' \in Overrides
  <2>1. override \in Overrides
    BY DEF TypeOK
  <2>2. override' \in {NoOverride, override, [override EXCEPT !.life = override.life - 1]}
    BY DEF Tick
  <2> QED
    BY <2>1, <2>2 DEF Overrides, NoOverride
<1>11. attempts' \in [Attempts -> Attempt]
  <2>1. \A a \in Attempts : attempts[a] \in Attempt
    BY DEF TypeOK
  <2>2. \A a \in Attempts : Running(a) => attempts[a].age + 1 \in 0..AttemptTimeout
    BY <2>1, BreakerAssumption DEF Tick, AttemptTimersHold, Attempt
  <2>3. \A a \in Attempts : Running(a)
          => [attempts[a] EXCEPT !.age = attempts[a].age + 1] \in Attempt
    BY <2>1, <2>2 DEF Attempt
  <2> QED
    BY <2>3, IdleType DEF Tick
<1>12. UNCHANGED <<up, calls>> /\ probeDue' = TRUE
  BY DEF Tick
<1> QED
  BY <1>6, <1>8, <1>9, <1>10, <1>11, <1>12 DEF StepSound, TypeOK, Sound

LEMMA ProviderStep ==
  ASSUME TypeOK, Sound(breaker), ProviderChanges
  PROVE  StepSound
<1>1. \A t \in Attempt : [t EXCEPT !.saw = t.saw \cup {~up}] \in Attempt
  BY DEF Attempt, TypeOK
<1>2. attempts' \in [Attempts -> Attempt]
  BY <1>1 DEF ProviderChanges, TypeOK
<1>3. up' \in BOOLEAN /\ UNCHANGED <<breaker, window, permits, override, probeDue, calls>>
  BY DEF ProviderChanges, TypeOK
<1> QED
  BY <1>2, <1>3 DEF StepSound, TypeOK, Sound, LawfulStep

LEMMA AbandonStep ==
  ASSUME TypeOK, Sound(breaker), NEW a \in Attempts, AbandonAttempt(a)
  PROVE  StepSound
<1>1. attempts' \in [Attempts -> Attempt]
  BY IdleType DEF AbandonAttempt, TypeOK
<1> QED
  BY <1>1 DEF AbandonAttempt, StepSound, TypeOK, Sound, LawfulStep

LEMMA SnapshotStep ==
  ASSUME TypeOK, Sound(breaker), GetSnapshot
  PROVE  StepSound
<1>1. Sound(breaker') /\ LawfulStep
  BY RefreshLawful DEF GetSnapshot
<1> QED
  BY <1>1 DEF GetSnapshot, StepSound, TypeOK, Sound

LEMMA NextStep ==
  ASSUME TypeOK, Sound(breaker), [Next]_vars
  PROVE  StepSound
<1>1. ASSUME NEW a \in Attempts, AcquirePermit(a) PROVE StepSound
  BY <1>1, AcquireStep
<1>2. ASSUME NEW a \in Attempts, AbandonAttempt(a) PROVE StepSound
  BY <1>2, AbandonStep
<1>3. ASSUME NEW a \in Attempts, NEW signal \in Signals, RecordOutcome(a, signal)
      PROVE  StepSound
  BY <1>3, RecordStep
<1>4. CASE RecordProbe
  BY <1>4, ProbeStep
<1>5. CASE GetSnapshot
  BY <1>5, SnapshotStep
<1>6. ASSUME NEW life \in OverrideLives, ForceOpen(life) \/ ForceClose(life)
      PROVE  StepSound
  BY <1>6, ForceStep DEF ForceOpen, ForceClose
<1>7. CASE Recover
  BY <1>7, RecoverStep
<1>8. CASE Reset
  BY <1>8, ResetStep
<1>9. CASE Tick
  BY <1>9, TickStep
<1>10. CASE ProviderChanges
  BY <1>10, ProviderStep
<1>11. CASE UNCHANGED vars
  BY <1>11 DEF vars, StepSound, TypeOK, Sound, LawfulStep
<1> QED
  BY <1>1, <1>2, <1>3, <1>4, <1>5, <1>6, <1>7, <1>8, <1>9, <1>10, <1>11 DEF Next

LEMMA InitSound == Init => TypeOK /\ Sound(breaker)
<1> SUFFICES ASSUME Init PROVE TypeOK /\ Sound(breaker)
  OBVIOUS
<1>1. Sound(breaker)
  BY ClosedSound DEF Init
<1>2. breaker \in Breaker
  BY <1>1 DEF Sound
<1>3. window \in [Ages -> Samples]
  BY EmptyWindowType DEF Init
<1>4. permits \in [Attempts -> 0..PermitLife]
  BY BreakerAssumption DEF Init, PermitLife
<1>5. override \in Overrides
  BY DEF Init, Overrides, NoOverride
<1>6. attempts \in [Attempts -> Attempt]
  BY IdleType DEF Init
<1>7. up \in BOOLEAN /\ probeDue \in BOOLEAN /\ calls \in 0..MaxOperatorCalls
  BY BreakerAssumption DEF Init
<1> QED
  BY <1>1, <1>2, <1>3, <1>4, <1>5, <1>6, <1>7 DEF TypeOK

LEMMA AlwaysSound == Spec => [](TypeOK /\ Sound(breaker))
<1>1. TypeOK /\ Sound(breaker) /\ [Next]_vars => (TypeOK /\ Sound(breaker))'
  BY NextStep DEF StepSound
<1> QED
  BY <1>1, InitSound, PTL DEF Spec

(* The breaker, its window, its permits and the attempts keep their types. *)
THEOREM TypeCorrect == Spec => []TypeOK
BY AlwaysSound, PTL

(* An open circuit always has the date its cooldown is counted from, so it *)
(* can always be half-opened again.                                        *)
THEOREM OpenCanCoolDown == Spec => []OpenHasDeadline
<1>1. Sound(breaker) => OpenHasDeadline
  BY DEF Sound, OpenHasDeadline
<1> QED
  BY <1>1, AlwaysSound, PTL

(* The cooldown in force is the backoff of the reopenings counted, and     *)
(* a closed circuit has none, whatever outcomes and operators did.         *)
THEOREM BackoffIsCounted == Spec => []BackoffFollowsReopens
<1>1. Sound(breaker) => BackoffFollowsReopens
  BY DEF Sound, BackoffFollowsReopens
<1> QED
  BY <1>1, AlwaysSound, PTL

(* An open circuit is never closed by outcomes: it serves its cooldown and *)
(* goes through HALF_OPEN.                                                 *)
THEOREM CooldownIsServed == Spec => LeavesOpenToProbe
<1>1. TypeOK /\ Sound(breaker) /\ [Next]_vars => LawfulStep
  BY NextStep DEF StepSound
<1>2. LawfulStep =>
        [/\ breaker.circuit = "OPEN" /\ breaker'.circuit # "OPEN"
         /\ ~OperatorActs
         => /\ breaker'.circuit = "HALF_OPEN"
            /\ CooledDown(breaker) /\ override = NoOverride]_vars
  BY DEF LawfulStep
<1> QED
  BY <1>1, <1>2, AlwaysSound, PTL DEF Spec, LeavesOpenToProbe

(* Under a manual override the circuit stands still.                       *)
THEOREM OverrideStandsStill == Spec => OverrideFreezes
<1>1. TypeOK /\ Sound(breaker) /\ [Next]_vars => LawfulStep
  BY NextStep DEF StepSound
<1>2. LawfulStep =>
        [override # NoOverride /\ override' = override
         => breaker'.circuit = breaker.circuit]_vars
  BY DEF LawfulStep
<1> QED
  BY <1>1, <1>2, AlwaysSound, PTL DEF Spec, OverrideFreezes

-----------------------------------------------------------------------------
(* Probes of a half-open circuit *)

LiveAttempts == {a \in Attempts : Live(a)}
PermitsBounded == Cardinality(LiveAttempts) <= HalfOpenConcurrent

(* A probe as old as its permit may become still holds it.                 *)
ProbesHoldPermits ==
  \A a \in Attempts :
    attempts[a].admitted = "HALF_OPEN" /\ attempts[a].age <= PermitTtl
    => permits[a] = PermitLife - attempts[a].age

ProbeInv == PermitsBounded /\ ProbesHoldPermits /\ HalfOpenConcurrency

(* A set that has grown no larger than another bounded one is bounded.     *)
LEMMA BoundedSubset ==
  ASSUME NEW S, NEW T \in SUBSET S, IsFiniteSet(S), Cardinality(S) <= HalfOpenConcurrent
  PROVE  Cardinality(T) <= HalfOpenConcurrent
<1>1. IsFiniteSet(T) /\ Cardinality(T) <= Cardinality(S)
  BY FS_Subset
<1>2. Cardinality(T) \in Nat /\ Cardinality(S) \in Nat
  BY <1>1, FS_CardinalityType
<1> QED
  BY <1>1, <1>2, BreakerAssumption

(* The probes of the latest span hold the live permits; those of an older  *)
(* one were there before the step, in its span or in the next younger one. *)
LEMMA SpansStayBounded ==
  ASSUME TypeOK', ProbeInv, PermitsBounded', ProbesHoldPermits',
         \A t \in 1..AttemptTimeout :
            \E s \in 0..AttemptTimeout : ProbesOfSpan(t)' \subseteq ProbesOfSpan(s)
  PROVE  ProbeInv'
<1>1. ASSUME NEW t \in 0..AttemptTimeout
      PROVE  Cardinality(ProbesOfSpan(t)') <= HalfOpenConcurrent
  <2>1. CASE t = 0
    <3>1. ASSUME NEW a \in ProbesOfSpan(0)' PROVE a \in LiveAttempts'
      <4>1. /\ a \in Attempts /\ attempts'[a].admitted = "HALF_OPEN"
            /\ attempts'[a].age - 0 \in 0..PermitTtl
        BY DEF ProbesOfSpan
      <4>2. attempts'[a].age \in Nat /\ attempts'[a].age <= PermitTtl
        BY <4>1, BreakerAssumption DEF TypeOK, Attempt
      <4>3. permits'[a] = PermitLife - attempts'[a].age
        BY <4>1, <4>2 DEF ProbesHoldPermits
      <4>4. permits'[a] > 0
        BY <4>2, <4>3, BreakerAssumption DEF PermitLife
      <4> QED
        BY <4>1, <4>4 DEF LiveAttempts, Live
    <3>2. IsFiniteSet(LiveAttempts')
      BY BreakerAssumption, FS_Subset DEF LiveAttempts
    <3>3. ProbesOfSpan(0)' \subseteq LiveAttempts'
      BY <3>1
    <3>4. Cardinality(LiveAttempts') <= HalfOpenConcurrent
      BY DEF PermitsBounded
    <3>5. Cardinality(ProbesOfSpan(0)') <= HalfOpenConcurrent
      BY <3>2, <3>3, <3>4, BoundedSubset
    <3> QED
      BY <2>1, <3>5 DEF ProbesOfSpan
  <2>2. CASE t # 0
    <3>1. t \in 1..AttemptTimeout
      BY <2>2, BreakerAssumption
    <3>2. PICK s \in 0..AttemptTimeout : ProbesOfSpan(t)' \subseteq ProbesOfSpan(s)
      BY <3>1
    <3>3. IsFiniteSet(ProbesOfSpan(s))
      BY BreakerAssumption, FS_Subset DEF ProbesOfSpan
    <3>4. Cardinality(ProbesOfSpan(s)) <= HalfOpenConcurrent
      BY DEF ProbeInv, HalfOpenConcurrency
    <3> QED
      BY <3>2, <3>3, <3>4, BoundedSubset
  <2> QED
    BY <2>1, <2>2
<1> QED
  BY <1>1 DEF ProbeInv, HalfOpenConcurrency, ProbesOfSpan

LEMMA LiveShrinks ==
  ASSUME PermitsBounded, LiveAttempts' \subseteq LiveAttempts
  PROVE  PermitsBounded'
<1>1. IsFiniteSet(LiveAttempts)
  BY BreakerAssumption, FS_Subset DEF LiveAttempts
<1> QED
  BY <1>1, BoundedSubset DEF PermitsBounded

(* A step that lets nobody through and ages nobody.                        *)
LEMMA ProbesOnlyLeave ==
  ASSUME TypeOK', ProbeInv, PermitsBounded', ProbesHoldPermits',
         \A a \in Attempts : attempts'[a].admitted = "HALF_OPEN"
            => attempts[a].admitted = "HALF_OPEN" /\ attempts[a].age = attempts'[a].age
  PROVE  ProbeInv'
<1>1. \A t \in 1..AttemptTimeout : ProbesOfSpan(t)' \subseteq ProbesOfSpan(t)
  BY DEF ProbesOfSpan
<1>2. \A t \in 1..AttemptTimeout :
        \E s \in 0..AttemptTimeout : ProbesOfSpan(t)' \subseteq ProbesOfSpan(s)
  BY <1>1, BreakerAssumption
<1> QED
  BY <1>2, SpansStayBounded

LEMMA ProbeInvUnchanged ==
  ASSUME ProbeInv, UNCHANGED <<permits, attempts>>
  PROVE  ProbeInv'
BY DEF ProbeInv, PermitsBounded, ProbesHoldPermits, LiveAttempts, Live,
       HalfOpenConcurrency, ProbesOfSpan

LEMMA AcquireProbe ==
  ASSUME TypeOK, TypeOK', ProbeInv, NEW a \in Attempts, AcquirePermit(a)
  PROVE  ProbeInv'
<1> DEFINE view == View(Refreshed(breaker))
<1>1. CASE UNCHANGED <<permits, attempts>>
  BY <1>1, ProbeInvUnchanged
<1>2. CASE Started(a, view) /\ UNCHANGED permits /\ view \in {"CLOSED", "FORCED_CLOSED"}
  <2>1. LiveAttempts' = LiveAttempts
    BY <1>2 DEF LiveAttempts, Live
  <2>2. PermitsBounded'
    BY <2>1 DEF ProbeInv, PermitsBounded
  <2>3. ProbesHoldPermits'
    BY <1>2 DEF Started, ProbeInv, ProbesHoldPermits, TypeOK
  <2>4. \A x \in Attempts : attempts'[x].admitted = "HALF_OPEN"
          => attempts[x].admitted = "HALF_OPEN" /\ attempts[x].age = attempts'[x].age
    BY <1>2 DEF Started, TypeOK
  <2> QED
    BY <2>2, <2>3, <2>4, ProbesOnlyLeave
<1>3. CASE /\ view = "HALF_OPEN" /\ Started(a, view)
           /\ Cardinality(LiveAttempts) < HalfOpenConcurrent
           /\ permits' = [permits EXCEPT ![a] = PermitLife]
  <2>1. a \notin LiveAttempts
    BY DEF AcquirePermit, LiveAttempts
  <2>2. LiveAttempts' = LiveAttempts \cup {a}
    BY <1>3, BreakerAssumption DEF LiveAttempts, Live, TypeOK, PermitLife
  <2>3. IsFiniteSet(LiveAttempts)
    BY BreakerAssumption, FS_Subset DEF LiveAttempts
  <2>4. /\ Cardinality(LiveAttempts') = Cardinality(LiveAttempts) + 1
        /\ Cardinality(LiveAttempts) \in Nat
    BY <2>1, <2>2, <2>3, FS_AddElement, FS_CardinalityType
  <2>5. PermitsBounded'
    BY <1>3, <2>4, BreakerAssumption DEF PermitsBounded
  <2>6. attempts'[a].age = 0 /\ \A x \in Attempts \ {a} : attempts'[x] = attempts[x]
    BY <1>3 DEF Started, TypeOK
  <2>7. ProbesHoldPermits'
    BY <1>3, <2>6, BreakerAssumption DEF ProbeInv, ProbesHoldPermits, TypeOK, PermitLife
  <2>8. \A t \in 1..AttemptTimeout : ProbesOfSpan(t)' \subseteq ProbesOfSpan(t)
    <3>1. \A t \in 1..AttemptTimeout : 0 - t \notin 0..PermitTtl
      BY BreakerAssumption
    <3> QED
      BY <2>6, <3>1 DEF ProbesOfSpan
  <2>9. \A t \in 1..AttemptTimeout :
          \E s \in 0..AttemptTimeout : ProbesOfSpan(t)' \subseteq ProbesOfSpan(s)
    BY <2>8, BreakerAssumption
  <2> QED
    BY <2>5, <2>7, <2>9, SpansStayBounded
<1> QED
  BY <1>1, <1>2, <1>3 DEF AcquirePermit, LiveAttempts

LEMMA EndProbe ==
  ASSUME TypeOK, TypeOK', ProbeInv, NEW a \in Attempts,
         permits' = [permits EXCEPT ![a] = 0] \/ permits' = permits,
         attempts' = [attempts EXCEPT ![a] = Idle]
  PROVE  ProbeInv'
<1>1. LiveAttempts' \subseteq LiveAttempts
  BY DEF LiveAttempts, Live, TypeOK
<1>2. PermitsBounded'
  BY <1>1, LiveShrinks DEF ProbeInv
<1>3. ProbesHoldPermits'
  BY DEF ProbeInv, ProbesHoldPermits, TypeOK, Idle
<1>4. \A x \in Attempts : attempts'[x].admitted = "HALF_OPEN"
        => attempts[x].admitted = "HALF_OPEN" /\ attempts[x].age = attempts'[x].age
  BY DEF TypeOK, Idle
<1> QED
  BY <1>2, <1>3, <1>4, ProbesOnlyLeave

LEMMA ResetProbe ==
  ASSUME TypeOK, TypeOK', ProbeInv, Reset
  PROVE  ProbeInv'
<1>1. LiveAttempts' = {}
  BY DEF Reset, LiveAttempts, Live
<1>2. PermitsBounded'
  BY <1>1, LiveShrinks DEF ProbeInv
<1>3. \A t \in Attempt : [t EXCEPT !.admitted = "FORGOTTEN"].admitted = "FORGOTTEN"
  BY DEF Attempt
<1>4. \A a \in Attempts : attempts'[a].admitted # "HALF_OPEN"
  BY <1>3 DEF Reset, TypeOK
<1>5. ProbesHoldPermits'
  BY <1>4 DEF ProbesHoldPermits
<1> QED
  BY <1>2, <1>4, <1>5, ProbesOnlyLeave

LEMMA TickProbe ==
  ASSUME TypeOK, TypeOK', ProbeInv, Tick
  PROVE  ProbeInv'
<1>1. /\ permits' = [a \in Attempts |-> IF Live(a) THEN permits[a] - 1 ELSE 0]
      /\ attempts' = [a \in Attempts |->
                        IF Running(a) THEN [attempts[a] EXCEPT !.age = @ + 1] ELSE Idle]
  BY DEF Tick
<1>2. LiveAttempts' \subseteq LiveAttempts
  BY <1>1 DEF LiveAttempts, Live, TypeOK
<1>3. PermitsBounded'
  BY <1>2, LiveShrinks DEF ProbeInv
<1>4. ASSUME NEW a \in Attempts, attempts'[a].admitted = "HALF_OPEN"
      PROVE  /\ attempts[a].admitted = "HALF_OPEN"
             /\ attempts[a].age \in Nat
             /\ attempts'[a].age = attempts[a].age + 1
  <2>1. attempts[a] \in Attempt /\ attempts[a].age \in Nat
    BY BreakerAssumption DEF TypeOK, Attempt
  <2>2. Running(a) /\ attempts'[a] = [attempts[a] EXCEPT !.age = attempts[a].age + 1]
    BY <1>1, <1>4 DEF Idle
  <2> QED
    BY <1>4, <2>1, <2>2 DEF Attempt
<1>5. ASSUME NEW a \in Attempts, attempts'[a].admitted = "HALF_OPEN",
             attempts'[a].age <= PermitTtl
      PROVE  permits'[a] = PermitLife - attempts'[a].age
  <2>1. permits[a] = PermitLife - attempts[a].age
    BY <1>4, <1>5, BreakerAssumption DEF ProbeInv, ProbesHoldPermits
  <2>2. Live(a)
    BY <1>4, <1>5, <2>1, BreakerAssumption DEF Live, PermitLife
  <2>3. permits'[a] = permits[a] - 1
    BY <1>1, <2>2
  <2> QED
    BY <1>4, <1>5, <2>1, <2>3, BreakerAssumption DEF PermitLife
<1>6. ASSUME NEW t \in 1..AttemptTimeout
      PROVE  t - 1 \in 0..AttemptTimeout /\ ProbesOfSpan(t)' \subseteq ProbesOfSpan(t - 1)
  <2>1. t - 1 \in 0..AttemptTimeout
    BY BreakerAssumption
  <2>2. ASSUME NEW a \in ProbesOfSpan(t)' PROVE a \in ProbesOfSpan(t - 1)
    <3>1. /\ a \in Attempts /\ attempts'[a].admitted = "HALF_OPEN"
          /\ attempts'[a].age - t \in 0..PermitTtl
      BY DEF ProbesOfSpan
    <3>2. attempts[a].age - (t - 1) = attempts'[a].age - t
      BY <1>4, <3>1
    <3> QED
      BY <1>4, <3>1, <3>2 DEF ProbesOfSpan
  <2> QED
    BY <2>1, <2>2
<1>7. ProbesHoldPermits'
  BY <1>5 DEF ProbesHoldPermits
<1>8. \A t \in 1..AttemptTimeout :
        \E s \in 0..AttemptTimeout : ProbesOfSpan(t)' \subseteq ProbesOfSpan(s)
  BY <1>6
<1> QED
  BY <1>3, <1>7, <1>8, SpansStayBounded

LEMMA ProviderProbe ==
  ASSUME TypeOK, TypeOK', ProbeInv, ProviderChanges
  PROVE  ProbeInv'
<1>1. \A t \in Attempt : \A x : /\ [t EXCEPT !.saw = x].admitted = t.admitted
                               /\ [t EXCEPT !.saw = x].age = t.age
  BY DEF Attempt
<1>2. \A a \in Attempts : /\ attempts'[a].admitted = attempts[a].admitted
                          /\ attempts'[a].age = attempts[a].age
  BY <1>1 DEF ProviderChanges, TypeOK
<1>3. permits' = permits
  BY DEF ProviderChanges
<1>4. PermitsBounded' /\ ProbesHoldPermits'
  BY <1>2, <1>3 DEF ProbeInv, PermitsBounded, ProbesHoldPermits, LiveAttempts, Live
<1> QED
  BY <1>2, <1>4, ProbesOnlyLeave

LEMMA NextProbe ==
  ASSUME TypeOK, TypeOK', ProbeInv, [Next]_vars
  PROVE  ProbeInv'
<1>1. ASSUME NEW a \in Attempts, AcquirePermit(a) PROVE ProbeInv'
  BY <1>1, AcquireProbe
<1>2. ASSUME NEW a \in Attempts, AbandonAttempt(a) PROVE ProbeInv'
  BY <1>2, EndProbe DEF AbandonAttempt
<1>3. ASSUME NEW a \in Attempts, NEW signal \in Signals, RecordOutcome(a, signal)
      PROVE  ProbeInv'
  BY <1>3, EndProbe DEF RecordOutcome
<1>4. CASE RecordProbe \/ GetSnapshot \/ Recover \/ UNCHANGED vars
  BY <1>4, ProbeInvUnchanged DEF RecordProbe, GetSnapshot, Recover, vars
<1>5. ASSUME NEW life \in OverrideLives, ForceOpen(life) \/ ForceClose(life)
      PROVE  ProbeInv'
  BY <1>5, ProbeInvUnchanged DEF ForceOpen, ForceClose, ManualOverride
<1>6. CASE Reset
  BY <1>6, ResetProbe
<1>7. CASE Tick
  BY <1>7, TickProbe
<1>8. CASE ProviderChanges
  BY <1>8, ProviderProbe
<1> QED
  BY <1>1, <1>2, <1>3, <1>4, <1>5, <1>6, <1>7, <1>8 DEF Next

LEMMA InitProbe == Init => ProbeInv
<1> SUFFICES ASSUME Init PROVE ProbeInv
  OBVIOUS
<1>1. LiveAttempts = {} /\ \A t \in 0..AttemptTimeout : ProbesOfSpan(t) = {}
  BY DEF Init, LiveAttempts, Live, ProbesOfSpan, Idle
<1>2. Cardinality({}) = 0
  BY FS_EmptySet
<1>3. PermitsBounded /\ HalfOpenConcurrency
  BY <1>1, <1>2, BreakerAssumption DEF PermitsBounded, HalfOpenConcurrency
<1>4. ProbesHoldPermits
  BY DEF Init, ProbesHoldPermits, Idle
<1> QED
  BY <1>3, <1>4 DEF ProbeInv

(* Of the attempts admitted by a half-open circuit within the life of one  *)
(* permit no more than halfOpenMaxConcurrent are ever under way together,  *)
(* however long an attempt may outlive its permit.                         *)
THEOREM ProbesBounded == Spec => []HalfOpenConcurrency
<1>1. TypeOK /\ TypeOK' /\ ProbeInv /\ [Next]_vars => ProbeInv'
  BY NextProbe
<1>2. ProbeInv => HalfOpenConcurrency
  BY DEF ProbeInv
<1> QED
  BY <1>1, <1>2, InitProbe, TypeCorrect, PTL DEF Spec
=============================================================================
