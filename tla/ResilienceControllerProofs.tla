--------------------- MODULE ResilienceControllerProofs ---------------------
(***************************************************************************)
(* The safety properties of the retry and fallback loop, for any number of *)
(* requests and candidates and any retry policy.                           *)
(***************************************************************************)
EXTENDS ResilienceController, TLAPS

(* Points between a passed check at the top of the loop and the attempt,   *)
(* and from the attempt to the decision what follows it.                   *)
Choosing == {"validating", "permitting", "reserving"}
Attempting == {"starting", "calling", "succeeding", "failing", "reporting", "deciding"}
Called == (Attempting \ {"starting"}) \cup {"returned", "threw"}

LoopSane(x) ==
  /\ x.at \in Choosing => x.attempts < MaxAttempts
  /\ x.at \in Choosing \cup Attempting => x.candidate <= Candidates
  /\ x.fallbacks < x.candidate

(* A retry is counted before it is made, so the calls of the current       *)
(* candidate are at most its retries, and one more from a call on.         *)
CallsSane(x) ==
  \A c \in 1..Candidates :
    /\ c > x.candidate => x.calls[c] = 0
    /\ x.calls[c] <= 1 + MaxSameRouteRetries
    /\ c = x.candidate /\ x.at \notin Called => x.calls[c] <= x.same
    /\ c = x.candidate => x.calls[c] <= 1 + x.same

(* Whoever holds the permit of the current candidate reports on it.        *)
HoldsSane(x, p) ==
  /\ x.reserved => x.at \in {"starting", "calling", "succeeding", "failing"}
  /\ \A c \in p : \/ c \in x.skipped
                  \/ c = x.candidate /\ x.at \in (Attempting \ {"deciding"}) \cup {"reserving"}

(* A loop whose client has cancelled reaches at most one more attempt.     *)
CancelSane(x) ==
  x.left >= 0 => \/ x.attempts <= x.left
                 \/ x.attempts = x.left + 1 /\ x.at \in Attempting \cup {"returned", "threw"}

TimeSane(x, t) ==
  x.timedOut => t = "spent" /\ x.at \notin Choosing

Sane(x, t, p) ==
  LoopSane(x) /\ CallsSane(x) /\ HoldsSane(x, p) /\ CancelSane(x) /\ TimeSane(x, t)

(* The inductive invariant.                                                *)
Inv == TypeOK /\ \A r \in Requests : Sane(run[r], time[r], permits[r])

-----------------------------------------------------------------------------
LEMMA InitInv == Init => Inv
<1> SUFFICES ASSUME Init PROVE Inv
  OBVIOUS
<1>1. Fresh \in Run
  BY PolicyAssumption DEF Fresh, Run, Points
<1>2. TypeOK
  BY <1>1 DEF Init, TypeOK
<1>3. Sane(Fresh, "ample", {})
  BY PolicyAssumption DEF Fresh, Sane, LoopSane, CallsSane, HoldsSane, CancelSane, TimeSane,
     Choosing, Attempting, Called
<1> QED
  BY <1>2, <1>3 DEF Inv, Init

LEMMA OneMoreCall ==
  ASSUME NEW f \in [1..Candidates -> Nat], NEW c \in 1..Candidates
  PROVE  [f EXCEPT ![c] = @ + 1] \in [1..Candidates -> Nat]
<1>1. f[c] + 1 \in Nat
  OBVIOUS
<1> QED
  BY <1>1

(* A step of one request keeps the invariant if that request stays sane.   *)
LEMMA OneMoves ==
  ASSUME Inv, NEW r \in Requests, NEW x \in Run,
         NEW t \in {"ample", "short", "spent"}, NEW p \in SUBSET (1..Candidates),
         Sane(x, t, p),
         run' = [run EXCEPT ![r] = x],
         time' = [time EXCEPT ![r] = t],
         permits' = [permits EXCEPT ![r] = p]
  PROVE  Inv'
<1>1. TypeOK'
  BY DEF Inv, TypeOK
<1>2. ASSUME NEW q \in Requests PROVE Sane(run'[q], time'[q], permits'[q])
  <2>1. CASE q = r
    BY <2>1 DEF Inv, TypeOK
  <2>2. CASE q # r
    BY <2>2 DEF Inv, TypeOK
  <2> QED
    BY <2>1, <2>2
<1> QED
  BY <1>1, <1>2 DEF Inv

-----------------------------------------------------------------------------
LEMMA EnterStep == ASSUME Inv, NEW r \in Requests, Enter(r) PROVE Inv'
<1> DEFINE x == run'[r]
           t == time'[r]
           p == permits'[r]
<1>0. /\ run[r] \in Run /\ Sane(run[r], time[r], permits[r])
      /\ time[r] \in {"ample", "short", "spent"} /\ permits[r] \subseteq 1..Candidates
  BY DEF Inv, TypeOK, Enter
<1>1. /\ x \in Run /\ run' = [run EXCEPT ![r] = x]
      /\ t \in {"ample", "short", "spent"} /\ time' = [time EXCEPT ![r] = t]
      /\ p \in SUBSET (1..Candidates) /\ permits' = [permits EXCEPT ![r] = p]
  BY <1>0, PolicyAssumption DEF Inv, TypeOK, Enter, Goes, At, Run, Points, Errors, Sane,
     LoopSane, Choosing, Attempting
<1>2. LoopSane(x)
  BY <1>0, PolicyAssumption DEF Inv, TypeOK, Enter, Goes, At, Run, Sane, LoopSane, Choosing,
     Attempting
<1>3. CallsSane(x)
  BY <1>0, PolicyAssumption DEF Inv, TypeOK, Enter, Goes, At, Run, Sane, LoopSane, CallsSane,
     Choosing, Attempting, Called
<1>4. HoldsSane(x, p)
  BY <1>0 DEF Inv, TypeOK, Enter, Goes, At, Run, Sane, HoldsSane, Attempting
<1>5. CancelSane(x) /\ TimeSane(x, t)
  BY <1>0, PolicyAssumption DEF Inv, TypeOK, Enter, Goes, At, Run, Sane, CancelSane, TimeSane,
     Choosing, Attempting
<1> QED
  BY <1>1, <1>2, <1>3, <1>4, <1>5, OneMoves DEF Sane

LEMMA LoopTopStep == ASSUME Inv, NEW r \in Requests, LoopTop(r) PROVE Inv'
<1> DEFINE x == run'[r]
           t == time'[r]
           p == permits'[r]
<1>0. /\ run[r] \in Run /\ Sane(run[r], time[r], permits[r])
      /\ time[r] \in {"ample", "short", "spent"} /\ permits[r] \subseteq 1..Candidates
  BY DEF Inv, TypeOK, LoopTop
<1>1. /\ x \in Run /\ run' = [run EXCEPT ![r] = x]
      /\ t \in {"ample", "short", "spent"} /\ time' = [time EXCEPT ![r] = t]
      /\ p \in SUBSET (1..Candidates) /\ permits' = [permits EXCEPT ![r] = p]
  BY <1>0, PolicyAssumption DEF Inv, TypeOK, LoopTop, Goes, MayGoOn, Aborted, At, Run, Points,
     Errors, Sane, LoopSane, Choosing, Attempting
<1>2. LoopSane(x)
  BY <1>0, PolicyAssumption DEF Inv, TypeOK, LoopTop, Goes, MayGoOn, Aborted, At, Run, Sane,
     LoopSane, Choosing, Attempting
<1>3. CallsSane(x)
  BY <1>0, PolicyAssumption DEF Inv, TypeOK, LoopTop, Goes, MayGoOn, Aborted, At, Run, Sane,
     LoopSane, CallsSane, Choosing, Attempting, Called
<1>4. HoldsSane(x, p)
  BY <1>0 DEF Inv, TypeOK, LoopTop, Goes, MayGoOn, Aborted, At, Run, Sane, HoldsSane, Attempting
<1>5. CancelSane(x) /\ TimeSane(x, t)
  BY <1>0, PolicyAssumption DEF Inv, TypeOK, LoopTop, Goes, MayGoOn, Aborted, At, Run, Sane,
     CancelSane, TimeSane, Choosing, Attempting
<1> QED
  BY <1>1, <1>2, <1>3, <1>4, <1>5, OneMoves DEF Sane

LEMMA RevalidateStep == ASSUME Inv, NEW r \in Requests, Revalidate(r) PROVE Inv'
<1> DEFINE x == run'[r]
           t == time'[r]
           p == permits'[r]
<1>0. /\ run[r] \in Run /\ Sane(run[r], time[r], permits[r]) /\ At(r, "validating")
      /\ time[r] \in {"ample", "short", "spent"} /\ permits[r] \subseteq 1..Candidates
  BY DEF Inv, TypeOK, Revalidate
<1>1. CASE Goes(r, "permitting") /\ UNCHANGED <<time, permits>>
  <2>1. /\ x \in Run /\ run' = [run EXCEPT ![r] = x]
        /\ t \in {"ample", "short", "spent"} /\ time' = [time EXCEPT ![r] = t]
        /\ p \in SUBSET (1..Candidates) /\ permits' = [permits EXCEPT ![r] = p]
    BY <1>0, <1>1, PolicyAssumption DEF Inv, TypeOK, Goes, At, Run, Points, Errors, Sane,
       LoopSane, Choosing, Attempting
  <2>2. LoopSane(x)
    BY <1>0, <1>1, PolicyAssumption DEF Inv, TypeOK, Goes, At, Run, Sane, LoopSane, Choosing,
       Attempting
  <2>3. CallsSane(x)
    BY <1>0, <1>1, PolicyAssumption DEF Inv, TypeOK, Goes, At, Run, Sane, LoopSane, CallsSane,
       Choosing, Attempting, Called
  <2>4. HoldsSane(x, p)
    BY <1>0, <1>1 DEF Inv, TypeOK, Goes, At, Run, Sane, HoldsSane, Attempting
  <2>5. CancelSane(x) /\ TimeSane(x, t)
    BY <1>0, <1>1, PolicyAssumption DEF Inv, TypeOK, Goes, At, Run, Sane, CancelSane, TimeSane,
       Choosing, Attempting
  <2> QED
    BY <2>1, <2>2, <2>3, <2>4, <2>5, OneMoves DEF Sane
<1>2. CASE run' = [run EXCEPT ![r].at = "top", ![r].candidate = @ + 1] /\ UNCHANGED <<time, permits>>
  <2>1. /\ x \in Run /\ run' = [run EXCEPT ![r] = x]
        /\ t \in {"ample", "short", "spent"} /\ time' = [time EXCEPT ![r] = t]
        /\ p \in SUBSET (1..Candidates) /\ permits' = [permits EXCEPT ![r] = p]
    BY <1>0, <1>2, PolicyAssumption DEF Inv, TypeOK, At, Run, Points, Errors, Sane, LoopSane,
       Choosing, Attempting
  <2>2. LoopSane(x)
    BY <1>0, <1>2, PolicyAssumption DEF Inv, TypeOK, At, Run, Sane, LoopSane, Choosing, Attempting
  <2>3. CallsSane(x)
    BY SMTT(30), <1>0, <1>2, PolicyAssumption DEF Inv, TypeOK, At, Run, Sane, LoopSane,
       CallsSane, Choosing, Attempting, Called
  <2>4. HoldsSane(x, p)
    BY <1>0, <1>2 DEF Inv, TypeOK, At, Run, Sane, HoldsSane, Attempting
  <2>5. CancelSane(x) /\ TimeSane(x, t)
    BY <1>0, <1>2, PolicyAssumption DEF Inv, TypeOK, At, Run, Sane, CancelSane, TimeSane,
       Choosing, Attempting
  <2> QED
    BY <2>1, <2>2, <2>3, <2>4, <2>5, OneMoves DEF Sane
<1> QED
  BY <1>1, <1>2 DEF Revalidate

LEMMA AcquirePermitStep == ASSUME Inv, NEW r \in Requests, AcquirePermit(r) PROVE Inv'
<1> DEFINE x == run'[r]
           t == time'[r]
           p == permits'[r]
<1>0. /\ run[r] \in Run /\ Sane(run[r], time[r], permits[r]) /\ At(r, "permitting")
      /\ time[r] \in {"ample", "short", "spent"} /\ permits[r] \subseteq 1..Candidates
  BY DEF Inv, TypeOK, AcquirePermit
<1>a. run[r].candidate \in 1..Candidates
  BY <1>0, PolicyAssumption DEF At, Sane, LoopSane, Choosing, Run
<1>1. CASE Goes(r, "reserving") /\ UNCHANGED <<time, permits>>
  <2>1. /\ x \in Run /\ run' = [run EXCEPT ![r] = x]
        /\ t \in {"ample", "short", "spent"} /\ time' = [time EXCEPT ![r] = t]
        /\ p \in SUBSET (1..Candidates) /\ permits' = [permits EXCEPT ![r] = p]
    BY <1>0, <1>1, <1>a, PolicyAssumption DEF Inv, TypeOK, Goes, At, Run, Points, Errors, Sane,
       LoopSane, Choosing, Attempting
  <2>2. LoopSane(x)
    BY <1>0, <1>1, <1>a, PolicyAssumption DEF Inv, TypeOK, Goes, At, Run, Sane, LoopSane,
       Choosing, Attempting
  <2>3. CallsSane(x)
    BY <1>0, <1>1, <1>a, PolicyAssumption DEF Inv, TypeOK, Goes, At, Run, Sane, LoopSane,
       CallsSane, Choosing, Attempting, Called
  <2>4. HoldsSane(x, p)
    BY <1>0, <1>1, <1>a DEF Inv, TypeOK, Goes, At, Run, Sane, HoldsSane, Attempting
  <2>5. CancelSane(x) /\ TimeSane(x, t)
    BY <1>0, <1>1, <1>a, PolicyAssumption DEF Inv, TypeOK, Goes, At, Run, Sane, CancelSane,
       TimeSane, Choosing, Attempting
  <2> QED
    BY <2>1, <2>2, <2>3, <2>4, <2>5, OneMoves DEF Sane
<1>2. CASE /\ Goes(r, "reserving") /\ UNCHANGED time
          /\ permits' = [permits EXCEPT ![r] = @ \cup {run[r].candidate}]
  <2>1. /\ x \in Run /\ run' = [run EXCEPT ![r] = x]
        /\ t \in {"ample", "short", "spent"} /\ time' = [time EXCEPT ![r] = t]
        /\ p \in SUBSET (1..Candidates) /\ permits' = [permits EXCEPT ![r] = p]
    BY <1>0, <1>2, <1>a, PolicyAssumption DEF Inv, TypeOK, Goes, At, Run, Points, Errors, Sane,
       LoopSane, Choosing, Attempting
  <2>2. LoopSane(x)
    BY <1>0, <1>2, <1>a, PolicyAssumption DEF Inv, TypeOK, Goes, At, Run, Sane, LoopSane,
       Choosing, Attempting
  <2>3. CallsSane(x)
    BY <1>0, <1>2, <1>a, PolicyAssumption DEF Inv, TypeOK, Goes, At, Run, Sane, LoopSane,
       CallsSane, Choosing, Attempting, Called
  <2>4. HoldsSane(x, p)
    BY <1>0, <1>2, <1>a DEF Inv, TypeOK, Goes, At, Run, Sane, HoldsSane, Attempting
  <2>5. CancelSane(x) /\ TimeSane(x, t)
    BY <1>0, <1>2, <1>a, PolicyAssumption DEF Inv, TypeOK, Goes, At, Run, Sane, CancelSane,
       TimeSane, Choosing, Attempting
  <2> QED
    BY <2>1, <2>2, <2>3, <2>4, <2>5, OneMoves DEF Sane
<1>3. CASE PassOver(r, {}) /\ UNCHANGED <<time, permits>>
  <2>1. /\ x \in Run /\ run' = [run EXCEPT ![r] = x]
        /\ t \in {"ample", "short", "spent"} /\ time' = [time EXCEPT ![r] = t]
        /\ p \in SUBSET (1..Candidates) /\ permits' = [permits EXCEPT ![r] = p]
    BY <1>0, <1>3, <1>a, PolicyAssumption DEF Inv, TypeOK, PassOver, At, Run, Points, Errors,
       Sane, LoopSane, Choosing, Attempting
  <2>2. LoopSane(x)
    BY <1>0, <1>3, <1>a, PolicyAssumption DEF Inv, TypeOK, PassOver, At, Run, Sane, LoopSane,
       Choosing, Attempting
  <2>3. CallsSane(x)
    BY SMTT(30), <1>0, <1>3, <1>a, PolicyAssumption DEF Inv, TypeOK, PassOver, At, Run, Sane,
       LoopSane, CallsSane, Choosing, Attempting, Called
  <2>4. HoldsSane(x, p)
    BY <1>0, <1>3, <1>a DEF Inv, TypeOK, PassOver, At, Run, Sane, HoldsSane, Attempting
  <2>5. CancelSane(x) /\ TimeSane(x, t)
    BY <1>0, <1>3, <1>a, PolicyAssumption DEF Inv, TypeOK, PassOver, At, Run, Sane, CancelSane,
       TimeSane, Choosing, Attempting
  <2> QED
    BY <2>1, <2>2, <2>3, <2>4, <2>5, OneMoves DEF Sane
<1> QED
  BY <1>1, <1>2, <1>3 DEF AcquirePermit

LEMMA ReserveCapacityStep == ASSUME Inv, NEW r \in Requests, ReserveCapacity(r) PROVE Inv'
<1> DEFINE x == run'[r]
           t == time'[r]
           p == permits'[r]
<1>0. /\ run[r] \in Run /\ Sane(run[r], time[r], permits[r]) /\ At(r, "reserving")
      /\ time[r] \in {"ample", "short", "spent"} /\ permits[r] \subseteq 1..Candidates
  BY DEF Inv, TypeOK, ReserveCapacity
<1>1. CASE /\ run' = [run EXCEPT ![r].at = "starting", ![r].attempts = @ + 1, ![r].reserved = TRUE]
          /\ UNCHANGED <<time, permits>>
  <2>1. /\ x \in Run /\ run' = [run EXCEPT ![r] = x]
        /\ t \in {"ample", "short", "spent"} /\ time' = [time EXCEPT ![r] = t]
        /\ p \in SUBSET (1..Candidates) /\ permits' = [permits EXCEPT ![r] = p]
    BY <1>0, <1>1, PolicyAssumption DEF Inv, TypeOK, At, Run, Points, Errors, Sane, LoopSane,
       Choosing, Attempting
  <2>2. LoopSane(x)
    BY <1>0, <1>1, PolicyAssumption DEF Inv, TypeOK, At, Run, Sane, LoopSane, Choosing, Attempting
  <2>3. CallsSane(x)
    BY <1>0, <1>1, PolicyAssumption DEF Inv, TypeOK, At, Run, Sane, LoopSane, CallsSane,
       Choosing, Attempting, Called
  <2>4. HoldsSane(x, p)
    BY <1>0, <1>1 DEF Inv, TypeOK, At, Run, Sane, HoldsSane, Attempting
  <2>5. CancelSane(x) /\ TimeSane(x, t)
    BY <1>0, <1>1, PolicyAssumption DEF Inv, TypeOK, At, Run, Sane, CancelSane, TimeSane,
       Choosing, Attempting
  <2> QED
    BY <2>1, <2>2, <2>3, <2>4, <2>5, OneMoves DEF Sane
<1>2. CASE PassOver(r, {run[r].candidate}) /\ UNCHANGED <<time, permits>>
  <2>1. /\ x \in Run /\ run' = [run EXCEPT ![r] = x]
        /\ t \in {"ample", "short", "spent"} /\ time' = [time EXCEPT ![r] = t]
        /\ p \in SUBSET (1..Candidates) /\ permits' = [permits EXCEPT ![r] = p]
    BY <1>0, <1>2, PolicyAssumption DEF Inv, TypeOK, PassOver, At, Run, Points, Errors, Sane,
       LoopSane, Choosing, Attempting
  <2>2. LoopSane(x)
    BY <1>0, <1>2, PolicyAssumption DEF Inv, TypeOK, PassOver, At, Run, Sane, LoopSane,
       Choosing, Attempting
  <2>3. CallsSane(x)
    BY SMTT(30), <1>0, <1>2, PolicyAssumption DEF Inv, TypeOK, PassOver, At, Run, Sane,
       LoopSane, CallsSane, Choosing, Attempting, Called
  <2>4. HoldsSane(x, p)
    BY <1>0, <1>2 DEF Inv, TypeOK, PassOver, At, Run, Sane, HoldsSane, Attempting
  <2>5. CancelSane(x) /\ TimeSane(x, t)
    BY <1>0, <1>2, PolicyAssumption DEF Inv, TypeOK, PassOver, At, Run, Sane, CancelSane,
       TimeSane, Choosing, Attempting
  <2> QED
    BY <2>1, <2>2, <2>3, <2>4, <2>5, OneMoves DEF Sane
<1> QED
  BY <1>1, <1>2 DEF ReserveCapacity

LEMMA StartCallStep == ASSUME Inv, NEW r \in Requests, StartCall(r) PROVE Inv'
<1> DEFINE x == run'[r]
           t == time'[r]
           p == permits'[r]
<1>0. /\ run[r] \in Run /\ Sane(run[r], time[r], permits[r]) /\ At(r, "starting")
      /\ time[r] \in {"ample", "short", "spent"} /\ permits[r] \subseteq 1..Candidates
  BY DEF Inv, TypeOK, StartCall
<1>a. PICK b \in BOOLEAN :
        run' = [run EXCEPT ![r].at = "calling", ![r].linked = b,
                           ![r].calls[run[r].candidate] = @ + 1]
  BY DEF StartCall
<1>b. UNCHANGED <<time, permits>> /\ run[r].candidate \in 1..Candidates
  BY <1>0, PolicyAssumption DEF StartCall, At, Sane, LoopSane, Attempting, Run
<1>d. run[r].calls \in [1..Candidates -> Nat]
  BY <1>0 DEF Run
<1>c. [run[r].calls EXCEPT ![run[r].candidate] = @ + 1] \in [1..Candidates -> Nat]
  BY <1>b, <1>d, OneMoreCall
<1>1. /\ x \in Run /\ run' = [run EXCEPT ![r] = x]
      /\ t \in {"ample", "short", "spent"} /\ time' = [time EXCEPT ![r] = t]
      /\ p \in SUBSET (1..Candidates) /\ permits' = [permits EXCEPT ![r] = p]
  BY <1>0, <1>a, <1>b, <1>c, PolicyAssumption DEF Inv, TypeOK, At, Run, Points, Errors, Sane,
     LoopSane, Choosing, Attempting
<1>2. LoopSane(x)
  BY <1>0, <1>a, <1>b, <1>c, PolicyAssumption DEF Inv, TypeOK, At, Run, Sane, LoopSane,
     Choosing, Attempting
<1>3. CallsSane(x)
  BY SMTT(30), <1>0, <1>a, <1>b, <1>c, PolicyAssumption DEF Inv, TypeOK, At, Run, Sane,
     LoopSane, CallsSane, Choosing, Attempting, Called
<1>4. HoldsSane(x, p)
  BY <1>0, <1>a, <1>b, <1>c DEF Inv, TypeOK, At, Run, Sane, HoldsSane, Attempting
<1>5. CancelSane(x) /\ TimeSane(x, t)
  BY <1>0, <1>a, <1>b, <1>c, PolicyAssumption DEF Inv, TypeOK, At, Run, Sane, CancelSane,
     TimeSane, Choosing, Attempting
<1> QED
  BY <1>1, <1>2, <1>3, <1>4, <1>5, OneMoves DEF Sane

LEMMA ProviderAnswersStep == ASSUME Inv, NEW r \in Requests, ProviderAnswers(r) PROVE Inv'
<1> DEFINE x == run'[r]
           t == time'[r]
           p == permits'[r]
<1>0. /\ run[r] \in Run /\ Sane(run[r], time[r], permits[r])
      /\ time[r] \in {"ample", "short", "spent"} /\ permits[r] \subseteq 1..Candidates
  BY DEF Inv, TypeOK, ProviderAnswers
<1>1. /\ x \in Run /\ run' = [run EXCEPT ![r] = x]
      /\ t \in {"ample", "short", "spent"} /\ time' = [time EXCEPT ![r] = t]
      /\ p \in SUBSET (1..Candidates) /\ permits' = [permits EXCEPT ![r] = p]
  BY <1>0, PolicyAssumption DEF Inv, TypeOK, ProviderAnswers, Goes, At, Run, Points, Errors,
     Sane, LoopSane, Choosing, Attempting
<1>2. LoopSane(x)
  BY <1>0, PolicyAssumption DEF Inv, TypeOK, ProviderAnswers, Goes, At, Run, Sane, LoopSane,
     Choosing, Attempting
<1>3. CallsSane(x)
  BY <1>0, PolicyAssumption DEF Inv, TypeOK, ProviderAnswers, Goes, At, Run, Sane, LoopSane,
     CallsSane, Choosing, Attempting, Called
<1>4. HoldsSane(x, p)
  BY <1>0 DEF Inv, TypeOK, ProviderAnswers, Goes, At, Run, Sane, HoldsSane, Attempting
<1>5. CancelSane(x) /\ TimeSane(x, t)
  BY <1>0, PolicyAssumption DEF Inv, TypeOK, ProviderAnswers, Goes, At, Run, Sane, CancelSane,
     TimeSane, Choosing, Attempting
<1> QED
  BY <1>1, <1>2, <1>3, <1>4, <1>5, OneMoves DEF Sane

LEMMA ProviderFailsStep == ASSUME Inv, NEW r \in Requests, ProviderFails(r) PROVE Inv'
<1> DEFINE x == run'[r]
           t == time'[r]
           p == permits'[r]
<1>0. /\ run[r] \in Run /\ Sane(run[r], time[r], permits[r]) /\ At(r, "calling")
      /\ time[r] \in {"ample", "short", "spent"} /\ permits[r] \subseteq 1..Candidates
  BY DEF Inv, TypeOK, ProviderFails
<1>a. PICK e \in Errors \ {"cancelled"} : run' = [run EXCEPT ![r].at = "failing", ![r].error = e]
  BY DEF ProviderFails
<1>b. UNCHANGED <<time, permits>> 
  BY DEF ProviderFails
<1>1. /\ x \in Run /\ run' = [run EXCEPT ![r] = x]
      /\ t \in {"ample", "short", "spent"} /\ time' = [time EXCEPT ![r] = t]
      /\ p \in SUBSET (1..Candidates) /\ permits' = [permits EXCEPT ![r] = p]
  BY <1>0, <1>a, <1>b, PolicyAssumption DEF Inv, TypeOK, At, Run, Points, Errors, Sane,
     LoopSane, Choosing, Attempting
<1>2. LoopSane(x)
  BY <1>0, <1>a, <1>b, PolicyAssumption DEF Inv, TypeOK, At, Run, Sane, LoopSane, Choosing,
     Attempting
<1>3. CallsSane(x)
  BY <1>0, <1>a, <1>b, PolicyAssumption DEF Inv, TypeOK, At, Run, Sane, LoopSane, CallsSane,
     Choosing, Attempting, Called
<1>4. HoldsSane(x, p)
  BY <1>0, <1>a, <1>b DEF Inv, TypeOK, At, Run, Sane, HoldsSane, Attempting
<1>5. CancelSane(x) /\ TimeSane(x, t)
  BY <1>0, <1>a, <1>b, PolicyAssumption DEF Inv, TypeOK, At, Run, Sane, CancelSane, TimeSane,
     Choosing, Attempting
<1> QED
  BY <1>1, <1>2, <1>3, <1>4, <1>5, OneMoves DEF Sane

LEMMA CallAbortedStep == ASSUME Inv, NEW r \in Requests, CallAborted(r) PROVE Inv'
<1> DEFINE x == run'[r]
           t == time'[r]
           p == permits'[r]
<1>0. /\ run[r] \in Run /\ Sane(run[r], time[r], permits[r])
      /\ time[r] \in {"ample", "short", "spent"} /\ permits[r] \subseteq 1..Candidates
  BY DEF Inv, TypeOK, CallAborted
<1>1. /\ x \in Run /\ run' = [run EXCEPT ![r] = x]
      /\ t \in {"ample", "short", "spent"} /\ time' = [time EXCEPT ![r] = t]
      /\ p \in SUBSET (1..Candidates) /\ permits' = [permits EXCEPT ![r] = p]
  BY <1>0, PolicyAssumption DEF Inv, TypeOK, CallAborted, At, Run, Points, Errors, Sane,
     LoopSane, Choosing, Attempting
<1>2. LoopSane(x)
  BY <1>0, PolicyAssumption DEF Inv, TypeOK, CallAborted, At, Run, Sane, LoopSane, Choosing,
     Attempting
<1>3. CallsSane(x)
  BY <1>0, PolicyAssumption DEF Inv, TypeOK, CallAborted, At, Run, Sane, LoopSane, CallsSane,
     Choosing, Attempting, Called
<1>4. HoldsSane(x, p)
  BY <1>0 DEF Inv, TypeOK, CallAborted, At, Run, Sane, HoldsSane, Attempting
<1>5. CancelSane(x) /\ TimeSane(x, t)
  BY <1>0, PolicyAssumption DEF Inv, TypeOK, CallAborted, At, Run, Sane, CancelSane, TimeSane,
     Choosing, Attempting
<1> QED
  BY <1>1, <1>2, <1>3, <1>4, <1>5, OneMoves DEF Sane

LEMMA TimerFiresStep == ASSUME Inv, NEW r \in Requests, TimerFires(r) PROVE Inv'
<1> DEFINE x == run'[r]
           t == time'[r]
           p == permits'[r]
<1>0. /\ run[r] \in Run /\ Sane(run[r], time[r], permits[r]) /\ At(r, "calling")
      /\ time[r] \in {"ample", "short", "spent"} /\ permits[r] \subseteq 1..Candidates
  BY DEF Inv, TypeOK, TimerFires
<1>a. PICK e \in {"timeout", "cancelled"} : run' = [run EXCEPT ![r].at = "failing", ![r].error = e, ![r].timedOut = TRUE]
  BY DEF TimerFires
<1>b. UNCHANGED <<time, permits>> /\ time[r] = "spent"
  BY DEF TimerFires
<1>1. /\ x \in Run /\ run' = [run EXCEPT ![r] = x]
      /\ t \in {"ample", "short", "spent"} /\ time' = [time EXCEPT ![r] = t]
      /\ p \in SUBSET (1..Candidates) /\ permits' = [permits EXCEPT ![r] = p]
  BY <1>0, <1>a, <1>b, PolicyAssumption DEF Inv, TypeOK, At, Run, Points, Errors, Sane,
     LoopSane, Choosing, Attempting
<1>2. LoopSane(x)
  BY <1>0, <1>a, <1>b, PolicyAssumption DEF Inv, TypeOK, At, Run, Sane, LoopSane, Choosing,
     Attempting
<1>3. CallsSane(x)
  BY <1>0, <1>a, <1>b, PolicyAssumption DEF Inv, TypeOK, At, Run, Sane, LoopSane, CallsSane,
     Choosing, Attempting, Called
<1>4. HoldsSane(x, p)
  BY <1>0, <1>a, <1>b DEF Inv, TypeOK, At, Run, Sane, HoldsSane, Attempting
<1>5. CancelSane(x) /\ TimeSane(x, t)
  BY <1>0, <1>a, <1>b, PolicyAssumption DEF Inv, TypeOK, At, Run, Sane, CancelSane, TimeSane,
     Choosing, Attempting
<1> QED
  BY <1>1, <1>2, <1>3, <1>4, <1>5, OneMoves DEF Sane

LEMMA SucceedStep == ASSUME Inv, NEW r \in Requests, Succeed(r) PROVE Inv'
<1> DEFINE x == run'[r]
           t == time'[r]
           p == permits'[r]
<1>0. /\ run[r] \in Run /\ Sane(run[r], time[r], permits[r])
      /\ time[r] \in {"ample", "short", "spent"} /\ permits[r] \subseteq 1..Candidates
  BY DEF Inv, TypeOK, Succeed
<1>1. /\ x \in Run /\ run' = [run EXCEPT ![r] = x]
      /\ t \in {"ample", "short", "spent"} /\ time' = [time EXCEPT ![r] = t]
      /\ p \in SUBSET (1..Candidates) /\ permits' = [permits EXCEPT ![r] = p]
  BY <1>0, PolicyAssumption DEF Inv, TypeOK, Succeed, At, Run, Points, Errors, Sane, LoopSane,
     Choosing, Attempting
<1>2. LoopSane(x)
  BY <1>0, PolicyAssumption DEF Inv, TypeOK, Succeed, At, Run, Sane, LoopSane, Choosing, Attempting
<1>3. CallsSane(x)
  BY <1>0, PolicyAssumption DEF Inv, TypeOK, Succeed, At, Run, Sane, LoopSane, CallsSane,
     Choosing, Attempting, Called
<1>4. HoldsSane(x, p)
  BY <1>0 DEF Inv, TypeOK, Succeed, At, Run, Sane, HoldsSane, Attempting
<1>5. CancelSane(x) /\ TimeSane(x, t)
  BY <1>0, PolicyAssumption DEF Inv, TypeOK, Succeed, At, Run, Sane, CancelSane, TimeSane,
     Choosing, Attempting
<1> QED
  BY <1>1, <1>2, <1>3, <1>4, <1>5, OneMoves DEF Sane

LEMMA CancelReservationStep == ASSUME Inv, NEW r \in Requests, CancelReservation(r) PROVE Inv'
<1> DEFINE x == run'[r]
           t == time'[r]
           p == permits'[r]
<1>0. /\ run[r] \in Run /\ Sane(run[r], time[r], permits[r])
      /\ time[r] \in {"ample", "short", "spent"} /\ permits[r] \subseteq 1..Candidates
  BY DEF Inv, TypeOK, CancelReservation
<1>1. /\ x \in Run /\ run' = [run EXCEPT ![r] = x]
      /\ t \in {"ample", "short", "spent"} /\ time' = [time EXCEPT ![r] = t]
      /\ p \in SUBSET (1..Candidates) /\ permits' = [permits EXCEPT ![r] = p]
  BY <1>0, PolicyAssumption DEF Inv, TypeOK, CancelReservation, At, Run, Points, Errors, Sane,
     LoopSane, Choosing, Attempting
<1>2. LoopSane(x)
  BY <1>0, PolicyAssumption DEF Inv, TypeOK, CancelReservation, At, Run, Sane, LoopSane,
     Choosing, Attempting
<1>3. CallsSane(x)
  BY <1>0, PolicyAssumption DEF Inv, TypeOK, CancelReservation, At, Run, Sane, LoopSane,
     CallsSane, Choosing, Attempting, Called
<1>4. HoldsSane(x, p)
  BY <1>0 DEF Inv, TypeOK, CancelReservation, At, Run, Sane, HoldsSane, Attempting
<1>5. CancelSane(x) /\ TimeSane(x, t)
  BY <1>0, PolicyAssumption DEF Inv, TypeOK, CancelReservation, At, Run, Sane, CancelSane,
     TimeSane, Choosing, Attempting
<1> QED
  BY <1>1, <1>2, <1>3, <1>4, <1>5, OneMoves DEF Sane

LEMMA ReportOutcomeStep == ASSUME Inv, NEW r \in Requests, ReportOutcome(r) PROVE Inv'
<1> DEFINE x == run'[r]
           t == time'[r]
           p == permits'[r]
<1>0. /\ run[r] \in Run /\ Sane(run[r], time[r], permits[r])
      /\ time[r] \in {"ample", "short", "spent"} /\ permits[r] \subseteq 1..Candidates
  BY DEF Inv, TypeOK, ReportOutcome
<1>1. /\ x \in Run /\ run' = [run EXCEPT ![r] = x]
      /\ t \in {"ample", "short", "spent"} /\ time' = [time EXCEPT ![r] = t]
      /\ p \in SUBSET (1..Candidates) /\ permits' = [permits EXCEPT ![r] = p]
  BY <1>0, PolicyAssumption DEF Inv, TypeOK, ReportOutcome, Goes, At, Run, Points, Errors, Sane,
     LoopSane, Choosing, Attempting
<1>2. LoopSane(x)
  BY <1>0, PolicyAssumption DEF Inv, TypeOK, ReportOutcome, Goes, At, Run, Sane, LoopSane,
     Choosing, Attempting
<1>3. CallsSane(x)
  BY <1>0, PolicyAssumption DEF Inv, TypeOK, ReportOutcome, Goes, At, Run, Sane, LoopSane,
     CallsSane, Choosing, Attempting, Called
<1>4. HoldsSane(x, p)
  BY <1>0 DEF Inv, TypeOK, ReportOutcome, Goes, At, Run, Sane, HoldsSane, Attempting
<1>5. CancelSane(x) /\ TimeSane(x, t)
  BY <1>0, PolicyAssumption DEF Inv, TypeOK, ReportOutcome, Goes, At, Run, Sane, CancelSane,
     TimeSane, Choosing, Attempting
<1> QED
  BY <1>1, <1>2, <1>3, <1>4, <1>5, OneMoves DEF Sane

LEMMA RetrySameRouteStep == ASSUME Inv, NEW r \in Requests, RetrySameRoute(r) PROVE Inv'
<1> DEFINE x == run'[r]
           t == time'[r]
           p == permits'[r]
<1>0. /\ run[r] \in Run /\ Sane(run[r], time[r], permits[r]) /\ At(r, "deciding")
      /\ time[r] \in {"ample", "short", "spent"} /\ permits[r] \subseteq 1..Candidates
  BY DEF Inv, TypeOK, RetrySameRoute
<1>a. /\ run' = [run EXCEPT ![r].at = "sleeping", ![r].same = @ + 1]
      /\ UNCHANGED <<time, permits>>
      /\ run[r].same < MaxSameRouteRetries /\ ~(run[r].left >= 0)
  BY DEF RetrySameRoute, MayTryAgain, CanRetrySameRoute, Aborted
<1>1. /\ x \in Run /\ run' = [run EXCEPT ![r] = x]
      /\ t \in {"ample", "short", "spent"} /\ time' = [time EXCEPT ![r] = t]
      /\ p \in SUBSET (1..Candidates) /\ permits' = [permits EXCEPT ![r] = p]
  BY <1>0, <1>a, PolicyAssumption DEF Inv, TypeOK, At, Run, Points, Errors, Sane, LoopSane,
     Choosing, Attempting
<1>2. LoopSane(x)
  BY <1>0, <1>a, PolicyAssumption DEF Inv, TypeOK, At, Run, Sane, LoopSane, Choosing, Attempting
<1>3. CallsSane(x)
  BY <1>0, <1>a, PolicyAssumption DEF Inv, TypeOK, At, Run, Sane, LoopSane, CallsSane, Choosing,
     Attempting, Called
<1>4. HoldsSane(x, p)
  BY <1>0, <1>a DEF Inv, TypeOK, At, Run, Sane, HoldsSane, Attempting
<1>5. CancelSane(x) /\ TimeSane(x, t)
  BY <1>0, <1>a, PolicyAssumption DEF Inv, TypeOK, At, Run, Sane, CancelSane, TimeSane,
     Choosing, Attempting
<1> QED
  BY <1>1, <1>2, <1>3, <1>4, <1>5, OneMoves DEF Sane

LEMMA FallBackStep == ASSUME Inv, NEW r \in Requests, FallBack(r) PROVE Inv'
<1> DEFINE x == run'[r]
           t == time'[r]
           p == permits'[r]
<1>0. /\ run[r] \in Run /\ Sane(run[r], time[r], permits[r])
      /\ time[r] \in {"ample", "short", "spent"} /\ permits[r] \subseteq 1..Candidates
  BY DEF Inv, TypeOK, FallBack
<1>1. /\ x \in Run /\ run' = [run EXCEPT ![r] = x]
      /\ t \in {"ample", "short", "spent"} /\ time' = [time EXCEPT ![r] = t]
      /\ p \in SUBSET (1..Candidates) /\ permits' = [permits EXCEPT ![r] = p]
  BY <1>0, PolicyAssumption DEF Inv, TypeOK, FallBack, MayTryAgain, CanFallback, Aborted, At,
     Run, Points, Errors, Sane, LoopSane, Choosing, Attempting
<1>2. LoopSane(x)
  BY <1>0, PolicyAssumption DEF Inv, TypeOK, FallBack, MayTryAgain, CanFallback, Aborted, At,
     Run, Sane, LoopSane, Choosing, Attempting
<1>3. CallsSane(x)
  BY SMTT(30), <1>0, PolicyAssumption DEF Inv, TypeOK, FallBack, MayTryAgain, CanFallback,
     Aborted, At, Run, Sane, LoopSane, CallsSane, Choosing, Attempting, Called
<1>4. HoldsSane(x, p)
  BY <1>0 DEF Inv, TypeOK, FallBack, MayTryAgain, CanFallback, Aborted, At, Run, Sane,
     HoldsSane, Attempting
<1>5. CancelSane(x) /\ TimeSane(x, t)
  BY <1>0, PolicyAssumption DEF Inv, TypeOK, FallBack, MayTryAgain, CanFallback, Aborted, At,
     Run, Sane, CancelSane, TimeSane, Choosing, Attempting
<1> QED
  BY <1>1, <1>2, <1>3, <1>4, <1>5, OneMoves DEF Sane

LEMMA GiveUpStep == ASSUME Inv, NEW r \in Requests, GiveUp(r) PROVE Inv'
<1> DEFINE x == run'[r]
           t == time'[r]
           p == permits'[r]
<1>0. /\ run[r] \in Run /\ Sane(run[r], time[r], permits[r])
      /\ time[r] \in {"ample", "short", "spent"} /\ permits[r] \subseteq 1..Candidates
  BY DEF Inv, TypeOK, GiveUp
<1>1. /\ x \in Run /\ run' = [run EXCEPT ![r] = x]
      /\ t \in {"ample", "short", "spent"} /\ time' = [time EXCEPT ![r] = t]
      /\ p \in SUBSET (1..Candidates) /\ permits' = [permits EXCEPT ![r] = p]
  BY <1>0, PolicyAssumption DEF Inv, TypeOK, GiveUp, Goes, At, Run, Points, Errors, Sane,
     LoopSane, Choosing, Attempting
<1>2. LoopSane(x)
  BY <1>0, PolicyAssumption DEF Inv, TypeOK, GiveUp, Goes, At, Run, Sane, LoopSane, Choosing,
     Attempting
<1>3. CallsSane(x)
  BY <1>0, PolicyAssumption DEF Inv, TypeOK, GiveUp, Goes, At, Run, Sane, LoopSane, CallsSane,
     Choosing, Attempting, Called
<1>4. HoldsSane(x, p)
  BY <1>0 DEF Inv, TypeOK, GiveUp, Goes, At, Run, Sane, HoldsSane, Attempting
<1>5. CancelSane(x) /\ TimeSane(x, t)
  BY <1>0, PolicyAssumption DEF Inv, TypeOK, GiveUp, Goes, At, Run, Sane, CancelSane, TimeSane,
     Choosing, Attempting
<1> QED
  BY <1>1, <1>2, <1>3, <1>4, <1>5, OneMoves DEF Sane

LEMMA SleepStep == ASSUME Inv, NEW r \in Requests, Sleep(r) PROVE Inv'
<1> DEFINE x == run'[r]
           t == time'[r]
           p == permits'[r]
<1>0. /\ run[r] \in Run /\ Sane(run[r], time[r], permits[r]) /\ At(r, "sleeping")
      /\ time[r] \in {"ample", "short", "spent"} /\ permits[r] \subseteq 1..Candidates
  BY DEF Inv, TypeOK, Sleep
<1>1. CASE Goes(r, "top") /\ UNCHANGED <<time, permits>>
  <2>1. /\ x \in Run /\ run' = [run EXCEPT ![r] = x]
        /\ t \in {"ample", "short", "spent"} /\ time' = [time EXCEPT ![r] = t]
        /\ p \in SUBSET (1..Candidates) /\ permits' = [permits EXCEPT ![r] = p]
    BY <1>0, <1>1, PolicyAssumption DEF Inv, TypeOK, Goes, At, Run, Points, Errors, Sane,
       LoopSane, Choosing, Attempting
  <2>2. LoopSane(x)
    BY <1>0, <1>1, PolicyAssumption DEF Inv, TypeOK, Goes, At, Run, Sane, LoopSane, Choosing,
       Attempting
  <2>3. CallsSane(x)
    BY <1>0, <1>1, PolicyAssumption DEF Inv, TypeOK, Goes, At, Run, Sane, LoopSane, CallsSane,
       Choosing, Attempting, Called
  <2>4. HoldsSane(x, p)
    BY <1>0, <1>1 DEF Inv, TypeOK, Goes, At, Run, Sane, HoldsSane, Attempting
  <2>5. CancelSane(x) /\ TimeSane(x, t)
    BY <1>0, <1>1, PolicyAssumption DEF Inv, TypeOK, Goes, At, Run, Sane, CancelSane, TimeSane,
       Choosing, Attempting
  <2> QED
    BY <2>1, <2>2, <2>3, <2>4, <2>5, OneMoves DEF Sane
<1>2. CASE Aborted(r) /\ Goes(r, "threw") /\ UNCHANGED <<time, permits>>
  <2>1. /\ x \in Run /\ run' = [run EXCEPT ![r] = x]
        /\ t \in {"ample", "short", "spent"} /\ time' = [time EXCEPT ![r] = t]
        /\ p \in SUBSET (1..Candidates) /\ permits' = [permits EXCEPT ![r] = p]
    BY <1>0, <1>2, PolicyAssumption DEF Inv, TypeOK, Goes, Aborted, At, Run, Points, Errors,
       Sane, LoopSane, Choosing, Attempting
  <2>2. LoopSane(x)
    BY <1>0, <1>2, PolicyAssumption DEF Inv, TypeOK, Goes, Aborted, At, Run, Sane, LoopSane,
       Choosing, Attempting
  <2>3. CallsSane(x)
    BY <1>0, <1>2, PolicyAssumption DEF Inv, TypeOK, Goes, Aborted, At, Run, Sane, LoopSane,
       CallsSane, Choosing, Attempting, Called
  <2>4. HoldsSane(x, p)
    BY <1>0, <1>2 DEF Inv, TypeOK, Goes, Aborted, At, Run, Sane, HoldsSane, Attempting
  <2>5. CancelSane(x) /\ TimeSane(x, t)
    BY <1>0, <1>2, PolicyAssumption DEF Inv, TypeOK, Goes, Aborted, At, Run, Sane, CancelSane,
       TimeSane, Choosing, Attempting
  <2> QED
    BY <2>1, <2>2, <2>3, <2>4, <2>5, OneMoves DEF Sane
<1> QED
  BY <1>1, <1>2 DEF Sleep

LEMMA ClientCancelsStep == ASSUME Inv, NEW r \in Requests, ClientCancels(r) PROVE Inv'
<1> DEFINE x == run'[r]
           t == time'[r]
           p == permits'[r]
<1>0. /\ run[r] \in Run /\ Sane(run[r], time[r], permits[r])
      /\ time[r] \in {"ample", "short", "spent"} /\ permits[r] \subseteq 1..Candidates
  BY DEF Inv, TypeOK, ClientCancels
<1>a. /\ run' = [run EXCEPT ![r].left = run[r].attempts]
      /\ UNCHANGED <<time, permits>>
  BY DEF ClientCancels
<1>b. run[r].attempts \in -1..MaxAttempts
  BY <1>0, PolicyAssumption DEF Run
<1>1. /\ x \in Run /\ run' = [run EXCEPT ![r] = x]
      /\ t \in {"ample", "short", "spent"} /\ time' = [time EXCEPT ![r] = t]
      /\ p \in SUBSET (1..Candidates) /\ permits' = [permits EXCEPT ![r] = p]
  BY <1>0, <1>a, <1>b, PolicyAssumption DEF Inv, TypeOK, Run, Points, Errors, Sane, LoopSane,
     Choosing, Attempting
<1>2. LoopSane(x)
  BY <1>0, <1>a, <1>b, PolicyAssumption DEF Inv, TypeOK, Run, Sane, LoopSane, Choosing, Attempting
<1>3. CallsSane(x)
  BY <1>0, <1>a, <1>b, PolicyAssumption DEF Inv, TypeOK, Run, Sane, LoopSane, CallsSane,
     Choosing, Attempting, Called
<1>4. HoldsSane(x, p)
  BY <1>0, <1>a, <1>b DEF Inv, TypeOK, Run, Sane, HoldsSane, Attempting
<1>5. CancelSane(x) /\ TimeSane(x, t)
  BY <1>0, <1>a, <1>b, PolicyAssumption DEF Inv, TypeOK, Run, Sane, CancelSane, TimeSane,
     Choosing, Attempting
<1> QED
  BY <1>1, <1>2, <1>3, <1>4, <1>5, OneMoves DEF Sane

LEMMA TimePassesStep == ASSUME Inv, NEW r \in Requests, TimePasses(r) PROVE Inv'
<1> DEFINE x == run'[r]
           t == time'[r]
           p == permits'[r]
<1>0. /\ run[r] \in Run /\ Sane(run[r], time[r], permits[r])
      /\ time[r] \in {"ample", "short", "spent"} /\ permits[r] \subseteq 1..Candidates
  BY DEF Inv, TypeOK, TimePasses
<1>1. /\ x \in Run /\ run' = [run EXCEPT ![r] = x]
      /\ t \in {"ample", "short", "spent"} /\ time' = [time EXCEPT ![r] = t]
      /\ p \in SUBSET (1..Candidates) /\ permits' = [permits EXCEPT ![r] = p]
  BY ZenonT(40), <1>0, PolicyAssumption DEF Inv, TypeOK, TimePasses, Ended, At, Run, Points,
     Errors, Sane, LoopSane, Choosing, Attempting
<1>2. LoopSane(x)
  BY <1>0, PolicyAssumption DEF Inv, TypeOK, TimePasses, Ended, At, Run, Sane, LoopSane,
     Choosing, Attempting
<1>3. CallsSane(x)
  BY <1>0, PolicyAssumption DEF Inv, TypeOK, TimePasses, Ended, At, Run, Sane, LoopSane,
     CallsSane, Choosing, Attempting, Called
<1>4. HoldsSane(x, p)
  BY <1>0 DEF Inv, TypeOK, TimePasses, Ended, At, Run, Sane, HoldsSane, Attempting
<1>5. CancelSane(x) /\ TimeSane(x, t)
  BY <1>0, PolicyAssumption DEF Inv, TypeOK, TimePasses, Ended, At, Run, Sane, CancelSane,
     TimeSane, Choosing, Attempting
<1> QED
  BY <1>1, <1>2, <1>3, <1>4, <1>5, OneMoves DEF Sane

LEMMA PermitExpiresStep == ASSUME Inv, NEW r \in Requests, NEW c \in 1..Candidates, PermitExpires(r, c) PROVE Inv'
<1> DEFINE x == run'[r]
           t == time'[r]
           p == permits'[r]
<1>0. /\ run[r] \in Run /\ Sane(run[r], time[r], permits[r])
      /\ time[r] \in {"ample", "short", "spent"} /\ permits[r] \subseteq 1..Candidates
  BY DEF Inv, TypeOK, PermitExpires
<1>1. /\ x \in Run /\ run' = [run EXCEPT ![r] = x]
      /\ t \in {"ample", "short", "spent"} /\ time' = [time EXCEPT ![r] = t]
      /\ p \in SUBSET (1..Candidates) /\ permits' = [permits EXCEPT ![r] = p]
  BY <1>0, PolicyAssumption DEF Inv, TypeOK, PermitExpires, At, Run, Points, Errors, Sane,
     LoopSane, Choosing, Attempting
<1>2. LoopSane(x)
  BY <1>0, PolicyAssumption DEF Inv, TypeOK, PermitExpires, At, Run, Sane, LoopSane, Choosing,
     Attempting
<1>3. CallsSane(x)
  BY <1>0, PolicyAssumption DEF Inv, TypeOK, PermitExpires, At, Run, Sane, LoopSane, CallsSane,
     Choosing, Attempting, Called
<1>4. HoldsSane(x, p)
  BY <1>0 DEF Inv, TypeOK, PermitExpires, At, Run, Sane, HoldsSane, Attempting
<1>5. CancelSane(x) /\ TimeSane(x, t)
  BY <1>0, PolicyAssumption DEF Inv, TypeOK, PermitExpires, At, Run, Sane, CancelSane, TimeSane,
     Choosing, Attempting
<1> QED
  BY <1>1, <1>2, <1>3, <1>4, <1>5, OneMoves DEF Sane

-----------------------------------------------------------------------------
LEMMA InvStep == Inv /\ [Next]_vars => Inv'
<1> SUFFICES ASSUME Inv, [Next]_vars PROVE Inv'
  OBVIOUS
<1>1. CASE UNCHANGED vars
  BY <1>1 DEF vars, Inv, TypeOK
<1>2. ASSUME NEW r \in Requests, Proceed(r) PROVE Inv'
  BY <1>2, LoopTopStep, RevalidateStep, AcquirePermitStep, ReserveCapacityStep, StartCallStep,
     CallAbortedStep, TimerFiresStep, SucceedStep, CancelReservationStep, ReportOutcomeStep,
     RetrySameRouteStep, FallBackStep, GiveUpStep, SleepStep DEF Proceed
<1>3. ASSUME NEW r \in Requests,
             \/ Enter(r) \/ ProviderAnswers(r) \/ ProviderFails(r)
             \/ ClientCancels(r) \/ TimePasses(r)
             \/ \E c \in 1..Candidates : PermitExpires(r, c)
      PROVE  Inv'
  BY <1>3, EnterStep, ProviderAnswersStep, ProviderFailsStep, ClientCancelsStep, TimePassesStep,
     PermitExpiresStep
<1> QED
  BY <1>1, <1>2, <1>3 DEF Next

LEMMA AlwaysInv == Spec => []Inv
  BY InitInv, InvStep, PTL DEF Spec

-----------------------------------------------------------------------------
(* Loops, deadlines and permits keep their types; in particular the loop   *)
(* never counts past the limits its fields are typed with.                 *)
THEOREM TypeCorrect == Spec => []TypeOK
<1>1. Inv => TypeOK
  BY DEF Inv
<1> QED
  BY <1>1, AlwaysInv, PTL

(* The provider is never called more often than the policy allows, in all  *)
(* and on one route, whatever is skipped, refused or invalid in between.   *)
THEOREM PolicyLimitsCalls == Spec => []CallsBounded
<1>1. Inv => CallsBounded
  BY DEF Inv, TypeOK, CallsBounded, Sane, CallsSane, Run
<1> QED
  BY <1>1, AlwaysInv, PTL

(* A loop that is over holds no capacity, and no permit but those it lost. *)
THEOREM NothingKept == Spec => []EndsEmptyHanded
<1>1. Inv => EndsEmptyHanded
  BY DEF Inv, EndsEmptyHanded, Ended, Sane, HoldsSane, Attempting
<1> QED
  BY <1>1, AlwaysInv, PTL

(* After the client has cancelled at most one more attempt is made.        *)
THEOREM OneCallAfterCancel == Spec => []CancelCostsOneCall
<1>1. Inv => CancelCostsOneCall
  <2> SUFFICES ASSUME Inv, NEW r \in Requests, run[r].left >= 0
               PROVE  run[r].attempts <= run[r].left + 1
    BY DEF CancelCostsOneCall
  <2>1. run[r] \in Run /\ CancelSane(run[r])
    BY DEF Inv, TypeOK, Sane
  <2> QED
    BY <2>1, PolicyAssumption DEF Run, CancelSane
<1> QED
  BY <1>1, AlwaysInv, PTL

(* Only ReserveCapacity counts an attempt, and a request out of time does  *)
(* not reach it.                                                           *)
LEMMA NoAttemptStep ==
  ASSUME Inv, [Next]_vars, NEW q \in Requests, run[q].timedOut
  PROVE  run'[q].attempts = run[q].attempts
<1>0. run[q] \in Run /\ TimeSane(run[q], time[q])
  BY DEF Inv, TypeOK, Sane
<1>1. CASE UNCHANGED vars
  BY <1>1 DEF vars
<1>a. ASSUME NEW r \in Requests, NEW point, Goes(r, point)
      PROVE  run'[q].attempts = run[q].attempts
  BY <1>a DEF Inv, TypeOK, Goes, Run
<1>b. ASSUME NEW r \in Requests, NEW unused, PassOver(r, unused)
      PROVE  run'[q].attempts = run[q].attempts
  BY <1>b DEF Inv, TypeOK, PassOver, Run
<1>2. ASSUME NEW r \in Requests, Enter(r) \/ LoopTop(r) \/ ProviderAnswers(r) \/ GiveUp(r) \/ Sleep(r)
                                 \/ ReportOutcome(r) \/ AcquirePermit(r)
      PROVE  run'[q].attempts = run[q].attempts
  BY <1>2, <1>a, <1>b DEF Enter, LoopTop, ProviderAnswers, GiveUp, Sleep, ReportOutcome,
     AcquirePermit
<1>3. ASSUME NEW r \in Requests, Revalidate(r)
      PROVE  run'[q].attempts = run[q].attempts
  <2>1. CASE Goes(r, "permitting")
    BY <2>1, <1>a
  <2>2. CASE run' = [run EXCEPT ![r].at = "top", ![r].candidate = @ + 1]
    BY <2>2 DEF Inv, TypeOK, Run
  <2> QED
    BY <1>3, <2>1, <2>2 DEF Revalidate
<1>4. ASSUME NEW r \in Requests, ReserveCapacity(r)
      PROVE  run'[q].attempts = run[q].attempts
  <2>1. r # q
    BY <1>0, <1>4 DEF ReserveCapacity, At, TimeSane, Choosing
  <2>2. run'[q] = run[q]
    BY <2>1, <1>4 DEF Inv, TypeOK, ReserveCapacity, PassOver
  <2> QED
    BY <2>2
<1>5. ASSUME NEW r \in Requests, Succeed(r) \/ CancelReservation(r)
                                 \/ RetrySameRoute(r) \/ FallBack(r) \/ ClientCancels(r)
      PROVE  run'[q].attempts = run[q].attempts
  <2>1. CASE Succeed(r)
    BY <2>1 DEF Inv, TypeOK, Succeed, Run
  <2>4. CASE CancelReservation(r)
    BY <2>4 DEF Inv, TypeOK, CancelReservation, Run
  <2>2. CASE RetrySameRoute(r)
    BY <2>2 DEF Inv, TypeOK, RetrySameRoute, Run
  <2>3. CASE FallBack(r)
    BY <2>3 DEF Inv, TypeOK, FallBack, Run
  <2>5. CASE ClientCancels(r)
    BY <2>5 DEF Inv, TypeOK, ClientCancels, Run
  <2> QED
    BY <1>5, <2>1, <2>2, <2>3, <2>4, <2>5
<1>7. ASSUME NEW r \in Requests, ProviderFails(r) \/ CallAborted(r) \/ TimerFires(r)
      PROVE  run'[q].attempts = run[q].attempts
  <2>1. CASE ProviderFails(r)
    BY <2>1 DEF Inv, TypeOK, ProviderFails, Run
  <2>2. CASE CallAborted(r)
    BY <2>2 DEF Inv, TypeOK, CallAborted, Run
  <2>3. CASE TimerFires(r)
    BY <2>3 DEF Inv, TypeOK, TimerFires, Run
  <2> QED
    BY <1>7, <2>1, <2>2, <2>3
<1>8. ASSUME NEW r \in Requests, StartCall(r)
      PROVE  run'[q].attempts = run[q].attempts
  <2>1. PICK b \in BOOLEAN :
          run' = [run EXCEPT ![r].at = "calling", ![r].linked = b,
                             ![r].calls[run[r].candidate] = @ + 1]
    BY <1>8 DEF StartCall
  <2> QED
    BY <2>1 DEF Inv, TypeOK, Run
<1>6. ASSUME NEW r \in Requests, TimePasses(r) \/ \E c \in 1..Candidates : PermitExpires(r, c)
      PROVE  run'[q].attempts = run[q].attempts
  BY <1>6 DEF TimePasses, PermitExpires
<1> QED
  BY <1>1, <1>2, <1>3, <1>4, <1>5, <1>6, <1>7, <1>8 DEF Next, Proceed

(* An attempt that used up the deadline is followed by none.               *)
THEOREM NoRetryAfterTimeout == Spec => TimeoutIsLast
<1>1. Inv /\ [Next]_vars =>
        [\A r \in Requests : run[r].timedOut => run'[r].attempts = run[r].attempts]_vars
  BY NoAttemptStep
<1> QED
  BY <1>1, AlwaysInv, PTL DEF Spec, TimeoutIsLast
=============================================================================
