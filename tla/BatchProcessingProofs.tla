------------------------ MODULE BatchProcessingProofs ------------------------
(***************************************************************************)
(* The safety properties of a batch job, for any number of items, workers, *)
(* scheduler loops and cancellations, and any mishaps.                     *)
(***************************************************************************)
EXTENDS BatchProcessing, TLAPS

InHand(w, i) == run[w][i].at # "none"
HasEnded(i) == item[i].status \in ItemEnded

(* What is in a worker's hand is leased to it until it has ended, is as    *)
(* the worker has read it or cancelled, and its next execution is not      *)
(* counted yet.                                                            *)
HandSane(w, i) ==
  LET x == run[w][i] IN
  /\ HasEnded(i) \/ lease[i] = [owner |-> w, live |-> TRUE]
  /\ IF x.at = "releasing" THEN HasEnded(i) \/ item[i].status = "retry_wait"
     ELSE item[i].status \in {"running", "cancelled"} /\ x.attempt = item[i].attempts
  /\ x.at \in {"checking", "cancelling", "expiring", "executing"} =>
       executions[i] < item[i].attempts
  /\ x.at = "failing" /\ x.retryable => x.attempt < MaxAttempts

(* An item that was not disturbed is in one hand at most, and the          *)
(* reconciler finds its lease only when it has ended.                      *)
ItemSane(i) ==
  /\ \A w, v \in Workers : InHand(w, i) /\ InHand(v, i) => w = v
  /\ \A w \in Workers : InHand(w, i) => HandSane(w, i)
  /\ (\A w \in Workers : ~InHand(w, i)) =>
       item[i].status # "running" /\ (HasEnded(i) \/ lease[i].owner = Nobody)
  /\ reconciler.found[i] # Nobody => HasEnded(i)
  /\ executions[i] <= item[i].attempts /\ item[i].attempts <= MaxAttempts
  /\ item[i].status \in {"queued", "retry_wait"} => item[i].attempts < MaxAttempts
  /\ i \in answered => \/ item[i].status \in {"succeeded", "cancelled"}
                       \/ \E w \in Workers : RunAt(w, i, "succeeding")

GhostSane == \A i \in disturbed : executions[i] = 0 /\ i \notin answered

(* Only a disturbed item is requeued.                                      *)
ReconcilerSane ==
  /\ reconciler.at \in {"requeueing", "releasing"} =>
       reconciler.item \in Items /\ reconciler.found[reconciler.item] # Nobody
  /\ reconciler.at = "requeueing" => reconciler.item \in disturbed

(* The status tells what became of the items, which have all ended.        *)
Fits(status) ==
  /\ status \in Ended \ {"expired"}
  /\ \A i \in Items : HasEnded(i)
  /\ status = "completed" => \A i \in Items : item[i].status # "failed"
  /\ status = "partially_completed" =>
       {"succeeded", "failed"} \subseteq {item[i].status : i \in Items}
  /\ status = "failed" => \A i \in Items : item[i].status # "succeeded"

(* A finalizer, once past its list, knows a status that fits, whatever the *)
(* others do meanwhile.                                                    *)
CloserSane(c) ==
  /\ CloserAt(c, "sweeping") => \A i \in Items \ closer[c].todo : HasEnded(i)
  /\ closer[c].at \in {"reading", "listing"} => \A i \in Items : HasEnded(i)
  /\ closer[c].at \in {"marking", "releasing", "closing"} => Fits(closer[c].verdict)
  /\ CloserAt(c, "closing") => ~reserved

JobSane == job \in Ended \ {"expired"} => Fits(job) /\ ~reserved

(* The inductive invariant.                                                *)
Inv ==
  /\ TypeOK
  /\ \A i \in Items \ disturbed : ItemSane(i)
  /\ GhostSane /\ ReconcilerSane
  /\ \A c \in Closers : CloserSane(c)
  /\ JobSane

USE BatchAssumption

-----------------------------------------------------------------------------
LEMMA CalmIsReconciler == Calm \in Reconciler
BY DEF Calm, Reconciler, JobStatus

LEMMA RestingIsCloser ==
  /\ Resting \in Closer
  /\ \A c : (IF c \in Schedulers THEN Resting ELSE [Resting EXCEPT !.at = "returned"])
              \in Closer
BY DEF Resting, Closer, JobStatus

LEMMA InitInv == Init => Inv
<1> SUFFICES ASSUME Init PROVE Inv
  OBVIOUS
<1>1. TypeOK
  BY CalmIsReconciler, RestingIsCloser
  DEF Init, TypeOK, Item, ItemStatus, Lease, NoLease, Run, NoRun, JobStatus
<1>2. ASSUME NEW i \in Items PROVE ItemSane(i)
  BY DEF Init, ItemSane, InHand, HandSane, HasEnded, NoRun, NoLease, Calm, RunAt, ItemEnded
<1>3. GhostSane /\ ReconcilerSane /\ JobSane
  BY DEF Init, GhostSane, ReconcilerSane, JobSane, Calm, Ended
<1>4. ASSUME NEW c \in Closers PROVE CloserSane(c)
  BY DEF Init, CloserSane, CloserAt, Resting
<1> QED
  BY <1>1, <1>2, <1>3, <1>4 DEF Inv

-----------------------------------------------------------------------------
(* An item that has ended stays as it ended.                               *)
EndedStays == \A i \in Items : HasEnded(i) => item'[i].status = item[i].status

(* The statuses reached by rewriting an item.                              *)
LEMMA WritesEndedStays ==
  ASSUME TypeOK, NEW i \in Items, NEW status \in ItemStatus, NEW attempt,
         Allowed(i, status), Writes(i, status, attempt)
  PROVE  EndedStays
BY DEF TypeOK, Writes, Allowed, ItemMayBecome, EndedStays, HasEnded, ItemEnded, Item

LEMMA WritesItem ==
  ASSUME TypeOK, NEW i \in Items, NEW status \in ItemStatus, NEW attempt \in Nat,
         Writes(i, status, attempt)
  PROVE  /\ item' \in [Items -> Item]
         /\ item'[i].status = status /\ item'[i].attempts = attempt
         /\ \A j \in Items \ {i} : item'[j] = item[j]
BY DEF TypeOK, Writes, Item

LEMMA NextEndedStays ==
  ASSUME TypeOK, Next
  PROVE  EndedStays
<1>1. ASSUME NEW w \in Workers, NEW i \in Items, Processes(w, i) PROVE EndedStays
  <2>0. run[w][i] \in Run
    BY DEF TypeOK
  <2>1. CASE Claim(w, i)
    BY <2>1 DEF Claim, TypeOK, Writes, EndedStays, HasEnded, ItemEnded
  <2>2. CASE Check(w, i) \/ Answered(w, i) \/ Release(w, i)
             \/ \E transient \in BOOLEAN : Refused(w, i, transient)
    BY <2>2 DEF Check, Answered, Release, Refused, EndedStays
  <2>3. CASE EndEarly(w, i)
    BY <2>3, WritesEndedStays DEF EndEarly, EndedStays, ItemStatus, ItemEnded
  <2>4. CASE Succeed(w, i)
    BY <2>4, WritesEndedStays DEF Succeed, EndedStays, ItemStatus, ItemEnded
  <2>5. CASE Fail(w, i)
    BY <2>5, WritesEndedStays DEF Fail, EndedStays, ItemStatus, ItemEnded
  <2> QED
    BY <1>1, <2>1, <2>2, <2>3, <2>4, <2>5 DEF Processes
<1>2. ASSUME NEW c \in Closers, Scan(c) \/ Cancel(c) \/ Closes(c) PROVE EndedStays
  <2>1. CASE Scan(c) \/ Cancel(c)
    BY <2>1 DEF Scan, Cancel, EndedStays
  <2>2. CASE Closes(c)
    <3>1. ASSUME NEW i \in Items, Sweep(c, i) PROVE EndedStays
      BY <3>1, WritesEndedStays DEF Sweep, EndedStays, ItemStatus, ItemEnded
    <3> QED
      BY <2>2, <3>1
      DEF Closes, ScanItems, ReadJob, ListItems, Mark, ReleaseReservation, Close, EndedStays
  <2> QED
    BY <1>2, <2>1, <2>2
<1>3. CASE Reconciles
  <2>1. CASE Requeue
    <3>1. CASE item' = item
      BY <3>1 DEF EndedStays
    <3>2. CASE reconciler.item \in Items /\ item' # item
      BY <2>1, <3>2, WritesEndedStays DEF Requeue, ItemStatus
    <3>3. CASE reconciler.item \notin Items
      BY <2>1, <3>3 DEF Requeue, Writes, EndedStays, TypeOK
    <3> QED
      BY <3>1, <3>2, <3>3
  <2> QED
    BY <1>3, <2>1 DEF Reconciles, FindLeases, LookAt, FreeLease, EndedStays
<1>4. ASSUME NEW i \in Items, FallsDue(i) PROVE EndedStays
  BY <1>4 DEF FallsDue, EndedStays, TypeOK, Item
<1> QED
  BY <1>1, <1>2, <1>3, <1>4
  DEF Next, Die, Activate, Expire, LeaseRunsOut, DeadlinePasses, EndedStays

-----------------------------------------------------------------------------
(* The finalizers and the job                                              *)

LEMMA FitsStays ==
  ASSUME EndedStays, NEW status, Fits(status)
  PROVE  Fits(status)'
BY DEF Fits, EndedStays, HasEnded

LEMMA VerdictFits ==
  ASSUME TypeOK, NEW was \in JobStatus, \A i \in Items : HasEnded(i)
  PROVE  Fits(Verdict(was, [i \in Items |-> item[i].status]))
<1> DEFINE seen == [i \in Items |-> item[i].status]
<1>1. ASSUME NEW status PROVE Some(seen, status) <=> \E i \in Items : item[i].status = status
  BY DEF Some
<1>2. Verdict(was, seen) \in Ended \ {"expired"}
  BY DEF Verdict, Ended
<1>3. Verdict(was, seen) = "completed" => ~Some(seen, "failed")
  BY DEF Verdict
<1>4. Verdict(was, seen) = "partially_completed" =>
        Some(seen, "succeeded") /\ Some(seen, "failed")
  BY DEF Verdict
<1>5. Verdict(was, seen) = "failed" => ~Some(seen, "succeeded")
  BY DEF Verdict
<1> QED
  BY <1>1, <1>2, <1>3, <1>4, <1>5 DEF Fits

(* A step of another leaves a closer what it was.                          *)
LEMMA CloserStays ==
  ASSUME NEW c \in Closers, CloserSane(c), EndedStays,
         closer'[c] = closer[c], reserved' = reserved \/ ~reserved'
  PROVE  CloserSane(c)'
<1>1. ASSUME NEW i \in Items, HasEnded(i) PROVE HasEnded(i)'
  BY <1>1 DEF EndedStays, HasEnded
<1> PICK v : v = closer[c].verdict
  OBVIOUS
<1>2. closer[c].at \in {"marking", "releasing", "closing"} => Fits(v)'
  BY FitsStays DEF CloserSane
<1> QED
  BY <1>1, <1>2 DEF CloserSane, CloserAt, Fits

LEMMA JobStays ==
  ASSUME JobSane, EndedStays, job' = job, reserved' = reserved \/ ~reserved'
  PROVE  JobSane'
<1> PICK v : v = job
  OBVIOUS
<1>1. Fits(v) => Fits(v)'
  BY FitsStays
<1> QED
  BY <1>1 DEF JobSane

(* What a step of closer c may leave behind.                               *)
Left(c) ==
  /\ closer' = [closer EXCEPT ![c] = closer'[c]] /\ closer'[c] \in Closer
  /\ reserved' = reserved \/ ~reserved'
  /\ reserved' \in BOOLEAN
  /\ job' \in JobStatus
  /\ CloserSane(c)' /\ JobSane'

LEMMA CloserSteps ==
  ASSUME Inv, NEW c \in Closers, Scan(c) \/ Cancel(c) \/ Closes(c), EndedStays
  PROVE  Left(c)
<1>0. TypeOK /\ CloserSane(c) /\ JobSane /\ closer[c] \in Closer
  BY DEF Inv, TypeOK
<1>a. job' = job /\ (reserved' = reserved \/ ~reserved') => JobSane'
  BY <1>0, JobStays
<1>b. ASSUME Leaves(c)
      PROVE  /\ closer' = [closer EXCEPT ![c] = closer'[c]] /\ closer'[c] \in Closer
             /\ CloserSane(c)'
  BY <1>0, <1>b, RestingIsCloser DEF Leaves, TypeOK, CloserSane, CloserAt, Resting
<1>c. ASSUME NEW todo \in SUBSET Items, SweepOn(c, todo),
             \A i \in Items \ todo : HasEnded(i)'
      PROVE  /\ closer' = [closer EXCEPT ![c] = closer'[c]] /\ closer'[c] \in Closer
             /\ CloserSane(c)'
  <2>1. closer'[c].at = (IF todo = {} THEN "reading" ELSE "sweeping") /\ closer'[c].todo = todo
    BY <1>0, <1>c DEF SweepOn, TypeOK, Resting
  <2>2. CloserSane(c)'
    BY <2>1, <1>c DEF CloserSane, CloserAt
  <2>3. closer' = [closer EXCEPT ![c] = closer'[c]] /\ closer'[c] \in Closer
    BY <1>0, <1>c DEF SweepOn, TypeOK, Resting, Closer, JobStatus
  <2> QED
    BY <2>2, <2>3
<1>1. CASE Scan(c)
  <2>1. closer'[c].at = "scanning"
    BY <1>0, <1>1 DEF Scan, TypeOK
  <2>2. CloserSane(c)'
    BY <2>1 DEF CloserSane, CloserAt
  <2> QED
    BY <1>0, <1>1, <1>a, <2>2 DEF Scan, Left, TypeOK, Closer
<1>2. CASE Cancel(c)
  <2>1. CASE job \notin Ended /\ JobMayBecome(job, "cancelling")
    <3>1. job' = "cancelling" /\ closer'[c].at = "scanning" /\ reserved' = reserved
      BY <1>0, <1>2, <2>1 DEF Cancel, TypeOK, Closer
    <3>2. CloserSane(c)' /\ JobSane'
      BY <3>1 DEF CloserSane, CloserAt, JobSane, Ended
    <3>3. closer' = [closer EXCEPT ![c] = closer'[c]] /\ closer'[c] \in Closer
      BY <1>0, <1>2, <2>1 DEF Cancel, TypeOK, Closer, JobStatus
    <3> QED
      BY <1>0, <3>1, <3>2, <3>3 DEF Left, TypeOK, JobStatus
  <2>2. CASE ~(job \notin Ended /\ JobMayBecome(job, "cancelling"))
    BY <1>0, <1>2, <2>2, <1>a, <1>b DEF Cancel, Left, TypeOK
  <2> QED
    BY <2>1, <2>2
<1>3. CASE ScanItems(c)
  <2>0. UNCHANGED <<job, reserved, item>>
    BY <1>3 DEF ScanItems
  <2> DEFINE open == {i \in Items : item[i].status \notin ItemEnded}
  <2>1. CASE closer[c].was = "cancelling"
    <3>1. SweepOn(c, open)
      BY <1>3, <2>1 DEF ScanItems
    <3>2. \A i \in Items \ open : HasEnded(i)'
      BY <2>0 DEF HasEnded
    <3>3. CloserSane(c)' /\ closer'[c] \in Closer
          /\ closer' = [closer EXCEPT ![c] = closer'[c]]
      BY <3>1, <3>2, <1>c
    <3> QED
      BY <1>0, <1>a, <2>0, <3>3 DEF Left, TypeOK
  <2>2. CASE closer[c].was # "cancelling" /\ AllEnded([i \in Items |-> item[i].status])
    <3>1. CloserGoes(c, "reading") /\ \A i \in Items : HasEnded(i)'
      BY <1>3, <2>0, <2>2 DEF ScanItems, AllEnded, HasEnded
    <3>2. CloserSane(c)'
      BY <1>0, <3>1 DEF CloserGoes, CloserSane, CloserAt, TypeOK
    <3> QED
      BY <1>0, <1>a, <2>0, <3>1, <3>2 DEF Left, TypeOK, CloserGoes, Closer
  <2>3. CASE closer[c].was # "cancelling" /\ ~AllEnded([i \in Items |-> item[i].status])
    BY <1>0, <1>3, <1>a, <1>b, <2>0, <2>3 DEF ScanItems, Left, TypeOK
  <2> QED
    BY <2>1, <2>2, <2>3
<1>4. ASSUME NEW i \in Items, Sweep(c, i) PROVE Left(c)
  <2>0. UNCHANGED <<job, reserved>>
    BY <1>4 DEF Sweep
  <2>1. CASE Allowed(i, "cancelled")
    <3>1. Writes(i, "cancelled", item[i].attempts) /\ SweepOn(c, closer[c].todo \ {i})
      BY <1>4, <2>1 DEF Sweep
    <3>2. HasEnded(i)'
      BY <1>0, <3>1 DEF Writes, TypeOK, HasEnded, ItemEnded
    <3>3. \A j \in Items \ closer[c].todo : HasEnded(j)'
      BY <1>0, <1>4 DEF Sweep, CloserSane, EndedStays, HasEnded
    <3>4. closer[c].todo \ {i} \in SUBSET Items
      BY <1>0 DEF Closer
    <3>5. CloserSane(c)' /\ closer'[c] \in Closer
          /\ closer' = [closer EXCEPT ![c] = closer'[c]]
      BY <3>1, <3>2, <3>3, <3>4, <1>c
    <3> QED
      BY <1>0, <1>a, <2>0, <3>5 DEF Left, TypeOK
  <2>2. CASE ~Allowed(i, "cancelled")
    BY <1>0, <1>4, <1>a, <1>b, <2>0, <2>2 DEF Sweep, Left, TypeOK
  <2> QED
    BY <2>1, <2>2
<1>5. CASE ReadJob(c)
  <2>0. UNCHANGED <<job, reserved, item>>
    BY <1>5 DEF ReadJob
  <2>1. CASE job \in Ended
    BY <1>0, <1>5, <1>a, <1>b, <2>0, <2>1 DEF ReadJob, Left, TypeOK
  <2>2. CASE job \notin Ended
    <3>1. closer'[c].at = "listing" /\ \A i \in Items : HasEnded(i)'
      BY <1>0, <1>5, <2>0, <2>2 DEF ReadJob, CloserAt, CloserSane, TypeOK, Closer, HasEnded
    <3>2. CloserSane(c)'
      BY <3>1 DEF CloserSane, CloserAt
    <3> QED
      BY <1>0, <1>5, <1>a, <2>0, <2>2, <3>2 DEF ReadJob, Left, TypeOK, Closer
  <2> QED
    BY <2>1, <2>2
<1>6. CASE ListItems(c)
  <2>0. UNCHANGED <<job, reserved, item>> /\ \A i \in Items : HasEnded(i)
    BY <1>0, <1>6 DEF ListItems, CloserSane, CloserAt
  <2>1. AllEnded([i \in Items |-> item[i].status])
    BY <2>0 DEF AllEnded, HasEnded
  <2> PICK verdict : verdict = Verdict(closer[c].was, [i \in Items |-> item[i].status])
    OBVIOUS
  <2>2. Fits(verdict)
    BY <1>0, <2>0, VerdictFits DEF Closer
  <2>3. closer' = [closer EXCEPT ![c] = [Resting EXCEPT !.at = "marking", !.verdict = verdict]]
    BY <1>6, <2>1 DEF ListItems
  <2>4. closer'[c].at = "marking" /\ closer'[c].verdict = verdict
    BY <1>0, <2>3 DEF TypeOK, Resting
  <2>5. Fits(verdict)'
    BY <2>2, FitsStays
  <2>6. CloserSane(c)'
    BY <2>4, <2>5 DEF CloserSane, CloserAt, Fits
  <2>7. closer'[c] \in Closer
    BY <1>0, <2>2, <2>3 DEF TypeOK, Resting, Closer, JobStatus, Fits
  <2> QED
    BY <1>0, <1>a, <2>0, <2>3, <2>6, <2>7 DEF Left, TypeOK
<1>7. CASE Mark(c)
  <2>1. CASE JobMayBecome(job, "finalizing")
    <3>1. job' = "finalizing" /\ reserved' = reserved /\ closer'[c].at = "releasing"
          /\ closer'[c].verdict = closer[c].verdict
      BY <1>0, <1>7, <2>1 DEF Mark, CloserGoes, TypeOK, Closer
    <3> PICK v : v = closer[c].verdict
      OBVIOUS
    <3>2. Fits(v)'
      BY <1>0, <1>7, FitsStays DEF Mark, CloserAt, CloserSane
    <3>3. CloserSane(c)' /\ JobSane'
      BY <3>1, <3>2 DEF CloserSane, CloserAt, JobSane, Ended, Fits
    <3> QED
      BY <1>0, <1>7, <2>1, <3>1, <3>3 DEF Mark, CloserGoes, Left, TypeOK, Closer, JobStatus
  <2>2. CASE ~JobMayBecome(job, "finalizing")
    BY <1>0, <1>7, <1>a, <1>b, <2>2 DEF Mark, Left, TypeOK
  <2> QED
    BY <2>1, <2>2
<1>8. CASE ReleaseReservation(c)
  <2>1. job' = job /\ ~reserved' /\ reserved' \in BOOLEAN /\ closer'[c].at = "closing"
        /\ closer'[c].verdict = closer[c].verdict
    BY <1>0, <1>8 DEF ReleaseReservation, CloserGoes, TypeOK, Closer
  <2> PICK v : v = closer[c].verdict
    OBVIOUS
  <2>2. Fits(v)'
    BY <1>0, <1>8, FitsStays DEF ReleaseReservation, CloserAt, CloserSane
  <2>3. CloserSane(c)'
    BY <2>1, <2>2 DEF CloserSane, CloserAt, Fits
  <2> QED
    BY <1>0, <1>8, <1>a, <2>1, <2>3 DEF ReleaseReservation, CloserGoes, Left, TypeOK, Closer
<1>9. CASE Close(c)
  <2>0. reserved' = reserved /\ ~reserved /\ closer[c].verdict \in JobStatus
    BY <1>0, <1>9 DEF Close, CloserSane, CloserAt, Closer
  <2>1. JobSane'
    <3>1. CASE job' = job
      BY <1>a, <2>0, <3>1
    <3>2. CASE job' # job
      <4> PICK v : v = closer[c].verdict
        OBVIOUS
      <4>1. job' = v /\ Fits(v)
        BY <1>0, <1>9, <3>2 DEF Close, CloserSane, CloserAt
      <4>2. Fits(v)'
        BY <4>1, FitsStays
      <4> QED
        BY <2>0, <4>1, <4>2 DEF JobSane
    <3> QED
      BY <3>1, <3>2
  <2> QED
    BY <1>0, <1>9, <1>b, <2>0, <2>1 DEF Close, Left, TypeOK
<1> QED
  BY <1>1, <1>2, <1>3, <1>4, <1>5, <1>6, <1>7, <1>8, <1>9 DEF Closes

(* Whoever steps, finalizers and job stay sane.                            *)
LEMMA NextClosers ==
  ASSUME Inv, Next
  PROVE  (\A c \in Closers : CloserSane(c)') /\ JobSane'
<1>0. TypeOK /\ EndedStays /\ JobSane /\ \A c \in Closers : CloserSane(c)
  BY NextEndedStays DEF Inv
<1>1. CASE UNCHANGED <<job, reserved, closer>>
  BY <1>0, <1>1, CloserStays, JobStays
<1>2. CASE Activate \/ Expire
  <2>1. UNCHANGED <<reserved, closer>> /\ job' \in {"running", "expired"}
    BY <1>2 DEF Activate, Expire
  <2>2. JobSane'
    BY <2>1 DEF JobSane, Ended
  <2> QED
    BY <1>0, <2>1, <2>2, CloserStays
<1>3. ASSUME NEW c \in Closers, Scan(c) \/ Cancel(c) \/ Closes(c)
      PROVE  (\A d \in Closers : CloserSane(d)') /\ JobSane'
  <2>1. Left(c)
    BY <1>0, <1>3, CloserSteps
  <2>2. ASSUME NEW d \in Closers, d # c PROVE CloserSane(d)'
    <3>1. closer'[d] = closer[d]
      BY <1>0, <2>1, <2>2 DEF Left, TypeOK
    <3> QED
      BY <1>0, <2>1, <3>1, CloserStays DEF Left
  <2> QED
    BY <2>1, <2>2 DEF Left
<1>4. ASSUME NEW w \in Workers, NEW i \in Items, Processes(w, i)
      PROVE  UNCHANGED <<job, reserved, closer>>
  BY <1>4
  DEF Processes, Claim, Check, EndEarly, Answered, Refused, Succeed, Fail, Release, NoCloser
<1>5. Reconciles => UNCHANGED <<job, reserved, closer>>
  BY DEF Reconciles, FindLeases, LookAt, Requeue, FreeLease
<1>6. (\E w \in Workers : Die(w)) \/ (\E i \in Items : LeaseRunsOut(i) \/ FallsDue(i))
        \/ DeadlinePasses => UNCHANGED <<job, reserved, closer>>
  BY DEF Die, LeaseRunsOut, FallsDue, DeadlinePasses, NoCloser
<1> QED
  BY <1>1, <1>2, <1>3, <1>4, <1>5, <1>6 DEF Next

-----------------------------------------------------------------------------
(* The workers                                                             *)

(* Nothing an item's sanity looks at has changed.                          *)
Same(i) ==
  /\ item'[i].status = item[i].status /\ item'[i].attempts = item[i].attempts
  /\ lease'[i] = lease[i] /\ \A w \in Workers : run'[w][i] = run[w][i]
  /\ reconciler'.found[i] = reconciler.found[i]
  /\ executions'[i] = executions[i] /\ (i \in answered' <=> i \in answered)

LEMMA SameStaysSane ==
  ASSUME NEW i \in Items, ItemSane(i), Same(i)
  PROVE  ItemSane(i)'
BY DEF Same, ItemSane, InHand, HandSane, HasEnded, RunAt

(* The item in hand, when the worker that has it has moved.                *)
Moved(w, i) ==
  /\ \A v \in Workers : v # w => ~InHand(v, i) /\ run'[v][i] = run[v][i]
  /\ reconciler' = reconciler
  /\ HasEnded(i) => HasEnded(i)'
  /\ IF InHand(w, i)' THEN HandSane(w, i)'
     ELSE item'[i].status # "running" /\ (HasEnded(i)' \/ lease'[i].owner = Nobody)
  /\ executions'[i] <= item'[i].attempts /\ item'[i].attempts <= MaxAttempts
  /\ item'[i].status \in {"queued", "retry_wait"} => item'[i].attempts < MaxAttempts
  /\ i \in answered' => \/ item'[i].status \in {"succeeded", "cancelled"}
                        \/ run'[w][i].at = "succeeding"

LEMMA MovedStaysSane ==
  ASSUME NEW w \in Workers, NEW i \in Items, ItemSane(i), Moved(w, i)
  PROVE  ItemSane(i)'
BY DEF Moved, ItemSane, InHand, RunAt

(* What a step of worker w on item i leaves alone, and what it leaves.     *)
Works(w, i) ==
  /\ TypeOK'
  /\ \A j \in Items \ {i} : Same(j)
  /\ GhostSane' /\ UNCHANGED <<reconciler, disturbed>>
  /\ i \notin disturbed => Moved(w, i)

LEMMA HandIsAlone ==
  ASSUME NEW w \in Workers, NEW i \in Items, ItemSane(i), InHand(w, i)
  PROVE  HandSane(w, i) /\ \A v \in Workers : v # w => ~InHand(v, i)
BY DEF ItemSane

LEMMA ClaimWorks ==
  ASSUME Inv, NEW w \in Workers, NEW i \in Items, Claim(w, i)
  PROVE  Works(w, i)
<1>0. TypeOK /\ GhostSane /\ (i \notin disturbed => ItemSane(i))
  BY DEF Inv
<1>1. item[i] \in Item /\ lease[i] \in Lease
  BY <1>0 DEF TypeOK
<1> DEFINE n == Counted(item[i].attempts + 1)
<1>2. n \in Nat /\ "running" \in ItemStatus /\ Writes(i, "running", n)
  BY <1>1 DEF Claim, Counted, Item, ItemStatus
<1>a. item[i].attempts < MaxAttempts => n = item[i].attempts + 1
  BY <1>1 DEF Counted, Item
<1> HIDE DEF n
<1>3. /\ item' \in [Items -> Item]
      /\ item'[i].status = "running" /\ item'[i].attempts = n
      /\ \A j \in Items \ {i} : item'[j] = item[j]
  BY <1>0, <1>2, WritesItem
<1>4. /\ run' \in [Workers -> [Items -> Run]]
      /\ run'[w][i] = [at |-> "checking", attempt |-> n, retryable |-> FALSE]
      /\ \A v \in Workers, j \in Items : v # w \/ j # i => run'[v][j] = run[v][j]
  BY <1>0, <1>2 DEF Claim, TypeOK, Run, n
<1>5. /\ lease' \in [Items -> Lease] /\ lease'[i] = [owner |-> w, live |-> TRUE]
      /\ \A j \in Items \ {i} : lease'[j] = lease[j]
  BY <1>0 DEF Claim, TypeOK, Lease
<1>6. UNCHANGED <<job, reserved, overdue, closer, reconciler, executions, answered, disturbed,
                  mishaps>>
  BY DEF Claim, NoCloser, NoReconciler, NoGhosts
<1>7. TypeOK' /\ GhostSane'
  BY <1>0, <1>3, <1>4, <1>5, <1>6 DEF TypeOK, GhostSane
<1>8. ASSUME NEW j \in Items, j # i PROVE Same(j)
  BY <1>8, <1>3, <1>4, <1>5, <1>6 DEF Same
<1>9. ASSUME i \notin disturbed PROVE Moved(w, i)
  <2>0. ItemSane(i) /\ item[i].status \in {"queued", "retry_wait"}
    BY <1>0, <1>9 DEF Claim
  <2>1. ASSUME NEW v \in Workers, InHand(v, i) PROVE FALSE
    <3>1. lease[i] = [owner |-> v, live |-> TRUE]
      BY <2>0, <2>1, HandIsAlone DEF HandSane, HasEnded, ItemEnded
    <3>2. v = w
      BY <3>1 DEF Claim
    <3> QED
      BY <2>1, <3>2 DEF Claim, InHand, RunAt
  <2>2. executions[i] <= item[i].attempts /\ item[i].attempts < MaxAttempts
        /\ executions[i] \in Nat /\ item[i].attempts \in Nat
    BY <1>0, <1>1, <2>0 DEF ItemSane, TypeOK, Item
  <2>3. HandSane(w, i)'
    BY <1>a, <1>3, <1>4, <1>5, <1>6, <2>2 DEF HandSane
  <2>4. i \in answered => FALSE
    BY <2>0, <2>1 DEF ItemSane, RunAt, InHand
  <2> QED
    BY <1>a, <1>3, <1>4, <1>6, <2>0, <2>1, <2>2, <2>3, <2>4 DEF Moved, InHand, HasEnded, ItemEnded
<1> QED
  BY <1>6, <1>7, <1>8, <1>9 DEF Works

(* The steps on an item in hand other than its execution: what the item    *)
(* becomes, its lease, and the worker's run.                               *)
LEMMA HandWorks ==
  ASSUME Inv, NEW w \in Workers, NEW i \in Items, InHand(w, i),
         NEW y \in Run, run' = [run EXCEPT ![w][i] = y],
         item' \in [Items -> Item], \A j \in Items \ {i} : item'[j] = item[j],
         lease' \in [Items -> Lease], \A j \in Items \ {i} : lease'[j] = lease[j],
         UNCHANGED <<job, reserved, overdue, closer, reconciler, executions, answered,
                     disturbed, mishaps>>,
         i \notin disturbed =>
           /\ HasEnded(i) => HasEnded(i)'
           /\ item'[i].attempts = item[i].attempts
           /\ item'[i].status # "queued"
           /\ item'[i].status = "retry_wait" => item[i].attempts < MaxAttempts
           /\ IF InHand(w, i)' THEN HandSane(w, i)'
              ELSE item'[i].status # "running" /\ (HasEnded(i)' \/ lease'[i].owner = Nobody)
           /\ i \in answered => \/ item'[i].status \in {"succeeded", "cancelled"}
                                \/ y.at = "succeeding"
  PROVE  Works(w, i)
<1>0. TypeOK /\ GhostSane /\ (i \notin disturbed => ItemSane(i))
  BY DEF Inv
<1>1. /\ run' \in [Workers -> [Items -> Run]] /\ run'[w][i] = y
      /\ \A v \in Workers, j \in Items : v # w \/ j # i => run'[v][j] = run[v][j]
  BY <1>0 DEF TypeOK
<1>2. TypeOK' /\ GhostSane'
  BY <1>0, <1>1 DEF TypeOK, GhostSane
<1>3. ASSUME NEW j \in Items, j # i PROVE Same(j)
  BY <1>3, <1>1 DEF Same
<1>4. ASSUME i \notin disturbed PROVE Moved(w, i)
  <2>1. \A v \in Workers : v # w => ~InHand(v, i)
    BY <1>0, <1>4, HandIsAlone
  <2>2. executions[i] <= item[i].attempts /\ item[i].attempts <= MaxAttempts
    BY <1>0, <1>4 DEF ItemSane
  <2> QED
    BY <1>1, <1>4, <2>1, <2>2 DEF Moved
<1> QED
  BY <1>2, <1>3, <1>4 DEF Works

LEMMA CheckWorks ==
  ASSUME Inv, NEW w \in Workers, NEW i \in Items, Check(w, i)
  PROVE  Works(w, i)
<1>0. TypeOK /\ (i \notin disturbed => ItemSane(i)) /\ run[w][i] \in Run /\ InHand(w, i)
  BY DEF Inv, TypeOK, Check, RunAt, InHand
<1> PICK point \in {"cancelling", "expiring", "executing"} : RunGoes(w, i, point)
  BY DEF Check
<1> DEFINE y == [run[w][i] EXCEPT !.at = point]
<1>1. y \in Run /\ run' = [run EXCEPT ![w][i] = y] /\ run'[w][i] = y /\ y.at = point
      /\ y.attempt = run[w][i].attempt
  BY <1>0 DEF RunGoes, Run, TypeOK
<1>2. UNCHANGED <<item, lease, job, reserved, overdue, closer, reconciler, executions, answered,
                  disturbed, mishaps>>
  BY DEF Check, NoCloser, NoReconciler, NoGhosts
<1>3. ASSUME i \notin disturbed
      PROVE  HandSane(w, i)' /\ item[i].status \in {"running", "cancelled"}
             /\ (i \in answered => item[i].status \in {"succeeded", "cancelled"})
  <2>1. HandSane(w, i) /\ \A v \in Workers : v # w => ~InHand(v, i)
    BY <1>0, <1>3, HandIsAlone
  <2>2. i \in answered => item[i].status \in {"succeeded", "cancelled"}
    BY <1>0, <1>3, <2>1 DEF ItemSane, RunAt, InHand, Check
  <2> QED
    BY <1>1, <1>2, <2>1, <2>2 DEF HandSane, HasEnded, Check, RunAt
<1>4. InHand(w, i)'
  BY <1>1 DEF InHand
<1> HIDE DEF y
<1> QED
  BY <1>0, <1>1, <1>2, <1>3, <1>4, HandWorks DEF TypeOK, HasEnded

LEMMA EndEarlyWorks ==
  ASSUME Inv, NEW w \in Workers, NEW i \in Items, EndEarly(w, i)
  PROVE  Works(w, i)
<1>0. TypeOK /\ (i \notin disturbed => ItemSane(i)) /\ run[w][i] \in Run /\ InHand(w, i)
      /\ item[i] \in Item
  BY DEF Inv, TypeOK, EndEarly, RunAt, InHand
<1>a. i \notin disturbed => HandSane(w, i)
  BY <1>0, HandIsAlone
<1>b. UNCHANGED <<lease, job, reserved, overdue, closer, reconciler, executions, answered,
                  disturbed, mishaps>>
  BY <1>0 DEF EndEarly, NoCloser, NoReconciler, NoGhosts, TypeOK
<1>c. ASSUME Leaving(w, i)
      PROVE  /\ [NoRun EXCEPT !.at = "releasing"] \in Run
             /\ run' = [run EXCEPT ![w][i] = [NoRun EXCEPT !.at = "releasing"]]
             /\ run'[w][i].at = "releasing" /\ InHand(w, i)'
  BY <1>0, <1>c DEF Leaving, NoRun, Run, TypeOK, InHand
<1> PICK status \in {"cancelled", "failed"} :
       IF Allowed(i, status) THEN Writes(i, status, run[w][i].attempt) /\ Leaving(w, i)
       ELSE UNCHANGED item /\ run' = [run EXCEPT ![w][i] = NoRun]
  BY DEF EndEarly
<1>1. ASSUME i \notin disturbed
      PROVE  /\ item[i].status \in {"running", "cancelled"}
             /\ run[w][i].attempt = item[i].attempts
             /\ HasEnded(i) \/ lease[i] = [owner |-> w, live |-> TRUE]
  BY <1>a, <1>1 DEF HandSane, EndEarly
<1>2. CASE Allowed(i, status)
  <2>1. status \in ItemStatus /\ run[w][i].attempt \in Nat
    BY <1>0 DEF ItemStatus, ItemEnded, Run
  <2>2. /\ item' \in [Items -> Item]
        /\ item'[i].status = status /\ item'[i].attempts = run[w][i].attempt
        /\ \A j \in Items \ {i} : item'[j] = item[j]
    BY <1>0, <1>2, <2>1, WritesItem
  <2>3. i \notin disturbed /\ HasEnded(i) => status = "cancelled"
    BY <1>1, <1>2 DEF Allowed, ItemMayBecome, HasEnded, ItemEnded
  <2>4. HasEnded(i)' /\ (i \notin disturbed => HandSane(w, i)')
    BY <1>c, <1>2, <2>2 DEF HasEnded, ItemEnded, HandSane
  <2>5. i \notin disturbed /\ i \in answered => item[i].status = "cancelled"
    BY <1>0, <1>1, HandIsAlone DEF ItemSane, RunAt, InHand, EndEarly
  <2>6. i \notin disturbed /\ i \in answered => status = "cancelled"
    BY <2>3, <2>5 DEF HasEnded, ItemEnded
  <2>7. i \notin disturbed => item'[i].attempts = item[i].attempts
    BY <1>1, <2>2
  <2> QED
    <3> DEFINE y == [NoRun EXCEPT !.at = "releasing"]
    <3>1. y \in Run /\ run' = [run EXCEPT ![w][i] = y] /\ InHand(w, i)'
      BY <1>c, <1>2
    <3> HIDE DEF y
    <3>2. item'[i].status \notin {"running", "queued", "retry_wait"}
      BY <2>2
    <3> QED
      BY <1>0, <1>b, <2>2, <2>4, <2>6, <2>7, <3>1, <3>2, HandWorks DEF TypeOK
<1>3. CASE ~Allowed(i, status)
  <2>0. item' = item /\ run' = [run EXCEPT ![w][i] = NoRun]
    BY <1>3
  <2>1. NoRun \in Run /\ run'[w][i] = NoRun /\ ~InHand(w, i)'
    BY <1>0, <2>0 DEF NoRun, Run, TypeOK, InHand
  <2>2. i \notin disturbed => item[i].status = "cancelled"
    BY <1>1, <1>3 DEF Allowed, ItemMayBecome, ItemEnded
  <2> QED
    BY <1>0, <1>b, <2>0, <2>1, <2>2, HandWorks DEF TypeOK, HasEnded, ItemEnded
<1> QED
  BY <1>2, <1>3

(* The execution is counted, and its answer noted.                         *)
LEMMA ExecutionWorks ==
  ASSUME Inv, NEW w \in Workers, NEW i \in Items,
         RunAt(w, i, "executing"), Executed(i),
         NEW y \in Run, run' = [run EXCEPT ![w][i] = y], y.attempt = run[w][i].attempt,
         \/ y.at = "succeeding" /\ answered' = answered \cup ({i} \ disturbed)
         \/ /\ y.at = "failing" /\ (y.retryable => y.attempt < MaxAttempts)
            /\ answered' = answered,
         UNCHANGED <<item, lease, job, reserved, overdue, closer, reconciler, disturbed, mishaps>>
  PROVE  Works(w, i)
<1>0. TypeOK /\ GhostSane /\ (i \notin disturbed => ItemSane(i)) /\ InHand(w, i)
  BY DEF Inv, RunAt, InHand
<1>1. /\ run' \in [Workers -> [Items -> Run]] /\ run'[w][i] = y
      /\ \A v \in Workers, j \in Items : v # w \/ j # i => run'[v][j] = run[v][j]
  BY <1>0 DEF TypeOK
<1>2. /\ executions' \in [Items -> Nat] /\ answered' \subseteq Items
      /\ executions'[i] = IF i \in disturbed THEN executions[i] ELSE executions[i] + 1
      /\ \A j \in Items \ {i} : executions'[j] = executions[j]
      /\ \A j \in Items \ {i} : j \in answered' <=> j \in answered
      /\ i \in disturbed => (i \in answered' <=> i \in answered)
  BY <1>0 DEF TypeOK, Executed
<1>3. TypeOK'
  BY <1>0, <1>1, <1>2 DEF TypeOK
<1>4. GhostSane'
  BY <1>0, <1>2 DEF GhostSane, TypeOK
<1>5. ASSUME NEW j \in Items, j # i PROVE Same(j)
  BY <1>5, <1>1, <1>2 DEF Same
<1>6. ASSUME i \notin disturbed PROVE Moved(w, i)
  <2>1. HandSane(w, i) /\ \A v \in Workers : v # w => ~InHand(v, i)
    BY <1>0, <1>6, HandIsAlone
  <2>2. /\ executions[i] < item[i].attempts /\ item[i].attempts <= MaxAttempts
        /\ executions[i] \in Nat /\ item[i].attempts \in Nat
    BY <1>0, <1>6, <2>1 DEF HandSane, ItemSane, TypeOK, Item, RunAt
  <2>3. item[i].status \in {"running", "cancelled"} /\ y.attempt = item[i].attempts
    BY <2>1 DEF HandSane, RunAt
  <2>4. HandSane(w, i)' /\ InHand(w, i)'
    BY <1>1, <2>1, <2>3 DEF HandSane, HasEnded, InHand
  <2>5. i \in answered => item[i].status = "cancelled"
    BY <1>0, <1>6, <2>1, <2>3 DEF ItemSane, RunAt, InHand
  <2>6. i \in answered' => item[i].status = "cancelled" \/ run'[w][i].at = "succeeding"
    BY <1>1, <2>5
  <2> QED
    BY <1>1, <1>2, <1>6, <2>1, <2>2, <2>3, <2>4, <2>6 DEF Moved, HasEnded
<1> QED
  BY <1>3, <1>4, <1>5, <1>6 DEF Works

LEMMA AnsweredWorks ==
  ASSUME Inv, NEW w \in Workers, NEW i \in Items, Answered(w, i)
  PROVE  Works(w, i)
<1>0. run[w][i] \in Run /\ TypeOK
  BY DEF Inv, TypeOK
<1> DEFINE y == [run[w][i] EXCEPT !.at = "succeeding"]
<1>1. y \in Run /\ run' = [run EXCEPT ![w][i] = y] /\ y.at = "succeeding"
      /\ y.attempt = run[w][i].attempt
  BY <1>0 DEF Answered, RunGoes, Run, TypeOK
<1> HIDE DEF y
<1> QED
  BY <1>1, ExecutionWorks DEF Answered, NoCloser, NoReconciler

LEMMA RefusedWorks ==
  ASSUME Inv, NEW w \in Workers, NEW i \in Items, NEW transient \in BOOLEAN,
         Refused(w, i, transient)
  PROVE  Works(w, i)
<1>0. run[w][i] \in Run /\ TypeOK
  BY DEF Inv, TypeOK
<1>a. PICK again \in BOOLEAN : again = (transient /\ run[w][i].attempt < MaxAttempts)
  OBVIOUS
<1>b. run' = [run EXCEPT ![w][i].at = "failing", ![w][i].retryable = again]
  BY <1>a, Zenon DEF Refused
<1> DEFINE y == [run[w][i] EXCEPT !.at = "failing", !.retryable = again]
<1>1. y \in Run /\ y.at = "failing" /\ y.attempt = run[w][i].attempt
  BY <1>0 DEF Run
<1>2. y.retryable = again
  BY <1>0 DEF Run
<1>3. run' = [run EXCEPT ![w][i] = y]
  BY <1>0, <1>b DEF TypeOK
<1> HIDE DEF y
<1>4. y.retryable => y.attempt < MaxAttempts
  BY <1>a, <1>1, <1>2
<1> QED
  BY <1>1, <1>3, <1>4, ExecutionWorks DEF Refused, NoCloser, NoReconciler

LEMMA SucceedWorks ==
  ASSUME Inv, NEW w \in Workers, NEW i \in Items, Succeed(w, i)
  PROVE  Works(w, i)
<1>0. TypeOK /\ (i \notin disturbed => ItemSane(i)) /\ run[w][i] \in Run /\ InHand(w, i)
      /\ item[i] \in Item
  BY DEF Inv, TypeOK, Succeed, RunAt, InHand
<1>a. i \notin disturbed => HandSane(w, i)
  BY <1>0, HandIsAlone
<1>b. UNCHANGED <<lease, job, reserved, overdue, closer, reconciler, executions, answered,
                  disturbed, mishaps>>
  BY <1>0 DEF Succeed, NoCloser, NoReconciler, NoGhosts, TypeOK
<1>c. ASSUME Leaving(w, i)
      PROVE  /\ [NoRun EXCEPT !.at = "releasing"] \in Run
             /\ run' = [run EXCEPT ![w][i] = [NoRun EXCEPT !.at = "releasing"]]
             /\ run'[w][i].at = "releasing" /\ InHand(w, i)'
  BY <1>0, <1>c DEF Leaving, NoRun, Run, TypeOK, InHand
<1>1. ASSUME i \notin disturbed
      PROVE  /\ item[i].status \in {"running", "cancelled"}
             /\ run[w][i].attempt = item[i].attempts
  BY <1>a, <1>1 DEF HandSane, Succeed, RunAt
<1>2. CASE Allowed(i, "succeeded")
  <2>1. "succeeded" \in ItemStatus /\ run[w][i].attempt \in Nat
    BY <1>0 DEF ItemStatus, ItemEnded, Run
  <2>2. /\ item' \in [Items -> Item]
        /\ item'[i].status = "succeeded" /\ item'[i].attempts = run[w][i].attempt
        /\ \A j \in Items \ {i} : item'[j] = item[j]
    BY <1>0, <1>2, <2>1, WritesItem DEF Succeed
  <2>4. HasEnded(i)' /\ (i \notin disturbed => HandSane(w, i)')
    BY <1>c, <1>2, <2>2 DEF HasEnded, ItemEnded, HandSane, Succeed
  <2> QED
    BY <1>0, <1>1, <1>b, <1>c, <1>2, <2>2, <2>4, HandWorks DEF TypeOK, Succeed
<1>3. CASE ~Allowed(i, "succeeded")
  <2> DEFINE least == run[w][i].attempt < MaxAttempts
  <2>6. least \in BOOLEAN
    BY <1>0 DEF Run
  <2> HIDE DEF least
  <2>7. PICK again \in BOOLEAN : again = least
    BY <2>6
  <2>8. run' = [run EXCEPT ![w][i].at = "failing", ![w][i].retryable = again]
    BY <1>3, <2>7, Zenon DEF Succeed, least
  <2> DEFINE y == [run[w][i] EXCEPT !.at = "failing", !.retryable = again]
  <2>0. y \in Run /\ y.at = "failing" /\ y.attempt = run[w][i].attempt
    BY <1>0 DEF Run
  <2>9. y.retryable = again
    BY <1>0 DEF Run
  <2>1. run' = [run EXCEPT ![w][i] = y] /\ run'[w][i] = y
    BY <1>0, <2>8 DEF TypeOK
  <2> HIDE DEF y
  <2>5. y.retryable => y.attempt < MaxAttempts
    <3>1. y.retryable => least
      BY <2>7, <2>9
    <3>2. y.attempt = run[w][i].attempt
      BY <2>0
    <3>3. least => y.attempt < MaxAttempts
      BY <3>2 DEF least
    <3> QED
      BY <3>1, <3>3
  <2>2. i \notin disturbed => item[i].status = "cancelled"
    BY <1>1, <1>3 DEF Allowed, ItemMayBecome, ItemEnded
  <2>3. item' = item
    BY <1>3 DEF Succeed
  <2>4. InHand(w, i)' /\ (i \notin disturbed => HandSane(w, i)')
    BY <1>1, <2>0, <2>1, <2>2, <2>3, <2>5 DEF HandSane, HasEnded, ItemEnded, InHand
  <2> QED
    BY <1>0, <1>b, <2>0, <2>1, <2>2, <2>3, <2>4, HandWorks DEF TypeOK, HasEnded
<1> QED
  BY <1>2, <1>3

LEMMA FailWorks ==
  ASSUME Inv, NEW w \in Workers, NEW i \in Items, Fail(w, i)
  PROVE  Works(w, i)
<1>0. TypeOK /\ (i \notin disturbed => ItemSane(i)) /\ run[w][i] \in Run /\ InHand(w, i)
      /\ item[i] \in Item
  BY DEF Inv, TypeOK, Fail, RunAt, InHand
<1>a. i \notin disturbed => HandSane(w, i)
  BY <1>0, HandIsAlone
<1>b. UNCHANGED <<lease, job, reserved, overdue, closer, reconciler, executions, answered,
                  disturbed, mishaps>>
  BY <1>0 DEF Fail, NoCloser, NoReconciler, NoGhosts, TypeOK
<1>c. ASSUME Leaving(w, i)
      PROVE  /\ [NoRun EXCEPT !.at = "releasing"] \in Run
             /\ run' = [run EXCEPT ![w][i] = [NoRun EXCEPT !.at = "releasing"]]
             /\ run'[w][i].at = "releasing" /\ InHand(w, i)'
  BY <1>0, <1>c DEF Leaving, NoRun, Run, TypeOK, InHand
<1> PICK status \in {"retry_wait", "failed"} :
       /\ status = (IF run[w][i].retryable THEN "retry_wait" ELSE "failed")
       /\ IF Allowed(i, status) THEN Writes(i, status, run[w][i].attempt) ELSE UNCHANGED item
       /\ Leaving(w, i)
  BY DEF Fail
<1>1. ASSUME i \notin disturbed
      PROVE  /\ item[i].status \in {"running", "cancelled"}
             /\ run[w][i].attempt = item[i].attempts
             /\ run[w][i].retryable => item[i].attempts < MaxAttempts
             /\ HasEnded(i) \/ lease[i] = [owner |-> w, live |-> TRUE]
  BY <1>a, <1>1 DEF HandSane, Fail, RunAt
<1>4. i \notin disturbed /\ i \in answered => item[i].status = "cancelled"
  BY <1>0, <1>1, HandIsAlone DEF ItemSane, RunAt, InHand, Fail
<1>2. CASE Allowed(i, status)
  <2>1. status \in ItemStatus /\ run[w][i].attempt \in Nat
    BY <1>0 DEF ItemStatus, ItemEnded, Run
  <2>2. /\ item' \in [Items -> Item]
        /\ item'[i].status = status /\ item'[i].attempts = run[w][i].attempt
        /\ \A j \in Items \ {i} : item'[j] = item[j]
    BY <1>0, <1>2, <2>1, WritesItem
  <2>3. i \notin disturbed => item[i].status = "running"
    BY <1>1, <1>2 DEF Allowed, ItemMayBecome, ItemEnded
  <2>4. i \notin disturbed => HandSane(w, i)' /\ ~HasEnded(i) /\ i \notin answered
    BY <1>c, <1>1, <1>4, <1>b, <2>2, <2>3 DEF HasEnded, ItemEnded, HandSane
  <2> QED
    BY SMTT(30), <1>0, <1>1, <1>b, <1>c, <2>2, <2>4, HandWorks DEF TypeOK
<1>3. CASE ~Allowed(i, status)
  <2>1. item' = item
    BY <1>3
  <2>2. i \notin disturbed => item[i].status = "cancelled"
    BY <1>1, <1>3 DEF Allowed, ItemMayBecome, ItemEnded
  <2>3. i \notin disturbed => HandSane(w, i)'
    BY <1>c, <2>1, <2>2 DEF HasEnded, ItemEnded, HandSane
  <2> QED
    BY <1>0, <1>b, <1>c, <2>1, <2>2, <2>3, HandWorks DEF TypeOK, HasEnded
<1> QED
  BY <1>2, <1>3

LEMMA ReleaseWorks ==
  ASSUME Inv, NEW w \in Workers, NEW i \in Items, Release(w, i)
  PROVE  Works(w, i)
<1>0. TypeOK /\ (i \notin disturbed => ItemSane(i)) /\ run[w][i] \in Run /\ InHand(w, i)
      /\ item[i] \in Item
  BY DEF Inv, TypeOK, Release, RunAt, InHand
<1>a. i \notin disturbed => HandSane(w, i)
  BY <1>0, HandIsAlone
<1>b. UNCHANGED <<item, job, reserved, overdue, closer, reconciler, executions, answered,
                  disturbed, mishaps>>
  BY DEF Release, NoCloser, NoReconciler, NoGhosts
<1>1. /\ lease' \in [Items -> Lease] /\ \A j \in Items \ {i} : lease'[j] = lease[j]
      /\ lease[i].owner = w => lease'[i].owner = Nobody
  BY <1>0 DEF Release, Released, NoLease, Lease, TypeOK
<1>2. NoRun \in Run /\ run' = [run EXCEPT ![w][i] = NoRun] /\ ~InHand(w, i)'
  BY <1>0 DEF Release, NoRun, Run, TypeOK, InHand
<1>3. ASSUME i \notin disturbed
      PROVE  /\ item[i].status \notin {"running", "queued"}
             /\ HasEnded(i) \/ lease[i].owner = w
             /\ item[i].status = "retry_wait" => item[i].attempts < MaxAttempts
             /\ i \in answered => item[i].status \in {"succeeded", "cancelled"}
  <2>1. HasEnded(i) \/ item[i].status = "retry_wait"
    BY <1>a, <1>3 DEF HandSane, Release, RunAt
  <2>2. HasEnded(i) \/ lease[i].owner = w
    BY <1>a, <1>3 DEF HandSane
  <2>3. i \in answered => item[i].status \in {"succeeded", "cancelled"}
    BY <1>0, <1>3, HandIsAlone DEF ItemSane, RunAt, InHand, Release
  <2> QED
    BY <1>0, <1>3, <2>1, <2>2, <2>3 DEF ItemSane, HasEnded, ItemEnded
<1> QED
  BY <1>0, <1>b, <1>1, <1>2, <1>3, HandWorks DEF TypeOK, HasEnded

LEMMA ProcessesWorks ==
  ASSUME Inv, NEW w \in Workers, NEW i \in Items, Processes(w, i)
  PROVE  Works(w, i)
BY ClaimWorks, CheckWorks, EndEarlyWorks, AnsweredWorks, RefusedWorks, SucceedWorks, FailWorks,
   ReleaseWorks
DEF Processes

-----------------------------------------------------------------------------
(* Everybody else, as far as the items are concerned                       *)

ItemsSane ==
  /\ \A i \in Items \ disturbed : ItemSane(i)
  /\ GhostSane /\ ReconcilerSane

LEMMA ProcessesItems ==
  ASSUME Inv, NEW w \in Workers, NEW i \in Items, Processes(w, i)
  PROVE  TypeOK' /\ ItemsSane'
<1>1. Works(w, i)
  BY ProcessesWorks
<1>2. ASSUME NEW j \in Items, j \notin disturbed' PROVE ItemSane(j)'
  BY <1>1, <1>2, SameStaysSane, MovedStaysSane DEF Inv, Works
<1>3. ReconcilerSane'
  BY <1>1 DEF Works, Inv, ReconcilerSane
<1> QED
  BY <1>1, <1>2, <1>3 DEF Works, ItemsSane

(* A mishap takes items out of the count of the undisturbed ones.          *)
LEMMA DisturbsGhosts ==
  ASSUME TypeOK, GhostSane, NEW items \in SUBSET Items, Disturbs(items)
  PROVE  /\ executions' \in [Items -> Nat] /\ answered' \subseteq Items
         /\ disturbed' = disturbed \cup items /\ disturbed' \subseteq Items
         /\ mishaps' \in Nat /\ GhostSane'
         /\ \A i \in Items \ items :
              executions'[i] = executions[i] /\ (i \in answered' <=> i \in answered)
BY DEF Disturbs, TypeOK, GhostSane

LEMMA DieItems ==
  ASSUME Inv, NEW w \in Workers, Die(w)
  PROVE  TypeOK' /\ ItemsSane'
<1>0. TypeOK /\ GhostSane /\ ReconcilerSane /\ Hand(w) \in SUBSET Items
  BY DEF Inv, Hand
<1>1. /\ executions' \in [Items -> Nat] /\ answered' \subseteq Items
      /\ disturbed' = disturbed \cup Hand(w) /\ disturbed' \subseteq Items
      /\ mishaps' \in Nat /\ GhostSane'
      /\ \A i \in Items \ Hand(w) :
           executions'[i] = executions[i] /\ (i \in answered' <=> i \in answered)
  BY <1>0, DisturbsGhosts DEF Die
<1>2. UNCHANGED <<item, lease, overdue, job, reserved, closer, reconciler>>
  BY DEF Die, NoCloser, NoReconciler
<1>3. /\ run' \in [Workers -> [Items -> Run]]
      /\ \A i \in Items : run'[w][i] = NoRun
      /\ \A v \in Workers, i \in Items : v # w => run'[v][i] = run[v][i]
  BY <1>0 DEF Die, TypeOK, Run, NoRun
<1>4. TypeOK'
  BY <1>0, <1>1, <1>2, <1>3 DEF TypeOK
<1>5. ASSUME NEW i \in Items, i \notin disturbed' PROVE ItemSane(i)'
  <2>1. ItemSane(i) /\ i \notin Hand(w)
    BY <1>1, <1>5 DEF Inv
  <2>2. ~InHand(w, i) /\ ~InHand(w, i)'
    BY <1>3, <1>5, <2>1 DEF Hand, InHand, RunAt, NoRun
  <2>3. \A v \in Workers : /\ InHand(v, i)' <=> InHand(v, i)
                           /\ InHand(v, i) => run'[v][i] = run[v][i]
    BY <1>3, <2>2 DEF InHand
  <2>4. \A v \in Workers : InHand(v, i)' => HandSane(v, i)'
    BY <1>1, <1>2, <2>1, <2>3 DEF ItemSane, HandSane, HasEnded
  <2>5. \A v \in Workers : RunAt(v, i, "succeeding") => RunAt(v, i, "succeeding")'
    BY <2>3 DEF RunAt, InHand
  <2> QED
    BY <1>1, <1>2, <2>1, <2>3, <2>4, <2>5 DEF ItemSane, HasEnded
<1>6. ReconcilerSane'
  BY <1>0, <1>1, <1>2 DEF ReconcilerSane
<1> QED
  BY <1>1, <1>4, <1>5, <1>6 DEF ItemsSane

(* Cancelling an item, whoever has it in hand.                             *)
LEMMA SweepItems ==
  ASSUME Inv, NEW c \in Closers, NEW i \in Items, Sweep(c, i), closer' \in [Closers -> Closer]
  PROVE  TypeOK' /\ ItemsSane'
<1>0. TypeOK /\ GhostSane /\ ReconcilerSane /\ item[i] \in Item
  BY DEF Inv, TypeOK
<1>1. UNCHANGED <<job, lease, reserved, overdue, run, reconciler, executions, answered,
                  disturbed, mishaps>>
  BY DEF Sweep, NoReconciler, NoGhosts
<1>2. CASE Allowed(i, "cancelled")
  <2>1. "cancelled" \in ItemStatus /\ item[i].attempts \in Nat
    BY <1>0 DEF ItemStatus, ItemEnded, Item
  <2>2. /\ item' \in [Items -> Item]
        /\ item'[i].status = "cancelled" /\ item'[i].attempts = item[i].attempts
        /\ \A j \in Items \ {i} : item'[j] = item[j]
    BY <1>0, <1>2, <2>1, WritesItem DEF Sweep
  <2>3. TypeOK' /\ GhostSane' /\ ReconcilerSane'
    BY <1>0, <1>1, <2>2 DEF TypeOK, GhostSane, ReconcilerSane
  <2>4. ASSUME NEW j \in Items, j \notin disturbed PROVE ItemSane(j)'
    <3>1. ItemSane(j)
      BY <2>4 DEF Inv
    <3>2. CASE j # i
      <4>1. Same(j)
        BY <1>1, <2>2, <3>2 DEF Same
      <4> QED
        BY <3>1, <4>1, SameStaysSane
    <3>3. CASE j = i
      BY <1>1, <2>2, <3>1, <3>3 DEF ItemSane, HandSane, InHand, HasEnded, ItemEnded, RunAt
    <3> QED
      BY <3>2, <3>3
  <2> QED
    BY <1>1, <2>3, <2>4 DEF ItemsSane
<1>3. CASE ~Allowed(i, "cancelled")
  <2>1. item' = item
    BY <1>3 DEF Sweep
  <2>2. TypeOK' /\ GhostSane' /\ ReconcilerSane'
    BY <1>0, <1>1, <2>1 DEF TypeOK, GhostSane, ReconcilerSane
  <2>3. \A j \in Items : Same(j)
    BY <1>1, <2>1 DEF Same
  <2> QED
    BY <1>1, <2>2, <2>3, SameStaysSane DEF ItemsSane, Inv
<1> QED
  BY <1>2, <1>3

(* The reconciler takes no lease and no item away from a worker that was   *)
(* not disturbed: the leases it finds there belong to items that ended.    *)
LEMMA ReconcilesItems ==
  ASSUME Inv, Reconciles, EndedStays
  PROVE  TypeOK' /\ ItemsSane'
<1>0. TypeOK /\ GhostSane /\ ReconcilerSane /\ reconciler \in Reconciler
  BY DEF Inv, TypeOK
<1>a. UNCHANGED <<job, reserved, overdue, run, closer, executions, answered, disturbed, mishaps>>
  BY DEF Reconciles, FindLeases, LookAt, Requeue, FreeLease, NoGhosts
<1>b. GhostSane'
  BY <1>0, <1>a DEF GhostSane
<1>c. ASSUME NEW i \in Items, i \notin disturbed, item'[i] = item[i],
             lease'[i] = lease[i] \/ HasEnded(i),
             reconciler'.found[i] # Nobody => HasEnded(i)
      PROVE  ItemSane(i)'
  <2>1. ItemSane(i)
    BY <1>c DEF Inv
  <2> QED
    BY <1>a, <1>c, <2>1 DEF ItemSane, HandSane, InHand, HasEnded, RunAt
<1>1. CASE FindLeases
  <2>1. UNCHANGED <<item, lease>>
    BY <1>1 DEF FindLeases
  <2>2. /\ reconciler' \in Reconciler /\ reconciler'.at = "looking"
        /\ \A i \in Items : reconciler'.found[i] # Nobody =>
             lease[i].owner # Nobody /\ ~lease[i].live
    BY <1>0, <1>1 DEF FindLeases, Calm, Reconciler, TypeOK, Lease, JobStatus
  <2>3. ASSUME NEW i \in Items, i \notin disturbed PROVE ItemSane(i)'
    <3>1. ASSUME lease[i].owner # Nobody, ~lease[i].live PROVE HasEnded(i)
      <4>1. ItemSane(i)
        BY <2>3 DEF Inv
      <4>2. ASSUME NEW w \in Workers, InHand(w, i) PROVE HasEnded(i)
        <5>1. HandSane(w, i)
          BY <4>1, <4>2, HandIsAlone
        <5>2. lease[i] = [owner |-> w, live |-> TRUE] => lease[i].live
          OBVIOUS
        <5> QED
          BY <3>1, <5>1, <5>2 DEF HandSane
      <4> QED
        BY <3>1, <4>1, <4>2 DEF ItemSane
    <3> QED
      BY <1>c, <2>1, <2>2, <2>3, <3>1
  <2>4. TypeOK' /\ ReconcilerSane'
    BY <1>0, <1>a, <2>1, <2>2 DEF TypeOK, ReconcilerSane
  <2> QED
    BY <1>a, <1>b, <2>3, <2>4 DEF ItemsSane
<1>2. ASSUME NEW i \in Items, LookAt(i) PROVE TypeOK' /\ ItemsSane'
  <2>1. UNCHANGED <<item, lease>> /\ reconciler.found[i] # Nobody
    BY <1>2 DEF LookAt
  <2>2. /\ reconciler' \in Reconciler /\ reconciler'.found = reconciler.found
        /\ reconciler'.item = i /\ reconciler'.at \in {"requeueing", "releasing"}
        /\ reconciler'.at = "requeueing" => item[i].status = "running"
    BY <1>0, <1>2 DEF LookAt, Reconciler, TypeOK, Item
  <2>3. ASSUME NEW j \in Items, j \notin disturbed PROVE ItemSane(j)'
    <3>1. reconciler.found[j] # Nobody => HasEnded(j)
      BY <2>3 DEF Inv, ItemSane
    <3> QED
      BY <1>c, <2>1, <2>2, <2>3, <3>1
  <2>4. reconciler'.at = "requeueing" => i \in disturbed
    BY <2>1, <2>2 DEF Inv, ItemSane, HasEnded, ItemEnded
  <2>5. TypeOK' /\ ReconcilerSane'
    BY <1>0, <1>a, <2>1, <2>2, <2>4 DEF TypeOK, ReconcilerSane
  <2> QED
    BY <1>a, <1>b, <2>3, <2>5 DEF ItemsSane
<1>3. CASE Requeue
  <2> DEFINE k == reconciler.item
  <2>1. k \in Items /\ k \in disturbed /\ reconciler.found[k] # Nobody /\ lease' = lease
    BY <1>0, <1>3 DEF Requeue, ReconcilerSane
  <2>2. /\ item' \in [Items -> Item] /\ \A j \in Items \ {k} : item'[j] = item[j]
    <3>1. CASE Allowed(k, "queued")
      <4>1. Writes(k, "queued", reconciler.attempt) /\ reconciler.attempt \in Nat
        BY <1>0, <1>3, <3>1 DEF Requeue, Reconciler
      <4> QED
        BY <1>0, <2>1, <4>1, WritesItem DEF ItemStatus
    <3>2. CASE ~Allowed(k, "queued")
      BY <1>0, <1>3, <3>2 DEF Requeue, TypeOK
    <3> QED
      BY <3>1, <3>2
  <2>3. \/ reconciler' = [reconciler EXCEPT !.at = "releasing", !.attempt = 0]
        \/ reconciler' = Calm
    BY <1>3 DEF Requeue
  <2>4. /\ reconciler' \in Reconciler /\ reconciler'.at \in {"releasing", "idle"}
        /\ reconciler'.at = "releasing" => reconciler'.item = k
        /\ reconciler'.at = "releasing" => reconciler'.found = reconciler.found
        /\ \A j \in Items : reconciler'.found[j] # Nobody => reconciler.found[j] # Nobody
    BY <1>0, <2>3, CalmIsReconciler DEF Reconciler, Calm
  <2>5. ASSUME NEW j \in Items, j \notin disturbed PROVE ItemSane(j)'
    <3>1. reconciler'.found[j] # Nobody => HasEnded(j)
      BY <2>4, <2>5 DEF Inv, ItemSane
    <3> QED
      BY <1>c, <2>1, <2>2, <2>5, <3>1
  <2>6. TypeOK' /\ ReconcilerSane'
    BY <1>0, <1>a, <2>1, <2>2, <2>4 DEF TypeOK, ReconcilerSane
  <2> QED
    BY <1>a, <1>b, <2>5, <2>6 DEF ItemsSane
<1>4. CASE FreeLease
  <2> DEFINE k == reconciler.item
             left == [reconciler.found EXCEPT ![k] = Nobody]
  <2>1. k \in Items /\ reconciler.found[k] # Nobody /\ item' = item
    BY <1>0, <1>4 DEF FreeLease, ReconcilerSane
  <2>2. lease' \in [Items -> Lease] /\ \A j \in Items \ {k} : lease'[j] = lease[j]
    BY <1>0, <1>4, <2>1 DEF FreeLease, Released, NoLease, Lease, TypeOK
  <2>3. left \in [Items -> Workers \cup {Nobody}]
        /\ \A j \in Items : left[j] # Nobody => reconciler.found[j] # Nobody
    BY <1>0, <2>1 DEF Reconciler
  <2>4. /\ reconciler' \in Reconciler /\ reconciler'.at \in {"idle", "looking"}
        /\ reconciler'.found = left
    BY <1>4, <2>3 DEF FreeLease, Calm, Reconciler, JobStatus
  <2>5. ASSUME NEW j \in Items, j \notin disturbed PROVE ItemSane(j)'
    <3>1. reconciler.found[j] # Nobody => HasEnded(j)
      BY <2>5 DEF Inv, ItemSane
    <3> QED
      BY <1>c, <2>1, <2>2, <2>3, <2>4, <2>5, <3>1
  <2>6. TypeOK' /\ ReconcilerSane'
    BY <1>0, <1>a, <2>1, <2>2, <2>4 DEF TypeOK, ReconcilerSane
  <2> QED
    BY <1>a, <1>b, <2>5, <2>6 DEF ItemsSane
<1> QED
  BY <1>1, <1>2, <1>3, <1>4 DEF Reconciles

LEMMA TimeItems ==
  ASSUME Inv, (\E i \in Items : LeaseRunsOut(i) \/ FallsDue(i)) \/ DeadlinePasses
  PROVE  TypeOK' /\ ItemsSane'
<1>0. TypeOK /\ GhostSane /\ ReconcilerSane
  BY DEF Inv
<1>a. ASSUME UNCHANGED <<run, reconciler, executions, answered, disturbed, job, reserved, closer,
                         mishaps, lease, overdue>>,
             item' \in [Items -> Item],
             \A i \in Items : /\ item'[i].status = item[i].status
                              /\ item'[i].attempts = item[i].attempts
      PROVE  TypeOK' /\ ItemsSane'
  <2>1. \A i \in Items : Same(i)
    BY <1>a DEF Same
  <2>2. \A i \in Items \ disturbed : ItemSane(i)'
    BY <2>1, SameStaysSane DEF Inv
  <2> QED
    BY <1>0, <1>a, <2>2 DEF TypeOK, ItemsSane, GhostSane, ReconcilerSane
<1>1. ASSUME NEW i \in Items, LeaseRunsOut(i) PROVE TypeOK' /\ ItemsSane'
  <2>0. UNCHANGED <<item, overdue, run, job, reserved, closer, reconciler>>
        /\ lease' = [lease EXCEPT ![i].live = FALSE]
    BY <1>1 DEF LeaseRunsOut, NoCloser, NoReconciler
  <2>1. /\ lease' \in [Items -> Lease] /\ lease'[i].owner = lease[i].owner
        /\ \A j \in Items \ {i} : lease'[j] = lease[j]
    BY <1>0, <2>0 DEF TypeOK, Lease
  <2>2. CASE \E w \in Workers : i \in Hand(w)
    <3>1. /\ executions' \in [Items -> Nat] /\ answered' \subseteq Items
          /\ disturbed' = disturbed \cup {i} /\ disturbed' \subseteq Items
          /\ mishaps' \in Nat /\ GhostSane'
          /\ \A j \in Items \ {i} :
               executions'[j] = executions[j] /\ (j \in answered' <=> j \in answered)
      BY <1>0, <1>1, <2>2, DisturbsGhosts DEF LeaseRunsOut
    <3>2. \A j \in Items \ {i} : Same(j)
      BY <2>0, <2>1, <3>1 DEF Same
    <3>3. \A j \in Items \ disturbed' : ItemSane(j)'
      BY <3>1, <3>2, SameStaysSane DEF Inv
    <3> QED
      BY <1>0, <2>0, <2>1, <3>1, <3>3 DEF TypeOK, ItemsSane, ReconcilerSane
  <2>3. CASE ~\E w \in Workers : i \in Hand(w)
    <3>0. NoGhosts /\ \A w \in Workers : ~InHand(w, i)
      BY <1>1, <2>3 DEF LeaseRunsOut, Hand, InHand, RunAt
    <3>1. \A j \in Items \ {i} : Same(j)
      BY <2>0, <2>1, <3>0 DEF Same, NoGhosts
    <3>2. ASSUME ItemSane(i) PROVE ItemSane(i)'
      BY <2>0, <2>1, <3>0, <3>2 DEF ItemSane, InHand, HasEnded, RunAt, NoGhosts
    <3>3. \A j \in Items \ disturbed' : ItemSane(j)'
      BY <3>0, <3>1, <3>2, SameStaysSane DEF Inv, NoGhosts
    <3> QED
      BY <1>0, <2>0, <2>1, <3>0, <3>3
      DEF TypeOK, ItemsSane, GhostSane, ReconcilerSane, NoGhosts
  <2> QED
    BY <2>2, <2>3
<1>2. ASSUME NEW i \in Items, FallsDue(i) PROVE TypeOK' /\ ItemsSane'
  <2>1. UNCHANGED <<run, reconciler, executions, answered, disturbed, job, reserved, closer,
                    mishaps, lease, overdue>>
    BY <1>2 DEF FallsDue, NoCloser, NoReconciler, NoGhosts
  <2>2. item' \in [Items -> Item]
    BY ZenonT(40), <1>0, <1>2 DEF FallsDue, TypeOK, Item
  <2>3. \A j \in Items : item'[j].status = item[j].status /\ item'[j].attempts = item[j].attempts
    BY <1>0, <1>2 DEF FallsDue, TypeOK, Item
  <2> QED
    BY <1>a, <2>1, <2>2, <2>3
<1>3. CASE DeadlinePasses
  <2>1. /\ executions' \in [Items -> Nat] /\ answered' \subseteq Items
        /\ disturbed' = disturbed
        /\ mishaps' \in Nat /\ GhostSane'
        /\ \A i \in Items : executions'[i] = executions[i] /\ (i \in answered' <=> i \in answered)
    BY <1>0, <1>3, DisturbsGhosts DEF DeadlinePasses
  <2>2. UNCHANGED <<item, lease, run, job, reserved, closer, reconciler>> /\ overdue' = TRUE
    BY <1>3 DEF DeadlinePasses, NoCloser, NoReconciler
  <2>3. \A i \in Items : Same(i)
    BY <2>1, <2>2 DEF Same
  <2>4. \A i \in Items \ disturbed' : ItemSane(i)'
    BY <2>1, <2>3, SameStaysSane DEF Inv
  <2> QED
    BY <1>0, <2>1, <2>2, <2>4 DEF TypeOK, ItemsSane, ReconcilerSane
<1> QED
  BY <1>1, <1>2, <1>3

(* The scheduler and the calls of cancelBatch, but for Sweep.              *)
LEMMA QuietItems ==
  ASSUME Inv, job' \in JobStatus, reserved' \in BOOLEAN, closer' \in [Closers -> Closer],
         UNCHANGED <<item, lease, overdue, run, reconciler, executions, answered, disturbed,
                     mishaps>>
  PROVE  TypeOK' /\ ItemsSane'
<1>1. \A i \in Items : Same(i)
  BY DEF Same
<1>2. \A i \in Items \ disturbed : ItemSane(i)'
  BY <1>1, SameStaysSane DEF Inv
<1> QED
  BY <1>2 DEF Inv, TypeOK, ItemsSane, GhostSane, ReconcilerSane

-----------------------------------------------------------------------------
LEMMA StepInv ==
  ASSUME Inv, [Next]_vars
  PROVE  Inv'
<1>0. TypeOK
  BY DEF Inv
<1>1. CASE Next
  <2>0. EndedStays /\ (\A c \in Closers : CloserSane(c)') /\ JobSane'
    BY <1>0, <1>1, NextEndedStays, NextClosers
  <2>1. ASSUME NEW w \in Workers, NEW i \in Items, Processes(w, i) PROVE TypeOK' /\ ItemsSane'
    BY <2>1, ProcessesItems
  <2>2. ASSUME NEW w \in Workers, Die(w) PROVE TypeOK' /\ ItemsSane'
    BY <2>2, DieItems
  <2>3. ASSUME Activate \/ Expire PROVE TypeOK' /\ ItemsSane'
    BY <1>0, <2>3, QuietItems
    DEF Activate, Expire, NoReconciler, NoGhosts, TypeOK, JobStatus, Ended
  <2>4. ASSUME NEW c \in Closers, Scan(c) \/ Cancel(c) \/ Closes(c) PROVE TypeOK' /\ ItemsSane'
    <3>1. job' \in JobStatus /\ reserved' \in BOOLEAN /\ closer' \in [Closers -> Closer]
      <4>1. Left(c)
        BY <2>0, <2>4, CloserSteps
      <4> QED
        BY <1>0, <4>1 DEF Left, TypeOK
    <3>2. CASE \E i \in Items : Sweep(c, i)
      BY <3>1, <3>2, SweepItems
    <3>3. CASE ~\E i \in Items : Sweep(c, i)
      <4>1. UNCHANGED <<item, lease, overdue, run, reconciler, executions, answered, disturbed,
                        mishaps>>
        BY <2>4, <3>3
        DEF Scan, Cancel, Closes, ScanItems, ReadJob, ListItems, Mark, ReleaseReservation, Close,
            NoReconciler, NoGhosts
      <4> QED
        BY <3>1, <4>1, QuietItems
    <3> QED
      BY <3>2, <3>3
  <2>5. ASSUME Reconciles PROVE TypeOK' /\ ItemsSane'
    BY <2>0, <2>5, ReconcilesItems
  <2>6. ASSUME (\E i \in Items : LeaseRunsOut(i) \/ FallsDue(i)) \/ DeadlinePasses
        PROVE  TypeOK' /\ ItemsSane'
    BY <2>6, TimeItems
  <2> QED
    BY <1>1, <2>0, <2>1, <2>2, <2>3, <2>4, <2>5, <2>6 DEF Next, Inv, ItemsSane
<1>2. CASE UNCHANGED vars
  <2>1. TypeOK' /\ ItemsSane'
    BY <1>0, <1>2, QuietItems DEF vars, TypeOK
  <2>2. EndedStays
    BY <1>2 DEF vars, EndedStays
  <2>3. (\A c \in Closers : CloserSane(c)') /\ JobSane'
    BY <1>2, <2>2, CloserStays, JobStays DEF vars, Inv
  <2> QED
    BY <2>1, <2>3 DEF Inv, ItemsSane
<1> QED
  BY <1>1, <1>2

LEMMA Invariance == Spec => []Inv
<1> QED
  BY InitInv, StepInv, PTL DEF Spec

-----------------------------------------------------------------------------
(* Worker, scheduler, cancellation, finalizer, reconciler and time keep    *)
(* job, items and leases well typed.                                       *)
THEOREM TypeCorrect == Spec => []TypeOK
<1>1. Inv => TypeOK
  BY DEF Inv
<1> QED
  BY <1>1, Invariance, PTL

(* What was answered and charged is not thrown away: the item succeeds,    *)
(* or is cancelled with its job, unless its lease ran out under its worker *)
(* or the worker died.                                                     *)
THEOREM AnswersAreKept == Spec => []PaidIsKept
<1>1. Inv => PaidIsKept
  <2> SUFFICES ASSUME Inv, NEW i \in answered
               PROVE  \/ item[i].status \in {"succeeded", "cancelled"}
                      \/ \E w \in Workers : RunAt(w, i, "succeeding")
    BY DEF PaidIsKept
  <2>1. i \in Items /\ i \notin disturbed
    BY DEF Inv, TypeOK, GhostSane
  <2> QED
    BY <2>1 DEF Inv, ItemSane
<1> QED
  BY <1>1, Invariance, PTL

(* No number of workers executes an item more often than maxAttempts, as   *)
(* long as it is not disturbed.                                            *)
THEOREM AttemptsLimitExecutions == Spec => []ExecutionsBounded
<1>1. Inv => ExecutionsBounded
  <2> SUFFICES ASSUME Inv, NEW i \in Items PROVE executions[i] <= MaxAttempts
    BY DEF ExecutionsBounded
  <2>1. CASE i \in disturbed
    BY <2>1 DEF Inv, GhostSane
  <2>2. CASE i \notin disturbed
    <3>1. executions[i] <= item[i].attempts /\ item[i].attempts <= MaxAttempts
      BY <2>2 DEF Inv, ItemSane
    <3>2. executions[i] \in Nat /\ item[i].attempts \in Nat
      BY DEF Inv, TypeOK, Item
    <3> QED
      BY <3>1, <3>2
  <2> QED
    BY <2>1, <2>2
<1> QED
  BY <1>1, Invariance, PTL

(* However many finalizers end the job at once, no item is left behind, the *)
(* reservation is released and the status tells what became of the items.  *)
THEOREM WholeAtTheEnd == Spec => []EndedIsWhole
<1>1. Inv => EndedIsWhole
  BY DEF Inv, JobSane, Fits, HasEnded, EndedIsWhole
<1> QED
  BY <1>1, Invariance, PTL

(* Without the reconciler's rewriting of the job no step leaves a terminal *)
(* status.                                                                 *)
THEOREM TerminalIsFinal == Spec => EndIsFinal
<1>1. Inv /\ [Next]_vars => [(job \in Ended) => job' = job]_vars
  <2> SUFFICES ASSUME Inv, Next, job \in Ended PROVE job' = job
    BY DEF vars
  <2>0. \A status : JobMayBecome(job, status) => status = job
    BY DEF JobMayBecome, Ended
  <2>1. \A w \in Workers, i \in Items : Processes(w, i) => job' = job
    BY DEF Processes, Claim, Check, EndEarly, Answered, Refused, Succeed, Fail, Release, NoCloser
  <2>2. Activate \/ Expire => FALSE
    BY DEF Activate, Expire, Ended
  <2>3. ASSUME NEW c \in Closers, Scan(c) \/ Cancel(c) \/ Closes(c) PROVE job' = job
    BY <2>0, <2>3
    DEF Scan, Cancel, Closes, ScanItems, Sweep, ReadJob, ListItems, Mark, ReleaseReservation, Close
  <2>4. Reconciles => job' = job
    BY DEF Reconciles, FindLeases, LookAt, Requeue, FreeLease
  <2> QED
    BY <2>1, <2>2, <2>3, <2>4
    DEF Next, Die, LeaseRunsOut, FallsDue, DeadlinePasses, NoCloser
<1> QED
  BY <1>1, Invariance, PTL DEF Spec, EndIsFinal

=============================================================================
