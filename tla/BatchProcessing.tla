---------------------------- MODULE BatchProcessing ----------------------------
(***************************************************************************)
(* One batch job: BatchWorkers that claim its items under a lease and run  *)
(* them through the gateway, the BatchScheduler and cancelBatch, both of   *)
(* which end in BatchFinalizer.finalizeBatch, and the BatchReconciler.     *)
(*                                                                         *)
(* They share the BatchRepository and nothing else; every call of it is    *)
(* awaited, so what one of them has read may be old when it writes.  The   *)
(* repository checks the transition of a status against the one it has     *)
(* stored and throws if it is not allowed; updateBatchJob, which only the  *)
(* reconciler uses, does not check.  Leases keep workers from claiming,    *)
(* not from writing.                                                       *)
(*                                                                         *)
(* The counters of the job are left out: they steer nothing but whether    *)
(* the reconciler rewrites the job, and since pendingItems is never        *)
(* counted down it always may.                                             *)
(***************************************************************************)
EXTENDS Integers, FiniteSets

CONSTANTS
  Items,
  Workers,
  Schedulers, Cancels,  \* scheduler loops; calls of cancelBatch
  Concurrency,          \* items a worker has in hand at once, 10 in the code
  MaxAttempts,          \* 3 in the code
  Nobody, Nothing,      \* no worker, no item
  MaxMishaps            \* bound: leases that run out under a worker, deaths, and
                        \* the deadline passing

Closers == Schedulers \cup Cancels

ASSUME BatchAssumption ==
  /\ Concurrency \in Nat \ {0} /\ MaxAttempts \in Nat \ {0} /\ MaxMishaps \in Nat
  /\ Nobody \notin Workers /\ Nothing \notin Items
  /\ Schedulers \cap Cancels = {}

VARIABLES
  job,          \* status of the job
  item,         \* status, attemptCount and retryAfterAt of each item
  lease,        \* its lease
  reserved,     \* is the reservation of the job still reserved?
  overdue,      \* has executionDeadlineAt passed?
  run,          \* processItem of each worker for each item
  closer,       \* scheduler loops and cancelBatch calls
  reconciler,
  disturbed,    \* items whose lease ran out under a worker, or whose worker died
  executions,   \* executions of each item by the gateway, until it is disturbed
  answered,     \* undisturbed items with an execution answered, and charged
  mishaps

vars == <<job, item, lease, reserved, overdue, run, closer, reconciler,
          executions, answered, disturbed, mishaps>>

-----------------------------------------------------------------------------
(* Types *)

Ended == {"completed", "partially_completed", "failed", "cancelled", "expired"}
JobStatus == {"queued", "running", "cancelling", "finalizing"} \cup Ended

ItemEnded == {"succeeded", "failed", "cancelled"}
ItemStatus == {"queued", "running", "retry_wait"} \cup ItemEnded

Item == [status: ItemStatus, attempts: Nat, due: BOOLEAN]

(* The lease of an item: gone, running, or run out.                        *)
Lease == [owner: Workers \cup {Nobody}, live: BOOLEAN]

(* attempt: attemptCount of the item as it was claimed.                    *)
Run == [at: {"none", "checking", "cancelling", "expiring", "executing",
             "succeeding", "failing", "releasing"},
        attempt: Nat, retryable: BOOLEAN]

(* was: the status of the job as read; verdict: the final status computed  *)
(* from it and the items as read; todo: items still to be cancelled.       *)
Closer == [at: {"idle", "scanning", "sweeping", "reading", "listing", "marking",
                "releasing", "closing", "returned"},
           was: JobStatus, verdict: JobStatus, todo: SUBSET Items]

(* found: the owners of the leases found to have run out, and not yet      *)
(* dealt with; item, attempt: the item being requeued, as read.            *)
Reconciler == [at: {"idle", "looking", "requeueing", "releasing", "rewriting"},
               found: [Items -> Workers \cup {Nobody}],
               item: Items \cup {Nothing}, attempt: Nat, was: JobStatus]

TypeOK ==
  /\ job \in JobStatus
  /\ item \in [Items -> Item]
  /\ lease \in [Items -> Lease]
  /\ reserved \in BOOLEAN
  /\ overdue \in BOOLEAN
  /\ run \in [Workers -> [Items -> Run]]
  /\ closer \in [Closers -> Closer]
  /\ reconciler \in Reconciler
  /\ executions \in [Items -> Nat]
  /\ answered \subseteq Items
  /\ disturbed \subseteq Items
  /\ mishaps \in Nat

-----------------------------------------------------------------------------
(* Helpers *)

JobMayBecome(from, to) ==
  \/ from = to
  \/ CASE from = "queued"     -> to \in {"running", "cancelling", "expired", "failed"}
       [] from = "running"    -> to \in {"finalizing", "cancelling", "expired", "failed"}
       [] from = "cancelling" -> to \in {"cancelled", "finalizing"}
       [] from = "finalizing" -> to \in Ended \ {"expired"}
       [] OTHER -> FALSE

ItemMayBecome(from, to) ==
  \/ from = to
  \/ CASE from = "queued"     -> to \in {"running", "cancelled"}
       [] from = "running"    -> to \in ItemEnded \cup {"retry_wait", "queued"}
       [] from = "retry_wait" -> to \in {"queued", "failed", "cancelled"}
       [] OTHER -> FALSE

(* updateBatchItem: the whole item as the caller has it; when the          *)
(* transition is not allowed it throws and nothing is written.             *)
Allowed(i, status) == ItemMayBecome(item[i].status, status)
Writes(i, status, attempt) ==
  item' = [item EXCEPT ![i] =
            [status |-> status, attempts |-> attempt, due |-> status # "retry_wait"]]

(* attemptCount is only ever compared with MaxAttempts, and it may grow    *)
(* without bound: it stops here one beyond.                                *)
Counted(attempt) == IF attempt > MaxAttempts THEN MaxAttempts + 1 ELSE attempt

NoLease == [owner |-> Nobody, live |-> FALSE]
Released(i, owner) ==
  lease' = IF lease[i].owner = owner THEN [lease EXCEPT ![i] = NoLease] ELSE lease

NoRun == [at |-> "none", attempt |-> 0, retryable |-> FALSE]
RunAt(w, i, point) == run[w][i].at = point
RunGoes(w, i, point) == run' = [run EXCEPT ![w][i].at = point]
Leaving(w, i) == run' = [run EXCEPT ![w][i] = [NoRun EXCEPT !.at = "releasing"]]
Hand(w) == {i \in Items : ~RunAt(w, i, "none")}

Resting == [at |-> "idle", was |-> "queued", verdict |-> "queued", todo |-> {}]
CloserAt(c, point) == closer[c].at = point
CloserGoes(c, point) == closer' = [closer EXCEPT ![c].at = point]

(* A scheduler scans again; a call returns or throws.                      *)
Leaves(c) ==
  closer' = [closer EXCEPT ![c] =
              IF c \in Schedulers THEN Resting ELSE [Resting EXCEPT !.at = "returned"]]

(* finalizeBatch follows when nothing is left to cancel.                   *)
SweepOn(c, todo) ==
  closer' = [closer EXCEPT ![c] =
              [Resting EXCEPT !.at = IF todo = {} THEN "reading" ELSE "sweeping",
                              !.todo = todo]]

Calm == [at |-> "idle", found |-> [i \in Items |-> Nobody], item |-> Nothing,
         attempt |-> 0, was |-> "queued"]

AllEnded(statuses) == \A i \in Items : statuses[i] \in ItemEnded
Some(statuses, status) == \E i \in Items : statuses[i] = status

(* finalStatus, from the job and the items as they were read.              *)
Verdict(was, seen) ==
  IF \/ was = "cancelling"
     \/ Some(seen, "cancelled") /\ ~Some(seen, "succeeded") /\ ~Some(seen, "failed")
  THEN "cancelled"
  ELSE IF ~Some(seen, "failed") THEN "completed"
  ELSE IF Some(seen, "succeeded") THEN "partially_completed" ELSE "failed"

NoCloser == UNCHANGED <<job, reserved, closer>>
NoReconciler == UNCHANGED reconciler
Executed(i) ==
  executions' = IF i \in disturbed THEN executions ELSE [executions EXCEPT ![i] = @ + 1]
Disturbs(items) ==
  /\ mishaps < MaxMishaps
  /\ mishaps' = mishaps + 1
  /\ disturbed' = disturbed \cup items
  /\ executions' = [i \in Items |-> IF i \in items THEN 0 ELSE executions[i]]
  /\ answered' = answered \ items
NoGhosts == UNCHANGED <<executions, answered, disturbed, mishaps>>

-----------------------------------------------------------------------------
(* createBatch has stored the job, its items and the reservation.          *)
Init ==
  /\ job = "queued"
  /\ item = [i \in Items |-> [status |-> "queued", attempts |-> 0, due |-> TRUE]]
  /\ lease = [i \in Items |-> NoLease]
  /\ reserved = TRUE /\ overdue = FALSE
  /\ run = [w \in Workers |-> [i \in Items |-> NoRun]]
  /\ closer = [c \in Closers |-> Resting]
  /\ reconciler = Calm
  /\ executions = [i \in Items |-> 0]
  /\ answered = {} /\ disturbed = {} /\ mishaps = 0

-----------------------------------------------------------------------------
(* BatchWorker.  What one step claims it processes concurrently, so the    *)
(* items are claimed one by one here.                                      *)

(* claimRunnableBatchItemsFair, for one item.                              *)
Claim(w, i) ==
  LET attempt == Counted(item[i].attempts + 1) IN
  /\ RunAt(w, i, "none") /\ Cardinality(Hand(w)) < Concurrency
  /\ job \in {"queued", "running"}
  /\ item[i].status = "queued" \/ (item[i].status = "retry_wait" /\ item[i].due)
  /\ ~lease[i].live \/ lease[i].owner = w
  /\ lease' = [lease EXCEPT ![i] = [owner |-> w, live |-> TRUE]]
  /\ Writes(i, "running", attempt)
  /\ run' = [run EXCEPT ![w][i] = [at |-> "checking", attempt |-> attempt,
                                   retryable |-> FALSE]]
  /\ UNCHANGED overdue /\ NoCloser /\ NoReconciler /\ NoGhosts

(* processItem reads the job: cancelled, past its deadline, or to be run.  *)
Check(w, i) ==
  /\ RunAt(w, i, "checking")
  /\ RunGoes(w, i, IF job \in {"cancelling", "cancelled", "expired"} THEN "cancelling"
                   ELSE IF overdue THEN "expiring" ELSE "executing")
  /\ UNCHANGED <<item, lease, overdue>> /\ NoCloser /\ NoReconciler /\ NoGhosts

(* The early ends.  What they throw leaves processItem before the try, and *)
(* the lease stays.                                                        *)
EndEarly(w, i) ==
  LET status == IF RunAt(w, i, "cancelling") THEN "cancelled" ELSE "failed" IN
  /\ run[w][i].at \in {"cancelling", "expiring"}
  /\ IF Allowed(i, status)
     THEN Writes(i, status, run[w][i].attempt) /\ Leaving(w, i)
     ELSE UNCHANGED item /\ run' = [run EXCEPT ![w][i] = NoRun]
  /\ UNCHANGED <<lease, overdue>> /\ NoCloser /\ NoReconciler /\ NoGhosts

(* executeChatCompletion returns or throws, and the attempt is recorded.   *)
Answered(w, i) ==
  /\ RunAt(w, i, "executing")
  /\ Executed(i)
  /\ answered' = answered \cup ({i} \ disturbed)
  /\ RunGoes(w, i, "succeeding")
  /\ UNCHANGED <<item, lease, overdue, disturbed, mishaps>> /\ NoCloser /\ NoReconciler

(* Mutant of Refused: one attempt too many.                                *)
RefusedOnceMore(w, i, transient) ==
  /\ RunAt(w, i, "executing")
  /\ Executed(i)
  /\ run' = [run EXCEPT ![w][i].at = "failing",
                        ![w][i].retryable = transient /\ run[w][i].attempt <= MaxAttempts]
  /\ UNCHANGED <<item, lease, overdue, answered, disturbed, mishaps>>
  /\ NoCloser /\ NoReconciler

Refused(w, i, transient) ==
  /\ RunAt(w, i, "executing")
  /\ Executed(i)
  /\ run' = [run EXCEPT ![w][i].at = "failing",
                        ![w][i].retryable = transient /\ run[w][i].attempt < MaxAttempts]
  /\ UNCHANGED <<item, lease, overdue, answered, disturbed, mishaps>>
  /\ NoCloser /\ NoReconciler

(* When the success may not be written, the catch takes the exception for  *)
(* a transient failure of the execution.                                   *)
Succeed(w, i) ==
  /\ RunAt(w, i, "succeeding")
  /\ IF Allowed(i, "succeeded")
     THEN Writes(i, "succeeded", run[w][i].attempt) /\ Leaving(w, i)
     ELSE /\ run' = [run EXCEPT ![w][i].at = "failing",
                                ![w][i].retryable = run[w][i].attempt < MaxAttempts]
          /\ UNCHANGED item
  /\ UNCHANGED <<lease, overdue>> /\ NoCloser /\ NoReconciler /\ NoGhosts

Fail(w, i) ==
  LET status == IF run[w][i].retryable THEN "retry_wait" ELSE "failed" IN
  /\ RunAt(w, i, "failing")
  /\ IF Allowed(i, status) THEN Writes(i, status, run[w][i].attempt) ELSE UNCHANGED item
  /\ Leaving(w, i)
  /\ UNCHANGED <<lease, overdue>> /\ NoCloser /\ NoReconciler /\ NoGhosts

(* The finally of processItem.                                             *)
Release(w, i) ==
  /\ RunAt(w, i, "releasing")
  /\ Released(i, w)
  /\ run' = [run EXCEPT ![w][i] = NoRun]
  /\ UNCHANGED <<item, overdue>> /\ NoCloser /\ NoReconciler /\ NoGhosts

(* The worker dies with what it has in hand.                               *)
Die(w) ==
  /\ Hand(w) # {} /\ Disturbs(Hand(w))
  /\ run' = [run EXCEPT ![w] = [i \in Items |-> NoRun]]
  /\ UNCHANGED <<item, lease, overdue>> /\ NoCloser /\ NoReconciler

-----------------------------------------------------------------------------
(* BatchScheduler.step and cancelBatch                                     *)

Activate ==
  /\ Schedulers # {} /\ job = "queued"
  /\ job' = "running"
  /\ UNCHANGED <<item, lease, reserved, overdue, run, closer>>
  /\ NoReconciler /\ NoGhosts

(* The scheduler finds the job past its deadline.  finalizeBatch, called   *)
(* next, returns at once: the job has ended.                               *)
Expire ==
  /\ Schedulers # {} /\ overdue /\ job \in {"queued", "running"}
  /\ job' = "expired"
  /\ UNCHANGED <<item, lease, reserved, overdue, run, closer>>
  /\ NoReconciler /\ NoGhosts

(* Mutant of Scan: a job being cancelled is left to who cancelled it.      *)
ScanRunning(c) ==
  /\ c \in Schedulers /\ CloserAt(c, "idle") /\ job = "running"
  /\ closer' = [closer EXCEPT ![c].at = "scanning", ![c].was = job]
  /\ UNCHANGED <<job, item, lease, reserved, overdue, run>> /\ NoReconciler /\ NoGhosts

(* findRunnableBatchJobs.                                                  *)
Scan(c) ==
  /\ c \in Schedulers /\ CloserAt(c, "idle") /\ job \in {"running", "cancelling"}
  /\ closer' = [closer EXCEPT ![c].at = "scanning", ![c].was = job]
  /\ UNCHANGED <<job, item, lease, reserved, overdue, run>> /\ NoReconciler /\ NoGhosts

(* cancelBatch, up to the cancelling status.                               *)
Cancel(c) ==
  /\ c \in Cancels /\ CloserAt(c, "idle")
  /\ IF job \notin Ended /\ JobMayBecome(job, "cancelling")
     THEN /\ job' = "cancelling"
          /\ closer' = [closer EXCEPT ![c].at = "scanning", ![c].was = "cancelling"]
     ELSE Leaves(c) /\ UNCHANGED job
  /\ UNCHANGED <<item, lease, reserved, overdue, run>> /\ NoReconciler /\ NoGhosts

(* Mutant of ScanItems: what a worker has begun is not cancelled.          *)
ScanQueued(c) ==
  LET seen == [i \in Items |-> item[i].status] IN
  /\ CloserAt(c, "scanning")
  /\ IF closer[c].was = "cancelling"
     THEN SweepOn(c, {i \in Items : seen[i] = "queued"})
     ELSE IF AllEnded(seen) THEN CloserGoes(c, "reading") ELSE Leaves(c)
  /\ UNCHANGED <<job, item, lease, reserved, overdue, run>> /\ NoReconciler /\ NoGhosts

(* getAllBatchItems: what has not ended is to be cancelled with the job; a *)
(* running job is finalized when all has ended.                            *)
ScanItems(c) ==
  LET seen == [i \in Items |-> item[i].status] IN
  /\ CloserAt(c, "scanning")
  /\ IF closer[c].was = "cancelling"
     THEN SweepOn(c, {i \in Items : seen[i] \notin ItemEnded})
     ELSE IF AllEnded(seen) THEN CloserGoes(c, "reading") ELSE Leaves(c)
  /\ UNCHANGED <<job, item, lease, reserved, overdue, run>> /\ NoReconciler /\ NoGhosts

(* Item by item, in any order; cancelling one that has ended since throws  *)
(* out of the loop.                                                        *)
Sweep(c, i) ==
  /\ CloserAt(c, "sweeping") /\ i \in closer[c].todo
  /\ IF Allowed(i, "cancelled")
     THEN /\ Writes(i, "cancelled", item[i].attempts)
          /\ SweepOn(c, closer[c].todo \ {i})
     ELSE Leaves(c) /\ UNCHANGED item
  /\ UNCHANGED <<job, lease, reserved, overdue, run>> /\ NoReconciler /\ NoGhosts

-----------------------------------------------------------------------------
(* BatchFinalizer.finalizeBatch                                            *)

ReadJob(c) ==
  /\ CloserAt(c, "reading")
  /\ IF job \in Ended THEN Leaves(c)
     ELSE closer' = [closer EXCEPT ![c].at = "listing", ![c].was = job]
  /\ UNCHANGED <<job, item, lease, reserved, overdue, run>> /\ NoReconciler /\ NoGhosts

ListItems(c) ==
  LET seen == [i \in Items |-> item[i].status] IN
  /\ CloserAt(c, "listing")
  /\ IF AllEnded(seen) \/ closer[c].was = "cancelling"
     THEN closer' = [closer EXCEPT ![c] =
            [Resting EXCEPT !.at = "marking", !.verdict = Verdict(closer[c].was, seen)]]
     ELSE Leaves(c)
  /\ UNCHANGED <<job, item, lease, reserved, overdue, run>> /\ NoReconciler /\ NoGhosts

Mark(c) ==
  /\ CloserAt(c, "marking")
  /\ IF JobMayBecome(job, "finalizing")
     THEN job' = "finalizing" /\ CloserGoes(c, "releasing")
     ELSE Leaves(c) /\ UNCHANGED job
  /\ UNCHANGED <<item, lease, reserved, overdue, run>> /\ NoReconciler /\ NoGhosts

(* The output files have been written, or not.                             *)
ReleaseReservation(c) ==
  /\ CloserAt(c, "releasing")
  /\ reserved' = FALSE
  /\ CloserGoes(c, "closing")
  /\ UNCHANGED <<job, item, lease, overdue, run>> /\ NoReconciler /\ NoGhosts

Close(c) ==
  /\ CloserAt(c, "closing")
  /\ job' = IF JobMayBecome(job, closer[c].verdict) THEN closer[c].verdict ELSE job
  /\ Leaves(c)
  /\ UNCHANGED <<item, lease, reserved, overdue, run>> /\ NoReconciler /\ NoGhosts

-----------------------------------------------------------------------------
(* BatchReconciler.reconcile                                               *)

(* Mutant of FindLeases: any lease is taken for one that has run out.      *)
SeizeLeases ==
  LET Gone(i) == lease[i].owner # Nobody IN
  /\ reconciler.at = "idle" /\ \E i \in Items : Gone(i)
  /\ reconciler' = [Calm EXCEPT
       !.at = "looking",
       !.found = [i \in Items |-> IF Gone(i) THEN lease[i].owner ELSE Nobody]]
  /\ UNCHANGED <<job, item, lease, reserved, overdue, run, closer>> /\ NoGhosts

(* The list of the leases that have run out.                               *)
FindLeases ==
  LET Gone(i) == lease[i].owner # Nobody /\ ~lease[i].live IN
  /\ reconciler.at = "idle" /\ \E i \in Items : Gone(i)
  /\ reconciler' = [Calm EXCEPT
       !.at = "looking",
       !.found = [i \in Items |-> IF Gone(i) THEN lease[i].owner ELSE Nobody]]
  /\ UNCHANGED <<job, item, lease, reserved, overdue, run, closer>> /\ NoGhosts

(* The item of the next lease is read, however the lease stands by now.    *)
LookAt(i) ==
  LET running == item[i].status = "running" IN
  /\ reconciler.at = "looking" /\ reconciler.found[i] # Nobody
  /\ reconciler' = [reconciler EXCEPT
       !.at = IF running THEN "requeueing" ELSE "releasing",
       !.item = i, !.attempt = IF running THEN item[i].attempts ELSE 0]
  /\ UNCHANGED <<job, item, lease, reserved, overdue, run, closer>> /\ NoGhosts

(* Throws when the item has ended since.                                   *)
Requeue ==
  LET i == reconciler.item IN
  /\ reconciler.at = "requeueing"
  /\ IF Allowed(i, "queued")
     THEN /\ Writes(i, "queued", reconciler.attempt)
          /\ reconciler' = [reconciler EXCEPT !.at = "releasing", !.attempt = 0]
     ELSE reconciler' = Calm /\ UNCHANGED item
  /\ UNCHANGED <<job, lease, reserved, overdue, run, closer>> /\ NoGhosts

FreeLease ==
  LET i == reconciler.item
      left == [reconciler.found EXCEPT ![i] = Nobody] IN
  /\ reconciler.at = "releasing"
  /\ Released(i, reconciler.found[i])
  /\ reconciler' = [Calm EXCEPT
       !.at = IF \A k \in Items : left[k] = Nobody THEN "idle" ELSE "looking",
       !.found = left]
  /\ UNCHANGED <<job, item, reserved, overdue, run, closer>> /\ NoGhosts

(* The second part of reconcile reads the job and writes it back whole,    *)
(* with its counters put right and the status it had when it was read.     *)
(* RewritingSpec has it; Spec is the system in which no status changes in  *)
(* between.                                                                *)
FindJob ==
  /\ reconciler.at = "idle" /\ job \notin Ended
  /\ reconciler' = [Calm EXCEPT !.at = "rewriting", !.was = job]
  /\ UNCHANGED <<job, item, lease, reserved, overdue, run, closer>> /\ NoGhosts

RewriteJob ==
  /\ reconciler.at = "rewriting"
  /\ job' = reconciler.was
  /\ reconciler' = Calm
  /\ UNCHANGED <<item, lease, reserved, overdue, run, closer>> /\ NoGhosts

-----------------------------------------------------------------------------
(* Time *)

LeaseRunsOut(i) ==
  /\ lease[i].live
  /\ lease' = [lease EXCEPT ![i].live = FALSE]
  /\ IF \E w \in Workers : i \in Hand(w)
     THEN Disturbs({i}) ELSE NoGhosts
  /\ UNCHANGED <<item, overdue, run>> /\ NoCloser /\ NoReconciler

FallsDue(i) ==
  /\ item[i].status = "retry_wait" /\ ~item[i].due
  /\ item' = [item EXCEPT ![i].due = TRUE]
  /\ UNCHANGED <<lease, overdue, run>> /\ NoCloser /\ NoReconciler /\ NoGhosts

DeadlinePasses ==
  /\ ~overdue /\ overdue' = TRUE /\ Disturbs({})
  /\ UNCHANGED <<item, lease, run>> /\ NoCloser /\ NoReconciler

-----------------------------------------------------------------------------
Processes(w, i) ==
  \/ Claim(w, i) \/ Check(w, i) \/ EndEarly(w, i)
  \/ Answered(w, i) \/ \E transient \in BOOLEAN : Refused(w, i, transient)
  \/ Succeed(w, i) \/ Fail(w, i) \/ Release(w, i)

Closes(c) ==
  \/ ScanItems(c) \/ \E i \in Items : Sweep(c, i)
  \/ ReadJob(c) \/ ListItems(c) \/ Mark(c) \/ ReleaseReservation(c) \/ Close(c)

Reconciles == FindLeases \/ (\E i \in Items : LookAt(i)) \/ Requeue \/ FreeLease

Next ==
  \/ \E w \in Workers, i \in Items : Processes(w, i)
  \/ \E w \in Workers : Die(w)
  \/ Activate \/ Expire
  \/ \E c \in Closers : Scan(c) \/ Cancel(c) \/ Closes(c)
  \/ Reconciles
  \/ \E i \in Items : LeaseRunsOut(i) \/ FallsDue(i)
  \/ DeadlinePasses

Spec == Init /\ [][Next]_vars

(* Of what the workers can do something is done in the end, and so for the *)
(* closers, the reconciler and the clock: less than each worker, loop and  *)
(* call going on, which is what the code has.  The deadline need not come  *)
(* for the job to end.                                                     *)
Fairness ==
  /\ WF_vars(\E w \in Workers, i \in Items : Processes(w, i))
  /\ WF_vars(Activate) /\ WF_vars(Expire)
  /\ WF_vars(\E c \in Closers : Scan(c) \/ Closes(c))
  /\ WF_vars(Reconciles)
  /\ WF_vars(\E i \in Items : LeaseRunsOut(i) \/ FallsDue(i))

RewritingSpec == Init /\ [][Next \/ FindJob \/ RewriteJob]_vars

FairSpec == Spec /\ Fairness

-----------------------------------------------------------------------------
(* Properties *)

(* An execution that was answered, and charged, is not thrown away: the    *)
(* item succeeds unless its job is cancelled or it was disturbed.          *)
PaidIsKept ==
  \A i \in answered :
    \/ item[i].status \in {"succeeded", "cancelled"}
    \/ \E w \in Workers : RunAt(w, i, "succeeding")

(* An item is executed no more often than maxAttempts allows, unless it    *)
(* was disturbed.                                                          *)
ExecutionsBounded ==
  \A i \in Items : executions[i] <= MaxAttempts

(* A job that was finalized, by whoever and however many at once, has no   *)
(* item left to run and nothing reserved, and its status tells what became *)
(* of the items.                                                           *)
EndedIsWhole ==
  job \in Ended \ {"expired"} =>
    /\ \A i \in Items : item[i].status \in ItemEnded
    /\ ~reserved
    /\ job = "completed" => \A i \in Items : item[i].status # "failed"
    /\ job = "partially_completed" =>
         {"succeeded", "failed"} \subseteq {item[i].status : i \in Items}
    /\ job = "failed" => \A i \in Items : item[i].status # "succeeded"

(* A running item without a lease and without a worker: nobody claims it   *)
(* and the reconciler does not find it.  The reconciler leaves it so when  *)
(* it releases the lease the owner has meanwhile taken anew, and the owner *)
(* then dies.                                                              *)
Stranded(i) ==
  /\ item[i].status = "running" /\ lease[i] = NoLease
  /\ \A w \in Workers : RunAt(w, i, "none")

(* Whatever its workers run into, and whoever cancels it, the job ends,    *)
(* unless an item is stranded; then it ends by its deadline only.          *)
EveryJobEnds == <>(job \in Ended \/ \E i \in Items : Stranded(i))

(* A terminal state of the job has no way out, as                          *)
(* VALID_JOB_TRANSITIONS and the unit test of the state machine say.       *)
EndIsFinal == [][(job \in Ended) => job' = job]_vars

=============================================================================
