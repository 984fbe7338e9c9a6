---------------------------- MODULE WebhookDelivery ----------------------------
(***************************************************************************)
(* Customer webhooks: deliveries made by WebhookEventRouter and            *)
(* WebhookReplayService, and the WebhookWorkers that claim them in batches *)
(* under a lease, post them to the customer's endpoint and write back what *)
(* came of it.                                                             *)
(*                                                                         *)
(* A worker goes through its batch one delivery at a time with the         *)
(* delivery as it was when claimed.  The lease is not renewed and          *)
(* updateDelivery does not ask who holds it: ten posts of ten seconds      *)
(* outlast thirty seconds of lease, another worker claims what the first   *)
(* still has before it, and both write.  "late" remembers for which        *)
(* deliveries this has happened.                                           *)
(*                                                                         *)
(* Deliveries are numbered in the order of their creation, which is the    *)
(* order the store's map is scanned in.  Times are reduced to two facts of *)
(* a delivery: its lease has not run out, its next attempt is due.         *)
(*                                                                         *)
(* A delivery whose event the store no longer has is dead-lettered without *)
(* an attempt.  The one repository in the code never removes an event; its *)
(* interface does not promise that, and LoseEvent stands for one that does.*)
(***************************************************************************)
EXTENDS Integers, FiniteSets

CONSTANTS
  Deliveries,    \* 1 .. as many as are made
  Events,        \* source events
  Endpoints,
  EndpointOf,    \* the endpoint of each delivery
  Workers,
  BatchSize,     \* 10 in the code
  MaxAttempts,   \* DEFAULT_WEBHOOK_RETRY_POLICY.maxAttempts
  FailingAfter,  \* 10 in the code
  Nothing,       \* no delivery, no event
  MaxMishaps     \* bound: batches given up by an exception, leases that run
                 \* out under a worker, calls of updateEndpoint and events
                 \* lost, together

ASSUME WebhookAssumption ==
  /\ Deliveries \subseteq Nat /\ Nothing \notin Deliveries \cup Events
  /\ EndpointOf \in [Deliveries -> Endpoints]
  /\ BatchSize \in Nat \ {0} /\ MaxAttempts \in Nat \ {0}
  /\ FailingAfter \in Nat \ {0} /\ MaxMishaps \in Nat

VARIABLES
  event,     \* the routing and the stored record of each event
  delivery,  \* the stored deliveries
  endpoint,  \* the stored endpoints
  worker,    \* the loop of each worker
  attempts,  \* number of attempts recorded for each delivery
  refused,   \* deliveries with an attempt that was refused for good
  late,      \* deliveries whose lease ran out in a worker's hands
  throws,    \* batches given up so far
  overruns,  \* leases that have run out under a worker
  changes    \* calls of updateEndpoint and events lost so far

vars == <<event, delivery, endpoint, worker, attempts, refused, late, throws, overruns, changes>>

-----------------------------------------------------------------------------
(* Types *)

Final == {"succeeded", "dead_letter", "cancelled"}
Statuses == {"none", "pending", "delivering", "retrying"} \cup Final

(* An event is matched with the endpoints it is meant for, stored, and     *)
(* routed when its deliveries are made.                                    *)
Event == [stage: {"new", "matched", "stored", "routed"},
          for: SUBSET Endpoints, lost: BOOLEAN]
Delivery == [status: Statuses, event: Events \cup {Nothing}, count: Nat,
             leased: BOOLEAN, due: BOOLEAN]
Endpoint == [status: {"active", "disabled", "failing"}, failures: Nat]

(* left: the rest of the batch; seen: attemptCount of each delivery of the *)
(* batch when it was claimed; read: the endpoint before its score is       *)
(* written.                                                                *)
Worker == [at: {"free", "fetching", "posting", "updating", "scoring", "writing"},
           left: SUBSET Deliveries, current: Deliveries \cup {Nothing},
           seen: [Deliveries -> Nat],
           outcome: {"none", "retrying", "eventless"} \cup Final, read: Endpoint]

TypeOK ==
  /\ event \in [Events -> Event]
  /\ delivery \in [Deliveries -> Delivery]
  /\ endpoint \in [Endpoints -> Endpoint]
  /\ worker \in [Workers -> Worker]
  /\ attempts \in [Deliveries -> Nat]
  /\ refused \subseteq Deliveries
  /\ late \subseteq Deliveries
  /\ throws \in Nat /\ overruns \in Nat
  /\ changes \in Nat

-----------------------------------------------------------------------------
(* Helpers *)

Unborn == {d \in Deliveries : delivery[d].status = "none"}
Active(e) == endpoint[e].status = "active"

(* Mutants of Eligible: leases are not looked at; an abandoned delivery is  *)
(* not picked up again.                                                    *)
EligibleUnderLease ==
  {d \in Deliveries : /\ delivery[d].status \in {"pending", "retrying", "delivering"}
                      /\ delivery[d].due}

EligibleWhenFresh ==
  {d \in Deliveries : /\ delivery[d].status \in {"pending", "retrying"}
                      /\ ~delivery[d].leased
                      /\ delivery[d].due}

(* Of claimPendingDeliveries.                                              *)
Eligible == {d \in Deliveries :
               /\ delivery[d].status \in {"pending", "retrying", "delivering"}
               /\ ~delivery[d].leased
               /\ delivery[d].due}

(* The scan stops when the batch is full.                                  *)
FirstOf(batch, all) ==
  /\ batch \subseteq all
  /\ Cardinality(batch) <= BatchSize
  /\ \A d \in all \ batch : Cardinality(batch) = BatchSize /\ \A b \in batch : b < d

(* Mutant of Classify: one attempt too few.                                *)
ClassifyEarly(answer, n) ==
  CASE answer = "accepted" -> "succeeded"
    [] answer = "refused"  -> "dead_letter"
    [] OTHER -> IF n + 1 >= MaxAttempts THEN "dead_letter" ELSE "retrying"

(* What an answer means for attempt number n.                              *)
Classify(answer, n) ==
  CASE answer = "accepted" -> "succeeded"
    [] answer = "refused"  -> "dead_letter"
    [] OTHER -> IF n >= MaxAttempts THEN "dead_letter" ELSE "retrying"

(* The endpoint after an attempt, computed from what was read of it.  The  *)
(* code counts on past FailingAfter, where it tells no values apart.       *)
Scored(was, succeeded) ==
  IF succeeded
  THEN [status |-> IF was.status = "failing" THEN "active" ELSE was.status,
        failures |-> 0]
  ELSE [status |-> IF was.failures + 1 >= FailingAfter /\ was.status = "active"
                   THEN "failing" ELSE was.status,
        failures |-> IF was.failures < FailingAfter THEN was.failures + 1
                     ELSE was.failures]

(* What comes of a delivery without an attempt.                            *)
Unattempted == {"cancelled", "eventless"}

IdleWorker == [at |-> "free", left |-> {}, current |-> Nothing,
               seen |-> [d \in Deliveries |-> 0], outcome |-> "none",
               read |-> [status |-> "active", failures |-> 0]]

(* The worker, done with d, goes on with its batch.                        *)
Goes(w, d) ==
  [IdleWorker EXCEPT !.left = worker[w].left \ {d},
                     !.seen = [worker[w].seen EXCEPT ![d] = 0]]

Mishaps == throws + overruns + changes

Make(batch, e) ==
  delivery' = [d \in Deliveries |->
                IF d \in batch
                THEN [status |-> "pending", event |-> e, count |-> 0,
                      leased |-> FALSE, due |-> TRUE]
                ELSE delivery[d]]

(* getOutboundEvent finds the event of a delivery.                         *)
Found(e) == event[e].stage \in {"stored", "routed"} /\ ~event[e].lost

-----------------------------------------------------------------------------
Init ==
  /\ event = [e \in Events |-> [stage |-> "new", for |-> {}, lost |-> FALSE]]
  /\ delivery = [d \in Deliveries |->
                  [status |-> "none", event |-> Nothing, count |-> 0,
                   leased |-> FALSE, due |-> TRUE]]
  /\ endpoint = [e \in Endpoints |-> [status |-> "active", failures |-> 0]]
  /\ worker = [w \in Workers |-> IdleWorker]
  /\ attempts = [d \in Deliveries |-> 0]
  /\ refused = {} /\ late = {}
  /\ throws = 0 /\ overruns = 0 /\ changes = 0

(* routeEvent, for an event not seen before: the active endpoints that     *)
(* subscribe to it are looked up, the event is stored, and one delivery is *)
(* made for each of those endpoints, whatever has become of them.          *)
MatchEndpoints(e, matching) ==
  /\ event[e].stage = "new"
  /\ \A p \in matching : Active(p)
  /\ event' = [event EXCEPT ![e].stage = "matched", ![e].for = matching]
  /\ UNCHANGED <<delivery, endpoint, worker, attempts, refused, late, throws, overruns, changes>>

StoreEvent(e) ==
  /\ event[e].stage = "matched"
  /\ event' = [event EXCEPT ![e].stage = "stored"]
  /\ UNCHANGED <<delivery, endpoint, worker, attempts, refused, late, throws, overruns, changes>>

MakeDeliveries(e, batch) ==
  /\ event[e].stage = "stored"
  /\ batch \subseteq Unborn /\ \A d \in batch, u \in Unborn \ batch : d < u
  /\ event[e].for = {EndpointOf[d] : d \in batch}
  /\ \A d, b \in batch : EndpointOf[d] = EndpointOf[b] => d = b
  /\ event' = [event EXCEPT ![e].stage = "routed"]
  /\ Make(batch, e)
  /\ UNCHANGED <<endpoint, worker, attempts, refused, late, throws, overruns, changes>>

(* External: a store that does not keep its events for ever.               *)
LoseEvent(e) ==
  /\ Found(e) /\ Mishaps < MaxMishaps
  /\ changes' = changes + 1
  /\ event' = [event EXCEPT ![e].lost = TRUE]
  /\ UNCHANGED <<delivery, endpoint, worker, attempts, refused, late, throws, overruns>>

(* replayDelivery: a new delivery to the endpoint of an old one, whatever  *)
(* has become of either.                                                   *)
Replay(d, old) ==
  /\ d \in Unborn /\ \A u \in Unborn : d <= u
  /\ old \notin Unborn /\ EndpointOf[d] = EndpointOf[old]
  /\ Make({d}, delivery[old].event)
  /\ UNCHANGED <<event, endpoint, worker, attempts, refused, late, throws, overruns, changes>>

(* updateEndpoint.                                                         *)
Disable(e) ==
  /\ Mishaps < MaxMishaps
  /\ changes' = changes + 1
  /\ endpoint' = [endpoint EXCEPT ![e].status = "disabled"]
  /\ UNCHANGED <<event, delivery, worker, attempts, refused, late, throws, overruns>>

Enable(e) ==
  /\ Mishaps < MaxMishaps
  /\ changes' = changes + 1
  /\ endpoint' = [endpoint EXCEPT ![e] = [status |-> "active", failures |-> 0]]
  /\ UNCHANGED <<event, delivery, worker, attempts, refused, late, throws, overruns>>

-----------------------------------------------------------------------------
(* The worker *)

(* runOnce, when the batch before is done: claimPendingDeliveries.         *)
Claim(w, batch) ==
  /\ worker[w].at = "free" /\ worker[w].left = {}
  /\ batch # {} /\ FirstOf(batch, Eligible)
  /\ delivery' = [d \in Deliveries |->
                   IF d \in batch
                   THEN [delivery[d] EXCEPT !.status = "delivering", !.leased = TRUE]
                   ELSE delivery[d]]
  /\ worker' = [worker EXCEPT ![w] =
       [IdleWorker EXCEPT !.left = batch,
                          !.seen = [d \in Deliveries |->
                            IF d \in batch THEN delivery[d].count ELSE 0]]]
  /\ UNCHANGED <<event, endpoint, attempts, refused, late, throws, overruns, changes>>

(* deliverSingle, up to the post: the event is read ...                    *)
Fetch(w, d) ==
  /\ worker[w].at = "free"
  /\ d \in worker[w].left /\ \A b \in worker[w].left : d <= b
  /\ worker' = [worker EXCEPT
       ![w].current = d,
       ![w].at = IF Found(delivery[d].event) THEN "fetching" ELSE "updating",
       ![w].outcome = IF Found(delivery[d].event) THEN "none" ELSE "eventless"]
  /\ UNCHANGED <<event, delivery, endpoint, attempts, refused, late, throws, overruns, changes>>

(* ... and then the endpoint.                                              *)
FetchEndpoint(w) ==
  LET e == EndpointOf[worker[w].current] IN
  /\ worker[w].at = "fetching"
  /\ worker' = [worker EXCEPT
       ![w].at = IF endpoint[e].status = "disabled" THEN "updating" ELSE "posting",
       ![w].outcome = IF endpoint[e].status = "disabled" THEN "cancelled" ELSE "none"]
  /\ UNCHANGED <<event, delivery, endpoint, attempts, refused, late, throws, overruns, changes>>

(* The post, its classification and the record of the attempt.             *)
Post(w, answer) ==
  LET d == worker[w].current IN
  /\ worker[w].at = "posting"
  /\ attempts' = [attempts EXCEPT ![d] = @ + 1]
  /\ refused' = IF answer = "refused" THEN refused \cup {d} ELSE refused
  /\ worker' = [worker EXCEPT
       ![w].at = "updating",
       ![w].outcome = Classify(answer, worker[w].seen[d] + 1)]
  /\ UNCHANGED <<event, delivery, endpoint, late, throws, overruns, changes>>

(* Mutant of Update: a retry leaves the count as it was.                   *)
UpdateUncounted(w) ==
  LET d == worker[w].current
      outcome == worker[w].outcome
  IN
  /\ worker[w].at = "updating"
  /\ delivery' = [delivery EXCEPT
       ![d] = [status |-> IF outcome = "eventless" THEN "dead_letter" ELSE outcome,
               event |-> @.event, leased |-> FALSE, count |-> @.count,
               due |-> IF outcome = "retrying" THEN FALSE ELSE @.due]]
  /\ worker' = [worker EXCEPT
       ![w] = IF outcome \in Unattempted THEN Goes(w, d)
              ELSE [Goes(w, d) EXCEPT !.at = "scoring", !.current = d,
                                      !.outcome = outcome]]
  /\ UNCHANGED <<event, endpoint, attempts, refused, late, throws, overruns, changes>>

(* updateDelivery: the outcome, and the count after this attempt.          *)
Update(w) ==
  LET d == worker[w].current
      outcome == worker[w].outcome
  IN
  /\ worker[w].at = "updating"
  /\ delivery' = [delivery EXCEPT
       ![d] = [status |-> IF outcome = "eventless" THEN "dead_letter" ELSE outcome,
               event  |-> @.event, leased |-> FALSE,
               count  |-> IF outcome \in Unattempted THEN @.count
                          ELSE worker[w].seen[d] + 1,
               due    |-> IF outcome = "retrying" THEN FALSE ELSE @.due]]
  /\ worker' = [worker EXCEPT
       ![w] = IF outcome \in Unattempted THEN Goes(w, d)
              ELSE [Goes(w, d) EXCEPT !.at = "scoring", !.current = d,
                                      !.outcome = outcome]]
  /\ UNCHANGED <<event, endpoint, attempts, refused, late, throws, overruns, changes>>

(* recordEndpointOutcome: getEndpoint ...                                  *)
ReadScore(w) ==
  /\ worker[w].at = "scoring"
  /\ worker' = [worker EXCEPT ![w].at = "writing",
                              ![w].read = endpoint[EndpointOf[worker[w].current]]]
  /\ UNCHANGED <<event, delivery, endpoint, attempts, refused, late, throws, overruns, changes>>

(* ... and updateEndpoint with what follows from it.                       *)
WriteScore(w) ==
  /\ worker[w].at = "writing"
  /\ endpoint' = [endpoint EXCEPT ![EndpointOf[worker[w].current]] =
                    Scored(worker[w].read, worker[w].outcome = "succeeded")]
  /\ worker' = [worker EXCEPT ![w] = Goes(w, @.current)]
  /\ UNCHANGED <<event, delivery, attempts, refused, late, throws, overruns, changes>>

(* An exception of the store or of decryptWebhookSecret leaves             *)
(* processBatch; the loop swallows it and the rest of the batch is         *)
(* forgotten.                                                              *)
Throw(w) ==
  /\ worker[w].left # {} \/ worker[w].at # "free"
  /\ Mishaps < MaxMishaps
  /\ throws' = throws + 1
  /\ worker' = [worker EXCEPT ![w] = IdleWorker]
  /\ UNCHANGED <<event, delivery, endpoint, attempts, refused, late, overruns, changes>>

-----------------------------------------------------------------------------
(* Time *)

LeaseRunsOut(d) ==
  /\ delivery[d].leased
  /\ delivery' = [delivery EXCEPT ![d].leased = FALSE]
  /\ IF \E w \in Workers : d \in worker[w].left
     THEN /\ Mishaps < MaxMishaps
          /\ overruns' = overruns + 1
          /\ late' = late \cup {d}
     ELSE UNCHANGED <<late, overruns>>
  /\ UNCHANGED <<event, endpoint, worker, attempts, refused, throws, changes>>

FallsDue(d) ==
  /\ ~delivery[d].due
  /\ delivery' = [delivery EXCEPT ![d].due = TRUE]
  /\ UNCHANGED <<event, endpoint, worker, attempts, refused, late, throws, overruns, changes>>

Works(w) ==
  \/ \E batch \in SUBSET Deliveries : Claim(w, batch)
  \/ \E d \in Deliveries : Fetch(w, d)
  \/ FetchEndpoint(w)
  \/ \E answer \in {"accepted", "refused", "transient"} : Post(w, answer)
  \/ Update(w) \/ ReadScore(w) \/ WriteScore(w)

Next ==
  \/ \E e \in Events :
       \/ \E matching \in SUBSET Endpoints : MatchEndpoints(e, matching)
       \/ StoreEvent(e)
       \/ \E batch \in SUBSET Deliveries : MakeDeliveries(e, batch)
       \/ LoseEvent(e)
  \/ \E d, old \in Deliveries : Replay(d, old)
  \/ \E e \in Endpoints : Disable(e) \/ Enable(e)
  \/ \E w \in Workers : Works(w) \/ Throw(w)
  \/ \E d \in Deliveries : LeaseRunsOut(d) \/ FallsDue(d)

Spec == Init /\ [][Next]_vars

(* A worker polls again after every batch, a post ends after ten seconds   *)
(* at the latest, and time passes.                                         *)
Fairness ==
  /\ \A w \in Workers : WF_vars(Works(w))
  /\ \A d \in Deliveries : WF_vars(LeaseRunsOut(d)) /\ WF_vars(FallsDue(d))

FairSpec == Spec /\ Fairness

-----------------------------------------------------------------------------
(* Properties *)

Settled(d) == delivery[d].status \in Final

(* No delivery is given up before its attempts are used up, unless the     *)
(* customer refused it for good or the store lost its event.  Whatever     *)
(* stale snapshots the workers write back, attemptCount never runs ahead   *)
(* of the attempts made; and no worker comes to a delivery, made by        *)
(* routeEvent or a replay, before its event is there.                      *)
DeadLetterIsEarned ==
  \A d \in Deliveries : delivery[d].status = "dead_letter" =>
    \/ d \in refused \/ attempts[d] >= MaxAttempts
    \/ event[delivery[d].event].lost

(* The retry policy bounds what a customer is sent: no delivery that was   *)
(* written back before its lease ran out is attempted more often, but for  *)
(* attempts whose outcome an exception kept from being written.            *)
AttemptsBounded ==
  \A d \in Deliveries \ late : attempts[d] <= MaxAttempts + throws

(* A settled delivery stays as it was settled, unless its lease ran out    *)
(* under a worker: no second worker is ever at work on it.                 *)
SettledStays ==
  [][\A d \in Deliveries \ late :
       Settled(d) => delivery'[d].status = delivery[d].status]_vars

(* Every delivery made is settled for good in the end, also those that     *)
(* two workers write to, those an exception left under a lease, and those  *)
(* of an endpoint that is switched off.                                    *)
EveryDeliverySettles ==
  \A d \in Deliveries : <>[](Settled(d) \/ delivery[d].status = "none")

=============================================================================
