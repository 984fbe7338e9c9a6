------------------------ MODULE WebhookDeliveryProofs ------------------------
(***************************************************************************)
(* The safety properties of webhook delivery, for any number of workers,   *)
(* deliveries and endpoints, any batch size and any retry policy.          *)
(***************************************************************************)
EXTENDS WebhookDelivery, TLAPS

(* The worker has made an attempt that it has still to write back.         *)
Posted(w, d) ==
  /\ worker[w].at = "updating" /\ worker[w].current = d
  /\ worker[w].outcome \notin Unattempted

WorkerSane(w) ==
  LET x == worker[w] IN
  /\ x.at # "free" => x.current \in Deliveries
  /\ x.at \in {"fetching", "posting", "updating"} => x.current \in x.left
  /\ x.at = "updating" => x.outcome # "none"
  /\ x.at = "updating" /\ x.outcome = "retrying" => x.seen[x.current] + 1 < MaxAttempts

(* A snapshot is never ahead of the attempts made.                         *)
AttemptSane(w, d) ==
  /\ d \in worker[w].left => worker[w].seen[d] <= attempts[d]
  /\ Posted(w, d) =>
       /\ worker[w].seen[d] + 1 <= attempts[d]
       /\ worker[w].outcome = "dead_letter" => d \in refused \/ attempts[d] >= MaxAttempts

DeliverySane(d) ==
  /\ delivery[d].count <= attempts[d]
  /\ delivery[d].status = "none" =>
       delivery[d].count = 0 /\ attempts[d] = 0 /\ \A w \in Workers : d \notin worker[w].left
  /\ delivery[d].status = "dead_letter" =>
       d \in refused \/ attempts[d] >= MaxAttempts \/ event[delivery[d].event].lost

(* A delivery is made after its event was stored, so an event that is not  *)
(* found is lost.                                                          *)
EventSane(d) ==
  delivery[d].status # "none" =>
    delivery[d].event \in Events /\ event[delivery[d].event].stage \in {"stored", "routed"}

FoundSane(w) ==
  worker[w].at = "updating" /\ worker[w].outcome = "eventless" =>
    event[delivery[worker[w].current].event].lost

(* Until its lease runs out under a worker a delivery in hand is leased to *)
(* one worker only, which has seen it as it is.                            *)
LeaseSane(w, d) ==
  d \notin late /\ d \in worker[w].left =>
    /\ delivery[d].status = "delivering" /\ delivery[d].leased
    /\ worker[w].seen[d] = delivery[d].count
    /\ \A v \in Workers : d \in worker[v].left => v = w

(* Attempts not counted in attemptCount: the one just made, and those      *)
(* lost to an exception.                                                   *)
CountSane(d) ==
  d \notin late =>
    /\ delivery[d].count <= MaxAttempts
    /\ ~Settled(d) => delivery[d].count < MaxAttempts
    /\ attempts[d] <= delivery[d].count + 1 + throws
    /\ attempts[d] > delivery[d].count + throws => \E w \in Workers : Posted(w, d)

(* The inductive invariant.                                                *)
Inv ==
  /\ TypeOK
  /\ \A w \in Workers : WorkerSane(w)
  /\ \A w \in Workers, d \in Deliveries : AttemptSane(w, d)
  /\ \A d \in Deliveries : DeliverySane(d)
  /\ \A w \in Workers, d \in Deliveries : LeaseSane(w, d)
  /\ \A d \in Deliveries : CountSane(d)
  /\ \A d \in Deliveries : EventSane(d)
  /\ \A w \in Workers : FoundSane(w)

USE WebhookAssumption

-----------------------------------------------------------------------------
LEMMA IdleIsWorker == IdleWorker \in Worker
BY DEF IdleWorker, Worker, Endpoint

LEMMA InitInv == Init => Inv
<1> SUFFICES ASSUME Init PROVE Inv
  OBVIOUS
<1>1. TypeOK
  BY IdleIsWorker DEF Init, TypeOK, Event, Delivery, Endpoint, Statuses
<1> QED
  BY <1>1 DEF Init, Inv, WorkerSane, AttemptSane, DeliverySane, LeaseSane, CountSane, EventSane,
     FoundSane, Posted, Settled, Final, IdleWorker

LEMMA OneMore ==
  ASSUME NEW f \in [Deliveries -> Nat], NEW d \in Deliveries
  PROVE  f[d] + 1 \in Nat /\ [f EXCEPT ![d] = @ + 1] \in [Deliveries -> Nat]
<1>1. f[d] + 1 \in Nat
  <2>1. f[d] \in Nat
    OBVIOUS
  <2> QED
    BY <2>1
<1> QED
  BY <1>1

(* What the invariant says of one worker and one delivery.                 *)
LEMMA Unfold ==
  ASSUME Inv, NEW w \in Workers, NEW d \in Deliveries
  PROVE  /\ worker[w] \in Worker /\ delivery[d] \in Delivery
         /\ attempts[d] \in Nat /\ throws \in Nat
         /\ WorkerSane(w) /\ AttemptSane(w, d) /\ DeliverySane(d)
         /\ LeaseSane(w, d) /\ CountSane(d) /\ EventSane(d) /\ FoundSane(w)
BY DEF Inv, TypeOK

-----------------------------------------------------------------------------
(* Steps that leave the events alone and make no delivery.                 *)
LEMMA EventsKept ==
  ASSUME Inv, event' = event,
         \A d \in Deliveries : /\ delivery'[d].event = delivery[d].event
                               /\ delivery[d].status = "none" => delivery'[d].status = "none"
  PROVE  \A d \in Deliveries : EventSane(d)'
BY DEF Inv, EventSane

LEMMA FoundKept ==
  ASSUME Inv, event' = event,
         \A d \in Deliveries : delivery'[d].event = delivery[d].event,
         NEW w \in Workers,
         worker'[w].at = "updating" /\ worker'[w].outcome = "eventless" =>
           /\ worker[w].at = "updating" /\ worker[w].outcome = "eventless"
           /\ worker'[w].current = worker[w].current
  PROVE  FoundSane(w)'
BY DEF Inv, WorkerSane, FoundSane

(* An event that goes on disturbs no worker and no delivery.               *)
LEMMA EventMoves ==
  ASSUME Inv, NEW e \in Events, NEW x \in Event, event' = [event EXCEPT ![e] = x],
         event[e].lost => x.lost,
         event[e].stage \in {"stored", "routed"} => x.stage \in {"stored", "routed"},
         changes' \in Nat,
         UNCHANGED <<delivery, endpoint, worker, attempts, refused, late, throws, overruns>>
  PROVE  Inv'
<1>1. TypeOK'
  BY DEF Inv, TypeOK
<1>2. \A f \in Events : /\ event[f].lost => event'[f].lost
                        /\ event[f].stage \in {"stored", "routed"} =>
                             event'[f].stage \in {"stored", "routed"}
  BY DEF Inv, TypeOK
<1>3. ASSUME NEW b \in Deliveries PROVE DeliverySane(b)' /\ EventSane(b)'
  BY <1>2, <1>3, Unfold DEF Inv, DeliverySane, EventSane
<1>4. ASSUME NEW v \in Workers PROVE WorkerSane(v)' /\ FoundSane(v)'
  <2>1. WorkerSane(v)'
    BY <1>4 DEF Inv, WorkerSane
  <2>2. FoundSane(v)'
    <3>1. SUFFICES ASSUME worker[v].at = "updating", worker[v].outcome = "eventless"
                   PROVE  event'[delivery[worker[v].current].event].lost
      BY DEF FoundSane
    <3>2. worker[v].current \in Deliveries /\ worker[v].current \in worker[v].left
      BY <1>4, <3>1 DEF Inv, WorkerSane
    <3>3. delivery[worker[v].current].event \in Events
      BY <1>4, <3>2, Unfold DEF DeliverySane, EventSane
    <3> QED
      BY <1>2, <1>4, <3>1, <3>3 DEF Inv, FoundSane
  <2> QED
    BY <2>1, <2>2
<1>5. ASSUME NEW v \in Workers, NEW b \in Deliveries PROVE AttemptSane(v, b)' /\ LeaseSane(v, b)'
  BY <1>5 DEF Inv, AttemptSane, LeaseSane, Posted
<1>6. ASSUME NEW b \in Deliveries PROVE CountSane(b)'
  BY <1>6 DEF Inv, CountSane, Posted, Settled
<1> QED
  BY <1>1, <1>3, <1>4, <1>5, <1>6 DEF Inv

LEMMA MatchEndpointsStep ==
  ASSUME Inv, NEW e \in Events, NEW matching \in SUBSET Endpoints, MatchEndpoints(e, matching)
  PROVE  Inv'
<1>1. UNCHANGED <<delivery, endpoint, worker, attempts, refused, late, throws, overruns>>
  BY DEF MatchEndpoints
<1>2. PICK x \in Event : event' = [event EXCEPT ![e] = x]
                         /\ (event[e].lost => x.lost)
                         /\ (event[e].stage \in {"stored", "routed"} => x.stage \in {"stored", "routed"})
  <2>1. event[e] \in Event /\ event' = [event EXCEPT ![e] = [event[e] EXCEPT !.stage = "matched", !.for = matching]]
    BY DEF MatchEndpoints, Inv, TypeOK
  <2>2. [event[e] EXCEPT !.stage = "matched", !.for = matching] \in Event
    BY <2>1 DEF Event
  <2> QED
    BY <2>1, <2>2 DEF MatchEndpoints, Event, Found
<1>3. changes' \in Nat
  BY DEF MatchEndpoints, Inv, TypeOK
<1> QED
  BY <1>1, <1>2, <1>3, EventMoves

LEMMA StoreEventStep ==
  ASSUME Inv, NEW e \in Events, StoreEvent(e)
  PROVE  Inv'
<1>1. UNCHANGED <<delivery, endpoint, worker, attempts, refused, late, throws, overruns>>
  BY DEF StoreEvent
<1>2. PICK x \in Event : event' = [event EXCEPT ![e] = x]
                         /\ (event[e].lost => x.lost)
                         /\ (event[e].stage \in {"stored", "routed"} => x.stage \in {"stored", "routed"})
  <2>1. event[e] \in Event /\ event' = [event EXCEPT ![e] = [event[e] EXCEPT !.stage = "stored"]]
    BY DEF StoreEvent, Inv, TypeOK
  <2>2. [event[e] EXCEPT !.stage = "stored"] \in Event
    BY <2>1 DEF Event
  <2> QED
    BY <2>1, <2>2 DEF StoreEvent, Event, Found
<1>3. changes' \in Nat
  BY DEF StoreEvent, Inv, TypeOK
<1> QED
  BY <1>1, <1>2, <1>3, EventMoves

LEMMA LoseEventStep ==
  ASSUME Inv, NEW e \in Events, LoseEvent(e)
  PROVE  Inv'
<1>1. UNCHANGED <<delivery, endpoint, worker, attempts, refused, late, throws, overruns>>
  BY DEF LoseEvent
<1>2. PICK x \in Event : event' = [event EXCEPT ![e] = x]
                         /\ (event[e].lost => x.lost)
                         /\ (event[e].stage \in {"stored", "routed"} => x.stage \in {"stored", "routed"})
  <2>1. event[e] \in Event /\ event' = [event EXCEPT ![e] = [event[e] EXCEPT !.lost = TRUE]]
    BY DEF LoseEvent, Inv, TypeOK
  <2>2. [event[e] EXCEPT !.lost = TRUE] \in Event
    BY <2>1 DEF Event
  <2> QED
    BY <2>1, <2>2 DEF LoseEvent, Event, Found
<1>3. changes' \in Nat
  BY DEF LoseEvent, Inv, TypeOK
<1> QED
  BY <1>1, <1>2, <1>3, EventMoves

LEMMA MakeDeliveriesStep ==
  ASSUME Inv, NEW e \in Events, NEW batch \in SUBSET Deliveries, MakeDeliveries(e, batch)
  PROVE  Inv'
<1>0. /\ batch \subseteq Unborn /\ Make(batch, e) /\ event[e].stage = "stored"
      /\ event' = [event EXCEPT ![e].stage = "routed"]
      /\ UNCHANGED <<endpoint, worker, attempts, refused, late, throws, overruns, changes>>
  BY DEF MakeDeliveries
<1>a. \A f \in Events : /\ event'[f].lost = event[f].lost
                        /\ event[f].stage \in {"stored", "routed"} =>
                             event'[f].stage \in {"stored", "routed"}
  BY <1>0 DEF Inv, TypeOK, Event
<1>b. event'[e].stage = "routed"
  BY <1>0 DEF Inv, TypeOK, Event
<1>c. \A v \in Workers : worker[v].at = "updating" =>
        /\ worker[v].current \in Deliveries
        /\ delivery'[worker[v].current] = delivery[worker[v].current]
        /\ delivery[worker[v].current].event \in Events
  <2> TAKE v \in Workers
  <2> HAVE worker[v].at = "updating"
  <2>1. worker[v].current \in Deliveries /\ worker[v].current \in worker[v].left
    BY DEF Inv, WorkerSane
  <2>2. delivery[worker[v].current].status # "none"
    BY <2>1, Unfold DEF DeliverySane
  <2> QED
    BY <1>0, <2>1, <2>2, Unfold DEF EventSane, Make, Unborn
<1>1. TypeOK'
  <2>1. event' \in [Events -> Event]
    <3>1. event \in [Events -> Event] /\ event[e] \in Event
      BY DEF Inv, TypeOK
    <3>2. [event[e] EXCEPT !.stage = "routed"] \in Event
      BY <3>1 DEF Event
    <3>3. event' = [event EXCEPT ![e] = [event[e] EXCEPT !.stage = "routed"]]
      BY <1>0
    <3> QED
      BY <3>1, <3>2, <3>3
  <2>2. delivery' \in [Deliveries -> Delivery]
    BY <1>0 DEF Inv, TypeOK, Make, Unborn, Delivery, Statuses
  <2> QED
    BY <1>0, <2>1, <2>2 DEF Inv, TypeOK
<1>2. ASSUME NEW v \in Workers PROVE WorkerSane(v)'
  BY <1>0, <1>2 DEF Inv, WorkerSane
<1>3. ASSUME NEW v \in Workers, NEW b \in Deliveries PROVE AttemptSane(v, b)'
  BY <1>0, <1>3 DEF Inv, AttemptSane, Posted
<1>4. ASSUME NEW b \in Deliveries PROVE DeliverySane(b)'
  BY <1>0, <1>4, <1>a, Unfold DEF Inv, TypeOK, Make, Unborn, DeliverySane, EventSane
<1>5. ASSUME NEW v \in Workers, NEW b \in Deliveries PROVE LeaseSane(v, b)'
  BY <1>0, <1>5, Unfold DEF Inv, TypeOK, Make, Unborn, DeliverySane, LeaseSane
<1>6. ASSUME NEW b \in Deliveries PROVE CountSane(b)'
  BY <1>0, <1>6 DEF Inv, TypeOK, Make, Unborn, DeliverySane, CountSane, Posted, Settled, Final
<1>7. ASSUME NEW b \in Deliveries PROVE EventSane(b)'
  <2>1. CASE b \in batch
    BY <1>0, <1>7, <1>b, <2>1 DEF Make, EventSane
  <2>2. CASE b \notin batch
    <3>1. delivery'[b] = delivery[b] /\ EventSane(b)
      BY <1>0, <1>7, <2>2 DEF Inv, Make
    <3> QED
      BY <1>a, <3>1 DEF EventSane
  <2> QED
    BY <2>1, <2>2
<1>8. ASSUME NEW v \in Workers PROVE FoundSane(v)'
  BY <1>0, <1>8, <1>a, <1>c, Unfold DEF FoundSane
<1> QED
  BY <1>1, <1>2, <1>3, <1>4, <1>5, <1>6, <1>7, <1>8 DEF Inv

LEMMA ReplayStep ==
  ASSUME Inv, NEW d \in Deliveries, NEW old \in Deliveries, Replay(d, old)
  PROVE  Inv'
<1>1. TypeOK'
  BY IdleIsWorker DEF Inv, TypeOK, Replay, Make, Unborn, Delivery, Endpoint, Worker, Statuses,
     Final, WorkerSane
<1>2. ASSUME NEW v \in Workers PROVE WorkerSane(v)'
  BY <1>2, <1>1 DEF Inv, TypeOK, Replay, Make, Unborn, Worker, Delivery, WorkerSane, Final
<1>3. ASSUME NEW v \in Workers, NEW b \in Deliveries PROVE AttemptSane(v, b)'
  BY <1>3, Unfold DEF Inv, TypeOK, Replay, Make, Unborn, Worker, Delivery, WorkerSane,
     AttemptSane, DeliverySane, Posted
<1>4. ASSUME NEW b \in Deliveries PROVE DeliverySane(b)'
  BY <1>4 DEF Inv, TypeOK, Replay, Make, Unborn, Worker, Delivery, WorkerSane, AttemptSane,
     DeliverySane, Posted
<1>5. ASSUME NEW v \in Workers, NEW b \in Deliveries PROVE LeaseSane(v, b)'
  BY <1>5, Unfold DEF Inv, TypeOK, Replay, Make, Unborn, Worker, Delivery, WorkerSane,
     DeliverySane, LeaseSane
<1>6. ASSUME NEW b \in Deliveries PROVE CountSane(b)'
  BY <1>6 DEF Inv, TypeOK, Replay, Make, Unborn, Worker, Delivery, WorkerSane, DeliverySane,
     LeaseSane, CountSane, Posted, Settled, Final
<1>7. ASSUME NEW b \in Deliveries PROVE EventSane(b)'
  BY <1>7, Unfold DEF Inv, TypeOK, Replay, Make, Unborn, Worker, Delivery, WorkerSane,
     EventSane, Final
<1>8. ASSUME NEW v \in Workers PROVE FoundSane(v)'
  BY <1>8, Unfold DEF Inv, TypeOK, Replay, Make, Unborn, Worker, Delivery, WorkerSane,
     DeliverySane, EventSane, FoundSane
<1> QED
  BY <1>1, <1>2, <1>3, <1>4, <1>5, <1>6, <1>7, <1>8 DEF Inv

LEMMA DisableStep ==
  ASSUME Inv, NEW e \in Endpoints, Disable(e)
  PROVE  Inv'
<1>1. TypeOK'
  <2>1. [endpoint[e] EXCEPT !.status = "disabled"] \in Endpoint
    BY DEF Inv, TypeOK, Endpoint
  <2> QED
    BY <2>1 DEF Inv, TypeOK, Disable
<1>2. ASSUME NEW v \in Workers PROVE WorkerSane(v)'
  BY <1>2, <1>1 DEF Inv, TypeOK, Disable, Worker, Delivery, WorkerSane, Final
<1>3. ASSUME NEW v \in Workers, NEW b \in Deliveries PROVE AttemptSane(v, b)'
  BY <1>3, Unfold DEF Inv, TypeOK, Disable, Worker, Delivery, WorkerSane, AttemptSane,
     DeliverySane, Posted
<1>4. ASSUME NEW b \in Deliveries PROVE DeliverySane(b)'
  BY <1>4 DEF Inv, TypeOK, Disable, Worker, Delivery, WorkerSane, AttemptSane, DeliverySane, Posted
<1>5. ASSUME NEW v \in Workers, NEW b \in Deliveries PROVE LeaseSane(v, b)'
  BY <1>5, Unfold DEF Inv, TypeOK, Disable, Worker, Delivery, WorkerSane, DeliverySane, LeaseSane
<1>6. ASSUME NEW b \in Deliveries PROVE CountSane(b)'
  BY <1>6 DEF Inv, TypeOK, Disable, Worker, Delivery, WorkerSane, DeliverySane, LeaseSane,
     CountSane, Posted, Settled, Final
<1>7. ASSUME NEW b \in Deliveries PROVE EventSane(b)'
  BY <1>7, Unfold DEF Inv, TypeOK, Disable, Worker, Delivery, WorkerSane, EventSane, Final
<1>8. ASSUME NEW v \in Workers PROVE FoundSane(v)'
  BY <1>8, Unfold DEF Inv, TypeOK, Disable, Worker, Delivery, WorkerSane, DeliverySane,
     EventSane, FoundSane
<1> QED
  BY <1>1, <1>2, <1>3, <1>4, <1>5, <1>6, <1>7, <1>8 DEF Inv

LEMMA EnableStep ==
  ASSUME Inv, NEW e \in Endpoints, Enable(e)
  PROVE  Inv'
<1>1. TypeOK'
  BY IdleIsWorker DEF Inv, TypeOK, Enable, Delivery, Endpoint, Worker, Statuses, Final, WorkerSane
<1>2. ASSUME NEW v \in Workers PROVE WorkerSane(v)'
  BY <1>2, <1>1 DEF Inv, TypeOK, Enable, Worker, Delivery, WorkerSane, Final
<1>3. ASSUME NEW v \in Workers, NEW b \in Deliveries PROVE AttemptSane(v, b)'
  BY <1>3, Unfold DEF Inv, TypeOK, Enable, Worker, Delivery, WorkerSane, AttemptSane,
     DeliverySane, Posted
<1>4. ASSUME NEW b \in Deliveries PROVE DeliverySane(b)'
  BY <1>4 DEF Inv, TypeOK, Enable, Worker, Delivery, WorkerSane, AttemptSane, DeliverySane, Posted
<1>5. ASSUME NEW v \in Workers, NEW b \in Deliveries PROVE LeaseSane(v, b)'
  BY <1>5, Unfold DEF Inv, TypeOK, Enable, Worker, Delivery, WorkerSane, DeliverySane, LeaseSane
<1>6. ASSUME NEW b \in Deliveries PROVE CountSane(b)'
  BY <1>6 DEF Inv, TypeOK, Enable, Worker, Delivery, WorkerSane, DeliverySane, LeaseSane,
     CountSane, Posted, Settled, Final
<1>7. ASSUME NEW b \in Deliveries PROVE EventSane(b)'
  BY <1>7, Unfold DEF Inv, TypeOK, Enable, Worker, Delivery, WorkerSane, EventSane, Final
<1>8. ASSUME NEW v \in Workers PROVE FoundSane(v)'
  BY <1>8, Unfold DEF Inv, TypeOK, Enable, Worker, Delivery, WorkerSane, DeliverySane,
     EventSane, FoundSane
<1> QED
  BY <1>1, <1>2, <1>3, <1>4, <1>5, <1>6, <1>7, <1>8 DEF Inv

LEMMA ClaimStep ==
  ASSUME Inv, NEW w \in Workers, NEW batch \in SUBSET Deliveries, Claim(w, batch)
  PROVE  Inv'
<1> DEFINE x == worker'[w]
<1>a. x \in Worker /\ worker' = [worker EXCEPT ![w] = x]
  <2>1. /\ worker \in [Workers -> Worker]
        /\ x = [IdleWorker EXCEPT !.left = batch,
                                  !.seen = [d \in Deliveries |->
                                              IF d \in batch THEN delivery[d].count ELSE 0]]
        /\ worker' = [worker EXCEPT ![w] = x]
    BY DEF Inv, TypeOK, Claim
  <2>2. [d \in Deliveries |-> IF d \in batch THEN delivery[d].count ELSE 0] \in [Deliveries -> Nat]
    BY DEF Inv, TypeOK, Delivery
  <2> QED
    BY <2>1, <2>2, IdleIsWorker DEF Worker
<1>b. /\ x.at = "free" /\ x.left = batch
      /\ \A d \in batch : x.seen[d] = delivery[d].count
  BY DEF Claim, IdleWorker, Inv, TypeOK
<1>c. ASSUME NEW d \in batch
      PROVE  /\ delivery'[d] = [delivery[d] EXCEPT !.status = "delivering", !.leased = TRUE]
             /\ delivery[d].status \in {"pending", "retrying", "delivering"}
             /\ ~delivery[d].leased /\ delivery[d] \in Delivery
  BY <1>c DEF Claim, FirstOf, Eligible, Inv, TypeOK
<1>d. ASSUME NEW d \in Deliveries PROVE d \notin batch => delivery'[d] = delivery[d]
  BY <1>d DEF Claim
<1>e. UNCHANGED <<event, endpoint, attempts, refused, late, throws, overruns, changes>>
  BY DEF Claim
<1>1. TypeOK'
  <2>1. ASSUME NEW d \in Deliveries PROVE delivery'[d] \in Delivery
    <3>1. CASE d \in batch
      BY <1>c, <3>1 DEF Delivery, Statuses
    <3>2. CASE d \notin batch
      BY <1>d, <3>2 DEF Inv, TypeOK
    <3> QED
      BY <3>1, <3>2
  <2>2. delivery' \in [Deliveries -> Delivery]
    BY <2>1 DEF Claim
  <2> QED
    BY <1>a, <1>e, <2>2 DEF Inv, TypeOK
<1>2. ASSUME NEW v \in Workers PROVE WorkerSane(v)'
  BY <1>2, <1>a, <1>b DEF Inv, TypeOK, WorkerSane
<1>3. ASSUME NEW v \in Workers, NEW b \in Deliveries PROVE AttemptSane(v, b)'
  BY <1>3, <1>a, <1>b, <1>e DEF Inv, TypeOK, Worker, Delivery, AttemptSane, DeliverySane, Posted
<1>4. ASSUME NEW b \in Deliveries PROVE DeliverySane(b)'
  <2>0. DeliverySane(b) /\ delivery[b] \in Delivery
    BY <1>4 DEF Inv, TypeOK
  <2>1. CASE b \in batch
    <3>1. delivery'[b].count = delivery[b].count /\ delivery'[b].status = "delivering"
      BY <1>c, <2>1 DEF Delivery
    <3> QED
      BY <1>e, <2>0, <3>1 DEF DeliverySane
  <2>2. CASE b \notin batch
    <3>1. \A v \in Workers : b \notin worker[v].left => b \notin worker'[v].left
      BY <1>a, <1>b, <2>2 DEF Inv, TypeOK
    <3> QED
      BY <1>d, <1>e, <1>4, <2>0, <2>2, <3>1 DEF DeliverySane
  <2> QED
    BY <2>1, <2>2
<1>5. ASSUME NEW v \in Workers, NEW b \in Deliveries PROVE LeaseSane(v, b)'
  <2>0. ASSUME b \notin late, NEW u \in Workers, u # w
        PROVE  b \in worker'[u].left => b \in worker[u].left /\ delivery[b].leased
    BY <1>5, <1>a, <2>0 DEF Inv, TypeOK, LeaseSane
  <2>1. CASE b \in batch
    <3>1. /\ delivery'[b].status = "delivering" /\ delivery'[b].leased
          /\ delivery'[b].count = delivery[b].count /\ ~delivery[b].leased
      BY <1>c, <2>1 DEF Delivery
    <3> QED
      BY <1>5, <1>b, <1>e, <2>0, <2>1, <3>1 DEF LeaseSane
  <2>2. CASE b \notin batch
    <3>1. worker'[v] = worker[v] \/ v = w
      BY <1>5, <1>a DEF Inv, TypeOK
    <3>2. CASE v = w
      BY <1>b, <2>2, <3>2 DEF LeaseSane
    <3>3. CASE v # w
      <4>1. LeaseSane(v, b) /\ worker'[v] = worker[v] /\ delivery'[b] = delivery[b]
        BY <1>5, <1>d, <2>2, <3>1, <3>3 DEF Inv
      <4>2. \A u \in Workers : b \in worker'[u].left => b \in worker[u].left
        BY <1>a, <1>b, <2>2 DEF Inv, TypeOK
      <4> QED
        BY <1>e, <4>1, <4>2 DEF LeaseSane
    <3> QED
      BY <3>2, <3>3
  <2> QED
    BY <2>1, <2>2
<1>6. ASSUME NEW b \in Deliveries PROVE CountSane(b)'
  <2>1. delivery'[b].count = delivery[b].count /\ (Settled(b)' <=> Settled(b))
    BY ZenonT(40), <1>6, <1>c, <1>d DEF Delivery, Settled, Final
  <2>2. ASSUME NEW v \in Workers, Posted(v, b) PROVE Posted(v, b)'
    BY <2>2, <1>a DEF Claim, Posted, Inv, TypeOK
  <2> QED
    BY <1>6, <1>e, <2>1, <2>2 DEF Inv, CountSane
<1>f. \A d \in Deliveries : /\ delivery'[d].event = delivery[d].event
                            /\ delivery[d].status = "none" => delivery'[d].status = "none"
  BY <1>c, <1>d DEF Delivery
<1>7. \A b \in Deliveries : EventSane(b)'
  BY <1>e, <1>f, EventsKept
<1>8. ASSUME NEW v \in Workers PROVE FoundSane(v)'
  <2>1. worker'[v] = worker[v] \/ worker'[v].at = "free"
    BY <1>8, <1>a, <1>b DEF Inv, TypeOK
  <2> QED
    BY <1>8, <1>e, <1>f, <2>1, FoundKept
<1> QED
  BY <1>1, <1>2, <1>3, <1>4, <1>5, <1>6, <1>7, <1>8 DEF Inv

LEMMA FetchStep ==
  ASSUME Inv, NEW w \in Workers, NEW d \in Deliveries, Fetch(w, d)
  PROVE  Inv'
<1>1. TypeOK'
  BY IdleIsWorker DEF Inv, TypeOK, Fetch, Delivery, Endpoint, Worker, Statuses, Final, WorkerSane
<1>2. ASSUME NEW v \in Workers PROVE WorkerSane(v)'
  BY SMTT(30), <1>2, <1>1 DEF Inv, TypeOK, Fetch, Worker, Delivery, WorkerSane, Final
<1>3. ASSUME NEW v \in Workers, NEW b \in Deliveries PROVE AttemptSane(v, b)'
  BY <1>3, Unfold DEF Inv, TypeOK, Fetch, Worker, Delivery, WorkerSane, AttemptSane,
     DeliverySane, Posted
<1>4. ASSUME NEW b \in Deliveries PROVE DeliverySane(b)'
  BY <1>4 DEF Inv, TypeOK, Fetch, Worker, Delivery, WorkerSane, AttemptSane, DeliverySane, Posted
<1>5. ASSUME NEW v \in Workers, NEW b \in Deliveries PROVE LeaseSane(v, b)'
  BY <1>5, Unfold DEF Inv, TypeOK, Fetch, Worker, Delivery, WorkerSane, DeliverySane, LeaseSane
<1>6. ASSUME NEW b \in Deliveries PROVE CountSane(b)'
  BY <1>6 DEF Inv, TypeOK, Fetch, Worker, Delivery, WorkerSane, DeliverySane, LeaseSane,
     CountSane, Posted, Settled, Final
<1>7. ASSUME NEW b \in Deliveries PROVE EventSane(b)'
  BY <1>7, Unfold DEF Inv, TypeOK, Fetch, Found, Worker, Delivery, WorkerSane, EventSane, Final
<1>8. ASSUME NEW v \in Workers PROVE FoundSane(v)'
  <2>1. CASE v # w
    <3>1. worker'[v] = worker[v] /\ event' = event /\ delivery' = delivery
      BY <1>8, <2>1 DEF Inv, TypeOK, Fetch
    <3> QED
      BY <1>8, <3>1, FoundKept
  <2>2. CASE v = w
    <3>1. d \in worker[w].left
      BY DEF Fetch
    <3>2. EventSane(d) /\ delivery[d].status # "none"
      BY <3>1, Unfold DEF DeliverySane
    <3>3. worker'[w].current = d
      BY DEF Inv, TypeOK, Worker, Fetch
    <3>4. worker'[w].at = "updating" => ~Found(delivery[d].event)
      BY DEF Inv, TypeOK, Worker, Fetch
    <3> QED
      BY <2>2, <3>2, <3>3, <3>4 DEF Fetch, FoundSane, EventSane, Found
  <2> QED
    BY <2>1, <2>2
<1> QED
  BY <1>1, <1>2, <1>3, <1>4, <1>5, <1>6, <1>7, <1>8 DEF Inv

LEMMA FetchEndpointStep ==
  ASSUME Inv, NEW w \in Workers, FetchEndpoint(w)
  PROVE  Inv'
<1>0. /\ worker[w].at = "fetching"
      /\ UNCHANGED <<event, delivery, endpoint, attempts, refused, late, throws, overruns, changes>>
  BY DEF FetchEndpoint
<1>a. PICK x \in Worker :
        /\ worker' = [worker EXCEPT ![w] = x]
        /\ x.left = worker[w].left /\ x.seen = worker[w].seen /\ x.current = worker[w].current
        /\ x.at = "posting" \/ (x.at = "updating" /\ x.outcome = "cancelled")
  <2>1. worker[w] \in Worker
    BY DEF Inv, TypeOK
  <2>2. PICK a \in {"posting", "updating"}, o \in {"none", "cancelled"} :
          /\ a = "updating" => o = "cancelled"
          /\ worker' = [worker EXCEPT ![w].at = a, ![w].outcome = o]
    BY DEF FetchEndpoint
  <2>3. [worker[w] EXCEPT !.at = a, !.outcome = o] \in Worker
    BY <2>1 DEF Worker, Final
  <2>4. worker' = [worker EXCEPT ![w] = [worker[w] EXCEPT !.at = a, !.outcome = o]]
    BY <2>2 DEF Inv, TypeOK
  <2> QED
    BY <2>1, <2>2, <2>3, <2>4 DEF Worker
<1>1. TypeOK'
  BY <1>0, <1>a DEF Inv, TypeOK
<1>2. ASSUME NEW v \in Workers PROVE WorkerSane(v)'
  BY <1>0, <1>2, <1>a DEF Inv, TypeOK, WorkerSane
<1>3. ASSUME NEW v \in Workers, NEW b \in Deliveries PROVE AttemptSane(v, b)'
  BY <1>0, <1>3, <1>a, Unfold DEF Inv, TypeOK, AttemptSane, Posted, Unattempted
<1>4. ASSUME NEW b \in Deliveries PROVE DeliverySane(b)'
  BY <1>4 DEF Inv, TypeOK, FetchEndpoint, Worker, Delivery, WorkerSane, AttemptSane,
     DeliverySane, Posted
<1>5. ASSUME NEW v \in Workers, NEW b \in Deliveries PROVE LeaseSane(v, b)'
  BY <1>5, Unfold DEF Inv, TypeOK, FetchEndpoint, Worker, Delivery, WorkerSane, DeliverySane,
     LeaseSane
<1>6. ASSUME NEW b \in Deliveries PROVE CountSane(b)'
  <2>1. \A v \in Workers : Posted(v, b) => Posted(v, b)'
    BY <1>0, <1>a DEF Inv, TypeOK, Posted
  <2> QED
    BY <1>0, <1>6, <2>1 DEF Inv, CountSane, Settled
<1>7. ASSUME NEW b \in Deliveries PROVE EventSane(b)'
  BY <1>7, Unfold DEF Inv, TypeOK, FetchEndpoint, Worker, Delivery, WorkerSane, EventSane, Final
<1>8. ASSUME NEW v \in Workers PROVE FoundSane(v)'
  <2>1. worker'[v] = worker[v] \/ worker'[v].at = "posting" \/ worker'[v].outcome = "cancelled"
    BY <1>8, <1>a DEF Inv, TypeOK
  <2> QED
    BY <1>0, <1>8, <2>1, FoundKept
<1> QED
  BY <1>1, <1>2, <1>3, <1>4, <1>5, <1>6, <1>7, <1>8 DEF Inv

LEMMA PostStep ==
  ASSUME Inv, NEW w \in Workers, NEW answer \in {"accepted", "refused", "transient"}, Post(w, answer)
  PROVE  Inv'
<1>1. TypeOK'
  <2>1. worker[w] \in Worker /\ worker[w].current \in Deliveries
    BY DEF Inv, TypeOK, Post, WorkerSane
  <2>2. worker'[w] \in Worker /\ worker' = [worker EXCEPT ![w] = worker'[w]]
    BY <2>1 DEF Inv, TypeOK, Post, Classify, Worker, Final
  <2>3. attempts' \in [Deliveries -> Nat]
    BY <2>1, OneMore DEF Inv, TypeOK, Post
  <2> QED
    BY <2>1, <2>2, <2>3 DEF Inv, TypeOK, Post
<1>2. ASSUME NEW v \in Workers PROVE WorkerSane(v)'
  BY <1>2, <1>1 DEF Inv, TypeOK, Post, Classify, Worker, Delivery, WorkerSane, Final
<1>3. ASSUME NEW v \in Workers, NEW b \in Deliveries PROVE AttemptSane(v, b)'
  BY <1>3, Unfold DEF Inv, TypeOK, Post, Classify, Worker, Delivery, WorkerSane, AttemptSane,
     DeliverySane, Posted
<1>4. ASSUME NEW b \in Deliveries PROVE DeliverySane(b)'
  BY <1>4 DEF Inv, TypeOK, Post, Classify, Worker, Delivery, WorkerSane, AttemptSane,
     DeliverySane, Posted
<1>5. ASSUME NEW v \in Workers, NEW b \in Deliveries PROVE LeaseSane(v, b)'
  BY <1>5, Unfold DEF Inv, TypeOK, Post, Classify, Worker, Delivery, WorkerSane, DeliverySane,
     LeaseSane
<1>6. ASSUME NEW b \in Deliveries PROVE CountSane(b)'
  <2>1. worker[w] \in Worker /\ worker[w].current \in Deliveries /\ w \in Workers
    BY DEF Inv, TypeOK, Post, WorkerSane
  <2>2. CASE b = worker[w].current
    <3>1. \A v \in Workers : b \notin late => ~Posted(v, b)
      BY <2>1, <2>2 DEF Inv, LeaseSane, WorkerSane, Post, Posted
    <3>2. Posted(w, b)'
      BY <2>1, <2>2 DEF Post, Posted, Classify, Unattempted, Inv, TypeOK
    <3>3. attempts'[b] = attempts[b] + 1 /\ UNCHANGED <<delivery, late, throws>>
      BY <1>6, <2>1, <2>2 DEF Post, Inv, TypeOK
    <3> QED
      BY <1>6, <3>1, <3>2, <3>3 DEF Inv, TypeOK, Delivery, CountSane, Settled
  <2>3. CASE b # worker[w].current
    <3>1. \A v \in Workers : Posted(v, b) => Posted(v, b)'
      BY <2>1, <2>3 DEF Post, Posted, Inv, TypeOK
    <3>2. attempts'[b] = attempts[b] /\ UNCHANGED <<delivery, late, throws>>
      BY <1>6, <2>1, <2>3 DEF Post, Inv, TypeOK
    <3> QED
      BY <1>6, <3>1, <3>2 DEF Inv, CountSane, Settled
  <2> QED
    BY <2>2, <2>3
<1>7. ASSUME NEW b \in Deliveries PROVE EventSane(b)'
  BY <1>7, Unfold DEF Inv, TypeOK, Post, Classify, Worker, Delivery, WorkerSane, EventSane, Final
<1>8. ASSUME NEW v \in Workers PROVE FoundSane(v)'
  BY <1>8, Unfold DEF Inv, TypeOK, Post, Classify, Worker, Delivery, WorkerSane, DeliverySane,
     EventSane, FoundSane
<1> QED
  BY <1>1, <1>2, <1>3, <1>4, <1>5, <1>6, <1>7, <1>8 DEF Inv

LEMMA UpdateStep ==
  ASSUME Inv, NEW w \in Workers, Update(w)
  PROVE  Inv'
<1>1. TypeOK'
  <2>1. /\ worker[w] \in Worker /\ worker[w].current \in Deliveries
        /\ worker[w].outcome # "none" /\ delivery \in [Deliveries -> Delivery]
    BY DEF Inv, TypeOK, Update, WorkerSane
  <2>2. worker'[w] \in Worker /\ worker' = [worker EXCEPT ![w] = worker'[w]]
    BY <2>1 DEF Inv, TypeOK, Update, Goes, IdleWorker, Worker, Endpoint
  <2>3. PICK x : delivery' = [delivery EXCEPT ![worker[w].current] = x] /\
          x = [status |-> IF worker[w].outcome = "eventless" THEN "dead_letter"
                          ELSE worker[w].outcome,
               event  |-> delivery[worker[w].current].event, leased |-> FALSE,
               count  |-> IF worker[w].outcome \in Unattempted
                          THEN delivery[worker[w].current].count
                          ELSE worker[w].seen[worker[w].current] + 1,
               due    |-> IF worker[w].outcome = "retrying" THEN FALSE
                          ELSE delivery[worker[w].current].due]
    BY <2>1 DEF Update
  <2>4. x \in Delivery
    <3>1. delivery[worker[w].current] \in Delivery /\ worker[w].seen \in [Deliveries -> Nat]
      BY <2>1 DEF Worker
    <3>2. worker[w].seen[worker[w].current] + 1 \in Nat
      BY <2>1, <3>1, OneMore
    <3> QED
      BY <2>1, <2>3, <3>1, <3>2 DEF Worker, Delivery, Statuses, Final
  <2> QED
    BY <2>1, <2>2, <2>3, <2>4 DEF Inv, TypeOK, Update
<1>2. ASSUME NEW v \in Workers PROVE WorkerSane(v)'
  BY <1>2, <1>1 DEF Inv, TypeOK, Update, Goes, IdleWorker, Worker, Delivery, WorkerSane, Final
<1>3. ASSUME NEW v \in Workers, NEW b \in Deliveries PROVE AttemptSane(v, b)'
  BY <1>3, Unfold DEF Inv, TypeOK, Update, Goes, IdleWorker, Worker, Delivery, WorkerSane,
     AttemptSane, DeliverySane, Posted
<1>a. /\ worker[w].at = "updating" /\ worker[w] \in Worker /\ WorkerSane(w)
      /\ worker[w].current \in Deliveries /\ worker[w].current \in worker[w].left
      /\ delivery \in [Deliveries -> Delivery] /\ event' = event
      /\ UNCHANGED <<attempts, refused, throws>>
  BY DEF Inv, TypeOK, Update, WorkerSane
<1>b. LET x == delivery'[worker[w].current]
          o == worker[w].outcome
      IN  /\ x.event = delivery[worker[w].current].event
          /\ x.status = IF o = "eventless" THEN "dead_letter" ELSE o
          /\ x.count = IF o \in Unattempted THEN delivery[worker[w].current].count
                       ELSE worker[w].seen[worker[w].current] + 1
  BY <1>a DEF Update
<1>c. \A d \in Deliveries : d # worker[w].current => delivery'[d] = delivery[d]
  BY <1>a DEF Update
<1>d. \A v \in Workers : \/ v # w /\ worker'[v] = worker[v]
                         \/ v = w /\ worker'[v].at \in {"free", "scoring"}
                                  /\ worker'[v].left \subseteq worker[w].left
  <2>1. worker \in [Workers -> Worker]
    BY DEF Inv, TypeOK
  <2>2. PICK x : worker' = [worker EXCEPT ![w] = x]
                 /\ x = IF worker[w].outcome \in Unattempted THEN Goes(w, worker[w].current)
                        ELSE [Goes(w, worker[w].current) EXCEPT
                                !.at = "scoring", !.current = worker[w].current,
                                !.outcome = worker[w].outcome]
    BY DEF Update
  <2>3. x.at \in {"free", "scoring"} /\ x.left = worker[w].left \ {worker[w].current}
    BY <2>2 DEF Goes, IdleWorker
  <2> QED
    BY <2>1, <2>2, <2>3
<1>e. \A d \in Deliveries : /\ delivery'[d].event = delivery[d].event
                            /\ delivery[d].status = "none" => delivery'[d].status = "none"
  BY <1>a, <1>b, <1>c, Unfold DEF DeliverySane
<1>4. ASSUME NEW b \in Deliveries PROVE DeliverySane(b)'
  <2>1. CASE b # worker[w].current
    <3>1. DeliverySane(b) /\ delivery'[b] = delivery[b] /\ w \in Workers
      BY <1>4, <1>c, <2>1, Unfold
    <3>2. \A v \in Workers : b \notin worker[v].left => b \notin worker'[v].left
      BY <1>d
    <3> QED
      BY <1>a, <3>1, <3>2 DEF DeliverySane
  <2>2. CASE b = worker[w].current
    <3>1. AttemptSane(w, b) /\ DeliverySane(b) /\ FoundSane(w)
          /\ attempts[b] \in Nat /\ worker[w].seen[b] \in Nat
      BY <1>4, <1>a, Unfold DEF Worker
    <3>2. delivery'[b].status # "none" /\ delivery'[b].count <= attempts[b]
      BY <1>a, <1>b, <2>2, <3>1 DEF WorkerSane, Worker, Final, AttemptSane, DeliverySane, Posted
    <3>3. delivery'[b].status = "dead_letter" =>
            b \in refused \/ attempts[b] >= MaxAttempts \/ event[delivery[b].event].lost
      BY <1>a, <1>b, <2>2, <3>1 DEF AttemptSane, FoundSane, Posted, Unattempted
    <3> QED
      BY <1>a, <1>e, <3>2, <3>3 DEF DeliverySane
  <2> QED
    BY <2>1, <2>2
<1>5. ASSUME NEW v \in Workers, NEW b \in Deliveries PROVE LeaseSane(v, b)'
  BY <1>5, Unfold DEF Inv, TypeOK, Update, Goes, IdleWorker, Worker, Delivery, WorkerSane,
     DeliverySane, LeaseSane
<1>6. ASSUME NEW b \in Deliveries PROVE CountSane(b)'
  BY <1>6 DEF Inv, TypeOK, Update, Goes, IdleWorker, Worker, Delivery, WorkerSane, DeliverySane,
     LeaseSane, CountSane, Posted, Settled, Final
<1>7. \A b \in Deliveries : EventSane(b)'
  BY <1>a, <1>e, EventsKept
<1>8. ASSUME NEW v \in Workers PROVE FoundSane(v)'
  BY <1>8, <1>a, <1>d, <1>e, FoundKept
<1> QED
  BY <1>1, <1>2, <1>3, <1>4, <1>5, <1>6, <1>7, <1>8 DEF Inv

LEMMA ReadScoreStep ==
  ASSUME Inv, NEW w \in Workers, ReadScore(w)
  PROVE  Inv'
<1>1. TypeOK'
  <2>1. /\ worker[w] \in Worker /\ worker[w].current \in Deliveries
        /\ endpoint[EndpointOf[worker[w].current]] \in Endpoint
    BY DEF Inv, TypeOK, ReadScore, WorkerSane
  <2>2. worker'[w] \in Worker /\ worker' = [worker EXCEPT ![w] = worker'[w]]
    <3>1. worker \in [Workers -> Worker]
          /\ worker' = [worker EXCEPT ![w] = [worker[w] EXCEPT !.at = "writing",
                                         !.read = endpoint[EndpointOf[worker[w].current]]]]
      BY DEF Inv, TypeOK, ReadScore
    <3>2. [worker[w] EXCEPT !.at = "writing",
                            !.read = endpoint[EndpointOf[worker[w].current]]] \in Worker
      BY <2>1 DEF Worker
    <3> QED
      BY <3>1, <3>2
  <2> QED
    BY <2>2 DEF Inv, TypeOK, ReadScore
<1>2. ASSUME NEW v \in Workers PROVE WorkerSane(v)'
  BY <1>2, <1>1 DEF Inv, TypeOK, ReadScore, Worker, Delivery, WorkerSane, Final
<1>3. ASSUME NEW v \in Workers, NEW b \in Deliveries PROVE AttemptSane(v, b)'
  BY <1>3, Unfold DEF Inv, TypeOK, ReadScore, Worker, Delivery, WorkerSane, AttemptSane,
     DeliverySane, Posted
<1>4. ASSUME NEW b \in Deliveries PROVE DeliverySane(b)'
  BY <1>4 DEF Inv, TypeOK, ReadScore, Worker, Delivery, WorkerSane, AttemptSane, DeliverySane,
     Posted
<1>5. ASSUME NEW v \in Workers, NEW b \in Deliveries PROVE LeaseSane(v, b)'
  BY <1>5, Unfold DEF Inv, TypeOK, ReadScore, Worker, Delivery, WorkerSane, DeliverySane, LeaseSane
<1>6. ASSUME NEW b \in Deliveries PROVE CountSane(b)'
  BY <1>6 DEF Inv, TypeOK, ReadScore, Worker, Delivery, WorkerSane, DeliverySane, LeaseSane,
     CountSane, Posted, Settled, Final
<1>7. ASSUME NEW b \in Deliveries PROVE EventSane(b)'
  BY <1>7, Unfold DEF Inv, TypeOK, ReadScore, Worker, Delivery, WorkerSane, EventSane, Final
<1>8. ASSUME NEW v \in Workers PROVE FoundSane(v)'
  BY <1>8, Unfold DEF Inv, TypeOK, ReadScore, Worker, Delivery, WorkerSane, DeliverySane,
     EventSane, FoundSane
<1> QED
  BY <1>1, <1>2, <1>3, <1>4, <1>5, <1>6, <1>7, <1>8 DEF Inv

LEMMA WriteScoreStep ==
  ASSUME Inv, NEW w \in Workers, WriteScore(w)
  PROVE  Inv'
<1>1. TypeOK'
  <2>1. worker[w] \in Worker /\ worker[w].read \in Endpoint
    BY DEF Inv, TypeOK, Worker
  <2>2. worker'[w] \in Worker /\ worker' = [worker EXCEPT ![w] = worker'[w]]
    BY <2>1 DEF Inv, TypeOK, WriteScore, Goes, IdleWorker, Worker, Endpoint
  <2>3. \A won \in BOOLEAN : Scored(worker[w].read, won) \in Endpoint
    BY <2>1 DEF Scored, Endpoint
  <2> QED
    BY <2>2, <2>3 DEF Inv, TypeOK, WriteScore
<1>2. ASSUME NEW v \in Workers PROVE WorkerSane(v)'
  BY <1>2, <1>1 DEF Inv, TypeOK, WriteScore, Goes, IdleWorker, Scored, Worker, Delivery,
     WorkerSane, Final
<1>3. ASSUME NEW v \in Workers, NEW b \in Deliveries PROVE AttemptSane(v, b)'
  BY <1>3, Unfold DEF Inv, TypeOK, WriteScore, Goes, IdleWorker, Scored, Worker, Delivery,
     WorkerSane, AttemptSane, DeliverySane, Posted
<1>4. ASSUME NEW b \in Deliveries PROVE DeliverySane(b)'
  BY <1>4 DEF Inv, TypeOK, WriteScore, Goes, IdleWorker, Scored, Worker, Delivery, WorkerSane,
     AttemptSane, DeliverySane, Posted
<1>5. ASSUME NEW v \in Workers, NEW b \in Deliveries PROVE LeaseSane(v, b)'
  BY <1>5, Unfold DEF Inv, TypeOK, WriteScore, Goes, IdleWorker, Scored, Worker, Delivery,
     WorkerSane, DeliverySane, LeaseSane
<1>6. ASSUME NEW b \in Deliveries PROVE CountSane(b)'
  BY <1>6 DEF Inv, TypeOK, WriteScore, Goes, IdleWorker, Scored, Worker, Delivery, WorkerSane,
     DeliverySane, LeaseSane, CountSane, Posted, Settled, Final
<1>7. ASSUME NEW b \in Deliveries PROVE EventSane(b)'
  BY <1>7, Unfold DEF Inv, TypeOK, WriteScore, Goes, IdleWorker, Worker, Delivery, WorkerSane,
     EventSane, Final
<1>8. ASSUME NEW v \in Workers PROVE FoundSane(v)'
  BY <1>8, Unfold DEF Inv, TypeOK, WriteScore, Goes, IdleWorker, Worker, Delivery, WorkerSane,
     DeliverySane, EventSane, FoundSane
<1> QED
  BY <1>1, <1>2, <1>3, <1>4, <1>5, <1>6, <1>7, <1>8 DEF Inv

LEMMA ThrowStep ==
  ASSUME Inv, NEW w \in Workers, Throw(w)
  PROVE  Inv'
<1>1. TypeOK'
  BY IdleIsWorker DEF Inv, TypeOK, Throw, IdleWorker, Delivery, Endpoint, Worker, Statuses,
     Final, WorkerSane
<1>2. ASSUME NEW v \in Workers PROVE WorkerSane(v)'
  BY <1>2, <1>1 DEF Inv, TypeOK, Throw, IdleWorker, Worker, Delivery, WorkerSane, Final
<1>3. ASSUME NEW v \in Workers, NEW b \in Deliveries PROVE AttemptSane(v, b)'
  BY <1>3, Unfold DEF Inv, TypeOK, Throw, IdleWorker, Worker, Delivery, WorkerSane, AttemptSane,
     DeliverySane, Posted
<1>4. ASSUME NEW b \in Deliveries PROVE DeliverySane(b)'
  BY <1>4 DEF Inv, TypeOK, Throw, IdleWorker, Worker, Delivery, WorkerSane, AttemptSane,
     DeliverySane, Posted
<1>5. ASSUME NEW v \in Workers, NEW b \in Deliveries PROVE LeaseSane(v, b)'
  BY <1>5, Unfold DEF Inv, TypeOK, Throw, IdleWorker, Worker, Delivery, WorkerSane,
     DeliverySane, LeaseSane
<1>6. ASSUME NEW b \in Deliveries PROVE CountSane(b)'
  BY <1>6 DEF Inv, TypeOK, Throw, IdleWorker, Worker, Delivery, WorkerSane, DeliverySane,
     LeaseSane, CountSane, Posted, Settled, Final
<1>7. ASSUME NEW b \in Deliveries PROVE EventSane(b)'
  BY <1>7, Unfold DEF Inv, TypeOK, Throw, IdleWorker, Worker, Delivery, WorkerSane, EventSane, Final
<1>8. ASSUME NEW v \in Workers PROVE FoundSane(v)'
  BY <1>8, Unfold DEF Inv, TypeOK, Throw, IdleWorker, Worker, Delivery, WorkerSane,
     DeliverySane, EventSane, FoundSane
<1> QED
  BY <1>1, <1>2, <1>3, <1>4, <1>5, <1>6, <1>7, <1>8 DEF Inv

LEMMA LeaseRunsOutStep ==
  ASSUME Inv, NEW d \in Deliveries, LeaseRunsOut(d)
  PROVE  Inv'
<1>1. TypeOK'
  <2>1. delivery[d] \in Delivery
    BY DEF Inv, TypeOK
  <2>2. [delivery[d] EXCEPT !.leased = FALSE] \in Delivery
    BY <2>1 DEF Delivery
  <2> QED
    BY <2>2 DEF Inv, TypeOK, LeaseRunsOut
<1>2. ASSUME NEW v \in Workers PROVE WorkerSane(v)'
  BY <1>2, <1>1 DEF Inv, TypeOK, LeaseRunsOut, Worker, Delivery, WorkerSane, Final
<1>3. ASSUME NEW v \in Workers, NEW b \in Deliveries PROVE AttemptSane(v, b)'
  BY <1>3, Unfold DEF Inv, TypeOK, LeaseRunsOut, Worker, Delivery, WorkerSane, AttemptSane,
     DeliverySane, Posted
<1>4. ASSUME NEW b \in Deliveries PROVE DeliverySane(b)'
  BY <1>4 DEF Inv, TypeOK, LeaseRunsOut, Worker, Delivery, WorkerSane, AttemptSane,
     DeliverySane, Posted
<1>5. ASSUME NEW v \in Workers, NEW b \in Deliveries PROVE LeaseSane(v, b)'
  BY <1>5, Unfold DEF Inv, TypeOK, LeaseRunsOut, Worker, Delivery, WorkerSane, DeliverySane,
     LeaseSane
<1>6. ASSUME NEW b \in Deliveries PROVE CountSane(b)'
  BY <1>6 DEF Inv, TypeOK, LeaseRunsOut, Worker, Delivery, WorkerSane, DeliverySane, LeaseSane,
     CountSane, Posted, Settled, Final
<1>7. ASSUME NEW b \in Deliveries PROVE EventSane(b)'
  BY <1>7, Unfold DEF Inv, TypeOK, LeaseRunsOut, Worker, Delivery, WorkerSane, EventSane, Final
<1>8. ASSUME NEW v \in Workers PROVE FoundSane(v)'
  BY <1>8, Unfold DEF Inv, TypeOK, LeaseRunsOut, Worker, Delivery, WorkerSane, DeliverySane,
     EventSane, FoundSane
<1> QED
  BY <1>1, <1>2, <1>3, <1>4, <1>5, <1>6, <1>7, <1>8 DEF Inv

LEMMA FallsDueStep ==
  ASSUME Inv, NEW d \in Deliveries, FallsDue(d)
  PROVE  Inv'
<1>1. TypeOK'
  <2>1. delivery[d] \in Delivery
    BY DEF Inv, TypeOK
  <2>2. [delivery[d] EXCEPT !.due = TRUE] \in Delivery
    BY <2>1 DEF Delivery
  <2> QED
    BY <2>2 DEF Inv, TypeOK, FallsDue
<1>2. ASSUME NEW v \in Workers PROVE WorkerSane(v)'
  BY <1>2, <1>1 DEF Inv, TypeOK, FallsDue, Worker, Delivery, WorkerSane, Final
<1>3. ASSUME NEW v \in Workers, NEW b \in Deliveries PROVE AttemptSane(v, b)'
  BY <1>3, Unfold DEF Inv, TypeOK, FallsDue, Worker, Delivery, WorkerSane, AttemptSane,
     DeliverySane, Posted
<1>4. ASSUME NEW b \in Deliveries PROVE DeliverySane(b)'
  BY <1>4 DEF Inv, TypeOK, FallsDue, Worker, Delivery, WorkerSane, AttemptSane, DeliverySane, Posted
<1>5. ASSUME NEW v \in Workers, NEW b \in Deliveries PROVE LeaseSane(v, b)'
  BY <1>5, Unfold DEF Inv, TypeOK, FallsDue, Worker, Delivery, WorkerSane, DeliverySane, LeaseSane
<1>6. ASSUME NEW b \in Deliveries PROVE CountSane(b)'
  BY <1>6 DEF Inv, TypeOK, FallsDue, Worker, Delivery, WorkerSane, DeliverySane, LeaseSane,
     CountSane, Posted, Settled, Final
<1>7. ASSUME NEW b \in Deliveries PROVE EventSane(b)'
  BY <1>7, Unfold DEF Inv, TypeOK, FallsDue, Worker, Delivery, WorkerSane, EventSane, Final
<1>8. ASSUME NEW v \in Workers PROVE FoundSane(v)'
  BY <1>8, Unfold DEF Inv, TypeOK, FallsDue, Worker, Delivery, WorkerSane, DeliverySane,
     EventSane, FoundSane
<1> QED
  BY <1>1, <1>2, <1>3, <1>4, <1>5, <1>6, <1>7, <1>8 DEF Inv

-----------------------------------------------------------------------------
LEMMA NextInv == Inv /\ [Next]_vars => Inv'
<1> SUFFICES ASSUME Inv, [Next]_vars PROVE Inv'
  OBVIOUS
<1>1. CASE UNCHANGED vars
  <2>1. TypeOK'
    BY <1>1 DEF vars, Inv, TypeOK
  <2>2. \A w \in Workers : WorkerSane(w)'
    BY <1>1 DEF vars, Inv, WorkerSane
  <2>3. \A w \in Workers, d \in Deliveries : AttemptSane(w, d)'
    BY <1>1 DEF vars, Inv, AttemptSane, Posted
  <2>4. \A d \in Deliveries : DeliverySane(d)'
    BY <1>1 DEF vars, Inv, DeliverySane
  <2>5. \A w \in Workers, d \in Deliveries : LeaseSane(w, d)'
    BY <1>1 DEF vars, Inv, LeaseSane
  <2>6. \A d \in Deliveries : CountSane(d)'
    BY <1>1 DEF vars, Inv, CountSane, Posted, Settled
  <2>7. \A d \in Deliveries : EventSane(d)'
    BY <1>1 DEF vars, Inv, EventSane
  <2>8. \A w \in Workers : FoundSane(w)'
    BY <1>1 DEF vars, Inv, FoundSane
  <2> QED
    BY <2>1, <2>2, <2>3, <2>4, <2>5, <2>6, <2>7, <2>8 DEF Inv
<1>2. ASSUME NEW w \in Workers, Works(w) PROVE Inv'
  BY <1>2, ClaimStep, FetchStep, FetchEndpointStep, PostStep, UpdateStep, ReadScoreStep,
     WriteScoreStep DEF Works
<1> QED
  BY <1>1, <1>2, MatchEndpointsStep, StoreEventStep, MakeDeliveriesStep, LoseEventStep,
     ReplayStep, DisableStep, EnableStep, ThrowStep, LeaseRunsOutStep, FallsDueStep DEF Next

LEMMA Invariance == Spec => []Inv
BY InitInv, NextInv, PTL DEF Spec

-----------------------------------------------------------------------------
(* Every variable keeps its type.                                          *)
THEOREM TypeCorrect == Spec => []TypeOK
<1>1. Inv => TypeOK
  BY DEF Inv
<1> QED
  BY <1>1, Invariance, PTL

(* A dead letter has had all its attempts, was refused for good, or is for *)
(* an event the store lost: never for one that was not stored yet.         *)
THEOREM NoEarlyDeadLetter == Spec => []DeadLetterIsEarned
<1>1. Inv => DeadLetterIsEarned
  BY DEF Inv, DeliverySane, DeadLetterIsEarned
<1> QED
  BY <1>1, Invariance, PTL

(* Attempts beyond the policy's are those whose outcome was lost.          *)
THEOREM PolicyLimitsAttempts == Spec => []AttemptsBounded
<1>1. ASSUME Inv PROVE AttemptsBounded
  <2>1. ASSUME NEW d \in Deliveries \ late PROVE attempts[d] <= MaxAttempts + throws
    <3>1. /\ delivery[d].count \in Nat /\ attempts[d] \in Nat /\ throws \in Nat
          /\ CountSane(d)
      BY <1>1 DEF Inv, TypeOK, Delivery
    <3>2. CASE Settled(d)
      <4>1. ASSUME NEW w \in Workers PROVE ~Posted(w, d)
        BY <1>1, <3>2 DEF Inv, LeaseSane, WorkerSane, Posted, Settled, Final
      <4> QED
        BY <3>1, <4>1 DEF CountSane
    <3>3. CASE ~Settled(d)
      BY <3>1, <3>3 DEF CountSane
    <3> QED
      BY <3>2, <3>3
  <2> QED
    BY <2>1 DEF AttemptsBounded
<1>2. Inv => AttemptsBounded
  BY <1>1
<1> QED
  BY <1>2, Invariance, PTL

(* Nobody writes to a settled delivery whose lease has not run out under   *)
(* a worker.                                                               *)
THEOREM SettledIsFinal == Spec => SettledStays
<1>1. ASSUME Inv, [Next]_vars, NEW d \in Deliveries \ late, Settled(d)
      PROVE  delivery'[d].status = delivery[d].status
  <2>1. delivery[d] \in Delivery /\ \A w \in Workers : d \notin worker[w].left
    BY <1>1 DEF Inv, TypeOK, LeaseSane, Settled, Final
  <2>2. CASE UNCHANGED vars
    BY <2>2 DEF vars
  <2>3. ASSUME NEW e \in Events, NEW batch \in SUBSET Deliveries, MakeDeliveries(e, batch)
        PROVE  delivery'[d].status = delivery[d].status
    BY <1>1, <2>3 DEF MakeDeliveries, Make, Unborn, Settled, Final
  <2>4. ASSUME NEW b \in Deliveries, NEW old \in Deliveries, Replay(b, old) PROVE delivery'[d].status = delivery[d].status
    BY <1>1, <2>4 DEF Replay, Make, Unborn, Settled, Final
  <2>5. ASSUME NEW w \in Workers, NEW batch \in SUBSET Deliveries, Claim(w, batch)
        PROVE  delivery'[d].status = delivery[d].status
    BY <1>1, <2>5 DEF Claim, FirstOf, Eligible, Settled, Final
  <2>6. ASSUME NEW w \in Workers, Update(w) PROVE delivery'[d].status = delivery[d].status
    <3>1. worker[w].current \in worker[w].left
      BY <1>1, <2>6 DEF Inv, WorkerSane, Update
    <3> QED
      BY <2>1, <2>6, <3>1 DEF Update
  <2>7. ASSUME NEW b \in Deliveries, LeaseRunsOut(b) \/ FallsDue(b)
        PROVE  delivery'[d].status = delivery[d].status
    BY <1>1, <2>1, <2>7 DEF LeaseRunsOut, FallsDue, Inv, TypeOK, Delivery
  <2>8. ASSUME delivery' = delivery PROVE delivery'[d].status = delivery[d].status
    BY <2>8
  <2> QED
    BY <1>1, <2>2, <2>3, <2>4, <2>5, <2>6, <2>7, <2>8 DEF Next, Works, MatchEndpoints,
       StoreEvent, LoseEvent, Disable, Enable, Fetch, FetchEndpoint, Post, ReadScore,
       WriteScore, Throw
<1>2. Inv /\ [Next]_vars => [\A d \in Deliveries \ late :
                               Settled(d) => delivery'[d].status = delivery[d].status]_vars
  BY <1>1
<1> QED
  BY <1>2, Invariance, PTL DEF Spec, SettledStays

=============================================================================
