---------------------------- MODULE GatewayRequest ----------------------------
(***************************************************************************)
(* A non-streaming chat completion: executeChatCompletion with its cache   *)
(* lookup, the single flight that lets equal requests share one execution, *)
(* and executeProviderExecution from the reservation of tokens and money   *)
(* to settlement or compensation.                                          *)
(*                                                                         *)
(* A call is one invocation; its request id comes from the x-request-id    *)
(* header where the client sends one, so a retry comes with the id of the  *)
(* call it repeats.  Record and hold belong to the id: the store has it as *)
(* primary key, and authorizeBilling answers a known id with the hold it   *)
(* already has.  What each billing operation does to a hold is translated  *)
(* from credit-service (CreditWallet has the amounts); RequestContract is  *)
(* what record, tokens and money are to look like together.  Provider      *)
(* execution is one step whose end ResilienceController guarantees.        *)
(***************************************************************************)
EXTENDS Integers, FiniteSets

CONSTANTS
  Calls,
  Ids,                 \* request ids
  Keys,                \* cache keys
  NoKey,               \* of a request that may not be cached
  Nobody,              \* no call
  OverlappingRetries   \* may a retry begin before the call it repeats has ended?

ASSUME GatewayAssumption ==
  NoKey \notin Keys /\ Nobody \notin Calls /\ OverlappingRetries \in BOOLEAN

VARIABLES
  call,    \* the invocation: where it awaits, what it holds, how it ended
  gone,    \* calls whose client has closed the connection
  record,  \* status of each id in the request store
  phase, billed,  \* the hold and the charge of each id
  flight,  \* the call that leads the execution of a key, or none
  cached   \* keys with a stored response

vars == <<call, gone, record, phase, billed, flight, cached>>

Billing == INSTANCE BillingContract WITH Requests <- Ids

-----------------------------------------------------------------------------
(* Types *)

(* Where the call awaits; after "marking" it is over.                      *)
Points == {"idle", "looking", "joining", "waiting", "rechecking",
           "reserving", "authorizing", "routing", "recording", "starting",
           "executing", "saving", "completing", "announcing",
           "reconciling", "settling",
           "compensating", "releasing", "marking", "ended"}

Call == [at: Points, id: Ids, key: Keys \cup {NoKey}, leader: Calls \cup {Nobody},
         outcome: {"none", "answered", "refused"},
         quota: {"none", "held", "finalized", "cancelled"},
         holds: BOOLEAN, created: BOOLEAN, threw: BOOLEAN]

Records == {"none", "executing", "completed", "failed", "cancelled"}

-----------------------------------------------------------------------------
(* Helpers *)

At(c, point) == call[c].at = point
Goes(c, point) == call' = [call EXCEPT ![c].at = point]
Id(c) == call[c].id
Key(c) == call[c].key
UnderWay(c) == ~At(c, "idle") /\ ~At(c, "ended")
Executed(c) == call[c].outcome = "answered" /\ call[c].quota # "none"

RecordBecomes(c, status) == record' = [record EXCEPT ![Id(c)] = status]

(* The promise of the call settles.  A leader's flight ends with it.       *)
Ends(c, outcome) ==
  /\ call' = [call EXCEPT ![c].at = "ended", ![c].outcome = outcome]
  /\ flight' = [k \in Keys |-> IF flight[k] = c THEN Nobody ELSE flight[k]]

(* The answer came from the cache or from another call.  Its record is     *)
(* written if the store lets it.                                           *)
AnsweredBesides(c) ==
  /\ Ends(c, "answered")
  /\ UNCHANGED record \/ (record[Id(c)] = "none" /\ RecordBecomes(c, "completed"))

-----------------------------------------------------------------------------
(* Admission and cache *)

(* Permission, model, entitlement, files and policy; a call refused there  *)
(* holds nothing.                                                          *)
Begin(c) ==
  /\ At(c, "idle")
  /\ \E i \in Ids, k \in Keys \cup {NoKey}, point \in {"looking", "ended"} :
       /\ OverlappingRetries \/ \A d \in Calls : UnderWay(d) => Id(d) # i
       /\ call' = [call EXCEPT ![c].at = point, ![c].id = i, ![c].key = k,
                     ![c].outcome = IF point = "ended" THEN "refused" ELSE "none"]
  /\ UNCHANGED <<gone, record, phase, billed, flight, cached>>

(* The exact and the semantic lookup; a failing store counts as a miss.    *)
LookUp(c) ==
  /\ At(c, "looking")
  /\ \/ Key(c) \in cached /\ AnsweredBesides(c)
     \/ Key(c) # NoKey /\ Goes(c, "joining") /\ UNCHANGED <<flight, record>>
     \/ Key(c) = NoKey /\ Goes(c, "reserving") /\ UNCHANGED <<flight, record>>
  /\ UNCHANGED <<gone, phase, billed, cached>>

(* Faulty variant: whoever misses the cache executes.                      *)
LeadAlways(c) ==
  /\ At(c, "joining")
  /\ Goes(c, "rechecking")
  /\ flight' = [flight EXCEPT ![Key(c)] = c]
  /\ UNCHANGED <<gone, record, phase, billed, cached>>

(* SingleFlightGroup.run: wait for the execution in flight, or lead one.   *)
Join(c) ==
  /\ At(c, "joining")
  /\ \/ /\ flight[Key(c)] # Nobody
        /\ call' = [call EXCEPT ![c].at = "waiting", ![c].leader = flight[Key(c)]]
        /\ UNCHANGED flight
     \/ /\ flight[Key(c)] = Nobody
        /\ Goes(c, "rechecking")
        /\ flight' = [flight EXCEPT ![Key(c)] = c]
  /\ UNCHANGED <<gone, record, phase, billed, cached>>

(* Faulty variant: a follower is told of the leader's answer only.         *)
FollowAnswer(c) ==
  /\ At(c, "waiting")
  /\ call[call[c].leader].outcome = "answered" /\ AnsweredBesides(c)
  /\ UNCHANGED <<gone, phase, billed, cached>>

(* A follower shares the leader's answer and its error.                    *)
Follow(c) ==
  /\ At(c, "waiting")
  /\ \/ call[call[c].leader].outcome = "answered" /\ AnsweredBesides(c)
     \/ /\ call[call[c].leader].outcome = "refused" /\ Ends(c, "refused")
        /\ UNCHANGED record
  /\ UNCHANGED <<gone, phase, billed, cached>>

(* The leader looks again: the last execution may have been stored since.  *)
Recheck(c) ==
  /\ At(c, "rechecking")
  /\ \/ Key(c) \in cached /\ Ends(c, "answered")
     \/ Goes(c, "reserving") /\ UNCHANGED flight
  /\ UNCHANGED <<gone, record, phase, billed, cached>>

-----------------------------------------------------------------------------
(* Execution *)

ReserveQuota(c) ==
  /\ At(c, "reserving")
  /\ \/ call' = [call EXCEPT ![c].at = "authorizing", ![c].quota = "held"]
     \/ Goes(c, "compensating")
  /\ UNCHANGED <<gone, record, phase, billed, flight, cached>>

(* authorizeBilling.  A known id is authorized with the hold it has, if    *)
(* that is active or settled; a new one is held, free, or refused.         *)
Authorize(c) ==
  /\ At(c, "authorizing")
  /\ \/ /\ phase[Id(c)] \in {"active", "settled"}
        /\ call' = [call EXCEPT ![c].at = "routing", ![c].holds = TRUE]
        /\ UNCHANGED phase
     \/ /\ phase[Id(c)] = "none"
        /\ call' = [call EXCEPT ![c].at = "routing", ![c].holds = TRUE]
        /\ phase' = [phase EXCEPT ![Id(c)] = "active"]
     \/ /\ phase[Id(c)] = "none"
        /\ Goes(c, "routing") \/ Goes(c, "compensating")
        /\ UNCHANGED phase
     \/ /\ phase[Id(c)] = "released"
        /\ Goes(c, "compensating")
        /\ UNCHANGED phase
  /\ UNCHANGED <<gone, record, billed, flight, cached>>

ResolveRoute(c) ==
  /\ At(c, "routing")
  /\ Goes(c, "recording") \/ Goes(c, "compensating")
  /\ UNCHANGED <<gone, record, phase, billed, flight, cached>>

(* createRequest inserts under the primary key id.                         *)
RecordRequest(c) ==
  /\ At(c, "recording")
  /\ \/ /\ record[Id(c)] = "none"
        /\ RecordBecomes(c, "executing")
        /\ call' = [call EXCEPT ![c].at = "starting", ![c].created = TRUE]
     \/ Goes(c, "compensating") /\ UNCHANGED record
  /\ UNCHANGED <<gone, phase, billed, flight, cached>>

(* emitRequestStarted, then a look at the client's signal.                 *)
Start(c) ==
  /\ At(c, "starting")
  /\ \/ c \notin gone /\ Goes(c, "executing")
     \/ Goes(c, "compensating")
  /\ UNCHANGED <<gone, record, phase, billed, flight, cached>>

(* executeNonStream of the resilience controller.                          *)
Execute(c) ==
  /\ At(c, "executing")
  /\ Goes(c, "saving") \/ Goes(c, "compensating")
  /\ UNCHANGED <<gone, record, phase, billed, flight, cached>>

(* Usage snapshot and latency.  From here on the provider has answered,    *)
(* and what the store throws still fails the request.                      *)
SaveUsage(c) ==
  /\ At(c, "saving")
  /\ Goes(c, "completing") \/ Goes(c, "compensating")
  /\ UNCHANGED <<gone, record, phase, billed, flight, cached>>

(* Faulty variant: what updateRequest throws is swallowed.                 *)
CompleteQuietly(c) ==
  /\ At(c, "completing")
  /\ Goes(c, "announcing")
  /\ RecordBecomes(c, "completed") \/ UNCHANGED record
  /\ UNCHANGED <<gone, phase, billed, flight, cached>>

Complete(c) ==
  /\ At(c, "completing")
  /\ \/ Goes(c, "announcing") /\ RecordBecomes(c, "completed")
     \/ Goes(c, "compensating") /\ UNCHANGED record
  /\ UNCHANGED <<gone, phase, billed, flight, cached>>

Announce(c) ==
  /\ At(c, "announcing")
  /\ Goes(c, "reconciling") \/ Goes(c, "compensating")
  /\ UNCHANGED <<gone, record, phase, billed, flight, cached>>

(* Faulty variant: tokens that could not be counted are given back.        *)
ReconcileOrCancel(c) ==
  /\ At(c, "reconciling")
  /\ \E quota \in {"finalized", "cancelled"} :
       call' = [call EXCEPT ![c].at = "settling", ![c].quota = quota]
  /\ UNCHANGED <<gone, record, phase, billed, flight, cached>>

(* finalizeReservation of the quota engine; what it throws is swallowed.   *)
ReconcileQuota(c) ==
  /\ At(c, "reconciling")
  /\ \/ call' = [call EXCEPT ![c].at = "settling", ![c].quota = "finalized"]
     \/ call' = [call EXCEPT ![c].at = "settling", ![c].threw = TRUE]
  /\ UNCHANGED <<gone, record, phase, billed, flight, cached>>

(* settleReservation: only a settled hold is left as it is; one that was   *)
(* released is charged like an active one.  The final price may be zero.   *)
Settle(i) ==
  \/ phase[i] = "settled" /\ UNCHANGED <<phase, billed>>
  \/ /\ phase[i] # "settled"
     /\ phase' = [phase EXCEPT ![i] = "settled"]
     /\ \E b \in BOOLEAN : billed' = [billed EXCEPT ![i] = b]

(* The price, whose calculation may throw into the catch, the settlement,  *)
(* whose errors are swallowed, and the translation of the response.        *)
SettleBilling(c) ==
  /\ At(c, "settling")
  /\ \/ call[c].holds /\ Settle(Id(c)) /\ Ends(c, "answered")
     \/ /\ call[c].holds
        /\ call' = [call EXCEPT ![c].at = "ended", ![c].outcome = "answered", ![c].threw = TRUE]
        /\ flight' = [k \in Keys |-> IF flight[k] = c THEN Nobody ELSE flight[k]]
        /\ UNCHANGED <<phase, billed>>
     \/ /\ call[c].holds
        /\ Goes(c, "compensating")
        /\ UNCHANGED <<phase, billed, flight>>
     \/ ~call[c].holds /\ Ends(c, "answered") /\ UNCHANGED <<phase, billed>>
  /\ UNCHANGED <<gone, record, cached>>

(* admitAndStore runs beside the answer and after the end of the flight.   *)
StoreResponse(c) ==
  /\ Executed(c) /\ Key(c) # NoKey
  /\ cached' = cached \cup {Key(c)}
  /\ UNCHANGED <<call, gone, record, phase, billed, flight>>

CacheExpires(k) ==
  /\ k \in cached
  /\ cached' = cached \ {k}
  /\ UNCHANGED <<call, gone, record, phase, billed, flight>>

-----------------------------------------------------------------------------
(* Compensation: the catch of executeProviderExecution *)

(* cancelReservation: one that is not active stays as it is.               *)
CancelQuota(c) ==
  /\ At(c, "compensating")
  /\ \/ /\ call[c].quota = "held"
        /\ call' = [call EXCEPT ![c].at = "releasing", ![c].quota = "cancelled"]
     \/ /\ call[c].quota = "held"
        /\ call' = [call EXCEPT ![c].at = "releasing", ![c].threw = TRUE]
     \/ call[c].quota # "held" /\ Goes(c, "releasing")
  /\ UNCHANGED <<gone, record, phase, billed, flight, cached>>

(* Faulty variant: the hold of a failed call is left to the sweep.         *)
ForgetHold(c) ==
  /\ At(c, "releasing")
  /\ Goes(c, "marking")
  /\ UNCHANGED <<gone, record, phase, billed, flight, cached>>

(* releaseReservation: a hold that is not active stays as it is.           *)
ReleaseBilling(c) ==
  /\ At(c, "releasing")
  /\ \/ /\ call[c].holds /\ phase[Id(c)] = "active"
        /\ Goes(c, "marking")
        /\ phase' = [phase EXCEPT ![Id(c)] = "released"]
     \/ /\ call[c].holds /\ phase[Id(c)] = "active"
        /\ call' = [call EXCEPT ![c].at = "marking", ![c].threw = TRUE]
        /\ UNCHANGED phase
     \/ /\ ~call[c].holds \/ phase[Id(c)] # "active"
        /\ Goes(c, "marking")
        /\ UNCHANGED phase
  /\ UNCHANGED <<gone, record, billed, flight, cached>>

(* The status of the request, if its record was made, its error and event; *)
(* the error is thrown again, or the store's in its place.  An attempt cut *)
(* off by its timer may be recorded as cancelled, too.                     *)
Mark(c) ==
  /\ At(c, "marking")
  /\ Ends(c, "refused")
  /\ \/ /\ call[c].created
        /\ \E status \in {"failed", "cancelled"} :
             (c \in gone => status = "cancelled") /\ RecordBecomes(c, status)
     \/ UNCHANGED record
  /\ UNCHANGED <<gone, phase, billed, cached>>

ClientLeaves(c) ==
  /\ UnderWay(c) /\ c \notin gone
  /\ gone' = gone \cup {c}
  /\ UNCHANGED <<call, record, phase, billed, flight, cached>>

(* The sweep returns a hold no running call is old enough to still need.   *)
SweepHold(i) ==
  /\ phase[i] = "active"
  /\ \A c \in Calls : UnderWay(c) => Id(c) # i
  /\ phase' = [phase EXCEPT ![i] = "released"]
  /\ UNCHANGED <<call, gone, record, billed, flight, cached>>

-----------------------------------------------------------------------------
Init ==
  /\ \E i \in Ids :
       call = [c \in Calls |->
                [at |-> "idle", id |-> i, key |-> NoKey, leader |-> Nobody,
                 outcome |-> "none", quota |-> "none",
                 holds |-> FALSE, created |-> FALSE, threw |-> FALSE]]
  /\ gone = {}
  /\ record = [i \in Ids |-> "none"]
  /\ Billing!Init
  /\ flight = [k \in Keys |-> Nobody]
  /\ cached = {}

(* What a call does by itself once it has begun.                           *)
Proceed(c) ==
  \/ LookUp(c) \/ Join(c) \/ Follow(c) \/ Recheck(c)
  \/ ReserveQuota(c) \/ Authorize(c) \/ ResolveRoute(c) \/ RecordRequest(c)
  \/ Start(c) \/ Execute(c) \/ SaveUsage(c) \/ Complete(c) \/ Announce(c)
  \/ ReconcileQuota(c) \/ SettleBilling(c)
  \/ CancelQuota(c) \/ ReleaseBilling(c) \/ Mark(c)

Next ==
  \/ \E c \in Calls : Begin(c) \/ Proceed(c) \/ StoreResponse(c) \/ ClientLeaves(c)
  \/ \E k \in Keys : CacheExpires(k)
  \/ \E i \in Ids : SweepHold(i)

Spec == Init /\ [][Next]_vars

(* Promises settle; that of the provider execution does because the        *)
(* resilience controller's loop ends.                                      *)
FairSpec == Spec /\ \A c \in Calls : WF_vars(Proceed(c))

-----------------------------------------------------------------------------
(* Properties *)

(* Calls, records, holds, flights and the cache keep their types.          *)
TypeOK ==
  /\ call \in [Calls -> Call]
  /\ gone \subseteq Calls
  /\ record \in [Ids -> Records]
  /\ phase \in [Ids -> {"none", "active", "settled", "released"}]
  /\ billed \in [Ids -> BOOLEAN]
  /\ flight \in [Keys -> Calls \cup {Nobody}]
  /\ cached \subseteq Keys

(* To the gateway the wallet behaves as the billing contract says, also    *)
(* when a request is retried under its id: its money is held once, and     *)
(* charged or given back once.                                             *)
ImplementsContract == Billing!Spec

(* A request, however often it is retried under its id and whatever fails, *)
(* keeps the request contract: the tokens it is charged with are those of  *)
(* the call that made its record.                                          *)
Recorders(i) == {c \in Calls : call[c].created /\ Id(c) = i}
Tokens(i) ==
  IF Recorders(i) = {} THEN "none" ELSE call[CHOOSE c \in Recorders(i) : TRUE].quota

Contract == INSTANCE RequestContract WITH
  Requests <- Ids, tokens <- [i \in Ids |-> Tokens(i)]

KeepsRequestContract == Contract!Spec

(* A request is charged only if one of its calls was answered and its      *)
(* record says completed: whatever the store throws after the provider has *)
(* answered, nobody pays for an error.                                     *)
ChargedIsAnswered ==
  \A i \in Ids :
    phase[i] = "settled" =>
      /\ record[i] = "completed"
      /\ \E c \in Calls : Id(c) = i /\ Executed(c)

(* What a request holds comes home or is paid.  Unless the wallet or the   *)
(* quota engine failed it, an ended call has no tokens reserved, a hold    *)
(* belongs to a call under way, and an executed request is charged or      *)
(* free.                                                                   *)
EndsConsistent ==
  /\ \A c \in Calls :
       At(c, "ended") /\ ~call[c].threw =>
         /\ call[c].quota # "held"
         /\ Executed(c) /\ call[c].holds => phase[Id(c)] = "settled"
  /\ \A i \in Ids :
       phase[i] = "active" =>
         \E c \in Calls : Id(c) = i /\ call[c].holds /\ (UnderWay(c) \/ call[c].threw)

Leads(c, k) ==
  Key(c) = k /\ UnderWay(c) /\ call[c].at \notin {"looking", "joining", "waiting"}

(* Equal requests never execute beside each other, and only the one that   *)
(* executes reserves tokens or money.                                      *)
OneExecutionPerKey ==
  /\ \A k \in Keys, c, d \in Calls : Leads(c, k) /\ Leads(d, k) => c = d
  /\ \A c \in Calls :
       call[c].leader # Nobody => call[c].quota = "none" /\ ~call[c].holds

(* Every call comes to its end, followers too, however their leader ends.  *)
EveryCallEnds == \A c \in Calls : UnderWay(c) ~> At(c, "ended")
=============================================================================
