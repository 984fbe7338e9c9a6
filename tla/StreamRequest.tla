----------------------------- MODULE StreamRequest -----------------------------
(***************************************************************************)
(* A streaming chat completion from admission to its end: the generator    *)
(* streamChatCompletion, the controller it drives (GatewayStreamController)*)
(* and the HTTP handler that pulls chunks out of it, beside the provider,  *)
(* the client, the deadline and idle timers, the store and a shutdown.     *)
(*                                                                         *)
(* The generator runs from one await to the next; between them timers fire,*)
(* the client leaves, or the server shuts down.  Billing is not modelled   *)
(* again here: the request calls the three operations of BillingContract,  *)
(* which CreditWallet is shown to implement, and the quota engine appears  *)
(* by what it does to this request's reservation.  What the three are to   *)
(* look like together is RequestContract, as for a request not streamed.   *)
(*                                                                         *)
(* Timers have no clock: an armed timer may fire at any moment, and under  *)
(* fairness it does.  Chunks carry no data but whether they are output.    *)
(*                                                                         *)
(* Two things about the world outside: writing to a response whose socket  *)
(* has closed reports a full buffer, and no "drain" event follows; and an  *)
(* adapter whose signal is aborted may still deliver an event (its error   *)
(* event, at least) before it throws.                                      *)
(***************************************************************************)
EXTENDS Integers, FiniteSets

CONSTANTS
  Streams,       \* requests
  Candidates     \* candidate routes of a request

ASSUME CandidatesAssumption == Candidates \in Nat \ {0}

VARIABLES
  stream,        \* the generator and controller of each request
  gone,          \* clients that have closed their connection
  phase, billed, \* the billing contract's view of each request
  db             \* "open", or "closed" by a shutdown

vars == <<stream, gone, phase, billed, db>>

Billing == INSTANCE BillingContract WITH Requests <- Streams

-----------------------------------------------------------------------------
(* Types *)

(* Where the generator awaits.  "answering", "replaying", "flushing": an   *)
(* answer of the cache is recorded, sent, and held up by the client's      *)
(* buffer; "pulling": the provider's next event; "draining": the client's  *)
(* buffer, in the handler; "failed": an attempt                            *)
(* has thrown; "persisting", "announcing": inside finalizeOnce;            *)
(* "reconciling", "settling": after success; "compensating", "releasing":  *)
(* in the outer catch.                                                     *)
Points == {"idle", "answering", "replaying", "flushing", "reserving", "authorizing", "preparing", "recording",
           "connecting", "pulling", "draining", "failed",
           "persisting", "announcing", "reconciling", "settling",
           "compensating", "releasing", "ended"}

Terminal == {"COMPLETED", "FAILED", "CANCELLED", "TIMED_OUT"}
States == {"INITIAL", "VALIDATED", "CONNECTING", "STREAMING", "COMPLETING"} \cup Terminal
Records == {"none", "executing", "completed", "failed", "cancelled", "timed_out"}

Stream == [at: Points, state: States, route: 1..Candidates,
           emitted: BOOLEAN, finalized: BOOLEAN,
           timers: SUBSET {"deadline", "idle"}, aborted: BOOLEAN,
           record: Records, quota: {"none", "held", "finalized", "cancelled"},
           threw: BOOLEAN]

Fresh == [at |-> "idle", state |-> "INITIAL", route |-> 1,
          emitted |-> FALSE, finalized |-> FALSE, timers |-> {}, aborted |-> FALSE,
          record |-> "none", quota |-> "none", threw |-> FALSE]

-----------------------------------------------------------------------------
(* Helpers *)

At(s, point) == stream[s].at = point
Goes(s, point) == stream' = [stream EXCEPT ![s].at = point]

(* A call throws.  One to the store or to the event outbox may always, and *)
(* does once the database is closed.                                       *)
Throws(s, point) == stream' = [stream EXCEPT ![s].at = point, ![s].threw = TRUE]
StoreWorks == db = "open"

(* VALID_TRANSITIONS.                                                      *)
Successors ==
  [INITIAL    |-> {"VALIDATED", "FAILED", "CANCELLED"},
   VALIDATED  |-> {"CONNECTING", "FAILED", "CANCELLED"},
   CONNECTING |-> {"STREAMING", "FAILED", "CANCELLED", "TIMED_OUT"},
   STREAMING  |-> {"COMPLETING", "FAILED", "CANCELLED", "TIMED_OUT"},
   COMPLETING |-> {"COMPLETED", "FAILED"},
   COMPLETED  |-> {}, FAILED |-> {}, CANCELLED |-> {}, TIMED_OUT |-> {}]

CanBecome(s, state) == state \in Successors[stream[s].state]

RecordOf(state) ==
  [COMPLETED |-> "completed", FAILED |-> "failed",
   CANCELLED |-> "cancelled", TIMED_OUT |-> "timed_out"][state]

-----------------------------------------------------------------------------
(* Admission *)

(* Permission, model, entitlement and policy checks, then both caches.  A  *)
(* request refused here holds nothing and ends.                            *)
Admit(s) ==
  /\ At(s, "idle")
  /\ \E point \in {"answering", "reserving", "ended"} : Goes(s, point)
  /\ UNCHANGED <<gone, phase, billed, db>>

(* The cache answers: the record is created completed, and no matter if    *)
(* the store throws.                                                       *)
RecordAnswer(s) ==
  /\ At(s, "answering")
  /\ \/ /\ StoreWorks
        /\ stream' = [stream EXCEPT ![s].at = "replaying", ![s].record = "completed"]
     \/ Throws(s, "replaying")
  /\ UNCHANGED <<gone, phase, billed, db>>

(* The chunks of the answer, up to the last or to the client's leaving.    *)
(* One stall of the client's buffer stands for all.                        *)
Replay(s) ==
  /\ At(s, "replaying")
  /\ Goes(s, "ended") \/ (s \notin gone /\ Goes(s, "flushing"))
  /\ UNCHANGED <<gone, phase, billed, db>>

ReserveQuota(s) ==
  /\ At(s, "reserving")
  /\ \/ stream' = [stream EXCEPT ![s].at = "authorizing", ![s].quota = "held"]
     \/ Goes(s, "compensating")
  /\ UNCHANGED <<gone, phase, billed, db>>

(* authorizeBilling: a hold, no hold for a free request, or a refusal.     *)
Authorize(s) ==
  /\ At(s, "authorizing")
  /\ \/ Goes(s, "preparing") /\ Billing!Hold(s)
     \/ Goes(s, "preparing") /\ UNCHANGED <<phase, billed>>
     \/ Goes(s, "compensating") /\ UNCHANGED <<phase, billed>>
  /\ UNCHANGED <<gone, db>>

(* The route is resolved (or none is) and the controller made; it looks at *)
(* the client's signal.                                                    *)
Prepare(s) ==
  /\ At(s, "preparing")
  /\ \/ stream' = [stream EXCEPT ![s].at = "recording", ![s].aborted = s \in gone]
     \/ Goes(s, "compensating")
  /\ UNCHANGED <<gone, phase, billed, db>>

(* createRequest and emitRequestStarted.                                   *)
RecordRequest(s) ==
  /\ At(s, "recording")
  /\ \/ /\ StoreWorks
        /\ stream' = [stream EXCEPT ![s].at = "connecting", ![s].state = "VALIDATED",
                                    ![s].record = "executing"]
     \/ Throws(s, "compensating")
     \/ /\ StoreWorks
        /\ stream' = [stream EXCEPT ![s].at = "compensating", ![s].threw = TRUE,
                                    ![s].record = "executing"]
  /\ UNCHANGED <<gone, phase, billed, db>>

-----------------------------------------------------------------------------
(* An attempt *)

(* Faulty variant: the deadline is armed by the first event.               *)
DeadlineLater == {}

ConnectTimers == {"deadline"}

(* transitionToConnecting, unless a candidate that failed without an event *)
(* has left the stream CONNECTING; after any event the transition throws.  *)
Connect(s) ==
  /\ At(s, "connecting")
  /\ \/ /\ stream[s].state = "CONNECTING"
        /\ Goes(s, "pulling")
     \/ /\ CanBecome(s, "CONNECTING")
        /\ stream' = [stream EXCEPT ![s].at = "pulling", ![s].state = "CONNECTING",
                                    ![s].timers = @ \cup ConnectTimers]
     \/ /\ stream[s].state # "CONNECTING" /\ ~CanBecome(s, "CONNECTING")
        /\ Goes(s, "failed")
  /\ UNCHANGED <<gone, phase, billed, db>>

(* The provider delivers an event, the chunk is written.  The write may    *)
(* fill the buffer, and on a closed socket always reports that it did.     *)
Deliver(s, output) ==
  /\ At(s, "pulling")
  /\ \E point \in {"pulling", "draining"} :
       /\ s \in gone => point = "draining"
       /\ stream' = [stream EXCEPT ![s].at = point, ![s].state = "STREAMING",
                                   ![s].timers = @ \cup {"idle"},
                                   ![s].emitted = @ \/ output]
  /\ UNCHANGED <<gone, phase, billed, db>>

(* "drain": only a client that is still there empties the buffer.          *)
Drain(s) ==
  /\ s \notin gone
  /\ \/ At(s, "draining") /\ Goes(s, "pulling")
     \/ At(s, "flushing") /\ Goes(s, "ended")
  /\ UNCHANGED <<gone, phase, billed, db>>

ProviderThrows(s) ==
  /\ At(s, "pulling")
  /\ Goes(s, "failed")
  /\ UNCHANGED <<gone, phase, billed, db>>

(* transitionToCompleting, then finalizeOnce(COMPLETED) up to its first    *)
(* await; a provider that ends without an event fails the transition.      *)
ProviderEnds(s) ==
  /\ At(s, "pulling")
  /\ \/ /\ CanBecome(s, "COMPLETING")
        /\ stream' = [stream EXCEPT ![s].at = "persisting", ![s].state = "COMPLETED",
                                    ![s].finalized = TRUE, ![s].timers = {}]
     \/ /\ ~CanBecome(s, "COMPLETING")
        /\ Goes(s, "failed")
  /\ UNCHANGED <<gone, phase, billed, db>>

-----------------------------------------------------------------------------
(* finalizeOnce *)

(* Faulty variant: a second finalization runs like the first.              *)
FinalizeAgain(s, state) ==
  stream' = [stream EXCEPT ![s].at = "persisting", ![s].state = state, ![s].timers = {}]

(* Up to its first await.  Only the first call does anything; one whose    *)
(* transition is not allowed records nothing.                              *)
FinalizeOnce(s, state) ==
  \/ /\ stream[s].finalized
     /\ Goes(s, "compensating")
  \/ /\ ~stream[s].finalized
     /\ stream' = [stream EXCEPT ![s].finalized = TRUE, ![s].timers = {},
                     ![s].at = IF CanBecome(s, state) THEN "persisting" ELSE "compensating",
                     ![s].state = IF CanBecome(s, state) THEN state ELSE @]

(* Faulty variant: any failed attempt falls back.                          *)
AnyoneMayFallBack(s) == TRUE

MayFallBack(s) == ~stream[s].emitted

HasNext(s) == stream[s].route < Candidates

(* The catch of an attempt, after its record is updated: the next          *)
(* candidate, or the end of the stream.                                    *)
FallBack(s) ==
  /\ At(s, "failed")
  /\ MayFallBack(s) /\ HasNext(s)
  /\ stream' = [stream EXCEPT ![s].at = "connecting", ![s].route = @ + 1]
  /\ UNCHANGED <<gone, phase, billed, db>>

GiveUp(s) ==
  /\ At(s, "failed")
  /\ ~(MayFallBack(s) /\ HasNext(s))
  /\ FinalizeOnce(s, IF stream[s].aborted THEN "CANCELLED" ELSE "FAILED")
  /\ UNCHANGED <<gone, phase, billed, db>>

(* Faulty variant: a failed stream is finalized and the error forgotten.   *)
AlwaysSucceeds(s) == "reconciling"

(* finalizeOnce returns to the success path or to the outer catch; what it *)
(* throws on success is caught as a failed attempt, or, in the faulty      *)
(* variant, swallowed.                                                     *)
AfterFinalize(s) == IF stream[s].state = "COMPLETED" THEN "reconciling" ELSE "compensating"
Swallowed(s) == AfterFinalize(s)
CatchOf(s) == IF stream[s].state = "COMPLETED" THEN "failed" ELSE "compensating"

(* Usage, latency and the status of the request.                           *)
Persist(s) ==
  /\ At(s, "persisting")
  /\ \/ /\ StoreWorks
        /\ stream' = [stream EXCEPT ![s].at = "announcing",
                                    ![s].record = RecordOf(stream[s].state)]
     \/ Throws(s, CatchOf(s))
  /\ UNCHANGED <<gone, phase, billed, db>>

(* The terminal event, and the error record of a failure; a completed      *)
(* stream without usage has nothing to announce.                           *)
Announce(s) ==
  /\ At(s, "announcing")
  /\ \/ /\ StoreWorks \/ stream[s].state = "COMPLETED"
        /\ Goes(s, AfterFinalize(s))
     \/ Throws(s, CatchOf(s))
  /\ UNCHANGED <<gone, phase, billed, db>>

-----------------------------------------------------------------------------
(* The end of the request.  What the quota engine and the wallet throw is  *)
(* swallowed.                                                              *)

(* finalizeReservation of the quota engine.                                *)
ReconcileQuota(s) ==
  /\ At(s, "reconciling")
  /\ \/ stream' = [stream EXCEPT ![s].at = "settling", ![s].quota = "finalized"]
     \/ Throws(s, "settling")
  /\ UNCHANGED <<gone, phase, billed, db>>

(* The price is calculated first; what that throws reaches the outer catch.*)
SettleBilling(s) ==
  /\ At(s, "settling")
  /\ \/ phase[s] = "active" /\ Goes(s, "ended") /\ Billing!Settle(s)
     \/ phase[s] = "active" /\ Throws(s, "ended") /\ UNCHANGED <<phase, billed>>
     \/ phase[s] = "active" /\ Throws(s, "compensating") /\ UNCHANGED <<phase, billed>>
     \/ phase[s] = "none" /\ Goes(s, "ended") /\ UNCHANGED <<phase, billed>>
  /\ UNCHANGED <<gone, db>>

(* cancelReservation, if the quota engine had admitted the request; one    *)
(* that is not active stays as it is.                                      *)
CancelQuota(s) ==
  /\ At(s, "compensating")
  /\ \/ /\ stream[s].quota = "held"
        /\ stream' = [stream EXCEPT ![s].at = "releasing", ![s].quota = "cancelled"]
     \/ stream[s].quota = "held" /\ Throws(s, "releasing")
     \/ stream[s].quota # "held" /\ Goes(s, "releasing")
  /\ UNCHANGED <<gone, phase, billed, db>>

(* cleanup, in the finally block, stops the timers of a failed request.    *)
ReleaseBilling(s) ==
  LET ends(t) == stream' = [stream EXCEPT ![s].at = "ended", ![s].timers = {}, ![s].threw = @ \/ t]
  IN
  /\ At(s, "releasing")
  /\ \/ phase[s] = "active" /\ ends(FALSE) /\ Billing!GiveBack(s)
     \/ phase[s] = "active" /\ ends(TRUE) /\ UNCHANGED <<phase, billed>>
     \/ phase[s] = "none" /\ ends(FALSE) /\ UNCHANGED <<phase, billed>>
  /\ UNCHANGED <<gone, db>>

-----------------------------------------------------------------------------
(* Around the generator *)

(* Both timers do no more than abort the controller's signal.              *)
TimerFires(s, timer) ==
  /\ timer \in stream[s].timers
  /\ stream' = [stream EXCEPT ![s].timers = @ \ {timer}, ![s].aborted = TRUE]
  /\ UNCHANGED <<gone, phase, billed, db>>

(* The controller, once made, is aborted with the client's signal.         *)
HasController == {"recording", "connecting", "pulling", "draining", "failed",
                  "persisting", "announcing"}

ClientLeaves(s) ==
  /\ s \notin gone
  /\ ~At(s, "idle") /\ ~At(s, "ended")
  /\ gone' = gone \cup {s}
  /\ stream' = [stream EXCEPT ![s].aborted = @ \/ stream[s].at \in HasController]
  /\ UNCHANGED <<phase, billed, db>>

(* gracefulShutdown waits until the stream registry is empty.  No stream   *)
(* is ever registered there, so it closes the database at once.            *)
Shutdown ==
  /\ db = "open"
  /\ db' = "closed"
  /\ UNCHANGED <<stream, gone, phase, billed>>

-----------------------------------------------------------------------------
Init ==
  /\ stream = [s \in Streams |-> Fresh]
  /\ gone = {}
  /\ Billing!Init
  /\ db = "open"

(* What the generator does by itself once it has been called.              *)
Proceed(s) ==
  \/ RecordAnswer(s) \/ Replay(s)
  \/ ReserveQuota(s) \/ Authorize(s) \/ Prepare(s) \/ RecordRequest(s)
  \/ Connect(s) \/ FallBack(s) \/ GiveUp(s) \/ Persist(s) \/ Announce(s)
  \/ ReconcileQuota(s) \/ SettleBilling(s) \/ CancelQuota(s) \/ ReleaseBilling(s)

Next ==
  \/ \E s \in Streams :
       \/ Admit(s) \/ Proceed(s)
       \/ \E output \in BOOLEAN : Deliver(s, output)
       \/ Drain(s) \/ ProviderThrows(s) \/ ProviderEnds(s)
       \/ \E timer \in {"deadline", "idle"} : TimerFires(s, timer)
       \/ ClientLeaves(s)
  \/ Shutdown

Spec == Init /\ [][Next]_vars

(* Promises are answered, armed timers fire, a client that is there reads  *)
(* what was sent, and an adapter whose signal is aborted cannot go on for  *)
(* ever.                                                                   *)
Fairness ==
  \A s \in Streams :
    /\ WF_vars(Proceed(s))
    /\ WF_vars(TimerFires(s, "deadline"))
    /\ WF_vars(TimerFires(s, "idle"))
    /\ WF_vars(Drain(s))
    /\ SF_vars(stream[s].aborted /\ ProviderThrows(s))

FairSpec == Spec /\ Fairness

-----------------------------------------------------------------------------
(* Properties *)

(* Requests, clients, the contract's state and the database keep their     *)
(* types.                                                                  *)
TypeOK ==
  /\ stream \in [Streams -> Stream]
  /\ gone \subseteq Streams
  /\ phase \in [Streams -> {"none", "active", "settled", "released"}]
  /\ billed \in [Streams -> BOOLEAN]
  /\ db \in {"open", "closed"}

(* Whatever the store throws and whoever aborts, record, tokens and money  *)
(* of a stream go together as the request contract says.                   *)
Contract == INSTANCE RequestContract WITH
  Requests <- Streams,
  record <- [s \in Streams |-> stream[s].record],
  tokens <- [s \in Streams |->
              IF stream[s].record = "none" THEN "none" ELSE stream[s].quota]

KeepsRequestContract == Contract!Spec

(* Whatever the store throws and whoever aborts, a request is charged only *)
(* if it is recorded as completed and its tokens stay counted or held.     *)
ChargedOnlyIfCompleted ==
  \A s \in Streams :
    phase[s] = "settled" => /\ stream[s].record = "completed"
                            /\ stream[s].quota \in {"held", "finalized"}

(* If no call threw, a request that has ended holds nothing, and its       *)
(* record, its tokens and its money tell the same story, whichever of      *)
(* timers, provider, client and shutdown came first.  Only an answer of    *)
(* the cache, for which no stream was begun, completes without tokens.     *)
EndsConsistent ==
  \A s \in Streams :
    At(s, "ended") /\ ~stream[s].threw =>
      \/ /\ stream[s].record = "completed" /\ stream[s].quota = "finalized"
         /\ phase[s] \in {"none", "settled"}
      \/ /\ stream[s].record \in {"none", "failed", "cancelled"}
         /\ stream[s].quota \in {"none", "cancelled"}
         /\ phase[s] \in {"none", "released"}
      \/ /\ stream[s].state = "INITIAL"
         /\ stream[s].record = "completed"
         /\ stream[s].quota = "none" /\ phase[s] = "none"

(* Once output of one provider has been delivered that is remembered, and  *)
(* the request never turns to another provider again: the client sees no   *)
(* answer spliced from two.                                                *)
NoFallbackAfterOutput ==
  [][\A s \in Streams :
       stream[s].emitted => /\ stream'[s].emitted
                            /\ stream'[s].route = stream[s].route]_vars

(* The first terminal state wins: neither it nor the status recorded for   *)
(* it changes again, whatever aborts, throws or is retried afterwards.     *)
FirstOutcomeWins ==
  [][\A s \in Streams :
       stream[s].state \in Terminal =>
         /\ stream'[s].state = stream[s].state
         /\ stream'[s].record \in {stream[s].record, RecordOf(stream[s].state)}]_vars

UnderWay(s) == ~At(s, "idle") /\ ~At(s, "ended")

(* A request whose client stays ends, however long the provider is silent  *)
(* and whatever the store throws.                                          *)
ConnectedStreamsEnd ==
  \A s \in Streams : [](s \notin gone) => [](UnderWay(s) => <>At(s, "ended"))

(* Every request ends, that of a client that left as well.                 *)
StreamsEnd == \A s \in Streams : UnderWay(s) ~> At(s, "ended")
=============================================================================
