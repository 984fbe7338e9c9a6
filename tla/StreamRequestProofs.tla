------------------------- MODULE StreamRequestProofs -------------------------
(***************************************************************************)
(* The safety properties of a streaming request and its refinement of the  *)
(* request contract, for any number of requests and candidates.            *)
(***************************************************************************)
EXTENDS StreamRequest, TLAPS

(* Where the request has its tokens reserved.                              *)
Reserved == {"authorizing", "preparing", "recording", "connecting", "pulling",
             "draining", "failed", "persisting", "announcing", "reconciling"}

(* What record and reservation of an unsuccessful request may be, unless   *)
(* the store threw.                                                        *)
Undone(x) == x.threw \/ x.record \in {"none", "failed", "cancelled"}

Consistent(x, p) ==
  \/ /\ x.record = "completed" /\ x.quota = "finalized"
     /\ p \in {"none", "settled"}
  \/ /\ x.record \in {"none", "failed", "cancelled"}
     /\ x.quota \in {"none", "cancelled"}
     /\ p \in {"none", "released"}
  \/ /\ x.state = "INITIAL" /\ x.record = "completed"
     /\ x.quota = "none" /\ p = "none"

(* Where a request is that the cache answers.                              *)
Besides == {"answering", "replaying", "flushing"}

(* What is known of a request x with its money in phase p, by the place    *)
(* where its generator awaits.                                             *)
OutcomeSane(x) ==
  /\ x.state \notin {"COMPLETING", "TIMED_OUT"}
  /\ x.finalized <=> x.state \in Terminal
  /\ x.at \in {"idle", "reserving", "authorizing", "preparing", "recording"}
       => x.state = "INITIAL" /\ x.record = "none"
  /\ x.at \in Besides => x.state = "INITIAL"
  /\ x.at = "answering" => x.record = "none"
  /\ x.at \in {"replaying", "flushing"} => x.record \in {"none", "completed"}
  /\ x.at \in {"pulling", "draining"} => ~x.finalized
  /\ x.at \in {"connecting", "failed"} /\ x.finalized => x.threw
  /\ x.at \in {"persisting", "announcing"} => x.finalized
  /\ x.at = "announcing" => x.record = RecordOf(x.state)
  /\ x.at \in {"reconciling", "settling"} => x.record = "completed" /\ x.finalized
  /\ x.at \in {"compensating", "releasing"} => Undone(x)

QuotaSane(x) ==
  /\ x.at \in {"idle", "reserving"} \cup Besides => x.quota = "none"
  /\ x.at \in Reserved => x.quota = "held"
  /\ x.at = "settling" => x.quota = "finalized" \/ (x.quota = "held" /\ x.threw)
  /\ x.at = "compensating" => x.quota # "cancelled"
  /\ x.at \in {"compensating", "releasing"} /\ x.quota = "finalized" => x.threw
  /\ x.at = "releasing" /\ x.quota = "held" => x.threw

MoneySane(x, p) ==
  /\ x.at \in {"idle", "reserving", "authorizing"} \cup Besides => p = "none"
  /\ p \in {"settled", "released"} => x.at = "ended"
  /\ p = "settled" => x.record = "completed" /\ x.quota \in {"held", "finalized"}
  /\ x.at = "ended" => x.threw \/ Consistent(x, p)

Sane(x, p) == OutcomeSane(x) /\ QuotaSane(x) /\ MoneySane(x, p)

(* The inductive invariant.                                                *)
Inv == TypeOK /\ \A s \in Streams : Sane(stream[s], phase[s])

-----------------------------------------------------------------------------
LEMMA InitInv == Init => Inv
<1> SUFFICES ASSUME Init PROVE Inv
  OBVIOUS
<1>1. Fresh \in Stream
  BY CandidatesAssumption DEF Fresh, Stream, Points, States, Records
<1>2. TypeOK
  BY <1>1 DEF Init, TypeOK, Billing!Init
<1>3. \A s \in Streams : stream[s] = Fresh /\ phase[s] = "none"
  BY DEF Init, Billing!Init
<1>4. Sane(Fresh, "none")
  BY DEF Fresh, Sane, OutcomeSane, QuotaSane, MoneySane, Reserved, Besides, Terminal
<1> QED
  BY <1>2, <1>3, <1>4 DEF Inv

(* A step of one request keeps the invariant if that request stays sane.   *)
LEMMA OneMoves ==
  ASSUME Inv, NEW s \in Streams, NEW x \in Stream, Sane(x, phase'[s]),
         stream' = [stream EXCEPT ![s] = x],
         phase' \in [Streams -> {"none", "active", "settled", "released"}],
         billed' \in [Streams -> BOOLEAN],
         \A t \in Streams \ {s} : phase'[t] = phase[t],
         gone' \subseteq Streams, db' \in {"open", "closed"}
  PROVE  Inv'
<1>1. TypeOK'
  BY DEF Inv, TypeOK
<1>2. ASSUME NEW t \in Streams PROVE Sane(stream'[t], phase'[t])
  <2>1. CASE t = s
    BY <2>1 DEF Inv, TypeOK
  <2>2. CASE t # s
    BY <2>2 DEF Inv, TypeOK
  <2> QED
    BY <2>1, <2>2
<1> QED
  BY <1>1, <1>2 DEF Inv

(* The same when nothing but the request's own record changes.             *)
LEMMA Alone ==
  ASSUME Inv, NEW s \in Streams, NEW x \in Stream, Sane(x, phase[s]),
         stream' = [stream EXCEPT ![s] = x],
         UNCHANGED <<gone, phase, billed, db>>
  PROVE  Inv'
<1>1. /\ phase \in [Streams -> {"none", "active", "settled", "released"}]
      /\ billed \in [Streams -> BOOLEAN] /\ gone \subseteq Streams
      /\ db \in {"open", "closed"}
  BY DEF Inv, TypeOK
<1> QED
  BY <1>1, OneMoves

-----------------------------------------------------------------------------
(* Admission.                                                              *)
LEMMA AdmitStep == ASSUME Inv, NEW s \in Streams, Admit(s) PROVE Inv'
<1> DEFINE x == stream'[s]
<1>0. stream[s] \in Stream /\ Sane(stream[s], phase[s]) /\ At(s, "idle")
  BY DEF Inv, TypeOK, Admit
<1>1. x \in Stream /\ stream' = [stream EXCEPT ![s] = x]
  BY <1>0 DEF Inv, TypeOK, Admit, Goes, Stream, Points, States, Records
<1>2. Sane(x, phase[s])
  BY <1>0 DEF Inv, TypeOK, Admit, Goes, Stream, Sane, OutcomeSane, QuotaSane, MoneySane,
     Reserved, Besides, At, Consistent
<1> QED
  BY <1>1, <1>2, Alone DEF Admit

LEMMA RecordAnswerStep == ASSUME Inv, NEW s \in Streams, RecordAnswer(s) PROVE Inv'
<1> DEFINE x == stream'[s]
<1>0. stream[s] \in Stream /\ Sane(stream[s], phase[s]) /\ At(s, "answering")
  BY DEF Inv, TypeOK, RecordAnswer
<1>1. x \in Stream /\ stream' = [stream EXCEPT ![s] = x]
  BY <1>0 DEF Inv, TypeOK, RecordAnswer, Throws, Stream, Points, States, Records
<1>2. Sane(x, phase[s])
  BY <1>0 DEF Inv, TypeOK, RecordAnswer, Throws, Stream, Sane, OutcomeSane, QuotaSane,
     MoneySane, Reserved, Besides, At, Terminal
<1> QED
  BY <1>1, <1>2, Alone DEF RecordAnswer

LEMMA ReplayStep == ASSUME Inv, NEW s \in Streams, Replay(s) PROVE Inv'
<1> DEFINE x == stream'[s]
<1>0. stream[s] \in Stream /\ Sane(stream[s], phase[s]) /\ At(s, "replaying")
  BY DEF Inv, TypeOK, Replay
<1>1. x \in Stream /\ stream' = [stream EXCEPT ![s] = x]
  BY <1>0 DEF Inv, TypeOK, Replay, Goes, Stream, Points, States, Records
<1>2. Sane(x, phase[s])
  BY <1>0 DEF Inv, TypeOK, Replay, Goes, Stream, Sane, OutcomeSane, QuotaSane, MoneySane,
     Reserved, Besides, At, Consistent, Terminal
<1> QED
  BY <1>1, <1>2, Alone DEF Replay

LEMMA ReserveQuotaStep == ASSUME Inv, NEW s \in Streams, ReserveQuota(s) PROVE Inv'
<1> DEFINE x == stream'[s]
<1>0. stream[s] \in Stream /\ Sane(stream[s], phase[s]) /\ At(s, "reserving")
  BY DEF Inv, TypeOK, ReserveQuota
<1>1. x \in Stream /\ stream' = [stream EXCEPT ![s] = x]
  BY <1>0 DEF Inv, TypeOK, ReserveQuota, Goes, Stream, Points, States, Records
<1>2. Sane(x, phase[s])
  BY <1>0 DEF Inv, TypeOK, ReserveQuota, Goes, Stream, Sane, OutcomeSane, QuotaSane, MoneySane,
     Reserved, Besides, At, Undone
<1> QED
  BY <1>1, <1>2, Alone DEF ReserveQuota

LEMMA PrepareStep == ASSUME Inv, NEW s \in Streams, Prepare(s) PROVE Inv'
<1> DEFINE x == stream'[s]
<1>0. stream[s] \in Stream /\ Sane(stream[s], phase[s]) /\ At(s, "preparing")
  BY DEF Inv, TypeOK, Prepare
<1>1. x \in Stream /\ stream' = [stream EXCEPT ![s] = x]
  BY <1>0 DEF Inv, TypeOK, Prepare, Goes, Stream, Points, States, Records
<1>2. Sane(x, phase[s])
  BY <1>0 DEF Inv, TypeOK, Prepare, Goes, Stream, Sane, OutcomeSane, QuotaSane, MoneySane,
     Reserved, Besides, At, Undone
<1> QED
  BY <1>1, <1>2, Alone DEF Prepare

LEMMA RecordRequestStep == ASSUME Inv, NEW s \in Streams, RecordRequest(s) PROVE Inv'
<1> DEFINE x == stream'[s]
<1>0. stream[s] \in Stream /\ Sane(stream[s], phase[s]) /\ At(s, "recording")
  BY DEF Inv, TypeOK, RecordRequest
<1>1. x \in Stream /\ stream' = [stream EXCEPT ![s] = x]
  BY <1>0 DEF Inv, TypeOK, RecordRequest, Throws, Stream, Points, States, Records
<1>2. Sane(x, phase[s])
  BY <1>0 DEF Inv, TypeOK, RecordRequest, Throws, Stream, Sane, OutcomeSane, QuotaSane,
     MoneySane, Reserved, Besides, At, Undone, Terminal
<1> QED
  BY <1>1, <1>2, Alone DEF RecordRequest

-----------------------------------------------------------------------------
(* An attempt and its outcome.                                             *)
LEMMA ConnectStep == ASSUME Inv, NEW s \in Streams, Connect(s) PROVE Inv'
<1> DEFINE x == stream'[s]
<1>0. stream[s] \in Stream /\ Sane(stream[s], phase[s]) /\ At(s, "connecting")
  BY DEF Inv, TypeOK, Connect
<1>1. x \in Stream /\ stream' = [stream EXCEPT ![s] = x]
  BY <1>0 DEF Inv, TypeOK, Connect, Goes, ConnectTimers, CanBecome, Successors, Stream, Points,
     States, Records
<1>2. Sane(x, phase[s])
  BY <1>0 DEF Inv, TypeOK, Connect, Goes, ConnectTimers, CanBecome, Successors, Stream, Sane,
     OutcomeSane, QuotaSane, MoneySane, Reserved, Besides, At, Terminal
<1> QED
  BY <1>1, <1>2, Alone DEF Connect

LEMMA DeliverStep == ASSUME Inv, NEW s \in Streams, NEW output \in BOOLEAN, Deliver(s, output) PROVE Inv'
<1> DEFINE x == stream'[s]
<1>0. stream[s] \in Stream /\ Sane(stream[s], phase[s]) /\ At(s, "pulling")
  BY DEF Inv, TypeOK, Deliver
<1>1. x \in Stream /\ stream' = [stream EXCEPT ![s] = x]
  <2> DEFINE seen == stream[s].emitted \/ output
  <2>1. seen \in BOOLEAN
    OBVIOUS
  <2>2. PICK point \in {"pulling", "draining"} :
          stream' = [stream EXCEPT ![s].at = point, ![s].state = "STREAMING",
                                   ![s].timers = @ \cup {"idle"}, ![s].emitted = seen]
    BY DEF Deliver
  <2> HIDE DEF seen
  <2> QED
    BY <1>0, <2>1, <2>2 DEF Inv, TypeOK, Stream, Points, States
<1>2. Sane(x, phase[s])
  BY <1>0 DEF Inv, TypeOK, Deliver, Goes, Stream, Sane, OutcomeSane, QuotaSane, MoneySane,
     Reserved, Besides, At, Terminal
<1> QED
  BY <1>1, <1>2, Alone DEF Deliver

LEMMA DrainStep == ASSUME Inv, NEW s \in Streams, Drain(s) PROVE Inv'
<1> DEFINE x == stream'[s]
<1>0. stream[s] \in Stream /\ Sane(stream[s], phase[s]) /\ stream[s].at \in {"draining", "flushing"}
  BY DEF Inv, TypeOK, Drain, At
<1>1. x \in Stream /\ stream' = [stream EXCEPT ![s] = x]
  BY <1>0 DEF Inv, TypeOK, Drain, Goes, Stream, Points, States, Records
<1>2. Sane(x, phase[s])
  BY <1>0 DEF Inv, TypeOK, Drain, Goes, Stream, Sane, OutcomeSane, QuotaSane, MoneySane,
     Reserved, Besides, At, Consistent, Terminal
<1> QED
  BY <1>1, <1>2, Alone DEF Drain

LEMMA ProviderThrowsStep == ASSUME Inv, NEW s \in Streams, ProviderThrows(s) PROVE Inv'
<1> DEFINE x == stream'[s]
<1>0. stream[s] \in Stream /\ Sane(stream[s], phase[s]) /\ At(s, "pulling")
  BY DEF Inv, TypeOK, ProviderThrows
<1>1. x \in Stream /\ stream' = [stream EXCEPT ![s] = x]
  BY <1>0 DEF Inv, TypeOK, ProviderThrows, Goes, Stream, Points, States, Records
<1>2. Sane(x, phase[s])
  BY <1>0 DEF Inv, TypeOK, ProviderThrows, Goes, Stream, Sane, OutcomeSane, QuotaSane,
     MoneySane, Reserved, Besides, At
<1> QED
  BY <1>1, <1>2, Alone DEF ProviderThrows

LEMMA ProviderEndsStep == ASSUME Inv, NEW s \in Streams, ProviderEnds(s) PROVE Inv'
<1> DEFINE x == stream'[s]
<1>0. stream[s] \in Stream /\ Sane(stream[s], phase[s]) /\ At(s, "pulling")
  BY DEF Inv, TypeOK, ProviderEnds
<1>1. x \in Stream /\ stream' = [stream EXCEPT ![s] = x]
  BY <1>0 DEF Inv, TypeOK, ProviderEnds, Goes, CanBecome, Successors, Stream, Points, States,
     Records
<1>2. Sane(x, phase[s])
  BY <1>0 DEF Inv, TypeOK, ProviderEnds, Goes, CanBecome, Successors, Stream, Sane, OutcomeSane,
     QuotaSane, MoneySane, Reserved, Besides, At, Terminal
<1> QED
  BY <1>1, <1>2, Alone DEF ProviderEnds

LEMMA FallBackStep == ASSUME Inv, NEW s \in Streams, FallBack(s) PROVE Inv'
<1> DEFINE x == stream'[s]
<1>0. stream[s] \in Stream /\ Sane(stream[s], phase[s]) /\ At(s, "failed")
  BY DEF Inv, TypeOK, FallBack
<1>1. x \in Stream /\ stream' = [stream EXCEPT ![s] = x]
  BY <1>0, CandidatesAssumption DEF Inv, TypeOK, FallBack, HasNext, Stream, Points, States, Records
<1>2. Sane(x, phase[s])
  BY <1>0 DEF Inv, TypeOK, FallBack, HasNext, Stream, Sane, OutcomeSane, QuotaSane, MoneySane,
     Reserved, Besides, At
<1> QED
  BY <1>1, <1>2, Alone DEF FallBack

LEMMA GiveUpStep == ASSUME Inv, NEW s \in Streams, GiveUp(s) PROVE Inv'
<1> DEFINE x == stream'[s]
<1>0. stream[s] \in Stream /\ Sane(stream[s], phase[s]) /\ At(s, "failed")
  BY DEF Inv, TypeOK, GiveUp
<1>1. x \in Stream /\ stream' = [stream EXCEPT ![s] = x]
  <2>1. PICK state \in {"CANCELLED", "FAILED"} : FinalizeOnce(s, state)
    BY DEF GiveUp
  <2>2. \/ stream' = [stream EXCEPT ![s].at = "compensating"]
        \/ \E at \in {"persisting", "compensating"}, to \in {state, stream[s].state} :
             stream' = [stream EXCEPT ![s].finalized = TRUE, ![s].timers = {},
                                      ![s].at = at, ![s].state = to]
    BY <2>1 DEF FinalizeOnce, Goes, Inv, TypeOK
  <2>3. stream[s].state \in States /\ state \in States
    BY <1>0 DEF Stream, States, Terminal
  <2>4. CASE stream' = [stream EXCEPT ![s].at = "compensating"]
    BY <1>0, <2>4 DEF Inv, TypeOK, Stream, Points
  <2>5. ASSUME NEW at \in {"persisting", "compensating"}, NEW to \in States,
               stream' = [stream EXCEPT ![s].finalized = TRUE, ![s].timers = {},
                                        ![s].at = at, ![s].state = to]
        PROVE  x \in Stream /\ stream' = [stream EXCEPT ![s] = x]
    BY <1>0, <2>5 DEF Inv, TypeOK, Stream, Points
  <2> QED
    BY <2>2, <2>3, <2>4, <2>5
<1>2. Sane(x, phase[s])
  BY SMTT(30), <1>0 DEF Inv, TypeOK, GiveUp, FinalizeOnce, Goes, CanBecome, Successors, Stream,
     Sane, OutcomeSane, QuotaSane, MoneySane, Reserved, Besides, At, Undone, Terminal
<1> QED
  BY <1>1, <1>2, Alone DEF GiveUp

LEMMA PersistStep == ASSUME Inv, NEW s \in Streams, Persist(s) PROVE Inv'
<1> DEFINE x == stream'[s]
<1>0. stream[s] \in Stream /\ Sane(stream[s], phase[s]) /\ At(s, "persisting")
  BY DEF Inv, TypeOK, Persist
<1>1. x \in Stream /\ stream' = [stream EXCEPT ![s] = x]
  BY <1>0 DEF Inv, TypeOK, Persist, Throws, CatchOf, RecordOf, Stream, Points, States, Records
<1>2. Sane(x, phase[s])
  BY <1>0 DEF Inv, TypeOK, Persist, Throws, CatchOf, RecordOf, Stream, Sane, OutcomeSane,
     QuotaSane, MoneySane, Reserved, Besides, At, Undone, Terminal
<1> QED
  BY <1>1, <1>2, Alone DEF Persist

LEMMA AnnounceStep == ASSUME Inv, NEW s \in Streams, Announce(s) PROVE Inv'
<1> DEFINE x == stream'[s]
<1>0. stream[s] \in Stream /\ Sane(stream[s], phase[s]) /\ At(s, "announcing")
  BY DEF Inv, TypeOK, Announce
<1>1. x \in Stream /\ stream' = [stream EXCEPT ![s] = x]
  BY <1>0 DEF Inv, TypeOK, Announce, Goes, Throws, AfterFinalize, CatchOf, Stream, Points,
     States, Records
<1>2. Sane(x, phase[s])
  BY <1>0 DEF Inv, TypeOK, Announce, Goes, Throws, AfterFinalize, CatchOf, Stream, Sane,
     OutcomeSane, QuotaSane, MoneySane, Reserved, Besides, At, RecordOf, Undone, Terminal
<1> QED
  BY <1>1, <1>2, Alone DEF Announce

-----------------------------------------------------------------------------
(* The end of the request.                                                 *)
LEMMA ReconcileQuotaStep == ASSUME Inv, NEW s \in Streams, ReconcileQuota(s) PROVE Inv'
<1> DEFINE x == stream'[s]
<1>0. stream[s] \in Stream /\ Sane(stream[s], phase[s]) /\ At(s, "reconciling")
  BY DEF Inv, TypeOK, ReconcileQuota
<1>1. x \in Stream /\ stream' = [stream EXCEPT ![s] = x]
  BY <1>0 DEF Inv, TypeOK, ReconcileQuota, Goes, Throws, Stream, Points, States, Records
<1>2. Sane(x, phase[s])
  BY <1>0 DEF Inv, TypeOK, ReconcileQuota, Goes, Throws, Stream, Sane, OutcomeSane, QuotaSane,
     MoneySane, Reserved, Besides, At
<1> QED
  BY <1>1, <1>2, Alone DEF ReconcileQuota

LEMMA CancelQuotaStep == ASSUME Inv, NEW s \in Streams, CancelQuota(s) PROVE Inv'
<1> DEFINE x == stream'[s]
<1>0. stream[s] \in Stream /\ Sane(stream[s], phase[s]) /\ At(s, "compensating")
  BY DEF Inv, TypeOK, CancelQuota
<1>1. x \in Stream /\ stream' = [stream EXCEPT ![s] = x]
  BY <1>0 DEF Inv, TypeOK, CancelQuota, Goes, Throws, Stream, Points, States, Records
<1>2. Sane(x, phase[s])
  BY <1>0 DEF Inv, TypeOK, CancelQuota, Goes, Throws, Stream, Sane, OutcomeSane, QuotaSane,
     MoneySane, Reserved, Besides, At, Undone
<1> QED
  BY <1>1, <1>2, Alone DEF CancelQuota

LEMMA AuthorizeStep == ASSUME Inv, NEW s \in Streams, Authorize(s) PROVE Inv'
<1> DEFINE x == stream'[s]
<1>0. stream[s] \in Stream /\ Sane(stream[s], phase[s]) /\ At(s, "authorizing")
  BY DEF Inv, TypeOK, Authorize
<1>1. x \in Stream /\ stream' = [stream EXCEPT ![s] = x]
  BY <1>0 DEF Inv, TypeOK, Authorize, Goes, Stream, Points, States, Records
<1>2. /\ phase' \in [Streams -> {"none", "active", "settled", "released"}]
      /\ billed' \in [Streams -> BOOLEAN]
      /\ \A t \in Streams \ {s} : phase'[t] = phase[t]
      /\ gone' \subseteq Streams /\ db' \in {"open", "closed"}
  BY <1>0 DEF Inv, TypeOK, Authorize, Billing!Hold
<1>3. Sane(x, phase'[s])
  BY <1>0 DEF Inv, TypeOK, Authorize, Goes, Stream, Billing!Hold, Sane, OutcomeSane, QuotaSane,
     MoneySane, Reserved, Besides, At, Undone
<1> QED
  BY <1>1, <1>2, <1>3, OneMoves

LEMMA SettleBillingStep == ASSUME Inv, NEW s \in Streams, SettleBilling(s) PROVE Inv'
<1> DEFINE x == stream'[s]
<1>0. stream[s] \in Stream /\ Sane(stream[s], phase[s]) /\ At(s, "settling")
  BY DEF Inv, TypeOK, SettleBilling
<1>1. x \in Stream /\ stream' = [stream EXCEPT ![s] = x]
  BY <1>0 DEF Inv, TypeOK, SettleBilling, Goes, Throws, Stream, Points, States, Records
<1>2. /\ phase' \in [Streams -> {"none", "active", "settled", "released"}]
      /\ billed' \in [Streams -> BOOLEAN]
      /\ \A t \in Streams \ {s} : phase'[t] = phase[t]
      /\ gone' \subseteq Streams /\ db' \in {"open", "closed"}
  BY <1>0 DEF Inv, TypeOK, SettleBilling, Billing!Settle
<1>3. Sane(x, phase'[s])
  BY <1>0 DEF Inv, TypeOK, SettleBilling, Goes, Throws, Stream, Billing!Settle, Sane,
     OutcomeSane, QuotaSane, MoneySane, Reserved, Besides, At, Undone, Consistent
<1> QED
  BY <1>1, <1>2, <1>3, OneMoves

LEMMA ReleaseBillingStep == ASSUME Inv, NEW s \in Streams, ReleaseBilling(s) PROVE Inv'
<1> DEFINE x == stream'[s]
<1>0. stream[s] \in Stream /\ Sane(stream[s], phase[s]) /\ At(s, "releasing")
  BY DEF Inv, TypeOK, ReleaseBilling
<1>1. x \in Stream /\ stream' = [stream EXCEPT ![s] = x]
  BY <1>0 DEF Inv, TypeOK, ReleaseBilling, Throws, Stream, Points, States, Records
<1>2. /\ phase' \in [Streams -> {"none", "active", "settled", "released"}]
      /\ billed' \in [Streams -> BOOLEAN]
      /\ \A t \in Streams \ {s} : phase'[t] = phase[t]
      /\ gone' \subseteq Streams /\ db' \in {"open", "closed"}
  BY <1>0 DEF Inv, TypeOK, ReleaseBilling, Billing!GiveBack
<1>3. Sane(x, phase'[s])
  BY <1>0 DEF Inv, TypeOK, ReleaseBilling, Throws, Stream, Billing!GiveBack, Sane, OutcomeSane,
     QuotaSane, MoneySane, Reserved, Besides, At, Undone, Consistent
<1> QED
  BY <1>1, <1>2, <1>3, OneMoves

-----------------------------------------------------------------------------
(* Around the generator.                                                   *)
LEMMA TimerFiresStep ==
  ASSUME Inv, NEW s \in Streams, NEW timer, TimerFires(s, timer) PROVE Inv'
<1> DEFINE x == stream'[s]
<1>0. stream[s] \in Stream /\ Sane(stream[s], phase[s])
  BY DEF Inv, TypeOK
<1>1. x \in Stream /\ stream' = [stream EXCEPT ![s] = x]
  BY <1>0 DEF Inv, TypeOK, TimerFires, Stream
<1>2. Sane(x, phase[s])
  BY <1>0 DEF Inv, TypeOK, TimerFires, Stream, Sane, OutcomeSane, QuotaSane, MoneySane, Besides,
     Undone, Consistent
<1> QED
  BY <1>1, <1>2, Alone DEF TimerFires

LEMMA ClientLeavesStep == ASSUME Inv, NEW s \in Streams, ClientLeaves(s) PROVE Inv'
<1> DEFINE x == stream'[s]
<1>0. stream[s] \in Stream /\ Sane(stream[s], phase[s])
  BY DEF Inv, TypeOK
<1>1. x \in Stream /\ stream' = [stream EXCEPT ![s] = x]
  BY <1>0 DEF Inv, TypeOK, ClientLeaves, Stream
<1>2. Sane(x, phase'[s])
  BY <1>0 DEF Inv, TypeOK, ClientLeaves, Stream, Sane, OutcomeSane, QuotaSane, MoneySane,
     Besides, Undone, Consistent
<1>3. /\ phase' \in [Streams -> {"none", "active", "settled", "released"}]
      /\ billed' \in [Streams -> BOOLEAN]
      /\ \A t \in Streams \ {s} : phase'[t] = phase[t]
      /\ gone' \subseteq Streams /\ db' \in {"open", "closed"}
  BY DEF Inv, TypeOK, ClientLeaves
<1> QED
  BY <1>1, <1>2, <1>3, OneMoves

LEMMA InvStep == Inv /\ [Next]_vars => Inv'
<1> SUFFICES ASSUME Inv, [Next]_vars PROVE Inv'
  OBVIOUS
<1>1. CASE UNCHANGED vars
  BY <1>1 DEF vars, Inv, TypeOK
<1>2. CASE Shutdown
  BY <1>2 DEF Shutdown, Inv, TypeOK
<1>3. ASSUME NEW s \in Streams, Admit(s) \/ Proceed(s) PROVE Inv'
  BY <1>3, AdmitStep, RecordAnswerStep, ReplayStep, ReserveQuotaStep, AuthorizeStep,
     PrepareStep, RecordRequestStep, ConnectStep, FallBackStep, GiveUpStep, PersistStep,
     AnnounceStep, ReconcileQuotaStep, SettleBillingStep, CancelQuotaStep, ReleaseBillingStep
     DEF Proceed
<1>4. ASSUME NEW s \in Streams, \/ \E output \in BOOLEAN : Deliver(s, output)
                                \/ Drain(s) \/ ProviderThrows(s) \/ ProviderEnds(s)
      PROVE  Inv'
  BY <1>4, DeliverStep, DrainStep, ProviderThrowsStep, ProviderEndsStep
<1>5. ASSUME NEW s \in Streams,
             \/ \E timer \in {"deadline", "idle"} : TimerFires(s, timer)
             \/ ClientLeaves(s)
      PROVE  Inv'
  BY <1>5, TimerFiresStep, ClientLeavesStep
<1> QED
  BY <1>1, <1>2, <1>3, <1>4, <1>5 DEF Next

LEMMA AlwaysInv == Spec => []Inv
  BY InitInv, InvStep, PTL DEF Spec

-----------------------------------------------------------------------------
(* Requests, clients, the contract's state and the database keep their     *)
(* types, whatever the numbers of requests and candidates.                 *)
THEOREM TypeCorrect == Spec => []TypeOK
<1>1. Inv => TypeOK
  BY DEF Inv
<1> QED
  BY <1>1, AlwaysInv, PTL

(* Settlement comes after the record of completion and the reconciliation  *)
(* of the tokens, and nothing changes either afterwards.                   *)
THEOREM OnlyCompletedIsCharged == Spec => []ChargedOnlyIfCompleted
<1>1. Inv => ChargedOnlyIfCompleted
  BY DEF Inv, ChargedOnlyIfCompleted, Sane, MoneySane
<1> QED
  BY <1>1, AlwaysInv, PTL

(* Without a store failure, an ended request is completed, counted and     *)
(* charged, or none of these, and holds nothing.                           *)
THEOREM AllOrNothing == Spec => []EndsConsistent
<1>1. Inv => EndsConsistent
  BY DEF Inv, EndsConsistent, Sane, MoneySane, Consistent, At
<1> QED
  BY <1>1, AlwaysInv, PTL

(* The first terminal state and the status recorded for it stay.           *)
Settled(s) ==
  stream[s].state \in Terminal =>
    /\ stream'[s].state = stream[s].state
    /\ stream'[s].record \in {stream[s].record, RecordOf(stream[s].state)}

LEMMA SettledStep == ASSUME Inv, [Next]_vars, NEW t \in Streams PROVE Settled(t)
<1> USE DEF Settled
<1>0. stream[t] \in Stream /\ Sane(stream[t], phase[t])
  BY DEF Inv, TypeOK
<1>1. CASE UNCHANGED vars \/ Shutdown
  BY <1>1 DEF vars, Shutdown
<1>2. ASSUME NEW s \in Streams, \/ Admit(s) \/ RecordAnswer(s) \/ Replay(s)
                                \/ ReserveQuota(s) \/ Authorize(s) \/ Prepare(s)
                                \/ RecordRequest(s) PROVE Settled(t)
  <2>1. CASE Admit(s) \/ Replay(s) \/ ReserveQuota(s)
    BY <1>0, <2>1 DEF Inv, TypeOK, Admit, Replay, ReserveQuota, Goes, Stream
  <2>2. CASE Authorize(s) \/ Prepare(s)
    BY <1>0, <2>2 DEF Inv, TypeOK, Authorize, Prepare, Goes, Stream
  <2>3. CASE RecordAnswer(s)
    BY SMTT(30), <1>0, <2>3 DEF Inv, TypeOK, RecordAnswer, Throws, At, Sane, OutcomeSane,
       Besides, Terminal, Stream
  <2>4. CASE RecordRequest(s)
    BY SMTT(30), <1>0, <2>4 DEF Inv, TypeOK, RecordRequest, Throws, At, Sane, OutcomeSane,
       Terminal, Stream
  <2> QED
    BY <1>2, <2>1, <2>2, <2>3, <2>4
<1>3. ASSUME NEW s \in Streams, \/ Connect(s) \/ FallBack(s) \/ Drain(s) \/ ProviderThrows(s)
                                \/ \E output \in BOOLEAN : Deliver(s, output) PROVE Settled(t)
  <2>1. CASE Connect(s) \/ FallBack(s) \/ Drain(s) \/ ProviderThrows(s)
    BY SMTT(30), <1>0, <2>1 DEF Inv, TypeOK, Connect, FallBack, Drain, ProviderThrows, Goes, At,
       CanBecome, Successors, Sane, OutcomeSane, Terminal, Stream
  <2>2. ASSUME NEW output \in BOOLEAN, Deliver(s, output) PROVE Settled(t)
    BY SMTT(30), <1>0, <2>2 DEF Inv, TypeOK, Deliver, Goes, At, CanBecome, Successors, Sane,
       OutcomeSane, Terminal, Stream
  <2> QED
    BY <1>3, <2>1, <2>2
<1>4. ASSUME NEW s \in Streams, ProviderEnds(s) \/ GiveUp(s) PROVE Settled(t)
  <2>1. CASE ProviderEnds(s)
    BY SMTT(30), <1>0, <2>1 DEF Inv, TypeOK, ProviderEnds, Goes, At, CanBecome, Successors, Sane,
       OutcomeSane, Terminal, Stream
  <2>2. CASE GiveUp(s)
    BY SMTT(30), <1>0, <2>2 DEF Inv, TypeOK, GiveUp, FinalizeOnce, Goes, At, CanBecome,
       Successors, Sane, OutcomeSane, Terminal, Stream
  <2> QED
    BY <1>4, <2>1, <2>2
<1>5. ASSUME NEW s \in Streams, Persist(s) \/ Announce(s) PROVE Settled(t)
  BY SMTT(30), <1>0, <1>5 DEF Inv, TypeOK, Persist, Announce, Goes, Throws, At, Stream
<1>6. ASSUME NEW s \in Streams, ReconcileQuota(s) \/ CancelQuota(s) \/ SettleBilling(s) \/ ReleaseBilling(s)
      PROVE Settled(t)
  BY SMTT(30), <1>0, <1>6 DEF Inv, TypeOK, ReconcileQuota, CancelQuota, SettleBilling,
     ReleaseBilling, Goes, Throws, At, Stream
<1>7. ASSUME NEW s \in Streams, \/ \E timer \in {"deadline", "idle"} : TimerFires(s, timer)
                                \/ ClientLeaves(s)
      PROVE Settled(t)
  BY <1>0, <1>7 DEF Inv, TypeOK, TimerFires, ClientLeaves, Stream
<1> QED
  BY <1>1, <1>2, <1>3, <1>4, <1>5, <1>6, <1>7 DEF Next, Proceed

(* A second finalization finds the stream finalized, and no transition     *)
(* leaves a terminal state: the first outcome is the outcome.              *)
THEOREM FirstOutcomeStays == Spec => FirstOutcomeWins
<1>1. Inv /\ [Next]_vars => \A s \in Streams : Settled(s)
  BY SettledStep
<1>2. Inv /\ [Next]_vars =>
        [\A s \in Streams :
           stream[s].state \in Terminal =>
             /\ stream'[s].state = stream[s].state
             /\ stream'[s].record \in {stream[s].record, RecordOf(stream[s].state)}]_vars
  BY <1>1 DEF Settled
<1> QED
  BY <1>2, AlwaysInv, PTL DEF Spec, FirstOutcomeWins

(* What the client has of the answer, and the provider it came from, stay. *)
Spliced(s) == stream[s].emitted /\ ~(/\ stream'[s].emitted
                                     /\ stream'[s].route = stream[s].route)

LEMMA OneAnswerStep == ASSUME Inv, [Next]_vars, NEW t \in Streams PROVE ~Spliced(t)
<1> USE DEF Spliced
<1>0. stream[t] \in Stream
  BY DEF Inv, TypeOK
<1>1. CASE UNCHANGED vars \/ Shutdown
  BY <1>1 DEF vars, Shutdown
<1>2. ASSUME NEW s \in Streams, \/ Admit(s) \/ RecordAnswer(s) \/ Replay(s)
                                \/ ReserveQuota(s) \/ Authorize(s) \/ Prepare(s)
                                \/ RecordRequest(s) PROVE ~Spliced(t)
  BY SMTT(30), <1>0, <1>2 DEF Inv, TypeOK, Admit, RecordAnswer, Replay, ReserveQuota, Authorize,
     Prepare, RecordRequest, Goes, Throws, Stream
<1>3. ASSUME NEW s \in Streams, \/ Connect(s) \/ Drain(s) \/ ProviderThrows(s)
                                \/ ProviderEnds(s) PROVE ~Spliced(t)
  BY <1>0, <1>3 DEF Inv, TypeOK, Connect, Drain, ProviderThrows, ProviderEnds, Goes, Stream
<1>4. ASSUME NEW s \in Streams, NEW output \in BOOLEAN, Deliver(s, output) PROVE ~Spliced(t)
  BY <1>0, <1>4 DEF Inv, TypeOK, Deliver, Stream
<1>5. ASSUME NEW s \in Streams, FallBack(s) PROVE ~Spliced(t)
  BY <1>0, <1>5 DEF Inv, TypeOK, FallBack, MayFallBack, Stream
<1>6. ASSUME NEW s \in Streams, \/ GiveUp(s) \/ Persist(s) \/ Announce(s) PROVE ~Spliced(t)
  BY <1>0, <1>6 DEF Inv, TypeOK, GiveUp, FinalizeOnce, Persist, Announce, Goes, Throws, Stream
<1>7. ASSUME NEW s \in Streams, \/ ReconcileQuota(s) \/ CancelQuota(s)
                                \/ SettleBilling(s) \/ ReleaseBilling(s) PROVE ~Spliced(t)
  BY <1>0, <1>7 DEF Inv, TypeOK, ReconcileQuota, CancelQuota, SettleBilling, ReleaseBilling,
     Goes, Throws, Stream
<1>8. ASSUME NEW s \in Streams, \/ \E timer \in {"deadline", "idle"} : TimerFires(s, timer)
                                \/ ClientLeaves(s)
      PROVE ~Spliced(t)
  BY <1>0, <1>8 DEF Inv, TypeOK, TimerFires, ClientLeaves, Stream
<1> QED
  BY <1>1, <1>2, <1>3, <1>4, <1>5, <1>6, <1>7, <1>8 DEF Next, Proceed

(* An answer comes from one provider: only an attempt that failed before   *)
(* its first output hands over to the next candidate.                      *)
THEOREM OneProviderPerAnswer == Spec => NoFallbackAfterOutput
<1>1. Inv /\ [Next]_vars =>
        [\A s \in Streams :
           stream[s].emitted => /\ stream'[s].emitted
                                /\ stream'[s].route = stream[s].route]_vars
  BY OneAnswerStep DEF Spliced
<1> QED
  BY <1>1, AlwaysInv, PTL DEF Spec, NoFallbackAfterOutput

-----------------------------------------------------------------------------
(* The request contract.                                                   *)

(* Until its stream is finalized a recorded request is "executing", and it *)
(* still is where the outcome is about to be stored.                       *)
Executing(x) ==
  /\ x.at \in {"connecting", "pulling", "draining", "failed"} /\ ~x.finalized
       => x.record = "executing"
  /\ x.at = "persisting" => x.record = "executing"

ExecutingInv == \A s \in Streams : Executing(stream[s])

LEMMA ExecutingStep ==
  ASSUME Inv, ExecutingInv, [Next]_vars, NEW t \in Streams
  PROVE  Executing(stream'[t])
<1> USE DEF Executing
<1>0. stream[t] \in Stream /\ Sane(stream[t], phase[t]) /\ Executing(stream[t])
  BY DEF Inv, TypeOK, ExecutingInv
<1>1. CASE UNCHANGED vars \/ Shutdown
  BY <1>0, <1>1 DEF vars, Shutdown
<1>2. ASSUME NEW s \in Streams, \/ Admit(s) \/ RecordAnswer(s) \/ Replay(s)
                                \/ ReserveQuota(s) \/ Authorize(s) \/ Prepare(s)
                                \/ RecordRequest(s) PROVE Executing(stream'[t])
  <2>1. CASE Admit(s) \/ RecordAnswer(s) \/ Replay(s) \/ ReserveQuota(s)
    BY SMTT(30), <1>0, <2>1 DEF Inv, TypeOK, Admit, RecordAnswer, Replay, ReserveQuota, Goes,
       Throws, At, Stream
  <2>2. CASE Authorize(s) \/ Prepare(s)
    BY SMTT(30), <1>0, <2>2 DEF Inv, TypeOK, Authorize, Prepare, Goes, Throws, At, Stream
  <2>3. CASE RecordRequest(s)
    BY SMTT(30), <1>0, <2>3 DEF Inv, TypeOK, RecordRequest, Goes, Throws, At, Stream
  <2> QED
    BY <1>2, <2>1, <2>2, <2>3
<1>3. ASSUME NEW s \in Streams, \/ Connect(s) \/ FallBack(s) \/ Drain(s) \/ ProviderThrows(s)
                                \/ \E output \in BOOLEAN : Deliver(s, output)
      PROVE  Executing(stream'[t])
  <2>1. CASE Connect(s) \/ FallBack(s)
    BY SMTT(30), <1>0, <2>1 DEF Inv, TypeOK, Connect, FallBack, Goes, At, CanBecome, Successors,
       Sane, OutcomeSane, Terminal, Stream
  <2>2. CASE Drain(s) \/ ProviderThrows(s)
    BY SMTT(30), <1>0, <2>2 DEF Inv, TypeOK, Drain, ProviderThrows, Goes, At, Sane, OutcomeSane,
       Terminal, Stream
  <2>3. ASSUME NEW output \in BOOLEAN, Deliver(s, output) PROVE Executing(stream'[t])
    BY SMTT(30), <1>0, <2>3 DEF Inv, TypeOK, Deliver, Goes, At, CanBecome, Successors, Sane,
       OutcomeSane, Terminal, Stream
  <2> QED
    BY <1>3, <2>1, <2>2, <2>3
<1>4. ASSUME NEW s \in Streams, ProviderEnds(s) \/ GiveUp(s) PROVE Executing(stream'[t])
  <2>1. CASE ProviderEnds(s)
    <3>1. CASE s = t
      <4>1. stream[t].at = "pulling" /\ stream[t].record = "executing"
        BY <1>0, <2>1, <3>1 DEF ProviderEnds, At, Sane, OutcomeSane
      <4>2. /\ stream'[t].record = stream[t].record
            /\ stream'[t].at \in {"persisting", "failed"}
        BY <1>0, <2>1, <3>1 DEF Inv, TypeOK, ProviderEnds, Goes, Stream
      <4> QED
        BY <4>1, <4>2
    <3>2. CASE s # t
      <4>1. stream'[t] = stream[t]
        BY <2>1, <3>2 DEF Inv, TypeOK, ProviderEnds, Goes
      <4> QED
        BY <1>0, <4>1
    <3> QED
      BY <3>1, <3>2
  <2>2. CASE GiveUp(s)
    BY SMTT(30), <1>0, <2>2 DEF Inv, TypeOK, GiveUp, FinalizeOnce, Goes, At, CanBecome,
       Successors, Sane, OutcomeSane, Terminal, Stream
  <2> QED
    BY <1>4, <2>1, <2>2
<1>5. ASSUME NEW s \in Streams, Persist(s) \/ Announce(s) PROVE Executing(stream'[t])
  BY SMTT(30), <1>0, <1>5 DEF Inv, TypeOK, Persist, Announce, AfterFinalize, CatchOf, Goes,
     Throws, Sane, OutcomeSane, At, Stream
<1>6. ASSUME NEW s \in Streams, ReconcileQuota(s) \/ CancelQuota(s) \/ SettleBilling(s) \/ ReleaseBilling(s)
      PROVE Executing(stream'[t])
  BY SMTT(30), <1>0, <1>6 DEF Inv, TypeOK, ReconcileQuota, CancelQuota, SettleBilling,
     ReleaseBilling, Goes, Throws, At, Stream
<1>7. ASSUME NEW s \in Streams, \/ \E timer \in {"deadline", "idle"} : TimerFires(s, timer)
                                \/ ClientLeaves(s)
      PROVE Executing(stream'[t])
  BY <1>0, <1>7 DEF Inv, TypeOK, TimerFires, ClientLeaves, Stream
<1> QED
  BY <1>1, <1>2, <1>3, <1>4, <1>5, <1>6, <1>7 DEF Next, Proceed

(* What the contract sees.                                                 *)
SeenRecord == [s \in Streams |-> stream[s].record]
SeenTokens == [s \in Streams |->
                IF stream[s].record = "none" THEN "none" ELSE stream[s].quota]

(* A step of one stream, as the contract sees it.                          *)
LEMMA Seen ==
  ASSUME Inv, NEW s \in Streams, NEW x, stream' = [stream EXCEPT ![s] = x]
  PROVE  /\ SeenRecord[s] = stream[s].record
         /\ SeenTokens[s] = IF stream[s].record = "none" THEN "none" ELSE stream[s].quota
         /\ SeenRecord' = [SeenRecord EXCEPT ![s] = x.record]
         /\ SeenTokens' = [SeenTokens EXCEPT ![s] = IF x.record = "none" THEN "none" ELSE x.quota]
         /\ x.record = stream[s].record => SeenRecord' = SeenRecord
         /\ /\ x.quota = stream[s].quota
            /\ x.record # "none" /\ stream[s].record # "none"
            => SeenTokens' = SeenTokens
  BY DEF Inv, TypeOK, SeenRecord, SeenTokens

LEMMA SeenSame ==
  ASSUME Inv, NEW s \in Streams, NEW x, stream' = [stream EXCEPT ![s] = x],
         x.record = stream[s].record, x.record = "none" \/ x.quota = stream[s].quota
  PROVE  UNCHANGED <<SeenRecord, SeenTokens>>
  BY DEF Inv, TypeOK, SeenRecord, SeenTokens

ContractStep == Contract!Next \/ UNCHANGED <<SeenRecord, SeenTokens, phase, billed>>

(* Steps that leave record, tokens and money alone.                        *)
LEMMA SilentSteps ==
  ASSUME Inv, NEW s \in Streams,
         \/ Admit(s) \/ Replay(s) \/ Prepare(s) \/ Connect(s) \/ Drain(s) \/ ProviderThrows(s)
         \/ ProviderEnds(s) \/ FallBack(s) \/ GiveUp(s) \/ Announce(s)
         \/ \E output \in BOOLEAN : Deliver(s, output)
         \/ \E timer \in {"deadline", "idle"} : TimerFires(s, timer)
         \/ ClientLeaves(s)
  PROVE  UNCHANGED <<SeenRecord, SeenTokens, phase, billed>>
<1> DEFINE x == stream'[s]
<1>0. stream[s] \in Stream
  BY DEF Inv, TypeOK
<1>1. ASSUME \/ Admit(s) \/ Replay(s) \/ Prepare(s) \/ Drain(s) \/ ProviderThrows(s) \/ FallBack(s)
             \/ Announce(s)
      PROVE  /\ stream' = [stream EXCEPT ![s] = x] /\ UNCHANGED <<phase, billed>>
             /\ x.record = stream[s].record /\ x.quota = stream[s].quota
  BY <1>0, <1>1 DEF Inv, TypeOK, Admit, Replay, Prepare, Drain, ProviderThrows, FallBack,
     Announce, Goes, Throws, Stream
<1>2. ASSUME Connect(s) \/ ProviderEnds(s) \/ GiveUp(s)
      PROVE  /\ stream' = [stream EXCEPT ![s] = x] /\ UNCHANGED <<phase, billed>>
             /\ x.record = stream[s].record /\ x.quota = stream[s].quota
  BY <1>0, <1>2 DEF Inv, TypeOK, Connect, ProviderEnds, GiveUp, FinalizeOnce, Goes, Stream
<1>3. ASSUME \/ \E output \in BOOLEAN : Deliver(s, output)
             \/ \E timer \in {"deadline", "idle"} : TimerFires(s, timer)
             \/ ClientLeaves(s)
      PROVE  /\ stream' = [stream EXCEPT ![s] = x] /\ UNCHANGED <<phase, billed>>
             /\ x.record = stream[s].record /\ x.quota = stream[s].quota
  BY <1>0, <1>3 DEF Inv, TypeOK, Deliver, TimerFires, ClientLeaves, Stream
<1> QED
  BY <1>1, <1>2, <1>3, SeenSame

(* Tokens are reserved before there is a record, and returned after one.   *)
LEMMA TokenSteps ==
  ASSUME Inv, NEW s \in Streams, ReserveQuota(s) \/ ReconcileQuota(s) \/ CancelQuota(s)
  PROVE  ContractStep
<1> DEFINE x == stream'[s]
<1>0. stream[s] \in Stream /\ Sane(stream[s], phase[s])
  BY DEF Inv, TypeOK
<1>1. CASE ReserveQuota(s)
  <2>1. /\ stream' = [stream EXCEPT ![s] = x] /\ UNCHANGED <<phase, billed>>
        /\ x.record = stream[s].record /\ x.record = "none"
    BY <1>0, <1>1 DEF Inv, TypeOK, ReserveQuota, Goes, Stream, At, Sane, OutcomeSane
  <2> QED
    BY <2>1, SeenSame DEF ContractStep
<1>2. CASE ReconcileQuota(s)
  <2>1. /\ stream' = [stream EXCEPT ![s] = x] /\ UNCHANGED <<phase, billed>>
        /\ x.record = stream[s].record /\ x.record = "completed"
        /\ stream[s].quota = "held" /\ x.quota \in {"held", "finalized"}
    BY <1>0, <1>2 DEF Inv, TypeOK, ReconcileQuota, Throws, Stream, At, Sane, OutcomeSane,
       QuotaSane, Reserved
  <2>2. CASE x.quota = "held"
    BY <2>1, <2>2, SeenSame DEF ContractStep
  <2>3. CASE x.quota = "finalized"
    <3>1. /\ SeenRecord[s] = "completed" /\ SeenTokens[s] = "held"
          /\ SeenRecord' = SeenRecord /\ SeenTokens' = [SeenTokens EXCEPT ![s] = "finalized"]
      <4>1. x.record # "none" /\ stream[s].record # "none" /\ stream[s].record = "completed"
        BY <2>1
      <4>2. SeenRecord[s] = "completed" /\ SeenTokens[s] = "held" /\ SeenRecord' = SeenRecord
        BY <2>1, <4>1, Seen
      <4>3. SeenTokens' = [SeenTokens EXCEPT ![s] = IF x.record = "none" THEN "none" ELSE x.quota]
        BY <2>1, Seen
      <4> QED
        BY <2>3, <4>1, <4>2, <4>3
    <3>2. Contract!Count(s)
      BY <2>1, <3>1 DEF Contract!Count, Contract!TokensBecome, SeenRecord, SeenTokens
    <3> QED
      BY <3>2 DEF ContractStep, Contract!Next
  <2> QED
    BY <2>1, <2>2, <2>3
<1>3. CASE CancelQuota(s)
  <2>1. /\ stream' = [stream EXCEPT ![s] = x] /\ UNCHANGED <<phase, billed>>
        /\ x.record = stream[s].record /\ phase[s] # "settled"
        /\ \/ x.quota = stream[s].quota
           \/ stream[s].quota = "held" /\ x.quota = "cancelled"
    BY <1>0, <1>3 DEF Inv, TypeOK, CancelQuota, Goes, Throws, Stream, At, Sane, MoneySane
  <2>2. CASE x.record = "none" \/ x.quota = stream[s].quota
    BY <2>1, <2>2, SeenSame DEF ContractStep
  <2>3. CASE x.record # "none" /\ stream[s].quota = "held" /\ x.quota = "cancelled"
    <3>1. /\ SeenTokens[s] = "held"
          /\ SeenRecord' = SeenRecord /\ SeenTokens' = [SeenTokens EXCEPT ![s] = "cancelled"]
      BY <2>1, <2>3, Seen
    <3>2. Contract!Return(s)
      BY <2>1, <3>1 DEF Contract!Return, Contract!TokensBecome, SeenRecord, SeenTokens
    <3> QED
      BY <3>2 DEF ContractStep, Contract!Next
  <2> QED
    BY <2>1, <2>2, <2>3
<1> QED
  BY <1>1, <1>2, <1>3

(* The record begins with the tokens held and ends with the outcome.       *)
LEMMA RecordSteps ==
  ASSUME Inv, ExecutingInv, NEW s \in Streams,
         RecordRequest(s) \/ Persist(s) \/ RecordAnswer(s)
  PROVE  ContractStep
<1> DEFINE x == stream'[s]
<1>0. stream[s] \in Stream /\ Sane(stream[s], phase[s]) /\ Executing(stream[s])
  BY DEF Inv, TypeOK, ExecutingInv
<1>1. CASE RecordRequest(s)
  <2>1. /\ stream' = [stream EXCEPT ![s] = x] /\ UNCHANGED <<phase, billed>>
        /\ stream[s].record = "none" /\ x.record \in {"none", "executing"}
        /\ x.quota = "held"
    BY <1>0, <1>1 DEF Inv, TypeOK, RecordRequest, Throws, Stream, At, Sane, OutcomeSane,
       QuotaSane, Reserved
  <2>2. CASE x.record = "none"
    BY <2>1, <2>2, SeenSame DEF ContractStep
  <2>3. CASE x.record = "executing"
    <3>1. /\ SeenRecord[s] = "none" /\ SeenRecord' = [SeenRecord EXCEPT ![s] = "executing"]
          /\ SeenTokens' = [SeenTokens EXCEPT ![s] = "held"]
      BY <2>1, <2>3, Seen
    <3>2. Contract!Start(s)
      BY <2>1, <3>1 DEF Contract!Start, Contract!RecordBecomes, Contract!TokensBecome,
         SeenRecord, SeenTokens
    <3> QED
      BY <3>2 DEF ContractStep, Contract!Next
  <2> QED
    BY <2>1, <2>2, <2>3
<1>2. CASE Persist(s)
  <2>1. /\ stream' = [stream EXCEPT ![s] = x] /\ UNCHANGED <<phase, billed>>
        /\ stream[s].record = "executing" /\ stream[s].quota = "held" /\ phase[s] # "settled"
        /\ x.record \in {"executing", RecordOf(stream[s].state)}
        /\ x.quota = "held" /\ stream[s].state \in {"COMPLETED", "FAILED", "CANCELLED"}
    BY <1>0, <1>2 DEF Inv, TypeOK, Persist, Throws, Stream, At, Sane, OutcomeSane, QuotaSane,
       MoneySane, Reserved, Executing, Terminal
  <2>2. x.record \in {"executing", "completed", "failed", "cancelled"}
    BY <2>1 DEF RecordOf
  <2>3. CASE x.record = "executing"
    BY <2>1, <2>3, SeenSame DEF ContractStep
  <2>4. CASE x.record # "executing"
    <3>1. /\ SeenRecord[s] = "executing" /\ SeenTokens[s] = "held"
          /\ SeenRecord' = [SeenRecord EXCEPT ![s] = x.record]
          /\ SeenTokens' = SeenTokens
      BY <2>1, <2>2, Seen
    <3>2. Contract!Complete(s) \/ Contract!Fail(s)
      BY <2>1, <2>2, <2>4, <3>1 DEF Contract!Complete, Contract!Fail, Contract!RecordBecomes,
         SeenRecord, SeenTokens
    <3> QED
      BY <3>2 DEF ContractStep, Contract!Next
  <2> QED
    BY <2>3, <2>4
<1>3. CASE RecordAnswer(s)
  <2>1. /\ stream' = [stream EXCEPT ![s] = x] /\ UNCHANGED <<phase, billed>>
        /\ stream[s].record = "none" /\ x.record \in {"none", "completed"}
        /\ x.quota = "none"
    BY <1>0, <1>3 DEF Inv, TypeOK, RecordAnswer, Throws, Stream, At, Sane, OutcomeSane,
       QuotaSane, Besides
  <2>2. CASE x.record = "none"
    BY <2>1, <2>2, SeenSame DEF ContractStep
  <2>3. CASE x.record = "completed"
    <3>1. /\ SeenRecord[s] = "none" /\ SeenRecord' = [SeenRecord EXCEPT ![s] = "completed"]
          /\ SeenTokens' = [SeenTokens EXCEPT ![s] = "none"] /\ SeenTokens[s] = "none"
      BY <2>1, <2>3, Seen
    <3>2. SeenTokens' = SeenTokens
      BY <3>1 DEF SeenTokens
    <3>3. Contract!AnswerBesides(s)
      BY <2>1, <3>1, <3>2 DEF Contract!AnswerBesides, Contract!RecordBecomes, SeenRecord,
         SeenTokens
    <3> QED
      BY <3>3 DEF ContractStep, Contract!Next
  <2> QED
    BY <2>1, <2>2, <2>3
<1> QED
  BY <1>1, <1>2, <1>3

(* A hold is made, settled for a completed stream, or given back.          *)
LEMMA MoneySteps ==
  ASSUME Inv, NEW s \in Streams, Authorize(s) \/ SettleBilling(s) \/ ReleaseBilling(s)
  PROVE  ContractStep
<1> DEFINE x == stream'[s]
<1>0. stream[s] \in Stream /\ Sane(stream[s], phase[s])
  BY DEF Inv, TypeOK
<1>1. UNCHANGED <<SeenRecord, SeenTokens>>
  <2>1. /\ stream' = [stream EXCEPT ![s] = x]
        /\ x.record = stream[s].record /\ x.quota = stream[s].quota
    <3>1. CASE Authorize(s)
      BY <1>0, <3>1 DEF Inv, TypeOK, Authorize, Goes, Stream
    <3>2. CASE SettleBilling(s)
      BY <1>0, <3>2 DEF Inv, TypeOK, SettleBilling, Goes, Throws, Stream
    <3>3. CASE ReleaseBilling(s)
      BY <1>0, <3>3 DEF Inv, TypeOK, ReleaseBilling, Stream
    <3> QED
      BY <3>1, <3>2, <3>3
  <2> QED
    BY <2>1, SeenSame
<1>2. CASE Authorize(s)
  <2>1. Billing!Hold(s) \/ UNCHANGED <<phase, billed>>
    BY <1>2 DEF Authorize
  <2> QED
    BY <1>1, <2>1 DEF ContractStep, Contract!Next, Contract!Hold, Billing!Hold,
       Contract!Billing!Hold, SeenRecord, SeenTokens
<1>3. CASE SettleBilling(s)
  <2>1. Billing!Settle(s) \/ UNCHANGED <<phase, billed>>
    BY <1>3 DEF SettleBilling
  <2>2. SeenRecord[s] = "completed" /\ SeenTokens[s] \in {"held", "finalized"}
    <3>1. stream[s].record = "completed" /\ stream[s].quota \in {"held", "finalized"}
      BY <1>0, <1>3 DEF SettleBilling, At, Sane, OutcomeSane, QuotaSane
    <3> QED
      BY <3>1 DEF SeenRecord, SeenTokens
  <2> QED
    BY <1>1, <2>1, <2>2 DEF ContractStep, Contract!Next, Contract!Settle, Billing!Settle,
       Contract!Billing!Settle, SeenRecord, SeenTokens
<1>4. CASE ReleaseBilling(s)
  <2>1. Billing!GiveBack(s) \/ UNCHANGED <<phase, billed>>
    BY <1>4 DEF ReleaseBilling
  <2> QED
    BY <1>1, <2>1 DEF ContractStep, Contract!Next, Contract!GiveBack, Billing!GiveBack,
       Contract!Billing!GiveBack, SeenRecord, SeenTokens
<1> QED
  BY <1>2, <1>3, <1>4

(* Record, tokens and money of a stream go together as the request         *)
(* contract says, whatever the store throws, whoever aborts and however    *)
(* many candidates are tried: every step is one of its steps or none.      *)
THEOREM RequestImplementation == Spec => KeepsRequestContract
<1>1. Init => ExecutingInv
  BY DEF Init, ExecutingInv, Executing, Fresh
<1>2. Inv /\ ExecutingInv /\ [Next]_vars => ExecutingInv'
  BY ExecutingStep DEF ExecutingInv
<1>3. Init => Contract!Init
  <2> SUFFICES ASSUME Init PROVE Contract!Init
    OBVIOUS
  <2>1. \A s \in Streams : stream[s].record = "none"
    BY DEF Init, Fresh
  <2> QED
    BY <2>1 DEF Init, Billing!Init, Contract!Init, Contract!Billing!Init
<1>4. Inv /\ ExecutingInv /\ [Next]_vars => [Contract!Next]_(Contract!rvars)
  <2> SUFFICES ASSUME Inv, ExecutingInv, [Next]_vars
               PROVE  ContractStep
    BY DEF ContractStep, Contract!rvars, SeenRecord, SeenTokens
  <2>1. CASE UNCHANGED vars \/ Shutdown
    BY <2>1 DEF ContractStep, vars, Shutdown, SeenRecord, SeenTokens
  <2>2. ASSUME NEW s \in Streams, Admit(s) \/ Proceed(s) PROVE ContractStep
    BY <2>2, SilentSteps, TokenSteps, RecordSteps, MoneySteps DEF Proceed, ContractStep
  <2>3. ASSUME NEW s \in Streams,
               \/ \E output \in BOOLEAN : Deliver(s, output)
               \/ Drain(s) \/ ProviderThrows(s) \/ ProviderEnds(s)
               \/ \E timer \in {"deadline", "idle"} : TimerFires(s, timer)
               \/ ClientLeaves(s)
        PROVE  ContractStep
    BY <2>3, SilentSteps DEF ContractStep
  <2> QED
    BY <2>1, <2>2, <2>3 DEF Next
<1> QED
  BY <1>1, <1>2, <1>3, <1>4, AlwaysInv, PTL DEF Spec, KeepsRequestContract, Contract!Spec
=============================================================================
