------------------------- MODULE GatewayRequestProofs -------------------------
(***************************************************************************)
(* The safety properties of a non-streaming request, for any number of     *)
(* calls, request ids and cache keys: nobody is charged for an error, what *)
(* a call holds comes home, equal requests do not execute beside each      *)
(* other and, if retries do not overlap, the request contract is kept, and *)
(* with it the billing contract.                                           *)
(***************************************************************************)
EXTENDS GatewayRequest, TLAPS

(* Stretches of a call: before it holds anything; while it leads the       *)
(* flight of its key; with a record of its own; with tokens reserved; with *)
(* a hold it may still settle.                                             *)
Before == {"looking", "joining", "waiting", "rechecking", "reserving"}
Leading == Points \ {"idle", "looking", "joining", "waiting", "ended"}
Recorded == {"starting", "executing", "saving", "completing", "announcing",
             "reconciling", "settling"}
Reserving == {"authorizing", "routing", "recording", "starting", "executing",
              "saving", "completing", "announcing", "reconciling"}
Serving == (Reserving \ {"authorizing"}) \cup {"settling"}

QuotaSane(x) ==
  /\ x.at \in {"idle"} \cup Before => x.quota = "none" /\ ~x.threw
  /\ x.at \in Reserving => x.quota = "held"
  /\ x.at = "settling" => x.quota = "finalized" \/ (x.quota = "held" /\ x.threw)
  /\ x.at = "compensating" => x.quota \in {"none", "held", "finalized"}
  /\ x.at \in {"releasing", "marking", "ended"} => x.quota # "held" \/ x.threw
  /\ x.outcome # "none" => x.at = "ended"
  /\ x.leader # Nobody => x.at \in {"waiting", "ended"} /\ x.quota = "none"

(* Only the call that made the record gets as far as the provider.         *)
RecordSane(x, rec) ==
  /\ x.at \in {"idle", "authorizing", "routing", "recording"} \cup Before => ~x.created
  /\ x.at \in Recorded => x.created
  /\ x.created => rec[x.id] # "none" /\ x.leader = Nobody
  /\ x.at \in {"announcing", "reconciling", "settling"} => rec[x.id] = "completed"

HoldSane(x, ph) ==
  /\ x.at \in {"idle", "authorizing"} \cup Before => ~x.holds
  /\ x.holds => ph[x.id] # "none" /\ x.leader = Nobody
  /\ x.holds /\ x.at \in {"marking", "ended"} /\ ~x.threw => ph[x.id] # "active"
  /\ x.holds /\ x.at = "ended" /\ ~x.threw /\ x.outcome = "answered" => ph[x.id] = "settled"
  /\ x.at \in Serving /\ ~OverlappingRetries /\ x.holds => ph[x.id] \in {"active", "settled"}

LeadSane(c, x, fl) == x.key \in Keys /\ x.at \in Leading => fl[x.key] = c

Sane(c, x, rec, ph, fl) ==
  QuotaSane(x) /\ RecordSane(x, rec) /\ HoldSane(x, ph) /\ LeadSane(c, x, fl)

OneCreator ==
  \A c, d \in Calls : call[c].created /\ call[d].created /\ Id(c) = Id(d) => c = d

Paid(i, c) == Id(c) = i /\ call[c].created /\ At(c, "ended") /\ Executed(c)

SettledIsPaid ==
  \A i \in Ids : phase[i] = "settled" =>
    record[i] = "completed" /\ \E c \in Calls : Paid(i, c)

ActiveIsHeld ==
  \A i \in Ids : phase[i] = "active" => \E c \in Calls : Id(c) = i /\ call[c].holds

Alone ==
  ~OverlappingRetries =>
    \A c, d \in Calls : UnderWay(c) /\ UnderWay(d) /\ Id(c) = Id(d) => c = d

(* The inductive invariant.                                                *)
Inv ==
  /\ TypeOK
  /\ \A c \in Calls : Sane(c, call[c], record, phase, flight)
  /\ OneCreator /\ SettledIsPaid /\ ActiveIsHeld /\ Alone

USE GatewayAssumption

-----------------------------------------------------------------------------
(* What a step of call c may do: to the call itself ...                    *)
Moves(c) ==
  LET x == call[c]
      y == call'[c] IN
  /\ y \in Call /\ call' = [call EXCEPT ![c] = y]
  /\ x.at # "ended" /\ y.at # "idle"
  /\ x.at = "idle" \/ (y.id = x.id /\ y.key = x.key)
  /\ x.holds => y.holds
  /\ y.created => x.created \/ record[y.id] = "none"

(* ... and to what it shares with others.                                  *)
Recording(c) ==
  /\ record' \in [Ids -> Records]
  /\ \A i \in Ids : \/ record'[i] = record[i]
                    \/ record[i] = "none" /\ record'[i] # "none"
                    \/ call[c].created /\ Id(c) = i /\ record'[i] # "none"

Holding(c) ==
  LET y == call'[c] IN
  /\ phase' \in [Ids -> {"none", "active", "settled", "released"}]
  /\ billed' \in [Ids -> BOOLEAN]
  /\ \A i \in Ids :
       \/ phase'[i] = phase[i]
       \/ i = y.id /\ phase[i] = "none" /\ phase'[i] = "active" /\ y.holds
       \/ i = Id(c) /\ phase[i] = "active" /\ phase'[i] = "released" /\ UnderWay(c)
       \/ /\ i = y.id /\ phase'[i] = "settled"
          /\ record[i] = "completed" /\ UNCHANGED record
          /\ y.created /\ y.at = "ended" /\ y.outcome = "answered" /\ y.quota # "none"

Flying(c) ==
  /\ flight' \in [Keys -> Calls \cup {Nobody}]
  /\ \A k \in Keys : flight'[k] = flight[k] \/ flight[k] \in {c, Nobody}

Entering(c) ==
  At(c, "idle") /\ ~OverlappingRetries =>
    \A d \in Calls : UnderWay(d) => Id(d) # call'[c].id

Steps(c) ==
  /\ Moves(c) /\ Recording(c) /\ Holding(c) /\ Flying(c) /\ Entering(c)
  /\ gone' \subseteq Calls /\ cached' \subseteq Keys
  /\ Sane(c, call'[c], record', phase', flight')

LEMMA InitInv == Init => Inv
<1> SUFFICES ASSUME Init PROVE Inv
  OBVIOUS
<1>1. PICK i \in Ids :
        call = [c \in Calls |->
                 [at |-> "idle", id |-> i, key |-> NoKey, leader |-> Nobody,
                  outcome |-> "none", quota |-> "none",
                  holds |-> FALSE, created |-> FALSE, threw |-> FALSE]]
  BY DEF Init
<1>2. phase = [j \in Ids |-> "none"] /\ billed = [j \in Ids |-> FALSE]
  BY DEF Init, Billing!Init
<1>3. TypeOK
  BY <1>1, <1>2 DEF Init, TypeOK, Call, Points, Records
<1>4. ASSUME NEW c \in Calls PROVE Sane(c, call[c], record, phase, flight)
  BY <1>1 DEF Sane, QuotaSane, RecordSane, HoldSane, LeadSane, Before, Leading, Recorded,
     Reserving, Serving
<1>5. OneCreator /\ SettledIsPaid /\ ActiveIsHeld
  BY <1>1, <1>2 DEF OneCreator, SettledIsPaid, ActiveIsHeld
<1>6. Alone
  BY <1>1 DEF Alone, UnderWay, At
<1> QED
  BY <1>3, <1>4, <1>5, <1>6 DEF Inv

(* A step of c leaves the other calls sane: of a record they have made, a  *)
(* hold they rely on and a flight they lead it takes nothing away.         *)
LEMMA OthersStaySane ==
  ASSUME Inv, NEW c \in Calls, Steps(c), NEW d \in Calls, d # c
  PROVE  Sane(d, call'[d], record', phase', flight')
<1> DEFINE z == call[d]
<1>0. z \in Call /\ call'[d] = z /\ Sane(d, z, record, phase, flight) /\ z.id \in Ids
  BY DEF Inv, TypeOK, Steps, Moves, Call
<1>1. z.created => ~(call[c].created /\ Id(c) = z.id)
  BY DEF Inv, OneCreator, Id
<1>2. QuotaSane(z)
  BY <1>0 DEF Sane
<1>3. RecordSane(z, record')
  <2>1. record[z.id] # "none" => record'[z.id] # "none"
    BY <1>0 DEF Steps, Recording
  <2>2. z.created /\ record[z.id] # "none" => record'[z.id] = record[z.id]
    BY <1>0, <1>1 DEF Steps, Recording
  <2> QED
    BY <1>0, <2>1, <2>2 DEF Sane, RecordSane, Recorded
<1>4. HoldSane(z, phase')
  <2>1. /\ phase[z.id] # "none" => phase'[z.id] # "none"
        /\ phase[z.id] \notin {"none", "active"} => phase'[z.id] # "active"
        /\ phase[z.id] = "settled" => phase'[z.id] = "settled"
    BY <1>0 DEF Steps, Holding
  <2>2. /\ z.at \in Serving /\ ~OverlappingRetries /\ phase[z.id] \in {"active", "settled"}
        => phase'[z.id] \in {"active", "settled"}
    <3>1. z.at \in Serving /\ ~OverlappingRetries /\ Id(c) = z.id => ~UnderWay(c)
      BY DEF Inv, Alone, Serving, Reserving, UnderWay, At, Id
    <3> QED
      BY <1>0, <3>1 DEF Steps, Holding
  <2> QED
    BY <1>0, <2>1, <2>2 DEF Sane, HoldSane
<1>5. LeadSane(d, z, flight')
  BY <1>0 DEF Sane, LeadSane, Steps, Flying
<1> QED
  BY <1>0, <1>2, <1>3, <1>4, <1>5 DEF Sane

LEMMA StepsInv == ASSUME Inv, NEW c \in Calls, Steps(c) PROVE Inv'
<1> DEFINE x == call[c]
           y == call'[c]
<1>0. /\ x \in Call /\ Sane(c, x, record, phase, flight)
      /\ y \in Call /\ Sane(c, y, record', phase', flight')
      /\ \A d \in Calls \ {c} : call'[d] = call[d]
      /\ x.at = "idle" => ~x.created /\ ~x.holds
      /\ x.at # "ended"
  BY DEF Inv, TypeOK, Steps, Moves, Sane, RecordSane, HoldSane
<1>1. TypeOK'
  BY DEF Inv, TypeOK, Steps, Moves, Recording, Holding, Flying
<1>2. ASSUME NEW d \in Calls PROVE Sane(d, call'[d], record', phase', flight')
  BY <1>0, OthersStaySane
<1>3. OneCreator'
  <2>1. ASSUME NEW d \in Calls, d # c, y.created, call[d].created, call[d].id = y.id
        PROVE  FALSE
    <3>1. record[y.id] # "none"
      BY <2>1 DEF Inv, Sane, RecordSane
    <3>2. x.created
      BY <2>1, <3>1 DEF Steps, Moves
    <3>3. x.id = y.id
      BY <1>0, <3>2 DEF Steps, Moves
    <3> QED
      BY <2>1, <3>2, <3>3 DEF Inv, OneCreator, Id
  <2> QED
    BY <1>0, <2>1 DEF Inv, OneCreator, Id
<1>4. SettledIsPaid'
  <2> SUFFICES ASSUME NEW i \in Ids, phase'[i] = "settled"
               PROVE  record'[i] = "completed" /\ \E d \in Calls : Paid(i, d)'
    BY DEF SettledIsPaid
  <2>1. CASE phase[i] = "settled"
    <3>1. PICK d \in Calls : Paid(i, d)
      BY <2>1 DEF Inv, SettledIsPaid
    <3>2. d # c /\ record[i] = "completed"
      BY <1>0, <2>1, <3>1 DEF Inv, SettledIsPaid, Paid, At
    <3>3. ~(call[c].created /\ Id(c) = i)
      BY <3>1, <3>2 DEF Inv, OneCreator, Paid
    <3>4. record'[i] = "completed"
      BY <3>2, <3>3 DEF Steps, Recording
    <3>5. Paid(i, d)'
      BY <1>0, <3>1, <3>2 DEF Paid, Id, At, Executed
    <3> QED
      BY <3>4, <3>5
  <2>2. CASE phase[i] # "settled"
    BY <2>2 DEF Steps, Holding, Paid, Id, At, Executed
  <2> QED
    BY <2>1, <2>2
<1>5. ActiveIsHeld'
  <2> SUFFICES ASSUME NEW i \in Ids, phase'[i] = "active"
               PROVE  \E d \in Calls : call'[d].id = i /\ call'[d].holds
    BY DEF ActiveIsHeld, Id
  <2>1. CASE phase[i] = "active"
    <3>1. PICK d \in Calls : call[d].id = i /\ call[d].holds
      BY <2>1 DEF Inv, ActiveIsHeld, Id
    <3>2. call'[d].id = i /\ call'[d].holds
      BY <1>0, <3>1 DEF Steps, Moves
    <3> QED
      BY <3>2
  <2>2. CASE phase[i] # "active"
    BY <2>2 DEF Steps, Holding
  <2> QED
    BY <2>1, <2>2
<1>6. Alone'
  <2> SUFFICES ASSUME ~OverlappingRetries, NEW d \in Calls, d # c, UnderWay(c)', UnderWay(d)',
                      y.id = call'[d].id
               PROVE  FALSE
    BY <1>0 DEF Inv, Alone, UnderWay, At, Id
  <2>1. UnderWay(d) /\ call[d].id = y.id
    BY <1>0 DEF UnderWay, At
  <2>2. CASE x.at = "idle"
    BY <2>1, <2>2 DEF Steps, Entering, At, Id
  <2>3. CASE x.at # "idle"
    BY <1>0, <2>1, <2>3 DEF Inv, Alone, Steps, Moves, UnderWay, At, Id
  <2> QED
    BY <2>2, <2>3
<1> QED
  BY <1>1, <1>2, <1>3, <1>4, <1>5, <1>6 DEF Inv

-----------------------------------------------------------------------------
(* Every action is such a step.                                            *)
LEMMA BeginStep == ASSUME Inv, NEW c \in Calls, Begin(c) PROVE Steps(c)
<1> DEFINE x == call[c]
           y == call'[c]
<1>0. x \in Call /\ Sane(c, x, record, phase, flight)
  BY DEF Inv, TypeOK
<1>a. PICK i \in Ids, k \in Keys \cup {NoKey}, point \in {"looking", "ended"} :
        /\ OverlappingRetries \/ \A d \in Calls : UnderWay(d) => Id(d) # i
        /\ call' = [call EXCEPT ![c].at = point, ![c].id = i, ![c].key = k,
                      ![c].outcome = IF point = "ended" THEN "refused" ELSE "none"]
  BY DEF Begin
<1>b. y = [x EXCEPT !.at = point, !.id = i, !.key = k,
                    !.outcome = IF point = "ended" THEN "refused" ELSE "none"]
  BY <1>a DEF Inv, TypeOK
<1>1. Moves(c) /\ gone' \subseteq Calls /\ cached' \subseteq Keys
  <2>1. y \in Call /\ y.at # "idle" /\ y.holds = x.holds /\ y.created = x.created
    BY <1>0, <1>b DEF Call, Points
  <2>2. call' = [call EXCEPT ![c] = y]
    BY <1>a DEF Inv, TypeOK
  <2> QED
    BY <1>0, <2>1, <2>2 DEF Inv, TypeOK, Begin, Moves, At, Sane, RecordSane
<1>2. Recording(c) /\ Flying(c) /\ Entering(c)
  BY <1>0 DEF Inv, TypeOK, Begin, Recording, Flying, Entering, Goes, At, Id, Key, Call, Records
<1>3. Holding(c)
  BY <1>0 DEF Inv, TypeOK, Begin, Holding, Goes, At, Id, Call
<1>4. QuotaSane(y) /\ RecordSane(y, record')
  BY <1>0 DEF Inv, TypeOK, Begin, Goes, At, Id, Key, Call, Sane, QuotaSane, RecordSane, Before,
     Recorded, Reserving
<1>5. HoldSane(y, phase') /\ LeadSane(c, y, flight')
  BY <1>0 DEF Inv, TypeOK, Begin, Goes, At, Id, Key, Call, Sane, HoldSane, LeadSane, Before,
     Leading, Recorded, Reserving, Serving, Points
<1> QED
  BY <1>1, <1>2, <1>3, <1>4, <1>5 DEF Steps, Sane

LEMMA LookUpStep == ASSUME Inv, NEW c \in Calls, LookUp(c) PROVE Steps(c)
<1> DEFINE x == call[c]
           y == call'[c]
<1>0. x \in Call /\ Sane(c, x, record, phase, flight)
  BY DEF Inv, TypeOK
<1>1. Moves(c) /\ gone' \subseteq Calls /\ cached' \subseteq Keys
  BY <1>0 DEF Inv, TypeOK, LookUp, AnsweredBesides, Ends, RecordBecomes, Moves, Goes, At, Id,
     Key, Call, Points
<1>2. Recording(c) /\ Flying(c) /\ Entering(c)
  BY <1>0 DEF Inv, TypeOK, LookUp, AnsweredBesides, Ends, RecordBecomes, Recording, Flying,
     Entering, Goes, At, Id, Key, Call, Records
<1>3. Holding(c)
  BY <1>0 DEF Inv, TypeOK, LookUp, AnsweredBesides, Ends, RecordBecomes, Holding, Goes, At, Id, Call
<1>4. QuotaSane(y) /\ RecordSane(y, record')
  BY <1>0 DEF Inv, TypeOK, LookUp, AnsweredBesides, Ends, RecordBecomes, Goes, At, Id, Key,
     Call, Sane, QuotaSane, RecordSane, Before, Recorded, Reserving
<1>5. HoldSane(y, phase') /\ LeadSane(c, y, flight')
  BY <1>0 DEF Inv, TypeOK, LookUp, AnsweredBesides, Ends, RecordBecomes, Goes, At, Id, Key,
     Call, Sane, HoldSane, LeadSane, Before, Leading, Recorded, Reserving, Serving, Points
<1> QED
  BY <1>1, <1>2, <1>3, <1>4, <1>5 DEF Steps, Sane

LEMMA JoinStep == ASSUME Inv, NEW c \in Calls, Join(c) PROVE Steps(c)
<1> DEFINE x == call[c]
           y == call'[c]
<1>0. x \in Call /\ Sane(c, x, record, phase, flight)
  BY DEF Inv, TypeOK
<1>1. Moves(c) /\ gone' \subseteq Calls /\ cached' \subseteq Keys
  BY <1>0 DEF Inv, TypeOK, Join, Moves, Goes, At, Id, Key, Call, Points
<1>2. Recording(c) /\ Flying(c) /\ Entering(c)
  BY <1>0 DEF Inv, TypeOK, Join, Recording, Flying, Entering, Goes, At, Id, Key, Call, Records
<1>3. Holding(c)
  BY <1>0 DEF Inv, TypeOK, Join, Holding, Goes, At, Id, Call
<1>4. QuotaSane(y) /\ RecordSane(y, record')
  BY <1>0 DEF Inv, TypeOK, Join, Goes, At, Id, Key, Call, Sane, QuotaSane, RecordSane, Before,
     Recorded, Reserving
<1>5. HoldSane(y, phase') /\ LeadSane(c, y, flight')
  BY <1>0 DEF Inv, TypeOK, Join, Goes, At, Id, Key, Call, Sane, HoldSane, LeadSane, Before,
     Leading, Recorded, Reserving, Serving, Points
<1> QED
  BY <1>1, <1>2, <1>3, <1>4, <1>5 DEF Steps, Sane

LEMMA FollowStep == ASSUME Inv, NEW c \in Calls, Follow(c) PROVE Steps(c)
<1> DEFINE x == call[c]
           y == call'[c]
<1>0. x \in Call /\ Sane(c, x, record, phase, flight)
  BY DEF Inv, TypeOK
<1>1. Moves(c) /\ gone' \subseteq Calls /\ cached' \subseteq Keys
  BY <1>0 DEF Inv, TypeOK, Follow, AnsweredBesides, Ends, RecordBecomes, Moves, Goes, At, Id,
     Key, Call, Points
<1>2. Recording(c) /\ Flying(c) /\ Entering(c)
  BY <1>0 DEF Inv, TypeOK, Follow, AnsweredBesides, Ends, RecordBecomes, Recording, Flying,
     Entering, Goes, At, Id, Key, Call, Records
<1>3. Holding(c)
  BY <1>0 DEF Inv, TypeOK, Follow, AnsweredBesides, Ends, RecordBecomes, Holding, Goes, At, Id, Call
<1>4. QuotaSane(y) /\ RecordSane(y, record')
  BY <1>0 DEF Inv, TypeOK, Follow, AnsweredBesides, Ends, RecordBecomes, Goes, At, Id, Key,
     Call, Sane, QuotaSane, RecordSane, Before, Recorded, Reserving
<1>5. HoldSane(y, phase') /\ LeadSane(c, y, flight')
  BY <1>0 DEF Inv, TypeOK, Follow, AnsweredBesides, Ends, RecordBecomes, Goes, At, Id, Key,
     Call, Sane, HoldSane, LeadSane, Before, Leading, Recorded, Reserving, Serving, Points
<1> QED
  BY <1>1, <1>2, <1>3, <1>4, <1>5 DEF Steps, Sane

LEMMA RecheckStep == ASSUME Inv, NEW c \in Calls, Recheck(c) PROVE Steps(c)
<1> DEFINE x == call[c]
           y == call'[c]
<1>0. x \in Call /\ Sane(c, x, record, phase, flight)
  BY DEF Inv, TypeOK
<1>1. Moves(c) /\ gone' \subseteq Calls /\ cached' \subseteq Keys
  BY <1>0 DEF Inv, TypeOK, Recheck, Ends, Moves, Goes, At, Id, Key, Call, Points
<1>2. Recording(c) /\ Flying(c) /\ Entering(c)
  BY <1>0 DEF Inv, TypeOK, Recheck, Ends, Recording, Flying, Entering, Goes, At, Id, Key, Call,
     Records
<1>3. Holding(c)
  BY <1>0 DEF Inv, TypeOK, Recheck, Ends, Holding, Goes, At, Id, Call
<1>4. QuotaSane(y) /\ RecordSane(y, record')
  BY <1>0 DEF Inv, TypeOK, Recheck, Ends, Goes, At, Id, Key, Call, Sane, QuotaSane, RecordSane,
     Before, Recorded, Reserving
<1>5. HoldSane(y, phase') /\ LeadSane(c, y, flight')
  BY <1>0 DEF Inv, TypeOK, Recheck, Ends, Goes, At, Id, Key, Call, Sane, HoldSane, LeadSane,
     Before, Leading, Recorded, Reserving, Serving, Points
<1> QED
  BY <1>1, <1>2, <1>3, <1>4, <1>5 DEF Steps, Sane

LEMMA ReserveQuotaStep == ASSUME Inv, NEW c \in Calls, ReserveQuota(c) PROVE Steps(c)
<1> DEFINE x == call[c]
           y == call'[c]
<1>0. x \in Call /\ Sane(c, x, record, phase, flight)
  BY DEF Inv, TypeOK
<1>1. Moves(c) /\ gone' \subseteq Calls /\ cached' \subseteq Keys
  BY <1>0 DEF Inv, TypeOK, ReserveQuota, Moves, Goes, At, Id, Key, Call, Points
<1>2. Recording(c) /\ Flying(c) /\ Entering(c)
  BY <1>0 DEF Inv, TypeOK, ReserveQuota, Recording, Flying, Entering, Goes, At, Id, Key, Call,
     Records
<1>3. Holding(c)
  BY <1>0 DEF Inv, TypeOK, ReserveQuota, Holding, Goes, At, Id, Call
<1>4. QuotaSane(y) /\ RecordSane(y, record')
  BY <1>0 DEF Inv, TypeOK, ReserveQuota, Goes, At, Id, Key, Call, Sane, QuotaSane, RecordSane,
     Before, Recorded, Reserving
<1>5. HoldSane(y, phase') /\ LeadSane(c, y, flight')
  BY <1>0 DEF Inv, TypeOK, ReserveQuota, Goes, At, Id, Key, Call, Sane, HoldSane, LeadSane,
     Before, Leading, Recorded, Reserving, Serving, Points
<1> QED
  BY <1>1, <1>2, <1>3, <1>4, <1>5 DEF Steps, Sane

LEMMA AuthorizeStep == ASSUME Inv, NEW c \in Calls, Authorize(c) PROVE Steps(c)
<1> DEFINE x == call[c]
           y == call'[c]
<1>0. x \in Call /\ Sane(c, x, record, phase, flight)
  BY DEF Inv, TypeOK
<1>1. Moves(c) /\ gone' \subseteq Calls /\ cached' \subseteq Keys
  BY <1>0 DEF Inv, TypeOK, Authorize, Moves, Goes, At, Id, Key, Call, Points
<1>2. Recording(c) /\ Flying(c) /\ Entering(c)
  BY <1>0 DEF Inv, TypeOK, Authorize, Recording, Flying, Entering, Goes, At, Id, Key, Call, Records
<1>3. Holding(c)
  BY <1>0 DEF Inv, TypeOK, Authorize, Holding, Goes, At, Id, Call
<1>4. QuotaSane(y) /\ RecordSane(y, record')
  BY <1>0 DEF Inv, TypeOK, Authorize, Goes, At, Id, Key, Call, Sane, QuotaSane, RecordSane,
     Before, Recorded, Reserving
<1>5. HoldSane(y, phase') /\ LeadSane(c, y, flight')
  BY <1>0 DEF Inv, TypeOK, Authorize, Goes, At, Id, Key, Call, Sane, HoldSane, LeadSane, Before,
     Leading, Recorded, Reserving, Serving, Points
<1> QED
  BY <1>1, <1>2, <1>3, <1>4, <1>5 DEF Steps, Sane

LEMMA ResolveRouteStep == ASSUME Inv, NEW c \in Calls, ResolveRoute(c) PROVE Steps(c)
<1> DEFINE x == call[c]
           y == call'[c]
<1>0. x \in Call /\ Sane(c, x, record, phase, flight)
  BY DEF Inv, TypeOK
<1>1. Moves(c) /\ gone' \subseteq Calls /\ cached' \subseteq Keys
  BY <1>0 DEF Inv, TypeOK, ResolveRoute, Moves, Goes, At, Id, Key, Call, Points
<1>2. Recording(c) /\ Flying(c) /\ Entering(c)
  BY <1>0 DEF Inv, TypeOK, ResolveRoute, Recording, Flying, Entering, Goes, At, Id, Key, Call,
     Records
<1>3. Holding(c)
  BY <1>0 DEF Inv, TypeOK, ResolveRoute, Holding, Goes, At, Id, Call
<1>4. QuotaSane(y) /\ RecordSane(y, record')
  BY <1>0 DEF Inv, TypeOK, ResolveRoute, Goes, At, Id, Key, Call, Sane, QuotaSane, RecordSane,
     Before, Recorded, Reserving
<1>5. HoldSane(y, phase') /\ LeadSane(c, y, flight')
  BY <1>0 DEF Inv, TypeOK, ResolveRoute, Goes, At, Id, Key, Call, Sane, HoldSane, LeadSane,
     Before, Leading, Recorded, Reserving, Serving, Points
<1> QED
  BY <1>1, <1>2, <1>3, <1>4, <1>5 DEF Steps, Sane

LEMMA RecordRequestStep == ASSUME Inv, NEW c \in Calls, RecordRequest(c) PROVE Steps(c)
<1> DEFINE x == call[c]
           y == call'[c]
<1>0. x \in Call /\ Sane(c, x, record, phase, flight)
  BY DEF Inv, TypeOK
<1>1. Moves(c) /\ gone' \subseteq Calls /\ cached' \subseteq Keys
  BY <1>0 DEF Inv, TypeOK, RecordRequest, RecordBecomes, Moves, Goes, At, Id, Key, Call, Points
<1>2. Recording(c) /\ Flying(c) /\ Entering(c)
  BY <1>0 DEF Inv, TypeOK, RecordRequest, RecordBecomes, Recording, Flying, Entering, Goes, At,
     Id, Key, Call, Records
<1>3. Holding(c)
  BY <1>0 DEF Inv, TypeOK, RecordRequest, RecordBecomes, Holding, Goes, At, Id, Call
<1>4. QuotaSane(y) /\ RecordSane(y, record')
  BY <1>0 DEF Inv, TypeOK, RecordRequest, RecordBecomes, Goes, At, Id, Key, Call, Sane,
     QuotaSane, RecordSane, Before, Recorded, Reserving
<1>5. HoldSane(y, phase') /\ LeadSane(c, y, flight')
  BY <1>0 DEF Inv, TypeOK, RecordRequest, RecordBecomes, Goes, At, Id, Key, Call, Sane,
     HoldSane, LeadSane, Before, Leading, Recorded, Reserving, Serving, Points
<1> QED
  BY <1>1, <1>2, <1>3, <1>4, <1>5 DEF Steps, Sane

LEMMA StartStep == ASSUME Inv, NEW c \in Calls, Start(c) PROVE Steps(c)
<1> DEFINE x == call[c]
           y == call'[c]
<1>0. x \in Call /\ Sane(c, x, record, phase, flight)
  BY DEF Inv, TypeOK
<1>1. Moves(c) /\ gone' \subseteq Calls /\ cached' \subseteq Keys
  BY <1>0 DEF Inv, TypeOK, Start, Moves, Goes, At, Id, Key, Call, Points
<1>2. Recording(c) /\ Flying(c) /\ Entering(c)
  BY <1>0 DEF Inv, TypeOK, Start, Recording, Flying, Entering, Goes, At, Id, Key, Call, Records
<1>3. Holding(c)
  BY <1>0 DEF Inv, TypeOK, Start, Holding, Goes, At, Id, Call
<1>4. QuotaSane(y) /\ RecordSane(y, record')
  BY <1>0 DEF Inv, TypeOK, Start, Goes, At, Id, Key, Call, Sane, QuotaSane, RecordSane, Before,
     Recorded, Reserving
<1>5. HoldSane(y, phase') /\ LeadSane(c, y, flight')
  BY <1>0 DEF Inv, TypeOK, Start, Goes, At, Id, Key, Call, Sane, HoldSane, LeadSane, Before,
     Leading, Recorded, Reserving, Serving, Points
<1> QED
  BY <1>1, <1>2, <1>3, <1>4, <1>5 DEF Steps, Sane

LEMMA ExecuteStep == ASSUME Inv, NEW c \in Calls, Execute(c) PROVE Steps(c)
<1> DEFINE x == call[c]
           y == call'[c]
<1>0. x \in Call /\ Sane(c, x, record, phase, flight)
  BY DEF Inv, TypeOK
<1>1. Moves(c) /\ gone' \subseteq Calls /\ cached' \subseteq Keys
  BY <1>0 DEF Inv, TypeOK, Execute, Moves, Goes, At, Id, Key, Call, Points
<1>2. Recording(c) /\ Flying(c) /\ Entering(c)
  BY <1>0 DEF Inv, TypeOK, Execute, Recording, Flying, Entering, Goes, At, Id, Key, Call, Records
<1>3. Holding(c)
  BY <1>0 DEF Inv, TypeOK, Execute, Holding, Goes, At, Id, Call
<1>4. QuotaSane(y) /\ RecordSane(y, record')
  BY <1>0 DEF Inv, TypeOK, Execute, Goes, At, Id, Key, Call, Sane, QuotaSane, RecordSane,
     Before, Recorded, Reserving
<1>5. HoldSane(y, phase') /\ LeadSane(c, y, flight')
  BY <1>0 DEF Inv, TypeOK, Execute, Goes, At, Id, Key, Call, Sane, HoldSane, LeadSane, Before,
     Leading, Recorded, Reserving, Serving, Points
<1> QED
  BY <1>1, <1>2, <1>3, <1>4, <1>5 DEF Steps, Sane

LEMMA SaveUsageStep == ASSUME Inv, NEW c \in Calls, SaveUsage(c) PROVE Steps(c)
<1> DEFINE x == call[c]
           y == call'[c]
<1>0. x \in Call /\ Sane(c, x, record, phase, flight)
  BY DEF Inv, TypeOK
<1>1. Moves(c) /\ gone' \subseteq Calls /\ cached' \subseteq Keys
  BY <1>0 DEF Inv, TypeOK, SaveUsage, Moves, Goes, At, Id, Key, Call, Points
<1>2. Recording(c) /\ Flying(c) /\ Entering(c)
  BY <1>0 DEF Inv, TypeOK, SaveUsage, Recording, Flying, Entering, Goes, At, Id, Key, Call, Records
<1>3. Holding(c)
  BY <1>0 DEF Inv, TypeOK, SaveUsage, Holding, Goes, At, Id, Call
<1>4. QuotaSane(y) /\ RecordSane(y, record')
  BY <1>0 DEF Inv, TypeOK, SaveUsage, Goes, At, Id, Key, Call, Sane, QuotaSane, RecordSane,
     Before, Recorded, Reserving
<1>5. HoldSane(y, phase') /\ LeadSane(c, y, flight')
  BY <1>0 DEF Inv, TypeOK, SaveUsage, Goes, At, Id, Key, Call, Sane, HoldSane, LeadSane, Before,
     Leading, Recorded, Reserving, Serving, Points
<1> QED
  BY <1>1, <1>2, <1>3, <1>4, <1>5 DEF Steps, Sane

LEMMA CompleteStep == ASSUME Inv, NEW c \in Calls, Complete(c) PROVE Steps(c)
<1> DEFINE x == call[c]
           y == call'[c]
<1>0. x \in Call /\ Sane(c, x, record, phase, flight)
  BY DEF Inv, TypeOK
<1>1. Moves(c) /\ gone' \subseteq Calls /\ cached' \subseteq Keys
  BY SMTT(30), <1>0 DEF Inv, TypeOK, Complete, RecordBecomes, Moves, Goes, At, Id, Key, Call, Points
<1>2. Recording(c) /\ Flying(c) /\ Entering(c)
  BY <1>0 DEF Inv, TypeOK, Complete, RecordBecomes, Recording, Flying, Entering, Goes, At, Id,
     Key, Call, Records, Sane, RecordSane, Recorded
<1>3. Holding(c)
  BY <1>0 DEF Inv, TypeOK, Complete, RecordBecomes, Holding, Goes, At, Id, Call
<1>4. QuotaSane(y) /\ RecordSane(y, record')
  BY <1>0 DEF Inv, TypeOK, Complete, RecordBecomes, Goes, At, Id, Key, Call, Sane, QuotaSane,
     RecordSane, Before, Recorded, Reserving
<1>5. HoldSane(y, phase') /\ LeadSane(c, y, flight')
  BY <1>0 DEF Inv, TypeOK, Complete, RecordBecomes, Goes, At, Id, Key, Call, Sane, HoldSane,
     LeadSane, Before, Leading, Recorded, Reserving, Serving, Points
<1> QED
  BY <1>1, <1>2, <1>3, <1>4, <1>5 DEF Steps, Sane

LEMMA AnnounceStep == ASSUME Inv, NEW c \in Calls, Announce(c) PROVE Steps(c)
<1> DEFINE x == call[c]
           y == call'[c]
<1>0. x \in Call /\ Sane(c, x, record, phase, flight)
  BY DEF Inv, TypeOK
<1>1. Moves(c) /\ gone' \subseteq Calls /\ cached' \subseteq Keys
  BY <1>0 DEF Inv, TypeOK, Announce, Moves, Goes, At, Id, Key, Call, Points
<1>2. Recording(c) /\ Flying(c) /\ Entering(c)
  BY <1>0 DEF Inv, TypeOK, Announce, Recording, Flying, Entering, Goes, At, Id, Key, Call, Records
<1>3. Holding(c)
  BY <1>0 DEF Inv, TypeOK, Announce, Holding, Goes, At, Id, Call
<1>4. QuotaSane(y) /\ RecordSane(y, record')
  BY <1>0 DEF Inv, TypeOK, Announce, Goes, At, Id, Key, Call, Sane, QuotaSane, RecordSane,
     Before, Recorded, Reserving
<1>5. HoldSane(y, phase') /\ LeadSane(c, y, flight')
  BY <1>0 DEF Inv, TypeOK, Announce, Goes, At, Id, Key, Call, Sane, HoldSane, LeadSane, Before,
     Leading, Recorded, Reserving, Serving, Points
<1> QED
  BY <1>1, <1>2, <1>3, <1>4, <1>5 DEF Steps, Sane

LEMMA ReconcileQuotaStep == ASSUME Inv, NEW c \in Calls, ReconcileQuota(c) PROVE Steps(c)
<1> DEFINE x == call[c]
           y == call'[c]
<1>0. x \in Call /\ Sane(c, x, record, phase, flight)
  BY DEF Inv, TypeOK
<1>1. Moves(c) /\ gone' \subseteq Calls /\ cached' \subseteq Keys
  BY <1>0 DEF Inv, TypeOK, ReconcileQuota, Moves, Goes, At, Id, Key, Call, Points
<1>2. Recording(c) /\ Flying(c) /\ Entering(c)
  BY <1>0 DEF Inv, TypeOK, ReconcileQuota, Recording, Flying, Entering, Goes, At, Id, Key, Call,
     Records
<1>3. Holding(c)
  BY <1>0 DEF Inv, TypeOK, ReconcileQuota, Holding, Goes, At, Id, Call
<1>4. QuotaSane(y) /\ RecordSane(y, record')
  BY <1>0 DEF Inv, TypeOK, ReconcileQuota, Goes, At, Id, Key, Call, Sane, QuotaSane, RecordSane,
     Before, Recorded, Reserving
<1>5. HoldSane(y, phase') /\ LeadSane(c, y, flight')
  BY <1>0 DEF Inv, TypeOK, ReconcileQuota, Goes, At, Id, Key, Call, Sane, HoldSane, LeadSane,
     Before, Leading, Recorded, Reserving, Serving, Points
<1> QED
  BY <1>1, <1>2, <1>3, <1>4, <1>5 DEF Steps, Sane

LEMMA SettleBillingStep == ASSUME Inv, NEW c \in Calls, SettleBilling(c) PROVE Steps(c)
<1> DEFINE x == call[c]
           y == call'[c]
<1>0. x \in Call /\ Sane(c, x, record, phase, flight)
  BY DEF Inv, TypeOK
<1>1. Moves(c) /\ gone' \subseteq Calls /\ cached' \subseteq Keys
  BY <1>0 DEF Inv, TypeOK, SettleBilling, Settle, Ends, Moves, Goes, At, Id, Key, Call, Points
<1>2. Recording(c) /\ Flying(c) /\ Entering(c)
  BY <1>0 DEF Inv, TypeOK, SettleBilling, Settle, Ends, Recording, Flying, Entering, Goes, At,
     Id, Key, Call, Records
<1>3. Holding(c)
  BY <1>0 DEF Inv, TypeOK, SettleBilling, Settle, Ends, Holding, Goes, At, Id, Call, Sane,
     QuotaSane, RecordSane, Recorded
<1>4. QuotaSane(y) /\ RecordSane(y, record')
  BY <1>0 DEF Inv, TypeOK, SettleBilling, Settle, Ends, Goes, At, Id, Key, Call, Sane,
     QuotaSane, RecordSane, Before, Recorded, Reserving
<1>5. HoldSane(y, phase') /\ LeadSane(c, y, flight')
  BY <1>0 DEF Inv, TypeOK, SettleBilling, Settle, Ends, Goes, At, Id, Key, Call, Sane, HoldSane,
     LeadSane, Before, Leading, Recorded, Reserving, Serving, Points
<1> QED
  BY <1>1, <1>2, <1>3, <1>4, <1>5 DEF Steps, Sane

LEMMA CancelQuotaStep == ASSUME Inv, NEW c \in Calls, CancelQuota(c) PROVE Steps(c)
<1> DEFINE x == call[c]
           y == call'[c]
<1>0. x \in Call /\ Sane(c, x, record, phase, flight)
  BY DEF Inv, TypeOK
<1>1. Moves(c) /\ gone' \subseteq Calls /\ cached' \subseteq Keys
  BY <1>0 DEF Inv, TypeOK, CancelQuota, Moves, Goes, At, Id, Key, Call, Points
<1>2. Recording(c) /\ Flying(c) /\ Entering(c)
  BY <1>0 DEF Inv, TypeOK, CancelQuota, Recording, Flying, Entering, Goes, At, Id, Key, Call,
     Records
<1>3. Holding(c)
  BY <1>0 DEF Inv, TypeOK, CancelQuota, Holding, Goes, At, Id, Call
<1>4. QuotaSane(y) /\ RecordSane(y, record')
  BY <1>0 DEF Inv, TypeOK, CancelQuota, Goes, At, Id, Key, Call, Sane, QuotaSane, RecordSane,
     Before, Recorded, Reserving
<1>5. HoldSane(y, phase') /\ LeadSane(c, y, flight')
  BY <1>0 DEF Inv, TypeOK, CancelQuota, Goes, At, Id, Key, Call, Sane, HoldSane, LeadSane,
     Before, Leading, Recorded, Reserving, Serving, Points
<1> QED
  BY <1>1, <1>2, <1>3, <1>4, <1>5 DEF Steps, Sane

LEMMA ReleaseBillingStep == ASSUME Inv, NEW c \in Calls, ReleaseBilling(c) PROVE Steps(c)
<1> DEFINE x == call[c]
           y == call'[c]
<1>0. x \in Call /\ Sane(c, x, record, phase, flight)
  BY DEF Inv, TypeOK
<1>1. Moves(c) /\ gone' \subseteq Calls /\ cached' \subseteq Keys
  BY <1>0 DEF Inv, TypeOK, ReleaseBilling, Moves, Goes, At, Id, Key, Call, Points
<1>2. Recording(c) /\ Flying(c) /\ Entering(c)
  BY <1>0 DEF Inv, TypeOK, ReleaseBilling, Recording, Flying, Entering, Goes, At, Id, Key, Call,
     Records
<1>3. Holding(c)
  BY <1>0 DEF Inv, TypeOK, ReleaseBilling, Holding, Goes, At, Id, Call, UnderWay
<1>4. QuotaSane(y) /\ RecordSane(y, record')
  BY <1>0 DEF Inv, TypeOK, ReleaseBilling, Goes, At, Id, Key, Call, Sane, QuotaSane, RecordSane,
     Before, Recorded, Reserving
<1>5. HoldSane(y, phase') /\ LeadSane(c, y, flight')
  BY <1>0 DEF Inv, TypeOK, ReleaseBilling, Goes, At, Id, Key, Call, Sane, HoldSane, LeadSane,
     Before, Leading, Recorded, Reserving, Serving, Points
<1> QED
  BY <1>1, <1>2, <1>3, <1>4, <1>5 DEF Steps, Sane

LEMMA MarkStep == ASSUME Inv, NEW c \in Calls, Mark(c) PROVE Steps(c)
<1> DEFINE x == call[c]
           y == call'[c]
<1>0. x \in Call /\ Sane(c, x, record, phase, flight)
  BY DEF Inv, TypeOK
<1>1. Moves(c) /\ gone' \subseteq Calls /\ cached' \subseteq Keys
  BY <1>0 DEF Inv, TypeOK, Mark, Ends, RecordBecomes, Moves, Goes, At, Id, Key, Call, Points
<1>2. Recording(c) /\ Flying(c) /\ Entering(c)
  BY <1>0 DEF Inv, TypeOK, Mark, Ends, RecordBecomes, Recording, Flying, Entering, Goes, At, Id,
     Key, Call, Records
<1>3. Holding(c)
  BY <1>0 DEF Inv, TypeOK, Mark, Ends, RecordBecomes, Holding, Goes, At, Id, Call
<1>4. QuotaSane(y) /\ RecordSane(y, record')
  BY <1>0 DEF Inv, TypeOK, Mark, Ends, RecordBecomes, Goes, At, Id, Key, Call, Sane, QuotaSane,
     RecordSane, Before, Recorded, Reserving
<1>5. HoldSane(y, phase') /\ LeadSane(c, y, flight')
  BY <1>0 DEF Inv, TypeOK, Mark, Ends, RecordBecomes, Goes, At, Id, Key, Call, Sane, HoldSane,
     LeadSane, Before, Leading, Recorded, Reserving, Serving, Points
<1> QED
  BY <1>1, <1>2, <1>3, <1>4, <1>5 DEF Steps, Sane

-----------------------------------------------------------------------------
LEMMA SweepHoldStep == ASSUME Inv, NEW i \in Ids, SweepHold(i) PROVE Inv'
<1>1. TypeOK'
  BY DEF Inv, TypeOK, SweepHold
<1>2. ASSUME NEW c \in Calls PROVE Sane(c, call'[c], record', phase', flight')
  <2>1. call[c] \in Call /\ Sane(c, call[c], record, phase, flight)
    BY DEF Inv, TypeOK
  <2>2. call[c].at \in Serving => call[c].id # i
    BY DEF SweepHold, UnderWay, At, Id, Serving, Reserving
  <2>3. HoldSane(call[c], phase')
    BY <2>1, <2>2 DEF Inv, TypeOK, SweepHold, Sane, HoldSane, Call
  <2> QED
    BY <2>1, <2>3 DEF SweepHold, Sane
<1>3. (OneCreator /\ SettledIsPaid /\ ActiveIsHeld /\ Alone)'
  BY DEF Inv, TypeOK, SweepHold, OneCreator, SettledIsPaid, Paid, ActiveIsHeld, Alone, UnderWay,
     At, Id, Executed
<1> QED
  BY <1>1, <1>2, <1>3 DEF Inv

(* Steps beside the calls: the cache, and clients that leave.              *)
LEMMA OutsideStep ==
  ASSUME Inv, UNCHANGED <<call, record, phase, billed, flight>>,
         gone' \subseteq Calls, cached' \subseteq Keys
  PROVE  Inv'
  BY DEF Inv, TypeOK, OneCreator, SettledIsPaid, Paid, ActiveIsHeld, Alone, UnderWay, At, Id,
     Executed

LEMMA InvStep == Inv /\ [Next]_vars => Inv'
<1> SUFFICES ASSUME Inv, [Next]_vars PROVE Inv'
  OBVIOUS
<1>1. CASE UNCHANGED vars
  BY <1>1, OutsideStep DEF vars, Inv, TypeOK
<1>2. ASSUME NEW c \in Calls, Begin(c) \/ Proceed(c) PROVE Inv'
  <2>1. Steps(c)
    BY <1>2, BeginStep, LookUpStep, JoinStep, FollowStep, RecheckStep, ReserveQuotaStep,
       AuthorizeStep, ResolveRouteStep, RecordRequestStep, StartStep, ExecuteStep,
       SaveUsageStep, CompleteStep, AnnounceStep, ReconcileQuotaStep, SettleBillingStep,
       CancelQuotaStep, ReleaseBillingStep, MarkStep DEF Proceed
  <2> QED
    BY <2>1, StepsInv
<1>3. ASSUME NEW c \in Calls, StoreResponse(c) PROVE Inv'
  <2>1. call[c] \in Call
    BY DEF Inv, TypeOK
  <2> QED
    BY <1>3, <2>1, OutsideStep DEF StoreResponse, Key, Call, Inv, TypeOK
<1>4. ASSUME NEW c \in Calls, ClientLeaves(c) PROVE Inv'
  BY <1>4, OutsideStep DEF ClientLeaves, Inv, TypeOK
<1>5. ASSUME NEW k \in Keys, CacheExpires(k) PROVE Inv'
  BY <1>5, OutsideStep DEF CacheExpires, Inv, TypeOK
<1>6. ASSUME NEW i \in Ids, SweepHold(i) PROVE Inv'
  BY <1>6, SweepHoldStep
<1> QED
  BY <1>1, <1>2, <1>3, <1>4, <1>5, <1>6 DEF Next

LEMMA AlwaysInv == Spec => []Inv
  BY InitInv, InvStep, PTL DEF Spec

-----------------------------------------------------------------------------
(* Calls, records, holds, flights and the cache keep their types.          *)
THEOREM TypeCorrect == Spec => []TypeOK
<1>1. Inv => TypeOK
  BY DEF Inv
<1> QED
  BY <1>1, AlwaysInv, PTL

(* Whatever the store throws after the provider has answered, and however  *)
(* retries share an id, a charged request was answered and is recorded as  *)
(* completed.                                                              *)
THEOREM NobodyPaysForErrors == Spec => []ChargedIsAnswered
<1>1. Inv => ChargedIsAnswered
  BY DEF Inv, SettledIsPaid, Paid, ChargedIsAnswered
<1> QED
  BY <1>1, AlwaysInv, PTL

(* Tokens and hold of an ended call are returned or paid, unless the       *)
(* wallet or the quota engine failed it.                                   *)
THEOREM NothingStaysHeld == Spec => []EndsConsistent
<1>1. Inv => EndsConsistent
  <2> SUFFICES ASSUME Inv PROVE EndsConsistent
    OBVIOUS
  <2>1. ASSUME NEW c \in Calls, At(c, "ended"), ~call[c].threw
        PROVE  /\ call[c].quota # "held"
               /\ Executed(c) /\ call[c].holds => phase[Id(c)] = "settled"
    BY <2>1 DEF Inv, Sane, QuotaSane, HoldSane, At, Id, Executed
  <2>2. ASSUME NEW i \in Ids, phase[i] = "active"
        PROVE  \E c \in Calls : Id(c) = i /\ call[c].holds /\ (UnderWay(c) \/ call[c].threw)
    <3>1. PICK c \in Calls : Id(c) = i /\ call[c].holds
      BY <2>2 DEF Inv, ActiveIsHeld
    <3>2. UnderWay(c) \/ call[c].threw
      BY <2>2, <3>1 DEF Inv, Sane, HoldSane, UnderWay, At, Id
    <3> QED
      BY <3>1, <3>2
  <2> QED
    BY <2>1, <2>2 DEF EndsConsistent
<1> QED
  BY <1>1, AlwaysInv, PTL

(* One execution per cache key, and followers reserve nothing.             *)
THEOREM ExecutedOnce == Spec => []OneExecutionPerKey
<1>1. Inv => OneExecutionPerKey
  <2> SUFFICES ASSUME Inv PROVE OneExecutionPerKey
    OBVIOUS
  <2>1. ASSUME NEW k \in Keys, NEW c \in Calls, Leads(c, k) PROVE flight[k] = c
    BY <2>1 DEF Inv, TypeOK, Call, Sane, LeadSane, Leads, UnderWay, At, Key, Leading
  <2>2. ASSUME NEW c \in Calls, call[c].leader # Nobody
        PROVE  call[c].quota = "none" /\ ~call[c].holds
    BY <2>2 DEF Inv, TypeOK, Call, Sane, QuotaSane, HoldSane
  <2> QED
    BY <2>1, <2>2 DEF OneExecutionPerKey
<1> QED
  BY <1>1, AlwaysInv, PTL

-----------------------------------------------------------------------------
(* The request contract.                                                   *)

(* What the call that made the record knows of record and tokens.          *)
RecorderSane(x, rec) ==
  /\ x.at \in {"starting", "executing", "saving", "completing"} => rec[x.id] = "executing"
  /\ x.created /\ x.at # "ended" => rec[x.id] \in {"executing", "completed"}
  /\ x.created => x.quota # "none"

RecorderInv == \A c \in Calls : RecorderSane(call[c], record)

(* A step of c leaves what another recorder knows.                         *)
LEMMA OtherRecorders ==
  ASSUME Inv, RecorderInv, NEW c \in Calls, Steps(c), NEW d \in Calls, d # c
  PROVE  RecorderSane(call'[d], record')
<1> DEFINE z == call[d]
<1>0. /\ z \in Call /\ call'[d] = z /\ z.id \in Ids
      /\ RecordSane(z, record) /\ RecorderSane(z, record)
  BY DEF Inv, TypeOK, Steps, Moves, Call, Sane, RecorderInv
<1>1. z.created => record[z.id] # "none" /\ ~(call[c].created /\ Id(c) = z.id)
  BY <1>0 DEF Inv, OneCreator, Id, RecordSane
<1>2. z.created => record'[z.id] = record[z.id]
  BY <1>0, <1>1 DEF Steps, Recording
<1> QED
  BY <1>0, <1>2 DEF RecorderSane, RecordSane, Recorded

(* And c itself, before its record, ...                                    *)
LEMMA RecorderBefore ==
  ASSUME Inv, NEW c \in Calls,
         \/ Begin(c) \/ LookUp(c) \/ Join(c) \/ Follow(c) \/ Recheck(c)
         \/ ReserveQuota(c) \/ Authorize(c) \/ ResolveRoute(c)
  PROVE  RecorderSane(call'[c], record')
<1>0. call[c] \in Call /\ QuotaSane(call[c]) /\ RecordSane(call[c], record)
  BY DEF Inv, TypeOK, Sane
<1>1. CASE Begin(c)
  <2>1. PICK i \in Ids, k \in Keys \cup {NoKey}, point \in {"looking", "ended"} :
          call' = [call EXCEPT ![c].at = point, ![c].id = i, ![c].key = k,
                     ![c].outcome = IF point = "ended" THEN "refused" ELSE "none"]
    BY <1>1 DEF Begin
  <2>2. ~call[c].created
    BY <1>0, <1>1 DEF Begin, At, RecordSane
  <2>3. call'[c].at = point /\ call'[c].created = call[c].created
    BY <1>0, <2>1 DEF Inv, TypeOK, Call
  <2> QED
    BY <2>2, <2>3 DEF RecorderSane
<1>2. CASE LookUp(c) \/ Join(c)
  BY <1>0, <1>2 DEF Inv, TypeOK, LookUp, Join, AnsweredBesides, Ends, Goes, At, RecordSane,
     Before, RecorderSane, Call
<1>3. CASE Follow(c) \/ Recheck(c)
  BY <1>0, <1>3 DEF Inv, TypeOK, Follow, Recheck, AnsweredBesides, Ends, Goes, At, RecordSane,
     Before, RecorderSane, Call
<1>4. CASE ReserveQuota(c) \/ Authorize(c) \/ ResolveRoute(c)
  BY <1>0, <1>4 DEF Inv, TypeOK, ReserveQuota, Authorize, ResolveRoute, Goes, At, RecordSane,
     Before, RecorderSane, Call
<1> QED
  BY <1>1, <1>2, <1>3, <1>4

(* ... while it executes, ...                                              *)
LEMMA RecorderDuring ==
  ASSUME Inv, RecorderInv, NEW c \in Calls,
         \/ RecordRequest(c) \/ Start(c) \/ Execute(c) \/ SaveUsage(c) \/ Complete(c)
         \/ Announce(c)
  PROVE  RecorderSane(call'[c], record')
<1>0. /\ call[c] \in Call /\ QuotaSane(call[c]) /\ RecordSane(call[c], record)
      /\ RecorderSane(call[c], record)
  BY DEF Inv, TypeOK, Sane, RecorderInv
<1>1. CASE RecordRequest(c)
  BY <1>0, <1>1 DEF Inv, TypeOK, RecordRequest, RecordBecomes, Goes, At, Id, QuotaSane,
     RecordSane, Reserving, RecorderSane, Call
<1>2. CASE Start(c) \/ Execute(c) \/ SaveUsage(c)
  BY <1>0, <1>2 DEF Inv, TypeOK, Start, Execute, SaveUsage, Goes, At, Id, RecordSane, Recorded,
     RecorderSane, Call
<1>3. CASE Complete(c) \/ Announce(c)
  BY <1>0, <1>3 DEF Inv, TypeOK, Complete, Announce, RecordBecomes, Goes, At, Id, RecordSane,
     Recorded, RecorderSane, Call
<1> QED
  BY <1>1, <1>2, <1>3

(* ... and as it settles or compensates.                                   *)
LEMMA RecorderAfter ==
  ASSUME Inv, RecorderInv, NEW c \in Calls,
         \/ ReconcileQuota(c) \/ SettleBilling(c) \/ CancelQuota(c) \/ ReleaseBilling(c)
         \/ Mark(c)
  PROVE  RecorderSane(call'[c], record')
<1>0. /\ call[c] \in Call /\ QuotaSane(call[c]) /\ RecordSane(call[c], record)
      /\ RecorderSane(call[c], record)
  BY DEF Inv, TypeOK, Sane, RecorderInv
<1>1. CASE ReconcileQuota(c) \/ SettleBilling(c)
  BY <1>0, <1>1 DEF Inv, TypeOK, ReconcileQuota, SettleBilling, Ends, Goes, At, Id, RecordSane,
     Recorded, RecorderSane, Call
<1>2. CASE CancelQuota(c) \/ ReleaseBilling(c)
  BY <1>0, <1>2 DEF Inv, TypeOK, CancelQuota, ReleaseBilling, Goes, At, Id, QuotaSane,
     RecorderSane, Call
<1>3. CASE Mark(c)
  BY <1>0, <1>3 DEF Inv, TypeOK, Mark, Ends, At, Id, RecorderSane, Call
<1> QED
  BY <1>1, <1>2, <1>3

LEMMA StepsOfCalls ==
  ASSUME Inv, NEW c \in Calls, Begin(c) \/ Proceed(c)
  PROVE  Steps(c)
  BY BeginStep, LookUpStep, JoinStep, FollowStep, RecheckStep, ReserveQuotaStep, AuthorizeStep,
     ResolveRouteStep, RecordRequestStep, StartStep, ExecuteStep, SaveUsageStep, CompleteStep,
     AnnounceStep, ReconcileQuotaStep, SettleBillingStep, CancelQuotaStep, ReleaseBillingStep,
     MarkStep DEF Proceed

LEMMA RecorderStep == Inv /\ RecorderInv /\ [Next]_vars => RecorderInv'
<1> SUFFICES ASSUME Inv, RecorderInv, [Next]_vars PROVE RecorderInv'
  OBVIOUS
<1>1. ASSUME NEW c \in Calls, Begin(c) \/ Proceed(c) PROVE RecorderInv'
  <2>1. RecorderSane(call'[c], record')
    BY <1>1, RecorderBefore, RecorderDuring, RecorderAfter DEF Proceed
  <2> QED
    BY <1>1, <2>1, StepsOfCalls, OtherRecorders DEF RecorderInv
<1>2. ASSUME UNCHANGED <<call, record>> PROVE RecorderInv'
  BY <1>2 DEF RecorderInv
<1>3. ASSUME NEW c \in Calls, StoreResponse(c) \/ ClientLeaves(c) PROVE UNCHANGED <<call, record>>
  BY <1>3 DEF StoreResponse, ClientLeaves
<1>4. ASSUME NEW k \in Keys, CacheExpires(k) PROVE UNCHANGED <<call, record>>
  BY <1>4 DEF CacheExpires
<1>5. ASSUME NEW i \in Ids, SweepHold(i) PROVE UNCHANGED <<call, record>>
  BY <1>5 DEF SweepHold
<1> QED
  BY <1>1, <1>2, <1>3, <1>4, <1>5 DEF Next, vars

(* The tokens the contract sees: those of the only recorder.               *)
SeenTokens == [i \in Ids |-> Tokens(i)]

LEMMA TokensOfRecorder ==
  ASSUME OneCreator, NEW c \in Calls, call[c].created
  PROVE  Tokens(Id(c)) = call[c].quota
<1>1. Recorders(Id(c)) = {c}
  BY DEF Recorders, OneCreator
<1>2. (CHOOSE d \in {c} : TRUE) = c
  OBVIOUS
<1> QED
  BY <1>1, <1>2 DEF Tokens

LEMMA NoTokens ==
  ASSUME Inv, NEW i \in Ids, record[i] = "none"
  PROVE  Tokens(i) = "none"
  BY DEF Inv, Sane, RecordSane, Recorders, Tokens, Id

(* The step of a call that changes no tokens of a recorder.                *)
LEMMA TokensSame ==
  ASSUME Inv, NEW c \in Calls, NEW y, call' = [call EXCEPT ![c] = y],
         y.created = call[c].created,
         call[c].created => y.id = call[c].id /\ y.quota = call[c].quota
  PROVE  UNCHANGED SeenTokens
<1>1. \A d \in Calls : /\ call'[d].created = call[d].created
                       /\ call[d].created => /\ call'[d].id = call[d].id
                                             /\ call'[d].quota = call[d].quota
  BY DEF Inv, TypeOK
<1>2. ASSUME NEW i \in Ids PROVE Tokens(i)' = Tokens(i)
  <2>1. Recorders(i)' = Recorders(i)
    BY <1>1 DEF Recorders, Id
  <2>2. CASE Recorders(i) = {}
    BY <2>1, <2>2 DEF Tokens
  <2>3. CASE Recorders(i) # {}
    <3> DEFINE d == CHOOSE d \in Recorders(i) : TRUE
    <3>1. d \in Calls /\ call[d].created
      BY <2>3 DEF Recorders
    <3>2. Tokens(i) = call[d].quota /\ Tokens(i)' = call'[d].quota
      BY <2>1, <2>3 DEF Tokens
    <3> QED
      BY <1>1, <3>1, <3>2
  <2> QED
    BY <2>2, <2>3
<1> QED
  BY <1>2 DEF SeenTokens

(* The step of a recorder, or of a call that becomes one.                  *)
LEMMA TokensMove ==
  ASSUME Inv, OneCreator', NEW c \in Calls, NEW y, call' = [call EXCEPT ![c] = y],
         y.created, y.id = call[c].id,
         call[c].created \/ record[Id(c)] = "none"
  PROVE  /\ SeenTokens' = [SeenTokens EXCEPT ![Id(c)] = y.quota]
         /\ SeenTokens[Id(c)] = IF call[c].created THEN call[c].quota ELSE "none"
<1>0. /\ call[c] \in Call /\ Id(c) \in Ids /\ call'[c] = y
      /\ \A d \in Calls \ {c} : call'[d] = call[d]
  BY DEF Inv, TypeOK, Call, Id
<1>1. ASSUME NEW i \in Ids, i = Id(c) PROVE Tokens(i)' = y.quota
  <2>1. call'[c].created /\ call'[c].id = i
    BY <1>0, <1>1 DEF Id
  <2>2. Recorders(i)' = {c}
    BY <1>0, <2>1 DEF Recorders, OneCreator, Id
  <2>3. (CHOOSE d \in {c} : TRUE) = c
    OBVIOUS
  <2> QED
    BY <1>0, <2>2, <2>3 DEF Tokens
<1>2. Tokens(Id(c)) = IF call[c].created THEN call[c].quota ELSE "none"
  BY <1>0, TokensOfRecorder, NoTokens DEF Inv
<1>3. ASSUME NEW i \in Ids, i # Id(c) PROVE Tokens(i)' = Tokens(i)
  <2>1. Recorders(i)' = Recorders(i) /\ c \notin Recorders(i)
    BY <1>0, <1>3 DEF Recorders, Id
  <2>2. CASE Recorders(i) = {}
    BY <2>1, <2>2 DEF Tokens
  <2>3. CASE Recorders(i) # {}
    <3> DEFINE d == CHOOSE d \in Recorders(i) : TRUE
    <3>1. d \in Calls /\ d # c
      BY <2>1, <2>3 DEF Recorders
    <3>2. Tokens(i) = call[d].quota /\ Tokens(i)' = call'[d].quota
      BY <2>1, <2>3 DEF Tokens
    <3> QED
      BY <1>0, <3>1, <3>2
  <2> QED
    BY <2>2, <2>3
<1> QED
  BY <1>0, <1>1, <1>2, <1>3 DEF SeenTokens

ContractStep == Contract!Next \/ UNCHANGED <<record, SeenTokens, phase, billed>>

(* Steps that leave record, tokens and money alone.                        *)
LEMMA SilentSteps ==
  ASSUME Inv, NEW c \in Calls,
         \/ Begin(c) \/ Join(c) \/ Recheck(c) \/ ReserveQuota(c) \/ ResolveRoute(c)
         \/ Start(c) \/ Execute(c) \/ SaveUsage(c) \/ Announce(c)
  PROVE  UNCHANGED <<record, SeenTokens, phase, billed>>
<1> DEFINE y == call'[c]
<1>0. /\ call[c] \in Call /\ RecordSane(call[c], record)
  BY DEF Inv, TypeOK, Sane
<1>1. CASE Begin(c)
  <2>1. PICK i \in Ids, k \in Keys \cup {NoKey}, point \in {"looking", "ended"} :
          call' = [call EXCEPT ![c].at = point, ![c].id = i, ![c].key = k,
                     ![c].outcome = IF point = "ended" THEN "refused" ELSE "none"]
    BY <1>1 DEF Begin
  <2>2. ~call[c].created
    BY <1>0, <1>1 DEF Begin, At, RecordSane
  <2>3. call' = [call EXCEPT ![c] = y] /\ y.created = call[c].created
    BY <1>0, <2>1 DEF Inv, TypeOK, Call
  <2> QED
    BY <1>1, <2>2, <2>3, TokensSame DEF Begin
<1>2. CASE Join(c) \/ Recheck(c) \/ ReserveQuota(c)
  <2>1. ~call[c].created
    BY <1>0, <1>2 DEF Join, Recheck, ReserveQuota, At, RecordSane, Before
  <2>2. /\ call' = [call EXCEPT ![c] = y] /\ y.created = call[c].created
        /\ UNCHANGED <<record, phase, billed>>
    BY <1>0, <1>2 DEF Inv, TypeOK, Join, Recheck, ReserveQuota, Ends, Goes, Call
  <2> QED
    BY <2>1, <2>2, TokensSame
<1>3. CASE \/ ResolveRoute(c) \/ Start(c) \/ Execute(c) \/ SaveUsage(c) \/ Announce(c)
  <2>1. /\ call' = [call EXCEPT ![c] = y] /\ y.created = call[c].created
        /\ y.id = call[c].id /\ y.quota = call[c].quota
        /\ UNCHANGED <<record, phase, billed>>
    BY <1>0, <1>3 DEF Inv, TypeOK, ResolveRoute, Start, Execute, SaveUsage, Announce, Goes, Call
  <2> QED
    BY <2>1, TokensSame
<1> QED
  BY <1>1, <1>2, <1>3

(* An answer from the cache or of another call.                            *)
LEMMA AnswerSteps ==
  ASSUME Inv, NEW c \in Calls, LookUp(c) \/ Follow(c)
  PROVE  ContractStep
<1> DEFINE y == call'[c]
<1>0. call[c] \in Call /\ Id(c) \in Ids /\ ~call[c].created
  BY DEF Inv, TypeOK, Sane, RecordSane, LookUp, Follow, At, Id, Call, Before
<1>1. /\ call' = [call EXCEPT ![c] = y] /\ y.created = call[c].created
      /\ UNCHANGED <<phase, billed>>
      /\ \/ UNCHANGED record
         \/ record[Id(c)] = "none" /\ record' = [record EXCEPT ![Id(c)] = "completed"]
  BY <1>0 DEF Inv, TypeOK, LookUp, Follow, AnsweredBesides, Ends, Goes, RecordBecomes, Call
<1>2. UNCHANGED SeenTokens
  BY <1>0, <1>1, TokensSame
<1>3. UNCHANGED record \/ Contract!AnswerBesides(Id(c))
  BY <1>1, <1>2 DEF Contract!AnswerBesides, Contract!RecordBecomes, SeenTokens
<1> QED
  BY <1>0, <1>1, <1>2, <1>3 DEF ContractStep, Contract!Next

(* A recorder under way has an id that is not charged.                     *)
LEMMA RecorderUnpaid ==
  ASSUME Inv, NEW c \in Calls, call[c].created, ~At(c, "ended")
  PROVE  phase[Id(c)] # "settled"
<1>1. Id(c) \in Ids
  BY DEF Inv, TypeOK, Call, Id
<1>2. ASSUME phase[Id(c)] = "settled" PROVE FALSE
  <2>1. PICK d \in Calls : Paid(Id(c), d)
    BY <1>1, <1>2 DEF Inv, SettledIsPaid
  <2>2. d = c
    BY <2>1 DEF Inv, OneCreator, Paid
  <2> QED
    BY <2>1, <2>2 DEF Paid
<1> QED
  BY <1>2

(* The record is made by a call with tokens, ...                           *)
LEMMA RecordRequestContract ==
  ASSUME Inv, Inv', NEW c \in Calls, RecordRequest(c)
  PROVE  ContractStep
<1> DEFINE y == call'[c]
<1>0. /\ call[c] \in Call /\ Id(c) \in Ids /\ ~call[c].created /\ call[c].quota = "held"
  BY DEF Inv, TypeOK, Sane, RecordSane, QuotaSane, RecordRequest, At, Id, Call, Reserving
<1>1. /\ call' = [call EXCEPT ![c] = y] /\ UNCHANGED <<phase, billed>>
      /\ y.id = call[c].id /\ y.quota = "held"
      /\ \/ UNCHANGED record /\ y.created = call[c].created
         \/ /\ record[Id(c)] = "none" /\ record' = [record EXCEPT ![Id(c)] = "executing"]
            /\ y.created
  BY <1>0 DEF Inv, TypeOK, RecordRequest, RecordBecomes, Goes, Call
<1>2. CASE UNCHANGED record /\ y.created = call[c].created
  BY <1>0, <1>1, <1>2, TokensSame DEF ContractStep
<1>3. CASE record[Id(c)] = "none" /\ record' = [record EXCEPT ![Id(c)] = "executing"] /\ y.created
  <2>1. SeenTokens' = [SeenTokens EXCEPT ![Id(c)] = "held"]
    BY <1>0, <1>1, <1>3, TokensMove DEF Inv
  <2>2. Contract!Start(Id(c))
    BY <1>1, <1>3, <2>1 DEF Contract!Start, Contract!RecordBecomes, Contract!TokensBecome,
       SeenTokens
  <2> QED
    BY <1>0, <2>2 DEF ContractStep, Contract!Next
<1> QED
  BY <1>1, <1>2, <1>3

(* ... is completed while they are held, and fails before it is charged.   *)
LEMMA RecordSteps ==
  ASSUME Inv, Inv', RecorderInv, NEW c \in Calls, Complete(c) \/ Mark(c)
  PROVE  ContractStep
<1> DEFINE y == call'[c]
<1>0. /\ call[c] \in Call /\ Id(c) \in Ids
      /\ Sane(c, call[c], record, phase, flight) /\ RecorderSane(call[c], record)
  BY DEF Inv, TypeOK, RecorderInv, Call, Id
<1>1. /\ call' = [call EXCEPT ![c] = y] /\ UNCHANGED <<phase, billed>>
      /\ y.id = call[c].id /\ y.quota = call[c].quota /\ y.created = call[c].created
  BY <1>0 DEF Inv, TypeOK, Complete, Mark, Ends, Goes, Call
<1>2. UNCHANGED SeenTokens
  BY <1>1, TokensSame
<1>3. call[c].created => SeenTokens[Id(c)] = call[c].quota
  BY <1>0, TokensOfRecorder DEF Inv, SeenTokens
<1>4. CASE Complete(c)
  <2>1. call[c].created /\ call[c].quota = "held" /\ record[Id(c)] = "executing"
    BY <1>0, <1>4 DEF Complete, At, Id, Sane, QuotaSane, RecordSane, Recorded, Reserving,
       RecorderSane
  <2>2. UNCHANGED record \/ Contract!Complete(Id(c))
    BY <1>1, <1>2, <1>3, <1>4, <2>1 DEF Complete, RecordBecomes, Contract!Complete,
       Contract!RecordBecomes, SeenTokens
  <2> QED
    BY <1>0, <1>1, <1>2, <2>2 DEF ContractStep, Contract!Next
<1>5. CASE Mark(c)
  <2>1. CASE UNCHANGED record
    BY <1>1, <1>2, <2>1 DEF ContractStep
  <2>2. CASE /\ call[c].created
             /\ \E status \in {"failed", "cancelled"} : RecordBecomes(c, status)
    <3>1. phase[Id(c)] # "settled"
      BY <1>5, <2>2, RecorderUnpaid DEF Mark, At
    <3>2. /\ record[Id(c)] \in {"executing", "completed"}
          /\ call[c].quota # "none"
      BY <1>0, <1>5, <2>2 DEF Mark, At, Id, RecorderSane, Call
    <3>3. Contract!Fail(Id(c))
      BY <1>1, <1>2, <1>3, <2>2, <3>1, <3>2 DEF RecordBecomes, Contract!Fail,
         Contract!RecordBecomes, SeenTokens
    <3> QED
      BY <1>0, <3>3 DEF ContractStep, Contract!Next
  <2> QED
    BY <1>5, <2>1, <2>2 DEF Mark
<1> QED
  BY <1>4, <1>5

(* Tokens are counted for a completed request, returned for one that has   *)
(* not been charged.                                                       *)
LEMMA TokenSteps ==
  ASSUME Inv, Inv', NEW c \in Calls, ReconcileQuota(c) \/ CancelQuota(c)
  PROVE  ContractStep
<1> DEFINE y == call'[c]
<1>0. /\ call[c] \in Call /\ Id(c) \in Ids /\ Sane(c, call[c], record, phase, flight)
  BY DEF Inv, TypeOK, Call, Id
<1>1. /\ call' = [call EXCEPT ![c] = y] /\ UNCHANGED <<record, phase, billed>>
      /\ y.id = call[c].id /\ y.created = call[c].created
      /\ \/ y.quota = call[c].quota
         \/ /\ call[c].quota = "held" /\ y.quota \in {"finalized", "cancelled"}
            /\ ReconcileQuota(c) => y.quota = "finalized"
            /\ CancelQuota(c) => y.quota = "cancelled"
  <2>1. CASE ReconcileQuota(c)
    <3>1. call[c].quota = "held" /\ At(c, "reconciling") /\ ~CancelQuota(c)
      BY <1>0, <2>1 DEF ReconcileQuota, CancelQuota, At, Sane, QuotaSane, Reserving
    <3> QED
      BY <1>0, <2>1, <3>1 DEF Inv, TypeOK, ReconcileQuota, Call
  <2>2. CASE CancelQuota(c)
    <3>1. ~ReconcileQuota(c)
      BY <2>2 DEF ReconcileQuota, CancelQuota, At
    <3> QED
      BY <1>0, <2>2, <3>1 DEF Inv, TypeOK, CancelQuota, Goes, Call
  <2> QED
    BY <2>1, <2>2
<1>2. CASE ~call[c].created \/ y.quota = call[c].quota
  BY <1>1, <1>2, TokensSame DEF ContractStep
<1>3. CASE call[c].created /\ y.quota # call[c].quota
  <2>1. /\ SeenTokens' = [SeenTokens EXCEPT ![Id(c)] = y.quota]
        /\ SeenTokens[Id(c)] = "held"
    BY <1>1, <1>3, TokensMove DEF Inv
  <2>2. CASE ReconcileQuota(c)
    <3>1. record[Id(c)] = "completed"
      BY <1>0, <2>2 DEF ReconcileQuota, At, Id, Sane, RecordSane
    <3>2. Contract!Count(Id(c))
      BY <1>1, <1>3, <2>1, <2>2, <3>1 DEF Contract!Count, Contract!TokensBecome, SeenTokens
    <3> QED
      BY <1>0, <3>2 DEF ContractStep, Contract!Next
  <2>3. CASE CancelQuota(c)
    <3>1. phase[Id(c)] # "settled"
      BY <1>3, <2>3, RecorderUnpaid DEF CancelQuota, At
    <3>2. Contract!Return(Id(c))
      BY <1>1, <1>3, <2>1, <2>3, <3>1 DEF Contract!Return, Contract!TokensBecome, SeenTokens
    <3> QED
      BY <1>0, <3>2 DEF ContractStep, Contract!Next
  <2> QED
    BY <2>2, <2>3
<1> QED
  BY <1>2, <1>3

(* Money moves by the contract if no retry meets the call it repeats: only *)
(* then is the hold a call settles not one that was released beside it.    *)
LEMMA MoneySteps ==
  ASSUME Inv, ~OverlappingRetries, NEW c \in Calls,
         Authorize(c) \/ SettleBilling(c) \/ ReleaseBilling(c)
  PROVE  ContractStep
<1> DEFINE y == call'[c]
<1>0. /\ call[c] \in Call /\ Id(c) \in Ids /\ Sane(c, call[c], record, phase, flight)
  BY DEF Inv, TypeOK, Call, Id
<1>1. UNCHANGED <<record, SeenTokens>>
  <2>1. /\ call' = [call EXCEPT ![c] = y] /\ UNCHANGED record
        /\ y.id = call[c].id /\ y.quota = call[c].quota /\ y.created = call[c].created
    <3>1. CASE Authorize(c)
      BY <1>0, <3>1 DEF Inv, TypeOK, Authorize, Goes, Call
    <3>2. CASE SettleBilling(c)
      BY <1>0, <3>2 DEF Inv, TypeOK, SettleBilling, Ends, Goes, Call
    <3>3. CASE ReleaseBilling(c)
      BY <1>0, <3>3 DEF Inv, TypeOK, ReleaseBilling, Goes, Call
    <3> QED
      BY <3>1, <3>2, <3>3
  <2> QED
    BY <2>1, TokensSame
<1>2. CASE Authorize(c)
  <2>1. Contract!Billing!Hold(Id(c)) \/ UNCHANGED <<phase, billed>>
    BY <1>2 DEF Authorize, Contract!Billing!Hold
  <2> QED
    BY <1>0, <1>1, <2>1 DEF ContractStep, Contract!Next, Contract!Hold, SeenTokens
<1>3. CASE SettleBilling(c)
  <2>1. call[c].holds => phase[Id(c)] \in {"active", "settled"}
    BY <1>0, <1>3 DEF Sane, HoldSane, SettleBilling, At, Id, Serving
  <2>2. Contract!Billing!Settle(Id(c)) \/ UNCHANGED <<phase, billed>>
    BY <1>0, <1>3, <2>1 DEF SettleBilling, Settle, Contract!Billing!Settle
  <2>3. record[Id(c)] = "completed" /\ SeenTokens[Id(c)] \in {"held", "finalized"}
    <3>1. /\ call[c].created /\ record[Id(c)] = "completed"
          /\ call[c].quota \in {"held", "finalized"}
      BY <1>0, <1>3 DEF SettleBilling, At, Id, Sane, QuotaSane, RecordSane, Recorded
    <3>2. Tokens(Id(c)) = call[c].quota
      BY <3>1, TokensOfRecorder DEF Inv
    <3> QED
      BY <1>0, <3>1, <3>2 DEF SeenTokens
  <2> QED
    BY <1>0, <1>1, <2>2, <2>3 DEF ContractStep, Contract!Next, Contract!Settle, SeenTokens
<1>4. CASE ReleaseBilling(c)
  <2>1. Contract!Billing!GiveBack(Id(c)) \/ UNCHANGED <<phase, billed>>
    BY <1>4 DEF ReleaseBilling, Contract!Billing!GiveBack
  <2> QED
    BY <1>0, <1>1, <2>1 DEF ContractStep, Contract!Next, Contract!GiveBack, SeenTokens
<1> QED
  BY <1>2, <1>3, <1>4

LEMMA SweepContract == ASSUME NEW i \in Ids, SweepHold(i) PROVE ContractStep
<1>1. Contract!Billing!GiveBack(i)
  BY DEF SweepHold, Contract!Billing!GiveBack
<1>2. UNCHANGED <<record, SeenTokens>>
  BY DEF SweepHold, SeenTokens, Tokens, Recorders, Id
<1> QED
  BY <1>1, <1>2 DEF ContractStep, Contract!Next, Contract!GiveBack, SeenTokens

(* If no retry begins before the call it repeats has ended, record, tokens *)
(* and money of every id go together as the request contract says.         *)
THEOREM RequestImplementation ==
  ASSUME ~OverlappingRetries PROVE Spec => KeepsRequestContract
<1>1. Init => RecorderInv /\ Contract!Init
  <2> SUFFICES ASSUME Init PROVE RecorderInv /\ Contract!Init
    OBVIOUS
  <2>1. \A c \in Calls : call[c].at = "idle" /\ ~call[c].created
    BY DEF Init
  <2>2. \A i \in Ids : Tokens(i) = "none"
    BY <2>1 DEF Recorders, Tokens
  <2> QED
    BY <2>1, <2>2 DEF Init, RecorderInv, RecorderSane, Contract!Init, Billing!Init,
       Contract!Billing!Init
<1>2. Inv /\ RecorderInv /\ [Next]_vars => [Contract!Next]_(Contract!rvars)
  <2> SUFFICES ASSUME Inv, Inv', RecorderInv, [Next]_vars PROVE ContractStep
    BY InvStep DEF ContractStep, Contract!rvars, SeenTokens
  <2>1. ASSUME NEW c \in Calls, Begin(c) \/ Proceed(c) PROVE ContractStep
    BY <2>1, SilentSteps, AnswerSteps, RecordRequestContract, RecordSteps, TokenSteps,
       MoneySteps DEF Proceed, ContractStep
  <2>2. ASSUME UNCHANGED <<call, record, phase, billed>> PROVE ContractStep
    BY <2>2 DEF ContractStep, SeenTokens, Tokens, Recorders, Id
  <2>3. ASSUME NEW c \in Calls, StoreResponse(c) \/ ClientLeaves(c)
        PROVE  UNCHANGED <<call, record, phase, billed>>
    BY <2>3 DEF StoreResponse, ClientLeaves
  <2>4. ASSUME NEW k \in Keys, CacheExpires(k) PROVE UNCHANGED <<call, record, phase, billed>>
    BY <2>4 DEF CacheExpires
  <2>5. ASSUME NEW i \in Ids, SweepHold(i) PROVE ContractStep
    BY <2>5, SweepContract
  <2>6. CASE UNCHANGED vars
    BY <2>2, <2>6 DEF vars
  <2> QED
    BY <2>1, <2>2, <2>3, <2>4, <2>5, <2>6 DEF Next
<1> QED
  BY <1>1, <1>2, AlwaysInv, RecorderStep, PTL DEF Spec, KeepsRequestContract, Contract!Spec

(* The request contract restricts the billing contract ...                 *)
LEMMA ContractBilling == KeepsRequestContract => ImplementsContract
<1>1. Contract!Init => Billing!Init
  BY DEF Contract!Init, Contract!Billing!Init, Billing!Init
<1>2. [Contract!Next]_(Contract!rvars) => [Billing!Next]_(Billing!cvars)
  <2> SUFFICES ASSUME [Contract!Next]_(Contract!rvars)
               PROVE  Billing!Next \/ UNCHANGED <<phase, billed>>
    BY DEF Billing!cvars
  <2>1. ASSUME NEW r \in Ids, \/ Contract!Start(r) \/ Contract!AnswerBesides(r)
                              \/ Contract!Complete(r) \/ Contract!Fail(r)
                              \/ Contract!Count(r) \/ Contract!Return(r)
        PROVE  UNCHANGED <<phase, billed>>
    BY <2>1 DEF Contract!Start, Contract!AnswerBesides, Contract!Complete, Contract!Fail,
       Contract!Count, Contract!Return
  <2>2. ASSUME NEW r \in Ids, Contract!Hold(r) \/ Contract!Settle(r) \/ Contract!GiveBack(r)
        PROVE  Billing!Next
    BY <2>2 DEF Contract!Hold, Contract!Settle, Contract!GiveBack, Contract!Billing!Hold,
       Contract!Billing!Settle, Contract!Billing!GiveBack, Billing!Next, Billing!Hold,
       Billing!Settle, Billing!GiveBack
  <2>3. CASE UNCHANGED Contract!rvars
    BY <2>3 DEF Contract!rvars
  <2> QED
    BY <2>1, <2>2, <2>3 DEF Contract!Next
<1> QED
  BY <1>1, <1>2, PTL DEF KeepsRequestContract, ImplementsContract, Contract!Spec, Billing!Spec

(* ... so that what calls and sweep do to the money of a request is what   *)
(* the billing contract allows, too.                                       *)
THEOREM Implementation == ASSUME ~OverlappingRetries PROVE Spec => ImplementsContract
  BY RequestImplementation, ContractBilling, PTL

(* The types of the request contract's variables ...                       *)
ContractTyped ==
  /\ record \in [Ids -> Records \cup {"timed_out"}]
  /\ SeenTokens \in [Ids -> {"none", "held", "finalized", "cancelled"}]
  /\ phase \in [Ids -> {"none", "active", "settled", "released"}]
  /\ billed \in [Ids -> BOOLEAN]

(* ... and what each of its steps does, a charged request first.           *)
ContractMove ==
  /\ ContractTyped' /\ Contract!ChargedIsComplete'
  /\ \A i \in Ids : phase[i] = "settled" =>
       /\ phase'[i] = phase[i] /\ billed'[i] = billed[i] /\ record'[i] = record[i]
       /\ \/ SeenTokens'[i] = SeenTokens[i]
          \/ SeenTokens[i] = "held" /\ SeenTokens'[i] = "finalized"

(* Every operation of the contract finds a charged request complete and    *)
(* leaves it so.                                                           *)
LEMMA ContractMoves ==
  ASSUME ContractTyped, Contract!ChargedIsComplete, Contract!Next
  PROVE  ContractMove
<1>0. /\ Contract!ChargedIsComplete <=>
           \A i \in Ids : phase[i] = "settled" =>
             record[i] = "completed" /\ SeenTokens[i] \in {"held", "finalized"}
      /\ Contract!ChargedIsComplete' <=>
           \A i \in Ids : phase'[i] = "settled" =>
             record'[i] = "completed" /\ SeenTokens'[i] \in {"held", "finalized"}
  BY DEF Contract!ChargedIsComplete, SeenTokens
<1>1. ASSUME NEW r \in Ids, Contract!Start(r) \/ Contract!AnswerBesides(r)
      PROVE  /\ UNCHANGED <<phase, billed>> /\ record[r] = "none"
             /\ \E status \in {"executing", "completed"} : record' = [record EXCEPT ![r] = status]
             /\ SeenTokens' = SeenTokens \/ SeenTokens' = [SeenTokens EXCEPT ![r] = "held"]
  BY <1>1 DEF Contract!Start, Contract!AnswerBesides, Contract!RecordBecomes,
     Contract!TokensBecome, SeenTokens
<1>2. ASSUME NEW r \in Ids, Contract!Complete(r) \/ Contract!Fail(r)
      PROVE  /\ UNCHANGED <<phase, billed, SeenTokens>>
             /\ record[r] # "completed" \/ phase[r] # "settled"
             /\ \E status \in {"completed", "failed", "cancelled", "timed_out"} :
                  record' = [record EXCEPT ![r] = status]
  BY <1>2 DEF Contract!Complete, Contract!Fail, Contract!RecordBecomes, SeenTokens
<1>3. ASSUME NEW r \in Ids, Contract!Count(r) \/ Contract!Return(r)
      PROVE  /\ UNCHANGED <<phase, billed, record>> /\ SeenTokens[r] = "held"
             /\ \/ SeenTokens' = [SeenTokens EXCEPT ![r] = "finalized"]
                \/ phase[r] # "settled" /\ SeenTokens' = [SeenTokens EXCEPT ![r] = "cancelled"]
  BY <1>3 DEF Contract!Count, Contract!Return, Contract!TokensBecome, SeenTokens
<1>4. ASSUME NEW r \in Ids, Contract!Hold(r) \/ Contract!Settle(r) \/ Contract!GiveBack(r)
      PROVE  /\ UNCHANGED <<record, SeenTokens>>
             /\ phase[r] # "settled"
             /\ \E p \in {"active", "settled", "released"} :
                  /\ phase' = [phase EXCEPT ![r] = p]
                  /\ p = "settled" =>
                       record[r] = "completed" /\ SeenTokens[r] \in {"held", "finalized"}
             /\ billed' = billed \/ \E b \in BOOLEAN : billed' = [billed EXCEPT ![r] = b]
  BY <1>4 DEF Contract!Hold, Contract!Settle, Contract!GiveBack, Contract!Billing!Hold,
     Contract!Billing!Settle, Contract!Billing!GiveBack, SeenTokens
<1> USE <1>0 DEF ContractMove, ContractTyped, Records
<1>5. ASSUME NEW r \in Ids, Contract!Start(r) \/ Contract!AnswerBesides(r) PROVE ContractMove
  BY <1>1, <1>5
<1>6. ASSUME NEW r \in Ids, Contract!Complete(r) \/ Contract!Fail(r) PROVE ContractMove
  BY <1>2, <1>6
<1>7. ASSUME NEW r \in Ids, Contract!Count(r) \/ Contract!Return(r) PROVE ContractMove
  BY <1>3, <1>7
<1>8. ASSUME NEW r \in Ids, Contract!Hold(r) \/ Contract!Settle(r) \/ Contract!GiveBack(r)
      PROVE  ContractMove
  BY <1>4, <1>8
<1> QED
  BY <1>5, <1>6, <1>7, <1>8 DEF Contract!Next

(* What the request contract is for: a charged request is recorded as      *)
(* completed with its tokens not returned, and it stays so.                *)
THEOREM ContractCharges ==
  KeepsRequestContract => []Contract!ChargedIsComplete /\ Contract!ChargedIsFinal
<1>1. Contract!Init => ContractTyped /\ Contract!ChargedIsComplete
  BY DEF Contract!Init, Contract!Billing!Init, ContractTyped, Contract!ChargedIsComplete,
     SeenTokens, Records
<1>2. ContractTyped /\ Contract!ChargedIsComplete /\ [Contract!Next]_(Contract!rvars)
        => ContractTyped' /\ Contract!ChargedIsComplete'
  <2>1. CASE UNCHANGED Contract!rvars
    BY <2>1 DEF Contract!rvars, ContractTyped, Contract!ChargedIsComplete, SeenTokens
  <2>2. CASE Contract!Next
    BY <2>2, ContractMoves DEF ContractMove
  <2> QED
    BY <2>1, <2>2
<1>3. ContractTyped /\ Contract!ChargedIsComplete /\ [Contract!Next]_(Contract!rvars)
        => [Contract!ChargeStays]_(Contract!rvars)
  BY ContractMoves DEF ContractMove, SeenTokens, Contract!ChargeStays
<1> QED
  BY <1>1, <1>2, <1>3, PTL DEF KeepsRequestContract, Contract!Spec, Contract!ChargedIsFinal
=============================================================================
