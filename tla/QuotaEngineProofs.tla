-------------------------- MODULE QuotaEngineProofs --------------------------
(***************************************************************************)
(* What QuotaEngine guarantees for every set of scopes, every limit and    *)
(* every number of reservations.                                           *)
(***************************************************************************)
EXTENDS QuotaEngine, FiniteSetTheorems, TLAPS

(* Where a reservation stands in its path; a lease is only taken by a      *)
(* reservation whose clock has not started.                                *)
PlacedAt(r, x) ==
  /\ x.phase = "acquiring" => x.next \in 1..(Len(Leases[r]) + 1) /\ x.age = 0
  /\ x.phase = "releasing" => x.got \in 1..Len(Leases[r]) /\ x.next \in 1..x.got

Shape == TypeOK /\ \A r \in Reservations : PlacedAt(r, res[r])

-----------------------------------------------------------------------------
(* The numbers among the constants.                                        *)
LEMMA Numbers ==
  /\ Window \in Nat /\ Window > 0 /\ LeaseTtl \in Nat /\ LeaseTtl > 0 /\ MaxRun \in Nat
  /\ Estimates \subseteq Nat /\ Actuals \subseteq Nat
  BY QuotaAssumption

(* Lengths of paths are natural numbers, and their elements keys.          *)
LEMMA Paths ==
  ASSUME NEW r \in Reservations
  PROVE  /\ Len(Leases[r]) \in Nat
         /\ \A i \in 1..Len(Leases[r]) : Leases[r][i] \in LeaseKeys
         /\ Len(Windows[r]) \in Nat
         /\ \A i \in 1..Len(Windows[r]) : Windows[r][i] \in Counters
  BY QuotaAssumption

(* One reservation moves and stays in place.                               *)
LEMMA OneMoves ==
  ASSUME Shape, NEW r \in Reservations, NEW x \in Reservation, PlacedAt(r, x),
         res' = [res EXCEPT ![r] = x]
  PROVE  /\ res' \in [Reservations -> Reservation]
         /\ \A q \in Reservations : PlacedAt(q, res'[q])
  BY DEF Shape, TypeOK

(* Changing one field of a reservation.                                    *)
LEMMA NextField ==
  ASSUME NEW x \in Reservation
  PROVE  LET y == [x EXCEPT !.next = @ + 1]
         IN  /\ y \in Reservation /\ y.next = x.next + 1
             /\ y.phase = x.phase /\ y.age = x.age /\ y.got = x.got
  BY DEF Reservation

LEMMA PhaseField ==
  ASSUME NEW x \in Reservation
  PROVE  LET y == [x EXCEPT !.phase = "active"]
         IN  y \in Reservation /\ y.phase = "active" /\ y.age = x.age
  BY DEF Reservation

(* Running sums stay functions from spans to natural numbers.              *)
LEMMA SumTypes ==
  ASSUME NEW sums \in [Spans -> Nat], NEW x \in Nat, NEW age \in Nat
  PROVE  /\ Add(sums, x) \in [Spans -> Nat]
         /\ Refund(sums, x) \in [Spans -> Nat]
         /\ GiveBack(sums, age, x) \in [Spans -> Nat]
  BY Numbers DEF Add, Refund, GiveBack, Spans, NonNeg

(* A refund from the latest buckets takes at least as much out of every    *)
(* span as giving back the reservation's own share.                        *)
LEMMA RefundBelow ==
  ASSUME NEW u \in [Spans -> Nat], NEW s \in [Spans -> Nat],
         NEW x \in Nat, NEW age \in Nat,
         \A k \in Spans : u[k] <= s[k]
  PROVE  /\ \A k \in Spans : Refund(u, x)[k] <= GiveBack(s, age, x)[k]
         /\ \A k \in Spans : Add(u, x)[k] <= Add(s, x)[k]
  BY DEF Refund, GiveBack, Add, NonNeg, Spans

LEMMA IdleShape ==
  ASSUME NEW r \in Reservations
  PROVE  Idle \in Reservation /\ PlacedAt(r, Idle)
  BY Numbers DEF Idle, Reservation, PlacedAt

LEMMA ReleasingShape ==
  ASSUME Shape, NEW r \in Reservations, NEW n \in 0..Len(Leases[r])
  PROVE  Releasing(r, n) \in Reservation /\ PlacedAt(r, Releasing(r, n))
<1>1. CASE n = 0
  BY <1>1, IdleShape DEF Releasing
<1>2. CASE n # 0
  <2> DEFINE x == [res[r] EXCEPT !.phase = "releasing", !.next = 1, !.got = n]
  <2>1. n \in Nat /\ n \in 1..Len(Leases[r])
    BY <1>2, Paths
  <2>2. res[r] \in Reservation
    BY DEF Shape, TypeOK
  <2>3. /\ x \in Reservation
        /\ x.phase = "releasing" /\ x.next = 1 /\ x.got = n
    BY <2>1, <2>2 DEF Reservation
  <2>4. PlacedAt(r, x)
    BY <2>1, <2>3 DEF PlacedAt
  <2> QED BY <1>2, <2>3, <2>4 DEF Releasing
<1> QED BY <1>1, <1>2

-----------------------------------------------------------------------------
(* Type correctness, with the places that make it inductive.               *)

LEMMA ShapeInit == Init => Shape
  BY Numbers, IdleShape DEF Init, Shape, TypeOK, Spans

LEMMA ShapeStep == Shape /\ [Next]_vars => Shape'
<1> SUFFICES ASSUME Shape, [Next]_vars PROVE Shape'
  OBVIOUS
<1>1. ASSUME NEW r \in Reservations, NEW t \in Estimates, Request(r, t) PROVE Shape'
  <2> DEFINE x == [phase |-> "acquiring", next |-> 1, got |-> 0,
                    tokens |-> t, actual |-> 0, age |-> 0]
  <2>1. x \in Reservation /\ x.phase = "acquiring" /\ x.next = 1 /\ x.age = 0
    <3>1. t \in Nat /\ 0 \in 0..MaxRun
      BY Numbers
    <3> QED BY <3>1 DEF Reservation
  <2>2. PlacedAt(r, x)
    BY <2>1, Paths DEF PlacedAt
  <2>3. res' = [res EXCEPT ![r] = x] /\ UNCHANGED <<lease, used, spent>>
    BY <1>1 DEF Request
  <2> HIDE DEF x
  <2> QED BY <2>1, <2>2, <2>3, OneMoves DEF Shape, TypeOK
<1>2. ASSUME NEW r \in Reservations, NEW a \in Actuals, Finalize(r, a) PROVE Shape'
  <2> DEFINE x == [res[r] EXCEPT !.phase = "reconciling", !.next = 1, !.actual = a]
  <2>1. x \in Reservation /\ x.phase = "reconciling"
    BY Numbers DEF Shape, TypeOK, Reservation
  <2>2. PlacedAt(r, x)
    BY <2>1 DEF PlacedAt
  <2>3. res' = [res EXCEPT ![r] = x] /\ UNCHANGED <<lease, used, spent>>
    BY <1>2 DEF Finalize, Shape, TypeOK
  <2> HIDE DEF x
  <2> QED BY <2>1, <2>2, <2>3, OneMoves DEF Shape, TypeOK
<1>3. ASSUME NEW r \in Reservations, AcquireLease(r) PROVE Shape'
  <2> DEFINE k == Leases[r][res[r].next]
             x == [res[r] EXCEPT !.next = @ + 1]
  <2>1. /\ k \in LeaseKeys /\ res[r] \in Reservation
        /\ res[r].next \in Nat /\ res[r].next \in 1..Len(Leases[r])
        /\ res[r].phase = "acquiring" /\ res[r].age = 0
    BY <1>3, Paths DEF AcquireLease, Shape, PlacedAt, TypeOK, Reservation
  <2>2. CASE HasRoom(k)
    <3>1. /\ lease' = [lease EXCEPT ![k][r] = LeaseTtl] /\ UNCHANGED <<used, spent>>
          /\ res' = [res EXCEPT ![r] = x]
      BY <1>3, <2>2 DEF AcquireLease, Shape, TypeOK
    <3>2. /\ x \in Reservation /\ x.phase = "acquiring" /\ x.age = 0
          /\ x.next = res[r].next + 1
      BY <2>1, NextField
    <3>4. PlacedAt(r, x)
      BY <2>1, <3>2, Paths DEF PlacedAt
    <3>3. lease' \in [LeaseKeys -> [Reservations -> 0..LeaseTtl]]
      BY <2>1, <3>1, Numbers DEF Shape, TypeOK
    <3> HIDE DEF x, k
    <3> QED BY <3>1, <3>2, <3>3, <3>4, OneMoves DEF Shape, TypeOK
  <2>3. CASE ~HasRoom(k)
    <3>1. res' = [res EXCEPT ![r] = Releasing(r, res[r].next - 1)] /\ UNCHANGED <<lease, used, spent>>
      BY <1>3, <2>3 DEF AcquireLease, Denied
    <3>2. res[r].next - 1 \in 0..Len(Leases[r])
      BY <2>1, Paths
    <3> QED BY <3>1, <3>2, ReleasingShape, OneMoves DEF Shape, TypeOK
  <2> QED BY <2>2, <2>3
<1>4. ASSUME NEW r \in Reservations, CheckAndReserve(r) PROVE Shape'
  <2>1. /\ res[r].next - 1 \in 0..Len(Leases[r]) /\ res[r].tokens \in Nat
        /\ res[r] \in Reservation
    BY <1>4, Paths DEF CheckAndReserve, Shape, PlacedAt, TypeOK, Reservation
  <2>2. CASE res' = [res EXCEPT ![r] = Denied(r)] /\ UNCHANGED <<lease, used, spent>>
    BY <2>1, <2>2, ReleasingShape, OneMoves DEF Shape, TypeOK, Denied
  <2>3. CASE /\ used' = [c \in Counters |->
                  IF Uses(r, c) THEN Add(used[c], Amount(c, res[r].tokens)) ELSE used[c]]
             /\ spent' = [c \in Counters |->
                  IF Uses(r, c) THEN Add(spent[c], Amount(c, res[r].tokens)) ELSE spent[c]]
             /\ res' = [res EXCEPT ![r].phase = "active"]
             /\ UNCHANGED lease
    <3>1. \A c \in Counters : Amount(c, res[r].tokens) \in Nat
      BY <2>1 DEF Amount
    <3>2. used' \in [Counters -> [Spans -> Nat]] /\ spent' \in [Counters -> [Spans -> Nat]]
      BY <2>3, <3>1, SumTypes DEF Shape, TypeOK
    <3>3. /\ [res[r] EXCEPT !.phase = "active"] \in Reservation
          /\ PlacedAt(r, [res[r] EXCEPT !.phase = "active"])
      BY <2>1, PhaseField DEF PlacedAt
    <3>4. res' = [res EXCEPT ![r] = [res[r] EXCEPT !.phase = "active"]]
      BY <2>3 DEF Shape, TypeOK
    <3> QED BY <2>3, <3>2, <3>3, <3>4, OneMoves DEF Shape, TypeOK
  <2> QED BY <1>4, <2>2, <2>3 DEF CheckAndReserve
<1>5. ASSUME NEW r \in Reservations, Reconcile(r) PROVE Shape'
  <2> DEFINE c == Windows[r][res[r].next]
             diff == res[r].actual - res[r].tokens
             x == [res[r] EXCEPT !.next = @ + 1]
  <2>1. res[r] \in Reservation /\ res[r].age \in Nat /\ res[r].next \in Nat /\ diff \in Int
    BY Numbers DEF Shape, TypeOK, Reservation
  <2>2. used' \in [Counters -> [Spans -> Nat]] /\ spent' \in [Counters -> [Spans -> Nat]]
    <3>1. CASE c \notin TokenCounters
      BY <1>5, <3>1 DEF Reconcile, Shape, TypeOK
    <3>2. CASE c \in TokenCounters /\ diff < 0
      <4>1. c \in Counters
        BY <3>2, QuotaAssumption
      <4>2. -diff \in Nat
        BY <2>1, <3>2
      <4>3. /\ Refund(used[c], -diff) \in [Spans -> Nat]
            /\ GiveBack(spent[c], res[r].age, -diff) \in [Spans -> Nat]
        BY <2>1, <4>1, <4>2, SumTypes DEF Shape, TypeOK
      <4>4. /\ used' = [used EXCEPT ![c] = Refund(@, -diff)]
            /\ spent' = [spent EXCEPT ![c] = GiveBack(@, res[r].age, -diff)]
        BY <1>5, <3>2 DEF Reconcile
      <4> HIDE DEF c, diff
      <4> QED BY <4>1, <4>3, <4>4 DEF Shape, TypeOK
    <3>3. CASE c \in TokenCounters /\ ~(diff < 0)
      <4>1. c \in Counters
        BY <3>3, QuotaAssumption
      <4>2. diff \in Nat
        BY <2>1, <3>3
      <4>3. Add(used[c], diff) \in [Spans -> Nat] /\ Add(spent[c], diff) \in [Spans -> Nat]
        BY <4>1, <4>2, SumTypes DEF Shape, TypeOK
      <4>4. used' = [used EXCEPT ![c] = Add(@, diff)] /\ spent' = [spent EXCEPT ![c] = Add(@, diff)]
        BY <1>5, <3>3 DEF Reconcile
      <4> HIDE DEF c, diff
      <4> QED BY <4>1, <4>3, <4>4 DEF Shape, TypeOK
    <3> QED BY <3>1, <3>2, <3>3
  <2>3. x \in Reservation /\ PlacedAt(r, x)
    <3>1. x \in Reservation /\ x.phase = "reconciling"
      BY <1>5, <2>1, NextField DEF Reconcile
    <3> QED BY <3>1 DEF PlacedAt
  <2>4. res' = [res EXCEPT ![r] = x] /\ UNCHANGED lease
    BY <1>5 DEF Reconcile, Shape, TypeOK
  <2> HIDE DEF x, c, diff
  <2> QED BY <2>2, <2>3, <2>4, OneMoves DEF Shape, TypeOK
<1>6. ASSUME NEW r \in Reservations, Reconciled(r) PROVE Shape'
  <2>1. Len(Leases[r]) \in 0..Len(Leases[r])
    BY Paths
  <2> QED BY <1>6, <2>1, ReleasingShape, OneMoves DEF Reconciled, Shape, TypeOK
<1>7. ASSUME NEW r \in Reservations, Cancel(r) PROVE Shape'
  <2>1. res[r].tokens \in Nat /\ res[r].age \in Nat
    BY Numbers DEF Shape, TypeOK, Reservation
  <2>2. \A c \in Counters : Amount(c, res[r].tokens) \in Nat
    BY <2>1 DEF Amount
  <2>3. used' \in [Counters -> [Spans -> Nat]] /\ spent' \in [Counters -> [Spans -> Nat]]
    BY <1>7, <2>1, <2>2, SumTypes DEF Cancel, Shape, TypeOK
  <2>4. res' = [res EXCEPT ![r] = Releasing(r, Len(Leases[r]))] /\ UNCHANGED lease
    BY <1>7 DEF Cancel
  <2>5. Len(Leases[r]) \in 0..Len(Leases[r])
    BY Paths
  <2> QED BY <2>3, <2>4, <2>5, ReleasingShape, OneMoves DEF Shape, TypeOK
<1>8. ASSUME NEW r \in Reservations, ReleaseLease(r) PROVE Shape'
  <2> DEFINE x == [res[r] EXCEPT !.next = @ + 1]
  <2>1. /\ res[r] \in Reservation /\ res[r].next \in Nat
        /\ res[r].got \in 1..Len(Leases[r]) /\ res[r].next \in 1..res[r].got
        /\ res[r].phase = "releasing"
    BY <1>8 DEF ReleaseLease, Shape, PlacedAt, TypeOK, Reservation
  <2>2. Leases[r][res[r].next] \in LeaseKeys
    BY <2>1, Paths
  <2>3. lease' \in [LeaseKeys -> [Reservations -> 0..LeaseTtl]]
    BY <1>8, <2>2, Numbers DEF ReleaseLease, Shape, TypeOK
  <2>4. CASE res[r].next = res[r].got
    <3>1. res' = [res EXCEPT ![r] = Idle] /\ UNCHANGED <<used, spent>>
      BY <1>8, <2>4 DEF ReleaseLease
    <3> QED BY <2>3, <3>1, IdleShape, OneMoves DEF Shape, TypeOK
  <2>5. CASE res[r].next # res[r].got
    <3>1. res' = [res EXCEPT ![r] = x] /\ UNCHANGED <<used, spent>>
      BY <1>8, <2>5 DEF ReleaseLease
    <3>2. /\ x \in Reservation /\ x.phase = "releasing" /\ x.got = res[r].got
          /\ x.next = res[r].next + 1
      BY <2>1, NextField
    <3>3. PlacedAt(r, x)
      BY <2>1, <2>5, <3>2, Paths DEF PlacedAt
    <3> HIDE DEF x
    <3> QED BY <2>3, <3>1, <3>2, <3>3, OneMoves DEF Shape, TypeOK
  <2> QED BY <2>4, <2>5
<1>9. ASSUME NEW r \in Reservations, Heartbeat(r) PROVE Shape'
  BY <1>9, Numbers DEF Heartbeat, Shape, TypeOK
<1>10. CASE Tick
  <2>1. lease' \in [LeaseKeys -> [Reservations -> 0..LeaseTtl]]
    BY <1>10, Numbers DEF Tick, Shape, TypeOK, NonNeg
  <2>2. ASSUME NEW c \in Counters
        PROVE  used'[c] \in [Spans -> Nat] /\ spent'[c] \in [Spans -> Nat]
    <3>1. used[c] \in [Spans -> Nat] /\ spent[c] \in [Spans -> Nat]
      BY DEF Shape, TypeOK
    <3>2. \A k \in Spans : k # 0 => k - 1 \in Spans
      BY Numbers DEF Spans
    <3> QED BY <1>10, <3>1, <3>2 DEF Tick
  <2>3. used' \in [Counters -> [Spans -> Nat]] /\ spent' \in [Counters -> [Spans -> Nat]]
    BY <1>10, <2>2 DEF Tick
  <2>4. ASSUME NEW r \in Reservations
        PROVE  res'[r] \in Reservation /\ PlacedAt(r, res'[r])
    <3>1. res[r] \in Reservation /\ PlacedAt(r, res[r])
      BY DEF Shape, TypeOK
    <3>2. CASE res[r].phase = "active"
      <4> DEFINE x == [res[r] EXCEPT !.age = @ + 1]
      <4>1. res[r].age < MaxRun /\ res[r].age \in Nat /\ res'[r] = x
        BY <1>10, <3>1, <3>2, Numbers DEF Tick, Reservation
      <4>2. x \in Reservation /\ x.phase = "active"
        BY <3>1, <3>2, <4>1, Numbers DEF Reservation
      <4> QED BY <4>1, <4>2 DEF PlacedAt
    <3> QED BY <1>10, <3>1, <3>2 DEF Tick
  <2>5. res' \in [Reservations -> Reservation]
    BY <1>10, <2>4 DEF Tick
  <2> QED BY <2>1, <2>3, <2>4, <2>5 DEF Shape, TypeOK
<1>11. CASE UNCHANGED vars
  BY <1>11 DEF vars, Shape, TypeOK
<1> QED BY <1>1, <1>2, <1>3, <1>4, <1>5, <1>6, <1>7, <1>8, <1>9, <1>10, <1>11 DEF Next

LEMMA ShapeHolds == Spec => []Shape
  BY ShapeInit, ShapeStep, PTL DEF Spec

(* Leases never live longer than their time to live, window sums are never *)
(* negative, and reservations keep their types.                            *)
THEOREM TypeCorrect == Spec => []TypeOK
  BY ShapeHolds, PTL DEF Shape
-----------------------------------------------------------------------------
(* Leases and the reservations they belong to.                             *)

(* Releasing the first n leases leaves at most those to give back.         *)
LEMMA ReleasingHolds ==
  ASSUME Shape, NEW r \in Reservations, NEW n \in 0..Len(Leases[r]),
         res' = [res EXCEPT ![r] = Releasing(r, n)]
  PROVE  Held(r)' = 1..n
<1>1. CASE n = 0
  BY <1>1 DEF Held, Releasing, Idle, UnderWay, Shape, TypeOK
<1>2. CASE n # 0
  <2>1. n \in Nat /\ res[r] \in Reservation
    BY Paths DEF Shape, TypeOK
  <2>2. res'[r].phase = "releasing" /\ res'[r].next = 1 /\ res'[r].got = n
    BY <1>2, <2>1 DEF Releasing, Shape, TypeOK, Reservation
  <2> QED BY <2>2 DEF Held, UnderWay
<1> QED BY <1>1, <1>2

(* What a reservation holds depends on its own record alone.               *)
LEMMA OthersHold ==
  ASSUME NEW r, NEW q, res'[q] = res[q]
  PROVE  Held(q)' = Held(q) /\ Owes(q)' = Owes(q)
  BY DEF Held, Owes, UnderWay

LEMMA LeakInit == Init => NoLeaseLeaks
  BY DEF Init, NoLeaseLeaks, Live

LEMMA LeakStep == Shape /\ NoLeaseLeaks /\ [Next]_vars => NoLeaseLeaks'
<1> SUFFICES ASSUME Shape, NoLeaseLeaks, [Next]_vars,
                    NEW k \in LeaseKeys, NEW q \in Reservations, Live(k, q)'
             PROVE  k \in Owes(q)'
  BY DEF NoLeaseLeaks
<1>0. Live(k, q) => k \in Owes(q)
  BY DEF NoLeaseLeaks
<1>1. ASSUME NEW r \in Reservations, NEW t \in Estimates, Request(r, t) PROVE k \in Owes(q)'
  <2>1. Live(k, q)
    BY <1>1 DEF Request, Live
  <2>2. q # r
    BY <1>0, <1>1, <2>1 DEF Request, Owes, Held, UnderWay
  <2>3. res'[q] = res[q]
    BY <1>1, <2>2 DEF Request, Shape, TypeOK
  <2> QED BY <1>0, <2>1, <2>3, OthersHold
<1>2. ASSUME NEW r \in Reservations, NEW a \in Actuals, Finalize(r, a) PROVE k \in Owes(q)'
  <2>1. Live(k, q)
    BY <1>2 DEF Finalize, Live
  <2>2. Held(q)' = Held(q)
    BY <1>2 DEF Finalize, Held, UnderWay, Shape, TypeOK, Reservation
  <2> QED BY <1>0, <2>1, <2>2 DEF Owes
<1>3. ASSUME NEW r \in Reservations, AcquireLease(r) PROVE k \in Owes(q)'
  <2> DEFINE key == Leases[r][res[r].next]
  <2>1. /\ key \in LeaseKeys /\ res[r] \in Reservation
        /\ res[r].next \in 1..Len(Leases[r]) /\ res[r].phase = "acquiring"
    BY <1>3, Paths DEF AcquireLease, Shape, PlacedAt, TypeOK, Reservation
  <2>2. Held(r) = 1..(res[r].next - 1)
    BY <2>1 DEF Held, UnderWay
  <2>3. CASE HasRoom(key)
    <3>1. /\ lease' = [lease EXCEPT ![key][r] = LeaseTtl]
          /\ res' = [res EXCEPT ![r].next = @ + 1]
      BY <1>3, <2>3 DEF AcquireLease
    <3>2. CASE q # r
      <4>1. res'[q] = res[q] /\ Live(k, q)
        BY <2>1, <3>1, <3>2 DEF Live, Shape, TypeOK
      <4> QED BY <1>0, <4>1, OthersHold
    <3>3. CASE q = r
      <4>1. res'[r].phase = "acquiring" /\ res'[r].next = res[r].next + 1
        BY <2>1, <3>1 DEF Shape, TypeOK, Reservation
      <4>2. Held(r)' = 1..res[r].next
        BY <2>1, <4>1 DEF Held, UnderWay, Reservation
      <4>3. CASE k = key
        BY <2>1, <3>3, <4>2, <4>3, Paths DEF Owes
      <4>4. CASE k # key
        <5>1. Live(k, r)
          BY <2>1, <3>1, <3>3, <4>4 DEF Live, Shape, TypeOK
        <5>2. PICK i \in 1..(res[r].next - 1) : k = Leases[r][i]
          BY <1>0, <2>2, <3>3, <5>1 DEF Owes
        <5>3. i \in 1..res[r].next
          BY <2>1, <5>2, Paths DEF Reservation
        <5> QED BY <3>3, <4>2, <5>2, <5>3 DEF Owes
      <4> QED BY <4>3, <4>4
    <3> QED BY <3>2, <3>3
  <2>4. CASE ~HasRoom(key)
    <3>1. res' = [res EXCEPT ![r] = Releasing(r, res[r].next - 1)] /\ UNCHANGED lease
      BY <1>3, <2>4 DEF AcquireLease, Denied
    <3>2. res[r].next - 1 \in 0..Len(Leases[r])
      BY <2>1, Paths
    <3>3. Held(r)' = Held(r)
      BY <2>2, <3>1, <3>2, ReleasingHolds
    <3>4. q # r => Held(q)' = Held(q)
      BY <3>1, OthersHold DEF Shape, TypeOK
    <3> QED BY <1>0, <3>1, <3>3, <3>4 DEF Owes, Live
  <2> QED BY <2>3, <2>4
<1>4. ASSUME NEW r \in Reservations, CheckAndReserve(r) PROVE k \in Owes(q)'
  <2>0. /\ res[r] \in Reservation /\ res[r].phase = "acquiring" /\ UNCHANGED lease
        /\ res[r].next \in 1..(Len(Leases[r]) + 1) /\ res[r].next > Len(Leases[r])
    BY <1>4 DEF CheckAndReserve, Shape, PlacedAt, TypeOK
  <2>1. /\ res[r] \in Reservation /\ res[r].phase = "acquiring" /\ UNCHANGED lease
        /\ res[r].next - 1 \in 0..Len(Leases[r]) /\ res[r].next - 1 = Len(Leases[r])
    <3>1. Len(Leases[r]) \in Nat
      BY Paths
    <3>2. res[r].next = Len(Leases[r]) + 1
      BY <2>0, <3>1
    <3> QED BY <2>0, <3>1, <3>2
  <2>2. Held(r) = 1..(res[r].next - 1)
    BY <2>1 DEF Held, UnderWay
  <2>3. CASE res' = [res EXCEPT ![r].phase = "active"]
    <3>1. res'[r].phase = "active"
      BY <2>1, <2>3 DEF Shape, TypeOK, Reservation
    <3>2. Held(r)' = Held(r)
      BY <2>1, <2>2, <3>1 DEF Held, UnderWay
    <3>3. q # r => Held(q)' = Held(q)
      BY <2>3, OthersHold DEF Shape, TypeOK
    <3> QED BY <1>0, <2>1, <3>2, <3>3 DEF Owes, Live
  <2>4. CASE res' = [res EXCEPT ![r] = Denied(r)]
    <3>1. Held(r)' = Held(r)
      BY <2>1, <2>2, <2>4, ReleasingHolds DEF Denied
    <3>2. q # r => Held(q)' = Held(q)
      BY <2>4, OthersHold DEF Shape, TypeOK
    <3> QED BY <1>0, <2>1, <3>1, <3>2 DEF Owes, Live
  <2> QED BY <1>4, <2>3, <2>4 DEF CheckAndReserve
<1>5. ASSUME NEW r \in Reservations, Reconcile(r) PROVE k \in Owes(q)'
  <2>1. res'[r].phase = res[r].phase /\ UNCHANGED lease /\ res[r].phase = "reconciling"
    BY <1>5 DEF Reconcile, Shape, TypeOK, Reservation
  <2>2. Held(r)' = Held(r)
    BY <2>1 DEF Held, UnderWay
  <2>3. q # r => Held(q)' = Held(q)
    BY <1>5, OthersHold DEF Reconcile, Shape, TypeOK
  <2> QED BY <1>0, <2>1, <2>2, <2>3 DEF Owes, Live
<1>6. ASSUME NEW r \in Reservations, Reconciled(r) \/ Cancel(r) PROVE k \in Owes(q)'
  <2>1. /\ res' = [res EXCEPT ![r] = Releasing(r, Len(Leases[r]))] /\ UNCHANGED lease
        /\ UnderWay(r)
    BY <1>6 DEF Reconciled, Cancel, UnderWay
  <2>2. Held(r) = 1..Len(Leases[r])
    BY <2>1 DEF Held, UnderWay
  <2>3. Len(Leases[r]) \in 0..Len(Leases[r])
    BY Paths
  <2>4. Held(r)' = Held(r)
    BY <2>1, <2>2, <2>3, ReleasingHolds
  <2>5. q # r => Held(q)' = Held(q)
    BY <2>1, OthersHold DEF Shape, TypeOK
  <2> QED BY <1>0, <2>1, <2>4, <2>5 DEF Owes, Live
<1>7. ASSUME NEW r \in Reservations, ReleaseLease(r) PROVE k \in Owes(q)'
  <2> DEFINE key == Leases[r][res[r].next]
  <2>1. /\ res[r] \in Reservation /\ res[r].phase = "releasing"
        /\ res[r].got \in Nat /\ res[r].next \in 1..res[r].got
        /\ lease' = [lease EXCEPT ![key][r] = 0]
    BY <1>7 DEF ReleaseLease, Shape, PlacedAt, TypeOK, Reservation
  <2>2. Live(k, q)
    BY <2>1 DEF Live, Shape, TypeOK
  <2>3. CASE q # r
    <3>1. res'[q] = res[q]
      BY <1>7, <2>3 DEF ReleaseLease, Shape, TypeOK
    <3> QED BY <1>0, <2>2, <3>1, OthersHold
  <2>4. CASE q = r
    <3>1. Held(r) = res[r].next..res[r].got
      BY <2>1 DEF Held, UnderWay
    <3>2. PICK i \in res[r].next..res[r].got : k = Leases[r][i]
      BY <1>0, <2>2, <2>4, <3>1 DEF Owes
    <3>3. k # key
      BY <2>1, <2>4 DEF Live, Shape, TypeOK
    <3>4. i # res[r].next
      BY <3>2, <3>3
    <3>5. i \in (res[r].next + 1)..res[r].got /\ res[r].next # res[r].got
      BY <2>1, <3>2, <3>4
    <3>6. /\ res'[r].phase = "releasing" /\ res'[r].got = res[r].got
          /\ res'[r].next = res[r].next + 1
      BY <1>7, <2>1, <3>5 DEF ReleaseLease, Shape, TypeOK, Reservation
    <3>7. Held(r)' = (res[r].next + 1)..res[r].got
      BY <3>6 DEF Held, UnderWay
    <3> QED BY <2>4, <3>2, <3>5, <3>7 DEF Owes
  <2> QED BY <2>3, <2>4
<1>8. ASSUME NEW r \in Reservations, Heartbeat(r) PROVE k \in Owes(q)'
  BY <1>0, <1>8 DEF Heartbeat, Live, Owes, Held, UnderWay, Shape, TypeOK
<1>9. CASE Tick
  <2>1. Live(k, q)
    BY <1>9, Numbers DEF Tick, Live, NonNeg, Shape, TypeOK
  <2>2. /\ res'[q].phase = res[q].phase /\ res'[q].next = res[q].next
        /\ res'[q].got = res[q].got
    BY <1>9 DEF Tick, Shape, TypeOK, Reservation
  <2>3. Held(q)' = Held(q)
    BY <2>2 DEF Held, UnderWay
  <2> QED BY <1>0, <2>1, <2>3 DEF Owes
<1>10. CASE UNCHANGED vars
  BY <1>0, <1>10 DEF vars, Live, Owes, Held, UnderWay
<1> QED BY <1>1, <1>2, <1>3, <1>4, <1>5, <1>6, <1>7, <1>8, <1>9, <1>10 DEF Next

(* No lease outlives the reservation that took it: whatever is denied,     *)
(* cancelled or reconciled gives back all it had taken.                    *)
THEOREM LeasesReturned == Spec => []NoLeaseLeaks
  BY ShapeHolds, LeakInit, LeakStep, PTL DEF Spec
-----------------------------------------------------------------------------
(* The windows never count too much.                                       *)

LEMMA CountsStep == Shape /\ NeverOvercounts /\ [Next]_vars => NeverOvercounts'
<1> SUFFICES ASSUME Shape, NeverOvercounts, [Next]_vars,
                    NEW c \in Counters, NEW k \in Spans
             PROVE  used'[c][k] <= spent'[c][k]
  BY DEF NeverOvercounts
<1>0. /\ used[c] \in [Spans -> Nat] /\ spent[c] \in [Spans -> Nat]
      /\ \A j \in Spans : used[c][j] <= spent[c][j]
  BY DEF Shape, TypeOK, NeverOvercounts
<1>1. ASSUME NEW r \in Reservations, CheckAndReserve(r) PROVE used'[c][k] <= spent'[c][k]
  <2>1. Amount(c, res[r].tokens) \in Nat
    BY DEF Amount, Shape, TypeOK, Reservation
  <2>2. 0 \in Nat /\ \A j \in Spans : Add(used[c], Amount(c, res[r].tokens))[j]
                               <= Add(spent[c], Amount(c, res[r].tokens))[j]
    BY <1>0, <2>1, RefundBelow
  <2> QED BY <1>0, <1>1, <2>2 DEF CheckAndReserve
<1>2. ASSUME NEW r \in Reservations, Reconcile(r) PROVE used'[c][k] <= spent'[c][k]
  <2> DEFINE key == Windows[r][res[r].next]
             diff == res[r].actual - res[r].tokens
  <2>1. diff \in Int /\ res[r].age \in Nat
    BY Numbers DEF Shape, TypeOK, Reservation
  <2>2. CASE key \notin TokenCounters
    BY <1>0, <1>2, <2>2 DEF Reconcile
  <2>3. CASE key \in TokenCounters /\ diff < 0
    <3>1. -diff \in Nat
      BY <2>1, <2>3
    <3>2. Refund(used[c], -diff)[k] <= GiveBack(spent[c], res[r].age, -diff)[k]
      BY <1>0, <2>1, <3>1, RefundBelow
    <3>3. /\ used' = [used EXCEPT ![key] = Refund(@, -diff)]
          /\ spent' = [spent EXCEPT ![key] = GiveBack(@, res[r].age, -diff)]
      BY <1>2, <2>3 DEF Reconcile
    <3> HIDE DEF key, diff
    <3> QED BY <1>0, <3>2, <3>3 DEF Shape, TypeOK
  <2>4. CASE key \in TokenCounters /\ ~(diff < 0)
    <3>1. diff \in Nat
      BY <2>1, <2>4
    <3>2. Add(used[c], diff)[k] <= Add(spent[c], diff)[k]
      BY <1>0, <2>1, <3>1, RefundBelow
    <3>3. used' = [used EXCEPT ![key] = Add(@, diff)] /\ spent' = [spent EXCEPT ![key] = Add(@, diff)]
      BY <1>2, <2>4 DEF Reconcile
    <3> HIDE DEF key, diff
    <3> QED BY <1>0, <3>2, <3>3 DEF Shape, TypeOK
  <2> QED BY <2>2, <2>3, <2>4
<1>3. ASSUME NEW r \in Reservations, Cancel(r) PROVE used'[c][k] <= spent'[c][k]
  <2>1. Amount(c, res[r].tokens) \in Nat /\ res[r].age \in Nat
    BY Numbers DEF Amount, Shape, TypeOK, Reservation
  <2>2. \A j \in Spans : Refund(used[c], Amount(c, res[r].tokens))[j]
                      <= GiveBack(spent[c], res[r].age, Amount(c, res[r].tokens))[j]
    BY <1>0, <2>1, RefundBelow
  <2> QED BY <1>0, <1>3, <2>2 DEF Cancel
<1>4. CASE Tick
  <2>1. k # 0 => k - 1 \in Spans
    BY Numbers DEF Spans
  <2> QED BY <1>0, <1>4, <2>1 DEF Tick
<1>5. CASE UNCHANGED <<used, spent>>
  BY <1>0, <1>5
<1>6. ASSUME NEW r \in Reservations,
             \/ \E t \in Estimates : Request(r, t)
             \/ \E a \in Actuals : Finalize(r, a)
             \/ AcquireLease(r) \/ Reconciled(r) \/ ReleaseLease(r) \/ Heartbeat(r)
      PROVE  UNCHANGED <<used, spent>>
  BY <1>6 DEF Request, Finalize, AcquireLease, Reconciled, ReleaseLease, Heartbeat
<1> QED BY <1>1, <1>2, <1>3, <1>4, <1>5, <1>6 DEF Next, vars

(* Over every span of every window the store counts no more than was used, *)
(* so no request is refused for capacity that had been given back.         *)
THEOREM RefundsAreKept == Spec => []NeverOvercounts
<1>1. Init => NeverOvercounts
  BY DEF Init, NeverOvercounts
<1> QED BY <1>1, ShapeHolds, CountsStep, PTL DEF Spec

-----------------------------------------------------------------------------
(* Concurrency, also for requests that outlive their leases.               *)

(* What an admitted request still has of each of its leases.               *)
Covered ==
  \A r \in Reservations :
    UnderWay(r) \/ res[r].phase = "acquiring" =>
      \A i \in Held(r) : lease[Leases[r][i]][r] >= LeaseTtl - res[r].age

LeasesBounded == \A k \in LeaseKeys : Cardinality(Holders(k)) <= LeaseLimit[k]

LEMMA HoldersFinite ==
  ASSUME NEW k \in LeaseKeys
  PROVE  /\ IsFiniteSet(Holders(k)) /\ Cardinality(Holders(k)) \in Nat
         /\ LeaseLimit[k] \in Nat /\ LeaseLimit[k] >= 1
<1>1. IsFiniteSet(Reservations) /\ LeaseLimit[k] \in Nat \ {0}
  BY QuotaAssumption
<1>2. Holders(k) \subseteq Reservations
  BY DEF Holders
<1>3. IsFiniteSet(Holders(k))
  BY <1>1, <1>2, FS_Subset
<1> QED BY <1>1, <1>3, FS_CardinalityType

(* Fewer holders stay within the limit.                                    *)
LEMMA FewerHolders ==
  ASSUME LeasesBounded, NEW k \in LeaseKeys, Holders(k)' \subseteq Holders(k)
  PROVE  Cardinality(Holders(k)') <= LeaseLimit[k]
<1>1. /\ Cardinality(Holders(k)') <= Cardinality(Holders(k))
      /\ IsFiniteSet(Holders(k)')
  BY HoldersFinite, FS_Subset
<1>2. Cardinality(Holders(k)') \in Nat
  BY <1>1, FS_CardinalityType
<1> QED BY <1>1, <1>2, HoldersFinite DEF LeasesBounded

LEMMA BoundStep == Shape /\ LeasesBounded /\ [Next]_vars => LeasesBounded'
<1> SUFFICES ASSUME Shape, LeasesBounded, [Next]_vars, NEW k \in LeaseKeys
             PROVE  Cardinality(Holders(k)') <= LeaseLimit[k]
  BY DEF LeasesBounded
<1>1. ASSUME NEW r \in Reservations, AcquireLease(r)
      PROVE  Cardinality(Holders(k)') <= LeaseLimit[k]
  <2> DEFINE key == Leases[r][res[r].next]
  <2>1. key \in LeaseKeys
    BY <1>1, Paths DEF AcquireLease, Shape, PlacedAt, TypeOK, Reservation
  <2>2. CASE HasRoom(key) /\ k = key
    <3>1. lease' = [lease EXCEPT ![key][r] = LeaseTtl]
      BY <1>1, <2>2 DEF AcquireLease
    <3>2. Holders(k)' = Holders(k) \cup {r}
      BY <2>1, <2>2, <3>1, Numbers DEF Holders, Live, Shape, TypeOK
    <3>3. Cardinality(Holders(k)) < LeaseLimit[k]
      BY <2>2 DEF HasRoom
    <3>4. /\ Cardinality(Holders(k) \cup {r}) \in {Cardinality(Holders(k)), Cardinality(Holders(k)) + 1}
      BY HoldersFinite, FS_AddElement
    <3> QED BY <3>2, <3>3, <3>4, HoldersFinite
  <2>3. CASE ~HasRoom(key) \/ k # key
    <3>1. lease'[k] = lease[k]
      BY <1>1, <2>1, <2>3 DEF AcquireLease, Shape, TypeOK
    <3>2. Holders(k)' = Holders(k)
      BY <3>1 DEF Holders, Live
    <3> QED BY <3>2, FewerHolders
  <2> QED BY <2>2, <2>3
<1>2. ASSUME NEW r \in Reservations, ReleaseLease(r)
      PROVE  Cardinality(Holders(k)') <= LeaseLimit[k]
  <2>1. Holders(k)' \subseteq Holders(k)
    BY <1>2 DEF ReleaseLease, Holders, Live, Shape, TypeOK
  <2> QED BY <2>1, FewerHolders
<1>3. ASSUME NEW r \in Reservations, Heartbeat(r)
      PROVE  Cardinality(Holders(k)') <= LeaseLimit[k]
  <2>1. Holders(k)' \subseteq Holders(k)
    BY <1>3 DEF Heartbeat, Holders, Live, Shape, TypeOK
  <2> QED BY <2>1, FewerHolders
<1>4. CASE Tick
  <2>1. Holders(k)' \subseteq Holders(k)
    BY <1>4, Numbers DEF Tick, Holders, Live, NonNeg, Shape, TypeOK
  <2> QED BY <2>1, FewerHolders
<1>5. CASE UNCHANGED lease
  <2>1. Holders(k)' \subseteq Holders(k)
    BY <1>5 DEF Holders, Live
  <2> QED BY <2>1, FewerHolders
<1>6. ASSUME NEW r \in Reservations,
             \/ \E t \in Estimates : Request(r, t)
             \/ \E a \in Actuals : Finalize(r, a)
             \/ CheckAndReserve(r) \/ Reconcile(r) \/ Reconciled(r) \/ Cancel(r)
      PROVE  UNCHANGED lease
  BY <1>6 DEF Request, Finalize, CheckAndReserve, Reconcile, Reconciled, Cancel
<1> QED BY <1>1, <1>2, <1>3, <1>4, <1>5, <1>6 DEF Next, vars

(* What is held in each phase the lemma below is about.                    *)
LEMMA HeldSpans ==
  ASSUME NEW r \in Reservations
  PROVE  /\ res[r].phase = "acquiring" => Held(r) = 1..(res[r].next - 1)
         /\ UnderWay(r) => Held(r) = 1..Len(Leases[r])
  BY DEF Held, UnderWay

(* A reservation that gives its leases back is no longer under way.        *)
LEMMA ReleasingEnds ==
  ASSUME Shape, NEW r \in Reservations, NEW n
  PROVE  Releasing(r, n).phase \in {"idle", "releasing"}
  BY DEF Releasing, Idle, Shape, TypeOK, Reservation

LEMMA DeniedEnds ==
  ASSUME Shape, NEW r \in Reservations
  PROVE  Denied(r).phase \in {"idle", "releasing"}
  BY ReleasingEnds DEF Denied

(* No step uncovers an admitted request before its leases are due.         *)
LEMMA CoveredStep == Shape /\ Covered /\ [Next]_vars => Covered'
<1> SUFFICES ASSUME Shape, Covered, [Next]_vars,
                    NEW q \in Reservations, (UnderWay(q) \/ res[q].phase = "acquiring")',
                    NEW i \in Held(q)'
             PROVE  lease'[Leases[q][i]][q] >= LeaseTtl - res'[q].age
  BY DEF Covered
<1> DEFINE Good == lease'[Leases[q][i]][q] >= LeaseTtl - res'[q].age
<1>0. /\ res[q] \in Reservation /\ res'[q] \in Reservation
      /\ res[q].age \in Nat /\ res[q].age <= MaxRun /\ res[q].next \in Nat
      /\ res'[q].age \in Nat /\ res'[q].next \in Nat
      /\ LeaseTtl \in Nat /\ LeaseTtl > 0 /\ MaxRun \in Nat /\ Len(Leases[q]) \in Nat
  BY ShapeStep, Numbers, Paths DEF Shape, TypeOK, Reservation
<1>1. /\ res'[q].phase = "acquiring" => i \in 1..(res'[q].next - 1)
      /\ res'[q].phase \in {"active", "reconciling"} => i \in 1..Len(Leases[q])
  BY DEF Held, UnderWay
<1>2. i \in 1..Len(Leases[q]) /\ Leases[q][i] \in LeaseKeys
  <2>1. res'[q].phase = "acquiring" => res'[q].next \in 1..(Len(Leases[q]) + 1)
    BY ShapeStep DEF Shape, PlacedAt
  <2> QED BY <1>0, <1>1, <2>1, Paths DEF UnderWay
(* Whatever was covered stays so if nothing of it changes.                 *)
<1>3. ASSUME lease'[Leases[q][i]][q] = lease[Leases[q][i]][q], res'[q].age = res[q].age,
             i \in Held(q), UnderWay(q) \/ res[q].phase = "acquiring"
      PROVE  Good
  BY <1>3 DEF Covered
<1>4. ASSUME res'[q] = res[q], lease'[Leases[q][i]][q] = lease[Leases[q][i]][q]
      PROVE  Good
  <2>1. Held(q)' = Held(q) /\ (UnderWay(q) \/ res[q].phase = "acquiring")
    BY <1>4 DEF Held, UnderWay
  <2> QED BY <1>3, <1>4, <2>1
<1> HIDE DEF Good
<1>5. ASSUME NEW r \in Reservations, NEW t \in Estimates, Request(r, t) PROVE Good
  <2>1. CASE r = q
    <3>1. res'[q].phase = "acquiring" /\ res'[q].next = 1
      BY <1>5, <2>1 DEF Request, Shape, TypeOK
    <3> QED BY <1>1, <3>1
  <2> QED BY <1>4, <1>5, <2>1 DEF Request, Shape, TypeOK
<1>6. ASSUME NEW r \in Reservations, NEW a \in Actuals, Finalize(r, a) PROVE Good
  <2>1. CASE r = q
    <3>1. /\ UnderWay(q) /\ Held(q) = 1..Len(Leases[q])
          /\ res'[q].age = res[q].age /\ lease' = lease
      BY <1>6, <2>1, HeldSpans DEF Finalize, UnderWay, Shape, TypeOK, Reservation
    <3> QED BY <1>2, <1>3, <3>1
  <2> QED BY <1>4, <1>6, <2>1 DEF Finalize, Shape, TypeOK
<1>7. ASSUME NEW r \in Reservations, AcquireLease(r) PROVE Good
  <2> DEFINE key == Leases[r][res[r].next]
  <2>1. key \in LeaseKeys /\ res[r].next \in 1..Len(Leases[r])
    BY <1>7, Paths DEF AcquireLease, Shape, PlacedAt, TypeOK, Reservation
  <2>2. CASE r # q
    <3>1. /\ \/ res' = [res EXCEPT ![r].next = @ + 1]
             \/ res' = [res EXCEPT ![r] = Denied(r)]
          /\ lease' = lease \/ lease' = [lease EXCEPT ![key][r] = LeaseTtl]
      BY <1>7 DEF AcquireLease
    <3>2. res'[q] = res[q]
      BY <2>2, <3>1 DEF Shape, TypeOK
    <3>3. lease'[Leases[q][i]][q] = lease[Leases[q][i]][q]
      <4>1. CASE lease' = lease
        BY <4>1
      <4>2. CASE lease' = [lease EXCEPT ![key][r] = LeaseTtl]
        <5> HIDE DEF key
        <5> QED BY <1>2, <2>1, <2>2, <4>2 DEF Shape, TypeOK
      <4> QED BY <3>1, <4>1, <4>2
    <3> QED BY <1>4, <3>2, <3>3
  <2>3. CASE r = q /\ HasRoom(key)
    <3>1. /\ lease' = [lease EXCEPT ![key][q] = LeaseTtl]
          /\ res' = [res EXCEPT ![q].next = @ + 1]
          /\ res[q].phase = "acquiring" /\ res[q].age = 0
      BY <1>7, <2>3 DEF AcquireLease, Shape, PlacedAt
    <3>2. res'[q].phase = "acquiring" /\ res'[q].next = res[q].next + 1 /\ res'[q].age = 0
      BY <3>1, <1>0, NextField DEF Shape, TypeOK
    <3>3. CASE i = res[q].next
      <4>1. lease'[Leases[q][i]][q] = LeaseTtl
        BY <1>2, <2>3, <3>1, <3>3 DEF Shape, TypeOK
      <4> QED BY <1>0, <3>2, <4>1 DEF Good
    <3>4. CASE i # res[q].next
      <4>1. i \in 1..(res[q].next - 1)
        BY <1>0, <1>1, <3>2, <3>4
      <4>2. lease[Leases[q][i]][q] >= LeaseTtl - res[q].age
        BY <3>1, <4>1, HeldSpans DEF Covered
      <4>3. lease'[Leases[q][i]][q] \in {lease[Leases[q][i]][q], LeaseTtl}
        BY <1>2, <2>1, <2>3, <3>1 DEF Shape, TypeOK
      <4> QED BY <1>0, <3>1, <3>2, <4>2, <4>3 DEF Good
    <3> QED BY <3>3, <3>4
  <2>4. CASE r = q /\ ~HasRoom(key)
    <3>1. res'[q] = Denied(q)
      BY <1>7, <2>4 DEF AcquireLease, Shape, TypeOK
    <3> QED BY <3>1, DeniedEnds DEF UnderWay
  <2> QED BY <2>2, <2>3, <2>4
<1>8. ASSUME NEW r \in Reservations, CheckAndReserve(r) PROVE Good
  <2>1. CASE r = q /\ res' = [res EXCEPT ![q].phase = "active"]
    <3>1. /\ res[q].phase = "acquiring" /\ res[q].next = Len(Leases[q]) + 1 /\ lease' = lease
      BY <1>0, <1>8, <2>1 DEF CheckAndReserve, Shape, PlacedAt
    <3>2. Held(q) = 1..Len(Leases[q])
      BY <1>0, <3>1, HeldSpans
    <3>3. res'[q].age = res[q].age
      BY <2>1, PhaseField DEF Shape, TypeOK
    <3> QED BY <1>2, <1>3, <3>1, <3>2, <3>3
  <2>2. CASE r = q /\ res' = [res EXCEPT ![q] = Denied(q)]
    <3>1. res'[q] = Denied(q)
      BY <2>2 DEF Shape, TypeOK
    <3> QED BY <3>1, DeniedEnds DEF UnderWay
  <2>3. CASE r # q
    <3>1. res'[q] = res[q] /\ lease' = lease
      BY <1>8, <2>3 DEF CheckAndReserve, Shape, TypeOK
    <3> QED BY <1>4, <3>1
  <2>4. r = q => \/ res' = [res EXCEPT ![q].phase = "active"]
                 \/ res' = [res EXCEPT ![q] = Denied(q)]
    BY <1>8 DEF CheckAndReserve
  <2> QED BY <2>1, <2>2, <2>3, <2>4
<1>9. ASSUME NEW r \in Reservations, Reconcile(r) PROVE Good
  <2>1. res' = [res EXCEPT ![r].next = @ + 1] /\ lease' = lease /\ res[r].phase = "reconciling"
    BY <1>9 DEF Reconcile
  <2>2. CASE r = q
    <3>1. UnderWay(q) /\ Held(q) = 1..Len(Leases[q]) /\ res'[q].age = res[q].age
      BY <1>0, <2>1, <2>2, HeldSpans, NextField DEF UnderWay, Shape, TypeOK
    <3> QED BY <1>2, <1>3, <2>1, <3>1
  <2>3. CASE r # q
    BY <1>4, <2>1, <2>3 DEF Shape, TypeOK
  <2> QED BY <2>2, <2>3
<1>10. ASSUME NEW r \in Reservations, Reconciled(r) \/ Cancel(r) PROVE Good
  <2>1. res' = [res EXCEPT ![r] = Releasing(r, Len(Leases[r]))] /\ lease' = lease
    BY <1>10 DEF Reconciled, Cancel
  <2>2. CASE r = q
    <3>1. res'[q] = Releasing(q, Len(Leases[q]))
      BY <2>1, <2>2 DEF Shape, TypeOK
    <3> QED BY <3>1, ReleasingEnds DEF UnderWay
  <2>3. CASE r # q
    BY <1>4, <2>1, <2>3 DEF Shape, TypeOK
  <2> QED BY <2>2, <2>3
<1>11. ASSUME NEW r \in Reservations, ReleaseLease(r) PROVE Good
  <2>1. CASE r = q
    <3>1. res'[q].phase \in {"idle", "releasing"}
      BY <1>11, <2>1, <1>0, NextField DEF ReleaseLease, Idle, Shape, TypeOK
    <3> QED BY <3>1 DEF UnderWay
  <2>2. CASE r # q
    <3>1. res'[q] = res[q] /\ lease'[Leases[q][i]][q] = lease[Leases[q][i]][q]
      BY <1>2, <1>11, <2>2 DEF ReleaseLease, Shape, TypeOK
    <3> QED BY <1>4, <3>1
  <2> QED BY <2>1, <2>2
<1>12. ASSUME NEW r \in Reservations, Heartbeat(r) PROVE Good
  <2>1. /\ res' = res
        /\ UnderWay(q) \/ res[q].phase = "acquiring"
        /\ i \in Held(q)
    BY <1>12 DEF Heartbeat, Held, UnderWay
  <2>2. lease[Leases[q][i]][q] >= LeaseTtl - res[q].age /\ lease[Leases[q][i]][q] \in 0..LeaseTtl
    BY <1>2, <2>1 DEF Covered, Shape, TypeOK
  <2>3. lease'[Leases[q][i]][q] \in {lease[Leases[q][i]][q], LeaseTtl}
    BY <1>0, <1>2, <1>12, <2>2 DEF Heartbeat, Live, Shape, TypeOK
  <2> QED BY <1>0, <2>1, <2>2, <2>3 DEF Good
<1>13. ASSUME Tick PROVE Good
  <2>1. res[q].phase = "active" /\ res[q].age < MaxRun
    BY <1>13 DEF Tick, UnderWay
  <2>2. lease[Leases[q][i]][q] >= LeaseTtl - res[q].age /\ lease[Leases[q][i]][q] \in 0..LeaseTtl
    BY <1>2, <2>1, HeldSpans DEF Covered, UnderWay, Shape, TypeOK
  <2>3. res'[q].age = res[q].age + 1
    BY <1>13, <2>1 DEF Tick, Shape, TypeOK, Reservation
  <2>4. lease'[Leases[q][i]][q] = NonNeg(lease[Leases[q][i]][q] - 1)
    BY <1>2, <1>13 DEF Tick
  <2>5. ASSUME NEW was \in Nat, NEW age \in Nat, was >= LeaseTtl - age
        PROVE  NonNeg(was - 1) >= LeaseTtl - (age + 1)
    BY <1>0, <2>5 DEF NonNeg
  <2>6. lease[Leases[q][i]][q] \in Nat
    BY <1>0, <2>2
  <2> QED BY <1>0, <2>2, <2>3, <2>4, <2>5, <2>6 DEF Good
<1>14. ASSUME UNCHANGED vars PROVE Good
  BY <1>4, <1>14 DEF vars
<1> QED
  <2>1. Good
    BY <1>5, <1>6, <1>7, <1>8, <1>9, <1>10, <1>11, <1>12, <1>13, <1>14 DEF Next
  <2> QED BY <2>1 DEF Good

SpansBounded(k) ==
  \A t \in 0..MaxRun : Cardinality(RunningOfSpan(k, t)) <= LeaseLimit[k]

(* A subset of a bounded set of reservations is bounded.                   *)
LEMMA BoundedSubset ==
  ASSUME NEW k \in LeaseKeys, NEW S, IsFiniteSet(S), NEW T \in SUBSET S,
         Cardinality(S) <= LeaseLimit[k]
  PROVE  Cardinality(T) <= LeaseLimit[k]
<1>1. IsFiniteSet(T) /\ Cardinality(T) <= Cardinality(S)
  BY FS_Subset
<1>2. Cardinality(T) \in Nat /\ Cardinality(S) \in Nat
  BY <1>1, FS_CardinalityType
<1> QED BY <1>1, <1>2, HoldersFinite

(* A request admitted within the last lease's life holds a live lease of   *)
(* each of its keys.                                                       *)
LatestSpanHolds == \A k \in LeaseKeys : RunningOfSpan(k, 0) \subseteq Holders(k)

LEMMA CoveredHold == Shape /\ Covered => LatestSpanHolds
<1> SUFFICES ASSUME Shape, Covered, NEW k \in LeaseKeys, NEW r \in RunningOfSpan(k, 0)
             PROVE  r \in Holders(k)
  BY DEF LatestSpanHolds
<1>1. r \in Reservations /\ UnderWay(r) /\ Needs(r, k) /\ res[r].age - 0 \in 0..(LeaseTtl - 1)
  BY DEF RunningOfSpan
<1>2. PICK i \in DOMAIN Leases[r] : Leases[r][i] = k
  BY <1>1 DEF Needs
<1>3. i \in 1..Len(Leases[r])
  BY <1>1, <1>2, QuotaAssumption
<1>4. lease[k][r] >= LeaseTtl - res[r].age
  BY <1>1, <1>2, <1>3, HeldSpans DEF Covered
<1>5. lease[k][r] \in 0..LeaseTtl /\ res[r].age \in 0..MaxRun
  BY <1>1 DEF Shape, TypeOK, Reservation
<1> QED BY <1>1, <1>4, <1>5, Numbers DEF Holders, Live

(* A step admits requests of age zero only, and only a tick ages anybody.  *)
LEMMA AgesStep ==
  ASSUME Shape, [Next]_vars
  PROVE  \/ \A r \in Reservations : UnderWay(r)' /\ res'[r].age # 0
               => UnderWay(r) /\ res'[r].age = res[r].age
         \/ \A r \in Reservations : UnderWay(r)'
               => UnderWay(r) /\ res'[r].age = res[r].age + 1
<1>1. ASSUME Tick
      PROVE  \A r \in Reservations : UnderWay(r)'
               => UnderWay(r) /\ res'[r].age = res[r].age + 1
  BY <1>1 DEF Tick, UnderWay, Shape, TypeOK, Reservation
<1> DEFINE Kept(r) == UnderWay(r)' /\ res'[r].age # 0
                      => UnderWay(r) /\ res'[r].age = res[r].age
<1>2. ASSUME NEW q \in Reservations, NEW x, res' = [res EXCEPT ![q] = x],
             x.phase \in {"active", "reconciling"} /\ x.age # 0
             => UnderWay(q) /\ x.age = res[q].age
      PROVE  \A r \in Reservations : Kept(r)
  BY <1>2 DEF UnderWay, Shape, TypeOK
<1>3. ASSUME NEW q \in Reservations, NEW n
      PROVE  Releasing(q, n).phase \in {"idle", "releasing"}
  BY ReleasingEnds
<1>4. ASSUME NEW q \in Reservations, NEW t \in Estimates, Request(q, t)
      PROVE  \A r \in Reservations : Kept(r)
  BY <1>2, <1>4 DEF Request
<1>5. ASSUME NEW q \in Reservations, NEW a \in Actuals, Finalize(q, a)
      PROVE  \A r \in Reservations : Kept(r)
  BY <1>5 DEF Finalize, UnderWay, Shape, TypeOK, Reservation
<1>6. ASSUME NEW q \in Reservations, AcquireLease(q)
      PROVE  \A r \in Reservations : Kept(r)
  <2>1. CASE res' = [res EXCEPT ![q].next = @ + 1]
    BY <1>6, <2>1 DEF AcquireLease, UnderWay, Shape, TypeOK, Reservation
  <2>2. CASE res' = [res EXCEPT ![q] = Denied(q)]
    BY <1>2, <2>2, DeniedEnds
  <2> QED BY <1>6, <2>1, <2>2 DEF AcquireLease
<1>7. ASSUME NEW q \in Reservations, CheckAndReserve(q)
      PROVE  \A r \in Reservations : Kept(r)
  <2>1. res[q].age = 0
    BY <1>7 DEF CheckAndReserve, Shape, PlacedAt
  <2>2. CASE res' = [res EXCEPT ![q].phase = "active"]
    <3>1. res'[q].age = 0 /\ \A r \in Reservations \ {q} : res'[r] = res[r]
      BY <2>1, <2>2, PhaseField DEF Shape, TypeOK
    <3> QED BY <3>1 DEF UnderWay
  <2>3. CASE res' = [res EXCEPT ![q] = Denied(q)]
    BY <1>2, <2>3, DeniedEnds
  <2> QED BY <1>7, <2>2, <2>3 DEF CheckAndReserve
<1>8. ASSUME NEW q \in Reservations, Reconcile(q)
      PROVE  \A r \in Reservations : Kept(r)
  BY <1>8 DEF Reconcile, UnderWay, Shape, TypeOK, Reservation
<1>9. ASSUME NEW q \in Reservations, Reconciled(q) \/ Cancel(q)
      PROVE  \A r \in Reservations : Kept(r)
  BY <1>2, <1>3, <1>9 DEF Reconciled, Cancel
<1>10. ASSUME NEW q \in Reservations, ReleaseLease(q)
       PROVE  \A r \in Reservations : Kept(r)
  <2>1. res[q].phase = "releasing"
    BY <1>10 DEF ReleaseLease
  <2>2. /\ Idle.phase = "idle"
        /\ [res[q] EXCEPT !.next = @ + 1].phase = "releasing"
    BY <2>1, NextField DEF Idle, Shape, TypeOK
  <2> QED BY <1>2, <1>10, <2>2 DEF ReleaseLease
<1>11. ASSUME UNCHANGED res PROVE \A r \in Reservations : Kept(r)
  BY <1>11 DEF UnderWay
<1> QED
  BY <1>1, <1>4, <1>5, <1>6, <1>7, <1>8, <1>9, <1>10, <1>11 DEF Next, vars, Heartbeat

(* The requests of an older span were in it, or in the next younger one,   *)
(* before the step; those of the latest one hold leases.                   *)
LEMMA SpanStep ==
  ASSUME Shape, Shape', LatestSpanHolds', LeasesBounded', [Next]_vars,
         NEW k \in LeaseKeys, SpansBounded(k)
  PROVE  SpansBounded(k)'
<1> SUFFICES ASSUME NEW t \in 0..MaxRun
             PROVE  Cardinality(RunningOfSpan(k, t)') <= LeaseLimit[k]
  BY DEF SpansBounded, RunningOfSpan
<1>0. \A r \in Reservations : res[r].age \in Nat /\ res'[r].age \in Nat
  BY Numbers DEF Shape, TypeOK, Reservation
<1>1. CASE t = 0
  <2>1. RunningOfSpan(k, 0)' \subseteq Holders(k)'
    BY DEF LatestSpanHolds
  <2>2. IsFiniteSet(Holders(k)') /\ Cardinality(Holders(k)') <= LeaseLimit[k]
    BY QuotaAssumption, FS_Subset DEF Holders, LeasesBounded
  <2>3. Cardinality(RunningOfSpan(k, 0)') <= LeaseLimit[k]
    BY <2>1, <2>2, BoundedSubset
  <2> QED BY <1>1, <2>3 DEF RunningOfSpan
<1>2. CASE t # 0
  <2>1. \E s \in 0..MaxRun : RunningOfSpan(k, t)' \subseteq RunningOfSpan(k, s)
    <3>1. CASE \A r \in Reservations : UnderWay(r)' /\ res'[r].age # 0
                 => UnderWay(r) /\ res'[r].age = res[r].age
      <4>1. \A r \in RunningOfSpan(k, t)' : r \in RunningOfSpan(k, t)
        BY <1>0, <1>2, <3>1, Numbers DEF RunningOfSpan, Needs
      <4> QED BY <4>1
    <3>2. CASE \A r \in Reservations : UnderWay(r)'
                 => UnderWay(r) /\ res'[r].age = res[r].age + 1
      <4>1. t - 1 \in 0..MaxRun
        BY <1>2, Numbers
      <4>2. \A r \in RunningOfSpan(k, t)' : r \in RunningOfSpan(k, t - 1)
        BY <1>0, <3>2, Numbers DEF RunningOfSpan, Needs
      <4> QED BY <4>1, <4>2
    <3> QED BY <3>1, <3>2, AgesStep
  <2>2. PICK s \in 0..MaxRun : RunningOfSpan(k, t)' \subseteq RunningOfSpan(k, s)
    BY <2>1
  <2>3. IsFiniteSet(RunningOfSpan(k, s)) /\ Cardinality(RunningOfSpan(k, s)) <= LeaseLimit[k]
    BY QuotaAssumption, FS_Subset DEF RunningOfSpan, SpansBounded
  <2> QED BY <2>2, <2>3, BoundedSubset
<1> QED BY <1>1, <1>2

(* Of the requests admitted at a key within the life of one lease no more  *)
(* than its limit are under way, however long a request may run: leases    *)
(* bound the holders, they cover everybody admitted while they last, and   *)
(* those admitted together age together.                                   *)
THEOREM ConcurrencyHolds == Spec => []ConcurrencyRespected
<1> DEFINE Inv == \A k \in LeaseKeys : SpansBounded(k)
<1>1. Init => Covered /\ LeasesBounded /\ Inv
  <2>1. ASSUME Init PROVE Covered
    BY <2>1 DEF Init, Covered, UnderWay, Idle
  <2>2. ASSUME Init, NEW k \in LeaseKeys
        PROVE  Cardinality(Holders(k)) <= LeaseLimit[k] /\ SpansBounded(k)
    <3>1. Holders(k) = {} /\ \A t \in 0..MaxRun : RunningOfSpan(k, t) = {}
      BY <2>2 DEF Init, Holders, Live, RunningOfSpan, UnderWay, Idle
    <3> QED BY <3>1, HoldersFinite, FS_EmptySet DEF SpansBounded
  <2> QED BY <2>1, <2>2 DEF LeasesBounded
<1>2. Shape /\ Covered /\ [Next]_vars => Covered'
  BY CoveredStep
<1>3. Shape /\ Shape' /\ LatestSpanHolds' /\ LeasesBounded' /\ Inv /\ [Next]_vars => Inv'
  BY SpanStep
<1>4. Inv => ConcurrencyRespected
  BY DEF ConcurrencyRespected, SpansBounded
<1> QED BY <1>1, <1>2, <1>3, <1>4, ShapeHolds, BoundStep, CoveredHold, PTL DEF Spec
=============================================================================
