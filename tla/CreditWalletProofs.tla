-------------------------- MODULE CreditWalletProofs --------------------------
(***************************************************************************)
(* Proofs about CreditWallet, for every value of the constants: type       *)
(* correctness, charging at most once and the refinement of the billing    *)
(* contract, grants once per key, and the books: lots, budget, balance and *)
(* ledger replay follow the holds.  In order: sums over finite sets, one   *)
(* lemma per handler and variable group, then the theorems; each inductive *)
(* invariant (LotsInv, BalanceInv) stands before the lemmas that keep it.  *)
(* The last section is about WalletTransaction, where handlers interleave: *)
(* the books no outdated copy was stored over (TxInv), and the contract.   *)
(***************************************************************************)
EXTENDS CreditWallet, WalletTransaction, FiniteSetTheorems, TLAPS

(* Sums.                                                                   *)

(* A collection of subsets of a finite set has a least one.  Induction     *)
(* over finite sets below is reasoning about a least counterexample.       *)
LEMMA LeastSet ==
  ASSUME NEW S, IsFiniteSet(S), NEW G \in SUBSET SUBSET S, G # {}
  PROVE  \E T \in G : IsFiniteSet(T) /\ \A U \in G : U \subseteq T => U = T
<1> DEFINE R == StrictSubsetOrdering(S)
<1>1. IsWellFoundedOn(R, FiniteSubsetsOf(S)) /\ FiniteSubsetsOf(S) = SUBSET S
  BY FS_StrictSubsetOrderingWellFounded, FS_FiniteSubsetsOfFinite
<1> HIDE DEF R
<1>2. PICK T \in G : \A U \in G : ~(<<U, T>> \in R)
  BY <1>1, WFMin
<1>3. \A U \in G : U \subseteq T => U = T
  BY <1>2 DEF R, StrictSubsetOrdering
<1>4. IsFiniteSet(T)
  BY FS_Subset
<1> QED
  BY <1>3, <1>4

(* The recursion equation of the sum of f over the subsets of S.           *)
AnyOf(s) == CHOOSE x \in s : TRUE
Sums(h, f, S) ==
  h = [s \in SUBSET S |-> IF s = {} THEN 0 ELSE f[AnyOf(s)] + h[s \ {AnyOf(s)}]]

LEMMA SumUnfold ==
  ASSUME NEW f, NEW S
  PROVE  SumFunctionOnSet(f, S) = (CHOOSE h : Sums(h, f, S))[S]
BY DEF SumFunctionOnSet, FoldFunctionOnSet, MapThenFoldSet, Sums, AnyOf

LEMMA AnyOfIn == \A s : s # {} => AnyOf(s) \in s
BY DEF AnyOf

(* Two solutions agree on the sets both know.                              *)
LEMMA SumsAgree ==
  ASSUME NEW f, NEW S, IsFiniteSet(S), NEW T \in SUBSET S, NEW h, NEW k,
         Sums(h, f, S), Sums(k, f, T), NEW U \in SUBSET T
  PROVE  h[U] = k[U]
<1> DEFINE G == {V \in SUBSET T : h[V] # k[V]}
<1>1. SUFFICES ASSUME G # {} PROVE FALSE
  OBVIOUS
<1>2. IsFiniteSet(T)
  BY FS_Subset
<1>3. PICK V \in G : \A W \in G : W \subseteq V => W = V
  <2>1. G \in SUBSET SUBSET T
    OBVIOUS
  <2> HIDE DEF G
  <2> QED
    BY <1>1, <1>2, <2>1, LeastSet
<1>4. V # {}
  BY <1>3 DEF Sums
<1> DEFINE x == AnyOf(V)
<1>5. x \in V
  BY <1>4, AnyOfIn
<1>6. h[V] = f[x] + h[V \ {x}]
  BY <1>4 DEF Sums
<1>7. k[V] = f[x] + k[V \ {x}]
  BY <1>4 DEF Sums
<1>8. V \ {x} \notin G
  BY <1>3, <1>5
<1> QED
  BY <1>6, <1>7, <1>8

LEMMA SumsExist ==
  ASSUME NEW f, NEW S, IsFiniteSet(S)
  PROVE  \E h : Sums(h, f, S)
<1> DEFINE G == {T \in SUBSET S : ~\E h : Sums(h, f, T)}
<1>1. SUFFICES ASSUME G # {} PROVE FALSE
  OBVIOUS
<1>2. PICK T \in G : IsFiniteSet(T) /\ \A U \in G : U \subseteq T => U = T
  <2>1. G \in SUBSET SUBSET S
    OBVIOUS
  <2> HIDE DEF G
  <2> QED
    BY <1>1, <2>1, LeastSet
<1> DEFINE k(U) == CHOOSE h : Sums(h, f, U)
           x == AnyOf(T)
           h == [s \in SUBSET T |->
                   IF s = {} THEN 0
                   ELSE f[AnyOf(s)] + k(s \ {AnyOf(s)})[s \ {AnyOf(s)}]]
<1>3. \A U \in SUBSET T : U # T => Sums(k(U), f, U)
  <2> SUFFICES ASSUME NEW U \in SUBSET T, U # T
               PROVE  Sums(k(U), f, U)
    OBVIOUS
  <2>1. \E g : Sums(g, f, U)
    BY <1>2
  <2> QED
    BY <2>1
<1>4. \A U \in SUBSET T : U # T => h[U] = k(U)[U]
  <2> SUFFICES ASSUME NEW U \in SUBSET T, U # T
               PROVE  h[U] = k(U)[U]
    OBVIOUS
  <2>1. Sums(k(U), f, U)
    BY <1>3
  <2>2. CASE U = {}
    BY <2>1, <2>2 DEF Sums
  <2>3. CASE U # {}
    <3> DEFINE y == AnyOf(U)
               V == U \ {y}
    <3>1. y \in U
      BY <2>3, AnyOfIn
    <3>2. Sums(k(V), f, V) /\ IsFiniteSet(U)
      BY <1>2, <1>3, <3>1, FS_Subset
    <3>3. k(U)[V] = k(V)[V]
      BY <2>1, <3>2, SumsAgree
    <3>4. k(U)[U] = f[y] + k(U)[V]
      BY <2>1, <2>3 DEF Sums
    <3>5. h[U] = f[y] + k(V)[V]
      BY <2>3
    <3> QED
      BY <3>3, <3>4, <3>5
  <2> QED
    BY <2>2, <2>3
<1>5. \A s \in SUBSET T : s # {} => h[s \ {AnyOf(s)}] = k(s \ {AnyOf(s)})[s \ {AnyOf(s)}]
  <2> SUFFICES ASSUME NEW s \in SUBSET T, s # {}
               PROVE  h[s \ {AnyOf(s)}] = k(s \ {AnyOf(s)})[s \ {AnyOf(s)}]
    OBVIOUS
  <2>1. AnyOf(s) \in s
    BY AnyOfIn
  <2>2. s \ {AnyOf(s)} \in SUBSET T /\ s \ {AnyOf(s)} # T
    BY <2>1
  <2> HIDE DEF h, k
  <2> QED
    BY <1>4, <2>2
<1>6. Sums(h, f, T)
  <2>1. h = [s \in SUBSET T |-> IF s = {} THEN 0 ELSE f[AnyOf(s)] + h[s \ {AnyOf(s)}]]
    <3>1. \A s \in SUBSET T :
            h[s] = IF s = {} THEN 0 ELSE f[AnyOf(s)] + h[s \ {AnyOf(s)}]
      <4> SUFFICES ASSUME NEW s \in SUBSET T
                   PROVE  h[s] = IF s = {} THEN 0 ELSE f[AnyOf(s)] + h[s \ {AnyOf(s)}]
        OBVIOUS
      <4>1. h[s] = IF s = {} THEN 0
                   ELSE f[AnyOf(s)] + k(s \ {AnyOf(s)})[s \ {AnyOf(s)}]
        OBVIOUS
      <4>2. s # {} => h[s \ {AnyOf(s)}] = k(s \ {AnyOf(s)})[s \ {AnyOf(s)}]
        BY <1>5
      <4> HIDE DEF h, k
      <4> QED
        BY <4>1, <4>2
    <3> HIDE DEF k
    <3> QED
      BY <3>1
  <2> HIDE DEF h
  <2> QED
    BY <2>1 DEF Sums
<1> QED
  BY <1>2, <1>6

(* The sum of nothing is zero; that of a non-empty set is the value at one *)
(* of its elements plus the sum of the rest.                               *)
LEMMA SumDef ==
  ASSUME NEW f, NEW S, IsFiniteSet(S)
  PROVE  /\ S = {} => SumFunctionOnSet(f, S) = 0
         /\ S # {} => \E x \in S : SumFunctionOnSet(f, S) =
                                   f[x] + SumFunctionOnSet(f, S \ {x})
<1> DEFINE k(U) == CHOOSE h : Sums(h, f, U)
<1>1. \A U \in SUBSET S : Sums(k(U), f, U) /\ SumFunctionOnSet(f, U) = k(U)[U]
  BY SumsExist, SumUnfold, FS_Subset
<1> HIDE DEF k
<1>2. CASE S = {}
  <2>1. Sums(k(S), f, S) /\ SumFunctionOnSet(f, S) = k(S)[S]
    BY <1>1
  <2> QED
    BY <1>2, <2>1 DEF Sums
<1>3. CASE S # {}
  <2> DEFINE x == AnyOf(S)
  <2>1. x \in S
    BY <1>3, AnyOfIn
  <2>2. k(S)[S] = f[x] + k(S)[S \ {x}]
    <3>1. Sums(k(S), f, S)
      BY <1>1
    <3> QED
      BY <1>3, <3>1 DEF Sums
  <2>3. k(S)[S \ {x}] = k(S \ {x})[S \ {x}]
    BY <1>1, SumsAgree
  <2>4. SumFunctionOnSet(f, S) = f[x] + SumFunctionOnSet(f, S \ {x})
    BY <1>1, <2>2, <2>3
  <2> QED
    BY <1>3, <2>1, <2>4
<1> QED
  BY <1>2, <1>3

(* Sums of integers are integers.                                          *)
LEMMA SumInt ==
  ASSUME NEW f, NEW S, IsFiniteSet(S), \A x \in S : f[x] \in Int
  PROVE  SumFunctionOnSet(f, S) \in Int
<1> DEFINE G == {T \in SUBSET S : SumFunctionOnSet(f, T) \notin Int}
<1>1. SUFFICES ASSUME G # {} PROVE FALSE
  OBVIOUS
<1>2. PICK T \in G : IsFiniteSet(T) /\ \A U \in G : U \subseteq T => U = T
  <2>1. G \in SUBSET SUBSET S
    OBVIOUS
  <2> HIDE DEF G
  <2> QED
    BY <1>1, <2>1, LeastSet
<1>3. T # {}
  BY <1>2, SumDef
<1>4. PICK x \in T : SumFunctionOnSet(f, T) = f[x] + SumFunctionOnSet(f, T \ {x})
  BY <1>2, <1>3, SumDef
<1>5. SumFunctionOnSet(f, T \ {x}) \in Int
  BY <1>2, <1>4
<1> QED
  BY <1>2, <1>4, <1>5

(* Any element may be taken out first.                                     *)
LEMMA SumRemove ==
  ASSUME NEW f, NEW S, IsFiniteSet(S), \A y \in S : f[y] \in Int, NEW x \in S
  PROVE  SumFunctionOnSet(f, S) = f[x] + SumFunctionOnSet(f, S \ {x})
<1> DEFINE Sum(T) == SumFunctionOnSet(f, T)
           G == {T \in SUBSET S : \E y \in T : Sum(T) # f[y] + Sum(T \ {y})}
<1>1. SUFFICES ASSUME G # {} PROVE FALSE
  OBVIOUS
<1>2. PICK T \in G : IsFiniteSet(T) /\ \A U \in G : U \subseteq T => U = T
  <2>1. G \in SUBSET SUBSET S
    OBVIOUS
  <2> HIDE DEF G
  <2> QED
    BY <1>1, <2>1, LeastSet
<1>3. PICK y \in T : Sum(T) # f[y] + Sum(T \ {y})
  BY <1>2
<1>4. PICK c \in T : Sum(T) = f[c] + Sum(T \ {c})
  BY <1>2, <1>3, SumDef
<1>5. c # y
  BY <1>3, <1>4
<1>6. Sum(T \ {c}) = f[y] + Sum((T \ {c}) \ {y})
  <2>1. T \ {c} \notin G /\ y \in T \ {c}
    BY <1>2, <1>5
  <2> HIDE DEF Sum
  <2> QED
    BY <2>1
<1>7. Sum(T \ {y}) = f[c] + Sum((T \ {y}) \ {c})
  <2>1. T \ {y} \notin G /\ c \in T \ {y}
    BY <1>2, <1>5
  <2> HIDE DEF Sum
  <2> QED
    BY <2>1
<1>8. (T \ {c}) \ {y} = (T \ {y}) \ {c}
  OBVIOUS
<1>9. Sum((T \ {y}) \ {c}) \in Int
  <2>1. IsFiniteSet((T \ {y}) \ {c})
    BY <1>2, FS_Subset
  <2> QED
    BY <2>1, SumInt
<1>10. f[c] \in Int /\ f[y] \in Int
  OBVIOUS
<1> HIDE DEF Sum, G
<1> DEFINE z == Sum((T \ {y}) \ {c})
<1>11. f[c] + (f[y] + z) = f[y] + (f[c] + z)
  <2> HIDE DEF z
  <2> QED
    BY <1>9, <1>10 DEF z
<1> QED
  BY <1>3, <1>4, <1>6, <1>7, <1>8, <1>11, Zenon

(* Functions equal on a set have the same sum over it.                     *)
LEMMA SumSame ==
  ASSUME NEW f, NEW g, NEW S, IsFiniteSet(S),
         \A x \in S : f[x] \in Int /\ g[x] = f[x]
  PROVE  SumFunctionOnSet(g, S) = SumFunctionOnSet(f, S)
<1> DEFINE Sum(h, T) == SumFunctionOnSet(h, T)
           G == {T \in SUBSET S : Sum(g, T) # Sum(f, T)}
<1>1. SUFFICES ASSUME G # {} PROVE FALSE
  OBVIOUS
<1>2. PICK T \in G : IsFiniteSet(T) /\ \A U \in G : U \subseteq T => U = T
  <2>1. G \in SUBSET SUBSET S
    OBVIOUS
  <2> HIDE DEF G
  <2> QED
    BY <1>1, <2>1, LeastSet
<1>3. T # {}
  BY <1>2, SumDef
<1>4. PICK x \in T : Sum(g, T) = g[x] + Sum(g, T \ {x})
  BY <1>2, <1>3, SumDef
<1>5. Sum(f, T) = f[x] + Sum(f, T \ {x})
  BY <1>2, SumRemove
<1>6. Sum(g, T \ {x}) = Sum(f, T \ {x})
  BY <1>2, <1>4
<1> HIDE DEF Sum
<1> QED
  BY <1>2, <1>4, <1>5, <1>6

(* The sum of pointwise sums.                                              *)
LEMMA SumPlus ==
  ASSUME NEW f, NEW d, NEW g, NEW S, IsFiniteSet(S),
         \A x \in S : f[x] \in Int /\ d[x] \in Int /\ g[x] = f[x] + d[x]
  PROVE  SumFunctionOnSet(g, S) = SumFunctionOnSet(f, S) + SumFunctionOnSet(d, S)
<1> DEFINE Sum(h, T) == SumFunctionOnSet(h, T)
           G == {T \in SUBSET S : Sum(g, T) # Sum(f, T) + Sum(d, T)}
<1>1. SUFFICES ASSUME G # {} PROVE FALSE
  OBVIOUS
<1>2. PICK T \in G : IsFiniteSet(T) /\ \A U \in G : U \subseteq T => U = T
  <2>1. G \in SUBSET SUBSET S
    OBVIOUS
  <2> HIDE DEF G
  <2> QED
    BY <1>1, <2>1, LeastSet
<1>3. T # {}
  BY <1>2, SumDef
<1>4. PICK x \in T : Sum(g, T) = g[x] + Sum(g, T \ {x})
  BY <1>2, <1>3, SumDef
<1>5. Sum(f, T) = f[x] + Sum(f, T \ {x}) /\ Sum(d, T) = d[x] + Sum(d, T \ {x})
  BY <1>2, SumRemove
<1>6. Sum(g, T \ {x}) = Sum(f, T \ {x}) + Sum(d, T \ {x})
  <2>1. T \ {x} \notin G
    BY <1>2, <1>4
  <2> HIDE DEF Sum
  <2> QED
    BY <2>1
<1>7. Sum(f, T \ {x}) \in Int /\ Sum(d, T \ {x}) \in Int
  <2>1. IsFiniteSet(T \ {x})
    BY <1>2, FS_Subset
  <2> QED
    BY <2>1, SumInt
<1> HIDE DEF Sum
<1>8. f[x] \in Int /\ d[x] \in Int /\ g[x] = f[x] + d[x]
  OBVIOUS
<1>9. Sum(g, T) # Sum(f, T) + Sum(d, T)
  BY <1>2
<1> HIDE DEF G
<1> QED
  BY <1>4, <1>5, <1>6, <1>7, <1>8, <1>9

(* Natural numbers have a natural sum, and each is at most the sum.        *)
LEMMA SumNat ==
  ASSUME NEW f, NEW S, IsFiniteSet(S), \A x \in S : f[x] \in Nat
  PROVE  /\ SumFunctionOnSet(f, S) \in Nat
         /\ \A x \in S : f[x] <= SumFunctionOnSet(f, S)
<1> DEFINE Sum(T) == SumFunctionOnSet(f, T)
           G == {T \in SUBSET S : Sum(T) \notin Nat}
<1>1. G = {}
  <2> SUFFICES ASSUME G # {} PROVE FALSE
    OBVIOUS
  <2>1. PICK T \in G : IsFiniteSet(T) /\ \A U \in G : U \subseteq T => U = T
    <3>1. G \in SUBSET SUBSET S
      OBVIOUS
    <3> HIDE DEF G
    <3> QED
      BY <3>1, LeastSet
  <2>2. T # {}
    BY <2>1, SumDef
  <2>3. PICK x \in T : Sum(T) = f[x] + Sum(T \ {x})
    BY <2>1, <2>2, SumDef
  <2>4. Sum(T \ {x}) \in Nat
    BY <2>1, <2>3
  <2>5. f[x] \in Nat /\ Sum(T) \notin Nat
    OBVIOUS
  <2> HIDE DEF Sum, G
  <2> QED
    BY <2>3, <2>4, <2>5
<1>2. Sum(S) \in Nat
  BY <1>1
<1>3. ASSUME NEW x \in S PROVE f[x] <= Sum(S)
  <2>1. Sum(S) = f[x] + Sum(S \ {x})
    BY SumRemove
  <2>2. Sum(S \ {x}) \in Nat
    BY <1>1
  <2> HIDE DEF Sum, G
  <2> QED
    BY <2>1, <2>2
<1> QED
  BY <1>2, <1>3

(* A change at one point changes the sum by as much.                       *)
LEMMA SumChange ==
  ASSUME NEW f, NEW g, NEW S, IsFiniteSet(S), NEW x \in S, g[x] \in Int,
         \A y \in S : f[y] \in Int /\ (y # x => g[y] = f[y])
  PROVE  SumFunctionOnSet(g, S) = SumFunctionOnSet(f, S) + (g[x] - f[x])
<1> DEFINE R == S \ {x}
<1>1. IsFiniteSet(R)
  BY FS_Subset
<1>2. SumFunctionOnSet(g, R) = SumFunctionOnSet(f, R) /\ SumFunctionOnSet(f, R) \in Int
  BY <1>1, SumSame, SumInt
<1>3. SumFunctionOnSet(f, S) = f[x] + SumFunctionOnSet(f, R)
  BY SumRemove
<1>4. SumFunctionOnSet(g, S) = g[x] + SumFunctionOnSet(g, R)
  BY SumRemove
<1>5. f[x] \in Int
  OBVIOUS
<1> HIDE DEF R
<1> QED
  BY <1>2, <1>3, <1>4, <1>5
-----------------------------------------------------------------------------
(* The clamp yields a natural number.                                      *)
LEMMA NonNegNat == \A x \in Int : NonNeg(x) \in Nat
BY DEF NonNeg

LEMMA SpreadType ==
  ASSUME NEW amount \in Nat, NEW cap, NEW a \in Spread(amount, cap)
  PROVE  a \in [LotId -> Nat]
BY DEF Spread

LEMMA ReplayType ==
  ASSUME NEW p \in Totals, NEW e, e.amount \in Nat
  PROVE  Replay(p, e) \in Totals
<1>1. \A plus, minus : Delta(e, plus, minus) \in Int
  BY DEF Delta
<1> QED
  BY <1>1 DEF Replay, Totals

LEMMA EntryType ==
  ASSUME NEW type \in EntryTypes, NEW amount \in Nat, NEW ref \in RefIds, NEW seq \in Nat
  PROVE  /\ Entry(type, amount, ref, seq) \in Entries
         /\ Entry(type, amount, ref, seq).entryType = type
         /\ Entry(type, amount, ref, seq).amount = amount
         /\ Entry(type, amount, ref, seq).referenceId = ref
BY DEF Entry, Entries

LEMMA PostType ==
  ASSUME TypeOK, NEW type \in EntryTypes, NEW amount \in Nat, NEW ref \in RefIds,
         NEW seq \in Nat, Post(Entry(type, amount, ref, seq))
  PROVE  ledger' \in Seq(Entries) /\ projected' \in Totals
<1> DEFINE e == Entry(type, amount, ref, seq)
<1>1. e \in Entries /\ e.amount \in Nat
  BY EntryType
<1>2. ledger \in Seq(Entries) /\ projected \in Totals
  BY DEF TypeOK
<1>3. ledger' = Append(ledger, e) /\ projected' = Replay(projected, e)
  BY DEF Post
<1> HIDE DEF e
<1>4. ledger' \in Seq(Entries)
  BY <1>1, <1>2, <1>3
<1>5. projected' \in Totals
  BY <1>1, <1>2, <1>3, ReplayType
<1> QED
  BY <1>4, <1>5

LEMMA SaveBalanceType ==
  ASSUME TypeOK, NEW available \in Nat, NEW reserved \in Int, NEW total \in Int,
         SaveBalance(available, reserved, total)
  PROVE  balance' \in Balances
<1>1. balance.version \in Nat
  BY DEF TypeOK, Balances
<1>2. NonNeg(reserved) \in Nat /\ NonNeg(total) \in Nat
  BY NonNegNat
<1>3. balance' = [available |-> available, reserved |-> NonNeg(reserved),
                  total |-> NonNeg(total), version |-> balance.version + 1]
  BY DEF SaveBalance
<1> QED
  BY <1>1, <1>2, <1>3 DEF Balances

(* The parts of the balance.                                               *)
LEMMA BalanceType ==
  ASSUME TypeOK
  PROVE  /\ balance.available \in Nat /\ balance.available \in Int
         /\ balance.reserved \in Nat /\ balance.reserved \in Int
         /\ balance.total \in Int /\ NextSequence \in Nat /\ NextSequence + 1 \in Nat
BY DEF TypeOK, Balances, NextSequence

LEMMA IssueLotType ==
  ASSUME TypeOK, NEW amount \in Nat, NEW priority \in 0..5, NEW expiry \in 0..Never,
         IssueLot(amount, priority, expiry)
  PROVE  lots' \in [LotId -> Lot]
BY DEF IssueLot, TypeOK, Lot

LEMMA BudgetType ==
  ASSUME TypeOK, NEW spent \in Int, NEW reserved \in Int, ChangeBudget(spent, reserved)
  PROVE  budget' \in Budget \cup {NoBudget}
<1>1. CASE budget = NoBudget
  BY <1>1 DEF ChangeBudget
<1>2. CASE budget # NoBudget
  <2>1. budget \in Budget
    BY <1>2 DEF TypeOK
  <2>2. budget' = [budget EXCEPT !.spent = budget.spent + spent,
                                 !.reserved = budget.reserved + reserved]
    BY <1>2 DEF ChangeBudget
  <2>3. budget.spent + spent \in Int /\ budget.reserved + reserved \in Int
    BY <2>1 DEF Budget
  <2>4. \A x, y \in Int : [budget EXCEPT !.spent = x, !.reserved = y] \in Budget
    BY <2>1 DEF Budget
  <2> QED
    BY <2>2, <2>3, <2>4
<1> QED
  BY <1>1, <1>2

(* Changing what is reserved in and what remains of a lot keeps it a lot.  *)
LEMMA LotType ==
  ASSUME TypeOK, NEW l \in LotId
  PROVE  /\ lots[l] \in Lot
         /\ lots[l].reserved \in Int /\ lots[l].remaining \in Int
         /\ \A x \in Int : [lots[l] EXCEPT !.reserved = x] \in Lot
         /\ \A x \in Int : [lots[l] EXCEPT !.remaining = x] \in Lot
         /\ \A x, y \in Int :
              [lots[l] EXCEPT !.reserved = x, !.remaining = y] \in Lot
<1>1. lots[l] \in Lot
  BY DEF TypeOK
<1>2. lots[l].reserved \in Int /\ lots[l].remaining \in Int
  BY <1>1 DEF Lot
<1>3. \A x \in Int : [lots[l] EXCEPT !.reserved = x] \in Lot
  BY <1>1 DEF Lot
<1>4. \A x \in Int : [lots[l] EXCEPT !.remaining = x] \in Lot
  BY <1>1 DEF Lot
<1>5. \A x, y \in Int : [lots[l] EXCEPT !.reserved = x, !.remaining = y] \in Lot
  BY <1>1 DEF Lot
<1> QED
  BY <1>1, <1>2, <1>3, <1>4, <1>5

(* Moving d[l] in or out of the hold on each lot l, and spending c[l].     *)
LEMMA LotsType ==
  ASSUME TypeOK, NEW d \in [LotId -> Nat], NEW c \in [LotId -> Nat]
  PROVE  /\ [l \in LotId |-> [lots[l] EXCEPT !.reserved = @ + d[l]]] \in [LotId -> Lot]
         /\ [l \in LotId |-> [lots[l] EXCEPT !.reserved = @ - d[l]]] \in [LotId -> Lot]
         /\ [l \in LotId |-> [lots[l] EXCEPT !.reserved = @ - d[l],
                                              !.remaining = @ - c[l]]] \in [LotId -> Lot]
<1> SUFFICES ASSUME NEW l \in LotId
             PROVE  /\ [lots[l] EXCEPT !.reserved = @ + d[l]] \in Lot
                    /\ [lots[l] EXCEPT !.reserved = @ - d[l]] \in Lot
                    /\ [lots[l] EXCEPT !.reserved = @ - d[l],
                                       !.remaining = @ - c[l]] \in Lot
  OBVIOUS
<1>1. lots[l].reserved \in Int /\ lots[l].remaining \in Int
  BY LotType
<1>2. /\ lots[l].reserved + d[l] \in Int
      /\ lots[l].reserved - d[l] \in Int
      /\ lots[l].remaining - c[l] \in Int
  BY <1>1
<1> QED
  BY <1>2, LotType, Zenon

(* The parts of a reservation.                                             *)
LEMMA ReservationType ==
  ASSUME TypeOK, NEW r \in Requests
  PROVE  /\ res[r] \in Reservation
         /\ res[r].amount \in Nat
         /\ res[r].alloc \in [LotId -> Nat]
         /\ \A s \in {"settled", "released"} :
              [res EXCEPT ![r].status = s] \in [Requests -> Reservation]
<1>1. res[r] \in Reservation /\ res \in [Requests -> Reservation]
  BY DEF TypeOK
<1>2. \A s \in {"settled", "released"} : [res[r] EXCEPT !.status = s] \in Reservation
  BY <1>1 DEF Reservation
<1>3. res[r].amount \in Nat /\ res[r].alloc \in [LotId -> Nat]
  BY <1>1 DEF Reservation
<1> QED
  BY <1>1, <1>2, <1>3
-----------------------------------------------------------------------------
(* Type correctness of the wallet, one lemma per handler that moves money. *)

LEMMA GrantType ==
  ASSUME TypeOK, NEW key \in Keys, NEW amount \in GrantAmounts,
         NEW priority \in LotPriorities, NEW expiry \in Expiries,
         GrantCredits(key, amount, priority, expiry)
  PROVE  TypeOK'
<1>1. amount \in Nat /\ priority \in 0..5 /\ expiry \in 0..Never
  BY WalletAssumption DEF Never
<1>2. lots' \in [LotId -> Lot]
  BY <1>1, IssueLotType DEF GrantCredits
<1>3. balance' \in Balances
  <2>1. balance.available + amount \in Nat /\ balance.total + amount \in Int
    BY <1>1, BalanceType
  <2> QED
    BY <2>1, BalanceType, SaveBalanceType, Zenon DEF GrantCredits
<1>4. ledger' \in Seq(Entries) /\ projected' \in Totals
  BY <1>1, BalanceType, PostType DEF GrantCredits, EntryTypes, RefIds
<1> QED
  BY <1>2, <1>3, <1>4 DEF TypeOK, GrantCredits

LEMMA AuthorizeType ==
  ASSUME TypeOK, NEW r \in Requests, NEW est \in Estimates, AuthorizeBilling(r, est)
  PROVE  TypeOK'
<1>1. est \in Nat
  BY WalletAssumption
<1>2. PICK a \in Spread(est, Allocatable) :
        /\ lots' = [l \in LotId |-> [lots[l] EXCEPT !.reserved = @ + a[l]]]
        /\ res' = [res EXCEPT ![r] = [status |-> "active", amount |-> est,
                                      createdAt |-> now, alloc |-> a]]
  BY DEF AuthorizeBilling
<1>3. a \in [LotId -> Nat]
  BY <1>1, <1>2, SpreadType
<1>4. lots' \in [LotId -> Lot]
  BY <1>2, <1>3, LotsType
<1>5. res' \in [Requests -> Reservation]
  <2>1. now \in Nat
    BY WalletAssumption DEF TypeOK
  <2>2. [status |-> "active", amount |-> est, createdAt |-> now, alloc |-> a]
          \in Reservation
    BY <1>1, <1>3, <2>1 DEF Reservation
  <2> QED
    BY <1>2, <2>2 DEF TypeOK
<1>6. balance' \in Balances
  <2>1. NonNeg(balance.available - est) \in Nat /\ balance.reserved + est \in Int
    BY <1>1, BalanceType, NonNegNat
  <2> QED
    BY <2>1, BalanceType, SaveBalanceType, Zenon DEF AuthorizeBilling
<1>7. budget' \in Budget \cup {NoBudget}
  <2>1. 0 \in Int /\ est \in Int
    BY <1>1
  <2> QED
    BY <2>1, BudgetType, Zenon DEF AuthorizeBilling
<1>8. ledger' \in Seq(Entries) /\ projected' \in Totals
  BY <1>1, BalanceType, PostType DEF AuthorizeBilling, EntryTypes, RefIds
<1> QED
  BY <1>4, <1>5, <1>6, <1>7, <1>8 DEF TypeOK, AuthorizeBilling

LEMMA SettleWithinType ==
  ASSUME TypeOK, NEW r \in Requests, NEW price \in FinalPrices, SettleWithin(r, price)
  PROVE  TypeOK'
<1> DEFINE held == res[r].amount
           freed == held - price
           post == Entry("usage_settlement", price, r, NextSequence)
           release == Entry("reservation_release", freed, r, NextSequence + 1)
<1>1. price \in Nat /\ held \in Nat /\ freed \in Nat /\ price <= held
  <2>1. price \in Nat
    BY WalletAssumption
  <2>2. held \in Nat
    BY ReservationType
  <2>3. price <= held
    BY DEF SettleWithin
  <2> QED
    BY <2>1, <2>2, <2>3
<1>2. lots' \in [LotId -> Lot]
  <2>1. PICK c \in Spread(price, res[r].alloc) :
          lots' = [l \in LotId |-> [lots[l] EXCEPT
                     !.reserved = @ - res[r].alloc[l], !.remaining = @ - c[l]]]
    BY DEF SettleWithin
  <2>2. c \in [LotId -> Nat] /\ res[r].alloc \in [LotId -> Nat]
    BY <1>1, <2>1, SpreadType, ReservationType
  <2> QED
    BY <2>1, <2>2, LotsType
<1>3. balance' \in Balances
  <2>1. /\ balance.available + freed \in Nat /\ balance.reserved - held \in Int
        /\ balance.total - price \in Int
    BY <1>1, BalanceType
  <2>2. SaveBalance(balance.available + freed, balance.reserved - held,
                    balance.total - price)
    BY DEF SettleWithin
  <2> QED
    BY <2>1, <2>2, SaveBalanceType, Zenon
<1>4. budget' \in Budget \cup {NoBudget}
  <2>1. price \in Int /\ -held \in Int
    BY <1>1
  <2>2. ChangeBudget(price, -held)
    BY DEF SettleWithin
  <2> QED
    BY <2>1, <2>2, BudgetType, Zenon
<1>5. /\ post \in Entries /\ post.amount \in Nat
      /\ release \in Entries /\ release.amount \in Nat
  <2>1. /\ "usage_settlement" \in EntryTypes /\ "reservation_release" \in EntryTypes
        /\ r \in RefIds
    BY DEF EntryTypes, RefIds
  <2>2. NextSequence \in Nat /\ NextSequence + 1 \in Nat
    BY BalanceType
  <2>3. post \in Entries /\ post.amount = price
    BY <1>1, <2>1, <2>2, EntryType
  <2>4. release \in Entries /\ release.amount = freed
    BY <1>1, <2>1, <2>2, EntryType
  <2> QED
    BY <1>1, <2>3, <2>4
<1>6. ledger' \in Seq(Entries) /\ projected' \in Totals
  <2>1. ledger \in Seq(Entries) /\ projected \in Totals
    BY DEF TypeOK
  <2>2. \/ /\ ledger' = Append(Append(ledger, post), release)
           /\ projected' = Replay(Replay(projected, post), release)
        \/ ledger' = Append(ledger, post) /\ projected' = Replay(projected, post)
        \/ ledger' = Append(ledger, release) /\ projected' = Replay(projected, release)
    BY DEF SettleWithin, Post
  <2> HIDE DEF post, release
  <2>3. Replay(projected, post) \in Totals /\ Replay(projected, release) \in Totals
    BY <1>5, <2>1, ReplayType
  <2>4. Replay(Replay(projected, post), release) \in Totals
    BY <1>5, <2>3, ReplayType
  <2> QED
    BY <1>5, <2>1, <2>2, <2>3, <2>4
<1>7. res' \in [Requests -> Reservation]
  BY ReservationType DEF SettleWithin, Settled
<1> QED
  BY <1>2, <1>3, <1>4, <1>6, <1>7 DEF TypeOK, SettleWithin

(* Both branches of a price beyond the hold.                               *)
LEMMA SettleBeyondType ==
  ASSUME TypeOK, NEW r \in Requests, NEW price \in FinalPrices,
         SettleOverage(r, price) \/ SettleShortfall(r, price)
  PROVE  TypeOK'
<1> DEFINE held == res[r].amount
           extra == price - held
<1>1. price \in Nat /\ held \in Nat /\ extra \in Nat
  <2>1. price \in Nat
    BY WalletAssumption
  <2>2. held \in Nat
    BY ReservationType
  <2>3. extra > 0
    BY DEF SettleOverage, SettleShortfall
  <2> QED
    BY <2>1, <2>2, <2>3
<1>2. lots' \in [LotId -> Lot]
  <2> DEFINE a == res[r].alloc
  <2>1. a \in [LotId -> Nat]
    BY ReservationType
  <2>2. lots' = [l \in LotId |-> [lots[l] EXCEPT !.reserved = @ - a[l],
                                                 !.remaining = @ - a[l]]]
    BY DEF SettleOverage, SettleShortfall, ConsumeAllocations
  <2> HIDE DEF a
  <2> QED
    BY <2>1, <2>2, LotsType
<1>3. balance' \in Balances
  <2>1. balance.reserved - held \in Int
    BY <1>1, BalanceType
  <2>2. CASE SettleOverage(r, price)
    <3>1. balance.available - extra \in Nat /\ balance.total - price \in Int
      BY <1>1, <2>2, BalanceType DEF SettleOverage
    <3>2. SaveBalance(balance.available - extra, balance.reserved - held,
                      balance.total - price)
      BY <2>2 DEF SettleOverage
    <3> QED
      BY <2>1, <3>1, <3>2, SaveBalanceType, Zenon
  <2>3. CASE SettleShortfall(r, price)
    <3>1. balance.available \in Nat /\ balance.total - held \in Int
      BY <1>1, BalanceType
    <3>2. SaveBalance(balance.available, balance.reserved - held, balance.total - held)
      BY <2>3 DEF SettleShortfall
    <3> QED
      BY <2>1, <3>1, <3>2, SaveBalanceType, Zenon
  <2> QED
    BY <2>2, <2>3
<1>4. ledger' \in Seq(Entries) /\ projected' \in Totals
  <2>1. \E amount \in Nat : Post(Entry("usage_settlement", amount, r, NextSequence))
    BY <1>1 DEF SettleOverage, SettleShortfall
  <2> QED
    BY <2>1, BalanceType, PostType DEF EntryTypes, RefIds
<1>5. res' \in [Requests -> Reservation]
  BY ReservationType DEF SettleOverage, SettleShortfall, Settled
<1> QED
  BY <1>2, <1>3, <1>4, <1>5 DEF TypeOK, SettleOverage, SettleShortfall

LEMMA ReleaseType ==
  ASSUME TypeOK, NEW r \in Requests, ReleaseHold(r), stale' \subseteq stale
  PROVE  TypeOK'
<1> DEFINE held == res[r].amount
<1>1. held \in Nat
  BY ReservationType
<1>2. lots' \in [LotId -> Lot]
  <2> DEFINE a == res[r].alloc
  <2>1. a \in [LotId -> Nat]
    BY ReservationType
  <2>2. lots' = [l \in LotId |-> [lots[l] EXCEPT !.reserved = @ - a[l]]]
    BY DEF ReleaseHold
  <2> HIDE DEF a
  <2> QED
    BY <2>1, <2>2, LotsType
<1>3. balance' \in Balances
  <2>1. /\ balance.available + held \in Nat /\ balance.reserved - held \in Int
        /\ balance.total \in Int
    BY <1>1, BalanceType
  <2>2. SaveBalance(balance.available + held, balance.reserved - held, balance.total)
    BY DEF ReleaseHold
  <2> QED
    BY <2>1, <2>2, SaveBalanceType, Zenon
<1>4. budget' \in Budget \cup {NoBudget}
  <2>1. 0 \in Int /\ -held \in Int
    BY <1>1
  <2>2. ChangeBudget(0, -held)
    BY DEF ReleaseHold
  <2> QED
    BY <2>1, <2>2, BudgetType, Zenon
<1>5. ledger' \in Seq(Entries) /\ projected' \in Totals
  <2>1. Post(Entry("reservation_release", held, r, NextSequence))
    BY DEF ReleaseHold
  <2> QED
    BY <1>1, <2>1, BalanceType, PostType DEF EntryTypes, RefIds
<1>6. res' \in [Requests -> Reservation]
  BY ReservationType DEF ReleaseHold
<1> QED
  BY <1>2, <1>3, <1>4, <1>5, <1>6 DEF TypeOK, ReleaseHold

LEMMA VisitExpiredType ==
  ASSUME TypeOK, NEW l \in LotId, VisitExpired(l)
  PROVE  TypeOK'
<1> DEFINE rest == Unreserved(l)
<1>0. rest \in Int
  <2>1. lots[l].remaining \in Int /\ lots[l].reserved \in Int
    BY LotType
  <2> QED
    BY <2>1 DEF Unreserved
<1>1. CASE rest <= 0
  <2>1. UNCHANGED <<lots, balance, ledger, projected>>
    <3>1. ~(rest > 0)
      BY <1>0, <1>1
    <3> QED
      BY <3>1 DEF VisitExpired
  <2> QED
    BY <2>1 DEF TypeOK, VisitExpired
<1>2. CASE ~(rest <= 0)
  <2>1. rest \in Nat /\ rest \in Int /\ lots[l].remaining - rest \in Int
    <3>1. lots[l].remaining \in Int
      BY LotType
    <3> HIDE DEF rest
    <3> QED
      BY <1>0, <1>2, <3>1
  <2>2. /\ lots' = [lots EXCEPT ![l].remaining = @ - rest]
        /\ SaveBalance(NonNeg(balance.available - rest), balance.reserved,
                       balance.total - rest)
        /\ Post(Entry("expiration", rest, "expiration", NextSequence))
        /\ expired' \subseteq LotId
    BY <1>2 DEF VisitExpired, TypeOK
  <2> HIDE DEF rest
  <2>3. lots' \in [LotId -> Lot]
    <3>1. [lots[l] EXCEPT !.remaining = @ - rest] \in Lot
      BY <2>1, LotType, Zenon
    <3> QED
      BY <2>2, <3>1 DEF TypeOK
  <2>4. balance' \in Balances
    <3>1. NonNeg(balance.available - rest) \in Nat /\ balance.total - rest \in Int
      BY <2>1, BalanceType, NonNegNat
    <3> QED
      BY <2>2, <3>1, BalanceType, SaveBalanceType, Zenon
  <2>5. ledger' \in Seq(Entries) /\ projected' \in Totals
    BY <2>1, <2>2, BalanceType, PostType DEF EntryTypes, RefIds
  <2> QED
    BY <2>2, <2>3, <2>4, <2>5 DEF TypeOK, VisitExpired
<1> QED
  BY <1>1, <1>2

(* refundCredits and the credit branch of applyAdjustment.                 *)
LEMMA NewLotType ==
  ASSUME TypeOK, NEW key \in Keys, NEW amount \in Nat, RefundCredits(key, amount) \/ AdjustCredit(key, amount)
  PROVE  TypeOK'
<1>1. lots' \in [LotId -> Lot]
  <2>1. 4 \in 0..5 /\ 5 \in 0..5 /\ Never \in 0..Never
    BY WalletAssumption DEF Never
  <2> QED
    BY <2>1, IssueLotType DEF RefundCredits, AdjustCredit
<1>2. balance' \in Balances
  <2>1. balance.available + amount \in Nat /\ balance.total + amount \in Int
    BY BalanceType
  <2> QED
    BY <2>1, BalanceType, SaveBalanceType, Zenon DEF RefundCredits, AdjustCredit
<1>3. ledger' \in Seq(Entries) /\ projected' \in Totals
  BY BalanceType, PostType DEF RefundCredits, AdjustCredit, EntryTypes, RefIds
<1> QED
  BY <1>1, <1>2, <1>3 DEF TypeOK, RefundCredits, AdjustCredit

LEMMA AdjustDebitType ==
  ASSUME TypeOK, NEW key \in Keys, NEW amount \in Nat, AdjustDebit(key, amount)
  PROVE  TypeOK'
<1>1. balance' \in Balances
  <2>1. /\ NonNeg(balance.available - amount) \in Nat
        /\ balance.total - amount \in Int
    BY BalanceType, NonNegNat
  <2> QED
    BY <2>1, BalanceType, SaveBalanceType, Zenon DEF AdjustDebit
<1>2. ledger' \in Seq(Entries) /\ projected' \in Totals
  BY BalanceType, PostType DEF AdjustDebit, EntryTypes, RefIds
<1> QED
  BY <1>1, <1>2 DEF TypeOK, AdjustDebit

LEMMA RebuildType ==
  ASSUME TypeOK, RebuildBalance
  PROVE  TypeOK'
<1>1. /\ NonNeg(projected.available) \in Nat /\ NonNeg(projected.reserved) \in Nat
      /\ projected.total \in Int /\ Len(ledger) \in Nat
  BY NonNegNat DEF TypeOK, Totals
<1>2. balance' \in Balances
  BY <1>1 DEF RebuildBalance, Balances
<1> QED
  BY <1>2 DEF TypeOK, RebuildBalance

(* The wallet is well typed: no handler and no sweep stores a negative     *)
(* available or reserved balance, whatever the interleaving.               *)
THEOREM TypeCorrect == Spec => []TypeOK
<1>1. Init => TypeOK
  <2> SUFFICES ASSUME Init PROVE TypeOK
    OBVIOUS
  <2>1. NoLot \in Lot
    BY WalletAssumption DEF NoLot, Lot, Never
  <2>2. NoReservation \in Reservation
    BY DEF NoReservation, Reservation
  <2>3. balance \in Balances /\ projected \in Totals
    BY DEF Init, Balances, Totals
  <2>4. budget \in Budget \cup {NoBudget}
    <3>1. FirstBudgets \subseteq Nat /\ {0} \subseteq Int
      BY WalletAssumption
    <3>2. ASSUME NEW b \in [limit: FirstBudgets, spent: {0}, reserved: {0}]
          PROVE  b \in [limit: Nat, spent: Int, reserved: Int]
      BY <3>1
    <3> QED
      BY <3>2 DEF Init, Budget
  <2>5. ledger \in Seq(Entries)
    BY DEF Init
  <2> QED
    BY <2>1, <2>2, <2>3, <2>4, <2>5, WalletAssumption DEF Init, TypeOK
<1>2. TypeOK /\ [Next]_vars => TypeOK'
  <2> SUFFICES ASSUME TypeOK, [Next]_vars PROVE TypeOK'
    OBVIOUS
  <2>1. ASSUME NEW k \in Keys, NEW a \in GrantAmounts,
               NEW p \in LotPriorities, NEW e \in Expiries, GrantCredits(k, a, p, e)
        PROVE  TypeOK'
    BY <2>1, GrantType
  <2>2. ASSUME NEW r \in Requests, NEW est \in Estimates, AuthorizeBilling(r, est)
        PROVE  TypeOK'
    BY <2>2, AuthorizeType
  <2>3. ASSUME NEW r \in Requests, NEW price \in FinalPrices, SettleReservation(r, price)
        PROVE  TypeOK'
    BY <2>3, SettleWithinType, SettleBeyondType DEF SettleReservation
  <2>4. ASSUME NEW r \in Requests, ReleaseReservation(r)
        PROVE  TypeOK'
    BY <2>4, ReleaseType DEF ReleaseReservation
  <2>5. ASSUME NEW r \in Requests, VisitStale(r)
        PROVE  TypeOK'
    <3>1. CASE ReleaseHold(r)
      BY <2>5, <3>1, ReleaseType DEF VisitStale
    <3>2. CASE ~ReleaseHold(r)
      BY <2>5, <3>2 DEF VisitStale, TypeOK
    <3> QED
      BY <3>1, <3>2
  <2>6. CASE ListStale
    BY <2>6 DEF ListStale, TypeOK
  <2>7. CASE ListExpired
    BY <2>7 DEF ListExpired, TypeOK
  <2>8. ASSUME NEW l \in LotId, VisitExpired(l)
        PROVE  TypeOK'
    BY <2>8, VisitExpiredType
  <2>9. ASSUME NEW k \in Keys, NEW a \in RefundAmounts, RefundCredits(k, a)
        PROVE  TypeOK'
    BY <2>9, NewLotType, WalletAssumption
  <2>10. ASSUME NEW k \in Keys, NEW a \in CreditAmounts, AdjustCredit(k, a)
         PROVE  TypeOK'
    BY <2>10, NewLotType, WalletAssumption
  <2>11. ASSUME NEW k \in Keys, NEW a \in DebitAmounts, AdjustDebit(k, a)
         PROVE  TypeOK'
    BY <2>11, AdjustDebitType, WalletAssumption
  <2>12. ASSUME NEW s \in {"active", "frozen"}, SetStatus(s)
         PROVE  TypeOK'
    BY <2>12 DEF SetStatus, TypeOK
  <2>13. CASE RebuildBalance
    BY <2>13, RebuildType
  <2>14. ASSUME NEW limit \in BudgetLimits, SetWorkspaceBudget(limit)
         PROVE  TypeOK'
    BY <2>14, WalletAssumption DEF SetWorkspaceBudget, TypeOK, Budget
  <2>15. CASE Tick
    BY <2>15, WalletAssumption DEF Tick, TypeOK
  <2>16. CASE UNCHANGED vars
    BY <2>16 DEF vars, TypeOK
  <2> QED
    BY <2>1, <2>2, <2>3, <2>4, <2>5, <2>6, <2>7, <2>8, <2>9, <2>10, <2>11, <2>12,
       <2>13, <2>14, <2>15, <2>16 DEF Next
<1> QED
  BY <1>1, <1>2, PTL DEF Spec
-----------------------------------------------------------------------------
(* What a step does to reservations and charges: nothing, or one of the    *)
(* three transitions of the billing contract on one request.               *)

SameCharges(r) == Charges(ledger', r) = Charges(ledger, r)

Quiet == res' = res /\ \A r \in Requests : SameCharges(r)

Holds(r) == /\ res[r].status = "none"
            /\ \E h \in Reservation : /\ h.status = "active"
                                      /\ res' = [res EXCEPT ![r] = h]
            /\ \A q \in Requests : SameCharges(q)

Settles(r) == /\ CanSettle(r)
              /\ Settled(r)
              /\ \A q \in Requests \ {r} : SameCharges(q)
              /\ \E x : Charges(ledger', r) \subseteq Charges(ledger, r) \cup {x}

GivesBack(r) == /\ res[r].status = "active"
                /\ res' = [res EXCEPT ![r].status = "released"]
                /\ \A q \in Requests : SameCharges(q)

Effect == Quiet \/ \E r \in Requests : Holds(r) \/ Settles(r) \/ GivesBack(r)

(* An entry adds its own position to the charges of its request, if it is  *)
(* a charge, and leaves every other request's charges alone.               *)
LEMMA AppendCharges ==
  ASSUME NEW L \in Seq(Entries), NEW e \in Entries, NEW r
  PROVE  /\ ~(e.entryType = "usage_settlement" /\ e.referenceId = r)
              => Charges(Append(L, e), r) = Charges(L, r)
         /\ Charges(Append(L, e), r) \subseteq Charges(L, r) \cup {Len(L) + 1}
<1> DEFINE M == Append(L, e)
<1>1. /\ Len(L) \in Nat /\ Len(M) = Len(L) + 1
      /\ \A i \in 1..Len(L) : M[i] = L[i]
      /\ M[Len(L) + 1] = e
  OBVIOUS
<1> HIDE DEF M
<1>2. Charges(M, r) \subseteq Charges(L, r) \cup {Len(L) + 1}
  BY <1>1 DEF Charges
<1>3. ASSUME ~(e.entryType = "usage_settlement" /\ e.referenceId = r)
      PROVE  Charges(M, r) = Charges(L, r)
  BY <1>1, <1>3 DEF Charges
<1> QED
  BY <1>2, <1>3 DEF M

(* A posted entry that is no charge changes nobody's charges.              *)
LEMMA PostCharges ==
  ASSUME TypeOK, NEW type \in EntryTypes \ {"usage_settlement"}, NEW amount \in Nat,
         NEW ref \in RefIds, NEW seq \in Nat, Post(Entry(type, amount, ref, seq))
  PROVE  \A r \in Requests : SameCharges(r)
<1> DEFINE e == Entry(type, amount, ref, seq)
<1>1. e \in Entries /\ e.entryType # "usage_settlement"
  BY EntryType
<1>2. ledger \in Seq(Entries) /\ ledger' = Append(ledger, e)
  BY DEF TypeOK, Post
<1> HIDE DEF e
<1> QED
  BY <1>1, <1>2, AppendCharges DEF SameCharges

LEMMA AuthorizeHolds ==
  ASSUME TypeOK, NEW r \in Requests, NEW est \in Estimates, AuthorizeBilling(r, est)
  PROVE  Holds(r)
<1>1. est \in Nat /\ now \in Nat
  BY WalletAssumption DEF TypeOK
<1>2. PICK a \in Spread(est, Allocatable) :
        res' = [res EXCEPT ![r] = [status |-> "active", amount |-> est,
                                   createdAt |-> now, alloc |-> a]]
  BY DEF AuthorizeBilling
<1>3. a \in [LotId -> Nat]
  BY <1>1, <1>2, SpreadType
<1>4. [status |-> "active", amount |-> est, createdAt |-> now, alloc |-> a] \in Reservation
  BY <1>1, <1>3 DEF Reservation
<1>5. \A q \in Requests : SameCharges(q)
  <2>1. "reservation" \in EntryTypes \ {"usage_settlement"} /\ r \in RefIds
    BY DEF EntryTypes, RefIds
  <2> QED
    BY <1>1, <2>1, BalanceType, PostCharges DEF AuthorizeBilling
<1> QED
  BY <1>2, <1>4, <1>5 DEF Holds, AuthorizeBilling

(* A settlement appends a charge, a release or both, all of its request.   *)
LEMMA SettleSettles ==
  ASSUME TypeOK, NEW r \in Requests, NEW price \in FinalPrices, SettleReservation(r, price)
  PROVE  Settles(r)
<1>1. CanSettle(r) /\ Settled(r)
  BY DEF SettleReservation, SettleWithin, SettleOverage, SettleShortfall
<1> DEFINE Own(e) == /\ e \in Entries
                     /\ e.referenceId = r
<1>2. \/ \E e : Own(e) /\ ledger' = Append(ledger, e)
      \/ \E e, f : /\ Own(e) /\ Own(f) /\ f.entryType # "usage_settlement"
                   /\ ledger' = Append(Append(ledger, e), f)
  <2> DEFINE held == res[r].amount
             freed == held - price
             post == Entry("usage_settlement", price, r, NextSequence)
             release == Entry("reservation_release", freed, r, NextSequence + 1)
             short == Entry("usage_settlement", held, r, NextSequence)
  <2>1. price \in Nat /\ held \in Nat
    BY WalletAssumption, ReservationType
  <2>2. /\ "usage_settlement" \in EntryTypes /\ "reservation_release" \in EntryTypes
        /\ r \in RefIds
    BY DEF EntryTypes, RefIds
  <2>3. NextSequence \in Nat /\ NextSequence + 1 \in Nat
    BY BalanceType
  <2>4. Own(post) /\ Own(short)
    <3>1. ASSUME NEW type \in EntryTypes, NEW amount \in Nat, NEW seq \in Nat
          PROVE  /\ Entry(type, amount, r, seq) \in Entries
                 /\ Entry(type, amount, r, seq).referenceId = r
      BY <2>2 DEF Entry, Entries
    <3>2. post \in Entries /\ post.referenceId = r
      BY ONLY <2>1, <2>2, <2>3, <3>1
    <3>3. short \in Entries /\ short.referenceId = r
      BY ONLY <2>1, <2>2, <2>3, <3>1
    <3> QED
      BY <3>2, <3>3
  <2>5. CASE SettleWithin(r, price)
    <3>1. freed \in Nat
      <4>1. price <= held
        BY <2>5 DEF SettleWithin
      <4> QED
        BY <2>1, <4>1
    <3>2. Own(release) /\ release.entryType # "usage_settlement"
      BY <2>2, <2>3, <3>1, EntryType
    <3>3. \/ ledger' = Append(Append(ledger, post), release)
          \/ ledger' = Append(ledger, post)
          \/ ledger' = Append(ledger, release)
      BY <2>5 DEF SettleWithin, Post
    <3> HIDE DEF post, release, Own
    <3> QED
      BY <2>4, <3>2, <3>3
  <2>6. CASE SettleOverage(r, price)
    <3>1. ledger' = Append(ledger, post)
      BY <2>6 DEF SettleOverage, Post
    <3> HIDE DEF post, Own
    <3> QED
      BY <2>4, <3>1
  <2>7. CASE SettleShortfall(r, price)
    <3>1. ledger' = Append(ledger, short)
      BY <2>7 DEF SettleShortfall, Post
    <3> HIDE DEF short, Own
    <3> QED
      BY <2>4, <3>1
  <2> QED
    BY <2>5, <2>6, <2>7 DEF SettleReservation
<1>3. ledger \in Seq(Entries)
  BY DEF TypeOK
<1>4. CASE \E e : Own(e) /\ ledger' = Append(ledger, e)
  BY <1>1, <1>3, <1>4, AppendCharges DEF Settles, SameCharges
<1>5. CASE \E e, f : /\ Own(e) /\ Own(f) /\ f.entryType # "usage_settlement"
                     /\ ledger' = Append(Append(ledger, e), f)
  <2>1. PICK e, f : /\ Own(e) /\ Own(f) /\ f.entryType # "usage_settlement"
                    /\ ledger' = Append(Append(ledger, e), f)
    BY <1>5
  <2> DEFINE L == Append(ledger, e)
  <2>2. L \in Seq(Entries) /\ ledger' = Append(L, f)
    BY <1>3, <2>1
  <2>3. /\ \A q \in Requests \ {r} : Charges(L, q) = Charges(ledger, q)
        /\ Charges(L, r) \subseteq Charges(ledger, r) \cup {Len(ledger) + 1}
    BY <1>3, <2>1, AppendCharges
  <2> HIDE DEF L
  <2>4. \A q \in Requests : Charges(ledger', q) = Charges(L, q)
    BY <2>1, <2>2, AppendCharges
  <2> QED
    BY <1>1, <2>3, <2>4 DEF Settles, SameCharges
<1> QED
  BY <1>2, <1>4, <1>5

LEMMA ReleaseGivesBack ==
  ASSUME TypeOK, NEW r \in Requests, ReleaseHold(r)
  PROVE  GivesBack(r)
<1>1. "reservation_release" \in EntryTypes \ {"usage_settlement"} /\ r \in RefIds
  BY DEF EntryTypes, RefIds
<1>2. \A q \in Requests : SameCharges(q)
  BY <1>1, BalanceType, ReservationType, PostCharges DEF ReleaseHold
<1> QED
  BY <1>2 DEF GivesBack, ReleaseHold

(* Every other handler leaves reservations and charges alone.              *)
LEMMA GrantQuiet ==
  ASSUME TypeOK, NEW key \in Keys, NEW amount \in GrantAmounts,
         NEW priority \in LotPriorities, NEW expiry \in Expiries,
         GrantCredits(key, amount, priority, expiry)
  PROVE  Quiet
<1>1. /\ "credit_grant" \in EntryTypes \ {"usage_settlement"} /\ key \in RefIds
      /\ amount \in Nat
  BY WalletAssumption DEF EntryTypes, RefIds
<1> QED
  BY <1>1, BalanceType, PostCharges DEF GrantCredits, Quiet

LEMMA NewLotQuiet ==
  ASSUME TypeOK, NEW key \in Keys, NEW amount \in Nat,
         RefundCredits(key, amount) \/ AdjustCredit(key, amount) \/ AdjustDebit(key, amount)
  PROVE  Quiet
<1>1. /\ {"refund", "adjustment_credit", "adjustment_debit"}
           \subseteq EntryTypes \ {"usage_settlement"}
      /\ key \in RefIds
  BY DEF EntryTypes, RefIds
<1> QED
  BY <1>1, BalanceType, PostCharges DEF RefundCredits, AdjustCredit, AdjustDebit, Quiet

LEMMA VisitExpiredQuiet ==
  ASSUME TypeOK, NEW l \in LotId, VisitExpired(l)
  PROVE  Quiet
<1> DEFINE rest == Unreserved(l)
<1>1. "expiration" \in EntryTypes \ {"usage_settlement"} /\ "expiration" \in RefIds
  BY DEF EntryTypes, RefIds
<1>2. rest \in Int
  <2>1. lots[l].remaining \in Int /\ lots[l].reserved \in Int
    BY LotType
  <2> QED
    BY <2>1 DEF Unreserved
<1>3. CASE rest > 0 /\ Post(Entry("expiration", rest, "expiration", NextSequence))
  <2> HIDE DEF rest
  <2>1. rest \in Nat
    BY <1>2, <1>3
  <2> QED
    BY <1>1, <1>3, <2>1, BalanceType, PostCharges DEF VisitExpired, Quiet
<1>4. CASE ledger' = ledger
  BY <1>4 DEF VisitExpired, Quiet, SameCharges
<1> QED
  BY <1>3, <1>4 DEF VisitExpired

(* Every step of the wallet is quiet or a step of the contract.            *)
LEMMA StepEffect ==
  ASSUME TypeOK, [Next]_vars
  PROVE  Effect
<1>1. ASSUME UNCHANGED <<res, ledger>>
      PROVE  Quiet
  BY <1>1 DEF Quiet, SameCharges
<1>2. ASSUME NEW k \in Keys, NEW a \in GrantAmounts,
             NEW p \in LotPriorities, NEW e \in Expiries, GrantCredits(k, a, p, e)
      PROVE  Quiet
  BY <1>2, GrantQuiet
<1>3. ASSUME NEW r \in Requests, NEW est \in Estimates, AuthorizeBilling(r, est)
      PROVE  Holds(r)
  BY <1>3, AuthorizeHolds
<1>4. ASSUME NEW r \in Requests, NEW price \in FinalPrices, SettleReservation(r, price)
      PROVE  Settles(r)
  BY <1>4, SettleSettles
<1>5. ASSUME NEW r \in Requests, ReleaseReservation(r) \/ VisitStale(r)
      PROVE  GivesBack(r) \/ Quiet
  BY <1>1, <1>5, ReleaseGivesBack DEF ReleaseReservation, VisitStale
<1>6. ASSUME NEW l \in LotId, VisitExpired(l)
      PROVE  Quiet
  BY <1>6, VisitExpiredQuiet
<1>7. ASSUME NEW k \in Keys, NEW a \in RefundAmounts \cup CreditAmounts \cup DebitAmounts,
             RefundCredits(k, a) \/ AdjustCredit(k, a) \/ AdjustDebit(k, a)
      PROVE  Quiet
  BY <1>7, NewLotQuiet, WalletAssumption
<1>8. ASSUME \/ ListStale \/ ListExpired \/ RebuildBalance \/ Tick
             \/ \E s \in {"active", "frozen"} : SetStatus(s)
             \/ \E limit \in BudgetLimits : SetWorkspaceBudget(limit)
             \/ UNCHANGED vars
      PROVE  Quiet
  BY <1>1, <1>8 DEF ListStale, ListExpired, RebuildBalance, Tick, SetStatus,
     SetWorkspaceBudget, vars
<1> QED
  BY <1>2, <1>3, <1>4, <1>5, <1>6, <1>7, <1>8 DEF Next, Effect
-----------------------------------------------------------------------------
(* No request is ever charged twice, nor charged after its hold was given  *)
(* back, with or without late settlements: the charge of a request and its *)
(* transition to "settled" are one step, and that step needs a hold that   *)
(* is not settled yet.                                                     *)
THEOREM AtMostOneCharge == Spec => []ChargedAtMostOnce
<1>1. Init => ChargedAtMostOnce
  BY DEF Init, ChargedAtMostOnce, Charges
<1>2. TypeOK /\ ChargedAtMostOnce /\ [Next]_vars => ChargedAtMostOnce'
  <2> SUFFICES ASSUME TypeOK, ChargedAtMostOnce, [Next]_vars, NEW r \in Requests
               PROVE  /\ Charges(ledger', r) # {} => res'[r].status = "settled"
                      /\ \A i, j \in Charges(ledger', r) : i = j
    BY DEF ChargedAtMostOnce
  <2>1. /\ Charges(ledger, r) # {} => res[r].status = "settled"
        /\ \A i, j \in Charges(ledger, r) : i = j
    BY DEF ChargedAtMostOnce
  <2>2. res \in [Requests -> Reservation] /\ \A q \in Requests : res[q] \in Reservation
    BY DEF TypeOK
  <2>3. CASE Quiet
    BY <2>1, <2>3 DEF Quiet, SameCharges
  <2>4. ASSUME NEW q \in Requests, Holds(q) \/ GivesBack(q)
        PROVE  /\ Charges(ledger', r) = Charges(ledger, r)
               /\ res[r].status = "settled" => res'[r].status = "settled"
    BY <2>2, <2>4 DEF Holds, GivesBack, SameCharges, Reservation
  <2>5. ASSUME NEW q \in Requests, Settles(q), q # r
        PROVE  /\ Charges(ledger', r) = Charges(ledger, r)
               /\ res'[r] = res[r]
    BY <2>2, <2>5 DEF Settles, Settled, SameCharges
  <2>6. ASSUME Settles(r)
        PROVE  /\ res'[r].status = "settled"
               /\ \A i, j \in Charges(ledger', r) : i = j
    <3>1. Charges(ledger, r) = {}
      BY <2>1, <2>6 DEF Settles, CanSettle
    <3>2. res'[r].status = "settled"
      BY <2>2, <2>6 DEF Settles, Settled, Reservation
    <3> QED
      BY <2>6, <3>1, <3>2 DEF Settles
  <2> QED
    BY <2>1, <2>3, <2>4, <2>5, <2>6, StepEffect DEF Effect
<1> QED
  BY <1>1, <1>2, TypeCorrect, PTL DEF Spec

(* The outcome of a request is final: once settled, its reservation never  *)
(* changes, and nothing ever changes what a reservation holds.             *)
THEOREM FinalOutcome == Spec => OutcomeIsFinal
<1>1. TypeOK /\ [Next]_vars =>
        [\A r \in Requests :
           /\ res[r].status = "settled" => res'[r] = res[r]
           /\ res[r].status # "none" => /\ res'[r].amount = res[r].amount
                                        /\ res'[r].alloc = res[r].alloc]_vars
  <2> SUFFICES ASSUME TypeOK, [Next]_vars, NEW r \in Requests
               PROVE  /\ res[r].status = "settled" => res'[r] = res[r]
                      /\ res[r].status # "none" => /\ res'[r].amount = res[r].amount
                                                   /\ res'[r].alloc = res[r].alloc
    OBVIOUS
  <2>1. res \in [Requests -> Reservation] /\ \A q \in Requests : res[q] \in Reservation
    BY DEF TypeOK
  <2>2. CASE Quiet
    BY <2>2 DEF Quiet
  <2>3. ASSUME NEW q \in Requests, Holds(q)
        PROVE  res'[r] = res[r] \/ res[r].status = "none"
    <3>1. PICK h : res' = [res EXCEPT ![q] = h]
      BY <2>3 DEF Holds
    <3>2. q # r => res'[r] = res[r]
      BY <2>1, <3>1
    <3> QED
      BY <2>3, <3>2 DEF Holds
  <2>4. ASSUME NEW q \in Requests, Settles(q) \/ GivesBack(q)
        PROVE  \/ res'[r] = res[r]
               \/ /\ res[r].status # "settled"
                  /\ res'[r].amount = res[r].amount
                  /\ res'[r].alloc = res[r].alloc
    BY <2>1, <2>4 DEF Settles, Settled, CanSettle, GivesBack, Reservation
  <2> QED
    BY <2>2, <2>3, <2>4, StepEffect DEF Effect
<1> QED
  BY <1>1, TypeCorrect, PTL DEF Spec, OutcomeIsFinal

(* When no settlement arrives after the release of its hold, the wallet    *)
(* implements the billing contract: each step that touches reservations or *)
(* charges is Hold, Settle or GiveBack of one request, the others stutter. *)
THEOREM Implementation == ASSUME ~LateSettlement PROVE Spec => ImplementsContract
<1> DEFINE phase == [r \in Requests |-> res[r].status]
           billed == [r \in Requests |-> Charges(ledger, r) # {}]
<1>1. Init => Contract!Init
  <2> SUFFICES ASSUME Init PROVE Contract!Init
    OBVIOUS
  <2>1. ASSUME NEW r \in Requests
        PROVE  res[r].status = "none" /\ ~(Charges(ledger, r) # {})
    BY DEF Init, NoReservation, Charges
  <2>2. phase = [r \in Requests |-> "none"]
    BY <2>1
  <2>3. billed = [r \in Requests |-> FALSE]
    BY <2>1
  <2> QED
    BY <2>2, <2>3 DEF Contract!Init
<1>2. TypeOK /\ ChargedAtMostOnce /\ [Next]_vars => [Contract!Next]_(Contract!cvars)
  <2> SUFFICES ASSUME TypeOK, ChargedAtMostOnce, [Next]_vars
               PROVE  Contract!Next \/ UNCHANGED <<phase, billed>>
    BY DEF Contract!cvars
  <2>1. res \in [Requests -> Reservation] /\ \A q \in Requests : res[q] \in Reservation
    BY DEF TypeOK
  <2>2. CASE Quiet
    BY <2>2 DEF Quiet, SameCharges
  <2>3. ASSUME NEW r \in Requests, Holds(r)
        PROVE  Contract!Hold(r)
    BY <2>1, <2>3 DEF Holds, SameCharges, Contract!Hold
  <2>4. ASSUME NEW r \in Requests, Settles(r)
        PROVE  Contract!Settle(r)
    <3>1. phase[r] = "active"
      BY <2>4 DEF Settles, CanSettle
    <3>2. phase' = [phase EXCEPT ![r] = "settled"]
      BY <2>1, <2>4 DEF Settles, Settled, Reservation
    <3>3. billed' = [billed EXCEPT ![r] = Charges(ledger', r) # {}]
      BY <2>4 DEF Settles, SameCharges
    <3> QED
      BY <3>1, <3>2, <3>3 DEF Contract!Settle
  <2>5. ASSUME NEW r \in Requests, GivesBack(r)
        PROVE  Contract!GiveBack(r)
    BY <2>1, <2>5 DEF GivesBack, SameCharges, Reservation, Contract!GiveBack
  <2> QED
    BY <2>2, <2>3, <2>4, <2>5, StepEffect DEF Effect, Contract!Next
<1> QED
  BY <1>1, <1>2, TypeCorrect, AtMostOneCharge, PTL
  DEF Spec, ImplementsContract, Contract!Spec
-----------------------------------------------------------------------------
(* Grants.                                                                 *)

(* Ledger M continues ledger L, with no further grant.                     *)
GrantsWithin(M, L) ==
  /\ Len(L) <= Len(M)
  /\ \A i \in 1..Len(L) : M[i] = L[i]
  /\ \A i \in 1..Len(M) : M[i].entryType = "credit_grant" => i \in 1..Len(L)

LEMMA AppendNoGrant ==
  ASSUME NEW L \in Seq(Entries), NEW e \in Entries, e.entryType # "credit_grant"
  PROVE  Append(L, e) \in Seq(Entries) /\ GrantsWithin(Append(L, e), L)
<1> DEFINE M == Append(L, e)
<1>1. /\ Len(L) \in Nat /\ Len(M) = Len(L) + 1 /\ M \in Seq(Entries)
      /\ \A i \in 1..Len(L) : M[i] = L[i]
      /\ M[Len(L) + 1] = e
  OBVIOUS
<1> HIDE DEF M
<1>2. \A i \in 1..Len(M) : i \in 1..Len(L) \/ i = Len(L) + 1
  BY <1>1
<1>3. GrantsWithin(M, L)
  BY <1>1, <1>2 DEF GrantsWithin
<1> QED
  BY <1>1, <1>3 DEF M

LEMMA GrantsFollow ==
  ASSUME NEW L, NEW M, NEW N, Len(L) \in Nat, Len(M) \in Nat, Len(N) \in Nat,
         GrantsWithin(M, L), GrantsWithin(N, M)
  PROVE  GrantsWithin(N, L)
<1>1. \A i \in 1..Len(L) : i \in 1..Len(M)
  BY DEF GrantsWithin
<1> QED
  BY <1>1 DEF GrantsWithin

LEMMA PostNoGrant ==
  ASSUME TypeOK, NEW type \in EntryTypes \ {"credit_grant"}, NEW amount \in Nat,
         NEW ref \in RefIds, NEW seq \in Nat, Post(Entry(type, amount, ref, seq))
  PROVE  GrantsWithin(ledger', ledger)
<1> DEFINE e == Entry(type, amount, ref, seq)
<1>1. e \in Entries /\ e.entryType # "credit_grant"
  BY EntryType
<1>2. ledger \in Seq(Entries) /\ ledger' = Append(ledger, e)
  BY DEF TypeOK, Post
<1> HIDE DEF e
<1> QED
  BY <1>1, <1>2, AppendNoGrant

LEMMA SettleNoGrant ==
  ASSUME TypeOK, NEW r \in Requests, NEW price \in FinalPrices, SettleReservation(r, price)
  PROVE  GrantsWithin(ledger', ledger)
<1> DEFINE held == res[r].amount
           freed == held - price
           post == Entry("usage_settlement", price, r, NextSequence)
           release == Entry("reservation_release", freed, r, NextSequence + 1)
<1>1. price \in Nat /\ held \in Nat /\ NextSequence \in Nat /\ NextSequence + 1 \in Nat
  BY WalletAssumption, ReservationType, BalanceType
<1>2. /\ "usage_settlement" \in EntryTypes \ {"credit_grant"}
      /\ "reservation_release" \in EntryTypes \ {"credit_grant"}
      /\ r \in RefIds
  BY DEF EntryTypes, RefIds
<1>3. ASSUME SettleOverage(r, price) \/ SettleShortfall(r, price)
      PROVE  GrantsWithin(ledger', ledger)
  <2>1. \/ Post(Entry("usage_settlement", price, r, NextSequence))
        \/ Post(Entry("usage_settlement", held, r, NextSequence))
    BY <1>3 DEF SettleOverage, SettleShortfall
  <2> QED
    BY <1>1, <1>2, <2>1, PostNoGrant
<1>4. ASSUME SettleWithin(r, price)
      PROVE  GrantsWithin(ledger', ledger)
  <2>1. freed \in Nat
    <3>1. price <= held
      BY <1>4 DEF SettleWithin
    <3> QED
      BY <1>1, <3>1
  <2>2. /\ post \in Entries /\ post.entryType # "credit_grant"
        /\ release \in Entries /\ release.entryType # "credit_grant"
    BY <1>1, <1>2, <2>1, EntryType
  <2>3. \/ ledger' = Append(Append(ledger, post), release)
        \/ ledger' = Append(ledger, post)
        \/ ledger' = Append(ledger, release)
    BY <1>4 DEF SettleWithin, Post
  <2>4. ledger \in Seq(Entries)
    BY DEF TypeOK
  <2> HIDE DEF post, release
  <2>5. /\ GrantsWithin(Append(ledger, post), ledger)
        /\ GrantsWithin(Append(ledger, release), ledger)
        /\ GrantsWithin(Append(Append(ledger, post), release), Append(ledger, post))
        /\ Append(Append(ledger, post), release) \in Seq(Entries)
        /\ Append(ledger, post) \in Seq(Entries)
    BY <2>2, <2>4, AppendNoGrant
  <2>6. GrantsWithin(Append(Append(ledger, post), release), ledger)
    <3>1. \A L \in Seq(Entries) : Len(L) \in Nat
      OBVIOUS
    <3> QED
      BY <2>4, <2>5, <3>1, GrantsFollow
  <2> QED
    BY <2>3, <2>5, <2>6
<1> QED
  BY <1>3, <1>4 DEF SettleReservation

(* Only grantCredits appends a grant.                                      *)
LEMMA OnlyGrantsGrant ==
  ASSUME TypeOK, [Next]_vars,
         ~ \E k \in Keys, a \in GrantAmounts, p \in LotPriorities, e \in Expiries :
              GrantCredits(k, a, p, e)
  PROVE  GrantsWithin(ledger', ledger)
<1>1. ASSUME ledger' = ledger
      PROVE  GrantsWithin(ledger', ledger)
  BY <1>1 DEF GrantsWithin
<1>2. /\ {"refund", "adjustment_credit", "adjustment_debit", "reservation",
          "reservation_release", "expiration"} \subseteq EntryTypes \ {"credit_grant"}
      /\ {"expiration"} \cup Keys \cup Requests \subseteq RefIds
  BY DEF EntryTypes, RefIds
<1>3. ASSUME NEW r \in Requests, NEW est \in Estimates, AuthorizeBilling(r, est)
      PROVE  GrantsWithin(ledger', ledger)
  BY <1>2, <1>3, WalletAssumption, BalanceType, PostNoGrant DEF AuthorizeBilling
<1>4. ASSUME NEW r \in Requests, ReleaseReservation(r) \/ VisitStale(r)
      PROVE  GrantsWithin(ledger', ledger)
  <2>1. \/ Post(Entry("reservation_release", res[r].amount, r, NextSequence))
        \/ ledger' = ledger
    BY <1>4 DEF ReleaseReservation, VisitStale, ReleaseHold
  <2> QED
    BY <1>1, <1>2, <2>1, ReservationType, BalanceType, PostNoGrant
<1>5. ASSUME NEW l \in LotId, VisitExpired(l)
      PROVE  GrantsWithin(ledger', ledger)
  <2> DEFINE rest == Unreserved(l)
  <2>1. \/ rest > 0 /\ Post(Entry("expiration", rest, "expiration", NextSequence))
        \/ ledger' = ledger
    BY <1>5 DEF VisitExpired
  <2>2. rest \in Int
    <3>1. lots[l].remaining \in Int /\ lots[l].reserved \in Int
      BY LotType
    <3> QED
      BY <3>1 DEF Unreserved
  <2> HIDE DEF rest
  <2>3. rest > 0 => rest \in Nat
    BY <2>2
  <2> QED
    BY <1>1, <1>2, <2>1, <2>3, BalanceType, PostNoGrant
<1>6. ASSUME NEW k \in Keys, NEW a \in RefundAmounts \cup CreditAmounts \cup DebitAmounts,
             RefundCredits(k, a) \/ AdjustCredit(k, a) \/ AdjustDebit(k, a)
      PROVE  GrantsWithin(ledger', ledger)
  <2>1. a \in Nat
    BY WalletAssumption
  <2> QED
    BY <1>2, <1>6, <2>1, BalanceType, PostNoGrant
    DEF RefundCredits, AdjustCredit, AdjustDebit
<1>7. ASSUME \/ ListStale \/ ListExpired \/ RebuildBalance \/ Tick
             \/ \E s \in {"active", "frozen"} : SetStatus(s)
             \/ \E limit \in BudgetLimits : SetWorkspaceBudget(limit)
             \/ UNCHANGED vars
      PROVE  GrantsWithin(ledger', ledger)
  BY <1>1, <1>7 DEF ListStale, ListExpired, RebuildBalance, Tick, SetStatus,
     SetWorkspaceBudget, vars
<1> QED
  BY <1>3, <1>4, <1>5, <1>6, <1>7, SettleNoGrant DEF Next

(* A grant that was first with its idempotency key is credited once: the   *)
(* lookup of every later grant with the key finds it, because no handler   *)
(* takes an entry out of the ledger or puts one before it, and no handler  *)
(* but grantCredits appends a grant.                                       *)
THEOREM GrantOncePerKey == Spec => []GrantedOncePerKey
<1>1. Init => GrantedOncePerKey
  BY DEF Init, GrantedOncePerKey
<1>2. TypeOK /\ GrantedOncePerKey /\ [Next]_vars => GrantedOncePerKey'
  <2> SUFFICES ASSUME TypeOK, GrantedOncePerKey, [Next]_vars
               PROVE  GrantedOncePerKey'
    OBVIOUS
  <2> DEFINE First(L, i) == \A h \in 1..(i - 1) : L[h].referenceId # L[i].referenceId
             Grant(L, i) == L[i].entryType = "credit_grant"
             OldOnes == \A i, j \in 1..Len(ledger) :
                          /\ Grant(ledger, i) /\ Grant(ledger, j)
                          /\ ledger[i].referenceId \in GrantKeys
                          /\ ledger[j].referenceId = ledger[i].referenceId
                          /\ First(ledger, i)
                          => j = i
  <2>0. OldOnes /\ Len(ledger) \in Nat
    BY DEF GrantedOncePerKey, TypeOK
  <2>1. ASSUME GrantsWithin(ledger', ledger)
        PROVE  GrantedOncePerKey'
    <3>1. SUFFICES ASSUME NEW i \in 1..Len(ledger'), NEW j \in 1..Len(ledger'),
                          Grant(ledger', i), Grant(ledger', j),
                          ledger'[i].referenceId \in GrantKeys,
                          ledger'[j].referenceId = ledger'[i].referenceId,
                          First(ledger', i)
                   PROVE  j = i
      BY DEF GrantedOncePerKey
    <3>2. /\ i \in 1..Len(ledger) /\ j \in 1..Len(ledger)
          /\ ledger'[i] = ledger[i] /\ ledger'[j] = ledger[j]
      BY <2>1, <3>1 DEF GrantsWithin
    <3>3. \A h \in 1..(i - 1) : h \in 1..Len(ledger) /\ ledger'[h] = ledger[h]
      BY <2>0, <2>1, <3>2 DEF GrantsWithin
    <3> QED
      BY <2>0, <3>1, <3>2, <3>3
  <2>2. ASSUME NEW k \in Keys, NEW a \in GrantAmounts,
               NEW p \in LotPriorities, NEW e \in Expiries, GrantCredits(k, a, p, e)
        PROVE  GrantedOncePerKey'
    <3> DEFINE g == Entry("credit_grant", a, k, NextSequence)
    <3>1. /\ g \in Entries /\ g.referenceId = k
          /\ ledger \in Seq(Entries) /\ ledger' = Append(ledger, g)
      <4>1. a \in Nat /\ "credit_grant" \in EntryTypes /\ k \in RefIds
        BY WalletAssumption DEF EntryTypes, RefIds
      <4>2. g \in Entries /\ g.referenceId = k
        BY <4>1, BalanceType, EntryType
      <4> QED
        BY <2>2, <4>2 DEF TypeOK, GrantCredits, Post
    <3>2. k = NoKey \/ ~FindsGrant(ledger, k)
      BY <2>2 DEF GrantCredits
    <3> HIDE DEF g
    <3>3. /\ Len(ledger') = Len(ledger) + 1
          /\ \A i \in 1..Len(ledger) : ledger'[i] = ledger[i]
          /\ ledger'[Len(ledger) + 1] = g
      BY <3>1
    <3>4. \A i \in 1..Len(ledger') : i \in 1..Len(ledger) \/ i = Len(ledger) + 1
      BY <2>0, <3>3
    <3>5. SUFFICES ASSUME NEW i \in 1..Len(ledger'), NEW j \in 1..Len(ledger'),
                          Grant(ledger', i), Grant(ledger', j),
                          ledger'[i].referenceId \in GrantKeys,
                          ledger'[j].referenceId = ledger'[i].referenceId,
                          First(ledger', i)
                   PROVE  j = i
      BY DEF GrantedOncePerKey
    <3>6. CASE i = Len(ledger) + 1
      BY <2>0, <3>3, <3>5, <3>6
    <3>7. CASE i \in 1..Len(ledger)
      <4>1. \A h \in 1..(i - 1) : h \in 1..Len(ledger) /\ ledger'[h] = ledger[h]
        BY <2>0, <3>3, <3>7
      <4>2. Grant(ledger, i) /\ First(ledger, i) /\ ledger[i].referenceId \in GrantKeys
        BY <3>3, <3>5, <3>7, <4>1
      <4>3. CASE j \in 1..Len(ledger)
        BY <2>0, <3>3, <3>5, <3>7, <4>2, <4>3
      <4>4. CASE j = Len(ledger) + 1
        <5>1. ledger[i].referenceId = k
          BY <3>1, <3>3, <3>5, <3>7, <4>4
        <5>2. FindsGrant(ledger, k)
          BY <3>7, <4>2, <5>1 DEF FindsGrant
        <5>3. k # NoKey
          BY <4>2, <5>1, WalletAssumption
        <5> QED
          BY <3>2, <5>2, <5>3
      <4> QED
        BY <3>4, <4>3, <4>4
    <3> QED
      BY <3>4, <3>6, <3>7
  <2> QED
    BY <2>1, <2>2, OnlyGrantsGrant
<1> QED
  BY <1>1, <1>2, TypeCorrect, PTL DEF Spec
-----------------------------------------------------------------------------
(* The holds and their sums.                                               *)

LEMMA SumJoin ==
  ASSUME NEW f, NEW g, NEW A, IsFiniteSet(A), NEW r, r \notin A, g[r] \in Int,
         \A x \in A : f[x] \in Int /\ g[x] = f[x]
  PROVE  /\ IsFiniteSet(A \cup {r})
         /\ SumFunctionOnSet(g, A \cup {r}) = SumFunctionOnSet(f, A) + g[r]
<1> DEFINE B == A \cup {r}
<1>1. IsFiniteSet(B) /\ B \ {r} = A
  BY FS_AddElement
<1>2. \A x \in B : g[x] \in Int
  OBVIOUS
<1>3. r \in B
  OBVIOUS
<1> HIDE DEF B
<1>4. SumFunctionOnSet(g, B) = g[r] + SumFunctionOnSet(g, A)
  BY <1>1, <1>2, <1>3, SumRemove
<1>5. SumFunctionOnSet(g, A) = SumFunctionOnSet(f, A) /\ SumFunctionOnSet(f, A) \in Int
  BY SumSame, SumInt
<1> QED
  BY <1>1, <1>4, <1>5 DEF B

(* f has integer values on A.  (Left unexpanded where SumLeave is used:    *)
(* with the integers in sight the provers type the two sums differently.)  *)
IntOn(f, A) == \A x \in A : f[x] \in Int

LEMMA SumLeave ==
  ASSUME NEW f, NEW g, NEW A, IsFiniteSet(A), NEW r \in A,
         IntOn(f, A), \A x \in A : x # r => g[x] = f[x]
  PROVE  /\ IsFiniteSet(A \ {r})
         /\ SumFunctionOnSet(g, A \ {r}) \in Int
         /\ SumFunctionOnSet(f, A) = f[r] + SumFunctionOnSet(g, A \ {r})
<1> DEFINE B == A \ {r}
<1>0. \A x \in A : f[x] \in Int
  BY DEF IntOn
<1>1. IsFiniteSet(B)
  BY FS_Subset
<1>2. SumFunctionOnSet(f, A) = f[r] + SumFunctionOnSet(f, B)
  BY <1>0, SumRemove
<1>3. SumFunctionOnSet(g, B) = SumFunctionOnSet(f, B) /\ SumFunctionOnSet(f, B) \in Int
  BY <1>0, <1>1, SumSame, SumInt
<1>4. f[r] \in Int
  BY <1>0
<1> HIDE DEF B
<1> QED
  BY <1>1, <1>2, <1>3, <1>4 DEF B
-----------------------------------------------------------------------------
(* How the sums over the active holds follow a reservation.                *)

FiniteHolds == IsFiniteSet(ActiveHolds)

LEMMA HoldType ==
  ASSUME TypeOK, NEW r \in ActiveHolds
  PROVE  /\ r \in Requests /\ res[r].amount \in Int
         /\ \A l \in LotId : res[r].alloc[l] \in Int
<1>1. r \in Requests
  BY DEF ActiveHolds
<1>2. res[r].amount \in Nat /\ res[r].alloc \in [LotId -> Nat]
  BY <1>1, ReservationType
<1> QED
  BY <1>1, <1>2

LEMMA HoldSumsNat ==
  ASSUME TypeOK, FiniteHolds
  PROVE  /\ HeldAmount \in Nat
         /\ \A r \in ActiveHolds : res[r].amount <= HeldAmount
         /\ \A l \in LotId : HeldInLot(l) \in Nat
         /\ \A l \in LotId, r \in ActiveHolds : res[r].alloc[l] <= HeldInLot(l)
<1> DEFINE held == [r \in Requests |-> res[r].amount]
           part(l) == [r \in Requests |-> res[r].alloc[l]]
<1>1. \A r \in ActiveHolds : held[r] \in Nat /\ held[r] = res[r].amount
  BY ReservationType DEF ActiveHolds
<1>2. \A l \in LotId, r \in ActiveHolds : part(l)[r] \in Nat /\ part(l)[r] = res[r].alloc[l]
  BY ReservationType DEF ActiveHolds
<1>3. HeldAmount = SumFunctionOnSet(held, ActiveHolds)
  BY DEF HeldAmount
<1>4. \A l \in LotId : HeldInLot(l) = SumFunctionOnSet(part(l), ActiveHolds)
  BY DEF HeldInLot
<1> HIDE DEF held, part
<1> QED
  BY <1>1, <1>2, <1>3, <1>4, SumNat DEF FiniteHolds

(* The reservation of r starts holding.                                    *)
LEMMA HoldTaken ==
  ASSUME TypeOK, FiniteHolds, NEW r \in Requests, res[r].status # "active",
         NEW h \in Reservation, h.status = "active", res' = [res EXCEPT ![r] = h]
  PROVE  /\ FiniteHolds'
         /\ ActiveHolds' = ActiveHolds \cup {r}
         /\ HeldAmount' = HeldAmount + h.amount
         /\ \A l \in LotId : HeldInLot(l)' = HeldInLot(l) + h.alloc[l]
<1> DEFINE A == ActiveHolds
           held == [q \in Requests |-> res[q].amount]
           held2 == [q \in Requests |-> res'[q].amount]
           part(l) == [q \in Requests |-> res[q].alloc[l]]
           part2(l) == [q \in Requests |-> res'[q].alloc[l]]
<1>0. \A q \in A : /\ q \in Requests /\ res[q].amount \in Int
                   /\ \A l \in LotId : res[q].alloc[l] \in Int
  BY HoldType
<1>1. /\ A' = A \cup {r} /\ r \notin A /\ A \subseteq Requests
      /\ res'[r] = h /\ \A q \in A : res'[q] = res[q]
  BY DEF ActiveHolds, TypeOK
<1>2. held2[r] = h.amount /\ h.amount \in Int
  BY <1>1 DEF Reservation
<1>3. \A q \in A : held[q] \in Int /\ held2[q] = held[q]
  BY <1>0, <1>1
<1>4. \A l \in LotId : part2(l)[r] = h.alloc[l] /\ h.alloc[l] \in Int
  BY <1>1 DEF Reservation
<1>5. \A l \in LotId, q \in A : part(l)[q] \in Int /\ part2(l)[q] = part(l)[q]
  BY <1>0, <1>1
<1>6. /\ HeldAmount = SumFunctionOnSet(held, A)
      /\ HeldAmount' = SumFunctionOnSet(held2, A')
  BY DEF HeldAmount
<1>7. \A l \in LotId : /\ HeldInLot(l) = SumFunctionOnSet(part(l), A)
                       /\ HeldInLot(l)' = SumFunctionOnSet(part2(l), A')
  BY DEF HeldInLot
<1>8. IsFiniteSet(A)
  BY DEF FiniteHolds
<1> HIDE DEF held, held2, part, part2
<1>9. IsFiniteSet(A') /\ HeldAmount' = HeldAmount + h.amount
  BY <1>1, <1>2, <1>3, <1>6, <1>8, SumJoin
<1>10. \A l \in LotId : HeldInLot(l)' = HeldInLot(l) + h.alloc[l]
  <2> SUFFICES ASSUME NEW l \in LotId
               PROVE  HeldInLot(l)' = HeldInLot(l) + h.alloc[l]
    OBVIOUS
  <2> DEFINE was == part(l)
             is == part2(l)
  <2>1. /\ is[r] = h.alloc[l] /\ is[r] \in Int
        /\ \A q \in A : was[q] \in Int /\ is[q] = was[q]
    BY <1>4, <1>5
  <2>2. HeldInLot(l) = SumFunctionOnSet(was, A) /\ HeldInLot(l)' = SumFunctionOnSet(is, A')
    BY <1>7
  <2> HIDE DEF was, is
  <2> QED
    BY <1>1, <1>8, <2>1, <2>2, SumJoin
<1> QED
  BY <1>1, <1>9, <1>10 DEF FiniteHolds

(* The reservation of r stops holding.                                     *)
LEMMA HoldEnded ==
  ASSUME TypeOK, FiniteHolds, NEW r \in Requests, res[r].status = "active",
         NEW s \in {"settled", "released"}, res' = [res EXCEPT ![r].status = s]
  PROVE  /\ FiniteHolds'
         /\ ActiveHolds' = ActiveHolds \ {r}
         /\ HeldAmount' = HeldAmount - res[r].amount
         /\ \A l \in LotId : HeldInLot(l)' = HeldInLot(l) - res[r].alloc[l]
<1> DEFINE A == ActiveHolds
           held == [q \in Requests |-> res[q].amount]
           held2 == [q \in Requests |-> res'[q].amount]
           part(l) == [q \in Requests |-> res[q].alloc[l]]
           part2(l) == [q \in Requests |-> res'[q].alloc[l]]
<1>0. \A q \in A : /\ q \in Requests /\ res[q].amount \in Int
                   /\ \A l \in LotId : res[q].alloc[l] \in Int
  BY HoldType
<1>1. /\ A' = A \ {r} /\ r \in A /\ A \subseteq Requests
      /\ \A q \in A \ {r} : res'[q] = res[q]
  BY DEF ActiveHolds, TypeOK, Reservation
<1>2. held[r] = res[r].amount
  OBVIOUS
<1>3. \A q \in A : held[q] \in Int
  BY <1>0
<1>4. \A q \in A \ {r} : held2[q] = held[q]
  BY <1>1
<1>5. \A l \in LotId : part(l)[r] = res[r].alloc[l]
  OBVIOUS
<1>6. \A l \in LotId, q \in A : part(l)[q] \in Int
  BY <1>0
<1>7. \A l \in LotId, q \in A \ {r} : part2(l)[q] = part(l)[q]
  BY <1>1
<1>8. /\ HeldAmount = SumFunctionOnSet(held, A)
      /\ HeldAmount' = SumFunctionOnSet(held2, A')
  BY DEF HeldAmount
<1>9. \A l \in LotId : /\ HeldInLot(l) = SumFunctionOnSet(part(l), A)
                       /\ HeldInLot(l)' = SumFunctionOnSet(part2(l), A')
  BY DEF HeldInLot
<1>10. IsFiniteSet(A)
  BY DEF FiniteHolds
<1> HIDE DEF held, held2, part, part2
<1>11. IsFiniteSet(A') /\ HeldAmount' = HeldAmount - res[r].amount
  <2>1. /\ r \in A /\ IsFiniteSet(A)
        /\ IntOn(held, A) /\ \A q \in A : q # r => held2[q] = held[q]
    BY <1>1, <1>3, <1>4, <1>10 DEF IntOn
  <2> HIDE DEF A
  <2>2. /\ IsFiniteSet(A \ {r})
        /\ SumFunctionOnSet(held2, A \ {r}) \in Int
        /\ SumFunctionOnSet(held, A) = held[r] + SumFunctionOnSet(held2, A \ {r})
    <3>1. PICK f, g, B : f = held /\ g = held2 /\ B = A
      OBVIOUS
    <3>2. r \in B /\ IsFiniteSet(B) /\ IntOn(f, B) /\ \A q \in B : q # r => g[q] = f[q]
      BY <2>1, <3>1
    <3>3. /\ IsFiniteSet(B \ {r})
          /\ SumFunctionOnSet(g, B \ {r}) \in Int
          /\ SumFunctionOnSet(f, B) = f[r] + SumFunctionOnSet(g, B \ {r})
      BY <3>2, SumLeave
    <3> QED
      BY <3>1, <3>3
  <2> QED
    BY <1>1, <1>2, <1>3, <1>8, <2>2
<1>12. \A l \in LotId : HeldInLot(l)' = HeldInLot(l) - res[r].alloc[l]
  <2> SUFFICES ASSUME NEW l \in LotId
               PROVE  HeldInLot(l)' = HeldInLot(l) - res[r].alloc[l]
    OBVIOUS
  <2> DEFINE was == part(l)
             is == part2(l)
  <2>1. /\ was[r] = res[r].alloc[l]
        /\ IntOn(was, A) /\ \A q \in A : q # r => is[q] = was[q]
    BY <1>5, <1>6, <1>7 DEF IntOn
  <2>2. HeldInLot(l) = SumFunctionOnSet(was, A) /\ HeldInLot(l)' = SumFunctionOnSet(is, A')
    BY <1>9
  <2> HIDE DEF was, is
  <2>3. /\ SumFunctionOnSet(is, A \ {r}) \in Int
        /\ SumFunctionOnSet(was, A) = was[r] + SumFunctionOnSet(is, A \ {r})
    BY <1>1, <1>10, <2>1, SumLeave
  <2>4. was[r] \in Int
    BY <1>1, <2>1 DEF IntOn
  <2> QED
    BY <1>1, <2>1, <2>2, <2>3, <2>4
<1> QED
  BY <1>1, <1>11, <1>12 DEF FiniteHolds

LEMMA HoldsKept ==
  ASSUME res' = res
  PROVE  /\ ActiveHolds' = ActiveHolds /\ HeldAmount' = HeldAmount
         /\ \A l \in LotId : HeldInLot(l)' = HeldInLot(l)
BY DEF ActiveHolds, HeldAmount, HeldInLot
-----------------------------------------------------------------------------
(* Lots and holds.                                                         *)

(* Every active hold was taken in full from the lots, for an estimate.     *)
HoldIsAllocated == \A r \in ActiveHolds : SumFunction(res[r].alloc) = res[r].amount
HoldIsPriced == \A r \in ActiveHolds : res[r].amount \in Estimates /\ res[r].amount > 0

LotsInv == FiniteHolds /\ HoldIsAllocated /\ HoldIsPriced /\ LotsBackHolds

(* What a change of a lot does to its fields.                              *)
LEMMA LotFields ==
  ASSUME TypeOK, NEW l \in LotId, NEW x \in Int, NEW y \in Int
  PROVE  /\ [lots[l] EXCEPT !.reserved = x].reserved = x
         /\ [lots[l] EXCEPT !.reserved = x].remaining = lots[l].remaining
         /\ [lots[l] EXCEPT !.reserved = x].original = lots[l].original
         /\ [lots[l] EXCEPT !.remaining = y].reserved = lots[l].reserved
         /\ [lots[l] EXCEPT !.remaining = y].remaining = y
         /\ [lots[l] EXCEPT !.remaining = y].original = lots[l].original
         /\ [lots[l] EXCEPT !.reserved = x, !.remaining = y].reserved = x
         /\ [lots[l] EXCEPT !.reserved = x, !.remaining = y].remaining = y
         /\ [lots[l] EXCEPT !.reserved = x, !.remaining = y].original = lots[l].original
BY DEF TypeOK, Lot

LEMMA SpreadFacts ==
  ASSUME NEW amount \in Nat, NEW cap, NEW a \in Spread(amount, cap)
  PROVE  /\ a \in [LotId -> Nat] /\ SumFunction(a) = amount
         /\ \A l \in LotId : a[l] <= cap[l]
BY DEF Spread

LEMMA LotNumbers ==
  ASSUME TypeOK, NEW l \in LotId
  PROVE  /\ lots[l].original \in Nat /\ lots[l].remaining \in Int
         /\ lots[l].reserved \in Int
         /\ lots[l].expiresAt \in 0..Never
BY DEF TypeOK, Lot

(* Each lot l gets d[l] back and loses c[l].                               *)
LotsMoved(d, c) ==
  lots' = [l \in LotId |-> [lots[l] EXCEPT !.reserved = @ - d[l], !.remaining = @ - c[l]]]

LEMMA MovedFields ==
  ASSUME TypeOK, NEW d, NEW c, LotsMoved(d, c), NEW l \in LotId,
         d[l] \in Int, c[l] \in Int
  PROVE  /\ lots'[l].reserved = lots[l].reserved - d[l]
         /\ lots'[l].remaining = lots[l].remaining - c[l]
         /\ lots'[l].original = lots[l].original
<1> DEFINE x == lots[l].reserved - d[l]
           y == lots[l].remaining - c[l]
<1>1. x \in Int /\ y \in Int
  BY LotNumbers
<1>2. lots'[l] = [lots[l] EXCEPT !.reserved = x, !.remaining = y]
  BY DEF LotsMoved
<1> HIDE DEF x, y
<1>3. lots'[l].reserved = x /\ lots'[l].remaining = y /\ lots'[l].original = lots[l].original
  BY <1>1, <1>2, LotFields
<1> QED
  BY <1>3 DEF x, y

LEMMA AuthorizeLots ==
  ASSUME TypeOK, LotsInv, NEW r \in Requests, NEW est \in Estimates,
         AuthorizeBilling(r, est)
  PROVE  /\ LotsInv'
         /\ HeldAmount' = HeldAmount + est
<1>1. est \in Nat /\ est > 0 /\ now \in Nat
  BY WalletAssumption DEF TypeOK, AuthorizeBilling
<1>2. PICK a \in Spread(est, Allocatable) :
        /\ lots' = [l \in LotId |-> [lots[l] EXCEPT !.reserved = @ + a[l]]]
        /\ res' = [res EXCEPT ![r] = [status |-> "active", amount |-> est,
                                      createdAt |-> now, alloc |-> a]]
  BY DEF AuthorizeBilling
<1>3. /\ a \in [LotId -> Nat] /\ SumFunction(a) = est
      /\ \A l \in LotId : a[l] <= Allocatable[l]
  BY <1>1, <1>2, SpreadFacts
<1> DEFINE h == [status |-> "active", amount |-> est, createdAt |-> now, alloc |-> a]
<1>4. h \in Reservation /\ h.status = "active" /\ h.amount = est /\ h.alloc = a
  BY <1>1, <1>3 DEF Reservation
<1>5. res[r].status # "active" /\ res' = [res EXCEPT ![r] = h] /\ FiniteHolds
  BY <1>2 DEF AuthorizeBilling, LotsInv
<1>6. res'[r] = h /\ \A q \in Requests \ {r} : res'[q] = res[q]
  BY <1>5 DEF TypeOK
<1> HIDE DEF h
<1>7. /\ FiniteHolds' /\ ActiveHolds' = ActiveHolds \cup {r}
      /\ HeldAmount' = HeldAmount + est
      /\ \A l \in LotId : HeldInLot(l)' = HeldInLot(l) + a[l]
  BY <1>4, <1>5, HoldTaken
<1>8. HoldIsAllocated' /\ HoldIsPriced'
  <2> SUFFICES ASSUME NEW q \in ActiveHolds'
               PROVE  /\ SumFunction(res'[q].alloc) = res'[q].amount
                      /\ res'[q].amount \in Estimates /\ res'[q].amount > 0
    BY DEF HoldIsAllocated, HoldIsPriced
  <2>1. CASE q = r
    BY <1>1, <1>3, <1>4, <1>6, <2>1
  <2>2. CASE q # r
    <3>1. q \in ActiveHolds /\ q \in Requests
      BY <1>7, <2>2 DEF ActiveHolds
    <3> QED
      BY <1>6, <2>2, <3>1 DEF LotsInv, HoldIsAllocated, HoldIsPriced
  <2> QED
    BY <2>1, <2>2
<1>9. LotsBackHolds'
  <2> SUFFICES ASSUME NEW l \in LotId
               PROVE  /\ lots'[l].reserved = HeldInLot(l)'
                      /\ lots'[l].reserved <= lots'[l].remaining
                      /\ lots'[l].remaining <= lots'[l].original
    BY DEF LotsBackHolds
  <2>1. /\ lots[l].reserved = HeldInLot(l) /\ lots[l].reserved <= lots[l].remaining
        /\ lots[l].remaining <= lots[l].original
    BY DEF LotsInv, LotsBackHolds
  <2>2. /\ lots[l].original \in Nat /\ lots[l].remaining \in Int
        /\ lots[l].reserved \in Int /\ a[l] \in Nat
    BY <1>3, LotNumbers
  <2>3. lots[l].reserved + a[l] <= lots[l].remaining
    BY <1>3, <2>1, <2>2 DEF Allocatable, Unreserved
  <2>4. /\ lots'[l].reserved = lots[l].reserved + a[l]
        /\ lots'[l].remaining = lots[l].remaining
        /\ lots'[l].original = lots[l].original
    <3>1. lots[l].reserved + a[l] \in Int
      BY <2>2
    <3> QED
      BY <1>2, <2>2, <3>1, LotFields
  <2> QED
    BY <1>7, <2>1, <2>2, <2>3, <2>4
<1> QED
  BY <1>7, <1>8, <1>9 DEF LotsInv

(* The hold of r ends: each lot l gets the part of r back and loses c[l].  *)
LEMMA EndHoldLots ==
  ASSUME TypeOK, LotsInv, NEW r \in Requests, res[r].status = "active",
         NEW s \in {"settled", "released"}, res' = [res EXCEPT ![r].status = s],
         NEW c \in [LotId -> Nat], \A l \in LotId : c[l] <= res[r].alloc[l],
         \A l \in LotId : /\ lots'[l].reserved = lots[l].reserved - res[r].alloc[l]
                          /\ lots'[l].remaining = lots[l].remaining - c[l]
                          /\ lots'[l].original = lots[l].original
  PROVE  /\ LotsInv'
         /\ HeldAmount' = HeldAmount - res[r].amount
         /\ res[r].amount <= HeldAmount
<1>1. /\ FiniteHolds' /\ ActiveHolds' = ActiveHolds \ {r}
      /\ HeldAmount' = HeldAmount - res[r].amount
      /\ \A l \in LotId : HeldInLot(l)' = HeldInLot(l) - res[r].alloc[l]
  BY HoldEnded DEF LotsInv
<1>2. \A q \in ActiveHolds' : q \in ActiveHolds /\ res'[q] = res[q]
  BY <1>1 DEF ActiveHolds, TypeOK
<1>3. HoldIsAllocated' /\ HoldIsPriced'
  BY <1>2 DEF LotsInv, HoldIsAllocated, HoldIsPriced
<1>4. LotsBackHolds'
  <2> SUFFICES ASSUME NEW l \in LotId
               PROVE  /\ lots'[l].reserved = HeldInLot(l)'
                      /\ lots'[l].reserved <= lots'[l].remaining
                      /\ lots'[l].remaining <= lots'[l].original
    BY DEF LotsBackHolds
  <2>1. /\ lots[l].reserved = HeldInLot(l) /\ lots[l].reserved <= lots[l].remaining
        /\ lots[l].remaining <= lots[l].original
    BY DEF LotsInv, LotsBackHolds
  <2>2. /\ lots[l].original \in Nat /\ lots[l].remaining \in Int
        /\ lots[l].reserved \in Int /\ c[l] \in Nat
    BY LotNumbers
  <2>3. res[r].alloc[l] \in Nat /\ c[l] <= res[r].alloc[l]
    BY ReservationType
  <2> QED
    BY <1>1, <2>1, <2>2, <2>3
<1>5. r \in ActiveHolds
  BY DEF ActiveHolds
<1> QED
  BY <1>1, <1>3, <1>4, <1>5, HoldSumsNat DEF LotsInv

LEMMA ReleaseLots ==
  ASSUME TypeOK, LotsInv, NEW r \in Requests, ReleaseHold(r)
  PROVE  /\ LotsInv'
         /\ HeldAmount' = HeldAmount - res[r].amount
         /\ res[r].amount <= HeldAmount
<1> DEFINE c == [l \in LotId |-> 0]
           a == res[r].alloc
<1>1. c \in [LotId -> Nat] /\ a \in [LotId -> Nat]
  BY ReservationType
<1>2. lots' = [l \in LotId |-> [lots[l] EXCEPT !.reserved = @ - a[l]]]
  BY DEF ReleaseHold
<1>3. \A l \in LotId : c[l] = 0 /\ c[l] <= a[l]
  BY <1>1
<1> HIDE DEF a, c
<1>4. \A l \in LotId : /\ lots'[l].reserved = lots[l].reserved - a[l]
                       /\ lots'[l].remaining = lots[l].remaining - c[l]
                       /\ lots'[l].original = lots[l].original
  <2> SUFFICES ASSUME NEW l \in LotId
               PROVE  /\ lots'[l].reserved = lots[l].reserved - a[l]
                      /\ lots'[l].remaining = lots[l].remaining - c[l]
                      /\ lots'[l].original = lots[l].original
    OBVIOUS
  <2>1. lots[l].reserved - a[l] \in Int /\ lots[l].remaining \in Int
    BY <1>1, LotNumbers
  <2>2. lots'[l] = [lots[l] EXCEPT !.reserved = lots[l].reserved - a[l]]
    BY <1>2
  <2>3. lots[l].remaining - c[l] = lots[l].remaining
    BY <1>3, <2>1
  <2>4. /\ lots'[l].reserved = lots[l].reserved - a[l]
        /\ lots'[l].remaining = lots[l].remaining
        /\ lots'[l].original = lots[l].original
    BY <2>1, <2>2, LotFields
  <2> QED
    BY <2>3, <2>4
<1> QED
  BY <1>1, <1>3, <1>4, EndHoldLots DEF a, ReleaseHold

(* Settling an active hold, whichever branch the price takes.              *)
LEMMA SettleLots ==
  ASSUME TypeOK, LotsInv, NEW r \in Requests, NEW price \in FinalPrices,
         SettleReservation(r, price), res[r].status = "active"
  PROVE  /\ LotsInv'
         /\ HeldAmount' = HeldAmount - res[r].amount
         /\ res[r].amount <= HeldAmount
<1> DEFINE a == res[r].alloc
<1>1. a \in [LotId -> Nat] /\ price \in Nat
  BY ReservationType, WalletAssumption
<1>2. PICK c \in [LotId -> Nat] : LotsMoved(a, c) /\ \A l \in LotId : c[l] <= a[l]
  <2>1. CASE SettleWithin(r, price)
    <3>1. PICK c \in Spread(price, a) : LotsMoved(a, c)
      BY <2>1 DEF SettleWithin, LotsMoved
    <3>2. c \in [LotId -> Nat] /\ \A l \in LotId : c[l] <= a[l]
      BY <1>1, <3>1, SpreadFacts
    <3> QED
      BY <3>1, <3>2
  <2>2. CASE SettleOverage(r, price) \/ SettleShortfall(r, price)
    <3>1. LotsMoved(a, a)
      BY <2>2 DEF SettleOverage, SettleShortfall, ConsumeAllocations, LotsMoved
    <3> HIDE DEF a
    <3>2. \A l \in LotId : a[l] <= a[l]
      BY <1>1
    <3> QED
      BY <1>1, <3>1, <3>2
  <2> QED
    BY <2>1, <2>2 DEF SettleReservation
<1> HIDE DEF a
<1>4. \A l \in LotId : /\ lots'[l].reserved = lots[l].reserved - a[l]
                       /\ lots'[l].remaining = lots[l].remaining - c[l]
                       /\ lots'[l].original = lots[l].original
  BY <1>1, <1>2, MovedFields
<1>5. res' = [res EXCEPT ![r].status = "settled"]
  BY DEF SettleReservation, SettleWithin, SettleOverage, SettleShortfall, Settled
<1> QED
  BY <1>2, <1>4, <1>5, EndHoldLots DEF a

LEMMA IssueLots ==
  ASSUME TypeOK, LotsInv, res' = res, NEW amount \in Nat,
         NEW priority, NEW expiry, IssueLot(amount, priority, expiry)
  PROVE  LotsInv' /\ HeldAmount' = HeldAmount
<1>1. PICK l \in LotId : /\ lots[l].original <= 0
                         /\ lots' = [lots EXCEPT ![l] =
                              [priority |-> priority, expiresAt |-> expiry,
                               original |-> amount, remaining |-> amount, reserved |-> 0]]
  <2>1. \A l \in LotId : ~(lots[l].original > 0) => lots[l].original <= 0
    BY LotNumbers
  <2> QED
    BY <2>1 DEF IssueLot, Issued
<1>2. /\ ActiveHolds' = ActiveHolds /\ HeldAmount' = HeldAmount
      /\ \A k \in LotId : HeldInLot(k)' = HeldInLot(k)
  BY HoldsKept
<1>3. LotsBackHolds'
  <2> SUFFICES ASSUME NEW k \in LotId
               PROVE  /\ lots'[k].reserved = HeldInLot(k)'
                      /\ lots'[k].reserved <= lots'[k].remaining
                      /\ lots'[k].remaining <= lots'[k].original
    BY DEF LotsBackHolds
  <2>1. /\ lots[k].reserved = HeldInLot(k) /\ lots[k].reserved <= lots[k].remaining
        /\ lots[k].remaining <= lots[k].original
    BY DEF LotsInv, LotsBackHolds
  <2>2. HeldInLot(k) \in Nat
    BY HoldSumsNat DEF LotsInv
  <2>3. CASE k = l
    <3>1. /\ lots[l].original \in Nat /\ lots[l].remaining \in Int
          /\ lots[l].reserved \in Int
      BY LotNumbers
    <3>2. HeldInLot(k) = 0
      BY <1>1, <2>1, <2>2, <2>3, <3>1
    <3>3. lots'[k].reserved = 0 /\ lots'[k].remaining = amount /\ lots'[k].original = amount
      BY <1>1, <2>3 DEF TypeOK
    <3> QED
      BY <1>2, <3>2, <3>3
  <2>4. CASE k # l
    <3>1. lots'[k] = lots[k]
      BY <1>1, <2>4 DEF TypeOK
    <3> QED
      BY <1>2, <2>1, <3>1
  <2> QED
    BY <2>3, <2>4
<1> QED
  BY <1>2, <1>3 DEF LotsInv, FiniteHolds, HoldIsAllocated, HoldIsPriced

LEMMA VisitExpiredLots ==
  ASSUME TypeOK, LotsInv, NEW l \in LotId, VisitExpired(l)
  PROVE  LotsInv' /\ HeldAmount' = HeldAmount
<1>1. /\ ActiveHolds' = ActiveHolds /\ HeldAmount' = HeldAmount
      /\ \A k \in LotId : HeldInLot(k)' = HeldInLot(k)
      /\ res' = res
  BY HoldsKept DEF VisitExpired
<1>2. LotsBackHolds'
  <2> SUFFICES ASSUME NEW k \in LotId
               PROVE  /\ lots'[k].reserved = HeldInLot(k)'
                      /\ lots'[k].reserved <= lots'[k].remaining
                      /\ lots'[k].remaining <= lots'[k].original
    BY DEF LotsBackHolds
  <2>1. /\ lots[k].reserved = HeldInLot(k) /\ lots[k].reserved <= lots[k].remaining
        /\ lots[k].remaining <= lots[k].original
    BY DEF LotsInv, LotsBackHolds
  <2>2. CASE lots'[k] = lots[k]
    BY <1>1, <2>1, <2>2
  <2>3. CASE k = l /\ lots' = [lots EXCEPT ![l].remaining = @ - Unreserved(l)]
    <3>1. /\ lots[l].original \in Nat /\ lots[l].remaining \in Int
          /\ lots[l].reserved \in Int
      BY LotNumbers
    <3>2. /\ lots[l].remaining - Unreserved(l) = lots[l].reserved
      BY <3>1 DEF Unreserved
    <3>3. lots'[l] = [lots[l] EXCEPT !.remaining = lots[l].reserved]
      BY <2>3, <3>2 DEF TypeOK
    <3>4. /\ lots'[l].reserved = lots[l].reserved
          /\ lots'[l].remaining = lots[l].reserved
          /\ lots'[l].original = lots[l].original
      BY <3>1, <3>3, LotFields
    <3> QED
      BY <1>1, <2>1, <2>3, <3>1, <3>4
  <2>4. \/ lots'[k] = lots[k]
        \/ k = l /\ lots' = [lots EXCEPT ![l].remaining = @ - Unreserved(l)]
    <3>1. lots' = lots \/ lots' = [lots EXCEPT ![l].remaining = @ - Unreserved(l)]
      BY DEF VisitExpired
    <3>2. k # l => [lots EXCEPT ![l].remaining = @ - Unreserved(l)][k] = lots[k]
      BY DEF TypeOK
    <3>3. CASE k = l
      BY <3>1, <3>3, Zenon
    <3>4. CASE k # l
      BY <3>1, <3>2, <3>4, Zenon
    <3> QED
      BY <3>3, <3>4
  <2> QED
    BY <2>2, <2>3, <2>4
<1> QED
  BY <1>1, <1>2 DEF LotsInv, FiniteHolds, HoldIsAllocated, HoldIsPriced
-----------------------------------------------------------------------------
(* With no settlement after a release, a settlement finds an active hold.  *)
LEMMA SettlesActive ==
  ASSUME ~LateSettlement, NEW r \in Requests, NEW price, SettleReservation(r, price)
  PROVE  res[r].status = "active"
BY DEF SettleReservation, SettleWithin, SettleOverage, SettleShortfall, CanSettle

LEMMA LotsSame ==
  ASSUME LotsInv, res' = res, lots' = lots
  PROVE  LotsInv'
BY HoldsKept DEF LotsInv, LotsBackHolds, FiniteHolds, HoldIsAllocated, HoldIsPriced

LEMMA LotsStep ==
  ASSUME ~LateSettlement, TypeOK, LotsInv, [Next]_vars
  PROVE  LotsInv'
<1>1. ASSUME NEW k \in Keys, NEW a \in GrantAmounts,
             NEW p \in LotPriorities, NEW e \in Expiries, GrantCredits(k, a, p, e)
      PROVE  LotsInv'
  BY <1>1, WalletAssumption, IssueLots DEF GrantCredits
<1>2. ASSUME NEW r \in Requests, NEW est \in Estimates, AuthorizeBilling(r, est)
      PROVE  LotsInv'
  BY <1>2, AuthorizeLots
<1>3. ASSUME NEW r \in Requests, NEW price \in FinalPrices, SettleReservation(r, price)
      PROVE  LotsInv'
  BY <1>3, SettlesActive, SettleLots
<1>4. ASSUME NEW r \in Requests, ReleaseReservation(r) \/ VisitStale(r)
      PROVE  LotsInv'
  BY <1>4, ReleaseLots, LotsSame DEF ReleaseReservation, VisitStale
<1>5. ASSUME NEW l \in LotId, VisitExpired(l)
      PROVE  LotsInv'
  BY <1>5, VisitExpiredLots
<1>6. ASSUME NEW k \in Keys, NEW a \in RefundAmounts \cup CreditAmounts, RefundCredits(k, a) \/ AdjustCredit(k, a)
      PROVE  LotsInv'
  BY <1>6, WalletAssumption, IssueLots DEF RefundCredits, AdjustCredit
<1>7. ASSUME \/ ListStale \/ ListExpired \/ RebuildBalance \/ Tick
             \/ \E k \in Keys, a \in DebitAmounts : AdjustDebit(k, a)
             \/ \E s \in {"active", "frozen"} : SetStatus(s)
             \/ \E limit \in BudgetLimits : SetWorkspaceBudget(limit)
             \/ UNCHANGED vars
      PROVE  LotsInv'
  <2>1. res' = res /\ lots' = lots
    BY <1>7 DEF ListStale, ListExpired, RebuildBalance, Tick, AdjustDebit, SetStatus,
       SetWorkspaceBudget, vars
  <2> QED
    BY <2>1, LotsSame
<1> QED
  BY <1>1, <1>2, <1>3, <1>4, <1>5, <1>6, <1>7 DEF Next

LEMMA NoHoldYet ==
  ASSUME Init
  PROVE  /\ ActiveHolds = {} /\ FiniteHolds /\ HeldAmount = 0
         /\ \A l \in LotId : HeldInLot(l) = 0
<1>1. ActiveHolds = {}
  BY DEF Init, ActiveHolds, NoReservation
<1>2. FiniteHolds
  BY <1>1, FS_EmptySet DEF FiniteHolds
<1> QED
  BY <1>1, <1>2, SumDef DEF FiniteHolds, HeldAmount, HeldInLot

LEMMA LotsInit == Init => LotsInv
<1> SUFFICES ASSUME Init PROVE LotsInv
  OBVIOUS
<1>1. HoldIsAllocated /\ HoldIsPriced
  BY NoHoldYet DEF HoldIsAllocated, HoldIsPriced
<1>2. LotsBackHolds
  BY NoHoldYet DEF Init, NoLot, LotsBackHolds
<1> QED
  BY <1>1, <1>2, NoHoldYet DEF LotsInv

(* Where a settlement never follows the release of its hold, each lot is   *)
(* reserved for exactly the allocations of the active holds and holds them *)
(* in full, whatever the interleaving of authorizations, settlements,      *)
(* releases, grants and both sweeps: a credit is never promised twice.     *)
LEMMA LotsKept == ASSUME ~LateSettlement PROVE Spec => []LotsInv
<1>1. TypeOK /\ LotsInv /\ [Next]_vars => LotsInv'
  BY LotsStep
<1> QED
  BY <1>1, LotsInit, TypeCorrect, PTL DEF Spec

THEOREM LotBacking == ASSUME ~LateSettlement PROVE Spec => []LotsBackHolds
<1>1. LotsInv => LotsBackHolds
  BY DEF LotsInv
<1> QED
  BY <1>1, LotsKept, PTL
-----------------------------------------------------------------------------
(* No final price is above the hold it settles.                            *)
PricesWithinHolds == \A p \in FinalPrices, e \in Estimates : e > 0 => p <= e

LEMMA WithinHold ==
  ASSUME PricesWithinHolds, TypeOK, LotsInv, NEW r \in Requests, NEW price \in FinalPrices,
         res[r].status = "active"
  PROVE  price <= res[r].amount /\ ~SettleOverage(r, price) /\ ~SettleShortfall(r, price)
<1>1. r \in ActiveHolds
  BY DEF ActiveHolds
<1>2. price <= res[r].amount
  BY <1>1 DEF LotsInv, HoldIsPriced, PricesWithinHolds
<1>3. price \in Nat /\ res[r].amount \in Nat
  BY WalletAssumption, ReservationType
<1>4. ~(price - res[r].amount > 0)
  BY <1>2, <1>3
<1> QED
  BY <1>2, <1>4 DEF SettleOverage, SettleShortfall

(* A handler moves the budget by what it adds to spending and to holds.    *)
LEMMA BudgetMove ==
  ASSUME TypeOK, BudgetTracksHolds, NEW spent \in Int, NEW reserved \in Int,
         ChangeBudget(spent, reserved), HeldAmount \in Int,
         HeldAmount' = HeldAmount + reserved,
         budget # NoBudget => budget.spent + budget.reserved + (spent + reserved) <= budget.limit
  PROVE  BudgetTracksHolds'
<1> SUFFICES ASSUME budget' # NoBudget
             PROVE  /\ budget'.reserved = HeldAmount'
                    /\ budget'.spent + budget'.reserved <= budget'.limit
  BY DEF BudgetTracksHolds
<1>1. budget # NoBudget
  BY DEF ChangeBudget
<1>2. budget \in [limit: Nat, spent: Int, reserved: Int]
  BY <1>1 DEF TypeOK, Budget
<1>3. budget' = [budget EXCEPT !.spent = @ + spent, !.reserved = @ + reserved]
  BY <1>1 DEF ChangeBudget
<1>4. /\ budget.limit \in Nat /\ budget.spent \in Int /\ budget.reserved \in Int
      /\ budget'.limit = budget.limit /\ budget'.spent = budget.spent + spent
      /\ budget'.reserved = budget.reserved + reserved
  BY <1>2, <1>3
<1>5. budget.reserved = HeldAmount
  BY <1>1 DEF BudgetTracksHolds
<1>6. budget.spent + budget.reserved + (spent + reserved) <= budget.limit
  BY <1>1
<1> QED
  BY <1>4, <1>5, <1>6

LEMMA BudgetSame ==
  ASSUME BudgetTracksHolds, budget' = budget, HeldAmount' = HeldAmount
  PROVE  BudgetTracksHolds'
BY DEF BudgetTracksHolds

LEMMA BudgetParts ==
  ASSUME TypeOK, BudgetTracksHolds, budget # NoBudget
  PROVE  /\ budget.limit \in Nat /\ budget.spent \in Int /\ budget.reserved \in Int
         /\ budget.spent + budget.reserved <= budget.limit
BY DEF TypeOK, Budget, BudgetTracksHolds

LEMMA BudgetStep ==
  ASSUME ~LateSettlement, PricesWithinHolds, BudgetLimits = {},
         TypeOK, LotsInv, BudgetTracksHolds, [Next]_vars
  PROVE  BudgetTracksHolds'
<1>0. HeldAmount \in Nat
  BY HoldSumsNat DEF LotsInv
<1>1. ASSUME NEW k \in Keys, NEW a \in GrantAmounts,
             NEW p \in LotPriorities, NEW e \in Expiries, GrantCredits(k, a, p, e)
      PROVE  BudgetTracksHolds'
  BY <1>1, HoldsKept, BudgetSame DEF GrantCredits
<1>2. ASSUME NEW r \in Requests, NEW est \in Estimates, AuthorizeBilling(r, est)
      PROVE  BudgetTracksHolds'
  <2>1. HeldAmount' = HeldAmount + est /\ est \in Nat
    BY <1>2, AuthorizeLots, WalletAssumption
  <2>2. budget # NoBudget => budget.spent + budget.reserved + (0 + est) <= budget.limit
    <3>1. ChangeBudget(0, est) /\ ~OverBudget(est)
      BY <1>2 DEF AuthorizeBilling
    <3> QED
      BY <2>1, <3>1, BudgetParts DEF OverBudget
  <2>3. ChangeBudget(0, est) /\ 0 \in Int /\ est \in Int /\ HeldAmount \in Int
    BY <1>0, <1>2, <2>1 DEF AuthorizeBilling
  <2> QED
    BY <2>1, <2>2, <2>3, BudgetMove
<1>3. ASSUME NEW r \in Requests, NEW price \in FinalPrices, SettleReservation(r, price)
      PROVE  BudgetTracksHolds'
  <2> DEFINE held == res[r].amount
             back == -held
  <2>1. res[r].status = "active"
    BY <1>3, SettlesActive
  <2>2. SettleWithin(r, price) /\ price <= held
    BY <1>3, <2>1, WithinHold DEF SettleReservation
  <2>3. ChangeBudget(price, back)
    BY <2>2 DEF SettleWithin
  <2>4. HeldAmount' = HeldAmount - held /\ held \in Nat /\ price \in Nat
    BY <1>3, <2>1, SettleLots, ReservationType, WalletAssumption
  <2> HIDE DEF held
  <2>5. back \in Int /\ HeldAmount' = HeldAmount + back /\ price + back <= 0
    BY <1>0, <2>2, <2>4
  <2>6. budget # NoBudget => budget.spent + budget.reserved + (price + back) <= budget.limit
    BY <2>4, <2>5, BudgetParts
  <2> HIDE DEF back
  <2> QED
    BY <1>0, <2>3, <2>4, <2>5, <2>6, BudgetMove
<1>4. ASSUME NEW r \in Requests, ReleaseHold(r)
      PROVE  BudgetTracksHolds'
  <2> DEFINE held == res[r].amount
             back == -held
  <2>1. ChangeBudget(0, back)
    BY <1>4 DEF ReleaseHold
  <2>2. HeldAmount' = HeldAmount - held /\ held \in Nat
    BY <1>4, ReleaseLots, ReservationType
  <2> HIDE DEF held
  <2>3. back \in Int /\ HeldAmount' = HeldAmount + back /\ 0 + back <= 0
    BY <1>0, <2>2
  <2>4. budget # NoBudget => budget.spent + budget.reserved + (0 + back) <= budget.limit
    BY <2>2, <2>3, BudgetParts
  <2> HIDE DEF back
  <2> QED
    BY <1>0, <2>1, <2>3, <2>4, BudgetMove
<1>5. ASSUME NEW r \in Requests, ReleaseReservation(r) \/ VisitStale(r)
      PROVE  BudgetTracksHolds'
  BY <1>4, <1>5, HoldsKept, BudgetSame DEF ReleaseReservation, VisitStale
<1>6. ASSUME \/ \E l \in LotId : VisitExpired(l)
             \/ \E k \in Keys, a \in RefundAmounts : RefundCredits(k, a)
             \/ \E k \in Keys, a \in CreditAmounts : AdjustCredit(k, a)
             \/ \E k \in Keys, a \in DebitAmounts : AdjustDebit(k, a)
             \/ \E s \in {"active", "frozen"} : SetStatus(s)
             \/ ListStale \/ ListExpired \/ RebuildBalance \/ Tick \/ UNCHANGED vars
      PROVE  BudgetTracksHolds'
  <2>1. res' = res /\ budget' = budget
    BY <1>6 DEF VisitExpired, RefundCredits, AdjustCredit, AdjustDebit, SetStatus,
       ListStale, ListExpired, RebuildBalance, Tick, vars
  <2> QED
    BY <2>1, HoldsKept, BudgetSame
<1> QED
  BY <1>1, <1>2, <1>3, <1>5, <1>6 DEF Next

(* When prices stay within the holds, no settlement follows a release and  *)
(* the budget is not replaced in mid-period, the workspace budget reserves *)
(* exactly what the active reservations hold, and spending plus            *)
(* reservations never pass the hard limit.                                 *)
THEOREM BudgetIsKept ==
  ASSUME ~LateSettlement, PricesWithinHolds, BudgetLimits = {}
  PROVE  Spec => []BudgetTracksHolds
<1>1. Init => BudgetTracksHolds
  <2> SUFFICES ASSUME Init, budget # NoBudget
               PROVE  /\ budget.reserved = HeldAmount
                      /\ budget.spent + budget.reserved <= budget.limit
    BY DEF BudgetTracksHolds
  <2>1. budget.spent = 0 /\ budget.reserved = 0 /\ budget.limit \in Nat
    BY WalletAssumption DEF Init
  <2> QED
    BY <2>1, NoHoldYet
<1>2. TypeOK /\ LotsInv /\ BudgetTracksHolds /\ [Next]_vars => BudgetTracksHolds'
  BY BudgetStep
<1> QED
  BY <1>1, <1>2, LotsKept, TypeCorrect, PTL DEF Spec
-----------------------------------------------------------------------------
(* Expiry, and the unreserved credit in the lots.                          *)

(* No lot can lapse: nothing is granted with an expiry.                    *)
NeverLapse == Expiries \subseteq {Never}
NothingLapses == /\ expired = {}
                 /\ \A l \in LotId : Issued(l) => lots[l].expiresAt = Never

LEMMA IssueNever ==
  ASSUME TypeOK, NothingLapses, NEW amount, NEW priority,
         IssueLot(amount, priority, Never), expired' = expired
  PROVE  NothingLapses'
<1>1. PICK l \in LotId :
        lots' = [lots EXCEPT ![l] =
          [priority |-> priority, expiresAt |-> Never, original |-> amount,
           remaining |-> amount, reserved |-> 0]]
  BY DEF IssueLot
<1>2. \A k \in LotId : k # l => lots'[k] = lots[k]
  BY <1>1 DEF TypeOK
<1>3. lots'[l].expiresAt = Never
  BY <1>1 DEF TypeOK
<1> QED
  BY <1>2, <1>3 DEF NothingLapses, Issued

(* A handler that changes only what is reserved and what remains.          *)
LEMMA LapseSame ==
  ASSUME NothingLapses, expired' = expired,
         \A l \in LotId : /\ lots'[l].original = lots[l].original
                          /\ lots'[l].expiresAt = lots[l].expiresAt
  PROVE  NothingLapses'
BY DEF NothingLapses, Issued

LEMMA ExpiryFields ==
  ASSUME TypeOK, NEW l \in LotId, NEW x, NEW y
  PROVE  /\ [lots[l] EXCEPT !.reserved = x].expiresAt = lots[l].expiresAt
         /\ [lots[l] EXCEPT !.reserved = x].original = lots[l].original
         /\ [lots[l] EXCEPT !.reserved = x, !.remaining = y].expiresAt = lots[l].expiresAt
         /\ [lots[l] EXCEPT !.reserved = x, !.remaining = y].original = lots[l].original
BY DEF TypeOK, Lot

LEMMA LapseStep ==
  ASSUME NeverLapse, TypeOK, NothingLapses, [Next]_vars
  PROVE  NothingLapses'
<1>1. ASSUME NEW k \in Keys, NEW a \in GrantAmounts,
             NEW p \in LotPriorities, NEW e \in Expiries, GrantCredits(k, a, p, e)
      PROVE  NothingLapses'
  <2>1. e = Never
    BY DEF NeverLapse
  <2> QED
    BY <1>1, <2>1, IssueNever DEF GrantCredits
<1>2. ASSUME NEW k \in Keys, NEW a, RefundCredits(k, a) \/ AdjustCredit(k, a)
      PROVE  NothingLapses'
  <2>1. expired' = expired
    BY <1>2 DEF RefundCredits, AdjustCredit
  <2>2. CASE RefundCredits(k, a)
    <3>1. IssueLot(a, 4, Never)
      BY <2>2 DEF RefundCredits
    <3> QED
      BY <2>1, <3>1, IssueNever
  <2>3. CASE AdjustCredit(k, a)
    <3>1. IssueLot(a, 5, Never)
      BY <2>3 DEF AdjustCredit
    <3> QED
      BY <2>1, <3>1, IssueNever
  <2> QED
    BY <1>2, <2>2, <2>3
<1>3. ASSUME expired' = expired, NEW d,
             \/ lots' = [l \in LotId |-> [lots[l] EXCEPT !.reserved = @ + d[l]]]
             \/ lots' = [l \in LotId |-> [lots[l] EXCEPT !.reserved = @ - d[l]]]
      PROVE  NothingLapses'
  <2>1. \A l \in LotId : /\ lots'[l].original = lots[l].original
                         /\ lots'[l].expiresAt = lots[l].expiresAt
    <3> TAKE l \in LotId
    <3>1. \E x : lots'[l] = [lots[l] EXCEPT !.reserved = x]
      BY <1>3
    <3> QED
      BY <3>1, ExpiryFields
  <2> QED
    BY <1>3, <2>1, LapseSame
<1>4. ASSUME NEW r \in Requests, NEW est \in Estimates, AuthorizeBilling(r, est)
      PROVE  NothingLapses'
  <2>1. PICK a \in Spread(est, Allocatable) :
          lots' = [l \in LotId |-> [lots[l] EXCEPT !.reserved = @ + a[l]]]
    BY <1>4 DEF AuthorizeBilling
  <2>2. expired' = expired
    BY <1>4 DEF AuthorizeBilling
  <2> QED
    BY <1>3, <2>1, <2>2
<1>5. ASSUME NEW r \in Requests, NEW price \in FinalPrices, SettleReservation(r, price)
      PROVE  NothingLapses'
  <2>1. ASSUME NEW d, NEW c,
               lots' = [l \in LotId |-> [lots[l] EXCEPT !.reserved = @ - d[l],
                                                       !.remaining = @ - c[l]]]
        PROVE  \A l \in LotId : /\ lots'[l].original = lots[l].original
                                /\ lots'[l].expiresAt = lots[l].expiresAt
    <3> TAKE l \in LotId
    <3>1. \E x, y : lots'[l] = [lots[l] EXCEPT !.reserved = x, !.remaining = y]
      BY <2>1
    <3> QED
      BY <3>1, ExpiryFields
  <2>2. expired' = expired
    BY <1>5 DEF SettleReservation, SettleWithin, SettleOverage, SettleShortfall
  <2>3. CASE SettleWithin(r, price)
    <3>1. PICK c \in Spread(price, res[r].alloc) :
            lots' = [l \in LotId |-> [lots[l] EXCEPT
                       !.reserved = @ - res[r].alloc[l], !.remaining = @ - c[l]]]
      BY <2>3 DEF SettleWithin
    <3> QED
      BY <2>1, <2>2, <3>1, LapseSame
  <2>4. CASE SettleOverage(r, price) \/ SettleShortfall(r, price)
    <3>1. lots' = [l \in LotId |-> [lots[l] EXCEPT !.reserved = @ - res[r].alloc[l],
                                                  !.remaining = @ - res[r].alloc[l]]]
      BY <2>4 DEF SettleOverage, SettleShortfall, ConsumeAllocations
    <3> QED
      BY <2>1, <2>2, <3>1, LapseSame
  <2> QED
    BY <1>5, <2>3, <2>4 DEF SettleReservation
<1>6. ASSUME NEW r \in Requests, ReleaseHold(r)
      PROVE  NothingLapses'
  <2>1. lots' = [l \in LotId |-> [lots[l] EXCEPT !.reserved = @ - res[r].alloc[l]]]
    BY <1>6 DEF ReleaseHold
  <2>2. expired' = expired
    BY <1>6 DEF ReleaseHold
  <2> QED
    BY <1>3, <2>1, <2>2
<1>7. ASSUME UNCHANGED <<lots, expired>>
      PROVE  NothingLapses'
  BY <1>7 DEF NothingLapses, Issued
<1>8. ASSUME ListExpired
      PROVE  NothingLapses'
  <2>1. \A l \in LotId : Issued(l) => Unexpired(l)
    BY WalletAssumption DEF NothingLapses, Unexpired, TypeOK, Never
  <2> QED
    BY <1>8, <2>1 DEF ListExpired, NothingLapses, Issued
<1>9. \A l \in LotId : ~VisitExpired(l)
  BY DEF VisitExpired, NothingLapses
<1>10. ASSUME NEW r \in Requests, ReleaseReservation(r) \/ VisitStale(r)
       PROVE  NothingLapses'
  BY <1>6, <1>7, <1>10 DEF ReleaseReservation, VisitStale
<1>11. ASSUME \/ \E k \in Keys, a \in DebitAmounts : AdjustDebit(k, a)
              \/ \E s \in {"active", "frozen"} : SetStatus(s)
              \/ \E limit \in BudgetLimits : SetWorkspaceBudget(limit)
              \/ ListStale \/ RebuildBalance \/ Tick \/ UNCHANGED vars
       PROVE  NothingLapses'
  BY <1>7, <1>11 DEF AdjustDebit, SetStatus, SetWorkspaceBudget, ListStale,
     RebuildBalance, Tick, vars
<1> QED
  BY <1>1, <1>2, <1>4, <1>5, <1>8, <1>9, <1>10, <1>11 DEF Next

LEMMA NoLapse == ASSUME NeverLapse PROVE Spec => []NothingLapses
<1>1. Init => NothingLapses
  BY DEF Init, NothingLapses, Issued, NoLot
<1>2. TypeOK /\ NothingLapses /\ [Next]_vars => NothingLapses'
  BY LapseStep
<1> QED
  BY <1>1, <1>2, TypeCorrect, PTL DEF Spec
-----------------------------------------------------------------------------
(* The unreserved credit in all the lots.                                  *)
Free == SumFunction([l \in LotId |-> Unreserved(l)])

LEMMA LotIdFinite == IsFiniteSet(LotId)
BY WalletAssumption, FS_Interval DEF LotId

LEMMA LotSum ==
  ASSUME NEW a, DOMAIN a = LotId
  PROVE  SumFunction(a) = SumFunctionOnSet(a, LotId)
BY DEF SumFunction

LEMMA FreeInt ==
  ASSUME TypeOK
  PROVE  Free \in Int
<1> DEFINE u == [l \in LotId |-> Unreserved(l)]
<1>1. \A l \in LotId : u[l] \in Int
  BY LotNumbers DEF Unreserved
<1>2. Free = SumFunctionOnSet(u, LotId)
  BY LotSum DEF Free
<1> HIDE DEF u
<1> QED
  BY <1>1, <1>2, LotIdFinite, SumInt

(* Each lot frees back[l] and loses taken[l].                              *)
LEMMA FreeMoves ==
  ASSUME TypeOK, NEW back \in [LotId -> Nat], NEW taken \in [LotId -> Nat],
         \A l \in LotId : /\ lots'[l].reserved = lots[l].reserved - back[l]
                          /\ lots'[l].remaining = lots[l].remaining - taken[l]
  PROVE  Free' \in Int /\ Free' + SumFunction(taken) = Free + SumFunction(back)
<1> DEFINE u == [l \in LotId |-> Unreserved(l)]
           v == [l \in LotId |-> Unreserved(l)']
           m == [l \in LotId |-> Unreserved(l) + back[l]]
<1>1. \A l \in LotId : /\ u[l] \in Int /\ back[l] \in Int /\ taken[l] \in Int
                       /\ v[l] \in Int
                       /\ m[l] = u[l] + back[l] /\ m[l] = v[l] + taken[l]
  <2> SUFFICES ASSUME NEW l \in LotId
               PROVE  /\ u[l] \in Int /\ back[l] \in Int /\ taken[l] \in Int
                      /\ v[l] \in Int
                      /\ m[l] = u[l] + back[l] /\ m[l] = v[l] + taken[l]
    OBVIOUS
  <2>1. /\ lots[l].remaining \in Int /\ lots[l].reserved \in Int
        /\ back[l] \in Int /\ taken[l] \in Int
    BY LotNumbers
  <2>2. /\ lots'[l].reserved = lots[l].reserved - back[l]
        /\ lots'[l].remaining = lots[l].remaining - taken[l]
    OBVIOUS
  <2> QED
    BY <2>1, <2>2 DEF Unreserved
<1>2. /\ Free = SumFunctionOnSet(u, LotId) /\ Free' = SumFunctionOnSet(v, LotId)
      /\ SumFunction(back) = SumFunctionOnSet(back, LotId)
      /\ SumFunction(taken) = SumFunctionOnSet(taken, LotId)
  BY LotSum DEF Free
<1> HIDE DEF u, v, m
<1>3. SumFunctionOnSet(m, LotId) = SumFunctionOnSet(u, LotId) + SumFunctionOnSet(back, LotId)
  BY <1>1, LotIdFinite, SumPlus
<1>4. SumFunctionOnSet(m, LotId) = SumFunctionOnSet(v, LotId) + SumFunctionOnSet(taken, LotId)
  BY <1>1, LotIdFinite, SumPlus
<1>5. SumFunctionOnSet(v, LotId) \in Int
  BY <1>1, LotIdFinite, SumInt
<1> QED
  BY <1>2, <1>3, <1>4, <1>5

LEMMA FreeTaken ==
  ASSUME TypeOK, NEW a \in [LotId -> Nat], SumFunction(a) \in Int,
         lots' = [l \in LotId |-> [lots[l] EXCEPT !.reserved = @ + a[l]]]
  PROVE  Free' \in Int /\ Free = Free' + SumFunction(a)
<1> DEFINE u == [l \in LotId |-> Unreserved(l)]
           v == [l \in LotId |-> Unreserved(l)']
<1>1. \A l \in LotId : v[l] \in Int /\ a[l] \in Int /\ u[l] = v[l] + a[l]
  <2> SUFFICES ASSUME NEW l \in LotId
               PROVE  v[l] \in Int /\ a[l] \in Int /\ u[l] = v[l] + a[l]
    OBVIOUS
  <2>1. /\ lots[l].remaining \in Int /\ lots[l].reserved \in Int /\ a[l] \in Int
        /\ lots[l].reserved + a[l] \in Int
    BY LotNumbers
  <2>2. lots'[l] = [lots[l] EXCEPT !.reserved = lots[l].reserved + a[l]]
    OBVIOUS
  <2>3. /\ lots'[l].reserved = lots[l].reserved + a[l]
        /\ lots'[l].remaining = lots[l].remaining
    BY <2>1, <2>2, LotFields
  <2> QED
    BY <2>1, <2>3 DEF Unreserved
<1>2. /\ Free = SumFunctionOnSet(u, LotId) /\ Free' = SumFunctionOnSet(v, LotId)
      /\ SumFunction(a) = SumFunctionOnSet(a, LotId)
  BY LotSum DEF Free
<1> HIDE DEF u, v
<1>3. SumFunctionOnSet(u, LotId) = SumFunctionOnSet(v, LotId) + SumFunctionOnSet(a, LotId)
  BY <1>1, LotIdFinite, SumPlus
<1>4. SumFunctionOnSet(v, LotId) \in Int
  BY <1>1, LotIdFinite, SumInt
<1> QED
  BY <1>2, <1>3, <1>4

(* Only lot l changes.                                                     *)
LEMMA FreeChange ==
  ASSUME TypeOK, NEW l \in LotId, Unreserved(l)' \in Int,
         \A k \in LotId : k # l => lots'[k] = lots[k]
  PROVE  Free' = Free + (Unreserved(l)' - Unreserved(l))
<1> DEFINE u == [k \in LotId |-> Unreserved(k)]
           v == [k \in LotId |-> Unreserved(k)']
<1>1. \A k \in LotId : u[k] \in Int /\ (k # l => v[k] = u[k])
  BY LotNumbers DEF Unreserved
<1>2. v[l] = Unreserved(l)' /\ u[l] = Unreserved(l) /\ v[l] \in Int
  OBVIOUS
<1>3. Free = SumFunctionOnSet(u, LotId) /\ Free' = SumFunctionOnSet(v, LotId)
  BY LotSum DEF Free
<1> HIDE DEF u, v
<1>4. SumFunctionOnSet(v, LotId) = SumFunctionOnSet(u, LotId) + (v[l] - u[l])
  BY <1>1, <1>2, LotIdFinite, SumChange
<1> QED
  BY <1>2, <1>3, <1>4
-----------------------------------------------------------------------------
(* The balance and the replay of the ledger.                               *)

(* The lots and the balance lose credit together: no debit adjustment and  *)
(* no overage, the two that take from the balance alone.                   *)
Exact == DebitAmounts = {} /\ PricesWithinHolds

(* A lot that expires is still fully in the balance.                       *)
ExpiryIsExact == NeverLapse \/ Exact

(* The balance, the holds, the lots and the replay of the ledger move in   *)
(* step; an overage posts less than it takes, so only prices within the    *)
(* holds keep the replay.                                                  *)
BalanceInv ==
  /\ balance.reserved = HeldAmount
  /\ balance.available + balance.reserved = balance.total
  /\ balance.available <= Free
  /\ Exact => balance.available = Free
  /\ PricesWithinHolds => /\ projected.available = balance.available
                          /\ projected.reserved = balance.reserved
                          /\ projected.total = balance.total

LEMMA Saved ==
  ASSUME TypeOK, NEW x \in Int, NEW y \in Int, NEW z \in Int, y >= 0, z >= 0,
         SaveBalance(x, y, z)
  PROVE  balance'.available = x /\ balance'.reserved = y /\ balance'.total = z
<1>1. NonNeg(y) = y /\ NonNeg(z) = z
  BY DEF NonNeg
<1> QED
  BY <1>1 DEF SaveBalance

LEMMA ReplayFields ==
  ASSUME NEW p \in Totals, NEW e, NEW n \in Nat, e.amount = n, NEW q, q = Replay(p, e)
  PROVE  /\ e.entryType \in Inflow =>
              /\ q.available = p.available + n /\ q.reserved = p.reserved
              /\ q.total = p.total + n
         /\ e.entryType \in Outflow =>
              /\ q.available = p.available - n /\ q.reserved = p.reserved
              /\ q.total = p.total - n
         /\ e.entryType = "reservation" =>
              /\ q.available = p.available - n /\ q.reserved = p.reserved + n
              /\ q.total = p.total
         /\ e.entryType = "reservation_release" =>
              /\ q.available = p.available + n /\ q.reserved = p.reserved - n
              /\ q.total = p.total
         /\ e.entryType = "usage_settlement" =>
              /\ q.available = p.available /\ q.reserved = p.reserved - n
              /\ q.total = p.total - n
<1>1. p.available \in Int /\ p.reserved \in Int /\ p.total \in Int
  BY DEF Totals
<1> DEFINE da == Delta(e, Inflow \cup {"reservation_release"}, Outflow \cup {"reservation"})
           dr == Delta(e, {"reservation"}, {"reservation_release", "usage_settlement"})
           dt == Delta(e, Inflow, Outflow \cup {"usage_settlement"})
<1>2. q.available = p.available + da /\ q.reserved = p.reserved + dr /\ q.total = p.total + dt
  BY DEF Replay
<1>3. CASE e.entryType \in Inflow
  <2>1. da = n /\ dr = 0 /\ dt = n
    BY <1>3 DEF Delta, Inflow, Outflow
  <2> HIDE DEF da, dr, dt
  <2> QED
    BY <1>1, <1>2, <1>3, <2>1 DEF Inflow, Outflow
<1>4. CASE e.entryType \in Outflow
  <2>1. da = -n /\ dr = 0 /\ dt = -n
    BY <1>4 DEF Delta, Inflow, Outflow
  <2> HIDE DEF da, dr, dt
  <2> QED
    BY <1>1, <1>2, <1>4, <2>1 DEF Inflow, Outflow
<1>5. CASE e.entryType = "reservation"
  <2>1. da = -n /\ dr = n /\ dt = 0
    BY <1>5 DEF Delta, Inflow, Outflow
  <2> HIDE DEF da, dr, dt
  <2> QED
    BY <1>1, <1>2, <1>5, <2>1 DEF Inflow, Outflow
<1>6. CASE e.entryType = "reservation_release"
  <2>1. da = n /\ dr = -n /\ dt = 0
    BY <1>6 DEF Delta, Inflow, Outflow
  <2> HIDE DEF da, dr, dt
  <2> QED
    BY <1>1, <1>2, <1>6, <2>1 DEF Inflow, Outflow
<1>7. CASE e.entryType = "usage_settlement"
  <2>1. da = 0 /\ dr = -n /\ dt = -n
    BY <1>7 DEF Delta, Inflow, Outflow
  <2> HIDE DEF da, dr, dt
  <2> QED
    BY <1>1, <1>2, <1>7, <2>1 DEF Inflow, Outflow
<1> QED
  BY <1>3, <1>4, <1>5, <1>6, <1>7

(* The replay moves as the balance does.                                   *)
Replays(a, h) ==
  /\ projected'.available = projected.available + a
  /\ projected'.reserved = projected.reserved + h
  /\ projected'.total = projected.total + (a + h)

LEMMA PostReplays ==
  ASSUME TypeOK, NEW type \in EntryTypes, NEW n \in Nat, NEW ref \in RefIds, NEW seq \in Nat,
         Post(Entry(type, n, ref, seq))
  PROVE  /\ type \in Inflow => Replays(n, 0)
         /\ type \in Outflow => Replays(-n, 0)
         /\ type = "reservation" => Replays(-n, n)
         /\ type = "reservation_release" => Replays(n, -n)
         /\ type = "usage_settlement" => Replays(0, -n)
<1> DEFINE e == Entry(type, n, ref, seq)
<1>1. e.amount = n /\ e.entryType = type
  BY EntryType
<1>2. projected \in Totals /\ projected' = Replay(projected, e)
  BY DEF Post, TypeOK
<1> HIDE DEF e
<1>3. projected.available \in Int /\ projected.reserved \in Int /\ projected.total \in Int
  BY <1>2 DEF Totals
<1>4. CASE type \in Inflow
  BY <1>1, <1>2, <1>3, <1>4, ReplayFields DEF Replays, Inflow, Outflow
<1>5. CASE type \in Outflow
  BY <1>1, <1>2, <1>3, <1>5, ReplayFields DEF Replays, Inflow, Outflow
<1>6. CASE type = "reservation"
  BY <1>1, <1>2, <1>3, <1>6, ReplayFields DEF Replays, Inflow, Outflow
<1>7. CASE type = "reservation_release"
  BY <1>1, <1>2, <1>3, <1>7, ReplayFields DEF Replays, Inflow, Outflow
<1>8. CASE type = "usage_settlement"
  BY <1>1, <1>2, <1>3, <1>8, ReplayFields DEF Replays, Inflow, Outflow
<1> QED
  BY <1>4, <1>5, <1>6, <1>7, <1>8

(* The numbers the balance steps compute with.                             *)
LEMMA BalanceNumbers ==
  ASSUME TypeOK, LotsInv
  PROVE  /\ balance.available \in Nat /\ balance.reserved \in Nat /\ balance.total \in Int
         /\ HeldAmount \in Nat /\ Free \in Int
         /\ projected.available \in Int /\ projected.reserved \in Int
         /\ projected.total \in Int
BY BalanceType, HoldSumsNat, FreeInt DEF LotsInv, TypeOK, Totals

(* A handler that moves the available balance by a, the holds by h and the *)
(* unreserved credit by f.                                                 *)
LEMMA BalanceMoves ==
  ASSUME TypeOK, LotsInv, BalanceInv, NEW a \in Int, NEW h \in Int, NEW f \in Int,
         balance'.available = balance.available + a,
         balance'.reserved = balance.reserved + h,
         balance'.total = balance.total + (a + h),
         HeldAmount' = HeldAmount + h, Free' = Free + f,
         a <= f, Exact => a = f, PricesWithinHolds => Replays(a, h)
  PROVE  BalanceInv'
<1>1. /\ balance.available \in Nat /\ balance.reserved \in Nat /\ balance.total \in Int
      /\ HeldAmount \in Nat /\ Free \in Int
  BY BalanceNumbers
<1>2. /\ projected.available \in Int /\ projected.reserved \in Int
      /\ projected.total \in Int
  BY BalanceNumbers
<1>3. balance'.reserved = HeldAmount'
  BY <1>1 DEF BalanceInv
<1>4. balance'.available + balance'.reserved = balance'.total
  BY <1>1 DEF BalanceInv
<1>5. balance'.available <= Free'
  BY <1>1 DEF BalanceInv
<1>6. Exact => balance'.available = Free'
  BY <1>1 DEF BalanceInv
<1>7. PricesWithinHolds => /\ projected'.available = balance'.available
                           /\ projected'.reserved = balance'.reserved
                           /\ projected'.total = balance'.total
  BY <1>1, <1>2 DEF BalanceInv, Replays
<1> QED
  BY <1>3, <1>4, <1>5, <1>6, <1>7 DEF BalanceInv

LEMMA BalanceSame ==
  ASSUME BalanceInv, balance' = balance, lots' = lots, res' = res, projected' = projected
  PROVE  BalanceInv'
<1>1. HeldAmount' = HeldAmount
  BY HoldsKept
<1>2. Free' = Free
  BY DEF Free, Unreserved
<1> QED
  BY <1>1, <1>2 DEF BalanceInv
LEMMA SumZero ==
  SumFunction([l \in LotId |-> 0]) = 0
<1> DEFINE z == [l \in LotId |-> 0]
<1>1. \A l \in LotId : z[l] \in Int /\ z[l] = z[l] + z[l]
  OBVIOUS
<1>2. SumFunction(z) = SumFunctionOnSet(z, LotId)
  BY LotSum
<1> HIDE DEF z
<1>3. SumFunctionOnSet(z, LotId) \in Int
  BY <1>1, LotIdFinite, SumInt
<1>4. SumFunctionOnSet(z, LotId) = SumFunctionOnSet(z, LotId) + SumFunctionOnSet(z, LotId)
  BY <1>1, LotIdFinite, SumPlus
<1>5. \A n \in Int : n = n + n => n = 0
  OBVIOUS
<1> QED
  BY <1>2, <1>3, <1>4, <1>5, Zenon DEF z
-----------------------------------------------------------------------------
(* The handlers keep the balance.                                          *)

(* A new lot: the balance and the unreserved credit grow alike.            *)
LEMMA IssueBalance ==
  ASSUME TypeOK, LotsInv, BalanceInv, res' = res, NEW amount \in Nat,
         NEW priority, NEW expiry, IssueLot(amount, priority, expiry),
         NEW type \in Inflow, NEW ref \in RefIds,
         SaveBalance(balance.available + amount, balance.reserved, balance.total + amount),
         Post(Entry(type, amount, ref, NextSequence))
  PROVE  BalanceInv'
<1>1. /\ balance.available \in Nat /\ balance.reserved \in Nat /\ balance.total \in Int
      /\ HeldAmount \in Nat /\ Free \in Int /\ NextSequence \in Nat
  BY BalanceNumbers, BalanceType
<1>2. balance.available + balance.reserved = balance.total
  BY DEF BalanceInv
<1>3. /\ balance'.available = balance.available + amount
      /\ balance'.reserved = balance.reserved + 0
      /\ balance'.total = balance.total + (amount + 0)
  <2>1. /\ balance.available + amount \in Int /\ balance.total + amount \in Int
        /\ balance.total + amount >= 0 /\ balance.reserved \in Int /\ balance.reserved >= 0
    BY <1>1, <1>2
  <2>2. /\ balance'.available = balance.available + amount
        /\ balance'.reserved = balance.reserved
        /\ balance'.total = balance.total + amount
    BY <2>1, Saved
  <2> QED
    BY <1>1, <2>2
<1>4. HeldAmount' = HeldAmount + 0
  <2>1. HeldAmount' = HeldAmount
    BY HoldsKept
  <2> QED
    BY <1>1, <2>1
<1>5. Free' = Free + amount
  <2>1. PICK l \in LotId : /\ ~Issued(l)
                           /\ lots' = [lots EXCEPT ![l] =
                                [priority |-> priority, expiresAt |-> expiry,
                                 original |-> amount, remaining |-> amount, reserved |-> 0]]
    BY DEF IssueLot
  <2>2. \A k \in LotId : k # l => lots'[k] = lots[k]
    BY <2>1 DEF TypeOK
  <2>3. Unreserved(l) = 0
    <3>1. /\ lots[l].original \in Nat /\ lots[l].remaining \in Int
          /\ lots[l].reserved \in Int
      BY LotNumbers
    <3>2. lots[l].original = 0
      BY <2>1, <3>1 DEF Issued
    <3>3. lots[l].reserved \in Nat /\ lots[l].reserved <= lots[l].remaining
          /\ lots[l].remaining <= lots[l].original
      BY HoldSumsNat DEF LotsInv, LotsBackHolds
    <3> QED
      BY <3>1, <3>2, <3>3 DEF Unreserved
  <2>4. Unreserved(l)' = amount
    <3>1. lots'[l].remaining = amount /\ lots'[l].reserved = 0
      BY <2>1 DEF TypeOK
    <3> QED
      BY <3>1 DEF Unreserved
  <2>5. Free' = Free + (Unreserved(l)' - Unreserved(l))
    <3>1. Unreserved(l)' \in Int
      BY <2>4
    <3> QED
      BY <2>2, <3>1, FreeChange
  <2>6. Unreserved(l)' - Unreserved(l) = amount
    BY <2>3, <2>4
  <2> QED
    BY <2>5, <2>6
<1>6. Replays(amount, 0)
  BY <1>1, PostReplays DEF Inflow, EntryTypes
<1>7. amount <= amount /\ 0 \in Int /\ amount \in Int
  OBVIOUS
<1> QED
  BY <1>3, <1>4, <1>5, <1>6, <1>7, BalanceMoves

LEMMA AuthorizeBalance ==
  ASSUME TypeOK, LotsInv, BalanceInv, NEW r \in Requests, NEW est \in Estimates,
         AuthorizeBilling(r, est)
  PROVE  BalanceInv'
<1> DEFINE a == -est
<1>1. /\ balance.available \in Nat /\ balance.reserved \in Nat /\ balance.total \in Int
      /\ HeldAmount \in Nat /\ Free \in Int /\ NextSequence \in Nat
      /\ est \in Nat
  BY BalanceNumbers, BalanceType, WalletAssumption
<1>2. /\ balance.available + balance.reserved = balance.total /\ balance.available >= est
  BY DEF BalanceInv, AuthorizeBilling
<1>3. /\ balance'.available = balance.available + a
      /\ balance'.reserved = balance.reserved + est
      /\ balance'.total = balance.total + (a + est)
  <2>1. NonNeg(balance.available - est) = balance.available - est
    BY <1>1, <1>2 DEF NonNeg
  <2>2. /\ balance.available - est \in Int
        /\ balance.reserved + est \in Int /\ balance.reserved + est >= 0
        /\ balance.total >= 0
    BY <1>1, <1>2
  <2>3. SaveBalance(balance.available - est, balance.reserved + est, balance.total)
    BY <2>1, Zenon DEF AuthorizeBilling
  <2>4. /\ balance'.available = balance.available - est
        /\ balance'.reserved = balance.reserved + est
        /\ balance'.total = balance.total
    BY <1>1, <2>2, <2>3, Saved
  <2> QED
    BY <1>1, <2>4
<1>4. HeldAmount' = HeldAmount + est
  BY AuthorizeLots
<1>5. Free' = Free + a
  <2>1. PICK x \in Spread(est, Allocatable) :
          lots' = [l \in LotId |-> [lots[l] EXCEPT !.reserved = @ + x[l]]]
    BY DEF AuthorizeBilling
  <2>2. x \in [LotId -> Nat] /\ SumFunction(x) = est
    BY <1>1, <2>1, SpreadFacts
  <2>3. Free = Free' + est /\ Free' \in Int
    <3>1. SumFunction(x) \in Int
      BY <1>1, <2>2
    <3>2. Free' \in Int /\ Free = Free' + SumFunction(x)
      BY <2>1, <2>2, <3>1, FreeTaken, Zenon
    <3> QED
      BY <2>2, <3>2
  <2>4. \A i, j \in Int, z \in Nat : i = j + z => j = i + (-z)
    OBVIOUS
  <2> QED
    BY <1>1, <2>3, <2>4, Zenon
<1>6. Replays(a, est)
  <2>1. Post(Entry("reservation", est, r, NextSequence))
    BY DEF AuthorizeBilling
  <2>2. "reservation" \in EntryTypes /\ r \in RefIds
    BY DEF EntryTypes, RefIds
  <2> QED
    BY <1>1, <2>1, <2>2, PostReplays
<1>7. a <= a /\ a \in Int /\ est \in Int
  BY <1>1
<1> HIDE DEF a
<1> QED
  BY <1>3, <1>4, <1>5, <1>6, <1>7, BalanceMoves

LEMMA ReleaseBalance ==
  ASSUME TypeOK, LotsInv, BalanceInv, NEW r \in Requests, ReleaseHold(r)
  PROVE  BalanceInv'
<1> DEFINE held == res[r].amount
           h == -held
           back == res[r].alloc
           none == [l \in LotId |-> 0]
<1>1. /\ balance.available \in Nat /\ balance.reserved \in Nat /\ balance.total \in Int
      /\ HeldAmount \in Nat /\ Free \in Int /\ NextSequence \in Nat
      /\ held \in Nat /\ back \in [LotId -> Nat]
  BY BalanceNumbers, BalanceType, ReservationType
<1>2. /\ balance.available + balance.reserved = balance.total /\ balance.reserved = HeldAmount
  BY DEF BalanceInv
<1>3. HeldAmount' = HeldAmount - held /\ held <= HeldAmount
  BY ReleaseLots
<1>4. /\ SaveBalance(balance.available + held, balance.reserved - held, balance.total)
      /\ Post(Entry("reservation_release", held, r, NextSequence))
      /\ lots' = [l \in LotId |-> [lots[l] EXCEPT !.reserved = @ - back[l]]]
  BY DEF ReleaseHold
<1>5. SumFunction(back) = held
  BY DEF ReleaseHold, ActiveHolds, LotsInv, HoldIsAllocated
<1> HIDE DEF held, back
<1>6. /\ balance'.available = balance.available + held
      /\ balance'.reserved = balance.reserved + h
      /\ balance'.total = balance.total + (held + h)
  <2>1. /\ balance.available + held \in Int
        /\ balance.reserved - held \in Int /\ balance.reserved - held >= 0
        /\ balance.total >= 0
    BY <1>1, <1>2, <1>3
  <2>2. /\ balance'.available = balance.available + held
        /\ balance'.reserved = balance.reserved - held
        /\ balance'.total = balance.total
    BY <1>1, <1>4, <2>1, Saved
  <2> QED
    BY <1>1, <2>2
<1>7. HeldAmount' = HeldAmount + h
  BY <1>1, <1>3
<1>8. none \in [LotId -> Nat] /\ SumFunction(none) = 0 /\ \A l \in LotId : none[l] = 0
  BY SumZero
<1> HIDE DEF none
<1>9. Free' = Free + held
  <2>1. \A l \in LotId : /\ lots'[l].reserved = lots[l].reserved - back[l]
                         /\ lots'[l].remaining = lots[l].remaining - none[l]
    <3> TAKE l \in LotId
    <3>1. lots[l].reserved - back[l] \in Int /\ lots[l].remaining \in Int
      BY <1>1, LotNumbers
    <3>2. lots'[l] = [lots[l] EXCEPT !.reserved = lots[l].reserved - back[l]]
      BY <1>4
    <3>3. lots[l].remaining - none[l] = lots[l].remaining
      BY <1>8, <3>1
    <3>4. /\ lots'[l].reserved = lots[l].reserved - back[l]
          /\ lots'[l].remaining = lots[l].remaining
      BY <3>1, <3>2, LotFields
    <3> QED
      BY <3>3, <3>4
  <2>2. Free' \in Int /\ Free' + 0 = Free + held
    BY <1>1, <1>5, <1>8, <2>1, FreeMoves
  <2> QED
    BY <2>2
<1>10. Replays(held, h)
  <2>1. "reservation_release" \in EntryTypes /\ r \in RefIds
    BY DEF EntryTypes, RefIds
  <2> QED
    BY <1>1, <1>4, <2>1, PostReplays
<1>11. held <= held /\ h \in Int /\ held \in Int
  BY <1>1
<1> HIDE DEF h
<1> QED
  BY <1>6, <1>7, <1>9, <1>10, <1>11, BalanceMoves
-----------------------------------------------------------------------------
(* What a settlement of an active hold does to the lots: the hold goes     *)
(* back and c of it is consumed.                                           *)
LEMMA SettleFree ==
  ASSUME TypeOK, LotsInv, NEW r \in Requests, res[r].status = "active",
         NEW c \in [LotId -> Nat], NEW spent \in Nat, SumFunction(c) = spent,
         LotsMoved(res[r].alloc, c)
  PROVE  Free' \in Int /\ Free' + spent = Free + res[r].amount
<1> DEFINE held == res[r].amount
           back == res[r].alloc
<1>1. back \in [LotId -> Nat] /\ SumFunction(back) = held
  BY ReservationType DEF ActiveHolds, LotsInv, HoldIsAllocated
<1>2. LotsMoved(back, c)
  OBVIOUS
<1> HIDE DEF back, held
<1>3. \A l \in LotId : /\ lots'[l].reserved = lots[l].reserved - back[l]
                       /\ lots'[l].remaining = lots[l].remaining - c[l]
  BY <1>1, <1>2, MovedFields
<1>4. Free' \in Int /\ Free' + SumFunction(c) = Free + SumFunction(back)
  BY <1>1, <1>3, FreeMoves, Zenon
<1> QED
  BY <1>1, <1>4 DEF held

(* The three ways SettleWithin posts replay alike.                         *)
LEMMA SettleReplays ==
  ASSUME TypeOK, NEW r \in Requests, NEW price \in FinalPrices, SettleWithin(r, price)
  PROVE  Replays(res[r].amount - price, -res[r].amount)
<1> DEFINE held == res[r].amount
           freed == held - price
           post == Entry("usage_settlement", price, r, NextSequence)
           release == Entry("reservation_release", freed, r, NextSequence + 1)
<1>1. /\ price \in Nat /\ held \in Nat /\ price <= held
      /\ NextSequence \in Nat /\ NextSequence + 1 \in Nat
  BY WalletAssumption, ReservationType, BalanceType DEF SettleWithin
<1>2. /\ projected \in Totals
      /\ projected.available \in Int /\ projected.reserved \in Int /\ projected.total \in Int
  BY DEF TypeOK, Totals
<1>3. \/ price > 0 /\ freed > 0 /\ projected' = Replay(Replay(projected, post), release)
      \/ price > 0 /\ freed = 0 /\ Post(post)
      \/ price = 0 /\ Post(release)
  BY DEF SettleWithin
<1>4. r \in RefIds /\ "usage_settlement" \in EntryTypes /\ "reservation_release" \in EntryTypes
  BY DEF RefIds, EntryTypes
<1> HIDE DEF held
<1>5. freed \in Nat
  BY <1>1
<1>6. CASE price > 0 /\ freed > 0 /\ projected' = Replay(Replay(projected, post), release)
  <2> DEFINE q == Replay(projected, post)
  <2>1. post.amount = price /\ post.entryType = "usage_settlement"
    BY <1>1, <1>4, EntryType
  <2>2. release.amount = freed /\ release.entryType = "reservation_release"
    BY <1>1, <1>4, <1>5, EntryType
  <2>3. projected' = Replay(q, release)
    BY <1>6
  <2> HIDE DEF post, release
  <2>4. q \in Totals
    BY <1>1, <1>2, <2>1, ReplayType
  <2>5. /\ q.available = projected.available /\ q.reserved = projected.reserved - price
        /\ q.total = projected.total - price
    BY <1>1, <1>2, <2>1, ReplayFields
  <2> HIDE DEF q
  <2>6. /\ projected'.available = q.available + freed
        /\ projected'.reserved = q.reserved - freed
        /\ projected'.total = q.total
    BY <1>5, <2>2, <2>3, <2>4, ReplayFields
  <2> QED
    BY <1>1, <1>2, <2>5, <2>6 DEF Replays, held
<1>7. CASE price > 0 /\ freed = 0 /\ Post(post)
  <2>1. Replays(0, -price)
    BY <1>1, <1>4, <1>7, PostReplays
  <2>2. held = price
    BY <1>1, <1>7
  <2> QED
    BY <1>7, <2>1, <2>2 DEF held
<1>8. CASE price = 0 /\ Post(release)
  <2>1. Replays(freed, -freed)
    BY <1>1, <1>4, <1>5, <1>8, PostReplays
  <2>2. freed = held
    BY <1>1, <1>8
  <2> QED
    BY <2>1, <2>2 DEF held
<1> QED
  BY <1>3, <1>6, <1>7, <1>8

(* A settlement within the hold frees what it does not consume.            *)
LEMMA SettleWithinBalance ==
  ASSUME TypeOK, LotsInv, BalanceInv, NEW r \in Requests, NEW price \in FinalPrices,
         SettleWithin(r, price), res[r].status = "active"
  PROVE  BalanceInv'
<1> DEFINE held == res[r].amount
           freed == held - price
           h == -held
<1>1. /\ balance.available \in Nat /\ balance.reserved \in Nat /\ balance.total \in Int
      /\ HeldAmount \in Nat /\ Free \in Int
      /\ price \in Nat /\ held \in Nat /\ price <= held
  BY BalanceNumbers, WalletAssumption, ReservationType DEF SettleWithin
<1>2. /\ balance.available + balance.reserved = balance.total /\ balance.reserved = HeldAmount
  BY DEF BalanceInv
<1>3. HeldAmount' = HeldAmount - held /\ held <= HeldAmount
  BY SettleLots DEF SettleReservation
<1>4. SaveBalance(balance.available + freed, balance.reserved - held, balance.total - price)
  BY DEF SettleWithin
<1>5. PICK c \in Spread(price, res[r].alloc) : LotsMoved(res[r].alloc, c)
  BY DEF SettleWithin, LotsMoved
<1>6. Free' \in Int /\ Free' + price = Free + held
  <2>1. c \in [LotId -> Nat] /\ SumFunction(c) = price
    BY <1>1, <1>5, SpreadFacts
  <2> QED
    BY <1>1, <1>5, <2>1, SettleFree, Zenon
<1>7. Replays(freed, h)
  BY SettleReplays
<1> HIDE DEF held
<1>8. /\ balance'.available = balance.available + freed
      /\ balance'.reserved = balance.reserved + h
      /\ balance'.total = balance.total + (freed + h)
  <2>1. /\ balance.available + freed \in Int
        /\ balance.reserved - held \in Int /\ balance.reserved - held >= 0
        /\ balance.total - price \in Int /\ balance.total - price >= 0
    BY <1>1, <1>2, <1>3
  <2>2. /\ balance'.available = balance.available + freed
        /\ balance'.reserved = balance.reserved - held
        /\ balance'.total = balance.total - price
    BY <1>4, <2>1, Saved, Zenon
  <2> QED
    BY <1>1, <2>2
<1>9. HeldAmount' = HeldAmount + h /\ Free' = Free + freed
  <2>1. Free' = Free + freed
    <3>1. Free' \in Int /\ Free \in Int /\ price \in Nat /\ held \in Nat
      BY <1>1, <1>6
    <3>2. Free' + price = Free + held
      BY <1>6
    <3>3. PICK x, y \in Int : x = Free' /\ y = Free
      BY <3>1
    <3>4. x + price = y + held
      BY <3>2, <3>3
    <3>5. x = y + (held - price)
      BY <3>1, <3>4
    <3> QED
      BY <3>3, <3>5
  <2>2. HeldAmount' = HeldAmount + h
    BY <1>1, <1>3
  <2> QED
    BY <2>1, <2>2
<1>10. freed <= freed /\ h \in Int /\ freed \in Int
  BY <1>1
<1> HIDE DEF h, freed
<1> QED
  BY <1>7, <1>8, <1>9, <1>10, BalanceMoves

(* A price beyond the hold: the lots lose the hold and no more, while an   *)
(* overage also takes the extra from the balance.                          *)
LEMMA SettleBeyondBalance ==
  ASSUME TypeOK, LotsInv, BalanceInv, NEW r \in Requests, NEW price \in FinalPrices,
         SettleOverage(r, price) \/ SettleShortfall(r, price), res[r].status = "active"
  PROVE  BalanceInv'
<1> DEFINE held == res[r].amount
           extra == price - held
           h == -held
<1>1. /\ balance.available \in Nat /\ balance.reserved \in Nat /\ balance.total \in Int
      /\ HeldAmount \in Nat /\ Free \in Int
      /\ price \in Nat /\ held \in Nat
  BY BalanceNumbers, WalletAssumption, ReservationType
<1>2. /\ balance.available + balance.reserved = balance.total /\ balance.reserved = HeldAmount
  BY DEF BalanceInv
<1>3. HeldAmount' = HeldAmount - held /\ held <= HeldAmount
  BY SettleLots DEF SettleReservation
<1>4. ~PricesWithinHolds /\ ~Exact
  BY WithinHold DEF Exact
<1>5. Free' \in Int /\ Free' + held = Free + held
  <2>1. res[r].alloc \in [LotId -> Nat] /\ SumFunction(res[r].alloc) = held
    BY ReservationType DEF ActiveHolds, LotsInv, HoldIsAllocated
  <2>2. LotsMoved(res[r].alloc, res[r].alloc)
    BY DEF SettleOverage, SettleShortfall, ConsumeAllocations, LotsMoved
  <2> QED
    BY <1>1, <2>1, <2>2, SettleFree, Zenon
<1>6. \/ /\ balance.available >= extra /\ extra > 0
         /\ SaveBalance(balance.available - extra, balance.reserved - held,
                        balance.total - price)
      \/ /\ SaveBalance(balance.available, balance.reserved - held, balance.total - held)
  BY DEF SettleOverage, SettleShortfall
<1> HIDE DEF held
<1>7. HeldAmount' = HeldAmount + h /\ Free' = Free + 0 /\ h \in Int
  <2>1. \A x, y \in Int, m \in Nat : x + m = y + m => x = y + 0
    OBVIOUS
  <2>2. Free' = Free + 0
    BY <1>1, <1>5, <2>1, Zenon
  <2> QED
    BY <1>1, <1>3, <2>2
<1>8. PICK a \in Int : /\ a <= 0
                       /\ balance'.available = balance.available + a
                       /\ balance'.reserved = balance.reserved + h
                       /\ balance'.total = balance.total + (a + h)
  <2>1. CASE /\ balance.available >= extra /\ extra > 0
             /\ SaveBalance(balance.available - extra, balance.reserved - held,
                            balance.total - price)
    <3>1. /\ balance.available - extra \in Int
          /\ balance.reserved - held \in Int /\ balance.reserved - held >= 0
          /\ balance.total - price \in Int /\ balance.total - price >= 0
      BY <1>1, <1>2, <1>3, <2>1
    <3>2. /\ balance'.available = balance.available - extra
          /\ balance'.reserved = balance.reserved - held
          /\ balance'.total = balance.total - price
      BY <2>1, <3>1, Saved, Zenon
    <3>3. /\ -extra \in Int /\ -extra <= 0
          /\ balance'.available = balance.available + (-extra)
          /\ balance'.reserved = balance.reserved + h
          /\ balance'.total = balance.total + (-extra + h)
      BY <1>1, <2>1, <3>2
    <3> QED
      BY <3>3
  <2>2. CASE SaveBalance(balance.available, balance.reserved - held, balance.total - held)
    <3>1. /\ balance.available \in Int
          /\ balance.reserved - held \in Int /\ balance.reserved - held >= 0
          /\ balance.total - held \in Int /\ balance.total - held >= 0
      BY <1>1, <1>2, <1>3
    <3>2. /\ balance'.available = balance.available
          /\ balance'.reserved = balance.reserved - held
          /\ balance'.total = balance.total - held
      BY <2>2, <3>1, Saved, Zenon
    <3>3. /\ 0 \in Int /\ 0 <= 0
          /\ balance'.available = balance.available + 0
          /\ balance'.reserved = balance.reserved + h
          /\ balance'.total = balance.total + (0 + h)
      BY <1>1, <3>2
    <3> QED
      BY <3>3
  <2> QED
    BY <1>6, <2>1, <2>2
<1> HIDE DEF h
<1> QED
  BY <1>4, <1>7, <1>8, BalanceMoves

(* A debit takes from the balance what stays in the lots.                  *)
LEMMA DebitBalance ==
  ASSUME TypeOK, LotsInv, BalanceInv, NEW key \in Keys, NEW amount \in DebitAmounts, AdjustDebit(key, amount)
  PROVE  BalanceInv'
<1> DEFINE a == -amount
<1>1. /\ balance.available \in Nat /\ balance.reserved \in Nat /\ balance.total \in Int
      /\ HeldAmount \in Nat /\ Free \in Int /\ NextSequence \in Nat /\ amount \in Nat
  BY BalanceNumbers, BalanceType, WalletAssumption
<1>2. balance.available + balance.reserved = balance.total /\ balance.available >= amount
  BY DEF BalanceInv, AdjustDebit
<1>3. ~Exact
  BY DEF Exact
<1>4. HeldAmount' = HeldAmount + 0 /\ Free' = Free + 0
  <2>1. HeldAmount' = HeldAmount
    BY HoldsKept DEF AdjustDebit
  <2>2. Free' = Free
    BY DEF Free, Unreserved, AdjustDebit
  <2> QED
    BY <1>1, <2>1, <2>2
<1>5. /\ balance'.available = balance.available + a
      /\ balance'.reserved = balance.reserved + 0
      /\ balance'.total = balance.total + (a + 0)
  <2>1. NonNeg(balance.available - amount) = balance.available - amount
    BY <1>1, <1>2 DEF NonNeg
  <2>2. SaveBalance(balance.available - amount, balance.reserved, balance.total - amount)
    BY <2>1, Zenon DEF AdjustDebit
  <2>3. /\ balance.available - amount \in Int
        /\ balance.reserved \in Int /\ balance.reserved >= 0
        /\ balance.total - amount \in Int /\ balance.total - amount >= 0
    BY <1>1, <1>2
  <2>4. /\ balance'.available = balance.available - amount
        /\ balance'.reserved = balance.reserved
        /\ balance'.total = balance.total - amount
    BY <2>2, <2>3, Saved, Zenon
  <2> QED
    BY <1>1, <2>4
<1>6. Replays(a, 0)
  <2>1. Post(Entry("adjustment_debit", amount, key, NextSequence))
    BY DEF AdjustDebit
  <2>2. /\ "adjustment_debit" \in EntryTypes /\ "adjustment_debit" \in Outflow
        /\ key \in RefIds
    BY DEF EntryTypes, Outflow, RefIds
  <2> QED
    BY <1>1, <2>1, <2>2, PostReplays
<1>7. a \in Int /\ 0 \in Int /\ a <= 0
  BY <1>1
<1> HIDE DEF a
<1> QED
  BY <1>3, <1>4, <1>5, <1>6, <1>7, BalanceMoves

(* No lot has more unreserved credit than all of them together.            *)
LEMMA FreeCovers ==
  ASSUME TypeOK, LotsInv, NEW l \in LotId
  PROVE  Unreserved(l) \in Nat /\ Unreserved(l) <= Free
<1> DEFINE u == [k \in LotId |-> Unreserved(k)]
<1>1. \A k \in LotId : u[k] \in Nat
  <2> TAKE k \in LotId
  <2>1. lots[k].remaining \in Int /\ lots[k].reserved \in Int
        /\ lots[k].reserved <= lots[k].remaining
    BY LotNumbers DEF LotsInv, LotsBackHolds
  <2> QED
    BY <2>1 DEF Unreserved
<1>2. u[l] = Unreserved(l) /\ Free = SumFunctionOnSet(u, LotId)
  BY LotSum DEF Free
<1> HIDE DEF u
<1>3. u[l] <= SumFunctionOnSet(u, LotId)
  BY <1>1, LotIdFinite, SumNat
<1> QED
  BY <1>1, <1>2, <1>3

(* An expiring lot is in the balance in full, so that nothing is clamped.  *)
LEMMA ExpiryBalance ==
  ASSUME ExpiryIsExact, TypeOK, LotsInv, BalanceInv, NeverLapse => NothingLapses,
         NEW l \in LotId, VisitExpired(l)
  PROVE  BalanceInv'
<1>1. Exact
  BY DEF ExpiryIsExact, NothingLapses, VisitExpired
<1>2. CASE UNCHANGED <<lots, balance, ledger, projected>>
  BY <1>2, BalanceSame DEF VisitExpired
<1>3. CASE /\ Unreserved(l) > 0
           /\ lots' = [lots EXCEPT ![l].remaining = @ - Unreserved(l)]
           /\ SaveBalance(NonNeg(balance.available - Unreserved(l)),
                          balance.reserved, balance.total - Unreserved(l))
           /\ Post(Entry("expiration", Unreserved(l), "expiration", NextSequence))
  <2>1. PICK n : n = Unreserved(l)
    OBVIOUS
  <2> DEFINE a == -n
  <2>2. /\ balance.available \in Nat /\ balance.reserved \in Nat /\ balance.total \in Int
        /\ HeldAmount \in Nat /\ Free \in Int /\ NextSequence \in Nat
        /\ n \in Nat /\ n <= Free
    BY <2>1, BalanceNumbers, BalanceType, FreeCovers
  <2>3. balance.available + balance.reserved = balance.total /\ balance.available = Free
    BY <1>1 DEF BalanceInv
  <2>4. HeldAmount' = HeldAmount + 0
    <3>1. HeldAmount' = HeldAmount
      BY HoldsKept DEF VisitExpired
    <3> QED
      BY <2>2, <3>1
  <2>5. Free' = Free + a
    <3>1. \A k \in LotId : k # l => lots'[k] = lots[k]
      BY <1>3 DEF TypeOK
    <3>2. Unreserved(l)' = 0
      <4>1. lots[l].remaining \in Int /\ lots[l].reserved \in Int
        BY LotNumbers
      <4>2. lots'[l] = [lots[l] EXCEPT !.remaining = lots[l].reserved]
        <5>1. lots[l].remaining - Unreserved(l) = lots[l].reserved
          BY <4>1 DEF Unreserved
        <5> QED
          BY <1>3, <5>1 DEF TypeOK
      <4>3. lots'[l].remaining = lots[l].reserved /\ lots'[l].reserved = lots[l].reserved
        BY <4>1, <4>2, LotFields
      <4> QED
        BY <4>1, <4>3 DEF Unreserved
    <3>3. Free' = Free + (0 - n)
      <4>1. Unreserved(l)' \in Int
        BY <3>2
      <4>2. Free' = Free + (Unreserved(l)' - Unreserved(l))
        BY <3>1, <4>1, FreeChange
      <4> QED
        BY <2>1, <3>2, <4>2
    <3> QED
      BY <2>2, <3>3
  <2>6. /\ balance'.available = balance.available + a
        /\ balance'.reserved = balance.reserved + 0
        /\ balance'.total = balance.total + (a + 0)
    <3>1. NonNeg(balance.available - n) = balance.available - n
      BY <2>2, <2>3 DEF NonNeg
    <3>2. SaveBalance(balance.available - n, balance.reserved, balance.total - n)
      BY <1>3, <2>1, <3>1, Zenon
    <3>3. /\ balance.available - n \in Int
          /\ balance.reserved \in Int /\ balance.reserved >= 0
          /\ balance.total - n \in Int /\ balance.total - n >= 0
      BY <2>2, <2>3
    <3>4. /\ balance'.available = balance.available - n
          /\ balance'.reserved = balance.reserved
          /\ balance'.total = balance.total - n
      BY <3>2, <3>3, Saved, Zenon
    <3> QED
      BY <2>2, <3>4
  <2>7. Replays(a, 0)
    <3>1. Post(Entry("expiration", n, "expiration", NextSequence))
      BY <1>3, <2>1
    <3>2. /\ "expiration" \in EntryTypes /\ "expiration" \in Outflow
          /\ "expiration" \in RefIds
      BY DEF EntryTypes, Outflow, RefIds
    <3> QED
      BY <2>2, <3>1, <3>2, PostReplays
  <2>8. a \in Int /\ 0 \in Int /\ a <= a
    BY <2>2
  <2> HIDE DEF a
  <2> QED
    BY <2>4, <2>5, <2>6, <2>7, <2>8, BalanceMoves
<1> QED
  BY <1>2, <1>3 DEF VisitExpired

(* A rebuild writes the balance there is.                                  *)
LEMMA RebuildKeeps ==
  ASSUME PricesWithinHolds, TypeOK, LotsInv, BalanceInv, RebuildBalance
  PROVE  BalanceInv'
<1>1. /\ balance.available \in Nat /\ balance.reserved \in Nat
      /\ projected.available = balance.available
      /\ projected.reserved = balance.reserved
      /\ projected.total = balance.total
  BY BalanceNumbers DEF BalanceInv
<1>2. /\ balance'.available = balance.available /\ balance'.reserved = balance.reserved
      /\ balance'.total = balance.total
  <2>1. NonNeg(projected.available) = balance.available
        /\ NonNeg(projected.reserved) = balance.reserved
    BY <1>1 DEF NonNeg
  <2> QED
    BY <1>1, <2>1 DEF RebuildBalance
<1>3. HeldAmount' = HeldAmount
  BY HoldsKept DEF RebuildBalance
<1>4. Free' = Free /\ projected' = projected
  BY DEF Free, Unreserved, RebuildBalance
<1> QED
  BY <1>2, <1>3, <1>4 DEF BalanceInv
-----------------------------------------------------------------------------
(* What keeps the books exact; each condition is needed.  A settlement     *)
(* after a release takes a hold a second time.  A debit or an overage      *)
(* takes credit from the balance and not from a lot, so that an expiring   *)
(* lot can be worth more than what is available and the clamp at zero      *)
(* hides the difference.  An overage posts its price although the extra    *)
(* was never reserved, and a rebuild would then write what the replay of   *)
(* that says.                                                              *)
BalanceAssumption ==
  /\ ~LateSettlement
  /\ ExpiryIsExact
  /\ WithRebuild => PricesWithinHolds

(* Every handler keeps BalanceInv.                                         *)
LEMMA BalanceStep ==
  ASSUME BalanceAssumption, TypeOK, LotsInv, NeverLapse => NothingLapses, BalanceInv,
         [Next]_vars
  PROVE  BalanceInv'
<1>0. ~LateSettlement /\ ExpiryIsExact
  BY DEF BalanceAssumption
<1>1. ASSUME NEW k \in Keys, NEW a \in GrantAmounts,
             NEW p \in LotPriorities, NEW e \in Expiries, GrantCredits(k, a, p, e)
      PROVE  BalanceInv'
  <2>1. a \in Nat /\ "credit_grant" \in Inflow /\ k \in RefIds
    BY WalletAssumption DEF Inflow, RefIds
  <2> QED
    BY <1>1, <2>1, IssueBalance DEF GrantCredits
<1>2. ASSUME NEW r \in Requests, NEW est \in Estimates, AuthorizeBilling(r, est)
      PROVE  BalanceInv'
  BY <1>2, AuthorizeBalance
<1>3. ASSUME NEW r \in Requests, NEW price \in FinalPrices, SettleReservation(r, price)
      PROVE  BalanceInv'
  <2>1. res[r].status = "active"
    BY <1>0, <1>3, SettlesActive
  <2> QED
    BY <1>3, <2>1, SettleWithinBalance, SettleBeyondBalance DEF SettleReservation
<1>4. ASSUME NEW r \in Requests, ReleaseReservation(r) \/ VisitStale(r)
      PROVE  BalanceInv'
  BY <1>4, ReleaseBalance, BalanceSame DEF ReleaseReservation, VisitStale
<1>5. ASSUME NEW l \in LotId, VisitExpired(l)
      PROVE  BalanceInv'
  BY <1>0, <1>5, ExpiryBalance
<1>6. ASSUME NEW k \in Keys, NEW a \in RefundAmounts, RefundCredits(k, a)
      PROVE  BalanceInv'
  <2>1. a \in Nat /\ "refund" \in Inflow /\ k \in RefIds
    BY WalletAssumption DEF Inflow, RefIds
  <2> QED
    BY <1>6, <2>1, IssueBalance DEF RefundCredits
<1>7. ASSUME NEW k \in Keys, NEW a \in CreditAmounts, AdjustCredit(k, a)
      PROVE  BalanceInv'
  <2>1. a \in Nat /\ "adjustment_credit" \in Inflow /\ k \in RefIds
    BY WalletAssumption DEF Inflow, RefIds
  <2> QED
    BY <1>7, <2>1, IssueBalance DEF AdjustCredit
<1>8. ASSUME NEW k \in Keys, NEW a \in DebitAmounts, AdjustDebit(k, a)
      PROVE  BalanceInv'
  BY <1>8, DebitBalance
<1>9. ASSUME RebuildBalance
      PROVE  BalanceInv'
  BY <1>9, RebuildKeeps DEF BalanceAssumption, RebuildBalance
<1>10. ASSUME \/ ListStale \/ ListExpired \/ Tick
              \/ \E s \in {"active", "frozen"} : SetStatus(s)
              \/ \E limit \in BudgetLimits : SetWorkspaceBudget(limit)
              \/ UNCHANGED vars
       PROVE  BalanceInv'
  <2>1. balance' = balance /\ lots' = lots /\ res' = res /\ projected' = projected
    BY <1>10 DEF ListStale, ListExpired, Tick, SetStatus, SetWorkspaceBudget, vars
  <2> QED
    BY <2>1, BalanceSame
<1> QED
  BY <1>1, <1>2, <1>3, <1>4, <1>5, <1>6, <1>7, <1>8, <1>9, <1>10 DEF Next

LEMMA BalanceInit == Init => BalanceInv
<1> SUFFICES ASSUME Init PROVE BalanceInv
  OBVIOUS
<1>1. HeldAmount = 0
  BY NoHoldYet
<1>2. Free = 0
  <2>1. [l \in LotId |-> Unreserved(l)] = [l \in LotId |-> 0]
    BY DEF Init, NoLot, Unreserved
  <2> QED
    BY <2>1, SumZero, Zenon DEF Free
<1>3. /\ balance.available = 0 /\ balance.reserved = 0 /\ balance.total = 0
      /\ projected.available = 0 /\ projected.reserved = 0 /\ projected.total = 0
  BY DEF Init
<1> QED
  BY <1>1, <1>2, <1>3 DEF BalanceInv

LEMMA BalanceKept == ASSUME BalanceAssumption PROVE Spec => []BalanceInv
<1>1. ~LateSettlement
  BY DEF BalanceAssumption
<1>2. Spec => []LotsInv
  BY <1>1, LotsKept
<1>3. Spec => [](NeverLapse => NothingLapses)
  <2>1. CASE NeverLapse
    <3>1. NothingLapses => (NeverLapse => NothingLapses)
      OBVIOUS
    <3>2. Spec => []NothingLapses
      BY <2>1, NoLapse
    <3> QED
      BY <3>1, <3>2, PTL
  <2>2. CASE ~NeverLapse
    <3>1. NeverLapse => NothingLapses
      BY <2>2
    <3> QED
      BY <3>1, PTL
  <2> QED
    BY <2>1, <2>2
<1>4. /\ TypeOK /\ LotsInv /\ (NeverLapse => NothingLapses) /\ BalanceInv /\ [Next]_vars
      => BalanceInv'
  BY BalanceStep
<1> QED
  BY <1>2, <1>3, <1>4, BalanceInit, TypeCorrect, PTL DEF Spec

(* The reserved balance is exactly what the active reservations hold, and  *)
(* no clamp at zero ever hides a difference to the total, in every         *)
(* interleaving of authorizations, settlements, releases, grants, both     *)
(* sweeps and rebuilds.                                                    *)
THEOREM ReservedBalance == ASSUME BalanceAssumption PROVE Spec => []ReservedIsHeld
<1>1. BalanceInv => ReservedIsHeld
  BY DEF BalanceInv, ReservedIsHeld
<1> QED
  BY <1>1, BalanceKept, PTL

(* What authorizeBilling reads as available is there in the lots.          *)
THEOREM AvailableBacking == ASSUME BalanceAssumption PROVE Spec => []AvailableIsBacked
<1>1. BalanceInv => AvailableIsBacked
  BY DEF BalanceInv, AvailableIsBacked, Free
<1> QED
  BY <1>1, BalanceKept, PTL

(* Where prices stay within the holds, replaying the ledger gives the      *)
(* stored balance in every state: reconciliation finds no drift, and a     *)
(* rebuild may run at any moment.                                          *)
THEOREM NoDrift ==
  ASSUME BalanceAssumption, PricesWithinHolds
  PROVE  Spec => []ZeroDrift
<1>1. TypeOK /\ BalanceInv => ZeroDrift
  <2> SUFFICES ASSUME TypeOK, BalanceInv PROVE ZeroDrift
    OBVIOUS
  <2>1. /\ projected.available = balance.available /\ projected.reserved = balance.reserved
        /\ projected.total = balance.total
    BY DEF BalanceInv
  <2>2. balance.available \in Nat /\ balance.reserved \in Nat
    BY BalanceType
  <2> QED
    BY <2>1, <2>2 DEF ZeroDrift, NonNeg
<1> QED
  BY <1>1, BalanceKept, TypeCorrect, PTL
-----------------------------------------------------------------------------
(* Wallet transactions, one repository call at a time.                    *)

(* The sum of a sequence of at most one entry.                             *)
LEMMA TxSumOne ==
  ASSUME NEW a \in Nat
  PROVE  SumFunction(<<a>>) = a
<1> DEFINE s == <<a>>
<1>1. DOMAIN s = {1} /\ s[1] = a
  OBVIOUS
<1>2. IsFiniteSet({1}) /\ IsFiniteSet({})
  BY FS_Singleton, FS_EmptySet
<1>3. {1} \ {1} = {}
  OBVIOUS
<1>4. SumFunction(s) = SumFunctionOnSet(s, DOMAIN s)
  BY DEF SumFunction, FoldFunction, SumFunctionOnSet, FoldFunctionOnSet
<1> HIDE DEF s
<1>5. SumFunctionOnSet(s, {}) = 0
  BY <1>2, SumDef
<1>6. PICK x \in {1} : SumFunctionOnSet(s, {1}) = s[x] + SumFunctionOnSet(s, {1} \ {x})
  <2>1. {1} # {}
    OBVIOUS
  <2> QED
    BY <1>2, <2>1, SumDef
<1>7. x = 1
  OBVIOUS
<1>8. SumFunctionOnSet(s, {1}) = a + 0
  BY <1>1, <1>3, <1>5, <1>6, <1>7
<1>9. SumFunction(s) = a
  BY <1>1, <1>4, <1>8
<1> QED
  BY <1>9 DEF s

(* The calls of the two programs.                                          *)
LEMMA AuthorizeProgram ==
  ASSUME NEW i \in 1..9
  PROVE  /\ (Program("authorize")[i] = "lookup") <=> (i = 1)
         /\ (Program("authorize")[i] = "readBudget") <=> (i = 2)
         /\ (Program("authorize")[i] = "readBalance") <=> (i = 3)
         /\ (Program("authorize")[i] = "readLot") <=> (i = 4)
         /\ (Program("authorize")[i] = "saveLot") <=> (i = 5)
         /\ (Program("authorize")[i] = "saveReservation") <=> (i = 6)
         /\ (Program("authorize")[i] = "saveBalance") <=> (i = 7)
         /\ (Program("authorize")[i] = "saveBudget") <=> (i = 8)
         /\ (Program("authorize")[i] = "append") <=> (i = 9)
         /\ Len(Program("authorize")) = 9
<1>1. i \in {1, 2, 3, 4, 5, 6, 7, 8, 9}
  OBVIOUS
<1> QED
  BY <1>1 DEF Program

LEMMA EndProgram ==
  ASSUME NEW i \in 1..9, NEW kind \in {"settle", "release"}
  PROVE  /\ (Program(kind)[i] = "lookup") <=> (i = 1)
         /\ (Program(kind)[i] = "readBalance") <=> (i = 2)
         /\ (Program(kind)[i] = "readLot") <=> (i = 3)
         /\ (Program(kind)[i] = "saveLot") <=> (i = 4)
         /\ (Program(kind)[i] = "saveBalance") <=> (i = 5)
         /\ (Program(kind)[i] = "readBudget") <=> (i = 6)
         /\ (Program(kind)[i] = "saveBudget") <=> (i = 7)
         /\ (Program(kind)[i] = "append") <=> (i = 8)
         /\ (Program(kind)[i] = "saveReservation") <=> (i = 9)
         /\ Len(Program(kind)) = 9
<1>1. i \in {1, 2, 3, 4, 5, 6, 7, 8, 9}
  OBVIOUS
<1>2. kind # "authorize"
  OBVIOUS
<1> QED
  BY <1>1, <1>2 DEF Program

(* What the books hold for one request.  Halfway through a handler a book  *)
(* is ahead of the stored reservation, or behind it, by what the handler   *)
(* has saved in one and not yet in the other; k is the request's handler,  *)
(* or Idle, s its reservation and ch its charges.                          *)
Books == {"lot", "balance", "budget"}

Authorizes(k) == k.kind = "authorize"
Ends(k) == k.kind \in {"settle", "release"}

(* The step of the two programs that saves the book.                       *)
AuthStep(b) == IF b = "lot" THEN 5 ELSE IF b = "balance" THEN 7 ELSE 8
EndStep(b) == IF b = "lot" THEN 4 ELSE IF b = "balance" THEN 5 ELSE 7

HeldOf(b, k, s) ==
  IF Authorizes(k) /\ k.step > 1 THEN (IF k.step > AuthStep(b) THEN k.amount ELSE 0)
  ELSE IF Ends(k) /\ k.step > EndStep(b) THEN 0
  ELSE IF s.status = "active" THEN s.amount ELSE 0

SpentOf(b, k, ch) ==
  IF k.kind = "settle" /\ k.step > EndStep(b) THEN k.amount ELSE SumFunction(ch)

StoredBalance == [available : Int, reserved : Int, total : Int]
StoredLot == [remaining : Int, reserved : Int]
StoredBudget == [spent : Int, reserved : Int]
Programs == [kind : Kinds, step : 1..9, amount : Nat, held : Nat,
             balance : StoredBalance, lot : StoredLot, budget : StoredBudget]
StoredRes == [status : {"none", "active", "settled", "released"}, amount : Nat]
ChargeLists == {<< >>} \cup {<<a>> : a \in Nat}

(* What a handler knows of its own request, which nobody else writes, and  *)
(* what its checks established of its own copies.                          *)
OwnHold(k, s, ch) ==
  /\ s.status = "active" => s.amount \in HoldAmounts
  /\ Authorizes(k) => /\ k.amount \in HoldAmounts
                      /\ k.step \in 2..6 => s.status = "none"
                      /\ k.step \in 7..9 => s.status = "active" /\ s.amount = k.amount
  /\ Ends(k) /\ k.step > 1 => s.status = "active" /\ k.held = s.amount
  /\ k.kind = "settle" => /\ k.amount \in SettledPrices
                          /\ k.step = 1 => s.status \in {"active", "settled"}

OwnCharge(k, s, ch) ==
  /\ s.status # "settled" /\ ~(k.kind = "settle" /\ k.step = 9) => ch = << >>
  /\ k.kind = "settle" /\ k.step = 9 => SumFunction(ch) = k.amount

Checked(k) ==
  Authorizes(k) =>
    /\ k.step \in 3..8 => k.budget.spent + k.budget.reserved + k.amount <= BudgetLimit
    /\ k.step \in 4..7 => k.balance.available >= k.amount
    /\ k.step = 5 => k.lot.remaining - k.lot.reserved >= k.amount

Own(k, s, ch) ==
  /\ k \in {Idle} \cup Programs /\ s \in StoredRes /\ ch \in ChargeLists
  /\ OwnHold(k, s, ch) /\ OwnCharge(k, s, ch) /\ Checked(k)

(* A book that is sound holds the sum of what it holds for each request,   *)
(* within its bound.                                                       *)
HeldIn(b) == [r \in RequestIds |-> HeldOf(b, call[r], storedRes[r])]
SpentIn(b) == [r \in RequestIds |-> SpentOf(b, call[r], charges[r])]

Reserves(b) == IF b = "lot" THEN lot.reserved
               ELSE IF b = "balance" THEN storedBalance.reserved ELSE storedBudget.reserved
Lost(b) == IF b = "lot" THEN Credit - lot.remaining
           ELSE IF b = "balance" THEN Credit - storedBalance.total ELSE storedBudget.spent
Bound(b) == IF b = "budget" THEN BudgetLimit ELSE Credit

Sound(b) ==
  /\ Reserves(b) = SumFunction(HeldIn(b)) /\ Lost(b) = SumFunction(SpentIn(b))
  /\ Reserves(b) + Lost(b) <= Bound(b)
  /\ b = "balance" => storedBalance.available = storedBalance.total - storedBalance.reserved

StoreType ==
  /\ storedBalance \in StoredBalance /\ lot \in StoredLot /\ storedBudget \in StoredBudget
  /\ call = [r \in RequestIds |-> call[r]]
  /\ storedRes = [r \in RequestIds |-> storedRes[r]]
  /\ charges = [r \in RequestIds |-> charges[r]]

TxInv ==
  /\ StoreType
  /\ \A r \in RequestIds : Own(call[r], storedRes[r], charges[r])
  /\ \A b \in Books : b \in torn \/ Sound(b)

LEMMA IdleIs == Idle.kind = "idle" /\ Idle.step = 0 /\ Idle \notin Programs
BY DEF Idle, Programs, Kinds

LEMMA NoCharge == SumFunction(<< >>) = 0
<1> DEFINE e == << >>
<1>1. DOMAIN e = {} /\ IsFiniteSet({})
  BY FS_EmptySet
<1>2. SumFunction(e) = SumFunctionOnSet(e, DOMAIN e)
  BY DEF SumFunction, FoldFunction, SumFunctionOnSet, FoldFunctionOnSet
<1> HIDE DEF e
<1>3. SumFunctionOnSet(e, {}) = 0
  BY <1>1, SumDef
<1>4. SumFunction(e) = 0
  BY <1>1, <1>2, <1>3
<1> QED
  BY <1>4 DEF e

LEMMA ChargeSum == \A ch \in ChargeLists : SumFunction(ch) \in Nat
<1> SUFFICES ASSUME NEW ch \in ChargeLists PROVE SumFunction(ch) \in Nat
  OBVIOUS
<1>1. CASE ch = << >>
  BY <1>1, NoCharge
<1>2. CASE \E a \in Nat : ch = <<a>>
  BY <1>2, TxSumOne
<1> QED
  BY <1>1, <1>2 DEF ChargeLists

LEMMA ProgramIs ==
  ASSUME NEW k \in Programs
  PROVE  /\ k.step \in 1..9 /\ k.amount \in Nat /\ k.held \in Nat
         /\ k.balance \in StoredBalance /\ k.lot \in StoredLot /\ k.budget \in StoredBudget
         /\ \/ Authorizes(k) /\ k.kind = "authorize" /\ ~Ends(k)
            \/ Ends(k) /\ k.kind \in {"settle", "release"} /\ ~Authorizes(k)
BY DEF Programs, Kinds, Authorizes, Ends

(* Holds and charges of a request are natural numbers in every book.       *)
LEMMA OfNat ==
  ASSUME NEW k, NEW s, NEW ch, Own(k, s, ch), NEW b
  PROVE  HeldOf(b, k, s) \in Nat /\ SpentOf(b, k, ch) \in Nat
<1>1. k = Idle \/ (k \in Programs /\ k.amount \in Nat)
  BY ProgramIs DEF Own
<1>2. k = Idle => ~Authorizes(k) /\ k.kind # "settle"
  BY IdleIs DEF Authorizes
<1>3. s.amount \in Nat /\ SumFunction(ch) \in Nat
  BY ChargeSum DEF Own, StoredRes
<1> QED
  BY <1>1, <1>2, <1>3 DEF HeldOf, SpentOf

(* What soundness says of a book, request by request.                      *)
LEMMA SoundBook ==
  ASSUME Parameters, TxInv, NEW b \in Books, b \notin torn, NEW r \in RequestIds
  PROVE  /\ Reserves(b) \in Nat /\ Lost(b) \in Nat
         /\ HeldOf(b, call[r], storedRes[r]) <= Reserves(b)
         /\ Reserves(b) + Lost(b) <= Bound(b)
<1> DEFINE h == HeldIn(b)
           p == SpentIn(b)
<1>1. IsFiniteSet(RequestIds) /\ DOMAIN h = RequestIds /\ DOMAIN p = RequestIds
  BY DEF Parameters, HeldIn, SpentIn
<1>2. \A q \in RequestIds : h[q] \in Nat /\ p[q] \in Nat
  BY OfNat DEF TxInv, HeldIn, SpentIn
<1>3. h[r] = HeldOf(b, call[r], storedRes[r])
  BY DEF HeldIn
<1>4. Sound(b)
  BY DEF TxInv
<1>5. /\ SumFunction(h) = SumFunctionOnSet(h, DOMAIN h)
      /\ SumFunction(p) = SumFunctionOnSet(p, DOMAIN p)
  BY DEF SumFunction, FoldFunction, SumFunctionOnSet, FoldFunctionOnSet
<1>6. Reserves(b) = SumFunction(h) /\ Lost(b) = SumFunction(p)
  BY <1>4 DEF Sound
<1> HIDE DEF h, p
<1>7. /\ SumFunctionOnSet(h, RequestIds) \in Nat /\ SumFunctionOnSet(p, RequestIds) \in Nat
      /\ h[r] <= SumFunctionOnSet(h, RequestIds)
  BY <1>1, <1>2, SumNat
<1> QED
  BY <1>1, <1>3, <1>4, <1>5, <1>6, <1>7 DEF Sound

(* A book moves by dh held and ds spent, within its bound.                 *)
Moves(b, dh, ds) ==
  /\ Reserves(b)' = Reserves(b) + dh /\ Lost(b)' = Lost(b) + ds
  /\ dh + ds <= 0 \/ Reserves(b) + Lost(b) + dh + ds <= Bound(b)
  /\ b = "balance" => storedBalance'.available = storedBalance.available - (dh + ds)

(* A step of one request keeps the invariant if it keeps what its handler  *)
(* knows and each book moves by what it newly holds for the request, or is *)
(* torn.                                                                   *)
LEMMA RequestSteps ==
  ASSUME Parameters, TxInv, NEW r \in RequestIds, NEW x, NEW s, NEW ch, Own(x, s, ch),
         call' = [call EXCEPT ![r] = x], storedRes' = [storedRes EXCEPT ![r] = s],
         charges' = [charges EXCEPT ![r] = ch],
         storedBalance' \in StoredBalance, lot' \in StoredLot, storedBudget' \in StoredBudget,
         torn \subseteq torn',
         \A b \in Books : b \in torn' \/
           Moves(b, HeldOf(b, x, s) - HeldOf(b, call[r], storedRes[r]),
                    SpentOf(b, x, ch) - SpentOf(b, call[r], charges[r]))
  PROVE  TxInv'
<1>1. /\ StoreType'
      /\ call'[r] = x /\ storedRes'[r] = s /\ charges'[r] = ch
      /\ \A q \in RequestIds \ {r} : /\ call'[q] = call[q] /\ storedRes'[q] = storedRes[q]
                                     /\ charges'[q] = charges[q]
  BY DEF TxInv, StoreType
<1>2. \A q \in RequestIds : Own(call'[q], storedRes'[q], charges'[q])
  BY <1>1 DEF TxInv
<1>3. ASSUME NEW b \in Books, b \notin torn'
      PROVE  Sound(b)'
  <2> DEFINE h == HeldIn(b)
             p == SpentIn(b)
             hn == HeldIn(b)'
             pn == SpentIn(b)'
             dh == HeldOf(b, x, s) - HeldOf(b, call[r], storedRes[r])
             ds == SpentOf(b, x, ch) - SpentOf(b, call[r], charges[r])
  <2>1. /\ IsFiniteSet(RequestIds)
        /\ DOMAIN h = RequestIds /\ DOMAIN p = RequestIds
        /\ DOMAIN hn = RequestIds /\ DOMAIN pn = RequestIds
    BY DEF Parameters, HeldIn, SpentIn
  <2>2. \A q \in RequestIds : h[q] \in Nat /\ p[q] \in Nat
    BY OfNat DEF TxInv, HeldIn, SpentIn
  <2>3. \A q \in RequestIds \ {r} : hn[q] = h[q] /\ pn[q] = p[q]
    BY <1>1 DEF HeldIn, SpentIn
  <2>4. hn[r] - h[r] = dh /\ pn[r] - p[r] = ds /\ hn[r] \in Nat /\ pn[r] \in Nat
    BY <1>1, OfNat DEF HeldIn, SpentIn
  <2>5. /\ SumFunction(h) = SumFunctionOnSet(h, DOMAIN h)
        /\ SumFunction(p) = SumFunctionOnSet(p, DOMAIN p)
        /\ SumFunction(hn) = SumFunctionOnSet(hn, DOMAIN hn)
        /\ SumFunction(pn) = SumFunctionOnSet(pn, DOMAIN pn)
    BY DEF SumFunction, FoldFunction, SumFunctionOnSet, FoldFunctionOnSet
  <2>6. Sound(b) /\ Moves(b, dh, ds)
    BY <1>3 DEF TxInv
  <2>7. Reserves(b) = SumFunction(h) /\ Lost(b) = SumFunction(p)
    BY <2>6 DEF Sound
  <2>8. SUFFICES /\ Reserves(b)' = SumFunction(hn) /\ Lost(b)' = SumFunction(pn)
                 /\ Reserves(b)' + Lost(b)' <= Bound(b)
                 /\ b = "balance" =>
                      storedBalance'.available = storedBalance'.total - storedBalance'.reserved
    BY DEF Sound, Bound
  <2>9. dh \in Int /\ ds \in Int
    BY <2>2, <2>4
  <2> HIDE DEF h, p, hn, pn, dh, ds
  <2>10. /\ SumFunctionOnSet(hn, RequestIds) = SumFunctionOnSet(h, RequestIds) + (hn[r] - h[r])
         /\ SumFunctionOnSet(pn, RequestIds) = SumFunctionOnSet(p, RequestIds) + (pn[r] - p[r])
    BY <2>1, <2>2, <2>3, <2>4, SumChange
  <2>11. SumFunctionOnSet(h, RequestIds) \in Nat /\ SumFunctionOnSet(p, RequestIds) \in Nat
    BY <2>1, <2>2, SumNat
  <2>12. Reserves(b)' = SumFunction(hn) /\ Lost(b)' = SumFunction(pn)
    BY <2>1, <2>4, <2>5, <2>6, <2>7, <2>10, <2>11 DEF Moves
  <2>13. Reserves(b)' + Lost(b)' <= Bound(b)
    <3>1. Bound(b) \in Nat
      BY DEF Bound, Parameters
    <3> QED
      BY <2>1, <2>5, <2>6, <2>7, <2>9, <2>11, <3>1 DEF Moves, Sound
  <2>14. ASSUME b = "balance"
         PROVE  storedBalance'.available = storedBalance'.total - storedBalance'.reserved
    <3>1. /\ storedBalance \in StoredBalance /\ storedBalance' \in StoredBalance /\ Credit \in Nat
      BY DEF TxInv, StoreType, Parameters
    <3>2. /\ storedBalance'.reserved = storedBalance.reserved + dh
          /\ Credit - storedBalance'.total = Credit - storedBalance.total + ds
          /\ storedBalance'.available = storedBalance.available - (dh + ds)
          /\ storedBalance.available = storedBalance.total - storedBalance.reserved
      BY <2>6, <2>14 DEF Moves, Sound, Reserves, Lost
    <3> QED
      BY <2>9, <3>1, <3>2 DEF StoredBalance
  <2> QED
    BY <2>12, <2>13, <2>14
<1> QED
  BY <1>1, <1>2, <1>3 DEF TxInv


(* x is k at the next call of its program.                                 *)
Follows(x, k) ==
  /\ x.step = k.step + 1 /\ x.kind = k.kind /\ x.amount = k.amount /\ x.held = k.held
  /\ x.balance = k.balance /\ x.lot = k.lot /\ x.budget = k.budget

LEMMA Continues ==
  ASSUME NEW r \in RequestIds, NEW k \in Programs, Continue(r, k)
  PROVE  \E x \in {Idle} \cup Programs :
           /\ call' = [call EXCEPT ![r] = x]
           /\ k.step = 9 => x = Idle
           /\ k.step # 9 => x \in Programs /\ Follows(x, k)
<1>1. Len(Program(k.kind)) = 9
  BY AuthorizeProgram, EndProgram DEF Programs, Kinds
<1>2. CASE k.step = 9
  BY <1>1, <1>2 DEF Continue
<1>3. CASE k.step # 9
  <2> DEFINE x == [k EXCEPT !.step = k.step + 1]
  <2>1. k.step + 1 \in 1..9
    BY <1>3 DEF Programs
  <2>2. x \in Programs /\ Follows(x, k)
    BY <2>1 DEF Programs, Follows
  <2>3. call' = [call EXCEPT ![r] = x]
    BY <1>1, <1>3 DEF Continue
  <2> HIDE DEF x
  <2> QED
    BY <1>3, <2>2, <2>3
<1> QED
  BY <1>2, <1>3

(* The step at which a handler makes a call.                               *)
LEMMA StepOf ==
  ASSUME NEW k \in Programs, NEW op, Program(k.kind)[k.step] = op
  PROVE  /\ Authorizes(k) =>
              /\ op = "lookup" => k.step = 1
              /\ op = "readBudget" => k.step = 2
              /\ op = "readBalance" => k.step = 3
              /\ op = "readLot" => k.step = 4
              /\ op = "saveLot" => k.step = 5
              /\ op = "saveReservation" => k.step = 6
              /\ op = "saveBalance" => k.step = 7
              /\ op = "saveBudget" => k.step = 8
              /\ op = "append" => k.step = 9
         /\ Ends(k) =>
              /\ op = "lookup" => k.step = 1
              /\ op = "readBalance" => k.step = 2
              /\ op = "readLot" => k.step = 3
              /\ op = "saveLot" => k.step = 4
              /\ op = "saveBalance" => k.step = 5
              /\ op = "readBudget" => k.step = 6
              /\ op = "saveBudget" => k.step = 7
              /\ op = "append" => k.step = 8
              /\ op = "saveReservation" => k.step = 9
<1>1. k.step \in 1..9
  BY ProgramIs
<1>2. CASE Authorizes(k)
  <2>1. ~Ends(k) /\ k.kind = "authorize"
    BY <1>2 DEF Authorizes, Ends
  <2> QED
    BY <1>1, <1>2, <2>1, AuthorizeProgram
<1>3. CASE Ends(k)
  <2>1. ~Authorizes(k) /\ k.kind \in {"settle", "release"}
    BY <1>3 DEF Authorizes, Ends
  <2> QED
    BY <1>1, <1>3, <2>1, EndProgram
<1> QED
  BY <1>2, <1>3

(* The handler that makes a call.                                          *)
LEMMA AtIs ==
  ASSUME TxInv, NEW r \in RequestIds, NEW op, At(r, Kinds, op)
  PROVE  /\ call[r] \in Programs /\ Program(call[r].kind)[call[r].step] = op
         /\ Own(call[r], storedRes[r], charges[r])
<1>1. call[r] # Idle
  BY IdleIs DEF At, Kinds
<1> QED
  BY <1>1 DEF TxInv, Own, At

(* A book that is not saved, and holds for the request what it did, stays. *)
LEMMA BookStays ==
  ASSUME Parameters, TxInv, NEW r \in RequestIds, NEW b \in Books,
         NEW x, NEW s, NEW ch, torn \subseteq torn',
         Reserves(b)' = Reserves(b), Lost(b)' = Lost(b),
         b = "balance" => storedBalance' = storedBalance,
         HeldOf(b, x, s) = HeldOf(b, call[r], storedRes[r]),
         SpentOf(b, x, ch) = SpentOf(b, call[r], charges[r])
  PROVE  b \in torn' \/
           Moves(b, HeldOf(b, x, s) - HeldOf(b, call[r], storedRes[r]),
                    SpentOf(b, x, ch) - SpentOf(b, call[r], charges[r]))
<1> DEFINE dh == HeldOf(b, x, s) - HeldOf(b, call[r], storedRes[r])
           ds == SpentOf(b, x, ch) - SpentOf(b, call[r], charges[r])
<1>1. dh = 0 /\ ds = 0
  BY OfNat DEF TxInv
<1>2. ASSUME b \notin torn PROVE Moves(b, 0, 0)
  <2>1. Reserves(b) \in Nat /\ Lost(b) \in Nat
    BY <1>2, SoundBook
  <2>2. storedBalance.available \in Int
    BY DEF TxInv, StoreType, StoredBalance
  <2> QED
    BY <2>1, <2>2 DEF Moves
<1> HIDE DEF dh, ds
<1>3. ASSUME b \notin torn PROVE Moves(b, dh, ds)
  BY <1>1, <1>2, <1>3
<1>4. b \in torn' \/ Moves(b, dh, ds)
  BY <1>3
<1> QED
  BY <1>4 DEF dh, ds

(* Books that stay what they were, for a step that leaves stored           *)
(* reservation and charges alone: the handler goes on from a call that     *)
(* saves no book, or returns before it saved any.                          *)
GoesOnTo(k, x, b) ==
  \/ /\ x \in Programs /\ x.kind = k.kind /\ x.step = k.step + 1 /\ x.amount = k.amount
     /\ Authorizes(k) => k.step # AuthStep(b)
     /\ Ends(k) => k.step # EndStep(b)
  \/ x = Idle /\ (Authorizes(k) => k.step <= 4 \/ k.step = 9) /\ (Ends(k) => k.step = 1)

LEMMA SameHold ==
  ASSUME NEW k \in Programs, NEW s, NEW ch, Own(k, s, ch), NEW x, Own(x, s, ch),
         NEW b \in Books, GoesOnTo(k, x, b)
  PROVE  HeldOf(b, x, s) = HeldOf(b, k, s) /\ SpentOf(b, x, ch) = SpentOf(b, k, ch)
<1>1. /\ AuthStep(b) \in {5, 7, 8} /\ EndStep(b) \in {4, 5, 7} /\ k.step \in 1..9
      /\ s.amount \in Nat /\ k.amount \in Nat
  BY ProgramIs DEF Books, AuthStep, EndStep, Own, StoredRes
<1>2. OwnHold(k, s, ch) /\ OwnHold(x, s, ch)
  BY DEF Own
<1>3. CASE Authorizes(k)
  <2>1. k.kind = "authorize"
    BY <1>3 DEF Authorizes
  <2>2. CASE x = Idle
    <3>1. x.kind = "idle" /\ ~Authorizes(x) /\ ~Ends(x)
      BY <2>2, IdleIs DEF Authorizes, Ends
    <3>2. k.step <= 4 \/ k.step = 9
      BY <1>3, <2>2, IdleIs DEF GoesOnTo
    <3>3. SpentOf(b, x, ch) = SpentOf(b, k, ch)
      BY <2>1, <3>1 DEF SpentOf
    <3>4. HeldOf(b, x, s) = HeldOf(b, k, s)
      BY <1>1, <1>2, <1>3, <2>1, <3>1, <3>2 DEF HeldOf, OwnHold, Ends
    <3> QED
      BY <3>3, <3>4
  <2>3. CASE x # Idle
    <3>1. x.kind = k.kind /\ x.step = k.step + 1 /\ x.amount = k.amount /\ k.step # AuthStep(b)
      BY <1>3, <2>3 DEF GoesOnTo
    <3>2. Authorizes(x) /\ ~Ends(x) /\ ~Ends(k)
      BY <2>1, <3>1 DEF Authorizes, Ends
    <3> QED
      BY <1>1, <1>2, <1>3, <2>1, <3>1, <3>2 DEF HeldOf, SpentOf, OwnHold
  <2> QED
    BY <2>2, <2>3
<1>4. CASE Ends(k)
  <2>1. k.kind \in {"settle", "release"} /\ ~Authorizes(k)
    BY <1>4 DEF Authorizes, Ends
  <2>2. CASE x = Idle
    <3>1. x.kind = "idle" /\ ~Authorizes(x) /\ ~Ends(x)
      BY <2>2, IdleIs DEF Authorizes, Ends
    <3>2. k.step = 1
      BY <1>4, <2>2, IdleIs DEF GoesOnTo
    <3> QED
      BY <1>1, <1>4, <2>1, <3>1, <3>2 DEF HeldOf, SpentOf
  <2>3. CASE x # Idle
    <3>1. x.kind = k.kind /\ x.step = k.step + 1 /\ x.amount = k.amount /\ k.step # EndStep(b)
      BY <1>4, <2>3 DEF GoesOnTo
    <3>2. Ends(x) /\ ~Authorizes(x)
      BY <2>1, <3>1 DEF Authorizes, Ends
    <3> QED
      BY <1>1, <1>2, <1>4, <2>1, <3>1, <3>2 DEF HeldOf, SpentOf, OwnHold
  <2> QED
    BY <2>2, <2>3
<1> QED
  BY <1>3, <1>4, ProgramIs

(* A step that stores nothing.                                             *)
LEMMA ReadsOn ==
  ASSUME Parameters, TxInv, NEW r \in RequestIds, call[r] \in Programs, NEW x,
         call' = [call EXCEPT ![r] = x], UNCHANGED <<stores, torn>>,
         Own(x, storedRes[r], charges[r]), \A b \in Books : GoesOnTo(call[r], x, b)
  PROVE  TxInv'
<1>1. PICK k \in Programs : k = call[r]
  OBVIOUS
<1>2. PICK s, ch : s = storedRes[r] /\ ch = charges[r]
  OBVIOUS
<1>3. /\ storedBalance' = storedBalance /\ lot' = lot /\ storedBudget' = storedBudget
      /\ storedRes' = storedRes /\ charges' = charges /\ torn' = torn
  BY DEF stores
<1>4. storedRes' = [storedRes EXCEPT ![r] = s] /\ charges' = [charges EXCEPT ![r] = ch]
  BY <1>2, <1>3 DEF TxInv, StoreType
<1>5. Own(k, s, ch) /\ Own(x, s, ch)
  BY <1>1, <1>2 DEF TxInv
<1>6. ASSUME NEW b \in Books
      PROVE  b \in torn' \/
               Moves(b, HeldOf(b, x, s) - HeldOf(b, call[r], storedRes[r]),
                        SpentOf(b, x, ch) - SpentOf(b, call[r], charges[r]))
  <2>1. HeldOf(b, x, s) = HeldOf(b, k, s) /\ SpentOf(b, x, ch) = SpentOf(b, k, ch)
    BY <1>1, <1>5, SameHold
  <2>2. Reserves(b)' = Reserves(b) /\ Lost(b)' = Lost(b)
    BY <1>3 DEF Reserves, Lost
  <2> QED
    BY <1>1, <1>2, <1>3, <2>1, <2>2, BookStays
<1>7. storedBalance' \in StoredBalance /\ lot' \in StoredLot /\ storedBudget' \in StoredBudget
  BY <1>3 DEF TxInv, StoreType
<1>8. torn \subseteq torn'
  BY <1>3
<1> QED
  BY <1>4, <1>5, <1>6, <1>7, <1>8, RequestSteps

LEMMA ProgramStarts ==
  ASSUME NEW i \in [kind : {"idle"}, step : {0}, amount : {0}, held : {0},
                    balance : StoredBalance, lot : StoredLot, budget : StoredBudget],
         NEW kind \in Kinds, NEW a \in Nat
  PROVE  LET x == [i EXCEPT !.kind = kind, !.step = 1, !.amount = a] IN
         x \in Programs /\ x.kind = kind /\ x.step = 1 /\ x.amount = a
<1>1. PICK y : y = [i EXCEPT !.kind = kind, !.step = 1]
  OBVIOUS
<1>2. y \in [kind : Kinds, step : {1}, amount : {0}, held : {0},
              balance : StoredBalance, lot : StoredLot, budget : StoredBudget]
      /\ y.kind = kind
  BY <1>1
<1>3. PICK z : z = [y EXCEPT !.amount = a]
  OBVIOUS
<1>4. z \in [kind : Kinds, step : {1}, amount : Nat, held : {0},
              balance : StoredBalance, lot : StoredLot, budget : StoredBudget]
      /\ z.kind = kind /\ z.amount = a
  BY <1>2, <1>3
<1>5. z \in Programs /\ z.step = 1
  BY <1>4 DEF Programs
<1>6. [i EXCEPT !.kind = kind, !.step = 1, !.amount = a] = z
  BY <1>1, <1>3
<1> QED
  BY <1>4, <1>5, <1>6

LEMMA TxEnter ==
  ASSUME Parameters, TxInv, NEW r \in RequestIds, NEW kind \in Kinds, NEW amount \in Nat,
         kind = "authorize" => amount \in HoldAmounts,
         kind = "settle" => amount \in SettledPrices,
         Enter(r, kind, amount)
  PROVE  TxInv'
<1> DEFINE x == [Idle EXCEPT !.kind = kind, !.step = 1, !.amount = amount]
<1>1. call' = [call EXCEPT ![r] = x] /\ UNCHANGED <<stores, torn>>
  BY DEF Enter
<1>2. x \in Programs /\ x.kind = kind /\ x.step = 1 /\ x.amount = amount
  <2>1. Idle \in [kind : {"idle"}, step : {0}, amount : {0}, held : {0},
                  balance : StoredBalance, lot : StoredLot, budget : StoredBudget]
    BY DEF Idle, StoredBalance, StoredLot, StoredBudget
  <2> QED
    BY <2>1, ProgramStarts
<1> HIDE DEF x
<1>3. PICK s, ch : s = storedRes[r] /\ ch = charges[r]
  OBVIOUS
<1>4. call[r] = Idle /\ Own(Idle, s, ch)
  BY <1>3 DEF TxInv, Enter, Running
<1>5. ~Authorizes(Idle) /\ ~Ends(Idle) /\ Idle.kind = "idle" /\ ~(Idle.kind = "settle")
  BY IdleIs DEF Authorizes, Ends
<1>6. Own(x, s, ch)
  <2>1. OwnHold(x, s, ch)
    BY <1>2, <1>3, <1>4 DEF Own, OwnHold, Enter, Authorizes, Ends
  <2>2. OwnCharge(x, s, ch)
    BY <1>2, <1>4, <1>5 DEF Own, OwnCharge
  <2>3. Checked(x)
    BY <1>2 DEF Checked
  <2> QED
    BY <1>2, <1>4, <2>1, <2>2, <2>3 DEF Own
<1>7. /\ storedBalance' = storedBalance /\ lot' = lot /\ storedBudget' = storedBudget
      /\ storedRes' = storedRes /\ charges' = charges /\ torn' = torn
  BY <1>1 DEF stores
<1>8. storedRes' = [storedRes EXCEPT ![r] = s] /\ charges' = [charges EXCEPT ![r] = ch]
  BY <1>3, <1>7 DEF TxInv, StoreType
<1>9. ASSUME NEW b \in Books
      PROVE  b \in torn' \/
               Moves(b, HeldOf(b, x, s) - HeldOf(b, call[r], storedRes[r]),
                        SpentOf(b, x, ch) - SpentOf(b, call[r], charges[r]))
  <2>1. EndStep(b) >= 4 /\ EndStep(b) \in Nat
    BY DEF EndStep
  <2>2. HeldOf(b, x, s) = HeldOf(b, Idle, s) /\ SpentOf(b, x, ch) = SpentOf(b, Idle, ch)
    BY <1>2, <1>5, <2>1 DEF HeldOf, SpentOf
  <2>3. Reserves(b)' = Reserves(b) /\ Lost(b)' = Lost(b)
    BY <1>7 DEF Reserves, Lost
  <2> QED
    BY <1>3, <1>4, <1>7, <2>2, <2>3, BookStays
<1>10. storedBalance' \in StoredBalance /\ lot' \in StoredLot /\ storedBudget' \in StoredBudget
  BY <1>7 DEF TxInv, StoreType
<1>11. torn \subseteq torn'
  BY <1>7
<1> QED
  BY <1>1, <1>6, <1>8, <1>9, <1>10, <1>11, RequestSteps

LEMMA TxLookup ==
  ASSUME Parameters, TxInv, NEW r \in RequestIds, Lookup(r)
  PROVE  TxInv'
<1>1. PICK k \in Programs : k = call[r] /\ Program(k.kind)[k.step] = "lookup"
  BY AtIs DEF Lookup
<1>2. PICK s, ch : s = storedRes[r] /\ ch = charges[r]
  OBVIOUS
<1>3. k.step = 1 /\ Own(k, s, ch)
  BY <1>1, <1>2, StepOf, ProgramIs DEF TxInv
<1>4. UNCHANGED <<stores, torn>>
  BY DEF Lookup
<1>5. CASE s.status \in GoesOn(k.kind)
  <2> DEFINE l == [k EXCEPT !.held = s.amount]
  <2>1. s.amount \in Nat
    BY <1>3 DEF Own, StoredRes
  <2>2. /\ l \in Programs /\ l.step = 1 /\ l.kind = k.kind /\ l.amount = k.amount
        /\ l.held = s.amount /\ l.budget = k.budget
    BY <1>3, <2>1 DEF Programs
  <2>3. Continue(r, l)
    BY <1>1, <1>2, <1>5 DEF Lookup
  <2> HIDE DEF l
  <2>4. PICK x \in Programs : call' = [call EXCEPT ![r] = x] /\ Follows(x, l)
    BY <2>2, <2>3, Continues
  <2>5. x.step = 2 /\ x.kind = k.kind /\ x.amount = k.amount /\ x.held = s.amount
    BY <2>2, <2>4 DEF Follows
  <2>6. Own(x, s, ch)
    <3>1. OwnHold(x, s, ch)
      BY <1>3, <1>5, <2>5 DEF Own, OwnHold, GoesOn, Authorizes, Ends
    <3>2. OwnCharge(x, s, ch)
      BY <1>3, <2>5 DEF Own, OwnCharge
    <3>3. Checked(x)
      BY <2>5 DEF Checked
    <3> QED
      BY <1>3, <3>1, <3>2, <3>3 DEF Own
  <2>7. \A b \in Books : GoesOnTo(k, x, b)
    BY <1>3, <2>5 DEF GoesOnTo, AuthStep, EndStep
  <2> QED
    BY <1>1, <1>2, <1>4, <2>4, <2>6, <2>7, ReadsOn
<1>6. CASE s.status \notin GoesOn(k.kind)
  <2>1. call' = [call EXCEPT ![r] = Idle]
    BY <1>1, <1>2, <1>6 DEF Lookup, Return
  <2>2. Own(Idle, s, ch)
    BY <1>3, IdleIs DEF Own, OwnHold, OwnCharge, Checked, Authorizes, Ends
  <2>3. \A b \in Books : GoesOnTo(k, Idle, b)
    BY <1>3 DEF GoesOnTo
  <2> QED
    BY <1>1, <1>2, <1>4, <2>1, <2>2, <2>3, ReadsOn
<1> QED
  BY <1>5, <1>6

LEMMA TxReadBudget ==
  ASSUME Parameters, TxInv, NEW r \in RequestIds, ReadBudget(r)
  PROVE  TxInv'
<1>1. PICK k \in Programs : k = call[r] /\ Program(k.kind)[k.step] = "readBudget"
  BY AtIs DEF ReadBudget
<1>2. PICK s, ch : s = storedRes[r] /\ ch = charges[r]
  OBVIOUS
<1>3. (Authorizes(k) /\ k.step = 2) \/ (Ends(k) /\ ~Authorizes(k) /\ k.step = 6)
  BY <1>1, StepOf, ProgramIs
<1>4. Own(k, s, ch) /\ UNCHANGED <<stores, torn>>
  BY <1>1, <1>2 DEF TxInv, ReadBudget
<1>5. CASE Authorizes(k) /\ storedBudget.spent + storedBudget.reserved + k.amount > BudgetLimit
  <2>1. call' = [call EXCEPT ![r] = Idle]
    BY <1>1, <1>5 DEF ReadBudget, Return, Authorizes
  <2>2. Own(Idle, s, ch)
    <3>1. k.kind # "settle"
      BY <1>5 DEF Authorizes
    <3> QED
      BY <1>4, <3>1, IdleIs DEF Own, OwnHold, OwnCharge, Checked, Authorizes, Ends
  <2>3. \A b \in Books : GoesOnTo(k, Idle, b)
    BY <1>3, <1>5 DEF GoesOnTo, Authorizes, Ends
  <2> QED
    BY <1>1, <1>2, <1>4, <2>1, <2>2, <2>3, ReadsOn
<1>6. CASE ~(Authorizes(k) /\ storedBudget.spent + storedBudget.reserved + k.amount > BudgetLimit)
  <2> DEFINE l == [k EXCEPT !.budget = storedBudget]
  <2>1. storedBudget \in StoredBudget
    BY DEF TxInv, StoreType
  <2>2. /\ l \in Programs /\ l.step = k.step /\ l.kind = k.kind /\ l.amount = k.amount
        /\ l.held = k.held /\ l.budget = storedBudget
        /\ l.balance = k.balance /\ l.lot = k.lot
    BY <2>1 DEF Programs
  <2>3. Continue(r, l)
    BY <1>1, <1>6 DEF ReadBudget, Authorizes
  <2> HIDE DEF l
  <2>4. PICK x \in Programs : call' = [call EXCEPT ![r] = x] /\ Follows(x, l)
    BY <1>3, <2>2, <2>3, Continues
  <2>5. /\ x.step = k.step + 1 /\ x.kind = k.kind /\ x.amount = k.amount /\ x.held = k.held
        /\ x.budget = storedBudget /\ x.balance = k.balance /\ x.lot = k.lot
    BY <2>2, <2>4 DEF Follows
  <2>6. Own(x, s, ch)
    <3>1. OwnHold(x, s, ch)
      BY <1>3, <1>4, <2>5 DEF Own, OwnHold, Authorizes, Ends
    <3>2. OwnCharge(x, s, ch)
      BY <1>3, <1>4, <2>5 DEF Own, OwnCharge, Authorizes
    <3>3. Checked(x)
      <4>1. CASE ~Authorizes(k)
        BY <2>5, <4>1 DEF Checked, Authorizes
      <4>2. CASE Authorizes(k)
        <5>1. k.step = 2 /\ storedBudget.spent + storedBudget.reserved + k.amount <= BudgetLimit
          BY <1>3, <1>6, <2>1, <4>2, ProgramIs DEF Parameters, Ends, Authorizes, StoredBudget
        <5> QED
          BY <1>4, <2>5, <4>2, <5>1 DEF Own, Checked
      <4> QED
        BY <4>1, <4>2
    <3> QED
      BY <1>4, <3>1, <3>2, <3>3 DEF Own
  <2>7. \A b \in Books : GoesOnTo(k, x, b)
    BY <1>3, <2>5 DEF GoesOnTo, AuthStep, EndStep, Authorizes, Ends
  <2> QED
    BY <1>1, <1>2, <1>4, <2>4, <2>6, <2>7, ReadsOn
<1> QED
  BY <1>5, <1>6

LEMMA TxReadBalance ==
  ASSUME Parameters, TxInv, NEW r \in RequestIds, ReadBalance(r)
  PROVE  TxInv'
<1>1. PICK k \in Programs : k = call[r] /\ Program(k.kind)[k.step] = "readBalance"
  BY AtIs DEF ReadBalance
<1>2. PICK s, ch : s = storedRes[r] /\ ch = charges[r]
  OBVIOUS
<1>3. (Authorizes(k) /\ k.step = 3) \/ (Ends(k) /\ ~Authorizes(k) /\ k.step = 2)
  BY <1>1, StepOf, ProgramIs
<1>4. Own(k, s, ch) /\ UNCHANGED <<stores, torn>>
  BY <1>1, <1>2 DEF TxInv, ReadBalance
<1>5. CASE Authorizes(k) /\ storedBalance.available < k.amount
  <2>1. call' = [call EXCEPT ![r] = Idle]
    BY <1>1, <1>5 DEF ReadBalance, Return, Authorizes
  <2>2. Own(Idle, s, ch)
    <3>1. k.kind # "settle"
      BY <1>5 DEF Authorizes
    <3> QED
      BY <1>4, <3>1, IdleIs DEF Own, OwnHold, OwnCharge, Checked, Authorizes, Ends
  <2>3. \A b \in Books : GoesOnTo(k, Idle, b)
    BY <1>3, <1>5 DEF GoesOnTo, Authorizes, Ends
  <2> QED
    BY <1>1, <1>2, <1>4, <2>1, <2>2, <2>3, ReadsOn
<1>6. CASE ~(Authorizes(k) /\ storedBalance.available < k.amount)
  <2> DEFINE l == [k EXCEPT !.balance = storedBalance]
  <2>1. storedBalance \in StoredBalance
    BY DEF TxInv, StoreType
  <2>2. /\ l \in Programs /\ l.step = k.step /\ l.kind = k.kind /\ l.amount = k.amount
        /\ l.held = k.held /\ l.balance = storedBalance
        /\ l.budget = k.budget /\ l.lot = k.lot
    BY <2>1 DEF Programs
  <2>3. Continue(r, l)
    BY <1>1, <1>6 DEF ReadBalance, Authorizes
  <2> HIDE DEF l
  <2>4. PICK x \in Programs : call' = [call EXCEPT ![r] = x] /\ Follows(x, l)
    BY <1>3, <2>2, <2>3, Continues
  <2>5. /\ x.step = k.step + 1 /\ x.kind = k.kind /\ x.amount = k.amount /\ x.held = k.held
        /\ x.balance = storedBalance /\ x.budget = k.budget /\ x.lot = k.lot
    BY <2>2, <2>4 DEF Follows
  <2>6. Own(x, s, ch)
    <3>1. OwnHold(x, s, ch)
      BY <1>3, <1>4, <2>5 DEF Own, OwnHold, Authorizes, Ends
    <3>2. OwnCharge(x, s, ch)
      BY <1>3, <1>4, <2>5 DEF Own, OwnCharge, Authorizes
    <3>3. Checked(x)
      <4>1. CASE ~Authorizes(k)
        BY <2>5, <4>1 DEF Checked, Authorizes
      <4>2. CASE Authorizes(k)
        <5>1. k.step = 3 /\ storedBalance.available >= k.amount
          BY <1>3, <1>6, <2>1, <4>2, ProgramIs DEF Parameters, Ends, Authorizes, StoredBalance
        <5> QED
          BY <1>4, <2>5, <4>2, <5>1 DEF Own, Checked
      <4> QED
        BY <4>1, <4>2
    <3> QED
      BY <1>4, <3>1, <3>2, <3>3 DEF Own
  <2>7. \A b \in Books : GoesOnTo(k, x, b)
    BY <1>3, <2>5 DEF GoesOnTo, AuthStep, EndStep, Authorizes, Ends
  <2> QED
    BY <1>1, <1>2, <1>4, <2>4, <2>6, <2>7, ReadsOn
<1> QED
  BY <1>5, <1>6

LEMMA TxReadLot ==
  ASSUME Parameters, TxInv, NEW r \in RequestIds, ReadLot(r)
  PROVE  TxInv'
<1>1. PICK k \in Programs : k = call[r] /\ Program(k.kind)[k.step] = "readLot"
  BY AtIs DEF ReadLot
<1>2. PICK s, ch : s = storedRes[r] /\ ch = charges[r]
  OBVIOUS
<1>3. (Authorizes(k) /\ k.step = 4) \/ (Ends(k) /\ ~Authorizes(k) /\ k.step = 3)
  BY <1>1, StepOf, ProgramIs
<1>4. Own(k, s, ch) /\ UNCHANGED <<stores, torn>>
  BY <1>1, <1>2 DEF TxInv, ReadLot
<1>5. CASE Authorizes(k) /\ lot.remaining - lot.reserved < k.amount
  <2>1. call' = [call EXCEPT ![r] = Idle]
    BY <1>1, <1>5 DEF ReadLot, Return, Authorizes
  <2>2. Own(Idle, s, ch)
    <3>1. k.kind # "settle"
      BY <1>5 DEF Authorizes
    <3> QED
      BY <1>4, <3>1, IdleIs DEF Own, OwnHold, OwnCharge, Checked, Authorizes, Ends
  <2>3. \A b \in Books : GoesOnTo(k, Idle, b)
    BY <1>3, <1>5 DEF GoesOnTo, Authorizes, Ends
  <2> QED
    BY <1>1, <1>2, <1>4, <2>1, <2>2, <2>3, ReadsOn
<1>6. CASE ~(Authorizes(k) /\ lot.remaining - lot.reserved < k.amount)
  <2> DEFINE l == [k EXCEPT !.lot = lot]
  <2>1. lot \in StoredLot
    BY DEF TxInv, StoreType
  <2>2. /\ l \in Programs /\ l.step = k.step /\ l.kind = k.kind /\ l.amount = k.amount
        /\ l.held = k.held /\ l.lot = lot
        /\ l.balance = k.balance /\ l.budget = k.budget
    BY <2>1 DEF Programs
  <2>3. Continue(r, l)
    BY <1>1, <1>6 DEF ReadLot, Authorizes
  <2> HIDE DEF l
  <2>4. PICK x \in Programs : call' = [call EXCEPT ![r] = x] /\ Follows(x, l)
    BY <1>3, <2>2, <2>3, Continues
  <2>5. /\ x.step = k.step + 1 /\ x.kind = k.kind /\ x.amount = k.amount /\ x.held = k.held
        /\ x.lot = lot /\ x.balance = k.balance /\ x.budget = k.budget
    BY <2>2, <2>4 DEF Follows
  <2>6. Own(x, s, ch)
    <3>1. OwnHold(x, s, ch)
      BY <1>3, <1>4, <2>5 DEF Own, OwnHold, Authorizes, Ends
    <3>2. OwnCharge(x, s, ch)
      BY <1>3, <1>4, <2>5 DEF Own, OwnCharge, Authorizes
    <3>3. Checked(x)
      <4>1. CASE ~Authorizes(k)
        BY <2>5, <4>1 DEF Checked, Authorizes
      <4>2. CASE Authorizes(k)
        <5>1. k.step = 4 /\ lot.remaining - lot.reserved >= k.amount
          BY <1>3, <1>6, <2>1, <4>2, ProgramIs DEF Parameters, Ends, Authorizes, StoredLot
        <5> QED
          BY <1>4, <2>5, <4>2, <5>1 DEF Own, Checked
      <4> QED
        BY <4>1, <4>2
    <3> QED
      BY <1>4, <3>1, <3>2, <3>3 DEF Own
  <2>7. \A b \in Books : GoesOnTo(k, x, b)
    BY <1>3, <2>5 DEF GoesOnTo, AuthStep, EndStep, Authorizes, Ends
  <2> QED
    BY <1>1, <1>2, <1>4, <2>4, <2>6, <2>7, ReadsOn
<1> QED
  BY <1>5, <1>6

(* At a save a handler knows its hold, and a settlement that it charges no *)
(* more than that and has not charged yet.                                 *)
SavesBook(k, b) == \/ Authorizes(k) /\ ~Ends(k) /\ k.step = AuthStep(b)
                   \/ Ends(k) /\ ~Authorizes(k) /\ k.step = EndStep(b)

LEMMA AtSave ==
  ASSUME Parameters, NEW k \in Programs, NEW s, NEW ch, Own(k, s, ch),
         NEW b \in Books, SavesBook(k, b)
  PROVE  /\ Authorizes(k) => k.amount \in Nat
         /\ Ends(k) => s.status = "active" /\ k.held = s.amount /\ k.held \in Nat
         /\ k.kind = "settle" => k.amount \in Nat /\ k.amount <= k.held /\ SumFunction(ch) = 0
<1>1. OwnHold(k, s, ch) /\ OwnCharge(k, s, ch) /\ EndStep(b) \in {4, 5, 7}
  BY DEF Own, EndStep, Books
<1>2. ASSUME Ends(k) PROVE s.status = "active" /\ k.held = s.amount /\ k.step \in {4, 5, 7}
  BY <1>1, <1>2 DEF OwnHold, SavesBook
<1>3. ASSUME k.kind = "settle" PROVE k.amount <= k.held /\ SumFunction(ch) = 0
  <2>1. Ends(k) /\ k.amount \in SettledPrices
    BY <1>1, <1>3 DEF OwnHold, Ends
  <2>2. k.held \in HoldAmounts
    BY <1>1, <1>2, <2>1 DEF OwnHold
  <2>3. ch = << >>
    BY <1>1, <1>2, <2>1 DEF OwnCharge
  <2> QED
    BY <2>1, <2>2, <2>3, NoCharge DEF Parameters
<1> QED
  BY <1>2, <1>3, ProgramIs

(* A step that stores one book keeps the invariant if it tears the book or *)
(* moves it by what the handler is about.                                  *)
HoldMove(k) == IF Authorizes(k) THEN k.amount ELSE -k.held
SpendMove(k) == IF k.kind = "settle" THEN k.amount ELSE 0

LEMMA SavesOn ==
  ASSUME Parameters, TxInv, NEW r \in RequestIds, NEW b \in Books,
         NEW k \in Programs, k = call[r], SavesBook(k, b), Continue(r, k),
         UNCHANGED <<storedRes, charges>>,
         storedBalance' \in StoredBalance, lot' \in StoredLot, storedBudget' \in StoredBudget,
         torn \subseteq torn',
         \A o \in Books \ {b} : Reserves(o)' = Reserves(o) /\ Lost(o)' = Lost(o),
         b # "balance" => storedBalance' = storedBalance,
         b \in torn' \/ Moves(b, HoldMove(k), SpendMove(k))
  PROVE  TxInv'
<1>1. PICK s, ch : s = storedRes[r] /\ ch = charges[r]
  OBVIOUS
<1>2. /\ AuthStep(b) \in {5, 7, 8} /\ EndStep(b) \in {4, 5, 7} /\ k.step \in 4..8
      /\ \A o \in Books : AuthStep(o) = AuthStep(b) \/ EndStep(o) = EndStep(b) => o = b
  BY DEF Books, AuthStep, EndStep, SavesBook
<1>3. Own(k, s, ch)
  BY <1>1 DEF TxInv
<1>4. PICK x \in Programs : call' = [call EXCEPT ![r] = x] /\ Follows(x, k)
  BY <1>2, Continues
<1>5. /\ x.step = k.step + 1 /\ x.kind = k.kind /\ x.amount = k.amount /\ x.held = k.held
      /\ x.balance = k.balance /\ x.lot = k.lot /\ x.budget = k.budget
  BY <1>4 DEF Follows
<1>6. /\ Authorizes(x) <=> Authorizes(k)
      /\ Ends(x) <=> Ends(k)
  BY <1>5 DEF Authorizes, Ends
<1>7. Own(x, s, ch)
  <2>1. OwnHold(x, s, ch)
    <3>1. CASE Authorizes(k)
      <4>1. ~Ends(x) /\ k.kind # "settle" /\ k.step \in {5, 7, 8}
        BY <1>2, <1>6, <3>1 DEF SavesBook, Ends
      <4> QED
        BY <1>3, <1>5, <1>6, <3>1, <4>1 DEF Own, OwnHold
    <3>2. CASE Ends(k)
      <4>1. ~Authorizes(x)
        BY <1>6, <3>2 DEF SavesBook
      <4> QED
        BY <1>2, <1>3, <1>5, <1>6, <3>2, <4>1 DEF Own, OwnHold
    <3> QED
      BY <3>1, <3>2 DEF SavesBook
  <2>2. OwnCharge(x, s, ch)
    <3>1. k.kind = "settle" => k.step \in {4, 5, 7}
      BY <1>2 DEF SavesBook, Ends, Authorizes
    <3> QED
      BY <1>3, <1>5, <3>1 DEF Own, OwnCharge
  <2>3. Checked(x)
    <3>1. Authorizes(k) => k.step \in {5, 7, 8}
      BY <1>2 DEF SavesBook
    <3> QED
      BY <1>3, <1>5, <1>6, <3>1 DEF Own, Checked
  <2> QED
    BY <1>3, <2>1, <2>2, <2>3 DEF Own
<1>8. storedRes' = [storedRes EXCEPT ![r] = s] /\ charges' = [charges EXCEPT ![r] = ch]
  BY <1>1 DEF TxInv, StoreType
<1>9. ASSUME NEW o \in Books \ {b}
      PROVE  o \in torn' \/
               Moves(o, HeldOf(o, x, s) - HeldOf(o, call[r], storedRes[r]),
                        SpentOf(o, x, ch) - SpentOf(o, call[r], charges[r]))
  <2>1. GoesOnTo(k, x, o)
    BY <1>2, <1>5, <1>9 DEF GoesOnTo, SavesBook
  <2>2. HeldOf(o, x, s) = HeldOf(o, k, s) /\ SpentOf(o, x, ch) = SpentOf(o, k, ch)
    BY <1>3, <1>7, <2>1, SameHold
  <2>3. o = "balance" => storedBalance' = storedBalance
    BY <1>9
  <2> QED
    BY <1>1, <2>2, <2>3, BookStays
<1>10. /\ HeldOf(b, x, s) - HeldOf(b, k, s) = HoldMove(k)
       /\ SpentOf(b, x, ch) - SpentOf(b, k, ch) = SpendMove(k)
  <2>1. SumFunction(ch) \in Nat
    BY <1>3, ChargeSum DEF Own
  <2>2. CASE Authorizes(k)
    <3>1. ~Ends(k) /\ k.kind # "settle" /\ k.step = AuthStep(b) /\ k.amount \in Nat
      BY <1>3, <2>2, AtSave DEF SavesBook, Ends
    <3>2. HeldOf(b, x, s) = k.amount /\ HeldOf(b, k, s) = 0
      BY <1>2, <1>5, <1>6, <2>2, <3>1 DEF HeldOf
    <3>3. SpentOf(b, x, ch) = SumFunction(ch) /\ SpentOf(b, k, ch) = SumFunction(ch)
      BY <1>5, <3>1 DEF SpentOf
    <3> QED
      BY <2>1, <2>2, <3>1, <3>2, <3>3 DEF HoldMove, SpendMove
  <2>3. CASE Ends(k)
    <3>1. ~Authorizes(k) /\ k.step = EndStep(b)
      BY <2>3 DEF SavesBook
    <3>2. /\ s.status = "active" /\ k.held = s.amount /\ k.held \in Nat
          /\ k.kind = "settle" => k.amount \in Nat /\ SumFunction(ch) = 0
      BY <1>3, <2>3, AtSave
    <3>3. HeldOf(b, x, s) = 0 /\ HeldOf(b, k, s) = k.held
      BY <1>2, <1>5, <1>6, <2>3, <3>1, <3>2 DEF HeldOf
    <3>4. SpentOf(b, x, ch) - SpentOf(b, k, ch) = SpendMove(k)
      BY <1>2, <1>5, <2>1, <3>1, <3>2 DEF SpentOf, SpendMove
    <3> QED
      BY <3>1, <3>2, <3>3, <3>4 DEF HoldMove
  <2> QED
    BY <2>2, <2>3 DEF SavesBook
<1>11. \A o \in Books : o \in torn' \/
          Moves(o, HeldOf(o, x, s) - HeldOf(o, call[r], storedRes[r]),
                   SpentOf(o, x, ch) - SpentOf(o, call[r], charges[r]))
  BY <1>1, <1>9, <1>10
<1> QED
  BY <1>4, <1>7, <1>8, <1>11, RequestSteps

LEMMA TxSaveLot ==
  ASSUME Parameters, TxInv, NEW r \in RequestIds, SaveLot(r)
  PROVE  TxInv'
<1>1. PICK k \in Programs : k = call[r] /\ Program(k.kind)[k.step] = "saveLot"
  BY AtIs DEF SaveLot
<1>2. PICK s, ch : s = storedRes[r] /\ ch = charges[r]
  OBVIOUS
<1>3. "lot" \in Books /\ SavesBook(k, "lot") /\ Own(k, s, ch)
  BY <1>1, <1>2, StepOf, ProgramIs DEF SavesBook, AuthStep, EndStep, Books, TxInv
<1>4. /\ Continue(r, k) /\ UNCHANGED <<storedBalance, storedBudget, storedRes, charges>>
      /\ torn' = (IF k.lot = lot THEN torn ELSE torn \cup {"lot"})
  BY <1>1 DEF SaveLot, Tears
<1>5. /\ k.lot \in StoredLot /\ lot \in StoredLot /\ Credit \in Nat
      /\ k.amount \in Nat /\ k.held \in Nat
  BY ProgramIs DEF TxInv, StoreType, Parameters
<1>6. /\ lot' \in StoredLot
      /\ Authorizes(k) => /\ lot'.reserved = k.lot.reserved + k.amount
                          /\ lot'.remaining = k.lot.remaining
      /\ Ends(k) => /\ lot'.reserved = k.lot.reserved - k.held
                    /\ lot'.remaining = k.lot.remaining - SpendMove(k)
  BY <1>1, <1>3, <1>5 DEF SaveLot, StoredLot, Authorizes, Ends, SpendMove
<1>7. \A o \in Books \ {"lot"} : Reserves(o)' = Reserves(o) /\ Lost(o)' = Lost(o)
  BY <1>4 DEF Reserves, Lost
<1>8. ASSUME "lot" \notin torn'
      PROVE  Moves("lot", HoldMove(k), SpendMove(k))
  <2>1. k.lot = lot /\ "lot" \notin torn
    BY <1>4, <1>8
  <2>2. Reserves("lot") = lot.reserved /\ Lost("lot") = Credit - lot.remaining
        /\ Reserves("lot")' = lot'.reserved /\ Lost("lot")' = Credit - lot'.remaining
        /\ Bound("lot") = Credit
    BY DEF Reserves, Lost, Bound
  <2>3. CASE Authorizes(k)
    <3>1. HoldMove(k) = k.amount /\ SpendMove(k) = 0 /\ k.step = 5
      BY <1>3, <2>3 DEF HoldMove, SpendMove, Authorizes, Ends, SavesBook, AuthStep
    <3>2. lot.remaining - lot.reserved >= k.amount
      BY <1>3, <2>1, <2>3, <3>1 DEF Own, Checked
    <3> QED
      BY <1>5, <1>6, <2>1, <2>2, <2>3, <3>1, <3>2 DEF Moves, StoredLot
  <2>4. CASE Ends(k)
    <3>1. HoldMove(k) = -k.held
      BY <1>3, <2>4 DEF HoldMove, SavesBook
    <3>2. SpendMove(k) \in Nat /\ SpendMove(k) <= k.held
      BY <1>2, <1>3, <1>5, AtSave DEF SpendMove
    <3> QED
      BY <1>5, <1>6, <2>1, <2>2, <2>4, <3>1, <3>2 DEF Moves, StoredLot
  <2> QED
    BY <1>3, <2>3, <2>4 DEF SavesBook
<1>9. torn \subseteq torn' /\ storedBalance' \in StoredBalance /\ storedBudget' \in StoredBudget
  BY <1>4 DEF TxInv, StoreType
<1> QED
  BY <1>1, <1>3, <1>4, <1>6, <1>7, <1>8, <1>9, SavesOn

LEMMA TxSaveBudget ==
  ASSUME Parameters, TxInv, NEW r \in RequestIds, SaveBudget(r)
  PROVE  TxInv'
<1>1. PICK k \in Programs : k = call[r] /\ Program(k.kind)[k.step] = "saveBudget"
  BY AtIs DEF SaveBudget
<1>2. PICK s, ch : s = storedRes[r] /\ ch = charges[r]
  OBVIOUS
<1>3. "budget" \in Books /\ SavesBook(k, "budget") /\ Own(k, s, ch)
  BY <1>1, <1>2, StepOf, ProgramIs DEF SavesBook, AuthStep, EndStep, Books, TxInv
<1>4. /\ Continue(r, k) /\ UNCHANGED <<storedBalance, lot, storedRes, charges>>
      /\ torn' = (IF k.budget = storedBudget THEN torn ELSE torn \cup {"budget"})
  BY <1>1 DEF SaveBudget, Tears
<1>5. /\ k.budget \in StoredBudget /\ storedBudget \in StoredBudget /\ BudgetLimit \in Nat
      /\ k.amount \in Nat /\ k.held \in Nat
  BY ProgramIs DEF TxInv, StoreType, Parameters
<1>6. /\ storedBudget' \in StoredBudget
      /\ Authorizes(k) => /\ storedBudget'.reserved = k.budget.reserved + k.amount
                          /\ storedBudget'.spent = k.budget.spent
      /\ Ends(k) => /\ storedBudget'.reserved = k.budget.reserved - k.held
                    /\ storedBudget'.spent = k.budget.spent + SpendMove(k)
  BY <1>1, <1>3, <1>5 DEF SaveBudget, StoredBudget, Authorizes, Ends, SpendMove
<1>7. \A o \in Books \ {"budget"} : Reserves(o)' = Reserves(o) /\ Lost(o)' = Lost(o)
  BY <1>4 DEF Reserves, Lost, Books
<1>8. ASSUME "budget" \notin torn'
      PROVE  Moves("budget", HoldMove(k), SpendMove(k))
  <2>1. k.budget = storedBudget /\ "budget" \notin torn
    BY <1>4, <1>8
  <2>2. Reserves("budget") = storedBudget.reserved /\ Lost("budget") = storedBudget.spent
        /\ Reserves("budget")' = storedBudget'.reserved /\ Lost("budget")' = storedBudget'.spent
        /\ Bound("budget") = BudgetLimit
    BY DEF Reserves, Lost, Bound
  <2>3. CASE Authorizes(k)
    <3>1. HoldMove(k) = k.amount /\ SpendMove(k) = 0 /\ k.step = 8
      BY <1>3, <2>3 DEF HoldMove, SpendMove, Authorizes, Ends, SavesBook, AuthStep
    <3>2. storedBudget.spent + storedBudget.reserved + k.amount <= BudgetLimit
      BY <1>3, <2>1, <2>3, <3>1 DEF Own, Checked
    <3> QED
      BY <1>5, <1>6, <2>1, <2>2, <2>3, <3>1, <3>2 DEF Moves, StoredBudget
  <2>4. CASE Ends(k)
    <3>1. HoldMove(k) = -k.held
      BY <1>3, <2>4 DEF HoldMove, SavesBook
    <3>2. SpendMove(k) \in Nat /\ SpendMove(k) <= k.held
      BY <1>2, <1>3, <1>5, AtSave DEF SpendMove
    <3> QED
      BY <1>5, <1>6, <2>1, <2>2, <2>4, <3>1, <3>2 DEF Moves, StoredBudget
  <2> QED
    BY <1>3, <2>3, <2>4 DEF SavesBook
<1>9. torn \subseteq torn' /\ storedBalance' \in StoredBalance /\ lot' \in StoredLot
  BY <1>4 DEF TxInv, StoreType
<1> QED
  BY <1>1, <1>3, <1>4, <1>6, <1>7, <1>8, <1>9, SavesOn

(* The clamps at zero do not cut anything off an untorn balance.           *)
LEMMA TxSaveBalance ==
  ASSUME Parameters, TxInv, NEW r \in RequestIds, SaveWalletBalance(r)
  PROVE  TxInv'
<1>1. PICK k \in Programs : k = call[r] /\ Program(k.kind)[k.step] = "saveBalance"
  BY AtIs DEF SaveWalletBalance
<1>2. PICK s, ch : s = storedRes[r] /\ ch = charges[r]
  OBVIOUS
<1>3. "balance" \in Books /\ SavesBook(k, "balance") /\ Own(k, s, ch)
  BY <1>1, <1>2, StepOf, ProgramIs DEF SavesBook, AuthStep, EndStep, Books, TxInv
<1>4. /\ Continue(r, k) /\ UNCHANGED <<lot, storedBudget, storedRes, charges>>
      /\ torn' = (IF k.balance = storedBalance THEN torn ELSE torn \cup {"balance"})
  BY <1>1 DEF SaveWalletBalance, Tears
<1>5. /\ k.balance \in StoredBalance /\ storedBalance \in StoredBalance /\ Credit \in Nat
      /\ k.amount \in Nat /\ k.held \in Nat
  BY ProgramIs DEF TxInv, StoreType, Parameters
<1>6. /\ storedBalance' \in StoredBalance
      /\ Authorizes(k) => /\ storedBalance'.reserved = k.balance.reserved + k.amount
                          /\ storedBalance'.total = k.balance.total
                          /\ storedBalance'.available = AtLeastZero(k.balance.available - k.amount)
      /\ Ends(k) =>
           /\ storedBalance'.reserved = AtLeastZero(k.balance.reserved - k.held)
           /\ storedBalance'.total = AtLeastZero(k.balance.total - SpendMove(k))
           /\ storedBalance'.available = k.balance.available + (k.held - SpendMove(k))
  <2>1. \A i \in Int : AtLeastZero(i) \in Int
    BY DEF AtLeastZero
  <2>2. CASE Authorizes(k)
    <3>1. storedBalance' = [k.balance EXCEPT !.available = AtLeastZero(k.balance.available - k.amount),
                                             !.reserved = k.balance.reserved + k.amount]
      BY <1>1, <2>2 DEF SaveWalletBalance, Authorizes
    <3>2. /\ k.balance.available - k.amount \in Int /\ k.balance.reserved + k.amount \in Int
          /\ ~Ends(k)
      BY <1>3, <1>5, <2>2 DEF StoredBalance, SavesBook
    <3>3. AtLeastZero(k.balance.available - k.amount) \in Int
      BY <2>1, <3>2
    <3> HIDE DEF AtLeastZero
    <3> QED
      BY <1>5, <3>1, <3>2, <3>3 DEF StoredBalance
  <2>3. CASE Ends(k)
    <3> DEFINE p == SpendMove(k)
               freed == IF k.kind = "settle" THEN k.held - k.amount ELSE k.held
    <3>1. k.kind # "authorize" /\ ~Authorizes(k)
      BY <2>3 DEF Ends, Authorizes
    <3>2. storedBalance' = [available |-> k.balance.available + freed,
                            reserved |-> AtLeastZero(k.balance.reserved - k.held),
                            total |-> AtLeastZero(k.balance.total - (k.held - freed))]
      BY <1>1, <3>1 DEF SaveWalletBalance
    <3>3. freed = k.held - p /\ k.held - freed = p /\ p \in Int
      BY <1>5 DEF SpendMove
    <3> HIDE DEF p, freed
    <3>4. storedBalance' = [available |-> k.balance.available + (k.held - p),
                            reserved |-> AtLeastZero(k.balance.reserved - k.held),
                            total |-> AtLeastZero(k.balance.total - p)]
      BY <3>2, <3>3
    <3>5. /\ AtLeastZero(k.balance.reserved - k.held) \in Int
          /\ AtLeastZero(k.balance.total - p) \in Int
          /\ k.balance.available + (k.held - p) \in Int
      BY <1>5, <2>1, <3>3 DEF StoredBalance
    <3>6. storedBalance' \in StoredBalance
      BY <3>4, <3>5 DEF StoredBalance
    <3> QED
      BY <3>1, <3>4, <3>6 DEF p
  <2> QED
    BY <1>3, <2>2, <2>3 DEF SavesBook
<1>7. \A o \in Books \ {"balance"} : Reserves(o)' = Reserves(o) /\ Lost(o)' = Lost(o)
  BY <1>4 DEF Reserves, Lost, Books
<1>8. ASSUME "balance" \notin torn'
      PROVE  Moves("balance", HoldMove(k), SpendMove(k))
  <2>1. k.balance = storedBalance /\ "balance" \notin torn
    BY <1>4, <1>8
  <2>2. /\ Reserves("balance") = storedBalance.reserved
        /\ Lost("balance") = Credit - storedBalance.total
        /\ Reserves("balance")' = storedBalance'.reserved
        /\ Lost("balance")' = Credit - storedBalance'.total
        /\ Bound("balance") = Credit
    BY DEF Reserves, Lost, Bound
  <2>3. /\ Reserves("balance") \in Nat /\ Lost("balance") \in Nat
        /\ HeldOf("balance", k, s) <= Reserves("balance")
        /\ Reserves("balance") + Lost("balance") <= Credit
        /\ storedBalance.available = storedBalance.total - storedBalance.reserved
    BY <1>1, <1>2, <1>3, <2>1, <2>2, SoundBook DEF TxInv, Sound
  <2>4. CASE Authorizes(k)
    <3>1. HoldMove(k) = k.amount /\ SpendMove(k) = 0 /\ k.step = 7
      BY <1>3, <2>4 DEF HoldMove, SpendMove, Authorizes, Ends, SavesBook, AuthStep
    <3>2. storedBalance.available >= k.amount
      BY <1>3, <2>1, <2>4, <3>1 DEF Own, Checked
    <3>3. storedBalance'.available = storedBalance.available - k.amount
      BY <1>5, <1>6, <2>1, <2>4, <3>2 DEF AtLeastZero, StoredBalance
    <3> QED
      BY <1>5, <1>6, <2>1, <2>2, <2>3, <2>4, <3>1, <3>2, <3>3 DEF Moves, StoredBalance
  <2>5. CASE Ends(k)
    <3>1. HoldMove(k) = -k.held /\ k.step = 5 /\ ~Authorizes(k)
      BY <1>3, <2>5 DEF HoldMove, SavesBook, EndStep
    <3>2. /\ SpendMove(k) \in Nat /\ SpendMove(k) <= k.held
          /\ HeldOf("balance", k, s) = k.held
      BY <1>3, <1>5, <2>5, <3>1, AtSave DEF SpendMove, HeldOf, EndStep
    <3> DEFINE p == SpendMove(k)
    <3> HIDE DEF p
    <3>3. p \in Nat /\ p <= k.held /\ k.held <= storedBalance.reserved
      BY <2>2, <2>3, <3>2 DEF p
    <3>4. /\ storedBalance'.reserved = storedBalance.reserved - k.held
          /\ storedBalance'.total = storedBalance.total - p
          /\ storedBalance'.available = storedBalance.available + (k.held - p)
      <4>1. /\ storedBalance'.reserved = AtLeastZero(storedBalance.reserved - k.held)
            /\ storedBalance'.total = AtLeastZero(storedBalance.total - p)
            /\ storedBalance'.available = storedBalance.available + (k.held - p)
        BY <1>6, <2>1, <2>5 DEF p
      <4> QED
        BY <1>5, <2>2, <2>3, <3>3, <4>1 DEF AtLeastZero, StoredBalance
    <3>5. Moves("balance", -k.held, p)
      BY <1>5, <2>2, <2>3, <3>3, <3>4 DEF Moves, StoredBalance
    <3> QED
      BY <3>1, <3>5 DEF p
  <2> QED
    BY <1>3, <2>4, <2>5 DEF SavesBook
<1>9. torn \subseteq torn' /\ lot' \in StoredLot /\ storedBudget' \in StoredBudget
  BY <1>4 DEF TxInv, StoreType
<1> QED
  BY <1>1, <1>3, <1>4, <1>6, <1>7, <1>8, <1>9, SavesOn

(* The two calls that store no book: each book already holds for the       *)
(* request what the entry and the reservation say once they are stored.    *)
KeepsBooks(r, x, s, ch) ==
  /\ call' = [call EXCEPT ![r] = x]
  /\ storedRes' = [storedRes EXCEPT ![r] = s]
  /\ charges' = [charges EXCEPT ![r] = ch]
  /\ UNCHANGED <<storedBalance, lot, storedBudget, torn>>
  /\ \A b \in Books : /\ HeldOf(b, x, s) = HeldOf(b, call[r], storedRes[r])
                      /\ SpentOf(b, x, ch) = SpentOf(b, call[r], charges[r])

LEMMA StoresNoBook ==
  ASSUME Parameters, TxInv, NEW r \in RequestIds, NEW x, NEW s, NEW ch, Own(x, s, ch),
         KeepsBooks(r, x, s, ch)
  PROVE  TxInv'
<1>k. /\ call' = [call EXCEPT ![r] = x] /\ storedRes' = [storedRes EXCEPT ![r] = s]
      /\ charges' = [charges EXCEPT ![r] = ch]
      /\ UNCHANGED <<storedBalance, lot, storedBudget, torn>>
      /\ \A b \in Books : /\ HeldOf(b, x, s) = HeldOf(b, call[r], storedRes[r])
                          /\ SpentOf(b, x, ch) = SpentOf(b, call[r], charges[r])
  BY DEF KeepsBooks
<1>1. ASSUME NEW b \in Books
      PROVE  b \in torn' \/
               Moves(b, HeldOf(b, x, s) - HeldOf(b, call[r], storedRes[r]),
                        SpentOf(b, x, ch) - SpentOf(b, call[r], charges[r]))
  <2>1. Reserves(b)' = Reserves(b) /\ Lost(b)' = Lost(b)
    BY <1>k DEF Reserves, Lost
  <2> QED
    BY <1>k, <2>1, BookStays
<1>2. storedBalance' \in StoredBalance /\ lot' \in StoredLot /\ storedBudget' \in StoredBudget
  BY <1>k DEF TxInv, StoreType
<1> QED
  BY <1>k, <1>1, <1>2, RequestSteps

LEMMA EndSteps == \A b : AuthStep(b) \in {5, 7, 8} /\ EndStep(b) \in {4, 5, 7}
BY DEF AuthStep, EndStep

(* A settlement at its ledger entry has charged nothing yet.               *)
LEMMA EntryOf ==
  ASSUME Parameters, NEW k \in Programs, NEW s, NEW ch, Own(k, s, ch),
         k.kind = "settle", k.step = 8
  PROVE  LET c == IF k.amount > 0 THEN Append(ch, k.amount) ELSE ch IN
         c \in ChargeLists /\ SumFunction(c) = k.amount /\ (k.amount = 0 => c = << >>)
                           /\ (k.amount > 0 => c # << >>)
<1>1. ch = << >> /\ k.amount \in Nat
  BY ProgramIs DEF Own, OwnCharge, OwnHold, Ends
<1>2. Append(<< >>, k.amount) = <<k.amount>>
  OBVIOUS
<1>3. CASE k.amount > 0
  BY <1>1, <1>2, <1>3, TxSumOne DEF ChargeLists
<1>4. CASE k.amount = 0
  BY <1>1, <1>4, NoCharge DEF ChargeLists
<1> QED
  BY <1>1, <1>3, <1>4

LEMMA TxAppendEntry ==
  ASSUME Parameters, TxInv, NEW r \in RequestIds, AppendEntry(r)
  PROVE  TxInv'
<1>1. PICK k \in Programs : k = call[r] /\ Program(k.kind)[k.step] = "append"
  BY AtIs DEF AppendEntry
<1>2. PICK s, ch : s = storedRes[r] /\ ch = charges[r]
  OBVIOUS
<1>3. (Authorizes(k) /\ k.step = 9) \/ (Ends(k) /\ ~Authorizes(k) /\ k.step = 8)
  BY <1>1, StepOf, ProgramIs
<1>4. /\ Own(k, s, ch) /\ Continue(r, k)
      /\ UNCHANGED <<storedBalance, lot, storedBudget, storedRes, torn>>
      /\ storedRes' = [storedRes EXCEPT ![r] = s]
      /\ charges = [charges EXCEPT ![r] = ch]
  BY <1>1, <1>2 DEF TxInv, StoreType, AppendEntry
<1>5. CASE Authorizes(k)
  <2>1. call' = [call EXCEPT ![r] = Idle]
    BY <1>3, <1>4, <1>5, Continues DEF Ends, Authorizes
  <2>2. k.kind # "settle"
    BY <1>5 DEF Authorizes
  <2>3. Own(Idle, s, ch) /\ UNCHANGED <<stores, torn>>
    BY <1>1, <1>4, <2>2, IdleIs
    DEF AppendEntry, stores, Own, OwnHold, OwnCharge, Checked, Authorizes, Ends
  <2>4. \A b \in Books : GoesOnTo(k, Idle, b)
    BY <1>3, <1>5 DEF GoesOnTo, Authorizes, Ends
  <2> QED
    BY <1>1, <1>2, <2>1, <2>3, <2>4, ReadsOn
<1>6. CASE Ends(k)
  <2>1. k.step = 8 /\ ~Authorizes(k)
    BY <1>3, <1>6 DEF Authorizes, Ends
  <2>2. PICK x \in Programs : call' = [call EXCEPT ![r] = x] /\ Follows(x, k)
    BY <1>4, <2>1, Continues
  <2>3. /\ x.step = 9 /\ x.kind = k.kind /\ x.amount = k.amount /\ x.held = k.held
        /\ Ends(x) /\ ~Authorizes(x)
    BY <1>6, <2>1, <2>2 DEF Follows, Ends, Authorizes
  <2> DEFINE c == IF k.kind = "settle" /\ k.amount > 0 THEN Append(ch, k.amount) ELSE ch
  <2>4. charges' = [charges EXCEPT ![r] = c]
    <3>1. CASE k.kind = "settle" /\ k.amount > 0
      BY <1>1, <1>2, <3>1 DEF AppendEntry
    <3>2. CASE ~(k.kind = "settle" /\ k.amount > 0)
      <4>1. charges' = charges
        BY <1>1, <3>2 DEF AppendEntry
      <4> QED
        BY <1>4, <3>2, <4>1
    <3> QED
      BY <3>1, <3>2
  <2>5. /\ c \in ChargeLists
        /\ k.kind = "settle" => SumFunction(c) = k.amount
        /\ k.kind # "settle" => c = ch
    BY <1>4, <2>1, EntryOf DEF Own
  <2> HIDE DEF c
  <2>6. Own(x, s, c)
    <3>1. OwnHold(x, s, c)
      BY <1>4, <1>6, <2>1, <2>3 DEF Own, OwnHold
    <3>2. OwnCharge(x, s, c)
      BY <1>4, <2>1, <2>3, <2>5 DEF Own, OwnCharge
    <3>3. Checked(x)
      BY <2>3 DEF Checked
    <3> QED
      BY <1>4, <2>5, <3>1, <3>2, <3>3 DEF Own
  <2>7. \A b \in Books : HeldOf(b, x, s) = HeldOf(b, k, s) /\ SpentOf(b, x, c) = SpentOf(b, k, ch)
    BY <1>6, <2>1, <2>3, <2>5, EndSteps DEF HeldOf, SpentOf
  <2>8. \A b \in Books : /\ HeldOf(b, x, s) = HeldOf(b, call[r], storedRes[r])
                        /\ SpentOf(b, x, c) = SpentOf(b, call[r], charges[r])
    BY <1>1, <1>2, <2>7
  <2> QED
    <3>1. KeepsBooks(r, x, s, c)
      BY <1>4, <2>2, <2>4, <2>8 DEF KeepsBooks
    <3> QED
      BY <1>4, <2>6, <3>1, StoresNoBook
<1> QED
  BY <1>3, <1>5, <1>6

LEMMA TxSaveReservation ==
  ASSUME Parameters, TxInv, NEW r \in RequestIds, SaveReservation(r)
  PROVE  TxInv'
<1>1. PICK k \in Programs : k = call[r] /\ Program(k.kind)[k.step] = "saveReservation"
  BY AtIs DEF SaveReservation
<1>2. PICK s, ch : s = storedRes[r] /\ ch = charges[r]
  OBVIOUS
<1>3. (Authorizes(k) /\ k.step = 6) \/ (Ends(k) /\ ~Authorizes(k) /\ k.step = 9)
  BY <1>1, StepOf, ProgramIs
<1> DEFINE t == [status |-> Outcome(k), amount |-> IF k.kind = "authorize" THEN k.amount ELSE k.held]
<1>4. /\ Own(k, s, ch) /\ Continue(r, k)
      /\ UNCHANGED <<storedBalance, lot, storedBudget, torn>>
      /\ storedRes' = [storedRes EXCEPT ![r] = t]
      /\ charges' = [charges EXCEPT ![r] = ch]
  BY <1>1, <1>2 DEF TxInv, StoreType, SaveReservation
<1>5. k.amount \in Nat /\ k.held \in Nat
  BY ProgramIs
<1>6. CASE Authorizes(k)
  <2>1. k.kind = "authorize" /\ k.step = 6 /\ ~Ends(k)
    BY <1>3, <1>6 DEF Authorizes, Ends
  <2>2. PICK x \in Programs : call' = [call EXCEPT ![r] = x] /\ Follows(x, k)
    BY <1>4, <2>1, Continues
  <2>3. /\ x.step = 7 /\ x.kind = k.kind /\ x.amount = k.amount
        /\ x.balance = k.balance /\ x.lot = k.lot /\ x.budget = k.budget
        /\ ~Ends(x) /\ Authorizes(x)
    BY <2>1, <2>2 DEF Follows, Ends, Authorizes
  <2>4. t \in StoredRes /\ t.status = "active" /\ t.amount = k.amount
    BY <1>5, <2>1 DEF Outcome, StoredRes
  <2> HIDE DEF t
  <2>5. Own(x, t, ch)
    <3>1. OwnHold(x, t, ch)
      BY <1>4, <1>6, <2>1, <2>3, <2>4 DEF Own, OwnHold
    <3>2. OwnCharge(x, t, ch)
      BY <1>4, <1>6, <2>1, <2>3 DEF Own, OwnCharge, OwnHold
    <3>3. Checked(x)
      BY <1>4, <1>6, <2>1, <2>3 DEF Own, Checked
    <3> QED
      BY <1>4, <2>4, <3>1, <3>2, <3>3 DEF Own
  <2>6. \A b \in Books : HeldOf(b, x, t) = HeldOf(b, k, s) /\ SpentOf(b, x, ch) = SpentOf(b, k, ch)
    BY <1>6, <2>1, <2>3, EndSteps DEF HeldOf, SpentOf
  <2>7. \A b \in Books : /\ HeldOf(b, x, t) = HeldOf(b, call[r], storedRes[r])
                        /\ SpentOf(b, x, ch) = SpentOf(b, call[r], charges[r])
    BY <1>1, <1>2, <2>6
  <2> QED
    <3>1. KeepsBooks(r, x, t, ch)
      BY <1>4, <2>2, <2>7 DEF KeepsBooks
    <3> QED
      BY <2>5, <3>1, StoresNoBook
<1>7. CASE Ends(k)
  <2>1. k.kind \in {"settle", "release"} /\ k.step = 9 /\ ~Authorizes(k)
    BY <1>3, <1>7 DEF Authorizes, Ends
  <2>2. call' = [call EXCEPT ![r] = Idle]
    BY <1>4, <2>1, Continues
  <2>3. t \in StoredRes /\ t.status # "active" /\ t.amount = k.held
        /\ (k.kind = "settle" => t.status = "settled")
    BY <1>5, <2>1 DEF Outcome, StoredRes
  <2>4. Idle.kind = "idle" /\ ~Authorizes(Idle) /\ ~Ends(Idle)
    BY IdleIs DEF Authorizes, Ends
  <2> HIDE DEF t
  <2>5. Own(Idle, t, ch)
    <3>1. s.status = "active"
      BY <1>4, <1>7, <2>1 DEF Own, OwnHold
    <3>2. OwnCharge(Idle, t, ch)
      BY <1>4, <2>1, <2>3, <2>4, <3>1 DEF Own, OwnCharge
    <3>3. OwnHold(Idle, t, ch) /\ Checked(Idle)
      BY <2>3, <2>4 DEF OwnHold, Checked
    <3> QED
      BY <1>4, <2>3, <3>2, <3>3 DEF Own
  <2>6. \A b \in Books : HeldOf(b, Idle, t) = HeldOf(b, k, s) /\ SpentOf(b, Idle, ch) = SpentOf(b, k, ch)
    BY <1>4, <1>7, <2>1, <2>3, <2>4, EndSteps DEF HeldOf, SpentOf, Own, OwnCharge
  <2>7. \A b \in Books : /\ HeldOf(b, Idle, t) = HeldOf(b, call[r], storedRes[r])
                        /\ SpentOf(b, Idle, ch) = SpentOf(b, call[r], charges[r])
    BY <1>1, <1>2, <2>6
  <2> QED
    <3>1. KeepsBooks(r, Idle, t, ch)
      BY <1>4, <2>2, <2>7 DEF KeepsBooks
    <3> QED
      BY <2>5, <3>1, StoresNoBook
<1> QED
  BY <1>3, <1>6, <1>7

LEMMA TxInit == Parameters /\ TransactionInit => TxInv
<1> SUFFICES ASSUME Parameters, TransactionInit PROVE TxInv
  OBVIOUS
<1>1. Idle.kind = "idle" /\ ~Authorizes(Idle) /\ ~Ends(Idle) /\ SumFunction(<< >>) = 0
  BY IdleIs, NoCharge DEF Authorizes, Ends
<1>2. StoreType
  BY DEF StoreType, TransactionInit, StoredBalance, StoredLot, StoredBudget, Parameters
<1>3. ASSUME NEW r \in RequestIds
      PROVE  /\ call[r] = Idle /\ charges[r] = << >>
             /\ storedRes[r].status = "none" /\ storedRes[r] \in StoredRes
  BY DEF TransactionInit, StoredRes
<1>4. \A r \in RequestIds : Own(call[r], storedRes[r], charges[r])
  BY <1>1, <1>3 DEF Own, OwnHold, OwnCharge, Checked, ChargeLists
<1>5. ASSUME NEW b \in Books PROVE Sound(b)
  <2> DEFINE z == [r \in RequestIds |-> 0]
  <2>1. HeldIn(b) = z /\ SpentIn(b) = z
    BY <1>1, <1>3 DEF HeldIn, SpentIn, HeldOf, SpentOf
  <2>2. SumFunction(z) = SumFunctionOnSet(z, DOMAIN z) /\ DOMAIN z = RequestIds
    BY DEF SumFunction, FoldFunction, SumFunctionOnSet, FoldFunctionOnSet
  <2>3. \A r \in RequestIds : z[r] = 0
    OBVIOUS
  <2> HIDE DEF z
  <2>4. SumFunction(z) = 0
    <3>1. IsFiniteSet(RequestIds) /\ \A r \in RequestIds : z[r] \in Int /\ z[r] = z[r] + z[r]
      BY <2>3 DEF Parameters
    <3>2. SumFunctionOnSet(z, RequestIds) \in Int
      BY <3>1, SumInt
    <3>3. SumFunctionOnSet(z, RequestIds)
            = SumFunctionOnSet(z, RequestIds) + SumFunctionOnSet(z, RequestIds)
      BY <3>1, SumPlus
    <3>4. \A n \in Int : n = n + n => n = 0
      OBVIOUS
    <3> QED
      BY <2>2, <3>2, <3>3, <3>4, Zenon
  <2>5. Reserves(b) = 0 /\ Lost(b) = 0 /\ Bound(b) >= 0
        /\ storedBalance.available = storedBalance.total - storedBalance.reserved
    BY DEF Parameters, TransactionInit, Reserves, Lost, Bound
  <2> QED
    BY <2>1, <2>4, <2>5 DEF Sound
<1> QED
  BY <1>2, <1>4, <1>5 DEF TxInv

LEMMA TxSame ==
  ASSUME TxInv, UNCHANGED transactionVars
  PROVE  TxInv'
<1>1. /\ storedBalance' = storedBalance /\ lot' = lot /\ storedBudget' = storedBudget
      /\ storedRes' = storedRes /\ charges' = charges /\ call' = call /\ torn' = torn
  BY DEF transactionVars
<1>2. \A b : HeldIn(b)' = HeldIn(b) /\ SpentIn(b)' = SpentIn(b)
             /\ Reserves(b)' = Reserves(b) /\ Lost(b)' = Lost(b)
  BY <1>1 DEF HeldIn, SpentIn, Reserves, Lost
<1>3. StoreType' /\ \A r \in RequestIds : Own(call'[r], storedRes'[r], charges'[r])
  BY <1>1 DEF TxInv, StoreType
<1>4. \A b \in Books : b \in torn' \/ Sound(b)'
  BY <1>1, <1>2 DEF TxInv, Sound, Bound
<1> QED
  BY <1>3, <1>4 DEF TxInv

LEMMA TxSteps ==
  ASSUME Parameters, TxInv, [TransactionNext]_transactionVars
  PROVE  TxInv'
<1>1. CASE UNCHANGED transactionVars
  BY <1>1, TxSame
<1>2. ASSUME NEW r \in RequestIds,
             \/ \E est \in HoldAmounts : Enter(r, "authorize", est)
             \/ \E price \in SettledPrices : Enter(r, "settle", price)
             \/ Enter(r, "release", 0)
      PROVE  TxInv'
  BY <1>2, TxEnter DEF Parameters, Kinds
<1>3. ASSUME NEW r \in RequestIds, Handler(r) PROVE TxInv'
  BY <1>3, TxLookup, TxReadBudget, TxReadBalance, TxReadLot, TxSaveLot, TxSaveBalance,
     TxSaveBudget, TxAppendEntry, TxSaveReservation DEF Handler
<1> QED
  BY <1>1, <1>2, <1>3 DEF TransactionNext

LEMMA TxKept == TransactionSpec => []TxInv
<1>1. TransactionInit => TxInv
  BY TxInit, TransactionAssumption
<1>2. TxInv /\ [TransactionNext]_transactionVars => TxInv'
  BY TxSteps, TransactionAssumption
<1> QED
  BY <1>1, <1>2, PTL DEF TransactionSpec

(* However the handlers of different requests interleave, between handlers *)
(* a book over which no outdated copy was stored agrees with reservations  *)
(* and charges and keeps its bound, whatever happened to the others.       *)
THEOREM UntornBooksAgree == TransactionSpec => []BooksAgree
<1>1. TxInv => BooksAgree
  <2> SUFFICES ASSUME TxInv, Quiescent PROVE BooksAgree
    BY DEF BooksAgree
  <2>1. Idle.kind = "idle" /\ ~Authorizes(Idle) /\ ~Ends(Idle)
    BY IdleIs DEF Authorizes, Ends
  <2>2. \A r \in RequestIds : call[r] = Idle
    BY DEF Quiescent, Running
  <2>3. \A b : SumFunction(HeldIn(b)) = HeldByRequests /\ SumFunction(SpentIn(b)) = ChargedAmount
    <3>1. ASSUME NEW b
          PROVE  /\ HeldIn(b) = [r \in RequestIds |-> IF storedRes[r].status = "active"
                                                      THEN storedRes[r].amount ELSE 0]
                 /\ SpentIn(b) = [r \in RequestIds |-> SumFunction(charges[r])]
      BY <2>1, <2>2 DEF HeldIn, SpentIn, HeldOf, SpentOf
    <3> QED
      BY <3>1 DEF HeldByRequests, ChargedAmount
  <2>4. \A b \in Books : b \notin torn => Sound(b)
    BY DEF TxInv
  <2>5. {"lot", "balance", "budget"} \subseteq Books
    BY DEF Books
  <2> QED
    BY <2>3, <2>4, <2>5 DEF BooksAgree, Sound, Reserves, Lost, Bound
<1> QED
  BY <1>1, TxKept, PTL

(* The contract: the phase of a request by its handler and reservation.    *)
PhaseOf(k, s) == IF Ends(k) /\ k.step = 9 THEN Outcome(k) ELSE s.status

LEMMA LastCall ==
  ASSUME NEW k \in {Idle} \cup Programs
  PROVE  (k.kind \in {"settle", "release"} /\ Program(k.kind)[k.step] = "saveReservation")
           <=> (Ends(k) /\ k.step = 9)
<1>1. CASE k = Idle
  BY <1>1, IdleIs DEF Ends
<1>2. CASE k \in Programs /\ Ends(k)
  <2>1. k.step \in 1..9 /\ k.kind \in {"settle", "release"}
    BY <1>2, ProgramIs DEF Ends
  <2> QED
    BY <1>2, <2>1, EndProgram
<1>3. CASE ~Ends(k)
  BY <1>3 DEF Ends
<1> QED
  BY <1>1, <1>2, <1>3

LEMMA PhaseIs ==
  /\ TxInv => \A r \in RequestIds : Phase(r) = PhaseOf(call[r], storedRes[r])
  /\ TxInv' => \A r \in RequestIds : Phase(r)' = PhaseOf(call'[r], storedRes'[r])
<1>1. \A k \in {Idle} \cup Programs : \A s :
        PhaseOf(k, s) = IF k.kind \in {"settle", "release"}
                             /\ Program(k.kind)[k.step] = "saveReservation"
                        THEN Outcome(k) ELSE s.status
  BY LastCall DEF PhaseOf
<1>2. TxInv => \A r \in RequestIds : call[r] \in {Idle} \cup Programs
  BY DEF TxInv, Own
<1>3. TxInv' => \A r \in RequestIds : call'[r] \in {Idle} \cup Programs
  BY DEF TxInv, Own
<1>4. TxInv => \A r \in RequestIds : Phase(r) = PhaseOf(call[r], storedRes[r])
  BY <1>1, <1>2 DEF Phase, At
<1>5. TxInv' => \A r \in RequestIds : Phase(r)' = PhaseOf(call'[r], storedRes'[r])
  BY <1>1, <1>3 DEF Phase, At
<1> QED
  BY <1>4, <1>5

(* A step of one request, seen from the contract.                          *)
OthersStay(r) ==
  \A q \in RequestIds \ {r} :
    call'[q] = call[q] /\ storedRes'[q] = storedRes[q] /\ charges'[q] = charges[q]

Turns(r, from, to) ==
  PhaseOf(call[r], storedRes[r]) = from /\ PhaseOf(call'[r], storedRes'[r]) = to

BilledAsBefore(r) == (charges'[r] # << >>) <=> (charges[r] # << >>)

LEMMA ContractStep ==
  ASSUME TxInv, TxInv', NEW r \in RequestIds, OthersStay(r),
         \/ BilledAsBefore(r) /\ \E p : Turns(r, p, p)
         \/ BilledAsBefore(r) /\ Turns(r, "none", "active")
         \/ Turns(r, "active", "settled")
         \/ BilledAsBefore(r) /\ Turns(r, "active", "released")
  PROVE  [Billing!Next]_Billing!cvars
<1> DEFINE ph == [q \in RequestIds |-> Phase(q)]
           bi == [q \in RequestIds |-> charges[q] # << >>]
           phn == [q \in RequestIds |-> Phase(q)']
           bin == [q \in RequestIds |-> charges'[q] # << >>]
           from == PhaseOf(call[r], storedRes[r])
           to == PhaseOf(call'[r], storedRes'[r])
<1>1. /\ ph[r] = from /\ phn[r] = to
      /\ \A q \in RequestIds \ {r} : phn[q] = ph[q] /\ bin[q] = bi[q]
  BY PhaseIs DEF OthersStay
<1>2. phn = [ph EXCEPT ![r] = to] /\ bin = [bi EXCEPT ![r] = bin[r]] /\ bin[r] \in BOOLEAN
  BY <1>1
<1>3. BilledAsBefore(r) => bin = bi
  BY <1>1 DEF BilledAsBefore
<1>4. Billing!cvars = <<ph, bi>> /\ Billing!cvars' = <<phn, bin>>
  BY DEF Billing!cvars
<1>5. CASE BilledAsBefore(r) /\ \E p : Turns(r, p, p)
  <2>1. from = to
    BY <1>5 DEF Turns
  <2>2. phn = ph
    BY <1>1, <2>1
  <2> QED
    BY <1>3, <1>4, <1>5, <2>2
<1> HIDE DEF ph, bi, phn, bin, from, to
<1>6. CASE BilledAsBefore(r) /\ Turns(r, "none", "active")
  <2>1. from = "none" /\ to = "active"
    BY <1>6 DEF Turns, from, to
  <2>2. Billing!Hold(r)
    BY <1>1, <1>2, <1>3, <1>6, <2>1 DEF Billing!Hold, ph, bi, phn, bin
  <2> QED
    BY <2>2 DEF Billing!Next
<1>7. CASE Turns(r, "active", "settled")
  <2>1. from = "active" /\ to = "settled"
    BY <1>7 DEF Turns, from, to
  <2>2. Billing!Settle(r)
    BY <1>1, <1>2, <2>1 DEF Billing!Settle, ph, bi, phn, bin
  <2> QED
    BY <2>2 DEF Billing!Next
<1>8. CASE BilledAsBefore(r) /\ Turns(r, "active", "released")
  <2>1. from = "active" /\ to = "released"
    BY <1>8 DEF Turns, from, to
  <2>2. Billing!GiveBack(r)
    BY <1>1, <1>2, <1>3, <1>8, <2>1 DEF Billing!GiveBack, ph, bi, phn, bin
  <2> QED
    BY <2>2 DEF Billing!Next
<1> QED
  BY <1>5, <1>6, <1>7, <1>8

(* Calls that store neither reservation nor entry change nothing that the  *)
(* contract sees.                                                          *)
LEMMA QuietCall ==
  ASSUME TxInv, TxInv', NEW r \in RequestIds, UNCHANGED <<storedRes, charges>>,
         Ends(call[r]) => call[r].step < 8,
         NEW x, call' = [call EXCEPT ![r] = x], Ends(x) => x.step < 9
  PROVE  [Billing!Next]_Billing!cvars
<1>1. OthersStay(r) /\ call'[r] = x
  BY DEF OthersStay, TxInv, StoreType
<1>2. call[r] \in {Idle} \cup Programs
  BY DEF TxInv, Own
<1>3. Turns(r, storedRes[r].status, storedRes[r].status)
  <2>1. ~(Ends(call[r]) /\ call[r].step = 9)
    OBVIOUS
  <2>2. ~(Ends(x) /\ x.step = 9)
    OBVIOUS
  <2> QED
    BY <1>1, <2>1, <2>2 DEF Turns, PhaseOf
<1> QED
  BY <1>1, <1>3, ContractStep DEF BilledAsBefore

LEMMA QuietHandler ==
  ASSUME TxInv, TxInv', NEW r \in RequestIds, NEW op,
         op \in {"lookup", "readBudget", "readBalance", "readLot",
                 "saveLot", "saveBalance", "saveBudget"},
         At(r, Kinds, op), UNCHANGED <<storedRes, charges>>,
         \/ Return(r)
         \/ \E l \in Programs : /\ l.kind = call[r].kind /\ l.step = call[r].step
                                /\ Continue(r, l)
  PROVE  [Billing!Next]_Billing!cvars
<1>1. PICK k \in Programs : k = call[r] /\ Program(k.kind)[k.step] = op
  BY AtIs
<1>2. Ends(k) => k.step < 8
  BY <1>1, StepOf
<1>3. CASE Return(r)
  <2>1. call' = [call EXCEPT ![r] = Idle] /\ ~Ends(Idle)
    BY <1>3, IdleIs DEF Return, Ends
  <2> QED
    BY <1>1, <1>2, <2>1, QuietCall
<1>4. ASSUME NEW l \in Programs, l.kind = k.kind, l.step = k.step, Continue(r, l)
      PROVE  [Billing!Next]_Billing!cvars
  <2>1. PICK x \in {Idle} \cup Programs :
          /\ call' = [call EXCEPT ![r] = x]
          /\ l.step = 9 => x = Idle
          /\ l.step # 9 => x \in Programs /\ Follows(x, l)
    BY <1>4, Continues
  <2>2. Ends(x) => x.step < 9
    BY <1>2, <1>4, <2>1, IdleIs, ProgramIs DEF Ends, Follows
  <2> QED
    BY <1>1, <1>2, <2>1, <2>2, QuietCall
<1> QED
  BY <1>1, <1>3, <1>4

LEMMA ReadIsQuiet ==
  ASSUME TxInv, TxInv', NEW r \in RequestIds,
         Lookup(r) \/ ReadBudget(r) \/ ReadBalance(r) \/ ReadLot(r)
  PROVE  [Billing!Next]_Billing!cvars
<1>1. UNCHANGED <<storedRes, charges>>
  BY DEF Lookup, ReadBudget, ReadBalance, ReadLot, stores
<1>2. PICK op \in {"lookup", "readBudget", "readBalance", "readLot"} : At(r, Kinds, op)
  BY DEF Lookup, ReadBudget, ReadBalance, ReadLot
<1>3. PICK k \in Programs : k = call[r]
  BY <1>2, AtIs
<1>4. StoreType /\ storedRes[r] \in StoredRes
  BY DEF TxInv, Own
<1>5. Return(r) \/ \E l \in Programs : l.kind = k.kind /\ l.step = k.step /\ Continue(r, l)
  <2>1. CASE Lookup(r)
    <3> DEFINE l == [k EXCEPT !.held = storedRes[r].amount]
    <3>1. l \in Programs /\ l.kind = k.kind /\ l.step = k.step
      BY <1>4 DEF Programs, StoredRes
    <3>2. Return(r) \/ Continue(r, l)
      BY <1>3, <2>1 DEF Lookup
    <3> QED
      BY <3>1, <3>2
  <2>2. CASE ReadBudget(r)
    <3> DEFINE l == [k EXCEPT !.budget = storedBudget]
    <3>1. l \in Programs /\ l.kind = k.kind /\ l.step = k.step
      BY <1>4 DEF Programs, StoreType
    <3>2. Return(r) \/ Continue(r, l)
      BY <1>3, <2>2 DEF ReadBudget
    <3> QED
      BY <3>1, <3>2
  <2>3. CASE ReadBalance(r)
    <3> DEFINE l == [k EXCEPT !.balance = storedBalance]
    <3>1. l \in Programs /\ l.kind = k.kind /\ l.step = k.step
      BY <1>4 DEF Programs, StoreType
    <3>2. Return(r) \/ Continue(r, l)
      BY <1>3, <2>3 DEF ReadBalance
    <3> QED
      BY <3>1, <3>2
  <2>4. CASE ReadLot(r)
    <3> DEFINE l == [k EXCEPT !.lot = lot]
    <3>1. l \in Programs /\ l.kind = k.kind /\ l.step = k.step
      BY <1>4 DEF Programs, StoreType
    <3>2. Return(r) \/ Continue(r, l)
      BY <1>3, <2>4 DEF ReadLot
    <3> QED
      BY <3>1, <3>2
  <2> QED
    BY <2>1, <2>2, <2>3, <2>4
<1> QED
  BY <1>1, <1>2, <1>3, <1>5, QuietHandler

LEMMA SaveIsQuiet ==
  ASSUME TxInv, TxInv', NEW r \in RequestIds,
         SaveLot(r) \/ SaveWalletBalance(r) \/ SaveBudget(r)
  PROVE  [Billing!Next]_Billing!cvars
<1>1. UNCHANGED <<storedRes, charges>> /\ Continue(r, call[r])
  BY DEF SaveLot, SaveWalletBalance, SaveBudget
<1>2. PICK op \in {"saveLot", "saveBalance", "saveBudget"} : At(r, Kinds, op)
  BY DEF SaveLot, SaveWalletBalance, SaveBudget
<1>3. call[r] \in Programs
  BY <1>2, AtIs
<1> QED
  BY <1>1, <1>2, <1>3, QuietHandler

LEMMA EnterIsQuiet ==
  ASSUME TxInv, TxInv', NEW r \in RequestIds, NEW kind, NEW amount, Enter(r, kind, amount)
  PROVE  [Billing!Next]_Billing!cvars
<1> DEFINE x == [Idle EXCEPT !.kind = kind, !.step = 1, !.amount = amount]
<1>1. call' = [call EXCEPT ![r] = x] /\ UNCHANGED <<storedRes, charges>> /\ call[r] = Idle
  BY DEF Enter, stores, Running
<1>2. x.step = 1 /\ ~Ends(Idle)
  BY IdleIs DEF Idle, Ends
<1> HIDE DEF x
<1>3. PICK y : y = x
  OBVIOUS
<1>4. call' = [call EXCEPT ![r] = y] /\ (Ends(call[r]) => call[r].step < 8) /\ (Ends(y) => y.step < 9)
  BY <1>1, <1>2, <1>3
<1> QED
  BY <1>1, <1>4, QuietCall

LEMMA EntryTakesEffect ==
  ASSUME Parameters, TxInv, TxInv', NEW r \in RequestIds, AppendEntry(r)
  PROVE  [Billing!Next]_Billing!cvars
<1>1. PICK k \in Programs : k = call[r] /\ Program(k.kind)[k.step] = "append"
  BY AtIs DEF AppendEntry
<1>2. (Authorizes(k) /\ ~Ends(k) /\ k.step = 9) \/ (Ends(k) /\ ~Authorizes(k) /\ k.step = 8)
  BY <1>1, StepOf, ProgramIs
<1>3. Own(k, storedRes[r], charges[r]) /\ Continue(r, k) /\ storedRes' = storedRes
  BY <1>1 DEF TxInv, AppendEntry
<1>4. PICK x \in {Idle} \cup Programs :
        /\ call' = [call EXCEPT ![r] = x]
        /\ k.step = 9 => x = Idle
        /\ k.step # 9 => x \in Programs /\ Follows(x, k)
  BY <1>3, Continues
<1>5. call'[r] = x
  BY <1>4 DEF TxInv, StoreType
<1>6. OthersStay(r) /\ (k.kind # "settle" => BilledAsBefore(r))
  <2>1. charges' = charges \/ \E c : charges' = [charges EXCEPT ![r] = c]
    BY DEF AppendEntry
  <2>2. k.kind # "settle" => charges' = charges
    BY <1>1 DEF AppendEntry
  <2> QED
    BY <1>3, <1>4, <2>1, <2>2 DEF OthersStay, BilledAsBefore, TxInv, StoreType
<1>7. CASE Authorizes(k)
  <2>1. ~Ends(Idle) /\ x = Idle /\ ~Ends(k) /\ k.kind # "settle"
    BY <1>2, <1>4, <1>7, IdleIs DEF Ends, Authorizes
  <2>2. Turns(r, storedRes[r].status, storedRes[r].status)
    BY <1>1, <1>3, <1>5, <2>1 DEF Turns, PhaseOf
  <2> QED
    BY <1>6, <2>1, <2>2, ContractStep
<1>8. CASE Ends(k)
  <2>1. k.step = 8 /\ x.step = 9 /\ x.kind = k.kind /\ Ends(x)
    BY <1>2, <1>4, <1>8 DEF Follows, Ends
  <2>2. storedRes[r].status = "active"
    BY <1>3, <1>8, <2>1 DEF Own, OwnHold
  <2>3. Turns(r, "active", IF k.kind = "settle" THEN "settled" ELSE "released")
    BY <1>1, <1>5, <1>8, <2>1, <2>2 DEF Turns, PhaseOf, Outcome, Ends
  <2> QED
    BY <1>6, <2>3, ContractStep
<1> QED
  BY <1>2, <1>7, <1>8

LEMMA ReservationTakesEffect ==
  ASSUME Parameters, TxInv, TxInv', NEW r \in RequestIds, SaveReservation(r)
  PROVE  [Billing!Next]_Billing!cvars
<1>1. PICK k \in Programs : k = call[r] /\ Program(k.kind)[k.step] = "saveReservation"
  BY AtIs DEF SaveReservation
<1>2. (Authorizes(k) /\ ~Ends(k) /\ k.step = 6) \/ (Ends(k) /\ ~Authorizes(k) /\ k.step = 9)
  BY <1>1, StepOf, ProgramIs
<1>3. /\ Own(k, storedRes[r], charges[r]) /\ Continue(r, k) /\ charges' = charges
      /\ storedRes'[r].status = Outcome(k)
      /\ \A q \in RequestIds \ {r} : storedRes'[q] = storedRes[q]
  BY <1>1 DEF TxInv, StoreType, SaveReservation
<1>4. PICK x \in {Idle} \cup Programs :
        /\ call' = [call EXCEPT ![r] = x]
        /\ k.step = 9 => x = Idle
        /\ k.step # 9 => x \in Programs /\ Follows(x, k)
  BY <1>3, Continues
<1>5. call'[r] = x /\ OthersStay(r) /\ BilledAsBefore(r)
  BY <1>3, <1>4 DEF TxInv, StoreType, OthersStay, BilledAsBefore
<1>6. CASE Authorizes(k)
  <2>1. k.kind = "authorize" /\ ~Ends(k) /\ ~Ends(x) /\ k.step = 6
    BY <1>2, <1>4, <1>6 DEF Follows, Ends, Authorizes
  <2>2. storedRes[r].status = "none"
    BY <1>3, <1>6, <2>1 DEF Own, OwnHold
  <2>3. Turns(r, "none", "active")
    BY <1>1, <1>3, <1>5, <2>1, <2>2 DEF Turns, PhaseOf, Outcome
  <2> QED
    BY <1>5, <2>3, ContractStep
<1>7. CASE Ends(k)
  <2>1. k.step = 9 /\ x = Idle /\ ~Ends(Idle)
    BY <1>2, <1>4, <1>7, IdleIs DEF Ends
  <2>2. Turns(r, Outcome(k), Outcome(k))
    BY <1>1, <1>3, <1>5, <1>7, <2>1 DEF Turns, PhaseOf
  <2> QED
    BY <1>5, <2>2, ContractStep
<1> QED
  BY <1>2, <1>6, <1>7

(* However the calls of different requests interleave, each handler is one *)
(* step of the billing contract: at its ledger entry, or at the stored     *)
(* reservation when that comes first.                                      *)
THEOREM CallsImplementContract == TransactionSpec => TransactionsImplementContract
<1>1. TransactionInit => Billing!Init
  <2> SUFFICES ASSUME TransactionInit PROVE Billing!Init
    OBVIOUS
  <2>1. \A r \in RequestIds : call[r] = Idle /\ storedRes[r].status = "none" /\ charges[r] = << >>
    BY DEF TransactionInit
  <2>2. TxInv
    BY TxInit, TransactionAssumption
  <2>3. \A r \in RequestIds : Phase(r) = "none"
    BY <2>1, <2>2, PhaseIs, IdleIs DEF PhaseOf, Ends
  <2> QED
    BY <2>1, <2>3 DEF Billing!Init
<1>2. TxInv /\ TxInv' /\ [TransactionNext]_transactionVars => [Billing!Next]_Billing!cvars
  <2> SUFFICES ASSUME TxInv, TxInv', [TransactionNext]_transactionVars
               PROVE  [Billing!Next]_Billing!cvars
    OBVIOUS
  <2>1. CASE UNCHANGED transactionVars
    <3>1. call' = call /\ storedRes' = storedRes /\ charges' = charges
      BY <2>1 DEF transactionVars
    <3>2. \A r : Phase(r)' = Phase(r)
      BY <3>1 DEF Phase, At
    <3> QED
      BY <3>1, <3>2 DEF Billing!cvars
  <2>2. ASSUME NEW r \in RequestIds, Handler(r) PROVE [Billing!Next]_Billing!cvars
    BY <2>2, ReadIsQuiet, SaveIsQuiet, EntryTakesEffect, ReservationTakesEffect,
       TransactionAssumption DEF Handler
  <2>3. ASSUME NEW r \in RequestIds, NEW kind, NEW amount, Enter(r, kind, amount)
        PROVE  [Billing!Next]_Billing!cvars
    BY <2>3, EnterIsQuiet
  <2> QED
    BY <2>1, <2>2, <2>3 DEF TransactionNext
<1> QED
  BY <1>1, <1>2, TxKept, PTL
  DEF TransactionSpec, TransactionsImplementContract, Billing!Spec
=============================================================================
