----------------------------- MODULE QuotaProofs -----------------------------
(***************************************************************************)
(* The quota ledger is exact and never over its limits, for any number of   *)
(* transactions, uploads and answers, any sizes, limits and lengths of the  *)
(* month.                                                                   *)
(***************************************************************************)
EXTENDS QuotaLedger, FiniteSetTheorems, TLAPS

Settled == {"none", "reserved", "finalized", "refunded", "expired"}
Reservations == [status : Settled, amount : Nat, until : Nat, period : Months]
Calls == [step : {"idle", "waits", "admitted", "commits"},
          op : {"none", "reserve", "finalize", "refund", "reconcile"},
          of : Subjects \cup {Nobody}, kinds : SUBSET Kinds, at : 0..MaxTime,
          saw : UNION {[some -> Nat] : some \in SUBSET Kinds}]

TypeOK ==
    /\ now \in 0..MaxTime
    /\ res \in [Keys -> Reservations]
    /\ counter \in [Kinds -> [Months -> Nat]]
    /\ lock \in [Kinds -> Callers \cup {Nobody}]
    /\ call \in [Callers -> Calls]
    /\ gone \subseteq Uploads

\* What a transaction works on.
CallOf(c) ==
    /\ call[c].at <= now
    /\ call[c].step # "idle" =>
         \/ call[c].op \in {"reserve", "finalize", "refund"} /\ call[c].of \in Subjects
            /\ call[c].kinds = KindsOf(call[c].of)
         \/ call[c].op = "reconcile" /\ call[c].kinds = {"documents", "storage_bytes"}

\* Who has waited for the locks has them, and nobody else.
Inside(c) == call[c].step \in {"admitted", "commits"}
LockOf(k) ==
    lock[k] # Nobody => Inside(lock[k]) /\ k \in call[lock[k]].kinds
HeldBy(c) == Inside(c) => \A k \in call[c].kinds : lock[k] = c

ReservedAsAsked == \A key \in Keys : res[key].status = "reserved" => res[key].amount = AmountOf(key[2])

Working ==
    /\ TypeOK /\ ReservedAsAsked
    /\ \A c \in Callers : CallOf(c) /\ HeldBy(c)
    /\ \A k \in Kinds : LockOf(k)

\* The time from which on the ledger of a resource is right: that of its holder.
Since(k) == IF lock[k] = Nobody THEN now ELSE call[lock[k]].at

Fresh(k) ==
    \A t \in Since(k)..MaxTime :
        PeriodOf(k, t) > PeriodOf(k, Since(k)) => counter[k][PeriodOf(k, t)] = 0
Room(k) ==
    \A t \in Since(k)..MaxTime :
        LET m == PeriodOf(k, t)
        IN  counter[k][m] + ReservedAt(k, t) <= Limit[k] + Beyond(AmountOf(k), Finals(k, m))
Counted(k) ==
    IF k = "tokens" THEN \A m \in Months : counter[k][m] = Amount(Finals(k, m))
                    ELSE counter[k][0] >= Held(k)
Sound(k) == Fresh(k) /\ Room(k) /\ Counted(k)

SawRight(c, k) ==
    /\ k \in DOMAIN call[c].saw /\ call[c].saw[k] \in Nat
    /\ call[c].op = "reserve" =>
         \A t \in call[c].at..MaxTime :
             counter[k][PeriodOf(k, t)] + ReservedAt(k, t) <= call[c].saw[k]
    /\ call[c].op = "finalize" => call[c].saw[k] = counter[k][PeriodOf(k, call[c].at)]
    /\ call[c].op = "reconcile" => Held(k) <= call[c].saw[k] /\ call[c].saw[k] <= counter[k][0]
Informed(c) == call[c].step = "commits" => \A k \in call[c].kinds : SawRight(c, k)

IInv ==
    /\ Working
    /\ \A k \in Kinds : Sound(k)
    /\ \A c \in Callers : Informed(c)
    /\ UploadsSettleTogether
-----------------------------------------------------------------------------
(* Sums.  The units of the reservations r of the keys S beyond a floor. *)

Pile(floor, r, S) == UNION {{x} \X ((floor + 1)..r[x].amount) : x \in S}
Measured(r, S) == \A x \in S : r[x].amount \in Nat

\* Finitely many reservations have finitely many units.
LEMMA PileFinite ==
    ASSUME NEW S, IsFiniteSet(S), NEW r, Measured(r, S), NEW floor \in Nat
    PROVE  IsFiniteSet(Pile(floor, r, S)) /\ Cardinality(Pile(floor, r, S)) \in Nat
<1> DEFINE P == {{x} \X ((floor + 1)..r[x].amount) : x \in S}
           f == [x \in S |-> {x} \X ((floor + 1)..r[x].amount)]
<1>1. f \in Surjection(S, P)
  BY DEF Surjection
<1>2. IsFiniteSet(P)
  <2> HIDE DEF f, P
  <2> QED BY <1>1, FS_Surjection
<1>3. ASSUME NEW T \in P PROVE IsFiniteSet(T)
  <2>1. PICK x \in S : T = {x} \X ((floor + 1)..r[x].amount)
    OBVIOUS
  <2>2. IsFiniteSet({x}) /\ IsFiniteSet((floor + 1)..r[x].amount)
    <3>1. r[x].amount \in Int /\ floor + 1 \in Int
      BY DEF Measured
    <3> QED BY <3>1, FS_Singleton, FS_Interval
  <2> QED BY <2>1, <2>2, FS_Product
<1>4. IsFiniteSet(UNION P)
  <2> HIDE DEF P
  <2> QED BY <1>2, <1>3, FS_UNION
<1> QED BY <1>4, FS_CardinalityType DEF Pile

\* No reservation comes to nothing.
LEMMA PileEmpty == ASSUME NEW r, NEW floor PROVE Cardinality(Pile(floor, r, {})) = 0
BY FS_EmptySet DEF Pile

\* Fewer reservations of no larger amounts come to no more.
LEMMA PileMonotone ==
    ASSUME NEW S, NEW T, IsFiniteSet(T), S \subseteq T, NEW r, NEW q, NEW floor \in Nat,
           Measured(r, S), Measured(q, T), \A x \in S : r[x].amount <= q[x].amount
    PROVE  /\ Cardinality(Pile(floor, r, S)) <= Cardinality(Pile(floor, q, T))
           /\ Cardinality(Pile(floor, r, S)) \in Nat /\ Cardinality(Pile(floor, q, T)) \in Nat
<1>1. Pile(floor, r, S) \subseteq Pile(floor, q, T)
  <2> SUFFICES ASSUME NEW x \in S, NEW n \in (floor + 1)..r[x].amount
               PROVE  \E y \in T : <<x, n>> \in {y} \X ((floor + 1)..q[y].amount)
    BY DEF Pile
  <2>1. r[x].amount \in Nat /\ q[x].amount \in Nat /\ r[x].amount <= q[x].amount
    BY DEF Measured
  <2>2. n \in (floor + 1)..q[x].amount
    BY <2>1
  <2> QED BY <2>2
<1>2. IsFiniteSet(S)
  BY FS_Subset
<1> QED BY <1>1, <1>2, PileFinite, FS_Subset

\* Equal amounts come to the same.
LEMMA PileSame ==
    ASSUME NEW S, NEW r, NEW q, NEW floor, \A x \in S : r[x].amount = q[x].amount
    PROVE  Pile(floor, r, S) = Pile(floor, q, S)
BY DEF Pile

\* One more reservation adds its amount.
LEMMA PileAdd ==
    ASSUME NEW S, IsFiniteSet(S), NEW r, NEW x, x \notin S, Measured(r, S \cup {x}),
           NEW floor \in Nat
    PROVE  Cardinality(Pile(floor, r, S \cup {x})) =
             Cardinality(Pile(floor, r, S)) + (IF r[x].amount > floor THEN r[x].amount - floor ELSE 0)
<1> DEFINE one == {x} \X ((floor + 1)..r[x].amount)
<1>1. Pile(floor, r, S \cup {x}) = Pile(floor, r, S) \cup one
  BY DEF Pile
<1>2. Pile(floor, r, S) \cap one = {}
  BY DEF Pile
<1>3. IsFiniteSet(Pile(floor, r, S)) /\ Cardinality(Pile(floor, r, S)) \in Nat
  BY PileFinite DEF Measured
<1>4. r[x].amount \in Nat
  BY DEF Measured
<1>5. /\ IsFiniteSet((floor + 1)..r[x].amount)
      /\ Cardinality((floor + 1)..r[x].amount) =
           (IF r[x].amount > floor THEN r[x].amount - floor ELSE 0)
  <2>1. r[x].amount \in Int /\ floor + 1 \in Int
    BY <1>4
  <2>2. /\ IsFiniteSet((floor + 1)..r[x].amount)
        /\ Cardinality((floor + 1)..r[x].amount) =
             IF floor + 1 > r[x].amount THEN 0 ELSE r[x].amount - (floor + 1) + 1
    BY <2>1, FS_Interval
  <2> QED BY <2>2, <1>4
<1>6. IsFiniteSet({x}) /\ Cardinality({x}) = 1
  BY FS_Singleton
<1>7. IsFiniteSet(one) /\ Cardinality(one) = 1 * Cardinality((floor + 1)..r[x].amount)
  BY <1>5, <1>6, FS_Product
<1>8. Cardinality(one) = IF r[x].amount > floor THEN r[x].amount - floor ELSE 0
  BY <1>4, <1>5, <1>7
<1>9. Cardinality(Pile(floor, r, S) \cup one)
        = Cardinality(Pile(floor, r, S)) + Cardinality(one) - Cardinality(Pile(floor, r, S) \cap one)
  BY <1>3, <1>7, FS_Union
<1>10. Cardinality(Pile(floor, r, S) \cap one) = 0
  BY <1>2, FS_EmptySet
<1>11. Cardinality(one) \in Nat
  BY <1>4, <1>8
<1>12. \A a, b, n, z \in Int : n = a + b - z /\ z = 0 => n = a + b
  OBVIOUS
<1>13. /\ Cardinality(Pile(floor, r, S) \cup one) \in Int
       /\ Cardinality(Pile(floor, r, S) \cap one) \in Int
  BY <1>3, <1>9, <1>10, <1>11
<1>14. Cardinality(Pile(floor, r, S) \cup one) = Cardinality(Pile(floor, r, S)) + Cardinality(one)
  BY <1>3, <1>9, <1>10, <1>11, <1>12, <1>13
<1>15. Cardinality(Pile(floor, r, S \cup {x})) = Cardinality(Pile(floor, r, S)) + Cardinality(one)
  <2> HIDE DEF one
  <2> QED BY <1>1, <1>14
<1> QED BY <1>15, <1>8

LEMMA PileAddAll ==
    ASSUME NEW S, IsFiniteSet(S), NEW r, NEW x, x \notin S, Measured(r, S \cup {x})
    PROVE  Cardinality(Pile(0, r, S \cup {x})) = Cardinality(Pile(0, r, S)) + r[x].amount
<1>1. r[x].amount \in Nat
  BY DEF Measured
<1>2. (IF r[x].amount > 0 THEN r[x].amount - 0 ELSE 0) = r[x].amount
  BY <1>1
<1>3. \A floor \in Nat :
        Cardinality(Pile(floor, r, S \cup {x})) =
          Cardinality(Pile(floor, r, S)) + (IF r[x].amount > floor THEN r[x].amount - floor ELSE 0)
  BY PileAdd
<1>4. Cardinality(Pile(0, r, S \cup {x})) =
        Cardinality(Pile(0, r, S)) + (IF r[x].amount > 0 THEN r[x].amount - 0 ELSE 0)
  BY <1>3
<1> QED BY <1>2, <1>4

\* A reservation that is left out leaves its amount.
LEMMA PileWithout ==
    ASSUME NEW U, IsFiniteSet(U), NEW r, Measured(r, U), NEW x \in U, NEW S, S \subseteq U \ {x}
    PROVE  Cardinality(Pile(0, r, S)) + r[x].amount <= Cardinality(Pile(0, r, U))
<1>1. IsFiniteSet(S) /\ x \notin S /\ S \cup {x} \subseteq U
  BY FS_Subset
<1>2. /\ Measured(r, S \cup {x}) /\ \A y \in S \cup {x} : r[y].amount <= r[y].amount
  <2>1. \A y \in U : r[y].amount \in Nat
    BY DEF Measured
  <2> QED BY <1>1, <2>1 DEF Measured
<1>3. Cardinality(Pile(0, r, S \cup {x})) = Cardinality(Pile(0, r, S)) + r[x].amount
  BY <1>1, <1>2, PileAddAll
<1>4. Cardinality(Pile(0, r, S \cup {x})) <= Cardinality(Pile(0, r, U))
  BY <1>1, <1>2, PileMonotone
<1> QED BY <1>3, <1>4

-----------------------------------------------------------------------------
(* Periods. *)

LEMMA MonthsInOrder ==
    ASSUME NEW M \in Nat \ {0}, NEW t \in Nat, NEW u \in Nat, t <= u
    PROVE  /\ t \div M \in Nat /\ u \div M \in Nat
           /\ t \div M <= u \div M
<1> DEFINE a == t \div M
           b == u \div M
<1>1. a \in Nat /\ M * a <= t /\ t < M * a + M
  OBVIOUS
<1>2. b \in Nat /\ M * b <= u /\ u < M * b + M
  OBVIOUS
<1>3. a <= b
  <2> HIDE DEF a, b
  <2> SUFFICES ASSUME a > b PROVE FALSE
    BY <1>1, <1>2
  <2>1. PICK d \in Nat : a = b + 1 + d
    <3>1. a - b - 1 \in Nat /\ a = b + 1 + (a - b - 1)
      BY <1>1, <1>2
    <3> QED BY <3>1
  <2>2. M * a = M * b + M + M * d /\ M * d \in Nat /\ M * b \in Nat
    BY <2>1, <1>2
  <2> QED BY <2>2, <1>1, <1>2
<1> QED BY <1>1, <1>2, <1>3

\* Every moment has a period of its own kind, and periods follow each other.
LEMMA Periods ==
    ASSUME QuotaAssumption, NEW k \in Kinds, NEW t \in 0..MaxTime, NEW u \in 0..MaxTime, t <= u
    PROVE  /\ PeriodOf(k, t) \in Months /\ PeriodOf(k, t) \in Nat
           /\ PeriodOf(k, t) <= PeriodOf(k, u)
<1>1. MonthLength \in Nat \ {0} /\ MaxTime \in Nat
  BY DEF QuotaAssumption
<1>2. t \in Nat /\ u \in Nat
  BY <1>1
<1>3. t \div MonthLength \in Nat /\ t \div MonthLength <= u \div MonthLength
  BY <1>1, <1>2, MonthsInOrder
<1>4. 0 \in Months
  <2>1. 0 \in 0..MaxTime /\ 0 \div MonthLength = 0
    BY <1>1
  <2> QED BY <2>1 DEF Months, PeriodOf
<1>5. t \div MonthLength \in Months
  BY DEF Months, PeriodOf
<1> QED BY <1>3, <1>4, <1>5 DEF PeriodOf

-----------------------------------------------------------------------------
(* Transactions, their locks and their keys. *)

LEMMA KindsAre ==
    /\ \A s : KindsOf(s) \in SUBSET Kinds
    /\ {"documents", "storage_bytes"} \in SUBSET Kinds
BY DEF KindsOf, Kinds

LEMMA KeysFinite == ASSUME QuotaAssumption PROVE \A S \in SUBSET Keys : IsFiniteSet(S)
<1>1. IsFiniteSet(Kinds)
  <2>1. IsFiniteSet({"documents"}) /\ IsFiniteSet({"storage_bytes"}) /\ IsFiniteSet({"tokens"})
    BY FS_Singleton
  <2>2. IsFiniteSet({"documents"} \cup {"storage_bytes"})
    BY <2>1, FS_Union
  <2>3. IsFiniteSet(({"documents"} \cup {"storage_bytes"}) \cup {"tokens"})
    BY <2>1, <2>2, FS_Union
  <2>4. ({"documents"} \cup {"storage_bytes"}) \cup {"tokens"} = Kinds
    BY DEF Kinds
  <2> QED BY <2>3, <2>4
<1>2. IsFiniteSet(Subjects)
  BY DEF QuotaAssumption, Subjects
<1>3. IsFiniteSet(Subjects \X Kinds)
  BY <1>1, <1>2, FS_Product
<1>4. SUBSET Keys \subseteq SUBSET (Subjects \X Kinds)
  BY DEF Keys
<1> QED BY <1>3, <1>4, FS_Subset

\* What a transaction writes are the keys of its upload or answer.
LEMMA KeysAre ==
    ASSUME Working, NEW c \in Callers, call[c].step # "idle", call[c].op # "reconcile"
    PROVE  /\ call[c].of \in Subjects /\ call[c].kinds = KindsOf(call[c].of)
           /\ KeysOf(c) \subseteq Keys
           /\ \A key \in KeysOf(c) : key[2] \in call[c].kinds
           /\ \A k \in call[c].kinds : <<call[c].of, k>> \in KeysOf(c)
<1>1. call[c].of \in Subjects /\ call[c].kinds = KindsOf(call[c].of)
  BY DEF Working, CallOf
<1> QED BY <1>1, KindsAre DEF KeysOf, Keys

LEMMA CallsAre ==
    ASSUME TypeOK, NEW c \in Callers
    PROVE  /\ call[c] \in Calls /\ call[c].at \in 0..MaxTime /\ call[c].kinds \in SUBSET Kinds
           /\ call[c].saw \in UNION {[some -> Nat] : some \in SUBSET Kinds}
BY DEF TypeOK, Calls

LEMMA Nobodys == ASSUME QuotaAssumption PROVE \A c \in Callers : c # Nobody
BY DEF QuotaAssumption

LEMMA IdleIs == ASSUME QuotaAssumption PROVE Idle \in Calls /\ Unread \in UNION {[some -> Nat] : some \in SUBSET Kinds}
<1>1. Unread \in [{} -> Nat] /\ {} \in SUBSET Kinds
  BY DEF Unread
<1>2. Unread \in UNION {[some -> Nat] : some \in SUBSET Kinds}
  BY <1>1
<1>3. 0 \in 0..MaxTime
  BY DEF QuotaAssumption
<1> QED BY <1>2, <1>3 DEF Idle, Calls

\* A transaction that ends gives back what it holds.
LEMMA EndWorks ==
    ASSUME QuotaAssumption, Working, NEW c \in Callers, Ends(c), UNCHANGED now
    PROVE  /\ call' \in [Callers -> Calls] /\ lock' \in [Kinds -> Callers \cup {Nobody}]
           /\ \A d \in Callers : CallOf(d)' /\ HeldBy(d)'
           /\ \A k \in Kinds : LockOf(k)'
<1>1. /\ call \in [Callers -> Calls] /\ lock \in [Kinds -> Callers \cup {Nobody}] /\ now \in 0..MaxTime
      /\ MaxTime \in Nat
  BY DEF Working, TypeOK, QuotaAssumption
<1>2. call' = [call EXCEPT ![c] = Idle]
  BY DEF Ends
<1>3. call' \in [Callers -> Calls]
  BY <1>1, <1>2, IdleIs
<1>4. lock' = [k \in Kinds |-> IF lock[k] = c THEN Nobody ELSE lock[k]]
  BY DEF Ends, Released
<1>5. lock' \in [Kinds -> Callers \cup {Nobody}]
  BY <1>1, <1>4
<1>6. call'[c] = Idle /\ \A d \in Callers \ {c} : call'[d] = call[d]
  BY <1>1, <1>2
<1>7. /\ Idle.step = "idle" /\ Idle.at = 0
  BY DEF Idle
<1>8. ASSUME NEW d \in Callers PROVE CallOf(d)' /\ HeldBy(d)'
  <2>1. CASE d = c
    BY <2>1, <1>1, <1>6, <1>7 DEF CallOf, HeldBy, Inside
  <2>2. CASE d # c
    <3>1. CallOf(d) /\ HeldBy(d)
      BY DEF Working
    <3>2. CallOf(d)'
      BY <3>1, <1>6, <2>2 DEF CallOf
    <3>3. \A k \in call[d].kinds : k \in Kinds
      BY CallsAre DEF Working
    <3>4. HeldBy(d)'
      BY <3>1, <3>3, <1>4, <1>6, <2>2 DEF HeldBy, Inside
    <3> QED BY <3>2, <3>4
  <2> QED BY <2>1, <2>2
<1>9. ASSUME NEW k \in Kinds PROVE LockOf(k)'
  <2> SUFFICES ASSUME lock'[k] # Nobody
               PROVE  Inside(lock[k])' /\ k \in call'[lock'[k]].kinds
    BY <1>4 DEF LockOf, Inside
  <2>1. lock'[k] = lock[k] /\ lock[k] # c /\ lock[k] # Nobody
    BY <1>4
  <2>2. lock[k] \in Callers \ {c}
    BY <2>1, <1>1
  <2>3. LockOf(k)
    BY DEF Working
  <2> QED BY <2>1, <2>2, <2>3, <1>6 DEF LockOf, Inside
<1> QED BY <1>3, <1>5, <1>8, <1>9

LEMMA BeginWorks ==
    ASSUME QuotaAssumption, Working, NEW c \in Callers,
           NEW op \in {"reserve", "finalize", "refund"}, NEW s \in Subjects, Begin(c, op, s)
    PROVE  Working'
<1> DEFINE new == [step |-> "waits", op |-> op, of |-> s, kinds |-> KindsOf(s), at |-> now, saw |-> Unread]
<1>1. call' = [call EXCEPT ![c] = new] /\ UNCHANGED <<now, res, counter, lock, gone>> /\ call[c].step = "idle"
  BY DEF Begin
<1>2. call \in [Callers -> Calls] /\ now \in 0..MaxTime /\ MaxTime \in Nat
  BY DEF Working, TypeOK, QuotaAssumption
<1>3. new \in Calls
  BY <1>2, KindsAre, IdleIs DEF Calls
<1>4. call'[c] = new /\ \A d \in Callers \ {c} : call'[d] = call[d]
  BY <1>1, <1>2
<1>5. TypeOK'
  BY <1>1, <1>2, <1>3 DEF Working, TypeOK
<1>6. ASSUME NEW d \in Callers PROVE CallOf(d)' /\ HeldBy(d)'
  <2>1. CASE d = c
    BY <2>1, <1>1, <1>2, <1>4 DEF CallOf, HeldBy, Inside
  <2>2. CASE d # c
    <3>1. CallOf(d) /\ HeldBy(d)
      BY DEF Working
    <3> QED BY <3>1, <1>1, <1>4, <2>2 DEF CallOf, HeldBy, Inside
  <2> QED BY <2>1, <2>2
<1>7. ASSUME NEW k \in Kinds PROVE LockOf(k)'
  <2>1. LockOf(k) /\ lock[k] \in Callers \cup {Nobody}
    BY DEF Working, TypeOK
  <2>2. lock[k] # c
    BY <2>1, <1>1, Nobodys DEF LockOf, Inside
  <2> QED BY <2>1, <2>2, <1>1, <1>4 DEF LockOf, Inside
<1> QED BY <1>1, <1>5, <1>6, <1>7 DEF Working, ReservedAsAsked

LEMMA BeginReconcileWorks ==
    ASSUME QuotaAssumption, Working, NEW c \in Callers, BeginReconcile(c)
    PROVE  Working'
<1> DEFINE new == [step |-> "waits", op |-> "reconcile", of |-> Nobody,
                   kinds |-> {"documents", "storage_bytes"}, at |-> now, saw |-> Unread]
<1>1. call' = [call EXCEPT ![c] = new] /\ UNCHANGED <<now, res, counter, lock, gone>> /\ call[c].step = "idle"
  BY DEF BeginReconcile
<1>2. call \in [Callers -> Calls] /\ now \in 0..MaxTime /\ MaxTime \in Nat
  BY DEF Working, TypeOK, QuotaAssumption
<1>3. new \in Calls
  BY <1>2, KindsAre, IdleIs DEF Calls
<1>4. call'[c] = new /\ \A d \in Callers \ {c} : call'[d] = call[d]
  BY <1>1, <1>2
<1>5. TypeOK'
  BY <1>1, <1>2, <1>3 DEF Working, TypeOK
<1>6. ASSUME NEW d \in Callers PROVE CallOf(d)' /\ HeldBy(d)'
  <2>1. CASE d = c
    BY <2>1, <1>1, <1>2, <1>4 DEF CallOf, HeldBy, Inside
  <2>2. CASE d # c
    <3>1. CallOf(d) /\ HeldBy(d)
      BY DEF Working
    <3> QED BY <3>1, <1>1, <1>4, <2>2 DEF CallOf, HeldBy, Inside
  <2> QED BY <2>1, <2>2
<1>7. ASSUME NEW k \in Kinds PROVE LockOf(k)'
  <2>1. LockOf(k) /\ lock[k] \in Callers \cup {Nobody}
    BY DEF Working, TypeOK
  <2>2. lock[k] # c
    BY <2>1, <1>1, Nobodys DEF LockOf, Inside
  <2> QED BY <2>1, <2>2, <1>1, <1>4 DEF LockOf, Inside
<1> QED BY <1>1, <1>5, <1>6, <1>7 DEF Working, ReservedAsAsked

LEMMA AdmitWorks == ASSUME QuotaAssumption, Working, NEW c \in Callers, Admit(c) PROVE Working'
<1>1. /\ call' = [call EXCEPT ![c].step = "admitted", ![c].at = now]
      /\ call[c].step = "waits" /\ \A k \in call[c].kinds : lock[k] = Nobody
      /\ lock' = [k \in Kinds |-> IF k \in call[c].kinds THEN c ELSE lock[k]]
      /\ UNCHANGED <<now, res, counter, gone>>
  BY DEF Admit, Locks, ObservedAt
<1>2. call \in [Callers -> Calls] /\ now \in 0..MaxTime /\ MaxTime \in Nat /\ lock \in [Kinds -> Callers \cup {Nobody}]
  BY DEF Working, TypeOK, QuotaAssumption
<1>3. call' \in [Callers -> Calls]
  <2> DEFINE old == call[c]
             one == [old EXCEPT !.step = "admitted"]
             two == [one EXCEPT !.at = now]
  <2>1. old \in Calls
    BY <1>2
  <2>2. one \in Calls
    BY <2>1 DEF Calls
  <2>3. two \in Calls
    BY <2>2, <1>2 DEF Calls
  <2>4. call' = [call EXCEPT ![c] = two]
    BY <1>1, <1>2
  <2> HIDE DEF two
  <2> QED BY <2>3, <2>4, <1>2
<1>4. /\ call'[c].step = "admitted" /\ call'[c].at = now /\ call'[c].op = call[c].op
      /\ call'[c].of = call[c].of /\ call'[c].kinds = call[c].kinds
      /\ \A d \in Callers \ {c} : call'[d] = call[d]
  BY <1>1, <1>2 DEF Calls
<1>5. TypeOK'
  BY <1>1, <1>2, <1>3 DEF Working, TypeOK
<1>6. ASSUME NEW d \in Callers PROVE CallOf(d)' /\ HeldBy(d)'
  <2>0. CallOf(d) /\ HeldBy(d) /\ call[d].kinds \in SUBSET Kinds /\ call[c].kinds \in SUBSET Kinds
    BY CallsAre DEF Working
  <2>1. CASE d = c
    <3>1. CallOf(c)'
      BY <2>0, <2>1, <1>1, <1>2, <1>4 DEF CallOf
    <3>2. HeldBy(c)'
      BY <2>0, <2>1, <1>1, <1>4 DEF HeldBy, Inside
    <3> QED BY <2>1, <3>1, <3>2
  <2>2. CASE d # c
    <3>1. CallOf(d)'
      BY <2>0, <1>1, <1>4, <2>2 DEF CallOf
    <3>2. ASSUME Inside(d), NEW k \in call[d].kinds PROVE lock'[k] = d
      <4>1. lock[k] = d /\ d # Nobody
        BY <3>2, <2>0 DEF HeldBy, QuotaAssumption
      <4>2. k \notin call[c].kinds
        BY <4>1, <1>1
      <4> QED BY <4>1, <4>2, <2>0, <1>1
    <3>3. HeldBy(d)'
      BY <3>2, <1>4, <2>2 DEF HeldBy, Inside
    <3> QED BY <3>1, <3>3
  <2> QED BY <2>1, <2>2
<1>7. ASSUME NEW k \in Kinds PROVE LockOf(k)'
  <2>1. LockOf(k) /\ lock[k] \in Callers \cup {Nobody}
    BY <1>2 DEF Working
  <2>2. CASE k \in call[c].kinds
    BY <2>2, <1>1, <1>4 DEF LockOf, Inside
  <2>3. CASE k \notin call[c].kinds
    <3>1. lock'[k] = lock[k]
      BY <2>3, <1>1
    <3>2. lock[k] # c
      BY <2>1, <1>1, Nobodys DEF LockOf, Inside
    <3> QED BY <2>1, <3>1, <3>2, <1>4 DEF LockOf, Inside
  <2> QED BY <2>2, <2>3
<1> QED BY <1>1, <1>5, <1>6, <1>7 DEF Working, ReservedAsAsked

LEMMA AmountsAre ==
    ASSUME QuotaAssumption
    PROVE  \A k \in Kinds : AmountOf(k) \in Nat \ {0} /\ Limit[k] \in Nat
BY DEF QuotaAssumption, AmountOf, Kinds

LEMMA SumsAre ==
    ASSUME QuotaAssumption, TypeOK
    PROVE  /\ Measured(res, Keys)
           /\ \A S \in SUBSET Keys, floor \in Nat : Measured(res, S) /\ Beyond(floor, S) \in Nat
           /\ \A k : \A t : ReservedAt(k, t) \in Nat
           /\ \A k : Held(k) \in Nat
           /\ \A k : \A m : Amount(Finals(k, m)) \in Nat
           /\ \A k \in Kinds : \A m : Beyond(AmountOf(k), Finals(k, m)) \in Nat
<1>1. Measured(res, Keys)
  BY DEF TypeOK, Reservations, Measured
<1>2. ASSUME NEW S \in SUBSET Keys, NEW floor \in Nat
      PROVE  Measured(res, S) /\ Beyond(floor, S) \in Nat
  <2>1. Measured(res, S) /\ IsFiniteSet(S)
    BY <1>1, KeysFinite DEF Measured
  <2>2. Cardinality(Pile(floor, res, S)) \in Nat
    BY <2>1, PileFinite
  <2>3. Beyond(floor, S) = Cardinality(Pile(floor, res, S))
    BY DEF Beyond, Pile
  <2> QED BY <2>1, <2>2, <2>3
<1>3. \A k : \A t : ReservedAt(k, t) \in Nat
  BY <1>2 DEF ReservedAt, Amount
<1>4. \A k : Held(k) \in Nat
  BY <1>2 DEF Held, Amount
<1>5. \A k : \A m : Finals(k, m) \in SUBSET Keys
  BY DEF Finals
<1>6. \A k : \A m : Amount(Finals(k, m)) \in Nat
  BY <1>2, <1>5 DEF Amount
<1>7. \A k \in Kinds : \A m : Beyond(AmountOf(k), Finals(k, m)) \in Nat
  BY <1>2, <1>5, AmountsAre
<1> QED BY <1>1, <1>2, <1>3, <1>4, <1>6, <1>7

LEMMA SeenIs ==
    ASSUME QuotaAssumption, Working, NEW c \in Callers
    PROVE  \A k \in call[c].kinds : Seen(c, k) \in Nat
<1> SUFFICES ASSUME NEW k \in call[c].kinds PROVE Seen(c, k) \in Nat
  OBVIOUS
<1>1. k \in Kinds /\ call[c].at \in 0..MaxTime
  BY CallsAre DEF Working
<1>2. PeriodOf(k, call[c].at) \in Months
  BY <1>1, Periods DEF QuotaAssumption
<1>3. counter[k][PeriodOf(k, call[c].at)] \in Nat
  BY <1>1, <1>2 DEF Working, TypeOK
<1>4. ReservedAt(k, call[c].at) \in Nat /\ Held(k) \in Nat
  BY SumsAre DEF Working
<1>5. counter[k][PeriodOf(k, call[c].at)] + ReservedAt(k, call[c].at) \in Nat
  BY <1>3, <1>4
<1> QED BY <1>3, <1>4, <1>5 DEF Seen

\* What a look leaves of the call.
LEMMA LookIs ==
    ASSUME QuotaAssumption, Working, NEW c \in Callers, Look(c)
    PROVE  /\ call' \in [Callers -> Calls]
           /\ call'[c].step = "commits" /\ call'[c].at = call[c].at /\ call'[c].op = call[c].op
           /\ call'[c].of = call[c].of /\ call'[c].kinds = call[c].kinds
           /\ call'[c].saw = [k \in call[c].kinds |-> Seen(c, k)]
           /\ \A d \in Callers \ {c} : call'[d] = call[d]
<1>1. call' = [call EXCEPT ![c].step = "commits", ![c].saw = [k \in call[c].kinds |-> Seen(c, k)]]
  BY DEF Look
<1>2. call \in [Callers -> Calls]
  BY DEF Working, TypeOK
<1> DEFINE reads == [k \in call[c].kinds |-> Seen(c, k)]
<1>3. reads \in UNION {[some -> Nat] : some \in SUBSET Kinds}
  <2>1. reads \in [call[c].kinds -> Nat]
    BY SeenIs
  <2>2. call[c].kinds \in SUBSET Kinds
    BY CallsAre DEF Working
  <2> HIDE DEF reads
  <2> QED BY <2>1, <2>2
<1>4. PICK new : new = reads
  OBVIOUS
<1>5. call' = [call EXCEPT ![c].step = "commits", ![c].saw = new]
  BY <1>1, <1>4
<1> HIDE DEF reads
<1>6. call' \in [Callers -> Calls]
  <2> DEFINE old == call[c]
             one == [old EXCEPT !.step = "commits"]
             two == [one EXCEPT !.saw = new]
  <2>1. old \in Calls
    BY <1>2
  <2>2. one \in Calls
    BY <2>1 DEF Calls
  <2>3. two \in Calls
    BY <2>2, <1>3, <1>4 DEF Calls
  <2>4. call' = [call EXCEPT ![c] = two]
    BY <1>5, <1>2
  <2> HIDE DEF two
  <2> QED BY <2>3, <2>4, <1>2
<1>7. /\ call'[c].step = "commits" /\ call'[c].at = call[c].at /\ call'[c].op = call[c].op
      /\ call'[c].of = call[c].of /\ call'[c].kinds = call[c].kinds /\ call'[c].saw = new
      /\ \A d \in Callers \ {c} : call'[d] = call[d]
  BY <1>5, <1>2 DEF Calls
<1> QED BY <1>4, <1>6, <1>7 DEF reads

LEMMA LookWorks == ASSUME QuotaAssumption, Working, NEW c \in Callers, Look(c) PROVE Working'
<1>1. call[c].step = "admitted" /\ UNCHANGED <<now, res, counter, lock, gone>>
  BY DEF Look
<1>2. TypeOK'
  BY <1>1, LookIs DEF Working, TypeOK
<1>3. ASSUME NEW d \in Callers PROVE CallOf(d)' /\ HeldBy(d)'
  <2>1. CallOf(d) /\ HeldBy(d)
    BY DEF Working
  <2> QED BY <2>1, <1>1, LookIs DEF CallOf, HeldBy, Inside
<1>4. ASSUME NEW k \in Kinds PROVE LockOf(k)'
  <2>1. LockOf(k) /\ lock[k] \in Callers \cup {Nobody}
    BY DEF Working, TypeOK
  <2> QED BY <2>1, <1>1, LookIs DEF LockOf, Inside
<1> QED BY <1>1, <1>2, <1>3, <1>4 DEF Working, ReservedAsAsked

LEMMA RollBackWorks == ASSUME QuotaAssumption, Working, NEW c \in Callers, RollBack(c) PROVE Working'
<1>1. Ends(c) /\ UNCHANGED <<now, res, counter, gone>>
  BY DEF RollBack
<1>2. TypeOK'
  BY <1>1, EndWorks DEF Working, TypeOK
<1> QED BY <1>1, <1>2, EndWorks DEF Working, ReservedAsAsked

\* A reservation is of what its upload or answer asks for.
LEMMA ReserveWorks == ASSUME QuotaAssumption, Working, NEW c \in Callers, Reserve(c) PROVE Working'
<1>1. Ends(c) /\ UNCHANGED <<now, counter, gone>>
  BY DEF Reserve
<1>2. PICK t \in 0..MaxTime :
        \/ UNCHANGED res
        \/ res' = [key \in Keys |-> IF key \in KeysOf(c)
                     THEN [status |-> "reserved", amount |-> AmountOf(key[2]),
                           until |-> t + TTL, period |-> 0]
                     ELSE res[key]]
  BY CallsAre DEF Reserve, Working
<1>3. res' \in [Keys -> Reservations] /\ ReservedAsAsked'
  <2>1. 0 \in Months
    <3>1. 0 \in 0..MaxTime /\ "documents" \in Kinds
      BY DEF QuotaAssumption, Kinds
    <3>2. PeriodOf("documents", 0) \in Months
      BY <3>1, Periods
    <3> QED BY <3>2 DEF PeriodOf
  <2>2. t + TTL \in Nat
    BY DEF QuotaAssumption
  <2>3. \A key \in Keys : AmountOf(key[2]) \in Nat
    BY AmountsAre DEF Keys
  <2>4. res \in [Keys -> Reservations] /\ ReservedAsAsked
    BY DEF Working, TypeOK
  <2>5. CASE UNCHANGED res
    BY <2>4, <2>5 DEF ReservedAsAsked
  <2>6. CASE res' = [key \in Keys |-> IF key \in KeysOf(c)
                     THEN [status |-> "reserved", amount |-> AmountOf(key[2]),
                           until |-> t + TTL, period |-> 0]
                     ELSE res[key]]
    <3>1. \A key \in Keys : [status |-> "reserved", amount |-> AmountOf(key[2]),
                             until |-> t + TTL, period |-> 0] \in Reservations
      BY <2>1, <2>2, <2>3 DEF Reservations, Settled
    <3>2. res' \in [Keys -> Reservations]
      BY <2>4, <2>6, <3>1
    <3>3. ReservedAsAsked'
      BY <2>4, <2>6 DEF ReservedAsAsked
    <3> QED BY <3>2, <3>3
  <2> QED BY <1>2, <2>5, <2>6
<1>4. TypeOK'
  BY <1>1, <1>3, EndWorks DEF Working, TypeOK
<1> QED BY <1>1, <1>3, <1>4, EndWorks DEF Working

\* A reservation that is not touched, and one that lapses.
Lapses(key) ==
    /\ res[key].status = "reserved"
    /\ \E s \in {"expired", "refunded"} : res'[key] = [res[key] EXCEPT !.status = s]
Kept(key) == res'[key] = res[key] \/ Lapses(key)

LEMMA KeptIs ==
    ASSUME TypeOK, ReservedAsAsked, NEW key \in Keys, Kept(key)
    PROVE  /\ res'[key] \in Reservations /\ res'[key].amount = res[key].amount
           /\ res'[key].until = res[key].until /\ res'[key].period = res[key].period
           /\ (res'[key].status = "reserved" => res[key].status = "reserved")
           /\ (res'[key].status = "finalized" <=> res[key].status = "finalized")
           /\ (res'[key].status = "reserved" => res'[key].amount = AmountOf(key[2]))
<1>1. res[key] \in Reservations
  BY DEF TypeOK
<1>2. CASE res'[key] = res[key]
  BY <1>1, <1>2 DEF ReservedAsAsked
<1>3. CASE Lapses(key)
  <2>1. PICK s \in {"expired", "refunded"} : res'[key] = [res[key] EXCEPT !.status = s]
    BY <1>3 DEF Lapses
  <2>2. res[key].status = "reserved"
    BY <1>3 DEF Lapses
  <2>3. [res[key] EXCEPT !.status = s] \in Reservations
    BY <1>1 DEF Reservations, Settled
  <2>4. /\ res'[key].status = s /\ res'[key].amount = res[key].amount
        /\ res'[key].until = res[key].until /\ res'[key].period = res[key].period
    BY <1>1, <2>1 DEF Reservations
  <2> QED BY <2>1, <2>2, <2>3, <2>4
<1> QED BY <1>2, <1>3 DEF Kept

\* A settlement finalizes all keys of the upload or the answer or none of them, and counts
\* what they come to on top of what it saw.
LEMMA FinalizeIs ==
    ASSUME QuotaAssumption, Working, NEW c \in Callers, Finalize(c)
    PROVE  /\ call[c].step = "commits" /\ call[c].op = "finalize" /\ KeysOf(c) \subseteq Keys
           /\ ToFinalize(c) \in {{}, KeysOf(c)}
           /\ \A key \in ToFinalize(c) :
                /\ LiveAt(key, call[c].at) /\ res'[key] \in Reservations
                /\ res'[key].status = "finalized"
                /\ res'[key].period = PeriodOf(key[2], call[c].at)
           /\ \A key \in Keys \ ToFinalize(c) : Kept(key) /\ (res'[key] # res[key] => key \in KeysOf(c))
           /\ res' = [key \in Keys |-> res'[key]]
           /\ counter' = [k \in Kinds |-> [m \in Months |->
                IF <<call[c].of, k>> \in ToFinalize(c) /\ m = PeriodOf(k, call[c].at)
                  THEN call[c].saw[k] + res'[<<call[c].of, k>>].amount ELSE counter[k][m]]]
<1>1. call[c].step = "commits" /\ call[c].op = "finalize"
  BY DEF Finalize
<1>2. /\ KeysOf(c) \subseteq Keys /\ call[c].of \in Subjects
      /\ \A k \in Kinds : <<call[c].of, k>> \in ToFinalize(c) => <<call[c].of, k>> \in Keys
  BY <1>1, KeysAre DEF ToFinalize
<1>3. ToFinalize(c) \in {{}, KeysOf(c)} /\ \A key \in ToFinalize(c) : LiveAt(key, call[c].at)
  BY DEF ToFinalize
<1> DEFINE t == call[c].at
           due == {key \in KeysOf(c) : DueAt(key, t) /\ call[c].of \in Answers}
           Charge(key, n) == IF call[c].of \in Answers THEN n ELSE res[key].amount
<1>4. PICK actual \in Actuals :
        /\ res' = [key \in Keys |->
             IF key \in ToFinalize(c)
               THEN [res[key] EXCEPT !.status = "finalized", !.amount = Charge(key, actual),
                                     !.period = PeriodOf(key[2], t)]
             ELSE IF key \in due THEN [res[key] EXCEPT !.status = "expired"] ELSE res[key]]
        /\ counter' = [k \in Kinds |-> [m \in Months |->
             IF <<call[c].of, k>> \in ToFinalize(c) /\ m = PeriodOf(k, t)
               THEN call[c].saw[k] + Charge(<<call[c].of, k>>, actual) ELSE counter[k][m]]]
  BY DEF Finalize
<1>5. ASSUME NEW key \in ToFinalize(c)
      PROVE  /\ res'[key] \in Reservations /\ res'[key].status = "finalized"
             /\ res'[key].period = PeriodOf(key[2], t) /\ res'[key].amount = Charge(key, actual)
  <2>1. key \in Keys /\ res[key] \in Reservations /\ key[2] \in Kinds
    BY <1>2 DEF Working, TypeOK, ToFinalize, Keys
  <2>2. PICK p : p = PeriodOf(key[2], t)
    OBVIOUS
  <2>3. PICK n : n = Charge(key, actual)
    OBVIOUS
  <2>4. p \in Months
    BY <2>1, <2>2, Periods, CallsAre DEF Working, QuotaAssumption
  <2>5. n \in Nat
    BY <2>1, <2>3 DEF QuotaAssumption, Reservations
  <2>6. res'[key] = [res[key] EXCEPT !.status = "finalized", !.amount = n, !.period = p]
    BY <1>4, <2>1, <2>2, <2>3
  <2> HIDE DEF t, Charge
  <2>7. [res[key] EXCEPT !.status = "finalized"] \in Reservations
    BY <2>1 DEF Reservations, Settled
  <2>8. [[res[key] EXCEPT !.status = "finalized"] EXCEPT !.amount = n] \in Reservations
    BY <2>5, <2>7 DEF Reservations
  <2>9. [[[res[key] EXCEPT !.status = "finalized"] EXCEPT !.amount = n] EXCEPT !.period = p] \in Reservations
    BY <2>4, <2>8 DEF Reservations
  <2>10. res'[key] \in Reservations
    BY <2>6, <2>9
  <2>11. res'[key].status = "finalized" /\ res'[key].period = p /\ res'[key].amount = n
    BY <2>1, <2>6 DEF Reservations
  <2> QED BY <2>2, <2>3, <2>10, <2>11
<1>6. ASSUME NEW key \in Keys \ ToFinalize(c)
      PROVE  Kept(key) /\ (res'[key] # res[key] => key \in KeysOf(c))
  BY <1>4 DEF Kept, Lapses, DueAt
<1>7. res' = [key \in Keys |-> res'[key]]
  <2> HIDE DEF t, due, Charge
  <2> QED BY <1>4
<1>8. counter' = [k \in Kinds |-> [m \in Months |->
        IF <<call[c].of, k>> \in ToFinalize(c) /\ m = PeriodOf(k, t)
          THEN call[c].saw[k] + res'[<<call[c].of, k>>].amount ELSE counter[k][m]]]
  <2>1. \A k \in Kinds : <<call[c].of, k>> \in ToFinalize(c) =>
          res'[<<call[c].of, k>>].amount = Charge(<<call[c].of, k>>, actual)
    BY <1>5
  <2> HIDE DEF t, due, Charge
  <2> QED BY <1>4, <2>1
<1> QED BY <1>1, <1>2, <1>3, <1>5, <1>6, <1>7, <1>8

LEMMA FinalizeWorks ==
    ASSUME QuotaAssumption, Working, \A d \in Callers : Informed(d), NEW c \in Callers, Finalize(c)
    PROVE  Working'
<1>1. Ends(c) /\ UNCHANGED <<now, gone>>
  BY DEF Finalize
<1>2. ASSUME NEW key \in Keys
      PROVE  res'[key] \in Reservations /\ (res'[key].status = "reserved" => res'[key].amount = AmountOf(key[2]))
  <2>1. CASE key \in ToFinalize(c)
    BY <2>1, FinalizeIs
  <2>2. CASE key \notin ToFinalize(c)
    BY <2>2, FinalizeIs, KeptIs DEF Working
  <2> QED BY <2>1, <2>2
<1>3. res' \in [Keys -> Reservations] /\ ReservedAsAsked'
  <2>1. res' = [key \in Keys |-> res'[key]]
    BY FinalizeIs
  <2> QED BY <1>2, <2>1 DEF ReservedAsAsked
<1>4. counter' \in [Kinds -> [Months -> Nat]]
  <2>1. ASSUME NEW k \in Kinds, <<call[c].of, k>> \in ToFinalize(c)
        PROVE  call[c].saw[k] + res'[<<call[c].of, k>>].amount \in Nat
    <3>1. k \in call[c].kinds
      BY <2>1 DEF ToFinalize, KeysOf
    <3>2. call[c].saw[k] \in Nat
      BY <3>1, FinalizeIs DEF Informed, SawRight
    <3>3. <<call[c].of, k>> \in Keys
      BY <2>1, FinalizeIs
    <3>4. res'[<<call[c].of, k>>].amount \in Nat
      BY <3>3, <1>2 DEF Reservations
    <3> QED BY <3>2, <3>4
  <2>2. counter \in [Kinds -> [Months -> Nat]]
    BY DEF Working, TypeOK
  <2>3. counter' = [k \in Kinds |-> [m \in Months |->
          IF <<call[c].of, k>> \in ToFinalize(c) /\ m = PeriodOf(k, call[c].at)
            THEN call[c].saw[k] + res'[<<call[c].of, k>>].amount ELSE counter[k][m]]]
    BY FinalizeIs
  <2> QED BY <2>1, <2>2, <2>3
<1>5. TypeOK'
  BY <1>1, <1>3, <1>4, EndWorks DEF Working, TypeOK
<1> QED BY <1>1, <1>3, <1>5, EndWorks DEF Working

LEMMA RefundIs ==
    ASSUME QuotaAssumption, Working, NEW c \in Callers, RefundReservation(c)
    PROVE  res' = [key \in Keys |-> res'[key]] /\ \A key \in Keys : Kept(key)
<1> DEFINE t == call[c].at
           open == {key \in KeysOf(c) : \A other \in KeysOf(c) : res[other].status # "finalized"}
<1>1. res' = [key \in Keys |->
        IF key \in open /\ LiveAt(key, t) THEN [res[key] EXCEPT !.status = "refunded"]
        ELSE IF key \in open /\ DueAt(key, t) THEN [res[key] EXCEPT !.status = "expired"]
        ELSE res[key]]
  BY DEF RefundReservation
<1> HIDE DEF open
<1>2. \A key \in Keys : Kept(key)
  BY <1>1 DEF Kept, Lapses, LiveAt, DueAt
<1>3. res' = [key \in Keys |-> res'[key]]
  BY <1>1
<1> QED BY <1>2, <1>3

LEMMA SweepIs ==
    ASSUME Sweep PROVE res' = [key \in Keys |-> res'[key]] /\ \A key \in Keys : Kept(key)
<1>1. PICK some \in SUBSET {key \in Keys : DueAt(key, now)} :
        res' = [key \in Keys |-> IF key \in some THEN [res[key] EXCEPT !.status = "expired"] ELSE res[key]]
  BY DEF Sweep
<1>2. \A key \in Keys : Kept(key)
  BY <1>1 DEF Kept, Lapses, DueAt
<1>3. res' = [key \in Keys |-> res'[key]]
  BY <1>1
<1> QED BY <1>2, <1>3

LEMMA KeptTyped ==
    ASSUME Working, res' = [key \in Keys |-> res'[key]], \A key \in Keys : Kept(key)
    PROVE  res' \in [Keys -> Reservations] /\ ReservedAsAsked'
<1>1. \A key \in Keys : res'[key] \in Reservations /\ (res'[key].status = "reserved" => res'[key].amount = AmountOf(key[2]))
  BY KeptIs DEF Working
<1> QED BY <1>1 DEF ReservedAsAsked

LEMMA RefundWorks ==
    ASSUME QuotaAssumption, Working, NEW c \in Callers, RefundReservation(c) PROVE Working'
<1>1. Ends(c) /\ UNCHANGED <<now, counter, gone>>
  BY DEF RefundReservation
<1>2. res' \in [Keys -> Reservations] /\ ReservedAsAsked'
  BY RefundIs, KeptTyped
<1>3. TypeOK'
  BY <1>1, <1>2, EndWorks DEF Working, TypeOK
<1> QED BY <1>1, <1>2, <1>3, EndWorks DEF Working

LEMMA ReconcileIs ==
    ASSUME QuotaAssumption, Working, \A d \in Callers : Informed(d), NEW c \in Callers, Reconcile(c)
    PROVE  /\ counter' \in [Kinds -> [Months -> Nat]]
           /\ \A k \in call[c].kinds : k \in Kinds /\ k # "tokens" /\ counter'[k][0] = call[c].saw[k]
           /\ \A k \in Kinds \ call[c].kinds : counter'[k] = counter[k]
<1>1. /\ call[c].step = "commits" /\ call[c].op = "reconcile"
      /\ counter' = [k \in Kinds |-> IF k \in call[c].kinds
                     THEN [counter[k] EXCEPT ![0] = call[c].saw[k]] ELSE counter[k]]
  BY DEF Reconcile
<1>2. call[c].kinds = {"documents", "storage_bytes"}
  BY <1>1 DEF Working, CallOf
<1>3. \A k \in call[c].kinds : k \in Kinds /\ k # "tokens"
  BY <1>2 DEF Kinds
<1>4. \A k \in call[c].kinds : call[c].saw[k] \in Nat
  BY <1>1 DEF Informed, SawRight
<1>5. counter \in [Kinds -> [Months -> Nat]]
  BY DEF Working, TypeOK
<1>6. 0 \in Months
  <2>1. 0 \in 0..MaxTime /\ "documents" \in Kinds
    BY DEF QuotaAssumption, Kinds
  <2>2. PeriodOf("documents", 0) \in Months
    BY <2>1, Periods
  <2> QED BY <2>2 DEF PeriodOf
<1>7. \A k \in Kinds : k \in call[c].kinds =>
        [counter[k] EXCEPT ![0] = call[c].saw[k]] \in [Months -> Nat]
  BY <1>4, <1>5, <1>6
<1> QED BY <1>1, <1>3, <1>5, <1>6, <1>7

LEMMA ReconcileWorks ==
    ASSUME QuotaAssumption, Working, \A d \in Callers : Informed(d), NEW c \in Callers, Reconcile(c)
    PROVE  Working'
<1>1. Ends(c) /\ UNCHANGED <<now, res, gone>>
  BY DEF Reconcile
<1>2. TypeOK'
  BY <1>1, ReconcileIs, EndWorks DEF Working, TypeOK
<1> QED BY <1>1, <1>2, EndWorks DEF Working, ReservedAsAsked

LEMMA SweepWorks == ASSUME Working, Sweep PROVE Working'
<1>1. UNCHANGED <<now, counter, lock, call, gone>>
  BY DEF Sweep
<1>2. res' \in [Keys -> Reservations] /\ ReservedAsAsked'
  BY SweepIs, KeptTyped
<1>3. TypeOK'
  BY <1>1, <1>2 DEF Working, TypeOK
<1> QED BY <1>1, <1>2, <1>3 DEF Working, CallOf, HeldBy, LockOf, Inside

LEMMA DeleteWorks == ASSUME Working, NEW u \in Uploads, DeleteDocument(u) PROVE Working'
<1>1. gone' = gone \cup {u} /\ UNCHANGED <<now, res, counter, lock, call>>
  BY DEF DeleteDocument
<1>2. TypeOK'
  BY <1>1 DEF Working, TypeOK
<1> QED BY <1>1, <1>2 DEF Working, CallOf, HeldBy, LockOf, Inside, ReservedAsAsked

LEMMA TickWorks == ASSUME QuotaAssumption, Working, Tick PROVE Working'
<1>1. now < MaxTime /\ now' = now + 1 /\ UNCHANGED <<res, counter, lock, call, gone>>
  BY DEF Tick
<1>2. MaxTime \in Nat /\ now \in 0..MaxTime
  BY DEF Working, TypeOK, QuotaAssumption
<1>3. now' \in 0..MaxTime
  BY <1>1, <1>2
<1>4. TypeOK'
  BY <1>1, <1>3 DEF Working, TypeOK
<1>5. ASSUME NEW d \in Callers PROVE CallOf(d)'
  <2>1. CallOf(d) /\ call[d].at \in 0..MaxTime
    BY CallsAre DEF Working
  <2>2. call[d].at <= now'
    BY <2>1, <1>1, <1>2 DEF CallOf
  <2> QED BY <2>1, <2>2, <1>1 DEF CallOf
<1> QED BY <1>1, <1>4, <1>5 DEF Working, HeldBy, LockOf, Inside, ReservedAsAsked

-----------------------------------------------------------------------------
(* What leaves a resource alone, or only lets its reservations lapse. *)

Quieter(k) ==
    /\ \A key \in Keys : key[2] = k => Kept(key)
    /\ counter'[k] = counter[k] /\ gone \subseteq gone'

LEMMA QuietSums ==
    ASSUME QuotaAssumption, TypeOK, ReservedAsAsked, TypeOK', NEW k \in Kinds, Quieter(k)
    PROVE  /\ \A t : ReservedAt(k, t)' <= ReservedAt(k, t) /\ ReservedAt(k, t)' \in Nat
           /\ Held(k)' <= Held(k) /\ Held(k)' \in Nat
           /\ \A m : Amount(Finals(k, m))' = Amount(Finals(k, m))
           /\ \A m : Beyond(AmountOf(k), Finals(k, m))' = Beyond(AmountOf(k), Finals(k, m))
<1>1. \A key \in Keys : key[2] = k =>
        /\ res[key].amount \in Nat /\ res'[key].amount = res[key].amount
        /\ res'[key].until = res[key].until /\ res'[key].period = res[key].period
        /\ (res'[key].status = "reserved" => res[key].status = "reserved")
        /\ (res'[key].status = "finalized" <=> res[key].status = "finalized")
  <2>1. \A key \in Keys : res[key].amount \in Nat
    BY DEF TypeOK, Reservations
  <2> QED BY <2>1, KeptIs DEF Quieter
<1>2. ASSUME NEW t PROVE ReservedAt(k, t)' <= ReservedAt(k, t) /\ ReservedAt(k, t)' \in Nat
  <2> DEFINE S == {key \in Keys : key[2] = k /\ res'[key].status = "reserved" /\ res'[key].until > t}
             T == {key \in Keys : key[2] = k /\ res[key].status = "reserved" /\ res[key].until > t}
  <2>1. S \subseteq T /\ T \subseteq Keys
    BY <1>1
  <2>2. IsFiniteSet(T)
    BY <2>1, KeysFinite
  <2>3. Measured(res', S) /\ Measured(res, T) /\ \A x \in S : res'[x].amount <= res[x].amount
    BY <1>1 DEF Measured
  <2>4. /\ ReservedAt(k, t)' = Cardinality(Pile(0, res', S))
        /\ ReservedAt(k, t) = Cardinality(Pile(0, res, T))
    BY DEF ReservedAt, Amount, Beyond, Pile, LiveAt
  <2> HIDE DEF S, T
  <2>5. /\ Cardinality(Pile(0, res', S)) <= Cardinality(Pile(0, res, T))
        /\ Cardinality(Pile(0, res', S)) \in Nat
    BY <2>1, <2>2, <2>3, PileMonotone
  <2> QED BY <2>4, <2>5
<1>3. Held(k)' <= Held(k) /\ Held(k)' \in Nat
  <2> DEFINE S == {key \in Keys : key[2] = k /\ res'[key].status = "finalized" /\ key[1] \notin gone'}
             T == {key \in Keys : key[2] = k /\ res[key].status = "finalized" /\ key[1] \notin gone}
  <2>1. S \subseteq T /\ T \subseteq Keys
    BY <1>1 DEF Quieter
  <2>2. IsFiniteSet(T)
    BY <2>1, KeysFinite
  <2>3. Measured(res', S) /\ Measured(res, T) /\ \A x \in S : res'[x].amount <= res[x].amount
    BY <1>1 DEF Measured
  <2>4. /\ Held(k)' = Cardinality(Pile(0, res', S))
        /\ Held(k) = Cardinality(Pile(0, res, T))
    BY DEF Held, Amount, Beyond, Pile
  <2> HIDE DEF S, T
  <2>5. /\ Cardinality(Pile(0, res', S)) <= Cardinality(Pile(0, res, T))
        /\ Cardinality(Pile(0, res', S)) \in Nat
    BY <2>1, <2>2, <2>3, PileMonotone
  <2> QED BY <2>4, <2>5
<1>4. ASSUME NEW m
      PROVE  /\ Amount(Finals(k, m))' = Amount(Finals(k, m))
             /\ Beyond(AmountOf(k), Finals(k, m))' = Beyond(AmountOf(k), Finals(k, m))
  <2> DEFINE S == {key \in Keys : key[2] = k /\ res'[key].status = "finalized" /\ res'[key].period = m}
             T == {key \in Keys : key[2] = k /\ res[key].status = "finalized" /\ res[key].period = m}
  <2>1. S = T
    BY <1>1
  <2>2. \A x \in T : res'[x].amount = res[x].amount
    BY <1>1
  <2>3. /\ Amount(Finals(k, m))' = Cardinality(Pile(0, res', S))
        /\ Amount(Finals(k, m)) = Cardinality(Pile(0, res, T))
        /\ Beyond(AmountOf(k), Finals(k, m))' = Cardinality(Pile(AmountOf(k), res', S))
        /\ Beyond(AmountOf(k), Finals(k, m)) = Cardinality(Pile(AmountOf(k), res, T))
    BY DEF Finals, Amount, Beyond, Pile
  <2> HIDE DEF S, T
  <2>4. Pile(0, res', T) = Pile(0, res, T) /\ Pile(AmountOf(k), res', T) = Pile(AmountOf(k), res, T)
    BY <2>2 DEF Pile
  <2> QED BY <2>1, <2>3, <2>4
<1> QED BY <1>2, <1>3, <1>4

LEMMA SinceIs == ASSUME QuotaAssumption, Working, NEW k \in Kinds PROVE Since(k) \in 0..now /\ now \in 0..MaxTime
<1>1. now \in 0..MaxTime /\ lock[k] \in Callers \cup {Nobody} /\ MaxTime \in Nat
  BY DEF Working, TypeOK, QuotaAssumption
<1>2. CASE lock[k] = Nobody
  BY <1>1, <1>2 DEF Since
<1>3. CASE lock[k] # Nobody
  <2>1. lock[k] \in Callers
    BY <1>1, <1>3
  <2>2. call[lock[k]].at \in 0..MaxTime /\ call[lock[k]].at <= now
    BY <2>1, CallsAre DEF Working, CallOf
  <2> QED BY <1>1, <1>3, <2>2 DEF Since
<1> QED BY <1>2, <1>3

\* The ledger of a resource stays sound.
LEMMA QuietSound ==
    ASSUME QuotaAssumption, Working, Working', NEW k \in Kinds, Quieter(k), Sound(k),
           Since(k)' \in Since(k)..MaxTime
    PROVE  Sound(k)'
<1>0. MaxTime \in Nat /\ TypeOK /\ TypeOK' /\ ReservedAsAsked
  BY DEF Working, QuotaAssumption
<1>1. PICK s \in 0..MaxTime, u \in 0..MaxTime : s = Since(k) /\ u = Since(k)' /\ s <= u
  BY <1>0, SinceIs
<1>2. counter'[k] = counter[k]
  BY DEF Quieter
<1>3. Fresh(k)'
  <2> SUFFICES ASSUME NEW t \in u..MaxTime, PeriodOf(k, t) > PeriodOf(k, u)
               PROVE  counter'[k][PeriodOf(k, t)] = 0
    BY <1>1 DEF Fresh
  <2>1. t \in s..MaxTime /\ t \in 0..MaxTime
    BY <1>0, <1>1
  <2>2. /\ PeriodOf(k, s) <= PeriodOf(k, u) /\ PeriodOf(k, s) \in Nat /\ PeriodOf(k, u) \in Nat
        /\ PeriodOf(k, t) \in Nat
    BY <1>1, <2>1, Periods
  <2>3. PeriodOf(k, t) > PeriodOf(k, s)
    BY <2>2
  <2> QED BY <2>1, <2>3, <1>1, <1>2 DEF Sound, Fresh
<1>4. Room(k)'
  <2> SUFFICES ASSUME NEW t \in u..MaxTime
               PROVE  counter'[k][PeriodOf(k, t)] + ReservedAt(k, t)' <=
                        Limit[k] + Beyond(AmountOf(k), Finals(k, PeriodOf(k, t)))'
    BY <1>1 DEF Room
  <2>1. t \in s..MaxTime /\ t \in 0..MaxTime
    BY <1>0, <1>1
  <2>2. counter[k][PeriodOf(k, t)] + ReservedAt(k, t) <=
          Limit[k] + Beyond(AmountOf(k), Finals(k, PeriodOf(k, t)))
    BY <2>1, <1>1 DEF Sound, Room
  <2>3. counter[k][PeriodOf(k, t)] \in Nat
    BY <2>1, Periods DEF Working, TypeOK
  <2>4. ReservedAt(k, t)' <= ReservedAt(k, t) /\ ReservedAt(k, t)' \in Nat /\ ReservedAt(k, t) \in Nat
    BY <1>0, QuietSums, SumsAre
  <2>5. Beyond(AmountOf(k), Finals(k, PeriodOf(k, t)))' = Beyond(AmountOf(k), Finals(k, PeriodOf(k, t)))
    BY <1>0, QuietSums
  <2>6. Limit[k] \in Nat /\ Beyond(AmountOf(k), Finals(k, PeriodOf(k, t))) \in Nat
    BY <1>0, SumsAre, AmountsAre
  <2> QED BY <2>2, <2>3, <2>4, <2>5, <2>6, <1>2
<1>5. Counted(k)'
  <2>1. CASE k = "tokens"
    <3>1. \A m : Amount(Finals(k, m))' = Amount(Finals(k, m))
      BY <1>0, QuietSums
    <3> QED BY <2>1, <3>1, <1>2 DEF Sound, Counted
  <2>2. CASE k # "tokens"
    <3>1. Held(k)' <= Held(k) /\ Held(k)' \in Nat /\ Held(k) \in Nat
      BY <1>0, QuietSums, SumsAre
    <3>2. counter[k][0] \in Nat
      <4>1. 0 \in 0..MaxTime
        BY <1>0
      <4>2. PeriodOf(k, 0) \in Months
        BY <4>1, Periods
      <4> QED BY <4>2, <2>2, <1>0 DEF PeriodOf, TypeOK
    <3> QED BY <2>2, <3>1, <3>2, <1>2 DEF Sound, Counted
  <2> QED BY <2>1, <2>2
<1> QED BY <1>3, <1>4, <1>5 DEF Sound

\* What a transaction saw stays right.
LEMMA QuietSaw ==
    ASSUME QuotaAssumption, Working, Working', NEW c \in Callers, NEW k \in call[c].kinds,
           Quieter(k), call'[c] = call[c], SawRight(c, k)
    PROVE  SawRight(c, k)'
<1>0. TypeOK /\ TypeOK' /\ ReservedAsAsked /\ k \in Kinds /\ call[c].at \in 0..MaxTime /\ MaxTime \in Nat
  BY CallsAre DEF Working, QuotaAssumption
<1>1. counter'[k] = counter[k]
  BY DEF Quieter
<1>2. k \in DOMAIN call[c].saw /\ call[c].saw[k] \in Nat
  BY DEF SawRight
<1>3. ASSUME call[c].op = "reserve", NEW t \in call[c].at..MaxTime
      PROVE  counter'[k][PeriodOf(k, t)] + ReservedAt(k, t)' <= call[c].saw[k]
  <2>1. counter[k][PeriodOf(k, t)] + ReservedAt(k, t) <= call[c].saw[k]
    BY <1>3 DEF SawRight
  <2>2. t \in 0..MaxTime
    BY <1>0
  <2>3. counter[k][PeriodOf(k, t)] \in Nat
    BY <1>0, <2>2, Periods DEF TypeOK
  <2>4. ReservedAt(k, t)' <= ReservedAt(k, t) /\ ReservedAt(k, t)' \in Nat /\ ReservedAt(k, t) \in Nat
    BY <1>0, QuietSums, SumsAre
  <2> QED BY <2>1, <2>3, <2>4, <1>1, <1>2
<1>4. ASSUME call[c].op = "reconcile" PROVE Held(k)' <= call[c].saw[k] /\ call[c].saw[k] <= counter'[k][0]
  <2>1. Held(k)' <= Held(k) /\ Held(k)' \in Nat /\ Held(k) \in Nat
    BY <1>0, QuietSums, SumsAre
  <2>2. Held(k) <= call[c].saw[k] /\ call[c].saw[k] <= counter[k][0]
    BY <1>4 DEF SawRight
  <2> QED BY <2>1, <2>2, <1>1, <1>2
<1>5. call[c].op = "finalize" => call[c].saw[k] = counter'[k][PeriodOf(k, call[c].at)]
  BY <1>1 DEF SawRight
<1> QED BY <1>2, <1>3, <1>4, <1>5 DEF SawRight

LEMMA QuietUploads ==
    ASSUME TypeOK, ReservedAsAsked, UploadsSettleTogether, \A k \in Kinds : Quieter(k)
    PROVE  UploadsSettleTogether'
<1> SUFFICES ASSUME NEW u \in Uploads
             PROVE  res'[<<u, "documents">>].status = "finalized" <=>
                      res'[<<u, "storage_bytes">>].status = "finalized"
  BY DEF UploadsSettleTogether
<1>1. <<u, "documents">> \in Keys /\ <<u, "storage_bytes">> \in Keys
  BY DEF Keys, Subjects, KindsOf, Kinds
<1>2. Kept(<<u, "documents">>) /\ Kept(<<u, "storage_bytes">>)
  BY <1>1 DEF Quieter, Kinds
<1> QED BY <1>1, <1>2, KeptIs DEF UploadsSettleTogether

\* A step that leaves every resource as it was, or lets its reservations lapse.
LEMMA QuietStep ==
    ASSUME QuotaAssumption, IInv, Working', \A k \in Kinds : Quieter(k),
           \A k \in Kinds : Since(k)' \in Since(k)..MaxTime,
           \A c \in Callers : call'[c] = call[c] \/ call'[c].step # "commits"
    PROVE  IInv'
<1>1. \A k \in Kinds : Sound(k)'
  BY QuietSound DEF IInv
<1>2. ASSUME NEW c \in Callers PROVE Informed(c)'
  <2> SUFFICES ASSUME call'[c].step = "commits", NEW k \in call'[c].kinds PROVE SawRight(c, k)'
    BY DEF Informed
  <2>1. call'[c] = call[c]
    OBVIOUS
  <2>2. SawRight(c, k) /\ k \in Kinds
    BY <2>1, CallsAre DEF IInv, Informed, Working
  <2> QED BY <2>1, <2>2, QuietSaw DEF IInv
<1>3. UploadsSettleTogether'
  BY QuietUploads DEF IInv, Working
<1> QED BY <1>1, <1>2, <1>3 DEF IInv

LEMMA Unmoved == ASSUME UNCHANGED <<res, counter, gone>> PROVE \A k \in Kinds : Quieter(k)
BY DEF Quieter, Kept

\* Nobody else is asked before the holder is.
LEMMA EndSince ==
    ASSUME QuotaAssumption, Working, NEW c \in Callers, Ends(c), UNCHANGED now, NEW k \in Kinds
    PROVE  Since(k)' \in Since(k)..MaxTime
<1>1. /\ call' = [call EXCEPT ![c] = Idle]
      /\ lock' = [h \in Kinds |-> IF lock[h] = c THEN Nobody ELSE lock[h]]
  BY DEF Ends, Released
<1>2. Since(k) \in 0..now /\ now \in 0..MaxTime
  BY SinceIs
<1>3. lock[k] \in Callers \cup {Nobody} /\ call \in [Callers -> Calls] /\ MaxTime \in Nat
  BY DEF Working, TypeOK, QuotaAssumption
<1>4. CASE lock[k] \in {c, Nobody}
  <2>1. lock'[k] = Nobody
    BY <1>1, <1>4
  <2>2. Since(k)' = now
    BY <2>1 DEF Since
  <2> QED BY <2>2, <1>2, <1>3
<1>5. CASE lock[k] \notin {c, Nobody}
  <2>1. lock'[k] = lock[k] /\ lock[k] # Nobody /\ lock[k] \in Callers /\ lock[k] # c
    BY <1>1, <1>3, <1>5
  <2>2. call'[lock[k]] = call[lock[k]]
    BY <2>1, <1>1, <1>3
  <2>3. Since(k)' = Since(k)
    BY <2>1, <2>2 DEF Since
  <2> QED BY <2>3, <1>2, <1>3
<1> QED BY <1>4, <1>5

LEMMA EndCalls ==
    ASSUME Working, NEW c \in Callers, Ends(c)
    PROVE  /\ call'[c].step # "commits"
           /\ \A d \in Callers \ {c} : call'[d] = call[d]
BY DEF Ends, Idle, Working, TypeOK

\* Who is not inside has no lock.
LEMMA OutsideSince ==
    ASSUME QuotaAssumption, Working, NEW c \in Callers, ~Inside(c), UNCHANGED <<now, lock>>,
           \A d \in Callers \ {c} : call'[d] = call[d], NEW k \in Kinds
    PROVE  Since(k)' \in Since(k)..MaxTime
<1>1. Since(k) \in 0..now /\ now \in 0..MaxTime /\ MaxTime \in Nat
  BY SinceIs DEF QuotaAssumption
<1>2. LockOf(k) /\ lock[k] \in Callers \cup {Nobody}
  BY DEF Working, TypeOK
<1>3. CASE lock[k] = Nobody
  BY <1>1, <1>3 DEF Since
<1>4. CASE lock[k] # Nobody
  <2>1. lock[k] \in Callers \ {c}
    BY <1>2, <1>4 DEF LockOf
  <2>2. Since(k)' = Since(k)
    BY <2>1, <1>4 DEF Since
  <2> QED BY <1>1, <2>2
<1> QED BY <1>3, <1>4

LEMMA BeginStep ==
    ASSUME QuotaAssumption, IInv, NEW c \in Callers,
           NEW op \in {"reserve", "finalize", "refund"}, NEW s \in Subjects, Begin(c, op, s)
    PROVE  IInv'
<1>1. Working /\ Working'
  BY BeginWorks DEF IInv
<1>2. /\ UNCHANGED <<now, res, counter, lock, gone>> /\ ~Inside(c)
      /\ call' = [call EXCEPT ![c] = [step |-> "waits", op |-> op, of |-> s, kinds |-> KindsOf(s),
                                      at |-> now, saw |-> Unread]]
  BY DEF Begin, Inside
<1>3. call'[c].step # "commits" /\ \A d \in Callers \ {c} : call'[d] = call[d]
  BY <1>1, <1>2 DEF Working, TypeOK
<1> QED BY <1>1, <1>2, <1>3, Unmoved, OutsideSince, QuietStep

LEMMA BeginReconcileStep ==
    ASSUME QuotaAssumption, IInv, NEW c \in Callers, BeginReconcile(c) PROVE IInv'
<1>1. Working /\ Working'
  BY BeginReconcileWorks DEF IInv
<1>2. /\ UNCHANGED <<now, res, counter, lock, gone>> /\ ~Inside(c)
      /\ call' = [call EXCEPT ![c] = [step |-> "waits", op |-> "reconcile", of |-> Nobody,
                     kinds |-> {"documents", "storage_bytes"}, at |-> now, saw |-> Unread]]
  BY DEF BeginReconcile, Inside
<1>3. call'[c].step # "commits" /\ \A d \in Callers \ {c} : call'[d] = call[d]
  BY <1>1, <1>2 DEF Working, TypeOK
<1> QED BY <1>1, <1>2, <1>3, Unmoved, OutsideSince, QuietStep

\* The clock is read when the locks are had.
LEMMA AdmitStep == ASSUME QuotaAssumption, IInv, NEW c \in Callers, Admit(c) PROVE IInv'
<1>1. Working /\ Working'
  BY AdmitWorks DEF IInv
<1>2. /\ call' = [call EXCEPT ![c].step = "admitted", ![c].at = now]
      /\ call[c].step = "waits" /\ \A k \in call[c].kinds : lock[k] = Nobody
      /\ lock' = [k \in Kinds |-> IF k \in call[c].kinds THEN c ELSE lock[k]]
      /\ UNCHANGED <<now, res, counter, gone>>
  BY DEF Admit, Locks, ObservedAt
<1>3. call \in [Callers -> Calls] /\ MaxTime \in Nat
  BY <1>1 DEF Working, TypeOK, QuotaAssumption
<1>4. /\ call'[c].step # "commits" /\ call'[c].at = now
      /\ \A d \in Callers \ {c} : call'[d] = call[d]
  BY <1>2, <1>3 DEF Calls
<1>5. ASSUME NEW k \in Kinds PROVE Since(k)' \in Since(k)..MaxTime
  <2>1. Since(k) \in 0..now /\ now \in 0..MaxTime
    BY <1>1, SinceIs
  <2>2. LockOf(k) /\ lock[k] \in Callers \cup {Nobody} /\ c # Nobody
    BY <1>1, Nobodys DEF Working, TypeOK
  <2>3. CASE k \in call[c].kinds
    <3>1. lock'[k] = c
      BY <1>2, <2>3
    <3>2. Since(k)' = now
      BY <3>1, <2>2, <1>4 DEF Since
    <3> QED BY <2>1, <3>2, <1>3
  <2>4. CASE k \notin call[c].kinds
    <3>1. lock'[k] = lock[k]
      BY <1>2, <2>4
    <3>2. lock[k] # c
      BY <2>2, <1>2 DEF LockOf, Inside
    <3>3. lock[k] # Nobody => call'[lock[k]] = call[lock[k]]
      BY <3>2, <2>2, <1>4
    <3>4. now' = now
      BY <1>2
    <3>5. Since(k)' = Since(k)
      BY <3>1, <3>3, <3>4 DEF Since
    <3> QED BY <2>1, <3>5, <1>3
  <2> QED BY <2>3, <2>4
<1> QED BY <1>1, <1>2, <1>4, <1>5, Unmoved, QuietStep

LEMMA RollBackStep == ASSUME QuotaAssumption, IInv, NEW c \in Callers, RollBack(c) PROVE IInv'
<1>1. Working /\ Working'
  BY RollBackWorks DEF IInv
<1>2. Ends(c) /\ UNCHANGED <<now, res, counter, gone>>
  BY DEF RollBack
<1> QED BY <1>1, <1>2, EndSince, EndCalls, Unmoved, QuietStep

LEMMA RefundStep == ASSUME QuotaAssumption, IInv, NEW c \in Callers, RefundReservation(c) PROVE IInv'
<1>1. Working /\ Working'
  BY RefundWorks DEF IInv
<1>2. Ends(c) /\ UNCHANGED <<now, counter, gone>>
  BY DEF RefundReservation
<1>3. \A k \in Kinds : Quieter(k)
  BY <1>1, <1>2, RefundIs DEF Quieter
<1> QED BY <1>1, <1>2, <1>3, EndSince, EndCalls, QuietStep

LEMMA SweepStep == ASSUME QuotaAssumption, IInv, Sweep PROVE IInv'
<1>1. Working /\ Working'
  BY SweepWorks DEF IInv
<1>2. UNCHANGED <<now, counter, lock, call, gone>>
  BY DEF Sweep
<1>3. \A k \in Kinds : Quieter(k)
  BY <1>2, SweepIs DEF Quieter
<1>4. ASSUME NEW k \in Kinds PROVE Since(k)' \in Since(k)..MaxTime
  <2>1. Since(k) \in 0..now /\ now \in 0..MaxTime /\ MaxTime \in Nat
    BY <1>1, SinceIs DEF QuotaAssumption
  <2>2. Since(k)' = Since(k)
    BY <1>2 DEF Since
  <2> QED BY <2>1, <2>2
<1> QED BY <1>1, <1>2, <1>3, <1>4, QuietStep

LEMMA DeleteStep == ASSUME QuotaAssumption, IInv, NEW u \in Uploads, DeleteDocument(u) PROVE IInv'
<1>1. Working /\ Working'
  BY DeleteWorks DEF IInv
<1>2. UNCHANGED <<now, res, counter, lock, call>> /\ gone \subseteq gone'
  BY DEF DeleteDocument
<1>3. \A k \in Kinds : Quieter(k)
  BY <1>2 DEF Quieter, Kept
<1>4. ASSUME NEW k \in Kinds PROVE Since(k)' \in Since(k)..MaxTime
  <2>1. Since(k) \in 0..now /\ now \in 0..MaxTime /\ MaxTime \in Nat
    BY <1>1, SinceIs DEF QuotaAssumption
  <2>2. Since(k)' = Since(k)
    BY <1>2 DEF Since
  <2> QED BY <2>1, <2>2
<1> QED BY <1>1, <1>2, <1>3, <1>4, QuietStep

LEMMA TickStep == ASSUME QuotaAssumption, IInv, Tick PROVE IInv'
<1>1. Working /\ Working'
  BY TickWorks DEF IInv
<1>2. now < MaxTime /\ now' = now + 1 /\ UNCHANGED <<res, counter, lock, call, gone>>
  BY DEF Tick
<1>3. \A k \in Kinds : Quieter(k)
  BY <1>2, Unmoved
<1>4. ASSUME NEW k \in Kinds PROVE Since(k)' \in Since(k)..MaxTime
  <2>1. Since(k) \in 0..now /\ now \in 0..MaxTime /\ MaxTime \in Nat
    BY <1>1, SinceIs DEF QuotaAssumption
  <2>2. CASE lock[k] = Nobody
    <3>1. Since(k) = now /\ Since(k)' = now + 1
      BY <1>2, <2>2 DEF Since
    <3> QED BY <1>2, <2>1, <3>1
  <2>3. CASE lock[k] # Nobody
    <3>1. Since(k)' = Since(k)
      BY <1>2, <2>3 DEF Since
    <3> QED BY <2>1, <3>1
  <2> QED BY <2>2, <2>3
<1> QED BY <1>1, <1>2, <1>3, <1>4, QuietStep

-----------------------------------------------------------------------------
(* What is counted and what is reserved, transaction by transaction. *)

\* Time only lets reservations lapse.
LEMMA ReservedShrinks ==
    ASSUME QuotaAssumption, TypeOK, NEW k \in Kinds, NEW t \in Nat, NEW u \in Nat, t <= u
    PROVE  ReservedAt(k, u) <= ReservedAt(k, t)
<1> DEFINE S == {key \in Keys : key[2] = k /\ LiveAt(key, u)}
           T == {key \in Keys : key[2] = k /\ LiveAt(key, t)}
<1>1. \A key \in Keys : res[key].until \in Nat /\ res[key].amount \in Nat
  BY DEF TypeOK, Reservations
<1>2. S \subseteq T /\ T \subseteq Keys
  BY <1>1 DEF LiveAt
<1>3. IsFiniteSet(T)
  BY <1>2, KeysFinite
<1>4. Measured(res, S) /\ Measured(res, T) /\ \A x \in S : res[x].amount <= res[x].amount
  BY <1>1 DEF Measured
<1>5. ReservedAt(k, u) = Cardinality(Pile(0, res, S)) /\ ReservedAt(k, t) = Cardinality(Pile(0, res, T))
  BY DEF ReservedAt, Amount, Beyond, Pile
<1> HIDE DEF S, T
<1>6. Cardinality(Pile(0, res, S)) <= Cardinality(Pile(0, res, T))
  BY <1>2, <1>3, <1>4, PileMonotone
<1> QED BY <1>5, <1>6

\* What is final in a resource is not touched.
FinalsKept(k) ==
    \A key \in Keys : key[2] = k =>
        /\ res'[key].status = "finalized" <=> res[key].status = "finalized"
        /\ res[key].status = "finalized" => res'[key] = res[key]

LEMMA SameFinals ==
    ASSUME NEW k, FinalsKept(k)
    PROVE  /\ \A m : Amount(Finals(k, m))' = Amount(Finals(k, m))
           /\ \A m : Beyond(AmountOf(k), Finals(k, m))' = Beyond(AmountOf(k), Finals(k, m))
           /\ gone' = gone => Held(k)' = Held(k)
<1>1. ASSUME NEW m
      PROVE  /\ Amount(Finals(k, m))' = Amount(Finals(k, m))
             /\ Beyond(AmountOf(k), Finals(k, m))' = Beyond(AmountOf(k), Finals(k, m))
  <2> DEFINE S == {key \in Keys : key[2] = k /\ res'[key].status = "finalized" /\ res'[key].period = m}
             T == {key \in Keys : key[2] = k /\ res[key].status = "finalized" /\ res[key].period = m}
  <2>1. S = T /\ \A x \in T : res'[x].amount = res[x].amount
    BY DEF FinalsKept
  <2>2. /\ Amount(Finals(k, m))' = Cardinality(Pile(0, res', S))
        /\ Amount(Finals(k, m)) = Cardinality(Pile(0, res, T))
        /\ Beyond(AmountOf(k), Finals(k, m))' = Cardinality(Pile(AmountOf(k), res', S))
        /\ Beyond(AmountOf(k), Finals(k, m)) = Cardinality(Pile(AmountOf(k), res, T))
    BY DEF Finals, Amount, Beyond, Pile
  <2> HIDE DEF S, T
  <2>3. Pile(0, res', T) = Pile(0, res, T) /\ Pile(AmountOf(k), res', T) = Pile(AmountOf(k), res, T)
    BY <2>1 DEF Pile
  <2> QED BY <2>1, <2>2, <2>3
<1>2. ASSUME gone' = gone PROVE Held(k)' = Held(k)
  <2> DEFINE S == {key \in Keys : key[2] = k /\ res'[key].status = "finalized" /\ key[1] \notin gone'}
             T == {key \in Keys : key[2] = k /\ res[key].status = "finalized" /\ key[1] \notin gone}
  <2>1. S = T /\ \A x \in T : res'[x].amount = res[x].amount
    BY <1>2 DEF FinalsKept
  <2>2. Held(k)' = Cardinality(Pile(0, res', S)) /\ Held(k) = Cardinality(Pile(0, res, T))
    BY DEF Held, Amount, Beyond, Pile
  <2> HIDE DEF S, T
  <2>3. Pile(0, res', T) = Pile(0, res, T)
    BY <2>1 DEF Pile
  <2> QED BY <2>1, <2>2, <2>3
<1> QED BY <1>1, <1>2

LEMMA FreshKept ==
    ASSUME QuotaAssumption, Working, NEW k \in Kinds, Fresh(k), Since(k)' \in Since(k)..MaxTime,
           \A m \in Months : m # PeriodOf(k, Since(k)) => counter'[k][m] = counter[k][m]
    PROVE  Fresh(k)'
<1>1. PICK s \in 0..MaxTime, u \in 0..MaxTime : s = Since(k) /\ u = Since(k)' /\ s <= u
  BY SinceIs DEF QuotaAssumption
<1> SUFFICES ASSUME NEW t \in u..MaxTime, PeriodOf(k, t) > PeriodOf(k, u)
             PROVE  counter'[k][PeriodOf(k, t)] = 0
  BY <1>1 DEF Fresh
<1>2. t \in s..MaxTime /\ t \in 0..MaxTime
  BY <1>1 DEF QuotaAssumption
<1>3. /\ PeriodOf(k, s) <= PeriodOf(k, u) /\ PeriodOf(k, s) \in Nat /\ PeriodOf(k, u) \in Nat
      /\ PeriodOf(k, t) \in Nat /\ PeriodOf(k, t) \in Months
  BY <1>1, <1>2, Periods
<1>4. PeriodOf(k, t) > PeriodOf(k, s)
  BY <1>3
<1>5. counter[k][PeriodOf(k, t)] = 0
  BY <1>1, <1>2, <1>4 DEF Fresh
<1>6. PeriodOf(k, t) # PeriodOf(k, s)
  BY <1>3, <1>4
<1> QED BY <1>1, <1>3, <1>5, <1>6

\* Nobody else counts on a resource whose lock one holds.
LEMMA OthersInformed ==
    ASSUME QuotaAssumption, IInv, Working', NEW c \in Callers, Inside(c),
           \A k \in Kinds \ call[c].kinds : Quieter(k),
           \A d \in Callers \ {c} : call'[d] = call[d]
    PROVE  \A d \in Callers \ {c} : Informed(d)'
<1> SUFFICES ASSUME NEW d \in Callers \ {c}, call'[d].step = "commits", NEW k \in call'[d].kinds
             PROVE  SawRight(d, k)'
  BY DEF Informed
<1>1. call'[d] = call[d] /\ call[d].step = "commits" /\ k \in call[d].kinds /\ d \in Callers
  OBVIOUS
<1>2. Working /\ k \in Kinds /\ SawRight(d, k)
  BY <1>1, CallsAre DEF IInv, Working, Informed
<1>3. lock[k] = d
  BY <1>1, <1>2 DEF Working, HeldBy, Inside
<1>4. k \notin call[c].kinds
  BY <1>2, <1>3 DEF Working, HeldBy
<1>5. Quieter(k)
  BY <1>2, <1>4
<1> QED BY <1>1, <1>2, <1>5, QuietSaw

LEMMA HolderSince ==
    ASSUME Working, NEW c \in Callers, Inside(c), c # Nobody, NEW k \in call[c].kinds
    PROVE  Since(k) = call[c].at /\ lock[k] = c
BY DEF Working, HeldBy, Since

\* Whoever looks sees what is used, and nobody uses more before it commits.
LEMMA LookStep == ASSUME QuotaAssumption, IInv, NEW c \in Callers, Look(c) PROVE IInv'
<1>0. Working /\ Working' /\ TypeOK /\ c # Nobody /\ MaxTime \in Nat
  BY LookWorks, Nobodys DEF IInv, Working, QuotaAssumption
<1>1. call[c].step = "admitted" /\ UNCHANGED <<now, res, counter, lock, gone>>
  BY DEF Look
<1>2. \A k \in Kinds : Quieter(k)
  BY <1>1, Unmoved
<1>3. ASSUME NEW k \in Kinds PROVE Since(k)' \in Since(k)..MaxTime
  <2>1. Since(k) \in 0..now /\ now \in 0..MaxTime /\ lock[k] \in Callers \cup {Nobody}
    BY <1>0, SinceIs DEF TypeOK
  <2>2. lock[k] # Nobody => call'[lock[k]].at = call[lock[k]].at
    BY <1>0, <2>1, LookIs
  <2>3. lock'[k] = lock[k] /\ now' = now
    BY <1>1
  <2>4. Since(k)' = Since(k)
    BY <2>2, <2>3 DEF Since
  <2> QED BY <1>0, <2>1, <2>4
<1>4. \A k \in Kinds : Sound(k)'
  BY <1>0, <1>2, <1>3, QuietSound DEF IInv
<1>5. ASSUME NEW k \in call[c].kinds PROVE SawRight(c, k)'
  <2>1. /\ k \in Kinds /\ Sound(k) /\ call[c].at \in 0..MaxTime /\ Since(k) = call[c].at
        /\ Seen(c, k) \in Nat
    BY <1>0, <1>1, CallsAre, HolderSince, SeenIs DEF IInv, Inside
  <2>2. PICK at0 \in 0..MaxTime : at0 = call[c].at
    BY <2>1
  <2>3. /\ call'[c].op = call[c].op /\ call'[c].at = at0
        /\ k \in DOMAIN call'[c].saw /\ call'[c].saw[k] = Seen(c, k)
    BY <1>0, <2>2, LookIs
  <2>4. /\ \A t : ReservedAt(k, t)' = ReservedAt(k, t)
        /\ Held(k)' = Held(k) /\ counter' = counter
    BY <1>1 DEF ReservedAt, Held, Amount, Beyond, LiveAt
  <2>5. ASSUME call[c].op = "reserve", NEW t \in at0..MaxTime
        PROVE  counter[k][PeriodOf(k, t)] + ReservedAt(k, t) <= Seen(c, k)
    <3>1. Seen(c, k) = counter[k][PeriodOf(k, at0)] + ReservedAt(k, at0)
      BY <2>2, <2>5 DEF Seen
    <3>2. t \in 0..MaxTime /\ at0 <= t /\ t \in Nat /\ at0 \in Nat
      BY <1>0
    <3>3. /\ PeriodOf(k, at0) <= PeriodOf(k, t) /\ PeriodOf(k, at0) \in Nat /\ PeriodOf(k, t) \in Nat
          /\ PeriodOf(k, at0) \in Months /\ PeriodOf(k, t) \in Months
      BY <2>1, <3>2, Periods
    <3>4. counter[k][PeriodOf(k, at0)] \in Nat /\ counter[k][PeriodOf(k, t)] \in Nat
      BY <1>0, <2>1, <3>3 DEF TypeOK
    <3>5. /\ ReservedAt(k, t) <= ReservedAt(k, at0) /\ ReservedAt(k, t) \in Nat
          /\ ReservedAt(k, at0) \in Nat
      BY <1>0, <2>1, <3>2, ReservedShrinks, SumsAre
    <3>6. CASE PeriodOf(k, t) = PeriodOf(k, at0)
      BY <3>1, <3>4, <3>5, <3>6
    <3>7. CASE PeriodOf(k, t) > PeriodOf(k, at0)
      <4>1. counter[k][PeriodOf(k, t)] = 0
        BY <2>1, <2>2, <3>7 DEF Sound, Fresh
      <4> QED BY <4>1, <3>1, <3>4, <3>5
    <3> QED BY <3>3, <3>6, <3>7
  <2>6. call[c].op = "finalize" => Seen(c, k) = counter[k][PeriodOf(k, at0)]
    BY <2>2 DEF Seen
  <2>7. ASSUME call[c].op = "reconcile" PROVE Held(k) <= Seen(c, k) /\ Seen(c, k) <= counter[k][0]
    <3>1. Seen(c, k) = Held(k) /\ Held(k) \in Nat
      BY <2>7, <1>0, SumsAre DEF Seen
    <3>2. k # "tokens"
      BY <2>7, <1>0, <1>1 DEF Working, CallOf
    <3>3. counter[k][0] >= Held(k)
      BY <2>1, <3>2 DEF Sound, Counted
    <3>4. counter[k][0] \in Nat
      <4>1. 0 \in 0..MaxTime
        BY <1>0
      <4>2. PeriodOf(k, 0) \in Months
        BY <2>1, <4>1, Periods
      <4> QED BY <4>2, <3>2, <2>1, <1>0 DEF PeriodOf, TypeOK
    <3> QED BY <3>1, <3>3, <3>4
  <2> QED BY <2>1, <2>3, <2>4, <2>5, <2>6, <2>7 DEF SawRight
<1>6. \A d \in Callers \ {c} : Informed(d)'
  BY <1>0, <1>1, <1>2, LookIs, OthersInformed DEF Inside
<1>7. Informed(c)'
  BY <1>0, <1>5, LookIs DEF Informed
<1>8. UploadsSettleTogether'
  BY <1>0, <1>2, QuietUploads DEF IInv, Working
<1> QED BY <1>0, <1>4, <1>6, <1>7, <1>8 DEF IInv

\* A reservation is admitted on top of all that is used.
LEMMA ReserveStep == ASSUME QuotaAssumption, IInv, NEW c \in Callers, Reserve(c) PROVE IInv'
<1>0. Working /\ Working' /\ TypeOK /\ TypeOK' /\ ReservedAsAsked /\ c # Nobody /\ MaxTime \in Nat
  BY ReserveWorks, Nobodys DEF IInv, Working, QuotaAssumption
<1>1. /\ Ends(c) /\ UNCHANGED <<now, counter, gone>> /\ Inside(c) /\ call[c].step = "commits"
      /\ call[c].op = "reserve"
  BY DEF Reserve, Inside
<1>2. \A k \in Kinds : Since(k)' \in Since(k)..MaxTime
  BY <1>0, <1>1, EndSince
<1>3. CASE UNCHANGED res
  BY <1>0, <1>1, <1>2, <1>3, Unmoved, EndCalls, QuietStep
<1>4. CASE ~UNCHANGED res
  <2>1. PICK until \in Nat :
          /\ \A key \in KeysOf(c) : res[key].status = "none" /\ Fits(key[2], call[c].saw[key[2]])
          /\ res' = [key \in Keys |-> IF key \in KeysOf(c)
                       THEN [status |-> "reserved", amount |-> AmountOf(key[2]),
                             until |-> until, period |-> 0]
                       ELSE res[key]]
    <3>1. call[c].at + TTL \in Nat
      BY <1>0, CallsAre DEF QuotaAssumption
    <3> QED BY <3>1, <1>4 DEF Reserve
  <2>2. /\ KeysOf(c) \subseteq Keys /\ \A key \in KeysOf(c) : key[2] \in call[c].kinds
        /\ \A k \in call[c].kinds : <<call[c].of, k>> \in KeysOf(c)
        /\ \A key \in KeysOf(c) : key = <<call[c].of, key[2]>>
    BY <1>0, <1>1, KeysAre DEF KeysOf
  <2>3. ASSUME NEW k \in Kinds \ call[c].kinds PROVE Quieter(k)
    BY <1>1, <2>1, <2>2, <2>3 DEF Quieter, Kept
  <2>4. ASSUME NEW k \in Kinds PROVE FinalsKept(k)
    BY <2>1, <2>2 DEF FinalsKept
  <2>5. ASSUME NEW k \in call[c].kinds PROVE Sound(k)'
    <3>1. /\ k \in Kinds /\ Sound(k) /\ Since(k) = call[c].at /\ SawRight(c, k)
          /\ call[c].at \in 0..MaxTime
      BY <1>0, <1>1, CallsAre, HolderSince DEF IInv, Informed
    <3>2. PICK s \in 0..MaxTime : s = call[c].at
      BY <3>1
    <3>3. Fresh(k)'
      BY <1>0, <1>1, <1>2, <3>1, FreshKept DEF Sound
    <3>4. Counted(k)'
      BY <1>1, <3>1, <2>4, SameFinals DEF Sound, Counted
    <3> DEFINE x == <<call[c].of, k>>
    <3>5. x \in KeysOf(c) /\ x \in Keys /\ x[2] = k /\ res[x].status = "none"
      BY <2>1, <2>2
    <3>6. /\ res'[x].amount = AmountOf(k) /\ AmountOf(k) \in Nat \ {0} /\ Limit[k] \in Nat
          /\ AmountOf(k) <= Limit[k] - call[c].saw[k] /\ call[c].saw[k] \in Nat
      <4>1. Fits(k, call[c].saw[k])
        BY <2>1, <3>5
      <4> QED BY <2>1, <3>1, <3>5, <4>1, AmountsAre DEF Fits, SawRight
    <3>7. \A key \in Keys \ {x} : key[2] = k => res'[key] = res[key]
      BY <2>1, <2>2
    <3>8. ASSUME NEW t
          PROVE  /\ ReservedAt(k, t)' <= ReservedAt(k, t) + AmountOf(k)
                 /\ ReservedAt(k, t)' \in Nat /\ ReservedAt(k, t) \in Nat
      <4> DEFINE S == {key \in Keys : key[2] = k /\ res'[key].status = "reserved" /\ res'[key].until > t}
                 T == {key \in Keys : key[2] = k /\ res[key].status = "reserved" /\ res[key].until > t}
      <4>1. S \subseteq T \cup {x} /\ T \subseteq Keys /\ x \notin T
        BY <3>5, <3>7
      <4>2. \A key \in Keys : res[key].amount \in Nat /\ res'[key].amount \in Nat
        BY <1>0 DEF TypeOK, Reservations
      <4>3. IsFiniteSet(T) /\ IsFiniteSet(T \cup {x})
        BY <4>1, <3>5, KeysFinite, FS_AddElement
      <4>4. /\ Measured(res', S) /\ Measured(res', T \cup {x}) /\ Measured(res, T)
            /\ \A y \in S : res'[y].amount <= res'[y].amount
            /\ \A y \in T : res'[y].amount = res[y].amount
        BY <4>1, <4>2, <3>5, <3>7 DEF Measured
      <4>5. /\ ReservedAt(k, t)' = Cardinality(Pile(0, res', S))
            /\ ReservedAt(k, t) = Cardinality(Pile(0, res, T))
        BY DEF ReservedAt, Amount, Beyond, Pile, LiveAt
      <4> HIDE DEF S, T, x
      <4>6. /\ Cardinality(Pile(0, res', S)) <= Cardinality(Pile(0, res', T \cup {x}))
            /\ Cardinality(Pile(0, res', S)) \in Nat
        BY <4>1, <4>3, <4>4, PileMonotone
      <4>7. Cardinality(Pile(0, res', T \cup {x})) =
              Cardinality(Pile(0, res', T)) + res'[x].amount
        <5>1. IsFiniteSet(T) /\ x \notin T /\ Measured(res', T \cup {x})
          BY <4>1, <4>3, <4>4
        <5> QED BY <5>1, PileAddAll
      <4>8. Pile(0, res', T) = Pile(0, res, T)
        BY <4>4 DEF Pile
      <4>9. Cardinality(Pile(0, res, T)) \in Nat
        BY <4>3, <4>4, PileFinite
      <4> QED BY <3>6, <4>5, <4>6, <4>7, <4>8, <4>9
    <3>9. Room(k)'
      <4> SUFFICES ASSUME NEW t \in Since(k)'..MaxTime
                   PROVE  counter'[k][PeriodOf(k, t)] + ReservedAt(k, t)' <=
                            Limit[k] + Beyond(AmountOf(k), Finals(k, PeriodOf(k, t)))'
        BY DEF Room
      <4>1. t \in s..MaxTime /\ t \in 0..MaxTime
        BY <1>0, <1>2, <3>1, <3>2
      <4>2. counter[k][PeriodOf(k, t)] + ReservedAt(k, t) <= call[c].saw[k]
        BY <4>1, <3>1, <3>2, <1>1 DEF SawRight
      <4>3. counter[k][PeriodOf(k, t)] \in Nat /\ counter' = counter
        BY <1>0, <1>1, <3>1, <4>1, Periods DEF TypeOK
      <4>4. /\ Beyond(AmountOf(k), Finals(k, PeriodOf(k, t)))' = Beyond(AmountOf(k), Finals(k, PeriodOf(k, t)))
            /\ Beyond(AmountOf(k), Finals(k, PeriodOf(k, t))) \in Nat
        BY <1>0, <3>1, <2>4, SameFinals, SumsAre
      <4>5. /\ ReservedAt(k, t)' <= ReservedAt(k, t) + AmountOf(k)
            /\ ReservedAt(k, t)' \in Nat /\ ReservedAt(k, t) \in Nat
        BY <3>8
      <4> QED BY <4>2, <4>3, <4>4, <4>5, <3>6
    <3> QED BY <3>3, <3>4, <3>9 DEF Sound
  <2>6. \A k \in Kinds : Sound(k)'
    BY <1>0, <1>2, <2>3, <2>5, QuietSound DEF IInv
  <2>7. \A d \in Callers : Informed(d)'
    <3>1. \A d \in Callers \ {c} : Informed(d)'
      BY <1>0, <1>1, <2>3, EndCalls, OthersInformed
    <3>2. Informed(c)'
      BY <1>0, <1>1, EndCalls DEF Informed
    <3> QED BY <3>1, <3>2
  <2>8. UploadsSettleTogether'
    <3> SUFFICES ASSUME NEW u \in Uploads
                 PROVE  res'[<<u, "documents">>].status = "finalized" <=>
                          res'[<<u, "storage_bytes">>].status = "finalized"
      BY DEF UploadsSettleTogether
    <3>1. /\ <<u, "documents">> \in Keys /\ <<u, "storage_bytes">> \in Keys
          /\ "documents" \in Kinds /\ "storage_bytes" \in Kinds
      BY DEF Keys, Subjects, KindsOf, Kinds
    <3>2. FinalsKept("documents") /\ FinalsKept("storage_bytes")
      BY <2>4, <3>1
    <3>3. res[<<u, "documents">>].status = "finalized" <=> res[<<u, "storage_bytes">>].status = "finalized"
      BY DEF IInv, UploadsSettleTogether
    <3> QED BY <3>1, <3>2, <3>3 DEF FinalsKept
  <2> QED BY <1>0, <2>6, <2>7, <2>8 DEF IInv
<1> QED BY <1>3, <1>4

\* A recount is never below what is there, nor above what was counted.
LEMMA ReconcileStep == ASSUME QuotaAssumption, IInv, NEW c \in Callers, Reconcile(c) PROVE IInv'
<1>0. /\ Working /\ Working' /\ TypeOK /\ TypeOK' /\ ReservedAsAsked /\ c # Nobody /\ MaxTime \in Nat
      /\ \A d \in Callers : Informed(d)
  BY ReconcileWorks, Nobodys DEF IInv, Working, QuotaAssumption
<1>1. /\ Ends(c) /\ UNCHANGED <<now, res, gone>> /\ Inside(c) /\ call[c].step = "commits"
      /\ call[c].op = "reconcile"
  BY DEF Reconcile, Inside
<1>2. \A k \in Kinds : Since(k)' \in Since(k)..MaxTime
  BY <1>0, <1>1, EndSince
<1>3. ASSUME NEW k \in Kinds \ call[c].kinds PROVE Quieter(k)
  BY <1>0, <1>1, <1>3, ReconcileIs DEF Quieter, Kept
<1>4. /\ \A k : \A t : ReservedAt(k, t)' = ReservedAt(k, t)
      /\ \A k : \A m : Beyond(AmountOf(k), Finals(k, m))' = Beyond(AmountOf(k), Finals(k, m))
      /\ \A k : Held(k)' = Held(k)
  BY <1>1 DEF ReservedAt, Held, Finals, Amount, Beyond, LiveAt
<1>5. ASSUME NEW k \in call[c].kinds PROVE Sound(k)'
  <2>1. /\ k \in Kinds /\ k # "tokens" /\ counter'[k][0] = call[c].saw[k] /\ Sound(k) /\ SawRight(c, k)
        /\ call[c].at \in 0..MaxTime /\ Since(k) = call[c].at
    BY <1>0, <1>1, ReconcileIs, CallsAre, HolderSince DEF IInv, Informed
  <2>2. \A t : PeriodOf(k, t) = 0
    BY <2>1 DEF PeriodOf
  <2>3. /\ Held(k) <= call[c].saw[k] /\ call[c].saw[k] <= counter[k][0] /\ call[c].saw[k] \in Nat
        /\ Held(k) \in Nat
    BY <1>0, <1>1, <2>1, SumsAre DEF SawRight
  <2>4. counter[k][0] \in Nat
    <3>1. 0 \in 0..MaxTime
      BY <1>0
    <3>2. PeriodOf(k, 0) \in Months
      BY <2>1, <3>1, Periods
    <3> QED BY <3>2, <2>1, <2>2, <1>0 DEF TypeOK
  <2>5. Fresh(k)'
    <3>1. ~(0 > 0)
      OBVIOUS
    <3> QED BY <2>2, <3>1 DEF Fresh
  <2>6. Room(k)'
    <3> SUFFICES ASSUME NEW t \in Since(k)'..MaxTime
                 PROVE  counter'[k][PeriodOf(k, t)] + ReservedAt(k, t)' <=
                          Limit[k] + Beyond(AmountOf(k), Finals(k, PeriodOf(k, t)))'
      BY DEF Room
    <3>1. t \in Since(k)..MaxTime
      <4>1. Since(k)' \in Since(k)..MaxTime
        BY <2>1, <1>2
      <4> QED BY <4>1, <1>0, <2>1
    <3>2. counter[k][0] + ReservedAt(k, t) <= Limit[k] + Beyond(AmountOf(k), Finals(k, 0))
      BY <3>1, <2>1, <2>2 DEF Sound, Room
    <3>3. ReservedAt(k, t) \in Nat /\ Limit[k] \in Nat /\ Beyond(AmountOf(k), Finals(k, 0)) \in Nat
      BY <1>0, <2>1, SumsAre, AmountsAre
    <3>4. call[c].saw[k] + ReservedAt(k, t) <= Limit[k] + Beyond(AmountOf(k), Finals(k, 0))
      BY <3>2, <3>3, <2>3, <2>4
    <3> QED BY <3>4, <1>4, <2>1, <2>2
  <2>7. Counted(k)'
    BY <2>1, <2>3, <1>4 DEF Counted
  <2> QED BY <2>5, <2>6, <2>7 DEF Sound
<1>6. \A k \in Kinds : Sound(k)'
  BY <1>0, <1>2, <1>3, <1>5, QuietSound DEF IInv
<1>7. \A d \in Callers : Informed(d)'
  <2>1. \A d \in Callers \ {c} : Informed(d)'
    BY <1>0, <1>1, <1>3, EndCalls, OthersInformed
  <2>2. Informed(c)'
    BY <1>0, <1>1, EndCalls DEF Informed
  <2> QED BY <2>1, <2>2
<1>8. UploadsSettleTogether'
  BY <1>1 DEF IInv, UploadsSettleTogether
<1> QED BY <1>0, <1>6, <1>7, <1>8 DEF IInv

\* One more final reservation adds what it came to.
LEMMA FinalsGrow ==
    ASSUME QuotaAssumption, TypeOK, TypeOK', NEW k \in Kinds, NEW x \in Keys, NEW p, x[2] = k,
           res[x].status # "finalized", res'[x].status = "finalized", res'[x].period = p,
           \A key \in Keys \ {x} : key[2] = k => res'[key] = res[key]
    PROVE  /\ \A m : m # p =>
                /\ Amount(Finals(k, m))' = Amount(Finals(k, m))
                /\ Beyond(AmountOf(k), Finals(k, m))' = Beyond(AmountOf(k), Finals(k, m))
           /\ Amount(Finals(k, p))' = Amount(Finals(k, p)) + res'[x].amount
           /\ Beyond(AmountOf(k), Finals(k, p))' =
                Beyond(AmountOf(k), Finals(k, p)) +
                  (IF res'[x].amount > AmountOf(k) THEN res'[x].amount - AmountOf(k) ELSE 0)
           /\ gone' = gone => Held(k)' <= Held(k) + res'[x].amount /\ Held(k)' \in Nat
<1>1. \A key \in Keys : res[key].amount \in Nat /\ res'[key].amount \in Nat
  BY DEF TypeOK, Reservations
<1>2. AmountOf(k) \in Nat /\ 0 \in Nat
  BY AmountsAre
<1>3. ASSUME NEW m, m # p
      PROVE  /\ Amount(Finals(k, m))' = Amount(Finals(k, m))
             /\ Beyond(AmountOf(k), Finals(k, m))' = Beyond(AmountOf(k), Finals(k, m))
  <2> DEFINE S == {key \in Keys : key[2] = k /\ res'[key].status = "finalized" /\ res'[key].period = m}
             T == {key \in Keys : key[2] = k /\ res[key].status = "finalized" /\ res[key].period = m}
  <2>1. S = T /\ \A y \in T : res'[y].amount = res[y].amount
    BY <1>3
  <2>2. /\ Amount(Finals(k, m))' = Cardinality(Pile(0, res', S))
        /\ Amount(Finals(k, m)) = Cardinality(Pile(0, res, T))
        /\ Beyond(AmountOf(k), Finals(k, m))' = Cardinality(Pile(AmountOf(k), res', S))
        /\ Beyond(AmountOf(k), Finals(k, m)) = Cardinality(Pile(AmountOf(k), res, T))
    BY DEF Finals, Amount, Beyond, Pile
  <2> HIDE DEF S, T
  <2>3. Pile(0, res', T) = Pile(0, res, T) /\ Pile(AmountOf(k), res', T) = Pile(AmountOf(k), res, T)
    BY <2>1 DEF Pile
  <2> QED BY <2>1, <2>2, <2>3
<1>4. /\ Amount(Finals(k, p))' = Amount(Finals(k, p)) + res'[x].amount
      /\ Beyond(AmountOf(k), Finals(k, p))' =
           Beyond(AmountOf(k), Finals(k, p)) +
             (IF res'[x].amount > AmountOf(k) THEN res'[x].amount - AmountOf(k) ELSE 0)
  <2> DEFINE S == {key \in Keys : key[2] = k /\ res'[key].status = "finalized" /\ res'[key].period = p}
             T == {key \in Keys : key[2] = k /\ res[key].status = "finalized" /\ res[key].period = p}
  <2>1. /\ S = T \cup {x} /\ x \notin T /\ T \subseteq Keys
        /\ \A y \in T : res'[y].amount = res[y].amount
    OBVIOUS
  <2>2. /\ Amount(Finals(k, p))' = Cardinality(Pile(0, res', S))
        /\ Amount(Finals(k, p)) = Cardinality(Pile(0, res, T))
        /\ Beyond(AmountOf(k), Finals(k, p))' = Cardinality(Pile(AmountOf(k), res', S))
        /\ Beyond(AmountOf(k), Finals(k, p)) = Cardinality(Pile(AmountOf(k), res, T))
    BY DEF Finals, Amount, Beyond, Pile
  <2>3. IsFiniteSet(T) /\ Measured(res', T \cup {x})
    BY <2>1, <1>1, KeysFinite DEF Measured
  <2> HIDE DEF S, T
  <2>4. Pile(0, res', T) = Pile(0, res, T) /\ Pile(AmountOf(k), res', T) = Pile(AmountOf(k), res, T)
    BY <2>1 DEF Pile
  <2>5. Cardinality(Pile(0, res', T \cup {x})) =
          Cardinality(Pile(0, res', T)) + res'[x].amount
    <3>1. IsFiniteSet(T) /\ x \notin T /\ Measured(res', T \cup {x})
      BY <2>1, <2>3
    <3> QED BY <3>1, PileAddAll
  <2>6. Cardinality(Pile(AmountOf(k), res', T \cup {x})) =
          Cardinality(Pile(AmountOf(k), res', T)) +
            (IF res'[x].amount > AmountOf(k) THEN res'[x].amount - AmountOf(k) ELSE 0)
    <3>1. /\ IsFiniteSet(T) /\ x \notin T /\ Measured(res', T \cup {x}) /\ AmountOf(k) \in Nat
      BY <2>1, <2>3, <1>2
    <3> QED BY <3>1, PileAdd, ZenonT(60)
  <2> QED BY <2>1, <2>2, <2>4, <2>5, <2>6
<1>5. ASSUME gone' = gone PROVE Held(k)' <= Held(k) + res'[x].amount /\ Held(k)' \in Nat
  <2> DEFINE S == {key \in Keys : key[2] = k /\ res'[key].status = "finalized" /\ key[1] \notin gone'}
             T == {key \in Keys : key[2] = k /\ res[key].status = "finalized" /\ key[1] \notin gone}
  <2>1. /\ S \subseteq T \cup {x} /\ x \notin T /\ T \subseteq Keys
        /\ \A y \in T : res'[y].amount = res[y].amount
    BY <1>5
  <2>2. Held(k)' = Cardinality(Pile(0, res', S)) /\ Held(k) = Cardinality(Pile(0, res, T))
    BY DEF Held, Amount, Beyond, Pile
  <2>3. /\ IsFiniteSet(T) /\ IsFiniteSet(T \cup {x}) /\ Measured(res', T \cup {x}) /\ Measured(res', S)
        /\ \A y \in S : res'[y].amount <= res'[y].amount
    BY <2>1, <1>1, KeysFinite, FS_AddElement DEF Measured
  <2> HIDE DEF S, T
  <2>4. Pile(0, res', T) = Pile(0, res, T)
    BY <2>1 DEF Pile
  <2>5. Cardinality(Pile(0, res', T \cup {x})) =
          Cardinality(Pile(0, res', T)) + res'[x].amount
    <3>1. IsFiniteSet(T) /\ x \notin T /\ Measured(res', T \cup {x})
      BY <2>1, <2>3
    <3> QED BY <3>1, PileAddAll
  <2>6. /\ Cardinality(Pile(0, res', S)) <= Cardinality(Pile(0, res', T \cup {x}))
        /\ Cardinality(Pile(0, res', S)) \in Nat
    BY <2>1, <2>3, PileMonotone
  <2> QED BY <2>2, <2>4, <2>5, <2>6
<1> QED BY <1>3, <1>4, <1>5

\* What is final is no longer reserved.
LEMMA ReservedSettled ==
    ASSUME QuotaAssumption, TypeOK, TypeOK', NEW k \in Kinds, NEW x \in Keys, x[2] = k,
           NEW s \in Nat, LiveAt(x, s), res'[x].status = "finalized",
           \A key \in Keys \ {x} : key[2] = k => res'[key] = res[key], NEW t \in Nat, s <= t
    PROVE  /\ ReservedAt(k, t)' + res[x].amount <= ReservedAt(k, s)
           /\ ReservedAt(k, t)' <= ReservedAt(k, t)
           /\ ReservedAt(k, t)' \in Nat
<1> DEFINE S == {key \in Keys : key[2] = k /\ res'[key].status = "reserved" /\ res'[key].until > t}
           T == {key \in Keys : key[2] = k /\ res[key].status = "reserved" /\ res[key].until > t}
           U == {key \in Keys : key[2] = k /\ res[key].status = "reserved" /\ res[key].until > s}
<1>1. \A key \in Keys : res[key].amount \in Nat /\ res'[key].amount \in Nat /\ res[key].until \in Nat
  BY DEF TypeOK, Reservations
<1>2. S \subseteq T /\ S \subseteq U /\ x \in U /\ x \notin S /\ T \subseteq Keys /\ U \subseteq Keys
  BY <1>1 DEF LiveAt
<1>3. \A y \in S : res'[y].amount = res[y].amount
  BY <1>2
<1>4. /\ IsFiniteSet(S) /\ IsFiniteSet(T) /\ IsFiniteSet(U)
      /\ Measured(res, S) /\ Measured(res, T) /\ Measured(res, U)
      /\ \A y \in S : res[y].amount <= res[y].amount
  BY <1>1, <1>2, KeysFinite DEF Measured
<1>5. /\ ReservedAt(k, t)' = Cardinality(Pile(0, res', S))
      /\ ReservedAt(k, t) = Cardinality(Pile(0, res, T))
      /\ ReservedAt(k, s) = Cardinality(Pile(0, res, U))
  BY DEF ReservedAt, Amount, Beyond, Pile, LiveAt
<1> HIDE DEF S, T, U
<1>6. Pile(0, res', S) = Pile(0, res, S)
  BY <1>3 DEF Pile
<1>7. /\ Cardinality(Pile(0, res, S)) <= Cardinality(Pile(0, res, T))
      /\ Cardinality(Pile(0, res, S)) \in Nat
  BY <1>2, <1>4, PileMonotone
<1>8. Cardinality(Pile(0, res, S)) + res[x].amount <= Cardinality(Pile(0, res, U))
  <2>1. IsFiniteSet(U) /\ Measured(res, U) /\ x \in U /\ S \subseteq U \ {x}
    BY <1>2, <1>4
  <2> QED BY <2>1, PileWithout
<1> QED BY <1>5, <1>6, <1>7, <1>8

\* A settlement moves what was reserved into what is counted.
LEMMA FinalizeStep == ASSUME QuotaAssumption, IInv, NEW c \in Callers, Finalize(c) PROVE IInv'
<1>0. /\ Working /\ Working' /\ TypeOK /\ TypeOK' /\ ReservedAsAsked /\ c # Nobody /\ MaxTime \in Nat
      /\ \A d \in Callers : Informed(d)
  BY FinalizeWorks, Nobodys DEF IInv, Working, QuotaAssumption
<1>1. /\ Ends(c) /\ UNCHANGED <<now, gone>> /\ Inside(c) /\ call[c].step = "commits"
      /\ call[c].op = "finalize"
  BY DEF Finalize, Inside
<1>2. \A k \in Kinds : Since(k)' \in Since(k)..MaxTime
  BY <1>0, <1>1, EndSince
<1>3. /\ KeysOf(c) \subseteq Keys /\ call[c].kinds = KindsOf(call[c].of)
      /\ \A k \in call[c].kinds : <<call[c].of, k>> \in KeysOf(c)
      /\ \A key \in KeysOf(c) : key[2] \in call[c].kinds /\ key = <<call[c].of, key[2]>>
  BY <1>0, <1>1, KeysAre DEF KeysOf
<1>4. ASSUME NEW k \in Kinds, <<call[c].of, k>> \notin ToFinalize(c),
             \A key \in Keys : key[2] = k => key \notin ToFinalize(c)
      PROVE  Quieter(k)
  <2>1. counter \in [Kinds -> [Months -> Nat]]
    BY <1>0 DEF TypeOK
  <2>2. counter' = [h \in Kinds |-> [m \in Months |->
          IF <<call[c].of, h>> \in ToFinalize(c) /\ m = PeriodOf(h, call[c].at)
            THEN call[c].saw[h] + res'[<<call[c].of, h>>].amount ELSE counter[h][m]]]
    BY <1>0, FinalizeIs
  <2>3. counter'[k] = [m \in Months |-> counter[k][m]]
    BY <1>4, <2>2
  <2>4. counter'[k] = counter[k]
    BY <2>1, <2>3
  <2>5. \A key \in Keys : key[2] = k => Kept(key)
    BY <1>0, <1>4, FinalizeIs
  <2> QED BY <1>1, <2>4, <2>5 DEF Quieter
<1>5. CASE ToFinalize(c) = {}
  <2>1. \A k \in Kinds : Quieter(k)
    BY <1>4, <1>5
  <2> QED BY <1>0, <1>1, <1>2, <2>1, EndCalls, QuietStep
<1>6. CASE ToFinalize(c) = KeysOf(c)
  <2>1. ASSUME NEW k \in Kinds \ call[c].kinds PROVE Quieter(k)
    <3>1. \A key \in KeysOf(c) : key[2] # k
      BY <1>3
    <3>2. <<call[c].of, k>>[2] = k
      OBVIOUS
    <3> QED BY <3>1, <3>2, <1>4, <1>6
  <2>2. ASSUME NEW k \in call[c].kinds PROVE Sound(k)'
    <3>1. /\ k \in Kinds /\ Sound(k) /\ Since(k) = call[c].at /\ SawRight(c, k)
          /\ call[c].at \in 0..MaxTime
      BY <1>0, <1>1, CallsAre, HolderSince DEF IInv, Informed
    <3>1a. call[c].saw[k] = counter[k][PeriodOf(k, call[c].at)]
      BY <3>1, <1>1 DEF SawRight
    <3>2. PICK s \in 0..MaxTime, p \in Months : s = call[c].at /\ p = PeriodOf(k, s)
      BY <3>1, Periods
    <3>3. PICK x : x = <<call[c].of, k>>
      OBVIOUS
    <3>4. x \in KeysOf(c) /\ x \in ToFinalize(c) /\ x \in Keys /\ x[2] = k
      BY <1>3, <1>6, <3>3
    <3>5. /\ LiveAt(x, s) /\ res'[x].status = "finalized" /\ res'[x].period = p
      BY <1>0, <3>2, <3>4, FinalizeIs
    <3>6. \A key \in Keys \ {x} : key[2] = k => res'[key] = res[key]
      <4> SUFFICES ASSUME NEW key \in Keys \ {x}, key[2] = k PROVE res'[key] = res[key]
        OBVIOUS
      <4>1. key \notin KeysOf(c)
        BY <1>3, <3>3
      <4> QED BY <4>1, <1>0, <1>6, FinalizeIs
    <3>7. PICK n : n = res'[x].amount
      OBVIOUS
    <3>8. n \in Nat /\ counter[k] \in [Months -> Nat] /\ counter[k][p] \in Nat
      BY <1>0, <3>1, <3>2, <3>4, <3>7 DEF TypeOK, Reservations
    <3>9. counter'[k] = [m \in Months |-> IF m = p THEN counter[k][p] + n ELSE counter[k][m]]
      <4>1. counter' = [h \in Kinds |-> [m \in Months |->
              IF <<call[c].of, h>> \in ToFinalize(c) /\ m = PeriodOf(h, call[c].at)
                THEN call[c].saw[h] + res'[<<call[c].of, h>>].amount ELSE counter[h][m]]]
        BY <1>0, FinalizeIs
      <4>2. counter'[k] = [m \in Months |->
              IF <<call[c].of, k>> \in ToFinalize(c) /\ m = PeriodOf(k, call[c].at)
                THEN call[c].saw[k] + res'[<<call[c].of, k>>].amount ELSE counter[k][m]]
        BY <3>1, <4>1
      <4>3. call[c].saw[k] + res'[<<call[c].of, k>>].amount = counter[k][p] + n
        BY <3>1a, <3>2, <3>3, <3>7
      <4> QED BY <4>2, <4>3, <3>2, <3>3, <3>4
    <3>10. /\ counter'[k][p] = counter[k][p] + n
           /\ \A m \in Months : m # p => counter'[k][m] = counter[k][m]
      BY <3>2, <3>9
    <3>11. /\ res[x].amount = AmountOf(k) /\ AmountOf(k) \in Nat \ {0} /\ Limit[k] \in Nat
           /\ res[x].status # "finalized"
      BY <1>0, <3>1, <3>4, <3>5, AmountsAre DEF LiveAt, ReservedAsAsked
    <3>12. /\ \A m : m # p =>
                /\ Amount(Finals(k, m))' = Amount(Finals(k, m))
                /\ Beyond(AmountOf(k), Finals(k, m))' = Beyond(AmountOf(k), Finals(k, m))
           /\ Amount(Finals(k, p))' = Amount(Finals(k, p)) + n
           /\ Beyond(AmountOf(k), Finals(k, p))' =
                Beyond(AmountOf(k), Finals(k, p)) + (IF n > AmountOf(k) THEN n - AmountOf(k) ELSE 0)
           /\ Held(k)' <= Held(k) + n /\ Held(k)' \in Nat
      BY <1>0, <1>1, <3>1, <3>4, <3>5, <3>6, <3>7, <3>11, FinalsGrow
    <3>13. Fresh(k)'
      BY <1>0, <1>2, <3>1, <3>2, <3>10, FreshKept DEF Sound
    <3>14. ASSUME NEW t \in Since(k)'..MaxTime
           PROVE  counter'[k][PeriodOf(k, t)] + ReservedAt(k, t)' <=
                    Limit[k] + Beyond(AmountOf(k), Finals(k, PeriodOf(k, t)))'
      <4>1. Since(k)' \in s..MaxTime
        BY <1>2, <3>1, <3>2
      <4>2. t \in s..MaxTime /\ t \in 0..MaxTime /\ t \in Nat /\ s \in Nat /\ s <= t /\ s \in s..MaxTime
        BY <4>1, <1>0
      <4>3. /\ ReservedAt(k, t)' + AmountOf(k) <= ReservedAt(k, s)
            /\ ReservedAt(k, t)' <= ReservedAt(k, t) /\ ReservedAt(k, t)' \in Nat
        BY <1>0, <3>1, <3>4, <3>5, <3>6, <3>11, <4>2, ReservedSettled
      <4>4. ReservedAt(k, t) \in Nat /\ ReservedAt(k, s) \in Nat
        BY <1>0, SumsAre
      <4>5. \A m : Beyond(AmountOf(k), Finals(k, m)) \in Nat
        BY <1>0, <3>1, SumsAre
      <4>6. PICK q \in Months : q = PeriodOf(k, t)
        BY <3>1, <4>2, Periods
      <4>7. CASE q = p
        <5>1. counter[k][p] + ReservedAt(k, s) <= Limit[k] + Beyond(AmountOf(k), Finals(k, p))
          BY <3>1, <3>2, <4>2 DEF Sound, Room
        <5>2. n - AmountOf(k) <= (IF n > AmountOf(k) THEN n - AmountOf(k) ELSE 0)
          BY <3>8, <3>11
        <5>3. Beyond(AmountOf(k), Finals(k, p)) + n - AmountOf(k) <= Beyond(AmountOf(k), Finals(k, p))'
          BY <5>2, <3>8, <3>11, <3>12, <4>5
        <5>4. Beyond(AmountOf(k), Finals(k, p))' \in Nat
          BY <3>8, <3>11, <3>12, <4>5
        <5>5. counter[k][p] + n + ReservedAt(k, t)' <= Limit[k] + Beyond(AmountOf(k), Finals(k, p))'
          BY <5>1, <5>3, <5>4, <3>8, <3>11, <4>3, <4>4, <4>5
        <5> QED BY <5>5, <3>10, <4>6, <4>7
      <4>8. CASE q # p
        <5>1. counter[k][q] + ReservedAt(k, t) <= Limit[k] + Beyond(AmountOf(k), Finals(k, q))
          BY <3>1, <3>2, <4>2, <4>6 DEF Sound, Room
        <5>2. counter'[k][q] = counter[k][q] /\ counter[k][q] \in Nat
          BY <3>8, <3>10, <4>6, <4>8
        <5>3. Beyond(AmountOf(k), Finals(k, q))' = Beyond(AmountOf(k), Finals(k, q))
          BY <3>12, <4>8
        <5>4. counter'[k][q] + ReservedAt(k, t)' <= Limit[k] + Beyond(AmountOf(k), Finals(k, q))'
          BY <5>1, <5>2, <5>3, <4>3, <4>4, <4>5, <3>11
        <5> QED BY <5>4, <4>6
      <4> QED BY <4>7, <4>8
    <3>15. Room(k)'
      BY <3>14 DEF Room
    <3>16. Counted(k)'
      <4>1. CASE k = "tokens"
        <5>1. \A m \in Months : counter[k][m] = Amount(Finals(k, m))
          BY <3>1, <4>1 DEF Sound, Counted
        <5>2. \A m \in Months : counter'[k][m] = Amount(Finals(k, m))'
          BY <5>1, <3>2, <3>10, <3>12
        <5> QED BY <4>1, <5>2 DEF Counted
      <4>2. CASE k # "tokens"
        <5>1. p = 0
          BY <3>2, <4>2 DEF PeriodOf
        <5>2. counter[k][0] >= Held(k) /\ Held(k) \in Nat
          BY <1>0, <3>1, <4>2, SumsAre DEF Sound, Counted
        <5>3. counter'[k][0] >= Held(k)'
          BY <5>1, <5>2, <3>8, <3>10, <3>12
        <5> QED BY <4>2, <5>3 DEF Counted
      <4> QED BY <4>1, <4>2
    <3> QED BY <3>13, <3>15, <3>16 DEF Sound
  <2>3. \A k \in Kinds : Sound(k)'
    BY <1>0, <1>2, <2>1, <2>2, QuietSound DEF IInv
  <2>4. \A d \in Callers : Informed(d)'
    <3>1. \A d \in Callers \ {c} : Informed(d)'
      BY <1>0, <1>1, <2>1, EndCalls, OthersInformed
    <3>2. Informed(c)'
      BY <1>0, <1>1, EndCalls DEF Informed
    <3> QED BY <3>1, <3>2
  <2>5. UploadsSettleTogether'
    <3> SUFFICES ASSUME NEW u \in Uploads
                 PROVE  res'[<<u, "documents">>].status = "finalized" <=>
                          res'[<<u, "storage_bytes">>].status = "finalized"
      BY DEF UploadsSettleTogether
    <3>1. /\ <<u, "documents">> \in Keys /\ <<u, "storage_bytes">> \in Keys
          /\ KindsOf(u) = {"documents", "storage_bytes"}
      BY DEF Keys, Subjects, KindsOf, Kinds
    <3>2. res[<<u, "documents">>].status = "finalized" <=> res[<<u, "storage_bytes">>].status = "finalized"
      BY DEF IInv, UploadsSettleTogether
    <3>3. CASE u = call[c].of
      <4>1. <<u, "documents">> \in ToFinalize(c) /\ <<u, "storage_bytes">> \in ToFinalize(c)
        BY <1>3, <1>6, <3>1, <3>3
      <4> QED BY <4>1, <1>0, FinalizeIs
    <3>4. CASE u # call[c].of
      <4>1. <<u, "documents">> \notin KeysOf(c) /\ <<u, "storage_bytes">> \notin KeysOf(c)
        BY <3>4 DEF KeysOf
      <4>2. /\ res'[<<u, "documents">>] = res[<<u, "documents">>]
            /\ res'[<<u, "storage_bytes">>] = res[<<u, "storage_bytes">>]
        BY <4>1, <1>0, <1>6, <3>1, FinalizeIs
      <4> QED BY <3>2, <4>2
    <3> QED BY <3>3, <3>4
  <2> QED BY <1>0, <2>3, <2>4, <2>5 DEF IInv
<1> QED BY <1>0, <1>5, <1>6, FinalizeIs

-----------------------------------------------------------------------------
LEMMA InvariantInit == ASSUME QuotaAssumption, Init PROVE IInv
<1>1. /\ now = 0 /\ gone = {} /\ MaxTime \in Nat
      /\ res = [key \in Keys |-> [status |-> "none", amount |-> 0, until |-> 0, period |-> 0]]
      /\ counter = [k \in Kinds |-> [m \in Months |-> 0]]
      /\ lock = [k \in Kinds |-> Nobody] /\ call = [c \in Callers |-> Idle]
  BY DEF Init, QuotaAssumption
<1>2. 0 \in Months /\ 0 \in 0..MaxTime
  <2>1. 0 \in 0..MaxTime /\ "documents" \in Kinds
    BY <1>1 DEF Kinds
  <2>2. PeriodOf("documents", 0) \in Months
    BY <2>1, Periods
  <2> QED BY <2>1, <2>2 DEF PeriodOf
<1>3. TypeOK
  <2>1. [status |-> "none", amount |-> 0, until |-> 0, period |-> 0] \in Reservations
    BY <1>2 DEF Reservations, Settled
  <2>2. res \in [Keys -> Reservations]
    BY <1>1, <2>1
  <2>3. call \in [Callers -> Calls]
    BY <1>1, IdleIs
  <2> QED BY <1>1, <1>2, <2>2, <2>3 DEF TypeOK
<1>4. Working
  BY <1>1, <1>2, <1>3 DEF Working, ReservedAsAsked, CallOf, HeldBy, LockOf, Inside, Idle
<1>5. \A c \in Callers : Informed(c)
  BY <1>1 DEF Informed, Idle
<1>6. UploadsSettleTogether
  <2>1. \A u \in Uploads : <<u, "documents">> \in Keys /\ <<u, "storage_bytes">> \in Keys
    BY DEF Keys, Subjects, KindsOf, Kinds
  <2> QED BY <1>1, <2>1 DEF UploadsSettleTogether
<1>7. /\ \A k : \A t : ReservedAt(k, t) = 0
      /\ \A k : Held(k) = 0
      /\ \A k : \A m : Amount(Finals(k, m)) = 0
  <2>1. Cardinality({}) = 0
    BY FS_EmptySet
  <2>2. /\ \A k : \A t : {key \in Keys : key[2] = k /\ LiveAt(key, t)} = {}
        /\ \A k : {key \in Keys : key[2] = k /\ res[key].status = "finalized" /\ key[1] \notin gone} = {}
        /\ \A k : \A m : Finals(k, m) = {}
    BY <1>1 DEF LiveAt, Finals
  <2>3. Amount({}) = 0
    BY <2>1 DEF Amount, Beyond
  <2> QED BY <2>2, <2>3 DEF ReservedAt, Held
<1>8. ASSUME NEW k \in Kinds PROVE Sound(k)
  <2>1. Since(k) \in 0..MaxTime
    BY <1>1, <1>2, <1>4, SinceIs
  <2>2. \A t \in Since(k)..MaxTime : PeriodOf(k, t) \in Months /\ counter[k][PeriodOf(k, t)] = 0
    <3> SUFFICES ASSUME NEW t \in Since(k)..MaxTime
                 PROVE  PeriodOf(k, t) \in Months /\ counter[k][PeriodOf(k, t)] = 0
      OBVIOUS
    <3>1. t \in 0..MaxTime /\ t <= t
      BY <2>1, <1>1
    <3>2. PeriodOf(k, t) \in Months
      BY <3>1, Periods
    <3> QED BY <3>2, <1>1
  <2>3. Fresh(k)
    BY <2>2 DEF Fresh
  <2>4. Limit[k] \in Nat /\ \A m : Beyond(AmountOf(k), Finals(k, m)) \in Nat
    BY <1>3, AmountsAre, SumsAre
  <2>5. Room(k)
    <3> SUFFICES ASSUME NEW t \in Since(k)..MaxTime
                 PROVE  counter[k][PeriodOf(k, t)] + ReservedAt(k, t) <=
                          Limit[k] + Beyond(AmountOf(k), Finals(k, PeriodOf(k, t)))
      BY DEF Room
    <3>1. counter[k][PeriodOf(k, t)] = 0 /\ ReservedAt(k, t) = 0
      BY <2>2, <1>7
    <3>2. 0 <= Limit[k] + Beyond(AmountOf(k), Finals(k, PeriodOf(k, t)))
      BY <2>4
    <3> QED BY <3>1, <3>2
  <2>6. Counted(k)
    BY <1>1, <1>2, <1>7 DEF Counted
  <2> QED BY <2>3, <2>5, <2>6 DEF Sound
<1> QED BY <1>4, <1>5, <1>6, <1>8 DEF IInv

LEMMA InvariantStep == ASSUME QuotaAssumption, IInv, Next PROVE IInv'
<1>1. CASE Sweep
  BY <1>1, SweepStep
<1>2. CASE Tick
  BY <1>2, TickStep
<1>3. ASSUME NEW u \in Uploads, DeleteDocument(u) PROVE IInv'
  BY <1>3, DeleteStep
<1>4. ASSUME NEW c \in Callers, NEW op \in {"reserve", "finalize", "refund"}, NEW s \in Subjects,
             Begin(c, op, s)
      PROVE  IInv'
  BY <1>4, BeginStep
<1>5. ASSUME NEW c \in Callers,
             \/ BeginReconcile(c) \/ Admit(c) \/ Look(c) \/ RollBack(c)
             \/ Reserve(c) \/ Finalize(c) \/ RefundReservation(c) \/ Reconcile(c)
      PROVE  IInv'
  BY <1>5, BeginReconcileStep, AdmitStep, LookStep, RollBackStep, ReserveStep, FinalizeStep,
     RefundStep, ReconcileStep
<1> QED BY <1>1, <1>2, <1>3, <1>4, <1>5 DEF Next

LEMMA InvariantStutters == ASSUME QuotaAssumption, IInv, UNCHANGED vars PROVE IInv'
<1>1. UNCHANGED <<now, res, counter, lock, call, gone>>
  BY DEF vars
<1>2. Working /\ Working'
  BY <1>1 DEF IInv, Working, TypeOK, ReservedAsAsked, CallOf, HeldBy, LockOf, Inside
<1>3. ASSUME NEW k \in Kinds PROVE Since(k)' \in Since(k)..MaxTime
  <2>1. Since(k) \in 0..now /\ now \in 0..MaxTime /\ MaxTime \in Nat
    BY <1>2, SinceIs DEF QuotaAssumption
  <2>2. Since(k)' = Since(k)
    BY <1>1 DEF Since
  <2> QED BY <2>1, <2>2
<1> QED BY <1>1, <1>2, <1>3, Unmoved, QuietStep

LEMMA InvariantSuffices ==
    ASSUME QuotaAssumption, IInv PROVE NeverOverAdmitted /\ EverythingIsCounted /\ UploadsSettleTogether
<1>1. ASSUME NEW k \in Kinds
      PROVE  counter[k][PeriodOf(k, now)] + ReservedAt(k, now) <=
               Limit[k] + Beyond(AmountOf(k), Finals(k, PeriodOf(k, now)))
  <2>1. Since(k) \in 0..now /\ now \in 0..MaxTime /\ MaxTime \in Nat
    BY SinceIs DEF IInv, QuotaAssumption
  <2>2. now \in Since(k)..MaxTime
    BY <2>1
  <2> QED BY <2>2 DEF IInv, Sound, Room
<1>2. \A m \in Months : counter["tokens"][m] = Amount(Finals("tokens", m))
  BY DEF IInv, Sound, Counted, Kinds
<1>3. \A k \in {"documents", "storage_bytes"} : counter[k][0] >= Held(k)
  BY DEF IInv, Sound, Counted, Kinds
<1> QED BY <1>1, <1>2, <1>3 DEF NeverOverAdmitted, EverythingIsCounted, IInv

\* No transaction counts on what another has used, and what is reserved and counted from the
\* time of the holder of a lock on stays within the limit (services/quota.rs, db/quota.rs).
THEOREM LedgerInvariant == ASSUME QuotaAssumption PROVE Spec => []IInv
<1>1. Init => IInv
  BY InvariantInit
<1>2. IInv /\ [Next]_vars => IInv'
  BY InvariantStep, InvariantStutters
<1> QED BY <1>1, <1>2, PTL DEF Spec

\* No organisation is admitted beyond its limit, by any number of transactions.
THEOREM LedgerStaysWithinLimits == ASSUME QuotaAssumption PROVE Spec => []NeverOverAdmitted
<1>1. IInv => NeverOverAdmitted
  BY InvariantSuffices
<1>2. Spec => []IInv
  BY LedgerInvariant
<1> QED BY <1>1, <1>2, PTL

\* No settlement is lost, no repair forgets one, and an upload settles both of its resources
\* or none.
THEOREM LedgerIsExact ==
    ASSUME QuotaAssumption PROVE Spec => [](EverythingIsCounted /\ UploadsSettleTogether)
<1>1. IInv => EverythingIsCounted /\ UploadsSettleTogether
  BY InvariantSuffices
<1>2. Spec => []IInv
  BY LedgerInvariant
<1> QED BY <1>1, <1>2, PTL

=============================================================================
