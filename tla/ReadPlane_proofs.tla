--------------------------- MODULE ReadPlane_proofs ---------------------------
(***************************************************************************)
(* Proofs about the two Durable Objects of the read plane: the admission   *)
(* with the coordinator behind it, and the observation cache.              *)
(*                                                                         *)
(* The argument for AdmittedOnce is that an authorization leaves the list  *)
(* only when it has expired by a clock that not-before has reached or      *)
(* passed, and that no request is admitted by a clock behind not-before.   *)
(* So however the clock is set afterwards, a forgotten authorization is    *)
(* expired whenever one can be admitted.                                   *)
(*                                                                         *)
(* RoomEnough rests on the admissions being an interval apart although     *)
(* nobody records when they were: of the entries that expire in the second *)
(* e or later there are as many as intervals fit between the earliest      *)
(* clock that admits such a challenge and not-before.                      *)
(*                                                                         *)
(* BudgetHeld of the observations is inductive with the types and one      *)
(* fact: a lease is never at time zero, so that a commit whose lease is    *)
(* still current finds the record of its own identity.  Because            *)
(* normalizeState refuses a record from the future, the clock of a commit  *)
(* is not behind the one its lease was taken by.                           *)
(***************************************************************************)
EXTENDS ReadCoordinator, ObservationCache, FiniteSetTheorems, TLAPS

-----------------------------------------------------------------------------
(* Arithmetic *)

\* Seconds is monotone.
LEMMA SecondsMonotone ==
    ASSUME NEW x \in Nat, NEW y \in Nat, x <= y
    PROVE  Seconds(x) <= Seconds(y) /\ Seconds(x) \in Nat /\ Seconds(y) \in Nat
<1>1. Unit \in Nat /\ Unit > 0
  BY UnitAssumption
<1>2. x \div Unit \in Nat /\ y \div Unit \in Nat
  BY <1>1
<1>3. x >= Unit * (x \div Unit)
  BY <1>1
<1>4. y < Unit * (y \div Unit) + Unit
  BY <1>1
<1>5. CASE y \div Unit < x \div Unit
  <2>1. y \div Unit + 1 <= x \div Unit
    BY <1>2, <1>5
  <2>2. Unit * (y \div Unit + 1) <= Unit * (x \div Unit)
    BY <2>1, <1>1, <1>2
  <2> QED
    BY <2>2, <1>1, <1>2, <1>3, <1>4
<1> QED
  BY <1>2, <1>5 DEF Seconds

\* One more admission takes one more interval.
LEMMA OneMoreInterval ==
    ASSUME NEW n \in Nat, NEW bound \in Nat, n * Interval <= bound
    PROVE  (n + 1) * Interval <= bound + Interval
<1>1. Interval \in Nat
  BY IntervalAssumption
<1> QED
  BY <1>1

-----------------------------------------------------------------------------
(* The inductive invariant *)

\* Only issued challenges are under way or admitted.
Issued ==
    /\ \A a \in verifying : expiresAt[a] # NotIssued
    /\ \A a \in Authorizations : admitted[a] > 0 => expiresAt[a] # NotIssued

\* What was admitted is on the list, or expired before not-before.
Remembered ==
    \A a \in Authorizations :
        admitted[a] > 0 =>
            /\ notBefore # Never
            /\ a \in used \/ expiresAt[a] < Seconds(notBefore)

Counted == IsFiniteSet(Admitted) /\ Paced

IInv == TypeOK /\ Issued /\ AdmittedOnce /\ Remembered

\* The initial state satisfies the invariant.
LEMMA InitIInv == Init => IInv /\ Counted
<1> SUFFICES ASSUME Init PROVE IInv /\ Counted
  OBVIOUS
<1>1. IInv
  <2>1. TypeOK
    BY DEF Init, TypeOK
  <2>2. \A a \in Authorizations : admitted[a] = 0
    BY DEF Init
  <2>3. verifying = {}
    BY DEF Init
  <2> QED
    BY <2>1, <2>2, <2>3 DEF IInv, Issued, AdmittedOnce, Remembered
<1>2. Admitted = {}
  BY DEF Init, Admitted
<1>3. IsFiniteSet(Admitted)
  BY <1>2, FS_EmptySet
<1>4. Paced
  BY DEF Init, Paced
<1> QED
  BY <1>1, <1>3, <1>4 DEF Counted

\* What an admission knows: the authorization was never admitted before.
LEMMA AdmitsUnused ==
    ASSUME IInv, NEW a \in verifying, Admit(a)
    PROVE  /\ a \in Authorizations
           /\ admitted[a] = 0
           /\ notBefore # Never => notBefore \in Nat /\ notBefore <= now
<1>1. a \in Authorizations /\ now \in Nat /\ expiresAt[a] \in Nat /\ admitted[a] \in Nat
  BY DEF IInv, TypeOK, Issued, NotIssued
<1>2. notBefore # Never => notBefore \in Nat /\ notBefore <= now
  BY <1>1 DEF IInv, TypeOK, Admit, Throttled, Never
<1>3. Seconds(now) <= expiresAt[a]
  BY DEF Admit, Sound, Active
<1>4. ASSUME admitted[a] > 0 PROVE FALSE
  <2>1. notBefore # Never /\ (a \in used \/ expiresAt[a] < Seconds(notBefore))
    BY <1>1, <1>4 DEF IInv, Remembered
  <2>2. a \notin used
    BY <1>1, <1>3, <2>1, SecondsMonotone DEF Admit, Replayed, Unexpired
  <2>3. Seconds(notBefore) <= Seconds(now) /\ Seconds(notBefore) \in Nat /\ Seconds(now) \in Nat
    BY <1>1, <1>2, <2>1, SecondsMonotone
  <2> QED
    BY <1>1, <1>3, <2>1, <2>2, <2>3
<1> QED
  BY <1>1, <1>2, <1>4

\* Pruning by a clock that the new not-before has reached forgets nothing that
\* could still be admitted.
LEMMA PruningRemembers ==
    ASSUME IInv, NEW b \in Authorizations, admitted[b] > 0,
           NEW next \in Nat, now <= next, notBefore <= next
    PROVE  b \in Unexpired \/ expiresAt[b] < Seconds(next)
<1>1. now \in Nat /\ notBefore \in Nat /\ expiresAt[b] \in Nat
  BY DEF IInv, TypeOK, Issued, Remembered, NotIssued, Never
<1>2. Seconds(now) <= Seconds(next) /\ Seconds(now) \in Nat /\ Seconds(next) \in Nat
  BY <1>1, SecondsMonotone
<1>3. Seconds(notBefore) <= Seconds(next) /\ Seconds(notBefore) \in Nat
  BY <1>1, SecondsMonotone
<1>4. b \in used \/ expiresAt[b] < Seconds(notBefore)
  BY DEF IInv, Remembered
<1> QED
  BY <1>1, <1>2, <1>3, <1>4 DEF Unexpired

\* A throttled request uses nothing up.
LEMMA ThrottleKeeps ==
    ASSUME IInv, NEW a \in verifying, Throttle(a), Commit(a)
    PROVE  IInv'
<1>1. /\ UNCHANGED <<notBefore, admitted, now, key, expiresAt>>
      /\ used' = Unexpired
      /\ verifying' \subseteq verifying
  BY DEF Throttle, Commit
<1>2. now \in Nat /\ notBefore \in Nat /\ now <= notBefore
  BY DEF IInv, TypeOK, Throttle, Throttled, Never
<1>3. TypeOK'
  BY <1>1 DEF IInv, TypeOK, Unexpired
<1>4. Issued'
  BY <1>1 DEF IInv, Issued
<1>5. AdmittedOnce'
  BY <1>1 DEF IInv, AdmittedOnce
<1>6. Remembered'
  <2> SUFFICES ASSUME NEW b \in Authorizations, admitted[b] > 0
               PROVE  notBefore # Never /\ (b \in Unexpired \/ expiresAt[b] < Seconds(notBefore))
    BY <1>1 DEF Remembered, Seconds
  <2> QED
    BY <1>2, PruningRemembers DEF Never
<1> QED
  BY <1>3, <1>4, <1>5, <1>6 DEF IInv

\* An admission uses its authorization up.
LEMMA AdmitKeeps ==
    ASSUME IInv, NEW a \in verifying, Admit(a), Commit(a)
    PROVE  IInv'
<1>1. /\ UNCHANGED <<now, key, expiresAt>>
      /\ notBefore' = now + Interval
      /\ used' = Unexpired \cup {a}
      /\ admitted' = [admitted EXCEPT ![a] = @ + 1]
      /\ verifying' \subseteq verifying
  BY DEF Admit, Commit, NotBefore
<1>2. /\ a \in Authorizations /\ admitted[a] = 0
      /\ notBefore # Never => notBefore \in Nat /\ notBefore <= now
  BY AdmitsUnused
<1>3. now \in Nat /\ Interval \in Nat /\ now + Interval \in Nat /\ expiresAt[a] # NotIssued
  BY IntervalAssumption DEF IInv, TypeOK, Issued
<1>4. admitted' \in [Authorizations -> Nat] /\ admitted'[a] = 1
  BY <1>1, <1>2 DEF IInv, TypeOK
<1>5. \A b \in Authorizations : b # a => admitted'[b] = admitted[b]
  BY <1>1 DEF IInv, TypeOK
<1>6. TypeOK'
  BY <1>1, <1>2, <1>3, <1>4 DEF IInv, TypeOK, Unexpired
<1>7. Issued'
  BY <1>1, <1>3, <1>5 DEF IInv, Issued
<1>8. AdmittedOnce'
  BY <1>2, <1>4, <1>5 DEF IInv, AdmittedOnce
<1>9. Remembered'
  <2> SUFFICES ASSUME NEW b \in Authorizations, admitted'[b] > 0
               PROVE  /\ now + Interval # Never
                      /\ b \in Unexpired \cup {a} \/ expiresAt[b] < Seconds(now + Interval)
    BY <1>1 DEF Remembered, Seconds
  <2>1. CASE b = a
    BY <2>1, <1>3 DEF Never
  <2>2. CASE b # a
    <3>1. admitted[b] > 0
      BY <2>2, <1>5
    <3>2. notBefore <= now + Interval
      BY <3>1, <1>2, <1>3 DEF IInv, Remembered
    <3> QED
      BY <3>1, <3>2, <1>3, PruningRemembers DEF Never
  <2> QED
    BY <2>1, <2>2
<1> QED
  BY <1>6, <1>7, <1>8, <1>9 DEF IInv

\* Every step keeps the invariant.
LEMMA NextIInv == IInv /\ [Next]_vars => IInv'
<1> SUFFICES ASSUME IInv, [Next]_vars PROVE IInv'
  OBVIOUS
<1> USE DEF IInv
<1>1. ASSUME NEW a \in Authorizations, NEW expiry \in 0..(MaxTime + Lifetime), IssueReceipt(a, expiry)
      PROVE IInv'
  <2>1. TypeOK'
    BY <1>1, LifetimeAssumption DEF TypeOK, IssueReceipt
  <2>2. \A b \in Authorizations : expiresAt[b] # NotIssued => expiresAt'[b] = expiresAt[b]
    BY <1>1 DEF TypeOK, IssueReceipt
  <2>3. Issued'
    BY <1>1, <2>2 DEF TypeOK, IssueReceipt, Issued
  <2>4. AdmittedOnce'
    BY <1>1 DEF IssueReceipt, AdmittedOnce
  <2>5. Remembered'
    BY <1>1, <2>2 DEF IssueReceipt, Remembered, Issued, Seconds
  <2> QED
    BY <2>1, <2>3, <2>4, <2>5
<1>2. ASSUME NEW a \in Authorizations, Verify(a) PROVE IInv'
  BY <1>2 DEF Verify, TypeOK, Issued, AdmittedOnce, Remembered, Seconds
<1>3. ASSUME NEW a \in Authorizations, Commit(a) PROVE IInv'
  <2>1. a \in verifying
    BY <1>3 DEF Commit
  <2>2. CASE Throttle(a)
    BY <1>3, <2>1, <2>2, ThrottleKeeps
  <2>3. CASE Admit(a)
    BY <1>3, <2>1, <2>3, AdmitKeeps
  <2>4. CASE Refuse(a)
    BY <1>3, <2>4 DEF Commit, Refuse, TypeOK, Issued, AdmittedOnce, Remembered, Seconds
  <2> QED
    BY <1>3, <2>2, <2>3, <2>4 DEF Commit
<1>4. ASSUME NEW time \in 0..MaxTime, SetClock(time) PROVE IInv'
  BY <1>4, LifetimeAssumption DEF SetClock, TypeOK, Issued, AdmittedOnce, Remembered, Seconds
<1>5. CASE Restart
  BY <1>5 DEF Restart, TypeOK, Issued, AdmittedOnce, Remembered, Seconds
<1>6. CASE UNCHANGED vars
  BY <1>6 DEF vars, TypeOK, Issued, AdmittedOnce, Remembered, Seconds
<1> QED
  BY <1>1, <1>2, <1>3, <1>4, <1>5, <1>6 DEF Next

-----------------------------------------------------------------------------
(* Counting admissions *)

\* Every step keeps the count behind not-before.
LEMMA NextCounted == IInv /\ Counted /\ [Next]_vars => Counted'
<1> SUFFICES ASSUME IInv, Counted, [Next]_vars PROVE Counted'
  OBVIOUS
<1>1. CASE UNCHANGED <<admitted, notBefore>>
  BY <1>1 DEF Counted, Paced, Admitted
<1>2. ASSUME NEW a \in verifying, Admit(a) PROVE Counted'
  <2>1. /\ notBefore' = now + Interval
        /\ admitted' = [admitted EXCEPT ![a] = @ + 1]
    BY <1>2 DEF Admit, NotBefore
  <2>2. /\ a \in Authorizations /\ admitted[a] = 0
        /\ notBefore # Never => notBefore \in Nat /\ notBefore <= now
    BY <1>2, AdmitsUnused
  <2>3. Admitted' = Admitted \cup {a} /\ a \notin Admitted
    BY <2>1, <2>2 DEF Admitted, IInv, TypeOK
  <2>4. IsFiniteSet(Admitted') /\ Cardinality(Admitted') = Cardinality(Admitted) + 1
    BY <2>3, FS_AddElement DEF Counted
  <2>5. Cardinality(Admitted) \in Nat /\ now \in Nat /\ Interval \in Nat
    BY FS_CardinalityType, IntervalAssumption DEF Counted, IInv, TypeOK
  <2>6. Cardinality(Admitted) * Interval <= now
    <3>1. CASE notBefore = Never
      <4>1. Admitted = {}
        BY <3>1 DEF Admitted, IInv, Remembered
      <4> QED
        BY <4>1, <2>5, FS_EmptySet
    <3>2. CASE notBefore # Never
      <4>1. Cardinality(Admitted) * Interval \in Nat
        BY <2>5
      <4> QED
        BY <3>2, <4>1, <2>2, <2>5 DEF Counted, Paced
    <3> QED
      BY <3>1, <3>2
  <2>7. Paced'
    BY <2>1, <2>4, <2>5, <2>6, OneMoreInterval DEF Paced
  <2> QED
    BY <2>4, <2>7 DEF Counted
<1> QED
  BY <1>1, <1>2 DEF Next, IssueReceipt, Verify, Commit, Throttle, Refuse, Restart, SetClock, vars

\* The invariant and the count hold in every state.
LEMMA Invariance == Spec => [](IInv /\ Counted)
<1>1. (IInv /\ Counted) /\ [Next]_vars => (IInv /\ Counted)'
  BY NextIInv, NextCounted
<1> QED
  BY <1>1, InitIInv, PTL DEF Spec

-----------------------------------------------------------------------------
(* Room on the list *)

\* The entries that expire in the second e or later.
ExpiringFrom(e) == {a \in used : expiresAt[a] >= e}

\* The earliest clock by which a challenge that expires in the second e is good.
GoodFrom(e) == (e - Lifetime - Skew) * Unit

\* Every entry was issued and its challenge was good before not-before; those
\* that expire from e on were admitted an interval apart, after GoodFrom(e).
Roomy ==
    /\ IsFiniteSet(used) /\ Cardinality(used) <= MaxUsed
    /\ \A a \in used : /\ notBefore # Never
                       /\ expiresAt[a] # NotIssued
                       /\ expiresAt[a] <= Seconds(notBefore) + Lifetime + Skew
    /\ \A e \in Nat :
         ExpiringFrom(e) = {} \/ Cardinality(ExpiringFrom(e)) * Interval <= notBefore - GoodFrom(e)

\* A clock is at most its seconds' unit ahead of them.
LEMMA SecondsBracket ==
    ASSUME NEW x \in Nat
    PROVE  /\ Seconds(x) \in Nat
           /\ Seconds(x) * Unit <= x
           /\ x <= Seconds(x) * Unit + Unit - 1
<1>1. Unit \in Nat /\ Unit > 0
  BY UnitAssumption
<1>2. x \div Unit \in Nat
  BY <1>1
<1>3. x = Unit * (x \div Unit) + (x % Unit) /\ x % Unit \in 0..(Unit - 1)
  BY <1>1
<1>4. PICK d \in Nat : d = x \div Unit
  BY <1>2
<1>5. Unit * d = d * Unit /\ d * Unit \in Nat
  BY <1>1, <1>4
<1> QED
  BY <1>1, <1>3, <1>4, <1>5 DEF Seconds

\* The computed size has room for every window of admissions.
LEMMA SizeEnough ==
    ASSUME NEW n \in Nat, n * Interval <= (Lifetime + Skew + 1) * Unit - 1
    PROVE  n < MaxUsed /\ MaxUsed \in Nat
<1>1. Unit \in Nat /\ Interval \in Nat /\ Interval > 0 /\ Lifetime \in Nat /\ Skew \in Nat
  BY UnitAssumption, IntervalAssumption, LifetimeAssumption
<1>2. PICK w \in Nat : w = (Lifetime + Skew + 1) * Unit
  BY <1>1
<1>3. PICK d \in Nat : d = (w + Interval - 1) \div Interval
  BY <1>1
<1>4. w + Interval - 1 < d * Interval + Interval
  <2>1. w + Interval - 1 \in Nat
    BY <1>1
  <2>2. PICK r \in 0..(Interval - 1) : w + Interval - 1 = Interval * d + r
    BY <2>1, <1>1, <1>3
  <2>3. Interval * d = d * Interval /\ d * Interval \in Nat
    BY <1>1
  <2> QED
    BY <2>2, <2>3, <1>1
<1>5. ASSUME n >= d + 1 PROVE FALSE
  <2>1. n * Interval >= (d + 1) * Interval
    BY <1>1, <1>5
  <2>2. (d + 1) * Interval = d * Interval + Interval /\ d * Interval \in Nat /\ n * Interval \in Nat
    BY <1>1
  <2> QED
    BY <1>1, <1>2, <1>4, <2>1, <2>2
<1>6. MaxUsed = d + 1
  BY <1>2, <1>3 DEF MaxUsed
<1> QED
  BY <1>5, <1>6

LEMMA SubsetCount ==
    ASSUME NEW S, IsFiniteSet(S), NEW T \in SUBSET S
    PROVE  /\ IsFiniteSet(T) /\ Cardinality(T) \in Nat /\ Cardinality(S) \in Nat
           /\ Cardinality(T) <= Cardinality(S)
  BY FS_Subset, FS_CardinalityType

\* Forgetting entries keeps the room.
LEMMA PruningKeepsRoom ==
    ASSUME TypeOK, Roomy, UNCHANGED <<notBefore, expiresAt>>, used' \subseteq used
    PROVE  Roomy'
<1>1. IsFiniteSet(used') /\ Cardinality(used') <= MaxUsed
  <2>1. MaxUsed \in Int
    <3>1. Cardinality({}) = 0 /\ Lifetime + Skew + 1 \in Nat /\ Lifetime + Skew + 1 > 0 /\ Unit \in Nat /\ Unit > 0
      BY UnitAssumption, LifetimeAssumption, FS_EmptySet
    <3>2. 0 * Interval <= (Lifetime + Skew + 1) * Unit - 1
      BY <3>1, IntervalAssumption
    <3> QED
      BY <3>2, SizeEnough
  <2> QED
    BY <2>1, SubsetCount DEF Roomy
<1>2. ASSUME NEW e \in Nat
      PROVE  ExpiringFrom(e)' = {} \/ Cardinality(ExpiringFrom(e)') * Interval <= notBefore - GoodFrom(e)
  <2>1. ExpiringFrom(e)' \subseteq ExpiringFrom(e) /\ ExpiringFrom(e) \subseteq used
    BY DEF ExpiringFrom
  <2>2. CASE ExpiringFrom(e) = {}
    BY <2>1, <2>2
  <2>3. CASE ExpiringFrom(e) # {}
    <3>1. PICK m \in Nat : m = Cardinality(ExpiringFrom(e))
      BY <2>1, SubsetCount DEF Roomy
    <3>2. PICK n \in Nat : n = Cardinality(ExpiringFrom(e)')
      BY <2>1, SubsetCount DEF Roomy
    <3>3. n <= m
      BY <2>1, <3>1, <3>2, SubsetCount DEF Roomy
    <3>4. m * Interval <= notBefore - GoodFrom(e)
      BY <2>3, <3>1 DEF Roomy
    <3>5. n * Interval <= m * Interval
      BY <3>3, IntervalAssumption
    <3>6. GoodFrom(e) \in Int /\ notBefore \in Int /\ n * Interval \in Int /\ m * Interval \in Int
      BY IntervalAssumption, UnitAssumption, LifetimeAssumption DEF GoodFrom, TypeOK, Never
    <3> QED
      BY <3>2, <3>4, <3>5, <3>6
  <2> QED
    BY <2>2, <2>3
<1> QED
  BY <1>1, <1>2 DEF Roomy, Seconds, GoodFrom

\* An admission waits for not-before, so it takes one more place and one more
\* interval.
LEMMA AdmitKeepsRoom ==
    ASSUME IInv, Roomy, NEW a \in verifying, Admit(a), Commit(a)
    PROVE  Roomy'
<1>1. /\ notBefore' = now + Interval
      /\ used' = Unexpired \cup {a}
      /\ expiresAt' = expiresAt
      /\ ~(Cardinality(Unexpired) >= MaxUsed)
      /\ expiresAt[a] - Lifetime <= Seconds(now) + Skew
  BY DEF Admit, Commit, NotBefore, Full, Sound, Active
<1>2. /\ a \in Authorizations /\ expiresAt[a] \in Nat /\ now \in Nat
      /\ notBefore # Never => notBefore \in Nat /\ notBefore <= now
  BY AdmitsUnused DEF IInv, TypeOK, Issued, NotIssued
<1>3. Unit \in Nat /\ Unit > 0 /\ Interval \in Nat /\ Interval > 0 /\ Lifetime \in Nat /\ Skew \in Nat
  BY UnitAssumption, IntervalAssumption, LifetimeAssumption
<1>4. Unexpired \subseteq used /\ IsFiniteSet(Unexpired) /\ Cardinality(Unexpired) \in Nat
  BY SubsetCount DEF Unexpired, Roomy
<1>5. MaxUsed \in Nat
  <2>1. 0 * Interval <= (Lifetime + Skew + 1) * Unit - 1
    <3>1. Lifetime + Skew + 1 \in Nat /\ Lifetime + Skew + 1 > 0
      BY <1>3
    <3> QED
      BY <1>3, <3>1
  <2> QED
    BY <2>1, SizeEnough
<1>6. IsFiniteSet(used') /\ Cardinality(used') <= MaxUsed
  <2>1. IsFiniteSet(used') /\ (Cardinality(used') = Cardinality(Unexpired) \/ Cardinality(used') = Cardinality(Unexpired) + 1)
    BY <1>1, <1>4, FS_AddElement
  <2> QED
    BY <1>1, <1>4, <1>5, <2>1
<1>7. ASSUME NEW b \in used'
      PROVE  /\ notBefore' # Never
             /\ expiresAt'[b] # NotIssued
             /\ expiresAt'[b] <= Seconds(notBefore') + Lifetime + Skew
  <2>1. Seconds(now) <= Seconds(now + Interval) /\ Seconds(now) \in Nat /\ Seconds(now + Interval) \in Nat
    BY <1>2, <1>3, SecondsMonotone
  <2>2. now + Interval # Never
    BY <1>2, <1>3 DEF Never
  <2>3. CASE b = a
    BY <1>1, <1>2, <1>3, <2>1, <2>2, <2>3 DEF NotIssued, Seconds
  <2>4. CASE b # a
    <3>1. b \in used
      BY <1>1, <1>4, <2>4
    <3>2. /\ notBefore # Never /\ expiresAt[b] # NotIssued
          /\ expiresAt[b] <= Seconds(notBefore) + Lifetime + Skew
      BY <3>1 DEF Roomy
    <3>3. b \in Authorizations /\ expiresAt[b] \in Nat
      BY <3>1, <3>2 DEF IInv, TypeOK, NotIssued
    <3>4. Seconds(notBefore) <= Seconds(now + Interval) /\ Seconds(notBefore) \in Nat
      BY <1>2, <1>3, <3>2, SecondsMonotone
    <3>5. expiresAt[b] <= Seconds(now + Interval) + Lifetime + Skew
      BY <1>3, <2>1, <3>2, <3>3, <3>4
    <3> QED
      BY <1>1, <2>2, <3>2, <3>5 DEF Seconds
  <2> QED
    BY <2>3, <2>4
<1>8. ASSUME NEW e \in Nat
      PROVE  \/ ExpiringFrom(e)' = {}
             \/ Cardinality(ExpiringFrom(e)') * Interval <= (now + Interval) - GoodFrom(e)
  <2>1. PICK good \in Int : good = GoodFrom(e)
    BY <1>3 DEF GoodFrom
  <2>2. PICK Old : Old = ExpiringFrom(e)
    OBVIOUS
  <2>3. PICK New : New = ExpiringFrom(e)'
    OBVIOUS
  <2>4. /\ New \subseteq Old \cup {a} /\ Old \subseteq used
        /\ a \in New => expiresAt[a] >= e
    BY <1>1, <1>4, <2>2, <2>3 DEF ExpiringFrom
  <2>5. IsFiniteSet(Old) /\ IsFiniteSet(Old \cup {a}) /\ Cardinality(Old) \in Nat
    BY <2>4, SubsetCount, FS_AddElement DEF Roomy
  <2>6. PICK n \in Nat : n = Cardinality(New)
    BY <2>4, <2>5, SubsetCount
  <2>7. PICK m \in Nat : m = Cardinality(Old)
    BY <2>5
  <2>8. Old # {} => m * Interval <= now - good
    <3>1. ASSUME Old # {} PROVE m * Interval <= now - good
      <4>1. m * Interval <= notBefore - good
        BY <2>1, <2>2, <2>7, <3>1 DEF Roomy
      <4>2. notBefore # Never
        BY <2>4, <3>1 DEF Roomy
      <4>3. m * Interval \in Nat
        BY <1>3
      <4> QED
        BY <1>2, <2>1, <4>1, <4>2, <4>3
    <3> QED
      BY <3>1
  <2>9. CASE a \notin New
    <3>1. CASE Old = {}
      BY <2>3, <2>4, <2>9, <3>1
    <3>2. CASE Old # {}
      <4>1. New \subseteq Old
        BY <2>4, <2>9
      <4>2. n <= m
        BY <2>5, <2>6, <2>7, <4>1, SubsetCount
      <4>3. n * Interval <= m * Interval /\ n * Interval \in Nat /\ m * Interval \in Nat
        BY <1>3, <4>2
      <4>4. n * Interval <= (now + Interval) - good
        BY <1>2, <1>3, <2>1, <2>8, <3>2, <4>3
      <4> QED
        BY <2>1, <2>3, <2>6, <4>4
    <3> QED
      BY <3>1, <3>2
  <2>10. CASE a \in New
    <3>1. n <= m + 1
      <4>1. Cardinality(Old \cup {a}) <= m + 1 /\ Cardinality(Old \cup {a}) \in Nat
        BY <2>5, <2>7, FS_AddElement, FS_CardinalityType
      <4>2. n <= Cardinality(Old \cup {a})
        BY <2>4, <2>5, <2>6, SubsetCount
      <4> QED
        BY <4>1, <4>2
    <3>2. good <= now
      <4>1. Seconds(now) \in Nat /\ Seconds(now) * Unit <= now
        BY <1>2, SecondsBracket
      <4>2. e - Lifetime - Skew <= Seconds(now)
        BY <1>1, <1>2, <1>3, <2>4, <2>10, <4>1
      <4>3. PICK x \in Int : x = e - Lifetime - Skew
        BY <1>3
      <4>4. PICK y \in Nat : y = Seconds(now)
        BY <4>1
      <4>5. x * Unit <= y * Unit
        BY <1>3, <4>2, <4>3, <4>4
      <4>6. good = x * Unit
        BY <2>1, <4>3 DEF GoodFrom
      <4>7. x * Unit \in Int /\ y * Unit \in Int
        BY <1>3
      <4> QED
        BY <1>2, <4>1, <4>4, <4>5, <4>6, <4>7
    <3>3. m * Interval <= now - good
      <4>1. Old = {} => m = 0
        BY <2>7, FS_EmptySet
      <4>2. 0 * Interval = 0
        BY <1>3
      <4> QED
        BY <1>2, <2>1, <2>8, <3>2, <4>1, <4>2
    <3>4. n * Interval <= m * Interval + Interval
      <4>1. n * Interval <= (m + 1) * Interval
        BY <1>3, <3>1
      <4> QED
        BY <1>3, <4>1
    <3>5. n * Interval \in Nat /\ m * Interval \in Nat
      BY <1>3
    <3> QED
      BY <1>2, <1>3, <2>1, <2>3, <2>6, <3>3, <3>4, <3>5
  <2> QED
    BY <2>9, <2>10
<1> QED
  BY <1>1, <1>6, <1>7, <1>8 DEF Roomy, GoodFrom

LEMMA NextRoomy == IInv /\ Roomy /\ [Next]_vars => Roomy'
<1> SUFFICES ASSUME IInv, Roomy, [Next]_vars PROVE Roomy'
  OBVIOUS
<1>1. ASSUME NEW a \in Authorizations, NEW expiry \in 0..(MaxTime + Lifetime), IssueReceipt(a, expiry)
      PROVE Roomy'
  <2>1. UNCHANGED <<notBefore, used>>
    BY <1>1 DEF IssueReceipt
  <2>2. \A b \in used : expiresAt'[b] = expiresAt[b]
    BY <1>1 DEF IssueReceipt, IInv, TypeOK, Roomy
  <2>3. ASSUME NEW e \in Nat PROVE ExpiringFrom(e)' = ExpiringFrom(e)
    BY <2>1, <2>2 DEF ExpiringFrom
  <2> QED
    BY <2>1, <2>2, <2>3 DEF Roomy, GoodFrom, Seconds
<1>2. ASSUME NEW a \in Authorizations, Commit(a) PROVE Roomy'
  <2>1. a \in verifying /\ expiresAt' = expiresAt
    BY <1>2 DEF Commit
  <2>2. CASE Throttle(a)
    BY <2>1, <2>2, PruningKeepsRoom DEF Throttle, Unexpired, IInv
  <2>3. CASE Admit(a)
    BY <1>2, <2>1, <2>3, AdmitKeepsRoom
  <2>4. CASE Refuse(a)
    BY <2>1, <2>4, PruningKeepsRoom DEF Refuse, IInv
  <2> QED
    BY <1>2, <2>2, <2>3, <2>4 DEF Commit
<1>3. CASE UNCHANGED <<used, notBefore, expiresAt>>
  BY <1>3, PruningKeepsRoom DEF IInv
<1> QED
  BY <1>1, <1>2, <1>3 DEF Next, Verify, Restart, SetClock, vars

LEMMA InitRoomy == Init => Roomy
<1> SUFFICES ASSUME Init PROVE Roomy
  OBVIOUS
<1>1. used = {}
  BY DEF Init
<1>2. 0 * Interval <= (Lifetime + Skew + 1) * Unit - 1
  <2>1. Lifetime + Skew + 1 \in Nat /\ Lifetime + Skew + 1 > 0 /\ Unit \in Nat /\ Unit > 0 /\ Interval \in Nat
    BY UnitAssumption, LifetimeAssumption, IntervalAssumption
  <2> QED
    BY <2>1
<1>3. 0 < MaxUsed
  BY <1>2, SizeEnough
<1> QED
  BY <1>1, <1>2, <1>3, SizeEnough, FS_EmptySet DEF Roomy, ExpiringFrom

\* Whenever an admission is due there is a place for it.
LEMMA RoomyIsEnough ==
    ASSUME IInv, Roomy, notBefore # Never, now >= notBefore
    PROVE  RoomEnough
<1>1. now \in Nat /\ notBefore \in Nat
  BY DEF IInv, TypeOK
<1>2. Unit \in Nat /\ Unit > 0 /\ Interval \in Nat /\ Interval > 0 /\ Lifetime \in Nat /\ Skew \in Nat
  BY UnitAssumption, IntervalAssumption, LifetimeAssumption
<1>3. PICK s \in Nat : s = Seconds(now)
  BY <1>1, SecondsBracket
<1>4. s * Unit \in Nat /\ now <= s * Unit + Unit - 1
  BY <1>1, <1>2, <1>3, SecondsBracket
<1>5. Unexpired = ExpiringFrom(s) /\ Unexpired \subseteq used
  BY <1>3 DEF Unexpired, ExpiringFrom
<1>6. PICK n \in Nat : n = Cardinality(Unexpired)
  BY <1>5, SubsetCount DEF Roomy
<1>7. n * Interval <= (Lifetime + Skew + 1) * Unit - 1
  <2>1. PICK x \in Nat : x = (Lifetime + Skew) * Unit
    BY <1>2
  <2>2. (Lifetime + Skew + 1) * Unit = x + Unit /\ GoodFrom(s) = s * Unit - x
    BY <1>2, <2>1 DEF GoodFrom
  <2>3. CASE ExpiringFrom(s) = {}
    <3>1. n = 0 /\ 0 * Interval = 0
      BY <1>2, <1>5, <1>6, <2>3, FS_EmptySet
    <3> QED
      BY <1>2, <2>1, <2>2, <3>1
  <2>4. CASE ExpiringFrom(s) # {}
    <3>1. n * Interval <= notBefore - GoodFrom(s)
      BY <1>5, <1>6, <2>4 DEF Roomy
    <3>2. n * Interval \in Nat
      BY <1>2
    <3> QED
      BY <1>1, <1>2, <1>4, <2>1, <2>2, <3>1, <3>2
  <2> QED
    BY <2>3, <2>4
<1>8. n < MaxUsed
  BY <1>7, SizeEnough
<1>9. EntriesPlausible
  <2> SUFFICES ASSUME NEW a \in used PROVE expiresAt[a] <= Seconds(now) + Lifetime + Skew + 1
    BY DEF EntriesPlausible
  <2>1. expiresAt[a] \in Nat /\ expiresAt[a] <= Seconds(notBefore) + Lifetime + Skew
    BY DEF Roomy, IInv, TypeOK, NotIssued
  <2>2. Seconds(notBefore) <= Seconds(now) /\ Seconds(notBefore) \in Nat
    BY <1>1, SecondsMonotone
  <2> QED
    BY <1>2, <1>3, <2>1, <2>2
<1> QED
  BY <1>6, <1>8, <1>9 DEF RoomEnough, Roomy

LEMMA RoomInvariance == Spec => [](IInv /\ Roomy)
<1>1. Init => IInv /\ Roomy
  BY InitIInv, InitRoomy
<1>2. (IInv /\ Roomy) /\ [Next]_vars => (IInv /\ Roomy)'
  BY NextIInv, NextRoomy
<1> QED
  BY <1>1, <1>2, PTL DEF Spec

-----------------------------------------------------------------------------
(* The coordinator *)

\* What each request has come to, the reads made for it and the initialization
\* it waits for agree.
Riders ==
    /\ reads \in [Authorizations -> Nat]
    /\ request \in [Authorizations -> {"none", "riding", "calling", "answered", "failed"}]
    /\ service \in {Absent, Ready} \cup {Starting(by) : by \in Authorizations \cup {Nobody}}
    /\ \A a \in Authorizations :
         /\ request[a] = "none" => admitted[a] = 0 /\ reads[a] = 0
         /\ request[a] # "none" => admitted[a] > 0
         /\ request[a] = "riding" =>
              service.at = "starting" /\ reads[a] = IF service.by = a THEN 1 ELSE 0
         /\ request[a] = "calling" => reads[a] = 0
         /\ request[a] = "answered" => reads[a] = 1
         /\ reads[a] <= 1
         /\ service = Starting(a) => request[a] = "riding"

\* The coordinator takes only steps of the admission.
LEMMA CoordinatorSteps == [CoordinatorNext]_coordinator => [Next]_vars
<1> SUFFICES ASSUME [CoordinatorNext]_coordinator PROVE [Next]_vars
  OBVIOUS
<1>1. ASSUME NEW a \in Authorizations, NEW expiry \in 0..(MaxTime + Lifetime), Challenge(a, expiry) PROVE Next
  BY <1>1 DEF Challenge, Next
<1>2. ASSUME NEW a \in Authorizations, Verify(a) \/ Execute(a) PROVE Next
  BY <1>2 DEF Execute, Next
<1>3. ASSUME NEW time \in 0..MaxTime, SetClock(time) PROVE Next
  BY <1>3 DEF Next
<1>4. CASE Move
  BY <1>4 DEF Move, Next
<1>5. CASE UNCHANGED vars
  BY <1>5
<1> QED
  BY <1>1, <1>2, <1>3, <1>4, <1>5 DEF CoordinatorNext, Read, Visit, Initialized, InitializationFails, coordinator, vars

LEMMA InitRiders == CoordinatorInit => Riders
  BY DEF CoordinatorInit, Init, Riders, Absent, Starting

LEMMA NextRiders == IInv /\ Riders /\ [CoordinatorNext]_coordinator => Riders'
<1> SUFFICES ASSUME IInv, Riders, [CoordinatorNext]_coordinator PROVE Riders'
  OBVIOUS
<1> USE DEF Riders
<1>1. ASSUME NEW a \in Authorizations, Execute(a) PROVE Riders'
  <2>1. a \in verifying
    BY <1>1 DEF Execute, Commit
  <2>2. CASE Admit(a) /\ admitted' # admitted
    <3>1. admitted[a] = 0 /\ admitted' = [admitted EXCEPT ![a] = @ + 1] /\ admitted \in [Authorizations -> Nat]
      BY <2>1, <2>2, AdmitsUnused DEF Admit, IInv, TypeOK
    <3>2. Proceed(a)
      BY <1>1, <2>2 DEF Execute
    <3>3. request[a] = "none" /\ reads[a] = 0
      BY <3>1
    <3>4. admitted'[a] = 1 /\ \A b \in Authorizations : b # a => admitted'[b] = admitted[b]
      BY <3>1
    <3>5. \A b \in Authorizations : b # a => request'[b] = request[b] /\ reads'[b] = reads[b]
      BY <3>2 DEF Proceed
    <3>6. CASE service = Absent
      BY <3>2, <3>3, <3>4, <3>5, <3>6 DEF Proceed, Absent, Ready, Starting
    <3>7. CASE service = Ready
      BY <3>2, <3>3, <3>4, <3>5, <3>7 DEF Proceed, Absent, Ready, Starting
    <3>8. CASE \E by \in Authorizations \cup {Nobody} : service = Starting(by)
      <4>1. PICK by \in Authorizations \cup {Nobody} : service = Starting(by)
        BY <3>8
      <4>2. service # Absent /\ service # Ready
        BY <4>1 DEF Starting, Absent, Ready
      <4>3. service' = service /\ reads' = reads /\ request' = [request EXCEPT ![a] = "riding"]
        BY <3>2, <4>2 DEF Proceed
      <4>4. service.at = "starting" /\ service.by = by
        BY <4>1 DEF Starting
      <4>5. by # a
        BY <3>3, <4>1
      <4> QED
        BY <3>3, <3>4, <3>5, <4>1, <4>3, <4>4, <4>5
    <3> QED
      BY <3>6, <3>7, <3>8
  <2>3. CASE admitted' = admitted
    BY <1>1, <2>3 DEF Execute, runtime
  <2> QED
    BY <1>1, <2>2, <2>3 DEF Execute, Commit, Throttle, Refuse
<1>2. ASSUME NEW a \in Authorizations, NEW outcome \in {"answered", "failed"}, Read(a, outcome) PROVE Riders'
  BY <1>2 DEF Read, vars, Starting
<1>3. CASE Visit
  BY <1>3, NobodyAssumption DEF Visit, vars, Absent, Starting
<1>4. CASE Initialized
  BY <1>4 DEF Initialized, vars, Riding, Ready, Absent, Starting
<1>5. CASE InitializationFails
  BY <1>5 DEF InitializationFails, vars, Riding, Ready, Absent, Starting
<1>6. CASE Move
  BY <1>6 DEF Move, Restart, Absent, Starting
<1>7. CASE UNCHANGED <<admitted, runtime>>
  BY <1>7 DEF runtime
<1> QED
  BY <1>1, <1>2, <1>3, <1>4, <1>5, <1>6, <1>7
     DEF CoordinatorNext, Challenge, IssueReceipt, Verify, SetClock, coordinator, vars

LEMMA ReadInvariance == CoordinatorSpec => [](IInv /\ Counted /\ Roomy /\ Riders)
<1>1. CoordinatorInit => IInv /\ Counted /\ Roomy /\ Riders
  BY InitIInv, InitRoomy, InitRiders DEF CoordinatorInit
<1>2. (IInv /\ Counted /\ Roomy /\ Riders) /\ [CoordinatorNext]_coordinator
        => (IInv /\ Counted /\ Roomy /\ Riders)'
  BY CoordinatorSteps, NextIInv, NextCounted, NextRoomy, NextRiders
<1> QED
  BY <1>1, <1>2, PTL DEF CoordinatorSpec

\* Every read was made for an admission of its own.
LEMMA ReadsAdmitted ==
    ASSUME IInv, Counted, Riders
    PROVE  ReadsPaced
<1>1. ReadsMade \subseteq Admitted \X {1}
  BY DEF ReadsMade, Riders, Admitted, IInv, TypeOK
<1>2. /\ IsFiniteSet(Admitted \X {1}) /\ Cardinality(Admitted \X {1}) = Cardinality(Admitted)
      /\ Cardinality(Admitted) \in Nat
  <2>1. IsFiniteSet({1}) /\ Cardinality({1}) = 1 /\ Cardinality(Admitted) \in Nat
    BY FS_Singleton, FS_CardinalityType DEF Counted
  <2>2. /\ IsFiniteSet(Admitted \X {1})
        /\ Cardinality(Admitted \X {1}) = Cardinality(Admitted) * Cardinality({1})
    BY <2>1, FS_Product DEF Counted
  <2> QED
    BY <2>1, <2>2
<1>3. PICK n \in Nat : n = Cardinality(ReadsMade)
  BY <1>1, <1>2, SubsetCount
<1>4. PICK m \in Nat : m = Cardinality(Admitted)
  BY <1>2
<1>5. n <= m
  BY <1>1, <1>2, <1>3, <1>4, SubsetCount
<1>6. Interval \in Nat
  BY IntervalAssumption
<1>7. n * Interval <= m * Interval /\ n * Interval \in Nat /\ m * Interval \in Nat
  BY <1>5, <1>6
<1>8. CASE notBefore = Never
  <2>1. Admitted = {}
    BY <1>8 DEF Admitted, IInv, Remembered
  <2>2. n = 0 /\ 0 * Interval = 0
    BY <1>4, <1>5, <1>6, <2>1, FS_EmptySet
  <2> QED
    BY <1>3, <1>8, <2>2 DEF ReadsPaced
<1>9. CASE notBefore # Never
  <2>1. notBefore \in Nat /\ m * Interval <= notBefore
    BY <1>4, <1>9 DEF IInv, TypeOK, Counted, Paced
  <2> QED
    BY <1>3, <1>7, <1>9, <2>1 DEF ReadsPaced
<1> QED
  BY <1>8, <1>9

-----------------------------------------------------------------------------
(* Theorems *)

\* The admission's state keeps its type.
THEOREM TypeCorrect == Spec => []TypeOK
<1>1. IInv /\ Counted => TypeOK
  BY DEF IInv
<1> QED
  BY <1>1, Invariance, PTL

\* No authorization is admitted twice (commitAdmission's replay list).
THEOREM AdmittedAtMostOnce == Spec => []AdmittedOnce
<1>1. IInv /\ Counted => AdmittedOnce
  BY DEF IInv
<1> QED
  BY <1>1, Invariance, PTL

\* n admissions take n intervals of the clock (commitAdmission's not-before).
THEOREM AdmissionsPaced == Spec => []Paced
<1>1. IInv /\ Counted => Paced
  BY DEF Counted
<1> QED
  BY <1>1, Invariance, PTL

\* The list of used authorizations has a place whenever an admission is due,
\* and never looks corrupt then (maximumUsedAuthorizations).
THEOREM RoomForAdmissions == Spec => []RoomEnough
<1>1. IInv /\ Roomy => RoomEnough
  BY RoomyIsEnough DEF RoomEnough
<1> QED
  BY <1>1, RoomInvariance, PTL

\* Who asked for a fresh configuration is answered with its own fresh read
\* (initializeService and execute of the coordinator).
THEOREM FreshReadsAreOwn == CoordinatorSpec => []OwnFreshRead
<1>1. Riders => OwnFreshRead
  BY DEF Riders, OwnFreshRead
<1> QED
  BY <1>1, ReadInvariance, PTL

\* n fresh reads of the campaign take n intervals of the clock, through every
\* shared, failed and repeated initialization.
THEOREM FreshReadsPaced == CoordinatorSpec => []ReadsPaced
<1>1. IInv /\ Counted /\ Riders => ReadsPaced
  BY ReadsAdmitted
<1> QED
  BY <1>1, ReadInvariance, PTL

-----------------------------------------------------------------------------
(* The observation cache *)

\* Every state in memory or storage bounds its snapshot by one lifetime.
Dated(state) ==
    state.snapshot # NoSnapshot => state.snapshot.expires = state.snapshot.checked + Ttl

AllDated == Dated(stored) /\ \A c \in Caches : Dated(memory[c])

\* A running flight holds a lease after time zero.
LeasesPositive == \A c \in Caches : flight[c].phase \in {"observing", "committing"} => flight[c].lease > 0

\* Every part of the inductive invariant.
ObserverInv == ObserverTypeOK /\ AllDated /\ LeasesPositive /\ BudgetHeld /\ AnswersFresh

LEMMA NoSnapshotType == NoSnapshot \in Snapshots
BY DEF NoSnapshot, Snapshots

LEMMA NoFlightType == NoFlight \in Flights
BY DEF NoFlight, Flights

LEMMA InitObserverInv == ObserverInit => ObserverInv
<1> SUFFICES ASSUME ObserverInit PROVE ObserverInv
  OBVIOUS
<1>1. ObserverTypeOK
  BY NoSnapshotType, NoFlightType DEF ObserverInit, ObserverTypeOK, Answers
<1>2. AllDated /\ AnswersFresh
  BY DEF ObserverInit, AllDated, Dated, NoState, AnswersFresh
<1>3. LeasesPositive
  BY DEF ObserverInit, LeasesPositive, NoFlight
<1>4. BudgetHeld
  BY TtlAssumption DEF ObserverInit, BudgetHeld, NoState
<1> QED
  BY <1>1, <1>2, <1>3, <1>4 DEF ObserverInv

\* What a cache reads from storage has the type and the dates of a state.
LEMMA CurrentState ==
    ASSUME ObserverInv, NEW c \in Caches
    PROVE  /\ Current(c) \in States
           /\ Dated(Current(c))
           /\ Current(c).next > 0 => Current(c) = stored /\ stored # NoState /\ stored.identity = identity[c]
<1>1. CASE stored # NoState /\ stored.identity = identity[c]
  BY <1>1 DEF ObserverInv, ObserverTypeOK, AllDated, Current
<1>2. CASE ~(stored # NoState /\ stored.identity = identity[c])
  <2>1. Current(c) = [identity |-> identity[c], next |-> 0, snapshot |-> NoSnapshot]
    BY <1>2 DEF Current
  <2>2. identity[c] \in Identities
    BY DEF ObserverInv, ObserverTypeOK
  <2> QED
    BY <2>1, <2>2, NoSnapshotType DEF States, Dated
<1> QED
  BY <1>1, <1>2

\* A decided answer is in date.
LEMMA FreshAnswer ==
    ASSUME clock \in Nat, NEW state, state.snapshot \in Snapshots, Dated(state),
           \/ Fresh(state) /\ Answer(state.snapshot)
           \/ ~Fresh(state) /\ Unavailable
    PROVE  AnswersFresh' /\ answered' \in Answers
<1>1. CASE Fresh(state) /\ Answer(state.snapshot)
  BY <1>1 DEF Fresh, Answer, AnswersFresh, Answers, Dated
<1>2. CASE Unavailable
  BY <1>2, NoSnapshotType DEF Unavailable, Answer, AnswersFresh, Answers
<1> QED
  BY <1>1, <1>2

\* A failure's answer is in date too.
LEMMA UnavailableAnswer ==
    ASSUME clock \in Nat, Unavailable
    PROVE  AnswersFresh' /\ answered' \in Answers
BY NoSnapshotType DEF Unavailable, Answer, AnswersFresh, Answers

\* read: the memory decides.
LEMMA ReadMemoryKeeps ==
    ASSUME ObserverInv, NEW c \in Caches, ReadMemory(c)
    PROVE  ObserverInv'
<1>1. memory[c].snapshot \in Snapshots /\ Dated(memory[c]) /\ clock \in Nat
  BY NoSnapshotType DEF ObserverInv, ObserverTypeOK, AllDated, States, NoState
<1>2. AnswersFresh' /\ answered' \in Answers
  BY <1>1, FreshAnswer DEF ReadMemory
<1> QED
  BY <1>2 DEF ObserverInv, ReadMemory, ObserverTypeOK, AllDated, Dated, LeasesPositive, BudgetHeld

\* read: a refresh starts.
LEMMA StartRefreshKeeps ==
    ASSUME ObserverInv, NEW c \in Caches, StartRefresh(c)
    PROVE  ObserverInv'
<1>1. flight' \in [Caches -> Flights]
  BY DEF ObserverInv, ObserverTypeOK, StartRefresh, Flights
<1>2. LeasesPositive'
  BY DEF ObserverInv, ObserverTypeOK, LeasesPositive, StartRefresh
<1> QED
  BY <1>1, <1>2 DEF ObserverInv, StartRefresh, ObserverTypeOK, AllDated, Dated, BudgetHeld, AnswersFresh

\* Landing a flight disturbs neither types nor leases.
LEMMA LandedKeeps ==
    ASSUME flight \in [Caches -> Flights], LeasesPositive, NEW c \in Caches, Landed(c)
    PROVE  flight' \in [Caches -> Flights] /\ LeasesPositive'
BY NoFlightType DEF Landed, LeasesPositive, NoFlight

\* refresh: the first transaction.
LEMMA AcquireKeeps ==
    ASSUME ObserverInv, NEW c \in Caches, Acquire(c)
    PROVE  ObserverInv'
<1>1. clock \in Nat /\ Ttl \in Nat /\ Ttl > 0 /\ identity[c] \in Identities /\ UNCHANGED <<clock, identity>>
  BY TtlAssumption DEF ObserverInv, ObserverTypeOK, Acquire
<1>2. CASE AcquireSettled(c)
  <2>1. Current(c) \in States /\ Dated(Current(c))
    BY CurrentState
  <2>2. AnswersFresh' /\ answered' \in Answers
    BY <1>1, <1>2, <2>1, FreshAnswer DEF AcquireSettled, States
  <2>3. memory' \in [Caches -> States \cup {NoState}] /\ \A k \in Caches : Dated(memory'[k])
    BY <1>2, <2>1 DEF AcquireSettled, ObserverInv, ObserverTypeOK, AllDated
  <2>4. flight' \in [Caches -> Flights] /\ LeasesPositive'
    BY <1>2, LandedKeeps DEF AcquireSettled, ObserverInv, ObserverTypeOK
  <2> QED
    BY <1>1, <1>2, <2>2, <2>3, <2>4 DEF AcquireSettled, ObserverInv, ObserverTypeOK, AllDated, Dated, BudgetHeld
<1>3. CASE AcquireLease(c)
  <2>1. Lease(c) \in States /\ Dated(Lease(c)) /\ Lease(c).next = clock + Ttl /\ Lease(c).identity = identity[c]
    BY <1>1, NoSnapshotType DEF Lease, States, Dated
  <2>2. memory' \in [Caches -> States \cup {NoState}] /\ \A k \in Caches : Dated(memory'[k])
    BY <1>3, <2>1 DEF AcquireLease, ObserverInv, ObserverTypeOK, AllDated
  <2>3. flight' \in [Caches -> Flights] /\ LeasesPositive'
    BY <1>1, <1>3 DEF AcquireLease, ObserverInv, ObserverTypeOK, Flights, LeasesPositive
  <2>4. probes' \in Nat /\ probes' * Ttl <= clock + Ttl
    <3>1. CASE stored # NoState /\ stored.identity = identity[c]
      <4>1. Current(c) = stored /\ stored.next \in Nat /\ probes \in Nat
        BY <3>1 DEF Current, ObserverInv, ObserverTypeOK, States
      <4>2. stored.next <= clock
        BY <1>1, <1>3, <4>1 DEF AcquireLease, Due, Leased
      <4>3. probes * Ttl <= clock /\ probes' = probes + 1
        BY <1>1, <1>3, <3>1, <4>1, <4>2 DEF AcquireLease, ObserverInv, BudgetHeld
      <4> QED
        BY <1>1, <4>1, <4>3
    <3>2. CASE ~(stored # NoState /\ stored.identity = identity[c])
      <4>1. probes' = 1
        BY <1>3, <3>2 DEF AcquireLease
      <4> QED
        BY <1>1, <4>1
    <3> QED
      BY <3>1, <3>2
  <2>5. stored' = Lease(c) /\ UNCHANGED answered
    BY <1>3 DEF AcquireLease
  <2> QED
    BY <1>1, <2>1, <2>2, <2>3, <2>4, <2>5 DEF ObserverInv, ObserverTypeOK, AllDated, BudgetHeld, AnswersFresh
<1>4. CASE AcquireFailed(c)
  <2>1. AnswersFresh' /\ answered' \in Answers
    BY <1>1, <1>4, UnavailableAnswer DEF AcquireFailed
  <2>2. flight' \in [Caches -> Flights] /\ LeasesPositive'
    BY <1>4, LandedKeeps DEF AcquireFailed, ObserverInv, ObserverTypeOK
  <2>3. memory' \in [Caches -> States \cup {NoState}] /\ \A k \in Caches : Dated(memory'[k])
    BY <1>4 DEF AcquireFailed, ObserverInv, ObserverTypeOK, AllDated, Dated, NoState
  <2> QED
    BY <1>1, <1>4, <2>1, <2>2, <2>3 DEF AcquireFailed, ObserverInv, ObserverTypeOK, AllDated, Dated, BudgetHeld
<1> QED
  BY <1>2, <1>3, <1>4 DEF Acquire

\* refresh: the observation settles.
LEMMA ObserveKeeps ==
    ASSUME ObserverInv, NEW c \in Caches, Observe(c) \/ ObserveFailed(c)
    PROVE  ObserverInv'
<1>1. CASE Observe(c)
  <2>1. flight' \in [Caches -> Flights] /\ LeasesPositive'
    BY <1>1 DEF Observe, ObserverInv, ObserverTypeOK, Flights, LeasesPositive
  <2> QED
    BY <1>1, <2>1 DEF Observe, ObserverInv, ObserverTypeOK, AllDated, Dated, BudgetHeld, AnswersFresh
<1>2. CASE ObserveFailed(c)
  <2>1. AnswersFresh' /\ answered' \in Answers
    BY <1>2, UnavailableAnswer DEF ObserveFailed, ObserverInv, ObserverTypeOK
  <2>2. flight' \in [Caches -> Flights] /\ LeasesPositive'
    BY <1>2, LandedKeeps DEF ObserveFailed, ObserverInv, ObserverTypeOK
  <2> QED
    BY <1>2, <2>1, <2>2 DEF ObserveFailed, ObserverInv, ObserverTypeOK, AllDated, Dated, BudgetHeld
<1> QED
  BY <1>1, <1>2

\* refresh: the second transaction.
LEMMA CommitKeeps ==
    ASSUME ObserverInv, NEW c \in Caches, CommitProbe(c)
    PROVE  ObserverInv'
<1>1. /\ clock \in Nat /\ Ttl \in Nat /\ Ttl > 0 /\ identity[c] \in Identities
      /\ flight[c].lease \in Nat /\ flight[c].lease > 0
      /\ UNCHANGED <<clock, identity, probes>>
  BY TtlAssumption DEF ObserverInv, ObserverTypeOK, CommitProbe, Flights, LeasesPositive
<1>2. flight' \in [Caches -> Flights] /\ LeasesPositive'
  BY LandedKeeps DEF CommitProbe, ObserverInv, ObserverTypeOK
<1>3. CASE CommitObserved(c)
  <2>1. /\ Observed(c) \in States /\ Dated(Observed(c))
        /\ Observed(c).next = clock + Ttl /\ Observed(c).identity = identity[c]
        /\ Observed(c).snapshot.checked = clock /\ Observed(c).snapshot.expires = clock + Ttl
    BY <1>1 DEF Observed, States, Snapshots, Dated
  <2>2. Current(c) = stored /\ stored # NoState
    BY <1>1, <1>3, CurrentState DEF CommitObserved, StillLeased
  <2>3. stored.next \in Nat /\ stored.next <= clock + Ttl
    BY <1>3, <2>2, CurrentState DEF CommitObserved, Readable, ObserverInv, ObserverTypeOK, States
  <2>4. probes \in Nat /\ probes * Ttl <= stored.next /\ probes * Ttl \in Nat
    BY <1>1 DEF ObserverInv, ObserverTypeOK, BudgetHeld
  <2>5. probes * Ttl <= clock + Ttl
    BY <1>1, <2>3, <2>4
  <2>6. stored' = Observed(c) /\ BudgetHeld'
    BY <1>1, <1>3, <2>1, <2>5 DEF CommitObserved, BudgetHeld
  <2>7. memory' \in [Caches -> States \cup {NoState}] /\ \A k \in Caches : Dated(memory'[k])
    BY <1>3, <2>1 DEF CommitObserved, ObserverInv, ObserverTypeOK, AllDated
  <2>8. answered' = [at |-> clock, snapshot |-> Observed(c).snapshot] /\ Observed(c).snapshot \in Snapshots
    BY <1>3, <2>1 DEF CommitObserved, Answer, States
  <2>9. AnswersFresh' /\ answered' \in Answers
    BY <1>1, <2>1, <2>8 DEF AnswersFresh, Answers
  <2> QED
    BY <1>1, <1>2, <2>1, <2>6, <2>7, <2>9 DEF ObserverInv, ObserverTypeOK, AllDated
<1>4. CASE CommitFailed(c)
  <2>1. AnswersFresh' /\ answered' \in Answers
    BY <1>1, <1>4, UnavailableAnswer DEF CommitFailed
  <2>2. memory' \in [Caches -> States \cup {NoState}] /\ \A k \in Caches : Dated(memory'[k])
    <3> DEFINE m == [identity |-> identity[c], next |-> flight[c].lease, snapshot |-> NoSnapshot]
    <3>1. m \in States /\ Dated(m)
      BY <1>1, NoSnapshotType DEF States, Dated
    <3>2. memory' = [memory EXCEPT ![c] = m]
      BY <1>4 DEF CommitFailed
    <3> HIDE DEF m
    <3> QED
      BY <3>1, <3>2 DEF ObserverInv, ObserverTypeOK, AllDated
  <2> QED
    BY <1>1, <1>2, <1>4, <2>1, <2>2 DEF CommitFailed, ObserverInv, ObserverTypeOK, AllDated, Dated, BudgetHeld
<1> QED
  BY <1>3, <1>4 DEF CommitProbe

\* Eviction and deployment.
LEMMA RecreateKeeps ==
    ASSUME ObserverInv, NEW c \in Caches, NEW id \in Identities, Recreate(c, id)
    PROVE  ObserverInv'
<1>1. flight' \in [Caches -> Flights] /\ LeasesPositive'
  BY LandedKeeps DEF Recreate, ObserverInv, ObserverTypeOK
<1>2. memory' \in [Caches -> States \cup {NoState}] /\ \A k \in Caches : Dated(memory'[k])
  BY DEF Recreate, ObserverInv, ObserverTypeOK, AllDated, Dated, NoState
<1> QED
  BY <1>1, <1>2 DEF Recreate, ObserverInv, ObserverTypeOK, AllDated, Dated, BudgetHeld, AnswersFresh

LEMMA NextObserverInv == ObserverInv /\ [ObserverNext]_observer => ObserverInv'
<1> SUFFICES ASSUME ObserverInv, [ObserverNext]_observer PROVE ObserverInv'
  OBVIOUS
<1>1. ASSUME NEW c \in Caches, ReadMemory(c) PROVE ObserverInv'
  BY <1>1, ReadMemoryKeeps
<1>2. ASSUME NEW c \in Caches, StartRefresh(c) PROVE ObserverInv'
  BY <1>2, StartRefreshKeeps
<1>3. ASSUME NEW c \in Caches, Acquire(c) PROVE ObserverInv'
  BY <1>3, AcquireKeeps
<1>4. ASSUME NEW c \in Caches, Observe(c) \/ ObserveFailed(c) PROVE ObserverInv'
  BY <1>4, ObserveKeeps
<1>5. ASSUME NEW c \in Caches, CommitProbe(c) PROVE ObserverInv'
  BY <1>5, CommitKeeps
<1>6. ASSUME NEW c \in Caches, NEW id \in Identities, Recreate(c, id) PROVE ObserverInv'
  BY <1>6, RecreateKeeps
<1>7. ASSUME NEW time \in 0..LastProbe, SetObserverClock(time) PROVE ObserverInv'
  BY <1>7, TtlAssumption DEF SetObserverClock, ObserverInv, ObserverTypeOK, AllDated, Dated, LeasesPositive, BudgetHeld, AnswersFresh
<1>8. CASE UNCHANGED observer
  BY <1>8 DEF observer, ObserverInv, ObserverTypeOK, AllDated, Dated, LeasesPositive, BudgetHeld, AnswersFresh
<1> QED
  BY <1>1, <1>2, <1>3, <1>4, <1>5, <1>6, <1>7, <1>8 DEF ObserverNext

\* The invariant holds in every state.
LEMMA ObserverInvariance == ObserverSpec => []ObserverInv
BY InitObserverInv, NextObserverInv, PTL DEF ObserverSpec

-----------------------------------------------------------------------------
(* Theorems *)

\* The cache's state keeps its type.
THEOREM ObserverTypeCorrect == ObserverSpec => []ObserverTypeOK
<1>1. ObserverInv => ObserverTypeOK
  BY DEF ObserverInv
<1> QED
  BY <1>1, ObserverInvariance, PTL

\* n observations of one identity take n lifetimes (refresh's lease).
THEOREM BudgetAlwaysHeld == ObserverSpec => []BudgetHeld
<1>1. ObserverInv => BudgetHeld
  BY DEF ObserverInv
<1> QED
  BY <1>1, ObserverInvariance, PTL

\* No expired snapshot is answered (read and decisionFromState).
THEOREM AnswersAlwaysFresh == ObserverSpec => []AnswersFresh
<1>1. ObserverInv => AnswersFresh
  BY DEF ObserverInv
<1> QED
  BY <1>1, ObserverInvariance, PTL

\* A published snapshot stands until it expires or the identity changes
\* (the lease test of refresh's second transaction).
THEOREM PublishedSnapshotsStand == ObserverSpec => SnapshotStands
<1>1. ObserverInv /\ [ObserverNext]_observer => Stands \/ UNCHANGED observer
  <2> SUFFICES ASSUME ObserverInv, ObserverNext, stored.snapshot # NoSnapshot, stored' # stored
               PROVE  clock >= stored.snapshot.expires \/ stored'.identity # stored.identity
    BY DEF Stands
  <2>1. \E c \in Caches : AcquireLease(c) \/ CommitObserved(c)
    <3>1. ASSUME NEW c \in Caches, Acquire(c) PROVE AcquireLease(c)
      BY <3>1 DEF Acquire, AcquireSettled, AcquireFailed
    <3>2. ASSUME NEW c \in Caches, CommitProbe(c) PROVE CommitObserved(c)
      BY <3>2 DEF CommitProbe, CommitFailed
    <3> QED
      BY <3>1, <3>2 DEF ObserverNext, ReadMemory, StartRefresh, Observe, ObserveFailed, Recreate, SetObserverClock
  <2> PICK c \in Caches : AcquireLease(c) \/ CommitObserved(c)
    BY <2>1
  <2>2. stored \in States /\ stored # NoState
    BY DEF ObserverInv, ObserverTypeOK, NoState
  <2>3. stored'.identity = identity[c]
    BY <2>1 DEF AcquireLease, Lease, CommitObserved, Observed
  <2>4. CASE stored.identity = identity[c]
    <3>1. Current(c) = stored
      BY <2>2, <2>4 DEF Current
    <3>2. AcquireLease(c)
      BY <2>1, <3>1 DEF CommitObserved, StillLeased
    <3>3. clock \in Nat /\ stored.snapshot.expires \in Nat
      BY <2>2 DEF ObserverInv, ObserverTypeOK, States, Snapshots
    <3> QED
      BY <3>1, <3>2, <3>3 DEF AcquireLease, Due, Fresh
  <2> QED
    BY <2>3, <2>4
<1> QED
  BY <1>1, ObserverInvariance, PTL DEF ObserverSpec, SnapshotStands
=============================================================================
