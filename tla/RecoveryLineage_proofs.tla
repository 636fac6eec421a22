----------------------- MODULE RecoveryLineage_proofs -----------------------
(* The two halves of a recovery, which share no state.  The pools: solvency, the
   marks, one credit per wallet in a lineage, finality of a refund and the
   refinement of CreditLineage.  The source evidence: the service accepts
   exactly the pairs the contract pays, and its refusals name what failed. *)
EXTENDS RecoveryLineage, SourceResolution, FiniteSetTheorems, TLAPS

-----------------------------------------------------------------------------
(* Counting what is owed *)

LEMMA NumbersFinite == IsFiniteSet(Numbers)
  BY FS_Interval, NumbersAssumption DEF Numbers

\* The units of one campaign.
LEMMA Strip ==
    ASSUME NEW n, NEW k \in Nat
    PROVE  IsFiniteSet({n} \X (1..k)) /\ Cardinality({n} \X (1..k)) = k
  <1>1. IsFiniteSet({n}) /\ Cardinality({n}) = 1
    BY FS_Singleton
  <1>2. IsFiniteSet(1..k) /\ Cardinality(1..k) = k
    BY FS_Interval
  <1>3. IsFiniteSet({n} \X (1..k)) /\ Cardinality({n} \X (1..k)) = Cardinality({n}) * Cardinality(1..k)
    BY <1>1, <1>2, FS_Product
  <1> QED
    BY <1>1, <1>2, <1>3

LEMMA UnitsFinite ==
    ASSUME NEW owed \in [Numbers -> Nat] PROVE IsFiniteSet(Units(owed))
  <1> DEFINE strip == [n \in Numbers |-> {n} \X (1..owed[n])]
             Strips == {{n} \X (1..owed[n]) : n \in Numbers}
  <1>1. strip \in Surjection(Numbers, Strips)
    BY DEF Surjection
  <1>2. IsFiniteSet(Strips)
    BY <1>1, NumbersFinite, FS_Surjection
  <1>3. ASSUME NEW T \in Strips PROVE IsFiniteSet(T)
    <2>1. PICK n \in Numbers : T = {n} \X (1..owed[n])
      OBVIOUS
    <2> QED
      BY <2>1, Strip
  <1>4. IsFiniteSet(UNION Strips)
    <2>1. \A T \in Strips : IsFiniteSet(T)
      BY <1>3
    <2> HIDE DEF Strips
    <2> QED
      BY <1>2, <2>1, FS_UNION
  <1> QED
    BY <1>4 DEF Units

\* One campaign's debt changes, and the total changes with it.
LEMMA Recount ==
    ASSUME NEW owed \in [Numbers -> Nat], NEW n \in Numbers, NEW k \in Nat
    PROVE  Cardinality(Units([owed EXCEPT ![n] = k])) = Cardinality(Units(owed)) - owed[n] + k
  <1> DEFINE next == [owed EXCEPT ![n] = k]
             strip == {n} \X (1..owed[n])
             rest == Units(owed) \ strip
             nextStrip == {n} \X (1..k)
  <1>1. strip \subseteq Units(owed) /\ IsFiniteSet(strip) /\ Cardinality(strip) = owed[n]
    BY Strip DEF Units
  <1>2. IsFiniteSet(Units(owed)) /\ Cardinality(Units(owed)) \in Nat
    BY UnitsFinite, FS_CardinalityType
  <1>3. IsFiniteSet(rest) /\ Cardinality(rest) = Cardinality(Units(owed)) - owed[n]
    <2>1. Units(owed) \cap strip = strip
      BY <1>1
    <2> HIDE DEF strip
    <2>2. IsFiniteSet(rest) /\ Cardinality(rest) = Cardinality(Units(owed)) - Cardinality(Units(owed) \cap strip)
      BY <1>2, FS_Difference
    <2> QED
      BY <2>1, <2>2, <1>1
  <1>4. IsFiniteSet(nextStrip) /\ Cardinality(nextStrip) = k
    BY Strip
  <1>5. rest \cap nextStrip = {}
    BY DEF Units
  <1>6. Units(next) = rest \cup nextStrip
    <2>1. ASSUME NEW u \in Units(next) PROVE u \in rest \cup nextStrip
      BY DEF Units
    <2>2. ASSUME NEW u \in rest PROVE u \in Units(next)
      BY DEF Units
    <2>3. ASSUME NEW u \in nextStrip PROVE u \in Units(next)
      BY DEF Units
    <2> QED
      BY <2>1, <2>2, <2>3
  <1>7. Cardinality(rest) \in Nat
    BY <1>3, FS_CardinalityType
  <1> HIDE DEF next, strip, rest, nextStrip
  <1>8. Cardinality(rest \cup nextStrip) = Cardinality(rest) + k - Cardinality({})
    BY <1>3, <1>4, <1>5, FS_Union
  <1>9. Cardinality(Units(next)) = Cardinality(Units(owed)) - owed[n] + k
    BY <1>2, <1>3, <1>6, <1>7, <1>8, FS_EmptySet
  <1> QED
    BY <1>9 DEF next

-----------------------------------------------------------------------------
(* The inductive invariant *)

\* A number is open, with an affordable campaign behind it, or untouched.
Opened ==
    \A p \in Pools : campaignCount[p] \in 0..MaxCampaigns /\ \A n \in Numbers :
        LET campaign == campaigns[p][n] IN
        IF n <= campaignCount[p]
        THEN campaign.sponsor \in Sponsors /\ campaign.max > 0 /\ campaign.claims <= campaign.max
        ELSE campaign = NoCampaign

\* A payment left every mark that the next release looks for.
Marked ==
    \A payment \in payments :
        LET p == payment.pool
            n == payment.number
            pair == payment.pair
        IN
        /\ payment.sponsor = campaigns[p][n].sponsor
        /\ <<n, pair.wallet>> \in claimed[p]
        /\ {n} \X Evidence(pair) \subseteq consumed[p]
        /\ p = "v2" => /\ <<payment.sponsor, pair.wallet>> \in sponsorClaimed
                       /\ {payment.sponsor} \X Evidence(pair) \subseteq sponsorConsumed

\* V2 remembers its predecessor's deadline and pays when the predecessor cannot.
Succeeds ==
    /\ IF binding.bound
       THEN Predecessor.sponsor # Nobody /\ binding.deadline = Predecessor.deadline
       ELSE campaignCount["v2"] = 0
    /\ (\E payment \in payments : payment.pool = "v2") => binding.bound /\ ReleasesUnlocked

RecoveredClosed == \A p \in Pools, n \in Numbers : campaigns[p][n].recovered => Closed(campaigns[p][n])

PaymentsFinite == \A p \in Pools, n \in Numbers : IsFiniteSet(PaymentsOf(p, n))

IInv == /\ TypeOK /\ Opened /\ Marked /\ Succeeds /\ RecoveredClosed /\ PaymentsFinite
        /\ Solvent /\ Bookkeeping /\ OneCreditPerWallet

LEMMA RemainingType ==
    ASSUME NEW campaign \in Campaign, campaign.claims <= campaign.max
    PROVE  Remaining(campaign) \in Nat
  <1>1. campaign.credit \in Nat /\ campaign.max - campaign.claims \in Nat
    BY DEF Campaign
  <1>2. \A x, y \in Nat : x * y \in Nat
    OBVIOUS
  <1> QED
    BY <1>1, <1>2 DEF Remaining

LEMMA Affordable ==
    IInv => \A p \in Pools, n \in Numbers :
                campaigns[p][n] \in Campaign /\ campaigns[p][n].claims <= campaigns[p][n].max
  BY DEF IInv, TypeOK, Bookkeeping

LEMMA OwedType == IInv => \A p \in Pools : Owed(p) \in [Numbers -> Nat]
  BY Affordable, RemainingType DEF Owed

LEMMA InitIInv == Init => IInv
  <1> SUFFICES ASSUME Init PROVE IInv
    OBVIOUS
  <1> USE DEF Init
  <1>1. NoCampaign \in Campaign
    BY DEF NoCampaign, Campaign
  <1>2. TypeOK
    BY <1>1, NumbersAssumption DEF TypeOK
  <1>3. Opened
    BY NumbersAssumption DEF Opened, Numbers
  <1>7. Marked /\ Succeeds
    <2>1. payments = {} /\ ~binding.bound /\ campaignCount["v2"] = 0
      BY DEF Pools
    <2> QED
      BY <2>1 DEF Marked, Succeeds
  <1>8. RecoveredClosed
    BY DEF RecoveredClosed, NoCampaign
  <1>4. \A p \in Pools, n \in Numbers : PaymentsOf(p, n) = {}
    BY DEF PaymentsOf
  <1>5. PaymentsFinite /\ OneCreditPerWallet
    BY <1>4, FS_EmptySet DEF PaymentsFinite, OneCreditPerWallet
  <1>9. Bookkeeping
    <2> SUFFICES ASSUME NEW p \in Pools, NEW n \in Numbers
                 PROVE  /\ campaigns[p][n].claims = Cardinality(PaymentsOf(p, n))
                        /\ campaigns[p][n].claims <= campaigns[p][n].max
                        /\ {w \in Wallets : <<n, w>> \in claimed[p]} = {}
      BY <1>4 DEF Bookkeeping
    <2>1. campaigns[p][n].claims = 0 /\ campaigns[p][n].max = 0 /\ claimed[p] = {}
      BY DEF NoCampaign
    <2>2. Cardinality(PaymentsOf(p, n)) = 0
      BY <1>4, FS_EmptySet
    <2>3. {w \in Wallets : <<n, w>> \in claimed[p]} = {}
      BY <2>1
    <2> QED
      BY <2>1, <2>2, <2>3
  <1>6. Solvent
    <2> SUFFICES ASSUME NEW p \in Pools PROVE Cardinality(Units(Owed(p))) = 0
      BY DEF Solvent
    <2>1. \A n \in Numbers : Owed(p)[n] = 0
      BY DEF Owed, Remaining, NoCampaign
    <2>2. Units(Owed(p)) = {}
      BY <2>1 DEF Units
    <2> QED
      BY <2>2, FS_EmptySet
  <1> QED
    BY <1>2, <1>3, <1>5, <1>6, <1>7, <1>8, <1>9 DEF IInv

\* A campaign changes, and the pool's money by as much as its debt.
LEMMA SolventMoves ==
    ASSUME IInv, NEW p \in Pools, NEW n \in Numbers, NEW campaign \in Campaign,
           campaign.claims <= campaign.max, NEW k \in Int,
           Remaining(campaign) = Remaining(campaigns[p][n]) + k,
           campaigns' = [campaigns EXCEPT ![p][n] = campaign],
           accounted' = [accounted EXCEPT ![p] = @ + k],
           balance' = [balance EXCEPT ![p] = @ + k]
    PROVE  /\ Solvent'
           /\ campaigns' \in [Pools -> [Numbers -> Campaign]]
           /\ accounted' \in [Pools -> Nat] /\ balance' \in [Pools -> Nat]
  <1> DEFINE owed == Owed(p)
             due == Remaining(campaign)
  <1>1. owed \in [Numbers -> Nat] /\ due \in Nat /\ owed[n] = Remaining(campaigns[p][n])
    BY OwedType, RemainingType DEF Owed
  <1>2. campaigns' \in [Pools -> [Numbers -> Campaign]]
    BY DEF IInv, TypeOK
  <1>3. Owed(p)' = [owed EXCEPT ![n] = due]
    <2>1. \A m \in Numbers : campaigns'[p][m] = IF m = n THEN campaign ELSE campaigns[p][m]
      BY DEF IInv, TypeOK
    <2>2. \A m \in Numbers : Owed(p)'[m] = [owed EXCEPT ![n] = due][m]
      BY <2>1 DEF Owed, Remaining
    <2> QED
      BY <2>2 DEF Owed
  <1>4. Cardinality(Units(Owed(p))') = Cardinality(Units(owed)) + k
    <2>1. Cardinality(Units([owed EXCEPT ![n] = due])) = Cardinality(Units(owed)) - owed[n] + due
      BY <1>1, Recount
    <2>2. Units(Owed(p))' = Units([owed EXCEPT ![n] = due])
      BY <1>3 DEF Units
    <2>3. Cardinality(Units(owed)) \in Nat
      BY <1>1, UnitsFinite, FS_CardinalityType
    <2> HIDE DEF owed, due
    <2>4. due = owed[n] + k
      BY <1>1 DEF due
    <2> QED
      BY <1>1, <2>1, <2>2, <2>3, <2>4
  <1>5. Cardinality(Units(Owed(p))') \in Nat
    <2>1. Units(Owed(p))' = Units([owed EXCEPT ![n] = due])
      BY <1>3 DEF Units
    <2>2. [owed EXCEPT ![n] = due] \in [Numbers -> Nat]
      BY <1>1
    <2> QED
      BY <2>1, <2>2, UnitsFinite, FS_CardinalityType
  <1>6. ASSUME NEW q \in Pools, q # p PROVE Owed(q)' = Owed(q)
    <2>1. campaigns'[q] = campaigns[q]
      BY <1>6 DEF IInv, TypeOK
    <2> QED
      BY <2>1 DEF Owed, Remaining
  <1>7. /\ accounted \in [Pools -> Nat] /\ balance \in [Pools -> Nat]
        /\ \A q \in Pools : balance[q] = accounted[q] /\ accounted[q] = Cardinality(Units(Owed(q)))
    BY DEF IInv, TypeOK, Solvent
  <1>8. accounted'[p] = Cardinality(Units(Owed(p))') /\ balance'[p] = accounted'[p]
    BY <1>4, <1>7
  <1>9. Solvent'
    <2> SUFFICES ASSUME NEW q \in Pools PROVE balance'[q] = accounted'[q] /\ accounted'[q] = Cardinality(Units(Owed(q))')
      BY DEF Solvent
    <2>1. CASE q = p
      BY <1>8, <2>1
    <2>2. CASE q # p
      <3>1. Units(Owed(q))' = Units(Owed(q))
        BY <1>6, <2>2 DEF Units
      <3>2. balance'[q] = balance[q] /\ accounted'[q] = accounted[q]
        BY <1>7, <2>2
      <3> QED
        BY <1>7, <3>1, <3>2
    <2> QED
      BY <2>1, <2>2
  <1>10. accounted' \in [Pools -> Nat] /\ balance' \in [Pools -> Nat]
    <2>1. \A q \in Pools : accounted'[q] \in Nat /\ balance'[q] \in Nat
      BY <1>5, <1>7, <1>8
    <2> QED
      BY <1>7, <2>1
  <1> QED
    BY <1>2, <1>9, <1>10

\* Blocks, attestations and returning calls touch no campaign.
LEMMA QuietKeeps ==
    ASSUME IInv, now' \in Nat, now' >= now, attested' \in Nat, stack' \in Seq(Pools),
           UNCHANGED <<storage, marks, binding, payments>>
    PROVE  IInv'
  <1> USE DEF storage, marks
  <1>1. TypeOK' /\ Opened' /\ Marked'
    BY DEF IInv, TypeOK, Opened, Marked
  <1>2. RecoveredClosed'
    <2>1. \A p \in Pools, n \in Numbers : Closed(campaigns[p][n]) => Closed(campaigns[p][n])'
      BY Affordable DEF IInv, TypeOK, Closed, Campaign
    <2> QED
      BY <2>1 DEF IInv, RecoveredClosed
  <1>5. Succeeds'
    <2>1. ReleasesUnlocked => ReleasesUnlocked'
      BY DEF IInv, TypeOK, ReleasesUnlocked, Predecessor
    <2> QED
      BY <2>1 DEF IInv, Succeeds, Predecessor
  <1>6. PaymentsFinite' /\ OneCreditPerWallet'
    BY DEF IInv, PaymentsFinite, OneCreditPerWallet, PaymentsOf, SameLineage, IsLegacy
  <1>3. Bookkeeping'
    <2>1. \A p \in Pools, n \in Numbers : PaymentsOf(p, n)' = PaymentsOf(p, n)
      BY DEF PaymentsOf
    <2> QED
      BY <2>1 DEF IInv, Bookkeeping
  <1>4. Solvent'
    BY DEF IInv, Solvent, Owed, Units, Remaining
  <1> QED
    BY <1>1, <1>2, <1>3, <1>4, <1>5, <1>6 DEF IInv

-----------------------------------------------------------------------------
(* A new campaign *)

LEMMA OpenKeeps ==
    ASSUME IInv, NEW p \in Pools, NEW sponsor \in Sponsors, NEW terms \in Terms, NEW deadline \in Nat,
           Open(p, sponsor, terms, deadline),
           UNCHANGED <<now, attested, marks, stack, payments>>,
           binding' \in [bound : BOOLEAN, sponsor : Sponsors \cup {Nobody}, deadline : Nat],
           Succeeds'
    PROVE  IInv'
  <1> DEFINE n == campaignCount[p] + 1
             campaign == [sponsor |-> sponsor, credit |-> terms.credit, max |-> terms.max, claims |-> 0,
                          deadline |-> deadline, start |-> terms.start, end |-> terms.end, recovered |-> FALSE]
             funding == terms.credit * terms.max
  <1>1. /\ n \in Numbers /\ campaignCount' = [campaignCount EXCEPT ![p] = n]
        /\ campaigns' = [campaigns EXCEPT ![p][n] = campaign]
        /\ accounted' = [accounted EXCEPT ![p] = @ + funding]
        /\ balance' = [balance EXCEPT ![p] = @ + funding]
        /\ terms.max > 0
    BY DEF Open, TermsValid
  <1>2. /\ campaign \in Campaign /\ funding \in Nat /\ campaign.claims <= campaign.max
        /\ Remaining(campaign) = funding
    <2>1. terms.credit \in Nat /\ terms.max \in Nat /\ terms.start \in Nat /\ terms.end \in Nat
      BY TermsAssumption, NumbersAssumption DEF Positions
    <2>2. \A x, y \in Nat : x * y \in Nat
      OBVIOUS
    <2> QED
      BY <2>1, <2>2 DEF Campaign, Remaining
  <1>3. campaignCount[p] \in Nat /\ campaigns[p][n] = NoCampaign
    BY <1>1, NumbersAssumption DEF IInv, TypeOK, Opened, Numbers
  <1>4. Remaining(campaigns[p][n]) = 0
    BY <1>3 DEF Remaining, NoCampaign
  <1>5. PaymentsOf(p, n) = {}
    <2>1. Cardinality(PaymentsOf(p, n)) = 0 /\ IsFiniteSet(PaymentsOf(p, n))
      BY <1>1, <1>3 DEF IInv, Bookkeeping, PaymentsFinite, NoCampaign
    <2> QED
      BY <2>1, FS_EmptySet
  <1> HIDE DEF campaign, funding
  <1>6. /\ Solvent'
        /\ campaigns' \in [Pools -> [Numbers -> Campaign]]
        /\ accounted' \in [Pools -> Nat] /\ balance' \in [Pools -> Nat]
    <2>1. Remaining(campaign) = Remaining(campaigns[p][n]) + funding /\ funding \in Int
      BY <1>2, <1>4
    <2> HIDE DEF n
    <2> QED
      BY <1>1, <1>2, <2>1, SolventMoves
  <1>7. /\ campaigns'[p][n] = campaign
        /\ \A q \in Pools, m \in Numbers : q # p \/ m # n => campaigns'[q][m] = campaigns[q][m]
    BY <1>1 DEF IInv, TypeOK
  <1>8. TypeOK'
    BY <1>1, <1>6 DEF IInv, TypeOK, marks, Numbers
  <1>9. Opened'
    <2>1. \A q \in Pools : campaignCount'[q] = IF q = p THEN n ELSE campaignCount[q]
      BY <1>1 DEF IInv, TypeOK
    <2>2. n \in 0..MaxCampaigns
      BY <1>1 DEF Numbers
    <2>3. campaign.sponsor \in Sponsors /\ campaign.max > 0 /\ campaign.claims <= campaign.max
      BY <1>1, <1>2 DEF campaign
    <2> SUFFICES ASSUME NEW q \in Pools, NEW m \in Numbers
                 PROVE  LET c == campaigns'[q][m] IN
                        IF m <= campaignCount'[q]
                        THEN c.sponsor \in Sponsors /\ c.max > 0 /\ c.claims <= c.max
                        ELSE c = NoCampaign
      BY <2>1, <2>2 DEF IInv, Opened
    <2>4. CASE q = p /\ m = n
      BY <1>7, <2>1, <2>3, <2>4
    <2>5. CASE q # p \/ m # n
      <3>1. campaigns'[q][m] = campaigns[q][m]
        BY <1>7, <2>5
      <3>2. m <= campaignCount'[q] <=> m <= campaignCount[q]
        BY <1>3, <2>1, <2>5 DEF Numbers
      <3> QED
        BY <3>1, <3>2 DEF IInv, Opened
    <2> QED
      BY <2>4, <2>5
  <1>10. Marked'
    <2> SUFFICES ASSUME NEW payment \in payments
                 PROVE  payment.sponsor = campaigns'[payment.pool][payment.number].sponsor
      BY DEF IInv, Marked, marks
    <2>1. payment.pool \in Pools /\ payment.number \in Numbers
      BY DEF IInv, TypeOK, Payment
    <2>2. payment.pool # p \/ payment.number # n
      BY <1>5 DEF PaymentsOf
    <2> QED
      BY <1>7, <2>1, <2>2 DEF IInv, Marked
  <1>11. RecoveredClosed'
    <2>1. ~campaign.recovered
      BY DEF campaign
    <2> QED
      BY <1>7, <2>1 DEF IInv, RecoveredClosed, Closed
  <1>12. \A q \in Pools, m \in Numbers : PaymentsOf(q, m)' = PaymentsOf(q, m)
    BY DEF PaymentsOf
  <1>13. PaymentsFinite' /\ OneCreditPerWallet'
    BY <1>12 DEF IInv, PaymentsFinite, OneCreditPerWallet
  <1>14. Bookkeeping'
    <2> SUFFICES ASSUME NEW q \in Pools, NEW m \in Numbers
                 PROVE  /\ campaigns'[q][m].claims = Cardinality(PaymentsOf(q, m))
                        /\ campaigns'[q][m].claims <= campaigns'[q][m].max
      BY <1>12 DEF IInv, Bookkeeping, marks
    <2>1. CASE q = p /\ m = n
      <3>1. campaign.claims = 0 /\ Cardinality(PaymentsOf(p, n)) = 0
        BY <1>5, FS_EmptySet DEF campaign
      <3> QED
        BY <1>2, <1>7, <2>1, <3>1
    <2>2. CASE q # p \/ m # n
      BY <1>7, <2>2 DEF IInv, Bookkeeping
    <2> QED
      BY <2>1, <2>2
  <1> QED
    BY <1>6, <1>8, <1>9, <1>10, <1>11, <1>13, <1>14 DEF IInv

-----------------------------------------------------------------------------
(* A payment *)

\* What a release has checked in its pool, and in the lineage.
Admitted(p, n, pair) ==
    /\ Releasable(p, n)
    /\ IF p = "v1"
       THEN /\ <<n, pair.wallet>> \notin claimed[p]
            /\ \A e \in Evidence(pair) : <<n, e>> \notin consumed[p]
            /\ UNCHANGED <<sponsorClaimed, sponsorConsumed>>
       ELSE /\ ReleasesUnlocked /\ UnusedInLegacy(pair)
            /\ UnusedBySponsor(campaigns[p][n].sponsor, pair)
            /\ ConsumeBySponsor(campaigns[p][n].sponsor, pair)
    /\ Pay(p, n, pair)

NewPayment(p, n, pair) == [pool |-> p, number |-> n, sponsor |-> campaigns[p][n].sponsor, pair |-> pair]

LEMMA PairTypes ==
    ASSUME NEW pair \in Pairs PROVE pair.wallet \in Wallets /\ Evidence(pair) \subseteq AllEvidence
  BY PairsAssumption DEF Evidence, AllEvidence

LEMMA PayFacts ==
    ASSUME IInv, NEW p \in Pools, NEW n \in Numbers, NEW pair \in Pairs, Admitted(p, n, pair)
    PROVE  /\ NewPayment(p, n, pair) \in Payment
           /\ payments' = payments \cup {NewPayment(p, n, pair)}
           /\ PaymentsOf(p, n)' = PaymentsOf(p, n) \cup {NewPayment(p, n, pair)}
           /\ NewPayment(p, n, pair) \notin PaymentsOf(p, n)
           /\ \A q \in Pools, m \in Numbers : q # p \/ m # n => PaymentsOf(q, m)' = PaymentsOf(q, m)
           /\ campaigns'[p][n] = [campaigns[p][n] EXCEPT !.claims = @ + 1]
           /\ \A q \in Pools, m \in Numbers : q # p \/ m # n => campaigns'[q][m] = campaigns[q][m]
           /\ campaigns[p][n].sponsor \in Sponsors /\ ~campaigns[p][n].recovered
           /\ n <= campaignCount[p]
  <1> DEFINE new == NewPayment(p, n, pair)
  <1>1. campaigns[p][n] \in Campaign /\ campaigns[p][n].sponsor \in Sponsors
    BY Affordable DEF Admitted, Releasable, Campaign
  <1>2. new \in Payment
    BY <1>1 DEF NewPayment, Payment
  <1>3. payments' = payments \cup {new}
    BY DEF Admitted, Pay, NewPayment
  <1>4. new.pool = p /\ new.number = n
    BY DEF NewPayment
  <1>5. new \notin payments
    <2>1. new.sponsor = campaigns[p][n].sponsor /\ new.pair = pair
      BY DEF NewPayment
    <2> HIDE DEF new
    <2>2. CASE p = "v1"
      BY <1>4, <2>1, <2>2 DEF IInv, Marked, Admitted
    <2>3. CASE p = "v2"
      BY <1>4, <2>1, <2>3 DEF IInv, Marked, Admitted, UnusedBySponsor
    <2> QED
      BY <2>2, <2>3 DEF Pools
  <1>6. PaymentsOf(p, n)' = PaymentsOf(p, n) \cup {new} /\ new \notin PaymentsOf(p, n)
    BY <1>3, <1>4, <1>5 DEF PaymentsOf
  <1>7. \A q \in Pools, m \in Numbers : q # p \/ m # n => PaymentsOf(q, m)' = PaymentsOf(q, m)
    BY <1>3, <1>4 DEF PaymentsOf
  <1>8. campaigns' = [campaigns EXCEPT ![p][n].claims = @ + 1]
    BY DEF Admitted, Pay
  <1>9. /\ campaigns'[p][n] = [campaigns[p][n] EXCEPT !.claims = @ + 1]
        /\ \A q \in Pools, m \in Numbers : q # p \/ m # n => campaigns'[q][m] = campaigns[q][m]
    BY <1>8 DEF IInv, TypeOK
  <1>10. ~campaigns[p][n].recovered
    BY <1>1 DEF IInv, TypeOK, RecoveredClosed, Closed, Admitted, Releasable, Campaign
  <1>11. n <= campaignCount[p]
    BY <1>1, NobodyAssumption DEF IInv, Opened, NoCampaign
  <1> QED
    BY <1>1, <1>2, <1>3, <1>6, <1>7, <1>9, <1>10, <1>11

\* The money: the campaign owes one credit less.
LEMMA PaySolvent ==
    ASSUME IInv, NEW p \in Pools, NEW n \in Numbers, NEW pair \in Pairs, Admitted(p, n, pair)
    PROVE  /\ Solvent'
           /\ campaigns' \in [Pools -> [Numbers -> Campaign]]
           /\ accounted' \in [Pools -> Nat] /\ balance' \in [Pools -> Nat]
  <1> DEFINE campaign == campaigns[p][n]
             next == [campaign EXCEPT !.claims = @ + 1]
  <1>1. campaign \in Campaign /\ campaign.claims < campaign.max /\ ~campaign.recovered
    BY Affordable, PayFacts DEF Admitted, Releasable
  <1>2. next \in Campaign /\ next.claims <= next.max
    BY <1>1 DEF Campaign
  <1>3. Remaining(next) = Remaining(campaign) + (- campaign.credit)
    <2>1. Remaining(campaign) = campaign.credit * (campaign.max - campaign.claims)
      BY <1>1 DEF Remaining
    <2>2. Remaining(next) = campaign.credit * (campaign.max - (campaign.claims + 1))
      BY <1>1 DEF Remaining, Campaign
    <2>3. \A c, m, k \in Nat : c * (m - (k + 1)) = c * (m - k) + (- c)
      OBVIOUS
    <2>4. campaign.credit \in Nat /\ campaign.max \in Nat /\ campaign.claims \in Nat
      BY <1>1 DEF Campaign
    <2> HIDE DEF next, campaign
    <2> QED
      BY <2>1, <2>2, <2>3, <2>4
  <1>4. /\ campaigns' = [campaigns EXCEPT ![p][n] = next]
        /\ accounted' = [accounted EXCEPT ![p] = @ + (- campaign.credit)]
        /\ balance' = [balance EXCEPT ![p] = @ + (- campaign.credit)]
    <2>1. campaign.credit \in Nat
      BY <1>1 DEF Campaign
    <2>2. accounted[p] \in Nat /\ balance[p] \in Nat
      BY DEF IInv, TypeOK
    <2> QED
      BY <2>1, <2>2 DEF Admitted, Pay
  <1>5. - campaign.credit \in Int
    BY <1>1 DEF Campaign
  <1> HIDE DEF next
  <1> QED
    BY <1>2, <1>3, <1>4, <1>5, SolventMoves

\* No earlier payment of the lineage has the wallet or the evidence.
LEMMA PayOnce ==
    ASSUME IInv, NEW p \in Pools, NEW n \in Numbers, NEW pair \in Pairs, Admitted(p, n, pair),
           NEW a \in payments, SameLineage(a, NewPayment(p, n, pair))
    PROVE  a.pair.wallet # pair.wallet /\ Evidence(a.pair) \cap Evidence(pair) = {}
  <1> DEFINE new == NewPayment(p, n, pair)
  <1>1. /\ new.pool = p /\ new.number = n /\ new.sponsor = campaigns[p][n].sponsor
        /\ a.pool \in Pools
    BY DEF NewPayment, IInv, TypeOK, Payment
  <1>2. /\ <<a.number, a.pair.wallet>> \in claimed[a.pool]
        /\ {a.number} \X Evidence(a.pair) \subseteq consumed[a.pool]
        /\ a.pool = "v2" => /\ <<a.sponsor, a.pair.wallet>> \in sponsorClaimed
                            /\ {a.sponsor} \X Evidence(a.pair) \subseteq sponsorConsumed
    BY DEF IInv, Marked
  <1>3. CASE a.pool = "v1" /\ p = "v1" /\ a.number = n
    BY <1>2, <1>3 DEF Admitted
  <1>4. CASE a.pool = "v2" /\ p = "v2" /\ a.sponsor = campaigns[p][n].sponsor
    BY <1>2, <1>4 DEF Admitted, UnusedBySponsor
  <1>5. CASE IsLegacy(a) /\ p = "v2"
    BY <1>2, <1>5 DEF Admitted, UnusedInLegacy, IsLegacy
  <1>6. CASE p = "v1" /\ n = LegacyNumber /\ a.pool = "v2"
    <2>1. binding.deadline = Predecessor.deadline /\ ReleasesUnlocked
      BY <1>6 DEF IInv, Succeeds
    <2>2. Predecessor \in Campaign
      BY <1>6, Affordable DEF Predecessor
    <2>3. now <= Predecessor.deadline /\ Predecessor.claims < Predecessor.max
      BY <1>6 DEF Admitted, Releasable, Predecessor
    <2> QED
      BY <2>1, <2>2, <2>3 DEF ReleasesUnlocked, Campaign, IInv, TypeOK
  <1> HIDE DEF new
  <1> QED
    BY <1>1, <1>3, <1>4, <1>5, <1>6 DEF SameLineage, IsLegacy, Pools, new

LEMMA PayKeeps ==
    ASSUME IInv, NEW p \in Pools, NEW n \in Numbers, NEW pair \in Pairs, Admitted(p, n, pair)
    PROVE  IInv'
  <1> DEFINE new == NewPayment(p, n, pair)
             campaign == campaigns[p][n]
  <1>1. /\ payments' = payments \cup {new} /\ new \in Payment
        /\ PaymentsOf(p, n)' = PaymentsOf(p, n) \cup {new} /\ new \notin PaymentsOf(p, n)
        /\ \A q \in Pools, m \in Numbers : q # p \/ m # n => PaymentsOf(q, m)' = PaymentsOf(q, m)
        /\ campaigns'[p][n] = [campaign EXCEPT !.claims = @ + 1]
        /\ \A q \in Pools, m \in Numbers : q # p \/ m # n => campaigns'[q][m] = campaigns[q][m]
        /\ campaign.sponsor \in Sponsors /\ ~campaign.recovered /\ n <= campaignCount[p]
    BY PayFacts
  <1>2. new.pool = p /\ new.number = n /\ new.sponsor = campaign.sponsor /\ new.pair = pair
    BY DEF NewPayment
  <1>3. campaign \in Campaign /\ campaign.claims < campaign.max
    BY Affordable DEF Admitted, Releasable
  <1>4. \A q \in Pools, m \in Numbers :
           LET old == campaigns[q][m]
               next == campaigns'[q][m]
           IN  /\ next.sponsor = old.sponsor /\ next.max = old.max /\ next.deadline = old.deadline
               /\ next.recovered = old.recovered
               /\ next.claims = old.claims + IF q = p /\ m = n THEN 1 ELSE 0
    <2> TAKE q \in Pools, m \in Numbers
    <2>1. campaigns[q][m] \in Campaign
      BY Affordable
    <2>2. CASE q = p /\ m = n
      BY <1>1, <1>3, <2>2 DEF Campaign
    <2>3. CASE q # p \/ m # n
      BY <1>1, <2>1, <2>3 DEF Campaign
    <2> QED
      BY <2>2, <2>3
  <1>5. UNCHANGED <<now, attested, campaignCount, binding>>
    BY DEF Admitted, Pay
  <1>6. /\ claimed' = [claimed EXCEPT ![p] = @ \cup {<<n, pair.wallet>>}]
        /\ consumed' = [consumed EXCEPT ![p] = @ \cup ({n} \X Evidence(pair))]
        /\ stack' = Append(stack, p)
    BY DEF Admitted, Pay
  <1>7. IF p = "v1" THEN UNCHANGED <<sponsorClaimed, sponsorConsumed>>
        ELSE /\ sponsorClaimed' = sponsorClaimed \cup {<<campaign.sponsor, pair.wallet>>}
             /\ sponsorConsumed' = sponsorConsumed \cup ({campaign.sponsor} \X Evidence(pair))
    BY DEF Admitted, ConsumeBySponsor
  <1>8. pair.wallet \in Wallets /\ Evidence(pair) \subseteq AllEvidence
    BY PairTypes
  <1> HIDE DEF new, campaign
  <1>9. TypeOK'
    <2>1. claimed' \in [Pools -> SUBSET (Numbers \X Wallets)]
      BY <1>6, <1>8 DEF IInv, TypeOK
    <2>2. consumed' \in [Pools -> SUBSET (Numbers \X AllEvidence)]
      BY <1>6, <1>8 DEF IInv, TypeOK
    <2>3. sponsorClaimed' \subseteq Sponsors \X Wallets /\ sponsorConsumed' \subseteq Sponsors \X AllEvidence
      BY <1>1, <1>7, <1>8 DEF IInv, TypeOK
    <2>4. stack' \in Seq(Pools) /\ payments' \subseteq Payment
      BY <1>1, <1>6 DEF IInv, TypeOK
    <2> QED
      BY <1>5, <2>1, <2>2, <2>3, <2>4, PaySolvent DEF IInv, TypeOK
  <1>10. Opened'
    <2> SUFFICES ASSUME NEW q \in Pools, NEW m \in Numbers
                 PROVE  LET c == campaigns'[q][m] IN
                        IF m <= campaignCount[q]
                        THEN c.sponsor \in Sponsors /\ c.max > 0 /\ c.claims <= c.max
                        ELSE c = NoCampaign
      BY <1>5 DEF IInv, Opened
    <2>1. CASE q = p /\ m = n
      <3>1. campaign.claims + 1 <= campaign.max
        BY <1>3 DEF Campaign
      <3> QED
        BY <1>1, <1>4, <2>1, <3>1 DEF IInv, Opened, campaign
    <2>2. CASE q # p \/ m # n
      BY <1>1, <2>2 DEF IInv, Opened
    <2> QED
      BY <2>1, <2>2
  <1>11. Marked'
    <2> SUFFICES ASSUME NEW payment \in payments'
                 PROVE  /\ payment.sponsor = campaigns'[payment.pool][payment.number].sponsor
                        /\ <<payment.number, payment.pair.wallet>> \in claimed'[payment.pool]
                        /\ {payment.number} \X Evidence(payment.pair) \subseteq consumed'[payment.pool]
                        /\ payment.pool = "v2" =>
                              /\ <<payment.sponsor, payment.pair.wallet>> \in sponsorClaimed'
                              /\ {payment.sponsor} \X Evidence(payment.pair) \subseteq sponsorConsumed'
      BY DEF Marked
    <2>1. claimed \in [Pools -> SUBSET (Numbers \X Wallets)] /\ consumed \in [Pools -> SUBSET (Numbers \X AllEvidence)]
      BY DEF IInv, TypeOK
    <2>2. /\ \A q \in Pools : claimed[q] \subseteq claimed'[q] /\ consumed[q] \subseteq consumed'[q]
          /\ sponsorClaimed \subseteq sponsorClaimed' /\ sponsorConsumed \subseteq sponsorConsumed'
      BY <1>6, <1>7, <2>1
    <2>3. CASE payment \in payments
      <3>1. payment.pool \in Pools /\ payment.number \in Numbers
        BY <2>3 DEF IInv, TypeOK, Payment
      <3> QED
        BY <1>4, <2>2, <2>3, <3>1 DEF IInv, Marked
    <2>4. CASE payment = new
      <3>1. /\ <<n, pair.wallet>> \in claimed'[p]
            /\ {n} \X Evidence(pair) \subseteq consumed'[p]
        BY <1>6, <2>1
      <3>2. campaigns'[p][n].sponsor = campaign.sponsor
        BY <1>4 DEF campaign
      <3> QED
        BY <1>2, <1>7, <2>4, <3>1, <3>2
    <2> QED
      BY <1>1, <2>3, <2>4
  <1>12. Succeeds'
    <2>1. 1 \in Numbers
      BY NumbersAssumption DEF Numbers
    <2>2. /\ Predecessor'.sponsor = Predecessor.sponsor /\ Predecessor'.deadline = Predecessor.deadline
          /\ Predecessor'.max = Predecessor.max
      BY <1>4, <2>1 DEF Predecessor, LegacyNumber, Pools
    <2>3. Predecessor.claims = Predecessor.max => Predecessor'.claims = Predecessor.claims
      <3>1. Predecessor \in Campaign
        BY <2>1, Affordable DEF Predecessor, LegacyNumber, Pools
      <3>2. p = "v1" /\ n = 1 => Predecessor.claims # Predecessor.max
        BY <1>3, <3>1 DEF Predecessor, LegacyNumber, campaign, Campaign
      <3>3. ~(p = "v1" /\ n = 1) => Predecessor'.claims = Predecessor.claims
        BY <1>1, <2>1 DEF Predecessor, LegacyNumber, Pools
      <3> QED
        BY <3>2, <3>3
    <2>4. ReleasesUnlocked => ReleasesUnlocked'
      BY <1>5, <2>2, <2>3 DEF ReleasesUnlocked
    <2>5. p = "v2" => binding.bound /\ ReleasesUnlocked
      <3>1. p = "v2" => campaignCount["v2"] # 0
        BY <1>1, NumbersAssumption DEF IInv, TypeOK, Numbers
      <3> QED
        BY <3>1 DEF IInv, Succeeds, Admitted
    <2>6. IF binding'.bound THEN Predecessor'.sponsor # Nobody /\ binding'.deadline = Predecessor'.deadline
          ELSE campaignCount'["v2"] = 0
      BY <1>5, <2>2 DEF IInv, Succeeds
    <2>7. (\E payment \in payments' : payment.pool = "v2") => binding'.bound /\ ReleasesUnlocked'
      BY <1>1, <1>2, <1>5, <2>4, <2>5 DEF IInv, Succeeds
    <2> QED
      BY <2>6, <2>7 DEF Succeeds
  <1>13. RecoveredClosed'
    BY <1>4, <1>5 DEF IInv, RecoveredClosed, Closed
  <1>14. PaymentsFinite' /\ Bookkeeping'
    <2> SUFFICES ASSUME NEW q \in Pools, NEW m \in Numbers
                 PROVE  /\ IsFiniteSet(PaymentsOf(q, m)')
                        /\ campaigns'[q][m].claims = Cardinality(PaymentsOf(q, m)')
                        /\ campaigns'[q][m].claims <= campaigns'[q][m].max
                        /\ {w \in Wallets : <<m, w>> \in claimed'[q]} = {payment.pair.wallet : payment \in PaymentsOf(q, m)'}
      BY DEF PaymentsFinite, Bookkeeping
    <2>1. /\ IsFiniteSet(PaymentsOf(q, m)) /\ campaigns[q][m].claims = Cardinality(PaymentsOf(q, m))
          /\ campaigns[q][m].claims <= campaigns[q][m].max
          /\ {w \in Wallets : <<m, w>> \in claimed[q]} = {payment.pair.wallet : payment \in PaymentsOf(q, m)}
      BY DEF IInv, PaymentsFinite, Bookkeeping
    <2>2. claimed \in [Pools -> SUBSET (Numbers \X Wallets)]
      BY DEF IInv, TypeOK
    <2>3. CASE q = p /\ m = n
      <3>1. IsFiniteSet(PaymentsOf(p, n)') /\ Cardinality(PaymentsOf(p, n)') = Cardinality(PaymentsOf(p, n)) + 1
        BY <1>1, <2>1, <2>3, FS_AddElement
      <3>2. {w \in Wallets : <<n, w>> \in claimed'[p]} = {w \in Wallets : <<n, w>> \in claimed[p]} \cup {pair.wallet}
        BY <1>6, <1>8, <2>2
      <3>3. {payment.pair.wallet : payment \in PaymentsOf(p, n)'}
              = {payment.pair.wallet : payment \in PaymentsOf(p, n)} \cup {pair.wallet}
        BY <1>1, <1>2
      <3>4. campaigns'[p][n].claims = campaign.claims + 1 /\ campaigns'[p][n].max = campaign.max
        BY <1>4 DEF campaign
      <3>5. campaign.claims + 1 <= campaign.max
        BY <1>3 DEF Campaign
      <3> QED
        BY <2>1, <2>3, <3>1, <3>2, <3>3, <3>4, <3>5 DEF campaign
    <2>4. CASE q # p \/ m # n
      <3>1. {w \in Wallets : <<m, w>> \in claimed'[q]} = {w \in Wallets : <<m, w>> \in claimed[q]}
        BY <1>6, <2>2, <2>4
      <3>2. PaymentsOf(q, m)' = PaymentsOf(q, m) /\ campaigns'[q][m] = campaigns[q][m]
        BY <1>1, <2>4
      <3> QED
        BY <2>1, <3>1, <3>2
    <2> QED
      BY <2>3, <2>4
  <1>15. OneCreditPerWallet'
    <2> SUFFICES ASSUME NEW a \in payments', NEW b \in payments', a # b, SameLineage(a, b)
                 PROVE  a.pair.wallet # b.pair.wallet /\ Evidence(a.pair) \cap Evidence(b.pair) = {}
      BY DEF OneCreditPerWallet, SameLineage, IsLegacy, Evidence
    <2>1. SameLineage(b, a)
      BY DEF SameLineage
    <2>2. CASE a \in payments /\ b \in payments
      BY <2>2 DEF IInv, OneCreditPerWallet
    <2>3. CASE a \in payments /\ b = new
      BY <1>2, <2>3, PayOnce DEF new
    <2>4. CASE a = new /\ b \in payments
      BY <1>2, <2>1, <2>4, PayOnce DEF new
    <2> QED
      BY <1>1, <2>2, <2>3, <2>4
  <1> QED
    BY <1>9, <1>10, <1>11, <1>12, <1>13, <1>14, <1>15, PaySolvent DEF IInv

-----------------------------------------------------------------------------
(* A refund *)

LEMMA RecoverKeeps ==
    ASSUME IInv, NEW p \in Pools, NEW n \in Numbers, RecoverRemainder(p, n)
    PROVE  IInv'
  <1> DEFINE campaign == campaigns[p][n]
             next == [campaign EXCEPT !.recovered = TRUE]
             remainder == Remaining(campaign)
  <1>1. campaign \in Campaign /\ campaign.claims <= campaign.max /\ remainder \in Nat
    BY Affordable, RemainingType
  <1>2. campaign.sponsor # Nobody /\ Closed(campaign) /\ ~campaign.recovered
    BY DEF RecoverRemainder
  <1>3. campaigns' = [campaigns EXCEPT ![p][n] = next]
    BY DEF RecoverRemainder
  <1>4. next \in Campaign /\ next.claims <= next.max /\ Remaining(next) = 0
    BY <1>1 DEF Campaign, Remaining
  <1>5. accounted' = [accounted EXCEPT ![p] = @ + (- remainder)] /\ balance' = [balance EXCEPT ![p] = @ + (- remainder)]
    <2>1. accounted[p] \in Nat /\ balance[p] \in Nat
      BY DEF IInv, TypeOK
    <2> HIDE DEF remainder
    <2>2. accounted' = [accounted EXCEPT ![p] = @ - remainder] /\ balance' = [balance EXCEPT ![p] = @ - remainder]
      BY DEF RecoverRemainder, remainder
    <2> QED
      BY <1>1, <2>1, <2>2
  <1>6. /\ Solvent'
        /\ campaigns' \in [Pools -> [Numbers -> Campaign]]
        /\ accounted' \in [Pools -> Nat] /\ balance' \in [Pools -> Nat]
    <2> HIDE DEF next, remainder
    <2>1. Remaining(next) = Remaining(campaign) + (- remainder) /\ - remainder \in Int
      BY <1>1, <1>4 DEF remainder
    <2> QED
      BY <1>3, <1>4, <1>5, <2>1, SolventMoves
  <1>7. UNCHANGED <<now, attested, campaignCount, marks, binding, payments>> /\ stack' \in Seq(Pools)
    BY DEF RecoverRemainder, IInv, TypeOK
  <1>8. \A q \in Pools, m \in Numbers :
           IF q = p /\ m = n THEN campaigns'[q][m] = next ELSE campaigns'[q][m] = campaigns[q][m]
    BY <1>3 DEF IInv, TypeOK
  <1>9. \A q \in Pools, m \in Numbers :
           LET old == campaigns[q][m]
               new == campaigns'[q][m]
           IN  /\ new.sponsor = old.sponsor /\ new.max = old.max /\ new.deadline = old.deadline
               /\ new.claims = old.claims
               /\ new.recovered => old.recovered \/ Closed(old)
    BY <1>1, <1>2, <1>8 DEF Campaign
  <1>10. n <= campaignCount[p]
    BY <1>2 DEF IInv, Opened, NoCampaign
  <1> HIDE DEF campaign, next
  <1>11. TypeOK'
    BY <1>6, <1>7 DEF IInv, TypeOK, marks
  <1>12. Opened'
    BY <1>7, <1>8, <1>9, <1>10 DEF IInv, Opened
  <1>13. Marked'
    <2> SUFFICES ASSUME NEW payment \in payments
                 PROVE  payment.sponsor = campaigns'[payment.pool][payment.number].sponsor
      BY <1>7 DEF IInv, Marked, marks
    <2>1. payment.pool \in Pools /\ payment.number \in Numbers
      BY DEF IInv, TypeOK, Payment
    <2> QED
      BY <1>9, <2>1 DEF IInv, Marked
  <1>14. Succeeds'
    <2>1. LegacyNumber \in Numbers /\ "v1" \in Pools
      BY NumbersAssumption DEF Numbers, LegacyNumber, Pools
    <2>2. /\ Predecessor'.sponsor = Predecessor.sponsor /\ Predecessor'.deadline = Predecessor.deadline
          /\ Predecessor'.claims = Predecessor.claims /\ Predecessor'.max = Predecessor.max
      BY <1>9, <2>1 DEF Predecessor
    <2> QED
      BY <1>7, <2>2 DEF IInv, Succeeds, ReleasesUnlocked
  <1>15. RecoveredClosed'
    BY <1>7, <1>9 DEF IInv, RecoveredClosed, Closed
  <1>16. \A q \in Pools, m \in Numbers : PaymentsOf(q, m)' = PaymentsOf(q, m)
    BY <1>7 DEF PaymentsOf
  <1>17. PaymentsFinite' /\ OneCreditPerWallet'
    BY <1>7, <1>16 DEF IInv, PaymentsFinite, OneCreditPerWallet
  <1>18. Bookkeeping'
    BY <1>7, <1>9, <1>16 DEF IInv, Bookkeeping, marks
  <1> QED
    BY <1>6, <1>11, <1>12, <1>13, <1>14, <1>15, <1>17, <1>18 DEF IInv

-----------------------------------------------------------------------------
(* Every step *)

\* The predecessor, once it is there, is not written by a new campaign.
LEMMA PredecessorStays ==
    ASSUME IInv, NEW p \in Pools, NEW sponsor \in Sponsors, NEW terms \in Terms, NEW deadline \in Nat,
           Open(p, sponsor, terms, deadline), p = "v2" \/ Predecessor.sponsor # Nobody
    PROVE  Predecessor' = Predecessor
  <1>1. LegacyNumber \in Numbers
    BY NumbersAssumption DEF Numbers, LegacyNumber
  <1>2. p = "v1" => campaignCount[p] + 1 # LegacyNumber
    <2>1. p = "v1" => LegacyNumber <= campaignCount[p]
      BY <1>1 DEF IInv, Opened, Predecessor, NoCampaign
    <2> QED
      BY <2>1 DEF LegacyNumber, IInv, TypeOK
  <1> QED
    BY <1>1, <1>2 DEF Open, Predecessor, IInv, TypeOK, Pools

LEMMA CreationKeeps ==
    ASSUME IInv, NEW sponsor \in Sponsors, NEW terms \in Terms, NEW deadline \in 1..(MaxTime + MaxDuration),
           CreateV1(sponsor, terms, deadline) \/ DeployV2(sponsor, terms, deadline) \/ CreateV2(sponsor, terms, deadline)
    PROVE  IInv'
  <1>1. deadline \in Nat /\ "v1" \in Pools /\ "v2" \in Pools
    BY NumbersAssumption DEF Pools
  <1>2. CASE CreateV1(sponsor, terms, deadline)
    <2>1. Open("v1", sponsor, terms, deadline) /\ UNCHANGED <<now, attested, marks, binding, stack, payments>>
      BY <1>2 DEF CreateV1
    <2>2. campaignCount'["v2"] = campaignCount["v2"]
      BY <2>1 DEF Open, IInv, TypeOK
    <2>3. binding.bound => Predecessor' = Predecessor
      BY <1>1, <2>1, PredecessorStays DEF IInv, Succeeds
    <2>4. Succeeds'
      BY <2>1, <2>2, <2>3 DEF IInv, Succeeds, ReleasesUnlocked
    <2> QED
      BY <1>1, <2>1, <2>4, OpenKeeps DEF IInv, TypeOK
  <1>3. CASE DeployV2(sponsor, terms, deadline)
    <2>1. /\ Open("v2", sponsor, terms, deadline) /\ UNCHANGED <<now, attested, marks, stack, payments>>
          /\ ~binding.bound /\ Predecessor.sponsor # Nobody
          /\ binding' = [bound |-> TRUE, sponsor |-> Predecessor.sponsor, deadline |-> Predecessor.deadline]
      BY <1>3 DEF DeployV2
    <2>2. Predecessor' = Predecessor
      BY <1>1, <2>1, PredecessorStays
    <2>3. Succeeds'
      BY <2>1, <2>2 DEF IInv, Succeeds
    <2>4. binding' \in [bound : BOOLEAN, sponsor : Sponsors \cup {Nobody}, deadline : Nat]
      <3>1. Predecessor \in Campaign
        BY <1>1, Affordable, NumbersAssumption DEF Predecessor, Numbers, LegacyNumber
      <3> QED
        BY <2>1, <3>1 DEF Campaign
    <2> QED
      BY <1>1, <2>1, <2>3, <2>4, OpenKeeps
  <1>4. CASE CreateV2(sponsor, terms, deadline)
    <2>1. /\ Open("v2", sponsor, terms, deadline) /\ UNCHANGED <<now, attested, marks, binding, stack, payments>>
          /\ binding.bound
      BY <1>4 DEF CreateV2
    <2>2. Predecessor' = Predecessor
      BY <1>1, <2>1, PredecessorStays
    <2>3. Succeeds'
      BY <2>1, <2>2 DEF IInv, Succeeds, ReleasesUnlocked
    <2> QED
      BY <1>1, <2>1, <2>3, OpenKeeps DEF IInv, TypeOK
  <1> QED
    BY <1>2, <1>3, <1>4

\* A release of either pool is an admitted payment.
LEMMA ReleaseAdmits ==
    ASSUME NEW n \in Numbers, NEW pair \in Pairs
    PROVE  /\ ReleaseV1(n, pair) => Admitted("v1", n, pair)
           /\ ReleaseV2(n, pair) => Admitted("v2", n, pair)
  <1>1. ReleaseV1(n, pair) => Admitted("v1", n, pair)
    BY DEF ReleaseV1, Admitted
  <1>2. ASSUME ReleaseV2(n, pair) PROVE Admitted("v2", n, pair)
    <2>1. /\ Releasable("v2", n) /\ ReleasesUnlocked /\ UnusedInLegacy(pair)
          /\ UnusedBySponsor(campaigns["v2"][n].sponsor, pair)
          /\ ConsumeBySponsor(campaigns["v2"][n].sponsor, pair) /\ Pay("v2", n, pair)
      BY <1>2 DEF ReleaseV2
    <2> QED
      BY <2>1 DEF Admitted
  <1> QED
    BY <1>1, <1>2

LEMMA NextIInv == IInv /\ [Next]_vars => IInv'
  <1> SUFFICES ASSUME IInv, [Next]_vars PROVE IInv'
    OBVIOUS
  <1>1. CASE NextBlock
    BY <1>1, QuietKeeps DEF NextBlock, IInv, TypeOK
  <1>2. CASE Attest
    <2>1. /\ now' = now /\ attested' = attested + 1 /\ stack' = stack
          /\ UNCHANGED <<storage, marks, binding, payments>>
      BY <1>2 DEF Attest
    <2> QED
      BY <2>1, QuietKeeps DEF IInv, TypeOK
  <1>3. CASE Return
    <2>1. stack' \in Seq(Pools)
      BY <1>3 DEF Return, IInv, TypeOK
    <2>2. now' = now /\ attested' = attested /\ UNCHANGED <<storage, marks, binding, payments>>
      BY <1>3 DEF Return
    <2> QED
      BY <2>1, <2>2, QuietKeeps DEF IInv, TypeOK
  <1>4. ASSUME NEW sponsor \in Sponsors, NEW terms \in Terms, NEW deadline \in 1..(MaxTime + MaxDuration),
               CreateV1(sponsor, terms, deadline) \/ DeployV2(sponsor, terms, deadline) \/ CreateV2(sponsor, terms, deadline)
        PROVE  IInv'
    BY <1>4, CreationKeeps
  <1>5. ASSUME NEW n \in Numbers, NEW pair \in Pairs, ReleaseV1(n, pair) \/ ReleaseV2(n, pair)
        PROVE  IInv'
    BY <1>5, ReleaseAdmits, PayKeeps DEF Pools
  <1>6. ASSUME NEW p \in Pools, NEW n \in Numbers, RecoverRemainder(p, n)
        PROVE  IInv'
    BY <1>6, RecoverKeeps
  <1>7. CASE UNCHANGED vars
    <2>1. /\ now' = now /\ attested' = attested /\ stack' = stack
          /\ UNCHANGED <<storage, marks, binding, payments>>
      BY <1>7 DEF vars
    <2> QED
      BY <2>1, QuietKeeps DEF IInv, TypeOK
  <1> QED
    BY <1>1, <1>2, <1>3, <1>4, <1>5, <1>6, <1>7 DEF Next

LEMMA Invariance == Spec => []IInv
  BY InitIInv, NextIInv, PTL DEF Spec

\* What was paid was owed to that wallet, once in its lineage, out of its own
\* campaign's money, and both pools hold exactly what they still owe, also
\* while a recipient is calling back (releaseCredit, recoverRemainder).
THEOREM PaymentsAlwaysSound == Spec => []PaymentsSound
  <1>1. IInv => PaymentsSound
    BY DEF IInv, PaymentsSound
  <1> QED
    BY <1>1, Invariance, PTL

-----------------------------------------------------------------------------
(* A refund is final *)

\* What a step may do to campaigns and payments.
Moves(p, n) == /\ campaigns'[p][n] = campaigns[p][n]
               /\ PaymentsOf(p, n)' = PaymentsOf(p, n)

LEMMA OpenMoves ==
    ASSUME IInv, NEW q \in Pools, NEW sponsor \in Sponsors, NEW terms \in Terms, NEW deadline \in Nat,
           Open(q, sponsor, terms, deadline), payments' = payments,
           NEW p \in Pools, NEW n \in Numbers, campaigns[p][n].recovered
    PROVE  Moves(p, n)
  <1>1. q # p \/ n # campaignCount[q] + 1
    BY NumbersAssumption DEF IInv, TypeOK, Opened, NoCampaign, Numbers
  <1>2. campaigns'[p][n] = campaigns[p][n]
    BY <1>1 DEF Open, IInv, TypeOK
  <1> QED
    BY <1>2 DEF Moves, PaymentsOf

LEMMA PayElsewhere ==
    ASSUME IInv, NEW p \in Pools, NEW n \in Numbers, NEW pair \in Pairs, Admitted(p, n, pair)
    PROVE  /\ ~campaigns[p][n].recovered
           /\ \A q \in Pools, m \in Numbers : q # p \/ m # n => Moves(q, m)
  <1>1. /\ \A q \in Pools, m \in Numbers : q # p \/ m # n => PaymentsOf(q, m)' = PaymentsOf(q, m)
        /\ \A q \in Pools, m \in Numbers : q # p \/ m # n => campaigns'[q][m] = campaigns[q][m]
        /\ ~campaigns[p][n].recovered
    BY PayFacts
  <1> QED
    BY <1>1 DEF Moves

LEMMA RecoveredStays ==
    ASSUME IInv, [Next]_vars, NEW p \in Pools, NEW n \in Numbers, campaigns[p][n].recovered
    PROVE  Moves(p, n)
  <1>1. CASE NextBlock \/ Attest \/ Return \/ UNCHANGED vars
    <2>1. campaigns' = campaigns /\ payments' = payments
      BY <1>1 DEF NextBlock, Attest, Return, vars, storage
    <2> QED
      BY <2>1 DEF Moves, PaymentsOf
  <1>2. ASSUME NEW sponsor \in Sponsors, NEW terms \in Terms, NEW deadline \in 1..(MaxTime + MaxDuration),
               CreateV1(sponsor, terms, deadline) \/ DeployV2(sponsor, terms, deadline) \/ CreateV2(sponsor, terms, deadline)
        PROVE  Moves(p, n)
    <2>1. payments' = payments /\ \E q \in Pools : Open(q, sponsor, terms, deadline)
      BY <1>2 DEF CreateV1, DeployV2, CreateV2, Pools
    <2>2. deadline \in Nat
      BY NumbersAssumption
    <2> QED
      BY <2>1, <2>2, OpenMoves
  <1>3. ASSUME NEW m \in Numbers, NEW pair \in Pairs, ReleaseV1(m, pair) \/ ReleaseV2(m, pair)
        PROVE  Moves(p, n)
    <2>1. PICK q \in Pools : Admitted(q, m, pair)
      BY <1>3, ReleaseAdmits DEF Pools
    <2> QED
      BY <2>1, PayElsewhere
  <1>4. ASSUME NEW q \in Pools, NEW m \in Numbers, RecoverRemainder(q, m)
        PROVE  Moves(p, n)
    <2>1. q # p \/ m # n
      BY <1>4 DEF RecoverRemainder
    <2>2. campaigns'[p][n] = campaigns[p][n] /\ payments' = payments
      BY <1>4, <2>1 DEF RecoverRemainder, IInv, TypeOK
    <2> QED
      BY <2>2 DEF Moves, PaymentsOf
  <1> QED
    BY <1>1, <1>2, <1>3, <1>4 DEF Next

\* Once a sponsor recovered a remainder, the campaign neither pays nor refunds
\* again (recoverRemainder, releaseCredit).
THEOREM RecoveredStaysFinal == Spec => RecoveredIsFinal
  <1>1. IInv /\ [Next]_vars =>
            [\A p \in Pools, n \in Numbers : campaigns[p][n].recovered =>
                campaigns'[p][n] = campaigns[p][n] /\ PaymentsOf(p, n)' = PaymentsOf(p, n)]_vars
    BY RecoveredStays DEF Moves
  <1> QED
    BY <1>1, Invariance, PTL DEF Spec, RecoveredIsFinal

-----------------------------------------------------------------------------
(* The pools implement the lineage *)

LEMMA InitRefines == Init => Lineage!Init
  <1> SUFFICES ASSUME Init PROVE Lineage!Init
    OBVIOUS
  <1>1. payments = {} /\ Cardinality({}) = 0
    BY FS_EmptySet DEF Init
  <1>2. LegacyCredits = [w \in Wallets |-> 0] /\ SponsorCredits = [sw \in Sponsors \X Wallets |-> 0]
    <2>1. \A w \in Wallets : LegacyCredits[w] = 0
      <3> TAKE w \in Wallets
      <3>1. {payment \in payments : IsLegacy(payment) /\ payment.pair.wallet = w} = {}
        BY <1>1
      <3> QED
        BY <1>1, <3>1 DEF LegacyCredits
    <2>2. \A sw \in Sponsors \X Wallets : SponsorCredits[sw] = 0
      <3> TAKE sw \in Sponsors \X Wallets
      <3>1. {payment \in payments : /\ payment.pool = "v2"
                                    /\ payment.sponsor = sw[1]
                                    /\ payment.pair.wallet = sw[2]} = {}
        BY <1>1
      <3> QED
        BY <1>1, <3>1 DEF SponsorCredits
    <2> QED
      BY <2>1, <2>2 DEF LegacyCredits, SponsorCredits
  <1>3. Sealed = FALSE
    <2>1. LegacyNumber \in Numbers /\ "v1" \in Pools
      BY NumbersAssumption DEF Numbers, LegacyNumber, Pools
    <2>2. Predecessor.sponsor = Nobody
      BY <2>1 DEF Init, Predecessor, NoCampaign
    <2> QED
      BY <2>2 DEF Sealed
  <1> QED
    BY <1>2, <1>3 DEF Lineage!Init

LEMMA SameCredits ==
    ASSUME payments' = payments PROVE LegacyCredits' = LegacyCredits /\ SponsorCredits' = SponsorCredits
  BY DEF LegacyCredits, SponsorCredits

\* A step that pays nobody and does not unseal the predecessor.
LEMMA QuietRefines ==
    ASSUME payments' = payments, Sealed => Sealed' PROVE [Lineage!Next]_Lineage!vars
  <1>1. CASE Sealed' = Sealed
    BY <1>1, SameCredits DEF Lineage!vars
  <1>2. CASE Sealed' # Sealed
    <2>1. Sealed' = TRUE
      BY <1>2 DEF Sealed
    <2> QED
      BY <2>1, SameCredits DEF Lineage!Next, Lineage!Seal
  <1> QED
    BY <1>1, <1>2

LegacyPaid(w) == {payment \in payments : IsLegacy(payment) /\ payment.pair.wallet = w}
SponsorPaid(sw) == {payment \in payments : /\ payment.pool = "v2"
                                           /\ payment.sponsor = sw[1]
                                           /\ payment.pair.wallet = sw[2]}

\* The first credit of a wallet in a set of payments is its only one.
LEMMA FirstCredit == \A x : Cardinality({x}) = 1
  BY FS_Singleton

LEMMA SealedMeans ==
    IInv => /\ (binding.bound /\ ReleasesUnlocked => Sealed)
            /\ (Releasable("v1", LegacyNumber) => ~Sealed)
  <1> SUFFICES ASSUME IInv
               PROVE  /\ (binding.bound /\ ReleasesUnlocked => Sealed)
                      /\ (Releasable("v1", LegacyNumber) => ~Sealed)
    OBVIOUS
  <1>1. Predecessor \in Campaign
    BY Affordable, NumbersAssumption DEF Predecessor, Numbers, LegacyNumber, Pools
  <1>2. binding.bound /\ ReleasesUnlocked => Sealed
    BY DEF IInv, Succeeds, ReleasesUnlocked, Sealed
  <1>3. Releasable("v1", LegacyNumber) => ~Sealed
    <2>1. now \in Nat /\ Predecessor.deadline \in Nat /\ Predecessor.claims \in Nat /\ Predecessor.max \in Nat
      BY <1>1 DEF IInv, TypeOK, Campaign
    <2> QED
      BY <2>1 DEF Releasable, Sealed, Predecessor
  <1> QED
    BY <1>2, <1>3

LEMMA LegacyRefines ==
    ASSUME IInv, NEW pair \in Pairs, Admitted("v1", LegacyNumber, pair)
    PROVE  Lineage!Next
  <1> DEFINE new == NewPayment("v1", LegacyNumber, pair)
             w == pair.wallet
  <1>1. LegacyNumber \in Numbers /\ "v1" \in Pools /\ w \in Wallets
    BY NumbersAssumption, PairTypes DEF Numbers, LegacyNumber, Pools
  <1>2. payments' = payments \cup {new} /\ IsLegacy(new) /\ new.pool # "v2" /\ new.pair.wallet = w
    BY DEF Admitted, Pay, NewPayment, IsLegacy
  <1>3. ~Sealed
    BY SealedMeans DEF Admitted
  <1>4. LegacyPaid(w) = {}
    <2>1. ASSUME NEW payment \in payments, IsLegacy(payment), payment.pair.wallet = w PROVE FALSE
      BY <2>1 DEF IInv, Marked, IsLegacy, Admitted
    <2> QED
      BY <2>1 DEF LegacyPaid
  <1>5. LegacyCredits[w] = 0
    BY <1>1, <1>4, FS_EmptySet DEF LegacyCredits, LegacyPaid
  <1> HIDE DEF new
  <1>6. LegacyPaid(w)' = {new}
    BY <1>2, <1>4 DEF LegacyPaid
  <1>7. \A v \in Wallets \ {w} : LegacyPaid(v)' = LegacyPaid(v)
    BY <1>2 DEF LegacyPaid
  <1>8. LegacyCredits' = [LegacyCredits EXCEPT ![w] = 1]
    <2>1. \A v \in Wallets : LegacyCredits'[v] = IF v = w THEN 1 ELSE LegacyCredits[v]
      <3> SUFFICES ASSUME NEW v \in Wallets PROVE LegacyCredits'[v] = IF v = w THEN 1 ELSE LegacyCredits[v]
        OBVIOUS
      <3>1. /\ LegacyCredits'[v] = Cardinality(LegacyPaid(v)')
            /\ LegacyCredits[v] = Cardinality(LegacyPaid(v))
        BY DEF LegacyCredits, LegacyPaid
      <3>2. CASE v = w
        BY <1>6, <3>1, <3>2, FirstCredit
      <3>3. CASE v # w
        BY <1>7, <3>1, <3>3
      <3> QED
        BY <3>2, <3>3
    <2> QED
      BY <2>1 DEF LegacyCredits
  <1>9. SponsorCredits' = SponsorCredits
    <2>1. \A sw \in Sponsors \X Wallets : SponsorPaid(sw)' = SponsorPaid(sw)
      BY <1>2 DEF SponsorPaid
    <2>2. \A sw \in Sponsors \X Wallets : SponsorCredits'[sw] = SponsorCredits[sw]
      BY <2>1 DEF SponsorCredits, SponsorPaid
    <2> QED
      BY <2>2 DEF SponsorCredits
  <1>10. Sealed' \in BOOLEAN
    BY DEF Sealed
  <1> QED
    BY <1>1, <1>3, <1>5, <1>8, <1>9, <1>10 DEF Lineage!Next, Lineage!PayLegacy

LEMMA SuccessorRefines ==
    ASSUME IInv, NEW n \in Numbers, NEW pair \in Pairs, Admitted("v2", n, pair)
    PROVE  Lineage!Next
  <1> PICK s \in Sponsors : s = campaigns["v2"][n].sponsor
    BY PayFacts DEF Pools
  <1> DEFINE new == NewPayment("v2", n, pair)
             w == pair.wallet
  <1>1. w \in Wallets /\ <<s, w>> \in Sponsors \X Wallets
    BY PairTypes
  <1>2. payments' = payments \cup {new} /\ ~IsLegacy(new) /\ new.pool = "v2" /\ new.sponsor = s /\ new.pair.wallet = w
    BY DEF Admitted, Pay, NewPayment, IsLegacy
  <1>3. UNCHANGED <<now, binding, campaigns["v1"]>> /\ binding.bound /\ Sealed /\ Sealed' = Sealed
    <2>1. campaigns'["v1"] = campaigns["v1"] /\ now' = now /\ binding' = binding
      BY DEF Admitted, Pay, IInv, TypeOK, Pools
    <2>2. binding.bound
      <3>1. n <= campaignCount["v2"]
        BY PayFacts DEF Pools
      <3> QED
        BY <3>1, NumbersAssumption DEF IInv, Succeeds, Numbers
    <2>3. Sealed
      BY <2>2, SealedMeans DEF Admitted
    <2>4. Sealed' = Sealed
      BY <2>1 DEF Sealed, Predecessor
    <2> QED
      BY <2>1, <2>2, <2>3, <2>4
  <1>4. LegacyPaid(w) = {}
    <2>1. <<LegacyNumber, w>> \notin claimed["v1"]
      BY DEF Admitted, UnusedInLegacy
    <2>2. ASSUME NEW payment \in payments, IsLegacy(payment), payment.pair.wallet = w PROVE FALSE
      BY <2>1, <2>2 DEF IInv, Marked, IsLegacy
    <2> QED
      BY <2>2 DEF LegacyPaid
  <1>5. LegacyCredits[w] = 0
    BY <1>1, <1>4, FS_EmptySet DEF LegacyCredits, LegacyPaid
  <1>6. SponsorPaid(<<s, w>>) = {}
    <2>1. <<s, w>> \notin sponsorClaimed
      BY DEF Admitted, UnusedBySponsor
    <2>2. ASSUME NEW payment \in payments, payment.pool = "v2", payment.sponsor = s, payment.pair.wallet = w PROVE FALSE
      BY <2>1, <2>2 DEF IInv, Marked
    <2> QED
      BY <2>2 DEF SponsorPaid
  <1>7. SponsorCredits[<<s, w>>] = 0
    BY <1>1, <1>6, FS_EmptySet DEF SponsorCredits, SponsorPaid
  <1> HIDE DEF new, w
  <1>8. SponsorPaid(<<s, w>>)' = {new}
    BY <1>2, <1>6 DEF SponsorPaid
  <1>9. \A sw \in (Sponsors \X Wallets) \ {<<s, w>>} : SponsorPaid(sw)' = SponsorPaid(sw)
    BY <1>2 DEF SponsorPaid
  <1>10. SponsorCredits' = [SponsorCredits EXCEPT ![<<s, w>>] = 1]
    <2>1. ASSUME NEW sw \in Sponsors \X Wallets
          PROVE  SponsorCredits'[sw] = IF sw = <<s, w>> THEN 1 ELSE SponsorCredits[sw]
      <3>1. SponsorCredits'[sw] = Cardinality(SponsorPaid(sw)') /\ SponsorCredits[sw] = Cardinality(SponsorPaid(sw))
        BY DEF SponsorCredits, SponsorPaid
      <3>2. CASE sw = <<s, w>>
        BY <1>8, <3>1, <3>2, FirstCredit
      <3>3. CASE sw # <<s, w>>
        BY <1>9, <3>1, <3>3
      <3> QED
        BY <3>2, <3>3
    <2> QED
      BY <2>1 DEF SponsorCredits
  <1>11. LegacyCredits' = LegacyCredits
    <2>1. \A v \in Wallets : LegacyPaid(v)' = LegacyPaid(v)
      BY <1>2 DEF LegacyPaid
    <2>2. \A v \in Wallets : LegacyCredits'[v] = LegacyCredits[v]
      BY <2>1 DEF LegacyCredits, LegacyPaid
    <2> QED
      BY <2>2 DEF LegacyCredits
  <1> QED
    BY <1>1, <1>3, <1>5, <1>7, <1>10, <1>11 DEF Lineage!Next, Lineage!Pay

\* Another V1 campaign has a lineage of its own.
LEMMA OtherRefines ==
    ASSUME IInv, NEW n \in Numbers \ {LegacyNumber}, NEW pair \in Pairs, Admitted("v1", n, pair)
    PROVE  Lineage!vars' = Lineage!vars
  <1> DEFINE new == NewPayment("v1", n, pair)
  <1>1. payments' = payments \cup {new} /\ ~IsLegacy(new) /\ new.pool # "v2"
    BY DEF Admitted, Pay, NewPayment, IsLegacy
  <1> HIDE DEF new
  <1>2. LegacyCredits' = LegacyCredits
    <2>1. \A v \in Wallets : LegacyPaid(v)' = LegacyPaid(v)
      BY <1>1 DEF LegacyPaid
    <2>2. \A v \in Wallets : LegacyCredits'[v] = LegacyCredits[v]
      BY <2>1 DEF LegacyCredits, LegacyPaid
    <2> QED
      BY <2>2 DEF LegacyCredits
  <1>3. SponsorCredits' = SponsorCredits
    <2>1. \A sw \in Sponsors \X Wallets : SponsorPaid(sw)' = SponsorPaid(sw)
      BY <1>1 DEF SponsorPaid
    <2>2. \A sw \in Sponsors \X Wallets : SponsorCredits'[sw] = SponsorCredits[sw]
      BY <2>1 DEF SponsorCredits, SponsorPaid
    <2> QED
      BY <2>2 DEF SponsorCredits
  <1>4. Sealed' = Sealed
    <2>1. campaigns'["v1"][LegacyNumber] = campaigns["v1"][LegacyNumber] /\ now' = now
      BY NumbersAssumption DEF Admitted, Pay, IInv, TypeOK, Pools, Numbers, LegacyNumber
    <2> QED
      BY <2>1 DEF Sealed, Predecessor
  <1> QED
    BY <1>2, <1>3, <1>4 DEF Lineage!vars

LEMMA StepRefines == IInv /\ [Next]_vars => [Lineage!Next]_Lineage!vars
  <1> SUFFICES ASSUME IInv, [Next]_vars PROVE [Lineage!Next]_Lineage!vars
    OBVIOUS
  <1>1. LegacyNumber \in Numbers /\ "v1" \in Pools /\ now \in Nat /\ Predecessor \in Campaign
    <2>1. LegacyNumber \in Numbers /\ "v1" \in Pools
      BY NumbersAssumption DEF Numbers, LegacyNumber, Pools
    <2> QED
      BY <2>1, Affordable DEF IInv, TypeOK, Predecessor
  <1>2. CASE NextBlock \/ Attest \/ Return \/ UNCHANGED vars
    <2>1. payments' = payments /\ campaigns' = campaigns /\ (now' = now \/ now' = now + 1)
      BY <1>2 DEF NextBlock, Attest, Return, vars, storage
    <2>2. Predecessor' = Predecessor
      BY <2>1 DEF Predecessor
    <2>3. Sealed => Sealed'
      BY <1>1, <2>1, <2>2 DEF Sealed, Campaign
    <2> QED
      BY <2>1, <2>3, QuietRefines
  <1>3. ASSUME NEW sponsor \in Sponsors, NEW terms \in Terms, NEW deadline \in 1..(MaxTime + MaxDuration),
               CreateV1(sponsor, terms, deadline) \/ DeployV2(sponsor, terms, deadline) \/ CreateV2(sponsor, terms, deadline)
        PROVE  [Lineage!Next]_Lineage!vars
    <2>1. payments' = payments /\ now' = now /\ \E q \in Pools : Open(q, sponsor, terms, deadline)
      BY <1>3 DEF CreateV1, DeployV2, CreateV2, Pools
    <2>2. deadline \in Nat
      BY NumbersAssumption
    <2>3. Sealed => Predecessor' = Predecessor
      BY <2>1, <2>2, PredecessorStays DEF Sealed
    <2>4. Sealed => Sealed'
      BY <2>1, <2>3 DEF Sealed
    <2> QED
      BY <2>1, <2>4, QuietRefines
  <1>4. ASSUME NEW n \in Numbers, NEW pair \in Pairs, ReleaseV1(n, pair) \/ ReleaseV2(n, pair)
        PROVE  [Lineage!Next]_Lineage!vars
    <2>1. CASE Admitted("v1", n, pair) /\ n = LegacyNumber
      BY <2>1, LegacyRefines
    <2>2. CASE Admitted("v1", n, pair) /\ n # LegacyNumber
      BY <2>2, OtherRefines
    <2>3. CASE Admitted("v2", n, pair)
      BY <2>3, SuccessorRefines
    <2> QED
      BY <1>4, <2>1, <2>2, <2>3, ReleaseAdmits
  <1>5. ASSUME NEW q \in Pools, NEW n \in Numbers, RecoverRemainder(q, n)
        PROVE  [Lineage!Next]_Lineage!vars
    <2>1. payments' = payments /\ now' = now /\ campaigns' = [campaigns EXCEPT ![q][n].recovered = TRUE]
      BY <1>5 DEF RecoverRemainder
    <2>2. /\ Predecessor'.sponsor = Predecessor.sponsor /\ Predecessor'.deadline = Predecessor.deadline
          /\ Predecessor'.claims = Predecessor.claims /\ Predecessor'.max = Predecessor.max
      <3>1. campaigns \in [Pools -> [Numbers -> Campaign]]
        BY DEF IInv, TypeOK
      <3> QED
        BY <1>1, <2>1, <3>1 DEF Predecessor, Campaign
    <2>3. Sealed' = Sealed
      BY <2>1, <2>2 DEF Sealed
    <2> QED
      BY <2>1, <2>3, QuietRefines
  <1> QED
    BY <1>2, <1>3, <1>4, <1>5 DEF Next

\* The two pools refine the abstract lineage: the predecessor is sealed before a
\* successor pays, and each side credits a wallet at most once
\* (_legacyReleasesUnlocked, _consumeRelease).
THEOREM PoolsImplementLineage == Spec => ImplementsLineage
  <1>1. Init => Lineage!Init
    BY InitRefines
  <1>2. IInv /\ [Next]_vars => [Lineage!Next]_Lineage!vars
    BY StepRefines
  <1> QED
    BY <1>1, <1>2, Invariance, PTL DEF Spec, ImplementsLineage, Lineage!Spec

-----------------------------------------------------------------------------
(* What the service resolves, the contract pays *)

LEMMA Factor ==
    ASSUME NEW q \in Nat, NEW price \in Nat, q > 0, q * price <= MaxUint
    PROVE  price <= MaxUint \div q
  <1>1. MaxUint \in Nat
    BY MintAssumption
  <1>2. PICK d \in Nat : d = MaxUint \div q
    BY <1>1
  <1>3. MaxUint = q * d + (MaxUint % q) /\ MaxUint % q \in 0..(q - 1)
    BY <1>1, <1>2
  <1>4. ASSUME price >= d + 1 PROVE FALSE
    <2>1. q * price >= q * (d + 1)
      BY <1>2, <1>4
    <2>2. q * (d + 1) = q * d + q
      BY <1>2
    <2>3. q * price \in Nat /\ q * d \in Nat
      BY <1>2
    <2> QED
      BY <1>1, <1>3, <2>1, <2>2, <2>3
  <1> QED
    BY <1>2, <1>4

LEMMA ProfilePays ==
    ASSUME NEW attempt, NEW rule, WellFormed(attempt), rule.maxQuantity \in Nat,
           PaidProfile(attempt.tx.call, attempt.tx.value),
           attempt.tx.call.mint.quantity > 0, attempt.tx.call.mint.quantity <= rule.maxQuantity,
           attempt.tx.call.mint.feeRecipient = rule.feeRecipient
    PROVE  PayableMint(attempt.tx.call, attempt.tx.value, rule)
  <1> DEFINE q == attempt.tx.call.mint.quantity
             price == attempt.tx.call.mint.price
  <1>1. q \in Nat /\ price \in Nat /\ q > 0 /\ attempt.tx.value <= MaxUint
    BY DEF WellFormed
  <1>2. attempt.tx.value = q * price /\ q * price # 0
    BY DEF PaidProfile
  <1> HIDE DEF q, price
  <1>3. price # 0
    BY <1>1, <1>2
  <1>4. price <= MaxUint \div q
    BY <1>1, <1>2, Factor
  <1>5. attempt.tx.value = price * q
    BY <1>1, <1>2
  <1> QED
    BY <1>1, <1>3, <1>4, <1>5 DEF PaidProfile, PayableMint, q, price

LEMMA OutcomePays ==
    ASSUME NEW logs, NEW mint, NEW sender, MintOutcome(logs, mint, sender)
    PROVE  MintReceipt(logs, mint, sender)
  <1> DEFINE transfers == LogsOf(logs, mint.nft, "Transfer")
             minted == {t \in transfers : logs[t].from = ZeroAddress}
  <1>1. minted = transfers
    BY DEF MintOutcome
  <1> QED
    BY <1>1 DEF MintOutcome, MintReceipt

LEMMA ResolvesPays ==
    ASSUME NEW failed, NEW successful, NEW rule, NEW hashes, Resolves(failed, successful, hashes, rule),
           WellFormed(failed), WellFormed(successful), ValidTerms(rule),
           {rule.startBlock, rule.endBlock, rule.maxQuantity} \subseteq Nat
    PROVE  Pays(failed, successful, rule)
  <1> USE DEF Resolves
  <1>1. /\ failed.tx.call.mint.quantity > 0 /\ failed.tx.call.mint.quantity <= rule.maxQuantity
        /\ failed.tx.call.mint.feeRecipient = rule.feeRecipient
        /\ successful.tx.call.mint = failed.tx.call.mint /\ successful.tx.value = failed.tx.value
        /\ PaidProfile(failed.tx.call, failed.tx.value) /\ PaidProfile(successful.tx.call, successful.tx.value)
    BY DEF ValidPair, FitsCampaign, Decodes, SameMint, PaidProfile
  <1>2. PayableMint(failed.tx.call, failed.tx.value, rule) /\ PayableMint(successful.tx.call, successful.tx.value, rule)
    BY <1>1, ProfilePays
  <1>3. MintReceipt(successful.receipt.logs, successful.tx.call.mint, successful.tx.from)
    BY <1>1, OutcomePays DEF ValidPair
  <1>4. CanonicalCall(failed.tx.call) /\ CanonicalCall(successful.tx.call)
    BY DEF ValidPair, Decodes, CanonicalCall
  <1>5. ValidAttempt(failed, rule, FALSE)
    BY <1>2, <1>4 DEF ValidPair, ValidAttempt, WellFormed
  <1>6. ValidAttempt(successful, rule, TRUE)
    BY <1>2, <1>3, <1>4 DEF ValidPair, ValidAttempt, WellFormed
  <1> QED
    BY <1>1, <1>5, <1>6 DEF ValidPair, FitsCampaign, Pays

-----------------------------------------------------------------------------
(* What the contract pays, in the usual form, the service resolves *)

LEMMA UsualOutcome ==
    ASSUME NEW failed, NEW successful, NEW rule, Pays(failed, successful, rule), Usual(failed, successful)
    PROVE  MintOutcome(successful.receipt.logs, failed.tx.call.mint, failed.tx.from)
  <1> DEFINE logs == successful.receipt.logs
             mint == failed.tx.call.mint
             sender == failed.tx.from
             transfers == LogsOf(logs, mint.nft, "Transfer")
             minted == {t \in transfers : logs[t].from = ZeroAddress}
  <1>1. MintReceipt(logs, mint, sender)
    BY DEF Pays, ValidAttempt
  <1>2. minted = transfers
    BY DEF Usual
  <1>3. \A m \in LogsOf(logs, SeaDrop, "SeaDropMint"), t \in transfers : t < m
    BY DEF Usual
  <1> QED
    BY <1>1, <1>2, <1>3 DEF MintReceipt, MintOutcome

LEMMA PaysResolves ==
    ASSUME NEW failed, NEW successful, NEW rule, Pays(failed, successful, rule), Usual(failed, successful),
           WellFormed(failed), WellFormed(successful), rule.maxQuantity \in Nat, ValidTerms(rule)
    PROVE  Resolves(failed, successful, <<failed.tx.hash, successful.tx.hash>>, rule)
  <1>1. /\ ValidAttempt(failed, rule, FALSE) /\ ValidAttempt(successful, rule, TRUE)
        /\ successful.tx.call.mint = failed.tx.call.mint
    BY DEF Pays
  <1>2. /\ PayableMint(failed.tx.call, failed.tx.value, rule)
        /\ PayableMint(successful.tx.call, successful.tx.value, rule)
    BY <1>1 DEF ValidAttempt
  <1> DEFINE q == failed.tx.call.mint.quantity
             price == failed.tx.call.mint.price
  <1>3. q \in Nat /\ price \in Nat /\ q > 0 /\ price # 0 /\ q <= rule.maxQuantity
    BY <1>2 DEF PayableMint, WellFormed
  <1>4. failed.tx.value = price * q /\ successful.tx.value = price * q
    BY <1>1, <1>2 DEF PayableMint
  <1>5. failed.tx.value = q * price /\ failed.tx.value # 0
    <2> HIDE DEF q, price
    <2> QED
      BY <1>3, <1>4
  <1>6. PaidProfile(failed.tx.call, failed.tx.value)
    BY <1>2, <1>5 DEF PaidProfile, PayableMint, Usual, ValidTerms
  <1>7. SameMint(failed, successful)
    BY <1>1, <1>4 DEF SameMint, Usual
  <1>8. MintOutcome(successful.receipt.logs, failed.tx.call.mint, failed.tx.from)
    BY UsualOutcome
  <1>9. ValidPair(failed, successful, rule.maxBlockGap)
    BY <1>1, <1>6, <1>7, <1>8 DEF ValidPair, Pays, ValidAttempt, Usual, ValidTerms
  <1>10. FitsCampaign(failed, successful, rule)
    BY <1>2, <1>3 DEF FitsCampaign, Pays, PayableMint, ValidTerms
  <1> QED
    BY <1>9, <1>10 DEF Resolves

-----------------------------------------------------------------------------
(* The report of complete facts fails a check exactly when they do not qualify *)

\* Every check of a pair that qualifies passes, or is not made.
LEMMA QualifiedPasses ==
    ASSUME NEW failed, NEW successful, NEW rule, NEW hashes, Resolves(failed, successful, hashes, rule),
           WellFormed(failed), WellFormed(successful), {rule.startBlock, rule.endBlock, rule.maxQuantity} \subseteq Nat,
           ValidTerms(rule),
           NEW check \in DOMAIN Checks(failed, successful, rule)
    PROVE  Checks(failed, successful, rule)[check] # "fail"
  <1> USE DEF Resolves
  <1>1. /\ \A a \in {failed, successful} : a.tx.chain = Mainnet /\ a.tx.type = 2 /\ a.tx.to = SeaDrop /\ Decodes(a.tx.call)
        /\ successful.tx.from = failed.tx.from /\ successful.tx.nonce = failed.tx.nonce + 1
        /\ Gap(failed, successful) \in 1..rule.maxBlockGap
        /\ failed.receipt.status = 0 /\ successful.receipt.status = 1 /\ failed.receipt.logs = << >>
        /\ PaidProfile(failed.tx.call, failed.tx.value) /\ SameMint(failed, successful)
        /\ MintOutcome(successful.receipt.logs, failed.tx.call.mint, failed.tx.from)
    BY DEF ValidPair
  <1>2. \A a \in {failed, successful} : /\ a.tx.block \in rule.startBlock..rule.endBlock
                                       /\ a.tx.call.mint.feeRecipient = rule.feeRecipient
                                       /\ a.tx.call.mint.quantity <= rule.maxQuantity
    <2>1. failed.tx.block \in Nat /\ successful.tx.block \in Nat /\ failed.tx.block < successful.tx.block
      BY <1>1 DEF WellFormed, Gap, ValidTerms
    <2>2. failed.tx.block >= rule.startBlock /\ successful.tx.block <= rule.endBlock
      BY DEF FitsCampaign
    <2>3. successful.tx.call.mint = failed.tx.call.mint
      BY <1>1 DEF SameMint
    <2> QED
      BY <2>1, <2>2, <2>3 DEF FitsCampaign
  <1> DEFINE checks == Checks(failed, successful, rule)
  <1>3. /\ checks.network # "fail" /\ checks.type # "fail" /\ checks.action # "fail" /\ checks.wallet # "fail"
        /\ checks.status # "fail" /\ checks.nonce # "fail" /\ checks.gap # "fail" /\ checks.window # "fail"
    BY <1>1, <1>2 DEF Checks, Checked
  <1>4. /\ checks.paid # "fail" /\ checks.identity # "fail"
        /\ checks.feeRecipient # "fail" /\ checks.quantity # "fail"
    BY <1>1, <1>2 DEF Checks, Checked, ValidTerms
  <1>5. checks.outcome # "fail"
    BY <1>1 DEF Checks, Checked
  <1>6. check \in {"network", "type", "action", "wallet", "status", "nonce", "gap", "window",
                   "paid", "identity", "outcome", "feeRecipient", "quantity"}
    BY DEF Checks
  <1> HIDE DEF checks
  <1> QED
    BY <1>3, <1>4, <1>5, <1>6 DEF checks

\* Complete facts of two transactions that pass every check qualify.
LEMMA PassedQualifies ==
    ASSUME NEW failed, NEW successful, NEW rule, Complete(failed), Complete(successful),
           failed.tx.hash # successful.tx.hash,
           WellFormed(failed), WellFormed(successful), {rule.startBlock, rule.endBlock, rule.maxQuantity} \subseteq Nat,
           ValidTerms(rule),
           \A check \in DOMAIN Checks(failed, successful, rule) : Checks(failed, successful, rule)[check] # "fail"
    PROVE  Resolves(failed, successful, <<failed.tx.hash, successful.tx.hash>>, rule)
  <1> DEFINE checks == Checks(failed, successful, rule)
  <1>1. /\ checks.network # "fail" /\ checks.type # "fail" /\ checks.action # "fail" /\ checks.wallet # "fail"
        /\ checks.status # "fail" /\ checks.nonce # "fail" /\ checks.gap # "fail" /\ checks.window # "fail"
        /\ checks.paid # "fail" /\ checks.identity # "fail" /\ checks.outcome # "fail"
        /\ checks.feeRecipient # "fail" /\ checks.quantity # "fail"
    BY DEF Checks
  <1>2. /\ \A a \in {failed, successful} : a.tx.chain = Mainnet /\ a.tx.type = 2 /\ a.tx.to = SeaDrop /\ Decodes(a.tx.call)
        /\ successful.tx.from = failed.tx.from /\ successful.tx.nonce = failed.tx.nonce + 1
        /\ Gap(failed, successful) \in 1..rule.maxBlockGap
        /\ failed.receipt.status = 0 /\ successful.receipt.status = 1 /\ failed.receipt.logs = << >>
        /\ rule.maxBlockGap > 0 /\ PaidProfile(failed.tx.call, failed.tx.value) /\ SameMint(failed, successful)
        /\ MintOutcome(successful.receipt.logs, failed.tx.call.mint, failed.tx.from)
        /\ \A a \in {failed, successful} : /\ a.tx.block \in rule.startBlock..rule.endBlock
                                          /\ a.tx.call.mint.feeRecipient = rule.feeRecipient
                                          /\ a.tx.call.mint.quantity <= rule.maxQuantity
    BY <1>1 DEF Checks, Checked
  <1>3. ValidPair(failed, successful, rule.maxBlockGap)
    BY <1>2 DEF ValidPair
  <1>4. FitsCampaign(failed, successful, rule)
    BY <1>2 DEF FitsCampaign, WellFormed, ValidTerms
  <1> QED
    BY <1>3, <1>4 DEF Resolves

LEMMA InspectExplains ==
    ASSUME NEW failed, NEW successful, source \in Sources, WellFormed(failed), WellFormed(successful)
    PROVE  Inspect(failed, successful, source.rule) # NoReport <=>
              /\ Inspectable(failed) /\ Inspectable(successful)
              /\ <<failed.tx.hash, successful.tx.hash>> = Hashes
              /\ ~Resolves(failed, successful, Hashes, source.rule)
  <1> DEFINE rule == source.rule
             checks == Checks(failed, successful, rule)
             Failing == \E check \in DOMAIN checks : checks[check] = "fail"
  <1>1. ValidTerms(rule) /\ {rule.startBlock, rule.endBlock, rule.maxQuantity} \subseteq Nat
    BY SourcesAssumption
  <1>2. <<failed.tx.hash, successful.tx.hash>> = Hashes => failed.tx.hash # successful.tx.hash
    BY SourcesAssumption DEF Hashes
  <1>3. checks # << >>
    <2>1. "network" \in DOMAIN checks
      BY DEF Checks
    <2>2. DOMAIN << >> = {}
      OBVIOUS
    <2> HIDE DEF checks
    <2> QED
      BY <2>1, <2>2
  <1>4. Resolves(failed, successful, Hashes, rule) => ~Failing
    BY <1>1, QualifiedPasses
  <1>5. /\ Inspectable(failed) /\ Inspectable(successful)
        /\ <<failed.tx.hash, successful.tx.hash>> = Hashes
        /\ ~Failing
        => Resolves(failed, successful, Hashes, rule)
    BY <1>1, <1>2, PassedQualifies DEF Inspectable
  <1> HIDE DEF checks, rule
  <1> QED
    BY <1>3, <1>4, <1>5 DEF Inspect, NoReport, checks, rule

-----------------------------------------------------------------------------
(* The inductive invariant of a resolution *)

Answers == [kind : Silent] \cup
           {Facts(failed, successful) : failed \in StaleFacts(source.failed), successful \in StaleFacts(source.successful)}

NothingQualified ==
    outcome \in {"asking", "invalid", "unavailable"} =>
        \A i \in DOMAIN answers : answers[i].kind = "facts" =>
            ~Resolves(answers[i].failed, answers[i].successful, Hashes, source.rule)

Determined ==
    outcome \in {"resolved", "proven", "proofInvalid"} =>
        /\ answers # << >> /\ Resolved.kind = "facts"
        /\ Resolves(Resolved.failed, Resolved.successful, Hashes, source.rule)

ResolutionInv ==
    /\ source \in Sources /\ outcome \in Outcomes
    /\ answers \in Seq(Answers) /\ Len(answers) <= ProviderLimit
    /\ NothingQualified /\ Determined /\ ReportExplains /\ ProvenIsPayable

LEMMA AnswerKinds ==
    ASSUME ResolutionInv, NEW a \in Answers, a.kind = "facts"
    PROVE  WellFormed(a.failed) /\ WellFormed(a.successful)
  BY SourcesAssumption DEF ResolutionInv, Answers, Facts, Silent

LEMMA ResolutionInitInv == ResolutionInit => ResolutionInv
  BY ProviderAssumption
  DEF ResolutionInit, ResolutionInv, Outcomes, NothingQualified, Determined, ReportExplains, ProvenIsPayable

\* One more answer follows those there were.
LEMMA Appended ==
    ASSUME ResolutionInv, Asking, NEW a \in Answers, answers' = Append(answers, a), source' = source
    PROVE  /\ answers' \in Seq(Answers)' /\ Len(answers') = Len(answers) + 1 /\ Len(answers') <= ProviderLimit
           /\ answers'[Len(answers')] = a /\ answers' # << >>
           /\ \A i \in DOMAIN answers : answers'[i] = answers[i]
           /\ DOMAIN answers' = DOMAIN answers \cup {Len(answers')}
           /\ Len(answers') \notin DOMAIN answers /\ \A i \in DOMAIN answers : i < Len(answers')
  <1>1. answers \in Seq(Answers) /\ Len(answers) \in Nat
    BY DEF ResolutionInv
  <1>2. Answers' = Answers
    BY DEF Answers
  <1> QED
    BY <1>1, <1>2, ProviderAssumption DEF Asking

LEMMA InVainKeeps ==
    ASSUME ResolutionInv, NEW kind \in Silent, AskInVain(kind)
    PROVE  ResolutionInv'
  <1> DEFINE a == [kind |-> kind]
             n == Len(answers')
  <1>1. a \in Answers /\ a.kind # "facts"
    BY DEF Answers, Silent
  <1>2. /\ Asking /\ answers' = Append(answers, a) /\ UNCHANGED <<source, report, outcome, proof>>
        /\ outcome = "asking"
    BY DEF AskInVain, Asking
  <1>3. /\ answers' \in Seq(Answers)' /\ Len(answers') <= ProviderLimit /\ answers'[n] = a
        /\ \A i \in DOMAIN answers : answers'[i] = answers[i]
        /\ DOMAIN answers' = DOMAIN answers \cup {n} /\ n \notin DOMAIN answers
    BY <1>1, <1>2, Appended
  <1> HIDE DEF a, n
  <1>4. NothingQualified'
    BY <1>1, <1>2, <1>3 DEF ResolutionInv, NothingQualified, Hashes
  <1>5. ReportExplains'
    BY <1>1, <1>2, <1>3 DEF ResolutionInv, ReportExplains, Hashes
  <1>6. Determined' /\ ProvenIsPayable'
    BY <1>2 DEF Determined, ProvenIsPayable
  <1> QED
    BY <1>2, <1>3, <1>4, <1>5, <1>6 DEF ResolutionInv

LEMMA FactsAnswer ==
    ASSUME NEW failed \in StaleFacts(source.failed), NEW successful \in StaleFacts(source.successful)
    PROVE  /\ Facts(failed, successful) \in Answers /\ Facts(failed, successful).kind = "facts"
           /\ Facts(failed, successful).failed = failed /\ Facts(failed, successful).successful = successful
  BY DEF Answers, Facts

LEMMA RefuseKeeps ==
    ASSUME ResolutionInv, NEW failed \in StaleFacts(source.failed), NEW successful \in StaleFacts(source.successful),
           AskAndRefuse(failed, successful)
    PROVE  ResolutionInv'
  <1> DEFINE a == Facts(failed, successful)
             n == Len(answers')
  <1>1. a \in Answers /\ a.kind = "facts" /\ a.failed = failed /\ a.successful = successful
    BY FactsAnswer
  <1>2. /\ Asking /\ answers' = Append(answers, a) /\ UNCHANGED <<source, outcome, proof>>
        /\ outcome = "asking" /\ ~Resolves(failed, successful, Hashes, source.rule)
        /\ report' = Inspect(failed, successful, source.rule)
    BY DEF AskAndRefuse, Asking
  <1>3. /\ answers' \in Seq(Answers)' /\ Len(answers') <= ProviderLimit /\ answers'[n] = a
        /\ \A i \in DOMAIN answers : answers'[i] = answers[i] /\ i < n
        /\ DOMAIN answers' = DOMAIN answers \cup {n}
    BY <1>1, <1>2, Appended
  <1>4. WellFormed(failed) /\ WellFormed(successful)
    BY <1>1, AnswerKinds
  <1>5. report' # NoReport <=>
              /\ Inspectable(failed) /\ Inspectable(successful)
              /\ <<failed.tx.hash, successful.tx.hash>> = Hashes
              /\ ~Resolves(failed, successful, Hashes, source.rule)
    BY <1>2, <1>4, InspectExplains DEF ResolutionInv
  <1> HIDE DEF a, n
  <1>6. NothingQualified'
    BY <1>1, <1>2, <1>3 DEF ResolutionInv, NothingQualified, Hashes
  <1>7. ReportExplains'
    <2> SUFFICES ASSUME NEW i \in DOMAIN answers', answers'[i].kind = "facts",
                        ~\E j \in DOMAIN answers' : j > i /\ answers'[j].kind = "facts"
                 PROVE  report' # NoReport <=>
                            /\ Inspectable(answers'[i].failed) /\ Inspectable(answers'[i].successful)
                            /\ <<answers'[i].failed.tx.hash, answers'[i].successful.tx.hash>> = Hashes'
                            /\ ~Resolves(answers'[i].failed, answers'[i].successful, Hashes', source'.rule)
      BY DEF ReportExplains
    <2>1. i = n
      BY <1>1, <1>3
    <2>2. Hashes' = Hashes
      BY <1>2 DEF Hashes
    <2> QED
      BY <1>1, <1>2, <1>3, <1>5, <2>1, <2>2
  <1>8. Determined' /\ ProvenIsPayable'
    BY <1>2 DEF Determined, ProvenIsPayable
  <1> QED
    BY <1>2, <1>3, <1>6, <1>7, <1>8 DEF ResolutionInv

LEMMA ResolveKeeps ==
    ASSUME ResolutionInv, NEW failed \in StaleFacts(source.failed), NEW successful \in StaleFacts(source.successful),
           AskAndResolve(failed, successful)
    PROVE  ResolutionInv'
  <1> DEFINE a == Facts(failed, successful)
             n == Len(answers')
  <1>1. a \in Answers /\ a.kind = "facts" /\ a.failed = failed /\ a.successful = successful
    BY FactsAnswer
  <1>2. /\ Asking /\ answers' = Append(answers, a) /\ source' = source
        /\ outcome' = "resolved" /\ Resolves(failed, successful, Hashes, source.rule)
    BY DEF AskAndResolve
  <1>3. /\ answers' \in Seq(Answers)' /\ Len(answers') <= ProviderLimit /\ answers'[n] = a /\ answers' # << >>
    BY <1>1, <1>2, Appended
  <1> HIDE DEF a
  <1>4. Determined'
    BY <1>1, <1>2, <1>3 DEF Determined, Resolved, Hashes
  <1>5. NothingQualified' /\ ReportExplains' /\ ProvenIsPayable'
    BY <1>2 DEF NothingQualified, ReportExplains, ProvenIsPayable
  <1> QED
    BY <1>2, <1>3, <1>4, <1>5 DEF ResolutionInv, Outcomes

LEMMA GiveUpKeeps == ResolutionInv /\ GiveUp => ResolutionInv'
  <1> SUFFICES ASSUME ResolutionInv, GiveUp PROVE ResolutionInv'
    OBVIOUS
  <1>1. /\ outcome = "asking" /\ outcome' \in {"invalid", "unavailable"}
        /\ UNCHANGED <<source, answers, report, proof>>
    BY DEF GiveUp
  <1>2. NothingQualified' /\ ReportExplains'
    BY <1>1 DEF ResolutionInv, NothingQualified, ReportExplains, Hashes
  <1>3. Determined' /\ ProvenIsPayable'
    BY <1>1 DEF Determined, ProvenIsPayable
  <1>4. answers' \in Seq(Answers)'
    BY <1>1 DEF ResolutionInv, Answers
  <1> QED
    BY <1>1, <1>2, <1>3, <1>4 DEF ResolutionInv, Outcomes

\* The entry a normalized proof keeps for an attempt shows the attempt's envelope.
LEMMA EntryShows ==
    ASSUME NEW batch, Normalizes(batch), NEW attempt \in {Resolved.failed, Resolved.successful}
    PROVE  SameEnvelope(CHOOSE e \in EntriesOf(batch, attempt) : TRUE, attempt)
  <1>1. Cardinality(EntriesOf(batch, attempt)) = 1
    BY DEF Normalizes
  <1>2. EntriesOf(batch, attempt) # {}
    BY <1>1, FS_EmptySet
  <1>3. (CHOOSE e \in EntriesOf(batch, attempt) : TRUE) \in EntriesOf(batch, attempt)
    BY <1>2
  <1> QED
    BY <1>3 DEF Normalizes

LEMMA ProveKeeps ==
    ASSUME ResolutionInv, NEW batch, Prove(batch)
    PROVE  ResolutionInv'
  <1>1. /\ outcome = "resolved" /\ outcome' \in {"proven", "proofInvalid"}
        /\ UNCHANGED <<source, answers, report>>
    BY DEF Prove
  <1>2. NothingQualified' /\ ReportExplains'
    BY <1>1 DEF NothingQualified, ReportExplains
  <1>3. Determined'
    BY <1>1 DEF ResolutionInv, Determined, Resolved, Hashes
  <1>4. answers' \in Seq(Answers)'
    BY <1>1 DEF ResolutionInv, Answers
  <1>5. ASSUME outcome' = "proven",
               proof'[1].attempt.tx.call = Resolved.failed.tx.call,
               proof'[1].attempt.tx.chain = Resolved.failed.tx.chain,
               proof'[1].attempt.receipt.logs = Resolved.failed.receipt.logs,
               proof'[2].attempt.tx.call = Resolved.successful.tx.call,
               proof'[2].attempt.tx.chain = Resolved.successful.tx.chain,
               proof'[2].attempt.receipt.logs = Resolved.successful.receipt.logs
        PROVE  Pays(Attested(1)', Attested(2)', source.rule)
    <2> DEFINE failed == Resolved.failed
               successful == Resolved.successful
               first == CHOOSE e \in EntriesOf(batch, failed) : TRUE
               second == CHOOSE e \in EntriesOf(batch, successful) : TRUE
    <2>1. Normalizes(batch) /\ proof' = ProofOrder(batch)
      BY <1>5, <1>1 DEF Prove
    <2>2. proof'[1] = first /\ proof'[2] = second
      BY <2>1 DEF ProofOrder
    <2>3. SameEnvelope(first, failed) /\ SameEnvelope(second, successful)
      BY <2>1, EntryShows
    <2>4. Resolves(failed, successful, Hashes, source.rule) /\ WellFormed(failed) /\ WellFormed(successful)
      <3>1. answers # << >> /\ Resolved.kind = "facts" /\ Resolves(failed, successful, Hashes, source.rule)
        BY <1>1 DEF ResolutionInv, Determined
      <3>2. Resolved \in Answers
        BY <3>1 DEF ResolutionInv, Resolved
      <3> QED
        BY <3>1, <3>2, AnswerKinds
    <2>5. Pays(failed, successful, source.rule)
      BY <2>4, ResolvesPays, SourcesAssumption DEF ResolutionInv
    <2>6. /\ successful.tx.from = failed.tx.from /\ successful.tx.value = failed.tx.value
          /\ failed.receipt.status = 0 /\ successful.receipt.status = 1
      BY <2>4 DEF Resolves, ValidPair, SameMint
    <2> HIDE DEF failed, successful, first, second
    <2>7. /\ Attested(1)'.tx.block = failed.tx.block /\ Attested(1)'.tx.type = 2 /\ Attested(1)'.tx.to = SeaDrop
          /\ Attested(1)'.tx.from = failed.tx.from /\ Attested(1)'.tx.nonce = failed.tx.nonce
          /\ Attested(1)'.tx.value = failed.tx.value /\ Attested(1)'.tx.call = failed.tx.call
          /\ Attested(1)'.tx.chain = failed.tx.chain
          /\ Attested(1)'.receipt.status = 0 /\ Attested(1)'.receipt.logs = failed.receipt.logs
      BY <1>5, <2>2, <2>3, <2>6 DEF Attested, SameEnvelope, failed
    <2>8. /\ Attested(2)'.tx.block = successful.tx.block /\ Attested(2)'.tx.type = 2 /\ Attested(2)'.tx.to = SeaDrop
          /\ Attested(2)'.tx.from = successful.tx.from /\ Attested(2)'.tx.nonce = successful.tx.nonce
          /\ Attested(2)'.tx.value = successful.tx.value /\ Attested(2)'.tx.call = successful.tx.call
          /\ Attested(2)'.tx.chain = successful.tx.chain
          /\ Attested(2)'.receipt.status = 1 /\ Attested(2)'.receipt.logs = successful.receipt.logs
      BY <1>5, <2>2, <2>3, <2>6 DEF Attested, SameEnvelope, failed, successful
    <2>9. ValidAttempt(Attested(1)', source.rule, FALSE)
      BY <2>5, <2>7 DEF Pays, ValidAttempt
    <2>10. ValidAttempt(Attested(2)', source.rule, TRUE)
      BY <2>5, <2>8 DEF Pays, ValidAttempt
    <2>11. Gap(Attested(1)', Attested(2)') = Gap(failed, successful)
      BY <2>7, <2>8 DEF Gap
    <2> HIDE DEF Attested
    <2> QED
      BY <2>5, <2>7, <2>8, <2>9, <2>10, <2>11 DEF Pays
  <1>6. ProvenIsPayable'
    BY <1>1, <1>5 DEF ProvenIsPayable, Resolved
  <1> QED
    BY <1>1, <1>2, <1>3, <1>4, <1>6 DEF ResolutionInv, Outcomes

LEMMA ResolutionNextInv == ResolutionInv /\ [ResolutionNext]_resolutionVars => ResolutionInv'
  <1> SUFFICES ASSUME ResolutionInv, [ResolutionNext]_resolutionVars PROVE ResolutionInv'
    OBVIOUS
  <1>1. CASE Ask
    BY <1>1, InVainKeeps, RefuseKeeps, ResolveKeeps DEF Ask
  <1>2. CASE GiveUp
    BY <1>2, GiveUpKeeps
  <1>3. CASE \E batch \in Batches(source) : Prove(batch)
    BY <1>3, ProveKeeps
  <1>4. CASE UNCHANGED resolutionVars
    <2>1. UNCHANGED <<source, answers, report, outcome, proof>>
      BY <1>4 DEF resolutionVars
    <2>2. NothingQualified' /\ Determined' /\ answers' \in Seq(Answers)'
      BY <2>1 DEF ResolutionInv, NothingQualified, Determined, Resolved, Hashes, Answers
    <2>3. ReportExplains' /\ ProvenIsPayable'
      BY <2>1 DEF ResolutionInv, ReportExplains, ProvenIsPayable, Resolved, Hashes, Attested
    <2> QED
      BY <2>1, <2>2, <2>3 DEF ResolutionInv
  <1> QED
    BY <1>1, <1>2, <1>3, <1>4 DEF ResolutionNext

LEMMA ResolutionInvariance == ResolutionSpec => []ResolutionInv
  BY ResolutionInitInv, ResolutionNextInv, PTL DEF ResolutionSpec

\* Whatever the service takes for a retry, by its providers' facts or by the
\* proof it submits, the contract pays (resolvePairFromEthereum,
\* normalizeRecoveryBatchProof, SeaDropPaidRetryPredicateV1.validate).
THEOREM AcceptedPairsPay == ResolutionSpec => []AcceptedIsPayable
  <1>1. ResolutionInv => AcceptedIsPayable
    <2> SUFFICES ASSUME ResolutionInv, outcome \in {"resolved", "proven", "proofInvalid"}
                 PROVE  Pays(Resolved.failed, Resolved.successful, source.rule)
      BY DEF AcceptedIsPayable, ResolvedIsPayable, ResolutionInv
    <2>1. answers # << >> /\ Resolved.kind = "facts" /\ Resolves(Resolved.failed, Resolved.successful, Hashes, source.rule)
      BY DEF ResolutionInv, Determined
    <2>2. Resolved \in Answers
      BY <2>1 DEF ResolutionInv, Resolved
    <2>3. WellFormed(Resolved.failed) /\ WellFormed(Resolved.successful)
      BY <2>1, <2>2, AnswerKinds
    <2> QED
      BY <2>1, <2>3, ResolvesPays, SourcesAssumption DEF ResolutionInv
  <1> QED
    BY <1>1, ResolutionInvariance, PTL

\* A pair in the usual form that the contract would pay is not refused when one
\* provider that was asked told the truth (resolvePairFromEthereum).
THEOREM PayablePairsAccepted == ResolutionSpec => []NoPayablePairRefused
  <1>1. ResolutionInv => NoPayablePairRefused
    <2> SUFFICES ASSUME ResolutionInv, outcome = "invalid",
                        Pays(source.failed, source.successful, source.rule), Usual(source.failed, source.successful),
                        NEW i \in DOMAIN answers, answers[i] = Facts(source.failed, source.successful)
                 PROVE  FALSE
      BY DEF NoPayablePairRefused
    <2>1. Resolves(source.failed, source.successful, Hashes, source.rule)
      BY PaysResolves, SourcesAssumption DEF ResolutionInv, Hashes
    <2>2. answers[i].kind = "facts" /\ answers[i].failed = source.failed /\ answers[i].successful = source.successful
      BY DEF Facts
    <2> QED
      BY <2>1, <2>2 DEF ResolutionInv, NothingQualified
  <1> QED
    BY <1>1, ResolutionInvariance, PTL

\* A refusal carries a report exactly when its last facts were of the requested
\* pair, complete, in whole bytes and of one block by its hash; facts that qualify
\* never have a failed check (inspectSeaDropRecoveryPair).
THEOREM RefusalsExplained == ResolutionSpec => []ReportExplains
  <1>1. ResolutionInv => ReportExplains
    BY DEF ResolutionInv
  <1> QED
    BY <1>1, ResolutionInvariance, PTL

\* A batch proof that passed and shows the calls and logs that were resolved pays
\* when it is submitted (normalizeRecoveryBatchProof).
THEOREM ProvenPairsPay == ResolutionSpec => []ProvenIsPayable
  <1>1. ResolutionInv => ProvenIsPayable
    BY DEF ResolutionInv
  <1> QED
    BY <1>1, ResolutionInvariance, PTL
=============================================================================
