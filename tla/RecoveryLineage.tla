--------------------------- MODULE RecoveryLineage ---------------------------
(***************************************************************************)
(* The recovery pools RetryCreditRecoveryCampaign ("v1") and               *)
(* RetryCreditRecoveryCampaignV2 ("v2"), deployed on one chain.  A call is *)
(* atomic except where _send hands control to its recipient: the state is  *)
(* then final, the money has moved, and the recipient may call anything a  *)
(* reentrancy guard does not refuse, in either pool, before it returns.    *)
(* A call that reverts undoes every call nested in it and is a stuttering  *)
(* step; every state inside it is also reached by a call that commits.     *)
(*                                                                         *)
(* The verifier is trusted to return the wallet, the two source queries    *)
(* and the pair of a proof that is valid for a campaign's rule: a member   *)
(* of Pairs inside the campaign's block window.  A query is its position   *)
(* in the source chain.                                                    *)
(***************************************************************************)
EXTENDS Integers, FiniteSets, Sequences

CONSTANTS
    Wallets, Sponsors,
    Pairs,              \* retries [wallet, failure, success] of the source chain
    Terms,              \* [credit, max, start, end] a sponsor may propose
    Nobody,             \* the zero address
    MaxCampaigns, MaxTime, MaxHeight, MaxDuration

Positions == 1..MaxHeight
Numbers == 1..MaxCampaigns
Pools == {"v1", "v2"}
LegacyNumber == 1

ASSUME PairsAssumption ==
    \A pair \in Pairs : /\ pair \in [wallet : Wallets, failure : Positions, success : Positions]
                        /\ pair.failure < pair.success
ASSUME TermsAssumption ==
    Terms \subseteq [credit : Nat, max : Nat, start : Positions, end : Positions]
ASSUME NobodyAssumption == Nobody \notin Sponsors
ASSUME NumbersAssumption == MaxCampaigns \in Nat \ {0} /\ MaxTime \in Nat /\ MaxHeight \in Nat /\ MaxDuration \in Nat

VARIABLES
    now,            \* block.timestamp
    attested,       \* latest attested height of the source chain
    campaignCount, campaigns, accounted, balance,   \* each pool's storage and ether
    claimed,        \* claimedByCampaign: <<number, wallet>>
    consumed,       \* consumedQueries and consumedPairs: <<number, evidence>>
    sponsorClaimed, sponsorConsumed,    \* the maps V2 keeps per sponsor
    binding,        \* V2's immutables legacySponsor and legacyDeadline
    stack,          \* pools inside an external call, innermost last
    payments        \* every credit ever sent

storage == <<campaignCount, campaigns, accounted, balance>>
marks == <<claimed, consumed, sponsorClaimed, sponsorConsumed>>
vars == <<now, attested, storage, marks, binding, stack, payments>>

Campaign == [sponsor : Sponsors \cup {Nobody}, credit : Nat, max : Nat, claims : Nat,
             deadline : Nat, start : Nat, end : Nat, recovered : BOOLEAN]
NoCampaign == [sponsor |-> Nobody, credit |-> 0, max |-> 0, claims |-> 0,
               deadline |-> 0, start |-> 0, end |-> 0, recovered |-> FALSE]
Evidence(pair) == {<<pair.failure>>, <<pair.success>>, <<pair.failure, pair.success>>}
AllEvidence == {<<q>> : q \in Positions} \cup (Positions \X Positions)
Payment == [pool : Pools, number : Numbers, sponsor : Sponsors, pair : Pairs]

TypeOK ==
    /\ now \in Nat /\ attested \in Nat
    /\ campaignCount \in [Pools -> Nat]
    /\ campaigns \in [Pools -> [Numbers -> Campaign]]
    /\ accounted \in [Pools -> Nat] /\ balance \in [Pools -> Nat]
    /\ claimed \in [Pools -> SUBSET (Numbers \X Wallets)]
    /\ consumed \in [Pools -> SUBSET (Numbers \X AllEvidence)]
    /\ sponsorClaimed \subseteq Sponsors \X Wallets
    /\ sponsorConsumed \subseteq Sponsors \X AllEvidence
    /\ binding \in [bound : BOOLEAN, sponsor : Sponsors \cup {Nobody}, deadline : Nat]
    /\ stack \in Seq(Pools)
    /\ payments \subseteq Payment

Init ==
    /\ now = 0 /\ attested = 1
    /\ campaignCount = [p \in Pools |-> 0]
    /\ campaigns = [p \in Pools |-> [n \in Numbers |-> NoCampaign]]
    /\ accounted = [p \in Pools |-> 0] /\ balance = [p \in Pools |-> 0]
    /\ claimed = [p \in Pools |-> {}] /\ consumed = [p \in Pools |-> {}]
    /\ sponsorClaimed = {} /\ sponsorConsumed = {}
    /\ binding = [bound |-> FALSE, sponsor |-> Nobody, deadline |-> 0]
    /\ stack = <<>>
    /\ payments = {}

-----------------------------------------------------------------------------
(* The chains *)

NextBlock ==
    /\ stack = <<>>
    /\ now < MaxTime
    /\ now' = now + 1
    /\ UNCHANGED <<attested, storage, marks, binding, stack, payments>>

Attest ==
    /\ attested < MaxHeight
    /\ attested' = attested + 1
    /\ UNCHANGED <<now, storage, marks, binding, stack, payments>>

\* nonReentrant: the pool is not already in one of its guarded functions.
Entered(p) == \E i \in DOMAIN stack : stack[i] = p

\* The recipient of the innermost transfer is done.
Return ==
    /\ stack # <<>>
    /\ stack' = SubSeq(stack, 1, Len(stack) - 1)
    /\ UNCHANGED <<now, attested, storage, marks, binding, payments>>

-----------------------------------------------------------------------------
(* createCampaign *)

TermsValid(terms, deadline) ==
    /\ terms.credit > 0 /\ terms.max > 0
    /\ now < deadline /\ deadline <= now + MaxDuration
    /\ terms.start < terms.end
    /\ terms.end <= attested

\* The funding is exactly credit * max.
Open(p, sponsor, terms, deadline) ==
    LET n == campaignCount[p] + 1
        funding == terms.credit * terms.max
    IN  /\ n \in Numbers
        /\ TermsValid(terms, deadline)
        /\ campaignCount' = [campaignCount EXCEPT ![p] = n]
        /\ campaigns' = [campaigns EXCEPT ![p][n] =
              [sponsor |-> sponsor, credit |-> terms.credit, max |-> terms.max, claims |-> 0,
               deadline |-> deadline, start |-> terms.start, end |-> terms.end, recovered |-> FALSE]]
        /\ accounted' = [accounted EXCEPT ![p] = @ + funding]
        /\ balance' = [balance EXCEPT ![p] = @ + funding]

\* V1's createCampaign carries no reentrancy guard.
CreateV1(sponsor, terms, deadline) ==
    /\ Open("v1", sponsor, terms, deadline)
    /\ UNCHANGED <<now, attested, marks, binding, stack, payments>>

Predecessor == campaigns["v1"][LegacyNumber]

OutlivesPredecessor(deadline, predecessorDeadline) == deadline > predecessorDeadline

\* V2's constructor binds campaign 1 of V1 and opens the sponsor's first
\* successor, whose window covers the predecessor's.
DeployV2(sponsor, terms, deadline) ==
    /\ ~binding.bound
    /\ Predecessor.sponsor # Nobody /\ Predecessor.sponsor = sponsor
    /\ terms.start <= Predecessor.start /\ terms.end >= Predecessor.end
    /\ OutlivesPredecessor(deadline, Predecessor.deadline)
    /\ binding' = [bound |-> TRUE, sponsor |-> Predecessor.sponsor, deadline |-> Predecessor.deadline]
    /\ Open("v2", sponsor, terms, deadline)
    /\ UNCHANGED <<now, attested, marks, stack, payments>>

CreateV2(sponsor, terms, deadline) ==
    /\ binding.bound
    /\ ~Entered("v2")
    /\ OutlivesPredecessor(deadline, binding.deadline)
    /\ Open("v2", sponsor, terms, deadline)
    /\ UNCHANGED <<now, attested, marks, binding, stack, payments>>

-----------------------------------------------------------------------------
(* releaseCredit *)

Releasable(p, n) ==
    LET campaign == campaigns[p][n] IN
    /\ ~Entered(p)
    /\ campaign.sponsor # Nobody
    /\ now <= campaign.deadline
    /\ campaign.claims < campaign.max

\* verifyRelease accepts the pair under the campaign's rule.
Verified(p, n, pair) ==
    campaigns[p][n].start <= pair.failure /\ pair.success <= campaigns[p][n].end

\* The state changes before the transfer, the recipient runs after it.
Pay(p, n, pair) ==
    LET campaign == campaigns[p][n] IN
    /\ claimed' = [claimed EXCEPT ![p] = @ \cup {<<n, pair.wallet>>}]
    /\ consumed' = [consumed EXCEPT ![p] = @ \cup ({n} \X Evidence(pair))]
    /\ campaigns' = [campaigns EXCEPT ![p][n].claims = @ + 1]
    /\ accounted' = [accounted EXCEPT ![p] = @ - campaign.credit]
    /\ balance' = [balance EXCEPT ![p] = @ - campaign.credit]
    /\ payments' = payments \cup
          {[pool |-> p, number |-> n, sponsor |-> campaign.sponsor, pair |-> pair]}
    /\ stack' = Append(stack, p)
    /\ UNCHANGED <<now, attested, campaignCount, binding>>

ReleaseV1(n, pair) ==
    /\ Releasable("v1", n)
    /\ Verified("v1", n, pair)
    /\ <<n, pair.wallet>> \notin claimed["v1"]
    /\ \A e \in Evidence(pair) : <<n, e>> \notin consumed["v1"]
    /\ Pay("v1", n, pair)
    /\ UNCHANGED <<sponsorClaimed, sponsorConsumed>>

ReleasesUnlocked ==
    \/ now > binding.deadline
    \/ Predecessor.claims = Predecessor.max

\* Bug: the wallet is not looked up in the predecessor.
UnusedEvidenceInLegacy(pair) == \A e \in Evidence(pair) : <<LegacyNumber, e>> \notin consumed["v1"]

UnusedInLegacy(pair) ==
    /\ \A e \in Evidence(pair) : <<LegacyNumber, e>> \notin consumed["v1"]
    /\ <<LegacyNumber, pair.wallet>> \notin claimed["v1"]

UnusedBySponsor(sponsor, pair) ==
    /\ \A e \in Evidence(pair) : <<sponsor, e>> \notin sponsorConsumed
    /\ <<sponsor, pair.wallet>> \notin sponsorClaimed

\* Bug: the sponsor-wide wallet mark is not written.
ConsumeEvidenceBySponsor(sponsor, pair) ==
    /\ sponsorConsumed' = sponsorConsumed \cup ({sponsor} \X Evidence(pair))
    /\ UNCHANGED sponsorClaimed

ConsumeBySponsor(sponsor, pair) ==
    /\ sponsorClaimed' = sponsorClaimed \cup {<<sponsor, pair.wallet>>}
    /\ sponsorConsumed' = sponsorConsumed \cup ({sponsor} \X Evidence(pair))

ReleaseV2(n, pair) ==
    LET sponsor == campaigns["v2"][n].sponsor IN
    /\ Releasable("v2", n)
    /\ ReleasesUnlocked
    /\ Verified("v2", n, pair)
    /\ UnusedInLegacy(pair)
    /\ UnusedBySponsor(sponsor, pair)
    /\ ConsumeBySponsor(sponsor, pair)
    /\ Pay("v2", n, pair)

-----------------------------------------------------------------------------
(* recoverRemainder *)

Remaining(campaign) ==
    IF campaign.recovered THEN 0 ELSE campaign.credit * (campaign.max - campaign.claims)

\* Bug: the refund opens in the last second of the releases.
ClosedAtDeadline(campaign) == now >= campaign.deadline

Closed(campaign) == now > campaign.deadline

RecoverRemainder(p, n) ==
    LET campaign == campaigns[p][n]
        remainder == Remaining(campaign)
    IN  /\ ~Entered(p)
        /\ campaign.sponsor # Nobody
        /\ Closed(campaign)
        /\ ~campaign.recovered
        /\ campaigns' = [campaigns EXCEPT ![p][n].recovered = TRUE]
        /\ accounted' = [accounted EXCEPT ![p] = @ - remainder]
        /\ balance' = [balance EXCEPT ![p] = @ - remainder]
        /\ stack' = IF remainder = 0 THEN stack ELSE Append(stack, p)
        /\ UNCHANGED <<now, attested, campaignCount, marks, binding, payments>>

Next ==
    \/ NextBlock
    \/ Attest
    \/ Return
    \/ \E sponsor \in Sponsors, terms \in Terms, deadline \in 1..(MaxTime + MaxDuration) :
          \/ CreateV1(sponsor, terms, deadline)
          \/ DeployV2(sponsor, terms, deadline)
          \/ CreateV2(sponsor, terms, deadline)
    \/ \E n \in Numbers, pair \in Pairs : ReleaseV1(n, pair) \/ ReleaseV2(n, pair)
    \/ \E p \in Pools, n \in Numbers : RecoverRemainder(p, n)

Spec == Init /\ [][Next]_vars

-----------------------------------------------------------------------------
(* Properties *)

PaymentsOf(p, n) == {payment \in payments : payment.pool = p /\ payment.number = n}

\* What each campaign of a pool still owes, and all of it wei by wei.
Owed(p) == [n \in Numbers |-> Remaining(campaigns[p][n])]
Units(owed) == UNION {{n} \X (1..owed[n]) : n \in Numbers}

\* Each pool holds exactly what its campaigns still owe, also in the middle of a
\* transfer: no interleaving of releases, refunds and reentrant calls takes one
\* campaign's ether for another.
Solvent ==
    \A p \in Pools :
        /\ balance[p] = accounted[p]
        /\ accounted[p] = Cardinality(Units(Owed(p)))

\* The marks that stop a second payment are exactly the payments made, and a
\* campaign's counter counts them.
Bookkeeping ==
    \A p \in Pools, n \in Numbers :
        LET paid == PaymentsOf(p, n) IN
        /\ campaigns[p][n].claims = Cardinality(paid)
        /\ campaigns[p][n].claims <= campaigns[p][n].max
        /\ {w \in Wallets : <<n, w>> \in claimed[p]} = {payment.pair.wallet : payment \in paid}

IsLegacy(payment) == payment.pool = "v1" /\ payment.number = LegacyNumber

\* Two payments count against each other: in one V1 campaign, in the campaigns
\* of one V2 sponsor, or across the predecessor and any V2 campaign.
SameLineage(a, b) ==
    \/ a.pool = "v1" /\ b.pool = "v1" /\ a.number = b.number
    \/ a.pool = "v2" /\ b.pool = "v2" /\ a.sponsor = b.sponsor
    \/ IsLegacy(a) /\ b.pool = "v2"
    \/ IsLegacy(b) /\ a.pool = "v2"

\* No wallet is credited twice in a lineage and no evidence is used twice, even
\* when a paid wallet calls back into either pool.
OneCreditPerWallet ==
    \A a, b \in payments : a # b /\ SameLineage(a, b) =>
        a.pair.wallet # b.pair.wallet /\ Evidence(a.pair) \cap Evidence(b.pair) = {}

\* What was paid was owed to that wallet, once, and came out of its own
\* campaign's money (releaseCredit and recoverRemainder of both pools).
PaymentsSound == TypeOK /\ Solvent /\ Bookkeeping /\ OneCreditPerWallet

\* A sponsor gets the remainder once, after the last possible release: a recovered
\* campaign never pays or refunds again.
RecoveredIsFinal ==
    [][\A p \in Pools, n \in Numbers : campaigns[p][n].recovered =>
          campaigns'[p][n] = campaigns[p][n] /\ PaymentsOf(p, n)' = PaymentsOf(p, n)]_vars

\* The lineage behind the pools: campaign 1 of V1 and each sponsor's V2 campaigns.
LegacyCredits == [w \in Wallets |->
    Cardinality({payment \in payments : IsLegacy(payment) /\ payment.pair.wallet = w})]
SponsorCredits == [sw \in Sponsors \X Wallets |->
    Cardinality({payment \in payments : /\ payment.pool = "v2"
                                        /\ payment.sponsor = sw[1]
                                        /\ payment.pair.wallet = sw[2]})]
Sealed ==
    /\ Predecessor.sponsor # Nobody
    /\ now > Predecessor.deadline \/ Predecessor.claims = Predecessor.max

Lineage == INSTANCE CreditLineage WITH
    legacy <- LegacyCredits, sealed <- Sealed, credits <- SponsorCredits

ImplementsLineage == Lineage!Spec
=============================================================================
