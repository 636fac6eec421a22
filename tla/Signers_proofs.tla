--------------------------- MODULE Signers_proofs ---------------------------
(* The two processes that sign transactions and find them again: the demo's pool
   of service credits and the demo itself; the deployment. *)
EXTENDS DemoService, DeploymentLifecycle, FiniteSetTheorems, TLAPS

-----------------------------------------------------------------------------
(* The pool *)

Credit ==
    [sponsor : Sponsors, beneficiary : Beneficiaries, action : Actions, amount : Amounts,
     refundAfter : Nat, created : Int, start : Nat, end : Nat, active : BOOLEAN,
     routes : {NoRoutes} \cup (Transactions \X Transactions), state : States]

\* A released credit left its marks.
Marked ==
    \A c \in Numbers : credits[c].state = "released" =>
        /\ ActionKey(c) \in consumed
        /\ Queries(credits[c].routes) \subseteq consumed

PoolTypes == credits \in Seq(Credit) /\ now \in Int /\ attested \in Int

PoolInv == PoolTypes /\ Marked /\ PaidOnce

LEMMA PoolStarts == PoolInit => PoolInv
  BY DEF PoolInit, PoolInv, PoolTypes, Marked, PaidOnce, Numbers

LEMMA Member == PoolInv => \A c \in Numbers : credits[c] \in Credit
  BY DEF PoolInv, PoolTypes, Numbers

\* A step that pays nobody and changes no paid credit keeps what was paid.
LEMMA NothingPaid ==
    ASSUME PoolInv, consumed' = consumed, credits' \in Seq(Credit), now' \in Int, attested' \in Int,
           \A c \in DOMAIN credits' : credits'[c].state = "released" =>
               c \in DOMAIN credits /\ credits'[c] = credits[c]
    PROVE  PoolInv'
  <1>1. Marked'
    BY DEF PoolInv, Marked, Numbers, ActionKey, Queries
  <1>2. PaidOnce'
    BY DEF PoolInv, PaidOnce, Numbers, ActionKey, Queries
  <1> QED
    BY <1>1, <1>2 DEF PoolInv, PoolTypes

LEMMA CreateKeeps ==
    ASSUME PoolInv, NEW sponsor \in Sponsors, NEW terms \in Terms, CreateServiceCredit(sponsor, terms)
    PROVE  PoolInv'
  <1>1. Draft(sponsor, terms) \in Credit
    BY DEF PoolInv, PoolTypes, Draft, Terms, Credit, States
  <1>2. credits' = Append(credits, Draft(sponsor, terms)) /\ credits' \in Seq(Credit)
    BY <1>1 DEF CreateServiceCredit, PoolInv, PoolTypes
  <1>3. ASSUME NEW c \in DOMAIN credits', credits'[c].state = "released"
        PROVE  c \in DOMAIN credits /\ credits'[c] = credits[c]
    BY <1>1, <1>2, <1>3 DEF PoolInv, PoolTypes, Draft
  <1> QED
    BY <1>2, <1>3, NothingPaid DEF CreateServiceCredit, PoolInv, PoolTypes

\* A credit that is still open takes a new value, and is not paid by it.
LEMMA UpdateKeeps ==
    ASSUME PoolInv, NEW c \in Numbers, Unresolved(c), NEW credit \in Credit, credit.state # "released",
           credits' = [credits EXCEPT ![c] = credit],
           consumed' = consumed, now' = now, attested' = attested
    PROVE  PoolInv'
  <1>1. credits' \in Seq(Credit) /\ DOMAIN credits' = DOMAIN credits
    BY DEF PoolInv, PoolTypes, Numbers
  <1>2. \A d \in DOMAIN credits' : credits'[d].state = "released" =>
            d \in DOMAIN credits /\ credits'[d] = credits[d]
    BY <1>1 DEF PoolInv, PoolTypes, Numbers
  <1> QED
    BY <1>1, <1>2, NothingPaid DEF PoolInv, PoolTypes

LEMMA ReleaseKeeps ==
    ASSUME PoolInv, NEW c \in Numbers, NEW verified \in BOOLEAN, ReleaseCredit(c, verified)
    PROVE  PoolInv'
  <1>1. credits[c] \in Credit /\ credits[c].state = "open" /\ ~Replayed(c)
    BY DEF ReleaseCredit, PoolInv, PoolTypes, Numbers, Unresolved
  <1>2. /\ DOMAIN credits' = DOMAIN credits
        /\ credits'[c] = [credits[c] EXCEPT !.state = "released"]
        /\ \A d \in DOMAIN credits : d # c => credits'[d] = credits[d]
    BY DEF ReleaseCredit, PoolInv, PoolTypes, Numbers
  <1>3. PoolTypes'
    <2>1. [credits[c] EXCEPT !.state = "released"] \in Credit
      BY <1>1 DEF Credit, States
    <2>2. credits' = [credits EXCEPT ![c] = [credits[c] EXCEPT !.state = "released"]]
      BY DEF ReleaseCredit
    <2>3. credits' \in Seq(Credit)
      BY <2>1, <2>2 DEF PoolInv, PoolTypes, Numbers
    <2> QED
      BY <2>3 DEF ReleaseCredit, PoolInv, PoolTypes
  <1>4. /\ consumed \subseteq consumed'
        /\ ActionKey(c) \in consumed' /\ Queries(credits[c].routes) \subseteq consumed'
    BY DEF ReleaseCredit
  <1>5. /\ \A d \in Numbers : ActionKey(d)' = ActionKey(d)
        /\ \A d \in Numbers : credits'[d].routes = credits[d].routes
    BY <1>1, <1>2 DEF ActionKey, Numbers, Credit
  <1>6. Marked'
    BY <1>2, <1>4, <1>5 DEF Marked, PoolInv, Numbers, Queries
  <1>7. ActionKey(c) \notin consumed /\ Queries(credits[c].routes) \cap consumed = {}
    BY <1>1 DEF Replayed
  <1>8. ASSUME NEW d \in Numbers, d # c, credits[d].state = "released"
        PROVE  /\ Queries(credits[c].routes) \cap Queries(credits[d].routes) = {}
               /\ ActionKey(c) # ActionKey(d)
    BY <1>7, <1>8 DEF Marked, PoolInv
  <1>9. PaidOnce'
    BY <1>2, <1>5, <1>8 DEF PaidOnce, PoolInv, Numbers, Queries
  <1> QED
    BY <1>3, <1>6, <1>9 DEF PoolInv

LEMMA PoolKeeps == PoolInv /\ [PoolNext]_pool => PoolInv'
  <1> SUFFICES ASSUME PoolInv, [PoolNext]_pool PROVE PoolInv'
    OBVIOUS
  <1>1. ASSUME NEW sponsor \in Sponsors, NEW c \in Numbers, ActivateServiceCredit(c, sponsor)
        PROVE  PoolInv'
    <2>1. [credits[c] EXCEPT !.active = TRUE] \in Credit /\ credits[c].state = "open"
      <3>1. credits[c] \in Credit
        BY Member
      <3> QED
        BY <3>1, <1>1 DEF ActivateServiceCredit, Credit, Unresolved
    <2>2. credits' = [credits EXCEPT ![c] = [credits[c] EXCEPT !.active = TRUE]]
      BY <1>1 DEF ActivateServiceCredit
    <2>3. [credits[c] EXCEPT !.active = TRUE].state # "released"
      BY <2>1 DEF Credit
    <2> QED
      BY <1>1, <2>1, <2>2, <2>3, UpdateKeeps DEF ActivateServiceCredit
  <1>2. ASSUME NEW sponsor \in Sponsors, NEW c \in Numbers, RefundServiceCredit(c, sponsor)
        PROVE  PoolInv'
    <2>1. [credits[c] EXCEPT !.state = "refunded"] \in Credit /\ credits[c].state = "open"
      <3>1. credits[c] \in Credit
        BY Member
      <3> QED
        BY <3>1, <1>2 DEF RefundServiceCredit, Credit, States, Unresolved
    <2>2. credits' = [credits EXCEPT ![c] = [credits[c] EXCEPT !.state = "refunded"]]
      BY <1>2 DEF RefundServiceCredit
    <2>3. [credits[c] EXCEPT !.state = "refunded"].state # "released"
      BY <2>1 DEF Credit, PoolInv, PoolTypes, Numbers
    <2> QED
      BY <1>2, <2>1, <2>2, <2>3, UpdateKeeps DEF RefundServiceCredit
  <1>3. ASSUME NEW sponsor \in Sponsors, NEW c \in Numbers,
               NEW failed \in Transactions, NEW successful \in Transactions,
               CommitSourceTransactions(c, sponsor, failed, successful)
        PROVE  PoolInv'
    <2>1. [credits[c] EXCEPT !.routes = <<failed, successful>>] \in Credit /\ credits[c].state = "open"
      <3>1. credits[c] \in Credit
        BY Member
      <3> QED
        BY <3>1, <1>3 DEF CommitSourceTransactions, Credit, Unresolved
    <2>2. credits' = [credits EXCEPT ![c] = [credits[c] EXCEPT !.routes = <<failed, successful>>]]
      BY <1>3 DEF CommitSourceTransactions
    <2>3. [credits[c] EXCEPT !.routes = <<failed, successful>>].state # "released"
      BY <2>1 DEF Credit, PoolInv, PoolTypes, Numbers
    <2> QED
      BY <1>3, <2>1, <2>2, <2>3, UpdateKeeps DEF CommitSourceTransactions
  <1>4. CASE Tick \/ (\E height \in Nat : Attest(height)) \/ UNCHANGED pool
    BY <1>4, NothingPaid DEF Tick, Attest, pool, PoolInv, PoolTypes
  <1> QED
    BY <1>1, <1>2, <1>3, <1>4, CreateKeeps, ReleaseKeeps DEF PoolNext

\* In every pool, with any sponsors and whatever is committed: no two paid
\* credits share a source transaction or an action of their beneficiary
\* (RetryCreditUniversalRouterPoolV2.sol, releaseCredit).
THEOREM TransactionsPayOnce == PoolSpec => []PaidOnce
  <1>1. PoolSpec => []PoolInv
    BY PoolStarts, PoolKeeps, PTL DEF PoolSpec
  <1>2. PoolInv => PaidOnce
    BY DEF PoolInv
  <1> QED
    BY <1>1, <1>2, PTL

-----------------------------------------------------------------------------
(* The demo service *)

Routes == [credit : Nat, kind : {"failed", "successful", "replacement"}, nonce : Nat]
Offered == [beneficiary : Beneficiaries, action : Nat \X Int, amount : {CreditAmount},
            refundAfter : Int, start : Int, end : Int]
Funded ==
    [sponsor : {Service}, beneficiary : Beneficiaries, action : Nat \X Int, amount : {CreditAmount},
     refundAfter : Int, created : Int, start : Int, end : Int, active : BOOLEAN,
     routes : {NoRoutes} \cup (Routes \X Routes), state : States]

\* A call to prepare by where it is: on its walk, taking a credit back, or funding one.
Walks == [at : {"scan", "activate", "routes"}, who : Beneficiaries, count : Nat, head : Int, credit : Nat]
Reclaims ==
    [at : {"consume", "replace", "replaced", "refund"}, who : Beneficiaries, count : Nat, head : Int,
     credit : Nat, left : Seq(Routes)]
Fundings == [at : {"activate", "commit"}, credit : Nat, nonce : Nat]
Offers == [at : {"create"}, nonce : Nat, terms : Offered]

Calls ==
    [op : {"create"}, terms : Offered] \cup [op : {"activate", "refund"}, credit : Nat]
        \cup [op : {"commit"}, credit : Nat, nonce : Nat]

Reclaiming == prep.at \in {"consume", "replace", "replaced", "refund"}
Walking == prep.at = "scan" \/ Reclaiming

DemoTypes ==
    /\ credits \in Seq(Funded) /\ now \in Int /\ attested \in Int /\ head \in Int
    /\ mined \in Seq([tx : Routes, block : Int, good : BOOLEAN])
    /\ mempool \subseteq Routes /\ IsFiniteSet(mempool)
    /\ prep \in {Idle} \cup Walks \cup Reclaims \cup Fundings \cup Offers
    /\ exec \in {Idle} \cup [at : {"send", "wait"}, credit : Nat, kind : {"failed", "successful"}]
    /\ flight \in {{}} \cup {{call} : call \in Calls}

\* What a call names is there, and a walk is within what it counted.
Named ==
    /\ Walking => prep.credit >= 1 /\ prep.credit <= prep.count + 1 /\ prep.count <= Len(credits)
    /\ Reclaiming => prep.credit <= prep.count
    /\ prep.at \in {"replace", "replaced"} => prep.left # NoRoutes
    /\ \A call \in flight : call.op = "refund" => call.credit \in Numbers
    /\ exec # Idle => exec.credit \in Numbers /\ credits[exec.credit].routes # NoRoutes

\* The nonces of c's routes are used.
Dead(c) == \A i \in DOMAIN credits[c].routes : credits[c].routes[i].nonce < LatestNonce

\* A refund is sent for dead routes only, and stays in flight with them dead;
\* on the way there a route is dead or left to do.
DeadBeforeRefund ==
    /\ prep.at = "refund" /\ prep.credit \notin committedLate => Dead(prep.credit)
    /\ \A call \in flight : call.op = "refund" /\ call.credit \notin committedLate => Dead(call.credit)
    /\ prep.at \in {"consume", "replace", "replaced"} /\ prep.credit \notin committedLate =>
          \A i \in DOMAIN credits[prep.credit].routes :
              LET route == credits[prep.credit].routes[i] IN
              route.nonce < LatestNonce \/ \E k \in DOMAIN prep.left : prep.left[k] = route

\* Behind a walk nothing is open and the caller has nothing but refunds; what is
\* beyond its end came late.
Settled(c, who) == ~Unresolved(c) /\ (credits[c].beneficiary = who => credits[c].state = "refunded")
WalkedOver ==
    Walking =>
        /\ \A c \in Numbers : c < prep.credit => Settled(c, prep.who)
        /\ \A c \in Numbers : c > prep.count => c \in createdLate
OfferedAlone == prep.at = "create" => \A c \in Numbers \ createdLate : Settled(c, prep.terms.beneficiary)

DemoInv ==
    /\ DemoTypes /\ Named /\ DeadBeforeRefund /\ WalkedOver /\ OfferedAlone
    /\ ReclaimedAreDead /\ OneCredit

LEMMA DemoStarts == Init => DemoInv
  <1> SUFFICES ASSUME Init PROVE DemoInv
    OBVIOUS
  <1>1. DemoTypes
    BY FS_EmptySet DEF Init, PoolInit, DemoTypes
  <1>2. {c \in Numbers \ createdLate : Unresolved(c)} = {}
    BY DEF Init, PoolInit, Numbers
  <1>3. OneCredit
    BY <1>2, FS_EmptySet DEF late, OneCredit, OneOpenCredit, OneCreditPerBeneficiary, Init, PoolInit, Numbers
  <1> QED
    BY <1>1, <1>3
    DEF late, DemoInv, Init, PoolInit, Named, DeadBeforeRefund, WalkedOver, Walking, Reclaiming, OfferedAlone,
        ReclaimedAreDead, Numbers, Idle

\* The nonce that the pending state counts to.
LEMMA PendingTyped == DemoTypes => PendingNonce \in Nat /\ LatestNonce \in Nat
  <1> SUFFICES ASSUME DemoTypes PROVE PendingNonce \in Nat /\ LatestNonce \in Nat
    OBVIOUS
  <1> DEFINE waiting == {tx.nonce : tx \in mempool}
             queue == {n \in waiting : n >= LatestNonce /\ LatestNonce..n \subseteq waiting}
  <1>1. LatestNonce \in Nat
    BY DEF DemoTypes, LatestNonce
  <1>2. IsFiniteSet(waiting)
    <2>1. PICK nonceOf : nonceOf = [tx \in mempool |-> tx.nonce]
      OBVIOUS
    <2>2. nonceOf \in Surjection(mempool, waiting)
      BY <2>1 DEF Surjection
    <2> HIDE DEF waiting
    <2> QED
      BY <2>2, FS_Surjection DEF DemoTypes
  <1>3. queue \subseteq waiting
    OBVIOUS
  <1>4. Cardinality(queue) \in Nat
    <2> HIDE DEF queue, waiting
    <2> QED
      BY <1>2, <1>3, FS_Subset, FS_CardinalityType
  <1> QED
    BY <1>1, <1>4 DEF PendingNonce

LEMMA ReclaimedIsThere == DemoInv /\ Reclaiming => prep.credit \in Numbers
  <1> SUFFICES ASSUME DemoInv, Reclaiming PROVE prep.credit \in Numbers
    OBVIOUS
  <1>1. prep.credit \in Nat /\ prep.count \in Nat /\ Len(credits) \in Nat /\ Numbers = 1..Len(credits)
    BY DEF DemoInv, DemoTypes, Reclaiming, Numbers, Idle, Walks, Reclaims, Fundings, Offers
  <1> QED
    BY <1>1 DEF DemoInv, Named, Walking

LEMMA RouteTyped ==
    ASSUME DemoInv, NEW c \in Numbers
    PROVE  /\ credits[c] \in Funded /\ credits[c].routes \in {NoRoutes} \cup (Routes \X Routes)
           /\ \A i \in DOMAIN credits[c].routes :
                  credits[c].routes[i] \in Routes /\ credits[c].routes[i].nonce \in Nat
  <1>1. credits[c] \in Funded
    BY DEF DemoInv, DemoTypes, Numbers
  <1>2. credits[c].routes \in {NoRoutes} \cup (Routes \X Routes)
    BY <1>1 DEF Funded
  <1> QED
    BY <1>1, <1>2 DEF Routes, NoRoutes

\* A step that touches no credit keeps what was promised about them.
LEMMA Quiet ==
    ASSUME DemoInv, credits' = credits, UNCHANGED <<createdLate, committedLate>>,
           LatestNonce' \in Nat, LatestNonce <= LatestNonce'
    PROVE  /\ \A c \in Numbers : Dead(c) => Dead(c)'
           /\ ReclaimedAreDead' /\ OneCredit'
  <1>1. LatestNonce \in Nat
    BY PendingTyped DEF DemoInv
  <1>2. ASSUME NEW c \in Numbers, Dead(c) PROVE Dead(c)'
    <2>2. \A i \in DOMAIN credits[c].routes : credits[c].routes[i].nonce \in Nat
      BY RouteTyped
    <2> QED
      BY <1>1, <1>2, <2>2 DEF Dead
  <1>3. ReclaimedAreDead'
    BY <1>2 DEF DemoInv, ReclaimedAreDead, Dead, Numbers
  <1>4. OneCredit'
    BY DEF DemoInv, OneCredit, OneOpenCredit, OneCreditPerBeneficiary, Numbers, Unresolved
  <1> QED
    BY <1>2, <1>3, <1>4

\* The rest of the invariant about a call to prepare that goes on or is over.
LEMMA SamePrep ==
    ASSUME DemoInv, credits' = credits, UNCHANGED <<createdLate, committedLate>>,
           LatestNonce' \in Nat, LatestNonce <= LatestNonce',
           prep' \in {prep, Idle}, flight' \subseteq flight
    PROVE  /\ DeadBeforeRefund' /\ WalkedOver' /\ OfferedAlone'
           /\ exec' = exec => Named'
           /\ exec' = Idle => Named'
  <1>1. \A c \in Numbers : Dead(c) => Dead(c)'
    BY Quiet
  <1>2. LatestNonce \in Nat
    BY PendingTyped DEF DemoInv
  <1>3. DeadBeforeRefund'
    <2>1. (prep.at = "refund" /\ prep.credit \notin committedLate => Dead(prep.credit))'
      <3>1. CASE prep'.at = "refund" /\ prep'.credit \notin committedLate'
        <4>1. prep' = prep
          BY <3>1 DEF Idle
        <4>2. PICK c \in Numbers : c = prep.credit
          BY <3>1, <4>1, ReclaimedIsThere DEF Reclaiming
        <4>3. Dead(c)'
          BY <1>1, <3>1, <4>1, <4>2 DEF DemoInv, DeadBeforeRefund
        <4> QED
          BY <4>1, <4>2, <4>3 DEF Dead
      <3> QED
        BY <3>1
    <2>2. ASSUME NEW call \in flight', call.op = "refund", call.credit \notin committedLate' PROVE Dead(call.credit)'
      <3>1. call.credit \in Numbers /\ Dead(call.credit)
        BY <2>2 DEF DemoInv, Named, DeadBeforeRefund
      <3> QED
        BY <1>1, <3>1
    <2>3. ASSUME prep'.at \in {"consume", "replace", "replaced"}, prep'.credit \notin committedLate',
                 NEW i \in DOMAIN credits'[prep'.credit].routes
          PROVE  LET route == credits'[prep'.credit].routes[i] IN
                 route.nonce < LatestNonce' \/ \E k \in DOMAIN prep'.left : prep'.left[k] = route
      <3>1. prep' = prep /\ prep.credit \in Numbers
        BY <2>3, ReclaimedIsThere DEF Reclaiming, Idle
      <3>2. credits[prep.credit].routes[i].nonce \in Nat
        BY <2>3, <3>1, RouteTyped
      <3> QED
        BY <1>2, <2>3, <3>1, <3>2 DEF DemoInv, DeadBeforeRefund
    <2> QED
      BY <2>1, <2>2, <2>3 DEF DeadBeforeRefund
  <1>4. WalkedOver' /\ OfferedAlone'
    BY DEF DemoInv, WalkedOver, Walking, Reclaiming, OfferedAlone, Settled, Unresolved, Numbers, Idle
  <1>5. (exec' = exec => Named') /\ (exec' = Idle => Named')
    BY DEF DemoInv, Named, Walking, Reclaiming, Numbers, Idle
  <1> QED
    BY <1>3, <1>4, <1>5

\* Steps of the chains, of execute and of a call to prepare that fails.
LEMMA AsideKeeps ==
    ASSUME DemoInv, UNCHANGED <<credits, createdLate, committedLate>>, prep' \in {prep, Idle}, flight' \in {flight, {}},
           now' \in Int, attested' \in Int, head' \in Int,
           mined' \in Seq([tx : Routes, block : Int, good : BOOLEAN]), Len(mined) <= Len(mined'),
           mempool' \subseteq Routes, IsFiniteSet(mempool'), exec' \in {exec, Idle}
    PROVE  DemoInv'
  <1>1. LatestNonce' \in Nat /\ LatestNonce <= LatestNonce'
    BY DEF LatestNonce
  <1>2. DemoTypes'
    BY DEF DemoInv, DemoTypes
  <1>3. ReclaimedAreDead' /\ OneCredit'
    BY <1>1, Quiet
  <1>4. DeadBeforeRefund' /\ WalkedOver' /\ OfferedAlone' /\ Named'
    BY <1>1, SamePrep
  <1> QED
    BY <1>2, <1>3, <1>4 DEF DemoInv

\* execute goes on with a credit that has routes.
LEMMA ExecKeepsInv ==
    ASSUME DemoInv, UNCHANGED <<pool, head, mined, prep, flight, lost, late>>,
           mempool' \subseteq Routes, IsFiniteSet(mempool'),
           exec' \in {Idle} \cup [at : {"send", "wait"}, credit : Nat, kind : {"failed", "successful"}],
           exec' # Idle => exec'.credit \in Numbers /\ credits[exec'.credit].routes # NoRoutes
    PROVE  DemoInv'
  <1>1. LatestNonce' \in Nat /\ LatestNonce <= LatestNonce' /\ credits' = credits
    BY PendingTyped DEF late, DemoInv, LatestNonce, pool
  <1>2. DemoTypes'
    BY DEF DemoInv, DemoTypes, pool
  <1>3. ReclaimedAreDead' /\ OneCredit'
    BY <1>1, Quiet DEF late
  <1>4. DeadBeforeRefund' /\ WalkedOver' /\ OfferedAlone'
    BY <1>1, SamePrep DEF late
  <1>5. Named'
    BY <1>1 DEF DemoInv, Named, Walking, Reclaiming, Numbers
  <1> QED
    BY <1>2, <1>3, <1>4, <1>5 DEF DemoInv

\* A call to prepare that goes on without a transaction to the pool.
LEMMA PrepKeepsInv ==
    ASSUME DemoInv, UNCHANGED <<pool, head, mined, exec, flight, lost, late>>,
           mempool' \subseteq Routes, IsFiniteSet(mempool'),
           prep' \in {Idle} \cup Walks \cup Reclaims \cup Fundings \cup Offers,
           (Walking => prep.credit >= 1 /\ prep.credit <= prep.count + 1 /\ prep.count <= Len(credits))',
           (Reclaiming => prep.credit <= prep.count)',
           (prep.at \in {"replace", "replaced"} => prep.left # NoRoutes)',
           (prep.at = "refund" /\ prep.credit \notin committedLate => Dead(prep.credit))',
           (prep.at \in {"consume", "replace", "replaced"} /\ prep.credit \notin committedLate =>
              \A i \in DOMAIN credits[prep.credit].routes :
                  LET route == credits[prep.credit].routes[i] IN
                  route.nonce < LatestNonce \/ \E k \in DOMAIN prep.left : prep.left[k] = route)',
           WalkedOver', OfferedAlone'
    PROVE  DemoInv'
  <1>1. LatestNonce' \in Nat /\ LatestNonce <= LatestNonce' /\ credits' = credits
    BY PendingTyped DEF late, DemoInv, LatestNonce, pool
  <1>2. DemoTypes'
    BY DEF DemoInv, DemoTypes, pool
  <1>3. ReclaimedAreDead' /\ OneCredit'
    BY <1>1, Quiet DEF late
  <1>4. ASSUME NEW call \in flight', call.op = "refund"
        PROVE  call.credit \in Numbers' /\ (call.credit \notin committedLate' => Dead(call.credit)')
    <2>1. call.credit \in Numbers /\ (call.credit \notin committedLate => Dead(call.credit))
      BY <1>4 DEF DemoInv, Named, DeadBeforeRefund
    <2> QED
      BY <2>1, <1>1, Quiet DEF late, Numbers
  <1>5. Named'
    BY <1>1, <1>4 DEF DemoInv, Named, Numbers
  <1>6. DeadBeforeRefund'
    BY <1>4 DEF DeadBeforeRefund
  <1> QED
    BY <1>2, <1>3, <1>5, <1>6 DEF DemoInv

LEMMA PrepTyped ==
    ASSUME DemoTypes
    PROVE  /\ prep.at \in {"scan", "routes"} => prep \in Walks
           /\ Reclaiming => prep \in Reclaims
           /\ prep.at = "activate" => prep \in Walks \cup Fundings
           /\ prep.at = "commit" => prep \in Fundings
           /\ prep.at = "create" => prep \in Offers
           /\ prep = Idle => ~Reclaiming /\ ~Walking
  BY DEF DemoTypes, Idle, Walks, Reclaims, Fundings, Offers, Reclaiming, Walking

LEMMA StartsWalk == ASSUME DemoInv, NEW who \in Beneficiaries, Prepare(who) PROVE DemoInv'
  <1>1. prep' = [at |-> "scan", who |-> who, count |-> Len(credits), head |-> head, credit |-> 1]
        /\ credits' = credits
    BY DEF late, Prepare, PrepKeeps, pool
  <1>2. Len(credits) \in Nat /\ Numbers = 1..Len(credits) /\ Numbers \subseteq Nat
    BY DEF DemoInv, DemoTypes, Numbers
  <1>3. prep' \in Walks
    BY <1>1, <1>2 DEF Walks, DemoInv, DemoTypes
  <1>4. WalkedOver' /\ OfferedAlone'
    BY <1>1, <1>2 DEF WalkedOver, OfferedAlone, Numbers
  <1> QED
    BY <1>1, <1>2, <1>3, <1>4, PrepKeepsInv
    DEF late, Prepare, PrepKeeps, DemoInv, DemoTypes, source, Walking, Reclaiming

LEMMA ResumedTyped ==
    ASSUME DemoTypes, NEW c \in Nat
    PROVE  Resumed(c) \in {Idle} \cup Fundings /\ Resumed(c).at \in {"idle", "commit"}
  <1>1. PendingNonce \in Nat
    BY PendingTyped
  <1> QED
    BY <1>1 DEF Resumed, Fundings, Idle

\* What comes of the credit that the walk has reached.
LEMMA VerdictKeeps ==
    ASSUME DemoInv, prep.at = "scan", prep.credit <= prep.count,
           prep' = Verdict(prep.credit), PrepKeeps
    PROVE  DemoInv'
  <1> DEFINE c == prep.credit
  <1>1. prep \in Walks /\ c \in Numbers /\ c \in Nat /\ prep.count \in Nat /\ Len(credits) \in Nat
        /\ Numbers = 1..Len(credits) /\ c <= prep.count /\ prep.count <= Len(credits) /\ c >= 1
    <2>1. prep \in Walks /\ Walking
      BY PrepTyped DEF DemoInv, Walking
    <2>2. c \in Nat /\ prep.count \in Nat /\ Len(credits) \in Nat /\ Numbers = 1..Len(credits)
      BY <2>1 DEF Walks, DemoInv, DemoTypes, Numbers
    <2> QED
      BY <2>1, <2>2 DEF DemoInv, Named
  <1>2. /\ credits' = credits /\ UNCHANGED <<createdLate, committedLate>> /\ mined' = mined
        /\ mempool' \subseteq Routes /\ IsFiniteSet(mempool')
        /\ UNCHANGED <<pool, head, mined, exec, flight, lost, late>>
    BY DEF late, PrepKeeps, pool, source, DemoInv, DemoTypes
  <1>3. /\ \A d \in Numbers : d < c => Settled(d, prep.who)
        /\ \A d \in Numbers : d > prep.count => d \in createdLate
    BY DEF DemoInv, WalkedOver, Walking
  <1>4. CASE prep' = Reclaim(c)
    <2>1. prep' = [at |-> "consume", who |-> prep.who, count |-> prep.count, head |-> prep.head, credit |-> c,
                   left |-> credits[c].routes]
      BY <1>4 DEF Reclaim
    <2>2. credits[c].routes \in Seq(Routes)
      <3>1. credits[c].routes \in {NoRoutes} \cup (Routes \X Routes)
        BY <1>1, RouteTyped
      <3>2. ASSUME NEW pair \in Routes \X Routes PROVE pair \in Seq(Routes)
        <4>1. PICK a \in Routes, b \in Routes : pair = <<a, b>>
          OBVIOUS
        <4> QED
          BY <4>1
      <3>3. NoRoutes \in Seq(Routes)
        BY DEF NoRoutes
      <3> QED
        BY <3>1, <3>2, <3>3
    <2>3. prep' \in Reclaims
      BY <1>1, <2>1, <2>2 DEF Walks, Reclaims
    <2>4. WalkedOver' /\ OfferedAlone'
      BY <1>2, <1>3, <2>1 DEF WalkedOver, OfferedAlone, Settled, Unresolved, Numbers
    <2>5. \A i \in DOMAIN credits[c].routes : \E k \in DOMAIN prep'.left : prep'.left[k] = credits[c].routes[i]
      BY <2>1
    <2> QED
      BY <1>1, <1>2, <2>1, <2>3, <2>4, <2>5, PrepKeepsInv DEF Walking, Reclaiming
  <1>5. CASE prep' = Goto("activate")
    <2>1. prep' \in Walks /\ prep'.at = "activate"
      BY <1>1, <1>5 DEF Goto, Walks
    <2> QED
      BY <1>2, <2>1, PrepKeepsInv DEF Walking, Reclaiming, WalkedOver, OfferedAlone
  <1>6. CASE prep' = Idle \/ prep' = Resumed(c)
    <2>1. prep' \in {Idle} \cup Fundings /\ prep'.at \in {"idle", "commit"}
      BY <1>1, <1>6, ResumedTyped DEF Idle, DemoInv
    <2> QED
      BY <1>2, <2>1, PrepKeepsInv DEF Walking, Reclaiming, WalkedOver, OfferedAlone
  <1>7. CASE prep' = NextCredit(c + 1) /\ Settled(c, prep.who)
    <2>1. prep' = [at |-> "scan", who |-> prep.who, count |-> prep.count, head |-> prep.head, credit |-> c + 1]
      BY <1>7 DEF NextCredit
    <2>2. prep' \in Walks
      BY <1>1, <2>1 DEF Walks
    <2>3. \A d \in Numbers : d < c + 1 => Settled(d, prep.who)
      BY <1>1, <1>3, <1>7
    <2>4. WalkedOver' /\ OfferedAlone'
      BY <1>2, <1>3, <2>1, <2>3 DEF WalkedOver, OfferedAlone, Settled, Unresolved, Numbers
    <2> QED
      BY <1>1, <1>2, <2>1, <2>2, <2>4, PrepKeepsInv DEF Walking, Reclaiming
  <1>8. \/ prep' \in {Reclaim(c), Goto("activate"), Idle, Resumed(c)}
        \/ prep' = NextCredit(c + 1) /\ Settled(c, prep.who)
    <2>1. credits[c].state \in {"open", "released", "refunded"}
      BY <1>1, RouteTyped DEF Funded, States
    <2> QED
      BY <2>1 DEF Verdict, Settled, Unresolved
  <1> QED
    BY <1>4, <1>5, <1>6, <1>7, <1>8

LEMMA OfferKeeps == ASSUME DemoInv, Offer PROVE DemoInv'
  <1>1. prep \in Walks /\ Walking /\ prep.credit > prep.count /\ prep.count \in Nat /\ prep.credit \in Nat
    BY PrepTyped DEF Offer, DemoInv, Walking, Walks
  <1>2. /\ credits' = credits /\ UNCHANGED <<createdLate, committedLate>>
        /\ mempool' \subseteq Routes /\ IsFiniteSet(mempool')
        /\ UNCHANGED <<pool, head, mined, exec, flight, lost, late>>
    BY DEF late, Offer, PrepKeeps, pool, source, DemoInv, DemoTypes
  <1>3. CASE prep.count >= MaxCredits
    <2>1. prep' = Idle
      BY <1>3 DEF Offer
    <2> QED
      BY <1>2, <2>1, PrepKeepsInv DEF Idle, Walking, Reclaiming, WalkedOver, OfferedAlone
  <1>4. CASE ~(prep.count >= MaxCredits)
    <2> DEFINE start == IF head + StartDelay > attested THEN head + StartDelay ELSE attested + 1
               terms == [beneficiary |-> prep.who, action |-> <<prep.count + 1, now>>,
                         amount |-> CreditAmount, refundAfter |-> now + RefundDelay,
                         start |-> start, end |-> start + WindowSize]
    <2>1. prep' = [at |-> "create", nonce |-> PendingNonce, terms |-> terms]
      BY <1>4 DEF Offer
    <2>2. terms \in Offered
      BY <1>1, DemoAssumption DEF DemoInv, DemoTypes, Walks, Offered
    <2>3. prep' \in Offers
      BY <2>1, <2>2, PendingTyped DEF Offers, DemoInv
    <2>4. \A c \in Numbers \ createdLate : Settled(c, prep.who)
      <3>1. ASSUME NEW c \in Numbers, c \notin createdLate PROVE c < prep.credit
        BY <1>1, <3>1 DEF DemoInv, DemoTypes, WalkedOver, Numbers
      <3> QED
        BY <1>1, <3>1 DEF DemoInv, WalkedOver
    <2>5. WalkedOver' /\ OfferedAlone'
      BY <1>2, <2>1, <2>4 DEF WalkedOver, Walking, Reclaiming, OfferedAlone, Settled, Unresolved, Numbers
    <2> QED
      BY <1>2, <2>1, <2>3, <2>5, PrepKeepsInv DEF Walking, Reclaiming
  <1> QED
    BY <1>3, <1>4

\* Reclaiming goes on from one route to the next.
LEMMA ReclaimGoesOn ==
    ASSUME DemoInv, Reclaiming, prep.at # "refund",
           UNCHANGED <<pool, head, mined, exec, flight, lost, late>>,
           mempool' \subseteq Routes, IsFiniteSet(mempool'),
           NEW step \in {"consume", "replace", "replaced", "refund"}, NEW rest \in Seq(Routes),
           prep' = [at |-> step, who |-> prep.who, count |-> prep.count, head |-> prep.head,
                    credit |-> prep.credit, left |-> rest],
           step = "refund" => prep.left = NoRoutes, step \in {"replace", "replaced"} => rest # NoRoutes,
           \A k \in DOMAIN prep.left : prep.left[k].nonce < LatestNonce \/ \E l \in DOMAIN rest : rest[l] = prep.left[k]
    PROVE  DemoInv'
  <1> DEFINE c == prep.credit
  <1>1. prep \in Reclaims /\ c \in Numbers /\ prep.at \in {"consume", "replace", "replaced"}
    BY PrepTyped, ReclaimedIsThere DEF DemoInv, Reclaiming
  <1>2. prep' \in Reclaims /\ prep'.credit = c /\ prep'.left = rest /\ prep'.at = step
        /\ prep'.who = prep.who /\ prep'.count = prep.count
    BY <1>1 DEF Reclaims
  <1>3. credits' = credits /\ UNCHANGED <<createdLate, committedLate>> /\ LatestNonce' = LatestNonce
    BY DEF late, pool, LatestNonce
  <1>4. c \notin committedLate => \A i \in DOMAIN credits[c].routes :
            credits[c].routes[i].nonce < LatestNonce \/ \E k \in DOMAIN rest : rest[k] = credits[c].routes[i]
    BY <1>1 DEF DemoInv, DeadBeforeRefund
  <1>5. ASSUME step = "refund", c \notin committedLate PROVE Dead(c)
    BY <1>1, <1>5 DEF DemoInv, DeadBeforeRefund, Dead, NoRoutes
  <1>6. (prep.at = "refund" /\ prep.credit \notin committedLate => Dead(prep.credit))'
    BY <1>2, <1>3, <1>5 DEF Dead
  <1>7. WalkedOver' /\ OfferedAlone'
    BY <1>1, <1>2, <1>3 DEF DemoInv, WalkedOver, Walking, Reclaiming, OfferedAlone, Settled, Unresolved, Numbers
  <1>8. (Walking => prep.credit >= 1 /\ prep.credit <= prep.count + 1 /\ prep.count <= Len(credits))'
        /\ (Reclaiming => prep.credit <= prep.count)'
    BY <1>2, <1>3 DEF DemoInv, Named, Walking
  <1> QED
    BY <1>2, <1>3, <1>4, <1>6, <1>7, <1>8, PrepKeepsInv

LEMMA GotoIs ==
    ASSUME DemoInv, Reclaiming, NEW step
    PROVE  Goto(step) = [at |-> step, who |-> prep.who, count |-> prep.count, head |-> prep.head,
                         credit |-> prep.credit, left |-> prep.left]
  BY PrepTyped DEF Goto, DemoInv, Reclaims

LEMMA TailIs ==
    ASSUME DemoInv, Reclaiming, prep.left # NoRoutes
    PROVE  /\ Head(prep.left) = prep.left[1] /\ Head(prep.left) \in Routes /\ Tail(prep.left) \in Seq(Routes)
           /\ \A k \in DOMAIN prep.left : k # 1 => \E l \in DOMAIN Tail(prep.left) : Tail(prep.left)[l] = prep.left[k]
  <1>1. prep.left \in Seq(Routes)
    BY PrepTyped DEF DemoInv, Reclaims
  <1>2. Tail(prep.left) \in Seq(Routes) /\ Len(Tail(prep.left)) = Len(prep.left) - 1
        /\ \A l \in 1..(Len(prep.left) - 1) : Tail(prep.left)[l] = prep.left[l + 1]
    BY <1>1 DEF NoRoutes
  <1>3. ASSUME NEW k \in DOMAIN prep.left, k # 1
        PROVE  \E l \in DOMAIN Tail(prep.left) : Tail(prep.left)[l] = prep.left[k]
    <2>1. k - 1 \in 1..(Len(prep.left) - 1) /\ k = (k - 1) + 1 /\ k - 1 \in DOMAIN Tail(prep.left)
      BY <1>1, <1>2, <1>3
    <2> QED
      BY <1>2, <2>1
  <1>4. Head(prep.left) = prep.left[1] /\ Head(prep.left) \in Routes
    BY <1>1 DEF NoRoutes
  <1> QED
    BY <1>2, <1>3, <1>4

LEMMA ConsumeKeeps == ASSUME DemoInv, ConsumeNonce PROVE DemoInv'
  <1>1. Reclaiming /\ prep.at # "refund" /\ prep \in Reclaims /\ prep.left \in Seq(Routes)
    BY PrepTyped DEF ConsumeNonce, Reclaiming, DemoInv, Reclaims
  <1>2. /\ credits' = credits /\ UNCHANGED <<createdLate, committedLate>>
        /\ mempool' \subseteq Routes /\ IsFiniteSet(mempool')
        /\ UNCHANGED <<pool, head, mined, exec, flight, lost, late>>
    BY DEF late, ConsumeNonce, PrepKeeps, pool, source, DemoInv, DemoTypes
  <1>3. CASE prep' = Idle
    BY <1>2, <1>3, PrepKeepsInv DEF Idle, Walking, Reclaiming, WalkedOver, OfferedAlone
  <1>4. CASE (prep.left # NoRoutes /\ prep' = Goto("replace")) \/ (prep.left = NoRoutes /\ prep' = Goto("refund"))
    <2>1. PICK step \in {"replace", "refund"} :
              /\ prep' = [at |-> step, who |-> prep.who, count |-> prep.count, head |-> prep.head,
                          credit |-> prep.credit, left |-> prep.left]
              /\ step = "refund" => prep.left = NoRoutes
              /\ step = "replace" => prep.left # NoRoutes
      BY <1>1, <1>4, GotoIs
    <2> QED
      BY <1>1, <1>2, <2>1, ReclaimGoesOn
  <1>5. CASE prep.left # NoRoutes /\ Head(prep.left).nonce < LatestNonce /\ prep' = [prep EXCEPT !.left = Tail(@)]
    <2>1. prep' = [at |-> "consume", who |-> prep.who, count |-> prep.count, head |-> prep.head,
                   credit |-> prep.credit, left |-> Tail(prep.left)]
      BY <1>1, <1>5 DEF Reclaims, ConsumeNonce
    <2>2. \A k \in DOMAIN prep.left :
              prep.left[k].nonce < LatestNonce \/ \E l \in DOMAIN Tail(prep.left) : Tail(prep.left)[l] = prep.left[k]
      BY <1>1, <1>5, TailIs
    <2> QED
      BY <1>1, <1>2, <1>5, <2>1, <2>2, TailIs, ReclaimGoesOn
  <1> QED
    BY <1>3, <1>4, <1>5 DEF ConsumeNonce

LEMMA ReplaceKeeps == ASSUME DemoInv, Replace PROVE DemoInv'
  <1>1. Reclaiming /\ prep.at # "refund" /\ prep \in Reclaims /\ prep.left \in Seq(Routes)
    BY PrepTyped DEF Replace, Reclaiming, DemoInv, Reclaims
  <1>2. prep' = [at |-> "replaced", who |-> prep.who, count |-> prep.count, head |-> prep.head,
                 credit |-> prep.credit, left |-> prep.left]
    BY <1>1, GotoIs DEF Replace
  <1>3. mempool' \subseteq Routes /\ IsFiniteSet(mempool')
    <2>1. CASE mempool' = mempool
      BY <2>1 DEF DemoInv, DemoTypes
    <2>2. CASE mempool' = mempool \cup {Route(prep.credit, "replacement", Head(prep.left).nonce)}
      <3>1. prep.left # NoRoutes
        BY DEF Replace, DemoInv, Named
      <3>2. Route(prep.credit, "replacement", Head(prep.left).nonce) \in Routes
        BY <1>1, <3>1, TailIs DEF Route, Routes, Reclaims
      <3> QED
        BY <2>2, <3>2, FS_AddElement DEF DemoInv, DemoTypes
    <2> QED
      BY <2>1, <2>2 DEF Replace
  <1> QED
    BY <1>1, <1>2, <1>3, ReclaimGoesOn DEF Replace, DemoInv, Named

LEMMA ReplacedKeeps == ASSUME DemoInv, Replaced PROVE DemoInv'
  <1>1. Reclaiming /\ prep.at = "replaced" /\ prep \in Reclaims /\ prep.left # NoRoutes
    BY PrepTyped DEF Replaced, Reclaiming, DemoInv, Named
  <1>2. prep' = [at |-> "consume", who |-> prep.who, count |-> prep.count, head |-> prep.head,
                 credit |-> prep.credit, left |-> Tail(prep.left)]
    BY <1>1 DEF Replaced, Reclaims
  <1>3. Head(prep.left).nonce < LatestNonce
    <2>1. Head(prep.left).nonce \in Nat /\ LatestNonce \in Nat
      BY <1>1, TailIs, PendingTyped DEF Routes, DemoInv
    <2> QED
      BY <2>1 DEF Replaced
  <1>4. mempool' \subseteq Routes /\ IsFiniteSet(mempool')
        /\ UNCHANGED <<pool, head, mined, exec, flight, lost, late>>
    BY DEF late, Replaced, PrepKeeps, source, DemoInv, DemoTypes
  <1>5. \A k \in DOMAIN prep.left :
            prep.left[k].nonce < LatestNonce \/ \E l \in DOMAIN Tail(prep.left) : Tail(prep.left)[l] = prep.left[k]
    BY <1>1, <1>3, TailIs
  <1> QED
    BY <1>1, <1>2, <1>4, <1>5, TailIs, ReclaimGoesOn

LEMMA ResumeKeeps == ASSUME DemoInv, Resume PROVE DemoInv'
  <1>1. prep' \in {Idle} \cup Fundings /\ prep'.at \in {"idle", "commit"}
    BY PrepTyped, ResumedTyped DEF Resume, DemoInv, Walks
  <1>2. mempool' \subseteq Routes /\ IsFiniteSet(mempool')
        /\ UNCHANGED <<pool, head, mined, exec, flight, lost, late>>
    BY DEF late, Resume, PrepKeeps, source, DemoInv, DemoTypes
  <1> QED
    BY <1>1, <1>2, PrepKeepsInv DEF Walking, Reclaiming, WalkedOver, OfferedAlone

\* execute: the credit it works on has its two routes.
LEMMA ExecutionKeeps ==
    ASSUME DemoInv, (\E c \in Numbers : StartExecution(c)) \/ Broadcast \/ FailureIncluded \/ ExecutionEnds
    PROVE  DemoInv'
  <1> DEFINE Executions == {Idle} \cup [at : {"send", "wait"}, credit : Nat, kind : {"failed", "successful"}]
  <1>1. UNCHANGED <<pool, head, mined, prep, flight, lost, late>>
    BY DEF late, StartExecution, Broadcast, FailureIncluded, ExecutionEnds, ExecKeeps
  <1>2. ASSUME NEW c \in Numbers
        PROVE  /\ c \in Nat /\ AfterFailure(c) \in Executions
               /\ AfterFailure(c) # Idle => AfterFailure(c).credit = c
    BY DEF AfterFailure, Idle, Numbers, DemoInv, DemoTypes
  <1>3. exec # Idle => exec.credit \in Numbers /\ credits[exec.credit].routes # NoRoutes
    BY DEF DemoInv, Named
  <1>4. CASE ExecutionEnds
    BY <1>1, <1>4, ExecKeepsInv DEF ExecutionEnds, Idle, DemoInv, DemoTypes
  <1>5. ASSUME NEW c \in Numbers, StartExecution(c) PROVE DemoInv'
    <2>1. credits[c].routes # NoRoutes /\ mempool' = mempool
      BY <1>5 DEF StartExecution
    <2>2. exec' = AfterFailure(c) \/ exec' = [at |-> "send", credit |-> c, kind |-> "failed"]
      BY <1>5 DEF StartExecution
    <2>3. exec' \in Executions /\ (exec' # Idle => exec'.credit = c)
      BY <1>2, <2>2
    <2> QED
      BY <1>1, <2>1, <2>3, ExecKeepsInv DEF DemoInv, DemoTypes
  <1>6. CASE FailureIncluded
    <2>1. exec # Idle /\ exec' = AfterFailure(exec.credit) /\ mempool' = mempool
      BY <1>6 DEF FailureIncluded, Idle
    <2>2. exec' \in Executions /\ (exec' # Idle => exec'.credit = exec.credit)
      BY <1>2, <1>3, <2>1
    <2> QED
      BY <1>1, <1>3, <2>1, <2>2, ExecKeepsInv DEF DemoInv, DemoTypes
  <1>7. CASE Broadcast
    <2>1. exec # Idle /\ exec.at = "send" /\ exec \in Executions
      BY <1>7 DEF Broadcast, Idle, DemoInv, DemoTypes
    <2>2. exec' \in Executions /\ (exec' # Idle => exec'.credit = exec.credit)
      BY <1>7, <2>1 DEF Broadcast, Idle
    <2>3. RouteOf(exec.credit, exec.kind) \in Routes
      <3>1. credits[exec.credit].routes \in Routes \X Routes
        BY <1>3, <2>1, RouteTyped
      <3>2. credits[exec.credit].routes[1] \in Routes /\ credits[exec.credit].routes[2] \in Routes
        BY <3>1
      <3> QED
        BY <3>2 DEF RouteOf
    <2>4. mempool' \subseteq Routes /\ IsFiniteSet(mempool')
      BY <1>7, <2>3, FS_AddElement DEF Broadcast, DemoInv, DemoTypes
    <2> QED
      BY <1>1, <1>3, <2>1, <2>2, <2>4, ExecKeepsInv
  <1> QED
    BY <1>4, <1>5, <1>6, <1>7

\* The chains go on, a lost answer is forgotten, a call to prepare ends.
LEMMA ChainsKeep ==
    ASSUME DemoInv, PoolBlock \/ AttestSource \/ SourceBlock \/ Vanish \/ PrepareFails \/ UNCHANGED vars
    PROVE  DemoInv'
  <1> USE DEF late, source, pool, DemoInv, DemoTypes
  <1>1. CASE PoolBlock
    BY <1>1, AsideKeeps DEF PoolBlock, Tick
  <1>2. CASE AttestSource
    BY <1>2, AsideKeeps DEF AttestSource, Attest
  <1>3. CASE Vanish \/ PrepareFails
    BY <1>3, AsideKeeps DEF late, Vanish, PrepareFails, PrepKeeps
  <1>4. CASE UNCHANGED vars
    BY <1>4, AsideKeeps DEF vars
  <1>5. CASE SourceBlock
    <2>1. UNCHANGED <<credits, late, prep, flight, exec, now, attested>> /\ head' \in Int
      BY <1>5 DEF SourceBlock
    <2>2. mempool' \subseteq mempool
      BY <1>5 DEF SourceBlock
    <2>3. IsFiniteSet(mempool') /\ mempool' \subseteq Routes
      BY <2>2, FS_Subset
    <2>4. mined' \in Seq([tx : Routes, block : Int, good : BOOLEAN]) /\ Len(mined) <= Len(mined')
      <3>1. CASE mined' = mined
        BY <3>1
      <3>2. ASSUME NEW tx \in mempool, NEW good \in BOOLEAN,
                   mined' = Append(mined, [tx |-> tx, block |-> head', good |-> good])
            PROVE  mined' \in Seq([tx : Routes, block : Int, good : BOOLEAN]) /\ Len(mined) <= Len(mined')
        <4>1. [tx |-> tx, block |-> head', good |-> good] \in [tx : Routes, block : Int, good : BOOLEAN]
          BY <2>1
        <4> QED
          BY <3>2, <4>1
      <3> QED
        BY <1>5, <3>1, <3>2 DEF SourceBlock
    <2> QED
      BY <2>1, <2>3, <2>4, AsideKeeps
  <1> QED
    BY <1>1, <1>2, <1>3, <1>4, <1>5

LEMMA CallTyped == ASSUME DemoInv, Calling PROVE Call \in Calls
  <1>1. CASE prep.at = "create"
    BY <1>1, PrepTyped DEF Call, Calls, Offers, DemoInv
  <1>2. CASE prep.at = "activate"
    <2>1. prep.credit \in Nat
      BY <1>2, PrepTyped DEF Walks, Fundings, DemoInv
    <2> QED
      BY <1>2, <2>1 DEF Call, Calls
  <1>3. CASE prep.at = "refund"
    <2>1. prep.credit \in Nat
      BY <1>3, PrepTyped DEF Reclaims, DemoInv, Reclaiming
    <2> QED
      BY <1>3, <2>1 DEF Call, Calls
  <1>4. CASE prep.at = "commit"
    BY <1>4, PrepTyped DEF Call, Calls, Fundings, DemoInv
  <1> QED
    BY <1>1, <1>2, <1>3, <1>4 DEF Calling

LEMMA LoseKeeps == ASSUME DemoInv, LoseAnswer PROVE DemoInv'
  <1>1. credits' = credits /\ UNCHANGED <<createdLate, committedLate>>
        /\ mined' = mined /\ exec' = exec /\ prep' = Idle
        /\ flight' = {Call} /\ Calling
    BY DEF late, LoseAnswer, pool, source
  <1>2. LatestNonce' \in Nat /\ LatestNonce <= LatestNonce' /\ LatestNonce' = LatestNonce
    BY <1>1, PendingTyped DEF DemoInv, LatestNonce
  <1>3. DemoTypes'
    BY <1>1, CallTyped DEF late, LoseAnswer, DemoInv, DemoTypes, pool, source
  <1>4. ReclaimedAreDead' /\ OneCredit'
    BY <1>1, <1>2, Quiet
  <1>5. ASSUME Call.op = "refund"
        PROVE  Call.credit \in Numbers /\ (Call.credit \notin committedLate => Dead(Call.credit))
    <2>1. prep.at = "refund" /\ Call.credit = prep.credit
      BY <1>1, <1>5 DEF Call, Calling
    <2> QED
      BY <2>1, ReclaimedIsThere DEF DemoInv, DeadBeforeRefund, Reclaiming
  <1>6. PICK call : call = Call
    OBVIOUS
  <1>7. flight' = {call} /\ (call.op = "refund" => call.credit \in Numbers)
        /\ (call.op = "refund" /\ call.credit \notin committedLate => Dead(call.credit))
    BY <1>1, <1>5, <1>6
  <1>8. Named'
    BY <1>1, <1>7 DEF DemoInv, Named, Numbers, Walking, Reclaiming, Idle
  <1>9. DeadBeforeRefund'
    BY <1>1, <1>2, <1>7 DEF DeadBeforeRefund, Dead, Idle
  <1>10. WalkedOver' /\ OfferedAlone'
    BY <1>1 DEF WalkedOver, Walking, Reclaiming, OfferedAlone, Idle
  <1> QED
    BY <1>3, <1>4, <1>8, <1>9, <1>10 DEF DemoInv

LEMMA NumbersFinite == DemoInv => Numbers = 1..Len(credits) /\ IsFiniteSet(1..Len(credits))
  <1> SUFFICES ASSUME DemoInv PROVE Numbers = 1..Len(credits) /\ IsFiniteSet(1..Len(credits))
    OBVIOUS
  <1>1. Len(credits) \in Nat /\ Numbers = 1..Len(credits)
    BY DEF DemoInv, DemoTypes, Numbers
  <1> QED
    BY <1>1, FS_Interval

\* An open credit takes a new value: what was promised about credits stays.
LEMMA CreditChanges ==
    ASSUME DemoInv, NEW c \in Numbers, Unresolved(c), NEW new \in Funded,
           credits' = [credits EXCEPT ![c] = new], mined' = mined,
           createdLate \subseteq createdLate', committedLate \subseteq committedLate',
           new.beneficiary = credits[c].beneficiary,
           new.state = "refunded" => c \in committedLate' \/ (new.routes = credits[c].routes /\ Dead(c))
    PROVE  /\ credits' \in Seq(Funded) /\ Numbers' = Numbers /\ Len(credits') = Len(credits)
           /\ \A d \in Numbers : d # c => credits'[d] = credits[d]
           /\ credits'[c] = new
           /\ \A d \in Numbers : \A who : Settled(d, who) => Settled(d, who)'
           /\ ReclaimedAreDead' /\ OneCredit'
  <1>1. /\ credits' \in Seq(Funded) /\ Numbers' = Numbers /\ Len(credits') = Len(credits)
        /\ \A d \in Numbers : d # c => credits'[d] = credits[d]
        /\ credits'[c] = new
    BY DEF DemoInv, DemoTypes, Numbers
  <1>2. credits[c].state = "open" /\ new.state \in States
    BY DEF Unresolved, Funded
  <1>3. \A d \in Numbers : \A who : Settled(d, who) => Settled(d, who)'
    BY <1>1, <1>2 DEF Settled, Unresolved
  <1>4. ReclaimedAreDead'
    BY <1>1, <1>2 DEF DemoInv, ReclaimedAreDead, Dead, LatestNonce
  <1>5. OneOpenCredit'
    <2>1. PICK before : before = {d \in Numbers \ createdLate : Unresolved(d)}
      OBVIOUS
    <2>2. PICK after : after = {d \in Numbers \ createdLate : Unresolved(d)}'
      OBVIOUS
    <2>3. after \subseteq before
      BY <1>1, <1>2, <2>1, <2>2 DEF Unresolved
    <2>4. IsFiniteSet(before) /\ Cardinality(before) <= 1
      <3>1. Numbers = 1..Len(credits) /\ IsFiniteSet(1..Len(credits))
        BY NumbersFinite
      <3> QED
        BY <2>1, <3>1, FS_Subset DEF DemoInv, OneCredit, OneOpenCredit
    <2>5. Cardinality(after) <= 1
      BY <2>3, <2>4, FS_Subset, FS_CardinalityType
    <2> QED
      BY <2>2, <2>5 DEF OneOpenCredit
  <1>6. OneCreditPerBeneficiary'
    BY <1>1, <1>2 DEF DemoInv, OneCredit, OneCreditPerBeneficiary
  <1> QED
    BY <1>1, <1>3, <1>4, <1>5, <1>6 DEF OneCredit

\* A new credit, when no other of the demo is open or owed to its beneficiary, or
\* when it comes late.
LEMMA CreditAdded ==
    ASSUME DemoInv, NEW new \in Funded, new.state = "open", new.routes = NoRoutes,
           credits' = Append(credits, new), mined' = mined, committedLate' = committedLate,
           \/ createdLate' = createdLate \cup {Len(credits) + 1}
           \/ createdLate' = createdLate /\ \A c \in Numbers \ createdLate : Settled(c, new.beneficiary)
    PROVE  /\ credits' \in Seq(Funded) /\ Len(credits') = Len(credits) + 1
           /\ Numbers' = Numbers \cup {Len(credits) + 1} /\ Len(credits) + 1 \notin Numbers
           /\ \A d \in Numbers : credits'[d] = credits[d]
           /\ ReclaimedAreDead' /\ OneCredit'
  <1> DEFINE n == Len(credits) + 1
  <1>1. /\ credits' \in Seq(Funded) /\ Len(credits') = n /\ n \in Nat
        /\ Numbers' = Numbers \cup {n} /\ n \notin Numbers
        /\ \A d \in Numbers : credits'[d] = credits[d]
        /\ credits'[n] = new
    BY DEF DemoInv, DemoTypes, Numbers
  <1> HIDE DEF n
  <1>2. ReclaimedAreDead'
    <2>1. committedLate \subseteq committedLate'
      OBVIOUS
    <2>2. ASSUME NEW c \in Numbers', credits'[c].state = "refunded", c \notin committedLate'
          PROVE  c \in Numbers /\ credits'[c] = credits[c] /\ c \notin committedLate
      BY <1>1, <2>1, <2>2
    <2> QED
      BY <2>2 DEF DemoInv, ReclaimedAreDead, LatestNonce
  <1>3. OneOpenCredit'
    <2>1. PICK before : before = {d \in Numbers \ createdLate : Unresolved(d)}
      OBVIOUS
    <2>2. PICK after : after = {d \in Numbers \ createdLate : Unresolved(d)}'
      OBVIOUS
    <2>3. IsFiniteSet(before) /\ Cardinality(before) <= 1
      <3>1. Numbers = 1..Len(credits) /\ IsFiniteSet(1..Len(credits))
        BY NumbersFinite
      <3> QED
        BY <2>1, <3>1, FS_Subset DEF DemoInv, OneCredit, OneOpenCredit
    <2>4. CASE createdLate' = createdLate \cup {n}
      <3>1. after \subseteq before
        BY <1>1, <2>1, <2>2, <2>4 DEF Unresolved
      <3>2. Cardinality(after) <= 1
        BY <2>3, <3>1, FS_Subset, FS_CardinalityType
      <3> QED
        BY <2>2, <3>2 DEF OneOpenCredit
    <2>5. CASE createdLate' = createdLate /\ \A c \in Numbers \ createdLate : Settled(c, new.beneficiary)
      <3>1. after \subseteq {n}
        BY <1>1, <2>2, <2>5 DEF Unresolved, Settled
      <3>2. IsFiniteSet({n}) /\ Cardinality({n}) = 1
        BY FS_Singleton
      <3>3. Cardinality(after) <= 1
        BY <3>1, <3>2, FS_Subset, FS_CardinalityType
      <3> QED
        BY <2>2, <3>3 DEF OneOpenCredit
    <2> QED
      BY <2>4, <2>5 DEF n
  <1>4. OneCreditPerBeneficiary'
    <2>1. ASSUME NEW c \in Numbers, NEW d \in Numbers, c # d, c \notin createdLate', d \notin createdLate',
                 credits'[c].beneficiary = credits'[d].beneficiary
          PROVE  "refunded" \in {credits'[c].state, credits'[d].state}
      BY <1>1, <2>1 DEF DemoInv, OneCredit, OneCreditPerBeneficiary
    <2>2. ASSUME NEW c \in Numbers, n \notin createdLate', c \notin createdLate',
                 credits'[c].beneficiary = credits'[n].beneficiary
          PROVE  credits'[c].state = "refunded"
      BY <1>1, <2>2 DEF Settled, n
    <2> SUFFICES ASSUME NEW c \in Numbers', NEW d \in Numbers', c # d, c \notin createdLate', d \notin createdLate',
                        credits'[c].beneficiary = credits'[d].beneficiary
                 PROVE  "refunded" \in {credits'[c].state, credits'[d].state}
      BY DEF OneCreditPerBeneficiary
    <2>3. CASE c \in Numbers /\ d \in Numbers
      BY <2>1, <2>3
    <2>4. CASE c = n \/ d = n
      BY <1>1, <2>2, <2>4
    <2> QED
      BY <1>1, <2>3, <2>4
  <1> QED
    BY <1>1, <1>2, <1>3, <1>4 DEF OneCredit, n

\* What a transaction of prepare does to the pool.
LEMMA ExecuteDoes ==
    ASSUME DemoInv, NEW call \in Calls, Execute(call)
    PROVE  /\ now' = now /\ attested' = attested
           /\ \/ /\ call.op = "create" /\ call.terms \in Offered
                 /\ \E new \in Funded :
                       /\ new.state = "open" /\ new.routes = NoRoutes
                       /\ new.beneficiary = call.terms.beneficiary
                       /\ credits' = Append(credits, new)
              \/ /\ call.op # "create" /\ call.credit \in Numbers /\ Unresolved(call.credit)
                 /\ \E new \in Funded :
                       /\ credits' = [credits EXCEPT ![call.credit] = new]
                       /\ new.beneficiary = credits[call.credit].beneficiary
                       /\ new.state = IF call.op = "refund" THEN "refunded" ELSE "open"
                       /\ call.op # "commit" => new.routes = credits[call.credit].routes
                       /\ credits[call.credit].routes # NoRoutes => new.routes = credits[call.credit].routes
  <1>1. CASE call.op = "create"
    <2>1. call.terms \in Offered /\ CreateServiceCredit(Service, call.terms)
      BY <1>1 DEF Execute, Calls
    <2>2. Draft(Service, call.terms) \in Funded
      BY <2>1 DEF Draft, Offered, Funded, States, DemoInv, DemoTypes
    <2> QED
      BY <1>1, <2>1, <2>2 DEF CreateServiceCredit, Draft
  <1>2. CASE call.op = "activate"
    <2> DEFINE c == call.credit
    <2>1. c \in Numbers /\ Unresolved(c) /\ credits' = [credits EXCEPT ![c] = [credits[c] EXCEPT !.active = TRUE]]
          /\ now' = now /\ attested' = attested
      BY <1>2 DEF Execute, ActivateServiceCredit
    <2>2. credits[c] \in Funded /\ credits[c].state = "open"
      BY <2>1, RouteTyped DEF Unresolved
    <2>3. /\ [credits[c] EXCEPT !.active = TRUE] \in Funded
          /\ [credits[c] EXCEPT !.active = TRUE].state = "open"
          /\ [credits[c] EXCEPT !.active = TRUE].routes = credits[c].routes
          /\ [credits[c] EXCEPT !.active = TRUE].beneficiary = credits[c].beneficiary
      BY <2>2 DEF Funded
    <2> HIDE DEF c
    <2> QED
      BY <1>2, <2>1, <2>3 DEF c
  <1>3. CASE call.op = "refund"
    <2> DEFINE c == call.credit
    <2>1. c \in Numbers /\ Unresolved(c) /\ credits' = [credits EXCEPT ![c] = [credits[c] EXCEPT !.state = "refunded"]]
          /\ now' = now /\ attested' = attested
      BY <1>3 DEF Execute, RefundServiceCredit
    <2>2. credits[c] \in Funded /\ credits[c].state = "open"
      BY <2>1, RouteTyped DEF Unresolved
    <2>3. /\ [credits[c] EXCEPT !.state = "refunded"] \in Funded
          /\ [credits[c] EXCEPT !.state = "refunded"].state = "refunded"
          /\ [credits[c] EXCEPT !.state = "refunded"].routes = credits[c].routes
          /\ [credits[c] EXCEPT !.state = "refunded"].beneficiary = credits[c].beneficiary
      BY <2>2 DEF Funded, States
    <2> HIDE DEF c
    <2> QED
      BY <1>3, <2>1, <2>3 DEF c
  <1>4. CASE call.op = "commit"
    <2> DEFINE c == call.credit
               pair == <<Route(c, "failed", call.nonce), Route(c, "successful", call.nonce + 1)>>
    <2>1. c \in Numbers /\ Unresolved(c) /\ credits[c].routes = NoRoutes
          /\ credits' = [credits EXCEPT ![c] = [credits[c] EXCEPT !.routes = pair]]
          /\ now' = now /\ attested' = attested
      BY <1>4 DEF Execute, CommitSourceTransactions
    <2>2. credits[c] \in Funded /\ credits[c].state = "open"
      BY <2>1, RouteTyped DEF Unresolved
    <2>3. pair \in Routes \X Routes
      BY <1>4 DEF Calls, Route, Routes
    <2> HIDE DEF pair
    <2>4. /\ [credits[c] EXCEPT !.routes = pair] \in Funded
          /\ [credits[c] EXCEPT !.routes = pair].state = "open"
          /\ [credits[c] EXCEPT !.routes = pair].beneficiary = credits[c].beneficiary
      BY <2>2, <2>3 DEF Funded
    <2> HIDE DEF c
    <2> QED
      BY <1>4, <2>1, <2>4 DEF c
  <1> QED
    BY <1>1, <1>2, <1>3, <1>4 DEF Calls

LEMMA ConfirmCreates ==
    ASSUME DemoInv, Confirm, prep.at = "create"
    PROVE  DemoInv'
  <1>1. prep \in Offers /\ Call = [op |-> "create", terms |-> prep.terms] /\ Call \in Calls /\ Execute(Call)
    BY PrepTyped, CallTyped DEF Confirm, Call, DemoInv
  <1>2. PICK new \in Funded :
            /\ new.state = "open" /\ new.routes = NoRoutes /\ new.beneficiary = prep.terms.beneficiary
            /\ credits' = Append(credits, new)
    BY <1>1, ExecuteDoes
  <1>3. /\ now' = now /\ attested' = attested /\ mined' = mined /\ mempool' = mempool /\ head' = head
        /\ exec' = exec /\ UNCHANGED <<createdLate, committedLate>> /\ flight = {} /\ flight' = {}
        /\ prep' = [at |-> "activate", credit |-> Len(credits) + 1, nonce |-> prep.nonce]
    BY <1>1, ExecuteDoes DEF late, Confirm, source, AfterCall
  <1>4. \A c \in Numbers \ createdLate : Settled(c, new.beneficiary)
    BY <1>2 DEF DemoInv, OfferedAlone
  <1>5. /\ credits' \in Seq(Funded) /\ Numbers' = Numbers \cup {Len(credits) + 1}
        /\ \A d \in Numbers : credits'[d] = credits[d]
        /\ ReclaimedAreDead' /\ OneCredit'
    BY <1>2, <1>3, <1>4, CreditAdded
  <1>6. prep' \in Fundings
    BY <1>1, <1>3 DEF Offers, Fundings, DemoInv, DemoTypes
  <1>7. DemoTypes'
    BY <1>3, <1>5, <1>6 DEF DemoInv, DemoTypes
  <1>8. Named' /\ DeadBeforeRefund' /\ WalkedOver' /\ OfferedAlone'
    BY <1>3, <1>5 DEF DemoInv, Named, DeadBeforeRefund, WalkedOver, OfferedAlone, Walking, Reclaiming
  <1> QED
    BY <1>5, <1>7, <1>8 DEF DemoInv

\* The effect of prepare's transactions on a credit that is there.
LEMMA ConfirmChanges ==
    ASSUME DemoInv, Confirm, prep.at # "create"
    PROVE  DemoInv'
  <1>0. PICK c : c = prep.credit
    OBVIOUS
  <1>1. Call \in Calls /\ Call.op = prep.at /\ Call.credit = c /\ Execute(Call) /\ prep.at \in {"activate", "refund", "commit"}
    BY <1>0, CallTyped DEF Confirm, Calling, Call
  <1>2. c \in Numbers /\ Unresolved(c) /\ now' = now /\ attested' = attested
    BY <1>1, ExecuteDoes
  <1>3. PICK new \in Funded :
            /\ credits' = [credits EXCEPT ![c] = new]
            /\ new.beneficiary = credits[c].beneficiary
            /\ new.state = IF prep.at = "refund" THEN "refunded" ELSE "open"
            /\ prep.at # "commit" => new.routes = credits[c].routes
            /\ credits[c].routes # NoRoutes => new.routes = credits[c].routes
    BY <1>1, ExecuteDoes
  <1>4. /\ mined' = mined /\ mempool' = mempool /\ head' = head
        /\ exec' = exec /\ UNCHANGED <<createdLate, committedLate>> /\ flight = {} /\ flight' = {} /\ prep' = AfterCall
    BY DEF late, Confirm, source
  <1>5. new.state = "refunded" => c \in committedLate' \/ (new.routes = credits[c].routes /\ Dead(c))
    BY <1>0, <1>3, <1>4 DEF DemoInv, DeadBeforeRefund
  <1>6. /\ credits' \in Seq(Funded) /\ Numbers' = Numbers /\ Len(credits') = Len(credits)
        /\ \A d \in Numbers : d # c => credits'[d] = credits[d]
        /\ credits'[c] = new
        /\ \A d \in Numbers : \A who : Settled(d, who) => Settled(d, who)'
        /\ ReclaimedAreDead' /\ OneCredit'
    BY <1>2, <1>3, <1>4, <1>5, CreditChanges
  <1>7. exec' # Idle => exec'.credit \in Numbers' /\ credits'[exec'.credit].routes # NoRoutes
    BY <1>3, <1>4, <1>6 DEF DemoInv, Named
  <1>8. CASE prep.at = "refund"
    <2>1. prep \in Reclaims /\ Reclaiming /\ Walking
      BY <1>8, PrepTyped DEF Reclaiming, Walking, DemoInv
    <2>2. prep' = [at |-> "scan", who |-> prep.who, count |-> prep.count, head |-> prep.head, credit |-> c + 1]
      BY <1>0, <1>4, <1>8 DEF AfterCall, NextCredit
    <2>3. prep' \in Walks
      BY <1>0, <2>1, <2>2 DEF Reclaims, Walks
    <2>4. DemoTypes'
      BY <1>2, <1>4, <1>6, <2>3 DEF DemoInv, DemoTypes
    <2>5. c \in Nat /\ prep.count \in Nat /\ c <= prep.count /\ c >= 1 /\ prep.count <= Len(credits)
      BY <1>0, <2>1 DEF DemoInv, Named, Reclaims
    <2>6. Named'
      BY <1>4, <1>6, <1>7, <2>2, <2>5 DEF Named, Walking, Reclaiming
    <2>8. ASSUME NEW d \in Numbers, d < c + 1 PROVE Settled(d, prep.who)'
      <3>1. d \in Nat
        BY DEF DemoInv, DemoTypes, Numbers
      <3>2. CASE d = c
        BY <1>6, <1>3, <1>8, <2>1, <2>2, <3>2 DEF Settled, Unresolved
      <3>3. CASE d # c
        <4>1. Settled(d, prep.who)
          BY <1>0, <2>1, <2>5, <2>8, <3>1, <3>3 DEF DemoInv, WalkedOver
        <4> QED
          BY <1>6, <2>2, <3>3, <4>1 DEF Settled, Unresolved
      <3> QED
        BY <3>2, <3>3
    <2>9. WalkedOver'
      <3>1. \A d \in Numbers' : d < prep'.credit => Settled(d, prep.who)'
        BY <1>6, <2>2, <2>8
      <3>2. \A d \in Numbers' : d > prep'.count => d \in createdLate'
        BY <1>4, <1>6, <2>1, <2>2 DEF DemoInv, WalkedOver
      <3> QED
        BY <3>1, <3>2 DEF WalkedOver
    <2>10. DeadBeforeRefund' /\ OfferedAlone'
      BY <1>4, <2>2 DEF DeadBeforeRefund, OfferedAlone
    <2> QED
      BY <1>6, <2>4, <2>6, <2>9, <2>10 DEF DemoInv
  <1>9. CASE prep.at \in {"activate", "commit"}
    <2>1. prep' \in {Idle} \cup Walks \cup Fundings /\ prep'.at \in {"idle", "routes", "commit"}
      <3>1. CASE prep.at = "commit"
        BY <1>4, <3>1 DEF AfterCall, Idle
      <3>2. CASE prep.at = "activate" /\ prep \in Walks
        BY <1>4, <3>2 DEF AfterCall, Goto, Walks
      <3>3. CASE prep.at = "activate" /\ prep \in Fundings
        BY <1>4, <3>3 DEF AfterCall, Goto, Fundings
      <3> QED
        BY <1>9, <3>1, <3>2, <3>3, PrepTyped DEF DemoInv
    <2>2. DemoTypes'
      BY <1>2, <1>4, <1>6, <2>1 DEF DemoInv, DemoTypes
    <2>3. Named' /\ DeadBeforeRefund' /\ WalkedOver' /\ OfferedAlone'
      BY <1>4, <1>7, <2>1 DEF Named, DeadBeforeRefund, WalkedOver, OfferedAlone, Walking, Reclaiming
    <2> QED
      BY <1>6, <2>2, <2>3 DEF DemoInv
  <1> QED
    BY <1>1, <1>8, <1>9

\* A transaction whose answer was lost takes effect under whatever prepare does meanwhile.
LEMMA LateCreates ==
    ASSUME DemoInv, NEW call \in flight, call.op = "create", Execute(call),
           createdLate' = createdLate \cup {Len(credits) + 1},
           committedLate' = committedLate,
           flight' = {}, UNCHANGED <<source, prep, exec, lost>>
    PROVE  DemoInv'
  <1>1. call \in Calls
    BY DEF DemoInv, DemoTypes
  <1>2. PICK new \in Funded : new.state = "open" /\ new.routes = NoRoutes /\ credits' = Append(credits, new)
    BY <1>1, ExecuteDoes
  <1>3. /\ now' = now /\ attested' = attested /\ mined' = mined /\ mempool' = mempool /\ head' = head
        /\ exec' = exec /\ prep' = prep
    BY <1>1, ExecuteDoes DEF late, source
  <1>4. /\ credits' \in Seq(Funded) /\ Len(credits') = Len(credits) + 1
        /\ Numbers' = Numbers \cup {Len(credits) + 1} /\ Len(credits) + 1 \notin Numbers
        /\ \A d \in Numbers : credits'[d] = credits[d]
        /\ ReclaimedAreDead' /\ OneCredit'
    BY <1>2, <1>3, CreditAdded
  <1>5. DemoTypes'
    BY <1>3, <1>4 DEF DemoInv, DemoTypes
  <1>6. Reclaiming => prep.credit \in Numbers
    BY ReclaimedIsThere
  <1>7. Walking => prep.credit \in Nat /\ prep.count \in Nat /\ Len(credits) \in Nat
    BY PrepTyped DEF Walking, DemoInv, DemoTypes, Walks, Reclaims
  <1>8. Named'
    BY <1>3, <1>4, <1>7 DEF DemoInv, Named, Walking, Reclaiming
  <1>9. DeadBeforeRefund'
    BY <1>3, <1>4, <1>6 DEF DemoInv, DeadBeforeRefund, Dead, LatestNonce, Reclaiming
  <1>10. WalkedOver'
    <2> SUFFICES ASSUME Walking
                 PROVE  /\ \A d \in Numbers' : d < prep.credit => Settled(d, prep.who)'
                        /\ \A d \in Numbers' : d > prep.count => d \in createdLate'
      BY <1>3 DEF WalkedOver, Walking, Reclaiming
    <2>1. ASSUME NEW d \in Numbers', d < prep.credit PROVE Settled(d, prep.who)'
      <3>1. d \in Numbers
        BY <1>4, <1>7, <2>1 DEF DemoInv, Named
      <3> QED
        BY <1>3, <1>4, <2>1, <3>1 DEF DemoInv, WalkedOver, Settled, Unresolved
    <2>2. ASSUME NEW d \in Numbers', d > prep.count PROVE d \in createdLate'
      BY <1>4, <2>2 DEF DemoInv, WalkedOver
    <2> QED
      BY <2>1, <2>2
  <1>11. OfferedAlone'
    BY <1>3, <1>4 DEF DemoInv, OfferedAlone, Settled, Unresolved
  <1> QED
    BY <1>4, <1>5, <1>8, <1>9, <1>10, <1>11 DEF DemoInv

\* A credit is changed beside prepare, and its routes only with a late commitment.
LEMMA BesideKeeps ==
    ASSUME DemoInv, NEW c \in Numbers, Unresolved(c), NEW new \in Funded, credits' = [credits EXCEPT ![c] = new],
           createdLate' = createdLate, committedLate' \in {committedLate, committedLate \cup {c}},
           new.beneficiary = credits[c].beneficiary,
           credits[c].routes # NoRoutes => new.routes # NoRoutes,
           c \in committedLate' \/ new.routes = credits[c].routes,
           new.state = "refunded" => c \in committedLate' \/ Dead(c),
           UNCHANGED <<source, prep, exec, now, attested>>, flight' \in {flight, {}},
           flight' = flight => UNCHANGED <<createdLate, committedLate>>
    PROVE  DemoInv'
  <1>1. mined' = mined /\ mempool' = mempool /\ head' = head /\ prep' = prep /\ exec' = exec
        /\ LatestNonce' = LatestNonce /\ committedLate \subseteq committedLate'
    BY DEF late, source, LatestNonce
  <1>2. /\ credits' \in Seq(Funded) /\ Numbers' = Numbers /\ Len(credits') = Len(credits)
        /\ \A d \in Numbers : d # c => credits'[d] = credits[d]
        /\ credits'[c] = new
        /\ \A d \in Numbers : \A who : Settled(d, who) => Settled(d, who)'
        /\ ReclaimedAreDead' /\ OneCredit'
    BY <1>1, CreditChanges
  <1>3. \A d \in Numbers : d \notin committedLate' => credits'[d].routes = credits[d].routes
    BY <1>2
  <1>4. DemoTypes'
    BY <1>1, <1>2 DEF DemoInv, DemoTypes
  <1>5. Reclaiming => prep.credit \in Numbers
    BY ReclaimedIsThere
  <1>6. Named'
    BY <1>1, <1>2 DEF DemoInv, Named, Walking, Reclaiming
  <1>7. DeadBeforeRefund'
    <2>1. ASSUME NEW d \in Numbers, d \notin committedLate', Dead(d) PROVE Dead(d)'
      BY <1>1, <1>3, <2>1 DEF Dead
    <2>2. (prep.at = "refund" /\ prep.credit \notin committedLate => Dead(prep.credit))'
      <3>1. PICK d : d = prep.credit
        OBVIOUS
      <3>2. prep.at = "refund" /\ d \notin committedLate' => d \in Numbers /\ Dead(d)
        BY <1>1, <1>5, <3>1 DEF DemoInv, DeadBeforeRefund, Reclaiming
      <3>3. prep.at = "refund" /\ d \notin committedLate' => Dead(d)'
        BY <2>1, <3>2
      <3> QED
        BY <1>1, <3>1, <3>3 DEF Dead
    <2>3. ASSUME NEW call \in flight', call.op = "refund", call.credit \notin committedLate' PROVE Dead(call.credit)'
      <3>1. call \in flight /\ call.credit \in Numbers /\ Dead(call.credit)
        BY <1>1, <2>3 DEF DemoInv, Named, DeadBeforeRefund
      <3> QED
        BY <2>1, <2>3, <3>1
    <2>4. ASSUME prep.at \in {"consume", "replace", "replaced"}, prep.credit \notin committedLate',
                 NEW i \in DOMAIN credits'[prep.credit].routes
          PROVE  LET route == credits'[prep.credit].routes[i] IN
                 route.nonce < LatestNonce \/ \E k \in DOMAIN prep.left : prep.left[k] = route
      <3>1. prep.credit \in Numbers /\ credits'[prep.credit].routes = credits[prep.credit].routes
        BY <1>3, <1>5, <2>4 DEF Reclaiming
      <3> QED
        BY <1>1, <2>4, <3>1 DEF DemoInv, DeadBeforeRefund
    <2> QED
      BY <1>1, <2>2, <2>3, <2>4 DEF DeadBeforeRefund
  <1>8. WalkedOver'
    BY <1>1, <1>2 DEF DemoInv, WalkedOver, Walking, Reclaiming, Settled, Unresolved
  <1>9. OfferedAlone'
    BY <1>1, <1>2 DEF DemoInv, OfferedAlone, Settled, Unresolved
  <1> QED
    BY <1>2, <1>4, <1>6, <1>7, <1>8, <1>9 DEF DemoInv

LEMMA LateKeeps == ASSUME DemoInv, LandLate PROVE DemoInv'
  <1>1. PICK call \in flight :
            /\ Execute(call)
            /\ createdLate' = IF call.op = "create" THEN createdLate \cup {Len(credits) + 1} ELSE createdLate
            /\ committedLate' = IF call.op = "commit" THEN committedLate \cup {call.credit} ELSE committedLate
    BY DEF LandLate
  <1>2. call \in Calls /\ flight' = {} /\ UNCHANGED <<source, prep, exec, lost>>
    BY DEF LandLate, DemoInv, DemoTypes
  <1>3. CASE call.op = "create"
    BY <1>1, <1>2, <1>3, LateCreates
  <1>4. CASE call.op # "create"
    <2>1. call.credit \in Numbers /\ Unresolved(call.credit) /\ now' = now /\ attested' = attested
      BY <1>1, <1>2, <1>4, ExecuteDoes
    <2>2. PICK new \in Funded :
              /\ credits' = [credits EXCEPT ![call.credit] = new]
              /\ new.beneficiary = credits[call.credit].beneficiary
              /\ new.state = IF call.op = "refund" THEN "refunded" ELSE "open"
              /\ call.op # "commit" => new.routes = credits[call.credit].routes
              /\ credits[call.credit].routes # NoRoutes => new.routes = credits[call.credit].routes
      BY <1>1, <1>2, <1>4, ExecuteDoes
    <2>3. new.state = "refunded" => call.credit \in committedLate' \/ Dead(call.credit)
      BY <1>1, <2>2 DEF DemoInv, DeadBeforeRefund
    <2>4. createdLate' = createdLate /\ committedLate' \in {committedLate, committedLate \cup {call.credit}}
          /\ (call.credit \in committedLate' \/ new.routes = credits[call.credit].routes)
      BY <1>1, <1>4, <2>2
    <2>5. flight' = flight => UNCHANGED <<createdLate, committedLate>>
      BY <1>2
    <2> QED
      BY <1>2, <2>1, <2>2, <2>3, <2>4, <2>5, BesideKeeps
  <1> QED
    BY <1>3, <1>4

LEMMA ReleaseIsBeside == ASSUME DemoInv, NEW c \in Numbers, Release(c) PROVE DemoInv'
  <1> DEFINE new == [credits[c] EXCEPT !.state = "released"]
  <1>1. Unresolved(c) /\ credits' = [credits EXCEPT ![c] = new] /\ now' = now /\ attested' = attested
    BY DEF Release, ReleaseCredit
  <1>2. credits[c] \in Funded
    BY RouteTyped
  <1>3. new \in Funded /\ new.state = "released" /\ new.routes = credits[c].routes
        /\ new.beneficiary = credits[c].beneficiary
    BY <1>2 DEF Funded, States
  <1> HIDE DEF new
  <1>4. UNCHANGED <<source, prep, exec, flight, late>>
    BY DEF Release
  <1> QED
    BY <1>1, <1>3, <1>4, BesideKeeps DEF late

LEMMA DemoKeeps == DemoInv /\ [Next]_vars => DemoInv'
  <1> SUFFICES ASSUME DemoInv, [Next]_vars PROVE DemoInv'
    OBVIOUS
  <1>1. CASE \E who \in Beneficiaries : Prepare(who)
    BY <1>1, StartsWalk
  <1>2. CASE Scan
    BY <1>2, VerdictKeeps DEF Scan
  <1>3. CASE Resume \/ Offer \/ ConsumeNonce \/ Replace \/ Replaced
    BY <1>3, ResumeKeeps, OfferKeeps, ConsumeKeeps, ReplaceKeeps, ReplacedKeeps
  <1>4. CASE Confirm
    BY <1>4, ConfirmCreates, ConfirmChanges
  <1>5. CASE LoseAnswer \/ LandLate
    BY <1>5, LoseKeeps, LateKeeps
  <1>6. CASE \E c \in Numbers : Release(c)
    BY <1>6, ReleaseIsBeside
  <1>7. CASE (\E c \in Numbers : StartExecution(c)) \/ Broadcast \/ FailureIncluded \/ ExecutionEnds
    BY <1>7, ExecutionKeeps
  <1>8. CASE PoolBlock \/ AttestSource \/ SourceBlock \/ Vanish \/ PrepareFails \/ UNCHANGED vars
    BY <1>8, ChainsKeep
  <1> QED
    BY <1>1, <1>2, <1>3, <1>4, <1>5, <1>6, <1>7, <1>8 DEF Next

\* Whatever of its calls fails, whichever of its routes is broadcast meanwhile: a
\* credit the demo took back can no more be earned, unless its commitment landed
\* after its answer was lost (uniswap-demo-service.mjs, #reclaimExpiredCredit).
THEOREM ReclaimedStayDead == Spec => []ReclaimedAreDead
  <1>1. Spec => []DemoInv
    BY DemoStarts, DemoKeeps, PTL DEF Spec
  <1>2. DemoInv => ReclaimedAreDead
    BY DEF DemoInv
  <1> QED
    BY <1>1, <1>2, PTL

\* However many callers and credits there are: one is open at a time, and one is
\* a beneficiary's, beside those that a lost answer hid (#prepareAuthenticated).
THEOREM DemoIsBounded == Spec => []OneCredit
  <1>1. Spec => []DemoInv
    BY DemoStarts, DemoKeeps, PTL DEF Spec
  <1>2. DemoInv => OneCredit
    BY DEF DemoInv
  <1> QED
    BY <1>1, <1>2, PTL

-----------------------------------------------------------------------------
(* The deployment *)

Chains == {c \in Seq(Blocks) : Len(c) <= MaxHeight}
Worlds == [chain : Chains, finalized : 0..MaxHeight, pool : Pools]
Runs ==
    [step : Steps, pass : Passes, from : Worlds, receipt : Receipts, finalized : 0..MaxHeight,
     result : Results, afterFinality : BOOLEAN]

DeploymentTypes ==
    /\ chain \in Chains /\ finalized \in 0..Len(chain) /\ forks \in 0..MaxForks /\ queued \in Pools
    /\ window \in {"early", "open", "closed"} /\ successors \subseteq Instances /\ submitted \in BOOLEAN
    /\ run \in [Instances -> Runs]

\* What a pass saw finalized when its step began is finalized still.
Behind ==
    \A i \in Instances :
        /\ run[i].from.finalized <= Len(run[i].from.chain) /\ run[i].from.finalized <= finalized
        /\ \A h \in 1..run[i].from.finalized : run[i].from.chain[h] = chain[h]

\* The height that verification is told was finalized when it began.
ToldInTime == \A i \in Instances : run[i].step = "verify" => run[i].finalized <= run[i].from.finalized

DeploymentInv == DeploymentTypes /\ Behind /\ ToldInTime /\ FinalizedIsFinal

LEMMA DeploymentStarts == DeploymentInit => DeploymentInv
  <1> SUFFICES ASSUME DeploymentInit PROVE DeploymentInv
    OBVIOUS
  <1>1. Resting("none") \in Runs /\ NoWorld \in Worlds /\ chain \in Chains
    BY ChainAssumption
    DEF Resting, Runs, Worlds, Chains, NoWorld, NoReceipt, Receipts, Steps, Passes, Results, Pools, Txs,
        DeploymentInit, ChainInit
  <1>2. DeploymentTypes
    BY <1>1, ChainAssumption DEF DeploymentInit, ChainInit, DeploymentTypes, Pools, Txs
  <1> QED
    BY <1>2
    DEF DeploymentInv, DeploymentInit, ChainInit, Behind, ToldInTime, FinalizedIsFinal, Resting, NoWorld, Steps

LEMMA WorldTyped == DeploymentInv => World \in Worlds
  BY ChainAssumption DEF DeploymentInv, DeploymentTypes, World, Worlds, Chains

LEMMA ReceiptTyped == ASSUME NEW c \in Chains PROVE ReceiptIn(c) \in Receipts
  <1>1. CASE \E h \in DOMAIN c : c[h].tx \in {"deploy", "reverted"}
    <2>1. PICK h \in DOMAIN c : ReceiptIn(c) = [at |-> h, fork |-> c[h].fork, ok |-> c[h].tx = "deploy"]
      <3> DEFINE found == CHOOSE h \in DOMAIN c : c[h].tx \in {"deploy", "reverted"}
      <3>1. found \in DOMAIN c
        BY <1>1
      <3>2. ReceiptIn(c) = [at |-> found, fork |-> c[found].fork, ok |-> c[found].tx = "deploy"]
        BY <1>1 DEF ReceiptIn
      <3> QED
        BY <3>1, <3>2
    <2>2. h \in 0..MaxHeight /\ c[h] \in Blocks
      BY ChainAssumption DEF Chains
    <2> QED
      BY <2>1, <2>2 DEF Receipts, Blocks
  <1>2. CASE ~\E h \in DOMAIN c : c[h].tx \in {"deploy", "reverted"}
    BY <1>2, ChainAssumption DEF ReceiptIn, NoReceipt, Receipts
  <1> QED
    BY <1>1, <1>2

\* A step of a pass leaves the chain alone and puts a typed record in its place.
LEMMA PassKeeps ==
    ASSUME DeploymentInv, NEW i \in Instances, NEW r \in Runs, run' = [run EXCEPT ![i] = r],
           r.from \in {World, NoWorld}, r.step = "verify" => r.finalized <= r.from.finalized,
           r.result = "finalized" => DeployedForGood,
           chainVars' = chainVars, successors' = successors, window' = window, submitted' \in BOOLEAN
    PROVE  DeploymentInv'
  <1>1. DeploymentTypes'
    BY DEF DeploymentInv, DeploymentTypes, chainVars
  <1>2. run'[i] = r /\ \A j \in Instances : j # i => run'[j] = run[j]
    BY DEF DeploymentInv, DeploymentTypes
  <1>3. r.from.finalized <= Len(r.from.chain) /\ r.from.finalized <= finalized
        /\ \A h \in 1..r.from.finalized : r.from.chain[h] = chain[h]
    BY DEF World, NoWorld, DeploymentInv, DeploymentTypes, Chains
  <1>4. Behind' /\ ToldInTime'
    BY <1>2, <1>3 DEF DeploymentInv, Behind, ToldInTime, chainVars
  <1>5. FinalizedIsFinal'
    BY <1>2 DEF DeploymentInv, FinalizedIsFinal, DeployedForGood, DeployedAt, chainVars
  <1> QED
    BY <1>1, <1>4, <1>5 DEF DeploymentInv

\* The chain moves, and keeps what is finalized.
LEMMA ChainKeeps ==
    ASSUME DeploymentInv, UNCHANGED <<successors, window, submitted, run>>,
           chain' \in Chains, finalized' \in finalized..Len(chain'), forks' \in 0..MaxForks, queued' \in Pools,
           \A h \in 1..finalized : chain'[h] = chain[h]
    PROVE  DeploymentInv'
  <1>1. finalized \in Nat /\ finalized' \in Nat /\ finalized <= finalized'
    BY DEF DeploymentInv, DeploymentTypes, Chains
  <1>2. DeploymentTypes'
    BY <1>1 DEF DeploymentInv, DeploymentTypes, Chains
  <1>3. ASSUME NEW i \in Instances
        PROVE  /\ run'[i] = run[i] /\ run[i].from.finalized \in Nat
               /\ run[i].from.finalized <= Len(run[i].from.chain) /\ run[i].from.finalized <= finalized
               /\ \A h \in 1..run[i].from.finalized : run[i].from.chain[h] = chain[h]
    BY DEF DeploymentInv, DeploymentTypes, Runs, Worlds, Behind
  <1>4. Behind'
    BY <1>1, <1>3 DEF Behind
  <1>5. DeployedForGood => DeployedForGood'
    <2>1. ASSUME NEW h \in 1..(finalized - 2), DeployedAt(chain, h) PROVE DeployedForGood'
      <3>1. h \in 1..(finalized' - 2) /\ h \in 1..finalized /\ chain'[h] = chain[h]
        BY <1>1, <2>1
      <3>2. chain' \in Seq(Blocks) /\ finalized' <= Len(chain')
        BY DEF Chains
      <3>3. h \in DOMAIN chain'
        BY <1>1, <3>1, <3>2
      <3> QED
        BY <3>1, <3>3, <2>1 DEF DeployedForGood, DeployedAt
    <2> QED
      BY <2>1 DEF DeployedForGood
  <1>6. ToldInTime' /\ FinalizedIsFinal'
    BY <1>5 DEF DeploymentInv, ToldInTime, FinalizedIsFinal
  <1> QED
    BY <1>2, <1>4, <1>6 DEF DeploymentInv

LEMMA Prefix ==
    ASSUME NEW S, NEW c \in Seq(S), NEW n \in 0..Len(c)
    PROVE  SubSeq(c, 1, n) \in Seq(S) /\ Len(SubSeq(c, 1, n)) = n /\ \A k \in 1..n : SubSeq(c, 1, n)[k] = c[k]
  OBVIOUS

LEMMA ReorgKeeps ==
    ASSUME DeploymentInv, NEW h \in 0..MaxHeight, Reorg(h), UNCHANGED <<successors, window, submitted, run>>
    PROVE  DeploymentInv'
  <1>1. h \in finalized..(Len(chain) - 1) /\ chain' = SubSeq(chain, 1, h)
        /\ finalized' = finalized /\ forks' = forks + 1 /\ forks < MaxForks
    BY DEF Reorg
  <1>2. chain \in Seq(Blocks) /\ Len(chain) <= MaxHeight /\ finalized \in 0..Len(chain) /\ forks \in 0..MaxForks
        /\ queued \in Pools
    BY DEF DeploymentInv, DeploymentTypes, Chains
  <1>3. chain' \in Seq(Blocks) /\ Len(chain') = h /\ \A k \in 1..h : chain'[k] = chain[k]
    <2>1. h \in 0..Len(chain)
      BY <1>1, <1>2
    <2> QED
      BY <1>1, <1>2, <2>1, Prefix
  <1>4. ASSUME NEW k \in Undone(h) PROVE Pooled(chain[k].tx) \in Pools
    <2>1. k \in DOMAIN chain /\ chain[k].tx # "none"
      BY DEF Undone, Spent
    <2>2. chain[k] \in Blocks
      BY <1>2, <2>1
    <2> QED
      BY <2>1, <2>2 DEF Pooled, Blocks, Pools, Txs
  <1>5. queued' \in Pools
    BY <1>2, <1>4 DEF Reorg, Pools, Txs
  <1>6. chain' \in Chains /\ finalized' \in finalized..Len(chain') /\ forks' \in 0..MaxForks
        /\ \A k \in 1..finalized : chain'[k] = chain[k]
    BY <1>1, <1>2, <1>3, ChainAssumption DEF Chains
  <1> QED
    BY <1>5, <1>6, ChainKeeps

LEMMA OutsideKeeps == ASSUME DeploymentInv, Outside PROVE DeploymentInv'
  <1> USE DEF DeploymentInv, DeploymentTypes, Outside, Chains, Blocks, Pools, Txs
  <1> USE ChainAssumption
  <1>1. CASE (\E tx \in Others : OtherSends(tx)) \/ RawLands
    <2>1. chain' = chain /\ finalized' = finalized /\ forks' = forks /\ queued' \in Pools
      BY <1>1 DEF OtherSends, RawLands
    <2> QED
      BY <2>1, ChainKeeps
  <1>2. ASSUME NEW tx \in Txs, Mine(tx) PROVE DeploymentInv'
    <2>1. chain' = Append(chain, [fork |-> forks, tx |-> tx]) /\ Len(chain) < MaxHeight
      BY <1>2 DEF Mine
    <2>2. chain' \in Seq(Blocks) /\ Len(chain') = Len(chain) + 1 /\ \A h \in 1..Len(chain) : chain'[h] = chain[h]
      BY <2>1
    <2>3. queued' \in Pools /\ finalized' = finalized /\ forks' = forks
      BY <1>2 DEF Mine
    <2> QED
      BY <2>1, <2>2, <2>3, ChainKeeps
  <1>3. CASE Finalize
    <2>1. chain' = chain /\ finalized' = finalized + 1 /\ finalized < Len(chain)
          /\ forks' = forks /\ queued' = queued
      BY <1>3 DEF Finalize
    <2> QED
      BY <2>1, ChainKeeps
  <1>4. ASSUME NEW h \in 0..MaxHeight, Reorg(h) PROVE DeploymentInv'
    BY <1>4, ReorgKeeps
  <1> QED
    BY <1>1, <1>2, <1>3, <1>4 DEF ChainNext

\* A pass that comes to rest.
LEMMA EndKeeps ==
    ASSUME DeploymentInv, NEW i \in Instances, NEW result \in Results, Ends(i, result),
           result = "finalized" => DeployedForGood, OutsideAlone, submitted' \in BOOLEAN
    PROVE  DeploymentInv'
  <1>1. NoWorld \in Worlds /\ NoReceipt \in Receipts
    BY ChainAssumption DEF NoWorld, Worlds, Chains, Pools, Txs, NoReceipt, Receipts
  <1>2. Resting(result) \in Runs /\ Resting(result).from = NoWorld
        /\ Resting(result).step # "verify" /\ Resting(result).result = result
    BY <1>1, ChainAssumption DEF Resting, Runs, Steps, Passes
  <1> QED
    BY <1>2, PassKeeps DEF Ends, OutsideAlone

\* A pass that awaits the calls of its next step.
LEMMA AwaitKeeps ==
    ASSUME DeploymentInv, NEW i \in Instances, NEW step \in Steps, NEW pass \in Passes,
           NEW receipt \in Receipts, NEW height \in 0..MaxHeight, AwaitsWith(i, step, pass, receipt, height),
           step = "verify" => height <= finalized, OutsideAlone, submitted' \in BOOLEAN
    PROVE  DeploymentInv'
  <1> DEFINE r == [step |-> step, pass |-> pass, from |-> World, receipt |-> receipt, finalized |-> height,
                   result |-> run[i].result, afterFinality |-> run[i].afterFinality]
  <1>1. run[i] \in Runs /\ World \in Worlds /\ World.finalized = finalized
    BY WorldTyped DEF DeploymentInv, DeploymentTypes, World
  <1>2. r \in Runs /\ r.from = World /\ (r.step = "verify" => r.finalized <= r.from.finalized)
    BY <1>1 DEF Runs
  <1>3. r.result = "finalized" => DeployedForGood
    BY DEF DeploymentInv, FinalizedIsFinal
  <1>4. run' = [run EXCEPT ![i] = r]
    BY DEF AwaitsWith
  <1> HIDE DEF r
  <1> QED
    BY <1>2, <1>3, <1>4, PassKeeps DEF OutsideAlone

LEMMA StartKeeps == ASSUME DeploymentInv, NEW i \in Instances, StartPass(i) PROVE DeploymentInv'
  <1> DEFINE r == [step |-> "read", pass |-> 1, from |-> World, receipt |-> NoReceipt,
                   finalized |-> 0, result |-> run[i].result, afterFinality |-> DeployedForGood]
  <1>1. run[i] \in Runs /\ World \in Worlds /\ NoReceipt \in Receipts /\ 0 \in 0..MaxHeight
    BY WorldTyped, ChainAssumption DEF DeploymentInv, DeploymentTypes, NoReceipt, Receipts
  <1>2. DeployedForGood \in BOOLEAN
    BY DEF DeployedForGood
  <1>3. r \in Runs /\ r.from = World /\ r.step # "verify" /\ r.result = run[i].result
    BY <1>1, <1>2 DEF Runs, Steps, Passes
  <1>4. r.result = "finalized" => DeployedForGood
    BY <1>3 DEF DeploymentInv, FinalizedIsFinal
  <1>5. run' = [run EXCEPT ![i] = r]
    BY DEF StartPass
  <1> HIDE DEF r
  <1> QED
    BY <1>3, <1>4, <1>5, PassKeeps DEF StartPass, OutsideAlone, DeploymentInv, DeploymentTypes

\* A finalized result rests on a receipt that two finalized blocks have followed.
LEMMA VerifyKeeps == ASSUME DeploymentInv, NEW i \in Instances, VerifyEnds(i) PROVE DeploymentInv'
  <1> DEFINE at == run[i].receipt.at
             v == run[i].from
  <1>1. PICK primary \in FinalityReads(v, World, at), audit \in FinalityReads(v, World, at) :
            Ends(i, IF run[i].finalized >= at + 2 /\ CanonicalAt(primary, at) /\ CanonicalAt(audit, at)
                    THEN "finalized" ELSE "conflict")
    BY DEF VerifyEnds, CanonicalReads
  <1>2. CASE run[i].finalized >= at + 2 /\ CanonicalAt(primary, at)
    <2>1. run[i] \in Runs /\ v \in Worlds /\ at \in Nat /\ run[i].finalized \in Nat
      BY DEF DeploymentInv, DeploymentTypes, Runs, Receipts
    <2>2. run[i].finalized <= v.finalized /\ v.finalized <= finalized /\ v.finalized \in Nat
          /\ finalized \in Nat
      BY <2>1 DEF VerifyEnds, At, DeploymentInv, ToldInTime, Behind, DeploymentTypes, Worlds, Chains
    <2>3. DeployedAt(v.chain, at) \/ DeployedAt(chain, at)
      BY <1>2 DEF CanonicalAt, FinalityReads, BlockOf, World
    <2>4. at >= 1 /\ at \in 1..v.finalized
      BY <1>2, <2>1, <2>2, <2>3, SMTT(30) DEF DeployedAt, Worlds, Chains, DeploymentInv, DeploymentTypes
    <2>5. v.chain[at] = chain[at] /\ at \in DOMAIN chain
      BY <2>2, <2>4 DEF DeploymentInv, Behind, DeploymentTypes, Chains
    <2>6. DeployedAt(chain, at)
      BY <2>3, <2>5 DEF DeployedAt
    <2>7. at \in 1..(finalized - 2)
      BY <1>2, <2>1, <2>2, <2>4
    <2>8. DeployedForGood
      BY <2>6, <2>7 DEF DeployedForGood
    <2> QED
      BY <1>1, <2>8, EndKeeps DEF VerifyEnds, Results, DeploymentInv, DeploymentTypes
  <1>3. CASE ~(run[i].finalized >= at + 2 /\ CanonicalAt(primary, at))
    <2>1. Ends(i, "conflict")
      BY <1>1, <1>3
    <2> QED
      BY <2>1, EndKeeps DEF VerifyEnds, Results, DeploymentInv, DeploymentTypes
  <1> QED
    BY <1>2, <1>3

LEMMA FinalityKeeps == ASSUME DeploymentInv, NEW i \in Instances, FinalityEnds(i) PROVE DeploymentInv'
  <1>1. PICK f \in FinalityReads(run[i].from, World, run[i].receipt.at) :
            LET verdict == FinalityOf(f, run[i].receipt) IN
            IF verdict = "verify" THEN AwaitsWith(i, "verify", run[i].pass, run[i].receipt, f.finalized)
            ELSE Ends(i, verdict)
    BY DEF FinalityEnds
  <1>2. run[i] \in Runs /\ run[i].receipt \in Receipts /\ run[i].pass \in Passes
    BY DEF DeploymentInv, DeploymentTypes, Runs
  <1>3. f.finalized \in {run[i].from.finalized, finalized}
    BY DEF FinalityReads, World
  <1>4. f.finalized \in 0..MaxHeight /\ f.finalized <= finalized
    BY <1>2, <1>3, ChainAssumption DEF DeploymentInv, DeploymentTypes, Behind, Runs, Worlds, Chains
  <1>5. FinalityOf(f, run[i].receipt) \in {"conflict", "mined", "verify"}
    BY DEF FinalityOf
  <1>6. OutsideAlone /\ submitted' \in BOOLEAN
    BY DEF FinalityEnds, DeploymentInv, DeploymentTypes
  <1>7. CASE FinalityOf(f, run[i].receipt) = "verify"
    BY <1>1, <1>2, <1>4, <1>6, <1>7, AwaitKeeps DEF Steps
  <1>8. CASE FinalityOf(f, run[i].receipt) # "verify"
    <2>1. FinalityOf(f, run[i].receipt) \in Results \ {"finalized"}
      BY <1>5, <1>8 DEF Results
    <2> QED
      BY <1>1, <1>6, <1>8, <2>1, EndKeeps
  <1> QED
    BY <1>7, <1>8

LEMMA ReadKeeps == ASSUME DeploymentInv, NEW i \in Instances, ReadEnds(i) PROVE DeploymentInv'
  <1>1. PICK s \in StateReads(run[i].from, World) :
            LET verdict == Reconciled(s) IN
            IF verdict = "absent" THEN Proceeds(i)
            ELSE IF verdict = "check-finality" THEN AwaitsWith(i, "finality", run[i].pass, s.receipt, 0)
            ELSE Ends(i, verdict)
    BY DEF ReadEnds
  <1>2. run[i] \in Runs /\ run[i].pass \in Passes /\ run[i].from \in Worlds
    BY DEF DeploymentInv, DeploymentTypes, Runs
  <1>3. s.receipt \in Receipts /\ NoReceipt \in Receipts /\ 0 \in 0..MaxHeight
    <2>1. ReceiptIn(run[i].from.chain) \in Receipts /\ ReceiptIn(World.chain) \in Receipts
      BY <1>2, WorldTyped, ReceiptTyped DEF Worlds
    <2> QED
      BY <2>1, ChainAssumption DEF StateReads, NoReceipt, Receipts
  <1>4. Reconciled(s) \in {"absent", "check-finality"} \cup (Results \ {"finalized"})
    BY DEF Reconciled, Unmined, Mined, Results
  <1>5. OutsideAlone /\ submitted' \in BOOLEAN
    BY DEF ReadEnds, DeploymentInv, DeploymentTypes
  <1>6. CASE Proceeds(i)
    <2>1. \/ \E result \in {"uncertain", "blocked"} : Ends(i, result)
          \/ AwaitsWith(i, "preflight", run[i].pass, NoReceipt, 0)
      BY <1>6 DEF Proceeds, Awaits
    <2> QED
      BY <1>2, <1>3, <1>5, <2>1, EndKeeps, AwaitKeeps DEF Steps, Results
  <1>7. CASE AwaitsWith(i, "finality", run[i].pass, s.receipt, 0)
    BY <1>2, <1>3, <1>5, <1>7, AwaitKeeps DEF Steps
  <1>8. ASSUME Reconciled(s) \notin {"absent", "check-finality"}, Ends(i, Reconciled(s)) PROVE DeploymentInv'
    <2>1. Reconciled(s) \in Results \ {"finalized"}
      BY <1>4, <1>8
    <2> QED
      BY <1>5, <1>8, <2>1, EndKeeps
  <1> QED
    BY <1>1, <1>6, <1>7, <1>8

\* The rest of a pass: it waits for the next calls, or ends without a claim.
LEMMA RestKeeps ==
    ASSUME DeploymentInv, NEW i \in Instances,
           \/ ReadFails(i) \/ FinalityFails(i) \/ VerifyFails(i) \/ PreflightFails(i) \/ PreflightEnds(i)
           \/ SignFails(i) \/ SignEnds(i) \/ SendEnds(i) \/ SendFails(i) \/ Restart(i)
    PROVE  DeploymentInv'
  <1>1. NoReceipt \in Receipts /\ 0 \in 0..MaxHeight
    BY ChainAssumption DEF NoReceipt, Receipts
  <1>2. OutsideAlone /\ submitted' \in BOOLEAN
    BY DEF ReadFails, FinalityFails, VerifyFails, PreflightFails, PreflightEnds, SignFails, SignEnds,
           SendEnds, SendFails, Restart, DeploymentInv, DeploymentTypes
  <1>3. CASE \E result \in Results \ {"finalized"} : Ends(i, result)
    BY <1>2, <1>3, EndKeeps
  <1>4. CASE \E step \in {"sign", "sending", "read"}, pass \in Passes : AwaitsWith(i, step, pass, NoReceipt, 0)
    BY <1>1, <1>2, <1>4, AwaitKeeps DEF Steps
  <1>5. ReadFails(i) \/ FinalityFails(i) \/ VerifyFails(i) \/ PreflightFails(i) \/ SignFails(i) \/ SendEnds(i)
        \/ Restart(i) => \E result \in Results \ {"finalized"} : Ends(i, result)
    BY DEF ReadFails, FinalityFails, VerifyFails, PreflightFails, SignFails, SendEnds, Restart, Results, Ends
  <1>6. SignEnds(i) \/ SendFails(i) =>
            \E step \in {"sign", "sending", "read"}, pass \in Passes : AwaitsWith(i, step, pass, NoReceipt, 0)
    BY DEF SignEnds, SendFails, Awaits, Passes
  <1>7. PreflightEnds(i) =>
            \/ \E result \in Results \ {"finalized"} : Ends(i, result)
            \/ \E step \in {"sign", "sending", "read"}, pass \in Passes : AwaitsWith(i, step, pass, NoReceipt, 0)
    BY DEF PreflightEnds, Results, Awaits, Passes
  <1> QED
    BY <1>3, <1>4, <1>5, <1>6, <1>7

LEMMA DeploymentKeeps == DeploymentInv /\ [DeploymentNext]_deploymentVars => DeploymentInv'
  <1> SUFFICES ASSUME DeploymentInv, [DeploymentNext]_deploymentVars PROVE DeploymentInv'
    OBVIOUS
  <1>1. CASE Outside
    BY <1>1, OutsideKeeps
  <1>2. CASE WindowMoves
    <2>1. window' \in {"early", "open", "closed"} /\ UNCHANGED <<chainVars, successors, submitted, run>>
      BY <1>2 DEF WindowMoves
    <2> QED
      BY <2>1
      DEF DeploymentInv, DeploymentTypes, Behind, ToldInTime, FinalizedIsFinal, DeployedForGood, DeployedAt, chainVars
  <1>3. ASSUME NEW i \in Instances, PassNext(i) \/ Restart(i) PROVE DeploymentInv'
    BY <1>3, StartKeeps, ReadKeeps, FinalityKeeps, VerifyKeeps, RestKeeps DEF PassNext
  <1>4. CASE UNCHANGED deploymentVars
    BY <1>4
    DEF DeploymentInv, DeploymentTypes, Behind, ToldInTime, FinalizedIsFinal, DeployedForGood, DeployedAt,
        deploymentVars
  <1> QED
    BY <1>1, <1>2, <1>3, <1>4 DEF DeploymentNext

\* However many instances read a chain that forks and finalizes between their
\* reads: what one of them reports final no reorganisation undoes
\* (recovery-v2-deployment.mjs, reconcileFinality).
THEOREM FinalityIsKept == DeploymentSpec => []FinalizedIsFinal
  <1>1. DeploymentSpec => []DeploymentInv
    BY DeploymentStarts, DeploymentKeeps, PTL DEF DeploymentSpec
  <1>2. DeploymentInv => FinalizedIsFinal
    BY DEF DeploymentInv
  <1> QED
    BY <1>1, <1>2, PTL

-----------------------------------------------------------------------------
(* The window of the broadcast *)

LEMMA NonceCounts ==
    ASSUME NEW c \in Chains, NEW n \in 0..Len(c)
    PROVE  /\ NextNonce(c) \in Nat /\ NextNonce(SubSeq(c, 1, n)) \in Nat
           /\ NextNonce(SubSeq(c, 1, n)) <= NextNonce(c)
  <1> DEFINE d == SubSeq(c, 1, n)
  <1>1. c \in Seq(Blocks) /\ d \in Seq(Blocks) /\ Len(d) = n /\ \A h \in 1..n : d[h] = c[h]
    BY DEF Chains
  <1>2. DOMAIN c = 1..Len(c) /\ DOMAIN d = 1..n /\ Len(c) \in Nat
    BY <1>1
  <1>3. Spent(d) \subseteq Spent(c) /\ Spent(c) \subseteq 1..Len(c)
    BY <1>1, <1>2 DEF Spent
  <1> HIDE DEF d
  <1>4. IsFiniteSet(Spent(c)) /\ IsFiniteSet(Spent(d))
    <2>1. IsFiniteSet(1..Len(c))
      BY <1>2, FS_Interval
    <2>2. IsFiniteSet(Spent(c))
      BY <2>1, <1>3, FS_Subset
    <2> QED
      BY <2>2, <1>3, FS_Subset
  <1>5. /\ Cardinality(Spent(d)) <= Cardinality(Spent(c))
        /\ Cardinality(Spent(c)) \in Nat /\ Cardinality(Spent(d)) \in Nat
    BY <1>3, <1>4, FS_Subset, FS_CardinalityType
  <1>6. NextNonce(d) \in Nat /\ NextNonce(c) \in Nat /\ NextNonce(d) <= NextNonce(c)
    BY <1>5, ChainAssumption DEF NextNonce
  <1> QED
    BY <1>6 DEF d

\* A prefix of the blocks is what it was.
LEMMA SamePrefix ==
    ASSUME DeploymentInv, NEW i \in Instances
    PROVE  LET v == run[i].from IN SubSeq(v.chain, 1, v.finalized) = SubSeq(chain, 1, v.finalized)
  <1> DEFINE v == run[i].from
  <1>1. v.chain \in Seq(Blocks) /\ v.finalized \in Nat /\ v.finalized <= Len(v.chain)
        /\ chain \in Seq(Blocks) /\ v.finalized <= Len(chain)
        /\ \A h \in 1..v.finalized : v.chain[h] = chain[h]
    BY DEF DeploymentInv, DeploymentTypes, Runs, Worlds, Chains, Behind
  <1> HIDE DEF v
  <1>2. SubSeq(v.chain, 1, v.finalized) = SubSeq(chain, 1, v.finalized)
    BY <1>1
  <1> QED
    BY <1>2 DEF v

LEMMA SendIsTimely ==
    ASSUME DeploymentInv, [DeploymentNext]_deploymentVars, NEW i \in Instances,
           run[i].step = "preflight", run'[i].step = "sending"
    PROVE  window = "open" /\ ~SpentForGood(run[i].from)
  <1>1. PreflightEnds(i) /\ window = "open"
    <2> USE DEF At, Ends, Resting, Awaits, AwaitsWith, DeploymentInv, DeploymentTypes
    <2>1. CASE UNCHANGED run
      BY <2>1
    <2>2. ASSUME NEW j \in Instances, PassNext(j) \/ Restart(j)
          PROVE  j = i
      BY <2>2
      DEF PassNext, StartPass, ReadFails, ReadEnds, Proceeds, FinalityFails, FinalityEnds, VerifyFails, VerifyEnds,
          PreflightFails, PreflightEnds, SignFails, SignEnds, SendEnds, SendFails, Restart
    <2>3. CASE PreflightEnds(i)
      BY <2>3 DEF PreflightEnds
    <2>4. ASSUME PassNext(i) \/ Restart(i), ~PreflightEnds(i) PROVE FALSE
      BY <2>4
      DEF PassNext, StartPass, ReadFails, ReadEnds, FinalityFails, FinalityEnds, VerifyFails, VerifyEnds,
          PreflightFails, SignFails, SignEnds, SendEnds, SendFails, Restart
    <2> QED
      BY <2>1, <2>2, <2>3, <2>4 DEF DeploymentNext, Outside, WindowMoves, deploymentVars
  <1> DEFINE v == run[i].from
             n == v.finalized
  <1>2. PICK s \in StateReads(v, World) : PreflightClean(s)
    BY <1>1 DEF PreflightEnds
  <1>3. NextNonce(v.chain) = DEPLOYMENT_NONCE \/ NextNonce(chain) = DEPLOYMENT_NONCE
    BY <1>2 DEF StateReads, PreflightClean, World
  <1>4. v.chain \in Chains /\ chain \in Chains /\ n \in 0..Len(v.chain) /\ n \in 0..Len(chain)
    BY DEF DeploymentInv, DeploymentTypes, Runs, Worlds, Chains, Behind
  <1>5. /\ NextNonce(SubSeq(v.chain, 1, n)) \in Nat
        /\ NextNonce(SubSeq(v.chain, 1, n)) <= NextNonce(v.chain)
        /\ NextNonce(SubSeq(v.chain, 1, n)) <= NextNonce(chain)
    BY <1>4, NonceCounts, SamePrefix
  <1>6. ~(NextNonce(SubSeq(v.chain, 1, n)) > DEPLOYMENT_NONCE)
    BY <1>3, <1>5 DEF DEPLOYMENT_NONCE
  <1> QED
    BY <1>1, <1>6 DEF SpentForGood

\* Whoever else uses the signer's account, and however the reads straddle blocks:
\* no instance sends after the window, or when its nonce was spent in a block that
\* was finalized before its last preflight (runRecoveryV2DeploymentLifecycle).
THEOREM SendsInTime == DeploymentSpec => SendsAreTimely
  <1>1. DeploymentSpec => []DeploymentInv
    BY DeploymentStarts, DeploymentKeeps, PTL DEF DeploymentSpec
  <1>2. DeploymentInv /\ [DeploymentNext]_deploymentVars => [\A i \in Instances : SendHolds(i)]_deploymentVars
    BY SendIsTimely DEF SendHolds, At
  <1> QED
    BY <1>1, <1>2, PTL DEF DeploymentSpec, SendsAreTimely

-----------------------------------------------------------------------------
(* What is final is not refused *)

\* The transactions of a chain have the signer's nonces in order.
SpentBefore(c, k) == {l \in Spent(c) : l < k}
Ordered(c) == \A k \in Spent(c) : NonceOf(c[k].tx) = FirstNonce + Cardinality(SpentBefore(c, k))
QueuedNext == queued # "none" => NonceOf(queued) = NextNonce(chain)

\* A pass that began with the deployment final stays on the way to report it.
OnTrack(r) ==
    r.afterFinality =>
        /\ r.step \in {"read", "finality", "verify"}
        /\ Ordered(r.from.chain)
        /\ \E h \in 1..(r.from.finalized - 2) : DeployedAt(r.from.chain, h)
        /\ r.step # "read" => r.receipt = ReceiptIn(r.from.chain)
        /\ r.step = "verify" => r.finalized >= r.receipt.at + 2

RefusalInv == DeploymentInv /\ Ordered(chain) /\ QueuedNext /\ \A i \in Instances : OnTrack(run[i])

LEMMA SpentFinite ==
    ASSUME NEW c \in Chains
    PROVE  /\ Spent(c) \subseteq 1..Len(c) /\ IsFiniteSet(Spent(c)) /\ Cardinality(Spent(c)) \in Nat
           /\ \A k : IsFiniteSet(SpentBefore(c, k)) /\ Cardinality(SpentBefore(c, k)) \in Nat
  <1>1. Len(c) \in Nat /\ Spent(c) \subseteq 1..Len(c)
    BY DEF Chains, Spent
  <1>2. IsFiniteSet(1..Len(c))
    BY <1>1, FS_Interval
  <1>3. IsFiniteSet(Spent(c))
    BY <1>1, <1>2, FS_Subset
  <1>4. \A k : SpentBefore(c, k) \subseteq Spent(c)
    BY DEF SpentBefore
  <1> QED
    BY <1>1, <1>3, <1>4, FS_Subset, FS_CardinalityType

LEMMA NonceTyped == ASSUME NEW c \in Chains PROVE NextNonce(c) \in Nat
  BY SpentFinite, ChainAssumption DEF NextNonce

\* At most one transaction has the deployment's nonce, and what a provider says of it.
LEMMA Deployment ==
    ASSUME NEW c \in Chains, Ordered(c), NEW h, DeployedAt(c, h)
    PROVE  /\ ReceiptIn(c) = [at |-> h, fork |-> c[h].fork, ok |-> TRUE]
           /\ \A k \in Nat : k >= h => CodeAt(c, k) = "runtime"
           /\ NextNonce(c) >= DEPLOYMENT_NONCE + 1
           /\ h \in 1..Len(c)
  <1>1. h \in 1..Len(c) /\ DOMAIN c = 1..Len(c) /\ Len(c) \in Nat /\ h \in Spent(c) /\ c[h].tx = "deploy"
    BY DEF DeployedAt, Spent, Chains
  <1>2. FirstNonce + Cardinality(SpentBefore(c, h)) = DEPLOYMENT_NONCE
    BY <1>1 DEF Ordered, NonceOf, DEPLOYMENT_NONCE
  <1>3. ASSUME NEW k \in Spent(c), NEW m \in Spent(c), k < m
        PROVE  NonceOf(c[k].tx) # NonceOf(c[m].tx)
    <2>1. SpentBefore(c, k) \subseteq SpentBefore(c, m) /\ k \in SpentBefore(c, m) /\ k \notin SpentBefore(c, k)
      <3>1. \A l \in Spent(c) : l \in Nat
        BY SpentFinite
      <3> QED
        BY <1>3, <3>1 DEF SpentBefore
    <2>2. Cardinality(SpentBefore(c, k)) # Cardinality(SpentBefore(c, m))
      BY <2>1, SpentFinite, FS_Subset
    <2>3. /\ NonceOf(c[k].tx) = FirstNonce + Cardinality(SpentBefore(c, k))
          /\ NonceOf(c[m].tx) = FirstNonce + Cardinality(SpentBefore(c, m))
          /\ Cardinality(SpentBefore(c, k)) \in Nat /\ Cardinality(SpentBefore(c, m)) \in Nat /\ FirstNonce \in Nat
      BY SpentFinite, ChainAssumption DEF Ordered
    <2> QED
      BY <2>2, <2>3
  <1>4. ASSUME NEW k \in DOMAIN c, c[k].tx \in {"deploy", "reverted", "rival"} PROVE k = h
    <2>1. k \in Spent(c) /\ NonceOf(c[k].tx) = NonceOf(c[h].tx) /\ k \in Nat /\ h \in Nat
      BY <1>1, <1>4 DEF Spent, NonceOf
    <2> QED
      BY <1>1, <1>3, <2>1
  <1>5. ReceiptIn(c) = [at |-> h, fork |-> c[h].fork, ok |-> TRUE]
    <2>1. (CHOOSE k \in DOMAIN c : c[k].tx \in {"deploy", "reverted"}) = h
      BY <1>1, <1>4
    <2> QED
      BY <1>1, <2>1 DEF ReceiptIn
  <1>6. ASSUME NEW k \in Nat, k >= h PROVE CodeAt(c, k) = "runtime"
    BY <1>1, <1>6 DEF CodeAt
  <1>7. NextNonce(c) >= DEPLOYMENT_NONCE + 1
    <2>1. SpentBefore(c, h) \subseteq Spent(c) /\ h \notin SpentBefore(c, h)
      BY <1>1 DEF SpentBefore
    <2>2. Cardinality(SpentBefore(c, h)) # Cardinality(Spent(c))
          /\ Cardinality(SpentBefore(c, h)) <= Cardinality(Spent(c))
      BY <1>1, <2>1, SpentFinite, FS_Subset
    <2>3. Cardinality(SpentBefore(c, h)) \in Nat /\ Cardinality(Spent(c)) \in Nat
      BY SpentFinite
    <2> QED
      BY <1>2, <2>2, <2>3, ChainAssumption DEF NextNonce, DEPLOYMENT_NONCE
  <1> QED
    BY <1>1, <1>5, <1>6, <1>7

\* The chain keeps its nonces in order.
LEMMA OrderKept == ASSUME RefusalInv, Outside PROVE Ordered(chain)' /\ QueuedNext'
  <1>1. chain \in Chains /\ queued \in Pools
    BY DEF RefusalInv, DeploymentInv, DeploymentTypes
  <1>2. ASSUME chain' = chain PROVE Ordered(chain)' /\ NextNonce(chain') = NextNonce(chain)
    BY <1>2 DEF RefusalInv, Ordered, Spent, SpentBefore
  <1>3. CASE (\E tx \in Others : OtherSends(tx)) \/ RawLands \/ Finalize
    BY <1>2, <1>3 DEF OtherSends, RawLands, Finalize, QueuedNext, RefusalInv
  <1>4. ASSUME NEW tx \in Txs, Mine(tx) PROVE Ordered(chain)' /\ QueuedNext'
    <2> DEFINE n == Len(chain) + 1
    <2>1. /\ chain' = Append(chain, [fork |-> forks, tx |-> tx]) /\ chain \in Seq(Blocks)
          /\ queued' = IF tx = "none" THEN queued ELSE "none"
      BY <1>1, <1>4 DEF Mine, Chains
    <2>2. /\ DOMAIN chain' = DOMAIN chain \cup {n} /\ n \notin DOMAIN chain /\ chain'[n].tx = tx
          /\ \A k \in DOMAIN chain : chain'[k] = chain[k] /\ k < n
          /\ DOMAIN chain \subseteq Nat /\ n \in Nat
      BY <2>1
    <2> HIDE DEF n
    <2>3. /\ tx = "none" => Spent(chain') = Spent(chain)
          /\ tx # "none" => Spent(chain') = Spent(chain) \cup {n}
      BY <2>2 DEF Spent
    <2>4. \A k \in Spent(chain) : SpentBefore(chain', k) = SpentBefore(chain, k) /\ chain'[k] = chain[k]
      <3>1. \A k \in Spent(chain) : k \in DOMAIN chain
        BY DEF Spent
      <3> QED
        BY <2>2, <2>3, <3>1 DEF SpentBefore
    <2>5. CASE tx = "none"
      BY <2>1, <2>3, <2>4, <2>5 DEF Ordered, QueuedNext, NextNonce, RefusalInv
    <2>6. CASE tx # "none"
      <3>1. NonceOf(tx) = NextNonce(chain)
        BY <1>4, <2>6 DEF Mine, RefusalInv, QueuedNext, NonceOf
      <3>2. SpentBefore(chain', n) = Spent(chain)
        <4>1. \A k \in Spent(chain) : k \in DOMAIN chain
          BY DEF Spent
        <4> QED
          BY <2>2, <2>3, <2>6, <4>1 DEF SpentBefore
      <3>3. Ordered(chain)'
        BY <2>2, <2>3, <2>4, <2>6, <3>1, <3>2 DEF Ordered, NextNonce, RefusalInv
      <3> QED
        BY <2>1, <2>6, <3>3 DEF QueuedNext
    <2> QED
      BY <2>5, <2>6
  <1>5. ASSUME NEW h \in 0..MaxHeight, Reorg(h) PROVE Ordered(chain)' /\ QueuedNext'
    <2>1. chain \in Seq(Blocks) /\ h \in 0..Len(chain) /\ chain' = SubSeq(chain, 1, h)
      BY <1>1, <1>5 DEF Reorg, Chains, RefusalInv, DeploymentInv, DeploymentTypes
    <2>2. DOMAIN chain' = {k \in DOMAIN chain : k <= h} /\ \A k \in DOMAIN chain' : chain'[k] = chain[k]
      BY <2>1, Prefix
    <2>3. Spent(chain') = {k \in Spent(chain) : k <= h}
      BY <2>2 DEF Spent
    <2>4. DOMAIN chain \subseteq Nat /\ h \in Nat /\ \A k \in Spent(chain) : k \in DOMAIN chain
      BY <2>1 DEF Spent
    <2>5. \A k \in Spent(chain') : SpentBefore(chain', k) = SpentBefore(chain, k) /\ chain'[k] = chain[k]
      BY <2>2, <2>3, <2>4 DEF SpentBefore
    <2>6. Ordered(chain)'
      BY <2>3, <2>5 DEF Ordered, RefusalInv
    <2>7. CASE Undone(h) = {} /\ queued' = queued
      <3>1. Spent(chain') = Spent(chain)
        BY <2>3, <2>4, <2>7 DEF Undone
      <3> QED
        BY <2>6, <2>7, <3>1 DEF QueuedNext, NextNonce, RefusalInv
    <2>8. ASSUME NEW k \in Undone(h), \A l \in Undone(h) : k <= l, queued' = Pooled(chain[k].tx)
          PROVE  QueuedNext'
      <3>1. k \in Spent(chain) /\ k > h
        BY DEF Undone
      <3>2. SpentBefore(chain, k) = Spent(chain')
        BY <2>3, <2>4, <2>8, <3>1 DEF SpentBefore, Undone
      <3>3. NonceOf(queued') = NonceOf(chain[k].tx)
        BY <2>8 DEF Pooled, NonceOf
      <3>4. NonceOf(chain[k].tx) = NextNonce(chain')
        BY <3>1, <3>2 DEF RefusalInv, Ordered, NextNonce
      <3> QED
        BY <3>3, <3>4 DEF QueuedNext
    <2>9. CASE queued' = "none"
      BY <2>6, <2>9 DEF QueuedNext
    <2> QED
      BY <1>5, <2>6, <2>7, <2>8, <2>9 DEF Reorg
  <1> QED
    BY <1>3, <1>4, <1>5 DEF Outside, ChainNext

\* The deployment that a pass on track knows of is where it was.
LEMMA StillThere ==
    ASSUME RefusalInv, NEW i \in Instances, run[i].afterFinality
    PROVE  \E h \in 1..(run[i].from.finalized - 2) :
              /\ DeployedAt(run[i].from.chain, h) /\ DeployedAt(chain, h)
              /\ run[i].from.chain[h] = chain[h]
              /\ run[i].from.chain \in Chains /\ chain \in Chains
              /\ Ordered(run[i].from.chain) /\ Ordered(chain)
              /\ h <= finalized - 2 /\ finalized <= Len(chain)
              /\ run[i].from.finalized \in Nat /\ finalized \in Nat /\ run[i].from.finalized <= finalized
  <1> DEFINE v == run[i].from
  <1>1. v.chain \in Chains /\ chain \in Chains /\ v.finalized \in Nat /\ finalized \in Nat
        /\ v.finalized <= finalized /\ finalized <= Len(chain)
        /\ \A h \in 1..v.finalized : v.chain[h] = chain[h]
    BY DEF RefusalInv, DeploymentInv, DeploymentTypes, Behind, Runs, Worlds, Chains
  <1>2. PICK h \in 1..(v.finalized - 2) : DeployedAt(v.chain, h)
    BY DEF RefusalInv, OnTrack
  <1>3. Ordered(v.chain) /\ Ordered(chain)
    BY DEF RefusalInv, OnTrack
  <1>4. h \in 1..v.finalized /\ h <= finalized - 2 /\ h \in DOMAIN chain
    BY <1>1, <1>2 DEF Chains
  <1>5. v.chain[h] = chain[h] /\ DeployedAt(chain, h)
    BY <1>1, <1>2, <1>4 DEF DeployedAt
  <1> QED
    BY <1>1, <1>2, <1>3, <1>4, <1>5

\* A pass steps, the others and the chain stay.
LEMMA TrackKept ==
    ASSUME RefusalInv, NEW i \in Instances, NEW r, run' = [run EXCEPT ![i] = r], OnTrack(r), chainVars' = chainVars,
           DeploymentInv'
    PROVE  RefusalInv'
  <1>1. \A j \in Instances : OnTrack(run'[j])
    BY DEF RefusalInv, DeploymentInv, DeploymentTypes
  <1>2. Ordered(chain)' /\ QueuedNext'
    BY DEF RefusalInv, chainVars, QueuedNext
  <1> QED
    BY <1>1, <1>2 DEF RefusalInv

\* What the reads of a pass on track give.
LEMMA ReadsOnTrack ==
    ASSUME RefusalInv, NEW i \in Instances, run[i].afterFinality, NEW s \in StateReads(run[i].from, World)
    PROVE  /\ s.receipt = ReceiptIn(chain)
           /\ Reconciled(s) \in {"conflict", "check-finality"}
           /\ ~MovedOn(World) /\ ~MovedOn(run[i].from) => Reconciled(s) = "check-finality"
  <1> DEFINE v == run[i].from
  <1>1. PICK h \in 1..(v.finalized - 2) :
              /\ DeployedAt(v.chain, h) /\ DeployedAt(chain, h) /\ v.chain[h] = chain[h]
              /\ v.chain \in Chains /\ chain \in Chains
              /\ Ordered(v.chain) /\ Ordered(chain)
    BY StillThere
  <1>2. /\ ReceiptIn(v.chain) = ReceiptIn(chain)
        /\ ReceiptIn(chain) = [at |-> h, fork |-> chain[h].fork, ok |-> TRUE] /\ h >= 1 /\ h \in Nat
        /\ NextNonce(v.chain) >= DEPLOYMENT_NONCE + 1 /\ NextNonce(chain) >= DEPLOYMENT_NONCE + 1
        /\ NextNonce(v.chain) \in Nat /\ NextNonce(chain) \in Nat
    <2>1. /\ ReceiptIn(v.chain) = [at |-> h, fork |-> v.chain[h].fork, ok |-> TRUE]
          /\ NextNonce(v.chain) >= DEPLOYMENT_NONCE + 1 /\ h \in 1..Len(v.chain) /\ NextNonce(v.chain) \in Nat
      BY <1>1, Deployment, NonceTyped
    <2>2. /\ ReceiptIn(chain) = [at |-> h, fork |-> chain[h].fork, ok |-> TRUE]
          /\ NextNonce(chain) >= DEPLOYMENT_NONCE + 1 /\ h \in 1..Len(chain) /\ NextNonce(chain) \in Nat
      BY <1>1, Deployment, NonceTyped
    <2> QED
      BY <1>1, <2>1, <2>2
  <1>3. CodeAt(v.chain, Len(v.chain)) = "runtime" /\ CodeAt(chain, Len(chain)) = "runtime"
    <2>1. Len(v.chain) \in Nat /\ Len(v.chain) >= h /\ Len(chain) \in Nat /\ Len(chain) >= h
      BY <1>1 DEF Chains, DeployedAt
    <2> QED
      BY <1>1, <2>1, Deployment
  <1>4. ReceiptIn(chain) # NoReceipt /\ ReceiptIn(chain).ok
    BY <1>2 DEF NoReceipt
  <1>5. /\ s.receipt = ReceiptIn(chain) /\ s.known /\ s.code = "runtime"
        /\ s.latest \in {NextNonce(v.chain), NextNonce(chain)}
        /\ s.pending \in {PendingNonceIn(v), PendingNonceIn(World)}
    BY <1>2, <1>3, <1>4 DEF StateReads, World, Known
  <1>6. /\ PendingNonceIn(v) \in {NextNonce(v.chain), NextNonce(v.chain) + 1}
        /\ PendingNonceIn(World) \in {NextNonce(chain), NextNonce(chain) + 1}
    BY <1>2 DEF PendingNonceIn, World
  <1>7. Reconciled(s) = IF s.pending < s.latest THEN "conflict" ELSE Mined(s)
    BY <1>4, <1>5 DEF Reconciled
  <1>8. Mined(s) = IF s.latest > DEPLOYMENT_NONCE + 1 \/ s.pending > DEPLOYMENT_NONCE + 1 THEN "conflict"
                   ELSE "check-finality"
    BY <1>2, <1>5, <1>6 DEF Mined, DEPLOYMENT_NONCE
  <1>9. ASSUME ~MovedOn(World), ~MovedOn(v) PROVE s.pending = DEPLOYMENT_NONCE + 1 /\ s.latest = DEPLOYMENT_NONCE + 1
    BY <1>2, <1>5, <1>6, <1>9 DEF MovedOn, DEPLOYMENT_NONCE
  <1> QED
    BY <1>5, <1>7, <1>8, <1>9 DEF DEPLOYMENT_NONCE

LEMMA FinalityOnTrack ==
    ASSUME RefusalInv, NEW i \in Instances, run[i].afterFinality, run[i].step \in {"finality", "verify"},
           NEW f \in FinalityReads(run[i].from, World, run[i].receipt.at)
    PROVE  /\ run[i].receipt = ReceiptIn(chain) /\ run[i].receipt.at \in Nat
           /\ f.block.holds /\ f.code = "runtime"
           /\ f.receipt = [at |-> run[i].receipt.at, fork |-> f.block.fork, ok |-> TRUE]
           /\ f.finalized \in Nat /\ f.latest \in Nat
           /\ FinalityOf(f, run[i].receipt) = IF f.finalized > f.latest THEN "conflict"
                  ELSE IF f.finalized < run[i].receipt.at + POST_FINALITY_BLOCKS THEN "mined" ELSE "verify"
           /\ ~Overtaken(i) => f.finalized <= f.latest
  <1> DEFINE v == run[i].from
  <1>1. PICK h \in 1..(v.finalized - 2) :
              /\ DeployedAt(v.chain, h) /\ DeployedAt(chain, h) /\ v.chain[h] = chain[h]
              /\ v.chain \in Chains /\ chain \in Chains
              /\ Ordered(v.chain) /\ Ordered(chain)
              /\ finalized <= Len(chain) /\ v.finalized \in Nat /\ finalized \in Nat /\ v.finalized <= finalized
    BY StillThere
  <1>2. /\ ReceiptIn(v.chain) = ReceiptIn(chain)
        /\ ReceiptIn(chain) = [at |-> h, fork |-> chain[h].fork, ok |-> TRUE] /\ h \in Nat
    <2>1. ReceiptIn(v.chain) = [at |-> h, fork |-> v.chain[h].fork, ok |-> TRUE]
      BY <1>1, Deployment
    <2>2. ReceiptIn(chain) = [at |-> h, fork |-> chain[h].fork, ok |-> TRUE] /\ h \in 1..Len(chain)
      BY <1>1, Deployment
    <2> QED
      BY <1>1, <2>1, <2>2
  <1>3. run[i].receipt = ReceiptIn(chain) /\ run[i].receipt.at = h
    BY <1>2 DEF RefusalInv, OnTrack
  <1>4. /\ BlockOf(v.chain, h) = [fork |-> chain[h].fork, holds |-> TRUE]
        /\ BlockOf(chain, h) = [fork |-> chain[h].fork, holds |-> TRUE]
        /\ h \in DOMAIN v.chain /\ h \in DOMAIN chain
    BY <1>1 DEF BlockOf, DeployedAt
  <1>5. CodesAt(v.chain, h) = {"runtime"} /\ CodesAt(chain, h) = {"runtime"}
    BY <1>1, <1>2, <1>4, Deployment DEF CodesAt
  <1>6. ReceiptIn(chain) # NoReceipt
    BY <1>2 DEF NoReceipt
  <1>7. /\ f.block = [fork |-> chain[h].fork, holds |-> TRUE] /\ f.receipt = ReceiptIn(chain) /\ f.known
        /\ f.code = "runtime" /\ f.finalized \in {v.finalized, finalized} /\ f.latest \in {Len(v.chain), Len(chain)}
    BY <1>2, <1>3, <1>4, <1>5, <1>6 DEF FinalityReads, World, Known
  <1>8. chain[h].fork # -1
    <2>1. chain[h] \in Blocks
      BY <1>1, <1>4 DEF Chains
    <2> QED
      BY <2>1, ChainAssumption DEF Blocks
  <1>9. SameDeployment(f, run[i].receipt) /\ f.block.fork # -1
    BY <1>2, <1>3, <1>7, <1>8 DEF SameDeployment
  <1>10. Len(v.chain) \in Nat /\ Len(chain) \in Nat
    BY <1>1 DEF Chains
  <1>11. ~Overtaken(i) => f.finalized <= f.latest
    BY <1>1, <1>7, <1>10, SMTT(30) DEF Overtaken
  <1> QED
    BY <1>1, <1>2, <1>3, <1>7, <1>9, <1>10, <1>11 DEF FinalityOf

LEMMA RestingOnTrack == \A result : OnTrack(Resting(result)) /\ ~Resting(result).afterFinality
  BY DEF OnTrack, Resting

\* A pass moves: on track it stays there, and refuses only what RefusesWrongly excepts.
LEMMA PassOnTrack ==
    ASSUME RefusalInv, NEW i \in Instances, PassNext(i) \/ Restart(i)
    PROVE  /\ \E r : run' = [run EXCEPT ![i] = r] /\ OnTrack(r)
           /\ ~RefusesWrongly(i)
  <1> USE DEF At, Ends
  <1>0. \A r : run' = [run EXCEPT ![i] = r] => run'[i] = r
    BY DEF RefusalInv, DeploymentInv, DeploymentTypes
  <1>1. World.chain = chain /\ World.finalized = finalized
    BY DEF World
  <1>2. ASSUME NEW result \in Results \ {"conflict", "failed"}, Ends(i, result)
        PROVE  (\E r : run' = [run EXCEPT ![i] = r] /\ OnTrack(r)) /\ ~RefusesWrongly(i)
    <2>1. run'[i].result = result
      BY <1>0, <1>2 DEF Resting
    <2> QED
      BY <1>2, <2>1, RestingOnTrack DEF RefusesWrongly
  <1>3. ASSUME NEW result, Ends(i, result), ~run[i].afterFinality
        PROVE  (\E r : run' = [run EXCEPT ![i] = r] /\ OnTrack(r)) /\ ~RefusesWrongly(i)
    BY <1>3, RestingOnTrack DEF RefusesWrongly
  <1>4. ASSUME NEW step \in Steps \ {"idle"}, NEW pass, NEW receipt, NEW height,
               AwaitsWith(i, step, pass, receipt, height), ~run[i].afterFinality
        PROVE  (\E r : run' = [run EXCEPT ![i] = r] /\ OnTrack(r)) /\ ~RefusesWrongly(i)
    BY <1>0, <1>4 DEF AwaitsWith, OnTrack, RefusesWrongly
  <1>5. run[i].afterFinality => run[i].step \in {"read", "finality", "verify"}
    BY DEF RefusalInv, OnTrack
  <1>6. CASE StartPass(i)
    <2> DEFINE r == [step |-> "read", pass |-> 1, from |-> World, receipt |-> NoReceipt,
                     finalized |-> 0, result |-> run[i].result, afterFinality |-> DeployedForGood]
    <2>1. OnTrack(r)
      BY <1>1 DEF OnTrack, DeployedForGood, RefusalInv
    <2>2. run' = [run EXCEPT ![i] = r]
      BY <1>6 DEF StartPass
    <2> HIDE DEF r
    <2> QED
      BY <1>5, <1>6, <2>1, <2>2 DEF StartPass, RefusesWrongly
  <1>7. CASE ReadFails(i) \/ FinalityFails(i) \/ VerifyFails(i) \/ Restart(i)
    <2>1. \E result \in Results \ {"conflict", "failed"} : Ends(i, result)
      BY <1>7 DEF ReadFails, FinalityFails, VerifyFails, Restart, Results
    <2> QED
      BY <1>2, <2>1
  <1>8. CASE PreflightFails(i) \/ SignFails(i) \/ SendEnds(i)
    BY <1>3, <1>5, <1>8 DEF PreflightFails, SignFails, SendEnds
  <1>9. CASE SignEnds(i) \/ SendFails(i)
    BY <1>4, <1>5, <1>9 DEF SignEnds, SendFails, Awaits, Steps
  <1>10. CASE PreflightEnds(i)
    <2>1. ~run[i].afterFinality
      BY <1>5, <1>10 DEF PreflightEnds
    <2>2. \/ Ends(i, "blocked")
          \/ AwaitsWith(i, "sign", 1, NoReceipt, 0) \/ AwaitsWith(i, "sending", 2, NoReceipt, 0)
      BY <1>10 DEF PreflightEnds, Awaits
    <2> QED
      BY <1>3, <1>4, <2>1, <2>2 DEF Steps
  <1>11. ASSUME NEW step \in {"finality", "verify"}, NEW pass, NEW receipt, NEW height,
                AwaitsWith(i, step, pass, receipt, height), run[i].afterFinality, receipt = ReceiptIn(chain),
                step = "verify" => height >= receipt.at + 2
         PROVE  (\E r : run' = [run EXCEPT ![i] = r] /\ OnTrack(r)) /\ ~RefusesWrongly(i)
    <2> DEFINE r == [step |-> step, pass |-> pass, from |-> World, receipt |-> receipt, finalized |-> height,
                     result |-> run[i].result, afterFinality |-> run[i].afterFinality]
    <2>1. run' = [run EXCEPT ![i] = r] /\ run'[i] = r
      BY <1>0, <1>11 DEF AwaitsWith
    <2>2. \E h \in 1..(finalized - 2) : DeployedAt(chain, h)
      BY <1>11, StillThere
    <2>3. OnTrack(r)
      BY <1>1, <1>11, <2>2 DEF OnTrack, RefusalInv
    <2>4. r.step # "idle"
      BY <1>11
    <2> HIDE DEF r
    <2> QED
      BY <2>1, <2>3, <2>4 DEF RefusesWrongly
  <1>12. CASE ReadEnds(i)
    <2>1. PICK s \in StateReads(run[i].from, World) :
              LET verdict == Reconciled(s) IN
              IF verdict = "absent" THEN Proceeds(i)
              ELSE IF verdict = "check-finality" THEN AwaitsWith(i, "finality", run[i].pass, s.receipt, 0)
              ELSE Ends(i, verdict)
      BY <1>12 DEF ReadEnds
    <2>2. CASE run[i].afterFinality
      <3>1. s.receipt = ReceiptIn(chain) /\ Reconciled(s) \in {"conflict", "check-finality"}
            /\ (~MovedOn(World) /\ ~MovedOn(run[i].from) => Reconciled(s) = "check-finality")
        BY <2>2, ReadsOnTrack
      <3>2. CASE Reconciled(s) = "check-finality"
        <4>1. AwaitsWith(i, "finality", run[i].pass, s.receipt, 0)
          BY <2>1, <3>2
        <4> QED
          BY <1>11, <2>2, <3>1, <4>1
      <3>3. CASE Reconciled(s) = "conflict"
        <4>1. Ends(i, "conflict") /\ (MovedOn(World) \/ MovedOn(run[i].from))
          BY <2>1, <3>1, <3>3
        <4> QED
          BY <4>1, RestingOnTrack DEF RefusesWrongly
      <3> QED
        BY <3>1, <3>2, <3>3
    <2>3. CASE ~run[i].afterFinality
      <3>1. \/ \E result : Ends(i, result)
            \/ \E step \in Steps \ {"idle"} : \E pass, receipt, height : AwaitsWith(i, step, pass, receipt, height)
        BY <2>1 DEF Proceeds, Awaits, Steps
      <3> QED
        BY <1>3, <1>4, <2>3, <3>1
    <2> QED
      BY <2>2, <2>3
  <1>13. CASE FinalityEnds(i)
    <2>1. PICK f \in FinalityReads(run[i].from, World, run[i].receipt.at) :
              LET verdict == FinalityOf(f, run[i].receipt) IN
              IF verdict = "verify" THEN AwaitsWith(i, "verify", run[i].pass, run[i].receipt, f.finalized)
              ELSE Ends(i, verdict)
      BY <1>13 DEF FinalityEnds
    <2>2. CASE run[i].afterFinality
      <3>1. /\ run[i].receipt = ReceiptIn(chain) /\ run[i].receipt.at \in Nat
            /\ f.finalized \in Nat /\ f.latest \in Nat
            /\ FinalityOf(f, run[i].receipt) = IF f.finalized > f.latest THEN "conflict"
                  ELSE IF f.finalized < run[i].receipt.at + POST_FINALITY_BLOCKS THEN "mined" ELSE "verify"
            /\ ~Overtaken(i) => f.finalized <= f.latest
        BY <1>13, <2>2, FinalityOnTrack DEF FinalityEnds
      <3>2. CASE f.finalized > f.latest
        <4>1. Overtaken(i) /\ Ends(i, "conflict")
          BY <2>1, <3>1, <3>2
        <4> QED
          BY <4>1, RestingOnTrack DEF RefusesWrongly
      <3>3. CASE ~(f.finalized > f.latest) /\ f.finalized < run[i].receipt.at + POST_FINALITY_BLOCKS
        <4>1. PICK result \in Results \ {"conflict", "failed"} : Ends(i, result)
          BY <2>1, <3>1, <3>3 DEF Results
        <4> QED
          BY <1>2, <4>1
      <3>4. CASE ~(f.finalized > f.latest) /\ ~(f.finalized < run[i].receipt.at + POST_FINALITY_BLOCKS)
        <4>1. AwaitsWith(i, "verify", run[i].pass, run[i].receipt, f.finalized)
          BY <2>1, <3>1, <3>4
        <4>2. f.finalized >= run[i].receipt.at + 2
          BY <3>1, <3>4 DEF POST_FINALITY_BLOCKS
        <4> QED
          BY <1>11, <2>2, <3>1, <4>1, <4>2
      <3> QED
        BY <3>2, <3>3, <3>4
    <2>3. CASE ~run[i].afterFinality
      BY <1>3, <1>4, <2>1, <2>3 DEF Steps
    <2> QED
      BY <2>2, <2>3
  <1>14. CASE VerifyEnds(i)
    <2> DEFINE at == run[i].receipt.at
    <2>1. PICK primary \in FinalityReads(run[i].from, World, at), audit \in FinalityReads(run[i].from, World, at) :
              Ends(i, IF run[i].finalized >= at + 2 /\ CanonicalAt(primary, at) /\ CanonicalAt(audit, at)
                      THEN "finalized" ELSE "conflict")
      BY <1>14 DEF VerifyEnds, CanonicalReads
    <2>2. CASE run[i].afterFinality
      <3>1. run[i].finalized >= at + 2 /\ run[i].step = "verify"
        BY <1>14, <2>2 DEF VerifyEnds, RefusalInv, OnTrack
      <3>2. CanonicalAt(primary, at) /\ CanonicalAt(audit, at)
        BY <2>2, <3>1, FinalityOnTrack DEF CanonicalAt
      <3>3. run' = [run EXCEPT ![i] = Resting("finalized")]
        BY <2>1, <3>1, <3>2
      <3>4. PICK result \in Results \ {"conflict", "failed"} : Ends(i, result)
        BY <3>3 DEF Results
      <3> QED
        BY <1>2, <3>4
    <2>3. CASE ~run[i].afterFinality
      BY <1>3, <2>1, <2>3
    <2> QED
      BY <2>2, <2>3
  <1> QED
    BY <1>6, <1>7, <1>8, <1>9, <1>10, <1>12, <1>13, <1>14 DEF PassNext

LEMMA RefusalStarts == DeploymentInit => RefusalInv
  <1> SUFFICES ASSUME DeploymentInit PROVE RefusalInv
    OBVIOUS
  <1>1. Spent(chain) = {}
    BY DEF DeploymentInit, ChainInit, Spent
  <1> QED
    BY <1>1, DeploymentStarts, RestingOnTrack DEF RefusalInv, DeploymentInit, ChainInit, Ordered, QueuedNext

LEMMA RefusalKeeps ==
    ASSUME RefusalInv, [DeploymentNext]_deploymentVars
    PROVE  RefusalInv' /\ \A i \in Instances : ~RefusesWrongly(i)
  <1>1. DeploymentInv'
    BY DeploymentKeeps DEF RefusalInv
  <1>2. ASSUME run' = run PROVE \A i \in Instances : ~RefusesWrongly(i)
    <2>1. \A i \in Instances : run[i].afterFinality => run[i].step # "idle"
      BY DEF RefusalInv, OnTrack
    <2> QED
      BY <1>2, <2>1 DEF RefusesWrongly
  <1>3. CASE Outside
    BY <1>1, <1>2, <1>3, OrderKept DEF Outside, RefusalInv
  <1>4. CASE WindowMoves \/ UNCHANGED deploymentVars
    <2>1. UNCHANGED <<chain, finalized, queued, run>>
      BY <1>4 DEF WindowMoves, deploymentVars, chainVars
    <2> QED
      BY <1>1, <1>2, <2>1 DEF RefusalInv, QueuedNext
  <1>5. ASSUME NEW i \in Instances, PassNext(i) \/ Restart(i)
        PROVE  RefusalInv' /\ \A j \in Instances : ~RefusesWrongly(j)
    <2>1. chainVars' = chainVars
      BY <1>5
      DEF PassNext, StartPass, ReadFails, ReadEnds, FinalityFails, FinalityEnds, VerifyFails, VerifyEnds,
          PreflightFails, PreflightEnds, SignFails, SignEnds, SendEnds, SendFails, Restart, OutsideAlone
    <2>2. PICK r : run' = [run EXCEPT ![i] = r] /\ OnTrack(r)
      BY <1>5, PassOnTrack
    <2>3. RefusalInv'
      BY <1>1, <2>1, <2>2, TrackKept
    <2>4. ASSUME NEW j \in Instances, j # i PROVE ~RefusesWrongly(j)
      <3>1. run'[j] = run[j]
        BY <2>2, <2>4 DEF RefusalInv, DeploymentInv, DeploymentTypes
      <3>2. run[j].afterFinality => run[j].step # "idle"
        BY DEF RefusalInv, OnTrack
      <3> QED
        BY <3>1, <3>2 DEF RefusesWrongly
    <2> QED
      BY <1>5, <2>3, <2>4, PassOnTrack
  <1> QED
    BY <1>3, <1>4, <1>5 DEF DeploymentNext

\* A pass that begins once the deployment is final does not refuse it, whatever its
\* reads straddle, unless the signer moved on or the finalized head overtook the
\* chain whose height it asked (reconcileDeployment, reconcileFinality).
THEOREM FinalIsNotRefused == DeploymentSpec => NoFalseRefusal
  <1>1. DeploymentSpec => []RefusalInv
    <2>1. RefusalInv /\ [DeploymentNext]_deploymentVars => RefusalInv'
      BY RefusalKeeps
    <2> QED
      BY <2>1, RefusalStarts, PTL DEF DeploymentSpec
  <1>2. RefusalInv /\ [DeploymentNext]_deploymentVars => [\A i \in Instances : ~RefusesWrongly(i)]_deploymentVars
    BY RefusalKeeps
  <1> QED
    BY <1>1, <1>2, PTL DEF DeploymentSpec, NoFalseRefusal
=============================================================================
