---------------------------- MODULE DemoService ----------------------------
(***************************************************************************)
(* The public demo: one hosted service sponsors one retry at a time.  A    *)
(* call to prepare walks over the credits it sponsored, reclaims what has  *)
(* expired, resumes the caller's credit or funds a new one, and commits    *)
(* two signed source transactions at the next two nonces of its account.   *)
(* execute broadcasts them, release claims the credit.  The service keeps  *)
(* nothing of its own: every step may fail, a call then ends, and the next *)
(* call reads everything again from the two chains.  A transaction to the  *)
(* pool whose answer was lost may still land.                              *)
(***************************************************************************)
EXTENDS ServiceCredits, FiniteSets

CONSTANTS
    Service,                \* the sponsor
    CreditAmount,
    StartDelay, WindowSize, MaxGap,     \* blocks of the source chain
    RefundDelay,
    MaxCredits,             \* credits the demo may sponsor
    AttestationInterval,    \* source blocks between attestations
    MaxTime, MaxHead,       \* bounds of the instance: last pool block, last source block
    MaxLost                 \* and answers lost

ASSUME DemoAssumption ==
    /\ StartDelay \in Nat /\ WindowSize \in Nat /\ RefundDelay \in Nat

VARIABLES
    head,       \* last block of the source chain
    mined,      \* what used each nonce of the service's source account
    mempool,    \* broadcast source transactions no block has
    prep,       \* the call to prepare that the queue lets run
    exec,       \* a call to execute
    flight,     \* a transaction to the pool whose answer was lost
    lost,       \* answers lost
    createdLate,    \* credits created by a transaction that landed after that
    committedLate   \* credits whose routes were committed by one

source == <<head, mined, mempool>>
late == <<createdLate, committedLate>>
vars == <<pool, source, prep, exec, flight, lost, late>>

Route(c, kind, nonce) == [credit |-> c, kind |-> kind, nonce |-> nonce]

\* Nonces of the source account, as "latest" and as "pending" counts them.
LatestNonce == Len(mined)
PendingNonce ==
    LET waiting == {tx.nonce : tx \in mempool}
    IN  LatestNonce + Cardinality({n \in waiting : n >= LatestNonce /\ LatestNonce..n \subseteq waiting})

Included(tx) == \E n \in 1..Len(mined) : mined[n].tx = tx
ReceiptOf(tx) == mined[tx.nonce + 1]

\* What the proof of both routes shows, whoever builds it.
PaidRoutes(c) ==
    LET routes == credits[c].routes IN
    /\ Included(routes[1]) /\ Included(routes[2])
    /\ LET failed == ReceiptOf(routes[1])
           successful == ReceiptOf(routes[2])
       IN  /\ failed.good /\ successful.good
           /\ failed.block >= credits[c].start /\ successful.block <= credits[c].end
           /\ failed.block < successful.block
           /\ successful.block - failed.block <= MaxGap
           /\ successful.block <= attested

Idle == [at |-> "idle"]

Init ==
    /\ PoolInit
    /\ head = 0 /\ mined = << >> /\ mempool = {}
    /\ prep = Idle /\ exec = Idle /\ flight = {} /\ lost = 0
    /\ createdLate = {} /\ committedLate = {}

-----------------------------------------------------------------------------
(* prepare: the walk over the sponsored credits *)

Goto(step) == [prep EXCEPT !.at = step]
NextCredit(credit) == [at |-> "scan", who |-> prep.who, count |-> prep.count, head |-> prep.head, credit |-> credit]
Reclaim(c) == [at |-> "consume", who |-> prep.who, count |-> prep.count, head |-> prep.head, credit |-> c,
               left |-> credits[c].routes]
PrepKeeps == UNCHANGED <<pool, source, exec, flight, lost, late>>

Prepare(beneficiary) ==
    /\ prep = Idle
    /\ prep' = [at |-> "scan", who |-> beneficiary, count |-> Len(credits), head |-> head, credit |-> 1]
    /\ PrepKeeps

Expired(credit) ==
    \/ credit.refundAfter < now
    \/ ~credit.active /\ now > credit.created + ActivationWindow

\* The caller's credit: without routes they are signed for the next two
\* nonces while the source window was open when the walk began, otherwise its
\* status is the answer.
Resumed(c) ==
    IF credits[c].routes = NoRoutes /\ prep.head < credits[c].end /\ credits[c].refundAfter > now
    THEN [at |-> "commit", credit |-> c, nonce |-> PendingNonce]
    ELSE Idle

\* Bug: the walk stops at the caller's own credits only.
VerdictOwn(c) ==
    LET credit == credits[c]
        mine == credit.beneficiary = prep.who
    IN  CASE credit.state = "open" /\ Expired(credit) -> Reclaim(c)
          [] credit.state = "open" /\ ~Expired(credit) /\ mine ->
                IF credit.active THEN Resumed(c) ELSE Goto("activate")
          [] credit.state = "released" /\ mine -> Idle
          [] OTHER -> NextCredit(c + 1)

\* What the walk does about the credit it reads.
Verdict(c) ==
    LET credit == credits[c]
        mine == credit.beneficiary = prep.who
    IN  CASE credit.state = "open" /\ Expired(credit) -> Reclaim(c)
          [] credit.state = "open" /\ ~Expired(credit) /\ mine ->
                IF credit.active THEN Resumed(c) ELSE Goto("activate")
          [] credit.state = "open" /\ ~Expired(credit) /\ ~mine -> Idle
          [] credit.state = "released" /\ mine -> Idle
          [] OTHER -> NextCredit(c + 1)

Scan ==
    /\ prep.at = "scan" /\ prep.credit <= prep.count
    /\ prep' = Verdict(prep.credit)
    /\ PrepKeeps

\* The draft that was resumed is active now.
Resume ==
    /\ prep.at = "routes"
    /\ prep' = Resumed(prep.credit)
    /\ PrepKeeps

\* Nothing stands in the way: the terms of a new credit, and the nonces of its
\* routes before it is funded.
Offer ==
    /\ prep.at = "scan" /\ prep.credit > prep.count
    /\ prep' = IF prep.count >= MaxCredits THEN Idle
               ELSE LET start == IF head + StartDelay > attested THEN head + StartDelay ELSE attested + 1 IN
                    [at |-> "create", nonce |-> PendingNonce,
                     terms |-> [beneficiary |-> prep.who, action |-> <<prep.count + 1, now>>,
                                amount |-> CreditAmount, refundAfter |-> now + RefundDelay,
                                start |-> start, end |-> start + WindowSize]]
    /\ PrepKeeps

-----------------------------------------------------------------------------
(* prepare: an expired credit gives its nonces and its funds back *)

\* Bug: a nonce counts as used once anything was broadcast for it.
ConsumePending ==
    /\ prep.at = "consume"
    /\ prep' = IF prep.left = NoRoutes THEN Goto("refund")
               ELSE IF Head(prep.left).nonce < PendingNonce THEN [prep EXCEPT !.left = Tail(@)]
               ELSE IF Head(prep.left).nonce > LatestNonce THEN Idle
               ELSE Goto("replace")
    /\ PrepKeeps

\* A nonce behind is used, a nonce ahead cannot be reclaimed.
ConsumeNonce ==
    /\ prep.at = "consume"
    /\ prep' = IF prep.left = NoRoutes THEN Goto("refund")
               ELSE IF Head(prep.left).nonce < LatestNonce THEN [prep EXCEPT !.left = Tail(@)]
               ELSE IF Head(prep.left).nonce > LatestNonce THEN Idle
               ELSE Goto("replace")
    /\ PrepKeeps

Replace ==
    /\ prep.at = "replace"
    /\ mempool' = IF Head(prep.left).nonce < LatestNonce THEN mempool
                  ELSE mempool \cup {Route(prep.credit, "replacement", Head(prep.left).nonce)}
    /\ prep' = Goto("replaced")
    /\ UNCHANGED <<pool, head, mined, exec, flight, lost, late>>

\* Whichever transaction used the nonce, it is gone.
Replaced ==
    /\ prep.at = "replaced"
    /\ LatestNonce > Head(prep.left).nonce
    /\ prep' = [prep EXCEPT !.at = "consume", !.left = Tail(@)]
    /\ PrepKeeps

-----------------------------------------------------------------------------
(* prepare: its transactions to the pool *)

Call == \* the transaction prepare sends next
    CASE prep.at = "create" -> [op |-> "create", terms |-> prep.terms]
      [] prep.at = "activate" -> [op |-> "activate", credit |-> prep.credit]
      [] prep.at = "refund" -> [op |-> "refund", credit |-> prep.credit]
      [] prep.at = "commit" -> [op |-> "commit", credit |-> prep.credit, nonce |-> prep.nonce]
Calling == prep.at \in {"create", "activate", "refund", "commit"}

Execute(call) ==
    \/ call.op = "create" /\ CreateServiceCredit(Service, call.terms)
    \/ call.op = "activate" /\ ActivateServiceCredit(call.credit, Service)
    \/ call.op = "refund" /\ RefundServiceCredit(call.credit, Service)
    \/ /\ call.op = "commit"
       /\ CommitSourceTransactions(call.credit, Service,
              Route(call.credit, "failed", call.nonce), Route(call.credit, "successful", call.nonce + 1))

AfterCall ==
    CASE prep.at = "create" -> [at |-> "activate", credit |-> Len(credits) + 1, nonce |-> prep.nonce]
      [] prep.at = "activate" -> Goto(IF "nonce" \in DOMAIN prep THEN "commit" ELSE "routes")
      [] prep.at = "refund" -> NextCredit(prep.credit + 1)
      [] prep.at = "commit" -> Idle

\* The sponsor's transactions take effect in the order of their nonces: what
\* is still in flight lands or is replaced first.
Confirm ==
    /\ Calling /\ flight = {}
    /\ Execute(Call)
    /\ prep' = AfterCall
    /\ UNCHANGED <<source, exec, flight, lost, late>>

LoseAnswer ==
    /\ Calling /\ flight = {} /\ lost < MaxLost
    /\ flight' = {Call} /\ lost' = lost + 1
    /\ prep' = Idle
    /\ UNCHANGED <<pool, source, exec, late>>

LandLate ==
    /\ \E call \in flight :
          /\ Execute(call)
          /\ createdLate' = IF call.op = "create" THEN createdLate \cup {Len(credits) + 1} ELSE createdLate
          /\ committedLate' = IF call.op = "commit" THEN committedLate \cup {call.credit} ELSE committedLate
    /\ flight' = {}
    /\ UNCHANGED <<source, prep, exec, lost>>

Vanish ==
    /\ flight # {} /\ flight' = {}
    /\ UNCHANGED <<pool, source, prep, exec, lost, late>>

PrepareFails ==
    /\ prep # Idle /\ prep' = Idle
    /\ PrepKeeps

-----------------------------------------------------------------------------
(* execute *)

ExecKeeps == UNCHANGED <<pool, head, mined, prep, flight, lost, late>>
RouteOf(c, kind) == credits[c].routes[IF kind = "failed" THEN 1 ELSE 2]

Headroom(c, after) == head >= credits[c].start /\ head < credits[c].end /\ head - after < MaxGap

\* The stale route must have failed inside the funded bounds, and recently,
\* before the refreshed one goes out.
AfterFailure(c) ==
    LET receipt == ReceiptOf(RouteOf(c, "failed")) IN
    IF /\ receipt.good
       /\ receipt.block >= credits[c].start /\ receipt.block <= credits[c].end
       /\ ~Included(RouteOf(c, "successful"))
       /\ Headroom(c, receipt.block)
    THEN [at |-> "send", credit |-> c, kind |-> "successful"] ELSE Idle

StartExecution(c) ==
    /\ exec = Idle
    /\ Unresolved(c) /\ credits[c].active /\ credits[c].routes # NoRoutes
    /\ IF Included(RouteOf(c, "failed")) THEN exec' = AfterFailure(c)
       ELSE Headroom(c, head) /\ exec' = [at |-> "send", credit |-> c, kind |-> "failed"]
    /\ mempool' = mempool /\ ExecKeeps

\* The blocks may have gone on since the head was read.  A transaction whose
\* nonce is used by another is refused.
Broadcast ==
    /\ exec.at = "send"
    /\ LET tx == RouteOf(exec.credit, exec.kind) IN
       /\ Included(tx) \/ tx.nonce >= LatestNonce
       /\ mempool' = IF Included(tx) THEN mempool ELSE mempool \cup {tx}
    /\ exec' = IF exec.kind = "failed" THEN [exec EXCEPT !.at = "wait"] ELSE Idle
    /\ ExecKeeps

FailureIncluded ==
    /\ exec.at = "wait" /\ Included(RouteOf(exec.credit, "failed"))
    /\ exec' = AfterFailure(exec.credit)
    /\ mempool' = mempool /\ ExecKeeps

ExecutionEnds ==
    /\ exec # Idle /\ exec' = Idle
    /\ mempool' = mempool /\ ExecKeeps

-----------------------------------------------------------------------------
(* release, by anyone with a proof: what the worker proved and simulated the
   contract decides again, so the call is the transaction *)

Release(c) ==
    /\ credits[c].routes # NoRoutes
    /\ ReleaseCredit(c, PaidRoutes(c))
    /\ UNCHANGED <<source, prep, exec, flight, lost, late>>

-----------------------------------------------------------------------------
(* The chains *)

PoolBlock ==
    /\ now < MaxTime /\ Tick
    /\ UNCHANGED <<source, prep, exec, flight, lost, late>>

AttestSource ==
    /\ head % AttestationInterval = 0
    /\ attested < head /\ Attest(head)
    /\ UNCHANGED <<source, prep, exec, flight, lost, late>>

\* A block of the source chain, with or without a transaction of the service.
SourceBlock ==
    /\ head < MaxHead /\ head' = head + 1
    /\ \/ mined' = mined /\ mempool' = mempool
       \/ \E tx \in mempool, good \in BOOLEAN :
             /\ tx.nonce = LatestNonce
             /\ tx.kind = "replacement" => good
             /\ mined' = Append(mined, [tx |-> tx, block |-> head', good |-> good])
             /\ mempool' = {other \in mempool : other.nonce > tx.nonce}
    /\ UNCHANGED <<pool, prep, exec, flight, lost, late>>

Next ==
    \/ \E beneficiary \in Beneficiaries : Prepare(beneficiary)
    \/ Scan \/ Resume \/ Offer \/ ConsumeNonce \/ Replace \/ Replaced
    \/ Confirm \/ LoseAnswer \/ LandLate \/ Vanish \/ PrepareFails
    \/ \E c \in Numbers : StartExecution(c) \/ Release(c)
    \/ Broadcast \/ FailureIncluded \/ ExecutionEnds
    \/ PoolBlock \/ AttestSource \/ SourceBlock

Spec == Init /\ [][Next]_vars

-----------------------------------------------------------------------------
(* Properties *)

\* The service gets a credit back only when neither of its routes can be mined
\* any more: both nonces are used (uniswap-demo-service.mjs, #consumeSourceNonce).
\* A credit whose routes were committed after the answer to that call was lost
\* is the exception; one created that way is not.
ReclaimedAreDead ==
    \A c \in Numbers :
        credits[c].state = "refunded" /\ c \notin committedLate =>
            \A i \in DOMAIN credits[c].routes : credits[c].routes[i].nonce < LatestNonce

\* The demo has one unresolved credit, and so one reserved pair of nonces, at a
\* time; only a creation whose answer was lost may stand beside it.
OneOpenCredit == Cardinality({c \in Numbers \ createdLate : Unresolved(c)}) <= 1

\* A beneficiary gets one credit from the demo, whatever fails and resumes
\* between its calls: of two credits for the same one, one was taken back.
\* A credit created after the answer was lost is left out here as well.
OneCreditPerBeneficiary ==
    \A c, d \in Numbers \ createdLate :
        c # d /\ credits[c].beneficiary = credits[d].beneficiary =>
            "refunded" \in {credits[c].state, credits[d].state}

\* The demo's own money is bounded: one credit open, one for each beneficiary.
OneCredit == OneOpenCredit /\ OneCreditPerBeneficiary
=============================================================================
