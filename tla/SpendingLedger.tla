--------------------------- MODULE SpendingLedger ---------------------------
(***************************************************************************)
(* The durable helper spending ledger of src/helper-ledger-worker.mjs: one *)
(* Durable Object per campaign whose SQL rows bound what the hosted        *)
(* relayer may ever spend.  Each request runs a first part (checks, then   *)
(* an awaited SHA-256) and a second part, one synchronous transaction;     *)
(* requests interleave between the two.  The clock may pass the policy's   *)
(* expiry there, and a redeployment drops the requests in flight.  An      *)
(* object may run on another machine after any request, so its clock may   *)
(* also be set back.                                                       *)
(*                                                                         *)
(* An operation is identified by its source wallet and its transaction     *)
(* pair: the hash of helperOperationId is injective.  The requester and    *)
(* its mode take no part in that identity and are abstracted away.  A      *)
(* permit token is named by the operation it was drawn for.                *)
(***************************************************************************)
EXTENDS Integers, FiniteSets

CONSTANTS
    Wallets, Hashes,        \* source wallets and evidence transaction hashes
    TxHashes,               \* hashes of signed payout transactions
    Policies,               \* the policies an operator may configure
    None,                   \* SQL NULL
    MaxNonce, MaxBlock, MaxTime, MaxCalls     \* bounds of the exploration

Policy == [maxAttempts : 1..32, maxPayouts : 1..32, maxTotalFee : Nat \ {0},
           maxFee : Nat \ {0}, expiresAt : Nat \ {0}]

\* normalizeLedgerLimits rejects a policy whose single fee exceeds its total.
ASSUME PolicyAssumption ==
    \A p \in Policies : p \in Policy /\ p.maxFee <= p.maxTotalFee
ASSUME BoundAssumption == MaxNonce \in Nat /\ MaxBlock \in Nat /\ MaxTime \in Nat /\ MaxCalls \in Nat

Operations ==
    {op \in [source : Wallets, failed : Hashes, success : Hashes] : op.failed # op.success}
ASSUME NoneAssumption == None \notin Policies \cup TxHashes \cup Operations

\* A row's source wallet, failed hash and success hash are each UNIQUE.
SharesEvidence(a, b) ==
    a.source = b.source \/ a.failed = b.failed \/ a.success = b.success

States == {"absent", "admitted", "broadcast-prepared", "settled", "reverted", "stopped"}
ActiveStates == {"admitted", "broadcast-prepared"}
SignedStates == {"broadcast-prepared", "settled", "reverted"}
Fees == {p.maxFee : p \in Policies} \cup {p.maxTotalFee : p \in Policies}
Nonces == 0..MaxNonce
Times == 0..MaxTime
Reasons == {"prebroadcast-failed", "operator-abandoned"}

Row == [state : States, fee : Nat, hash : TxHashes \cup {None}, nonce : Int,
        receipt : {-1, 0, 1}, block : Nat, reason : Reasons \cup {"none"},
        created : Nat, updated : Nat]
NoNonce == -1
NoReceipt == -1
UnsignedRow(state, fee, time) ==
    [state |-> state, fee |-> fee, hash |-> None, nonce |-> NoNonce,
     receipt |-> NoReceipt, block |-> 0, reason |-> "none",
     created |-> time, updated |-> time]
AbsentRow == UnsignedRow("absent", 0, 0)

Call == [method : {"reserve"}, policy : Policies, op : Operations, fee : Nat]
        \cup [method : {"prepareBroadcast"}, policy : Policies, op : Operations,
              token : Operations, hash : TxHashes, nonce : Nat]
        \cup [method : {"failBeforeBroadcast"}, policy : Policies, op : Operations,
              token : Operations]

VARIABLES
    env,        \* the Worker's configured policy and enabled flag
    now,        \* Date.now() in seconds
    stored,     \* helper_policy.policy_json
    attempts, payouts, reservedFee, active,   \* the other helper_policy columns
    rows,       \* helper_operations
    calls,      \* requests between their two parts
    permits,    \* operations whose permit token reached the relayer
    granted     \* how often each operation was answered broadcastPermit: true

totals == <<stored, attempts, payouts, reservedFee, active>>
ledger == <<totals, rows>>
vars == <<env, now, ledger, calls, permits, granted>>

Recorded == {op \in Operations : rows[op].state # "absent"}
Active == {op \in Operations : rows[op].state \in ActiveStates}

TypeOK ==
    /\ env \in [policy : Policies, enabled : BOOLEAN]
    /\ now \in Nat
    /\ stored \in Policies \cup {None}
    /\ attempts \in Nat /\ payouts \in Nat /\ reservedFee \in Nat
    /\ active \in Operations \cup {None}
    /\ rows \in [Operations -> Row]
    /\ calls \subseteq Call
    /\ permits \subseteq Operations
    /\ granted \in [Operations -> Nat]

Init ==
    /\ env \in [policy : Policies, enabled : BOOLEAN]
    /\ now = 0
    /\ stored = None
    /\ attempts = 0 /\ payouts = 0 /\ reservedFee = 0
    /\ active = None
    /\ rows = [op \in Operations |-> AbsentRow]
    /\ calls = {}
    /\ permits = {}
    /\ granted = [op \in Operations |-> 0]

-----------------------------------------------------------------------------
(* The checks every transaction repeats *)

ColumnsConsistent(op, policy) ==
    LET row == rows[op] IN
    /\ row.fee = policy.maxFee
    /\ (row.state \in SignedStates) <=> (row.hash # None)
    /\ (row.state \in SignedStates) <=> (row.nonce >= 0)
    /\ row.receipt = IF row.state = "settled" THEN 1
                     ELSE IF row.state = "reverted" THEN 0 ELSE NoReceipt
    /\ (row.state \in {"settled", "reverted"}) <=> (row.block > 0)
    /\ (row.state = "stopped") <=> (row.reason # "none")

DatesOrdered(op) == rows[op].created <= rows[op].updated

\* Every row carries the policy's own fee, so the sum of the fees is a product.
TotalsConsistent(policy) ==
    /\ Active = IF active = None THEN {} ELSE {active}
    /\ attempts = Cardinality(Recorded)
    /\ payouts = Cardinality(Recorded)
    /\ reservedFee = Cardinality(Recorded) * policy.maxFee
    /\ attempts <= policy.maxAttempts
    /\ payouts <= policy.maxPayouts
    /\ reservedFee <= policy.maxTotalFee

RowsConsistent(policy) ==
    /\ \A op \in Recorded : ColumnsConsistent(op, policy) /\ DatesOrdered(op)
    /\ TotalsConsistent(policy)

CheckedState(policy) ==
    \/ stored = None /\ Recorded = {}
    \/ stored = policy /\ RowsConsistent(policy)

RequireEnabled(policy) == env.enabled /\ now < policy.expiresAt

RequirePermit(call) == rows[call.op].state # "absent" /\ call.token = call.op

-----------------------------------------------------------------------------
(* The environment *)

\* The clock advances, or is set to anything.
SetClock(time) == now' = time /\ UNCHANGED <<env, ledger, calls, permits, granted>>

\* The operator deploys another policy or flag; the storage survives.
Redeploy(policy, enabled) ==
    /\ env' = [policy |-> policy, enabled |-> enabled]
    /\ calls' = {}
    /\ UNCHANGED <<now, ledger, permits, granted>>

Receive(call) ==
    /\ Cardinality(calls) < MaxCalls
    /\ calls' = calls \cup {call}
    /\ UNCHANGED <<env, now, ledger, permits, granted>>

-----------------------------------------------------------------------------
(* reserve *)

ReserveArrives(op, fee) ==
    /\ RequireEnabled(env.policy)
    /\ fee = env.policy.maxFee
    /\ Receive([method |-> "reserve", policy |-> env.policy, op |-> op, fee |-> fee])

\* No row of this operation, its wallet or either of its hashes.
EvidenceUnused(op) ==
    \A other \in Recorded : other # op /\ ~SharesEvidence(op, other)

\* Bug: a second operation is admitted beside the active one.
AlwaysIdle == TRUE

Idle == active = None

WithinLimits(call) ==
    /\ attempts + 1 <= call.policy.maxAttempts
    /\ payouts + 1 <= call.policy.maxPayouts
    /\ reservedFee + call.fee <= call.policy.maxTotalFee

Reservable(call) ==
    /\ CheckedState(call.policy)
    /\ EvidenceUnused(call.op)
    /\ Idle
    /\ WithinLimits(call)

\* Bug: the flag and expiry are not read again after the await.
CanReserveUnchecked(call) == Reservable(call)

CanReserve(call) == RequireEnabled(call.policy) /\ Reservable(call)

\* The row, the totals and the active pointer change together.  The answer
\* that carries the permit may be lost; no later answer carries it again.
Reserve(call) ==
    /\ CanReserve(call)
    /\ rows' = [rows EXCEPT ![call.op] = UnsignedRow("admitted", call.fee, now)]
    /\ stored' = IF stored = None THEN call.policy ELSE stored
    /\ attempts' = attempts + 1
    /\ payouts' = payouts + 1
    /\ reservedFee' = reservedFee + call.fee
    /\ active' = call.op
    /\ permits' \in {permits, permits \cup {call.op}}
    /\ UNCHANGED granted

-----------------------------------------------------------------------------
(* prepareBroadcast *)

PrepareArrives(op, token, hash, nonce) ==
    /\ RequireEnabled(env.policy)
    /\ token \in permits
    /\ Receive([method |-> "prepareBroadcast", policy |-> env.policy, op |-> op,
                token |-> token, hash |-> hash, nonce |-> nonce])

NonceReserved(hash, nonce) ==
    \E op \in Recorded : rows[op].nonce >= nonce \/ rows[op].hash = hash

\* Bug: a prepared operation may be signed again at a higher nonce.
StillActive(op) == rows[op].state \in ActiveStates

NotYetPrepared(op) == rows[op].state = "admitted"

CanPrepare(call) ==
    /\ RequireEnabled(call.policy)
    /\ CheckedState(call.policy)
    /\ RequirePermit(call)
    /\ NotYetPrepared(call.op)
    /\ ~NonceReserved(call.hash, call.nonce)

\* The only step that answers broadcastPermit: true.  The replay of a
\* recorded hash and nonce is answered false and changes nothing.
Prepare(call) ==
    /\ CanPrepare(call)
    /\ rows' = [rows EXCEPT ![call.op].state = "broadcast-prepared",
                            ![call.op].hash = call.hash, ![call.op].nonce = call.nonce,
                            ![call.op].updated = now]
    /\ granted' = [granted EXCEPT ![call.op] = @ + 1]
    /\ UNCHANGED <<totals, permits>>

-----------------------------------------------------------------------------
(* failBeforeBroadcast and abandonBeforeBroadcast *)

RowStopped(op, reason) ==
    /\ rows[op].state = "admitted"
    /\ rows' = [rows EXCEPT ![op].state = "stopped", ![op].reason = reason,
                            ![op].updated = now]

\* Bug: a stopped operation gives its payout back.
ReleasePayout == active' = None /\ payouts' = payouts - 1 /\ UNCHANGED <<attempts, reservedFee>>

\* A stop frees the active slot; attempts, payouts and the fee stay spent.
Release == active' = None /\ UNCHANGED <<attempts, payouts, reservedFee>>

StopAdmitted(op, reason) ==
    /\ RowStopped(op, reason)
    /\ Release
    /\ UNCHANGED <<stored, permits, granted>>

\* Stopping needs neither the flag nor an unexpired policy.
FailArrives(op, token) ==
    /\ token \in permits
    /\ Receive([method |-> "failBeforeBroadcast", policy |-> env.policy, op |-> op, token |-> token])

CanFail(call) ==
    /\ CheckedState(call.policy)
    /\ RequirePermit(call)
    /\ rows[call.op].state = "admitted"

FailBeforeBroadcast(call) ==
    /\ CanFail(call)
    /\ StopAdmitted(call.op, "prebroadcast-failed")

\* Operator only, one synchronous transaction and no permit.
AbandonBeforeBroadcast(op) ==
    /\ CheckedState(env.policy)
    /\ StopAdmitted(op, "operator-abandoned")
    /\ UNCHANGED <<env, now, calls>>

-----------------------------------------------------------------------------
(* complete *)

\* Synchronous; the caller vouches for the receipt.
Complete(op, hash, status, block) ==
    /\ CheckedState(env.policy)
    /\ rows[op].state = "broadcast-prepared"
    /\ rows[op].hash = hash
    /\ rows' = [rows EXCEPT ![op].state = IF status = 1 THEN "settled" ELSE "reverted",
                            ![op].receipt = status, ![op].block = block, ![op].updated = now]
    /\ active' = None
    /\ UNCHANGED <<env, now, stored, attempts, payouts, reservedFee, calls, permits, granted>>

-----------------------------------------------------------------------------
(* The transaction a pending call ends with: it commits or throws *)

Commits(call) ==
    \/ call.method = "reserve" /\ Reserve(call)
    \/ call.method = "prepareBroadcast" /\ Prepare(call)
    \/ call.method = "failBeforeBroadcast" /\ FailBeforeBroadcast(call)

\* A replay or an error answer: nothing is written.
Throws(call) ==
    /\ CASE call.method = "reserve" -> ~CanReserve(call)
         [] call.method = "prepareBroadcast" -> ~CanPrepare(call)
         [] call.method = "failBeforeBroadcast" -> ~CanFail(call)
    /\ UNCHANGED <<ledger, permits, granted>>

Transact(call) ==
    /\ Commits(call) \/ Throws(call)
    /\ calls' = calls \ {call}
    /\ UNCHANGED <<env, now>>

Next ==
    \/ \E time \in Times : SetClock(time)
    \/ \E policy \in Policies, enabled \in BOOLEAN : Redeploy(policy, enabled)
    \/ \E op \in Operations, fee \in Fees : ReserveArrives(op, fee)
    \/ \E op, token \in Operations, hash \in TxHashes, nonce \in Nonces :
          PrepareArrives(op, token, hash, nonce)
    \/ \E op, token \in Operations : FailArrives(op, token)
    \/ \E call \in calls : Transact(call)
    \/ \E op \in Operations : AbandonBeforeBroadcast(op)
    \/ \E op \in Operations, hash \in TxHashes, status \in {0, 1}, block \in 1..MaxBlock :
          Complete(op, hash, status, block)

Spec == Init /\ [][Next]_vars

-----------------------------------------------------------------------------
(* Properties *)

\* checkedState accepts what the ledger has stored, under the stored policy.
Accepted == IF stored = None THEN Recorded = {} ELSE RowsConsistent(stored)

\* The ledger makes itself unreadable in one way only: a row whose last write
\* fell on a clock set back before its creation.  As long as there is no such
\* row, checkedState accepts what any history of the writes has left: totals,
\* active pointer, columns and stored policy agree.
Readable == (\A op \in Recorded : DatesOrdered(op)) => Accepted

\* A clock that is never set back.
ClockSteady == [][now' >= now]_vars

\* A wallet, a failed hash and a success hash each pay for one operation ever,
\* whatever happened to it (UNIQUE columns and SOURCE_RESERVED).
EvidenceReservedOnce ==
    \A a, b \in Recorded : a # b => ~SharesEvidence(a, b)

\* An operation is answered broadcastPermit: true at most once, and exactly when
\* it was prepared: a stopped operation was never given the permission, however
\* the stop raced the preparation.
PermissionOnce ==
    \A op \in Operations : granted[op] = IF rows[op].state \in SignedStates THEN 1 ELSE 0

\* Without the permit token, drawn once and possibly lost with its answer, an
\* operation can only be stopped by the operator.
PermitRequired ==
    \A op \in Recorded : op \notin permits =>
        \/ rows[op].state = "admitted"
        \/ rows[op].state = "stopped" /\ rows[op].reason = "operator-abandoned"

\* Nonces and hashes of prepared transactions are never reused.
NoncesDistinct ==
    \A a, b \in Recorded : a # b /\ rows[a].state \in SignedStates /\ rows[b].state \in SignedStates =>
        rows[a].nonce # rows[b].nonce /\ rows[a].hash # rows[b].hash

\* Spending is never refilled: no stop, revert, redeployment or expiry lowers a
\* total, forgets a row, or moves a finished operation.
Refillless ==
    /\ attempts' >= attempts /\ payouts' >= payouts /\ reservedFee' >= reservedFee
    /\ \A op \in Recorded :
          /\ rows'[op].state # "absent"
          /\ rows[op].state \in {"settled", "reverted", "stopped"} => rows'[op] = rows[op]
NeverRefilled == [][Refillless]_vars

\* The first reservation fixes the policy for good: under a changed configuration
\* every write is refused, even a stop or a completion; it never resets spending.
PolicyBinds ==
    ledger' # ledger => stored' = env.policy /\ stored \in {None, stored'}
PolicyFixed == [][PolicyBinds]_vars

\* Nothing is reserved or prepared once the policy has expired or the flag is
\* off, although both are read before the await as well as after it.
SpendingOpen ==
    (attempts' # attempts \/ granted' # granted) =>
        stored' # None /\ env.enabled /\ now < stored'.expiresAt
NoSpendingWhenClosed == [][SpendingOpen]_vars

\* The ledger keeps the promise of the spending envelope.
LimitOf(policy) ==
    LET fits == policy.maxTotalFee \div policy.maxFee
        least(a, b) == IF a <= b THEN a ELSE b
    IN  least(least(policy.maxAttempts, policy.maxPayouts), fits)

PhaseOf(state) ==
    CASE state = "absent" -> "free"
      [] state = "admitted" -> "held"
      [] state = "broadcast-prepared" -> "permitted"
      [] OTHER -> "closed"

Conflicting == {pair \in Operations \X Operations : SharesEvidence(pair[1], pair[2])}
Limit == IF stored = None THEN None ELSE LimitOf(stored)
Phase == [op \in Operations |-> PhaseOf(rows[op].state)]

Envelope == INSTANCE SpendingEnvelope WITH
    Conflicts <- Conflicting, NoLimit <- None,
    limit <- Limit, spent <- attempts, phase <- Phase, permissions <- granted

ImplementsEnvelope == Envelope!Spec
=============================================================================
