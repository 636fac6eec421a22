--------------------------- MODULE HelperRelease ---------------------------
(***************************************************************************)
(* One release of a recovery credit by the hosted relayer:                 *)
(* src/recovery-campaign-service.mjs between the durable ledger            *)
(* (src/helper-ledger-client.mjs) and the campaign contract.               *)
(*                                                                         *)
(* A request checks the pair and asks the ledger to reserve it; the one    *)
(* request told "created" starts a task, which reads eligibility again,    *)
(* simulates, signs, records the signed hash in the ledger, broadcasts it  *)
(* and reports the receipt.  Calls to the ledger may be lost, delayed      *)
(* beyond the client's timeout or answered into the void; the process may  *)
(* crash at any await and never resumes a task; anyone may release the     *)
(* same pair on the chain.                                                 *)
(*                                                                         *)
(* The ledger is taken at the level of SpendingEnvelope, which             *)
(* SpendingLedger implements: a call takes effect in one step.  An         *)
(* operation is a pair of transactions, named with its source wallet.  Its *)
(* signed transaction is named by the operation: a permit is answered      *)
(* once, so an operation signs once.                                       *)
(***************************************************************************)
EXTENDS Integers, FiniteSets

CONSTANTS
    Operations, Wallets, SourceOf,   \* transaction pairs and their source wallets
    Requests,                        \* HTTP requests; each is made once
    Limit,                           \* operations the ledger may ever reserve
    QueueLimit,                      \* config.releaseQueueLimit
    Nobody, Elsewhere                \* not credited; credited by another sender

ASSUME SourceAssumption == SourceOf \in [Operations -> Wallets]
ASSUME LimitAssumption == Limit \in Nat \ {0} /\ QueueLimit \in Nat \ {0}
ASSUME CreditAssumption == Nobody # Elsewhere /\ {Nobody, Elsewhere} \cap Operations = {}

RowStates == {"absent", "admitted", "broadcast-prepared", "settled", "reverted", "stopped"}
ActiveStates == {"admitted", "broadcast-prepared"}
SignedStates == {"broadcast-prepared", "settled", "reverted"}
Stages == {"new", "checked", "waiting", "reserving", "done"}
Running == {"started", "eligible", "simulated", "preparing", "permitted", "waiting",
            "rechecking", "confirmed", "stopping"}
TaskStates == Running \cup {"none", "queued", "finished"}

ReserveCall(r, op) == [method |-> "reserve", request |-> r, op |-> op]
PrepareCall(op) == [method |-> "prepareBroadcast", op |-> op]
FailCall(op) == [method |-> "failBeforeBroadcast", op |-> op]
CompleteCall(op, status) == [method |-> "complete", op |-> op, status |-> status]
Call == [method : {"reserve"}, request : Requests, op : Operations]
        \cup [method : {"prepareBroadcast", "failBeforeBroadcast"}, op : Operations]
        \cup [method : {"complete"}, op : Operations, status : {0, 1}]

VARIABLES
    open,         \* the ledger is enabled and its policy has not expired
    row,          \* state of each operation in the ledger
    spent,        \* operations ever reserved
    permissions,  \* broadcast permissions the ledger gave each operation
    wire,         \* ledger calls sent and not handled
    stage,        \* progress of each HTTP request
    asks,         \* the operation and the mode of each request
    task,         \* progress of each operation's detached task
    tx,           \* the operation's signed transaction on the chain
    sends,        \* how often it was handed to the network
    credited,     \* by whose transaction each wallet was credited
    campaignOpen  \* the contract still releases

ledger == <<open, row, spent, permissions>>
chain == <<tx, sends, credited, campaignOpen>>
handlers == <<stage, asks>>
vars == <<ledger, wire, handlers, task, chain>>

TypeOK ==
    /\ open \in BOOLEAN
    /\ row \in [Operations -> RowStates]
    /\ spent \in Nat
    /\ permissions \in [Operations -> Nat]
    /\ wire \subseteq Call
    /\ stage \in [Requests -> Stages]
    /\ asks \in [Requests -> [op : Operations, mode : {"owner", "helper"}]]
    /\ task \in [Operations -> TaskStates]
    /\ tx \in [Operations -> {"unsent", "sent", "succeeded", "failed"}]
    /\ sends \in [Operations -> Nat]
    /\ credited \in [Wallets -> Operations \cup {Nobody, Elsewhere}]
    /\ campaignOpen \in BOOLEAN

Init ==
    /\ open = TRUE
    /\ row = [op \in Operations |-> "absent"]
    /\ spent = 0
    /\ permissions = [op \in Operations |-> 0]
    /\ wire = {}
    /\ stage = [r \in Requests |-> "new"]
    /\ asks \in [Requests -> [op : Operations, mode : {"owner", "helper"}]]
    /\ task = [op \in Operations |-> "none"]
    /\ tx = [op \in Operations |-> "unsent"]
    /\ sends = [op \in Operations |-> 0]
    /\ credited = [w \in Wallets |-> Nobody]
    /\ campaignOpen = TRUE

CreditedBy(op) == credited[SourceOf[op]]

\* What a fresh eligibility read tells.
Eligible(op) == campaignOpen /\ CreditedBy(op) = Nobody

To(op, state) == task' = [task EXCEPT ![op] = state]
Send(call) == wire' = wire \cup {call}

-----------------------------------------------------------------------------
(* The release queue: one operation at a time, a bounded number waiting *)

Owners(stages) == {r \in Requests : asks[r].mode = "owner" /\ stage[r] \in stages}
Tasks(states) == {op \in Operations : task[op] \in states}

QueueIdle == Tasks(Running) = {} /\ Owners({"reserving"}) = {}
QueueFull ==
    Cardinality(Owners({"waiting", "reserving"})) + Cardinality(Tasks(Running \cup {"queued"}))
        >= QueueLimit

-----------------------------------------------------------------------------
(* HTTP requests *)

\* helperRelease with a verified signature and a fresh eligible pair.
HelperRelease(r) ==
    /\ stage[r] = "new" /\ asks[r].mode = "helper"
    /\ Eligible(asks[r].op)
    /\ stage' = [stage EXCEPT ![r] = "checked"]
    /\ UNCHANGED <<ledger, wire, asks, task, chain>>

\* An operation already in the ledger is only reported.
ReadOperation(r) ==
    LET op == asks[r].op IN
    /\ stage[r] = "checked"
    /\ \/ row[op] # "absent" /\ stage' = [stage EXCEPT ![r] = "done"] /\ UNCHANGED wire
       \/ row[op] = "absent" /\ stage' = [stage EXCEPT ![r] = "reserving"] /\ Send(ReserveCall(r, op))
    /\ UNCHANGED <<ledger, asks, task, chain>>

\* release and intakeRelease: one flight per pair, and its place in the queue
\* is taken before the reservation.
OwnerRelease(r) ==
    LET op == asks[r].op IN
    /\ stage[r] = "new" /\ asks[r].mode = "owner"
    /\ \A other \in Owners({"waiting", "reserving"}) : asks[other].op # op
    /\ Eligible(op)
    /\ stage' = [stage EXCEPT ![r] = IF QueueFull THEN "done" ELSE "waiting"]
    /\ UNCHANGED <<ledger, wire, asks, task, chain>>

OwnerReserve(r) ==
    /\ stage[r] = "waiting"
    /\ QueueIdle
    /\ stage' = [stage EXCEPT ![r] = "reserving"]
    /\ Send(ReserveCall(r, asks[r].op))
    /\ UNCHANGED <<ledger, asks, task, chain>>

\* The client gives up after timeoutMs; the call may still arrive.
ReserveTimeout(r) ==
    /\ stage[r] = "reserving"
    /\ stage' = [stage EXCEPT ![r] = "done"]
    /\ UNCHANGED <<ledger, wire, asks, task, chain>>

-----------------------------------------------------------------------------
(* The ledger handles a call and its answer arrives or is lost *)

Conflicts == {pair \in Operations \X Operations : SourceOf[pair[1]] = SourceOf[pair[2]]}
Active == {op \in Operations : row[op] \in ActiveStates}
Recorded == {op \in Operations : row[op] # "absent"}

CanReserve(op) ==
    /\ open
    /\ Active = {}
    /\ \A other \in Recorded : <<op, other>> \notin Conflicts
    /\ row[op] = "absent"
    /\ spent < Limit

\* The request told "created" starts the task, at once when it already holds
\* the queue; a helper's task that finds the queue full ends unsigned.
TaskFor(r) ==
    IF asks[r].mode = "owner" THEN "started" ELSE IF QueueFull THEN "stopping" ELSE "queued"

LedgerReserves(call) ==
    /\ call.method = "reserve"
    /\ IF CanReserve(call.op)
       THEN /\ row' = [row EXCEPT ![call.op] = "admitted"]
            /\ spent' = spent + 1
            /\ \/ UNCHANGED <<stage, task>>
               \/ /\ stage[call.request] = "reserving"
                  /\ stage' = [stage EXCEPT ![call.request] = "done"]
                  /\ To(call.op, TaskFor(call.request))
       ELSE /\ stage' = [stage EXCEPT ![call.request] = "done"]
            /\ UNCHANGED <<row, spent, task>>
    /\ UNCHANGED permissions

CanPrepare(op) == open /\ row[op] = "admitted"

\* The call has not timed out and its process is still there.
AwaitsPermit(op) == task[op] = "preparing"

\* A refusal, like every failure after the hash is known, sends no
\* failBeforeBroadcast: the task only looks at the chain once more.
LedgerPrepares(call) ==
    /\ call.method = "prepareBroadcast"
    /\ IF CanPrepare(call.op)
       THEN /\ row' = [row EXCEPT ![call.op] = "broadcast-prepared"]
            /\ permissions' = [permissions EXCEPT ![call.op] = @ + 1]
            /\ \/ UNCHANGED task
               \/ AwaitsPermit(call.op) /\ To(call.op, "permitted")
       ELSE /\ UNCHANGED <<row, permissions>>
            /\ \/ UNCHANGED task
               \/ AwaitsPermit(call.op) /\ To(call.op, "rechecking")
    /\ UNCHANGED <<spent, stage>>

\* Bug: an operation with a recorded hash may be stopped.
CanStopPrepared(op) == row[op] \in ActiveStates

CanStop(op) == row[op] = "admitted"

LedgerFails(call) ==
    /\ call.method = "failBeforeBroadcast"
    /\ row' = IF CanStop(call.op) THEN [row EXCEPT ![call.op] = "stopped"] ELSE row
    /\ UNCHANGED <<spent, permissions, stage, task>>

LedgerCompletes(call) ==
    /\ call.method = "complete"
    /\ row' = IF row[call.op] = "broadcast-prepared"
              THEN [row EXCEPT ![call.op] = IF call.status = 1 THEN "settled" ELSE "reverted"]
              ELSE row
    /\ UNCHANGED <<spent, permissions, stage, task>>

Handle(call) ==
    /\ LedgerReserves(call) \/ LedgerPrepares(call) \/ LedgerFails(call) \/ LedgerCompletes(call)
    /\ wire' = wire \ {call}
    /\ UNCHANGED <<open, asks, chain>>

Lose(call) ==
    /\ wire' = wire \ {call}
    /\ UNCHANGED <<ledger, handlers, task, chain>>

\* Without the permit token: abandonBeforeBroadcast, by the operator.
Abandon(op) ==
    /\ CanStop(op)
    /\ row' = [row EXCEPT ![op] = "stopped"]
    /\ UNCHANGED <<open, spent, permissions, wire, handlers, task, chain>>

SetOpen(value) ==
    /\ open' = value
    /\ UNCHANGED <<row, spent, permissions, wire, handlers, task, chain>>

-----------------------------------------------------------------------------
(* The task *)

Start(op) ==
    /\ task[op] = "queued"
    /\ QueueIdle
    /\ To(op, "started")
    /\ UNCHANGED <<ledger, wire, handlers, chain>>

ReadEligibility(op) ==
    /\ task[op] = "started"
    /\ To(op, IF Eligible(op) THEN "eligible" ELSE "stopping")
    /\ UNCHANGED <<ledger, wire, handlers, chain>>

\* The proof, the replay checks and the static call of the contract.
Simulate(op) ==
    /\ task[op] = "eligible"
    /\ To(op, IF Eligible(op) THEN "simulated" ELSE "stopping")
    /\ UNCHANGED <<ledger, wire, handlers, chain>>

\* No proof, a closed gate, no safe fee: anything that fails before signing.
GiveUp(op) ==
    /\ task[op] \in {"started", "eligible", "simulated"}
    /\ To(op, "stopping")
    /\ UNCHANGED <<ledger, wire, handlers, chain>>

\* The relayer's latest and pending nonces must agree.
NonceFree == \A op \in Operations : tx[op] # "sent"

Sign(op) ==
    /\ task[op] = "simulated"
    /\ NonceFree
    /\ To(op, "preparing")
    /\ Send(PrepareCall(op))
    /\ UNCHANGED <<ledger, handlers, chain>>

\* The outcome of prepareBroadcast is unknown, or the gate closed after it.
NotSent(op) ==
    /\ task[op] \in {"preparing", "permitted"}
    /\ To(op, "rechecking")
    /\ UNCHANGED <<ledger, wire, handlers, chain>>

\* The network may take a transaction and its answer be lost.
Sent(op) == To(op, "waiting") \/ To(op, "rechecking")

Broadcast(op) ==
    /\ task[op] = "permitted"
    /\ tx' = [tx EXCEPT ![op] = "sent"]
    /\ sends' = [sends EXCEPT ![op] = @ + 1]
    /\ Sent(op)
    /\ UNCHANGED <<ledger, wire, handlers, credited, campaignOpen>>

\* A receipt of status 1 is checked against balances and flags, which other
\* transactions may have moved; then the receipt is left to the polls.
Receipt(op) ==
    /\ task[op] = "waiting"
    /\ tx[op] = "succeeded"
    /\ To(op, "confirmed") \/ To(op, "finished")
    /\ UNCHANGED <<ledger, wire, handlers, chain>>

\* wait() threw: a failed receipt, or no answer.
WaitFails(op) ==
    /\ task[op] = "waiting"
    /\ To(op, "rechecking")
    /\ UNCHANGED <<ledger, wire, handlers, chain>>

\* Bug: a claim by another transaction counts as this one's.
AnyRelease(op) == CreditedBy(op) # Nobody

\* A claim counts only when its transaction is the one signed here.
OwnRelease(op) == CreditedBy(op) = op

Recheck(op) ==
    /\ task[op] = "rechecking"
    /\ To(op, IF OwnRelease(op) THEN "confirmed" ELSE "finished")
    /\ UNCHANGED <<ledger, wire, handlers, chain>>

ReportComplete(op) ==
    /\ task[op] = "confirmed"
    /\ To(op, "finished")
    /\ Send(CompleteCall(op, 1))
    /\ UNCHANGED <<ledger, handlers, chain>>

\* The call after a changed eligibility is made once more when it fails.
ReportFailure(op) ==
    /\ task[op] = "stopping"
    /\ To(op, "stopping") \/ To(op, "finished")
    /\ Send(FailCall(op))
    /\ UNCHANGED <<ledger, handlers, chain>>

\* Bug: a failed receipt is ignored like a missing one.
SuccessOnly(op, status) == status = 1 /\ tx[op] = "succeeded" /\ OwnRelease(op)

ReceiptStatus(op, status) ==
    \/ status = 1 /\ tx[op] = "succeeded" /\ OwnRelease(op)
    \/ status = 0 /\ tx[op] = "failed"

\* helperOperation: a poll reports the receipt of a prepared transaction.
Poll(op) ==
    /\ row[op] = "broadcast-prepared"
    /\ \E status \in {0, 1} : ReceiptStatus(op, status) /\ Send(CompleteCall(op, status))
    /\ UNCHANGED <<ledger, handlers, task, chain>>

\* Nothing in memory survives; a restart resumes nothing.
Crash ==
    /\ stage' = [r \in Requests |-> IF stage[r] = "new" THEN "new" ELSE "done"]
    /\ task' = [op \in Operations |-> IF task[op] = "none" THEN "none" ELSE "finished"]
    /\ UNCHANGED <<ledger, wire, asks, chain>>

-----------------------------------------------------------------------------
(* The chain *)

Mine(op) ==
    /\ tx[op] = "sent"
    /\ IF Eligible(op)
       THEN /\ tx' = [tx EXCEPT ![op] = "succeeded"]
            /\ credited' = [credited EXCEPT ![SourceOf[op]] = op]
       ELSE tx' = [tx EXCEPT ![op] = "failed"] /\ UNCHANGED credited
    /\ UNCHANGED <<ledger, wire, handlers, task, sends, campaignOpen>>

ReleasedElsewhere(op) ==
    /\ Eligible(op)
    /\ credited' = [credited EXCEPT ![SourceOf[op]] = Elsewhere]
    /\ UNCHANGED <<ledger, wire, handlers, task, tx, sends, campaignOpen>>

CampaignCloses ==
    /\ campaignOpen' = FALSE
    /\ UNCHANGED <<ledger, wire, handlers, task, tx, sends, credited>>

-----------------------------------------------------------------------------
RequestStep(r) ==
    HelperRelease(r) \/ ReadOperation(r) \/ OwnerRelease(r) \/ OwnerReserve(r) \/ ReserveTimeout(r)

TaskStep(op) ==
    \/ Start(op) \/ ReadEligibility(op) \/ Simulate(op) \/ GiveUp(op) \/ Sign(op)
    \/ NotSent(op) \/ Broadcast(op) \/ Receipt(op) \/ WaitFails(op) \/ Recheck(op)
    \/ ReportComplete(op) \/ ReportFailure(op)

Next ==
    \/ \E r \in Requests : RequestStep(r)
    \/ \E call \in wire : Handle(call) \/ Lose(call)
    \/ \E op \in Operations : TaskStep(op) \/ Poll(op) \/ Abandon(op)
    \/ \E op \in Operations : Mine(op) \/ ReleasedElsewhere(op)
    \/ \E value \in BOOLEAN : SetOpen(value)
    \/ Crash
    \/ CampaignCloses

\* The chain mines what it was given, someone keeps asking for the operation,
\* and a call asked again and again is answered once.
HandleComplete(op) ==
    \E status \in {0, 1} : CompleteCall(op, status) \in wire /\ Handle(CompleteCall(op, status))

Fairness ==
    \A op \in Operations :
        WF_vars(Mine(op)) /\ WF_vars(Poll(op)) /\ SF_vars(HandleComplete(op))

Spec == Init /\ [][Next]_vars
FairSpec == Spec /\ Fairness

-----------------------------------------------------------------------------
(* Properties *)

\* A transaction reaches the network at most once, and only when the ledger
\* holds its hash for good: whatever was lost, delayed, abandoned or crashed,
\* a stopped operation was never sent (prepareBroadcast before broadcast).
SentOnRecord ==
    \A op \in Operations : sends[op] <= 1 /\ (sends[op] = 1 => row[op] \in SignedStates)

\* "settled" is this operation's own successful release and "reverted" its own
\* failed transaction, also when somebody else released the pair first
\* (runReservedRelease compares the hashes, helperOperation reads the receipt).
FinalIsTrue ==
    \A op \in Operations :
        /\ row[op] = "settled" => CreditedBy(op) = op
        /\ row[op] = "reverted" => tx[op] = "failed"

\* A call applied after its client gave up changes nothing that was decided:
\* an operation whose task is over is not signed again.
TasksEnd == [][\A op \in Operations : task[op] = "finished" => task'[op] = "finished"]_vars

\* A transaction that was sent is resolved, through crashes and lost calls, as
\* long as somebody polls its operation.
SentIsResolved ==
    \A op \in Operations : sends[op] = 1 ~> row[op] \in {"settled", "reverted"}

\* Seen through the ledger rows the releases spend the envelope and no more.
Phase ==
    [op \in Operations |->
        IF row[op] = "absent" THEN "free"
        ELSE IF row[op] = "admitted" THEN "held"
        ELSE IF row[op] = "broadcast-prepared" THEN "permitted" ELSE "closed"]
NoLimit == -1
Envelope == INSTANCE SpendingEnvelope WITH
    limit <- IF spent = 0 THEN NoLimit ELSE Limit, phase <- Phase

ImplementsEnvelope == Envelope!Spec
=============================================================================
