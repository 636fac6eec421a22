--------------------- MODULE HelperRelease_proofs ---------------------
(***************************************************************************)
(* The hosted release and the pair lookups of the same service, which      *)
(* share no state here.                                                    *)
(*                                                                         *)
(* The release, for every set of operations, wallets and requests, every   *)
(* limit and every queue length: what was sent is told by where the task   *)
(* is, a task by its reservation, and every report on its way is true.     *)
(*                                                                         *)
(* The lookups, for every set of pairs and callers and every size of pool  *)
(* and cache: a pair's flight is its one unsettled lookup, and a slot      *)
(* passes from a lookup that ended to the head of the queue (LookupInv).   *)
(***************************************************************************)
EXTENDS HelperRelease, PairLookup, FiniteSetTheorems, TLAPS

\* What makes the invariants inductive: no task without a reservation, nothing
\* sent before the permit, and every report of a receipt on its way is true.
Unsent == {"none", "queued", "started", "eligible", "simulated", "preparing", "permitted", "stopping"}
SentByTask == \A op \in Operations :
    /\ task[op] \in Unsent => sends[op] = 0
    /\ tx[op] = "unsent" <=> sends[op] = 0
ReservedFirst == \A op \in Operations :
    /\ row[op] = "absent" => task[op] = "none"
    /\ task[op] = "permitted" => row[op] \in SignedStates
PaidOwn == \A op \in Operations :
    /\ OwnRelease(op) <=> tx[op] = "succeeded"
    /\ task[op] = "confirmed" => OwnRelease(op)
ReportsTrue == \A call \in wire : call.method = "complete" =>
    /\ call.status = 1 => OwnRelease(call.op)
    /\ call.status = 0 => tx[call.op] = "failed"

IInv ==
    /\ TypeOK
    /\ SentByTask
    /\ ReservedFirst
    /\ PaidOwn
    /\ ReportsTrue
    /\ SentOnRecord
    /\ FinalIsTrue

LEMMA CallTypes ==
    /\ \A r \in Requests, op \in Operations : ReserveCall(r, op) \in Call /\ ReserveCall(r, op).method = "reserve"
    /\ \A op \in Operations :
          /\ PrepareCall(op) \in Call /\ PrepareCall(op).method = "prepareBroadcast"
          /\ FailCall(op) \in Call /\ FailCall(op).method = "failBeforeBroadcast"
    /\ \A op \in Operations, status \in {0, 1} :
          /\ CompleteCall(op, status) \in Call
          /\ CompleteCall(op, status).status = status
          /\ CompleteCall(op, status).op = op
BY DEF ReserveCall, PrepareCall, FailCall, CompleteCall, Call

LEMMA InitIInv == Init => IInv
BY SourceAssumption, CreditAssumption
   DEF Init, IInv, TypeOK, SentByTask, ReservedFirst, PaidOwn, ReportsTrue, SentOnRecord, FinalIsTrue,
       OwnRelease, CreditedBy, RowStates, Stages, TaskStates, Unsent, SignedStates

-----------------------------------------------------------------------------
(* Steps that touch neither the rows nor the chain *)

\* A task moves within what it has sent, and calls on the wire stay true.
LEMMA TaskMoves ==
    ASSUME IInv, UNCHANGED <<row, spent, permissions, chain>>,
           open' \in BOOLEAN, handlers' \in [Requests -> Stages] \X [Requests -> [op : Operations, mode : {"owner", "helper"}]],
           task' \in [Operations -> TaskStates], wire' \subseteq Call,
           \A op \in Operations : task'[op] # task[op] =>
              /\ row[op] # "absent"
              /\ task'[op] \in Unsent => task[op] \in Unsent
              /\ task'[op] = "permitted" => row[op] \in SignedStates
              /\ task'[op] = "confirmed" => OwnRelease(op),
           \A call \in wire' \ wire : call.method = "complete" =>
              /\ call.status = 1 => OwnRelease(call.op)
              /\ call.status = 0 => tx[call.op] = "failed"
    PROVE  IInv'
<1>1. UNCHANGED <<tx, sends, credited, campaignOpen>>
  BY DEF chain
<1>2. stage' \in [Requests -> Stages] /\ asks' \in [Requests -> [op : Operations, mode : {"owner", "helper"}]]
  BY DEF handlers
<1>3. TypeOK'
  BY <1>1, <1>2 DEF IInv, TypeOK
<1>4. \A op \in Operations : OwnRelease(op)' = OwnRelease(op)
  BY <1>1 DEF OwnRelease, CreditedBy
<1>5. SentByTask' /\ ReservedFirst'
  BY <1>1 DEF IInv, SentByTask, ReservedFirst, Unsent
<1>6. PaidOwn'
  BY <1>1, <1>4 DEF IInv, PaidOwn
<1>7. ReportsTrue'
  BY <1>1, <1>3 DEF IInv, ReportsTrue, OwnRelease, CreditedBy
<1>8. SentOnRecord' /\ FinalIsTrue'
  BY <1>1 DEF IInv, SentOnRecord, FinalIsTrue, CreditedBy
<1> QED
  BY <1>3, <1>5, <1>6, <1>7, <1>8 DEF IInv

LEMMA RequestSteps ==
    ASSUME IInv, NEW r \in Requests, RequestStep(r) PROVE IInv'
<1>1. /\ UNCHANGED <<row, spent, permissions, chain, open, task, asks>>
      /\ stage' \in [Requests -> Stages]
  BY DEF RequestStep, HelperRelease, ReadOperation, OwnerRelease, OwnerReserve, ReserveTimeout,
         ledger, chain, IInv, TypeOK, Stages
<1>2. asks[r].op \in Operations
  BY DEF IInv, TypeOK
<1>3. wire' \subseteq Call /\ \A call \in wire' \ wire : call.method = "reserve"
  BY <1>2, CallTypes
     DEF RequestStep, HelperRelease, ReadOperation, OwnerRelease, OwnerReserve, ReserveTimeout,
         Send, IInv, TypeOK
<1> QED
  BY <1>1, <1>3, TaskMoves DEF handlers, IInv, TypeOK

LEMMA TaskSteps ==
    ASSUME IInv, NEW op \in Operations, TaskStep(op), ~Broadcast(op) PROVE IInv'
<1>1. /\ UNCHANGED <<row, spent, permissions, chain, open, handlers>>
      /\ task' \in [Operations -> TaskStates]
  BY DEF TaskStep, Start, ReadEligibility, Simulate, GiveUp, Sign, NotSent, Receipt, WaitFails,
         Recheck, ReportComplete, ReportFailure, To, ledger, IInv, TypeOK, TaskStates, Running
<1>2. /\ wire' \subseteq Call
      /\ \A call \in wire' \ wire : call.method = "complete" => OwnRelease(call.op) /\ call.status = 1
  BY CallTypes
     DEF TaskStep, Start, ReadEligibility, Simulate, GiveUp, Sign, NotSent, Receipt, WaitFails,
         Recheck, ReportComplete, ReportFailure, Send, IInv, TypeOK, PaidOwn
<1>3. \A other \in Operations : other # op => task'[other] = task[other]
  BY DEF TaskStep, Start, ReadEligibility, Simulate, GiveUp, Sign, NotSent, Receipt, WaitFails,
         Recheck, ReportComplete, ReportFailure, To, IInv, TypeOK
<1>4. /\ row[op] # "absent"
      /\ task'[op] \in Unsent => task[op] \in Unsent
      /\ task'[op] # "permitted"
      /\ task'[op] = "confirmed" => OwnRelease(op)
  BY DEF TaskStep, Start, ReadEligibility, Simulate, GiveUp, Sign, NotSent, Receipt, WaitFails,
         Recheck, ReportComplete, ReportFailure, To, IInv, TypeOK, Unsent, ReservedFirst, PaidOwn
<1>5. handlers' \in [Requests -> Stages] \X [Requests -> [op : Operations, mode : {"owner", "helper"}]]
  BY <1>1 DEF handlers, IInv, TypeOK
<1>6. open' \in BOOLEAN
  BY <1>1 DEF IInv, TypeOK
<1> QED
  BY <1>1, <1>2, <1>3, <1>4, <1>5, <1>6, TaskMoves

\* The one step that hands a transaction to the network.
LEMMA BroadcastStep ==
    ASSUME IInv, NEW op \in Operations, Broadcast(op) PROVE IInv'
<1>1. /\ UNCHANGED <<open, row, spent, permissions, wire, stage, asks, credited, campaignOpen>>
      /\ sends[op] = 0 /\ sends'[op] = 1 /\ tx'[op] = "sent" /\ tx[op] = "unsent"
      /\ row[op] \in SignedStates
      /\ task'[op] \in {"waiting", "rechecking"}
      /\ \A other \in Operations : other # op =>
            sends'[other] = sends[other] /\ tx'[other] = tx[other] /\ task'[other] = task[other]
  BY DEF Broadcast, Sent, To, ledger, handlers, IInv, TypeOK, SentByTask, ReservedFirst, Unsent
<1>2. TypeOK'
  BY <1>1 DEF Broadcast, Sent, To, IInv, TypeOK, TaskStates, Running
<1>3. \A other \in Operations : OwnRelease(other)' = OwnRelease(other)
  BY <1>1 DEF OwnRelease, CreditedBy
<1>4. SentByTask' /\ ReservedFirst'
  BY <1>1 DEF IInv, SentByTask, ReservedFirst, Unsent, SignedStates
<1>5. PaidOwn'
  BY <1>1, <1>3 DEF IInv, PaidOwn
<1>6. ReportsTrue'
  <2>1. \A call \in wire : call.method = "complete" => call.op \in Operations
    BY DEF IInv, TypeOK, Call
  <2> QED
    BY <1>1, <1>3, <2>1 DEF IInv, ReportsTrue
<1>7. SentOnRecord' /\ FinalIsTrue'
  BY <1>1 DEF IInv, SentOnRecord, FinalIsTrue, CreditedBy
<1> QED
  BY <1>2, <1>4, <1>5, <1>6, <1>7 DEF IInv

-----------------------------------------------------------------------------
(* Steps of the ledger *)

\* A row moves forward, and to a final state only as the chain says.
LEMMA RowMoves ==
    ASSUME IInv, UNCHANGED <<open, asks, chain>>, NEW op \in Operations, NEW state \in RowStates \ {"absent"},
           row' = [row EXCEPT ![op] = state], spent' \in Nat, permissions' \in [Operations -> Nat],
           wire' \subseteq wire, stage' \in [Requests -> Stages],
           task' \in [Operations -> TaskStates],
           \A other \in Operations : other # op => task'[other] = task[other],
           row[op] \in SignedStates => state \in SignedStates,
           state = "settled" => OwnRelease(op),
           state = "reverted" => tx[op] = "failed",
           task'[op] # task[op] => task'[op] \in Unsent /\ task[op] \in Unsent,
           task'[op] = "permitted" => state \in SignedStates
    PROVE  IInv'
<1>1. UNCHANGED <<tx, sends, credited, campaignOpen>>
  BY DEF chain
<1>2. row'[op] = state /\ \A other \in Operations : other # op => row'[other] = row[other]
  BY DEF IInv, TypeOK
<1>3. TypeOK'
  BY <1>1 DEF IInv, TypeOK
<1>4. \A other \in Operations : OwnRelease(other)' = OwnRelease(other)
  BY <1>1 DEF OwnRelease, CreditedBy
<1>5. SentByTask' /\ ReservedFirst'
  BY <1>1, <1>2 DEF IInv, SentByTask, ReservedFirst, Unsent
<1>6. PaidOwn'
  BY <1>1, <1>4 DEF IInv, PaidOwn, Unsent
<1>7. ReportsTrue'
  BY <1>1 DEF IInv, ReportsTrue, OwnRelease, CreditedBy
<1>8. SentOnRecord' /\ FinalIsTrue'
  BY <1>1, <1>2, <1>4 DEF IInv, SentOnRecord, FinalIsTrue, SignedStates, OwnRelease, CreditedBy
<1> QED
  BY <1>3, <1>5, <1>6, <1>7, <1>8 DEF IInv

LEMMA HandleStep ==
    ASSUME IInv, NEW call \in wire, Handle(call) PROVE IInv'
<1>0. /\ call \in Call /\ call.op \in Operations
      /\ wire' \subseteq wire /\ wire' \subseteq Call
      /\ UNCHANGED <<open, asks, chain>>
      /\ stage \in [Requests -> Stages] /\ task \in [Operations -> TaskStates]
      /\ row \in [Operations -> RowStates] /\ spent \in Nat /\ permissions \in [Operations -> Nat]
      /\ open' \in BOOLEAN
  BY DEF IInv, TypeOK, Handle, Call
<1> DEFINE op == call.op
<1>1. ASSUME row' = row, spent' = spent, permissions' = permissions, stage' \in [Requests -> Stages],
             task' = task \/ (task[op] = "preparing" /\ To(op, "rechecking"))
      PROVE  IInv'
  <2>1. task' \in [Operations -> TaskStates]
    BY <1>0, <1>1 DEF To, TaskStates, Running
  <2>2. \A other \in Operations : task'[other] # task[other] =>
            task[other] = "preparing" /\ task'[other] = "rechecking"
    BY <1>0, <1>1 DEF To
  <2>3. \A other \in Operations : task'[other] # task[other] =>
              /\ row[other] # "absent"
              /\ task'[other] \in Unsent => task[other] \in Unsent
              /\ task'[other] = "permitted" => row[other] \in SignedStates
              /\ task'[other] = "confirmed" => OwnRelease(other)
    BY <1>0, <2>2 DEF IInv, ReservedFirst, Unsent
  <2>4. handlers' \in [Requests -> Stages] \X [Requests -> [op : Operations, mode : {"owner", "helper"}]]
    BY <1>0, <1>1 DEF handlers, IInv, TypeOK
  <2> QED
    BY <1>0, <1>1, <2>1, <2>3, <2>4, TaskMoves
<1>2. CASE LedgerReserves(call)
  <2>1. CASE CanReserve(op)
    <3>1. row[op] = "absent" /\ task[op] = "none"
      BY <1>0, <2>1 DEF CanReserve, IInv, ReservedFirst
    <3>2. /\ row' = [row EXCEPT ![op] = "admitted"] /\ spent' \in Nat /\ permissions' = permissions
          /\ stage' \in [Requests -> Stages]
      BY <1>0, <1>2, <2>1 DEF LedgerReserves, Stages
    <3>3. /\ task' \in [Operations -> TaskStates]
          /\ \A other \in Operations : other # op => task'[other] = task[other]
          /\ task'[op] \in Unsent \ {"permitted"}
      BY <1>0, <1>2, <2>1, <3>1 DEF LedgerReserves, To, TaskFor, TaskStates, Running, Unsent
    <3>4. "admitted" \in RowStates \ {"absent"} /\ "none" \in Unsent
      BY DEF RowStates, Unsent
    <3>5. row[op] \notin SignedStates
      BY <3>1 DEF SignedStates
    <3> QED
      BY <1>0, <3>1, <3>2, <3>3, <3>4, <3>5, RowMoves
  <2>2. CASE ~CanReserve(op)
    BY <1>0, <1>1, <1>2, <2>2 DEF LedgerReserves, Stages
  <2> QED
    BY <2>1, <2>2
<1>3. CASE LedgerPrepares(call)
  <2>1. CASE CanPrepare(op)
    <3>1. /\ row' = [row EXCEPT ![op] = "broadcast-prepared"] /\ spent' = spent
          /\ permissions' \in [Operations -> Nat] /\ stage' = stage
      BY <1>0, <1>3, <2>1 DEF LedgerPrepares
    <3>2. /\ task' \in [Operations -> TaskStates]
          /\ \A other \in Operations : other # op => task'[other] = task[other]
          /\ task'[op] # task[op] => task'[op] = "permitted" /\ task[op] = "preparing"
      BY <1>0, <1>3, <2>1 DEF LedgerPrepares, AwaitsPermit, To, TaskStates, Running
    <3>3. "broadcast-prepared" \in RowStates \ {"absent"} /\ "broadcast-prepared" \in SignedStates
      BY DEF RowStates, SignedStates
    <3> QED
      BY <1>0, <3>1, <3>2, <3>3, RowMoves DEF Unsent
  <2>2. CASE ~CanPrepare(op)
    BY <1>0, <1>1, <1>3, <2>2 DEF LedgerPrepares, AwaitsPermit
  <2> QED
    BY <2>1, <2>2
<1>4. CASE LedgerFails(call)
  <2>1. CASE CanStop(op)
    <3>1. row' = [row EXCEPT ![op] = "stopped"] /\ row[op] \notin SignedStates
      BY <1>4, <2>1 DEF LedgerFails, CanStop, SignedStates
    <3>2. task[op] # "permitted"
      BY <1>0, <3>1 DEF IInv, ReservedFirst
    <3>3. "stopped" \in RowStates \ {"absent"}
      BY DEF RowStates
    <3> QED
      BY <1>0, <1>4, <3>1, <3>2, <3>3, RowMoves DEF LedgerFails
  <2>2. CASE ~CanStop(op)
    BY <1>0, <1>1, <1>4, <2>2 DEF LedgerFails
  <2> QED
    BY <2>1, <2>2
<1>5. CASE LedgerCompletes(call)
  <2>1. CASE row[op] = "broadcast-prepared"
    <3> DEFINE state == IF call.status = 1 THEN "settled" ELSE "reverted"
    <3>1. call.status \in {0, 1}
      BY <1>0, <1>5 DEF LedgerCompletes, Call
    <3>2. /\ state = "settled" => OwnRelease(op)
          /\ state = "reverted" => tx[op] = "failed"
      BY <1>5, <3>1 DEF IInv, ReportsTrue, LedgerCompletes
    <3>3. state \in SignedStates /\ state \in RowStates \ {"absent"}
      BY DEF SignedStates, RowStates
    <3>4. row' = [row EXCEPT ![op] = state] /\ UNCHANGED <<spent, permissions, stage, task>>
      BY <1>5, <2>1 DEF LedgerCompletes
    <3> HIDE DEF state
    <3> QED
      BY <1>0, <3>2, <3>3, <3>4, RowMoves
  <2>2. CASE row[op] # "broadcast-prepared"
    BY <1>0, <1>1, <1>5, <2>2 DEF LedgerCompletes
  <2> QED
    BY <2>1, <2>2
<1> QED
  BY <1>2, <1>3, <1>4, <1>5 DEF Handle

LEMMA AbandonStep ==
    ASSUME IInv, NEW op \in Operations, Abandon(op) PROVE IInv'
<1>1. row' = [row EXCEPT ![op] = "stopped"] /\ row[op] \notin SignedStates
  BY DEF Abandon, CanStop, SignedStates
<1>2. task[op] # "permitted"
  BY <1>1 DEF IInv, ReservedFirst
<1>3. "stopped" \in RowStates \ {"absent"}
  BY DEF RowStates
<1> QED
  BY <1>1, <1>2, <1>3, RowMoves DEF Abandon, handlers, IInv, TypeOK

-----------------------------------------------------------------------------
(* Steps of the chain *)

LEMMA MineStep ==
    ASSUME IInv, NEW op \in Operations, Mine(op) PROVE IInv'
<1>0. /\ UNCHANGED <<open, row, spent, permissions, wire, stage, asks, task, sends, campaignOpen>>
      /\ tx[op] = "sent" /\ tx'[op] \in {"succeeded", "failed"}
      /\ \A other \in Operations : other # op => tx'[other] = tx[other]
  BY DEF Mine, ledger, handlers, IInv, TypeOK
<1>1. TypeOK'
  BY <1>0, SourceAssumption DEF Mine, IInv, TypeOK
<1>2. \A other \in Operations :
         /\ OwnRelease(other) => OwnRelease(other)'
         /\ OwnRelease(other)' <=> tx'[other] = "succeeded"
  BY <1>0, SourceAssumption, CreditAssumption
     DEF Mine, Eligible, OwnRelease, CreditedBy, IInv, TypeOK, PaidOwn
<1>3. SentByTask' /\ ReservedFirst' /\ SentOnRecord'
  BY <1>0 DEF IInv, SentByTask, ReservedFirst, SentOnRecord
<1>4. PaidOwn'
  BY <1>0, <1>2 DEF IInv, PaidOwn
<1>5. ReportsTrue'
  <2>1. \A call \in wire : call.method = "complete" => call.op \in Operations
    BY DEF IInv, TypeOK, Call
  <2> QED
    BY <1>0, <1>2, <2>1 DEF IInv, ReportsTrue
<1>6. FinalIsTrue'
  BY <1>0, <1>2 DEF IInv, FinalIsTrue, OwnRelease
<1> QED
  BY <1>1, <1>3, <1>4, <1>5, <1>6 DEF IInv

LEMMA ElsewhereStep ==
    ASSUME IInv, NEW op \in Operations, ReleasedElsewhere(op) PROVE IInv'
<1>0. UNCHANGED <<open, row, spent, permissions, wire, stage, asks, task, sends, tx, campaignOpen>>
  BY DEF ReleasedElsewhere, ledger, handlers
<1>1. TypeOK'
  BY <1>0, SourceAssumption DEF ReleasedElsewhere, IInv, TypeOK
<1>2. \A other \in Operations : OwnRelease(other)' <=> OwnRelease(other)
  BY SourceAssumption, CreditAssumption
     DEF ReleasedElsewhere, Eligible, OwnRelease, CreditedBy, IInv, TypeOK
<1>3. SentByTask' /\ ReservedFirst' /\ SentOnRecord'
  BY <1>0 DEF IInv, SentByTask, ReservedFirst, SentOnRecord
<1>4. PaidOwn'
  BY <1>0, <1>2 DEF IInv, PaidOwn
<1>5. ReportsTrue'
  <2>1. \A call \in wire : call.method = "complete" => call.op \in Operations
    BY DEF IInv, TypeOK, Call
  <2> QED
    BY <1>0, <1>2, <2>1 DEF IInv, ReportsTrue
<1>6. FinalIsTrue'
  BY <1>0, <1>2 DEF IInv, FinalIsTrue, OwnRelease
<1> QED
  BY <1>1, <1>3, <1>4, <1>5, <1>6 DEF IInv

-----------------------------------------------------------------------------
(* Every step *)

LEMMA NextIInv == IInv /\ [Next]_vars => IInv'
<1> SUFFICES ASSUME IInv, [Next]_vars PROVE IInv'
  OBVIOUS
<1>0. handlers \in [Requests -> Stages] \X [Requests -> [op : Operations, mode : {"owner", "helper"}]]
  BY DEF handlers, IInv, TypeOK
<1>1. ASSUME NEW call \in wire, Lose(call) PROVE IInv'
  BY <1>0, <1>1, TaskMoves DEF Lose, ledger, IInv, TypeOK
<1>2. ASSUME NEW op \in Operations, Poll(op) PROVE IInv'
  <2>1. PICK status \in {0, 1} : ReceiptStatus(op, status) /\ Send(CompleteCall(op, status))
    BY <1>2 DEF Poll
  <2>2. /\ wire' \subseteq Call
        /\ \A call \in wire' \ wire : call = CompleteCall(op, status)
    BY <2>1, CallTypes DEF Send, IInv, TypeOK
  <2>3. \A call \in wire' \ wire :
           /\ call.status = 1 => OwnRelease(call.op)
           /\ call.status = 0 => tx[call.op] = "failed"
    BY <2>1, <2>2, CallTypes DEF ReceiptStatus
  <2> QED
    BY <1>0, <1>2, <2>2, <2>3, TaskMoves DEF Poll, ledger, IInv, TypeOK
<1>3. ASSUME NEW value \in BOOLEAN, SetOpen(value) PROVE IInv'
  BY <1>0, <1>3, TaskMoves DEF SetOpen, IInv, TypeOK
<1>4. CASE Crash
  <2>1. /\ handlers' \in [Requests -> Stages] \X [Requests -> [op : Operations, mode : {"owner", "helper"}]]
        /\ task' \in [Operations -> TaskStates]
    BY <1>4 DEF Crash, handlers, IInv, TypeOK, Stages, TaskStates
  <2>2. \A op \in Operations : task'[op] # task[op] => task[op] # "none" /\ task'[op] = "finished"
    BY <1>4 DEF Crash
  <2>3. \A op \in Operations : task'[op] # task[op] => row[op] # "absent"
    BY <2>2 DEF IInv, ReservedFirst
  <2> QED
    BY <1>4, <2>1, <2>2, <2>3, TaskMoves DEF Crash, ledger, Unsent, IInv, TypeOK
<1>5. CASE CampaignCloses
  BY <1>5 DEF CampaignCloses, ledger, handlers, IInv, TypeOK, SentByTask, ReservedFirst, PaidOwn,
              ReportsTrue, SentOnRecord, FinalIsTrue, OwnRelease, CreditedBy
<1>6. CASE UNCHANGED vars
  BY <1>0, <1>6, TaskMoves DEF vars, ledger, IInv, TypeOK
<1> QED
  BY <1>1, <1>2, <1>3, <1>4, <1>5, <1>6, RequestSteps, TaskSteps, BroadcastStep, HandleStep, AbandonStep,
     MineStep, ElsewhereStep DEF Next

THEOREM ReleaseInvariant == Spec => []IInv
BY InitIInv, NextIInv, PTL DEF Spec

\* Every variable keeps its type.
THEOREM TypeCorrect == Spec => []TypeOK
BY ReleaseInvariant, PTL DEF IInv

\* One broadcast per operation, and only behind the durable hash.
THEOREM OneBroadcastOnRecord == Spec => []SentOnRecord
BY ReleaseInvariant, PTL DEF IInv

\* The ledger's final states say what happened to the operation's own transaction.
THEOREM FinalStatesTrue == Spec => []FinalIsTrue
BY ReleaseInvariant, PTL DEF IInv

-----------------------------------------------------------------------------
(* Finished tasks *)

Ended == \A op \in Operations : task[op] = "finished" => task'[op] = "finished"

LEMMA HandleEnds == ASSUME IInv, NEW call \in wire, Handle(call) PROVE Ended
<1>1. call.op \in Operations /\ task \in [Operations -> TaskStates]
  BY DEF IInv, TypeOK, Call
<1>2. CanReserve(call.op) => task[call.op] = "none"
  BY <1>1 DEF CanReserve, IInv, ReservedFirst
<1> QED
  BY <1>1, <1>2 DEF Handle, LedgerReserves, LedgerPrepares, LedgerFails, LedgerCompletes, AwaitsPermit, To, Ended

\* No late answer, poll or request brings a finished task back.
THEOREM FinishedTasksStay == Spec => TasksEnd
<1>1. IInv /\ [Next]_vars => [Ended]_vars
  <2> SUFFICES ASSUME IInv, Next PROVE Ended
    OBVIOUS
  <2>1. task \in [Operations -> TaskStates]
    BY DEF IInv, TypeOK
  <2>2. ASSUME NEW op \in Operations, TaskStep(op) PROVE Ended
    BY <2>1, <2>2 DEF Ended, TaskStep, Start, ReadEligibility, Simulate, GiveUp, Sign, NotSent, Broadcast,
       Sent, Receipt, WaitFails, Recheck, ReportComplete, ReportFailure, To
  <2>3. CASE Crash
    BY <2>3 DEF Crash, Ended
  <2>4. ASSUME NEW r \in Requests, RequestStep(r) PROVE Ended
    BY <2>4 DEF Ended, RequestStep, HelperRelease, ReadOperation, OwnerRelease, OwnerReserve, ReserveTimeout
  <2>5. ASSUME task' = task PROVE Ended
    BY <2>5 DEF Ended
  <2> QED
    BY <2>2, <2>3, <2>4, <2>5, HandleEnds
       DEF Next, Lose, Poll, Abandon, Mine, ReleasedElsewhere, SetOpen, CampaignCloses
<1> QED
  BY <1>1, ReleaseInvariant, PTL DEF Spec, TasksEnd, Ended

-----------------------------------------------------------------------------
(* The releases spend the envelope *)

PhaseName(state) ==
    IF state = "absent" THEN "free"
    ELSE IF state = "admitted" THEN "held"
    ELSE IF state = "broadcast-prepared" THEN "permitted" ELSE "closed"

\* The phase moves where the row moves.
LEMMA PhaseMoves ==
    ASSUME NEW op \in Operations, NEW state, row \in [Operations -> RowStates],
           row' = [row EXCEPT ![op] = state]
    PROVE  Phase' = [Phase EXCEPT ![op] = PhaseName(state)] /\ Phase[op] = PhaseName(row[op])
BY DEF Phase, PhaseName

\* A row that is admitted or prepared closes.
LEMMA Closes ==
    ASSUME IInv, NEW op \in Operations, NEW state \in {"stopped", "settled", "reverted"},
           row[op] \in ActiveStates, row' = [row EXCEPT ![op] = state],
           UNCHANGED <<spent, permissions>>
    PROVE  Envelope!Next
<1>1. Phase[op] \in {"held", "permitted"} /\ Phase' = [Phase EXCEPT ![op] = "closed"]
  BY PhaseMoves DEF IInv, TypeOK, ActiveStates, PhaseName
<1> QED
  BY <1>1 DEF Envelope!Next, Envelope!Close

LEMMA HandleImplements ==
    ASSUME IInv, NEW call \in wire, Handle(call) PROVE [Envelope!Next]_Envelope!vars
<1> DEFINE op == call.op
<1>1. op \in Operations /\ row \in [Operations -> RowStates] /\ spent \in Nat
  BY DEF IInv, TypeOK, Call
<1>2. ASSUME UNCHANGED <<row, spent, permissions>> PROVE UNCHANGED Envelope!vars
  BY <1>2 DEF Envelope!vars, Phase
<1>3. CASE LedgerReserves(call) /\ CanReserve(op)
  <2>1. /\ row[op] = "absent" /\ row' = [row EXCEPT ![op] = "admitted"]
        /\ spent' = spent + 1 /\ permissions' = permissions
        /\ spent < Limit /\ Active = {}
        /\ \A other \in Recorded : <<op, other>> \notin Conflicts
    BY <1>1, <1>3 DEF LedgerReserves, CanReserve
  <2>2. Phase[op] = "free" /\ Phase' = [Phase EXCEPT ![op] = "held"]
    BY <1>1, <2>1, PhaseMoves DEF PhaseName
  <2>3. Envelope!Reserved = Recorded /\ Envelope!Open = Active
    BY <1>1 DEF Recorded, Active, ActiveStates, Phase, RowStates, Envelope!Reserved, Envelope!Open
  <2>4. Envelope!Reserve(op)
    BY <1>1, <2>1, <2>2, <2>3, LimitAssumption DEF Envelope!Reserve
  <2> QED
    BY <1>1, <2>4 DEF Envelope!Next
<1>4. CASE LedgerPrepares(call) /\ CanPrepare(op)
  <2>1. /\ row[op] = "admitted" /\ row' = [row EXCEPT ![op] = "broadcast-prepared"]
        /\ spent' = spent /\ permissions' = [permissions EXCEPT ![op] = @ + 1]
    BY <1>1, <1>4 DEF LedgerPrepares, CanPrepare
  <2>2. Phase[op] = "held" /\ Phase' = [Phase EXCEPT ![op] = "permitted"]
    BY <1>1, <2>1, PhaseMoves DEF PhaseName
  <2>3. Envelope!Permit(op)
    BY <1>1, <2>1, <2>2 DEF Envelope!Permit
  <2> QED
    BY <1>1, <2>3 DEF Envelope!Next
<1>5. CASE LedgerFails(call) /\ CanStop(op)
  BY <1>1, <1>5, Closes DEF LedgerFails, CanStop, ActiveStates
<1>6. CASE LedgerCompletes(call) /\ row[op] = "broadcast-prepared"
  BY <1>1, <1>6, Closes DEF LedgerCompletes, ActiveStates
<1> QED
  BY <1>2, <1>3, <1>4, <1>5, <1>6 DEF Handle, LedgerReserves, LedgerPrepares, LedgerFails, LedgerCompletes

\* Whatever is lost, late or crashed, the relayer stays inside the spending
\* envelope its ledger promises.
THEOREM ReleaseImplementsEnvelope == Spec => ImplementsEnvelope
<1>1. Init => Envelope!Init
  BY DEF Init, Envelope!Init, Phase
<1>2. IInv /\ [Next]_vars => [Envelope!Next]_Envelope!vars
  <2> SUFFICES ASSUME IInv, [Next]_vars PROVE [Envelope!Next]_Envelope!vars
    OBVIOUS
  <2>1. ASSUME UNCHANGED <<row, spent, permissions>> PROVE UNCHANGED Envelope!vars
    BY <2>1 DEF Envelope!vars, Phase
  <2>2. ASSUME NEW op \in Operations, Abandon(op) PROVE Envelope!Next
    BY <2>2, Closes DEF Abandon, CanStop, ActiveStates
  <2>3. CASE UNCHANGED vars
    BY <2>1, <2>3 DEF vars, ledger
  <2>4. ASSUME NEW r \in Requests, RequestStep(r) PROVE UNCHANGED <<row, spent, permissions>>
    BY <2>4 DEF RequestStep, HelperRelease, ReadOperation, OwnerRelease, OwnerReserve, ReserveTimeout, ledger
  <2>5. ASSUME NEW op \in Operations, TaskStep(op) PROVE UNCHANGED <<row, spent, permissions>>
    BY <2>5 DEF TaskStep, Start, ReadEligibility, Simulate, GiveUp, Sign, NotSent, Broadcast,
       Receipt, WaitFails, Recheck, ReportComplete, ReportFailure, ledger
  <2> QED
    BY <2>1, <2>2, <2>3, <2>4, <2>5, HandleImplements
       DEF Next, Lose, Poll, Mine, ReleasedElsewhere, SetOpen, Crash, CampaignCloses, ledger
<1> QED
  BY <1>1, <1>2, ReleaseInvariant, PTL DEF Spec, ImplementsEnvelope, Envelope!Spec

-----------------------------------------------------------------------------
(* The pair lookups *)

\* What a lookup's state says of its callers; the queue holds a lookup once; a
\* pair's flight is its unsettled lookup, so that no second one is started.
StatesTell == \A l \in Ids :
    /\ lookups[l].state = "queued" => ~lookups[l].settled
    /\ lookups[l].state \in {"ended", "freed", "dropped"} => lookups[l].settled
QueuedOnce == \A i, j \in DOMAIN queue : queue[i] = queue[j] => i = j
FlightsLive ==
    /\ \A l \in Unsettled : flights[lookups[l].pair] = l
    /\ \A pair \in Pairs : flights[pair] # NoFlight =>
           flights[pair] \in Unsettled /\ lookups[flights[pair]].pair = pair

LookupInv == LookupsConsistent /\ StatesTell /\ QueuedOnce /\ FlightsLive

Taken == In("running") \cup In("ended")

-----------------------------------------------------------------------------
LEMMA LookupFields ==
    ASSUME LookupTypeOK, NEW l \in Ids
    PROVE  /\ l \in Nat \ {0} /\ lookups[l] \in Lookup /\ lookups[l].pair \in Pairs
           /\ lookups[l].state \in {"queued", "running", "ended", "freed", "dropped"}
           /\ lookups[l].settled \in BOOLEAN
<1>1. lookups \in Seq(Lookup)
  BY DEF LookupTypeOK
<1>2. l \in 1..Len(lookups) /\ Len(lookups) \in Nat
  BY <1>1 DEF Ids
<1>3. lookups[l] \in Lookup
  BY <1>1, <1>2
<1> QED
  BY <1>2, <1>3 DEF Lookup

LEMMA TakenFinite == LookupTypeOK => IsFiniteSet(Taken)
<1> SUFFICES ASSUME LookupTypeOK PROVE IsFiniteSet(Taken)
  OBVIOUS
<1>1. Ids = 1..Len(lookups) /\ Len(lookups) \in Nat
  BY DEF LookupTypeOK, Ids
<1>2. IsFiniteSet(1..Len(lookups))
  BY <1>1, FS_Interval
<1>3. Taken \subseteq Ids
  BY DEF Taken, In
<1> QED
  BY <1>1, <1>2, <1>3, FS_Subset

\* What is left of a sequence without one element.
LEMMA Kept ==
    ASSUME NEW S, NEW s \in Seq(S), NEW places \in SUBSET DOMAIN s, \A i, j \in places : i = j
    PROVE  /\ Without(s, places) \in Seq(S)
           /\ Len(Without(s, places)) = IF places = {} THEN Len(s) ELSE Len(s) - 1
           /\ \E from \in [DOMAIN Without(s, places) -> DOMAIN s \ places] :
                 /\ \A i \in DOMAIN Without(s, places) : Without(s, places)[i] = s[from[i]]
                 /\ \A i, j \in DOMAIN Without(s, places) : from[i] = from[j] => i = j
                 /\ \A j \in DOMAIN s \ places : \E i \in DOMAIN Without(s, places) : from[i] = j
<1>1. CASE places = {}
  <2>1. Without(s, places) = s
    BY <1>1 DEF Without
  <2> DEFINE from == [i \in DOMAIN s |-> i]
  <2>2. from \in [DOMAIN s -> DOMAIN s \ places] /\ \A i \in DOMAIN s : from[i] = i
    BY <1>1
  <2> QED
    BY <1>1, <2>1, <2>2
<1>2. CASE places # {}
  <2> DEFINE gone == CHOOSE i \in places : TRUE
             rest == [i \in 1..(Len(s) - 1) |-> IF i < gone THEN s[i] ELSE s[i + 1]]
             from == [i \in 1..(Len(s) - 1) |-> IF i < gone THEN i ELSE i + 1]
  <2>1. gone \in places /\ places = {gone} /\ gone \in 1..Len(s) /\ Len(s) \in Nat /\ DOMAIN s = 1..Len(s)
    BY <1>2
  <2>2. Without(s, places) = rest
    BY <1>2 DEF Without
  <2> HIDE DEF gone
  <2>3. \A i \in 1..(Len(s) - 1) : from[i] \in DOMAIN s \ places /\ rest[i] = s[from[i]]
    BY <2>1
  <2>4. \A i \in 1..(Len(s) - 1) : rest[i] \in S
    BY <2>1
  <2>5. rest \in Seq(S) /\ Len(rest) = Len(s) - 1 /\ DOMAIN rest = 1..(Len(s) - 1)
    <3>1. Len(s) - 1 \in Nat
      BY <2>1
    <3>2. rest \in [1..(Len(s) - 1) -> S]
      BY <2>4
    <3> QED
      BY <3>1, <3>2
  <2>6. \A i, j \in 1..(Len(s) - 1) : from[i] = from[j] => i = j
    BY <2>1
  <2>7. ASSUME NEW j \in DOMAIN s \ places PROVE \E i \in 1..(Len(s) - 1) : from[i] = j
    <3>1. CASE j < gone
      BY <2>1, <3>1
    <3>2. CASE j > gone
      <4>1. j - 1 \in 1..(Len(s) - 1) /\ ~(j - 1 < gone) /\ (j - 1) + 1 = j
        BY <2>1, <3>2
      <4>2. from[j - 1] = j
        BY <4>1
      <4> QED
        BY <4>1, <4>2
    <3> QED
      BY <2>1, <3>1, <3>2
  <2>8. from \in [DOMAIN rest -> DOMAIN s \ places]
    BY <2>3, <2>5
  <2> HIDE DEF rest, from
  <2>9. \E f \in [DOMAIN rest -> DOMAIN s \ places] :
          /\ \A i \in DOMAIN rest : rest[i] = s[f[i]]
          /\ \A i, j \in DOMAIN rest : f[i] = f[j] => i = j
          /\ \A j \in DOMAIN s \ places : \E i \in DOMAIN rest : f[i] = j
    <3>1. /\ \A i \in DOMAIN rest : rest[i] = s[from[i]]
          /\ \A i, j \in DOMAIN rest : from[i] = from[j] => i = j
      BY <2>3, <2>5, <2>6
    <3>2. \A j \in DOMAIN s \ places : \E i \in DOMAIN rest : from[i] = j
      BY <2>5, <2>7
    <3> QED
      BY <2>8, <3>1, <3>2
  <2> QED
    BY <1>2, <2>2, <2>5, <2>9
<1> QED
  BY <1>1, <1>2

-----------------------------------------------------------------------------
(* The cache *)

\* A sequence the cache may be.
Keyed(s) ==
    /\ s \in Seq(CacheEntry) /\ Len(s) <= MaxEntries
    /\ \A i, j \in DOMAIN s : s[i].pair = s[j].pair => i = j

LEMMA CacheKeyed == LookupTypeOK /\ CacheBounded => Keyed(cache)
  BY DEF LookupTypeOK, CacheBounded, Keyed

LEMMA OthersKept ==
    ASSUME Keyed(cache), NEW pair \in Pairs
    PROVE  /\ Keyed(Others(pair))
           /\ \A i \in DOMAIN Others(pair) : Others(pair)[i].pair # pair
           /\ \A i \in DOMAIN cache : cache[i].pair = pair => Len(Others(pair)) < MaxEntries
<1> DEFINE places == {i \in DOMAIN cache : cache[i].pair = pair}
           rest == Without(cache, places)
<1>1. cache \in Seq(CacheEntry) /\ places \in SUBSET DOMAIN cache /\ \A i, j \in places : i = j
  BY DEF Keyed
<1>2. /\ rest \in Seq(CacheEntry)
      /\ Len(rest) = IF places = {} THEN Len(cache) ELSE Len(cache) - 1
      /\ \E from \in [DOMAIN rest -> DOMAIN cache \ places] :
            /\ \A i \in DOMAIN rest : rest[i] = cache[from[i]]
            /\ \A i, j \in DOMAIN rest : from[i] = from[j] => i = j
  <2> HIDE DEF places
  <2>1. /\ rest \in Seq(CacheEntry)
        /\ Len(rest) = IF places = {} THEN Len(cache) ELSE Len(cache) - 1
    BY <1>1, Kept
  <2>2. \E from \in [DOMAIN rest -> DOMAIN cache \ places] :
            /\ \A i \in DOMAIN rest : rest[i] = cache[from[i]]
            /\ \A i, j \in DOMAIN rest : from[i] = from[j] => i = j
    <3>1. \E from \in [DOMAIN rest -> DOMAIN cache \ places] :
            /\ \A i \in DOMAIN rest : rest[i] = cache[from[i]]
            /\ \A i, j \in DOMAIN rest : from[i] = from[j] => i = j
            /\ \A j \in DOMAIN cache \ places : \E i \in DOMAIN rest : from[i] = j
      BY <1>1, Kept, SMTT(30)
    <3> HIDE DEF rest
    <3> QED
      BY <3>1
  <2> QED
    BY <2>1, <2>2
<1>3. Others(pair) = rest
  BY DEF Others
<1> HIDE DEF rest
<1>4. PICK from \in [DOMAIN rest -> DOMAIN cache \ places] :
            /\ \A i \in DOMAIN rest : rest[i] = cache[from[i]]
            /\ \A i, j \in DOMAIN rest : from[i] = from[j] => i = j
  BY <1>2
<1>5. \A i \in DOMAIN rest : rest[i].pair # pair
  BY <1>4
<1>6. \A i, j \in DOMAIN rest : rest[i].pair = rest[j].pair => i = j
  BY <1>4 DEF Keyed
<1>7. Len(cache) \in Nat /\ Len(cache) <= MaxEntries /\ MaxEntries \in Nat
  BY <1>1, CacheAssumption DEF Keyed
<1>8. Len(rest) <= MaxEntries
  BY <1>2, <1>7
<1>9. ASSUME NEW i \in DOMAIN cache, cache[i].pair = pair PROVE Len(rest) < MaxEntries
  <2>1. places # {}
    BY <1>9
  <2> HIDE DEF places
  <2> QED
    BY <2>1, <1>2, <1>7
<1> HIDE DEF places
<1> QED
  BY <1>2, <1>3, <1>5, <1>6, <1>8, <1>9 DEF Keyed

LEMMA EntryAdded ==
    ASSUME NEW s, Keyed(s), Len(s) < MaxEntries, NEW entry \in CacheEntry,
           \A i \in DOMAIN s : s[i].pair # entry.pair
    PROVE  Keyed(Append(s, entry))
<1>1. s \in Seq(CacheEntry) /\ Len(s) \in Nat /\ DOMAIN s = 1..Len(s)
  BY DEF Keyed
<1>2. /\ Append(s, entry) \in Seq(CacheEntry) /\ Len(Append(s, entry)) = Len(s) + 1
      /\ DOMAIN Append(s, entry) = 1..(Len(s) + 1)
      /\ Append(s, entry)[Len(s) + 1] = entry
      /\ \A i \in 1..Len(s) : Append(s, entry)[i] = s[i]
  BY <1>1
<1>3. Len(s) + 1 <= MaxEntries
  BY <1>1, CacheAssumption
<1>4. \A i \in 1..(Len(s) + 1) : i \in 1..Len(s) \/ i = Len(s) + 1
  BY <1>1
<1>5. \A i, j \in DOMAIN Append(s, entry) : Append(s, entry)[i].pair = Append(s, entry)[j].pair => i = j
  BY <1>1, <1>2, <1>4 DEF Keyed
<1> QED
  BY <1>2, <1>3, <1>5 DEF Keyed

LEMMA RoomMade ==
    ASSUME NEW s, Keyed(s), NEW pair, \A i \in DOMAIN s : s[i].pair # pair
    PROVE  /\ Keyed(MakeRoom(s)) /\ Len(MakeRoom(s)) < MaxEntries
           /\ \A i \in DOMAIN MakeRoom(s) : MakeRoom(s)[i].pair # pair
<1>1. s \in Seq(CacheEntry) /\ Len(s) \in Nat /\ DOMAIN s = 1..Len(s) /\ Len(s) <= MaxEntries
  BY DEF Keyed
<1>2. MaxEntries \in Nat \ {0}
  BY CacheAssumption
<1>3. CASE Len(s) >= MaxEntries
  <2> DEFINE rest == SubSeq(s, 2, Len(s))
  <2>0. \A n, m \in Nat : n <= m /\ n >= m => n = m /\ n - m + 2 = 2
    OBVIOUS
  <2>1. Len(s) = MaxEntries /\ Len(s) - MaxEntries + 2 = 2
    BY <1>1, <1>2, <1>3, <2>0
  <2>2. MakeRoom(s) = rest
    BY <1>3, <2>1 DEF MakeRoom
  <2>3. /\ rest \in Seq(CacheEntry) /\ Len(rest) = Len(s) - 1 /\ DOMAIN rest = 1..(Len(s) - 1)
        /\ \A i \in 1..(Len(s) - 1) : rest[i] = s[i + 1]
    BY <1>1, <1>2, <2>1
  <2>4. \A i \in 1..(Len(s) - 1) : i + 1 \in DOMAIN s
    BY <1>1
  <2> HIDE DEF rest
  <2>5. \A i, j \in DOMAIN rest : rest[i].pair = rest[j].pair => i = j
    <3> SUFFICES ASSUME NEW i \in DOMAIN rest, NEW j \in DOMAIN rest, rest[i].pair = rest[j].pair PROVE i = j
      OBVIOUS
    <3>0. s[i + 1].pair = s[j + 1].pair /\ i + 1 \in DOMAIN s /\ j + 1 \in DOMAIN s
      BY <2>3, <2>4
    <3>1. i + 1 = j + 1
      BY <3>0 DEF Keyed
    <3> QED
      BY <2>3, <3>1
  <2>6. \A i \in DOMAIN rest : rest[i].pair # pair
    BY <2>3, <2>4
  <2>7. Len(rest) < MaxEntries /\ Len(rest) <= MaxEntries
    BY <1>1, <1>2, <2>1, <2>3
  <2> QED
    BY <2>2, <2>3, <2>5, <2>6, <2>7 DEF Keyed
<1>4. CASE ~(Len(s) >= MaxEntries)
  BY <1>1, <1>2, <1>4 DEF MakeRoom
<1> QED
  BY <1>3, <1>4

LEMMA RememberKeeps ==
    ASSUME Keyed(cache), now \in Nat, NEW pair \in Pairs, NEW outcome \in Outcomes, Remember(pair, outcome)
    PROVE  Keyed(cache')
<1>1. CASE ~Cacheable(outcome)
  BY <1>1 DEF Remember
<1>2. CASE Cacheable(outcome)
  <2> DEFINE entry == [pair |-> pair, outcome |-> outcome,
                       expires |-> now + IF outcome = "valid" THEN Ttl ELSE NegativeTtl]
  <2>1. cache' = Append(MakeRoom(Others(pair)), entry)
    BY <1>2 DEF Remember
  <2>2. outcome \in {"valid", "invalid"}
    BY <1>2 DEF Cacheable, Outcomes
  <2>3. entry \in CacheEntry /\ entry.pair = pair
    BY <2>2, CacheAssumption DEF CacheEntry
  <2>4. /\ Keyed(MakeRoom(Others(pair))) /\ Len(MakeRoom(Others(pair))) < MaxEntries
        /\ \A i \in DOMAIN MakeRoom(Others(pair)) : MakeRoom(Others(pair))[i].pair # pair
    BY OthersKept, RoomMade
  <2> HIDE DEF entry
  <2> QED
    BY <2>1, <2>3, <2>4, EntryAdded
<1> QED
  BY <1>1, <1>2

-----------------------------------------------------------------------------
(* Callers *)

LEMMA OneByFlight == FlightsLive => OneLookup
  BY DEF FlightsLive, OneLookup

LEMMA KeyedIsBounded == Keyed(cache) => CacheBounded /\ cache \in Seq(CacheEntry)
  BY DEF Keyed, CacheBounded

LEMMA LookupStarts == LookupInit => LookupInv
<1> SUFFICES ASSUME LookupInit PROVE LookupInv
  OBVIOUS
<1>1. Ids = {} /\ DOMAIN queue = {} /\ Len(queue) = 0 /\ DOMAIN cache = {} /\ Len(cache) = 0
  BY DEF LookupInit, Ids
<1>2. LookupTypeOK
  <2>1. lookups \in Seq(Lookup) /\ queue \in Seq(DOMAIN lookups) /\ cache \in Seq(CacheEntry)
    BY DEF LookupInit
  <2>2. flights \in [Pairs -> Nat]
    BY DEF LookupInit, NoFlight
  <2>3. callers \in [Callers -> Caller]
    BY DEF LookupInit, Caller, NoFlight
  <2> QED
    BY <2>1, <2>2, <2>3 DEF LookupInit, LookupTypeOK
<1>3. SlotsHeld
  <2>1. In("running") \cup In("ended") = {} /\ In("queued") = {}
    BY <1>1 DEF In
  <2>2. Cardinality({}) = 0
    BY FS_EmptySet
  <2>3. {queue[i] : i \in DOMAIN queue} = {} /\ queue = << >> /\ active = 0
    BY <1>1 DEF LookupInit
  <2>4. 0 <= Concurrency /\ 0 <= PoolQueueLimit
    BY PoolAssumption
  <2> QED
    BY <1>1, <2>1, <2>2, <2>3, <2>4 DEF SlotsHeld
<1>4. WaitersFollow
  BY DEF WaitersFollow, LookupInit
<1>5. CacheBounded
  BY <1>1, CacheAssumption DEF CacheBounded
<1>6. StatesTell /\ QueuedOnce
  BY <1>1 DEF StatesTell, QueuedOnce
<1>7. FlightsLive
  BY <1>1 DEF FlightsLive, Unsettled, LookupInit
<1> QED
  BY <1>2, <1>3, <1>4, <1>5, <1>6, <1>7, OneByFlight DEF LookupInv, LookupsConsistent

\* The pool did nothing.
LEMMA PoolStays ==
    ASSUME LookupInv, UNCHANGED <<lookups, queue, active, flights>>,
           now' \in Nat, valid' \subseteq Pairs, Keyed(cache'),
           callers' \in [Callers -> Caller], WaitersFollow'
    PROVE  LookupInv'
<1>1. /\ LookupTypeOK /\ SlotsHeld /\ OneLookup /\ CacheBounded /\ StatesTell /\ QueuedOnce /\ FlightsLive
  BY DEF LookupInv, LookupsConsistent
<1>2. CacheBounded' /\ cache' \in Seq(CacheEntry)
  BY DEF Keyed, CacheBounded
<1>3. LookupTypeOK'
  BY <1>1, <1>2 DEF LookupTypeOK
<1>4. SlotsHeld' /\ OneLookup'
  BY <1>1 DEF SlotsHeld, OneLookup, In, Ids, Unsettled
<1>5. StatesTell' /\ QueuedOnce' /\ FlightsLive'
  BY <1>1 DEF StatesTell, QueuedOnce, FlightsLive, Ids, Unsettled
<1> QED
  BY <1>2, <1>3, <1>4, <1>5 DEF LookupInv, LookupsConsistent

LEMMA CallerMoves ==
    ASSUME LookupTypeOK, NEW c \in Callers, NEW state, NEW flight \in Nat, NEW outcome, Becomes(c, state, flight, outcome),
           state \in {"idle", "waiting", "told", "busy", "late"}, outcome \in Outcomes \cup {"none"}
    PROVE  /\ callers' \in [Callers -> Caller]
           /\ callers'[c].pair = callers[c].pair /\ callers'[c].state = state /\ callers'[c].flight = flight
           /\ \A d \in Callers : d # c => callers'[d] = callers[d]
  BY DEF LookupTypeOK, Becomes, Caller

LEMMA HitKeeps == ASSUME LookupInv, NEW c \in Callers, Hit(c) PROVE LookupInv'
<1>1. LookupTypeOK /\ WaitersFollow /\ Keyed(cache)
  BY CacheKeyed DEF LookupInv, LookupsConsistent
<1> DEFINE pair == callers[c].pair
<1>2. pair \in Pairs
  BY <1>1 DEF LookupTypeOK, Caller
<1>3. PICK i \in Cached(pair) :
        /\ cache' = Append(Others(pair), cache[i])
        /\ Becomes(c, "told", NoFlight, cache[i].outcome)
  BY DEF Hit
<1> HIDE DEF pair
<1>4. i \in DOMAIN cache /\ cache[i].pair = pair /\ cache[i] \in CacheEntry
  BY <1>1, <1>3 DEF Cached, Keyed
<1>5. Keyed(cache')
  BY <1>1, <1>2, <1>3, <1>4, OthersKept, EntryAdded
<1>6. /\ callers' \in [Callers -> Caller] /\ callers'[c].state = "told"
      /\ \A d \in Callers : d # c => callers'[d] = callers[d]
  <2>1. cache[i].outcome \in Outcomes \cup {"none"} /\ NoFlight \in Nat
    BY <1>4 DEF CacheEntry, Outcomes, NoFlight
  <2> QED
    BY <1>1, <1>3, <2>1, CallerMoves
<1>7. WaitersFollow'
  BY <1>1, <1>6 DEF WaitersFollow, Hit, Unsettled, Ids
<1> QED
  BY <1>1, <1>5, <1>6, <1>7, PoolStays DEF Hit, LookupTypeOK

LEMMA JoinKeeps == ASSUME LookupInv, NEW c \in Callers, Join(c) PROVE LookupInv'
<1>1. LookupTypeOK /\ WaitersFollow /\ FlightsLive /\ Keyed(cache)
  BY CacheKeyed DEF LookupInv, LookupsConsistent
<1> DEFINE pair == callers[c].pair
<1>2. pair \in Pairs /\ flights[pair] \in Nat
  BY <1>1 DEF LookupTypeOK, Caller
<1>3. flights[pair] \in Unsettled
  BY <1>1, <1>2 DEF Join, Joinable, FlightsLive
<1>4. Keyed(cache')
  BY <1>1, <1>2, OthersKept DEF Join
<1>5. /\ callers' \in [Callers -> Caller] /\ callers'[c].pair = pair /\ callers'[c].flight = flights[pair]
      /\ \A d \in Callers : d # c => callers'[d] = callers[d]
  BY <1>1, <1>2, CallerMoves DEF Join
<1>6. WaitersFollow'
  BY <1>1, <1>3, <1>5 DEF WaitersFollow, Join, Unsettled, Ids
<1> QED
  BY <1>1, <1>4, <1>5, <1>6, PoolStays DEF Join, LookupTypeOK

LEMMA BusyKeeps == ASSUME LookupInv, NEW c \in Callers, Busy(c) PROVE LookupInv'
<1>1. LookupTypeOK /\ WaitersFollow /\ Keyed(cache)
  BY CacheKeyed DEF LookupInv, LookupsConsistent
<1>2. callers[c].pair \in Pairs /\ NoFlight \in Nat
  BY <1>1 DEF LookupTypeOK, Caller, NoFlight
<1>3. Keyed(cache')
  BY <1>1, <1>2, OthersKept DEF Busy
<1>4. /\ callers' \in [Callers -> Caller] /\ callers'[c].state = "busy"
      /\ \A d \in Callers : d # c => callers'[d] = callers[d]
  BY <1>1, <1>2, CallerMoves DEF Busy
<1>5. WaitersFollow'
  BY <1>1, <1>4 DEF WaitersFollow, Busy, Unsettled, Ids
<1> QED
  BY <1>1, <1>3, <1>4, <1>5, PoolStays DEF Busy, LookupTypeOK

LEMMA WorldKeeps == LookupInv /\ (Tick \/ (\E pair \in Pairs : Confirm(pair)) \/ UNCHANGED lookupVars) => LookupInv'
<1> SUFFICES ASSUME LookupInv, Tick \/ (\E pair \in Pairs : Confirm(pair)) \/ UNCHANGED lookupVars PROVE LookupInv'
  OBVIOUS
<1>1. LookupTypeOK /\ WaitersFollow /\ Keyed(cache)
  BY CacheKeyed DEF LookupInv, LookupsConsistent
<1>2. UNCHANGED <<lookups, queue, active, flights, cache, callers>>
  BY DEF Tick, Confirm, lookupVars
<1>3. now' \in Nat /\ valid' \subseteq Pairs
  BY <1>1 DEF Tick, Confirm, lookupVars, LookupTypeOK
<1>4. WaitersFollow'
  BY <1>1, <1>2 DEF WaitersFollow, Unsettled, Ids
<1>5. Keyed(cache') /\ callers' \in [Callers -> Caller]
  BY <1>1, <1>2 DEF LookupTypeOK
<1> QED
  BY <1>2, <1>3, <1>4, <1>5, PoolStays

-----------------------------------------------------------------------------
(* Lookups *)

LEMMA InvParts ==
    LookupInv <=> /\ LookupTypeOK /\ SlotsHeld /\ OneLookup /\ WaitersFollow /\ CacheBounded
                  /\ StatesTell /\ QueuedOnce /\ FlightsLive
  BY DEF LookupInv, LookupsConsistent

LEMMA QueueFacts ==
    ASSUME LookupTypeOK
    PROVE  /\ Ids = 1..Len(lookups) /\ Len(lookups) \in Nat
           /\ Len(queue) \in Nat /\ DOMAIN queue = 1..Len(queue)
           /\ \A i \in DOMAIN queue : queue[i] \in Ids
           /\ queue # << >> <=> Len(queue) > 0
  BY DEF LookupTypeOK, Ids

\* A lookup is added to the ones there are.
LEMMA Added ==
    ASSUME LookupTypeOK, NEW new \in Lookup, lookups' = Append(lookups, new)
    PROVE  /\ lookups' \in Seq(Lookup) /\ Len(lookups) + 1 \notin Ids
           /\ Ids' = Ids \cup {Len(lookups) + 1}
           /\ lookups'[Len(lookups) + 1] = new
           /\ \A l \in Ids : lookups'[l] = lookups[l]
<1>1. lookups \in Seq(Lookup) /\ Ids = 1..Len(lookups) /\ Len(lookups) \in Nat
  BY QueueFacts DEF LookupTypeOK
<1>2. /\ lookups' \in Seq(Lookup) /\ Len(lookups') = Len(lookups) + 1
      /\ DOMAIN lookups' = 1..(Len(lookups) + 1)
      /\ lookups'[Len(lookups) + 1] = new
      /\ \A l \in 1..Len(lookups) : lookups'[l] = lookups[l]
  BY <1>1
<1>3. Ids' = DOMAIN lookups'
  BY DEF Ids
<1>4. 1..(Len(lookups) + 1) = (1..Len(lookups)) \cup {Len(lookups) + 1} /\ Len(lookups) + 1 \notin 1..Len(lookups)
  BY <1>1
<1> QED
  BY <1>1, <1>2, <1>3, <1>4

\* A new lookup: its caller waits for it, and it is its pair's flight.
LEMMA StartedKeeps ==
    ASSUME LookupInv, NEW c \in Callers, NEW state \in {"queued", "running"},
           ~Joinable(callers[c].pair),
           lookups' = Append(lookups, NewLookup(callers[c].pair, state)),
           flights' = [flights EXCEPT ![callers[c].pair] = Len(lookups) + 1],
           Becomes(c, "waiting", Len(lookups) + 1, "none"),
           cache' = Others(callers[c].pair), UNCHANGED <<now, valid>>,
           active' \in Nat, queue' \in Seq(Ids'), SlotsHeld', QueuedOnce'
    PROVE  LookupInv'
<1> DEFINE pair == callers[c].pair
           l == Len(lookups) + 1
           new == NewLookup(pair, state)
<1>1. /\ LookupTypeOK /\ WaitersFollow /\ StatesTell /\ FlightsLive /\ Keyed(cache)
  BY CacheKeyed, InvParts
<1>2. pair \in Pairs
  BY <1>1 DEF LookupTypeOK, Caller
<1>3. new \in Lookup /\ new.pair = pair /\ new.state = state /\ ~new.settled
  BY <1>2 DEF NewLookup, Lookup
<1>4. l \in Nat /\ Len(lookups) \in Nat
  BY <1>1, QueueFacts
<1>5. /\ lookups' \in Seq(Lookup) /\ l \notin Ids /\ Ids' = Ids \cup {l}
      /\ lookups'[l] = new /\ \A k \in Ids : lookups'[k] = lookups[k]
  <2> HIDE DEF new
  <2> QED
    BY <1>1, <1>3, Added DEF new
<1>6. /\ callers' \in [Callers -> Caller]
      /\ callers'[c].pair = pair /\ callers'[c].flight = l
      /\ \A d \in Callers : d # c => callers'[d] = callers[d]
  <2> HIDE DEF l
  <2> QED
    BY <1>1, <1>4, CallerMoves DEF l
<1>7. /\ flights' \in [Pairs -> Nat] /\ flights'[pair] = l
      /\ \A other \in Pairs : other # pair => flights'[other] = flights[other]
  BY <1>1, <1>2, <1>4 DEF LookupTypeOK
<1>8. Keyed(cache')
  BY <1>1, <1>2, OthersKept
<1>9. flights[pair] = NoFlight
  BY DEF Joinable
<1> HIDE DEF pair, l, new
<1>10. Unsettled' = Unsettled \cup {l}
  BY <1>3, <1>5 DEF Unsettled
<1>11. \A k \in Unsettled : lookups[k].pair # pair /\ lookups[k].pair \in Pairs /\ lookups'[k] = lookups[k]
  <2> SUFFICES ASSUME NEW k \in Unsettled PROVE lookups[k].pair # pair /\ lookups[k].pair \in Pairs /\ lookups'[k] = lookups[k]
    OBVIOUS
  <2>1. k \in Ids /\ flights[lookups[k].pair] = k
    BY <1>1 DEF Unsettled, FlightsLive
  <2>2. k # NoFlight /\ lookups[k].pair \in Pairs
    BY <1>1, <2>1, LookupFields DEF NoFlight
  <2> QED
    BY <1>5, <1>9, <2>1, <2>2
<1>12. FlightsLive'
  <2>1. \A k \in Unsettled' : flights'[lookups'[k].pair] = k
    <3> SUFFICES ASSUME NEW k \in Unsettled' PROVE flights'[lookups'[k].pair] = k
      OBVIOUS
    <3>1. CASE k = l
      BY <1>3, <1>5, <1>7, <3>1
    <3>2. CASE k \in Unsettled
      <4>1. flights[lookups[k].pair] = k
        BY <1>1, <3>2 DEF FlightsLive
      <4>2. lookups'[k] = lookups[k] /\ lookups[k].pair \in Pairs /\ lookups[k].pair # pair
        BY <1>11, <3>2
      <4>3. flights'[lookups[k].pair] = k
        BY <1>7, <4>1, <4>2
      <4> QED
        BY <4>2, <4>3
    <3> QED
      BY <1>10, <3>1, <3>2
  <2>2. ASSUME NEW other \in Pairs, flights'[other] # NoFlight
        PROVE  flights'[other] \in Unsettled' /\ lookups'[flights'[other]].pair = other
    <3>1. CASE other = pair
      BY <1>3, <1>5, <1>7, <1>10, <3>1
    <3>2. CASE other # pair
      <4>1. flights'[other] = flights[other]
        BY <1>7, <3>2
      <4>2. flights[other] \in Unsettled /\ lookups[flights[other]].pair = other
        BY <1>1, <2>2, <4>1 DEF FlightsLive
      <4>3. lookups'[flights[other]] = lookups[flights[other]]
        BY <1>11, <4>2
      <4>4. flights'[other] \in Unsettled'
        BY <1>10, <4>1, <4>2
      <4>5. lookups'[flights'[other]] = lookups[flights[other]]
        BY <4>1, <4>3
      <4>6. lookups'[flights'[other]].pair = other
        BY <4>2, <4>5
      <4> QED
        BY <4>4, <4>6
    <3> QED
      BY <3>1, <3>2
  <2> QED
    BY <2>1, <2>2 DEF FlightsLive, NoFlight
<1>13. WaitersFollow'
  <2> SUFFICES ASSUME NEW d \in Callers, callers'[d].state = "waiting"
               PROVE  callers'[d].flight \in Unsettled' /\ flights'[callers'[d].pair] = callers'[d].flight
    BY DEF WaitersFollow
  <2>1. CASE d = c
    BY <1>6, <1>7, <1>10, <2>1
  <2>2. CASE d # c
    <3>1. callers'[d] = callers[d] /\ callers[d].flight \in Unsettled /\ flights[callers[d].pair] = callers[d].flight
      BY <1>1, <1>6, <2>2 DEF WaitersFollow
    <3>2. callers[d].pair \in Pairs /\ callers[d].flight # NoFlight
      BY <1>1, <3>1, LookupFields DEF LookupTypeOK, Caller, Unsettled, NoFlight
    <3> QED
      BY <1>7, <1>9, <1>10, <3>1, <3>2
  <2> QED
    BY <2>1, <2>2
<1>14. StatesTell'
  BY <1>1, <1>3, <1>5 DEF StatesTell
<1>15. LookupTypeOK'
  BY <1>1, <1>5, <1>6, <1>7, <1>8, KeyedIsBounded DEF LookupTypeOK, Ids, Keyed
<1>16. CacheBounded'
  BY <1>8 DEF Keyed, CacheBounded
<1>17. OneLookup'
  BY <1>12, OneByFlight, PTL
<1> QED
  BY <1>12, <1>13, <1>14, <1>15, <1>16, <1>17 DEF LookupInv, LookupsConsistent

LEMMA StartKeeps == ASSUME LookupInv, NEW c \in Callers, StartLookup(c) PROVE LookupInv'
<1> DEFINE pair == callers[c].pair
           l == Len(lookups) + 1
<1>1. /\ LookupTypeOK /\ SlotsHeld /\ QueuedOnce
  BY InvParts
<1>2. pair \in Pairs /\ l \in Nat
  BY <1>1, QueueFacts DEF LookupTypeOK, Caller
<1>3. /\ Ids = 1..Len(lookups) /\ Len(lookups) \in Nat /\ Len(queue) \in Nat /\ DOMAIN queue = 1..Len(queue)
      /\ \A i \in DOMAIN queue : queue[i] \in Ids
      /\ queue # << >> <=> Len(queue) > 0
      /\ queue \in Seq(Ids) /\ active \in Nat /\ Concurrency \in Nat /\ PoolQueueLimit \in Nat
  BY <1>1, QueueFacts, PoolAssumption DEF LookupTypeOK, Ids
<1>4. Taken \subseteq Ids /\ IsFiniteSet(Taken) /\ Cardinality(Taken) = active
  BY <1>1, TakenFinite DEF Taken, In, SlotsHeld
<1>5. /\ ~Joinable(pair) /\ cache' = Others(pair) /\ flights' = [flights EXCEPT ![pair] = l]
      /\ Becomes(c, "waiting", l, "none") /\ UNCHANGED <<now, valid>>
  BY DEF StartLookup
<1>6. ASSUME NEW state \in {"queued", "running"}, lookups' = Append(lookups, NewLookup(pair, state))
      PROVE  /\ l \notin Ids /\ Ids' = Ids \cup {l}
             /\ \A other \in {"queued", "running", "ended"} :
                    In(other)' = IF other = state THEN In(other) \cup {l} ELSE In(other)
  <2> DEFINE new == NewLookup(pair, state)
  <2>1. new \in Lookup /\ new.state = state
    BY <1>2 DEF NewLookup, Lookup
  <2> HIDE DEF new
  <2>2. /\ l \notin Ids /\ Ids' = Ids \cup {l}
        /\ lookups'[l] = new /\ \A k \in Ids : lookups'[k] = lookups[k]
    BY <1>1, <1>6, <2>1, Added DEF new
  <2> QED
    BY <2>1, <2>2 DEF In
<1> HIDE DEF l, pair
<1>7. CASE SlotFree /\ lookups' = Append(lookups, NewLookup(pair, "running")) /\ active' = active + 1 /\ UNCHANGED queue
  <2>1. /\ l \notin Ids /\ Ids' = Ids \cup {l} /\ In("queued")' = In("queued")
        /\ In("running")' = In("running") \cup {l} /\ In("ended")' = In("ended")
    BY <1>6, <1>7
  <2>2. Taken' = Taken \cup {l} /\ l \notin Taken
    BY <1>4, <2>1 DEF Taken
  <2>3. Cardinality(Taken') = active'
    BY <1>3, <1>4, <1>7, <2>2, FS_AddElement
  <2>4. queue = << >>
    BY <1>1, <1>3, <1>7 DEF SlotsHeld, SlotFree
  <2>5. active' <= Concurrency /\ active' \in Nat
    BY <1>3, <1>7 DEF SlotFree
  <2>6. SlotsHeld'
    BY <1>1, <1>7, <2>1, <2>3, <2>4, <2>5 DEF SlotsHeld, Taken
  <2>7. QueuedOnce' /\ queue' \in Seq(Ids')
    BY <1>1, <1>3, <1>7, <2>1, <2>4 DEF QueuedOnce
  <2> QED
    BY <1>5, <1>7, <2>5, <2>6, <2>7, StartedKeeps DEF l, pair
<1>8. CASE ~SlotFree /\ ~PoolFull /\ lookups' = Append(lookups, NewLookup(pair, "queued"))
           /\ queue' = Append(queue, l) /\ UNCHANGED active
  <2>1. /\ l \notin Ids /\ Ids' = Ids \cup {l} /\ In("queued")' = In("queued") \cup {l}
        /\ In("running")' = In("running") /\ In("ended")' = In("ended")
    BY <1>6, <1>8
  <2>2. /\ queue' \in Seq(Ids') /\ Len(queue') = Len(queue) + 1 /\ DOMAIN queue' = 1..(Len(queue) + 1)
        /\ queue'[Len(queue) + 1] = l /\ \A i \in DOMAIN queue : queue'[i] = queue[i]
    <3>1. queue \in Seq(Ids') /\ l \in Ids'
      BY <1>3, <2>1
    <3> QED
      BY <1>3, <1>8, <3>1
  <2>3. \A i \in DOMAIN queue' : i \in DOMAIN queue \/ i = Len(queue) + 1
    BY <1>3, <2>2
  <2>4. QueuedOnce'
    BY <1>1, <1>3, <2>1, <2>2, <2>3 DEF QueuedOnce
  <2>5. {queue'[i] : i \in DOMAIN queue'} = {queue[i] : i \in DOMAIN queue} \cup {l}
    <3>1. DOMAIN queue \subseteq DOMAIN queue' /\ Len(queue) + 1 \in DOMAIN queue'
      BY <1>3, <2>2
    <3> QED
      BY <2>2, <2>3, <3>1
  <2>6. Len(queue') <= PoolQueueLimit
    BY <1>3, <1>8, <2>2 DEF PoolFull
  <2>7. active = Concurrency
    BY <1>1, <1>3, <1>8 DEF SlotFree, SlotsHeld
  <2>8. SlotsHeld'
    BY <1>1, <1>8, <2>1, <2>5, <2>6, <2>7 DEF SlotsHeld
  <2>9. active' \in Nat
    BY <1>3, <1>8
  <2> QED
    BY <1>5, <1>8, <2>2, <2>4, <2>8, <2>9, StartedKeeps DEF l, pair
<1> QED
  BY <1>7, <1>8 DEF StartLookup, l, pair

\* A lookup's callers are told, or it is settled already: its flight is over.
LEMMA SettledKeeps ==
    ASSUME LookupInv, NEW l \in Ids, NEW to \in {"running", "ended", "dropped"},
           lookups' = [lookups EXCEPT ![l].settled = TRUE, ![l].state = to],
           LeaveFlight(l), Keyed(cache'), UNCHANGED <<now, valid>>,
           callers' \in [Callers -> Caller],
           \A d \in Callers : callers'[d].state = "waiting" => callers'[d] = callers[d] /\ callers[d].flight # l,
           active' \in Nat, queue' \in Seq(Ids), SlotsHeld', QueuedOnce'
    PROVE  LookupInv'
<1>1. /\ LookupTypeOK /\ WaitersFollow /\ StatesTell /\ FlightsLive
  BY InvParts
<1>2. /\ lookups' \in Seq(Lookup) /\ Ids' = Ids
      /\ lookups'[l].pair = lookups[l].pair /\ lookups'[l].settled /\ lookups'[l].state = to
      /\ \A k \in Ids : k # l => lookups'[k] = lookups[k]
  <2>1. lookups[l] \in Lookup /\ lookups \in Seq(Lookup)
    BY <1>1, LookupFields DEF LookupTypeOK
  <2>2. [lookups[l] EXCEPT !.settled = TRUE, !.state = to] \in Lookup
    BY <2>1 DEF Lookup
  <2>3. l \in DOMAIN lookups
    BY DEF Ids
  <2> DEFINE changed == [lookups[l] EXCEPT !.settled = TRUE, !.state = to]
  <2>4. changed \in Lookup /\ changed.pair = lookups[l].pair /\ changed.settled = TRUE /\ changed.state = to
    BY <2>1 DEF Lookup
  <2>5. lookups' = [lookups EXCEPT ![l] = changed]
    BY <2>1, <2>3 DEF Lookup
  <2> HIDE DEF changed
  <2>6. lookups' \in Seq(Lookup) /\ DOMAIN lookups' = DOMAIN lookups /\ lookups'[l] = changed
    <3>1. DOMAIN lookups' = DOMAIN lookups /\ lookups'[l] = changed
      BY <2>3, <2>5
    <3>2. Len(lookups) \in Nat /\ lookups \in [1..Len(lookups) -> Lookup]
      BY <2>1
    <3>3. lookups' \in [1..Len(lookups) -> Lookup]
      BY <2>4, <2>5, <3>2
    <3>4. \A n \in Nat : \A f \in [1..n -> Lookup] : f \in Seq(Lookup)
      OBVIOUS
    <3>5. lookups' \in Seq(Lookup)
      BY <3>2, <3>3, <3>4
    <3> QED
      BY <3>1, <3>5
  <2>7. \A k \in DOMAIN lookups : k # l => lookups'[k] = lookups[k]
    BY <2>5
  <2> QED
    BY <2>4, <2>6, <2>7 DEF Ids
<1>3. Unsettled' = Unsettled \ {l}
  BY <1>2 DEF Unsettled
<1>4. \A k \in Unsettled : k \in Ids /\ lookups[k].pair \in Pairs /\ flights[lookups[k].pair] = k
  BY <1>1, LookupFields DEF Unsettled, FlightsLive
<1>5. /\ flights' \in [Pairs -> Nat]
      /\ \A pair \in Pairs : flights'[pair] = IF flights[pair] = l THEN NoFlight ELSE flights[pair]
  BY <1>1 DEF LeaveFlight, LookupTypeOK, NoFlight
<1>6. FlightsLive'
  <2>1. ASSUME NEW k \in Unsettled' PROVE flights'[lookups'[k].pair] = k
    <3>1. k \in Unsettled /\ k # l /\ k \in Ids
      BY <1>3 DEF Unsettled
    <3>2. lookups'[k] = lookups[k] /\ flights[lookups[k].pair] = k /\ lookups[k].pair \in Pairs
      BY <1>2, <1>4, <3>1
    <3>3. flights'[lookups[k].pair] = k
      BY <1>5, <3>1, <3>2
    <3> QED
      BY <3>2, <3>3
  <2>2. ASSUME NEW pair \in Pairs, flights'[pair] # NoFlight
        PROVE  flights'[pair] \in Unsettled' /\ lookups'[flights'[pair]].pair = pair
    <3>1. flights'[pair] = flights[pair] /\ flights[pair] # l /\ flights[pair] # NoFlight
      BY <1>5, <2>2
    <3>2. flights[pair] \in Unsettled /\ lookups[flights[pair]].pair = pair /\ flights[pair] \in Ids
      BY <1>1, <3>1 DEF FlightsLive, Unsettled
    <3>3. flights'[pair] \in Unsettled'
      BY <1>3, <3>1, <3>2
    <3>4. lookups'[flights[pair]] = lookups[flights[pair]]
      BY <1>2, <3>1, <3>2
    <3>5. lookups'[flights'[pair]].pair = pair
      BY <3>1, <3>2, <3>4
    <3> QED
      BY <3>3, <3>5
  <2> QED
    BY <2>1, <2>2 DEF FlightsLive, NoFlight
<1>7. WaitersFollow'
  <2> SUFFICES ASSUME NEW d \in Callers, callers'[d].state = "waiting"
               PROVE  callers'[d].flight \in Unsettled' /\ flights'[callers'[d].pair] = callers'[d].flight
    BY DEF WaitersFollow
  <2>1. /\ callers'[d] = callers[d] /\ callers[d].flight # l /\ callers[d].pair \in Pairs
        /\ callers[d].flight \in Unsettled /\ flights[callers[d].pair] = callers[d].flight
    BY <1>1 DEF WaitersFollow, LookupTypeOK, Caller
  <2> QED
    BY <1>3, <1>5, <2>1
<1>8. StatesTell'
  BY <1>1, <1>2 DEF StatesTell
<1>9. LookupTypeOK'
  BY <1>1, <1>2, <1>5 DEF LookupTypeOK, Ids, Keyed
<1>10. CacheBounded'
  BY DEF Keyed, CacheBounded
<1>11. OneLookup'
  BY <1>6, OneByFlight, PTL
<1> QED
  BY <1>6, <1>7, <1>8, <1>9, <1>10, <1>11 DEF LookupInv, LookupsConsistent

LEMMA SettledCallers ==
    ASSUME LookupTypeOK, NEW l \in Ids, NEW state \in {"told", "late"}, NEW outcome \in Outcomes \cup {"none"},
           SettleCallers(l, state, outcome)
    PROVE  /\ callers' \in [Callers -> Caller]
           /\ \A d \in Callers : callers'[d].state = "waiting" => callers'[d] = callers[d] /\ callers[d].flight # l
<1>1. l \in Nat
  BY LookupFields
<1>2. \A d \in Callers : callers[d] \in Caller
  BY DEF LookupTypeOK
<1>3. \A d \in Callers : [pair |-> callers[d].pair, state |-> state, flight |-> l, outcome |-> outcome] \in Caller
  BY <1>1, <1>2 DEF Caller
<1> QED
  BY <1>2, <1>3 DEF SettleCallers

LEMMA StatesAfter ==
    ASSUME LookupTypeOK, NEW l \in Ids, NEW to \in {"running", "ended", "dropped"},
           lookups' = [lookups EXCEPT ![l].settled = TRUE, ![l].state = to]
    PROVE  \A state \in {"queued", "running", "ended"} :
               In(state)' = IF state = to THEN In(state) \cup {l} ELSE In(state) \ {l}
<1>1. lookups[l] \in Lookup
  BY LookupFields
<1>2. DOMAIN lookups' = DOMAIN lookups /\ l \in DOMAIN lookups
  BY DEF Ids
<1>3. lookups'[l].state = to
  BY <1>1, <1>2 DEF Lookup
<1>4. \A k \in DOMAIN lookups : k # l => lookups'[k] = lookups[k]
  OBVIOUS
<1> HIDE DEF Ids
<1>5. Ids' = Ids
  BY <1>2 DEF Ids
<1> QED
  BY <1>3, <1>4, <1>5 DEF In, Ids

LEMMA TimeoutKeeps == ASSUME LookupInv, NEW l \in Ids, Timeout(l) PROVE LookupInv'
<1> DEFINE places == {i \in DOMAIN queue : queue[i] = l}
           rest == Without(queue, places)
           to == AfterTimeout(l)
<1>1. LookupTypeOK /\ SlotsHeld /\ QueuedOnce /\ StatesTell /\ Keyed(cache)
  BY InvParts, CacheKeyed
<1>2. lookups[l].state \in {"queued", "running"}
  BY <1>1, LookupFields DEF Timeout, StatesTell
<1>3. /\ to \in {"running", "ended", "dropped"} /\ to # "ended"
      /\ to = "running" <=> lookups[l].state = "running"
  BY <1>2 DEF AfterTimeout
<1>4. lookups' = [lookups EXCEPT ![l].settled = TRUE, ![l].state = to]
  BY DEF Timeout
<1>5. /\ queue \in Seq(Ids) /\ places \in SUBSET DOMAIN queue /\ \A i, j \in places : i = j
      /\ queue' = rest
  BY <1>1 DEF LookupTypeOK, Ids, QueuedOnce, Timeout
<1> HIDE DEF to
<1>6. /\ In("queued")' = In("queued") \ {l}
      /\ In("running")' = In("running") /\ In("ended")' = In("ended")
  <2>1. \A state \in {"queued", "running", "ended"} :
            In(state)' = IF state = to THEN In(state) \cup {l} ELSE In(state) \ {l}
    BY <1>1, <1>3, <1>4, StatesAfter
  <2>2. /\ In("queued")' = In("queued") \ {l} /\ In("ended")' = In("ended") \ {l}
        /\ In("running")' = IF "running" = to THEN In("running") \cup {l} ELSE In("running") \ {l}
    BY <1>3, <2>1
  <2>3. l \notin In("ended") /\ (l \in In("running") <=> to = "running")
    BY <1>2, <1>3 DEF In
  <2> QED
    BY <2>2, <2>3
<1>7. /\ queue' \in Seq(Ids) /\ Len(queue') = IF places = {} THEN Len(queue) ELSE Len(queue) - 1
      /\ \E from \in [DOMAIN queue' -> DOMAIN queue \ places] :
            /\ \A i \in DOMAIN queue' : queue'[i] = queue[from[i]]
            /\ \A i, j \in DOMAIN queue' : from[i] = from[j] => i = j
            /\ \A j \in DOMAIN queue \ places : \E i \in DOMAIN queue' : from[i] = j
  <2> HIDE DEF places
  <2>1. /\ rest \in Seq(Ids) /\ Len(rest) = IF places = {} THEN Len(queue) ELSE Len(queue) - 1
    BY <1>5, Kept
  <2>2. \E from \in [DOMAIN rest -> DOMAIN queue \ places] :
            /\ \A i \in DOMAIN rest : rest[i] = queue[from[i]]
            /\ \A i, j \in DOMAIN rest : from[i] = from[j] => i = j
            /\ \A j \in DOMAIN queue \ places : \E i \in DOMAIN rest : from[i] = j
    BY <1>5, Kept
  <2> HIDE DEF rest
  <2> QED
    BY <1>5, <2>1, <2>2
<1>8. PICK from \in [DOMAIN queue' -> DOMAIN queue \ places] :
            /\ \A i \in DOMAIN queue' : queue'[i] = queue[from[i]]
            /\ \A i, j \in DOMAIN queue' : from[i] = from[j] => i = j
            /\ \A j \in DOMAIN queue \ places : \E i \in DOMAIN queue' : from[i] = j
  BY <1>7
<1>9. QueuedOnce'
  BY <1>1, <1>8 DEF QueuedOnce
<1>10. {queue'[i] : i \in DOMAIN queue'} = In("queued")'
  <2>1. \A i \in DOMAIN queue' : queue'[i] \in In("queued") \ {l}
    BY <1>1, <1>8 DEF SlotsHeld
  <2>2. \A k \in In("queued") \ {l} : \E i \in DOMAIN queue' : queue'[i] = k
    <3> SUFFICES ASSUME NEW k \in In("queued"), k # l PROVE \E i \in DOMAIN queue' : queue'[i] = k
      OBVIOUS
    <3>1. PICK j \in DOMAIN queue : queue[j] = k
      BY <1>1 DEF SlotsHeld
    <3>2. j \in DOMAIN queue \ places
      BY <3>1
    <3> QED
      BY <1>8, <3>1, <3>2
  <2> QED
    BY <1>6, <2>1, <2>2
<1>11. Len(queue) \in Nat /\ Len(queue) <= PoolQueueLimit /\ PoolQueueLimit \in Nat /\ (queue # << >> <=> Len(queue) > 0)
  BY <1>1, QueueFacts, PoolAssumption DEF SlotsHeld
<1> HIDE DEF places
<1>12. Len(queue') <= PoolQueueLimit
  BY <1>7, <1>11
<1>13. queue' # << >> => queue # << >>
  <2>1. queue' # << >> => Len(queue') > 0
    BY <1>7
  <2> QED
    BY <1>7, <1>11, <2>1
<1>14. SlotsHeld'
  BY <1>1, <1>6, <1>10, <1>12, <1>13 DEF SlotsHeld, Timeout
<1>15. /\ callers' \in [Callers -> Caller]
       /\ \A d \in Callers : callers'[d].state = "waiting" => callers'[d] = callers[d] /\ callers[d].flight # l
  BY <1>1, SettledCallers DEF Timeout
<1>16. active' \in Nat /\ Keyed(cache') /\ LeaveFlight(l) /\ UNCHANGED <<now, valid>>
  BY <1>1 DEF Timeout, LookupTypeOK
<1> QED
  BY <1>3, <1>4, <1>7, <1>9, <1>14, <1>15, <1>16, SettledKeeps

LEMMA WorkKeeps == ASSUME LookupInv, NEW l \in Ids, NEW outcome \in Outcomes, Work(l, outcome) PROVE LookupInv'
<1>1. LookupTypeOK /\ SlotsHeld /\ QueuedOnce /\ WaitersFollow /\ Keyed(cache)
  BY InvParts, CacheKeyed
<1>2. lookups' = [lookups EXCEPT ![l].settled = TRUE, ![l].state = "ended"]
  BY DEF Work
<1>3. /\ In("queued")' = In("queued") /\ (In("running") \cup In("ended"))' = In("running") \cup In("ended")
  <2>1. l \in In("running") /\ l \notin In("queued")
    BY DEF Work, In
  <2>2. \A state \in {"queued", "running", "ended"} :
            In(state)' = IF state = "ended" THEN In(state) \cup {l} ELSE In(state) \ {l}
    BY <1>1, <1>2, StatesAfter
  <2>3. /\ In("queued")' = In("queued") \ {l} /\ In("ended")' = In("ended") \cup {l}
        /\ In("running")' = In("running") \ {l}
    BY <2>2
  <2> QED
    BY <2>1, <2>3
<1>4. Keyed(cache')
  <2>1. lookups[l].pair \in Pairs /\ now \in Nat
    BY <1>1, LookupFields DEF LookupTypeOK
  <2> QED
    BY <1>1, <2>1, RememberKeeps DEF Work
<1>5. /\ callers' \in [Callers -> Caller]
      /\ \A d \in Callers : callers'[d].state = "waiting" => callers'[d] = callers[d] /\ callers[d].flight # l
  <2>1. CASE lookups[l].settled
    <3>1. callers' = callers /\ l \notin Unsettled
      BY <2>1 DEF Work, Unsettled
    <3> QED
      BY <1>1, <3>1 DEF WaitersFollow, LookupTypeOK
  <2>2. CASE ~lookups[l].settled
    BY <1>1, <2>2, SettledCallers DEF Work
  <2> QED
    BY <2>1, <2>2
<1>6. SlotsHeld' /\ QueuedOnce'
  BY <1>1, <1>3 DEF SlotsHeld, QueuedOnce, Work
<1>7. active' \in Nat /\ queue' \in Seq(Ids) /\ LeaveFlight(l) /\ UNCHANGED <<now, valid>>
  BY <1>1 DEF Work, LookupTypeOK, Ids
<1> QED
  BY <1>2, <1>4, <1>5, <1>6, <1>7, SettledKeeps

\* A slot changes hands: nothing the callers know of changes.
LEMMA SlotsKeep ==
    ASSUME LookupInv, lookups' \in Seq(Lookup), Ids' = Ids,
           \A k \in Ids : lookups'[k].pair = lookups[k].pair /\ lookups'[k].settled = lookups[k].settled,
           UNCHANGED <<now, valid, flights, cache, callers>>,
           active' \in Nat, queue' \in Seq(Ids), SlotsHeld', QueuedOnce', StatesTell'
    PROVE  LookupInv'
<1>1. LookupTypeOK /\ WaitersFollow /\ CacheBounded /\ FlightsLive
  BY InvParts
<1>2. Unsettled' = Unsettled /\ Unsettled \subseteq Ids
  BY DEF Unsettled
<1>3. LookupTypeOK' /\ WaitersFollow' /\ CacheBounded'
  BY <1>1, <1>2 DEF LookupTypeOK, WaitersFollow, CacheBounded, Ids
<1>4. FlightsLive'
  <2>1. \A k \in Unsettled' : flights'[lookups'[k].pair] = k
    BY <1>1, <1>2 DEF FlightsLive
  <2>2. ASSUME NEW pair \in Pairs, flights'[pair] # NoFlight
        PROVE  flights'[pair] \in Unsettled' /\ lookups'[flights'[pair]].pair = pair
    <3>1. flights' = flights
      OBVIOUS
    <3>2. flights[pair] \in Unsettled /\ lookups[flights[pair]].pair = pair
      BY <1>1, <2>2, <3>1 DEF FlightsLive
    <3>3. lookups'[flights[pair]].pair = pair
      BY <1>2, <3>2
    <3> QED
      BY <1>2, <3>1, <3>2, <3>3
  <2> QED
    BY <2>1, <2>2 DEF FlightsLive, NoFlight
<1>5. OneLookup'
  BY <1>4, OneByFlight, PTL
<1> QED
  BY <1>3, <1>4, <1>5 DEF LookupInv, LookupsConsistent

LEMMA FreeSlotKeeps == ASSUME LookupInv, NEW l \in Ids, FreeSlot(l) PROVE LookupInv'
<1>1. LookupTypeOK /\ SlotsHeld /\ QueuedOnce /\ StatesTell
  BY InvParts
<1>2. /\ Len(queue) \in Nat /\ DOMAIN queue = 1..Len(queue) /\ (queue # << >> <=> Len(queue) > 0)
      /\ queue \in Seq(Ids) /\ active \in Nat
  BY <1>1, QueueFacts DEF LookupTypeOK, Ids
<1>3. \A i \in DOMAIN queue : queue[i] \in Ids /\ lookups[queue[i]].state = "queued" /\ i \in StillWaiting
  <2>1. \A i \in DOMAIN queue : queue[i] \in In("queued")
    BY <1>1 DEF SlotsHeld
  <2> QED
    BY <1>1, <2>1 DEF In, StatesTell, StillWaiting
<1>4. IsFiniteSet(Taken) /\ Cardinality(Taken) = active /\ l \in Taken /\ lookups[l].state = "ended"
  BY <1>1, TakenFinite DEF Taken, In, SlotsHeld, FreeSlot
<1>5. Cardinality(Taken \ {l}) = active - 1 /\ IsFiniteSet(Taken \ {l})
  BY <1>4, FS_RemoveElement
<1>6. lookups \in Seq(Lookup) /\ lookups[l] \in Lookup /\ lookups[l].settled /\ Len(lookups) \in Nat /\ Ids = 1..Len(lookups)
  BY <1>1, <1>4, LookupFields, QueueFacts DEF LookupTypeOK, StatesTell
<1>7. UNCHANGED <<now, valid, flights, cache, callers>>
  BY DEF FreeSlot
<1>8. \A n \in Nat : \A f \in [1..n -> Lookup] : f \in Seq(Lookup)
  OBVIOUS
<1>9. CASE StillWaiting = {} /\ lookups' = [lookups EXCEPT ![l].state = "freed"] /\ queue' = << >> /\ active' = active - 1
  <2>1. queue = << >> /\ In("queued") = {}
    <3>1. DOMAIN queue = {}
      BY <1>3, <1>9
    <3> QED
      BY <1>1, <1>2, <3>1 DEF SlotsHeld
  <2>2. /\ lookups' \in Seq(Lookup) /\ Ids' = Ids
        /\ lookups'[l].pair = lookups[l].pair /\ lookups'[l].settled = lookups[l].settled /\ lookups'[l].state = "freed"
        /\ \A k \in Ids : k # l => lookups'[k] = lookups[k]
    <3> DEFINE freed == [lookups[l] EXCEPT !.state = "freed"]
    <3>1. freed \in Lookup /\ freed.pair = lookups[l].pair /\ freed.settled = lookups[l].settled /\ freed.state = "freed"
      BY <1>6 DEF Lookup
    <3>2. lookups' = [lookups EXCEPT ![l] = freed]
      BY <1>9
    <3> HIDE DEF freed
    <3>3. lookups \in [1..Len(lookups) -> Lookup] /\ l \in 1..Len(lookups)
      BY <1>6
    <3>4. lookups' \in [1..Len(lookups) -> Lookup] /\ lookups'[l] = freed
      BY <3>1, <3>2, <3>3
    <3>5. Ids' = Ids
      BY <1>6, <3>4 DEF Ids
    <3>6. \A k \in Ids : k # l => lookups'[k] = lookups[k]
      BY <1>6, <3>2, <3>3
    <3> QED
      BY <1>6, <1>8, <3>1, <3>4, <3>5, <3>6
  <2>3. In("queued")' = {} /\ Taken' = Taken \ {l}
    BY <1>4, <2>1, <2>2 DEF In, Taken
  <2>4. active' \in Nat
    <3>1. Cardinality(Taken \ {l}) \in Nat
      BY <1>5, FS_CardinalityType
    <3> QED
      BY <1>5, <1>9, <3>1
  <2>5. SlotsHeld'
    <3>1. {queue'[i] : i \in DOMAIN queue'} = {} /\ Len(queue') = 0
      BY <1>9
    <3>2. active' <= Concurrency /\ 0 <= PoolQueueLimit
      BY <1>1, <1>2, <1>9, PoolAssumption DEF SlotsHeld
    <3>3. active' = Cardinality(Taken')
      BY <1>5, <1>9, <2>3
    <3> QED
      BY <1>9, <2>3, <3>1, <3>2, <3>3 DEF SlotsHeld, Taken
  <2>6. QueuedOnce' /\ queue' \in Seq(Ids)
    BY <1>9 DEF QueuedOnce
  <2>7. StatesTell'
    BY <1>1, <1>6, <2>2 DEF StatesTell
  <2> QED
    BY <1>7, <2>2, <2>4, <2>5, <2>6, <2>7, SlotsKeep
<1>10. ASSUME NEW i \in StillWaiting,
              \A j \in StillWaiting : i <= j,
              lookups' = [lookups EXCEPT ![l].state = "freed",
                                         ![queue[i]] = NewLookup(lookups[queue[i]].pair, "running")],
              queue' = SubSeq(queue, i + 1, Len(queue)), active' = active
       PROVE  LookupInv'
  <2>1. i \in DOMAIN queue /\ i = 1 /\ Len(queue) > 0
    <3>1. i \in DOMAIN queue /\ 1 \in DOMAIN queue
      BY <1>2, <1>10 DEF StillWaiting
    <3>2. i <= 1
      BY <1>3, <1>10, <3>1
    <3> QED
      BY <1>2, <3>1, <3>2
  <2> DEFINE next == queue[1]
  <2>2. next \in Ids /\ lookups[next].state = "queued" /\ next # l /\ lookups[next] \in Lookup
    BY <1>1, <1>3, <1>4, <2>1, LookupFields
  <2>3. /\ lookups' \in Seq(Lookup) /\ Ids' = Ids
        /\ lookups'[l].pair = lookups[l].pair /\ lookups'[l].settled = lookups[l].settled /\ lookups'[l].state = "freed"
        /\ lookups'[next].pair = lookups[next].pair /\ lookups'[next].settled = lookups[next].settled
        /\ lookups'[next].state = "running"
        /\ \A k \in Ids : k # l /\ k # next => lookups'[k] = lookups[k]
    <3> DEFINE freed == [lookups[l] EXCEPT !.state = "freed"]
               started == NewLookup(lookups[next].pair, "running")
    <3>1. freed \in Lookup /\ freed.pair = lookups[l].pair /\ freed.settled = lookups[l].settled /\ freed.state = "freed"
      BY <1>6 DEF Lookup
    <3>2. /\ started \in Lookup /\ started.pair = lookups[next].pair /\ started.settled = lookups[next].settled
          /\ started.state = "running"
      <4>1. started \in Lookup /\ started.pair = lookups[next].pair /\ started.state = "running" /\ started.settled = FALSE
        BY <2>2 DEF NewLookup, Lookup
      <4>2. ~lookups[next].settled /\ lookups[next].settled \in BOOLEAN
        BY <1>1, <2>2, LookupFields DEF StatesTell
      <4>3. lookups[next].settled = FALSE
        BY <4>2
      <4> QED
        BY <4>1, <4>3
    <3>3. lookups \in [1..Len(lookups) -> Lookup] /\ l \in 1..Len(lookups) /\ next \in 1..Len(lookups)
      BY <1>6, <2>2
    <3>4. lookups' = [[lookups EXCEPT ![l] = freed] EXCEPT ![next] = started]
      <4> HIDE DEF next
      <4> QED
        BY <1>10, <2>1, <2>2, <3>3 DEF next
    <3> HIDE DEF freed, started, next
    <3>5. lookups' \in [1..Len(lookups) -> Lookup] /\ lookups'[l] = freed /\ lookups'[next] = started
      BY <2>2, <3>1, <3>2, <3>3, <3>4
    <3>6. Ids' = Ids
      BY <1>6, <3>5 DEF Ids
    <3>7. \A k \in Ids : k # l /\ k # next => lookups'[k] = lookups[k]
      BY <1>6, <3>3, <3>4
    <3> QED
      BY <1>6, <1>8, <3>1, <3>2, <3>5, <3>6, <3>7
  <2>4. /\ queue' \in Seq(Ids) /\ Len(queue') = Len(queue) - 1 /\ DOMAIN queue' = 1..(Len(queue) - 1)
        /\ \A j \in 1..(Len(queue) - 1) : queue'[j] = queue[j + 1] /\ j + 1 \in DOMAIN queue
    BY <1>2, <1>10, <2>1
  <2> HIDE DEF next
  <2>5. In("queued")' = In("queued") \ {next} /\ Taken' = (Taken \ {l}) \cup {next} /\ next \notin Taken
    BY <1>4, <2>2, <2>3 DEF In, Taken
  <2>6. Cardinality(Taken') = active
    <3>1. Cardinality((Taken \ {l}) \cup {next}) = Cardinality(Taken \ {l}) + 1
      BY <1>5, <2>5, FS_AddElement
    <3> QED
      BY <1>2, <1>5, <2>5, <3>1
  <2>7. {queue'[j] : j \in DOMAIN queue'} = In("queued") \ {next}
    <3>1. \A j \in DOMAIN queue' : queue'[j] \in In("queued") /\ queue'[j] # next
      <4> SUFFICES ASSUME NEW j \in DOMAIN queue' PROVE queue'[j] \in In("queued") /\ queue'[j] # next
        OBVIOUS
      <4>1. queue'[j] = queue[j + 1] /\ j + 1 \in DOMAIN queue /\ j + 1 # 1
        BY <1>2, <2>4
      <4>2. queue[j + 1] # queue[1]
        BY <1>1, <1>2, <2>1, <4>1 DEF QueuedOnce
      <4> QED
        BY <1>1, <4>1, <4>2 DEF SlotsHeld, next
    <3>2. ASSUME NEW k \in In("queued"), k # next PROVE \E j \in DOMAIN queue' : queue'[j] = k
      <4>1. PICK j \in DOMAIN queue : queue[j] = k
        BY <1>1 DEF SlotsHeld
      <4>2. j # 1
        BY <3>2, <4>1 DEF next
      <4>3. j - 1 \in 1..(Len(queue) - 1) /\ (j - 1) + 1 = j
        BY <1>2, <4>1, <4>2
      <4>4. queue'[j - 1] = k
        BY <2>4, <4>1, <4>3
      <4> QED
        BY <2>4, <4>3, <4>4
    <3> QED
      BY <3>1, <3>2
  <2>8. SlotsHeld'
    <3>1. Len(queue') <= PoolQueueLimit /\ active = Concurrency /\ active <= Concurrency
      BY <1>1, <1>2, <2>1, <2>4, PoolAssumption DEF SlotsHeld
    <3> QED
      BY <1>10, <2>5, <2>6, <2>7, <3>1 DEF SlotsHeld, Taken
  <2>9. QueuedOnce'
    <3> SUFFICES ASSUME NEW j \in DOMAIN queue', NEW k \in DOMAIN queue', queue'[j] = queue'[k] PROVE j = k
      BY DEF QueuedOnce
    <3>1. queue[j + 1] = queue[k + 1] /\ j + 1 \in DOMAIN queue /\ k + 1 \in DOMAIN queue
      BY <2>4
    <3>2. j + 1 = k + 1
      BY <1>1, <3>1 DEF QueuedOnce
    <3> QED
      BY <1>2, <2>4, <3>2
  <2>10. StatesTell'
    BY <1>1, <1>6, <2>2, <2>3 DEF StatesTell
  <2>11. active' \in Nat
    BY <1>2, <1>10
  <2>12. \A k \in Ids : lookups'[k].pair = lookups[k].pair /\ lookups'[k].settled = lookups[k].settled
    BY <2>3
  <2> QED
    BY <1>7, <2>3, <2>4, <2>8, <2>9, <2>10, <2>11, <2>12, SlotsKeep
<1> QED
  BY <1>9, <1>10 DEF FreeSlot

LEMMA LookupKeeps == LookupInv /\ [LookupNext]_lookupVars => LookupInv'
<1> SUFFICES ASSUME LookupInv, [LookupNext]_lookupVars PROVE LookupInv'
  OBVIOUS
<1>1. ASSUME NEW c \in Callers, Hit(c) \/ Join(c) \/ StartLookup(c) \/ Busy(c) PROVE LookupInv'
  BY <1>1, HitKeeps, JoinKeeps, StartKeeps, BusyKeeps
<1>2. ASSUME NEW l \in Ids, LookupStep(l) PROVE LookupInv'
  BY <1>2, TimeoutKeeps, FreeSlotKeeps, WorkKeeps DEF LookupStep
<1>3. CASE Tick \/ (\E pair \in Pairs : Confirm(pair)) \/ UNCHANGED lookupVars
  BY <1>3, WorldKeeps
<1> QED
  BY <1>1, <1>2, <1>3 DEF LookupNext

\* Whatever times out, joins, settles or is refused, and in whichever order: the
\* slots counted are the slots taken, each pair has one lookup, each waiting caller
\* waits for it, and the cache stays within its size (BoundedWorkPool, #resolvePair).
THEOREM LookupsStayConsistent == LookupSpec => []LookupsConsistent
<1>1. LookupInv => LookupsConsistent
  BY DEF LookupInv
<1> QED
  BY <1>1, LookupStarts, LookupKeeps, PTL DEF LookupSpec
=============================================================================
