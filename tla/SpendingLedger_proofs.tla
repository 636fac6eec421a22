----------------------- MODULE SpendingLedger_proofs -----------------------
(***************************************************************************)
(* Proofs about SpendingLedger, for every set of wallets, hashes and       *)
(* policies and without the bounds' help.                                  *)
(***************************************************************************)
EXTENDS SpendingLedger, FiniteSetTheorems, TLAPS

\* What makes the invariants inductive: unrecorded rows are blank, finitely many
\* rows are recorded, no policy means no spending yet, and a waiting call shows a token the relayer was given.
Blank == \A op \in Operations : rows[op].state = "absent" => rows[op] = AbsentRow
Unset == stored = None => attempts = 0 /\ payouts = 0 /\ reservedFee = 0 /\ active = None
CallsCurrent == \A call \in calls : call.policy = env.policy
CallsPriced == \A call \in calls : call.method = "reserve" => call.fee = call.policy.maxFee
TokensGiven == \A call \in calls : call.method # "reserve" => call.token \in permits

\* What checkedState recomputes, apart from the order of a row's dates.
Sound(policy) ==
    /\ \A op \in Recorded : ColumnsConsistent(op, policy)
    /\ TotalsConsistent(policy)
Intact == IF stored = None THEN Recorded = {} ELSE Sound(stored)

IInv ==
    /\ TypeOK
    /\ Blank
    /\ IsFiniteSet(Recorded)
    /\ Unset
    /\ CallsCurrent
    /\ CallsPriced
    /\ TokensGiven
    /\ Intact
    /\ EvidenceReservedOnce
    /\ PermissionOnce
    /\ PermitRequired
    /\ NoncesDistinct

\* NULL is not an operation: it is not a record with a source wallet.
LEMMA NoneNotOperation == None \notin Operations
  BY NoneAssumption

-----------------------------------------------------------------------------
(* Initially *)

LEMMA InitIInv == Init => IInv
<1> SUFFICES ASSUME Init PROVE IInv
  OBVIOUS
<1>1. AbsentRow \in Row
  BY DEF AbsentRow, UnsignedRow, Row, States, NoNonce, NoReceipt
<1>2. Recorded = {}
  BY DEF Init, Recorded, AbsentRow, UnsignedRow
<1>3. TypeOK
  BY <1>1 DEF Init, TypeOK
<1>4. IsFiniteSet(Recorded)
  BY <1>2, FS_EmptySet
<1> QED
  BY <1>2, <1>3, <1>4 DEF Init, IInv, Blank, Unset, CallsCurrent, CallsPriced, TokensGiven, Intact, EvidenceReservedOnce,
     PermissionOnce, PermitRequired, NoncesDistinct, SignedStates, AbsentRow, UnsignedRow

-----------------------------------------------------------------------------
(* Steps that leave the rows alone *)

LEMMA QuietStep ==
    ASSUME IInv, UNCHANGED <<ledger, permits, granted>>,
           env' \in [policy : Policies, enabled : BOOLEAN],
           now' \in Nat, calls' \subseteq Call, CallsCurrent', CallsPriced', TokensGiven'
    PROVE  IInv'
<1>1. /\ UNCHANGED <<stored, attempts, payouts, reservedFee, active, rows, permits, granted>>
      /\ Recorded' = Recorded /\ Active' = Active
  BY DEF ledger, totals, Recorded, Active
<1>2. TypeOK'
  BY <1>1 DEF IInv, TypeOK
<1>3. Intact'
  BY <1>1 DEF IInv, Intact, Sound, TotalsConsistent, ColumnsConsistent
<1> QED
  BY <1>1, <1>2, <1>3 DEF IInv, Blank, Unset, EvidenceReservedOnce, PermissionOnce, PermitRequired,
     NoncesDistinct

LEMMA ReceiveStep ==
    ASSUME IInv, NEW call \in Call, Receive(call), call.policy = env.policy,
           call.method = "reserve" => call.fee = call.policy.maxFee,
           call.method # "reserve" => call.token \in permits
    PROVE  IInv'
<1>1. calls' \subseteq Call /\ CallsCurrent' /\ CallsPriced' /\ TokensGiven'
  BY DEF IInv, TypeOK, CallsCurrent, CallsPriced, TokensGiven, Receive
<1> QED
  BY <1>1, QuietStep DEF Receive, IInv, TypeOK

-----------------------------------------------------------------------------
(* reserve *)

\* The counters follow the number of recorded rows when one more is recorded.
LEMMA ReserveStep ==
    ASSUME IInv, NEW call \in calls, call.method = "reserve", Reserve(call),
           calls' = calls \ {call}, UNCHANGED <<env, now>>
    PROVE  IInv'
<1> DEFINE op == call.op
           new == UnsignedRow("admitted", call.fee, now)
           n == Cardinality(Recorded)
<1>1. /\ op \in Operations /\ call.policy \in Policies /\ call.fee \in Nat /\ now \in Nat
  BY DEF IInv, TypeOK, Call
<1>2. /\ new \in Row /\ new.state = "admitted" /\ new.fee = call.fee /\ new.hash = None
      /\ new.nonce = -1 /\ new.receipt = -1 /\ new.block = 0 /\ new.reason = "none"
  BY <1>1 DEF UnsignedRow, Row, States, NoNonce, NoReceipt
<1> HIDE DEF new
<1>3. /\ op \notin Recorded
      /\ rows' = [rows EXCEPT ![op] = new]
      /\ Recorded' = Recorded \cup {op}
      /\ rows'[op] = new
      /\ \A other \in Operations : other # op => rows'[other] = rows[other]
  BY <1>1, <1>2 DEF new, Reserve, CanReserve, Reservable, EvidenceUnused, WithinLimits, Idle, Recorded, IInv, TypeOK
<1>4. TypeOK'
  <2>1. permits' \subseteq Operations
    BY <1>1 DEF IInv, TypeOK, Reserve
  <2>2. rows' \in [Operations -> Row]
    BY <1>1, <1>2, <1>3 DEF IInv, TypeOK
  <2> QED
    BY <1>1, <2>1, <2>2 DEF IInv, TypeOK, Reserve
<1>5. IsFiniteSet(Recorded') /\ Cardinality(Recorded') = n + 1 /\ n \in Nat
  BY <1>3, FS_AddElement, FS_CardinalityType DEF IInv
<1>6. /\ stored' = call.policy
      /\ attempts = n /\ payouts = n /\ reservedFee = n * call.policy.maxFee
      /\ stored # None => Sound(call.policy)
  <2>1. CASE stored = None
    <3>1. Recorded = {}
      BY <2>1 DEF IInv, Intact
    <3>2. n = 0
      BY <3>1, FS_EmptySet
    <3>3. attempts = 0 /\ payouts = 0 /\ reservedFee = 0
      BY <2>1 DEF IInv, Unset
    <3> QED
      BY <2>1, <3>2, <3>3, <1>1, PolicyAssumption DEF Reserve, Policy
  <2>2. CASE stored # None
    <3>1. stored = call.policy /\ Sound(call.policy)
      BY <2>2 DEF Reserve, CanReserve, Reservable, EvidenceUnused, WithinLimits, Idle, CheckedState, RowsConsistent, Sound
    <3> QED
      BY <2>2, <3>1 DEF Reserve, Sound, TotalsConsistent
  <2> QED
    BY <2>1, <2>2
<1>7. Intact'
  <2>1. stored' # None
    BY <1>1, <1>6, NoneAssumption
  <2>2. (n + 1) * call.policy.maxFee = n * call.policy.maxFee + call.policy.maxFee
    BY <1>1, <1>5, PolicyAssumption DEF Policy
  <2>3. call.fee = call.policy.maxFee
    BY DEF CallsPriced, IInv
  <2>4. Active' = {op}
    <3>1. Active = {}
      BY <1>6 DEF Reserve, CanReserve, Reservable, EvidenceUnused, WithinLimits, Idle, Sound, TotalsConsistent, IInv, Intact, Active, Recorded, ActiveStates
    <3> QED
      BY <3>1, <1>1, <1>2, <1>3 DEF Active, ActiveStates
  <2>5. \A o \in Recorded' : ColumnsConsistent(o, call.policy)'
    <3> SUFFICES ASSUME NEW o \in Recorded' PROVE ColumnsConsistent(o, call.policy)'
      OBVIOUS
    <3>1. CASE o = op
      <4>1. rows'[o] = new
        BY <3>1, <1>3
      <4> QED
        BY <4>1, <1>2, <2>3 DEF ColumnsConsistent, SignedStates, NoReceipt
    <3>2. CASE o # op
      <4>1. stored # None
        BY <3>2, <1>3 DEF IInv, Intact
      <4> QED
        BY <4>1, <3>2, <1>3, <1>6 DEF Sound, TotalsConsistent, ColumnsConsistent, Recorded
    <3> QED
      BY <3>1, <3>2
  <2>6. Sound(call.policy)'
    BY <2>2, <2>3, <2>4, <2>5, <1>5, <1>6, <1>1, NoneNotOperation
       DEF Sound, TotalsConsistent, Reserve, CanReserve, Reservable, EvidenceUnused, WithinLimits, Idle
  <2> QED
    BY <2>1, <2>6, <1>6 DEF Intact
<1>8. Blank' /\ CallsCurrent' /\ CallsPriced' /\ TokensGiven' /\ Unset'
  BY <1>1, <1>2, <1>3, <1>6, NoneAssumption DEF IInv, Blank, Unset, CallsCurrent, CallsPriced, TokensGiven, Reserve
<1>9. EvidenceReservedOnce'
  BY <1>3 DEF IInv, EvidenceReservedOnce, Reserve, CanReserve, Reservable, EvidenceUnused, WithinLimits, Idle, SharesEvidence
<1>10. PermissionOnce' /\ PermitRequired'
  BY <1>1, <1>2, <1>3 DEF IInv, PermissionOnce, PermitRequired, Recorded, Reserve, SignedStates
<1>11. NoncesDistinct'
  <2>1. \A o \in Recorded' : rows'[o].state \in SignedStates => o \in Recorded /\ rows'[o] = rows[o]
    BY <1>2, <1>3 DEF SignedStates, Recorded
  <2> QED
    BY <2>1 DEF IInv, NoncesDistinct
<1> QED
  BY <1>4, <1>5, <1>7, <1>8, <1>9, <1>10, <1>11 DEF IInv

-----------------------------------------------------------------------------
(* Steps that rewrite one recorded row and keep every total but the active one *)

\* The three updates of an active row: it stays recorded and priced, no two
\* signed rows collide, and the active pointer follows the row's state.
LEMMA RewriteStep ==
    ASSUME IInv, NEW op \in Operations, NEW row \in Row,
           rows[op].state \in ActiveStates,
           rows' = [rows EXCEPT ![op] = row],
           row.state # "absent", row.fee = rows[op].fee,
           UNCHANGED <<env, now, stored, attempts, payouts, reservedFee, permits>>,
           calls' \subseteq calls,
           active' = IF row.state \in ActiveStates THEN active ELSE None,
           ColumnsConsistent(op, stored)',
           granted' \in [Operations -> Nat],
           \A other \in Operations : other # op => granted'[other] = granted[other],
           granted'[op] = IF row.state \in SignedStates THEN 1 ELSE 0,
           row.state \in SignedStates =>
              /\ op \in permits
              /\ \A other \in Recorded : other # op /\ rows[other].state \in SignedStates =>
                    row.nonce # rows[other].nonce /\ row.hash # rows[other].hash,
           row.state \notin SignedStates =>
              op \in permits \/ (row.state = "stopped" /\ row.reason = "operator-abandoned")
    PROVE  IInv'
<1>1. /\ rows'[op] = row
      /\ \A other \in Operations : other # op => rows'[other] = rows[other]
  BY DEF IInv, TypeOK
<1>2. op \in Recorded /\ Recorded' = Recorded
  BY <1>1 DEF Recorded, ActiveStates
<1>3. TypeOK'
  <2>1. rows' \in [Operations -> Row]
    BY DEF IInv, TypeOK
  <2>2. active' \in Operations \cup {None} /\ calls' \subseteq Call
    BY DEF IInv, TypeOK
  <2> QED
    BY <2>1, <2>2 DEF IInv, TypeOK
<1>4. /\ stored # None /\ stored \in Policies
      /\ Sound(stored)
  BY <1>2 DEF IInv, TypeOK, Intact
<1>5. Intact'
  <2>1. active = op /\ Active = {op}
    BY <1>4, NoneNotOperation DEF Sound, TotalsConsistent, Active
  <2>2. Active' = IF row.state \in ActiveStates THEN {op} ELSE {}
    BY <2>1, <1>1 DEF Active
  <2>3. Active' = IF active' = None THEN {} ELSE {active'}
    BY <2>1, <2>2, NoneNotOperation
  <2>4. \A o \in Recorded' : ColumnsConsistent(o, stored)'
    BY <1>1, <1>2, <1>4 DEF Sound, TotalsConsistent, ColumnsConsistent, Recorded
  <2> QED
    BY <2>3, <2>4, <1>2, <1>4 DEF Intact, Sound, TotalsConsistent
<1>6. Blank' /\ CallsCurrent' /\ CallsPriced' /\ TokensGiven'
  BY <1>1 DEF IInv, Blank, CallsCurrent, CallsPriced, TokensGiven
<1>7. Unset' /\ IsFiniteSet(Recorded')
  BY <1>2, <1>4 DEF IInv, Unset
<1>8. EvidenceReservedOnce'
  BY <1>2 DEF IInv, EvidenceReservedOnce
<1>9. PermissionOnce'
  BY <1>1 DEF IInv, PermissionOnce
<1>10. PermitRequired'
  BY <1>1, <1>2 DEF IInv, PermitRequired, SignedStates, Recorded
<1>11. NoncesDistinct'
  <2> SUFFICES ASSUME NEW a \in Recorded, NEW b \in Recorded, a # b,
                      rows'[a].state \in SignedStates, rows'[b].state \in SignedStates
               PROVE  rows'[a].nonce # rows'[b].nonce /\ rows'[a].hash # rows'[b].hash
    BY <1>2 DEF NoncesDistinct
  <2>1. a \in Operations /\ b \in Operations
    BY DEF Recorded
  <2>2. CASE a = op
    BY <2>1, <2>2, <1>1
  <2>3. CASE b = op
    BY <2>1, <2>3, <1>1
  <2>4. CASE a # op /\ b # op
    BY <2>1, <2>4, <1>1 DEF IInv, NoncesDistinct
  <2> QED
    BY <2>2, <2>3, <2>4
<1> QED
  BY <1>3, <1>5, <1>6, <1>7, <1>8, <1>9, <1>10, <1>11 DEF IInv
-----------------------------------------------------------------------------
(* prepareBroadcast, failBeforeBroadcast, abandonBeforeBroadcast, complete *)

LEMMA PrepareStep ==
    ASSUME IInv, NEW call \in calls, call.method = "prepareBroadcast", Prepare(call),
           calls' = calls \ {call}, UNCHANGED <<env, now>>
    PROVE  IInv'
<1> DEFINE op == call.op
           row == [rows[op] EXCEPT !.state = "broadcast-prepared", !.hash = call.hash,
                                   !.nonce = call.nonce, !.updated = now]
<1>1. /\ op \in Operations /\ call.hash \in TxHashes /\ call.nonce \in Nat
      /\ call.token = op /\ call.token \in permits /\ op \in Recorded /\ now \in Nat
  BY DEF IInv, TypeOK, Call, TokensGiven, Prepare, CanPrepare, NotYetPrepared, RequirePermit, Recorded
<1>2. rows[op] \in Row
  BY <1>1 DEF IInv, TypeOK
<1>3. /\ row \in Row /\ row.state = "broadcast-prepared" /\ row.fee = rows[op].fee
      /\ row.hash = call.hash /\ row.nonce = call.nonce /\ row.receipt = rows[op].receipt
      /\ row.block = rows[op].block /\ row.reason = rows[op].reason
  <2>1. call.hash \in TxHashes \cup {None} /\ call.nonce \in Int
    BY <1>1
  <2>2. "broadcast-prepared" \in States
    BY DEF States
  <2>3. row \in Row
    BY <1>1, <1>2, <2>1, <2>2 DEF Row
  <2> QED
    BY <1>2, <2>3 DEF Row
<1>4. rows' = [rows EXCEPT ![op] = row]
  BY <1>1, <1>2 DEF Prepare, IInv, TypeOK
<1> HIDE DEF row
<1>5. rows'[op] = row
  BY <1>1, <1>4 DEF IInv, TypeOK
<1>6. stored # None /\ stored \in Policies /\ ColumnsConsistent(op, stored) /\ active = op
  BY <1>1, NoneNotOperation
     DEF IInv, TypeOK, Intact, Sound, TotalsConsistent, Prepare, CanPrepare, NotYetPrepared, Active, ActiveStates
<1>7. rows[op].state = "admitted"
  BY DEF Prepare, CanPrepare, NotYetPrepared
<1>8. ColumnsConsistent(op, stored)'
  BY <1>1, <1>3, <1>5, <1>6, <1>7, NoneAssumption
     DEF ColumnsConsistent, SignedStates, NoReceipt, Prepare, totals
<1>9. \A other \in Recorded : other # op /\ rows[other].state \in SignedStates =>
        row.nonce # rows[other].nonce /\ row.hash # rows[other].hash
  BY <1>3 DEF Prepare, CanPrepare, NotYetPrepared, NonceReserved, IInv, TypeOK, Row, Recorded
<1>10. /\ granted' \in [Operations -> Nat]
       /\ \A other \in Operations : other # op => granted'[other] = granted[other]
       /\ granted'[op] = 1
  BY <1>1, <1>7 DEF Prepare, IInv, TypeOK, PermissionOnce, SignedStates
<1>11. UNCHANGED <<env, now, stored, attempts, payouts, reservedFee, active, permits>>
  BY DEF Prepare, totals
<1> QED
  BY <1>1, <1>3, <1>4, <1>6, <1>7, <1>8, <1>9, <1>10, <1>11, RewriteStep
     DEF ActiveStates, SignedStates

LEMMA StopStep ==
    ASSUME IInv, NEW op \in Operations, NEW reason \in Reasons, StopAdmitted(op, reason),
           op \in permits \/ reason = "operator-abandoned",
           calls' \subseteq calls, UNCHANGED <<env, now>>
    PROVE  IInv'
<1> DEFINE row == [rows[op] EXCEPT !.state = "stopped", !.reason = reason, !.updated = now]
<1>1. rows[op] \in Row /\ rows[op].state = "admitted" /\ op \in Recorded /\ now \in Nat
  BY DEF IInv, TypeOK, StopAdmitted, RowStopped, Release, Recorded
<1>2. /\ row \in Row /\ row.state = "stopped" /\ row.fee = rows[op].fee
      /\ row.hash = rows[op].hash /\ row.nonce = rows[op].nonce
      /\ row.receipt = rows[op].receipt /\ row.block = rows[op].block /\ row.reason = reason
  BY <1>1 DEF Row, States
<1>3. rows' = [rows EXCEPT ![op] = row]
  BY <1>1 DEF StopAdmitted, RowStopped, Release, IInv, TypeOK
<1> HIDE DEF row
<1>4. rows'[op] = row
  BY <1>3 DEF IInv, TypeOK
<1>5. stored # None /\ ColumnsConsistent(op, stored)
  BY <1>1 DEF IInv, Intact, Sound, TotalsConsistent
<1>6. ColumnsConsistent(op, stored)'
  BY <1>1, <1>2, <1>4, <1>5 DEF ColumnsConsistent, SignedStates, NoReceipt, StopAdmitted, RowStopped, Release, Reasons
<1>7. /\ UNCHANGED <<stored, attempts, payouts, reservedFee, permits, granted>>
      /\ active' = None
      /\ granted' \in [Operations -> Nat] /\ granted'[op] = 0
  BY <1>1 DEF StopAdmitted, RowStopped, Release, IInv, TypeOK, PermissionOnce, SignedStates
<1>8. row.state \notin SignedStates /\ row.state \notin ActiveStates /\ row.state # "absent"
  BY <1>2 DEF SignedStates, ActiveStates
<1>9. rows[op].state \in ActiveStates
  BY <1>1 DEF ActiveStates
<1>10. op \in permits \/ (row.state = "stopped" /\ row.reason = "operator-abandoned")
  BY <1>2
<1> QED
  BY <1>2, <1>3, <1>6, <1>7, <1>8, <1>9, <1>10, RewriteStep

LEMMA CompleteStep ==
    ASSUME IInv, NEW op \in Operations, NEW hash \in TxHashes, NEW status \in {0, 1},
           NEW block \in 1..MaxBlock, Complete(op, hash, status, block)
    PROVE  IInv'
<1> DEFINE to == IF status = 1 THEN "settled" ELSE "reverted"
           row == [rows[op] EXCEPT !.state = to, !.receipt = status, !.block = block,
                                  !.updated = now]
<1>1. rows[op] \in Row /\ rows[op].state = "broadcast-prepared" /\ op \in Recorded /\ now \in Nat
  BY DEF IInv, TypeOK, Complete, Recorded
<1>2. block \in Nat /\ block > 0
  BY BoundAssumption
<1>3. /\ row \in Row /\ row.state = to /\ row.fee = rows[op].fee
      /\ row.hash = rows[op].hash /\ row.nonce = rows[op].nonce
      /\ row.receipt = status /\ row.block = block /\ row.reason = rows[op].reason
  BY <1>1, <1>2 DEF Row, States
<1>4. rows' = [rows EXCEPT ![op] = row]
  BY <1>1 DEF Complete, IInv, TypeOK
<1> HIDE DEF row
<1>5. rows'[op] = row
  BY <1>4 DEF IInv, TypeOK
<1>6. stored # None /\ ColumnsConsistent(op, stored)
  BY <1>1 DEF IInv, Intact, Sound, TotalsConsistent
<1>7. to \in {"settled", "reverted"} /\ (to = "settled" <=> status = 1)
  BY Zenon
<1> HIDE DEF to
<1>8. ColumnsConsistent(op, stored)'
  BY <1>1, <1>2, <1>3, <1>5, <1>6, <1>7 DEF ColumnsConsistent, SignedStates, NoReceipt, Complete
<1>9. /\ UNCHANGED <<env, now, stored, attempts, payouts, reservedFee, permits, granted, calls>>
      /\ active' = None
      /\ granted' \in [Operations -> Nat] /\ granted'[op] = 1
  BY <1>1 DEF Complete, IInv, TypeOK, PermissionOnce, SignedStates
<1>10. /\ op \in permits
       /\ \A other \in Recorded : other # op /\ rows[other].state \in SignedStates =>
              row.nonce # rows[other].nonce /\ row.hash # rows[other].hash
  BY <1>1, <1>3 DEF IInv, PermitRequired, NoncesDistinct, SignedStates
<1> QED
  BY <1>1, <1>3, <1>4, <1>7, <1>8, <1>9, <1>10, RewriteStep DEF ActiveStates, SignedStates

-----------------------------------------------------------------------------
(* Every step *)

LEMMA NextIInv == IInv /\ [Next]_vars => IInv'
<1> SUFFICES ASSUME IInv, [Next]_vars PROVE IInv'
  OBVIOUS
<1>1. ASSUME NEW time \in Times, SetClock(time) PROVE IInv'
  BY <1>1, BoundAssumption, QuietStep DEF SetClock, Times, IInv, TypeOK, CallsCurrent, CallsPriced, TokensGiven
<1>2. ASSUME NEW policy \in Policies, NEW enabled \in BOOLEAN, Redeploy(policy, enabled)
      PROVE  IInv'
  BY <1>2, QuietStep DEF Redeploy, IInv, TypeOK, CallsCurrent, CallsPriced, TokensGiven
<1>3. ASSUME NEW op \in Operations, NEW fee \in Fees, ReserveArrives(op, fee)
      PROVE  IInv'
  <2> DEFINE call == [method |-> "reserve", policy |-> env.policy, op |-> op, fee |-> fee]
  <2>1. call \in Call /\ call.fee = call.policy.maxFee /\ call.policy = env.policy
    BY <1>3, PolicyAssumption DEF ReserveArrives, IInv, TypeOK, Call, Policy
  <2> QED
    BY <1>3, <2>1, ReceiveStep DEF ReserveArrives
<1>4. ASSUME NEW op \in Operations, NEW token \in Operations, NEW hash \in TxHashes,
             NEW nonce \in Nonces, PrepareArrives(op, token, hash, nonce)
      PROVE  IInv'
  <2> DEFINE call == [method |-> "prepareBroadcast", policy |-> env.policy, op |-> op,
                      token |-> token, hash |-> hash, nonce |-> nonce]
  <2>1. call \in Call /\ call.token \in permits /\ call.policy = env.policy
    BY <1>4, BoundAssumption DEF PrepareArrives, IInv, TypeOK, Call, Nonces
  <2> QED
    BY <1>4, <2>1, ReceiveStep DEF PrepareArrives
<1>5. ASSUME NEW op \in Operations, NEW token \in Operations, FailArrives(op, token)
      PROVE  IInv'
  <2> DEFINE call == [method |-> "failBeforeBroadcast", policy |-> env.policy, op |-> op,
                      token |-> token]
  <2>1. call \in Call /\ call.token \in permits /\ call.policy = env.policy
    BY <1>5 DEF FailArrives, IInv, TypeOK, Call
  <2> QED
    BY <1>5, <2>1, ReceiveStep DEF FailArrives
<1>6. ASSUME NEW call \in calls, Transact(call)
      PROVE  IInv'
  <2>1. calls' = calls \ {call} /\ UNCHANGED <<env, now>>
    BY <1>6 DEF Transact
  <2>2. CASE call.method = "reserve" /\ Reserve(call)
    BY <2>1, <2>2, ReserveStep
  <2>3. CASE call.method = "prepareBroadcast" /\ Prepare(call)
    BY <2>1, <2>3, PrepareStep
  <2>4. CASE call.method = "failBeforeBroadcast" /\ FailBeforeBroadcast(call)
    <3>1. call.op \in Operations /\ call.op \in permits
      BY <2>4 DEF IInv, TypeOK, Call, TokensGiven, FailBeforeBroadcast, CanFail, RequirePermit
    <3> QED
      BY <2>1, <2>4, <3>1, StopStep DEF FailBeforeBroadcast, Reasons
  <2>5. CASE UNCHANGED <<ledger, permits, granted>>
    BY <2>1, <2>5, QuietStep DEF IInv, TypeOK, CallsCurrent, CallsPriced, TokensGiven
  <2> QED
    BY <1>6, <2>2, <2>3, <2>4, <2>5 DEF Transact, Commits, Throws
<1>7. ASSUME NEW op \in Operations, AbandonBeforeBroadcast(op)
      PROVE  IInv'
  BY <1>7, StopStep DEF AbandonBeforeBroadcast, Reasons
<1>8. ASSUME NEW op \in Operations, NEW hash \in TxHashes, NEW status \in {0, 1},
             NEW block \in 1..MaxBlock, Complete(op, hash, status, block)
      PROVE  IInv'
  BY <1>8, CompleteStep
<1>9. CASE UNCHANGED vars
  BY <1>9, QuietStep DEF vars, IInv, TypeOK, CallsCurrent, CallsPriced, TokensGiven
<1> QED
  BY <1>1, <1>2, <1>3, <1>4, <1>5, <1>6, <1>7, <1>8, <1>9 DEF Next

\* The inductive invariant holds of every behaviour: the ledger stays readable,
\* spends each piece of evidence once and grants each permission once.
THEOREM LedgerInvariant == Spec => []IInv
<1> QED
  BY InitIInv, NextIInv, PTL DEF Spec

\* Every column of helper_policy and helper_operations keeps its type.
THEOREM TypeCorrect == Spec => []TypeOK
<1> QED
  BY LedgerInvariant, PTL DEF IInv

\* Only a row written last on a clock set back before its creation makes
\* checkedState refuse what the ledger has written.
THEOREM AlwaysReadable == Spec => []Readable
<1>1. IInv => Readable
  BY DEF IInv, Intact, Sound, Readable, Accepted, RowsConsistent
<1> QED
  BY <1>1, LedgerInvariant, PTL

\* On a steady clock no row was written after now or before its creation.
DatesPast ==
    \A op \in Recorded : rows[op].created <= rows[op].updated /\ rows[op].updated <= now

\* A write dates its row now; the creation of a recorded row stays.
LEMMA DatesFollow ==
    ASSUME IInv, [Next]_vars
    PROVE  \A op \in Recorded' :
              \/ op \in Recorded /\ rows'[op] = rows[op]
              \/ /\ now' = now /\ rows'[op].updated = now
                 /\ \/ rows'[op].created = now
                    \/ op \in Recorded /\ rows'[op].created = rows[op].created
<1> DEFINE Goal(op) ==
              \/ op \in Recorded /\ rows'[op] = rows[op]
              \/ /\ now' = now /\ rows'[op].updated = now
                 /\ \/ rows'[op].created = now
                    \/ op \in Recorded /\ rows'[op].created = rows[op].created
<1> SUFFICES ASSUME NEW op \in Recorded' PROVE Goal(op)
  OBVIOUS
<1>0. op \in Operations /\ rows \in [Operations -> Row] /\ rows[op] \in Row
      /\ rows'[op].state # "absent"
  BY DEF IInv, TypeOK, Recorded
<1>1. CASE rows' = rows
  BY <1>0, <1>1 DEF Recorded
<1>2. ASSUME NEW call \in calls, Transact(call) PROVE Goal(op)
  <2>0. now' = now /\ call.op \in Operations
    BY <1>2 DEF Transact, IInv, TypeOK, Call
  <2>1. CASE Reserve(call)
    <3>1. UnsignedRow("admitted", call.fee, now).created = now
          /\ UnsignedRow("admitted", call.fee, now).updated = now
      BY DEF UnsignedRow
    <3> QED
      BY <1>0, <2>0, <2>1, <3>1 DEF Reserve, Recorded
  <2>2. CASE Prepare(call)
    BY <1>0, <2>0, <2>2 DEF Prepare, CanPrepare, NotYetPrepared, Recorded, Row
  <2>3. CASE FailBeforeBroadcast(call)
    BY <1>0, <2>0, <2>3 DEF FailBeforeBroadcast, StopAdmitted, RowStopped, Recorded, Row
  <2>4. CASE rows' = rows
    BY <2>4, <1>1
  <2> QED
    BY <1>2, <2>1, <2>2, <2>3, <2>4 DEF Transact, Commits, Throws, ledger
<1>3. ASSUME NEW o \in Operations, AbandonBeforeBroadcast(o) PROVE Goal(op)
  BY <1>0, <1>3 DEF AbandonBeforeBroadcast, StopAdmitted, RowStopped, Recorded, Row
<1>4. ASSUME NEW o \in Operations, NEW hash \in TxHashes, NEW status \in {0, 1},
             NEW block \in 1..MaxBlock, Complete(o, hash, status, block)
      PROVE  Goal(op)
  BY <1>0, <1>4 DEF Complete, Recorded, Row
<1>5. CASE ~(rows' = rows)
  BY <1>2, <1>3, <1>4, <1>5 DEF Next, SetClock, Redeploy, ReserveArrives, PrepareArrives,
     FailArrives, Receive, ledger, vars
<1> QED
  BY <1>1, <1>5

\* As long as the clock is not set back, checkedState never refuses what the
\* ledger has written itself.
THEOREM SteadyReadable == Spec /\ ClockSteady => []Accepted
<1>1. Init => DatesPast
  BY DEF Init, DatesPast, Recorded, AbsentRow, UnsignedRow
<1>2. IInv /\ DatesPast /\ [Next]_vars /\ [now' >= now]_vars => DatesPast'
  <2> SUFFICES ASSUME IInv, DatesPast, [Next]_vars, [now' >= now]_vars PROVE DatesPast'
    OBVIOUS
  <2>1. now \in Nat /\ now' \in Nat /\ now' >= now
    BY NextIInv DEF IInv, TypeOK, vars
  <2>2. \A op \in Recorded : rows[op] \in Row
    BY DEF IInv, TypeOK, Recorded
  <2> QED
    BY <2>1, <2>2, DatesFollow DEF DatesPast, Row
<1>3. IInv /\ DatesPast => Accepted
  BY DEF IInv, Intact, Sound, DatesPast, DatesOrdered, Accepted, RowsConsistent
<1> QED
  BY <1>1, <1>2, <1>3, LedgerInvariant, PTL DEF Spec, ClockSteady

\* No wallet or evidence hash is ever reserved for two operations.
THEOREM EvidenceOnce == Spec => []EvidenceReservedOnce
<1> QED
  BY LedgerInvariant, PTL DEF IInv

\* The broadcast permission of an operation is granted once, and only by the
\* step that prepared it.
THEOREM OnePermission == Spec => []PermissionOnce
<1> QED
  BY LedgerInvariant, PTL DEF IInv

-----------------------------------------------------------------------------
(* Action properties and the refinement of SpendingEnvelope *)

\* What a step may do to the ledger: nothing, or one of five writes.
Writes ==
    \/ UNCHANGED <<ledger, granted>>
    \/ \E call \in calls : /\ UNCHANGED <<env, now>>
                           /\ \/ call.method = "reserve" /\ Reserve(call)
                              \/ call.method = "prepareBroadcast" /\ Prepare(call)
    \/ \E op \in Operations, reason \in Reasons :
          StopAdmitted(op, reason) /\ CheckedState(env.policy) /\ UNCHANGED env
    \/ \E op \in Operations, hash \in TxHashes, status \in {0, 1}, block \in 1..MaxBlock :
          Complete(op, hash, status, block)

LEMMA StepWrites == IInv /\ [Next]_vars => Writes
<1> SUFFICES ASSUME IInv, [Next]_vars PROVE Writes
  OBVIOUS
<1>1. ASSUME NEW time \in Times, SetClock(time) PROVE Writes
  BY <1>1 DEF SetClock, Writes
<1>2. ASSUME NEW policy \in Policies, NEW enabled \in BOOLEAN, Redeploy(policy, enabled)
      PROVE  Writes
  BY <1>2 DEF Redeploy, Writes
<1>3. ASSUME NEW call, Receive(call) PROVE Writes
  BY <1>3 DEF Receive, Writes
<1>4. ASSUME NEW call \in calls, Transact(call) PROVE Writes
  <2>1. CASE call.method = "failBeforeBroadcast" /\ FailBeforeBroadcast(call)
    <3>1. call.op \in Operations /\ call.policy = env.policy
      BY <2>1 DEF IInv, TypeOK, Call, CallsCurrent
    <3> QED
      BY <1>4, <2>1, <3>1 DEF Transact, FailBeforeBroadcast, CanFail, Writes, Reasons
  <2>2. CASE ~(call.method = "failBeforeBroadcast" /\ FailBeforeBroadcast(call))
    BY <1>4, <2>2 DEF Transact, Commits, Throws, Writes
  <2> QED
    BY <2>1, <2>2
<1>5. ASSUME NEW op \in Operations, AbandonBeforeBroadcast(op) PROVE Writes
  BY <1>5 DEF AbandonBeforeBroadcast, Writes, Reasons
<1>6. CASE UNCHANGED vars
  BY <1>6 DEF vars, Writes
<1>7. CASE \E op \in Operations, hash \in TxHashes, status \in {0, 1}, block \in 1..MaxBlock :
             Complete(op, hash, status, block)
  BY <1>7 DEF Writes
<1> QED
  BY <1>1, <1>2, <1>3, <1>4, <1>5, <1>6, <1>7
     DEF Next, ReserveArrives, PrepareArrives, FailArrives

\* Each of the five writes, for the three action properties.
LEMMA WritesSafe ==
    ASSUME IInv, Writes
    PROVE  Refillless /\ PolicyBinds /\ SpendingOpen
<1> DEFINE Goal == Refillless /\ PolicyBinds /\ SpendingOpen
<1> USE DEF Refillless, PolicyBinds, SpendingOpen
<1>0. /\ rows \in [Operations -> Row] /\ granted \in [Operations -> Nat]
      /\ attempts \in Nat /\ payouts \in Nat /\ reservedFee \in Nat
      /\ Recorded \subseteq Operations
  BY DEF IInv, TypeOK, Recorded
<1>1. CASE UNCHANGED <<ledger, granted>>
  BY <1>0, <1>1 DEF ledger, totals, Recorded
<1>2. ASSUME NEW call \in calls, call.method = "reserve", Reserve(call), UNCHANGED <<env, now>>
      PROVE  Goal
  <2>1. /\ call.op \in Operations /\ call.fee \in Nat
        /\ call.policy \in Policies /\ call.policy = env.policy
    BY <1>2 DEF IInv, TypeOK, Call, CallsCurrent
  <2>2. stored' = call.policy /\ RequireEnabled(call.policy)
    BY <1>2 DEF Reserve, CanReserve, Reservable, EvidenceUnused, WithinLimits, Idle, CheckedState
  <2>3. \A op \in Recorded : rows'[op] = rows[op] /\ rows[op].state # "absent"
    BY <1>0, <1>2 DEF Reserve, CanReserve, Reservable, EvidenceUnused, WithinLimits, Idle, Recorded
  <2> QED
    BY <1>0, <1>2, <2>1, <2>2, <2>3, NoneAssumption DEF Reserve, RequireEnabled
<1>3. ASSUME NEW call \in calls, call.method = "prepareBroadcast", Prepare(call),
             UNCHANGED <<env, now>>
      PROVE  Goal
  <2>1. /\ call.op \in Operations /\ call.nonce \in Nat
        /\ call.policy \in Policies /\ call.policy = env.policy
        /\ call.op \in Recorded /\ rows[call.op].state = "admitted"
    BY <1>3 DEF IInv, TypeOK, Call, CallsCurrent, Prepare, CanPrepare, NotYetPrepared, Recorded
  <2>2. stored' = call.policy /\ stored = call.policy /\ RequireEnabled(call.policy)
    BY <1>3, <2>1 DEF Prepare, CanPrepare, NotYetPrepared, CheckedState, totals
  <2>3. \A op \in Operations : op # call.op => rows'[op] = rows[op] /\ granted'[op] = granted[op]
    BY <1>0, <1>3 DEF Prepare
  <2>4. rows'[call.op].state = "broadcast-prepared" /\ rows'[call.op].nonce = call.nonce
    BY <1>0, <1>3, <2>1 DEF Prepare, Row
  <2>6. Refillless
    BY <1>0, <1>3, <2>1, <2>3, <2>4 DEF Prepare, totals, Recorded
  <2> QED
    BY <1>0, <1>3, <2>1, <2>2, <2>3, <2>4, <2>6, NoneAssumption
       DEF Prepare, totals, RequireEnabled
<1>4. ASSUME NEW op \in Operations, NEW reason \in Reasons, StopAdmitted(op, reason),
             CheckedState(env.policy), UNCHANGED env
      PROVE  Goal
  <2>1. op \in Recorded /\ stored = env.policy
    BY <1>4 DEF StopAdmitted, RowStopped, Release, CheckedState, Recorded
  <2> QED
    BY <1>0, <1>4, <2>1 DEF StopAdmitted, RowStopped, Release, Recorded, Row
<1>5. ASSUME NEW op \in Operations, NEW hash \in TxHashes, NEW status \in {0, 1},
             NEW block \in 1..MaxBlock, Complete(op, hash, status, block)
      PROVE  Goal
  <2>1. op \in Recorded /\ stored = env.policy
    BY <1>5 DEF Complete, CheckedState, Recorded
  <2> QED
    BY <1>0, <1>5, <2>1 DEF Complete, Recorded, Row
<1> QED
  BY <1>1, <1>2, <1>3, <1>4, <1>5 DEF Writes

\* Budgets only grow and finished operations never move.
THEOREM SpendingNeverRefilled == Spec => NeverRefilled
<1>1. IInv /\ [Next]_vars => [Refillless]_vars
  BY StepWrites, WritesSafe
<1> QED
  BY <1>1, LedgerInvariant, PTL DEF Spec, NeverRefilled

\* Only the policy of the first reservation writes, and it is never replaced.
THEOREM PolicyNeverReplaced == Spec => PolicyFixed
<1>1. IInv /\ [Next]_vars => [PolicyBinds]_vars
  BY StepWrites, WritesSafe
<1> QED
  BY <1>1, LedgerInvariant, PTL DEF Spec, PolicyFixed

\* Expiry and the flag bind at the moment of the transaction.
THEOREM ClosedMeansClosed == Spec => NoSpendingWhenClosed
<1>1. IInv /\ [Next]_vars => [SpendingOpen]_vars
  BY StepWrites, WritesSafe
<1> QED
  BY <1>1, LedgerInvariant, PTL DEF Spec, NoSpendingWhenClosed

-----------------------------------------------------------------------------
(* The ledger implements the spending envelope *)

\* n + 1 fees within the total means n + 1 at most their integer quotient.
LEMMA QuotientBound ==
    ASSUME NEW fee \in Nat \ {0}, NEW total \in Nat, NEW n \in Nat, n * fee + fee <= total
    PROVE  n + 1 <= total \div fee
<1> DEFINE q == total \div fee
<1>1. q \in Nat /\ total < q * fee + fee
  BY SMT
<1> HIDE DEF q
<1>2. SUFFICES ASSUME q <= n PROVE FALSE
  BY <1>1 DEF q
<1>3. q * fee <= n * fee
  BY <1>1, <1>2, SMT
<1>4. q * fee \in Int /\ n * fee \in Int
  BY <1>1
<1> QED
  BY <1>1, <1>3, <1>4

\* A reservation finds the attempts below the limit of its policy.
LEMMA LimitAdmits ==
    ASSUME IInv, NEW call \in calls, call.method = "reserve", Reserve(call)
    PROVE  /\ LimitOf(call.policy) \in Nat \ {0}
           /\ attempts < LimitOf(call.policy)
<1>1. call.policy \in Policies /\ call.fee = call.policy.maxFee
  BY DEF IInv, TypeOK, Call, CallsPriced
<1>2. /\ call.policy.maxFee \in Nat \ {0} /\ call.policy.maxTotalFee \in Nat
      /\ call.policy.maxAttempts \in Nat /\ call.policy.maxPayouts \in Nat
  BY <1>1, PolicyAssumption DEF Policy
<1> DEFINE n == Cardinality(Recorded)
           p == call.policy
<1>3. n \in Nat
  BY FS_CardinalityType DEF IInv
<1>4. attempts = n /\ payouts = n /\ reservedFee = n * p.maxFee
  <2>1. CASE stored = None
    <3>1. n = 0
      BY <2>1, FS_EmptySet DEF IInv, Intact
    <3> QED
      BY <2>1, <3>1, <1>2 DEF IInv, Unset
  <2>2. CASE stored # None
    BY <2>2 DEF Reserve, CanReserve, Reservable, EvidenceUnused, WithinLimits, Idle, CheckedState, RowsConsistent, Sound, TotalsConsistent
  <2> QED
    BY <2>1, <2>2
<1>5. n + 1 <= p.maxAttempts /\ n + 1 <= p.maxPayouts /\ n * p.maxFee + p.maxFee <= p.maxTotalFee
  BY <1>1, <1>4 DEF Reserve, CanReserve, Reservable, EvidenceUnused, WithinLimits, Idle
<1>6. n + 1 <= p.maxTotalFee \div p.maxFee /\ p.maxTotalFee \div p.maxFee \in Int
  BY <1>2, <1>3, <1>5, QuotientBound
<1> HIDE DEF n
<1> QED
  BY <1>2, <1>3, <1>4, <1>5, <1>6 DEF LimitOf

\* The phase function moves where the row's state moves.
LEMMA PhaseMoves ==
    ASSUME NEW op \in Operations, NEW state,
           rows \in [Operations -> Row], rows'[op].state = state,
           \A other \in Operations : other # op => rows'[other] = rows[other]
    PROVE  Phase' = [Phase EXCEPT ![op] = PhaseOf(state)]
BY DEF Phase

\* Every write is a step of the envelope: Reserve, Permit, Close or a stutter.
LEMMA WritesImplement == IInv /\ Writes => [Envelope!Next]_Envelope!vars
<1> SUFFICES ASSUME IInv, Writes PROVE [Envelope!Next]_Envelope!vars
  OBVIOUS
<1>0. /\ rows \in [Operations -> Row] /\ granted \in [Operations -> Nat]
      /\ \A op \in Operations : Phase[op] = PhaseOf(rows[op].state)
  BY DEF IInv, TypeOK, Phase
<1>a. Envelope!Reserved = Recorded /\ Envelope!Open = Active
  BY <1>0 DEF Recorded, Active, ActiveStates, Envelope!Reserved, Envelope!Open, PhaseOf, Row, States
<1>1. CASE UNCHANGED <<ledger, granted>>
  BY <1>1 DEF ledger, totals, Envelope!vars, Phase, Limit
<1>2. ASSUME NEW call \in calls, call.method = "reserve", Reserve(call)
      PROVE  Envelope!Reserve(call.op)
  <2>1. call.op \in Operations /\ call.policy # None
    BY <1>2, NoneAssumption DEF IInv, TypeOK, Call
  <2>2. stored' = call.policy /\ stored \in {None, call.policy}
    BY <1>2 DEF Reserve, CanReserve, Reservable, EvidenceUnused, WithinLimits, Idle, CheckedState
  <2>3. Active = {}
    BY <1>2 DEF Reserve, CanReserve, Reservable, EvidenceUnused, WithinLimits, Idle, IInv, Intact, Sound, TotalsConsistent, Recorded, Active, ActiveStates
  <2>4. /\ rows[call.op].state = "absent" /\ rows'[call.op].state = "admitted"
        /\ \A op \in Operations : op # call.op => rows'[op] = rows[op]
    <3>1. rows[call.op].state = "absent"
      BY <2>1, <1>2 DEF Reserve, CanReserve, Reservable, EvidenceUnused, WithinLimits, Idle, Recorded
    <3>2. rows' = [rows EXCEPT ![call.op] = UnsignedRow("admitted", call.fee, now)]
      BY <1>2 DEF Reserve
    <3>3. UnsignedRow("admitted", call.fee, now).state = "admitted"
      BY DEF UnsignedRow
    <3> QED
      BY <2>1, <3>1, <3>2, <3>3, <1>0
  <2>5. Phase[call.op] = "free" /\ Phase' = [Phase EXCEPT ![call.op] = "held"]
    BY <2>1, <2>4, <1>0, PhaseMoves DEF PhaseOf
  <2>6. /\ Limit' = LimitOf(call.policy) /\ Limit \in {Limit', None}
        /\ Limit' \in Nat \ {0} /\ attempts < Limit'
    BY <2>1, <2>2, <1>2, LimitAdmits DEF Limit
  <2>7. \A other \in Recorded : <<call.op, other>> \notin Conflicting
    BY <1>2 DEF Reserve, CanReserve, Reservable, EvidenceUnused, WithinLimits, Idle, Conflicting
  <2>8. granted' = granted /\ attempts' = attempts + 1
    BY <1>2 DEF Reserve
  <2> QED
    BY <2>3, <2>5, <2>6, <2>7, <2>8, <1>a DEF Envelope!Reserve
<1>3. ASSUME NEW call \in calls, call.method = "prepareBroadcast", Prepare(call)
      PROVE  Envelope!Permit(call.op)
  <2>1. call.op \in Operations
    BY <1>3 DEF IInv, TypeOK, Call
  <2>2. /\ rows[call.op].state = "admitted" /\ rows'[call.op].state = "broadcast-prepared"
        /\ \A op \in Operations : op # call.op => rows'[op] = rows[op]
    BY <2>1, <1>0, <1>3 DEF Prepare, CanPrepare, NotYetPrepared, Row
  <2>3. Phase[call.op] = "held" /\ Phase' = [Phase EXCEPT ![call.op] = "permitted"]
    BY <2>1, <2>2, <1>0, PhaseMoves DEF PhaseOf
  <2>4. Limit' = Limit /\ attempts' = attempts /\ granted' = [granted EXCEPT ![call.op] = @ + 1]
    BY <1>3 DEF Prepare, totals, Limit
  <2> QED
    BY <2>3, <2>4 DEF Envelope!Permit
<1>4. ASSUME NEW op \in Operations, NEW reason \in Reasons, StopAdmitted(op, reason)
      PROVE  Envelope!Close(op)
  <2>1. /\ rows[op].state = "admitted" /\ rows'[op].state = "stopped"
        /\ \A other \in Operations : other # op => rows'[other] = rows[other]
    BY <1>0, <1>4 DEF StopAdmitted, RowStopped, Release, Row
  <2>2. Phase[op] = "held" /\ Phase' = [Phase EXCEPT ![op] = "closed"]
    BY <2>1, <1>0, PhaseMoves DEF PhaseOf
  <2> QED
    BY <2>2, <1>4 DEF Envelope!Close, RowStopped, Release, StopAdmitted, RowStopped, Release, Limit
<1>5. ASSUME NEW op \in Operations, NEW hash \in TxHashes, NEW status \in {0, 1},
             NEW block \in 1..MaxBlock, Complete(op, hash, status, block)
      PROVE  Envelope!Close(op)
  <2>1. /\ rows[op].state = "broadcast-prepared" /\ rows'[op].state \in {"settled", "reverted"}
        /\ \A other \in Operations : other # op => rows'[other] = rows[other]
    BY <1>0, <1>5 DEF Complete, Row
  <2>2. Phase[op] = "permitted" /\ Phase' = [Phase EXCEPT ![op] = "closed"]
    BY <2>1, <1>0, PhaseMoves DEF PhaseOf
  <2> QED
    BY <2>2, <1>5 DEF Envelope!Close, Complete, Limit
<1>6. \A call \in calls : call.op \in Operations
  BY DEF IInv, TypeOK, Call
<1> QED
  BY <1>1, <1>2, <1>3, <1>4, <1>5, <1>6 DEF Writes, Envelope!Next

\* The ledger keeps the promise of the spending envelope: at most one open
\* operation, one permission each, and a limit that closing never refills.
THEOREM LedgerImplementsEnvelope == Spec => ImplementsEnvelope
<1>1. Init => Envelope!Init
  BY DEF Init, Envelope!Init, Limit, Phase, PhaseOf, AbsentRow, UnsignedRow
<1>2. IInv /\ [Next]_vars => [Envelope!Next]_Envelope!vars
  BY StepWrites, WritesImplement
<1> QED
  BY <1>1, <1>2, LedgerInvariant, PTL DEF Spec, ImplementsEnvelope, Envelope!Spec
=============================================================================
