-------------------------- MODULE SpendingEnvelope --------------------------
(***************************************************************************)
(* What the helper spending ledger promises, without its storage, requests *)
(* or permits: a campaign has one spending limit, fixed by the first       *)
(* reservation; an operation is reserved at most once, at most one         *)
(* operation is open at a time, permission to broadcast is handed out once *)
(* per operation, and closing an operation never gives its slot back.      *)
(***************************************************************************)
EXTENDS Integers

CONSTANTS
    Operations,     \* identities of the payout operations
    Conflicts,      \* pairs of operations that share evidence
    NoLimit         \* the limit before any reservation

VARIABLES
    limit,          \* how many operations may ever be reserved
    spent,          \* how many were
    phase,          \* what became of each operation
    permissions     \* how many broadcast permissions each was given

vars == <<limit, spent, phase, permissions>>

Phases == {"free", "held", "permitted", "closed"}
Reserved == {op \in Operations : phase[op] # "free"}
Open == {op \in Operations : phase[op] \in {"held", "permitted"}}

TypeOK ==
    /\ limit \in Nat \cup {NoLimit}
    /\ spent \in Nat
    /\ phase \in [Operations -> Phases]
    /\ permissions \in [Operations -> Nat]

Init ==
    /\ limit = NoLimit
    /\ spent = 0
    /\ phase = [op \in Operations |-> "free"]
    /\ permissions = [op \in Operations |-> 0]

Reserve(op) ==
    /\ phase[op] = "free"
    /\ Open = {}
    /\ \A other \in Reserved : <<op, other>> \notin Conflicts
    /\ limit' \in Nat \ {0}
    /\ limit \in {limit', NoLimit}
    /\ spent < limit'
    /\ spent' = spent + 1
    /\ phase' = [phase EXCEPT ![op] = "held"]
    /\ UNCHANGED permissions

Permit(op) ==
    /\ phase[op] = "held"
    /\ phase' = [phase EXCEPT ![op] = "permitted"]
    /\ permissions' = [permissions EXCEPT ![op] = @ + 1]
    /\ UNCHANGED <<limit, spent>>

Close(op) ==
    /\ phase[op] \in {"held", "permitted"}
    /\ phase' = [phase EXCEPT ![op] = "closed"]
    /\ UNCHANGED <<limit, spent, permissions>>

Next == \E op \in Operations : Reserve(op) \/ Permit(op) \/ Close(op)

Spec == Init /\ [][Next]_vars
=============================================================================
