--------------------------- MODULE ServiceCredits ---------------------------
(***************************************************************************)
(* The pool of sponsored service credits.  A sponsor funds a draft whose   *)
(* source window is not attested yet, activates it once the block of the   *)
(* draft is mined, commits the two signed source transactions, and anyone  *)
(* may release the credit to its beneficiary with a proof of exactly those *)
(* two; what is not released in time the sponsor gets back.  One clock     *)
(* stands for the blocks and the seconds of the pool's chain.              *)
(***************************************************************************)
EXTENDS Integers, Sequences

CONSTANTS
    Sponsors, Beneficiaries, Amounts,
    ActivationWindow,       \* blocks a draft may wait for its activation
    Transactions,           \* signed source transactions
    Actions                 \* action identifiers a sponsor may choose

ASSUME PoolAssumption ==
    /\ Amounts \subseteq Nat \ {0}
    /\ ActivationWindow \in Nat

VARIABLES
    credits,    \* the credits by number
    balance,    \* wei the pool holds
    consumed,   \* released actions, and the transactions that proved them
    now,        \* block and timestamp of the pool's chain
    attested    \* the latest attested source block

pool == <<credits, balance, consumed, now, attested>>

NoRoutes == << >>
States == {"open", "released", "refunded"}
Numbers == DOMAIN credits
Unresolved(c) == credits[c].state = "open"
ActionKey(c) == <<"action", credits[c].beneficiary, credits[c].action>>
Queries(routes) == {<<"query", routes[1]>>, <<"query", routes[2]>>}
PairOf(routes) == <<"pair", routes[1], routes[2]>>

PoolInit ==
    /\ credits = << >> /\ balance = 0 /\ consumed = {}
    /\ now = 0 /\ attested = 0

-----------------------------------------------------------------------------
(* The pool's transactions *)

Draft(sponsor, terms) ==
    [sponsor |-> sponsor, beneficiary |-> terms.beneficiary, action |-> terms.action,
     amount |-> terms.amount, refundAfter |-> terms.refundAfter, created |-> now,
     start |-> terms.start, end |-> terms.end,
     active |-> FALSE, routes |-> NoRoutes, state |-> "open"]

CreateServiceCredit(sponsor, terms) ==
    /\ terms.amount > 0
    /\ terms.refundAfter > now
    /\ terms.start <= terms.end
    /\ terms.start > attested
    /\ credits' = Append(credits, Draft(sponsor, terms))
    /\ balance' = balance + terms.amount
    /\ UNCHANGED <<consumed, now, attested>>

ActivateServiceCredit(c, sponsor) ==
    /\ c \in Numbers
    /\ sponsor = credits[c].sponsor
    /\ Unresolved(c) /\ ~credits[c].active
    /\ now < credits[c].refundAfter
    /\ now > credits[c].created /\ now <= credits[c].created + ActivationWindow
    /\ credits' = [credits EXCEPT ![c].active = TRUE]
    /\ UNCHANGED <<balance, consumed, now, attested>>

CommitSourceTransactions(c, sponsor, failed, successful) ==
    /\ c \in Numbers
    /\ sponsor = credits[c].sponsor
    /\ Unresolved(c) /\ credits[c].active
    /\ credits[c].routes = NoRoutes
    /\ failed # successful
    /\ credits' = [credits EXCEPT ![c].routes = <<failed, successful>>]
    /\ UNCHANGED <<balance, consumed, now, attested>>

Replayed(c) ==
    LET routes == credits[c].routes IN
    \/ ActionKey(c) \in consumed
    \/ PairOf(routes) \in consumed
    \/ \E query \in Queries(routes) : query \in consumed

\* verified: the verifier accepts the proof of the committed pair.
ReleaseCredit(c, verified) ==
    /\ c \in Numbers
    /\ Unresolved(c) /\ credits[c].active
    /\ now <= credits[c].refundAfter
    /\ credits[c].routes # NoRoutes
    /\ verified
    /\ ~Replayed(c)
    /\ credits' = [credits EXCEPT ![c].state = "released"]
    /\ consumed' = consumed \cup {ActionKey(c), PairOf(credits[c].routes)} \cup Queries(credits[c].routes)
    /\ balance' = balance - credits[c].amount
    /\ UNCHANGED <<now, attested>>

InactiveDraftExpired(c) ==
    /\ ~credits[c].active
    /\ now > credits[c].created + ActivationWindow \/ now >= credits[c].refundAfter

RefundServiceCredit(c, sponsor) ==
    /\ c \in Numbers
    /\ sponsor = credits[c].sponsor
    /\ Unresolved(c)
    /\ InactiveDraftExpired(c) \/ (now > credits[c].refundAfter /\ attested >= credits[c].end)
    /\ credits' = [credits EXCEPT ![c].state = "refunded"]
    /\ balance' = balance - credits[c].amount
    /\ UNCHANGED <<consumed, now, attested>>

-----------------------------------------------------------------------------
(* The two chains go on *)

Tick == now' = now + 1 /\ UNCHANGED <<credits, balance, consumed, attested>>

Attest(height) == height > attested /\ attested' = height /\ UNCHANGED <<credits, balance, consumed, now>>

Terms ==
    [beneficiary : Beneficiaries, action : Actions, amount : Amounts,
     refundAfter : Nat, start : Nat, end : Nat]

PoolNext ==
    \/ \E sponsor \in Sponsors :
          \/ \E terms \in Terms : CreateServiceCredit(sponsor, terms)
          \/ \E c \in Numbers : ActivateServiceCredit(c, sponsor) \/ RefundServiceCredit(c, sponsor)
          \/ \E c \in Numbers, failed, successful \in Transactions :
                CommitSourceTransactions(c, sponsor, failed, successful)
    \/ \E c \in Numbers, verified \in BOOLEAN : ReleaseCredit(c, verified)
    \/ Tick
    \/ \E height \in Nat : Attest(height)

PoolSpec == PoolInit /\ [][PoolNext]_pool

-----------------------------------------------------------------------------
(* Properties *)

\* A source transaction, and an action, earns one credit: no two released
\* credits share a committed transaction or an action of their beneficiary.
PaidOnce ==
    \A c, d \in Numbers :
        c # d /\ credits[c].state = "released" /\ credits[d].state = "released" =>
            /\ Queries(credits[c].routes) \cap Queries(credits[d].routes) = {}
            /\ ActionKey(c) # ActionKey(d)
=============================================================================
