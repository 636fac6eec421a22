---------------------------- MODULE CreditLineage ----------------------------
(***************************************************************************)
(* What the two recovery pools promise together: the predecessor campaign  *)
(* credits a wallet at most once and is sealed before any successor pays,  *)
(* and a sponsor's successor campaigns credit a wallet at most once and    *)
(* never one the predecessor credited.                                     *)
(***************************************************************************)
EXTENDS Integers

CONSTANTS Wallets, Sponsors

VARIABLES
    legacy,     \* how often the predecessor credited each wallet
    sealed,     \* the predecessor can credit nobody any more
    credits     \* how often each sponsor's successors credited each wallet

vars == <<legacy, sealed, credits>>

TypeOK ==
    /\ legacy \in [Wallets -> Nat]
    /\ sealed \in BOOLEAN
    /\ credits \in [Sponsors \X Wallets -> Nat]

Init ==
    /\ legacy = [w \in Wallets |-> 0]
    /\ sealed = FALSE
    /\ credits = [sw \in Sponsors \X Wallets |-> 0]

\* The last credit of the predecessor also seals it.
PayLegacy(w) ==
    /\ ~sealed
    /\ legacy[w] = 0
    /\ legacy' = [legacy EXCEPT ![w] = 1]
    /\ sealed' \in BOOLEAN
    /\ UNCHANGED credits

Seal == sealed' = TRUE /\ UNCHANGED <<legacy, credits>>

Pay(s, w) ==
    /\ sealed
    /\ legacy[w] = 0 /\ credits[s, w] = 0
    /\ credits' = [credits EXCEPT ![<<s, w>>] = 1]
    /\ UNCHANGED <<legacy, sealed>>

Next ==
    \/ \E w \in Wallets : PayLegacy(w)
    \/ Seal
    \/ \E s \in Sponsors, w \in Wallets : Pay(s, w)

Spec == Init /\ [][Next]_vars
=============================================================================
