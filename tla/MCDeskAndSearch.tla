-------------------------- MODULE MCDeskAndSearch --------------------------
(* The owner's desk, and the search of a wallet's history it may start from.
   The desk's own discovery takes any of the wallet's pairs, so the two share
   nothing and a behaviour exercises one of them. *)
EXTENDS MCRecoveryDesk, WalletDiscovery

CONSTANTS retry, fake
VARIABLE half   \* what is exercised

\* The two attempts of a retry, and of what only looks like one.
FewRows == [ok : BOOLEAN, call : {retry, fake}]

BothInit ==
    /\ half \in {"desk", "search"} /\ Init /\ DiscoveryInit
    /\ half = "search" => service = Answer(1, "write", TRUE)

BothNext ==
    \/ half = "desk" /\ Next /\ UNCHANGED <<half, discoveryVars>>
    \/ half = "search" /\ DiscoveryNext /\ UNCHANGED <<half, vars>>

BothSpec == BothInit /\ [][BothNext]_<<half, vars, discoveryVars>>
=============================================================================
