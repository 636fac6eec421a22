---------------------------- MODULE SourceWallets ----------------------------
(***************************************************************************)
(* What both recovery desks of the web page are about: pairs of public     *)
(* transactions, and the wallet the service derives from each.             *)
(***************************************************************************)
CONSTANTS
    Pairs, Wallets, NoPair, NoWallet,
    WalletOf(_)   \* the source wallet of a pair

ASSUME PairsAssumption ==
    NoPair \notin Pairs /\ NoWallet \notin Wallets /\ \A p \in Pairs : WalletOf(p) \in Wallets
=============================================================================
