-------------------------- MODULE MCSpendingLedger --------------------------
\* Instances of SpendingLedger for TLC.
EXTENDS SpendingLedger, TLC

CONSTANTS w1, w2, h1, h2, h3, t1, t2

\* A policy bound by its fees, one bound by its attempts, one by its payouts.
Small == [maxAttempts |-> 3, maxPayouts |-> 3, maxTotalFee |-> 5, maxFee |-> 2, expiresAt |-> 1]
Lasting == [maxAttempts |-> 1, maxPayouts |-> 2, maxTotalFee |-> 9, maxFee |-> 3, expiresAt |-> 2]
OnePolicy == {Small}
TwoPolicies == {Small, Lasting}

Symmetry == Permutations(Hashes) \cup Permutations(TxHashes) \cup Permutations(Wallets)
=============================================================================
