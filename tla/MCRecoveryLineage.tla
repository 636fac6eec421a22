------------------------- MODULE MCRecoveryLineage -------------------------
(* What the service takes for a retry, and what the campaigns of a lineage pay
   for one.  They share nothing, so a behaviour exercises one of them and
   leaves the other as it was created. *)
EXTENDS RecoveryLineage, MCSourceResolution

CONSTANTS w1, w2, s1, s2

Retry(wallet, failure, success) == [wallet |-> wallet, failure |-> failure, success |-> success]

\* Two retries of one wallet and one of another; no transaction is in two pairs.
ThreePairs == {Retry(w1, 1, 2), Retry(w1, 3, 4), Retry(w2, 5, 6)}

\* Two small credits or one large.
TwoTerms == {[credit |-> 1, max |-> 2, start |-> 1, end |-> 6],
             [credit |-> 3, max |-> 1, start |-> 1, end |-> 6]}

VARIABLE half   \* what is exercised

BothInit ==
    \/ half = "lineage" /\ Init /\ ResolutionInit /\ source = Paid(1)
    \/ half = "resolution" /\ Init /\ ResolutionInit

BothNext ==
    \/ half = "lineage" /\ Next /\ UNCHANGED <<half, resolutionVars>>
    \/ half = "resolution" /\ ResolutionNext /\ UNCHANGED <<half, vars>>

BothSpec == BothInit /\ [][BothNext]_<<half, vars, resolutionVars>>

Symmetry == Permutations(Sponsors)
=============================================================================
