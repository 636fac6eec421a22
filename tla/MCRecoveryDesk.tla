--------------------------- MODULE MCRecoveryDesk ---------------------------
(* Two pairs of two wallets; a campaign that closes, and its successor, which
   has hosted admission. *)
EXTENDS RecoveryDesk, TLC

CONSTANTS p1, p2, alice, bob
OwnerOf(pair) == IF pair = p1 THEN alice ELSE bob
Answer(campaign, mode, open) == [campaign |-> campaign, mode |-> mode, open |-> open, hosted |-> campaign = 2]
Known == {Answer(1, "write", TRUE), Answer(1, "write", FALSE), Answer(2, "write", TRUE), Answer(1, "read", TRUE)}
\* The pairs are alike, together with their wallets.
Symmetry == {[x \in {p1, p2, alice, bob} |-> x], (p1 :> p2) @@ (p2 :> p1) @@ (alice :> bob) @@ (bob :> alice)}
=============================================================================
