-------------------------- MODULE MCHelperRelease --------------------------
\* Instances of HelperRelease for TLC.
EXTENDS HelperRelease, TLC

CONSTANTS p1, p2, p3, w1, w2

\* Two pairs of one wallet and one of another.
TwoWallets == p1 :> w1 @@ p2 :> w1 @@ p3 :> w2
=============================================================================
