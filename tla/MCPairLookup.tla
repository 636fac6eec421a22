---------------------------- MODULE MCPairLookup ----------------------------
\* Instances of PairLookup for TLC.
EXTENDS PairLookup
=============================================================================
