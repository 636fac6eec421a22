----------------------------- MODULE SignerChain -----------------------------
(***************************************************************************)
(* The target chain and the signer's account, as the deployment code meets *)
(* them through its providers: blocks on top of a finalized prefix, forks, *)
(* and one pool entry for the signer's next nonce.  External: nothing here *)
(* is decided by the repository's code.                                    *)
(***************************************************************************)
EXTENDS Integers, Sequences, FiniteSets

CONSTANTS
    FirstNonce,  \* of the signer, before the first block
    Others,      \* what the signer's other software may send
    MaxHeight, MaxForks  \* bounds of the exploration

ASSUME ChainAssumption ==
    /\ FirstNonce \in Nat /\ MaxHeight \in Nat /\ MaxForks \in Nat
    /\ Others \subseteq {"prior", "deploy", "rival", "later"}

VARIABLES chain, finalized, forks, queued

chainVars == <<chain, finalized, forks, queued>>

\* Transactions of the signer by what they do: one of nonce 54, the deployment (that
\* may revert), another creation of nonce 55, one of nonce 56; "none" is an empty block.
Txs == {"none", "prior", "deploy", "reverted", "rival", "later"}
NonceOf(tx) == CASE tx = "prior" -> 54 [] tx \in {"deploy", "reverted", "rival"} -> 55 [] OTHER -> 56

Blocks == [fork : 0..MaxForks, tx : Txs]
Pools == Txs \ {"reverted"}

World == [chain |-> chain, finalized |-> finalized, pool |-> queued]

Spent(c) == {h \in DOMAIN c : c[h].tx # "none"}
NextNonce(c) == FirstNonce + Cardinality(Spent(c))

\* The deployment is in a finalized block, with two finalized ones behind it.
DeployedAt(c, h) == h \in DOMAIN c /\ c[h].tx = "deploy"
DeployedForGood == \E h \in 1..(finalized - 2) : DeployedAt(chain, h)

ChainInit ==
    /\ chain = <<>> /\ finalized = 0 /\ forks = 0
    /\ queued = "none"

\* Other software, or a signer's device, sends a transaction for the next nonce.
OtherSends(tx) ==
    /\ NonceOf(tx) = NextNonce(chain)
    /\ queued' = tx
    /\ UNCHANGED <<chain, finalized, forks>>

\* The committed raw transaction reaches the pool, if its nonce is still free.
RawLands ==
    /\ queued = "none" /\ NextNonce(chain) = NonceOf("deploy")
    /\ queued' = "deploy"
    /\ UNCHANGED <<chain, finalized, forks>>

\* A block takes the pool's transaction or leaves it; a creation may revert.
Mine(tx) ==
    /\ Len(chain) < MaxHeight
    /\ tx \in {"none", queued} \/ (tx = "reverted" /\ queued = "deploy")
    /\ chain' = Append(chain, [fork |-> forks, tx |-> tx])
    /\ queued' = (IF tx = "none" THEN queued ELSE "none")
    /\ UNCHANGED <<finalized, forks>>

Finalize ==
    /\ finalized < Len(chain)
    /\ finalized' = finalized + 1
    /\ UNCHANGED <<chain, forks, queued>>

Undone(h) == {k \in Spent(chain) : k > h}
Pooled(tx) == IF tx = "reverted" THEN "deploy" ELSE tx

\* The blocks above h are abandoned; their first transaction is pooled again or lost.
Reorg(h) ==
    /\ forks < MaxForks
    /\ h \in finalized..(Len(chain) - 1)
    /\ chain' = SubSeq(chain, 1, h)
    /\ forks' = forks + 1
    /\ queued' = "none" \/ (Undone(h) = {} /\ queued' = queued)
       \/ \E k \in Undone(h) : (\A l \in Undone(h) : k <= l) /\ queued' = Pooled(chain[k].tx)
    /\ UNCHANGED finalized

ChainNext ==
    \/ \E tx \in Others : OtherSends(tx)
    \/ \E tx \in Txs : Mine(tx)
    \/ Finalize
    \/ \E h \in 0..MaxHeight : Reorg(h)
=============================================================================
