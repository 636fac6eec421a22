------------------------- MODULE DeploymentLifecycle -------------------------
(***************************************************************************)
(* One reconciliation pass of the V2 deployment                            *)
(* (src/recovery-v2-deployment.mjs, with the hooks of                      *)
(* src/recovery-v2-deployment-runtime.mjs), run again and again by server  *)
(* instances against a chain that moves, forks and finalizes meanwhile.    *)
(*                                                                         *)
(* A pass reads several facts with one Promise.all; each is answered at a  *)
(* moment of its own, so a field of the result comes from the chain as it  *)
(* was when the read began or as it is when it ends.  Every call may fail  *)
(* or time out, and what a timed-out broadcast sent may still land.  The   *)
(* manifest, the artifact and every comparison of a field with them are    *)
(* abstracted to the deployment's identity on the chain.                   *)
(***************************************************************************)
EXTENDS SignerChain

CONSTANT Instances   \* server instances, rolling duplicates of each other

VARIABLES
    successors, \* the instances of a successor repository, which may only observe
    window,     \* the clock against the broadcast window
    submitted,  \* a provider was handed the raw transaction
    rejected,   \* the instances whose kept verification is a rejection
    run         \* of each instance: the pass it is in and its last result

deploymentVars == <<chain, finalized, forks, queued, successors, window, submitted, rejected, run>>

DEPLOYMENT_NONCE == 55
POST_FINALITY_BLOCKS == 2

-----------------------------------------------------------------------------
(* What a provider answers *)

NoReceipt == [at |-> 0, fork |-> 0, ok |-> FALSE]
Receipts == [at : 0..MaxHeight, fork : 0..MaxForks, ok : BOOLEAN]

ReceiptIn(c) ==
    IF \E h \in DOMAIN c : c[h].tx \in {"deploy", "reverted"}
    THEN LET h == CHOOSE h \in DOMAIN c : c[h].tx \in {"deploy", "reverted"}
         IN [at |-> h, fork |-> c[h].fork, ok |-> c[h].tx = "deploy"]
    ELSE NoReceipt

\* Code at the predicted address, which is a function of the signer and nonce 55.
CodeAt(c, h) ==
    LET upto == {c[k].tx : k \in DOMAIN c \cap (1..h)}
    IN IF "deploy" \in upto THEN "runtime" ELSE IF "rival" \in upto THEN "other" ELSE "empty"

Known(w) == ReceiptIn(w.chain) # NoReceipt \/ w.pool = "deploy"
PendingNonceIn(w) == NextNonce(w.chain) + (IF w.pool = "none" THEN 0 ELSE 1)

\* readDeploymentState, begun in world v and ended in world w.
StateReads(v, w) ==
    [receipt : {ReceiptIn(v.chain), ReceiptIn(w.chain)},
     known : {Known(v), Known(w)},
     latest : {NextNonce(v.chain), NextNonce(w.chain)},
     pending : {PendingNonceIn(v), PendingNonceIn(w)},
     code : {CodeAt(v.chain, Len(v.chain)), CodeAt(w.chain, Len(w.chain))}]

\* What getBlock(at) answers, and the code there; a block that is not there has no code.
BlockOf(c, at) == [fork |-> IF at \in DOMAIN c THEN c[at].fork ELSE -1, holds |-> DeployedAt(c, at)]
CodesAt(c, at) == IF at \in DOMAIN c THEN {CodeAt(c, at)} ELSE {}

\* The finality reads for a receipt of block at.
FinalityReads(v, w, at) ==
    [latest : {Len(v.chain), Len(w.chain)},
     finalized : {v.finalized, w.finalized},
     block : {BlockOf(v.chain, at), BlockOf(w.chain, at)},
     receipt : {ReceiptIn(v.chain), ReceiptIn(w.chain)},
     known : {Known(v), Known(w)},
     code : CodesAt(v.chain, at) \cup CodesAt(w.chain, at)]

\* Each provider of the verification reads as much: the transaction, both
\* blocks, and the contract as of that block.
CanonicalReads(v, w, at) == FinalityReads(v, w, at)

-----------------------------------------------------------------------------
(* The decisions *)

\* reconcileDeployment with a successful receipt.
Mined(s) ==
    IF ~s.known THEN "mined"
    ELSE IF s.latest > DEPLOYMENT_NONCE + 1 \/ s.pending > DEPLOYMENT_NONCE + 1 THEN "conflict"
    ELSE IF s.latest # DEPLOYMENT_NONCE + 1 \/ s.pending # DEPLOYMENT_NONCE + 1 THEN "mined"
    ELSE IF s.code = "empty" THEN "mined"
    ELSE IF s.code # "runtime" THEN "conflict"
    ELSE "check-finality"

\* reconcileDeployment without a receipt; "absent" when nothing is there to reconcile.
Unmined(s) ==
    IF s.code # "empty" THEN "conflict"
    ELSE IF s.known
    THEN IF s.latest > DEPLOYMENT_NONCE + 1 \/ s.pending > DEPLOYMENT_NONCE + 1 THEN "conflict" ELSE "pending"
    ELSE IF s.latest < DEPLOYMENT_NONCE \/ s.pending < DEPLOYMENT_NONCE THEN "blocked"
    ELSE IF s.latest > DEPLOYMENT_NONCE \/ s.pending > DEPLOYMENT_NONCE THEN "conflict"
    ELSE "absent"

Reconciled(s) ==
    IF s.pending < s.latest THEN "conflict"
    ELSE IF s.receipt = NoReceipt THEN Unmined(s)
    ELSE IF ~s.receipt.ok THEN "failed"
    ELSE Mined(s)

\* The receipt read first, confirmed by everything read again.
SameDeployment(f, receipt) ==
    /\ f.block = [fork |-> receipt.fork, holds |-> TRUE]
    /\ f.receipt = receipt
    /\ f.known
    /\ f.code = "runtime"

\* Bug: a finalized head counts as a finality order that cannot be.
FinalityAtHead(f, receipt) ==
    IF f.finalized >= f.latest THEN "conflict"
    ELSE IF f.block.fork = -1 THEN "mined"
    ELSE IF ~SameDeployment(f, receipt) THEN "conflict"
    ELSE IF f.finalized < receipt.at + POST_FINALITY_BLOCKS THEN "mined"
    ELSE "verify"

\* reconcileFinality up to the verification hooks.
FinalityOf(f, receipt) ==
    IF f.finalized > f.latest THEN "conflict"
    ELSE IF f.block.fork = -1 THEN "mined"
    ELSE IF ~SameDeployment(f, receipt) THEN "conflict"
    ELSE IF f.finalized < receipt.at + POST_FINALITY_BLOCKS THEN "mined"
    ELSE "verify"

\* Bug: the hooks trust the finality reads and verify nothing of their own.
CanonicalUnchecked(f, at) == TRUE

\* verifyCanonicalDeployment: the block of that number holds the deployment.
CanonicalAt(f, at) ==
    /\ f.receipt = [at |-> at, fork |-> f.block.fork, ok |-> TRUE]
    /\ f.block.holds
    /\ f.code = "runtime"

\* Bug: the preflight looks at the predicted address and not at the nonces.
PreflightCodeOnly(s) == s.code = "empty"

\* verifyPreBroadcast's view of the chain; simulation, gas and balance are checked with it.
PreflightClean(s) == s.latest = DEPLOYMENT_NONCE /\ s.pending = DEPLOYMENT_NONCE /\ s.code = "empty"

-----------------------------------------------------------------------------
(* The pass *)

Results ==
    {"none", "blocked", "pending", "mined", "broadcast", "uncertain", "conflict", "failed", "finalized"}
TerminalResults == {"conflict", "failed", "finalized"}
Steps == {"idle", "read", "finality", "verify", "preflight", "sign", "sending"}
\* The first read, the one before the send, and the one after a broadcast that failed.
Passes == 1..3

NoWorld == [chain |-> <<>>, finalized |-> 0, pool |-> "none"]
Resting(result) ==
    [step |-> "idle", pass |-> 1, from |-> NoWorld, receipt |-> NoReceipt, finalized |-> 0, result |-> result,
     afterFinality |-> FALSE]

DeploymentTypeOK ==
    /\ queued \in Pools /\ finalized \in 0..Len(chain) /\ forks \in 0..MaxForks
    /\ Len(chain) <= MaxHeight /\ \A h \in DOMAIN chain : chain[h] \in Blocks
    /\ window \in {"early", "open", "closed"} /\ successors \subseteq Instances /\ submitted \in BOOLEAN
    /\ rejected \subseteq Instances
    /\ \A i \in Instances :
        /\ run[i].step \in Steps /\ run[i].pass \in Passes
        /\ run[i].from.pool \in Pools /\ run[i].from.finalized \in 0..MaxHeight
        /\ run[i].receipt \in Receipts /\ run[i].finalized \in 0..MaxHeight
        /\ run[i].result \in Results
        /\ run[i].afterFinality \in BOOLEAN

DeploymentInit ==
    /\ ChainInit
    /\ successors \in SUBSET Instances
    /\ window \in {"early", "open"}
    /\ submitted \in BOOLEAN  \* by an instance that is gone
    /\ rejected = {}
    /\ run = [i \in Instances |-> Resting("none")]

\* The pass of i awaits the calls of a step, which begin in the present world.
AwaitsWith(i, step, pass, receipt, height) ==
    run' = [run EXCEPT ![i] = [step |-> step, pass |-> pass, from |-> World, receipt |-> receipt,
                               finalized |-> height, result |-> @.result, afterFinality |-> @.afterFinality]]
Awaits(i, step, pass) == AwaitsWith(i, step, pass, NoReceipt, 0)
Ends(i, result) == run' = [run EXCEPT ![i] = Resting(result)]

At(i, step) == run[i].step = step
OutsideAlone == UNCHANGED <<chainVars, successors, window>>

\* The supervisor's next call.  afterFinality is history for the properties below.
StartPass(i) ==
    /\ At(i, "idle") /\ run[i].result \notin TerminalResults
    /\ run' = [run EXCEPT ![i] = [step |-> "read", pass |-> 1, from |-> World, receipt |-> NoReceipt,
                                  finalized |-> 0, result |-> @.result, afterFinality |-> DeployedForGood]]
    /\ OutsideAlone /\ UNCHANGED <<submitted, rejected>>

\* Before its first read a pass asks for the signer's address, which may fail as well.
ReadFails(i) ==
    /\ At(i, "read")
    /\ Ends(i, IF run[i].pass = 3 THEN "uncertain" ELSE "blocked")
    /\ OutsideAlone /\ UNCHANGED <<submitted, rejected>>

\* Nothing to reconcile: what the pass does next.
Proceeds(i) ==
    IF run[i].pass = 3 THEN Ends(i, "uncertain")
    ELSE IF i \in successors THEN Ends(i, "blocked")
    ELSE IF run[i].pass = 2 /\ window # "open" THEN Ends(i, "blocked")
    ELSE Awaits(i, "preflight", run[i].pass)

ReadEnds(i) ==
    /\ At(i, "read")
    /\ \E s \in StateReads(run[i].from, World) :
        LET verdict == Reconciled(s) IN
        IF verdict = "absent" THEN Proceeds(i)
        ELSE IF verdict = "check-finality" THEN AwaitsWith(i, "finality", run[i].pass, s.receipt, 0)
        ELSE Ends(i, verdict)
    /\ OutsideAlone /\ UNCHANGED <<submitted, rejected>>

FinalityFails(i) ==
    /\ At(i, "finality")
    /\ Ends(i, "mined")
    /\ OutsideAlone /\ UNCHANGED <<submitted, rejected>>

FinalityEnds(i) ==
    /\ At(i, "finality")
    /\ \E f \in FinalityReads(run[i].from, World, run[i].receipt.at) :
        LET verdict == FinalityOf(f, run[i].receipt) IN
        IF verdict = "verify" THEN AwaitsWith(i, "verify", run[i].pass, run[i].receipt, f.finalized)
        ELSE Ends(i, verdict)
    /\ OutsideAlone /\ UNCHANGED <<submitted, rejected>>

\* Bug: a rejected verification is kept as the result of every later pass.
Kept(i) == rejected' = rejected \cup {i}

\* The instance keeps the promise of its verification for the second hook and for
\* later passes.  A rejected one is forgotten, so that the next pass verifies
\* again; one that resolved decides this pass, and with it the instance.  It has
\* settled before the pass gives up: both wait as long, and it began first.
Forgotten(i) == rejected' = rejected \ {i}

VerifyFails(i) ==
    /\ At(i, "verify")
    /\ Ends(i, "mined")
    /\ Forgotten(i)
    /\ OutsideAlone /\ UNCHANGED submitted

\* Both hooks are one verification, by two providers that must both agree.
VerifyEnds(i) ==
    /\ At(i, "verify")
    /\ i \notin rejected
    /\ LET at == run[i].receipt.at IN
       \E primary, audit \in CanonicalReads(run[i].from, World, at) :
        LET agreed == run[i].finalized >= at + 2 /\ CanonicalAt(primary, at) /\ CanonicalAt(audit, at) IN
        Ends(i, IF agreed THEN "finalized" ELSE "conflict")
    /\ OutsideAlone /\ UNCHANGED <<submitted, rejected>>

PreflightFails(i) ==
    /\ At(i, "preflight")
    /\ \E result \in {"blocked", "conflict"} : Ends(i, result)
    /\ OutsideAlone /\ UNCHANGED <<submitted, rejected>>

\* A clean preflight is followed by signing, or the second time by the broadcast.
PreflightEnds(i) ==
    /\ At(i, "preflight")
    /\ \E s \in StateReads(run[i].from, World) : PreflightClean(s)
    /\ IF window # "open" THEN Ends(i, "blocked") /\ UNCHANGED submitted
       ELSE IF run[i].pass = 1 THEN Awaits(i, "sign", 1) /\ UNCHANGED submitted
       ELSE Awaits(i, "sending", 2) /\ submitted' = TRUE
    /\ OutsideAlone /\ UNCHANGED rejected

\* Signing fails or gives other bytes than the committed ones.
SignFails(i) ==
    /\ At(i, "sign")
    /\ Ends(i, "blocked")
    /\ OutsideAlone /\ UNCHANGED <<submitted, rejected>>

SignEnds(i) ==
    /\ At(i, "sign")
    /\ Awaits(i, "read", 2)
    /\ OutsideAlone /\ UNCHANGED <<submitted, rejected>>

\* The provider answers with the committed hash, or another.
SendEnds(i) ==
    /\ At(i, "sending")
    /\ \E result \in {"broadcast", "conflict"} : Ends(i, result)
    /\ OutsideAlone /\ UNCHANGED <<submitted, rejected>>

SendFails(i) ==
    /\ At(i, "sending")
    /\ Awaits(i, "read", 3)
    /\ OutsideAlone /\ UNCHANGED <<submitted, rejected>>

\* The server is restarted; nothing of a pass or a result survives.
Restart(i) ==
    /\ run' = [run EXCEPT ![i] = Resting("none")]
    /\ rejected' = rejected \ {i}
    /\ OutsideAlone /\ UNCHANGED submitted

WindowMoves ==
    /\ window' = CASE window = "early" -> "open" [] OTHER -> "closed"
    /\ UNCHANGED <<chainVars, successors, submitted, rejected, run>>

Outside ==
    /\ ChainNext \/ (submitted /\ RawLands)
    /\ UNCHANGED <<successors, window, submitted, rejected, run>>

PassNext(i) ==
    \/ StartPass(i) \/ ReadFails(i) \/ ReadEnds(i)
    \/ FinalityFails(i) \/ FinalityEnds(i) \/ VerifyFails(i) \/ VerifyEnds(i)
    \/ PreflightFails(i) \/ PreflightEnds(i) \/ SignFails(i) \/ SignEnds(i)
    \/ SendEnds(i) \/ SendFails(i)

DeploymentNext == Outside \/ WindowMoves \/ \E i \in Instances : PassNext(i) \/ Restart(i)

DeploymentSpec == DeploymentInit /\ [][DeploymentNext]_deploymentVars

\* The supervisor's timer calls again; providers do not fail forever.
DeploymentFairness ==
    \A i \in Instances :
        /\ WF_deploymentVars(StartPass(i))
        /\ SF_deploymentVars(ReadEnds(i)) /\ SF_deploymentVars(FinalityEnds(i)) /\ SF_deploymentVars(VerifyEnds(i))
FairDeploymentSpec == DeploymentSpec /\ DeploymentFairness

-----------------------------------------------------------------------------
(* Properties *)

\* Readiness is never given to a deployment that a reorganisation could undo, though
\* the reads behind it are spread over a chain that forks between them.
FinalizedIsFinal == \A i \in Instances : run[i].result = "finalized" => DeployedForGood

\* The signer has used the nonce after the deployment's.
MovedOn(w) == PendingNonceIn(w) > DEPLOYMENT_NONCE + 1

\* A pass that begins once the deployment is final does not refuse it, unless the
\* signer moved on or finality overtook the chain that the pass asked the height of.
Overtaken(i) == finalized > Len(run[i].from.chain)
RefusesWrongly(i) ==
    /\ run[i].afterFinality /\ ~MovedOn(World) /\ ~MovedOn(run[i].from)
    /\ run'[i].step = "idle" /\ run'[i].result \in {"conflict", "failed"}
    /\ ~Overtaken(i)
NoFalseRefusal == [][\A i \in Instances : ~RefusesWrongly(i)]_deploymentVars

\* The raw transaction leaves only within its window and never when, already before
\* the last preflight, its nonce was spent in a finalized block.
SpentForGood(w) == NextNonce(SubSeq(w.chain, 1, w.finalized)) > DEPLOYMENT_NONCE
SendHolds(i) ==
    At(i, "preflight") /\ run'[i].step = "sending" => window = "open" /\ ~SpentForGood(run[i].from)
SendsAreTimely == [][\A i \in Instances : SendHolds(i)]_deploymentVars

\* A final deployment is eventually recognised, or refused, by every instance that
\* has not given up before.
Recognised ==
    \A i \in Instances :
        DeployedForGood /\ At(i, "idle") /\ run[i].result \notin TerminalResults
            ~> run[i].result \in {"finalized", "conflict"}
=============================================================================
