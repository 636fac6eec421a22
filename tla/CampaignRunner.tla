---------------------------- MODULE CampaignRunner ----------------------------
(***************************************************************************)
(* The operator's script that deploys a recovery campaign, funds it,       *)
(* releases its one bounded credit and writes down what happened: "run"    *)
(* from nothing, "resume" from the evidence a failed attempt left.  An     *)
(* attempt that fails writes its evidence and ends, one that crashes       *)
(* writes nothing, and a transaction may land after its answer was lost.   *)
(* Attempts may overlap, and so do the chain's other users: they sponsor   *)
(* campaigns of the same contract and claim its credits.                   *)
(*                                                                         *)
(* Contract c is what the c-th run deploys.  A read that straddles a       *)
(* change fits no expected state and is one more failure.                  *)
(***************************************************************************)
EXTENDS Integers, Sequences, FiniteSets

CONSTANTS
    Attempts,           \* processes of the script
    Operator, Outsider, \* the campaign's key, and another one
    Foreigner,          \* everybody else on the chain
    Beneficiary, Stranger,  \* the wallet of the fixed pair, another qualified one
    Runs, Duration,
    MaxTime, MaxFailures    \* bounds: the clock; failures, crashes and wrong keys

Contracts == 1..Runs
MaxClaims == 3          \* runner:30
Deployments == 4        \* decoder, predicate, verifier, campaign

ASSUME KeysAssumption == Operator # Outsider /\ Foreigner \notin {Operator, Outsider}
ASSUME WalletsAssumption == Beneficiary # Stranger
ASSUME BoundsAssumption == Runs \in Nat /\ Duration \in Nat \ {0} /\ MaxTime \in Nat /\ MaxFailures \in Nat

VARIABLES
    now,        \* block.timestamp
    chain,      \* each contract: its deployment, its campaigns, the claims of number one
    txs,        \* every transaction the script broadcast, in nonce order
    attempt,    \* each process: its stage and the evidence it gathers
    files,      \* every evidence file written
    failures    \* failures so far

runnerVars == <<now, chain, txs, attempt, files, failures>>

None == 0
Idle == [stage |-> "idle"]
Fresh(c) == [signer |-> Operator, contract |-> c, deployed |-> 0, creation |-> None,
             deadline |-> None, release |-> None]

Parts == [signer : {Operator, Outsider}, contract : Contracts, deployed : 0..Deployments, creation : Nat,
          deadline : Nat, release : Nat]
Working == [stage : {"deploy", "predict", "create", "creating", "created", "simulate", "release", "releasing",
                     "settle", "replay", "verify", "classify", "open", "reconcile"},
            part : Parts, tx : Nat, deadline : Nat]
Campaigns == [sponsor : {Operator, Foreigner}, deadline : Nat, tx : Nat]
Claims == [wallet : {Beneficiary, Stranger}, relayer : {Operator, Foreigner}, tx : Nat, exact : BOOLEAN]
Transactions == [kind : {"create", "release"}, contract : Contracts, deadline : Nat,
                 status : {"pending", "ok", "reverted"}]

RunnerInit ==
    /\ now = 0
    /\ chain = [c \in Contracts |-> [deployed |-> 0, campaigns |-> <<>>, claims |-> <<>>, recovered |-> FALSE]]
    /\ txs = <<>>
    /\ attempt = [p \in Attempts |-> Idle]
    /\ files = {}
    /\ failures = 0

-----------------------------------------------------------------------------
(* The campaign contract *)

Claimed(c) == {chain[c].claims[i].wallet : i \in DOMAIN chain[c].claims}

Releasable(c, wallet) ==
    /\ chain[c].campaigns # <<>>
    /\ now <= chain[c].campaigns[1].deadline
    /\ Len(chain[c].claims) < MaxClaims
    /\ wallet \notin Claimed(c)

Created(c, campaign) == [chain EXCEPT ![c].campaigns = Append(@, campaign)]
Released(c, claim) == [chain EXCEPT ![c].claims = Append(@, claim)]

Pending(i) == txs[i].status = "pending"

\* The operator's next transaction.  exact: nothing else moved the
\* beneficiary's or the contract's balance in its block.
Land ==
    \E i \in DOMAIN txs, exact \in BOOLEAN :
        LET tx == txs[i]
            good == IF tx.kind = "create" THEN now < tx.deadline ELSE Releasable(tx.contract, Beneficiary)
        IN  /\ Pending(i) /\ \A j \in 1..(i - 1) : ~Pending(j)
            /\ txs' = [txs EXCEPT ![i].status = IF good THEN "ok" ELSE "reverted"]
            /\ chain' = CASE ~good -> chain
                          [] good /\ tx.kind = "create" ->
                                Created(tx.contract, [sponsor |-> Operator, deadline |-> tx.deadline, tx |-> i])
                          [] OTHER ->
                                Released(tx.contract, [wallet |-> Beneficiary, relayer |-> Operator,
                                                       tx |-> i, exact |-> exact])
            /\ UNCHANGED <<now, attempt, files, failures>>

Tick ==
    /\ now < MaxTime /\ now' = now + 1
    /\ UNCHANGED <<chain, txs, attempt, files, failures>>

ForeignCampaign(c) ==
    /\ chain[c].deployed = Deployments /\ Len(chain[c].campaigns) < 2
    /\ chain' = Created(c, [sponsor |-> Foreigner, deadline |-> now + Duration, tx |-> None])
    /\ UNCHANGED <<now, txs, attempt, files, failures>>

ForeignClaim(c, wallet) ==
    /\ Releasable(c, wallet)
    /\ chain' = Released(c, [wallet |-> wallet, relayer |-> Foreigner, tx |-> None, exact |-> TRUE])
    /\ UNCHANGED <<now, txs, attempt, files, failures>>

\* The sponsor's recoverRemainder, which is not the script's.
RecoverRemainder(c) ==
    /\ chain[c].campaigns # <<>> /\ chain[c].campaigns[1].sponsor = Operator
    /\ now > chain[c].campaigns[1].deadline /\ ~chain[c].recovered
    /\ chain' = [chain EXCEPT ![c].recovered = TRUE]
    /\ UNCHANGED <<now, txs, attempt, files, failures>>

-----------------------------------------------------------------------------
(* What an attempt reads *)

\* readCampaignState and assertCampaignState: campaign one of the operator is
\* the contract's only one, with no claim or with the beneficiary's alone.
Owned(c, signer, deadline) ==
    /\ Len(chain[c].campaigns) = 1
    /\ chain[c].campaigns[1].sponsor = signer
    /\ chain[c].campaigns[1].deadline = deadline
    /\ ~chain[c].recovered
Untouched(c) == chain[c].claims = <<>>
ExactRelease(c) == Len(chain[c].claims) = 1 /\ Claimed(c) = {Beneficiary}

\* verifyRuntimeBindings: the contracts name each other and the native ones,
\* which their constructors fixed.
Bound(part) == part.deployed = Deployments /\ chain[part.contract].deployed = Deployments

\* assertCampaignCreatedEvent: the transaction's event is campaign one of the
\* signer.
CreationAccepted(c, tx, signer) ==
    \E i \in DOMAIN chain[c].campaigns :
        /\ chain[c].campaigns[i].tx = tx
        /\ i = 1 /\ chain[c].campaigns[i].sponsor = signer

\* requireStaticReplayRejection: a replay must be refused as a replay, and a
\* closed campaign refuses it earlier.
ReplayRejected(c) == ~Releasable(c, Beneficiary) /\ now <= chain[c].campaigns[1].deadline

\* Bug: a release is credited to the operator whoever sent it.
ReleaseOfAnyone(c, i, signer) ==
    LET claim == chain[c].claims[i] IN
    /\ i = 1 /\ claim.wallet = Beneficiary
    /\ claim.exact

\* assertCreditReleasedEvent and the balances around the release's block.
ReleaseAccepted(c, i, signer) ==
    LET claim == chain[c].claims[i] IN
    /\ i = 1 /\ claim.wallet = Beneficiary
    /\ claim.relayer = signer
    /\ claim.exact

-----------------------------------------------------------------------------
(* The attempts *)

At(p, stage) == attempt[p].stage = stage
Part(p) == attempt[p].part
Goto(p, stage) == attempt' = [attempt EXCEPT ![p].stage = stage]
Keep(p, stage, part) == attempt' = [attempt EXCEPT ![p] = [@ EXCEPT !.stage = stage, !.part = part]]

Ends(p) == attempt' = [attempt EXCEPT ![p] = Idle]
Failed(p) == Ends(p) /\ files' = files \cup {[passed |-> FALSE, part |-> Part(p)]}

\* A step that reads and decides: it goes on, or the attempt fails.
Decide(p, holds, next) ==
    /\ IF holds THEN Goto(p, next) /\ files' = files ELSE Failed(p)
    /\ UNCHANGED <<now, chain, txs, failures>>

Used == {f.part.contract : f \in files} \cup {Part(p).contract : p \in {q \in Attempts : attempt[q] # Idle}}

\* The preflight reads the chains and the proof only; a run that did not pass
\* it has nothing to resume.
Run(p, c) ==
    /\ attempt[p] = Idle /\ c \notin Used /\ chain[c].deployed = 0
    /\ attempt' = [attempt EXCEPT ![p] = [stage |-> "deploy", part |-> Fresh(c), tx |-> None, deadline |-> None]]
    /\ UNCHANGED <<now, chain, txs, files, failures>>

\* One contract, deployed and waited for.
Deploy(p) ==
    /\ At(p, "deploy")
    /\ LET part == [Part(p) EXCEPT !.deployed = @ + 1] IN
       /\ Keep(p, IF part.deployed = Deployments THEN "predict" ELSE "deploy", part)
       /\ chain' = [chain EXCEPT ![part.contract].deployed = part.deployed]
    /\ UNCHANGED <<now, txs, files, failures>>

\* The campaign number a simulation predicts must be one.
Predict(p) ==
    /\ At(p, "predict")
    /\ IF Bound(Part(p)) /\ chain[Part(p).contract].campaigns = <<>>
       THEN attempt' = [attempt EXCEPT ![p] = [@ EXCEPT !.stage = "create", !.deadline = now + Duration]]
            /\ files' = files
       ELSE Failed(p)
    /\ UNCHANGED <<now, chain, txs, failures>>

Send(tx) == txs' = Append(txs, tx)

\* sendTransaction, whose answer may be lost.
Create(p) ==
    /\ At(p, "create")
    /\ Send([kind |-> "create", contract |-> Part(p).contract, deadline |-> attempt[p].deadline,
             status |-> "pending"])
    /\ attempt' = [attempt EXCEPT ![p].stage = "creating", ![p].tx = Len(txs) + 1]
    /\ UNCHANGED <<now, chain, files, failures>>

\* The creation's hash is on record before its event and the state are read.
Creating(p) ==
    /\ At(p, "creating") /\ ~Pending(attempt[p].tx)
    /\ IF txs[attempt[p].tx].status = "ok"
       THEN Keep(p, "created", [Part(p) EXCEPT !.creation = attempt[p].tx]) /\ files' = files
       ELSE Failed(p)
    /\ UNCHANGED <<now, chain, txs, failures>>

CreationConfirmed(p) ==
    /\ At(p, "created")
    /\ IF /\ CreationAccepted(Part(p).contract, Part(p).creation, Part(p).signer)
          /\ Owned(Part(p).contract, Part(p).signer, attempt[p].deadline) /\ Untouched(Part(p).contract)
       THEN Keep(p, "simulate", [Part(p) EXCEPT !.deadline = attempt[p].deadline]) /\ files' = files
       ELSE Failed(p)
    /\ UNCHANGED <<now, chain, txs, failures>>

Simulate(p) == At(p, "simulate") /\ Decide(p, Releasable(Part(p).contract, Beneficiary), "release")

Release(p) ==
    /\ At(p, "release")
    /\ Send([kind |-> "release", contract |-> Part(p).contract, deadline |-> None, status |-> "pending"])
    /\ attempt' = [attempt EXCEPT ![p] = [@ EXCEPT !.stage = "releasing", !.tx = Len(txs) + 1,
                                                   !.part.release = Len(txs) + 1]]
    /\ UNCHANGED <<now, chain, files, failures>>

ClaimOf(c, tx) == CHOOSE i \in DOMAIN chain[c].claims : chain[c].claims[i].tx = tx

Releasing(p) ==
    /\ At(p, "releasing") /\ ~Pending(attempt[p].tx)
    /\ LET c == Part(p).contract
           tx == attempt[p].tx
       IN  Decide(p, txs[tx].status = "ok" /\ ReleaseAccepted(c, ClaimOf(c, tx), Part(p).signer), "settle")

SettleRelease(p) ==
    /\ At(p, "settle")
    /\ LET part == Part(p) IN
       Decide(p, Owned(part.contract, part.signer, part.deadline) /\ ExactRelease(part.contract), "replay")

Passes(p, part) == Ends(p) /\ files' = files \cup {[passed |-> TRUE, part |-> part]}

Replay(p) ==
    /\ At(p, "replay")
    /\ IF ReplayRejected(Part(p).contract) THEN Passes(p, Part(p)) ELSE Failed(p)
    /\ UNCHANGED <<now, chain, txs, failures>>

\* The release of a fresh run, and of a resumed one whose campaign is untouched.
Releases(p) == Simulate(p) \/ Release(p) \/ Releasing(p) \/ SettleRelease(p) \/ Replay(p)

-----------------------------------------------------------------------------
(* resume *)

\* normalizeResumeState: a failed attempt that recorded its campaign.
Resumable(f) ==
    /\ ~f.passed
    /\ f.part.deployed = Deployments
    /\ f.part.creation # None
    /\ f.part.deadline # None

\* The new evidence starts from the file's, without its release.  Another key
\* ends at once, and its file names that key.
Resume(p, f, signer) ==
    /\ attempt[p] = Idle /\ Resumable(f)
    /\ LET part == [f.part EXCEPT !.signer = signer, !.release = None] IN
       IF signer = f.part.signer
       THEN /\ attempt' = [attempt EXCEPT ![p] =
                  [stage |-> "verify", part |-> part, tx |-> None, deadline |-> None]]
            /\ files' = files
       ELSE files' = files \cup {[passed |-> FALSE, part |-> part]} /\ attempt' = attempt
    /\ UNCHANGED <<now, chain, txs>>

\* verifyRecordedDeployments: the operator's key sent them, whatever key the
\* file names.
DeploymentsVerified(part) == part.signer = Operator /\ chain[part.contract].deployed = part.deployed

\* verifyCampaignCreation
CreationVerified(part) ==
    LET tx == txs[part.creation] IN
    /\ tx.kind = "create" /\ tx.status = "ok" /\ tx.contract = part.contract /\ tx.deadline = part.deadline
    /\ CreationAccepted(part.contract, part.creation, part.signer)

Verify(p) ==
    /\ At(p, "verify")
    /\ Decide(p, /\ DeploymentsVerified(Part(p)) /\ Bound(Part(p)) /\ CreationVerified(Part(p))
                 /\ Len(chain[Part(p).contract].campaigns) = 1, "classify")

\* Bug: only an untouched campaign can be resumed.
ClassifyUntouched(p) ==
    /\ At(p, "classify")
    /\ LET c == Part(p).contract IN
       Decide(p, Owned(c, Part(p).signer, Part(p).deadline) /\ Untouched(c), "open")

\* classifyResumeCampaignState, and the assertion of the state it names.
Classify(p) ==
    /\ At(p, "classify")
    /\ LET c == Part(p).contract IN
       Decide(p, Owned(c, Part(p).signer, Part(p).deadline) /\ (Untouched(c) \/ ExactRelease(c)),
              IF Untouched(c) THEN "open" ELSE "reconcile")

StillOpen(p) == At(p, "open") /\ Decide(p, now <= Part(p).deadline, "simulate")

Reconcile(p) ==
    /\ At(p, "reconcile")
    /\ LET c == Part(p).contract
           events == {i \in DOMAIN chain[c].claims : chain[c].claims[i].wallet = Beneficiary}
       IN  IF /\ Cardinality(events) = 1
              /\ \A i \in events : ReleaseAccepted(c, i, Part(p).signer)
              /\ ReplayRejected(c)
           THEN \E i \in events : Passes(p, [Part(p) EXCEPT !.release = chain[c].claims[i].tx])
           ELSE Failed(p)
    /\ UNCHANGED <<now, chain, txs, failures>>

-----------------------------------------------------------------------------
(* Failures *)

Trouble == failures < MaxFailures /\ failures' = failures + 1
Hit(p) == attempt[p] # Idle /\ Trouble

\* The wrong key in the environment, for a file of either.
WrongKey(p, f) == Trouble /\ Resume(p, f, Outsider)

\* A call of a provider fails.
CallFails(p) == Hit(p) /\ Failed(p) /\ UNCHANGED <<now, chain, txs>>

\* The node took the transaction, the answer was lost.
LoseAnswer(p) ==
    /\ Hit(p) /\ Failed(p)
    /\ \/ At(p, "create") /\ Send([kind |-> "create", contract |-> Part(p).contract,
                                   deadline |-> attempt[p].deadline, status |-> "pending"])
       \/ At(p, "release") /\ Send([kind |-> "release", contract |-> Part(p).contract,
                                    deadline |-> None, status |-> "pending"])
    /\ UNCHANGED <<now, chain>>

\* The process is killed: what it gathered is gone.
Crash(p) == Hit(p) /\ Ends(p) /\ UNCHANGED <<now, chain, txs, files>>

-----------------------------------------------------------------------------

Goes(p) ==
    \/ Deploy(p) \/ Predict(p) \/ Create(p) \/ Creating(p) \/ CreationConfirmed(p)
    \/ Releases(p)
    \/ Verify(p) \/ Classify(p) \/ StillOpen(p) \/ Reconcile(p)

\* The operator takes up any file of the campaign's own key.
TakeUp ==
    /\ \E p \in Attempts, f \in files : f.part.signer = Operator /\ Resume(p, f, Operator)
    /\ UNCHANGED failures

RunnerNext ==
    \/ Land \/ Tick
    \/ \E c \in Contracts : \/ ForeignCampaign(c) \/ RecoverRemainder(c)
                            \/ \E wallet \in {Beneficiary, Stranger} : ForeignClaim(c, wallet)
    \/ \E p \in Attempts : \/ Goes(p) \/ CallFails(p) \/ LoseAnswer(p) \/ Crash(p)
                           \/ \E c \in Contracts : Run(p, c)
                           \/ \E f \in files : WrongKey(p, f)
    \/ TakeUp

\* Transactions are included, attempts go on, and the operator tries again.
RunnerFairness == WF_runnerVars(Land) /\ WF_runnerVars(TakeUp) /\ \A p \in Attempts : WF_runnerVars(Goes(p))

RunnerSpec == RunnerInit /\ [][RunnerNext]_runnerVars /\ RunnerFairness

-----------------------------------------------------------------------------
(* Properties *)

RunnerTypeOK ==
    /\ now \in 0..MaxTime /\ failures \in 0..MaxFailures
    /\ chain \in [Contracts -> [deployed : 0..Deployments, campaigns : Seq(Campaigns), claims : Seq(Claims),
                                recovered : BOOLEAN]]
    /\ txs \in Seq(Transactions)
    /\ attempt \in [Attempts -> {Idle} \cup Working]
    /\ files \subseteq [passed : BOOLEAN, part : Parts]

\* Evidence that says "passed" is true on the chain: the operator funded
\* campaign one of that contract, and its beneficiary was paid once, by the
\* operator's transaction on record (runLifecycle, resumeLifecycle).
PassedIsPaid ==
    \A f \in files : f.passed =>
        LET c == f.part.contract
            paid == {i \in DOMAIN chain[c].claims : chain[c].claims[i].wallet = Beneficiary}
        IN  /\ chain[c].campaigns[1].sponsor = Operator
            /\ chain[c].campaigns[1].tx = f.part.creation
            /\ Cardinality(paid) = 1
            /\ f.part.release \in {i \in DOMAIN txs : txs[i].kind = "release" /\ txs[i].status = "ok"}
            /\ \A i \in paid : chain[c].claims[i].tx = f.part.release /\ chain[c].claims[i].exact

\* What no evidence can come of: a campaign that closed, that was not alone or
\* lost its first credit to somebody else, or a release in a crowded block.
Spoiled(c) ==
    \/ Len(chain[c].campaigns) > 1
    \/ \E i \in DOMAIN chain[c].campaigns : now > chain[c].campaigns[i].deadline
    \/ \E i \in DOMAIN chain[c].claims : chain[c].claims[i].relayer = Foreigner \/ ~chain[c].claims[i].exact

\* A failed attempt that recorded its campaign is resumed to evidence that
\* passed, whatever became of the release it had sent (runner 486-833).
Recoverable ==
    \A c \in Contracts :
        (\E f \in files : Resumable(f) /\ f.part.contract = c /\ f.part.signer = Operator)
            ~> (Spoiled(c) \/ \E f \in files : f.passed /\ f.part.contract = c)
=============================================================================
