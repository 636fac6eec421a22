-------------------------- MODULE SourceResolution --------------------------
(***************************************************************************)
(* How the service makes up its mind about a pair: resolvePairFromEthereum *)
(* asks one provider after the other, each of which may be down, on        *)
(* another chain, half synchronized or stale; the first facts that qualify *)
(* win, and a refusal carries the advisory report of the last facts that   *)
(* did not.  A resolved pair then gets its batch proof, which               *)
(* normalizeRecoveryBatchProof compares with those facts.                  *)
(***************************************************************************)
EXTENDS MintEvidence

CONSTANTS
    Sources,            \* [failed, successful, rule]: what Ethereum may hold
    StaleFacts(_),      \* what a provider may make of an attempt
    Batches(_),         \* the batch proofs the proof service may answer for evidence
    ProviderLimit       \* sourceProviderAttempts

ASSUME ProviderAssumption == ProviderLimit \in Nat \ {0}

\* What a transaction of the chain always has: numbers, a value that fits, a sender.
WellFormed(attempt) ==
    LET tx == attempt.tx IN
    /\ {tx.block, tx.value, tx.call.mint.quantity, tx.call.mint.price} \subseteq Nat
    /\ tx.value <= MaxUint
    /\ tx.from # ZeroAddress

\* The funded terms were validated, the two transactions asked for differ.
ASSUME SourcesAssumption ==
    \A evidence \in Sources :
        LET rule == evidence.rule IN
        /\ ValidTerms(rule) /\ {rule.startBlock, rule.endBlock, rule.maxQuantity} \subseteq Nat
        /\ evidence.failed.tx.hash # evidence.successful.tx.hash
        /\ \A attempt \in {evidence.failed, evidence.successful} :
              WellFormed(attempt) /\ \A seen \in StaleFacts(attempt) : WellFormed(seen)

VARIABLES
    source,     \* the evidence as Ethereum holds it
    answers,    \* what each provider asked so far answered
    report,     \* diagnostics of the last facts that did not qualify
    outcome,    \* of the resolution, then of the proof
    proof       \* the normalized proof: <<block, attempt>> in order

resolutionVars == <<source, answers, report, outcome, proof>>

NoReport == << >>
NoProof == << >>
Silent == {"down", "otherChain", "absent", "incomplete"}
Outcomes == {"asking", "resolved", "invalid", "unavailable", "proven", "proofInvalid"}
Hashes == <<source.failed.tx.hash, source.successful.tx.hash>>

ResolutionInit ==
    /\ source \in Sources
    /\ answers = << >> /\ report = NoReport /\ outcome = "asking" /\ proof = NoProof

-----------------------------------------------------------------------------
(* The advisory report: "pass", "fail" or "not-checked" for each check *)

Checked(condition, enabled) ==
    IF ~enabled THEN "not-checked" ELSE IF condition THEN "pass" ELSE "fail"

Checks(failed, successful, rule) ==
    LET both == {failed, successful}
        call == failed.tx.call
        canonical == \A a \in both : a.tx.to = SeaDrop /\ Decodes(a.tx.call)
        sameWallet == successful.tx.from = failed.tx.from
        statuses == /\ failed.receipt.status = 0 /\ successful.receipt.status = 1
                    /\ failed.receipt.logs = << >>
        paid == canonical /\ rule.maxBlockGap > 0 /\ PaidProfile(call, failed.tx.value)
        identity == paid /\ SameMint(failed, successful)
    IN
    [network |-> Checked(\A a \in both : a.tx.chain = Mainnet, TRUE),
     type |-> Checked(\A a \in both : a.tx.type = 2, TRUE),
     action |-> Checked(canonical, TRUE),
     wallet |-> Checked(sameWallet, TRUE),
     status |-> Checked(statuses, TRUE),
     nonce |-> Checked(successful.tx.nonce = failed.tx.nonce + 1, sameWallet),
     gap |-> Checked(Gap(failed, successful) \in 1..rule.maxBlockGap, TRUE),
     window |-> Checked(\A a \in both : a.tx.block \in rule.startBlock..rule.endBlock, TRUE),
     paid |-> Checked(paid, canonical),
     identity |-> Checked(identity, paid),
     outcome |-> Checked(MintOutcome(successful.receipt.logs, call.mint, failed.tx.from),
                         identity /\ sameWallet /\ statuses),
     feeRecipient |-> Checked(\A a \in both : a.tx.call.mint.feeRecipient = rule.feeRecipient, canonical),
     quantity |-> Checked(\A a \in both : a.tx.call.mint.quantity <= rule.maxQuantity, canonical)]

\* Neither names its block by hash, or both name the same one.
SameBlockHash(attempt) ==
    attempt.receipt.blockHash = attempt.tx.blockHash /\ attempt.tx.blockHash # "malformed"

Inspectable(attempt) ==
    /\ Complete(attempt)
    /\ attempt.tx.call.hex
    /\ SameBlockHash(attempt)

\* Bug: complete facts are inspected whatever their data and block hashes are.
InspectComplete(failed, successful, rule) ==
    LET checks == Checks(failed, successful, rule) IN
    IF /\ Complete(failed) /\ Complete(successful)
       /\ <<failed.tx.hash, successful.tx.hash>> = Hashes
       /\ \E check \in DOMAIN checks : checks[check] = "fail"
    THEN checks ELSE NoReport

\* Only inspectable facts of the requested pair, and a check that failed, make a report.
Inspect(failed, successful, rule) ==
    LET checks == Checks(failed, successful, rule) IN
    IF /\ Inspectable(failed) /\ Inspectable(successful)
       /\ <<failed.tx.hash, successful.tx.hash>> = Hashes
       /\ \E check \in DOMAIN checks : checks[check] = "fail"
    THEN checks ELSE NoReport

-----------------------------------------------------------------------------
(* The providers, in their order *)

Answered(kind) == \E i \in DOMAIN answers : answers[i].kind = kind
Facts(failed, successful) == [kind |-> "facts", failed |-> failed, successful |-> successful]

Asking == outcome = "asking" /\ Len(answers) < ProviderLimit

AskInVain(kind) ==
    /\ Asking
    /\ answers' = Append(answers, [kind |-> kind])
    /\ UNCHANGED <<source, report, outcome, proof>>

AskAndResolve(failed, successful) ==
    /\ Asking
    /\ Resolves(failed, successful, Hashes, source.rule)
    /\ answers' = Append(answers, Facts(failed, successful))
    /\ outcome' = "resolved"
    /\ UNCHANGED <<source, report, proof>>

\* Facts that do not qualify are not the last word: the next provider is asked.
AskAndRefuse(failed, successful) ==
    /\ Asking
    /\ ~Resolves(failed, successful, Hashes, source.rule)
    /\ answers' = Append(answers, Facts(failed, successful))
    /\ report' = Inspect(failed, successful, source.rule)
    /\ UNCHANGED <<source, outcome, proof>>

Ask ==
    \/ \E kind \in Silent : AskInVain(kind)
    \/ \E failed \in StaleFacts(source.failed), successful \in StaleFacts(source.successful) :
          AskAndResolve(failed, successful) \/ AskAndRefuse(failed, successful)

\* A provider that knows one half of a transaction leaves the pair undecided.
Refused == Answered("facts") \/ (Answered("absent") /\ ~Answered("incomplete"))

GiveUp ==
    /\ outcome = "asking" /\ Len(answers) = ProviderLimit
    /\ outcome' = IF Refused THEN "invalid" ELSE "unavailable"
    /\ UNCHANGED <<source, answers, report, proof>>

-----------------------------------------------------------------------------
(* The batch proof of a resolved pair *)

Resolved == answers[Len(answers)]

\* What the attested bytes show of an attempt without decoding its call.
SameEnvelope(entry, attempt) ==
    LET tx == entry.attempt.tx IN
    /\ entry.block = attempt.tx.block
    /\ tx.hash = attempt.tx.hash
    /\ tx.type = 2 /\ tx.to = SeaDrop
    /\ tx.from = Resolved.failed.tx.from
    /\ tx.nonce = attempt.tx.nonce
    /\ entry.attempt.receipt.status = attempt.receipt.status
    /\ tx.call.selector
    /\ tx.value = Resolved.failed.tx.value
    /\ attempt.receipt.status = 0 => entry.attempt.receipt.logs = << >>

EntriesOf(batch, attempt) == {e \in batch.entries : e.attempt.tx.hash = attempt.tx.hash}

Normalizes(batch) ==
    /\ batch.from <= batch.to /\ batch.to - batch.from <= MaxBatchGap
    /\ \A e \in batch.entries : e.block \in batch.from..batch.to
    /\ Cardinality(batch.entries) = 2
    /\ \A attempt \in {Resolved.failed, Resolved.successful} :
          /\ Cardinality(EntriesOf(batch, attempt)) = 1
          /\ \A e \in EntriesOf(batch, attempt) : SameEnvelope(e, attempt)

ProofOrder(batch) ==
    [i \in 1..2 |-> CHOOSE e \in EntriesOf(batch, IF i = 1 THEN Resolved.failed ELSE Resolved.successful) : TRUE]

Prove(batch) ==
    /\ outcome = "resolved"
    /\ IF Normalizes(batch) /\ ProofOrder(batch)[1].block < ProofOrder(batch)[2].block
       THEN outcome' = "proven" /\ proof' = ProofOrder(batch)
       ELSE outcome' = "proofInvalid" /\ proof' = NoProof
    /\ UNCHANGED <<source, answers, report>>

ResolutionNext ==
    \/ Ask
    \/ GiveUp
    \/ outcome = "resolved" /\ \E batch \in Batches(source) : Prove(batch)

ResolutionSpec == ResolutionInit /\ [][ResolutionNext]_resolutionVars

-----------------------------------------------------------------------------
(* Properties *)

ResolutionTypeOK ==
    /\ Len(answers) <= ProviderLimit
    /\ outcome \in Outcomes
    /\ outcome \in {"resolved", "proven", "proofInvalid"} =>
          /\ answers # << >> /\ Resolved.kind = "facts"
          /\ Resolves(Resolved.failed, Resolved.successful, Hashes, source.rule)

\* What the service promises a credit for, the contract pays: no facts pass
\* the service's rule that the predicate would revert on.
ResolvedIsPayable ==
    outcome \in {"resolved", "proven", "proofInvalid"} =>
        Pays(Resolved.failed, Resolved.successful, source.rule)

\* The forms of retry the service asks for beyond the contract.
Usual(failed, successful) ==
    LET mint == failed.tx.call.mint
        logs == successful.receipt.logs
    IN
    /\ \A a \in {failed, successful} : Complete(a) /\ Decodes(a.tx.call)
    /\ failed.tx.hash # successful.tx.hash
    /\ failed.tx.call.tail = successful.tx.call.tail
    /\ mint.restrict
    /\ \A t \in LogsOf(logs, mint.nft, "Transfer") :
          logs[t].from = ZeroAddress /\ \A m \in LogsOf(logs, SeaDrop, "SeaDropMint") : t < m

\* A pair the contract would pay, in the usual form, is never refused as long
\* as one provider asked told the truth, whatever the others answered.
NoPayablePairRefused ==
    LET truth == Facts(source.failed, source.successful) IN
    outcome = "invalid" /\ Pays(source.failed, source.successful, source.rule)
                        /\ Usual(source.failed, source.successful) =>
        \A i \in DOMAIN answers : answers[i] # truth

\* As long as nothing qualified, the report is about the last facts: complete
\* facts of the requested pair, of calls in whole bytes and of one block by its
\* hash, are refused with a failed check; no others are, and facts that qualify
\* never have one.
ReportExplains ==
    \A i \in DOMAIN answers :
        LET a == answers[i]
            later == \E j \in DOMAIN answers : j > i /\ answers[j].kind = "facts"
        IN a.kind = "facts" /\ ~later /\ outcome \in {"asking", "invalid"} =>
           (report # NoReport <=>
              /\ Inspectable(a.failed) /\ Inspectable(a.successful)
              /\ <<a.failed.tx.hash, a.successful.tx.hash>> = Hashes
              /\ ~Resolves(a.failed, a.successful, Hashes, source.rule))

\* A proof that passed is submitted failure first, at the blocks it is proven
\* for, and pays unless calls or logs differ from the facts that were resolved.
Attested(i) ==
    LET tx == proof[i].attempt.tx IN
    [tx |-> [hash |-> tx.hash, chain |-> tx.chain, type |-> tx.type, from |-> tx.from, to |-> tx.to,
             nonce |-> tx.nonce, block |-> proof[i].block, value |-> tx.value, call |-> tx.call],
     receipt |-> proof[i].attempt.receipt]
ProvenIsPayable ==
    outcome = "proven" =>
        LET seen(i, attempt) ==
                /\ proof[i].attempt.tx.call = attempt.tx.call
                /\ proof[i].attempt.tx.chain = attempt.tx.chain
                /\ proof[i].attempt.receipt.logs = attempt.receipt.logs
        IN seen(1, Resolved.failed) /\ seen(2, Resolved.successful) =>
               Pays(Attested(1), Attested(2), source.rule)

\* Whatever the service takes for a retry, by its providers' facts or by the
\* proof it submits, the contract pays.
AcceptedIsPayable == ResolvedIsPayable /\ ProvenIsPayable
=============================================================================
