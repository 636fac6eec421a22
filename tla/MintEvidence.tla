---------------------------- MODULE MintEvidence ----------------------------
(***************************************************************************)
(* When two Ethereum transactions are a paid SeaDrop retry.  The question  *)
(* is answered three times: by the service on facts a provider returns     *)
(* (validateSeaDropRecoveryPair, validateResolvedPair), by the predicate   *)
(* contract on attested bytes (SeaDropPaidRetryPredicateV1), and by the    *)
(* advisory report (inspectSeaDropRecoveryPair).                           *)
(*                                                                         *)
(* An attempt is a transaction [hash, chain, type, from, to, nonce, block, *)
(* blockHash, value, call] and its receipt [hash, from, to, block,         *)
(* blockHash, status, logs].  A call is the decoded mintSigned [hex,       *)
(* selector, mint, signature, tail], hex when the data came as whole       *)
(* bytes; a block hash may be absent or malformed; a log [address, topic,  *)
(* exact, removed, ...] is exact when it has the topics and the length of  *)
(* data its event has.  Numbers beyond 2^53 are not told apart from        *)
(* malformed ones.                                                         *)
(***************************************************************************)
EXTENDS Integers, Sequences, FiniteSets

CONSTANTS
    SeaDrop, ZeroAddress, Mainnet,
    MaxUint,            \* the largest uint256
    MaxBatchGap         \* blocks one batch proof may span

ASSUME MintAssumption == MaxUint \in Nat /\ MaxBatchGap \in Nat /\ SeaDrop # ZeroAddress

-----------------------------------------------------------------------------
(* The terms of a campaign *)

ValidTerms(rule) ==
    /\ rule.feeRecipient # ZeroAddress
    /\ rule.startBlock < rule.endBlock
    /\ rule.maxBlockGap \in 1..MaxBatchGap
    /\ rule.maxQuantity > 0

-----------------------------------------------------------------------------
(* The service *)

Decodes(call) ==
    /\ call.hex
    /\ call.selector
    /\ call.signature \in {64, 65}
    /\ call.mint.quantity > 0
    /\ \/ call.tail = "none"
       \/ call.tail = "opensea" /\ call.signature = 65

CompleteLog(log) == log.topic # "none" /\ ~log.removed

Bound(attempt) ==
    LET tx == attempt.tx
        receipt == attempt.receipt
    IN
    /\ \A field \in {"hash", "from", "to", "block"} : receipt[field] = tx[field]
    /\ receipt.status \in {0, 1}

\* The facts can be compared at all: numbers, addresses and logs are complete.
Complete(attempt) ==
    /\ attempt.tx.block > 0
    /\ \A i \in DOMAIN attempt.receipt.logs : CompleteLog(attempt.receipt.logs[i])
    /\ Bound(attempt)

\* The profile is made from the failed call: paid exactly, to the payer itself.
PaidProfile(call, value) ==
    LET mint == call.mint IN
    /\ mint.nft # ZeroAddress /\ mint.feeRecipient # ZeroAddress
    /\ mint.minter = ZeroAddress
    /\ mint.restrict
    /\ value = mint.quantity * mint.price
    /\ value # 0

SameMint(failed, successful) ==
    /\ successful.tx.call.mint = failed.tx.call.mint
    /\ successful.tx.call.tail = failed.tx.call.tail
    /\ successful.tx.value = failed.tx.value

LogsOf(logs, address, topic) == {i \in DOMAIN logs : logs[i].address = address /\ logs[i].topic = topic}

Announces(log, mint, sender) ==
    /\ log.exact
    /\ log.nft = mint.nft /\ log.minter = sender /\ log.feeRecipient = mint.feeRecipient
    /\ log.payer = sender /\ log.quantity = mint.quantity /\ log.price = mint.price
    /\ log.feeBps = mint.feeBps /\ log.stage = mint.stage

\* Bug: one mint of one token is expected whatever was asked for.
OutcomeOfOne(logs, mint, sender) ==
    /\ Cardinality(LogsOf(logs, SeaDrop, "SeaDropMint")) = 1
    /\ Cardinality(LogsOf(logs, mint.nft, "Transfer")) = 1
    /\ \A i \in LogsOf(logs, SeaDrop, "SeaDropMint") : Announces(logs[i], mint, sender)

\* Every transfer of the collection is a mint to the sender, all before the
\* one SeaDropMint, and there are as many as were asked for.
MintOutcome(logs, mint, sender) ==
    LET mints == LogsOf(logs, SeaDrop, "SeaDropMint")
        transfers == LogsOf(logs, mint.nft, "Transfer")
    IN
    /\ Cardinality(mints) = 1
    /\ Cardinality(transfers) = mint.quantity
    /\ \A m \in mints : Announces(logs[m], mint, sender) /\ \A t \in transfers : t < m
    /\ \A t \in transfers : logs[t].exact /\ logs[t].from = ZeroAddress /\ logs[t].to = sender
    /\ \A s, t \in transfers : logs[s].token = logs[t].token => s = t

Gap(failed, successful) == successful.tx.block - failed.tx.block

ValidPair(failed, successful, maxGap) ==
    /\ Complete(failed) /\ Complete(successful)
    /\ \A a \in {failed, successful} : a.tx.chain = Mainnet /\ a.tx.type = 2 /\ a.tx.to = SeaDrop
    /\ successful.tx.from = failed.tx.from
    /\ successful.tx.hash # failed.tx.hash
    /\ successful.tx.nonce = failed.tx.nonce + 1
    /\ maxGap > 0 /\ Gap(failed, successful) \in 1..maxGap
    /\ failed.receipt.status = 0 /\ successful.receipt.status = 1
    /\ failed.receipt.logs = << >>
    /\ Decodes(failed.tx.call) /\ Decodes(successful.tx.call)
    /\ PaidProfile(failed.tx.call, failed.tx.value)
    /\ SameMint(failed, successful)
    /\ MintOutcome(successful.receipt.logs, failed.tx.call.mint, failed.tx.from)

\* Bug: the quantity the campaign funds is not compared.
FitsWindow(failed, successful, rule) ==
    /\ failed.tx.call.mint.feeRecipient = rule.feeRecipient
    /\ failed.tx.block >= rule.startBlock
    /\ successful.tx.block <= rule.endBlock
    /\ Gap(failed, successful) <= rule.maxBlockGap

FitsCampaign(failed, successful, rule) ==
    /\ failed.tx.call.mint.feeRecipient = rule.feeRecipient
    /\ failed.tx.block >= rule.startBlock
    /\ successful.tx.block <= rule.endBlock
    /\ Gap(failed, successful) <= rule.maxBlockGap
    /\ failed.tx.call.mint.quantity <= rule.maxQuantity

\* What the service resolves a pair to, for the hashes it asked for.
Resolves(failed, successful, hashes, rule) ==
    /\ ValidPair(failed, successful, rule.maxBlockGap)
    /\ <<failed.tx.hash, successful.tx.hash>> = hashes
    /\ FitsCampaign(failed, successful, rule)

-----------------------------------------------------------------------------
(* The contract, on the bytes of two transactions and their blocks *)

CanonicalCall(call) == call.selector /\ call.tail \in {"none", "opensea"}

PayableMint(call, value, rule) ==
    LET mint == call.mint IN
    /\ mint.nft # ZeroAddress
    /\ mint.feeRecipient = rule.feeRecipient
    /\ mint.minter = ZeroAddress
    /\ mint.quantity \in 1..rule.maxQuantity
    /\ mint.price # 0
    /\ mint.price <= MaxUint \div mint.quantity
    /\ value = mint.price * mint.quantity

\* Transfers of the collection between owners do not count as mints.
MintReceipt(logs, mint, sender) ==
    LET mints == LogsOf(logs, SeaDrop, "SeaDropMint")
        transfers == LogsOf(logs, mint.nft, "Transfer")
        minted == {t \in transfers : logs[t].from = ZeroAddress}
    IN
    /\ Cardinality(mints) = 1
    /\ \A m \in mints : Announces(logs[m], mint, sender)
    /\ \A t \in transfers : logs[t].exact
    /\ \A t \in minted : logs[t].to = sender
    /\ \A s, t \in minted : logs[s].token = logs[t].token => s = t
    /\ Cardinality(minted) = mint.quantity

ValidAttempt(attempt, rule, successful) ==
    LET tx == attempt.tx
        receipt == attempt.receipt
    IN
    /\ tx.type = 2 /\ tx.chain = Mainnet
    /\ tx.from # ZeroAddress /\ tx.to = SeaDrop
    /\ receipt.status = IF successful THEN 1 ELSE 0
    /\ ~successful => receipt.logs = << >>
    /\ CanonicalCall(tx.call)
    /\ PayableMint(tx.call, tx.value, rule)
    /\ successful => MintReceipt(receipt.logs, tx.call.mint, tx.from)

Pays(failed, successful, rule) ==
    /\ ValidTerms(rule)
    /\ failed.tx.block >= rule.startBlock /\ successful.tx.block <= rule.endBlock
    /\ Gap(failed, successful) \in 1..rule.maxBlockGap
    /\ ValidAttempt(failed, rule, FALSE) /\ ValidAttempt(successful, rule, TRUE)
    /\ successful.tx.from = failed.tx.from
    /\ successful.tx.nonce = failed.tx.nonce + 1
    /\ successful.tx.call.mint = failed.tx.call.mint
=============================================================================
