------------------------- MODULE MCSourceResolution -------------------------
EXTENDS SourceResolution, SequencesExt

-----------------------------------------------------------------------------
(* A paid retry of one or two tokens ... *)

MCRule == [feeRecipient |-> "fee", startBlock |-> 10, endBlock |-> 14, maxBlockGap |-> 2, maxQuantity |-> 2]

Mint(q) == [nft |-> "nft", feeRecipient |-> "fee", minter |-> ZeroAddress, quantity |-> q, price |-> 2,
            feeBps |-> 5, stage |-> 1, limits |-> 1, restrict |-> TRUE]

MintLog(q) == [address |-> SeaDrop, topic |-> "SeaDropMint", exact |-> TRUE, removed |-> FALSE,
               nft |-> "nft", minter |-> "wallet", feeRecipient |-> "fee", payer |-> "wallet",
               quantity |-> q, price |-> 2, feeBps |-> 5, stage |-> 1]

TransferLog(token) == [address |-> "nft", topic |-> "Transfer", exact |-> TRUE, removed |-> FALSE,
                       from |-> ZeroAddress, to |-> "wallet", token |-> token]

Attempt(hash, nonce, block, q, status, logs) ==
    [tx |-> [hash |-> hash, chain |-> Mainnet, type |-> 2, from |-> "wallet", to |-> SeaDrop, nonce |-> nonce,
             block |-> block, blockHash |-> "of " \o hash, value |-> 2 * q,
             call |-> [hex |-> TRUE, selector |-> TRUE, mint |-> Mint(q), signature |-> 65, tail |-> "none"]],
     receipt |-> [hash |-> hash, from |-> "wallet", to |-> SeaDrop, block |-> block,
                  blockHash |-> "of " \o hash, status |-> status, logs |-> logs]]

Paid(q) == [failed |-> Attempt("h1", 7, 11, q, 0, << >>),
            successful |-> Attempt("h2", 8, 13, q, 1, Append([t \in 1..q |-> TransferLog(t)], MintLog(q))),
            rule |-> MCRule]

-----------------------------------------------------------------------------
(* ... and what it may be instead *)

WithTx(a, field, v) == [a EXCEPT !.tx = [@ EXCEPT ![field] = v]]
WithBoth(a, field, v) == [a EXCEPT !.tx = [@ EXCEPT ![field] = v], !.receipt = [@ EXCEPT ![field] = v]]
WithCall(a, field, v) == [a EXCEPT !.tx.call = [@ EXCEPT ![field] = v]]
WithMint(a, field, v) == [a EXCEPT !.tx.call.mint = [@ EXCEPT ![field] = v]]

OtherAttempts(a) ==
    {WithTx(a, "chain", 5), WithTx(a, "type", 0), WithBoth(a, "from", "other"), WithBoth(a, "to", "other")}
    \cup {WithTx(a, "nonce", n) : n \in {7, 9}}
    \cup {WithBoth(a, "block", b) : b \in {9, 11, 12, 14, 15}}
    \cup {WithTx(a, "value", v) : v \in {0, 1}}
    \cup {WithCall(a, "selector", FALSE)}
    \cup {WithCall(a, "signature", n) : n \in {64, 66}}
    \cup {WithCall(a, "tail", tail) : tail \in {"opensea", "padding"}}
    \cup {WithMint(a, "nft", n) : n \in {ZeroAddress, "other"}}
    \cup {WithMint(a, "feeRecipient", "other"), WithMint(a, "minter", "other"), WithMint(a, "restrict", FALSE)}
    \cup {WithMint(a, "quantity", q) : q \in 0..3}
    \cup {WithMint(a, "price", p) : p \in {0, 1, 4}}
    \cup {WithMint(a, "feeBps", 6), WithMint(a, "stage", 2), WithMint(a, "limits", 2)}
    \cup {[a EXCEPT !.receipt.status = 1 - @]}

Extra == {TransferLog(9), [TransferLog(9) EXCEPT !.from = "other"], [TransferLog(9) EXCEPT !.to = "other"],
          [TransferLog(9) EXCEPT !.exact = FALSE], [TransferLog(9) EXCEPT !.address = "other"],
          [TransferLog(1) EXCEPT !.removed = TRUE],
          MintLog(1), [MintLog(1) EXCEPT !.address = "other"],
          [address |-> "other", topic |-> "none", exact |-> TRUE, removed |-> FALSE]}

OtherLogs(logs) ==
    {Append(logs, log) : log \in Extra} \cup {<<log>> \o logs : log \in Extra}
    \cup {RemoveAt(logs, i) : i \in DOMAIN logs}
    \cup {Reverse(logs)}
    \cup {[logs EXCEPT ![i].exact = FALSE] : i \in DOMAIN logs}
    \cup {[logs EXCEPT ![Len(logs)] = [@ EXCEPT ![field] = "other"]] :
             field \in (IF logs = << >> THEN {} ELSE {"nft", "minter", "feeRecipient", "payer"})}
    \cup {[logs EXCEPT ![Len(logs)] = [@ EXCEPT ![field] = 0]] :
             field \in (IF logs = << >> THEN {} ELSE {"quantity", "price", "feeBps", "stage"})}
    \cup (IF Len(logs) = 3 THEN {[logs EXCEPT ![2].token = 1]} ELSE {})

OtherTerms(rule) ==
    {[rule EXCEPT !.feeRecipient = "other"], [rule EXCEPT !.startBlock = 12], [rule EXCEPT !.endBlock = 12],
     [rule EXCEPT !.maxBlockGap = 1], [rule EXCEPT !.maxQuantity = 1]}

OneOff(e) ==
    {[e EXCEPT !.failed = a] : a \in OtherAttempts(e.failed)}
    \cup {[e EXCEPT !.successful = a] : a \in OtherAttempts(e.successful)}
    \cup {[e EXCEPT !.successful.receipt.logs = logs] : logs \in OtherLogs(e.successful.receipt.logs)}
    \cup {[e EXCEPT !.failed.receipt.logs = <<TransferLog(1)>>]}
    \cup {[e EXCEPT !.rule = rule] : rule \in OtherTerms(e.rule)}

\* Both calls differ together, with the logs as they were.
OtherCalls(e) ==
    {[e EXCEPT !.failed = WithMint(@, f[1], f[2]), !.successful = WithMint(@, f[1], f[2])] :
        f \in {"quantity"} \X {1, 2, 3} \cup {"price"} \X {0, 4} \cup {"restrict"} \X {FALSE}
              \cup {"minter"} \X {"other"} \cup {"nft", "feeRecipient"} \X {ZeroAddress, "other"}}
    \cup {[e EXCEPT !.failed = WithCall(@, f[1], f[2]), !.successful = WithCall(@, f[1], f[2])] :
        f \in {"signature"} \X {64} \cup {"tail"} \X {"opensea", "padding"}}
    \cup {[e EXCEPT !.failed = WithTx(@, "value", v), !.successful = WithTx(@, "value", v)] : v \in {0, 2, 6}}

Bases == {Paid(1), Paid(2)}
Paired(es) == UNION {OneOff(e) \cup OtherCalls(e) : e \in es}
MCSources == Bases \cup Paired(Bases) \cup UNION {OtherCalls(e) : e \in Paired(Bases)}

\* A provider may show a receipt of another block without its logs; and the data of
\* a failed call cut in the middle of a byte, or a success's receipt from before a
\* reorganization.
MCStaleFacts(a) ==
    {a, [a EXCEPT !.receipt.block = @ - 1, !.receipt.logs = << >>],
     IF a.receipt.status = 0 THEN [a EXCEPT !.tx.call.hex = FALSE]
                             ELSE [a EXCEPT !.receipt.blockHash = "reorganized"]}

Entry(a) == [block |-> a.tx.block, attempt |-> a]
MCBatches(e) ==
    LET good == {Entry(e.failed), Entry(e.successful)} IN
    {[from |-> 10, to |-> 15, entries |-> entries] :
        entries \in {good, {Entry(e.failed)}, good \cup {Entry([e.failed EXCEPT !.tx.hash = "h3"])},
                     {[Entry(e.failed) EXCEPT !.block = 13], [Entry(e.successful) EXCEPT !.block = 11]},
                     {[Entry(e.failed) EXCEPT !.attempt.tx.nonce = 3], Entry(e.successful)},
                     {Entry(e.failed), [Entry(e.successful) EXCEPT !.attempt.receipt.status = 0]},
                     {Entry(e.failed), [Entry(e.successful) EXCEPT !.attempt.receipt.logs = << >>]}}}
    \cup {[from |-> 12, to |-> 15, entries |-> good]}
=============================================================================
