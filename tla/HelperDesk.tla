----------------------------- MODULE HelperDesk -----------------------------
(***************************************************************************)
(* The community helper's panel: someone else's pair is found, authorized  *)
(* by the helper's own wallet and submitted in one request, whose          *)
(* operation is from then on only read.  The request is answered late or   *)
(* not at all, a status read overlaps it, the panel is left and opened     *)
(* again, and the campaign changes under it.  What was submitted is kept   *)
(* in the session storage before the request leaves.                       *)
(*                                                                         *)
(* An action whose token is not current any more does nothing further, and *)
(* is dropped from the state.  The panel's phase only words what task,     *)
(* submission and outcome say.                                             *)
(***************************************************************************)
EXTENDS SourceWallets, Integers

CONSTANTS
    Offers, NoOffer,        \* helper configurations [campaign, open]
    MaxOffers, MaxMounts    \* bounds

ASSUME OffersAssumption ==
    NoOffer \notin Offers /\ \A o \in Offers : o.campaign \in Nat /\ o.open \in BOOLEAN
ASSUME HelperBoundsAssumption == {MaxOffers, MaxMounts} \subseteq Nat

VARIABLES
    sponsor,   \* the service: its offer, its operations, requests on their way
    panel,     \* the page's panel: see Mounted
    kept,      \* the session storage: the operation submitted last
    owed,      \* history: submitted, and not known to be over
    wear       \* changes of the offer and mounts so far

helperVars == <<sponsor, panel, kept, owed, wear>>

Ops == {o.campaign : o \in Offers} \X Pairs
NoOp == <<>>
Terminal == {"settled", "reverted", "stopped"}
States == {"admitted", "prepared"} \cup Terminal
Unknown == [state |-> "none", check |-> "none"]
NoTask == [at |-> "off", op |-> NoOp, requester |-> NoWallet, reply |-> "none"]
NoStatus == [at |-> "off", op |-> NoOp, reply |-> "none"]

Mounted(account) ==
    [offer |-> NoOffer, account |-> account, draft |-> NoPair, elig |-> NoOp,
     task |-> NoTask, status |-> NoStatus, submitted |-> NoOp, outcome |-> Unknown]

HelperInit ==
    /\ \E o \in Offers : sponsor = [offer |-> o, ops |-> [x \in Ops |-> "none"], posts |-> {}]
    /\ panel = Mounted(NoWallet)
    /\ kept = NoOp /\ owed = {}
    /\ wear = [offers |-> 0, mounts |-> 0]

PanelKeeps == UNCHANGED <<sponsor, wear>>
Free(p) == p.task.at = "off" /\ p.submitted = NoOp

\* helperOutcomeResolved: a settlement counts once its receipt was checked.
Resolved(p) ==
    /\ p.outcome.state \in Terminal
    /\ p.outcome.check # "conflict"
    /\ p.outcome.state = "settled" => p.outcome.check = "confirmed"
Over(p) == IF Resolved(p) THEN {p.submitted} ELSE {}

Asked(p) == IF p.status.at # "off" THEN p ELSE [p EXCEPT !.status = [at |-> "asked", op |-> p.submitted, reply |-> "none"]]

-----------------------------------------------------------------------------
(* The campaign's configuration *)

\* readHelperResume
Restorable(offer) == kept # NoOp /\ kept[1] = offer.campaign

\* The first configuration restores what was submitted; another campaign ends
\* whatever was not.
OfferArrives ==
    LET offer == sponsor.offer
        next == [panel EXCEPT !.offer = offer]
    IN
    /\ panel.offer # offer
    /\ panel' =
         IF panel.offer = NoOffer
         THEN IF Restorable(offer)
              THEN Asked([next EXCEPT !.submitted = kept, !.draft = kept[2]]) ELSE next
         ELSE IF panel.offer.campaign = offer.campaign \/ panel.submitted # NoOp THEN next
         ELSE [next EXCEPT !.task = NoTask, !.elig = NoOp]
    /\ UNCHANGED <<kept, owed>> /\ PanelKeeps

Available == panel.offer # NoOffer /\ panel.offer.open

-----------------------------------------------------------------------------
(* A pair: typed, linked or found *)

Draft(pair) ==
    /\ Free(panel) /\ pair # panel.draft
    /\ panel' = [panel EXCEPT !.draft = pair, !.elig = NoOp]
    /\ UNCHANGED <<kept, owed>> /\ PanelKeeps

\* discover and checkPair.
Look ==
    /\ Available /\ Free(panel)
    /\ panel' = [panel EXCEPT !.task.at = "look", !.elig = NoOp]
    /\ UNCHANGED <<kept, owed>> /\ PanelKeeps

Eligible(op) == op[1] = sponsor.offer.campaign /\ sponsor.offer.open /\ sponsor.ops[op] # "settled"

Found(pair) ==
    LET op == <<panel.offer.campaign, pair>> IN
    /\ panel.task.at = "look" /\ op[1] = sponsor.offer.campaign
    /\ panel' = [panel EXCEPT !.task = NoTask, !.draft = pair, !.elig = IF Eligible(op) THEN op ELSE NoOp]
    /\ UNCHANGED <<kept, owed>> /\ PanelKeeps

-----------------------------------------------------------------------------
(* authorize *)

Authorize ==
    /\ Available /\ Free(panel) /\ panel.elig # NoOp
    /\ panel.account # WalletOf(panel.elig[2])   \* the owner has a desk of their own
    /\ panel' = [panel EXCEPT !.task = [NoTask EXCEPT !.at = "connect", !.op = panel.elig]]
    /\ UNCHANGED <<kept, owed>> /\ PanelKeeps

Connected(wallet) ==
    /\ panel.task.at = "connect"
    /\ panel' = IF wallet = WalletOf(panel.task.op[2]) THEN [panel EXCEPT !.account = wallet, !.task = NoTask]
                ELSE [panel EXCEPT !.account = wallet, !.task.at = "challenge", !.task.requester = wallet]
    /\ UNCHANGED <<kept, owed>> /\ PanelKeeps

\* requester is erased when the wallet's account changes.
CanContinue == Available /\ panel.account = panel.task.requester

Challenged ==
    /\ panel.task.at = "challenge" /\ Eligible(panel.task.op)
    /\ panel' = IF CanContinue THEN [panel EXCEPT !.task.at = "sign"] ELSE [panel EXCEPT !.task = NoTask]
    /\ UNCHANGED <<kept, owed>> /\ PanelKeeps

\* Bug: the request leaves before its operation is kept.
SignedUnsaved ==
    LET op == panel.task.op IN
    /\ panel.task.at = "sign"
    /\ IF CanContinue
       THEN /\ panel' = [panel EXCEPT !.task.at = "release", !.submitted = op, !.outcome = Unknown]
            /\ sponsor' = [sponsor EXCEPT !.posts = @ \cup {op}]
            /\ owed' = owed \cup {op}
       ELSE panel' = [panel EXCEPT !.task = NoTask] /\ UNCHANGED <<sponsor, owed>>
    /\ UNCHANGED <<kept, wear>>

\* The operation is kept before the one request for it leaves.
Signed ==
    LET op == panel.task.op IN
    /\ panel.task.at = "sign"
    /\ IF CanContinue
       THEN /\ panel' = [panel EXCEPT !.task.at = "release", !.submitted = op, !.outcome = Unknown]
            /\ kept' = op
            /\ sponsor' = [sponsor EXCEPT !.posts = @ \cup {op}]
            /\ owed' = owed \cup {op}
       ELSE panel' = [panel EXCEPT !.task = NoTask] /\ UNCHANGED <<sponsor, kept, owed>>
    /\ UNCHANGED wear

GivesUp ==
    /\ panel.task.at \in {"look", "connect", "challenge", "sign"}
    /\ panel' = [panel EXCEPT !.task = NoTask]
    /\ UNCHANGED <<kept, owed>> /\ PanelKeeps

SwitchAccount(wallet) ==
    /\ wallet # panel.account
    /\ panel' = [panel EXCEPT !.account = wallet, !.task.requester = NoWallet]
    /\ UNCHANGED <<kept, owed>> /\ PanelKeeps

-----------------------------------------------------------------------------
(* What is heard of the operation *)

\* acceptOperation
Accepted(p, state) ==
    [p EXCEPT !.outcome = [state |-> state,
                           check |-> IF state # "settled" THEN "none"
                                     ELSE IF @.state = "settled" THEN @.check ELSE "pending"]]

Acknowledged ==
    /\ panel.task.at = "release" /\ panel.task.reply \in States
    /\ panel' = Asked(Accepted([panel EXCEPT !.task = NoTask], panel.task.reply))
    /\ owed' = owed \ Over(panel')
    /\ UNCHANGED kept /\ PanelKeeps

Refused ==
    /\ panel.task.at = "release" /\ panel.task.reply = "refused"
    /\ panel' = [panel EXCEPT !.task = NoTask, !.submitted = NoOp, !.outcome = Unknown]
    /\ kept' = NoOp
    /\ owed' = owed \ {panel.task.op}
    /\ PanelKeeps

\* No answer, or one that leaves the outcome open.
Unacknowledged ==
    /\ panel.task.at = "release"
    /\ panel' = Asked([panel EXCEPT !.task = NoTask])
    /\ UNCHANGED <<kept, owed>> /\ PanelKeeps

\* readStatus, by the timer or by hand.
ReadStatus ==
    /\ panel.submitted # NoOp /\ panel.status.at = "off"
    /\ panel' = Asked(panel)
    /\ UNCHANGED <<kept, owed>> /\ PanelKeeps

\* Bug: a read about an operation that was replaced leaves the flight flag set.
QuietIfAsked(p) == [p EXCEPT !.status = IF p.submitted = p.status.op THEN NoStatus ELSE @]

Quiet(p) == [p EXCEPT !.status = NoStatus]
Unchecked(p) == IF p.outcome.state = "settled" /\ p.outcome.check \notin {"confirmed", "conflict"}
                THEN [p EXCEPT !.outcome.check = "unavailable"] ELSE p

StatusAnswer ==
    LET reply == panel.status.reply
        next == Accepted(panel, reply)
    IN
    /\ panel.status.at = "asked" /\ reply # "none"
    /\ panel' = IF panel.submitted # panel.status.op THEN Quiet(panel)
                ELSE IF reply = "absent" THEN Quiet(Unchecked(panel))
                ELSE IF reply = "settled" THEN [next EXCEPT !.status.at = "receipt"]
                ELSE Quiet(next)
    /\ owed' = owed \ Over(panel')
    /\ UNCHANGED kept /\ PanelKeeps

ReceiptConfirmed ==
    /\ panel.status.at = "receipt"
    /\ sponsor.ops[panel.status.op] = "settled"
    /\ panel' = IF panel.submitted # panel.status.op THEN Quiet(panel)
                ELSE [Quiet(panel) EXCEPT !.outcome = [state |-> "settled", check |-> "confirmed"],
                                          !.elig = NoOp]
    /\ owed' = owed \ Over(panel')
    /\ UNCHANGED kept /\ PanelKeeps

\* The pair's own evidence lags behind the operation's.
ReceiptConflict ==
    /\ panel.status.at = "receipt"
    /\ panel' = IF panel.submitted # panel.status.op THEN Quiet(panel)
                ELSE [Quiet(panel) EXCEPT !.outcome.check = "conflict", !.elig = NoOp]
    /\ UNCHANGED <<kept, owed>> /\ PanelKeeps

StatusFails ==
    /\ panel.status.at # "off"
    /\ panel' = Quiet(IF panel.submitted = panel.status.op THEN Unchecked(panel) ELSE panel)
    /\ UNCHANGED <<kept, owed>> /\ PanelKeeps

StartAnother ==
    /\ Resolved(panel) /\ panel.task.at = "off" /\ panel.status.at = "off"
    /\ panel' = [panel EXCEPT !.submitted = NoOp, !.outcome = Unknown, !.elig = NoOp, !.draft = NoPair]
    /\ kept' = NoOp
    /\ UNCHANGED owed /\ PanelKeeps

-----------------------------------------------------------------------------
(* The service and the page *)

\* helperRelease: an operation is admitted once, and answered as it stands.
ServePost(op) ==
    LET state == IF sponsor.ops[op] # "none" THEN sponsor.ops[op]
                 ELSE IF Eligible(op) THEN "admitted" ELSE "none"
    IN
    /\ op \in sponsor.posts
    /\ sponsor' = [sponsor EXCEPT !.ops[op] = state, !.posts = @ \ {op}]
    /\ panel' = IF panel.task.at = "release" /\ panel.task.op = op
                THEN [panel EXCEPT !.task.reply = IF state = "none" THEN "refused" ELSE state] ELSE panel
    /\ UNCHANGED <<kept, owed, wear>>

ServeStatus ==
    /\ panel.status.at = "asked" /\ panel.status.reply = "none"
    /\ LET state == sponsor.ops[panel.status.op] IN
       panel' = [panel EXCEPT !.status.reply = IF state = "none" THEN "absent" ELSE state]
    /\ UNCHANGED <<kept, owed>> /\ PanelKeeps

Work(op) ==
    /\ \E state \in CASE sponsor.ops[op] = "admitted" -> {"prepared", "stopped"}
                      [] sponsor.ops[op] = "prepared" -> {"settled", "reverted"}
                      [] OTHER -> {} :
          sponsor' = [sponsor EXCEPT !.ops[op] = state]
    /\ UNCHANGED <<panel, kept, owed, wear>>

\* A campaign opens and closes, and another one succeeds it for good.
Reoffer(offer) ==
    /\ wear.offers < MaxOffers /\ offer # sponsor.offer
    /\ offer.campaign >= sponsor.offer.campaign
    /\ sponsor' = [sponsor EXCEPT !.offer = offer]
    /\ wear' = [wear EXCEPT !.offers = @ + 1]
    /\ UNCHANGED <<panel, kept, owed>>

\* The panel is left, or the page reloaded, and opened again.
Remount ==
    /\ wear.mounts < MaxMounts
    /\ panel' = Mounted(panel.account)
    /\ wear' = [wear EXCEPT !.mounts = @ + 1]
    /\ UNCHANGED <<sponsor, kept, owed>>

HelperNext ==
    \/ OfferArrives \/ Look \/ Authorize \/ Challenged \/ Signed \/ GivesUp
    \/ Acknowledged \/ Refused \/ Unacknowledged
    \/ ReadStatus \/ StatusAnswer \/ ReceiptConfirmed \/ ReceiptConflict \/ StatusFails \/ StartAnother
    \/ \E pair \in Pairs : Draft(pair) \/ Found(pair)
    \/ \E wallet \in Wallets : Connected(wallet) \/ SwitchAccount(wallet)
    \/ \E op \in Ops : ServePost(op) \/ Work(op)
    \/ ServeStatus \/ Remount
    \/ \E offer \in Offers : Reoffer(offer)

\* While the outcome is open the panel's timer, and after its quarter of an hour whoever
\* sits in front of it, reads the status; the service does not fail or lag
\* forever.
HelperFairness ==
    /\ WF_helperVars(OfferArrives) /\ WF_helperVars(ReadStatus)
    /\ SF_helperVars(ServeStatus) /\ SF_helperVars(StatusAnswer) /\ SF_helperVars(ReceiptConfirmed)

HelperSpec == HelperInit /\ [][HelperNext]_helperVars /\ HelperFairness

-----------------------------------------------------------------------------
(* Properties *)

\* The request for an operation leaves once: not again, whatever was lost,
\* refused late or reloaded, before the earlier one is known to be refused or
\* over (HelperRecoveryDesk.jsx:252, recovery-helper-api.mjs:3).
PostedOnce ==
    [][panel.task.at = "sign" /\ panel'.task.at = "release" => panel.task.op \notin owed]_helperVars

\* A submission that is over at the service does not lock the panel for good,
\* although reads fail, lag or answer what is not asked any more.
Unlocks ==
    (panel.submitted # NoOp /\ sponsor.ops[panel.submitted] \in Terminal)
        ~> (Resolved(panel) \/ panel.submitted = NoOp)
=============================================================================
