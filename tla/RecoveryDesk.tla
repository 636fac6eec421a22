----------------------------- MODULE RecoveryDesk -----------------------------
(***************************************************************************)
(* One browser tab of the owner's recovery page: a pair of transactions is *)
(* typed, checked, authorized by its source wallet and submitted, while    *)
(* the campaign's configuration is read again, the wallet switches its     *)
(* account and the page is reloaded.  Every request is answered in a later *)
(* step, and what the answer may still do is decided by the operation it   *)
(* belongs to: a pair operation ends when another begins or the pair       *)
(* changes, a wallet operation when the account does.  What was submitted  *)
(* is remembered in the tab's session storage for TTL.                     *)
(*                                                                         *)
(* An operation's version is modelled by the name of the task that owns    *)
(* the current one; an answer to a check that does not own it is dropped,  *)
(* so only the tasks that do something after losing it are kept.  A pair   *)
(* determines its source wallet.                                           *)
(***************************************************************************)
EXTENDS SourceWallets, Integers, FiniteSets

CONSTANTS
    Configs,            \* answers [campaign, mode, open, hosted] of the configuration
    NoConfig,
    TTL,
    MaxTime, MaxUpsets, MaxReloads, MaxPosts    \* bounds; upsets are changes and reloads

ASSUME ConfigsAssumption ==
    /\ NoConfig \notin Configs
    /\ \A c \in Configs : c.mode \in {"write", "read", "off"} /\ {c.open, c.hosted} \subseteq BOOLEAN
ASSUME BoundsAssumption == TTL \in Nat \ {0} /\ {MaxTime, MaxUpsets, MaxReloads, MaxPosts} \subseteq Nat

VARIABLES
    now,
    service,    \* the configuration the service would answer now
    served,     \* what became of each <<campaign, pair>> there
    posted,     \* release requests on their way
    tab,        \* the page: see Page
    stored,     \* the tab's session storage
    spent,      \* changes of the configuration, reloads and releases so far
    unresolved  \* history: submitted by this tab, not known to be resolved

vars == <<now, service, served, posted, tab, stored, spent, unresolved>>

Campaigns == {c.campaign : c \in Configs}
None == -1
NoElig == [pair |-> NoPair, campaign |-> None, status |-> "none"]
NoRecord == [pair |-> NoPair, campaign |-> None, created |-> None, pending |-> FALSE]
Idle == [at |-> "off", wallet |-> NoWallet, connected |-> FALSE]
AuthOff == [at |-> "off", pair |-> NoPair, config |-> NoConfig, wallet |-> FALSE]

\* A page just opened.  draft, elig, flow: what is on screen.  owner: the task
\* of the current pair operation.  checked: the record as last saved has been
\* taken up (the reconciliation key).  auth.wallet: its wallet operation is
\* current.
Page(account) ==
    [config |-> NoConfig, account |-> account, draft |-> NoPair, elig |-> NoElig, flow |-> "empty",
     owner |-> "none", started |-> None, due |-> FALSE, checked |-> FALSE, connecting |-> FALSE, search |-> Idle,
     auth |-> AuthOff]

Init ==
    /\ now = 0
    /\ service \in {c \in Configs : c.mode = "write"}
    /\ served = [x \in Campaigns \X Pairs |-> "none"]
    /\ posted = {}
    /\ tab = Page(NoWallet)
    /\ stored = NoRecord
    /\ spent = [changes |-> 0, reloads |-> 0, posts |-> 0]
    /\ unresolved = {}

-----------------------------------------------------------------------------
(* Flows *)

BusyFlows == {"checking", "discovering", "wallet-connecting", "authorization-requested", "proof-queued", "proof-building"}
StatusFlows == {"release-processing", "release-uncertain"}
Submitted == {"proof-queued", "proof-building"}

Busy(t) == t.flow \in BusyFlows \/ t.auth.at # "off"
PairLocked(t) == Busy(t) \/ t.flow \in StatusFlows

Eligible(t) == t.elig.status = "eligible"
Source(t) == WalletOf(t.elig.pair)

InspectionFlow(t, pair) ==
    IF t.config.mode # "read" /\ t.account \notin {NoWallet, WalletOf(pair)} THEN "wrong-wallet" ELSE "qualifying"

FlowOf(status) ==
    CASE status = "claimed" -> "already-claimed"
      [] status = "processing" -> "release-processing"
      [] status = "closed" -> "campaign-closed"

-----------------------------------------------------------------------------
(* The stored submission *)

Live(record) == record # NoRecord /\ now < record.created + TTL
Matches(record, campaign, pair) == record.campaign = campaign /\ record.pair = pair

\* loadRecoveryResumeState and loadRecoveryResumeCandidate: what is not the
\* expected record is removed.
Kept(campaign, pairs) ==
    IF Live(stored) /\ stored.campaign = campaign /\ stored.pair \in pairs THEN stored ELSE NoRecord

\* saveRecoveryResumeState: a record keeps its first time and lapses with it.
Saved(t, pair, pending) ==
    LET previous == IF Live(stored) /\ Matches(stored, t.config.campaign, pair) THEN stored ELSE NoRecord
        created == IF previous # NoRecord THEN previous.created ELSE IF t.started # None THEN t.started ELSE now
    IN  IF \/ previous # NoRecord /\ t.started \notin {None, previous.created}
           \/ now >= created + TTL
        THEN NoRecord
        ELSE [pair |-> pair, campaign |-> t.config.campaign, created |-> created, pending |-> pending]

\* persistSubmittedRecovery
Persisted(t, pair, pending) ==
    IF t.config = NoConfig \/ t.config.mode # "write" THEN stored ELSE Saved(t, pair, pending)

-----------------------------------------------------------------------------
(* Configuration *)

Readable(config) == config # NoConfig /\ config.mode # "off"
SameCampaign(a, b) ==
    Readable(a) /\ Readable(b) /\ a.campaign = b.campaign /\ a.mode = b.mode

\* Bug: the operation may have been replaced: only the campaign is compared.
CanContinueStale(current, initial, config) ==
    /\ config.mode = "write" /\ config.open
    /\ SameCampaign(initial, config) /\ initial = config

CanContinue(current, initial, config) ==
    /\ current
    /\ config.mode = "write" /\ config.open
    /\ SameCampaign(initial, config) /\ initial = config

InterruptionFlow(config) ==
    IF ~Readable(config) THEN "service-unavailable"
    ELSE IF ~config.open THEN "campaign-closed" ELSE "campaign-changed"

Changes(t, next) == t.config # NoConfig /\ ~SameCampaign(t.config, next)

\* applyRecoveryConfig: another campaign drops everything derived from it.
Applied(t, next) ==
    IF Changes(t, next)
    THEN [t EXCEPT !.config = next, !.owner = "none", !.auth.wallet = FALSE, !.search = Idle, !.elig = NoElig,
                   !.started = None, !.checked = FALSE, !.due = TRUE,
                   !.flow = IF t.draft = NoPair THEN "empty" ELSE "campaign-changed"]
    ELSE [t EXCEPT !.config = next, !.due = @ \/ t.config = NoConfig]
StoredAfter(t, next) == IF Changes(t, next) THEN NoRecord ELSE stored
Forgets(t, next) == IF Changes(t, next) THEN {} ELSE unresolved

\* refreshConfig passes through "loading": the effect below runs again, and an
\* answer to its request is dropped.
Refreshed(t) ==
    [Applied(t, service) EXCEPT !.due = TRUE, !.owner = IF @ = "resume" THEN "none" ELSE @]

PageKeeps == UNCHANGED <<now, service, served, posted, spent>>

Poll ==
    /\ tab.config # service
    /\ tab' = Applied(tab, service)
    /\ stored' = StoredAfter(tab, service)
    /\ unresolved' = Forgets(tab, service)
    /\ PageKeeps

-----------------------------------------------------------------------------
(* The resume effect *)

ResumeEffect ==
    /\ tab.due
    /\ LET record == Kept(tab.config.campaign, Pairs)
       IN  IF tab.config.mode # "write" THEN tab' = [tab EXCEPT !.due = FALSE] /\ stored' = stored
           ELSE /\ stored' = record
                /\ tab' = IF record = NoRecord THEN [tab EXCEPT !.due = FALSE]
                          ELSE IF tab.checked THEN [tab EXCEPT !.due = FALSE, !.started = record.created]
                          ELSE [tab EXCEPT !.due = FALSE, !.checked = TRUE, !.draft = record.pair, !.owner = "resume",
                                           !.started = record.created, !.flow = "release-uncertain"]
    /\ unresolved' = unresolved
    /\ PageKeeps

Status(pair) ==
    LET state == served[<<service.campaign, pair>>] IN
    IF state # "none" THEN state ELSE IF service.open THEN "eligible" ELSE "closed"
\* The answer names its campaign; another one is a mismatch.
Answers(config) == Readable(service) /\ service.campaign = config.campaign
Verdict(pair) == [pair |-> pair, campaign |-> service.campaign, status |-> Status(pair)]

ResumeAnswer ==
    /\ tab.owner = "resume" /\ Answers(tab.config)
    /\ LET pair == tab.draft
           record == Kept(tab.config.campaign, {pair})
           next == [tab EXCEPT !.owner = "none", !.elig = Verdict(pair), !.checked = FALSE]
           status == Status(pair)
       IN  CASE record = NoRecord ->
                  /\ tab' = [tab EXCEPT !.owner = "none", !.elig = NoElig, !.flow = "pair-changed",
                                        !.checked = FALSE, !.started = None]
                  /\ stored' = NoRecord
             [] record # NoRecord /\ status = "closed" ->
                  /\ tab' = [next EXCEPT !.flow = "campaign-closed", !.started = None]
                  /\ stored' = NoRecord
             [] OTHER ->
                  /\ tab' = [next EXCEPT !.flow = IF status = "eligible" THEN "release-uncertain" ELSE FlowOf(status)]
                  /\ stored' = Persisted(next, pair, status # "claimed")
    /\ unresolved' = IF tab'.elig.status \in {"claimed", "closed"} THEN {} ELSE unresolved
    /\ PageKeeps

ResumeFails ==
    /\ tab.owner = "resume"
    /\ tab' = [tab EXCEPT !.owner = "none", !.checked = FALSE, !.flow = "release-uncertain"]
    /\ UNCHANGED <<stored, unresolved>> /\ PageKeeps

-----------------------------------------------------------------------------
(* The pair: typed, or taken from a shared link *)

Drafted(pair, flow) ==
    /\ tab' = [tab EXCEPT !.draft = pair, !.owner = "none", !.search = Idle, !.elig = NoElig,
                          !.flow = flow, !.started = None, !.checked = FALSE]
    /\ stored' = NoRecord
    /\ unresolved' = {}
    /\ PageKeeps

\* The fields are disabled while something is under way.
ChangePairField(pair) ==
    /\ ~tab.due /\ ~PairLocked(tab) /\ pair # tab.draft
    /\ Drafted(pair, IF tab.elig # NoElig THEN "pair-changed" ELSE "editing")

SharedLink(pair) ==
    /\ Readable(tab.config)
    /\ ~PairLocked(tab)
    /\ ~Kept(tab.config.campaign, Pairs).pending
    /\ Drafted(pair, "editing")

-----------------------------------------------------------------------------
(* checkPair *)

CheckPair ==
    /\ tab.draft # NoPair /\ tab.config # NoConfig /\ ~tab.due /\ ~Busy(tab)
    /\ tab' = [tab EXCEPT !.owner = "check", !.flow = "checking", !.elig = NoElig]
    /\ UNCHANGED <<stored, unresolved>> /\ PageKeeps

CheckAnswer ==
    /\ tab.owner = "check" /\ Answers(tab.config)
    /\ LET pair == tab.draft
           status == Status(pair)
           record == Kept(tab.config.campaign, {pair})
           resumed == record # NoRecord
           next == [tab EXCEPT !.owner = "none", !.elig = Verdict(pair),
                               !.started = IF resumed THEN record.created ELSE @,
                               !.checked = @ /\ ~resumed]
           flow == IF status # "eligible" THEN FlowOf(status)
                   ELSE IF resumed THEN "release-uncertain" ELSE InspectionFlow(tab, pair)
       IN  IF status = "closed"
           THEN /\ tab' = Refreshed([next EXCEPT !.flow = flow, !.started = None, !.checked = FALSE])
                /\ stored' = NoRecord
           ELSE /\ tab' = [next EXCEPT !.flow = flow]
                /\ stored' = IF resumed THEN Persisted(next, pair, status # "claimed") ELSE record
    /\ unresolved' = IF tab'.elig.status \in {"claimed", "closed", "none"} THEN {} ELSE unresolved
    /\ PageKeeps

\* A mismatch reads the configuration again.
CheckMismatch ==
    /\ tab.owner = "check" /\ ~Answers(tab.config)
    /\ LET next == Refreshed(tab) IN
       tab' = IF next.owner = "check"
              THEN [next EXCEPT !.owner = "none",
                                !.flow = IF Readable(next.config) THEN "retryable-error" ELSE "service-unavailable"]
              ELSE next
    /\ stored' = StoredAfter(tab, service) /\ unresolved' = Forgets(tab, service)
    /\ PageKeeps

CheckFails ==
    /\ tab.owner = "check"
    /\ tab' = [tab EXCEPT !.owner = "none", !.flow = "retryable-error"]
    /\ UNCHANGED <<stored, unresolved>> /\ PageKeeps

-----------------------------------------------------------------------------
(* The wallet *)

\* Some answers are written over the flow without a look at the record.
Lifted == {[s EXCEPT !.lifted = TRUE] : s \in unresolved}

\* Bug: a change of the account is written over a submission's flow.
AccountFlowAlways(t, next, external) ==
    CASE ~Eligible(t) \/ t.flow = "wallet-connecting" -> t.flow
      [] OTHER -> InspectionFlow([t EXCEPT !.account = next], t.elig.pair)

\* updateConnectedAccount
AccountFlow(t, next, external) ==
    CASE ~Eligible(t) \/ t.flow \in StatusFlows \cup {"wallet-connecting"} -> t.flow
      [] OTHER ->
            IF external /\ t.account # NoWallet /\ t.flow \in Submitted THEN "release-uncertain"
            ELSE IF /\ external /\ t.account # NoWallet /\ t.flow = "authorization-requested"
                    /\ t.config.mode # "read" /\ next # Source(t)
                 THEN "account-changed"
            ELSE InspectionFlow([t EXCEPT !.account = next], t.elig.pair)

\* A search of the connected wallet's history ends with the account.
Searching(t) == t.search.at = "asking" /\ t.search.connected
WithAccount(t, next, external) ==
    IF next = t.account THEN t
    ELSE [t EXCEPT !.account = next, !.auth.wallet = FALSE,
                   !.search = IF Searching(t) THEN Idle ELSE @,
                   !.flow = IF external /\ Searching(t) /\ @ = "discovering" THEN "empty"
                            ELSE AccountFlow(t, next, external)]

AccountsChanged(next) ==
    /\ next # tab.account
    /\ IF Eligible(tab) /\ tab.account # NoWallet /\ tab.flow \in Submitted
       THEN /\ tab' = [WithAccount(tab, next, TRUE) EXCEPT !.checked = FALSE]
            /\ stored' = Persisted(tab, tab.elig.pair, TRUE)
       ELSE /\ tab' = WithAccount(tab, next, TRUE)
            /\ stored' = stored
    /\ unresolved' = unresolved
    /\ PageKeeps

\* walletControl: connect without authorizing.
WalletControl ==
    /\ Eligible(tab) /\ ~tab.due /\ ~PairLocked(tab) /\ ~tab.connecting
    /\ tab.config.mode = "write" /\ tab.config.open
    /\ tab' = [tab EXCEPT !.owner = "connect", !.flow = "wallet-connecting", !.connecting = TRUE]
    /\ UNCHANGED <<stored, unresolved>> /\ PageKeeps

WalletConnected(account) ==
    /\ tab.connecting
    /\ LET next == WithAccount([tab EXCEPT !.connecting = FALSE], account, FALSE) IN
       tab' = IF tab.owner # "connect" THEN next
              ELSE [next EXCEPT !.owner = "none",
                                !.flow = IF account = Source(tab) THEN "qualifying" ELSE "wrong-wallet"]
    /\ UNCHANGED <<stored, unresolved>> /\ PageKeeps

\* The refusal of a prompt, or its timeout, is written down whoever owns the
\* operation by then; it can lift the lock of a submission made meanwhile.
WalletRefused ==
    /\ tab.connecting
    /\ tab' = [tab EXCEPT !.connecting = FALSE, !.flow = "qualifying", !.owner = IF @ = "connect" THEN "none" ELSE @]
    /\ unresolved' = IF tab.owner = "connect" THEN unresolved ELSE Lifted
    /\ UNCHANGED stored /\ PageKeeps

-----------------------------------------------------------------------------
(* discoverWallet: by the connected wallet, or by an address typed in *)

Discover(connected) ==
    /\ Readable(tab.config) /\ ~tab.due /\ ~PairLocked(tab)
    /\ tab.elig = NoElig /\ ~tab.connecting
    /\ \E wallet \in IF connected THEN {NoWallet} ELSE Wallets :
          tab' = [tab EXCEPT !.owner = "none", !.flow = "discovering",
                             !.search = [at |-> IF connected THEN "prompt" ELSE "asking",
                                         wallet |-> wallet, connected |-> connected]]
    /\ UNCHANGED <<stored, unresolved>> /\ PageKeeps

SearchConnected(account) ==
    /\ tab.search.at = "prompt"
    /\ tab' = [WithAccount(tab, account, FALSE) EXCEPT
                  !.search = [at |-> "asking", wallet |-> account, connected |-> TRUE]]
    /\ UNCHANGED <<stored, unresolved>> /\ PageKeeps

\* The best match of the wallet's history, if it has one.
SearchAnswer ==
    /\ tab.search.at = "asking" /\ Answers(tab.config)
    /\ \/ \E pair \in {p \in Pairs : WalletOf(p) = tab.search.wallet} :
             LET status == Status(pair) IN
             tab' = [tab EXCEPT !.search = Idle, !.draft = pair, !.owner = "none", !.elig = Verdict(pair),
                                !.flow = IF status = "eligible" THEN InspectionFlow(tab, pair) ELSE FlowOf(status)]
       \/ tab' = [tab EXCEPT !.search = Idle, !.flow = "discovery-empty"]
    /\ unresolved' = Lifted
    /\ UNCHANGED stored /\ PageKeeps

SearchFails ==
    /\ tab.search.at # "off"
    /\ tab' = [tab EXCEPT !.search = Idle, !.flow = IF tab.search.at = "prompt" THEN "empty" ELSE "discovery-unavailable"]
    /\ UNCHANGED <<stored, unresolved>> /\ PageKeeps

-----------------------------------------------------------------------------
(* authorizeAndRelease *)

AuthAt(at) == tab.auth.at = at
Request == <<tab.auth.config.campaign, tab.auth.pair>>
\* The wallet belongs to the operation once it is asked to sign.
Current == tab.owner = "auth" /\ (tab.auth.wallet \/ AuthAt("admission"))

\* Its finally block.
Ended(t) ==
    [t EXCEPT !.auth = AuthOff,
              !.owner = IF @ = "auth" THEN "none" ELSE @,
              !.flow = IF @ # "account-changed" THEN @
                       ELSE IF t.account \in {NoWallet, WalletOf(t.auth.pair)} THEN "qualifying" ELSE "wrong-wallet"]
\* It returns without a word when the operation is not its own any more.
EndsWith(t, flow) == Ended(IF Current THEN [t EXCEPT !.flow = flow] ELSE t)

ToChallenge(t) == [t EXCEPT !.auth.at = "challenge", !.auth.wallet = TRUE, !.flow = "authorization-requested"]

\* The source wallet is asked for, unless it is the one connected.
ToWallet(t) ==
    IF t.account = WalletOf(t.auth.pair) THEN ToChallenge(t)
    ELSE [t EXCEPT !.auth.at = "connect", !.flow = "wallet-connecting"]

\* With hosted admission the pair is checked again first.
Authorize ==
    /\ Eligible(tab) /\ ~tab.due /\ ~PairLocked(tab)
    /\ tab.flow \notin {"continuation-waiting", "campaign-closed"}
    /\ tab.config.mode = "write" /\ tab.config.open
    /\ LET begun == [tab EXCEPT !.owner = "auth", !.flow = "checking",
                          !.auth = [at |-> "admission", pair |-> tab.elig.pair, config |-> tab.config, wallet |-> TRUE]]
       IN  tab' = IF tab.config.hosted THEN begun ELSE ToWallet(begun)
    /\ UNCHANGED <<stored, unresolved>> /\ PageKeeps

Admission ==
    /\ AuthAt("admission") /\ (tab.owner = "auth" => Answers(tab.config))
    /\ LET pair == tab.auth.pair
           next == [tab EXCEPT !.elig = Verdict(pair)]
       IN  CASE tab.owner # "auth" -> tab' = Ended(tab)
             [] OTHER ->
                  tab' = IF Status(pair) # "eligible" THEN Ended([next EXCEPT !.flow = FlowOf(Status(pair))])
                         ELSE IF ~CanContinue(TRUE, tab.auth.config, tab.config)
                         THEN Ended([next EXCEPT !.flow = InterruptionFlow(tab.config)])
                         ELSE ToWallet(next)
    /\ UNCHANGED <<stored, unresolved>> /\ PageKeeps

Connect(account) ==
    /\ AuthAt("connect") /\ ~tab.connecting /\ tab.search.at # "prompt"   \* one account request at a time
    /\ LET next == WithAccount(tab, account, FALSE) IN
       tab' = IF tab.owner # "auth" THEN Ended(next)
              ELSE IF account # WalletOf(tab.auth.pair) THEN Ended([next EXCEPT !.flow = "wrong-wallet"])
              ELSE ToChallenge(next)
    /\ UNCHANGED <<stored, unresolved>> /\ PageKeeps

ConnectRefused ==
    /\ AuthAt("connect")
    /\ tab' = Ended(IF tab.owner = "auth" THEN [tab EXCEPT !.flow = "qualifying"] ELSE tab)
    /\ UNCHANGED <<stored, unresolved>> /\ PageKeeps

\* After an await: go on to the next stage, or stop with what interrupted it.
Stopped(config) ==
    LET flow == InterruptionFlow(config) IN
    IF ~Current THEN Ended(tab)
    ELSE Ended([tab EXCEPT !.flow = flow,
                           !.elig = IF flow \in {"campaign-changed", "service-unavailable"} THEN NoElig ELSE @])
Proceeds(next) ==
    tab' = IF CanContinue(Current, tab.auth.config, tab.config) THEN [tab EXCEPT !.auth.at = next]
           ELSE Stopped(tab.config)

\* The challenge is in: the wallet is asked to sign.
Challenge ==
    /\ AuthAt("challenge") /\ Proceeds("sign")
    /\ UNCHANGED <<stored, unresolved>> /\ PageKeeps

Signature ==
    /\ AuthAt("sign") /\ Proceeds("fresh")
    /\ UNCHANGED <<stored, unresolved>> /\ PageKeeps

\* Refused, expired, or no answer: what was found eligible stays or goes, and
\* the flow, whatever it is called, does not lock the pair.
AuthorizationFails ==
    /\ tab.auth.at \in {"admission", "challenge", "sign", "fresh"}
    /\ \/ tab' = EndsWith(tab, "qualifying")
       \/ tab' = EndsWith(IF Current THEN [tab EXCEPT !.elig = NoElig] ELSE tab, "service-unavailable")
    /\ UNCHANGED <<stored, unresolved>> /\ PageKeeps

\* A mismatch: the configuration read again is of another campaign, and takes
\* the page from the operation, which may write nothing any more.
AuthorizationMismatch ==
    /\ tab.auth.at \in {"admission", "challenge"}
    /\ Current /\ ~Answers(tab.config)
    /\ tab' = Ended(Refreshed(tab))
    /\ stored' = StoredAfter(tab, service) /\ unresolved' = Forgets(tab, service)
    /\ PageKeeps

\* RECOVERY_CLOSED or RECOVERY_FULL: the record is given up, and the
\* configuration read again.
Closes ==
    /\ tab' = [Refreshed(Ended([tab EXCEPT !.flow = "campaign-closed", !.elig.status = "closed",
                                           !.started = None])) EXCEPT !.checked = FALSE]
    /\ stored' = NoRecord
    /\ unresolved' = {}

AuthorizationClosed ==
    /\ tab.auth.at \in {"admission", "challenge"} /\ ~service.open
    /\ Current /\ Closes
    /\ PageKeeps

\* A configuration read after the signature decides; the release goes out in
\* the same step.
FreshConfig ==
    /\ AuthAt("fresh") /\ spent.posts < MaxPosts
    /\ LET next == IF Current THEN Applied(tab, service) ELSE tab
           still == next.owner = "auth" /\ next.auth.wallet
           pair == tab.auth.pair
           submitting == [next EXCEPT !.auth.at = "release", !.started = now, !.checked = FALSE,
                                       !.flow = "proof-queued"]
       IN  IF CanContinue(still, tab.auth.config, service)
           THEN /\ tab' = submitting
                /\ stored' = Persisted(submitting, pair, TRUE)
                /\ posted' = posted \cup {<<service.campaign, pair>>}
                /\ spent' = [spent EXCEPT !.posts = @ + 1]
                /\ unresolved' = {[campaign |-> service.campaign, pair |-> pair, at |-> now, lifted |-> FALSE]}
           ELSE /\ tab' = IF Current
                          THEN Ended([next EXCEPT !.flow = InterruptionFlow(service),
                                       !.elig = IF InterruptionFlow(service) = "campaign-closed" THEN @ ELSE NoElig])
                          ELSE Ended(tab)
                /\ stored' = IF Current THEN StoredAfter(tab, service) ELSE stored
                /\ unresolved' = IF Current THEN Forgets(tab, service) ELSE unresolved
                /\ UNCHANGED <<posted, spent>>
    /\ UNCHANGED <<now, service, served>>

\* 425: still pending.  The same request is sent again, whoever owns the
\* operation by now.
Pending ==
    /\ AuthAt("release") /\ Request \notin posted
    /\ posted' = posted \cup {Request}
    /\ IF Current
       THEN /\ tab' = [tab EXCEPT !.flow = "proof-building", !.checked = FALSE]
            /\ stored' = Persisted(tab, tab.auth.pair, TRUE)
       ELSE UNCHANGED <<tab, stored>>
    /\ UNCHANGED <<now, service, served, spent, unresolved>>

Uncertain ==
    /\ tab' = Ended([tab EXCEPT !.flow = "release-uncertain", !.checked = FALSE])
    /\ stored' = Persisted(tab, tab.auth.pair, TRUE)
    /\ unresolved' = unresolved

ReleaseAnswer ==
    /\ AuthAt("release")
    /\ served[Request] = "claimed"
    /\ IF Current
       THEN /\ tab' = Refreshed(Ended([tab EXCEPT !.flow = "released", !.elig.status = "claimed",
                                                !.checked = FALSE]))
            /\ stored' = IF Changes(tab, service) THEN NoRecord ELSE Persisted(tab, tab.auth.pair, FALSE)
            /\ unresolved' = {}
       ELSE Uncertain
    /\ PageKeeps

ReleaseClosed ==
    /\ AuthAt("release") /\ ~service.open
    /\ served[Request] = "none"
    /\ IF Current THEN Closes ELSE Uncertain
    /\ PageKeeps

ReleaseLost == AuthAt("release") /\ Uncertain /\ PageKeeps

-----------------------------------------------------------------------------
(* The service, the clock and the page *)

Serve ==
    \/ \E x \in posted :
          /\ served' = IF /\ served[x] = "none" /\ x[1] = service.campaign
                          /\ service.mode = "write" /\ service.open
                       THEN [served EXCEPT ![x] = "processing"] ELSE served
          /\ posted' = posted \ {x}
          /\ UNCHANGED <<now, service, tab, stored, spent, unresolved>>
    \/ \E x \in Campaigns \X Pairs, state \in {"none", "claimed"} :
          /\ served[x] = "processing"
          /\ served' = [served EXCEPT ![x] = state]
          /\ UNCHANGED <<now, service, posted, tab, stored, spent, unresolved>>

Reconfigure(config) ==
    /\ spent.changes + spent.reloads < MaxUpsets /\ config # service
    /\ service' = config
    /\ spent' = [spent EXCEPT !.changes = @ + 1]
    /\ UNCHANGED <<now, served, posted, tab, stored, unresolved>>

Tick ==
    /\ now < MaxTime /\ now' = now + 1
    /\ unresolved' = {s \in unresolved : now' < s.at + TTL}
    /\ UNCHANGED <<service, served, posted, tab, stored, spent>>

Reload(account) ==
    /\ spent.reloads < MaxReloads /\ spent.changes + spent.reloads < MaxUpsets
    /\ account \in {NoWallet, tab.account}
    /\ tab' = Page(account)
    /\ spent' = [spent EXCEPT !.reloads = @ + 1]
    /\ UNCHANGED <<now, service, served, posted, stored, unresolved>>

-----------------------------------------------------------------------------

Answered ==
    \/ ResumeEffect \/ ResumeAnswer \/ ResumeFails
    \/ CheckAnswer \/ CheckMismatch \/ CheckFails
    \/ Admission \/ ConnectRefused \/ Challenge \/ Signature
    \/ AuthorizationFails \/ AuthorizationMismatch \/ AuthorizationClosed
    \/ FreshConfig \/ ReleaseAnswer \/ ReleaseClosed \/ ReleaseLost
    \/ WalletRefused \/ SearchAnswer \/ SearchFails
    \/ \E account \in Wallets : Connect(account) \/ WalletConnected(account) \/ SearchConnected(account)

Next ==
    \/ Poll \/ Answered \/ Pending \/ CheckPair \/ Authorize \/ WalletControl
    \/ \E connected \in BOOLEAN : Discover(connected)
    \/ \E pair \in Pairs : ChangePairField(pair) \/ SharedLink(pair)
    \/ \E account \in Wallets \cup {NoWallet} : AccountsChanged(account) \/ Reload(account)
    \/ Serve \/ Tick
    \/ \E config \in Configs : Reconfigure(config)

Spec == Init /\ [][Next]_vars

-----------------------------------------------------------------------------
(* Properties *)

\* A release goes out only for the pair on screen, signed by its source wallet
\* while that wallet was connected, under the configuration the owner saw when
\* the authorization began and the service still answers.
SubmittedAsShown ==
    [][tab.auth.at = "fresh" /\ tab'.auth.at = "release" =>
          /\ tab.draft = tab.auth.pair
          /\ tab.account = WalletOf(tab.auth.pair)
          /\ tab.auth.config = service /\ service.open]_vars

\* The submitted pair remains locked for its reconciliation window: the wallet
\* is not asked to sign for it again until the release is resolved, the owner
\* changes the pair, the campaign changes or the window is over
\* (main.jsx:830, recovery-resume-state.mjs:4).
LockedForWindow ==
    [][tab.auth.at = "challenge" /\ tab'.auth.at = "sign" =>
          ~\E s \in unresolved : s.pair = tab.auth.pair /\ s.campaign = tab.config.campaign]_vars

\* The lock holds across reloads, failed status checks, late answers and the
\* wallet's account changes, as long as neither a wallet search nor the refusal
\* of an abandoned account request was written over it.
NoSecondSignature ==
    [][tab.auth.at = "challenge" /\ tab'.auth.at = "sign" =>
          ~\E s \in unresolved :
              s.pair = tab.auth.pair /\ s.campaign = tab.config.campaign /\ ~s.lifted]_vars
=============================================================================
