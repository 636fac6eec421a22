------------------------- MODULE DeskAndSearch_proofs -------------------------
(***************************************************************************)
(* What is proved of the owner's page and of the search it may start from, *)
(* for any pairs, wallets, campaigns, histories and bounds.                *)
(*                                                                         *)
(* The page: DeskInv says which record, draft and task belong together     *)
(* (Tidy), and of every submission not known to be resolved that something *)
(* keeps its pair locked (Locks): the release that is still under way, the *)
(* record the page has taken up, or, after a reload, the record it has not *)
(* read yet.  Each step of the page is one lemma.                          *)
(*                                                                         *)
(* The search: SearchInv accounts, at each stage, for every row there was  *)
(* when it began.  The arguments about pages are about positions: a row    *)
(* has so many rows above it, and rows are only ever added on top.         *)
(***************************************************************************)
EXTENDS RecoveryDesk, WalletDiscovery, FiniteSetTheorems, TLAPS

-----------------------------------------------------------------------------
(* The owner's page *)

Outcomes == {"none", "processing", "claimed"}
FlowNames ==
    {"empty", "editing", "pair-changed", "checking", "discovering", "wallet-connecting", "authorization-requested",
     "proof-queued", "proof-building", "release-processing", "release-uncertain", "released", "wrong-wallet",
     "qualifying", "already-claimed", "campaign-closed", "campaign-changed", "service-unavailable",
     "retryable-error", "account-changed", "discovery-empty", "discovery-unavailable"}
Owners == {"none", "auth", "check", "resume", "connect"}
Stages == {"off", "admission", "connect", "challenge", "sign", "fresh", "release"}
Eligs ==
    [pair : Pairs \cup {NoPair}, campaign : Campaigns \cup {None},
     status : {"none", "claimed", "processing", "closed", "eligible"}]
Prompts == [at : {"off", "prompt", "asking"}, wallet : Wallets \cup {NoWallet}, connected : BOOLEAN]
Auths == [at : Stages, pair : Pairs \cup {NoPair}, config : Configs \cup {NoConfig}, wallet : BOOLEAN]
Tabs ==
    [config : Configs \cup {NoConfig}, account : Wallets \cup {NoWallet}, draft : Pairs \cup {NoPair},
     elig : Eligs, flow : FlowNames, owner : Owners, started : Int, due : BOOLEAN, checked : BOOLEAN,
     connecting : BOOLEAN, search : Prompts, auth : Auths]
Records == [pair : Pairs \cup {NoPair}, campaign : Campaigns \cup {None}, created : Int, pending : BOOLEAN]
Submissions == [campaign : Campaigns, pair : Pairs, at : Nat, lifted : BOOLEAN]

DeskTypes ==
    /\ now \in Nat /\ service \in Configs /\ served \in [Campaigns \X Pairs -> Outcomes]
    /\ tab \in Tabs /\ stored \in Records /\ unresolved \in SUBSET Submissions

\* The page t beside the record st: what is on screen belongs to who works on it.
Tidy(t, st) ==
    /\ t.owner = "auth" =>
          t.auth.at # "off" /\ t.draft = t.auth.pair /\ t.elig # NoElig /\ t.config.mode = "write"
    /\ t.owner = "auth" /\ t.auth.wallet /\ t.auth.at \in {"challenge", "sign", "fresh", "release"} =>
          t.account = WalletOf(t.auth.pair)
    /\ t.elig # NoElig => t.elig.pair = t.draft /\ t.draft # NoPair
    /\ t.due => \/ t.auth.at = "off" /\ (t.elig # NoElig => st = NoRecord \/ st.pair = t.draft)
                \/ st = NoRecord /\ t.elig = NoElig
    /\ t.due => t.owner \notin {"auth", "check", "resume"} /\ t.search.at = "off"
    /\ t.config = NoConfig =>
          t.elig = NoElig /\ t.auth.at = "off" /\ t.search.at = "off" /\ t.owner = "none" /\ ~t.due
    /\ t.search.at # "off" =>
          t.auth.at = "off" /\ t.flow = "discovering" /\ t.elig = NoElig /\ t.owner = "none" /\ ~t.connecting
    /\ t.owner \in {"check", "resume"} => t.auth.at = "off" /\ t.draft # NoPair
    /\ t.owner = "check" => t.elig = NoElig
    /\ t.auth.at # "off" => t.auth.pair \in Pairs /\ t.auth.config \in Configs

\* What keeps a submission s from being signed for again: it is under way; or
\* its record is, and locks the pair; or the page was opened and has not read
\* its record yet.
Kind(s) == {[pair |-> s.pair, campaign |-> s.campaign, created |-> s.at, pending |-> p] : p \in BOOLEAN}
UnderWay(t, st, s) ==
    /\ t.auth.at = "release" /\ t.auth.pair = s.pair /\ t.draft = s.pair /\ ~t.due /\ t.owner \in {"auth", "none"}
    /\ t.config \in Configs /\ t.config.campaign = s.campaign /\ t.config.mode = "write" /\ t.started = s.at
    /\ st \in Kind(s) \cup {NoRecord}
Reconciled(t, st, s) ==
    /\ t.auth.at = "off" /\ st \in Kind(s) /\ t.draft = s.pair /\ ~t.due /\ t.owner \in {"none", "check", "resume"}
    /\ t.config \in Configs /\ t.config.campaign = s.campaign /\ t.config.mode = "write" /\ t.started \in {None, s.at}
    /\ t.flow \in StatusFlows \/ t.elig = NoElig
Unread(t, st, s) ==
    /\ t.auth.at = "off" /\ t.draft = NoPair /\ t.elig = NoElig /\ t.owner = "none" /\ ~t.checked
    /\ st \in Kind(s) \cup {NoRecord}
Locks(t, st, s) == s.lifted \/ UnderWay(t, st, s) \/ Reconciled(t, st, s) \/ Unread(t, st, s)

Timely == \A s \in unresolved : s.at <= now /\ now < s.at + TTL
Locked == \A s \in unresolved : Locks(tab, stored, s)

DeskInv == DeskTypes /\ Tidy(tab, stored) /\ Timely /\ Locked

\* No step but two takes an authorization to its signature or its release.
Steady == tab'.auth.at \in {"sign", "release"} => tab'.auth.at = tab.auth.at

-----------------------------------------------------------------------------
(* What the parts of a step write *)

LEMMA BlankTypes ==
    /\ NoRecord \in Records /\ NoElig \in Eligs /\ Idle \in Prompts /\ AuthOff \in Auths
    /\ Idle.at = "off" /\ AuthOff.at = "off" /\ AuthOff.wallet = FALSE /\ NoRecord.pair = NoPair
    /\ NoElig.pair = NoPair /\ NoElig.status = "none"
<1>1. NoRecord \in Records /\ NoRecord.pair = NoPair
  BY DEF NoRecord, Records, None
<1>2. NoElig \in Eligs /\ NoElig.pair = NoPair /\ NoElig.status = "none"
  BY DEF NoElig, Eligs
<1>3. Idle \in Prompts /\ Idle.at = "off"
  BY DEF Idle, Prompts
<1>4. AuthOff \in Auths /\ AuthOff.at = "off" /\ AuthOff.wallet = FALSE
  BY DEF AuthOff, Auths, Stages
<1> QED
  BY <1>1, <1>2, <1>3, <1>4

LEMMA NoneType == None \in Int
BY DEF None

LEMMA StatusFlow ==
    ASSUME DeskTypes, NEW p \in Pairs
    PROVE  /\ Status(p) \in {"claimed", "processing", "closed", "eligible"}
           /\ Verdict(p) \in Eligs /\ Verdict(p) # NoElig /\ Verdict(p).pair = p /\ Verdict(p).status = Status(p)
           /\ Status(p) # "eligible" => FlowOf(Status(p)) \in {"already-claimed", "release-processing", "campaign-closed"}
           /\ Status(p) = "processing" => FlowOf(Status(p)) = "release-processing"
<1>1. service.campaign \in Campaigns
  BY DEF DeskTypes, Campaigns
<1>2. served[<<service.campaign, p>>] \in Outcomes
  BY <1>1 DEF DeskTypes
<1>3. Status(p) \in {"claimed", "processing", "closed", "eligible"}
  BY <1>2 DEF Status, Outcomes
<1>4. Verdict(p) \in Eligs /\ Verdict(p).pair = p /\ Verdict(p).status = Status(p)
  BY <1>1, <1>3 DEF Verdict, Eligs
<1>5. Verdict(p) # NoElig
  BY <1>4, BlankTypes, PairsAssumption
<1> QED
  BY <1>3, <1>4, <1>5 DEF FlowOf

LEMMA FlowTypes ==
    ASSUME NEW t, NEW p, NEW c
    PROVE  InspectionFlow(t, p) \in {"wrong-wallet", "qualifying"}
           /\ InterruptionFlow(c) \in {"service-unavailable", "campaign-closed", "campaign-changed"}
BY DEF InspectionFlow, InterruptionFlow

\* applyRecoveryConfig
LEMMA AppliedFields ==
    ASSUME NEW t \in Tabs, NEW c \in Configs, NEW u, u = Applied(t, c)
    PROVE  /\ u \in Tabs /\ u.config = c /\ u.account = t.account /\ u.draft = t.draft
           /\ u.connecting = t.connecting /\ u.auth.at = t.auth.at /\ u.auth.pair = t.auth.pair
           /\ u.auth.config = t.auth.config
           /\ Changes(t, c) =>
                 /\ u.owner = "none" /\ u.search = Idle /\ u.elig = NoElig /\ u.started = None /\ ~u.checked /\ u.due
                 /\ ~u.auth.wallet /\ t.config # NoConfig
           /\ ~Changes(t, c) =>
                 /\ u.owner = t.owner /\ u.search = t.search /\ u.elig = t.elig /\ u.started = t.started
                 /\ u.checked = t.checked /\ u.due = (t.due \/ t.config = NoConfig) /\ u.auth = t.auth
                 /\ u.flow = t.flow
                 /\ t.config # NoConfig => t.config.campaign = c.campaign /\ t.config.mode = c.mode
<1>1. CASE Changes(t, c)
  <2>1. PICK f \in FlowNames : f = IF t.draft = NoPair THEN "empty" ELSE "campaign-changed"
    BY DEF FlowNames
  <2>2. PICK a \in Auths : a = [t.auth EXCEPT !.wallet = FALSE]
    BY DEF Tabs, Auths
  <2>3. u = [t EXCEPT !.config = c, !.owner = "none", !.auth = a, !.search = Idle, !.elig = NoElig,
                      !.started = None, !.checked = FALSE, !.due = TRUE, !.flow = f]
    BY <1>1, <2>1, <2>2 DEF Applied
  <2>4. PICK i \in Prompts, e \in Eligs, k \in Int : i = Idle /\ e = NoElig /\ k = None
    BY BlankTypes DEF None
  <2>5. u \in Tabs
    <3>1. u = [t EXCEPT !.config = c, !.owner = "none", !.auth = a, !.search = i, !.elig = e,
                        !.started = k, !.checked = FALSE, !.due = TRUE, !.flow = f]
      BY <2>3, <2>4
    <3>2. t \in Tabs /\ "none" \in Owners
      BY DEF Owners
    <3> QED
      BY <3>1, <3>2 DEF Tabs
  <2>6. a.at = t.auth.at /\ a.pair = t.auth.pair /\ a.config = t.auth.config /\ a.wallet = FALSE
    BY <2>2 DEF Tabs, Auths
  <2> QED
    BY <1>1, <2>3, <2>5, <2>6 DEF Tabs, Changes
<1>2. CASE ~Changes(t, c)
  <2>1. u = [t EXCEPT !.config = c, !.due = t.due \/ t.config = NoConfig]
    BY <1>2 DEF Applied
  <2>2. PICK d \in BOOLEAN : d = (t.due \/ t.config = NoConfig)
    OBVIOUS
  <2>3. u \in Tabs
    BY <2>1, <2>2 DEF Tabs
  <2> QED
    BY <1>2, <2>1, <2>3 DEF Tabs, Changes, SameCampaign
<1> QED
  BY <1>1, <1>2

\* refreshConfig
LEMMA RefreshedFields ==
    ASSUME NEW t \in Tabs, service \in Configs, NEW u, u = Refreshed(t)
    PROVE  /\ u \in Tabs /\ u.config = service /\ u.account = t.account /\ u.draft = t.draft
           /\ u.connecting = t.connecting /\ u.auth.at = t.auth.at /\ u.auth.pair = t.auth.pair
           /\ u.auth.config = t.auth.config /\ u.due
           /\ Changes(t, service) =>
                 /\ u.owner = "none" /\ u.search = Idle /\ u.elig = NoElig /\ u.started = None /\ ~u.checked
           /\ ~Changes(t, service) =>
                 /\ u.owner = (IF t.owner = "resume" THEN "none" ELSE t.owner)
                 /\ u.search = t.search /\ u.elig = t.elig /\ u.started = t.started
                 /\ u.checked = t.checked /\ u.auth = t.auth /\ u.flow = t.flow
<1>1. PICK v : v = Applied(t, service)
  OBVIOUS
<1>2. u = [v EXCEPT !.due = TRUE, !.owner = IF v.owner = "resume" THEN "none" ELSE v.owner]
  BY <1>1 DEF Refreshed
<1>3. v \in Tabs
  BY <1>1, AppliedFields
<1>4. PICK o \in Owners : o = IF v.owner = "resume" THEN "none" ELSE v.owner
  BY <1>3 DEF Tabs, Owners
<1>5. u \in Tabs /\ u.owner = o /\ u.due = TRUE
      /\ u.config = v.config /\ u.account = v.account /\ u.draft = v.draft /\ u.elig = v.elig /\ u.flow = v.flow
      /\ u.started = v.started /\ u.checked = v.checked /\ u.connecting = v.connecting /\ u.search = v.search
      /\ u.auth = v.auth
  BY <1>2, <1>3, <1>4 DEF Tabs
<1> QED
  BY <1>1, <1>4, <1>5, AppliedFields

\* authorizeAndRelease's finally block
LEMMA EndedFields ==
    ASSUME NEW t \in Tabs, NEW u, u = Ended(t)
    PROVE  /\ u \in Tabs /\ u.auth = AuthOff
           /\ u.config = t.config /\ u.account = t.account /\ u.draft = t.draft /\ u.elig = t.elig
           /\ u.started = t.started /\ u.due = t.due /\ u.checked = t.checked /\ u.connecting = t.connecting
           /\ u.search = t.search
           /\ u.owner = (IF t.owner = "auth" THEN "none" ELSE t.owner)
           /\ t.flow # "account-changed" => u.flow = t.flow
<1>1. PICK o \in Owners : o = IF t.owner = "auth" THEN "none" ELSE t.owner
  BY DEF Tabs, Owners
<1>2. PICK f \in FlowNames : f = IF t.flow # "account-changed" THEN t.flow
                              ELSE IF t.account \in {NoWallet, WalletOf(t.auth.pair)} THEN "qualifying" ELSE "wrong-wallet"
  BY DEF Tabs, FlowNames
<1>3. PICK a \in Auths : a = AuthOff
  BY BlankTypes
<1>4. u = [t EXCEPT !.auth = a, !.owner = o, !.flow = f]
  BY <1>1, <1>2, <1>3 DEF Ended
<1>5. u \in Tabs
  BY <1>4 DEF Tabs
<1> QED
  BY <1>1, <1>2, <1>3, <1>4, <1>5 DEF Tabs

\* updateConnectedAccount: another account on the page t.
Moved(t, next, u) ==
    /\ u \in Tabs /\ u.account = next
    /\ u.config = t.config /\ u.draft = t.draft /\ u.elig = t.elig /\ u.owner = t.owner
    /\ u.started = t.started /\ u.due = t.due /\ u.checked = t.checked /\ u.connecting = t.connecting
    /\ u.auth.at = t.auth.at /\ u.auth.pair = t.auth.pair /\ u.auth.config = t.auth.config
    /\ u.auth.wallet => t.auth.wallet /\ next = t.account
    /\ u.search = t.search \/ u.search = Idle
    /\ t.search.at = "prompt" => u.search = t.search
    /\ t.elig = NoElig /\ u.search.at # "off" => u.flow = t.flow
    /\ t.flow \in StatusFlows => u.flow = t.flow

LEMMA WithAccountFields ==
    ASSUME NEW t \in Tabs, NEW next \in Wallets \cup {NoWallet}, NEW external \in BOOLEAN
    PROVE  Moved(t, next, WithAccount(t, next, external))
<1> PICK u : u = WithAccount(t, next, external)
  OBVIOUS
<1> SUFFICES Moved(t, next, u)
  OBVIOUS
<1>1. CASE next = t.account
  BY <1>1 DEF WithAccount, Moved, Tabs, Auths
<1>2. CASE next # t.account
  <2>1. AccountFlow(t, next, external) \in FlowNames
    BY FlowTypes DEF AccountFlow, Tabs, FlowNames
  <2>2. PICK f \in FlowNames : f = IF external /\ Searching(t) /\ t.flow = "discovering" THEN "empty"
                                   ELSE AccountFlow(t, next, external)
    BY <2>1 DEF FlowNames
  <2>3. PICK a \in Auths : a = [t.auth EXCEPT !.wallet = FALSE]
    BY DEF Tabs, Auths
  <2>4. PICK i \in Prompts : i = IF Searching(t) THEN Idle ELSE t.search
    BY BlankTypes DEF Tabs
  <2>5. u = [t EXCEPT !.account = next, !.auth = a, !.search = i, !.flow = f]
    BY <1>2, <2>2, <2>3, <2>4 DEF WithAccount
  <2>6. u \in Tabs
    BY <2>5 DEF Tabs
  <2>7. a.at = t.auth.at /\ a.pair = t.auth.pair /\ a.config = t.auth.config /\ a.wallet = FALSE
    BY <2>3 DEF Tabs, Auths
  <2>8. /\ u.account = next /\ u.auth = a /\ u.search = i /\ u.flow = f
        /\ u.config = t.config /\ u.draft = t.draft /\ u.elig = t.elig /\ u.owner = t.owner
        /\ u.started = t.started /\ u.due = t.due /\ u.checked = t.checked /\ u.connecting = t.connecting
    BY <2>5, <2>6 DEF Tabs
  <2>9. t.elig = NoElig /\ i.at # "off" => f = t.flow
    <3>1. ASSUME t.elig = NoElig, i.at # "off" PROVE f = t.flow
      <4>1. ~Searching(t) /\ ~Eligible(t)
        BY <2>4, <3>1, BlankTypes DEF Eligible
      <4>2. AccountFlow(t, next, external) = t.flow
        BY <4>1 DEF AccountFlow
      <4> QED
        BY <2>2, <4>1, <4>2
    <3> QED
      BY <3>1
  <2>10. t.flow \in StatusFlows => f = t.flow
    <3>1. ASSUME t.flow \in StatusFlows PROVE f = t.flow
      <4>1. AccountFlow(t, next, external) = t.flow /\ t.flow # "discovering"
        BY <3>1 DEF AccountFlow, StatusFlows
      <4> QED
        BY <2>2, <4>1
    <3> QED
      BY <3>1
  <2>11. t.search.at = "prompt" => i = t.search
    BY <2>4 DEF Searching
  <2> QED
    BY <2>4, <2>6, <2>7, <2>8, <2>9, <2>10, <2>11 DEF Moved
<1> QED
  BY <1>1, <1>2

\* persistSubmittedRecovery
LEMMA PersistedRecords ==
    ASSUME DeskTypes, NEW t \in Tabs, NEW p \in Pairs \cup {NoPair}, NEW b \in BOOLEAN
    PROVE  /\ Persisted(t, p, b) \in Records
           /\ t.config # NoConfig /\ t.config.mode = "write" =>
                 Persisted(t, p, b) = NoRecord \/ Persisted(t, p, b).pair = p
           /\ t.config = NoConfig \/ t.config.mode # "write" => Persisted(t, p, b) = stored
<1>1. stored \in Records /\ now \in Nat /\ NoRecord \in Records
  BY BlankTypes DEF DeskTypes
<1>2. CASE t.config = NoConfig \/ t.config.mode # "write"
  BY <1>1, <1>2 DEF Persisted
<1>3. CASE t.config # NoConfig /\ t.config.mode = "write"
  <2>1. t.config.campaign \in Campaigns \cup {None} /\ t.started \in Int
    BY <1>3 DEF Tabs, Campaigns
  <2>2. PICK previous \in Records :
            previous = IF Live(stored) /\ Matches(stored, t.config.campaign, p) THEN stored ELSE NoRecord
    BY <1>1
  <2>3. PICK created \in Int :
            created = IF previous # NoRecord THEN previous.created ELSE IF t.started # None THEN t.started ELSE now
    BY <1>1, <2>1, <2>2 DEF Records
  <2>4. PICK r : r = [pair |-> p, campaign |-> t.config.campaign, created |-> created, pending |-> b]
    OBVIOUS
  <2>5. r \in Records /\ r.pair = p
    BY <2>1, <2>3, <2>4 DEF Records
  <2>6. Persisted(t, p, b) \in {r, NoRecord}
    BY <1>3, <2>2, <2>3, <2>4 DEF Persisted, Saved
  <2> QED
    BY <1>1, <1>3, <2>5, <2>6
<1> QED
  BY <1>2, <1>3

LEMMA KindFields ==
    ASSUME NEW s \in Submissions, NEW r \in Kind(s)
    PROVE  r.pair = s.pair /\ r.campaign = s.campaign /\ r.created = s.at /\ r # NoRecord /\ s.at # None
<1>1. r.pair = s.pair /\ r.campaign = s.campaign /\ r.created = s.at
  BY DEF Kind
<1>2. r # NoRecord
  BY <1>1, BlankTypes, PairsAssumption DEF Submissions
<1>3. s.at # None
  BY DEF Submissions, None
<1> QED
  BY <1>1, <1>2, <1>3

\* A submission is written down as long as its window is open.
LEMMA PersistedKind ==
    ASSUME DeskTypes, NEW t \in Tabs, NEW s \in Submissions, NEW b \in BOOLEAN, s.at <= now, now < s.at + TTL,
           t.config \in Configs, t.config.mode = "write", t.config.campaign = s.campaign,
           t.started \in {None, s.at}, stored \in Kind(s) \/ (stored = NoRecord /\ t.started = s.at)
    PROVE  Persisted(t, s.pair, b) \in Kind(s)
<1>1. s.at \in Nat /\ now \in Nat /\ TTL \in Nat /\ s.at # None
  BY BoundsAssumption DEF DeskTypes, Submissions, None
<1>2. t.config # NoConfig
  BY ConfigsAssumption
<1>3. PICK r : r = [pair |-> s.pair, campaign |-> s.campaign, created |-> s.at, pending |-> b]
  OBVIOUS
<1>4. r \in Kind(s)
  BY <1>3 DEF Kind
<1>5. CASE stored \in Kind(s)
  <2>1. stored.pair = s.pair /\ stored.campaign = s.campaign /\ stored.created = s.at /\ stored # NoRecord
    BY <1>5, KindFields
  <2>2. Live(stored) /\ Matches(stored, t.config.campaign, s.pair)
    BY <1>1, <2>1 DEF Live, Matches
  <2>3. Persisted(t, s.pair, b) = r
    BY <1>1, <1>2, <1>3, <2>1, <2>2 DEF Persisted, Saved
  <2> QED
    BY <1>4, <2>3
<1>6. CASE stored = NoRecord /\ t.started = s.at
  <2>1. Persisted(t, s.pair, b) = r
    BY <1>1, <1>2, <1>3, <1>6 DEF Persisted, Saved, Live
  <2> QED
    BY <1>4, <2>1
<1> QED
  BY <1>5, <1>6

\* What is submitted now is written down as of now, or nothing is.
LEMMA FreshlyPersisted ==
    ASSUME DeskTypes, NEW t \in Tabs, NEW s \in Submissions, NEW b \in BOOLEAN, s.at = now, t.started = now,
           t.config \in Configs, t.config.mode = "write", t.config.campaign = s.campaign
    PROVE  Persisted(t, s.pair, b) \in Kind(s) \cup {NoRecord}
<1>1. s.at \in Nat /\ now \in Nat /\ s.at # None /\ t.config # NoConfig
  BY ConfigsAssumption DEF DeskTypes, Submissions, None
<1>2. PICK previous : previous = IF Live(stored) /\ Matches(stored, t.config.campaign, s.pair) THEN stored ELSE NoRecord
  OBVIOUS
<1>3. PICK r : r = [pair |-> s.pair, campaign |-> s.campaign, created |-> s.at, pending |-> b]
  OBVIOUS
<1>4. r \in Kind(s)
  BY <1>3 DEF Kind
<1>5. CASE previous # NoRecord /\ previous.created # now
  BY <1>1, <1>2, <1>5 DEF Persisted, Saved
<1>6. CASE previous = NoRecord \/ previous.created = now
  BY <1>1, <1>2, <1>3, <1>4, <1>6 DEF Persisted, Saved
<1> QED
  BY <1>5, <1>6

\* loadRecoveryResumeState
LEMMA KeptFields ==
    ASSUME NEW c, NEW ps
    PROVE  /\ Kept(c, ps) = stored \/ Kept(c, ps) = NoRecord
           /\ Kept(c, ps) # NoRecord => Kept(c, ps) = stored /\ stored.pair \in ps /\ stored.campaign = c
BY DEF Kept

LEMMA KeptKind ==
    ASSUME NEW s \in Submissions, s.at <= now, now < s.at + TTL, now \in Nat, NEW c, NEW ps
    PROVE  stored \in Kind(s) /\ c = s.campaign /\ s.pair \in ps => Kept(c, ps) = stored
<1>1. TTL \in Nat /\ s.at \in Nat
  BY BoundsAssumption DEF Submissions
<1>2. ASSUME stored \in Kind(s), c = s.campaign, s.pair \in ps PROVE Kept(c, ps) = stored
  <2>1. stored.pair = s.pair /\ stored.campaign = s.campaign /\ stored.created = s.at /\ stored # NoRecord
    BY <1>2, KindFields
  <2> QED
    BY <1>1, <1>2, <2>1 DEF Kept, Live
<1> QED
  BY <1>2 DEF Kept

-----------------------------------------------------------------------------
(* Every step *)

LEMMA InitDeskInv == Init => DeskInv
<1> SUFFICES ASSUME Init PROVE DeskInv
  OBVIOUS
<1>1. PICK i \in Prompts, e \in Eligs, a \in Auths : i = Idle /\ e = NoElig /\ a = AuthOff
  BY BlankTypes
<1>2. tab = [config |-> NoConfig, account |-> NoWallet, draft |-> NoPair, elig |-> e, flow |-> "empty",
             owner |-> "none", started |-> None, due |-> FALSE, checked |-> FALSE, connecting |-> FALSE, search |-> i,
             auth |-> a]
  BY <1>1 DEF Init, Page
<1>3. tab \in Tabs
  BY <1>2 DEF Tabs, FlowNames, Owners, None
<1>4. now \in Nat /\ service \in Configs /\ stored \in Records /\ unresolved = {}
  BY BlankTypes DEF Init
<1>5. served \in [Campaigns \X Pairs -> Outcomes]
  BY DEF Init, Outcomes
<1>6. Tidy(tab, stored)
  BY <1>1, <1>2, BlankTypes DEF Tidy
<1> QED
  BY <1>3, <1>4, <1>5, <1>6 DEF DeskInv, DeskTypes, Timely, Locked

\* Another campaign ends what the page was about.
LEMMA PollKeeps == ASSUME DeskInv, Poll PROVE DeskInv' /\ Steady
<1>1. tab \in Tabs /\ service \in Configs /\ DeskTypes
  BY DEF DeskInv, DeskTypes
<1>2. /\ tab' = Applied(tab, service) /\ stored' = StoredAfter(tab, service) /\ unresolved' = Forgets(tab, service)
      /\ UNCHANGED <<now, service, served, posted, spent>>
  BY DEF Poll, PageKeeps
<1>3. CASE Changes(tab, service)
  <2>1. stored' = NoRecord /\ unresolved' = {}
    BY <1>2, <1>3 DEF StoredAfter, Forgets
  <2>2. /\ tab' \in Tabs /\ tab'.config = service /\ tab'.auth.at = tab.auth.at /\ tab'.auth.pair = tab.auth.pair
        /\ tab'.auth.config = tab.auth.config
        /\ tab'.owner = "none" /\ tab'.search = Idle /\ tab'.elig = NoElig
    BY <1>1, <1>2, <1>3, AppliedFields
  <2>3. Tidy(tab', stored')
    BY <2>1, <2>2, <1>1, BlankTypes, ConfigsAssumption DEF DeskInv, Tidy
  <2>4. DeskTypes'
    BY <1>1, <1>2, <2>1, <2>2, BlankTypes DEF DeskTypes
  <2> QED
    BY <2>1, <2>2, <2>3, <2>4 DEF DeskInv, Timely, Locked, Steady
<1>4. CASE ~Changes(tab, service)
  <2>1. stored' = stored /\ unresolved' = unresolved
    BY <1>2, <1>4 DEF StoredAfter, Forgets
  <2>2. /\ tab' \in Tabs /\ tab'.config = service /\ tab'.account = tab.account /\ tab'.draft = tab.draft
        /\ tab'.connecting = tab.connecting /\ tab'.auth = tab.auth
        /\ tab'.owner = tab.owner /\ tab'.search = tab.search /\ tab'.elig = tab.elig /\ tab'.started = tab.started
        /\ tab'.checked = tab.checked /\ tab'.due = (tab.due \/ tab.config = NoConfig) /\ tab'.flow = tab.flow
        /\ tab.config # NoConfig => tab.config.campaign = service.campaign /\ tab.config.mode = service.mode
    BY <1>1, <1>2, <1>4, AppliedFields
  <2>3. Tidy(tab', stored')
    BY <2>1, <2>2, <1>1, ConfigsAssumption DEF DeskInv, Tidy
  <2>4. DeskTypes'
    BY <1>1, <1>2, <2>1, <2>2 DEF DeskTypes
  <2>5. Timely'
    BY <1>2, <2>1 DEF DeskInv, Timely
  <2>6. ASSUME NEW s \in unresolved, Locks(tab, stored, s) PROVE Locks(tab', stored', s)
    BY <1>1, <2>1, <2>2, <2>6, ConfigsAssumption DEF Locks, UnderWay, Reconciled, Unread
  <2> QED
    BY <2>1, <2>2, <2>3, <2>4, <2>5, <2>6 DEF DeskInv, Locked, Steady
<1> QED
  BY <1>3, <1>4

LEMMA ResumeEffectKeeps == ASSUME DeskInv, ResumeEffect PROVE DeskInv' /\ Steady
<1> DEFINE record == Kept(tab.config.campaign, Pairs)
<1>1. /\ tab \in Tabs /\ stored \in Records /\ DeskTypes /\ Tidy(tab, stored) /\ tab.due /\ unresolved' = unresolved
      /\ UNCHANGED <<now, service, served>>
  BY DEF DeskInv, DeskTypes, ResumeEffect, PageKeeps
<1>2. tab.config \in Configs
  BY <1>1 DEF Tidy, Tabs
<1>3. /\ record = stored \/ record = NoRecord
      /\ record # NoRecord => record = stored /\ record.pair \in Pairs /\ record.campaign = tab.config.campaign
  BY KeptFields
<1>4. Timely'
  BY <1>1 DEF DeskInv, Timely
<1>5. CASE tab.config.mode # "write" \/ record = NoRecord
  <2>1. tab' = [tab EXCEPT !.due = FALSE] /\ stored' \in {stored, NoRecord}
    BY <1>3, <1>5 DEF ResumeEffect
  <2>2. /\ tab' \in Tabs /\ ~tab'.due /\ tab'.config = tab.config /\ tab'.account = tab.account
        /\ tab'.draft = tab.draft /\ tab'.elig = tab.elig /\ tab'.flow = tab.flow /\ tab'.owner = tab.owner
        /\ tab'.checked = tab.checked /\ tab'.connecting = tab.connecting /\ tab'.search = tab.search
        /\ tab'.auth = tab.auth
    BY <1>1, <2>1 DEF Tabs
  <2>3. Tidy(tab', stored')
    BY <1>1, <2>2 DEF Tidy
  <2>4. DeskTypes'
    BY <1>1, <2>1, <2>2, BlankTypes DEF DeskTypes
  <2>5. ASSUME NEW s \in unresolved, Locks(tab, stored, s) PROVE Locks(tab', stored', s)
    BY <1>1, <2>1, <2>2, <2>5 DEF Locks, UnderWay, Reconciled, Unread
  <2> QED
    BY <1>1, <1>4, <2>2, <2>3, <2>4, <2>5 DEF DeskInv, Locked, Steady
<1>6. CASE tab.config.mode = "write" /\ record # NoRecord /\ tab.checked
  <2>1. tab' = [tab EXCEPT !.due = FALSE, !.started = stored.created] /\ stored' = stored
    BY <1>3, <1>6 DEF ResumeEffect
  <2>2. /\ tab' \in Tabs /\ ~tab'.due /\ tab'.config = tab.config /\ tab'.account = tab.account
        /\ tab'.draft = tab.draft /\ tab'.elig = tab.elig /\ tab'.flow = tab.flow /\ tab'.owner = tab.owner
        /\ tab'.checked = tab.checked /\ tab'.connecting = tab.connecting /\ tab'.search = tab.search
        /\ tab'.auth = tab.auth
    BY <1>1, <2>1 DEF Tabs, Records
  <2>3. Tidy(tab', stored')
    BY <1>1, <2>2 DEF Tidy
  <2>4. DeskTypes'
    BY <1>1, <2>1, <2>2 DEF DeskTypes
  <2>5. ASSUME NEW s \in unresolved, Locks(tab, stored, s) PROVE Locks(tab', stored', s)
    BY <1>1, <1>6, <2>5 DEF Locks, UnderWay, Reconciled, Unread
  <2> QED
    BY <1>1, <1>4, <2>2, <2>3, <2>4, <2>5 DEF DeskInv, Locked, Steady
<1>7. CASE tab.config.mode = "write" /\ record # NoRecord /\ ~tab.checked
  <2>1. /\ tab' = [tab EXCEPT !.due = FALSE, !.checked = TRUE, !.draft = stored.pair, !.owner = "resume",
                             !.started = stored.created, !.flow = "release-uncertain"]
        /\ stored' = stored
    BY <1>3, <1>7 DEF ResumeEffect
  <2>2. stored.pair \in Pairs /\ stored.campaign = tab.config.campaign /\ stored # NoRecord /\ stored.pair # NoPair
    BY <1>3, <1>7, PairsAssumption
  <2>3. /\ tab' \in Tabs /\ ~tab'.due /\ tab'.config = tab.config /\ tab'.account = tab.account
        /\ tab'.draft = stored.pair /\ tab'.elig = tab.elig /\ tab'.flow = "release-uncertain"
        /\ tab'.owner = "resume" /\ tab'.started = stored.created
        /\ tab'.connecting = tab.connecting /\ tab'.search = tab.search /\ tab'.auth = tab.auth
    BY <1>1, <2>1, <2>2 DEF Tabs, Records, FlowNames, Owners
  <2>4. tab.auth.at = "off" /\ tab.search.at = "off" /\ (tab.elig # NoElig => tab.draft = stored.pair)
    BY <1>1, <2>2 DEF Tidy
  <2>5. Tidy(tab', stored')
    BY <1>1, <1>2, <2>2, <2>3, <2>4, ConfigsAssumption DEF Tidy
  <2>6. DeskTypes'
    BY <1>1, <2>1, <2>3 DEF DeskTypes
  <2>7. ASSUME NEW s \in unresolved, Locks(tab, stored, s) PROVE Locks(tab', stored', s)
    <3>1. CASE s.lifted
      BY <3>1 DEF Locks
    <3>2. CASE ~s.lifted
      <4>1. stored \in Kind(s)
        BY <1>1, <2>2, <2>7, <3>2 DEF Locks, UnderWay, Reconciled, Unread
      <4>2. s.pair = stored.pair /\ s.campaign = stored.campaign /\ s.at = stored.created
        BY <1>1, <4>1, KindFields DEF DeskTypes
      <4>3. Reconciled(tab', stored', s)
        BY <1>2, <1>7, <2>1, <2>2, <2>3, <2>4, <4>1, <4>2 DEF Reconciled, StatusFlows
      <4> QED
        BY <4>3 DEF Locks
    <3> QED
      BY <3>1, <3>2
  <2> QED
    BY <1>1, <1>4, <2>3, <2>4, <2>5, <2>6, <2>7 DEF DeskInv, Locked, Steady
<1> QED
  BY <1>5, <1>6, <1>7

LEMMA ResumeAnswerKeeps == ASSUME DeskInv, ResumeAnswer PROVE DeskInv' /\ Steady
<1> DEFINE pair == tab.draft
           record == Kept(tab.config.campaign, {pair})
<1>1. /\ tab \in Tabs /\ stored \in Records /\ DeskTypes /\ Tidy(tab, stored) /\ tab.owner = "resume"
      /\ UNCHANGED <<now, service, served>>
      /\ unresolved' = IF tab'.elig.status \in {"claimed", "closed"} THEN {} ELSE unresolved
  BY DEF DeskInv, DeskTypes, ResumeAnswer, PageKeeps
<1>2. tab.config \in Configs /\ tab.auth.at = "off" /\ pair \in Pairs /\ ~tab.due /\ tab.search.at = "off" /\ pair # NoPair
  BY <1>1 DEF Tidy, Tabs
<1>3. /\ Status(pair) \in {"claimed", "processing", "closed", "eligible"}
      /\ Verdict(pair) \in Eligs /\ Verdict(pair) # NoElig /\ Verdict(pair).pair = pair
      /\ Verdict(pair).status = Status(pair)
      /\ Status(pair) # "eligible" => FlowOf(Status(pair)) \in {"already-claimed", "release-processing", "campaign-closed"}
      /\ Status(pair) = "processing" => FlowOf(Status(pair)) = "release-processing"
  BY <1>1, <1>2, StatusFlow
<1>4. Timely'
  BY <1>1 DEF DeskInv, Timely
<1>5. ASSUME NEW s \in unresolved PROVE s.lifted \/ (Reconciled(tab, stored, s) /\ record = stored /\ record # NoRecord)
  <2>1. s \in Submissions /\ s.at <= now /\ now < s.at + TTL /\ now \in Nat
    BY <1>1 DEF DeskTypes, DeskInv, Timely
  <2>2. s.lifted \/ Reconciled(tab, stored, s)
    BY <1>1 DEF DeskInv, Locked, Locks, UnderWay, Unread
  <2>3. ASSUME Reconciled(tab, stored, s) PROVE record = stored /\ record # NoRecord
    <3>1. stored \in Kind(s) /\ tab.config.campaign = s.campaign /\ s.pair = pair
      BY <2>3 DEF Reconciled
    <3> QED
      BY <2>1, <3>1, KeptKind, KindFields
  <2> QED
    BY <2>2, <2>3
<1>6. CASE record = NoRecord
  <2>1. PICK e \in Eligs : e = NoElig
    BY BlankTypes
  <2>2. /\ tab' = [tab EXCEPT !.owner = "none", !.elig = e, !.flow = "pair-changed", !.checked = FALSE, !.started = None]
        /\ stored' = NoRecord
    BY <1>6, <2>1 DEF ResumeAnswer
  <2> USE NoneType
  <2>3. /\ tab' \in Tabs /\ ~tab'.due /\ tab'.config = tab.config /\ tab'.draft = tab.draft /\ tab'.elig = NoElig
        /\ tab'.owner = "none" /\ tab'.search = tab.search /\ tab'.auth = tab.auth
    BY <1>1, <1>2, <2>1, <2>2 DEF Tabs, FlowNames, Owners
  <2>4. Tidy(tab', stored')
    BY <1>2, <2>3, ConfigsAssumption DEF Tidy
  <2>5. \A s \in unresolved : s.lifted
    BY <1>5, <1>6
  <2>6. DeskTypes'
    BY <1>1, <2>2, <2>3, BlankTypes DEF DeskTypes
  <2> QED
    BY <1>1, <1>2, <1>4, <2>3, <2>4, <2>5, <2>6 DEF DeskInv, Locked, Locks, Steady
<1>7. CASE record # NoRecord /\ Status(pair) = "closed"
  <2>1. PICK e \in Eligs : e = Verdict(pair)
    BY <1>3
  <2>2. /\ tab' = [[tab EXCEPT !.owner = "none", !.elig = e, !.checked = FALSE]
                       EXCEPT !.flow = "campaign-closed", !.started = None]
        /\ stored' = NoRecord
    BY <1>7, <2>1 DEF ResumeAnswer
  <2> USE NoneType
  <2>3. /\ tab' \in Tabs /\ ~tab'.due /\ tab'.config = tab.config /\ tab'.draft = tab.draft /\ tab'.elig = e
        /\ tab'.owner = "none" /\ tab'.search = tab.search /\ tab'.auth = tab.auth
    BY <1>1, <1>2, <2>1, <2>2 DEF Tabs, FlowNames, Owners
  <2>4. Tidy(tab', stored')
    BY <1>2, <1>3, <2>1, <2>3, ConfigsAssumption DEF Tidy
  <2>5. unresolved' = {}
    BY <1>1, <1>3, <1>7, <2>1, <2>3
  <2>6. DeskTypes'
    BY <1>1, <2>2, <2>3, <2>5, BlankTypes DEF DeskTypes
  <2> QED
    BY <1>2, <1>4, <2>3, <2>4, <2>5, <2>6 DEF DeskInv, Locked, Steady
<1>8. CASE record # NoRecord /\ Status(pair) # "closed"
  <2>1. PICK e \in Eligs : e = Verdict(pair)
    BY <1>3
  <2>2. PICK f \in FlowNames : f = IF Status(pair) = "eligible" THEN "release-uncertain" ELSE FlowOf(Status(pair))
    BY <1>3 DEF FlowNames
  <2>3. PICK next : next = [tab EXCEPT !.owner = "none", !.elig = e, !.checked = FALSE]
    OBVIOUS
  <2>4. /\ tab' = [next EXCEPT !.flow = f]
        /\ stored' = Persisted(next, pair, Status(pair) # "claimed")
    BY <1>8, <2>1, <2>2, <2>3 DEF ResumeAnswer
  <2>5. next \in Tabs /\ next.config = tab.config /\ next.started = tab.started
    BY <1>1, <2>1, <2>3 DEF Tabs, Owners
  <2>6. /\ tab' \in Tabs /\ ~tab'.due /\ tab'.config = tab.config /\ tab'.draft = tab.draft /\ tab'.elig = e
        /\ tab'.owner = "none" /\ tab'.search = tab.search /\ tab'.auth = tab.auth /\ tab'.flow = f
        /\ tab'.started = tab.started
    <3>1. tab' = [tab EXCEPT !.owner = "none", !.elig = e, !.checked = FALSE, !.flow = f]
      BY <2>3, <2>4
    <3>2. "none" \in Owners
      BY DEF Owners
    <3> HIDE DEF Owners
    <3> QED
      BY <1>1, <1>2, <3>1, <3>2 DEF Tabs
  <2>7. Tidy(tab', stored')
    BY <1>2, <1>3, <2>1, <2>6, ConfigsAssumption DEF Tidy
  <2>8. stored' \in Records
    BY <1>1, <1>2, <2>4, <2>5, PersistedRecords
  <2>9. DeskTypes'
    BY <1>1, <2>6, <2>8 DEF DeskTypes
  <2>10. ASSUME NEW s \in unresolved', NEW b \in BOOLEAN, b = (Status(pair) # "claimed") PROVE Locks(tab', stored', s)
    <3>1. s \in unresolved /\ s \in Submissions /\ s.at <= now /\ now < s.at + TTL /\ Status(pair) # "claimed"
      BY <1>1, <1>3, <2>1, <2>6 DEF DeskTypes, DeskInv, Timely
    <3>2. CASE Reconciled(tab, stored, s)
      <4>0. /\ next.config \in Configs /\ next.config.mode = "write" /\ next.config.campaign = s.campaign
            /\ next.started \in {None, s.at} /\ stored \in Kind(s)
        BY <2>5, <3>2 DEF Reconciled
      <4>1. Persisted(next, s.pair, b) \in Kind(s)
        BY <1>1, <2>5, <2>10, <3>1, <4>0, PersistedKind
      <4>2. f \in StatusFlows
        BY <1>3, <1>8, <2>2, <3>1 DEF StatusFlows
      <4>3. Reconciled(tab', stored', s)
        BY <1>2, <2>4, <2>6, <2>10, <3>2, <4>1, <4>2 DEF Reconciled
      <4> QED
        BY <4>3 DEF Locks
    <3> QED
      BY <1>5, <3>1, <3>2 DEF Locks
  <2> QED
    BY <1>2, <1>4, <2>6, <2>7, <2>9, <2>10 DEF DeskInv, Locked, Steady
<1> QED
  BY <1>6, <1>7, <1>8

LEMMA ResumeFailsKeeps == ASSUME DeskInv, ResumeFails PROVE DeskInv' /\ Steady
<1>1. /\ tab \in Tabs /\ DeskTypes /\ Tidy(tab, stored) /\ tab.owner = "resume" /\ UNCHANGED <<now, service, served>>
      /\ UNCHANGED <<stored, unresolved>>
      /\ tab' = [tab EXCEPT !.owner = "none", !.checked = FALSE, !.flow = "release-uncertain"]
  BY DEF DeskInv, DeskTypes, ResumeFails, PageKeeps
<1>2. /\ tab' \in Tabs /\ tab'.due = tab.due /\ tab'.config = tab.config /\ tab'.account = tab.account
      /\ tab'.draft = tab.draft /\ tab'.elig = tab.elig /\ tab'.flow = "release-uncertain" /\ tab'.owner = "none"
      /\ tab'.connecting = tab.connecting /\ tab'.search = tab.search
      /\ tab'.auth = tab.auth /\ tab'.started = tab.started
  BY <1>1 DEF Tabs, FlowNames, Owners
<1>3. Tidy(tab', stored')
  BY <1>1, <1>2 DEF Tidy
<1>4. DeskTypes' /\ Timely'
  BY <1>1, <1>2 DEF DeskTypes, DeskInv, Timely
<1>5. ASSUME NEW s \in unresolved, Locks(tab, stored, s) PROVE Locks(tab', stored', s)
  BY <1>1, <1>2, <1>5 DEF Locks, UnderWay, Reconciled, Unread, StatusFlows
<1> QED
  BY <1>1, <1>2, <1>3, <1>4, <1>5 DEF DeskInv, Locked, Steady

\* Another pair: nothing of the one before is left.
LEMMA DraftedKeeps ==
    ASSUME DeskInv, NEW pair \in Pairs, NEW f \in FlowNames, tab.auth.at = "off",
           Drafted(pair, f)
    PROVE  DeskInv' /\ Steady
<1>1. PICK i \in Prompts, e \in Eligs, k \in Int : i = Idle /\ e = NoElig /\ k = None
  BY BlankTypes, NoneType
<1>2. /\ tab \in Tabs /\ DeskTypes /\ Tidy(tab, stored) /\ UNCHANGED <<now, service, served>>
      /\ stored' = NoRecord /\ unresolved' = {}
      /\ tab' = [tab EXCEPT !.draft = pair, !.owner = "none", !.search = i, !.elig = e, !.flow = f, !.started = k,
                            !.checked = FALSE]
  BY <1>1 DEF DeskInv, DeskTypes, Drafted, PageKeeps
<1>3. /\ tab' \in Tabs /\ tab'.due = tab.due /\ tab'.config = tab.config /\ tab'.elig = NoElig /\ tab'.owner = "none"
      /\ tab'.search = Idle /\ tab'.auth = tab.auth
  BY <1>1, <1>2 DEF Tabs, Owners
<1>4. Tidy(tab', stored')
  BY <1>2, <1>3, BlankTypes DEF Tidy
<1>5. DeskTypes'
  BY <1>2, <1>3, BlankTypes DEF DeskTypes
<1> QED
  BY <1>2, <1>3, <1>4, <1>5 DEF DeskInv, Timely, Locked, Steady

LEMMA ChangePairFieldKeeps == ASSUME DeskInv, NEW pair \in Pairs, ChangePairField(pair) PROVE DeskInv' /\ Steady
<1>1. PICK f \in FlowNames : f = IF tab.elig # NoElig THEN "pair-changed" ELSE "editing"
  BY DEF FlowNames
<1>2. Drafted(pair, f) /\ tab.auth.at = "off"
  BY <1>1 DEF ChangePairField, PairLocked, Busy
<1> QED
  BY <1>2, DraftedKeeps

LEMMA SharedLinkKeeps == ASSUME DeskInv, NEW pair \in Pairs, SharedLink(pair) PROVE DeskInv' /\ Steady
<1>1. PICK f \in FlowNames : f = "editing"
  BY DEF FlowNames
<1>2. Drafted(pair, f) /\ tab.auth.at = "off"
  BY <1>1 DEF SharedLink, PairLocked, Busy
<1> QED
  BY <1>2, DraftedKeeps

LEMMA CheckPairKeeps == ASSUME DeskInv, CheckPair PROVE DeskInv' /\ Steady
<1>1. PICK e \in Eligs : e = NoElig
  BY BlankTypes
<1>2. /\ tab \in Tabs /\ DeskTypes /\ Tidy(tab, stored) /\ UNCHANGED <<now, service, served, stored, unresolved>>
      /\ tab' = [tab EXCEPT !.owner = "check", !.flow = "checking", !.elig = e]
      /\ tab.draft # NoPair /\ tab.config # NoConfig /\ ~tab.due /\ tab.auth.at = "off" /\ tab.flow \notin BusyFlows
  BY <1>1 DEF DeskInv, DeskTypes, CheckPair, PageKeeps, Busy
<1>3. /\ tab' \in Tabs /\ ~tab'.due /\ tab'.config = tab.config /\ tab'.draft = tab.draft /\ tab'.elig = NoElig
      /\ tab'.owner = "check" /\ tab'.search = tab.search /\ tab'.auth = tab.auth /\ tab'.started = tab.started
  BY <1>1, <1>2 DEF Tabs, FlowNames, Owners
<1>4. tab.search.at = "off"
  BY <1>2 DEF Tidy, BusyFlows
<1>5. Tidy(tab', stored')
  BY <1>2, <1>3, <1>4 DEF Tidy
<1>6. DeskTypes' /\ Timely'
  BY <1>2, <1>3 DEF DeskTypes, DeskInv, Timely
<1>7. ASSUME NEW s \in unresolved, Locks(tab, stored, s) PROVE Locks(tab', stored', s)
  BY <1>2, <1>3, <1>7 DEF Locks, UnderWay, Reconciled, Unread
<1> QED
  BY <1>2, <1>3, <1>5, <1>6, <1>7 DEF DeskInv, Locked, Steady

LEMMA CheckFailsKeeps == ASSUME DeskInv, CheckFails PROVE DeskInv' /\ Steady
<1>2. /\ tab \in Tabs /\ DeskTypes /\ Tidy(tab, stored) /\ UNCHANGED <<now, service, served, stored, unresolved>>
      /\ tab' = [tab EXCEPT !.owner = "none", !.flow = "retryable-error"] /\ tab.owner = "check"
  BY DEF DeskInv, DeskTypes, CheckFails, PageKeeps
<1>3. /\ tab' \in Tabs /\ tab'.due = tab.due /\ tab'.config = tab.config /\ tab'.draft = tab.draft
      /\ tab'.elig = tab.elig /\ tab'.owner = "none" /\ tab'.search = tab.search /\ tab'.auth = tab.auth
      /\ tab'.started = tab.started
  BY <1>2 DEF Tabs, FlowNames, Owners
<1>5. Tidy(tab', stored')
  BY <1>2, <1>3 DEF Tidy
<1>6. DeskTypes' /\ Timely'
  BY <1>2, <1>3 DEF DeskTypes, DeskInv, Timely
<1>7. ASSUME NEW s \in unresolved, Locks(tab, stored, s) PROVE Locks(tab', stored', s)
  BY <1>2, <1>3, <1>7 DEF Locks, UnderWay, Reconciled, Unread, Tidy
<1> QED
  BY <1>2, <1>3, <1>5, <1>6, <1>7 DEF DeskInv, Locked, Steady

LEMMA CheckMismatchKeeps == ASSUME DeskInv, CheckMismatch PROVE DeskInv' /\ Steady
<1>1. /\ tab \in Tabs /\ DeskTypes /\ Tidy(tab, stored) /\ UNCHANGED <<now, service, served>> /\ service \in Configs
      /\ tab.owner = "check" /\ ~Answers(tab.config)
  BY DEF DeskInv, DeskTypes, CheckMismatch, PageKeeps
<1>2. Changes(tab, service)
  BY <1>1 DEF Tidy, Changes, SameCampaign, Answers
<1>3. PICK next : next = Refreshed(tab)
  OBVIOUS
<1>4. /\ next \in Tabs /\ next.config = service /\ next.owner = "none" /\ next.search = Idle /\ next.elig = NoElig
      /\ next.auth.at = tab.auth.at
  BY <1>1, <1>2, <1>3, RefreshedFields
<1>5. tab' = next /\ stored' = NoRecord /\ unresolved' = {}
  BY <1>2, <1>3, <1>4 DEF CheckMismatch, StoredAfter, Forgets
<1>6. Tidy(tab', stored')
  BY <1>1, <1>4, <1>5, BlankTypes, ConfigsAssumption DEF Tidy
<1>7. DeskTypes'
  BY <1>1, <1>4, <1>5, BlankTypes DEF DeskTypes
<1> QED
  BY <1>4, <1>5, <1>6, <1>7 DEF DeskInv, Timely, Locked, Steady

LEMMA CheckAnswerKeeps == ASSUME DeskInv, CheckAnswer PROVE DeskInv' /\ Steady
<1> DEFINE pair == tab.draft
           record == Kept(tab.config.campaign, {pair})
<1>1. /\ tab \in Tabs /\ stored \in Records /\ service \in Configs /\ DeskTypes /\ Tidy(tab, stored) /\ tab.owner = "check"
      /\ UNCHANGED <<now, service, served>>
      /\ unresolved' = IF tab'.elig.status \in {"claimed", "closed", "none"} THEN {} ELSE unresolved
  BY DEF DeskInv, DeskTypes, CheckAnswer, PageKeeps
<1>2. tab.config \in Configs /\ tab.auth.at = "off" /\ pair \in Pairs /\ ~tab.due /\ tab.search.at = "off" /\ pair # NoPair
  BY <1>1 DEF Tidy, Tabs
<1>3. /\ Status(pair) \in {"claimed", "processing", "closed", "eligible"}
      /\ Verdict(pair) \in Eligs /\ Verdict(pair) # NoElig /\ Verdict(pair).pair = pair
      /\ Verdict(pair).status = Status(pair)
      /\ Status(pair) # "eligible" => FlowOf(Status(pair)) \in {"already-claimed", "release-processing", "campaign-closed"}
      /\ Status(pair) = "processing" => FlowOf(Status(pair)) = "release-processing"
  BY <1>1, <1>2, StatusFlow
<1>4. Timely'
  BY <1>1 DEF DeskInv, Timely
<1>5. record = stored \/ record = NoRecord
  BY KeptFields
<1>6. PICK e \in Eligs : e = Verdict(pair)
  BY <1>3
<1>7. PICK k \in Int : k = IF record # NoRecord THEN record.created ELSE tab.started
  BY <1>1, <1>5 DEF Tabs, Records
<1>8. PICK c \in BOOLEAN : c = (tab.checked /\ ~(record # NoRecord))
  OBVIOUS
<1>9. PICK f \in FlowNames : f = IF Status(pair) # "eligible" THEN FlowOf(Status(pair))
                                 ELSE IF record # NoRecord THEN "release-uncertain" ELSE InspectionFlow(tab, pair)
  <2>1. InspectionFlow(tab, pair) \in {"wrong-wallet", "qualifying"}
    BY FlowTypes
  <2> QED
    BY <1>3, <2>1 DEF FlowNames
<1>10. PICK next : next = [tab EXCEPT !.owner = "none", !.elig = e, !.started = k, !.checked = c]
  OBVIOUS
<1>11. /\ next \in Tabs /\ next.config = tab.config /\ next.started = k /\ next.auth = tab.auth /\ next.elig = e
       /\ next.owner = "none" /\ next.draft = tab.draft /\ next.due = tab.due /\ next.search = tab.search
  BY <1>1, <1>10 DEF Tabs, Owners
<1>12. CASE Status(pair) = "closed"
  <2>1. PICK t : t = [next EXCEPT !.flow = f, !.started = None, !.checked = FALSE]
    OBVIOUS
  <2>2. tab' = Refreshed(t) /\ stored' = NoRecord
    BY <1>12, <1>6, <1>7, <1>8, <1>9, <1>10, <2>1 DEF CheckAnswer
  <2>3. /\ t \in Tabs /\ t.owner = "none" /\ t.elig = e /\ t.search = tab.search /\ t.auth = tab.auth
        /\ t.draft = tab.draft
    BY <1>11, <2>1, NoneType DEF Tabs
  <2>4. /\ tab' \in Tabs /\ tab'.config = service /\ tab'.owner = "none" /\ tab'.auth.at = tab.auth.at
        /\ tab'.due /\ tab'.draft = tab.draft
        /\ tab'.search.at = "off" /\ tab'.elig \in {e, NoElig}
    BY <1>1, <1>2, <2>2, <2>3, RefreshedFields, BlankTypes
  <2>5. Tidy(tab', stored')
    BY <1>1, <1>2, <1>3, <1>6, <2>2, <2>4, ConfigsAssumption DEF Tidy
  <2>6. unresolved' = {}
    BY <1>1, <1>3, <1>6, <1>12, <2>4, BlankTypes
  <2>7. DeskTypes'
    BY <1>1, <2>2, <2>4, <2>6, BlankTypes DEF DeskTypes
  <2> QED
    BY <1>2, <1>4, <2>4, <2>5, <2>6, <2>7 DEF DeskInv, Locked, Steady
<1>13. CASE Status(pair) # "closed"
  <2>1. /\ tab' = [next EXCEPT !.flow = f]
        /\ stored' = IF record # NoRecord THEN Persisted(next, pair, Status(pair) # "claimed") ELSE record
    BY <1>13, <1>6, <1>7, <1>8, <1>9, <1>10 DEF CheckAnswer
  <2>2. /\ tab' \in Tabs /\ ~tab'.due /\ tab'.config = tab.config /\ tab'.draft = tab.draft /\ tab'.elig = e
        /\ tab'.owner = "none" /\ tab'.search = tab.search /\ tab'.auth = tab.auth /\ tab'.flow = f
        /\ tab'.started = k
    BY <1>2, <1>11, <2>1 DEF Tabs
  <2>3. Tidy(tab', stored')
    BY <1>2, <1>3, <1>6, <2>2, ConfigsAssumption DEF Tidy
  <2>4. stored' \in Records
    BY <1>1, <1>2, <1>11, <2>1, PersistedRecords, BlankTypes
  <2>5. DeskTypes'
    BY <1>1, <2>2, <2>4 DEF DeskTypes
  <2>6. ASSUME NEW s \in unresolved', NEW b \in BOOLEAN, b = (Status(pair) # "claimed") PROVE Locks(tab', stored', s)
    <3>1. s \in unresolved /\ s \in Submissions /\ s.at <= now /\ now < s.at + TTL /\ Status(pair) # "claimed" /\ now \in Nat
      BY <1>1, <1>3, <1>6, <2>2 DEF DeskTypes, DeskInv, Timely
    <3>2. CASE Reconciled(tab, stored, s)
      <4>1. stored \in Kind(s) /\ tab.config.campaign = s.campaign /\ s.pair = pair /\ tab.config.mode = "write"
        BY <3>2 DEF Reconciled
      <4>2. record = stored /\ record # NoRecord /\ record.created = s.at
        BY <3>1, <4>1, KeptKind, KindFields
      <4>3. next.config \in Configs /\ next.config.mode = "write" /\ next.config.campaign = s.campaign /\ next.started = s.at
        BY <1>2, <1>7, <1>11, <4>1, <4>2
      <4>4. Persisted(next, s.pair, b) \in Kind(s)
        BY <1>1, <1>11, <3>1, <4>1, <4>3, PersistedKind
      <4>5. f \in StatusFlows
        BY <1>3, <1>9, <1>13, <3>1, <4>2 DEF StatusFlows
      <4>6. Reconciled(tab', stored', s)
        BY <1>2, <1>11, <2>1, <2>2, <2>6, <4>1, <4>2, <4>3, <4>4, <4>5 DEF Reconciled
      <4> QED
        BY <4>6 DEF Locks
    <3>3. CASE s.lifted
      BY <3>3 DEF Locks
    <3> QED
      BY <1>1, <3>1, <3>2, <3>3 DEF DeskInv, Locked, Locks, UnderWay, Unread
  <2> QED
    BY <1>2, <1>4, <2>2, <2>3, <2>5, <2>6 DEF DeskInv, Locked, Steady
<1> QED
  BY <1>12, <1>13

\* The wallet's own change of account does not touch the lock.
LEMMA AccountsChangedKeeps ==
    ASSUME DeskInv, NEW next \in Wallets \cup {NoWallet}, AccountsChanged(next)
    PROVE  DeskInv' /\ Steady
<1>1. /\ tab \in Tabs /\ stored \in Records /\ DeskTypes /\ Tidy(tab, stored) /\ unresolved' = unresolved
      /\ UNCHANGED <<now, service, served>> /\ next # tab.account
  BY DEF DeskInv, DeskTypes, AccountsChanged, PageKeeps
<1>2. PICK t : t = WithAccount(tab, next, TRUE)
  OBVIOUS
<1>3. /\ t \in Tabs /\ t.account = next
      /\ t.config = tab.config /\ t.draft = tab.draft /\ t.elig = tab.elig /\ t.owner = tab.owner
      /\ t.started = tab.started /\ t.due = tab.due /\ t.checked = tab.checked /\ t.connecting = tab.connecting
      /\ t.auth.at = tab.auth.at /\ t.auth.pair = tab.auth.pair /\ t.auth.config = tab.auth.config
      /\ t.auth.wallet => tab.auth.wallet /\ next = tab.account
      /\ t.search = tab.search \/ t.search = Idle
      /\ tab.elig = NoElig /\ t.search.at # "off" => t.flow = tab.flow
      /\ tab.flow \in StatusFlows => t.flow = tab.flow
  <2>1. Moved(tab, next, t)
    BY <1>1, <1>2, WithAccountFields
  <2> QED
    BY <2>1 DEF Moved
<1>4. PICK e \in Eligs : e = tab.elig
  BY <1>1 DEF Tabs
<1>5. /\ tab' \in Tabs /\ tab'.account = next
      /\ tab'.config = tab.config /\ tab'.draft = tab.draft /\ tab'.elig = tab.elig /\ tab'.owner = tab.owner
      /\ tab'.started = tab.started /\ tab'.due = tab.due /\ tab'.connecting = tab.connecting
      /\ tab'.auth = t.auth /\ tab'.search = t.search /\ tab'.flow = t.flow
      /\ ~tab.checked => ~tab'.checked
  <2>1. tab' = t \/ tab' = [t EXCEPT !.checked = FALSE]
    BY <1>2 DEF AccountsChanged
  <2> QED
    BY <1>3, <2>1 DEF Tabs
<1>6. \/ stored' = stored
      \/ e.status = "eligible" /\ tab.flow \in Submitted /\ stored' = Persisted(tab, e.pair, TRUE)
  BY <1>4 DEF AccountsChanged, Eligible
<1>7. e.pair \in Pairs \cup {NoPair} /\ (e # NoElig => e.pair = tab.draft) /\ (e.status = "eligible" => e # NoElig)
  BY <1>1, <1>4, BlankTypes DEF Tidy, Eligs
<1>8. /\ stored' \in Records
      /\ stored' = stored \/ (stored' = NoRecord \/ stored'.pair = tab.draft)
      /\ e = NoElig \/ tab.flow \in StatusFlows => stored' = stored
  <2>1. ASSUME stored' = Persisted(tab, e.pair, TRUE), e.status = "eligible"
        PROVE  stored' \in Records /\ (stored' = stored \/ (stored' = NoRecord \/ stored'.pair = e.pair))
    BY <1>1, <1>7, <2>1, PersistedRecords
  <2>2. Submitted \cap StatusFlows = {}
    BY DEF Submitted, StatusFlows
  <2> QED
    BY <1>1, <1>6, <1>7, <2>1, <2>2
<1>9. Tidy(tab', stored')
  BY <1>1, <1>3, <1>4, <1>5, <1>7, <1>8, BlankTypes DEF Tidy
<1>10. DeskTypes'
  BY <1>1, <1>5, <1>8 DEF DeskTypes
<1>11. Timely'
  BY <1>1 DEF DeskInv, Timely
<1>12. ASSUME NEW s \in unresolved, Locks(tab, stored, s) PROVE Locks(tab', stored', s)
  <2>1. s \in Submissions /\ s.at <= now /\ now < s.at + TTL
    BY <1>1 DEF DeskTypes, DeskInv, Timely
  <2>2. CASE UnderWay(tab, stored, s)
    <3>1. tab.config \in Configs /\ tab.config.mode = "write" /\ tab.config.campaign = s.campaign
          /\ tab.started = s.at /\ (stored \in Kind(s) \/ stored = NoRecord) /\ tab.draft = s.pair
      BY <2>2 DEF UnderWay
    <3>2. Persisted(tab, s.pair, TRUE) \in Kind(s)
      BY <1>1, <2>1, <3>1, PersistedKind
    <3>3. stored' \in Kind(s) \cup {NoRecord}
      BY <1>6, <1>7, <3>1, <3>2
    <3> QED
      BY <1>3, <1>5, <2>2, <3>3 DEF Locks, UnderWay
  <2>3. CASE Reconciled(tab, stored, s)
    BY <1>3, <1>4, <1>5, <1>8, <2>3 DEF Locks, Reconciled
  <2>4. CASE Unread(tab, stored, s)
    BY <1>3, <1>4, <1>5, <1>8, <2>4 DEF Locks, Unread
  <2> QED
    BY <1>12, <2>2, <2>3, <2>4 DEF Locks
<1> QED
  BY <1>1, <1>3, <1>5, <1>9, <1>10, <1>11, <1>12 DEF DeskInv, Locked, Steady

LEMMA WalletControlKeeps == ASSUME DeskInv, WalletControl PROVE DeskInv' /\ Steady
<1>1. /\ tab \in Tabs /\ DeskTypes /\ Tidy(tab, stored) /\ UNCHANGED <<now, service, served, stored, unresolved>>
      /\ tab' = [tab EXCEPT !.owner = "connect", !.flow = "wallet-connecting", !.connecting = TRUE]
      /\ tab.elig # NoElig /\ ~tab.due /\ tab.auth.at = "off" /\ tab.flow \notin StatusFlows
  BY BlankTypes DEF DeskInv, DeskTypes, WalletControl, PageKeeps, PairLocked, Busy, Eligible
<1>2. /\ tab' \in Tabs /\ ~tab'.due /\ tab'.config = tab.config /\ tab'.draft = tab.draft /\ tab'.elig = tab.elig
      /\ tab'.owner = "connect" /\ tab'.search = tab.search /\ tab'.auth = tab.auth
  BY <1>1 DEF Tabs, FlowNames, Owners
<1>3. Tidy(tab', stored')
  BY <1>1, <1>2 DEF Tidy
<1>4. DeskTypes' /\ Timely'
  BY <1>1, <1>2 DEF DeskTypes, DeskInv, Timely
<1>5. ASSUME NEW s \in unresolved, Locks(tab, stored, s) PROVE Locks(tab', stored', s)
  BY <1>1, <1>5 DEF Locks, UnderWay, Reconciled, Unread
<1> QED
  BY <1>1, <1>2, <1>3, <1>4, <1>5 DEF DeskInv, Locked, Steady

LEMMA WalletConnectedKeeps ==
    ASSUME DeskInv, NEW account \in Wallets, WalletConnected(account)
    PROVE  DeskInv' /\ Steady
<1>1. /\ tab \in Tabs /\ DeskTypes /\ Tidy(tab, stored) /\ UNCHANGED <<now, service, served, stored, unresolved>>
      /\ tab.connecting
  BY DEF DeskInv, DeskTypes, WalletConnected, PageKeeps
<1>2. PICK t : t = [tab EXCEPT !.connecting = FALSE]
  OBVIOUS
<1>3. /\ t \in Tabs /\ t.account = tab.account
      /\ t.config = tab.config /\ t.draft = tab.draft /\ t.elig = tab.elig /\ t.owner = tab.owner
      /\ t.started = tab.started /\ t.due = tab.due /\ t.checked = tab.checked /\ ~t.connecting
      /\ t.auth = tab.auth /\ t.search = tab.search /\ t.flow = tab.flow
  BY <1>1, <1>2 DEF Tabs
<1>4. PICK next : next = WithAccount(t, account, FALSE)
  OBVIOUS
<1>5. /\ next \in Tabs /\ next.account = account
      /\ next.config = tab.config /\ next.draft = tab.draft /\ next.elig = tab.elig /\ next.owner = tab.owner
      /\ next.started = tab.started /\ next.due = tab.due /\ next.checked = tab.checked
      /\ next.auth.at = tab.auth.at /\ next.auth.pair = tab.auth.pair /\ next.auth.config = tab.auth.config
      /\ next.auth.wallet => tab.auth.wallet /\ account = tab.account
      /\ next.search.at = "off"
      /\ tab.flow \in StatusFlows => next.flow = tab.flow
  <2>1. tab.search.at = "off"
    BY <1>1 DEF Tidy
  <2>2. Moved(t, account, next)
    BY <1>3, <1>4, WithAccountFields
  <2> QED
    BY <1>3, <2>1, <2>2, BlankTypes DEF Moved
<1>6. PICK f \in FlowNames : f = IF account = Source(tab) THEN "qualifying" ELSE "wrong-wallet"
  BY DEF FlowNames
<1>7. tab' = IF tab.owner # "connect" THEN next ELSE [next EXCEPT !.owner = "none", !.flow = f]
  BY <1>2, <1>4, <1>6 DEF WalletConnected
<1>8. /\ tab' \in Tabs /\ tab'.account = account
      /\ tab'.config = tab.config /\ tab'.draft = tab.draft /\ tab'.elig = tab.elig
      /\ tab'.started = tab.started /\ tab'.due = tab.due /\ tab'.checked = tab.checked
      /\ tab'.auth = next.auth /\ tab'.search = next.search
      /\ tab.owner # "connect" => tab'.owner = tab.owner /\ tab'.flow = next.flow
      /\ tab.owner = "connect" => tab'.owner = "none"
  BY <1>5, <1>7 DEF Tabs, Owners
<1>9. Tidy(tab', stored')
  BY <1>1, <1>5, <1>8 DEF Tidy
<1>10. DeskTypes' /\ Timely'
  BY <1>1, <1>8 DEF DeskTypes, DeskInv, Timely
<1>11. ASSUME NEW s \in unresolved, Locks(tab, stored, s) PROVE Locks(tab', stored', s)
  BY <1>1, <1>5, <1>8, <1>11 DEF Locks, UnderWay, Reconciled, Unread
<1> QED
  BY <1>1, <1>5, <1>8, <1>9, <1>10, <1>11 DEF DeskInv, Locked, Steady

\* What is written over the flow without a look at the record.
LEMMA LiftedKeeps ==
    ASSUME DeskInv, unresolved' = Lifted, now' = now
    PROVE  unresolved' \in SUBSET Submissions /\ Timely' /\ Locked'
<1>1. ASSUME NEW s \in unresolved' PROVE s \in Submissions /\ s.at <= now /\ now < s.at + TTL /\ s.lifted
  <2>1. PICK r \in unresolved : s = [r EXCEPT !.lifted = TRUE]
    BY DEF Lifted
  <2>2. r \in Submissions /\ r.at <= now /\ now < r.at + TTL
    BY DEF DeskInv, DeskTypes, Timely
  <2> QED
    BY <2>1, <2>2 DEF Submissions
<1> QED
  BY <1>1 DEF Timely, Locked, Locks

LEMMA WalletRefusedKeeps == ASSUME DeskInv, WalletRefused PROVE DeskInv' /\ Steady
<1>1. /\ tab \in Tabs /\ DeskTypes /\ Tidy(tab, stored) /\ UNCHANGED <<now, service, served, stored>>
      /\ tab.connecting
      /\ unresolved' = IF tab.owner = "connect" THEN unresolved ELSE Lifted
  BY DEF DeskInv, DeskTypes, WalletRefused, PageKeeps
<1>2. PICK o \in Owners : o = IF tab.owner = "connect" THEN "none" ELSE tab.owner
  BY <1>1 DEF Tabs, Owners
<1>3. tab' = [tab EXCEPT !.connecting = FALSE, !.flow = "qualifying", !.owner = o]
  BY <1>2 DEF WalletRefused
<1>4. /\ tab' \in Tabs /\ tab'.due = tab.due /\ tab'.config = tab.config /\ tab'.account = tab.account
      /\ tab'.draft = tab.draft /\ tab'.elig = tab.elig
      /\ tab'.owner = o /\ tab'.search = tab.search /\ tab'.auth = tab.auth
  BY <1>1, <1>3 DEF Tabs, FlowNames
<1>5. Tidy(tab', stored')
  BY <1>1, <1>2, <1>4 DEF Tidy
<1>6. unresolved' \in SUBSET Submissions /\ Timely' /\ Locked'
  <2>1. CASE tab.owner = "connect"
    <3>1. \A s \in unresolved : s.lifted
      BY <2>1 DEF DeskInv, Locked, Locks, UnderWay, Reconciled, Unread
    <3> QED
      BY <1>1, <2>1, <3>1 DEF DeskInv, DeskTypes, Timely, Locked, Locks
  <2>2. CASE tab.owner # "connect"
    BY <1>1, <2>2, LiftedKeeps
  <2> QED
    BY <2>1, <2>2
<1>7. DeskTypes'
  BY <1>1, <1>4, <1>6 DEF DeskTypes
<1> QED
  BY <1>4, <1>5, <1>6, <1>7 DEF DeskInv, Steady

LEMMA DiscoverKeeps == ASSUME DeskInv, NEW connected \in BOOLEAN, Discover(connected) PROVE DeskInv' /\ Steady
<1>1. /\ tab \in Tabs /\ DeskTypes /\ Tidy(tab, stored) /\ UNCHANGED <<now, service, served, stored, unresolved>>
      /\ ~tab.due /\ tab.auth.at = "off" /\ tab.elig = NoElig /\ ~tab.connecting /\ tab.config # NoConfig
  BY DEF DeskInv, DeskTypes, Discover, PageKeeps, PairLocked, Busy, Readable
<1>2. PICK wallet \in IF connected THEN {NoWallet} ELSE Wallets :
          tab' = [tab EXCEPT !.owner = "none", !.flow = "discovering",
                             !.search = [at |-> IF connected THEN "prompt" ELSE "asking",
                                         wallet |-> wallet, connected |-> connected]]
  BY DEF Discover
<1>3. PICK i : i = [at |-> IF connected THEN "prompt" ELSE "asking", wallet |-> wallet, connected |-> connected]
  OBVIOUS
<1>4. i \in Prompts
  BY <1>2, <1>3 DEF Prompts
<1>5. /\ tab' \in Tabs /\ ~tab'.due /\ tab'.config = tab.config /\ tab'.draft = tab.draft /\ tab'.elig = tab.elig
      /\ tab'.owner = "none" /\ tab'.flow = "discovering" /\ tab'.auth = tab.auth /\ ~tab'.connecting
      /\ tab'.started = tab.started /\ tab'.checked = tab.checked
  BY <1>1, <1>2, <1>3, <1>4 DEF Tabs, FlowNames, Owners
<1>6. Tidy(tab', stored')
  BY <1>1, <1>5 DEF Tidy
<1>7. DeskTypes' /\ Timely'
  BY <1>1, <1>5 DEF DeskTypes, DeskInv, Timely
<1>8. ASSUME NEW s \in unresolved, Locks(tab, stored, s) PROVE Locks(tab', stored', s)
  BY <1>1, <1>5, <1>8 DEF Locks, UnderWay, Reconciled, Unread
<1> QED
  BY <1>1, <1>5, <1>6, <1>7, <1>8 DEF DeskInv, Locked, Steady

LEMMA SearchConnectedKeeps ==
    ASSUME DeskInv, NEW account \in Wallets, SearchConnected(account)
    PROVE  DeskInv' /\ Steady
<1>1. /\ tab \in Tabs /\ DeskTypes /\ Tidy(tab, stored) /\ UNCHANGED <<now, service, served, stored, unresolved>>
      /\ tab.search.at = "prompt"
  BY DEF DeskInv, DeskTypes, SearchConnected, PageKeeps
<1>2. PICK next : next = WithAccount(tab, account, FALSE)
  OBVIOUS
<1>3. tab.auth.at = "off" /\ tab.flow = "discovering" /\ tab.elig = NoElig /\ tab.owner = "none" /\ ~tab.connecting
  BY <1>1 DEF Tidy
<1>4. /\ next \in Tabs
      /\ next.config = tab.config /\ next.draft = tab.draft /\ next.elig = tab.elig /\ next.owner = tab.owner
      /\ next.started = tab.started /\ next.due = tab.due /\ next.checked = tab.checked
      /\ next.connecting = tab.connecting /\ next.auth.at = "off" /\ next.flow = "discovering"
  <2>1. Moved(tab, account, next)
    BY <1>1, <1>2, WithAccountFields
  <2> QED
    BY <1>1, <1>3, <2>1 DEF Moved
<1>5. PICK i : i = [at |-> "asking", wallet |-> account, connected |-> TRUE]
  OBVIOUS
<1>6. i \in Prompts
  BY <1>5 DEF Prompts
<1>7. tab' = [next EXCEPT !.search = i]
  BY <1>2, <1>5 DEF SearchConnected
<1>8. /\ tab' \in Tabs
      /\ tab'.config = tab.config /\ tab'.draft = tab.draft /\ tab'.elig = tab.elig /\ tab'.owner = tab.owner
      /\ tab'.started = tab.started /\ tab'.due = tab.due /\ tab'.checked = tab.checked
      /\ tab'.connecting = tab.connecting /\ tab'.auth.at = "off" /\ tab'.flow = "discovering"
  BY <1>4, <1>6, <1>7 DEF Tabs
<1>9. Tidy(tab', stored')
  BY <1>1, <1>3, <1>8 DEF Tidy
<1>10. DeskTypes' /\ Timely'
  BY <1>1, <1>8 DEF DeskTypes, DeskInv, Timely
<1>11. ASSUME NEW s \in unresolved, Locks(tab, stored, s) PROVE Locks(tab', stored', s)
  BY <1>1, <1>3, <1>8, <1>11 DEF Locks, UnderWay, Reconciled, Unread
<1> QED
  BY <1>1, <1>8, <1>9, <1>10, <1>11 DEF DeskInv, Locked, Steady

LEMMA SearchAnswerKeeps == ASSUME DeskInv, SearchAnswer PROVE DeskInv' /\ Steady
<1>1. /\ tab \in Tabs /\ DeskTypes /\ Tidy(tab, stored) /\ UNCHANGED <<now, service, served, stored>>
      /\ tab.search.at # "off" /\ unresolved' = Lifted
  BY DEF DeskInv, DeskTypes, SearchAnswer, PageKeeps
<1>2. tab.auth.at = "off" /\ tab.elig = NoElig /\ tab.owner = "none" /\ ~tab.due /\ tab.config # NoConfig
  BY <1>1 DEF Tidy
<1>3. unresolved' \in SUBSET Submissions /\ Timely' /\ Locked'
  BY <1>1, LiftedKeeps
<1>4. PICK i \in Prompts : i = Idle
  BY BlankTypes
<1>5. /\ tab' \in Tabs /\ ~tab'.due /\ tab'.config = tab.config /\ tab'.owner = "none" /\ tab'.search = Idle
      /\ tab'.auth = tab.auth /\ (tab'.elig # NoElig => tab'.elig.pair = tab'.draft /\ tab'.draft # NoPair)
  <2>1. CASE tab' = [tab EXCEPT !.search = Idle, !.flow = "discovery-empty"]
    <3>1. tab' = [tab EXCEPT !.search = i, !.flow = "discovery-empty"]
      BY <1>4, <2>1
    <3> QED
      BY <1>1, <1>2, <1>4, <3>1 DEF Tabs, FlowNames
  <2>2. CASE \E pair \in {p \in Pairs : WalletOf(p) = tab.search.wallet} :
                 tab' = [tab EXCEPT !.search = Idle, !.draft = pair, !.owner = "none", !.elig = Verdict(pair),
                                    !.flow = IF Status(pair) = "eligible" THEN InspectionFlow(tab, pair)
                                             ELSE FlowOf(Status(pair))]
    <3>1. PICK pair \in Pairs :
                 tab' = [tab EXCEPT !.search = Idle, !.draft = pair, !.owner = "none", !.elig = Verdict(pair),
                                    !.flow = IF Status(pair) = "eligible" THEN InspectionFlow(tab, pair)
                                             ELSE FlowOf(Status(pair))]
      BY <2>2
    <3>2. PICK e \in Eligs : e = Verdict(pair) /\ e.pair = pair
      BY <1>1, StatusFlow
    <3>3. PICK f \in FlowNames : f = IF Status(pair) = "eligible" THEN InspectionFlow(tab, pair)
                                     ELSE FlowOf(Status(pair))
      <4>1. Status(pair) # "eligible" => FlowOf(Status(pair)) \in {"already-claimed", "release-processing", "campaign-closed"}
        BY <1>1, StatusFlow
      <4>2. InspectionFlow(tab, pair) \in {"wrong-wallet", "qualifying"}
        BY FlowTypes
      <4> QED
        BY <4>1, <4>2 DEF FlowNames
    <3>4. tab' = [tab EXCEPT !.search = i, !.draft = pair, !.owner = "none", !.elig = e, !.flow = f]
      BY <1>4, <3>1, <3>2, <3>3
    <3> QED
      BY <1>1, <1>2, <1>4, <3>2, <3>4, PairsAssumption DEF Tabs, Owners
  <2> QED
    BY <2>1, <2>2 DEF SearchAnswer
<1>6. Tidy(tab', stored')
  BY <1>2, <1>5, BlankTypes DEF Tidy
<1>7. DeskTypes'
  BY <1>1, <1>3, <1>5 DEF DeskTypes
<1> QED
  BY <1>2, <1>3, <1>5, <1>6, <1>7 DEF DeskInv, Steady

LEMMA SearchFailsKeeps == ASSUME DeskInv, SearchFails PROVE DeskInv' /\ Steady
<1>1. PICK i \in Prompts : i = Idle
  BY BlankTypes
<1>2. PICK f \in FlowNames : f = IF tab.search.at = "prompt" THEN "empty" ELSE "discovery-unavailable"
  BY DEF FlowNames
<1>3. /\ tab \in Tabs /\ DeskTypes /\ Tidy(tab, stored) /\ UNCHANGED <<now, service, served, stored, unresolved>>
      /\ tab.search.at # "off" /\ tab' = [tab EXCEPT !.search = i, !.flow = f]
  BY <1>1, <1>2 DEF DeskInv, DeskTypes, SearchFails, PageKeeps
<1>4. /\ tab' \in Tabs /\ tab'.config = tab.config /\ tab'.draft = tab.draft /\ tab'.elig = tab.elig
      /\ tab'.owner = tab.owner /\ tab'.search = Idle /\ tab'.auth = tab.auth /\ tab'.due = tab.due
      /\ tab'.started = tab.started /\ tab'.checked = tab.checked
  BY <1>1, <1>3 DEF Tabs
<1>5. Tidy(tab', stored')
  BY <1>3, <1>4, BlankTypes DEF Tidy
<1>6. DeskTypes' /\ Timely'
  BY <1>3, <1>4 DEF DeskTypes, DeskInv, Timely
<1>7. ASSUME NEW s \in unresolved, Locks(tab, stored, s) PROVE Locks(tab', stored', s)
  BY <1>3, <1>4, <1>7 DEF Locks, UnderWay, Reconciled, Unread, Tidy
<1> QED
  BY <1>3, <1>4, <1>5, <1>6, <1>7 DEF DeskInv, Locked, Steady

-----------------------------------------------------------------------------
(* Authorizing *)

\* No submission that still locks its pair is left when the wallet is asked.
LEMMA NoneHeld ==
    ASSUME DeskInv, tab.auth.at \notin {"off", "release"}
    PROVE  \A s \in unresolved : s.lifted
BY DEF DeskInv, Locked, Locks, UnderWay, Reconciled, Unread

\* The wallet is asked for, or to sign.
LEMMA ToWalletFields ==
    ASSUME NEW t \in Tabs, NEW u, u = ToWallet(t)
    PROVE  /\ u \in Tabs /\ u.auth.at \in {"connect", "challenge"}
           /\ u.auth.pair = t.auth.pair /\ u.auth.config = t.auth.config
           /\ u.auth.at = "challenge" => t.account = WalletOf(t.auth.pair)
           /\ u.config = t.config /\ u.account = t.account /\ u.draft = t.draft /\ u.elig = t.elig
           /\ u.owner = t.owner /\ u.due = t.due /\ u.search = t.search
<1>1. CASE t.account = WalletOf(t.auth.pair)
  <2>1. PICK a \in Auths : a = [[t.auth EXCEPT !.at = "challenge"] EXCEPT !.wallet = TRUE]
    BY DEF Tabs, Auths, Stages
  <2>2. a.at = "challenge" /\ a.pair = t.auth.pair /\ a.config = t.auth.config
    BY <2>1 DEF Tabs, Auths
  <2>3. u = [t EXCEPT !.auth = a, !.flow = "authorization-requested"]
    BY <1>1, <2>1 DEF ToWallet, ToChallenge, Tabs, Auths
  <2>4. PICK f \in FlowNames : f = "authorization-requested"
    BY DEF FlowNames
  <2> QED
    BY <1>1, <2>2, <2>3, <2>4 DEF Tabs
<1>2. CASE t.account # WalletOf(t.auth.pair)
  <2>1. PICK a \in Auths : a = [t.auth EXCEPT !.at = "connect"]
    BY DEF Tabs, Auths, Stages
  <2>2. a.at = "connect" /\ a.pair = t.auth.pair /\ a.config = t.auth.config
    BY <2>1 DEF Tabs, Auths
  <2>3. u = [t EXCEPT !.auth = a, !.flow = "wallet-connecting"]
    BY <1>2, <2>1 DEF ToWallet
  <2>4. PICK f \in FlowNames : f = "wallet-connecting"
    BY DEF FlowNames
  <2> QED
    BY <2>2, <2>3, <2>4 DEF Tabs
<1> QED
  BY <1>1, <1>2

LEMMA AuthorizeKeeps == ASSUME DeskInv, Authorize PROVE DeskInv' /\ Steady
<1>1. /\ tab \in Tabs /\ DeskTypes /\ Tidy(tab, stored) /\ UNCHANGED <<now, service, served, stored, unresolved>>
      /\ tab.elig # NoElig /\ ~tab.due /\ tab.auth.at = "off" /\ tab.flow \notin BusyFlows \cup StatusFlows
      /\ tab.config.mode = "write"
  BY BlankTypes DEF DeskInv, DeskTypes, Authorize, PageKeeps, PairLocked, Busy, Eligible
<1>2. /\ tab.elig.pair \in Pairs /\ tab.config \in Configs /\ tab.search.at = "off" /\ tab.elig.pair = tab.draft
  BY <1>1 DEF Tidy, Tabs, BusyFlows
<1>3. PICK a : a = [at |-> "admission", pair |-> tab.elig.pair, config |-> tab.config, wallet |-> TRUE]
  OBVIOUS
<1>4. a \in Auths /\ a.at = "admission" /\ a.pair = tab.elig.pair /\ a.config = tab.config
  BY <1>2, <1>3 DEF Auths, Stages
<1>5. PICK begun : begun = [tab EXCEPT !.owner = "auth", !.flow = "checking", !.auth = a]
  OBVIOUS
<1>6. /\ begun \in Tabs /\ begun.config = tab.config /\ begun.draft = tab.draft /\ begun.elig = tab.elig
      /\ begun.owner = "auth" /\ begun.due = tab.due /\ begun.search = tab.search /\ begun.account = tab.account
      /\ begun.auth = a
  BY <1>1, <1>4, <1>5 DEF Tabs, FlowNames, Owners
<1>7. tab' = begun \/ tab' = ToWallet(begun)
  BY <1>3, <1>5 DEF Authorize
<1>8. /\ tab' \in Tabs /\ ~tab'.due /\ tab'.config = tab.config /\ tab'.draft = tab.draft /\ tab'.elig = tab.elig
      /\ tab'.owner = "auth" /\ tab'.search = tab.search /\ tab'.account = tab.account
      /\ tab'.auth.at \in {"admission", "connect", "challenge"} /\ tab'.auth.pair = tab.elig.pair
      /\ tab'.auth.config = tab.config
      /\ tab'.auth.at = "challenge" => tab.account = WalletOf(tab.elig.pair)
  BY <1>1, <1>4, <1>6, <1>7, ToWalletFields
<1>9. Tidy(tab', stored')
  BY <1>1, <1>2, <1>8, ConfigsAssumption DEF Tidy
<1>10. DeskTypes' /\ Timely'
  BY <1>1, <1>8 DEF DeskTypes, DeskInv, Timely
<1>11. ASSUME NEW s \in unresolved, Locks(tab, stored, s) PROVE Locks(tab', stored', s)
  BY <1>1, <1>11 DEF Locks, UnderWay, Reconciled, Unread
<1> QED
  BY <1>1, <1>8, <1>9, <1>10, <1>11 DEF DeskInv, Locked, Steady

\* The end of an authorization leaves the page to nobody, and its pair beside
\* its own record.
LEMMA EndTidy ==
    ASSUME DeskInv, tab.auth.at # "off", NEW t \in Tabs, t.config \in Configs, t.search.at = "off",
           t.owner \in {tab.owner, "none"}, t.elig # NoElig => t.elig.pair = t.draft /\ t.draft # NoPair,
           t.due /\ t.elig # NoElig => stored' = NoRecord \/ stored'.pair = t.draft,
           tab' = Ended(t)
    PROVE  /\ tab' \in Tabs /\ Tidy(tab', stored') /\ Steady
           /\ tab'.auth.at = "off" /\ tab'.config = t.config /\ tab'.draft = t.draft /\ tab'.elig = t.elig
           /\ tab'.started = t.started /\ tab'.due = t.due
           /\ tab'.owner = (IF t.owner = "auth" THEN "none" ELSE t.owner)
           /\ t.flow # "account-changed" => tab'.flow = t.flow
<1>1. Tidy(tab, stored)
  BY DEF DeskInv
<1>2. /\ tab' \in Tabs /\ tab'.auth = AuthOff /\ tab'.auth.at = "off"
      /\ tab'.config = t.config /\ tab'.draft = t.draft /\ tab'.elig = t.elig /\ tab'.search = t.search
      /\ tab'.started = t.started /\ tab'.due = t.due
      /\ tab'.owner = (IF t.owner = "auth" THEN "none" ELSE t.owner)
      /\ t.flow # "account-changed" => tab'.flow = t.flow
  BY EndedFields, BlankTypes
<1>3. tab'.owner \notin {"auth", "check", "resume"}
  BY <1>1, <1>2 DEF Tidy
<1>4. Tidy(tab', stored')
  BY <1>2, <1>3, ConfigsAssumption DEF Tidy
<1> QED
  BY <1>2, <1>4 DEF Steady

\* Before the release nothing is remembered: the rest of the state stays.
LEMMA EndKeeps ==
    ASSUME DeskInv, tab.auth.at \notin {"off", "release"}, NEW t \in Tabs, t.config = tab.config,
           t.draft = tab.draft, t.due = tab.due, t.owner = tab.owner, t.search.at = "off",
           t.elig # NoElig => t.elig.pair = t.draft /\ t.draft # NoPair,
           tab' = Ended(t), UNCHANGED <<now, service, served, stored, unresolved>>
    PROVE  DeskInv' /\ Steady
<1>1. DeskTypes /\ tab \in Tabs /\ Tidy(tab, stored)
  BY DEF DeskInv, DeskTypes
<1>2. t.config \in Configs /\ (t.due => stored = NoRecord)
  BY <1>1 DEF Tidy, Tabs
<1>3. tab' \in Tabs /\ Tidy(tab', stored') /\ Steady
  BY <1>2, EndTidy
<1>4. DeskTypes' /\ Timely'
  BY <1>1, <1>3 DEF DeskTypes, DeskInv, Timely
<1>5. Locked'
  BY NoneHeld DEF Locked, Locks
<1> QED
  BY <1>3, <1>4, <1>5 DEF DeskInv

\* The ways an authorization may end with what is on screen.
LEMMA EndsKeeps ==
    ASSUME DeskInv, tab.auth.at \notin {"off", "release"}, NEW e \in Eligs, NEW f \in FlowNames,
           e # NoElig => e.pair = tab.draft /\ tab.draft # NoPair,
           tab' = Ended([tab EXCEPT !.elig = e, !.flow = f]),
           UNCHANGED <<now, service, served, stored, unresolved>>
    PROVE  DeskInv' /\ Steady
<1>1. tab \in Tabs /\ Tidy(tab, stored)
  BY DEF DeskInv, DeskTypes
<1>2. PICK t : t = [tab EXCEPT !.elig = e, !.flow = f]
  OBVIOUS
<1>3. /\ t \in Tabs /\ t.config = tab.config /\ t.draft = tab.draft /\ t.due = tab.due /\ t.owner = tab.owner
      /\ t.search = tab.search /\ t.elig = e
  BY <1>1, <1>2 DEF Tabs
<1>4. t.search.at = "off"
  BY <1>1, <1>3 DEF Tidy
<1> QED
  BY <1>2, <1>3, <1>4, EndKeeps

\* The page as it is, or with another flow.
LEMMA SameElig ==
    ASSUME DeskInv, NEW f
    PROVE  /\ tab.elig \in Eligs /\ tab.flow \in FlowNames /\ NoElig \in Eligs
           /\ tab.elig # NoElig => tab.elig.pair = tab.draft /\ tab.draft # NoPair
           /\ tab = [tab EXCEPT !.elig = tab.elig, !.flow = tab.flow]
           /\ [tab EXCEPT !.flow = f] = [tab EXCEPT !.elig = tab.elig, !.flow = f]
BY BlankTypes DEF DeskInv, DeskTypes, Tabs, Tidy

LEMMA AdmissionKeeps == ASSUME DeskInv, Admission PROVE DeskInv' /\ Steady
<1> DEFINE pair == tab.auth.pair
<1>1. /\ tab \in Tabs /\ DeskTypes /\ Tidy(tab, stored) /\ UNCHANGED <<now, service, served, stored, unresolved>>
      /\ tab.auth.at = "admission" /\ pair \in Pairs /\ tab.config # NoConfig /\ tab.search.at = "off"
  BY DEF DeskInv, DeskTypes, Admission, PageKeeps, AuthAt, Tidy
<1>2. PICK e \in Eligs : e = Verdict(pair) /\ e # NoElig /\ e.pair = pair
  BY <1>1, StatusFlow
<1>3. CASE tab.owner # "auth"
  <2>1. tab' = Ended(tab)
    BY <1>3 DEF Admission
  <2> QED
    BY <1>1, <2>1, SameElig, EndsKeeps
<1>4. CASE tab.owner = "auth"
  <2>1. tab.draft = pair /\ pair # NoPair /\ tab.config.mode = "write" /\ ~tab.due
    BY <1>1, <1>4, PairsAssumption DEF Tidy
  <2>2. PICK next : next = [tab EXCEPT !.elig = e]
    OBVIOUS
  <2>3. /\ next \in Tabs /\ next.auth = tab.auth /\ next.config = tab.config /\ next.draft = tab.draft
        /\ next.elig = e /\ next.owner = tab.owner /\ next.due = tab.due /\ next.search = tab.search
        /\ next.account = tab.account
    BY <1>1, <2>2 DEF Tabs
  <2>4. \/ \E f \in FlowNames : tab' = Ended([tab EXCEPT !.elig = e, !.flow = f])
        \/ tab' = ToWallet(next)
    <3>1. CASE Status(pair) # "eligible"
      <4>1. FlowOf(Status(pair)) \in FlowNames
        BY <1>1, <3>1, StatusFlow DEF FlowNames
      <4>2. tab' = Ended([next EXCEPT !.flow = FlowOf(Status(pair))])
        BY <1>2, <1>4, <2>2, <3>1 DEF Admission
      <4> QED
        BY <2>2, <4>1, <4>2
    <3>2. CASE Status(pair) = "eligible" /\ ~CanContinue(TRUE, tab.auth.config, tab.config)
      <4>1. InterruptionFlow(tab.config) \in FlowNames
        BY FlowTypes DEF FlowNames
      <4>2. tab' = Ended([next EXCEPT !.flow = InterruptionFlow(tab.config)])
        BY <1>2, <1>4, <2>2, <3>2 DEF Admission
      <4> QED
        BY <2>2, <4>1, <4>2
    <3>3. CASE Status(pair) = "eligible" /\ CanContinue(TRUE, tab.auth.config, tab.config)
      BY <1>2, <1>4, <2>2, <3>3 DEF Admission
    <3> QED
      BY <3>1, <3>2, <3>3
  <2>5. CASE \E f \in FlowNames : tab' = Ended([tab EXCEPT !.elig = e, !.flow = f])
    BY <1>1, <1>2, <2>1, <2>5, EndsKeeps
  <2>6. CASE tab' = ToWallet(next)
    <3>1. /\ tab' \in Tabs /\ tab'.auth.at \in {"connect", "challenge"} /\ tab'.auth.pair = pair
          /\ tab'.auth.config = tab.auth.config
          /\ tab'.auth.at = "challenge" => tab.account = WalletOf(pair)
          /\ tab'.config = tab.config /\ tab'.draft = tab.draft /\ tab'.elig = e
          /\ tab'.owner = "auth" /\ tab'.due = tab.due /\ tab'.search = tab.search /\ tab'.account = tab.account
      BY <1>4, <2>3, <2>6, ToWalletFields
    <3>2. Tidy(tab', stored')
      BY <1>1, <1>2, <2>1, <3>1 DEF Tidy
    <3> QED
      BY <1>1, <3>1, <3>2, NoneHeld DEF DeskInv, DeskTypes, Timely, Locked, Locks, Steady
  <2> QED
    BY <2>4, <2>5, <2>6
<1> QED
  BY <1>3, <1>4

LEMMA ConnectKeeps == ASSUME DeskInv, NEW account \in Wallets, Connect(account) PROVE DeskInv' /\ Steady
<1>1. /\ tab \in Tabs /\ DeskTypes /\ Tidy(tab, stored) /\ UNCHANGED <<now, service, served, stored, unresolved>>
      /\ tab.auth.at = "connect" /\ tab.search.at = "off"
  BY DEF DeskInv, DeskTypes, Connect, PageKeeps, AuthAt, Tidy
<1>2. PICK next : next = WithAccount(tab, account, FALSE)
  OBVIOUS
<1>3. Moved(tab, account, next)
  BY <1>1, <1>2, WithAccountFields
<1>4. /\ next \in Tabs /\ next.config = tab.config /\ next.draft = tab.draft /\ next.elig = tab.elig
      /\ next.owner = tab.owner /\ next.due = tab.due /\ next.search.at = "off" /\ next.account = account
      /\ next.auth.at = "connect" /\ next.auth.pair = tab.auth.pair /\ next.auth.config = tab.auth.config
  BY <1>1, <1>3, BlankTypes DEF Moved
<1>5. PICK f \in FlowNames : f = "wrong-wallet"
  BY DEF FlowNames
<1>6. PICK t : t = [next EXCEPT !.flow = f]
  OBVIOUS
<1>7. /\ t \in Tabs /\ t.config = tab.config /\ t.draft = tab.draft /\ t.elig = tab.elig
      /\ t.owner = tab.owner /\ t.due = tab.due /\ t.search.at = "off"
  BY <1>4, <1>6 DEF Tabs
<1>8. \/ tab' = Ended(next)
      \/ tab' = Ended(t)
      \/ tab.owner = "auth" /\ account = WalletOf(tab.auth.pair) /\ tab' = ToChallenge(next)
  BY <1>2, <1>5, <1>6 DEF Connect
<1>9. CASE tab' = Ended(next)
  BY <1>1, <1>4, <1>9, SameElig, EndKeeps
<1>10. CASE tab' = Ended(t)
  BY <1>1, <1>7, <1>10, SameElig, EndKeeps
<1>11. CASE tab.owner = "auth" /\ account = WalletOf(tab.auth.pair) /\ tab' = ToChallenge(next)
  <2>1. PICK a \in Auths : a = [[next.auth EXCEPT !.at = "challenge"] EXCEPT !.wallet = TRUE]
    BY <1>4 DEF Tabs, Auths, Stages
  <2>2. a.at = "challenge" /\ a.pair = tab.auth.pair /\ a.config = tab.auth.config
    BY <1>4, <2>1 DEF Tabs, Auths
  <2>3. tab' = [next EXCEPT !.auth = a, !.flow = "authorization-requested"]
    BY <1>4, <1>11, <2>1 DEF ToChallenge, Tabs, Auths
  <2>4. /\ tab' \in Tabs /\ tab'.auth = a /\ tab'.config = tab.config /\ tab'.draft = tab.draft
        /\ tab'.elig = tab.elig /\ tab'.owner = "auth" /\ tab'.due = tab.due /\ tab'.search.at = "off"
        /\ tab'.account = account
    BY <1>4, <1>11, <2>3 DEF Tabs, FlowNames
  <2>5. Tidy(tab', stored')
    BY <1>1, <1>11, <2>2, <2>4 DEF Tidy
  <2> QED
    BY <1>1, <2>2, <2>4, <2>5, NoneHeld DEF DeskInv, DeskTypes, Timely, Locked, Locks, Steady
<1> QED
  BY <1>8, <1>9, <1>10, <1>11

LEMMA ConnectRefusedKeeps == ASSUME DeskInv, ConnectRefused PROVE DeskInv' /\ Steady
<1>1. tab.auth.at = "connect" /\ UNCHANGED <<now, service, served, stored, unresolved>>
  BY DEF ConnectRefused, PageKeeps, AuthAt
<1>2. \E f \in FlowNames : tab' = Ended([tab EXCEPT !.elig = tab.elig, !.flow = f])
  <2>1. "qualifying" \in FlowNames
    BY DEF FlowNames
  <2>2. CASE tab.owner = "auth"
    BY <2>1, <2>2, SameElig DEF ConnectRefused
  <2>3. CASE tab.owner # "auth"
    <3>1. tab' = Ended(tab)
      BY <2>3 DEF ConnectRefused
    <3> QED
      BY <3>1, SameElig
  <2> QED
    BY <2>2, <2>3
<1> QED
  BY <1>1, <1>2, SameElig, EndsKeeps

\* After an await: on to the next stage, or the end.
LEMMA ProceedsKeeps ==
    ASSUME DeskInv, tab.auth.at \in {"challenge", "sign"}, NEW next \in {"sign", "fresh"}, Proceeds(next),
           UNCHANGED <<now, service, served, stored, unresolved>>
    PROVE  DeskInv' /\ tab'.auth.at \in {next, "off"}
<1>1. /\ tab \in Tabs /\ DeskTypes /\ Tidy(tab, stored)
  BY DEF DeskInv, DeskTypes
<1>2. CASE CanContinue(Current, tab.auth.config, tab.config)
  <2>1. PICK a \in Auths : a = [tab.auth EXCEPT !.at = next]
    BY <1>1 DEF Tabs, Auths, Stages
  <2>2. a.at = next /\ a.pair = tab.auth.pair /\ a.config = tab.auth.config /\ a.wallet = tab.auth.wallet
    BY <1>1, <2>1 DEF Tabs, Auths
  <2>3. tab' = [tab EXCEPT !.auth = a]
    BY <1>2, <2>1 DEF Proceeds
  <2>4. /\ tab' \in Tabs /\ tab'.auth = a /\ tab'.config = tab.config /\ tab'.draft = tab.draft
        /\ tab'.elig = tab.elig /\ tab'.owner = tab.owner /\ tab'.due = tab.due /\ tab'.search = tab.search
        /\ tab'.account = tab.account
    BY <1>1, <2>3 DEF Tabs
  <2>5. Tidy(tab', stored')
    BY <1>1, <2>2, <2>4 DEF Tidy
  <2> QED
    BY <1>1, <2>2, <2>4, <2>5, NoneHeld DEF DeskInv, DeskTypes, Timely, Locked, Locks
<1>3. CASE ~CanContinue(Current, tab.auth.config, tab.config)
  <2>1. \E f \in FlowNames, e \in {tab.elig, NoElig} : tab' = Ended([tab EXCEPT !.elig = e, !.flow = f])
    <3>1. tab' = Stopped(tab.config)
      BY <1>3 DEF Proceeds
    <3>2. InterruptionFlow(tab.config) \in FlowNames
      BY FlowTypes DEF FlowNames
    <3>3. CASE Current
      <4>1. PICK f \in FlowNames : f = InterruptionFlow(tab.config)
        BY <3>2
      <4>2. PICK e \in {tab.elig, NoElig} :
                e = IF f \in {"campaign-changed", "service-unavailable"} THEN NoElig ELSE tab.elig
        OBVIOUS
      <4>3. tab' = Ended([tab EXCEPT !.flow = f, !.elig = e])
        BY <3>1, <3>3, <4>1, <4>2 DEF Stopped, Tabs
      <4>4. [tab EXCEPT !.flow = f, !.elig = e] = [tab EXCEPT !.elig = e, !.flow = f]
        BY <1>1 DEF Tabs
      <4> QED
        BY <4>3, <4>4
    <3>4. CASE ~Current
      <4>1. tab' = Ended(tab)
        BY <3>1, <3>4 DEF Stopped
      <4> QED
        BY <4>1, SameElig
    <3> QED
      BY <3>3, <3>4
  <2>2. PICK f \in FlowNames, e \in Eligs :
            /\ tab' = Ended([tab EXCEPT !.elig = e, !.flow = f])
            /\ e # NoElig => e.pair = tab.draft /\ tab.draft # NoPair
    BY <2>1, SameElig
  <2>3. DeskInv' /\ Steady
    BY <2>2, EndsKeeps
  <2>4. tab'.auth.at = "off"
    <3>1. PICK t \in Tabs : tab' = Ended(t)
      BY <1>1, <2>2 DEF Tabs
    <3> QED
      BY <3>1, EndedFields, BlankTypes
  <2> QED
    BY <2>3, <2>4
<1> QED
  BY <1>2, <1>3

LEMMA ChallengeKeeps ==
    ASSUME DeskInv, Challenge
    PROVE  DeskInv' /\ tab.auth.at = "challenge" /\ \A s \in unresolved : s.lifted
<1>1. tab.auth.at = "challenge" /\ Proceeds("sign") /\ UNCHANGED <<now, service, served, stored, unresolved>>
  BY DEF Challenge, AuthAt, PageKeeps
<1> QED
  BY <1>1, ProceedsKeeps, NoneHeld

LEMMA SignatureKeeps == ASSUME DeskInv, Signature PROVE DeskInv' /\ tab.auth.at = "sign"
<1>1. tab.auth.at = "sign" /\ Proceeds("fresh") /\ UNCHANGED <<now, service, served, stored, unresolved>>
  BY DEF Signature, AuthAt, PageKeeps
<1> QED
  BY <1>1, ProceedsKeeps

LEMMA AuthorizationFailsKeeps == ASSUME DeskInv, AuthorizationFails PROVE DeskInv' /\ Steady
<1>1. /\ tab.auth.at \notin {"off", "release"} /\ UNCHANGED <<now, service, served, stored, unresolved>>
      /\ tab \in Tabs
  BY DEF AuthorizationFails, PageKeeps, DeskInv, DeskTypes
<1>2. \E f \in FlowNames, e \in {tab.elig, NoElig} : tab' = Ended([tab EXCEPT !.elig = e, !.flow = f])
  <2>1. "qualifying" \in FlowNames /\ "service-unavailable" \in FlowNames
    BY DEF FlowNames
  <2>2. CASE ~Current
    <3>1. tab' = Ended(tab)
      BY <2>2 DEF AuthorizationFails, EndsWith
    <3> QED
      BY <3>1, SameElig
  <2>3. CASE Current
    <3>1. \/ tab' = Ended([tab EXCEPT !.flow = "qualifying"])
          \/ tab' = Ended([[tab EXCEPT !.elig = NoElig] EXCEPT !.flow = "service-unavailable"])
      BY <2>3 DEF AuthorizationFails, EndsWith
    <3> QED
      BY <2>1, <3>1, SameElig
  <2> QED
    BY <2>2, <2>3
<1>3. PICK f \in FlowNames, e \in Eligs :
          /\ tab' = Ended([tab EXCEPT !.elig = e, !.flow = f])
          /\ e # NoElig => e.pair = tab.draft /\ tab.draft # NoPair
  BY <1>2, SameElig
<1> QED
  BY <1>1, <1>3, EndsKeeps

\* An answer of the service ends the authorization, and the page is read anew.
LEMMA ResolvedTidy ==
    ASSUME DeskInv, Current,
           NEW t \in Tabs, t.config = tab.config, t.draft = tab.draft, t.owner = tab.owner, t.search = tab.search,
           t.elig.pair = tab.elig.pair,
           NEW u, u = Refreshed(Ended(t)),
           NEW st \in Records, st = NoRecord \/ st.pair = tab.draft
    PROVE  u \in Tabs /\ Tidy(u, st) /\ u.auth.at = "off"
<1>1. tab \in Tabs /\ Tidy(tab, stored) /\ service \in Configs /\ tab.owner = "auth"
  BY DEF DeskInv, DeskTypes, Current
<1>2. /\ tab.search.at = "off" /\ tab.elig.pair = tab.draft /\ tab.draft # NoPair
  BY <1>1 DEF Tidy
<1>3. PICK v : v = Ended(t)
  OBVIOUS
<1>4. /\ v \in Tabs /\ v.auth = AuthOff /\ v.draft = tab.draft /\ v.owner = "none" /\ v.search = tab.search
      /\ v.elig = t.elig
  BY <1>1, <1>3, EndedFields
<1>5. /\ u \in Tabs /\ u.config = service /\ u.draft = tab.draft /\ u.auth.at = "off" /\ u.owner = "none"
      /\ u.search.at = "off" /\ u.elig \in {t.elig, NoElig}
  BY <1>1, <1>2, <1>3, <1>4, RefreshedFields, BlankTypes
<1>6. Tidy(u, st)
  BY <1>1, <1>2, <1>5, ConfigsAssumption DEF Tidy
<1> QED
  BY <1>5, <1>6

LEMMA ClosesKeeps == ASSUME DeskInv, Current, Closes, PageKeeps PROVE DeskInv' /\ Steady
<1>1. /\ tab \in Tabs /\ stored \in Records /\ DeskTypes /\ Tidy(tab, stored) /\ UNCHANGED <<now, service, served>>
  BY DEF DeskInv, DeskTypes, PageKeeps
<1>2. PICK e : e = [tab.elig EXCEPT !.status = "closed"]
  OBVIOUS
<1>3. e \in Eligs /\ e.pair = tab.elig.pair
  BY <1>1, <1>2 DEF Tabs, Eligs
<1>4. PICK t : t = [tab EXCEPT !.flow = "campaign-closed", !.elig = e, !.started = None]
  OBVIOUS
<1>5. /\ t \in Tabs /\ t.config = tab.config /\ t.draft = tab.draft /\ t.owner = tab.owner
      /\ t.search = tab.search /\ t.elig = e
  BY <1>1, <1>3, <1>4, NoneType DEF Tabs, FlowNames
<1>6. PICK u : u = Refreshed(Ended(t))
  OBVIOUS
<1>7. tab' = [u EXCEPT !.checked = FALSE] /\ stored' = NoRecord /\ unresolved' = {}
  BY <1>2, <1>4, <1>6 DEF Closes
<1>8. u \in Tabs /\ Tidy(u, NoRecord) /\ u.auth.at = "off"
  BY <1>1, <1>3, <1>5, <1>6, BlankTypes, ResolvedTidy
<1>9. /\ tab' \in Tabs /\ tab'.config = u.config /\ tab'.account = u.account /\ tab'.draft = u.draft
      /\ tab'.elig = u.elig /\ tab'.flow = u.flow /\ tab'.owner = u.owner /\ tab'.due = u.due
      /\ tab'.connecting = u.connecting /\ tab'.search = u.search /\ tab'.auth = u.auth
  BY <1>7, <1>8 DEF Tabs
<1>10. Tidy(tab', stored')
  BY <1>7, <1>8, <1>9 DEF Tidy
<1> QED
  BY <1>1, <1>7, <1>8, <1>9, <1>10, BlankTypes DEF DeskInv, DeskTypes, Timely, Locked, Steady

LEMMA AuthorizationClosedKeeps == ASSUME DeskInv, AuthorizationClosed PROVE DeskInv' /\ Steady
BY ClosesKeeps DEF AuthorizationClosed

\* Another campaign leaves nothing to remember.
LEMMA AuthorizationMismatchKeeps == ASSUME DeskInv, AuthorizationMismatch PROVE DeskInv' /\ Steady
<1>1. /\ tab \in Tabs /\ DeskTypes /\ Tidy(tab, stored) /\ UNCHANGED <<now, service, served>>
      /\ tab.auth.at \in {"admission", "challenge"} /\ tab.config # NoConfig /\ tab.search.at = "off"
  BY DEF DeskInv, DeskTypes, AuthorizationMismatch, PageKeeps, Tidy
<1>2. Changes(tab, service)
  BY <1>1 DEF AuthorizationMismatch, Changes, SameCampaign, Answers
<1>3. stored' = NoRecord /\ unresolved' = {}
  BY <1>2 DEF AuthorizationMismatch, StoredAfter, Forgets
<1>4. PICK t : t = Refreshed(tab)
  OBVIOUS
<1>5. /\ t \in Tabs /\ t.config = service /\ t.draft = tab.draft /\ t.owner = "none" /\ t.search = Idle
      /\ t.elig = NoElig
  BY <1>1, <1>2, <1>4, RefreshedFields DEF DeskTypes
<1>6. tab' = Ended(t)
  BY <1>4 DEF AuthorizationMismatch
<1>7. tab' \in Tabs /\ Tidy(tab', stored') /\ Steady
  BY <1>1, <1>5, <1>6, BlankTypes, EndTidy DEF DeskTypes
<1> QED
  BY <1>1, <1>3, <1>7, BlankTypes DEF DeskInv, DeskTypes, Timely, Locked

-----------------------------------------------------------------------------
(* The release *)

LEMMA PendingKeeps == ASSUME DeskInv, Pending PROVE DeskInv' /\ Steady
<1>1. /\ tab \in Tabs /\ stored \in Records /\ DeskTypes /\ Tidy(tab, stored)
      /\ UNCHANGED <<now, service, served, unresolved>> /\ tab.auth.at = "release"
  BY DEF DeskInv, DeskTypes, Pending, AuthAt
<1>2. CASE ~Current
  <2>1. UNCHANGED <<tab, stored>>
    BY <1>2 DEF Pending
  <2> QED
    BY <1>1, <2>1 DEF DeskInv, DeskTypes, Timely, Locked, Steady, Tidy, Locks, UnderWay, Reconciled, Unread
<1>3. CASE Current
  <2>1. tab' = [tab EXCEPT !.flow = "proof-building", !.checked = FALSE] /\ stored' = Persisted(tab, tab.auth.pair, TRUE)
    BY <1>3 DEF Pending
  <2>2. /\ tab' \in Tabs /\ tab'.config = tab.config /\ tab'.draft = tab.draft /\ tab'.elig = tab.elig
        /\ tab'.owner = tab.owner /\ tab'.auth = tab.auth /\ tab'.due = tab.due /\ tab'.search = tab.search
        /\ tab'.started = tab.started /\ tab'.account = tab.account
    BY <1>1, <2>1 DEF Tabs, FlowNames
  <2>3. tab.owner = "auth" /\ ~tab.due /\ tab.auth.pair \in Pairs
    BY <1>1, <1>3 DEF Current, Tidy
  <2>4. Tidy(tab', stored')
    BY <1>1, <2>2, <2>3 DEF Tidy
  <2>5. stored' \in Records
    BY <1>1, <2>1, <2>3, PersistedRecords
  <2>6. DeskTypes' /\ Timely'
    BY <1>1, <2>2, <2>5 DEF DeskTypes, DeskInv, Timely
  <2>7. ASSUME NEW s \in unresolved, UnderWay(tab, stored, s) PROVE UnderWay(tab', stored', s)
    <3>1. s \in Submissions /\ s.at <= now /\ now < s.at + TTL
      BY <1>1 DEF DeskTypes, DeskInv, Timely
    <3>2. /\ tab.config \in Configs /\ tab.config.mode = "write" /\ tab.config.campaign = s.campaign
          /\ tab.started = s.at /\ (stored \in Kind(s) \/ stored = NoRecord) /\ tab.auth.pair = s.pair
      BY <2>7 DEF UnderWay
    <3>3. stored' \in Kind(s)
      BY <1>1, <2>1, <3>1, <3>2, PersistedKind
    <3> QED
      BY <2>2, <2>7, <3>3 DEF UnderWay
  <2>8. ASSUME NEW s \in unresolved, Locks(tab, stored, s) PROVE Locks(tab', stored', s)
    BY <1>1, <2>7, <2>8 DEF Locks, Reconciled, Unread
  <2> QED
    BY <1>1, <2>2, <2>4, <2>6, <2>8 DEF DeskInv, Locked, Steady
<1> QED
  BY <1>2, <1>3

\* Lost sight of, a submission stays locked until it is reconciled.
LEMMA UncertainKeeps ==
    ASSUME DeskInv, tab.auth.at = "release", Uncertain, PageKeeps
    PROVE  DeskInv' /\ Steady
<1>1. /\ tab \in Tabs /\ stored \in Records /\ DeskTypes /\ Tidy(tab, stored)
      /\ UNCHANGED <<now, service, served, unresolved>>
      /\ stored' = Persisted(tab, tab.auth.pair, TRUE)
  BY DEF DeskInv, DeskTypes, Uncertain, PageKeeps
<1>2. PICK t : t = [tab EXCEPT !.flow = "release-uncertain", !.checked = FALSE]
  OBVIOUS
<1>3. /\ t \in Tabs /\ t.config = tab.config /\ t.draft = tab.draft /\ t.elig = tab.elig /\ t.owner = tab.owner
      /\ t.due = tab.due /\ t.search = tab.search /\ t.started = tab.started /\ t.flow = "release-uncertain"
  BY <1>1, <1>2 DEF Tabs, FlowNames
<1>4. /\ tab.config \in Configs /\ tab.search.at = "off" /\ tab.auth.pair \in Pairs
      /\ tab.due => tab.elig = NoElig
      /\ tab.elig # NoElig => tab.elig.pair = tab.draft /\ tab.draft # NoPair
  BY <1>1 DEF Tidy, Tabs
<1>5. tab' = Ended(t)
  BY <1>2 DEF Uncertain
<1>6. /\ tab' \in Tabs /\ Tidy(tab', stored') /\ Steady
      /\ tab'.auth.at = "off" /\ tab'.config = tab.config /\ tab'.draft = tab.draft /\ tab'.elig = tab.elig
      /\ tab'.started = tab.started /\ tab'.due = tab.due
      /\ tab'.owner = (IF tab.owner = "auth" THEN "none" ELSE tab.owner)
      /\ tab'.flow = "release-uncertain"
  BY <1>3, <1>4, <1>5, EndTidy
<1>7. stored' \in Records
  BY <1>1, <1>4, PersistedRecords
<1>8. DeskTypes' /\ Timely'
  BY <1>1, <1>6, <1>7 DEF DeskTypes, DeskInv, Timely
<1>9. ASSUME NEW s \in unresolved, UnderWay(tab, stored, s) PROVE Reconciled(tab', stored', s)
  <2>1. s \in Submissions /\ s.at <= now /\ now < s.at + TTL
    BY <1>1 DEF DeskTypes, DeskInv, Timely
  <2>2. /\ tab.config \in Configs /\ tab.config.mode = "write" /\ tab.config.campaign = s.campaign
        /\ tab.started = s.at /\ (stored \in Kind(s) \/ stored = NoRecord) /\ tab.auth.pair = s.pair
        /\ tab.draft = s.pair /\ ~tab.due /\ tab.owner \in {"auth", "none"}
    BY <1>9 DEF UnderWay
  <2>3. stored' \in Kind(s)
    BY <1>1, <2>1, <2>2, PersistedKind
  <2> QED
    BY <1>6, <2>2, <2>3 DEF Reconciled, StatusFlows
<1>10. ASSUME NEW s \in unresolved, Locks(tab, stored, s) PROVE Locks(tab', stored', s)
  BY <1>9, <1>10 DEF Locks, Reconciled, Unread
<1> QED
  BY <1>1, <1>6, <1>8, <1>10 DEF DeskInv, Locked

LEMMA ReleaseLostKeeps == ASSUME DeskInv, ReleaseLost PROVE DeskInv' /\ Steady
BY UncertainKeeps DEF ReleaseLost, AuthAt

LEMMA ReleaseAnswerKeeps == ASSUME DeskInv, ReleaseAnswer PROVE DeskInv' /\ Steady
<1>1. /\ tab \in Tabs /\ stored \in Records /\ DeskTypes /\ Tidy(tab, stored) /\ UNCHANGED <<now, service, served>>
      /\ tab.auth.at = "release" /\ PageKeeps
  BY DEF DeskInv, DeskTypes, ReleaseAnswer, PageKeeps, AuthAt
<1>2. CASE ~Current
  <2>1. Uncertain
    BY <1>2 DEF ReleaseAnswer
  <2> QED
    BY <1>1, <2>1, UncertainKeeps
<1>3. CASE Current
  <2>1. PICK e : e = [tab.elig EXCEPT !.status = "claimed"]
    OBVIOUS
  <2>2. e \in Eligs /\ e.pair = tab.elig.pair
    BY <1>1, <2>1 DEF Tabs, Eligs
  <2>3. PICK t : t = [tab EXCEPT !.flow = "released", !.elig = e, !.checked = FALSE]
    OBVIOUS
  <2>4. /\ t \in Tabs /\ t.config = tab.config /\ t.draft = tab.draft /\ t.owner = tab.owner
        /\ t.search = tab.search /\ t.elig = e
    BY <1>1, <2>2, <2>3 DEF Tabs, FlowNames
  <2>5. /\ tab' = Refreshed(Ended(t)) /\ unresolved' = {}
        /\ stored' = IF Changes(tab, service) THEN NoRecord ELSE Persisted(tab, tab.auth.pair, FALSE)
    BY <1>3, <2>1, <2>3 DEF ReleaseAnswer
  <2>6. stored' \in Records /\ (stored' = NoRecord \/ stored'.pair = tab.draft)
    <3>1. tab.auth.pair \in Pairs /\ tab.draft = tab.auth.pair /\ tab.config # NoConfig /\ tab.config.mode = "write"
      BY <1>1, <1>3 DEF Current, Tidy
    <3>2. PICK r : r = Persisted(tab, tab.auth.pair, FALSE)
      OBVIOUS
    <3>3. r \in Records /\ (r = NoRecord \/ r.pair = tab.auth.pair)
      BY <1>1, <3>1, <3>2, PersistedRecords
    <3> QED
      BY <2>5, <3>1, <3>2, <3>3, BlankTypes
  <2>7. tab' \in Tabs /\ Tidy(tab', stored') /\ tab'.auth.at = "off"
    BY <1>1, <1>3, <2>2, <2>4, <2>5, <2>6, ResolvedTidy
  <2> QED
    BY <1>1, <2>5, <2>6, <2>7 DEF DeskInv, DeskTypes, Timely, Locked, Steady
<1> QED
  BY <1>2, <1>3

LEMMA ReleaseClosedKeeps == ASSUME DeskInv, ReleaseClosed PROVE DeskInv' /\ Steady
<1>1. PageKeeps /\ tab.auth.at = "release" /\ IF Current THEN Closes ELSE Uncertain
  BY DEF ReleaseClosed, AuthAt
<1> QED
  BY <1>1, ClosesKeeps, UncertainKeeps

\* What the release is for, and under what.
AsShown ==
    /\ tab.draft = tab.auth.pair
    /\ tab.account = WalletOf(tab.auth.pair)
    /\ tab.auth.config = service /\ service.open

LEMMA FreshConfigKeeps ==
    ASSUME DeskInv, FreshConfig
    PROVE  DeskInv' /\ tab.auth.at = "fresh" /\ (tab'.auth.at = "release" => AsShown)
<1> DEFINE pair == tab.auth.pair
<1>1. /\ tab \in Tabs /\ stored \in Records /\ service \in Configs /\ DeskTypes /\ Tidy(tab, stored)
      /\ UNCHANGED <<now, service, served>>
      /\ tab.auth.at = "fresh" /\ pair \in Pairs /\ tab.config \in Configs /\ tab.search.at = "off"
  BY DEF DeskInv, DeskTypes, FreshConfig, AuthAt, Tidy, Tabs
<1>2. PICK next : next = IF Current THEN Applied(tab, service) ELSE tab
  OBVIOUS
<1>3. next \in Tabs /\ (~Current => next = tab)
  BY <1>1, <1>2, AppliedFields
<1>4. ASSUME Current
      PROVE  /\ next.config = service /\ next.account = tab.account /\ next.draft = tab.draft
             /\ next.connecting = tab.connecting /\ next.auth.at = tab.auth.at /\ next.auth.pair = pair
             /\ next.auth.config = tab.auth.config
             /\ Changes(tab, service) => next.owner = "none" /\ next.search.at = "off" /\ next.elig = NoElig /\ next.due
             /\ ~Changes(tab, service) =>
                   /\ next.owner = tab.owner /\ next.search = tab.search /\ next.elig = tab.elig
                   /\ next.due = (tab.due \/ tab.config = NoConfig) /\ next.auth = tab.auth
  BY <1>1, <1>2, <1>4, AppliedFields, BlankTypes
<1>5. PICK still : still = (next.owner = "auth" /\ next.auth.wallet)
  OBVIOUS
<1>6. CASE CanContinue(still, tab.auth.config, service)
  <2>1. Current /\ tab.auth.config = service /\ service.open /\ service.mode = "write" /\ next.owner = "auth"
    BY <1>3, <1>5, <1>6 DEF CanContinue, Current
  <2>2. ~Changes(tab, service)
    BY <1>4, <2>1
  <2>3. PICK a : a = [next.auth EXCEPT !.at = "release"]
    OBVIOUS
  <2>4. /\ a \in Auths /\ a.at = "release" /\ a.pair = pair /\ a.config = service
    BY <1>3, <1>4, <2>1, <2>3 DEF Tabs, Auths, Stages
  <2>5. PICK t : t = [next EXCEPT !.auth = a, !.started = now, !.checked = FALSE, !.flow = "proof-queued"]
    OBVIOUS
  <2>6. PICK s : s = [campaign |-> service.campaign, pair |-> pair, at |-> now, lifted |-> FALSE]
    OBVIOUS
  <2>7. tab' = t /\ stored' = Persisted(t, pair, TRUE) /\ unresolved' = {s}
    BY <1>2, <1>5, <1>6, <2>3, <2>5, <2>6 DEF FreshConfig
  <2>8. /\ t \in Tabs /\ t.config = service /\ t.draft = tab.draft /\ t.elig = tab.elig /\ t.owner = "auth"
        /\ t.auth = a /\ t.due = (tab.due \/ tab.config = NoConfig) /\ t.search = tab.search /\ t.started = now
        /\ t.account = tab.account
    <3>1. PICK k \in Int : k = now
      BY <1>1 DEF DeskTypes
    <3>2. t = [next EXCEPT !.auth = a, !.started = k, !.checked = FALSE, !.flow = "proof-queued"]
      BY <2>5, <3>1
    <3>3. /\ t \in Tabs /\ t.config = next.config /\ t.draft = next.draft /\ t.elig = next.elig /\ t.owner = next.owner
          /\ t.auth = a /\ t.due = next.due /\ t.search = next.search /\ t.started = k /\ t.account = next.account
      BY <1>3, <2>4, <3>2 DEF Tabs, FlowNames
    <3> QED
      BY <1>4, <2>1, <2>2, <3>1, <3>3
  <2>9. AsShown
    BY <1>1, <2>1 DEF AsShown, Current, AuthAt, Tidy
  <2>10. ~t.due /\ tab.draft = pair /\ tab.elig # NoElig
    BY <1>1, <2>1, <2>8, ConfigsAssumption DEF Current, Tidy
  <2>11. Tidy(t, stored')
    BY <1>1, <2>1, <2>4, <2>8, <2>9, <2>10, ConfigsAssumption DEF Tidy, AsShown
  <2>12. stored' \in Records
    BY <1>1, <2>7, <2>8, PersistedRecords
  <2>13. now \in Nat /\ TTL \in Nat \ {0}
    BY <1>1, BoundsAssumption DEF DeskTypes
  <2>14. s \in Submissions /\ s.pair = pair /\ s.campaign = service.campaign /\ s.at = now
    BY <1>1, <2>6, <2>13 DEF Submissions, Campaigns
  <2>15. stored' \in Kind(s) \cup {NoRecord}
    BY <1>1, <2>1, <2>7, <2>8, <2>13, <2>14, FreshlyPersisted
  <2>16. UnderWay(t, stored', s)
    BY <1>1, <2>1, <2>4, <2>8, <2>10, <2>14, <2>15 DEF UnderWay
  <2> QED
    <3>1. DeskTypes'
      BY <1>1, <2>7, <2>8, <2>12, <2>14 DEF DeskTypes
    <3>2. Timely'
      BY <1>1, <2>7, <2>13, <2>14 DEF Timely
    <3>3. Tidy(tab', stored')
      BY <2>7, <2>11
    <3>4. Locked'
      BY <2>7, <2>16 DEF Locked, Locks
    <3> QED
      BY <1>1, <2>9, <3>1, <3>2, <3>3, <3>4 DEF DeskInv
<1>7. CASE ~CanContinue(still, tab.auth.config, service)
  <2>1. /\ stored' = IF Current THEN StoredAfter(tab, service) ELSE stored
        /\ unresolved' = IF Current THEN Forgets(tab, service) ELSE unresolved
    BY <1>2, <1>5, <1>7 DEF FreshConfig
  <2>2. PICK t \in Tabs :
            /\ tab' = Ended(t) /\ t.config \in Configs /\ t.search.at = "off" /\ t.owner \in {tab.owner, "none"}
            /\ t.draft = tab.draft /\ t.elig \in {tab.elig, NoElig}
            /\ Current /\ Changes(tab, service) => t.elig = NoElig
            /\ ~(Current /\ Changes(tab, service)) => t.due = tab.due
    <3>1. CASE ~Current
      <4>1. tab' = Ended(tab)
        BY <1>2, <1>5, <1>7, <3>1 DEF FreshConfig
      <4> QED
        BY <1>1, <3>1, <4>1
    <3>2. CASE Current
      <4>1. PICK f \in FlowNames : f = InterruptionFlow(service)
        BY FlowTypes DEF FlowNames
      <4>2. PICK e \in Eligs : e = IF f = "campaign-closed" THEN next.elig ELSE NoElig
        BY <1>3, BlankTypes DEF Tabs
      <4>3. PICK t : t = [next EXCEPT !.flow = f, !.elig = e]
        OBVIOUS
      <4>4. tab' = Ended(t)
        BY <1>2, <1>5, <1>7, <3>2, <4>1, <4>2, <4>3 DEF FreshConfig
      <4>5. /\ t \in Tabs /\ t.config = next.config /\ t.draft = next.draft /\ t.elig = e /\ t.owner = next.owner
            /\ t.due = next.due /\ t.search = next.search
        BY <1>3, <4>1, <4>2, <4>3 DEF Tabs
      <4>6. CASE Changes(tab, service)
        BY <1>1, <1>4, <3>2, <4>2, <4>4, <4>5, <4>6
      <4>7. CASE ~Changes(tab, service)
        <5>1. next.due = tab.due
          BY <1>1, <1>3, <1>4, <3>2, <4>7, ConfigsAssumption DEF Tabs
        <5> QED
          BY <1>1, <1>4, <3>2, <4>2, <4>4, <4>5, <4>7, <5>1
      <4> QED
        BY <4>6, <4>7
    <3> QED
      BY <3>1, <3>2
  <2>3. tab.elig # NoElig => tab.elig.pair = tab.draft /\ tab.draft # NoPair
    BY <1>1 DEF Tidy
  <2>4. /\ stored' \in {stored, NoRecord}
        /\ unresolved' \in {unresolved, {}}
    BY <2>1 DEF StoredAfter, Forgets
  <2>5. t.due /\ t.elig # NoElig => stored' = NoRecord \/ stored'.pair = t.draft
    BY <1>1, <2>2, <2>4 DEF Tidy
  <2>6. tab' \in Tabs /\ Tidy(tab', stored') /\ tab'.auth.at = "off"
    BY <1>1, <2>2, <2>3, <2>5, EndTidy
  <2>7. DeskTypes' /\ Timely'
    BY <1>1, <2>4, <2>6, BlankTypes DEF DeskTypes, DeskInv, Timely
  <2>8. Locked'
    BY <1>1, <2>4, NoneHeld DEF Locked, Locks
  <2> QED
    BY <1>1, <2>6, <2>7, <2>8 DEF DeskInv
<1> QED
  BY <1>6, <1>7

-----------------------------------------------------------------------------
(* The service, the clock and the page *)

LEMMA ServeKeeps == ASSUME DeskInv, Serve PROVE DeskInv' /\ Steady
<1>1. UNCHANGED <<now, service, tab, stored, unresolved>> /\ DeskTypes
  BY DEF Serve, DeskInv
<1>2. served' \in [Campaigns \X Pairs -> Outcomes]
  BY <1>1 DEF Serve, DeskTypes, Outcomes
<1> QED
  BY <1>1, <1>2 DEF DeskInv, DeskTypes, Timely, Locked, Steady, Tidy, Locks, UnderWay, Reconciled, Unread

LEMMA ReconfigureKeeps == ASSUME DeskInv, NEW config \in Configs, Reconfigure(config) PROVE DeskInv' /\ Steady
<1>1. UNCHANGED <<now, served, tab, stored, unresolved>> /\ service' \in Configs
  BY DEF Reconfigure
<1> QED
  BY <1>1 DEF DeskInv, DeskTypes, Timely, Locked, Steady, Tidy, Locks, UnderWay, Reconciled, Unread

LEMMA TickKeeps == ASSUME DeskInv, Tick PROVE DeskInv' /\ Steady
<1>1. /\ UNCHANGED <<service, served, tab, stored>> /\ now' = now + 1 /\ now \in Nat
      /\ unresolved' = {s \in unresolved : now' < s.at + TTL} /\ unresolved \in SUBSET Submissions
  BY DEF Tick, DeskInv, DeskTypes
<1>2. ASSUME NEW s \in unresolved' PROVE s \in unresolved /\ s.at <= now' /\ now' < s.at + TTL
  <2>1. s \in unresolved /\ s.at <= now /\ s.at \in Nat /\ now' < s.at + TTL
    BY <1>1 DEF DeskInv, Timely, Submissions
  <2> QED
    BY <1>1, <2>1
<1>3. DeskTypes' /\ Timely'
  BY <1>1, <1>2 DEF DeskInv, DeskTypes, Timely
<1>4. Locked'
  BY <1>1, <1>2 DEF DeskInv, Locked, Locks, UnderWay, Reconciled, Unread
<1> QED
  BY <1>1, <1>3, <1>4 DEF DeskInv, Steady, Tidy

LEMMA ReloadKeeps ==
    ASSUME DeskInv, NEW account \in Wallets \cup {NoWallet}, Reload(account)
    PROVE  DeskInv' /\ Steady
<1>1. DeskTypes /\ UNCHANGED <<now, service, served, stored, unresolved>>
  BY DEF DeskInv, Reload
<1>2. PICK i \in Prompts, e \in Eligs, a \in Auths, k \in Int : i = Idle /\ e = NoElig /\ a = AuthOff /\ k = None
  BY BlankTypes, NoneType
<1>3. tab' = [config |-> NoConfig, account |-> account, draft |-> NoPair, elig |-> e, flow |-> "empty",
              owner |-> "none", started |-> k, due |-> FALSE, checked |-> FALSE, connecting |-> FALSE, search |-> i,
              auth |-> a]
  BY <1>2 DEF Reload, Page
<1>4. tab' \in Tabs
  BY <1>3 DEF Tabs, FlowNames, Owners
<1>5. tab'.auth.at = "off" /\ tab'.draft = NoPair /\ tab'.elig = NoElig /\ tab'.owner = "none" /\ ~tab'.checked
  BY <1>2, <1>3, BlankTypes
<1>6. Tidy(tab', stored')
  BY <1>2, <1>3, BlankTypes DEF Tidy
<1>7. DeskTypes' /\ Timely'
  BY <1>1, <1>4 DEF DeskInv, DeskTypes, Timely
<1>8. ASSUME NEW s \in unresolved, Locks(tab, stored, s) PROVE Locks(tab', stored', s)
  BY <1>1, <1>5, <1>8 DEF Locks, UnderWay, Reconciled, Unread
<1> QED
  BY <1>1, <1>5, <1>6, <1>7, <1>8 DEF DeskInv, Locked, Steady

-----------------------------------------------------------------------------

Asked == tab.auth.at = "challenge" /\ tab'.auth.at = "sign"
Submits == tab.auth.at = "fresh" /\ tab'.auth.at = "release"

\* What a step may never do, beside keeping the invariant.
NeverAgain == Asked => ~\E s \in unresolved : s.pair = tab.auth.pair /\ s.campaign = tab.config.campaign /\ ~s.lifted
OnlyAsShown == Submits => AsShown

LEMMA SteadyIsSafe == Steady => NeverAgain /\ OnlyAsShown
BY DEF Steady, NeverAgain, OnlyAsShown, Asked, Submits

LEMMA AnsweredKeeps == ASSUME DeskInv, Answered PROVE DeskInv' /\ NeverAgain /\ OnlyAsShown
<1>1. CASE Challenge
  BY <1>1, ChallengeKeeps DEF NeverAgain, OnlyAsShown, Asked, Submits
<1>2. CASE Signature
  BY <1>2, SignatureKeeps DEF NeverAgain, OnlyAsShown, Asked, Submits
<1>3. CASE FreshConfig
  BY <1>3, FreshConfigKeeps DEF NeverAgain, OnlyAsShown, Asked, Submits
<1>4. CASE ResumeEffect \/ ResumeAnswer \/ ResumeFails
  BY <1>4, ResumeEffectKeeps, ResumeAnswerKeeps, ResumeFailsKeeps, SteadyIsSafe
<1>5. CASE CheckAnswer \/ CheckMismatch \/ CheckFails
  BY <1>5, CheckAnswerKeeps, CheckMismatchKeeps, CheckFailsKeeps, SteadyIsSafe
<1>6. CASE Admission \/ ConnectRefused \/ AuthorizationFails \/ AuthorizationMismatch \/ AuthorizationClosed
  BY <1>6, AdmissionKeeps, ConnectRefusedKeeps, AuthorizationFailsKeeps, AuthorizationMismatchKeeps,
     AuthorizationClosedKeeps, SteadyIsSafe
<1>7. CASE ReleaseAnswer \/ ReleaseClosed \/ ReleaseLost
  BY <1>7, ReleaseAnswerKeeps, ReleaseClosedKeeps, ReleaseLostKeeps, SteadyIsSafe
<1>8. CASE WalletRefused \/ SearchAnswer \/ SearchFails
  BY <1>8, WalletRefusedKeeps, SearchAnswerKeeps, SearchFailsKeeps, SteadyIsSafe
<1>9. CASE \E account \in Wallets : Connect(account) \/ WalletConnected(account) \/ SearchConnected(account)
  BY <1>9, ConnectKeeps, WalletConnectedKeeps, SearchConnectedKeeps, SteadyIsSafe
<1> QED
  BY <1>1, <1>2, <1>3, <1>4, <1>5, <1>6, <1>7, <1>8, <1>9 DEF Answered

LEMMA NextDeskInv == DeskInv /\ [Next]_vars => DeskInv' /\ NeverAgain /\ OnlyAsShown
<1> SUFFICES ASSUME DeskInv, [Next]_vars PROVE DeskInv' /\ NeverAgain /\ OnlyAsShown
  OBVIOUS
<1>1. CASE Answered
  BY <1>1, AnsweredKeeps
<1>2. CASE Poll \/ Pending \/ CheckPair \/ Authorize \/ WalletControl
  BY <1>2, PollKeeps, PendingKeeps, CheckPairKeeps, AuthorizeKeeps, WalletControlKeeps, SteadyIsSafe
<1>3. CASE \E connected \in BOOLEAN : Discover(connected)
  BY <1>3, DiscoverKeeps, SteadyIsSafe
<1>4. CASE \E pair \in Pairs : ChangePairField(pair) \/ SharedLink(pair)
  BY <1>4, ChangePairFieldKeeps, SharedLinkKeeps, SteadyIsSafe
<1>5. CASE \E account \in Wallets \cup {NoWallet} : AccountsChanged(account) \/ Reload(account)
  BY <1>5, AccountsChangedKeeps, ReloadKeeps, SteadyIsSafe
<1>6. CASE Serve \/ Tick
  BY <1>6, ServeKeeps, TickKeeps, SteadyIsSafe
<1>7. CASE \E config \in Configs : Reconfigure(config)
  BY <1>7, ReconfigureKeeps, SteadyIsSafe
<1>8. CASE UNCHANGED vars
  <2>1. UNCHANGED <<now, service, served, tab, stored, unresolved>>
    BY <1>8 DEF vars
  <2>2. DeskInv' /\ Steady
    BY <2>1 DEF DeskInv, DeskTypes, Timely, Locked, Steady, Tidy, Locks, UnderWay, Reconciled, Unread
  <2> QED
    BY <2>2, SteadyIsSafe
<1> QED
  BY <1>1, <1>2, <1>3, <1>4, <1>5, <1>6, <1>7, <1>8 DEF Next

LEMMA DeskInvariance == Spec => []DeskInv
<1>1. DeskInv /\ [Next]_vars => DeskInv'
  BY NextDeskInv
<1> QED
  BY InitDeskInv, <1>1, PTL DEF Spec

\* A release goes out only for the pair on screen, signed by its own wallet
\* under the configuration that was shown and still holds
\* (authorizeAndRelease), whatever happened between its awaits.
THEOREM SubmissionsAsShown == Spec => SubmittedAsShown
<1>1. DeskInv /\ [Next]_vars =>
          [tab.auth.at = "fresh" /\ tab'.auth.at = "release" =>
              /\ tab.draft = tab.auth.pair
              /\ tab.account = WalletOf(tab.auth.pair)
              /\ tab.auth.config = service /\ service.open]_vars
  BY NextDeskInv DEF OnlyAsShown, Submits, AsShown
<1> QED
  BY DeskInvariance, <1>1, PTL DEF Spec, SubmittedAsShown

\* While a submission may still be paid, the wallet is not asked to sign for
\* the same pair again (persistSubmittedRecovery and the resume effect), unless
\* the lock was written over by a wallet search or a refused account request.
THEOREM SignedOnce == Spec => NoSecondSignature
<1>1. DeskInv /\ [Next]_vars =>
          [tab.auth.at = "challenge" /\ tab'.auth.at = "sign" =>
              ~\E s \in unresolved :
                  s.pair = tab.auth.pair /\ s.campaign = tab.config.campaign /\ ~s.lifted]_vars
  BY NextDeskInv DEF NeverAgain, Asked
<1> QED
  BY DeskInvariance, <1>1, PTL DEF Spec, NoSecondSignature

-----------------------------------------------------------------------------
(* The search of a wallet's history *)

Above(rows, i) == {j \in rows : j > i}

\* Of at least n rows, exactly n have fewer than n above them.
LEMMA TopCount ==
    ASSUME NEW S \in SUBSET Int, IsFiniteSet(S), NEW n \in Nat, n <= Cardinality(S)
    PROVE  Cardinality({i \in S : Cardinality(Above(S, i)) < n}) = n
<1> DEFINE c == Cardinality(S)
           f == [i \in S |-> Cardinality(Above(S, i))]
           top == {i \in S : Cardinality(Above(S, i)) < n}
<1>1. c \in Nat
  BY FS_CardinalityType
<1>2. \A i \in S : Cardinality(Above(S, i)) \in 0..(c - 1)
  <2> TAKE i \in S
  <2>1. Above(S, i) \in SUBSET (S \ {i}) /\ IsFiniteSet(S \ {i}) /\ Cardinality(S \ {i}) = c - 1
    <3>1. Above(S, i) \in SUBSET (S \ {i})
      BY DEF Above
    <3>2. IsFiniteSet(S \ {i}) /\ Cardinality(S \ {i}) = Cardinality(S) - 1
      BY FS_RemoveElement
    <3> QED
      BY <3>1, <3>2
  <2>2. IsFiniteSet(Above(S, i)) /\ Cardinality(Above(S, i)) <= c - 1
    BY <2>1, FS_Subset
  <2> QED
    BY <1>1, <2>2, FS_CardinalityType
<1>3. ASSUME NEW i \in S, NEW j \in S, i < j PROVE Cardinality(Above(S, j)) < Cardinality(Above(S, i))
  <2>0. \A k \in S : k > j => k > i
    BY <1>3
  <2>1. Above(S, j) \in SUBSET Above(S, i) /\ j \in Above(S, i) /\ j \notin Above(S, j)
    <3>1. Above(S, j) \in SUBSET Above(S, i)
      BY <2>0 DEF Above
    <3>2. j \in Above(S, i) /\ j \notin Above(S, j)
      BY <1>3 DEF Above
    <3> QED
      BY <3>1, <3>2
  <2>2. IsFiniteSet(Above(S, i)) /\ IsFiniteSet(Above(S, j))
    BY FS_Subset DEF Above
  <2>3. Cardinality(Above(S, j)) <= Cardinality(Above(S, i))
        /\ Cardinality(Above(S, j)) # Cardinality(Above(S, i))
    BY <2>1, <2>2, FS_Subset
  <2> QED
    BY <2>2, <2>3, FS_CardinalityType
<1>4. f \in Injection(S, 0..(c - 1))
  <2>1. f \in [S -> 0..(c - 1)]
    BY <1>2
  <2>2. ASSUME NEW i \in S, NEW j \in S, f[i] = f[j] PROVE i = j
    BY <1>2, <1>3, <2>2
  <2> QED
    BY <2>1, <2>2 DEF Injection, IsInjective
<1>5. IsFiniteSet(0..(c - 1)) /\ Cardinality(0..(c - 1)) = c
  <2> HIDE DEF c
  <2>1. 0 \in Int /\ c - 1 \in Int
    BY <1>1
  <2> QED
    BY <1>1, <2>1, FS_Interval
<1>6. f \in Surjection(S, 0..(c - 1))
  BY <1>4, <1>5, FS_Injection
<1> DEFINE g == [i \in top |-> f[i]]
<1>7. g \in Injection(top, 0..(n - 1))
  <2>1. \A i \in top : f[i] = Cardinality(Above(S, i)) /\ f[i] \in 0..(n - 1)
    BY <1>2
  <2>2. \A i, j \in top : g[i] = g[j] => i = j
    BY <1>4 DEF Injection, IsInjective
  <2> QED
    BY <2>1, <2>2 DEF Injection, IsInjective
<1>8. \A k \in 0..(n - 1) : \E i \in top : g[i] = k
  <2> TAKE k \in 0..(n - 1)
  <2>0. k \in 0..(c - 1)
    BY <1>1
  <2>1. PICK i \in S : f[i] = k
    <3> HIDE DEF f, c
    <3> QED
      BY <2>0, <1>6 DEF Surjection
  <2>2. i \in top
    BY <2>1
  <2> QED
    BY <2>1, <2>2
<1>9. g \in Surjection(top, 0..(n - 1))
  BY <1>7, <1>8 DEF Surjection, Injection
<1>10. IsFiniteSet(0..(n - 1)) /\ Cardinality(0..(n - 1)) = n
  BY FS_Interval
<1> QED
  BY <1>7, <1>9, <1>10, FS_Injection

\* A page that is not full is the last.
LEMMA NewestAll ==
    ASSUME NEW S \in SUBSET Int, IsFiniteSet(S), Cardinality(Newest(S)) # PageSize
    PROVE  S \subseteq Newest(S)
<1>1. PageSize \in Nat
  BY DiscoveryAssumption
<1>2. ~(PageSize <= Cardinality(S))
  <2>1. Newest(S) = {i \in S : Cardinality(Above(S, i)) < PageSize}
    BY DEF Newest, Above
  <2> QED
    BY <1>1, <2>1, TopCount
<1>3. ASSUME NEW i \in S PROVE Cardinality({j \in S : j > i}) < PageSize
  <2>1. {j \in S : j > i} \in SUBSET S
    OBVIOUS
  <2>2. Cardinality({j \in S : j > i}) \in Nat /\ Cardinality({j \in S : j > i}) <= Cardinality(S)
    BY <2>1, FS_Subset, FS_CardinalityType
  <2> QED
    BY <1>1, <1>2, <2>2, FS_CardinalityType
<1> QED
  BY <1>3 DEF Newest

\* The rows of a numbered page are those with as many above them as the earlier
\* pages hold, and not a page more.
LEMMA PageRows ==
    ASSUME NEW S \in SUBSET Int, IsFiniteSet(S), NEW n \in Nat, NEW i \in S,
           n <= Cardinality(Above(S, i)), Cardinality(Above(S, i)) < n + PageSize
    PROVE  i \in Newest(Older(S, n))
<1> DEFINE top == {j \in S : Cardinality(Above(S, j)) < n}
           older == Older(S, n)
           between == {j \in older : j > i}
<1>1. PageSize \in Nat
  BY DiscoveryAssumption
<1>2. IsFiniteSet(Above(S, i)) /\ Cardinality(Above(S, i)) <= Cardinality(S)
  <2>1. Above(S, i) \in SUBSET S
    BY DEF Above
  <2> QED
    BY <2>1, FS_Subset
<1>3. IsFiniteSet(top) /\ IsFiniteSet(between) /\ Cardinality(between) \in Nat /\ Cardinality(Above(S, i)) \in Nat
  <2>1. top \in SUBSET S /\ between \in SUBSET S
    BY DEF Older
  <2> QED
    BY <1>2, <2>1, FS_Subset, FS_CardinalityType
<1>4. Cardinality(top) = n
  <2>1. n <= Cardinality(S)
    BY <1>2, <1>3, FS_CardinalityType
  <2> QED
    BY <2>1, TopCount
<1>5. top \cap between = {}
  <2>1. ASSUME NEW j \in top, j \in between PROVE FALSE
    <3>1. Above(S, j) = {k \in S : k > j}
      BY DEF Above
    <3>2. Cardinality(Above(S, j)) >= n /\ Cardinality(Above(S, j)) < n
      BY <2>1, <3>1 DEF Older
    <3>3. Cardinality(Above(S, j)) \in Nat
      BY <2>1, FS_Subset, FS_CardinalityType DEF Above
    <3> QED
      BY <3>2, <3>3
  <2> QED
    BY <2>1
<1>6. top \cup between \subseteq Above(S, i)
  <2>1. ASSUME NEW j \in top PROVE j > i
    <3>1. CASE j <= i
      <4>0. \A k \in S : k > i => k > j
        BY <3>1
      <4>1. Above(S, i) \in SUBSET Above(S, j)
        BY <4>0 DEF Above
      <4>2. IsFiniteSet(Above(S, j)) /\ Above(S, j) \in SUBSET S
        BY FS_Subset DEF Above
      <4>3. Cardinality(Above(S, i)) <= Cardinality(Above(S, j)) /\ Cardinality(Above(S, j)) \in Nat
        BY <4>1, <4>2, FS_Subset, FS_CardinalityType
      <4>4. Cardinality(Above(S, j)) < n
        OBVIOUS
      <4> QED
        BY <1>3, <4>3, <4>4
    <3> QED
      BY <3>1
  <2> QED
    BY <2>1 DEF Above, Older
<1>7. Cardinality(top \cup between) = n + Cardinality(between)
  <2> HIDE DEF top, between
  <2>1. Cardinality(top \cup between) = Cardinality(top) + Cardinality(between) - Cardinality({})
    BY <1>3, <1>5, FS_Union
  <2>2. Cardinality({}) = 0
    BY FS_EmptySet
  <2> QED
    BY <1>3, <1>4, <2>1, <2>2
<1>8. Cardinality(top \cup between) <= Cardinality(Above(S, i))
  <2> HIDE DEF top, between
  <2> QED
    BY <1>2, <1>6, FS_Subset
<1>9. Cardinality(between) < PageSize
  <2> HIDE DEF top, between
  <2> QED
    BY <1>1, <1>3, <1>7, <1>8
<1>10. i \in older
  BY DEF Older, Above
<1> QED
  BY <1>9, <1>10 DEF Newest

-----------------------------------------------------------------------------

Rows == [block : Nat, ok : BOOLEAN, call : Calls \cup {NoCall}]
Searches(rows, length) ==
    [at : {"off", "listing", "listed", "found", "answered", "unavailable"},
     known : 0..length, provider : Nat, pages : Nat, seen : SUBSET rows, cut : BOOLEAN,
     found : SUBSET rows, partial : BOOLEAN, histories : Nat, matches : SUBSET rows]

SearchTypes == history \in Seq(Rows) /\ search \in Searches(DOMAIN history, Len(history))

\* The wallet's transactions are in the order of their blocks.
Sorted == \A i, j \in DOMAIN history : i <= j => history[i].block <= history[j].block

\* What the search has to account for.
KnownRows == {i \in 1..search.known : InWindow(i)}

\* By number: what is sent meanwhile only moves rows to later pages.
Paged ==
    search.at = "listing" /\ search.provider = 1 =>
        \A i \in KnownRows : Cardinality(Above(Window, i)) < search.pages * PageSize => i \in search.seen

\* From the cursor: what was not shown is older than all that was.
Walked ==
    search.at = "listing" /\ search.provider # 1 =>
        /\ search.pages = 0 => search.seen = {}
        /\ \A i \in 1..search.known : i \in search.seen \/ \A j \in search.seen : i < j

Room == search.at = "listing" => search.pages < MaxPages
Complete == search.at = "listed" /\ ~search.cut => KnownRows \subseteq search.seen

\* A second provider is asked after a history only if that was cut.
MergedPartial ==
    search.at \in {"listing", "listed"} /\ search.histories # 0 => search.provider # 1 /\ search.partial

AllFound == search.at = "found" /\ ~search.partial => PairsOf(KnownRows) \subseteq search.found

SearchInv ==
    SearchTypes /\ Sorted /\ Paged /\ Walked /\ Room /\ Complete /\ MergedPartial /\ AllFound /\ EmptyIsTrue

LEMMA RowsFinite ==
    ASSUME SearchTypes
    PROVE  /\ IsFiniteSet(Window) /\ Window \in SUBSET Nat
           /\ \A i \in DOMAIN history : history[i].block \in Nat
           /\ DOMAIN history = 1..Len(history) /\ Len(history) \in Nat
           /\ KnownRows \subseteq Window /\ 1..search.known \subseteq DOMAIN history
<1>1. Len(history) \in Nat /\ DOMAIN history = 1..Len(history) /\ search.known \in 0..Len(history)
      /\ \A i \in DOMAIN history : history[i].block \in Nat
  <2>1. history \in Seq(Rows)
    BY DEF SearchTypes
  <2>2. Len(history) \in Nat /\ DOMAIN history = 1..Len(history) /\ \A i \in 1..Len(history) : history[i] \in Rows
    BY <2>1
  <2>3. search.known \in 0..Len(history)
    BY DEF SearchTypes, Searches
  <2> QED
    BY <2>2, <2>3 DEF Rows
<1>2. IsFiniteSet(1..Len(history))
  BY <1>1, FS_Interval
<1>3. IsFiniteSet(Window)
  BY <1>1, <1>2, FS_Subset DEF Window
<1> QED
  BY <1>1, <1>3 DEF Window, KnownRows

\* The pairs among more rows are more.
LEMMA PairsGrow ==
    ASSUME NEW rows, NEW more, rows \subseteq more
    PROVE  PairsOf(rows) \subseteq PairsOf(more)
BY DEF PairsOf

\* What stays when the wallet sends nothing.
LEMMA Unmoved ==
    ASSUME UNCHANGED history, search'.known = search.known
    PROVE  /\ Window' = Window /\ KnownRows' = KnownRows /\ PairsOf(KnownRows)' = PairsOf(KnownRows)
           /\ Sorted' = Sorted
           /\ \A i : IsGenuine(i)' = IsGenuine(i)
BY DEF Window, KnownRows, InWindow, PairsOf, Sorted, IsGenuine

\* What one more page writes.
LEMMA ListedFields ==
    ASSUME SearchTypes, NEW rows \in SUBSET DOMAIN history, NEW more \in BOOLEAN,
           search.pages < MaxPages, search' = Listed(search, rows, more), history' = history
    PROVE  /\ search'.at \in {"listing", "listed"} /\ search'.pages = search.pages + 1
           /\ search'.seen = search.seen \cup rows
           /\ search'.at = "listing" => search.pages + 1 < MaxPages
           /\ search'.at = "listed" /\ ~search'.cut => ~more
           /\ search'.known = search.known /\ search'.provider = search.provider
           /\ search'.partial = search.partial /\ search'.histories = search.histories
           /\ SearchTypes'
<1> DEFINE at == IF more /\ search.pages + 1 < MaxPages THEN "listing" ELSE "listed"
           cut == more /\ search.pages + 1 = MaxPages
<1>1. search' = [search EXCEPT !.pages = search.pages + 1, !.seen = search.seen \cup rows, !.at = at, !.cut = cut]
  BY DEF Listed
<1>2. at \in {"listing", "listed"} /\ cut \in BOOLEAN
  OBVIOUS
<1>3. MaxPages \in Nat /\ search.pages \in Nat
  BY DiscoveryAssumption DEF SearchTypes, Searches
<1>4. (at = "listing" => search.pages + 1 < MaxPages) /\ (at = "listed" /\ ~cut => ~more)
  BY <1>3
<1> HIDE DEF at, cut
<1>5. PICK d, n : d = DOMAIN history /\ n = Len(history) /\ search \in Searches(d, n) /\ rows \in SUBSET d
  BY DEF SearchTypes
<1>6. /\ search' \in Searches(d, n)
      /\ search'.at = at /\ search'.pages = search.pages + 1 /\ search'.seen = search.seen \cup rows
      /\ search'.cut = cut /\ search'.known = search.known /\ search'.provider = search.provider
      /\ search'.partial = search.partial /\ search'.histories = search.histories
  <2>1. search.seen \cup rows \in SUBSET d /\ search.pages + 1 \in Nat
    BY <1>3, <1>5 DEF Searches
  <2>2. search' \in Searches(d, n)
    BY <1>1, <1>2, <1>5, <2>1 DEF Searches
  <2> QED
    BY <1>1, <1>5, <2>2 DEF Searches
<1> QED
  BY <1>2, <1>4, <1>5, <1>6 DEF SearchTypes

LEMMA NumberedPageKeeps == ASSUME SearchInv, NumberedPage PROVE SearchInv'
<1> DEFINE n == search.pages * PageSize
           more == Cardinality(Numbered) = PageSize
<1>1. SearchTypes /\ search.at = "listing" /\ search.provider = 1 /\ search' = Listed(search, Numbered, more)
      /\ history' = history
  BY DEF NumberedPage, SearchInv
<1>2. PageSize \in Nat \ {0} /\ MaxPages \in Nat \ {0} /\ search.pages \in Nat /\ search.pages < MaxPages /\ n \in Nat
  BY <1>1, DiscoveryAssumption DEF SearchInv, SearchTypes, Searches, Room
<1>3. /\ IsFiniteSet(Window) /\ Window \in SUBSET Nat /\ Window \in SUBSET Int /\ Window \subseteq DOMAIN history
      /\ KnownRows \subseteq Window
  BY <1>1, RowsFinite DEF Window
<1>4. Numbered \subseteq Window
  BY DEF Numbered, Newest, Older
<1>5. /\ search'.at \in {"listing", "listed"} /\ search'.pages = search.pages + 1
      /\ search'.seen = search.seen \cup Numbered
      /\ search'.at = "listing" => search.pages + 1 < MaxPages
      /\ search'.at = "listed" /\ ~search'.cut => ~more
      /\ search'.known = search.known /\ search'.provider = 1
      /\ search'.partial = search.partial /\ search'.histories = search.histories
      /\ SearchTypes'
  <2>1. Numbered \in SUBSET DOMAIN history /\ more \in BOOLEAN
    BY <1>3, <1>4
  <2> HIDE DEF more
  <2> QED
    BY <1>1, <1>2, <2>1, ListedFields
<1>6. SearchTypes'
  BY <1>5
<1>7. Window' = Window /\ KnownRows' = KnownRows /\ Sorted'
  BY <1>1, <1>5, Unmoved DEF SearchInv
<1>8. ASSUME NEW i \in KnownRows, Cardinality(Above(Window, i)) < n PROVE i \in search.seen
  BY <1>1, <1>8 DEF SearchInv, Paged
<1>9. \A i \in Window : Cardinality(Above(Window, i)) \in Nat
  BY <1>3, FS_Subset, FS_CardinalityType DEF Above
<1>10. Paged'
  <2> SUFFICES ASSUME NEW i \in KnownRows, Cardinality(Above(Window, i)) < (search.pages + 1) * PageSize
               PROVE  i \in search.seen \cup Numbered
    BY <1>5, <1>7 DEF Paged, Above
  <2>1. (search.pages + 1) * PageSize = n + PageSize
    BY <1>2
  <2>2. CASE Cardinality(Above(Window, i)) < n
    BY <1>8, <2>2
  <2>3. CASE ~(Cardinality(Above(Window, i)) < n)
    <3>1. n <= Cardinality(Above(Window, i)) /\ Cardinality(Above(Window, i)) < n + PageSize
      BY <1>2, <1>3, <1>9, <2>1, <2>3
    <3>2. i \in Newest(Older(Window, n))
      BY <1>2, <1>3, <3>1, PageRows
    <3> QED
      BY <3>2 DEF Numbered
  <2> QED
    BY <2>2, <2>3
<1>11. Complete'
  <2> SUFFICES ASSUME ~more, NEW i \in KnownRows PROVE i \in search.seen \cup Numbered
    BY <1>5, <1>7 DEF Complete
  <2>1. CASE Cardinality(Above(Window, i)) < n
    BY <1>8, <2>1
  <2>2. CASE ~(Cardinality(Above(Window, i)) < n)
    <3>1. i \in Older(Window, n)
      BY <1>2, <1>3, <1>9, <2>2 DEF Older, Above
    <3>2. Older(Window, n) \in SUBSET Int /\ IsFiniteSet(Older(Window, n))
      BY <1>3, FS_Subset DEF Older
    <3>3. Older(Window, n) \subseteq Newest(Older(Window, n))
      BY <3>2, NewestAll DEF Numbered
    <3> QED
      BY <3>1, <3>3 DEF Numbered
  <2> QED
    BY <2>1, <2>2
<1>12. Walked' /\ Room' /\ AllFound' /\ EmptyIsTrue' /\ MergedPartial'
  <2>1. MergedPartial'
    BY <1>1, <1>5 DEF SearchInv, MergedPartial
  <2>2. Walked' /\ Room' /\ AllFound' /\ EmptyIsTrue'
    BY <1>5 DEF Walked, Room, AllFound, EmptyIsTrue
  <2> QED
    BY <2>1, <2>2
<1> QED
  BY <1>6, <1>7, <1>10, <1>11, <1>12 DEF SearchInv

LEMMA CursorPageKeeps == ASSUME SearchInv, CursorPage PROVE SearchInv'
<1> DEFINE rows == Newest(NotYetSeen)
           reachedStart == rows # {} /\ \A i \in rows : history[i].block < FirstBlock
           more == NotYetSeen # rows /\ ~reachedStart
<1>1. SearchTypes /\ search.at = "listing" /\ search.provider = 2 /\ search' = Listed(search, rows, more)
      /\ history' = history
  BY DEF CursorPage, SearchInv
<1>2. PageSize \in Nat \ {0} /\ MaxPages \in Nat \ {0} /\ search.pages \in Nat /\ search.pages < MaxPages
  BY <1>1, DiscoveryAssumption DEF SearchInv, SearchTypes, Searches, Room
<1>3. /\ DOMAIN history = 1..Len(history) /\ Len(history) \in Nat /\ 1..search.known \subseteq DOMAIN history
      /\ \A i \in DOMAIN history : history[i].block \in Nat
      /\ search.seen \subseteq DOMAIN history
  BY <1>1, RowsFinite DEF SearchTypes, Searches
<1>4. rows \subseteq NotYetSeen /\ NotYetSeen \subseteq DOMAIN history /\ NotYetSeen \in SUBSET Int
  BY <1>3 DEF Newest, NotYetSeen
<1>5. /\ search'.at \in {"listing", "listed"} /\ search'.pages = search.pages + 1
      /\ search'.seen = search.seen \cup rows
      /\ search'.at = "listing" => search.pages + 1 < MaxPages
      /\ search'.at = "listed" /\ ~search'.cut => ~more
      /\ search'.known = search.known /\ search'.provider = 2
      /\ search'.partial = search.partial /\ search'.histories = search.histories
      /\ SearchTypes'
  <2>1. rows \in SUBSET DOMAIN history /\ more \in BOOLEAN
    BY <1>4
  <2> HIDE DEF more, rows
  <2> QED
    BY <1>1, <1>2, <2>1, ListedFields
<1>6. SearchTypes'
  BY <1>5
<1>7. Window' = Window /\ KnownRows' = KnownRows /\ Sorted'
  BY <1>1, <1>5, Unmoved DEF SearchInv
<1>8. \A i \in 1..search.known : i \in search.seen \/ i \in NotYetSeen
  BY <1>1, <1>3 DEF SearchInv, Walked, NotYetSeen
<1>9. \A i \in NotYetSeen : \A j \in search.seen : i < j
  BY <1>1 DEF SearchInv, Walked, NotYetSeen
<1>10. ASSUME NEW i \in NotYetSeen, i \notin rows, NEW j \in rows PROVE i < j
  <2>1. IsFiniteSet(NotYetSeen)
    <3>1. IsFiniteSet(1..Len(history))
      BY <1>3, FS_Interval
    <3> QED
      BY <1>3, <1>4, <3>1, FS_Subset
  <2>2. CASE j <= i
    <3>0. \A k \in NotYetSeen : k > i => k > j
      BY <1>4, <2>2
    <3>1. {k \in NotYetSeen : k > i} \in SUBSET {k \in NotYetSeen : k > j}
      BY <3>0
    <3>2. IsFiniteSet({k \in NotYetSeen : k > j})
      BY <2>1, FS_Subset
    <3>3. /\ Cardinality({k \in NotYetSeen : k > i}) <= Cardinality({k \in NotYetSeen : k > j})
          /\ Cardinality({k \in NotYetSeen : k > i}) \in Nat /\ Cardinality({k \in NotYetSeen : k > j}) \in Nat
      BY <3>1, <3>2, FS_Subset, FS_CardinalityType
    <3>4. Cardinality({k \in NotYetSeen : k > j}) < PageSize /\ ~(Cardinality({k \in NotYetSeen : k > i}) < PageSize)
      BY <1>10 DEF Newest
    <3> QED
      BY <1>2, <3>3, <3>4
  <2> QED
    BY <1>4, <2>2
<1>11. Walked'
  <2> SUFFICES ASSUME NEW i \in 1..search.known, i \notin search.seen \cup rows, NEW j \in search.seen \cup rows
               PROVE  i < j
    BY <1>2, <1>5 DEF Walked
  <2>1. i \in NotYetSeen /\ i \notin rows
    BY <1>8
  <2> QED
    BY <1>9, <1>10, <2>1
<1>12. Complete'
  <2> SUFFICES ASSUME ~more, NEW i \in KnownRows, i \notin search.seen, i \notin rows PROVE FALSE
    BY <1>5, <1>7 DEF Complete
  <2>1. i \in NotYetSeen /\ i \in DOMAIN history /\ history[i].block >= FirstBlock
    BY <1>3, <1>8, DiscoveryAssumption DEF KnownRows, InWindow
  <2>2. reachedStart
    BY <2>1
  <2>3. PICK j \in rows : history[j].block < FirstBlock
    BY <2>2
  <2>4. i < j
    BY <1>10, <2>1
  <2>5. history[i].block <= history[j].block
    BY <1>3, <1>4, <2>1, <2>4 DEF SearchInv, Sorted
  <2> QED
    BY <1>3, <1>4, <2>1, <2>3, <2>5, DiscoveryAssumption
<1>13. Paged' /\ Room' /\ AllFound' /\ EmptyIsTrue' /\ MergedPartial'
  <2>1. MergedPartial'
    BY <1>1, <1>5 DEF SearchInv, MergedPartial
  <2>2. Paged' /\ Room' /\ AllFound' /\ EmptyIsTrue'
    BY <1>5 DEF Paged, Room, AllFound, EmptyIsTrue
  <2> QED
    BY <2>1, <2>2
<1> QED
  BY <1>6, <1>7, <1>11, <1>12, <1>13 DEF SearchInv

\* What the search is once a provider has been done with.
LEMMA ContinuedFields ==
    ASSUME NEW rows, NEW length \in Nat, NEW s \in Searches(rows, length), NEW t, t = Continued(s)
    PROVE  /\ t \in Searches(rows, length)
           /\ t.at \in {"listing", "found", "unavailable"} /\ t.pages = 0 /\ t.seen = {} /\ ~t.cut
           /\ t.known = s.known /\ t.found = s.found /\ t.partial = s.partial /\ t.histories = s.histories
           /\ t.at = "listing" => s.provider = 1 /\ t.provider # 1 /\ ~(s.at = "listed" /\ ~s.cut)
           /\ t.at = "found" => (s.at = "listed" /\ ~s.cut) \/ s.histories # 0
           /\ t.at = "found" /\ ~(s.at = "listed" /\ ~s.cut) => s.provider # 1
<1> DEFINE at == IF s.at = "listed" /\ ~s.cut THEN "found"
                 ELSE IF s.provider = 1 THEN "listing"
                 ELSE IF s.histories = 0 THEN "unavailable" ELSE "found"
<1>1. t = [s EXCEPT !.pages = 0, !.seen = {}, !.cut = FALSE, !.provider = s.provider + 1, !.at = at]
  BY DEF Continued
<1>2. at \in {"listing", "found", "unavailable"}
  OBVIOUS
<1>3. s.provider \in Nat
  BY DEF Searches
<1>4. /\ at = "listing" => s.provider = 1 /\ ~(s.at = "listed" /\ ~s.cut)
      /\ at = "found" => (s.at = "listed" /\ ~s.cut) \/ s.histories # 0
      /\ at = "found" /\ ~(s.at = "listed" /\ ~s.cut) => s.provider # 1
  OBVIOUS
<1> HIDE DEF at
<1>5. t \in Searches(rows, length)
  <2>1. PICK knowns : knowns = 0..length
    OBVIOUS
  <2>2. PICK p \in Nat : p = s.provider + 1
    BY <1>3
  <2>3. PICK none \in SUBSET rows : none = {}
    OBVIOUS
  <2>4. PICK a \in {"off", "listing", "listed", "found", "answered", "unavailable"} : a = at
    BY <1>2
  <2>5. PICK u : u = [s EXCEPT !.pages = 0, !.seen = none, !.cut = FALSE]
    OBVIOUS
  <2>6. u \in Searches(rows, length)
    BY <2>1, <2>5 DEF Searches
  <2>7. t = [u EXCEPT !.provider = p, !.at = a]
    BY <1>1, <2>2, <2>3, <2>4, <2>5 DEF Searches
  <2> QED
    BY <2>1, <2>6, <2>7 DEF Searches
<1>6. /\ t.at = at /\ t.pages = 0 /\ t.seen = {} /\ t.cut = FALSE /\ t.provider = s.provider + 1
      /\ t.known = s.known /\ t.found = s.found /\ t.partial = s.partial /\ t.histories = s.histories
  BY <1>1 DEF Searches
<1> QED
  BY <1>2, <1>3, <1>4, <1>5, <1>6

\* What a history adds.
LEMMA MergedFields ==
    ASSUME SearchTypes, NEW t, t = Merged(search)
    PROVE  /\ t \in Searches(DOMAIN history, Len(history))
           /\ t.at = search.at /\ t.cut = search.cut /\ t.known = search.known /\ t.provider = search.provider
           /\ t.found = search.found \cup PairsOf({i \in search.seen : InWindow(i)})
           /\ t.partial = (search.partial \/ search.cut) /\ t.histories # 0
<1>1. PICK d, n : d = DOMAIN history /\ n = Len(history) /\ search \in Searches(d, n)
  BY DEF SearchTypes
<1>2. PICK pairs : pairs = PairsOf({i \in search.seen : InWindow(i)})
  OBVIOUS
<1>3. search.seen \subseteq d
  BY <1>1 DEF Searches
<1>4. search.found \cup pairs \in SUBSET d
  BY <1>1, <1>2, <1>3 DEF PairsOf, Searches
<1>5. PICK partial \in BOOLEAN : partial = (search.partial \/ search.cut)
  BY <1>1 DEF Searches
<1>6. search.histories \in Nat
  BY <1>1 DEF Searches
<1>7. t = [search EXCEPT !.found = search.found \cup pairs, !.partial = partial, !.histories = search.histories + 1]
  BY <1>2, <1>5 DEF Merged
<1>8. t \in Searches(d, n)
  <2>1. PICK knowns : knowns = 0..n
    OBVIOUS
  <2>2. PICK h \in Nat : h = search.histories + 1
    BY <1>6
  <2>3. PICK found \in SUBSET d : found = search.found \cup pairs
    BY <1>4
  <2> QED
    BY <1>1, <1>7, <2>1, <2>2, <2>3 DEF Searches
<1>9. /\ t.at = search.at /\ t.cut = search.cut /\ t.known = search.known /\ t.provider = search.provider
      /\ t.found = search.found \cup pairs /\ t.partial = partial /\ t.histories = search.histories + 1
  BY <1>1, <1>7 DEF Searches
<1> QED
  BY <1>1, <1>2, <1>5, <1>6, <1>8, <1>9

\* The next provider starts from nothing; the search ends without a claim that
\* does not hold.
LEMMA ContinuedKeeps ==
    ASSUME SearchInv, NEW s \in Searches(DOMAIN history, Len(history)),
           s.known = search.known,
           s.at = "listed" /\ ~s.cut /\ ~s.partial => PairsOf(KnownRows) \subseteq s.found,
           s.histories # 0 /\ ~(s.at = "listed" /\ ~s.cut) => s.partial,
           search' = Continued(s), UNCHANGED history
    PROVE  SearchInv'
<1>1. /\ search' \in Searches(DOMAIN history, Len(history))
      /\ search'.at \in {"listing", "found", "unavailable"} /\ search'.pages = 0 /\ search'.seen = {} /\ ~search'.cut
      /\ search'.known = search.known /\ search'.found = s.found /\ search'.partial = s.partial
      /\ search'.histories = s.histories
      /\ search'.at = "listing" => search'.provider # 1 /\ ~(s.at = "listed" /\ ~s.cut)
      /\ search'.at = "found" => (s.at = "listed" /\ ~s.cut) \/ s.histories # 0
  <2>1. Len(history) \in Nat
    BY RowsFinite DEF SearchInv
  <2> QED
    BY <2>1, ContinuedFields
<1>2. SearchTypes'
  BY <1>1 DEF SearchInv, SearchTypes
<1>3. Sorted' /\ KnownRows' = KnownRows /\ PairsOf(KnownRows)' = PairsOf(KnownRows)
  BY <1>1, Unmoved DEF SearchInv
<1>4. Paged' /\ Walked'
  BY <1>1 DEF Paged, Walked
<1>5. Room' /\ Complete' /\ EmptyIsTrue'
  BY <1>1, DiscoveryAssumption DEF Room, Complete, EmptyIsTrue
<1>6. MergedPartial'
  BY <1>1 DEF MergedPartial
<1>7. AllFound'
  <2> SUFFICES ASSUME search'.at = "found", ~search'.partial PROVE PairsOf(KnownRows)' \subseteq s.found
    BY <1>1 DEF AllFound
  <2> QED
    BY <1>1, <1>3
<1> QED
  BY <1>2, <1>3, <1>4, <1>5, <1>6, <1>7 DEF SearchInv

LEMMA HistoryEndsKeeps == ASSUME SearchInv, HistoryEnds PROVE SearchInv'
<1>1. SearchTypes /\ search.at = "listed" /\ UNCHANGED history
  BY DEF SearchInv, HistoryEnds
<1>2. PICK s : s = Merged(search)
  OBVIOUS
<1>3. search' = Continued(s)
  BY <1>2 DEF HistoryEnds
<1>4. /\ s \in Searches(DOMAIN history, Len(history))
      /\ s.at = search.at /\ s.cut = search.cut /\ s.known = search.known
      /\ s.found = search.found \cup PairsOf({i \in search.seen : InWindow(i)})
      /\ s.partial = (search.partial \/ search.cut)
  BY <1>1, <1>2, MergedFields
<1>5. ASSUME ~search.cut PROVE PairsOf(KnownRows) \subseteq s.found
  <2>1. KnownRows \subseteq {i \in search.seen : InWindow(i)}
    BY <1>1, <1>5 DEF SearchInv, Complete, KnownRows
  <2> QED
    BY <1>4, <2>1, PairsGrow
<1>6. ~(s.at = "listed" /\ ~s.cut) => s.partial
  BY <1>1, <1>4
<1> QED
  BY <1>1, <1>3, <1>4, <1>5, <1>6, ContinuedKeeps

LEMMA PageInvalidKeeps == ASSUME SearchInv, search.at = "listing", search' = Continued(search), UNCHANGED history
                          PROVE  SearchInv'
<1>1. search \in Searches(DOMAIN history, Len(history))
  BY DEF SearchInv, SearchTypes
<1>2. search.histories # 0 => search.partial
  BY DEF SearchInv, MergedPartial
<1> QED
  BY <1>1, <1>2, ContinuedKeeps

LEMMA PageUnavailableKeeps == ASSUME SearchInv, PageUnavailable PROVE SearchInv'
<1>1. CASE search.pages = 0
  BY <1>1, PageInvalidKeeps DEF PageUnavailable
<1>2. CASE search.pages # 0
  <2>1. search' = [search EXCEPT !.at = "listed", !.cut = TRUE] /\ history' = history /\ search.at = "listing"
    BY <1>2 DEF PageUnavailable
  <2>2. PICK d, n : d = DOMAIN history /\ n = Len(history) /\ search \in Searches(d, n)
    BY DEF SearchInv, SearchTypes
  <2>3. /\ search' \in Searches(d, n) /\ search'.at = "listed" /\ search'.cut = TRUE
        /\ search'.known = search.known /\ search'.provider = search.provider
        /\ search'.partial = search.partial /\ search'.histories = search.histories
    BY <2>1, <2>2 DEF Searches
  <2>4. SearchTypes'
    BY <2>1, <2>2, <2>3 DEF SearchInv, SearchTypes
  <2>5. Sorted'
    BY <2>1, <2>3, Unmoved DEF SearchInv
  <2>6. Paged' /\ Walked' /\ Room' /\ Complete'
    BY <2>3 DEF Paged, Walked, Room, Complete
  <2>7. MergedPartial'
    BY <2>1, <2>3 DEF SearchInv, MergedPartial
  <2>8. AllFound' /\ EmptyIsTrue'
    BY <2>3 DEF AllFound, EmptyIsTrue
  <2> QED
    BY <2>4, <2>5, <2>6, <2>7, <2>8 DEF SearchInv
<1> QED
  BY <1>1, <1>2

LEMMA BeginSearchKeeps == ASSUME SearchInv, BeginSearch PROVE SearchInv'
<1>1. PICK d, n : d = DOMAIN history /\ n = Len(history)
  OBVIOUS
<1>2. n \in Nat
  BY <1>1, RowsFinite DEF SearchInv
<1>3. search' = [at |-> "listing", known |-> n, provider |-> 1, pages |-> 0, seen |-> {}, cut |-> FALSE,
                 found |-> {}, partial |-> FALSE, histories |-> 0, matches |-> {}] /\ history' = history
  BY <1>1 DEF BeginSearch, NoSearch
<1>4. search' \in Searches(d, n)
  BY <1>2, <1>3 DEF Searches
<1>5. SearchTypes'
  BY <1>1, <1>3, <1>4 DEF SearchInv, SearchTypes
<1>6. Sorted'
  BY <1>3 DEF SearchInv, Sorted
<1>7. Paged'
  <2> SUFFICES ASSUME NEW i \in KnownRows', Cardinality(Above(Window, i)') < 0 * PageSize PROVE FALSE
    BY <1>3 DEF Paged
  <2>1. i \in Window'
    <3>1. DOMAIN history = 1..Len(history) /\ Len(history) \in Nat
      BY RowsFinite DEF SearchInv
    <3>2. i \in 1..n /\ InWindow(i)'
      BY <1>3 DEF KnownRows
    <3> QED
      BY <1>1, <1>3, <3>1, <3>2 DEF Window
  <2>2. IsFiniteSet(Window) /\ Window' = Window
    BY <1>3, RowsFinite DEF SearchInv, Window, InWindow
  <2>3. Above(Window, i)' = Above(Window, i) /\ Above(Window, i) \in SUBSET Window
    BY <2>2 DEF Above
  <2>4. Cardinality(Above(Window, i)) \in Nat
    BY <2>2, <2>3, FS_Subset, FS_CardinalityType
  <2>5. PageSize \in Nat
    BY DiscoveryAssumption
  <2> QED
    BY <2>3, <2>4, <2>5
<1>8. Walked' /\ Room' /\ Complete' /\ MergedPartial' /\ AllFound' /\ EmptyIsTrue'
  BY <1>3, DiscoveryAssumption DEF Walked, Room, Complete, MergedPartial, AllFound, EmptyIsTrue
<1> QED
  BY <1>5, <1>6, <1>7, <1>8 DEF SearchInv

\* Either every candidate was validated, or there were too many.
LEMMA ValidateKeeps == ASSUME SearchInv, Validate PROVE SearchInv'
<1>1. search.at = "found" /\ history' = history
  BY DEF Validate
<1>2. PICK candidates \in SUBSET search.found :
          /\ Cardinality(candidates) <= CandidateLimit
          /\ candidates = search.found \/ Cardinality(candidates) = CandidateLimit
          /\ \E failed \in SUBSET candidates : search' = Validated(candidates, failed)
  BY DEF Validate
<1>3. PICK failed \in SUBSET candidates : search' = Validated(candidates, failed)
  BY <1>2
<1>4. PICK matches : matches = {i \in candidates \ failed : IsGenuine(i)}
  OBVIOUS
<1>5. PICK at : at = IF matches = {} /\ failed # {} THEN "unavailable" ELSE "answered"
  OBVIOUS
<1>6. PICK d, n : d = DOMAIN history /\ n = Len(history) /\ search \in Searches(d, n)
  BY DEF SearchInv, SearchTypes
<1>7. search' = [search EXCEPT !.at = at, !.matches = matches]
  BY <1>3, <1>4, <1>5 DEF Validated
<1>8. /\ search' \in Searches(d, n) /\ search'.at = at /\ search'.matches = matches
      /\ search'.known = search.known /\ search'.found = search.found /\ search'.partial = search.partial
  <2>1. at \in {"unavailable", "answered"} /\ matches \in SUBSET d
    BY <1>4, <1>5, <1>6 DEF Searches
  <2> QED
    BY <1>6, <1>7, <2>1 DEF Searches
<1>9. SearchTypes'
  BY <1>1, <1>6, <1>8 DEF SearchInv, SearchTypes
<1>10. Sorted' /\ PairsOf(KnownRows)' = PairsOf(KnownRows) /\ \A i : IsGenuine(i)' = IsGenuine(i)
  BY <1>1, <1>8, Unmoved DEF SearchInv
<1>11. search'.at \in {"unavailable", "answered"}
  BY <1>5, <1>8
<1>12. Paged' /\ Walked' /\ Room' /\ Complete' /\ MergedPartial' /\ AllFound'
  BY <1>11 DEF Paged, Walked, Room, Complete, MergedPartial, AllFound
<1>13. EmptyIsTrue'
  <2> SUFFICES ASSUME at = "answered", matches = {}, ~search.partial,
                      ~(Cardinality(search.found) > CandidateLimit), NEW i \in PairsOf(KnownRows)
               PROVE  ~IsGenuine(i)
    <3>1. KnownRows' = {j \in 1..search'.known : InWindow(j)'}
      BY DEF KnownRows
    <3>2. ASSUME search'.at = "answered", search'.matches = {}, ~search'.partial,
                 ~(Cardinality(search'.found) > CandidateLimit)
          PROVE  \A i \in PairsOf(KnownRows)' : ~IsGenuine(i)'
      BY <1>8, <1>10, <3>2
    <3> QED
      BY <3>1, <3>2 DEF EmptyIsTrue, KnownRows
  <2>1. failed = {}
    BY <1>5
  <2>2. i \in search.found
    BY <1>1 DEF SearchInv, AllFound
  <2>3. IsFiniteSet(search.found)
    <3>1. d = 1..n /\ n \in Nat
      BY <1>6, RowsFinite DEF SearchInv
    <3>2. IsFiniteSet(1..n)
      BY <3>1, FS_Interval
    <3> QED
      BY <1>6, <3>1, <3>2, FS_Subset DEF Searches
  <2>4. candidates = search.found
    <3>1. CASE Cardinality(candidates) = CandidateLimit
      <4>1. /\ Cardinality(candidates) <= Cardinality(search.found)
            /\ Cardinality(candidates) = Cardinality(search.found) => candidates = search.found
        BY <1>2, <2>3, FS_Subset
      <4>2. Cardinality(search.found) \in Nat /\ CandidateLimit \in Nat
        BY <2>3, FS_CardinalityType, DiscoveryAssumption
      <4> QED
        BY <3>1, <4>1, <4>2
    <3> QED
      BY <1>2, <3>1
  <2> QED
    BY <1>4, <2>1, <2>2, <2>4
<1> QED
  BY <1>9, <1>10, <1>12, <1>13 DEF SearchInv

\* What is sent meanwhile is more recent than all that was there.
LEMMA SendKeeps ==
    ASSUME SearchInv, NEW sent \in Sendable, NEW block \in 0..MaxBlock, Send(sent, block)
    PROVE  SearchInv'
<1> DEFINE row == [block |-> block, ok |-> sent.ok, call |-> sent.call]
<1>0. SearchTypes
  BY DEF SearchInv
<1>1. /\ search' = search /\ history' = Append(history, row)
      /\ history # << >> => block >= history[Len(history)].block
  BY DEF Send
<1>2. row \in Rows
  BY DiscoveryAssumption DEF Rows
<1>3. history \in Seq(Rows)
  BY <1>0 DEF SearchTypes
<1>4. /\ history' \in Seq(Rows) /\ Len(history') = Len(history) + 1
      /\ \A i \in DOMAIN history : i \in DOMAIN history' /\ history'[i] = history[i]
      /\ history'[Len(history) + 1] = row /\ DOMAIN history' = 1..(Len(history) + 1)
  <2> HIDE DEF row
  <2> QED
    BY <1>1, <1>2, <1>3
<1>5. /\ IsFiniteSet(Window) /\ Window \in SUBSET Nat /\ Len(history) \in Nat /\ DOMAIN history = 1..Len(history)
      /\ \A i \in DOMAIN history : history[i].block \in Nat
      /\ KnownRows \subseteq Window /\ 1..search.known \subseteq DOMAIN history
  BY <1>0, RowsFinite
<1>6. SearchTypes'
  <2>1. search \in Searches(DOMAIN history, Len(history))
    BY <1>0 DEF SearchTypes
  <2>2. PICK d, n, e, m : d = DOMAIN history /\ n = Len(history) /\ e = DOMAIN history' /\ m = Len(history')
    OBVIOUS
  <2>3. d \subseteq e /\ 0..n \subseteq 0..m
    BY <1>4, <1>5, <2>2
  <2>4. PICK k, l : k = 0..n /\ l = 0..m
    OBVIOUS
  <2>5. search \in Searches(e, m)
    BY <2>1, <2>2, <2>3, <2>4 DEF Searches
  <2> QED
    BY <1>1, <1>4, <2>2, <2>5 DEF SearchTypes
<1>7. Sorted'
  <2> SUFFICES ASSUME NEW i \in DOMAIN history', NEW j \in DOMAIN history', i <= j
               PROVE  history'[i].block <= history'[j].block
    BY DEF Sorted
  <2>0. row.block = block /\ block \in Nat
    BY DiscoveryAssumption
  <2> HIDE DEF row
  <2>1. CASE j \in DOMAIN history
    <3>1. i \in DOMAIN history
      BY <1>4, <1>5, <2>1
    <3> QED
      BY <1>4, <2>1, <3>1 DEF SearchInv, Sorted
  <2>2. CASE j \notin DOMAIN history
    <3>1. j = Len(history) + 1 /\ history'[j].block = block
      BY <1>4, <1>5, <2>0, <2>2
    <3>2. CASE i = j
      BY <2>0, <3>1, <3>2
    <3>3. CASE i # j
      <4>1. i \in DOMAIN history /\ Len(history) \in DOMAIN history /\ i <= Len(history) /\ history # << >>
        BY <1>3, <1>4, <1>5, <3>1, <3>3
      <4>2. history[i].block <= history[Len(history)].block
        BY <4>1 DEF SearchInv, Sorted
      <4> QED
        BY <1>1, <1>4, <1>5, <2>0, <3>1, <4>1, <4>2
    <3> QED
      BY <3>2, <3>3
  <2> QED
    BY <2>1, <2>2
<1>8. Window \subseteq Window' /\ Window' \in SUBSET Nat /\ IsFiniteSet(Window')
  <2>1. Window \subseteq Window'
    BY <1>4 DEF Window, InWindow
  <2>2. Window' \in SUBSET (1..(Len(history) + 1))
    BY <1>4 DEF Window
  <2>3. IsFiniteSet(1..(Len(history) + 1))
    BY <1>5, FS_Interval
  <2>4. 1..(Len(history) + 1) \subseteq Nat
    BY <1>5
  <2>5. PICK w, d : w = Window' /\ d = 1..(Len(history) + 1)
    OBVIOUS
  <2>6. IsFiniteSet(w)
    BY <2>2, <2>3, <2>5, FS_Subset
  <2> QED
    BY <2>1, <2>2, <2>4, <2>5, <2>6
<1>9. /\ KnownRows' = KnownRows
      /\ \A i \in KnownRows : history'[i] = history[i] /\ IsGenuine(i)' = IsGenuine(i)
  BY <1>1, <1>4, <1>5 DEF KnownRows, InWindow, IsGenuine
<1>10. PairsOf(KnownRows)' = PairsOf(KnownRows)
  BY <1>9 DEF PairsOf
<1>11. Paged'
  <2> SUFFICES ASSUME search.at = "listing", search.provider = 1, NEW i \in KnownRows,
                      Cardinality(Above(Window, i)') < search.pages * PageSize
               PROVE  i \in search.seen
    BY <1>1, <1>9 DEF Paged
  <2>1. Above(Window, i) \in SUBSET Above(Window', i) /\ Above(Window', i) \in SUBSET Window'
    BY <1>8 DEF Above
  <2>2. IsFiniteSet(Above(Window', i)) /\ Cardinality(Above(Window, i)) <= Cardinality(Above(Window', i))
    BY <1>8, <2>1, FS_Subset
  <2>3. Cardinality(Above(Window, i)) \in Nat /\ Cardinality(Above(Window', i)) \in Nat
    BY <2>1, <2>2, FS_Subset, FS_CardinalityType
  <2>4. search.pages * PageSize \in Nat
    BY <1>0, DiscoveryAssumption DEF SearchTypes, Searches
  <2>5. Cardinality(Above(Window', i)) < search.pages * PageSize
    BY DEF Above
  <2>6. Cardinality(Above(Window, i)) < search.pages * PageSize
    BY <2>2, <2>3, <2>4, <2>5
  <2> QED
    BY <2>6 DEF SearchInv, Paged
<1>12. Walked' /\ Room' /\ MergedPartial'
  BY <1>1 DEF SearchInv, Walked, Room, MergedPartial
<1>13. Complete' /\ AllFound'
  BY <1>1, <1>9, <1>10 DEF SearchInv, Complete, AllFound
<1>14. EmptyIsTrue'
  <2>1. KnownRows = {j \in 1..search.known : InWindow(j)} /\ KnownRows' = {j \in 1..search'.known : InWindow(j)'}
    BY DEF KnownRows
  <2>2. PairsOf(KnownRows) \subseteq KnownRows
    BY DEF PairsOf
  <2>3. EmptyIsTrue
    BY DEF SearchInv
  <2>4. ASSUME search'.at = "answered", search'.matches = {}, ~search'.partial,
               ~(Cardinality(search'.found) > CandidateLimit), NEW i \in PairsOf(KnownRows)'
        PROVE  ~IsGenuine(i)'
    <3>1. i \in PairsOf(KnownRows) /\ i \in KnownRows
      BY <1>10, <2>2
    <3>2. ~IsGenuine(i)
      BY <1>1, <2>3, <2>4, <3>1 DEF EmptyIsTrue, KnownRows
    <3> QED
      BY <1>9, <3>1, <3>2
  <2> QED
    BY <2>4 DEF EmptyIsTrue, KnownRows
<1> QED
  BY <1>6, <1>7, <1>11, <1>12, <1>13, <1>14 DEF SearchInv

LEMMA InitSearchInv == DiscoveryInit => SearchInv
<1> SUFFICES ASSUME DiscoveryInit PROVE SearchInv
  OBVIOUS
<1>1. history = << >> /\ DOMAIN history = {} /\ Len(history) = 0 /\ history \in Seq(Rows)
  BY DEF DiscoveryInit
<1>2. search = [at |-> "off", known |-> 0, provider |-> 1, pages |-> 0, seen |-> {}, cut |-> FALSE,
                found |-> {}, partial |-> FALSE, histories |-> 0, matches |-> {}]
  BY DEF DiscoveryInit, NoSearch
<1>3. PICK d, n, k : d = DOMAIN history /\ n = Len(history) /\ k = 0..n
  OBVIOUS
<1>4. 0 \in k
  BY <1>1, <1>3
<1>5. search \in Searches(d, n)
  BY <1>2, <1>3, <1>4 DEF Searches
<1>6. SearchTypes
  BY <1>1, <1>3, <1>5 DEF SearchTypes
<1>7. Sorted
  BY <1>1 DEF Sorted
<1> QED
  BY <1>2, <1>6, <1>7 DEF SearchInv, Paged, Walked, Room, Complete, MergedPartial, AllFound, EmptyIsTrue

LEMMA NextSearchInv == SearchInv /\ [DiscoveryNext]_discoveryVars => SearchInv'
<1> SUFFICES ASSUME SearchInv, [DiscoveryNext]_discoveryVars PROVE SearchInv'
  OBVIOUS
<1>1. CASE BeginSearch
  BY <1>1, BeginSearchKeeps
<1>2. CASE NumberedPage
  BY <1>2, NumberedPageKeeps
<1>3. CASE CursorPage
  BY <1>3, CursorPageKeeps
<1>4. CASE PageUnavailable
  BY <1>4, PageUnavailableKeeps
<1>5. CASE PageInvalid
  BY <1>5, PageInvalidKeeps DEF PageInvalid
<1>6. CASE HistoryEnds
  BY <1>6, HistoryEndsKeeps
<1>7. CASE Validate
  BY <1>7, ValidateKeeps
<1>8. CASE \E sent \in Sendable, block \in 0..MaxBlock : Send(sent, block)
  BY <1>8, SendKeeps
<1>9. CASE UNCHANGED discoveryVars
  <2>1. history' = history /\ search' = search
    BY <1>9 DEF discoveryVars
  <2> QED
    BY <2>1 DEF SearchInv, SearchTypes, Sorted, Paged, Walked, Room, Complete, MergedPartial, AllFound, EmptyIsTrue,
                KnownRows, Window, InWindow, Above, PairsOf, IsGenuine
<1> QED
  BY <1>1, <1>2, <1>3, <1>4, <1>5, <1>6, <1>7, <1>8, <1>9 DEF DiscoveryNext

\* An answer without a match that does not call itself cut short hides no retry
\* that was mined when the search began (discoverWalletSeaDropPairsResilient),
\* whatever the providers answered and whatever was sent meanwhile.
THEOREM EmptyAnswersTrue == DiscoverySpec => []EmptyIsTrue
<1>1. SearchInv => EmptyIsTrue
  BY DEF SearchInv
<1> QED
  BY InitSearchInv, NextSearchInv, <1>1, PTL DEF DiscoverySpec
=============================================================================
