---------------------------- MODULE WalletDiscovery ----------------------------
(***************************************************************************)
(* The search of a wallet's history for paid retries: two public           *)
(* providers list its transactions newest first, the first by page number  *)
(* and the second from a cursor, while the wallet goes on sending; a page  *)
(* may not come, a provider may answer nothing usable, and a long history  *)
(* is cut short.  What the histories suggest is then validated by the      *)
(* service, which may fail for one candidate and not for another.          *)
(*                                                                         *)
(* A provider lists what is mined, completely and in order; a history that *)
(* is reorganized, and the transactions others send to the wallet, are     *)
(* left out.                                                               *)
(***************************************************************************)
EXTENDS Integers, Sequences, FiniteSets

CONSTANTS
    Calls, NoCall,          \* mints a wallet may ask for, and any other call
    Sendable,               \* what the wallet sends: [ok, call]
    Genuine,                \* the mints whose retry the service confirms
    FirstBlock, LastBlock, MaxGap,          \* the campaign's rule
    PageSize, MaxPages, CandidateLimit,
    MaxHistory, MaxBlock    \* bounds

ASSUME DiscoveryAssumption ==
    /\ NoCall \notin Calls /\ Genuine \subseteq Calls
    /\ Sendable \subseteq [ok : BOOLEAN, call : Calls \cup {NoCall}]
    /\ {FirstBlock, LastBlock, MaxHistory, MaxBlock} \subseteq Nat
    /\ {MaxGap, PageSize, MaxPages, CandidateLimit} \subseteq Nat \ {0}

VARIABLES
    history,  \* the wallet's transactions [block, ok, call]; the index is the nonce
    search    \* the search under way: see NoSearch

discoveryVars == <<history, search>>

\* known: the transactions there were when it began.  provider, pages, seen and
\* cut: what one provider has listed.  found, partial, histories: what its
\* predecessors left.
NoSearch == [at |-> "off", known |-> 0, provider |-> 1, pages |-> 0, seen |-> {}, cut |-> FALSE,
             found |-> {}, partial |-> FALSE, histories |-> 0, matches |-> {}]

DiscoveryInit == history = << >> /\ search = NoSearch

InWindow(i) == history[i].block \in FirstBlock..LastBlock

-----------------------------------------------------------------------------
(* discoverSeaDropPairs: by the nonce of the success *)

PairsOf(rows) ==
    {i \in rows :
        /\ i - 1 \in rows
        /\ history[i].call \in Calls /\ history[i].call = history[i - 1].call
        /\ history[i].ok /\ ~history[i - 1].ok
        /\ history[i].block - history[i - 1].block \in 1..MaxGap}

-----------------------------------------------------------------------------
(* One provider's pages *)

\* The most recent of some rows.
Newest(rows) == {i \in rows : Cardinality({j \in rows : j > i}) < PageSize}
Older(rows, n) == {i \in rows : Cardinality({j \in rows : j > i}) >= n}

Window == {i \in DOMAIN history : InWindow(i)}
\* fetchWalletTransactions asks for a page by its number.
Numbered == Newest(Older(Window, search.pages * PageSize))
\* fetchWalletTransactionsV2 goes on after the last row it was shown.
NotYetSeen == {i \in DOMAIN history : search.pages = 0 \/ \A j \in search.seen : i < j}

\* Bug: a full last page is taken for the end of the history.
ListedWhole(s, rows, more) ==
    [s EXCEPT !.pages = @ + 1, !.seen = @ \cup rows,
              !.at = IF more /\ s.pages + 1 < MaxPages THEN "listing" ELSE "listed"]

Listed(s, rows, more) ==
    [s EXCEPT !.pages = @ + 1, !.seen = @ \cup rows,
              !.at = IF more /\ s.pages + 1 < MaxPages THEN "listing" ELSE "listed",
              !.cut = more /\ s.pages + 1 = MaxPages]

\* A full page may be followed by another.
NumberedPage ==
    /\ search.at = "listing" /\ search.provider = 1
    /\ search' = Listed(search, Numbered, Cardinality(Numbered) = PageSize)
    /\ UNCHANGED history

\* The page itself says whether there is more; rows before the window end it.
CursorPage ==
    /\ search.at = "listing" /\ search.provider = 2
    /\ LET rows == Newest(NotYetSeen)
           reachedStart == rows # {} /\ \A i \in rows : history[i].block < FirstBlock
       IN  search' = Listed(search, rows, NotYetSeen # rows /\ ~reachedStart)
    /\ UNCHANGED history

-----------------------------------------------------------------------------
(* discoverWalletSeaDropPairsResilient *)

\* The next provider is asked unless a history was complete.
Continued(s) ==
    [s EXCEPT !.pages = 0, !.seen = {}, !.cut = FALSE, !.provider = @ + 1,
              !.at = IF s.at = "listed" /\ ~s.cut THEN "found"
                     ELSE IF s.provider = 1 THEN "listing"
                     ELSE IF s.histories = 0 THEN "unavailable" ELSE "found"]

\* Once one history is partial, so is what is said of all.
Merged(s) ==
    [s EXCEPT !.found = @ \cup PairsOf({i \in s.seen : InWindow(i)}),
              !.partial = @ \/ s.cut, !.histories = @ + 1]

HistoryEnds ==
    /\ search.at = "listed"
    /\ search' = Continued(Merged(search))
    /\ UNCHANGED history

\* After a first page the rows so far are a partial history.
PageUnavailable ==
    /\ search.at = "listing"
    /\ search' = IF search.pages = 0 THEN Continued(search)
                 ELSE [search EXCEPT !.at = "listed", !.cut = TRUE]
    /\ UNCHANGED history

PageInvalid ==
    /\ search.at = "listing"
    /\ search' = Continued(search)
    /\ UNCHANGED history

-----------------------------------------------------------------------------
(* The service *)

BeginSearch ==
    /\ search.at \in {"off", "answered", "unavailable"}
    /\ search' = [NoSearch EXCEPT !.at = "listing", !.known = Len(history)]
    /\ UNCHANGED history

IsGenuine(i) == history[i].call \in Genuine

\* The candidates within the limit, whichever come first, are validated
\* together.  A failure is told unless another candidate matches.
Validated(candidates, failed) ==
    LET matches == {i \in candidates \ failed : IsGenuine(i)} IN
    [search EXCEPT !.at = IF matches = {} /\ failed # {} THEN "unavailable" ELSE "answered",
                   !.matches = matches]

Validate ==
    /\ search.at = "found"
    /\ \E candidates \in SUBSET search.found :
          /\ Cardinality(candidates) <= CandidateLimit
          /\ candidates = search.found \/ Cardinality(candidates) = CandidateLimit
          /\ \E failed \in SUBSET candidates : search' = Validated(candidates, failed)
    /\ UNCHANGED history

\* The wallet goes on.
Send(sent, block) ==
    /\ Len(history) < MaxHistory
    /\ history # << >> => block >= history[Len(history)].block
    /\ history' = Append(history, [block |-> block, ok |-> sent.ok, call |-> sent.call])
    /\ UNCHANGED search

DiscoveryNext ==
    \/ BeginSearch \/ NumberedPage \/ CursorPage \/ PageUnavailable \/ PageInvalid \/ HistoryEnds \/ Validate
    \/ \E sent \in Sendable, block \in 0..MaxBlock : Send(sent, block)

DiscoverySpec == DiscoveryInit /\ [][DiscoveryNext]_discoveryVars

-----------------------------------------------------------------------------
(* Properties *)

\* "No matching paid retry was found in this wallet's bounded campaign history"
\* (main.jsx:699) is true of what was mined when the search began: an answer
\* without a match that does not call itself cut short hides no retry, whoever
\* failed and whatever was sent meanwhile, unless it had more candidates than
\* the service validates.
EmptyIsTrue ==
    search.at = "answered" /\ search.matches = {} /\ ~search.partial =>
        \/ Cardinality(search.found) > CandidateLimit
        \/ \A i \in PairsOf({j \in 1..search.known : InWindow(j)}) : ~IsGenuine(i)
=============================================================================
