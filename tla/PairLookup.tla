----------------------------- MODULE PairLookup -----------------------------
(***************************************************************************)
(* How the recovery service learns the Ethereum facts of a pair:           *)
(* #resolvePair, its flights and its bounded cache, on a BoundedWorkPool   *)
(* (src/recovery-campaign-service.mjs).  Callers of one pair share one     *)
(* lookup; a lookup takes a slot of the pool, waits in its bounded queue   *)
(* or is refused; a lookup that times out fails its callers at once but    *)
(* keeps its slot, and may still fill the cache, until its work ends.      *)
(***************************************************************************)
EXTENDS Integers, Sequences, FiniteSets

CONSTANTS
    Pairs, Callers,
    Concurrency, PoolQueueLimit,        \* of the pool
    Ttl, NegativeTtl, MaxEntries,       \* of the cache
    MaxTime                             \* bound of the exploration

ASSUME PoolAssumption == Concurrency \in Nat \ {0} /\ PoolQueueLimit \in Nat
ASSUME CacheAssumption == Ttl \in Nat /\ NegativeTtl \in Nat /\ MaxEntries \in Nat \ {0}
ASSUME TimeAssumption == MaxTime \in Nat

VARIABLES
    now,
    valid,      \* pairs that qualify by now; confirmations only add to them
    lookups,    \* every lookup ever started, in order
    queue,      \* the pool's queue of lookups
    active,     \* the pool's count of taken slots
    flights,    \* sourcePairFlights: the lookup new callers of a pair join
    cache,      \* sourcePairCache, least recently used first
    callers     \* [pair, state, flight, outcome] of each caller

lookupVars == <<now, valid, lookups, queue, active, flights, cache, callers>>

NoFlight == 0
Lookup == [pair : Pairs, state : {"queued", "running", "ended", "freed", "dropped"},
           settled : BOOLEAN, early : BOOLEAN]
Outcomes == {"valid", "invalid", "error"}
CacheEntry == [pair : Pairs, outcome : {"valid", "invalid"}, expires : Nat]
Caller == [pair : Pairs, state : {"idle", "waiting", "told", "busy", "late"}, flight : Nat,
           outcome : Outcomes \cup {"none"}]

LookupTypeOK ==
    /\ now \in Nat /\ valid \subseteq Pairs
    /\ lookups \in Seq(Lookup)
    /\ queue \in Seq(DOMAIN lookups)
    /\ active \in Nat
    /\ flights \in [Pairs -> Nat]
    /\ cache \in Seq(CacheEntry)
    /\ callers \in [Callers -> Caller]

LookupInit ==
    /\ now = 0
    /\ valid \in SUBSET Pairs
    /\ lookups = << >> /\ queue = << >> /\ active = 0
    /\ flights = [pair \in Pairs |-> NoFlight]
    /\ cache = << >>
    /\ callers \in [Callers -> [pair : Pairs, state : {"idle"}, flight : {NoFlight}, outcome : {"none"}]]

Ids == DOMAIN lookups
In(state) == {l \in Ids : lookups[l].state = state}
Unsettled == {l \in Ids : ~lookups[l].settled}

-----------------------------------------------------------------------------
(* The cache *)

\* A sequence without the element at the place found, if there is one.
Without(s, places) ==
    IF places = {} THEN s
    ELSE LET gone == CHOOSE i \in places : TRUE
         IN  [i \in 1..(Len(s) - 1) |-> IF i < gone THEN s[i] ELSE s[i + 1]]

Others(pair) == Without(cache, {i \in DOMAIN cache : cache[i].pair = pair})
Cached(pair) == {i \in DOMAIN cache : cache[i].pair = pair /\ cache[i].expires > now}

\* Room is made from the least recently used end before the entry is added.
MakeRoom(entries) ==
    IF Len(entries) >= MaxEntries
    THEN SubSeq(entries, Len(entries) - MaxEntries + 2, Len(entries)) ELSE entries

\* An error of the providers says nothing about the pair.
Cacheable(outcome) == outcome # "error"

Remember(pair, outcome) ==
    cache' = IF Cacheable(outcome)
             THEN Append(MakeRoom(Others(pair)),
                         [pair |-> pair, outcome |-> outcome,
                          expires |-> now + IF outcome = "valid" THEN Ttl ELSE NegativeTtl])
             ELSE cache

-----------------------------------------------------------------------------
(* Callers *)

Becomes(c, state, flight, outcome) ==
    callers' = [callers EXCEPT ![c] = [pair |-> @.pair, state |-> state, flight |-> flight, outcome |-> outcome]]

\* A cached outcome, also a refusal, is told at once and becomes the most recent.
Hit(c) ==
    LET pair == callers[c].pair IN
    /\ callers[c].state = "idle"
    /\ \E i \in Cached(pair) :
          /\ cache' = Append(Others(pair), cache[i])
          /\ Becomes(c, "told", NoFlight, cache[i].outcome)
    /\ UNCHANGED <<now, valid, lookups, queue, active, flights>>

Misses(c) == callers[c].state = "idle" /\ Cached(callers[c].pair) = {}

Joinable(pair) == flights[pair] # NoFlight

Join(c) ==
    LET pair == callers[c].pair IN
    /\ Misses(c)
    /\ Joinable(pair)
    /\ Becomes(c, "waiting", flights[pair], "none")
    /\ cache' = Others(pair)
    /\ UNCHANGED <<now, valid, lookups, queue, active, flights>>

NewLookup(pair, state) == [pair |-> pair, state |-> state, settled |-> FALSE, early |-> pair \in valid]
SlotFree == active < Concurrency
PoolFull == Len(queue) >= PoolQueueLimit

StartLookup(c) ==
    LET pair == callers[c].pair
        l == Len(lookups) + 1
    IN
    /\ Misses(c)
    /\ ~Joinable(pair)
    /\ cache' = Others(pair)
    /\ \/ /\ SlotFree
          /\ lookups' = Append(lookups, NewLookup(pair, "running"))
          /\ active' = active + 1
          /\ UNCHANGED queue
       \/ /\ ~SlotFree /\ ~PoolFull
          /\ lookups' = Append(lookups, NewLookup(pair, "queued"))
          /\ queue' = Append(queue, l)
          /\ UNCHANGED active
    /\ flights' = [flights EXCEPT ![pair] = l]
    /\ Becomes(c, "waiting", l, "none")
    /\ UNCHANGED <<now, valid>>

Busy(c) ==
    /\ Misses(c)
    /\ ~Joinable(callers[c].pair)
    /\ ~SlotFree /\ PoolFull
    /\ cache' = Others(callers[c].pair)
    /\ Becomes(c, "busy", NoFlight, "none")
    /\ UNCHANGED <<now, valid, lookups, queue, active, flights>>

\* Bug: the callers of a queued lookup are not told.
SettleStarted(l, state, outcome) ==
    callers' = [c \in Callers |->
        IF lookups[l].state = "running" /\ callers[c].state = "waiting" /\ callers[c].flight = l
        THEN [pair |-> callers[c].pair, state |-> state, flight |-> l, outcome |-> outcome]
        ELSE callers[c]]

\* The first settlement of a lookup reaches everyone who waits for it.
SettleCallers(l, state, outcome) ==
    callers' = [c \in Callers |->
        IF callers[c].state = "waiting" /\ callers[c].flight = l
        THEN [pair |-> callers[c].pair, state |-> state, flight |-> l, outcome |-> outcome]
        ELSE callers[c]]
LeaveFlight(l) == flights' = [pair \in Pairs |-> IF flights[pair] = l THEN NoFlight ELSE flights[pair]]

-----------------------------------------------------------------------------
(* The pool *)

\* Bug: a running lookup that timed out is forgotten with its slot.
DroppedAfterTimeout(l) == "dropped"

\* A queued lookup leaves the queue; a running one keeps its slot.
AfterTimeout(l) == IF lookups[l].state = "queued" THEN "dropped" ELSE lookups[l].state

Timeout(l) ==
    /\ ~lookups[l].settled
    /\ lookups' = [lookups EXCEPT ![l].settled = TRUE, ![l].state = AfterTimeout(l)]
    /\ queue' = Without(queue, {i \in DOMAIN queue : queue[i] = l})
    /\ SettleCallers(l, "late", "none")
    /\ LeaveFlight(l)
    /\ UNCHANGED <<now, valid, active, cache>>

\* The facts are read at some moment of the lookup.
Facts(l) ==
    {"error"} \cup (IF lookups[l].pair \in valid THEN {"valid"} ELSE {})
              \cup (IF lookups[l].early THEN {} ELSE {"invalid"})

Work(l, outcome) ==
    /\ lookups[l].state = "running"
    /\ outcome \in Facts(l)
    /\ Remember(lookups[l].pair, outcome)
    /\ lookups' = [lookups EXCEPT ![l].settled = TRUE, ![l].state = "ended"]
    /\ IF lookups[l].settled THEN UNCHANGED callers ELSE SettleCallers(l, "told", outcome)
    /\ LeaveFlight(l)
    /\ UNCHANGED <<now, valid, queue, active>>

\* The places of the queue whose lookup did not time out.
StillWaiting == {i \in DOMAIN queue : ~lookups[queue[i]].settled}

\* The slot goes to the first of them; the ones before it are forgotten.
FreeSlot(l) ==
    /\ lookups[l].state = "ended"
    /\ \/ /\ StillWaiting = {}
          /\ lookups' = [lookups EXCEPT ![l].state = "freed"]
          /\ queue' = << >>
          /\ active' = active - 1
       \/ \E i \in StillWaiting :
          /\ \A j \in StillWaiting : i <= j
          /\ lookups' = [lookups EXCEPT ![l].state = "freed",
                                       ![queue[i]] = NewLookup(lookups[queue[i]].pair, "running")]
          /\ queue' = SubSeq(queue, i + 1, Len(queue))
          /\ active' = active
    /\ UNCHANGED <<now, valid, flights, cache, callers>>

-----------------------------------------------------------------------------
Confirm(pair) ==
    /\ valid' = valid \cup {pair}
    /\ UNCHANGED <<now, lookups, queue, active, flights, cache, callers>>

Tick ==
    /\ now < MaxTime
    /\ now' = now + 1
    /\ UNCHANGED <<valid, lookups, queue, active, flights, cache, callers>>

LookupStep(l) == Timeout(l) \/ FreeSlot(l) \/ \E outcome \in Outcomes : Work(l, outcome)

LookupNext ==
    \/ \E c \in Callers : Hit(c) \/ Join(c) \/ StartLookup(c) \/ Busy(c)
    \/ \E l \in Ids : LookupStep(l)
    \/ \E pair \in Pairs : Confirm(pair)
    \/ Tick

\* Timers fire and microtasks run; the work itself may hang for ever.
LookupFairness == \A l \in 1..Cardinality(Callers) : WF_lookupVars(l \in Ids /\ Timeout(l))

LookupSpec == LookupInit /\ [][LookupNext]_lookupVars
FairLookupSpec == LookupSpec /\ LookupFairness

-----------------------------------------------------------------------------
(* Properties *)

\* The slots counted are the slots taken, never more than the pool has, and a
\* lookup waits in the queue only while all of them are taken: a timeout, which
\* keeps the slot, neither frees it twice nor leaves the queue asleep.
SlotsHeld ==
    /\ active = Cardinality(In("running") \cup In("ended"))
    /\ active <= Concurrency
    /\ queue # << >> => active = Concurrency
    /\ Len(queue) <= PoolQueueLimit /\ {queue[i] : i \in DOMAIN queue} = In("queued")

\* Callers of one pair share its lookup: two are under way only when one of
\* them has already failed its callers by its timeout.
OneLookup ==
    \A k, l \in Unsettled : lookups[k].pair = lookups[l].pair => k = l

\* Nobody waits for a lookup that is settled or that another replaced.
WaitersFollow ==
    \A c \in Callers : callers[c].state = "waiting" =>
        /\ callers[c].flight \in Unsettled
        /\ flights[callers[c].pair] = callers[c].flight

\* However many pairs are asked for, the cache stays within its size and holds
\* one outcome per pair.
CacheBounded ==
    /\ Len(cache) <= MaxEntries
    /\ \A i, j \in DOMAIN cache : cache[i].pair = cache[j].pair => i = j

\* What the pool, the flights, the callers and the cache know of the lookups
\* agrees, with timeouts, joins and settlements in any order.
LookupsConsistent == LookupTypeOK /\ SlotsHeld /\ OneLookup /\ WaitersFollow /\ CacheBounded

\* Every caller is answered although the work it waits for may never end.
CallersEnd == \A c \in Callers : callers[c].state = "waiting" ~> callers[c].state # "waiting"
=============================================================================
