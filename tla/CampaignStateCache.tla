------------------------- MODULE CampaignStateCache -------------------------
(***************************************************************************)
(* The campaign snapshot the recovery service shares between its callers   *)
(* (#campaignState and its flights in src/recovery-campaign-service.mjs).  *)
(* A normal call may be served from a short-lived cache or join a read     *)
(* under way; a fresh call must see a read that begins after it.  At most  *)
(* one fresh read runs and at most one more waits behind it, and every     *)
(* fresh read, like every own release, is a barrier: it advances the       *)
(* generation, and a read of an older generation may not fill the cache.   *)
(*                                                                         *)
(* The campaign is abstracted to the version of the chain it was read at.  *)
(***************************************************************************)
EXTENDS Integers, FiniteSets, Sequences

CONSTANTS
    Callers,                            \* each calls once
    Ttl,                                \* campaignStateCacheTtlSeconds
    MaxVersion, MaxTime                 \* bounds of the exploration

ASSUME TtlAssumption == Ttl \in Nat
ASSUME BoundAssumption == MaxVersion \in Nat /\ MaxTime \in Nat

NoFlight == 0
Queued == -1        \* waiting for the trailing fresh read
Kinds == {"normal", "fresh"}

VARIABLES
    now, version,   \* the clock and the chain
    generation,     \* campaignStateGeneration
    floor,          \* chain version when the generation last advanced
    cache,          \* campaignStateCache
    flights,        \* campaignStateFlights: the current read of each kind
    reads,          \* every read ever started, in order
    trailing,       \* campaignStateFreshQueued is waiting for this read to settle
    callers         \* what each caller asked, waits for and was told

vars == <<now, version, generation, floor, cache, flights, reads, trailing, callers>>

Read == [kind : Kinds, generation : Nat, begin : Nat, state : {"reading", "done", "failed"}]
Caller == [state : {"idle", "waiting", "answered", "failed"}, fresh : BOOLEAN, flight : Int,
           asked : Nat, floor : Nat, answer : Nat]
Empty == [value |-> 0, expires |-> 0]

TypeOK ==
    /\ now \in Nat /\ version \in Nat /\ generation \in Nat /\ floor \in Nat
    /\ cache \in [value : Nat, expires : Nat]
    /\ flights \in [Kinds -> Nat]
    /\ reads \in Seq(Read)
    /\ trailing \in Nat
    /\ callers \in [Callers -> Caller]

Init ==
    /\ now = 0 /\ version = 1 /\ generation = 0 /\ floor = 1
    /\ cache = Empty
    /\ flights = [kind \in Kinds |-> NoFlight]
    /\ reads = << >>
    /\ trailing = NoFlight
    /\ callers \in [Callers -> {[state |-> "idle", fresh |-> fresh, flight |-> NoFlight,
                                 asked |-> 0, floor |-> 0, answer |-> 0] : fresh \in BOOLEAN}]

Reading == {f \in DOMAIN reads : reads[f].state = "reading"}
NewFlight == Len(reads) + 1

Asking(c, state, flight, answer) ==
    [state |-> state, fresh |-> callers[c].fresh, flight |-> flight, asked |-> version,
     floor |-> floor, answer |-> answer]
Moved(caller, state, flight, answer) ==
    [state |-> state, fresh |-> caller.fresh, flight |-> flight, asked |-> caller.asked,
     floor |-> caller.floor, answer |-> answer]

Waits(c, flight) == callers' = [callers EXCEPT ![c] = Asking(c, "waiting", flight, 0)]
Answered(c) == callers' = [callers EXCEPT ![c] = Asking(c, "answered", NoFlight, cache.value)]
WaitsFor(c, flight) == callers[c].state = "waiting" /\ callers[c].flight = flight

-----------------------------------------------------------------------------
(* Reads *)

\* A new generation: whatever was read before may not be cached any more.
Barrier ==
    /\ generation' = generation + 1
    /\ floor' = version
    /\ cache' = Empty

StartRead(kind, ofGeneration) ==
    /\ reads' = Append(reads, [kind |-> kind, generation |-> ofGeneration,
                               begin |-> version, state |-> "reading"])
    /\ flights' = [flights EXCEPT ![kind] = NewFlight]

StartFresh == Barrier /\ StartRead("fresh", generation + 1)

StartNormal == StartRead("normal", generation) /\ UNCHANGED <<generation, floor, cache>>

Settle(f, state) ==
    /\ reads' = [reads EXCEPT ![f].state = state]
    /\ flights' = [kind \in Kinds |-> IF flights[kind] = f THEN NoFlight ELSE flights[kind]]
    /\ UNCHANGED <<now, version, generation, floor, trailing>>

Tell(f, state, answer) ==
    callers' = [c \in Callers |->
        IF WaitsFor(c, f) THEN Moved(callers[c], state, NoFlight, answer) ELSE callers[c]]

Entry(value) == [value |-> value, expires |-> now + Ttl]

\* Bug: a read counts whatever its generation.
AnyGeneration(f) == reads[f].generation <= generation

\* Only a read of the current generation fills the cache.
Current(f) == reads[f].generation = generation

\* The read saw the chain at some moment since it began.
ReadSucceeds(f, value) ==
    /\ f \in Reading
    /\ value \in reads[f].begin..version
    /\ cache' = IF Current(f) THEN Entry(value) ELSE cache
    /\ Tell(f, "answered", value)
    /\ Settle(f, "done")

ReadFails(f) ==
    /\ f \in Reading
    /\ Tell(f, "failed", 0)
    /\ Settle(f, "failed")
    /\ UNCHANGED cache

\* Bug: the trailing read is not started when the one before it fails.
TrailingAfterSuccess == reads[trailing].state = "done"

\* The trailing read begins once the one before it settled, well or badly.
TrailingReady == reads[trailing].state # "reading"

StartTrailing ==
    /\ trailing # NoFlight
    /\ TrailingReady
    /\ trailing' = NoFlight
    /\ StartFresh
    /\ callers' = [c \in Callers |->
           IF WaitsFor(c, Queued) THEN Moved(callers[c], "waiting", NewFlight, 0) ELSE callers[c]]
    /\ UNCHANGED <<now, version>>

-----------------------------------------------------------------------------
(* Calls *)

\* Bug: a fresh call joins the fresh read already running.
JoinsRunning == flights["fresh"]

WaitsBehind == Queued

FreshReading == flights["fresh"] # NoFlight

\* A fresh call joins only a read that has not begun.
FreshCall(c) ==
    /\ callers[c].state = "idle" /\ callers[c].fresh
    /\ \/ /\ trailing # NoFlight
          /\ Waits(c, Queued)
          /\ UNCHANGED <<generation, floor, cache, flights, reads, trailing>>
       \/ /\ trailing = NoFlight /\ ~FreshReading
          /\ Waits(c, NewFlight)
          /\ StartFresh
          /\ UNCHANGED trailing
       \/ /\ trailing = NoFlight /\ FreshReading
          /\ Waits(c, WaitsBehind)
          /\ trailing' = flights["fresh"]
          /\ UNCHANGED <<generation, floor, cache, flights, reads>>
    /\ UNCHANGED <<now, version>>

Cached == cache # Empty /\ cache.expires > now
Joinable(kind) == flights[kind] # NoFlight /\ Current(flights[kind])

NormalCall(c) ==
    /\ callers[c].state = "idle" /\ ~callers[c].fresh
    /\ \/ /\ Cached
          /\ Answered(c)
          /\ UNCHANGED <<generation, floor, cache, flights, reads>>
       \/ /\ ~Cached
          /\ \E kind \in Kinds :
                /\ Joinable(kind) /\ (kind = "normal" => ~Joinable("fresh"))
                /\ Waits(c, flights[kind])
          /\ UNCHANGED <<generation, floor, cache, flights, reads>>
       \/ /\ ~Cached
          /\ \A kind \in Kinds : ~Joinable(kind)
          /\ Waits(c, NewFlight)
          /\ StartNormal
    /\ UNCHANGED <<now, version, trailing>>

\* releaseEligible after its receipt: the chain moved and the cache must go.
OwnRelease ==
    /\ version < MaxVersion
    /\ version' = version + 1
    /\ generation' = generation + 1
    /\ floor' = version + 1
    /\ cache' = Empty
    /\ UNCHANGED <<now, flights, reads, trailing, callers>>

ChainMoves ==
    /\ version < MaxVersion
    /\ version' = version + 1
    /\ UNCHANGED <<now, generation, floor, cache, flights, reads, trailing, callers>>

Tick ==
    /\ now < MaxTime
    /\ now' = now + 1
    /\ UNCHANGED <<version, generation, floor, cache, flights, reads, trailing, callers>>

-----------------------------------------------------------------------------
Finish(f) == ReadFails(f) \/ \E value \in 1..MaxVersion : ReadSucceeds(f, value)

Next ==
    \/ \E c \in Callers : FreshCall(c) \/ NormalCall(c)
    \/ \E f \in DOMAIN reads : Finish(f)
    \/ StartTrailing
    \/ OwnRelease
    \/ ChainMoves
    \/ Tick

\* Every read settles (the provider has its own timeout) and the microtask that
\* starts the trailing read runs.
Fairness == WF_vars(StartTrailing) /\ \A f \in 1..Cardinality(Callers) : WF_vars(f \in DOMAIN reads /\ Finish(f))

Spec == Init /\ [][Next]_vars
FairSpec == Spec /\ Fairness

-----------------------------------------------------------------------------
(* Properties *)

\* A fresh call is told nothing older than the chain was when it asked,
\* although it shares its read with a burst of other calls.
FreshIsFresh ==
    \A c \in Callers : callers[c].state = "answered" /\ callers[c].fresh =>
        callers[c].answer >= callers[c].asked

\* No call is told anything older than the last barrier before it: a read that
\* began earlier can neither be joined nor come back through the cache.
BarrierHolds ==
    \A c \in Callers : callers[c].state = "answered" => callers[c].answer >= callers[c].floor

\* Every call ends, also when the read it waits behind fails.
CallsEnd == \A c \in Callers : callers[c].state = "waiting" ~> callers[c].state \in {"answered", "failed"}
=============================================================================
