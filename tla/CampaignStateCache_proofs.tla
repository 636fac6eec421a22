---------------------- MODULE CampaignStateCache_proofs ----------------------
(***************************************************************************)
(* Proofs about CampaignStateCache, for every set of callers, lifetime and *)
(* length of history.                                                      *)
(***************************************************************************)
EXTENDS CampaignStateCache, TLAPS

\* What a caller still waiting will be told is recent enough, and so is what
\* the cache and every read that may yet fill it hold.
Ordered == floor <= version
ReadsOrdered == \A f \in DOMAIN reads :
    /\ reads[f].begin <= version
    /\ reads[f].generation <= generation
    /\ reads[f].generation = generation => reads[f].begin >= floor
FlightsKnown == \A kind \in Kinds : flights[kind] # NoFlight => flights[kind] \in DOMAIN reads
WaitsRecent == \A c \in Callers : callers[c].state = "waiting" =>
    /\ callers[c].asked <= version /\ callers[c].floor <= version
    /\ callers[c].flight # Queued =>
          /\ callers[c].flight \in DOMAIN reads
          /\ callers[c].floor <= reads[callers[c].flight].begin
          /\ callers[c].fresh => callers[c].asked <= reads[callers[c].flight].begin
CacheRecent == cache # Empty => cache.value >= floor

IInv ==
    /\ TypeOK
    /\ Ordered
    /\ ReadsOrdered
    /\ FlightsKnown
    /\ WaitsRecent
    /\ CacheRecent
    /\ FreshIsFresh
    /\ BarrierHolds

LEMMA InitIInv == Init => IInv
BY DEF Init, IInv, TypeOK, Ordered, ReadsOrdered, FlightsKnown, WaitsRecent, CacheRecent, FreshIsFresh,
       BarrierHolds, Empty, Caller, Kinds, NoFlight

-----------------------------------------------------------------------------
LEMMA ReadTypes ==
    ASSUME TypeOK
    PROVE  \A f \in DOMAIN reads : reads[f].generation \in Nat /\ reads[f].begin \in Nat
<1>1. \A f \in DOMAIN reads : reads[f] \in Read
  BY DEF TypeOK
<1> QED
  BY <1>1 DEF Read

\* What a caller becomes when it asks, and when it is moved.
LEMMA AskingFields ==
    ASSUME TypeOK, NEW c \in Callers, NEW state \in {"waiting", "answered"}, NEW flight \in Int, NEW answer \in Nat
    PROVE  LET asking == Asking(c, state, flight, answer) IN
           /\ asking \in Caller /\ asking.state = state /\ asking.flight = flight /\ asking.answer = answer
           /\ asking.asked = version /\ asking.floor = floor /\ asking.fresh = callers[c].fresh
BY DEF Asking, Caller, TypeOK

LEMMA MovedFields ==
    ASSUME NEW caller \in Caller, NEW state \in {"waiting", "answered", "failed"}, NEW flight \in Int, NEW answer \in Nat
    PROVE  LET moved == Moved(caller, state, flight, answer) IN
           /\ moved \in Caller /\ moved.state = state /\ moved.flight = flight /\ moved.answer = answer
           /\ moved.asked = caller.asked /\ moved.floor = caller.floor /\ moved.fresh = caller.fresh
BY DEF Moved, Caller

\* A caller that starts to wait, for a read that began late enough or the
\* trailing one, while the reads stay as they are.
LEMMA Joining ==
    ASSUME IInv, NEW c \in Callers, NEW flight \in Int, callers[c].state = "idle", Waits(c, flight),
           UNCHANGED <<now, version, generation, floor, cache, flights, reads>>, trailing' \in Nat,
           \/ flight = Queued
           \/ /\ flight \in DOMAIN reads /\ floor <= reads[flight].begin
              /\ callers[c].fresh = FALSE
    PROVE  IInv'
<1>0. callers \in [Callers -> Caller] /\ callers' = [callers EXCEPT ![c] = Asking(c, "waiting", flight, 0)]
  BY DEF Waits, IInv, TypeOK
<1>a. Asking(c, "waiting", flight, 0) \in Caller
  BY AskingFields DEF IInv
<1>1. TypeOK'
  BY <1>0, <1>a DEF IInv, TypeOK
<1>2. /\ callers'[c].state = "waiting" /\ callers'[c].flight = flight /\ callers'[c].asked = version
      /\ callers'[c].floor = floor /\ callers'[c].fresh = callers[c].fresh
      /\ \A d \in Callers : d # c => callers'[d] = callers[d]
  BY <1>0, AskingFields DEF IInv
<1>3. WaitsRecent'
  BY <1>2 DEF IInv, WaitsRecent, Ordered, TypeOK
<1>4. FreshIsFresh' /\ BarrierHolds'
  BY <1>2 DEF IInv, FreshIsFresh, BarrierHolds
<1> QED
  BY <1>1, <1>3, <1>4 DEF IInv, Ordered, ReadsOrdered, FlightsKnown, CacheRecent

\* A read appended to the history.
LEMMA Appending ==
    ASSUME IInv, NEW kind \in Kinds, NEW g \in Nat, StartRead(kind, g)
    PROVE  /\ reads' \in Seq(Read)
           /\ flights' \in [Kinds -> Nat]
           /\ DOMAIN reads' = DOMAIN reads \cup {NewFlight} /\ NewFlight \in Nat
           /\ \A f \in DOMAIN reads : reads'[f] = reads[f]
           /\ reads'[NewFlight].begin = version /\ reads'[NewFlight].generation = g
           /\ flights' = [flights EXCEPT ![kind] = NewFlight]
<1> DEFINE new == [kind |-> kind, generation |-> g, begin |-> version, state |-> "reading"]
<1>1. new \in Read /\ new.begin = version /\ new.generation = g
  BY DEF Read, IInv, TypeOK
<1>2. reads \in Seq(Read) /\ reads' = Append(reads, new) /\ NewFlight = Len(reads) + 1
  BY DEF StartRead, NewFlight, IInv, TypeOK
<1> HIDE DEF new
<1>3. /\ reads' \in Seq(Read) /\ Len(reads') = Len(reads) + 1
      /\ \A f \in 1..Len(reads) : reads'[f] = reads[f]
      /\ reads'[Len(reads) + 1] = new
  BY <1>1, <1>2
<1> QED
  BY <1>1, <1>2, <1>3 DEF StartRead, IInv, TypeOK, NewFlight

\* A barrier: the new fresh read begins now, and whoever waits for it asked
\* before.
LEMMA StartingFresh ==
    ASSUME IInv, StartFresh, UNCHANGED <<now, version>>, trailing' \in Nat,
           callers' \in [Callers -> Caller],
           \A c \in Callers : callers'[c] # callers[c] =>
              /\ callers'[c].state = "waiting" /\ callers'[c].flight = NewFlight
              /\ callers'[c].asked <= version /\ callers'[c].floor <= version
    PROVE  IInv'
<1>1. /\ generation' = generation + 1 /\ floor' = version /\ cache' = Empty
      /\ StartRead("fresh", generation + 1) /\ "fresh" \in Kinds /\ generation + 1 \in Nat
  BY DEF StartFresh, Barrier, Kinds, IInv, TypeOK
<1>2. /\ reads' \in Seq(Read) /\ flights' \in [Kinds -> Nat]
      /\ DOMAIN reads' = DOMAIN reads \cup {NewFlight} /\ NewFlight \in Nat
      /\ \A f \in DOMAIN reads : reads'[f] = reads[f]
      /\ reads'[NewFlight].begin = version /\ reads'[NewFlight].generation = generation + 1
      /\ flights' = [flights EXCEPT !["fresh"] = NewFlight]
  BY <1>1, Appending
<1>3. TypeOK'
  BY <1>1, <1>2 DEF IInv, TypeOK, Empty
<1>4. ReadsOrdered'
  <2>1. \A f \in DOMAIN reads : reads[f].generation \in Nat /\ reads[f].begin \in Nat
    BY ReadTypes DEF IInv
  <2>2. NewFlight \notin DOMAIN reads
    BY DEF NewFlight, IInv, TypeOK
  <2> QED
    BY <1>1, <1>2, <2>1, <2>2 DEF IInv, TypeOK, ReadsOrdered
<1>5. FlightsKnown'
  BY <1>2 DEF IInv, FlightsKnown
<1>6. WaitsRecent'
  BY <1>1, <1>2 DEF IInv, WaitsRecent, TypeOK, Queued
<1>7. FreshIsFresh' /\ BarrierHolds'
  BY DEF IInv, FreshIsFresh, BarrierHolds
<1> QED
  BY <1>1, <1>3, <1>4, <1>5, <1>6, <1>7 DEF IInv, TypeOK, Ordered, CacheRecent

LEMMA FreshCallStep ==
    ASSUME IInv, NEW c \in Callers, FreshCall(c) PROVE IInv'
<1>1. CASE trailing = NoFlight /\ ~FreshReading
  <2>1. StartFresh /\ Waits(c, NewFlight) /\ UNCHANGED <<now, version, trailing>>
    BY <1>1 DEF FreshCall, NoFlight
  <2>0. NewFlight \in Nat /\ version \in Nat /\ floor <= version /\ callers \in [Callers -> Caller]
    BY DEF NewFlight, IInv, TypeOK, Ordered
  <2>a. callers' = [callers EXCEPT ![c] = Asking(c, "waiting", NewFlight, 0)]
    BY <2>1 DEF Waits
  <2>b. LET asking == Asking(c, "waiting", NewFlight, 0) IN
        /\ asking \in Caller /\ asking.state = "waiting" /\ asking.flight = NewFlight
        /\ asking.asked = version /\ asking.floor = floor
    BY <2>0, AskingFields DEF IInv
  <2>2. callers' \in [Callers -> Caller]
    BY <2>0, <2>a, <2>b
  <2>3. \A d \in Callers : callers'[d] # callers[d] =>
              /\ callers'[d].state = "waiting" /\ callers'[d].flight = NewFlight
              /\ callers'[d].asked <= version /\ callers'[d].floor <= version
    BY <2>0, <2>a, <2>b
  <2> QED
    BY <2>1, <2>2, <2>3, StartingFresh DEF IInv, TypeOK
<1>2. CASE ~(trailing = NoFlight /\ ~FreshReading)
  <2>1. /\ Waits(c, Queued) /\ callers[c].state = "idle"
        /\ UNCHANGED <<now, version, generation, floor, cache, flights, reads>>
        /\ trailing' \in Nat
    BY <1>2 DEF FreshCall, WaitsBehind, IInv, TypeOK, Kinds
  <2>2. Queued \in Int
    BY DEF Queued
  <2> QED
    BY <2>1, <2>2, Joining
<1> QED
  BY <1>1, <1>2

LEMMA NormalCallStep ==
    ASSUME IInv, NEW c \in Callers, NormalCall(c) PROVE IInv'
<1>0. callers[c].state = "idle" /\ callers[c].fresh = FALSE /\ UNCHANGED <<now, version, trailing>>
  BY DEF NormalCall, IInv, TypeOK, Caller
<1>1. ASSUME Cached, Answered(c), UNCHANGED <<generation, floor, cache, flights, reads>> PROVE IInv'
  <2>1. /\ callers' \in [Callers -> Caller]
        /\ callers'[c].state = "answered" /\ callers'[c].answer = cache.value
        /\ callers'[c].floor = floor /\ callers'[c].fresh = FALSE
        /\ \A d \in Callers : d # c => callers'[d] = callers[d]
    <3>1. cache.value \in Nat /\ NoFlight \in Int /\ callers \in [Callers -> Caller]
      BY DEF NoFlight, IInv, TypeOK
    <3>2. callers' = [callers EXCEPT ![c] = Asking(c, "answered", NoFlight, cache.value)]
      BY <1>1 DEF Answered
    <3> QED
      BY <1>0, <3>1, <3>2, AskingFields DEF IInv
  <2>2. cache.value >= floor
    BY <1>1 DEF Cached, IInv, CacheRecent
  <2> QED
    BY <1>0, <1>1, <2>1, <2>2 DEF IInv, TypeOK, Ordered, ReadsOrdered, FlightsKnown, WaitsRecent, CacheRecent,
       FreshIsFresh, BarrierHolds
<1>2. ASSUME NEW kind \in Kinds, Joinable(kind), Waits(c, flights[kind]),
             UNCHANGED <<generation, floor, cache, flights, reads>> PROVE IInv'
  <2>1. flights[kind] \in DOMAIN reads /\ floor <= reads[flights[kind]].begin /\ flights[kind] \in Int
    BY <1>2 DEF Joinable, Current, IInv, FlightsKnown, ReadsOrdered, TypeOK
  <2> QED
    BY <1>0, <1>2, <2>1, Joining DEF IInv, TypeOK
<1>3. ASSUME Waits(c, NewFlight), StartNormal PROVE IInv'
  <2>1. /\ UNCHANGED <<generation, floor, cache>> /\ StartRead("normal", generation)
        /\ "normal" \in Kinds /\ generation \in Nat
    BY <1>3 DEF StartNormal, Kinds, IInv, TypeOK
  <2>2. /\ reads' \in Seq(Read) /\ flights' \in [Kinds -> Nat]
        /\ DOMAIN reads' = DOMAIN reads \cup {NewFlight} /\ NewFlight \in Nat
        /\ \A f \in DOMAIN reads : reads'[f] = reads[f]
        /\ reads'[NewFlight].begin = version /\ reads'[NewFlight].generation = generation
        /\ flights' = [flights EXCEPT !["normal"] = NewFlight]
    BY <2>1, Appending
  <2>3. /\ callers' \in [Callers -> Caller]
        /\ callers'[c].state = "waiting" /\ callers'[c].flight = NewFlight
        /\ callers'[c].asked = version /\ callers'[c].floor = floor
        /\ \A d \in Callers : d # c => callers'[d] = callers[d]
    <3>1. callers \in [Callers -> Caller]
      BY DEF IInv, TypeOK
    <3>2. callers' = [callers EXCEPT ![c] = Asking(c, "waiting", NewFlight, 0)]
      BY <1>3 DEF Waits
    <3> QED
      BY <2>2, <3>1, <3>2, AskingFields DEF IInv
  <2>4. TypeOK'
    BY <1>0, <2>1, <2>2, <2>3 DEF IInv, TypeOK
  <2>5. ReadsOrdered' /\ FlightsKnown'
    BY <1>0, <2>1, <2>2 DEF IInv, TypeOK, Ordered, ReadsOrdered, FlightsKnown
  <2>6. WaitsRecent'
    <3>1. floor <= version /\ floor \in Nat /\ version \in Nat /\ NewFlight # Queued
      BY <2>2 DEF IInv, TypeOK, Ordered, Queued
    <3>2. \A d \in Callers : callers[d].state = "waiting" => d # c
      BY <1>0
    <3> QED
      BY <1>0, <2>1, <2>2, <2>3, <3>1, <3>2 DEF IInv, WaitsRecent
  <2>7. FreshIsFresh' /\ BarrierHolds'
    BY <2>3 DEF IInv, FreshIsFresh, BarrierHolds
  <2> QED
    BY <1>0, <2>1, <2>4, <2>5, <2>6, <2>7 DEF IInv, Ordered, CacheRecent
<1> QED
  BY <1>1, <1>2, <1>3 DEF NormalCall

\* A read that settles tells its callers a value no older than its beginning.
LEMMA FinishStep ==
    ASSUME IInv, NEW f \in DOMAIN reads, Finish(f) PROVE IInv'
<1>0. f \in Reading /\ UNCHANGED <<now, version, generation, floor, trailing>>
  BY DEF Finish, ReadFails, ReadSucceeds, Settle
<1>1. /\ reads' \in Seq(Read) /\ DOMAIN reads' = DOMAIN reads
      /\ \A g \in DOMAIN reads : reads'[g].begin = reads[g].begin /\ reads'[g].generation = reads[g].generation
  <2>1. PICK state \in {"done", "failed"} : reads' = [reads EXCEPT ![f].state = state]
    BY DEF Finish, ReadFails, ReadSucceeds, Settle
  <2>2. reads \in Seq(Read) /\ reads[f] \in Read
    BY DEF IInv, TypeOK
  <2>3. [reads[f] EXCEPT !.state = state] \in Read
    BY <2>2 DEF Read
  <2> QED
    BY <2>1, <2>2, <2>3 DEF Read
<1>2. flights' \in [Kinds -> Nat] /\ \A kind \in Kinds : flights'[kind] \in {flights[kind], NoFlight}
  BY DEF Finish, ReadFails, ReadSucceeds, Settle, NoFlight, IInv, TypeOK
<1>3. \E state \in {"answered", "failed"}, value \in Nat :
         /\ Tell(f, state, value)
         /\ state = "answered" => value >= reads[f].begin
         /\ cache' = cache \/ (cache' = Entry(value) /\ Current(f) /\ value >= reads[f].begin)
  <2>1. CASE ReadFails(f)
    BY <2>1 DEF ReadFails
  <2>2. CASE \E value \in 1..MaxVersion : ReadSucceeds(f, value)
    BY <2>2, BoundAssumption DEF ReadSucceeds
  <2> QED
    BY <2>1, <2>2 DEF Finish
<1>4. PICK state \in {"answered", "failed"}, value \in Nat :
         /\ Tell(f, state, value)
         /\ state = "answered" => value >= reads[f].begin
         /\ cache' = cache \/ (cache' = Entry(value) /\ Current(f) /\ value >= reads[f].begin)
  BY <1>3
<1>5. \A c \in Callers :
         \/ callers'[c] = callers[c]
         \/ /\ callers[c].state = "waiting" /\ callers[c].flight = f
            /\ callers'[c] = Moved(callers[c], state, NoFlight, value)
  BY <1>4 DEF Tell, WaitsFor
<1>6. \A c \in Callers : callers[c] \in Caller
  BY DEF IInv, TypeOK
<1>7. callers' \in [Callers -> Caller]
  <2>0. state \in {"waiting", "answered", "failed"} /\ NoFlight \in Int
    BY DEF NoFlight
  <2>a. \A c \in Callers : Moved(callers[c], state, NoFlight, value) \in Caller
    BY <1>6, <2>0, MovedFields
  <2>1. \A c \in Callers : callers'[c] \in Caller
    BY <1>5, <1>6, <2>a
  <2> QED
    BY <1>4, <2>1 DEF Tell
<1>8. cache' \in [value : Nat, expires : Nat]
  BY <1>4, TtlAssumption DEF Entry, IInv, TypeOK
<1>9. TypeOK'
  BY <1>0, <1>1, <1>2, <1>7, <1>8 DEF IInv, TypeOK
<1>10. Ordered' /\ ReadsOrdered' /\ FlightsKnown'
  BY <1>0, <1>1, <1>2 DEF IInv, Ordered, ReadsOrdered, FlightsKnown
<1>11. CacheRecent'
  <2>1. Entry(value).value = value
    BY DEF Entry
  <2>2. reads[f].begin \in Nat /\ floor \in Nat
    BY ReadTypes DEF IInv, TypeOK
  <2> QED
    BY <1>0, <1>4, <2>1, <2>2 DEF IInv, CacheRecent, ReadsOrdered, Current
<1>12. \A c \in Callers :
         \/ callers'[c] = callers[c]
         \/ /\ callers[c].state = "waiting" /\ callers[c].flight = f /\ f # Queued
            /\ callers'[c].state = state /\ callers'[c].answer = value
            /\ callers'[c].fresh = callers[c].fresh
            /\ callers'[c].asked = callers[c].asked /\ callers'[c].floor = callers[c].floor
  <2>1. f # Queued
    BY DEF Queued, IInv, TypeOK
  <2> QED
    BY <1>5, <1>6, <2>1, MovedFields DEF NoFlight
<1>13. WaitsRecent'
  BY <1>0, <1>1, <1>12 DEF IInv, WaitsRecent
<1>14. FreshIsFresh' /\ BarrierHolds'
  <2>1. reads[f].begin \in Nat
    BY ReadTypes DEF IInv
  <2> QED
    BY <1>4, <1>6, <1>12, <2>1 DEF IInv, WaitsRecent, FreshIsFresh, BarrierHolds, Caller
<1> QED
  BY <1>9, <1>10, <1>11, <1>13, <1>14 DEF IInv

LEMMA TrailingStep == ASSUME IInv, StartTrailing PROVE IInv'
<1>1. \A c \in Callers : callers[c] \in Caller
  BY DEF IInv, TypeOK
<1>2. NewFlight \in Nat
  BY DEF NewFlight, IInv, TypeOK
<1>3. \A c \in Callers :
         \/ callers'[c] = callers[c]
         \/ callers[c].state = "waiting" /\ callers'[c] = Moved(callers[c], "waiting", NewFlight, 0)
  BY DEF StartTrailing, WaitsFor
<1>4. callers' \in [Callers -> Caller]
  <2>1. \A c \in Callers : callers'[c] \in Caller
    BY <1>1, <1>2, <1>3, MovedFields
  <2> QED
    BY <2>1 DEF StartTrailing
<1>5. \A c \in Callers : callers'[c] # callers[c] =>
              /\ callers'[c].state = "waiting" /\ callers'[c].flight = NewFlight
              /\ callers'[c].asked <= version /\ callers'[c].floor <= version
  BY <1>1, <1>2, <1>3, MovedFields DEF IInv, WaitsRecent
<1> QED
  BY <1>4, <1>5, StartingFresh DEF StartTrailing, NoFlight

-----------------------------------------------------------------------------
LEMMA NextIInv == IInv /\ [Next]_vars => IInv'
<1> SUFFICES ASSUME IInv, [Next]_vars PROVE IInv'
  OBVIOUS
<1>1. CASE OwnRelease
  <2>1. \A f \in DOMAIN reads : reads[f].generation \in Nat /\ reads[f].begin \in Nat
    BY ReadTypes DEF IInv
  <2>2. \A c \in Callers : callers[c].asked \in Nat /\ callers[c].floor \in Nat
    BY DEF IInv, TypeOK, Caller
  <2> QED
    BY <1>1, <2>1, <2>2 DEF OwnRelease, Empty, IInv, TypeOK, Ordered, ReadsOrdered, FlightsKnown, WaitsRecent,
       CacheRecent, FreshIsFresh, BarrierHolds
<1>2. CASE ChainMoves
  <2>1. \A f \in DOMAIN reads : reads[f].begin \in Nat
    BY ReadTypes DEF IInv
  <2>2. \A c \in Callers : callers[c].asked \in Nat /\ callers[c].floor \in Nat
    BY DEF IInv, TypeOK, Caller
  <2> QED
    BY <1>2, <2>1, <2>2 DEF ChainMoves, IInv, TypeOK, Ordered, ReadsOrdered, FlightsKnown, WaitsRecent,
       CacheRecent, FreshIsFresh, BarrierHolds
<1>3. CASE Tick
  BY <1>3 DEF Tick, IInv, TypeOK, Ordered, ReadsOrdered, FlightsKnown, WaitsRecent, CacheRecent,
     FreshIsFresh, BarrierHolds
<1>4. CASE UNCHANGED vars
  BY <1>4 DEF vars, IInv, TypeOK, Ordered, ReadsOrdered, FlightsKnown, WaitsRecent, CacheRecent,
     FreshIsFresh, BarrierHolds
<1> QED
  BY <1>1, <1>2, <1>3, <1>4, FreshCallStep, NormalCallStep, FinishStep, TrailingStep DEF Next

THEOREM CacheInvariant == Spec => []IInv
BY InitIInv, NextIInv, PTL DEF Spec

\* Every variable keeps its type.
THEOREM TypeCorrect == Spec => []TypeOK
BY CacheInvariant, PTL DEF IInv

\* A fresh call is never told a state older than its request.
THEOREM FreshCallsAreFresh == Spec => []FreshIsFresh
BY CacheInvariant, PTL DEF IInv

\* No call is told anything older than the last barrier before it.
THEOREM BarriersHold == Spec => []BarrierHolds
BY CacheInvariant, PTL DEF IInv
=============================================================================
