--------------------------- MODULE ObservationCache ---------------------------
(***************************************************************************)
(* The durable cache of deployment observations                            *)
(* (src/cloudflare-v2-observation-cache.mjs).  An observation spends a     *)
(* budget of provider calls, so a refresh first writes a lease to shared   *)
(* storage, then observes, then turns its own lease into a snapshot.  A    *)
(* failed observation leaves the lease in place until it runs out.         *)
(*                                                                         *)
(* Caches are objects over the same storage, recreated at any moment under *)
(* the identity of whatever version is deployed.  Each has one refresh     *)
(* under way at most; a read meanwhile joins it, which changes nothing.    *)
(* The clock may be set to anything at any moment.                         *)
(***************************************************************************)
EXTENDS Integers

CONSTANTS
    Caches,          \* objects created over the storage
    Identities,      \* provider, observation, version and lifetime identities
    Ttl,             \* ttlMs
    LastProbe        \* bound of the exploration

ASSUME TtlAssumption == Ttl \in Nat \ {0} /\ LastProbe \in Nat

VARIABLES
    clock,      \* Date.now()
    identity,   \* identity of each cache
    stored,     \* the record in storage
    memory,     \* memoryState
    flight,     \* refreshFlight
    answered,   \* the last answer given, and its clock
    probes      \* leases taken since the stored identity came into storage

observer == <<clock, identity, stored, memory, flight, answered, probes>>

\* A validated observation, a reported failure (503) like a success (200).
NoSnapshot == [checked |-> 0, expires |-> 0]
Snapshots == [checked : Nat, expires : Nat]

NoState == [identity |-> {}, next |-> 0, snapshot |-> NoSnapshot]
States == [identity : Identities, next : Nat, snapshot : Snapshots]

NoFlight == [phase |-> "none", lease |-> 0]
Flights == [phase : {"none", "acquiring", "observing", "committing"}, lease : Nat]

Answers == [at : Nat, snapshot : Snapshots]

ObserverTypeOK ==
    /\ clock \in Nat
    /\ identity \in [Caches -> Identities]
    /\ stored \in States \cup {NoState}
    /\ memory \in [Caches -> States \cup {NoState}]
    /\ flight \in [Caches -> Flights]
    /\ answered \in Answers
    /\ probes \in Nat

ObserverInit ==
    /\ clock = 0
    /\ identity \in [Caches -> Identities]
    /\ stored = NoState
    /\ memory = [c \in Caches |-> NoState]
    /\ flight = [c \in Caches |-> NoFlight]
    /\ answered = [at |-> 0, snapshot |-> NoSnapshot]
    /\ probes = 0

-----------------------------------------------------------------------------
(* decisionFromState *)

Fresh(state) == state.snapshot # NoSnapshot /\ clock < state.snapshot.expires
Leased(state) == ~Fresh(state) /\ clock < state.next
\* Bug: a failed observation is retried under its own lease.
DueWithoutSnapshot(state) == ~Fresh(state)

Due(state) == ~Fresh(state) /\ ~Leased(state)

Answer(snapshot) == answered' = [at |-> clock, snapshot |-> snapshot]
Unavailable == Answer(NoSnapshot)
Landed(c) == flight' = [flight EXCEPT ![c] = NoFlight]

-----------------------------------------------------------------------------
(* read *)

\* The memory decides.
ReadMemory(c) ==
    /\ flight[c] = NoFlight
    /\ ~Due(memory[c])
    /\ IF Fresh(memory[c]) THEN Answer(memory[c].snapshot) ELSE Unavailable
    /\ UNCHANGED <<clock, identity, stored, memory, flight, probes>>

StartRefresh(c) ==
    /\ flight[c] = NoFlight
    /\ Due(memory[c])
    /\ flight' = [flight EXCEPT ![c] = [phase |-> "acquiring", lease |-> 0]]
    /\ UNCHANGED <<clock, identity, stored, memory, answered, probes>>

-----------------------------------------------------------------------------
(* refresh *)

\* Another identity's record counts as none.
Current(c) ==
    IF stored # NoState /\ stored.identity = identity[c] THEN stored
    ELSE [identity |-> identity[c], next |-> 0, snapshot |-> NoSnapshot]

\* normalizeState does not throw.
Readable(c) ==
    /\ Current(c).next <= clock + Ttl
    /\ Current(c).snapshot.checked <= clock

\* The record of storage, or a lease of its own, replaces the memory.
AcquireSettled(c) ==
    /\ Readable(c) /\ ~Due(Current(c))
    /\ memory' = [memory EXCEPT ![c] = Current(c)]
    /\ IF Fresh(Current(c)) THEN Answer(Current(c).snapshot) ELSE Unavailable
    /\ Landed(c)
    /\ UNCHANGED <<stored, probes>>

Lease(c) == [identity |-> identity[c], next |-> clock + Ttl, snapshot |-> NoSnapshot]

AcquireLease(c) ==
    /\ Readable(c) /\ Due(Current(c))
    /\ stored' = Lease(c)
    /\ memory' = [memory EXCEPT ![c] = Lease(c)]
    /\ flight' = [flight EXCEPT ![c] = [phase |-> "observing", lease |-> clock + Ttl]]
    /\ probes' = (IF stored # NoState /\ stored.identity = identity[c] THEN probes ELSE 0) + 1
    /\ UNCHANGED answered

\* Storage fails or its record is invalid.
AcquireFailed(c) ==
    /\ memory' = [memory EXCEPT ![c] = NoState]
    /\ Unavailable
    /\ Landed(c)
    /\ UNCHANGED <<stored, probes>>

Acquire(c) ==
    /\ flight[c].phase = "acquiring"
    /\ AcquireSettled(c) \/ AcquireLease(c) \/ AcquireFailed(c)
    /\ UNCHANGED <<clock, identity>>

\* A valid observation goes on to be committed.
Observe(c) ==
    /\ flight[c].phase = "observing"
    /\ flight' = [flight EXCEPT ![c] = [phase |-> "committing", lease |-> flight[c].lease]]
    /\ UNCHANGED <<clock, identity, stored, memory, answered, probes>>

\* An error, or an observation that is not one.
ObserveFailed(c) ==
    /\ flight[c].phase = "observing"
    /\ Unavailable
    /\ Landed(c)
    /\ UNCHANGED <<clock, identity, stored, memory, probes>>

\* Bug: the lease is compared without looking for a snapshot.
SameLease(c) == Current(c).next = flight[c].lease

StillLeased(c) == Current(c).next = flight[c].lease /\ Current(c).snapshot = NoSnapshot

Observed(c) ==
    [identity |-> identity[c], next |-> clock + Ttl,
     snapshot |-> [checked |-> clock, expires |-> clock + Ttl]]

CommitObserved(c) ==
    /\ Readable(c) /\ StillLeased(c)
    /\ stored' = Observed(c)
    /\ memory' = [memory EXCEPT ![c] = Observed(c)]
    /\ Answer(Observed(c).snapshot)

\* Storage fails, its record is invalid or the lease is gone.
CommitFailed(c) ==
    /\ memory' = [memory EXCEPT ![c] = [identity |-> identity[c], next |-> flight[c].lease,
                                        snapshot |-> NoSnapshot]]
    /\ Unavailable
    /\ UNCHANGED stored

CommitProbe(c) ==
    /\ flight[c].phase = "committing"
    /\ CommitObserved(c) \/ CommitFailed(c)
    /\ Landed(c)
    /\ UNCHANGED <<clock, identity, probes>>

-----------------------------------------------------------------------------
\* The object is evicted, or another version of the worker is deployed.
Recreate(c, id) ==
    /\ identity' = [identity EXCEPT ![c] = id]
    /\ memory' = [memory EXCEPT ![c] = NoState]
    /\ Landed(c)
    /\ UNCHANGED <<clock, stored, answered, probes>>

SetObserverClock(time) ==
    /\ clock' = time
    /\ UNCHANGED <<identity, stored, memory, flight, answered, probes>>

ObserverNext ==
    \/ \E c \in Caches :
        \/ ReadMemory(c) \/ StartRefresh(c)
        \/ Acquire(c) \/ Observe(c) \/ ObserveFailed(c) \/ CommitProbe(c)
        \/ \E id \in Identities : Recreate(c, id)
    \/ \E time \in 0..LastProbe : SetObserverClock(time)

ObserverSpec == ObserverInit /\ [][ObserverNext]_observer

-----------------------------------------------------------------------------
(* Properties *)

\* The provider budget: n observations of the stored identity have moved its
\* next probe by n lifetimes, failures, recreations and clock moves included.
BudgetHeld == probes * Ttl <= stored.next

\* An answer is a snapshot within its lifetime by the clock that decided it.
AnswersFresh ==
    answered.snapshot # NoSnapshot =>
        /\ answered.at < answered.snapshot.expires
        /\ answered.snapshot.expires = answered.snapshot.checked + Ttl

\* A published snapshot stands until it expires or the identity changes, though
\* other caches and late observations would replace it.
Stands ==
    stored.snapshot # NoSnapshot /\ stored' # stored =>
        clock >= stored.snapshot.expires \/ stored'.identity # stored.identity
SnapshotStands == [][Stands]_observer
=============================================================================
