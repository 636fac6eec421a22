--------------------------- MODULE StartupLifecycle ---------------------------
(***************************************************************************)
(* The recovery service's startup (src/recovery-startup-lifecycle.mjs).    *)
(* An attempt asks the service for its readiness under a watchdog; a       *)
(* transport failure is retried after a delay, as often as there are       *)
(* delays; anything else, the watchdog and stop end in an error.           *)
(*                                                                         *)
(* The readiness call starts in a later microtask than its attempt and may *)
(* settle at any time, or never: it cannot be cancelled.  Attempts are     *)
(* told apart by their generation.                                         *)
(***************************************************************************)
EXTENDS Integers, FiniteSets

CONSTANTS
    Retries,         \* number of retryDelaysMs
    MaxGeneration    \* bound of the exploration: repeated calls of stop

ASSUME RetriesAssumption == Retries \in Nat /\ MaxGeneration \in Nat /\ MaxGeneration > Retries + 2

VARIABLES
    state,        \* lifecycle.state
    started, stopped,
    generation,
    attempts,
    timer,        \* what the timer will do
    calls         \* the readiness call of each generation

vars == <<state, started, stopped, generation, attempts, timer, calls>>

Generations == 1..MaxGeneration

TypeOK ==
    /\ state \in {"waking", "ready", "error"}
    /\ started \in BOOLEAN /\ stopped \in BOOLEAN
    /\ generation \in 0..MaxGeneration
    /\ attempts \in 0..(Retries + 1)
    /\ timer \in {"none", "watchdog", "backoff"}
    /\ calls \in [Generations -> {"none", "queued", "running", "settled"}]

Init ==
    /\ state = "waking"
    /\ started = FALSE /\ stopped = FALSE
    /\ generation = 0
    /\ attempts = 0
    /\ timer = "none"
    /\ calls = [g \in Generations |-> "none"]

\* Bug: the generation of an answer is not compared.
CurrentIfRunning(g) == ~stopped /\ g \in Generations

Current(g) == ~stopped /\ g = generation

Settle(g) == calls' = [calls EXCEPT ![g] = "settled"]

-----------------------------------------------------------------------------
\* fail
Fails ==
    /\ timer' = "none"
    /\ generation' = generation + 1
    /\ state' = "error"
    /\ UNCHANGED attempts

\* Bug: an attempt starts without its watchdog.
AttemptUnwatched ==
    IF ~stopped /\ state = "waking"
    THEN /\ attempts' = attempts + 1
         /\ generation' = generation + 1
         /\ timer' = "none"
         /\ calls' = [calls EXCEPT ![generation + 1] = "queued"]
    ELSE /\ timer' = "none"
         /\ UNCHANGED <<attempts, generation, calls>>

\* attempt, which its guard makes inert once the service stopped or settled.
Attempt ==
    IF ~stopped /\ state = "waking"
    THEN /\ attempts' = attempts + 1
         /\ generation' = generation + 1
         /\ timer' = "watchdog"
         /\ calls' = [calls EXCEPT ![generation + 1] = "queued"]
    ELSE /\ timer' = "none"
         /\ UNCHANGED <<attempts, generation, calls>>

Start ==
    /\ ~started /\ ~stopped
    /\ started' = TRUE
    /\ Attempt
    /\ UNCHANGED <<state, stopped>>

\* The microtask of an attempt: a stale one does not call the service.
Call(g) ==
    /\ calls[g] = "queued"
    /\ IF Current(g) THEN calls' = [calls EXCEPT ![g] = "running"] ELSE Settle(g)
    /\ UNCHANGED <<state, started, stopped, generation, attempts, timer>>

Becomes(g) ==
    IF Current(g) THEN timer' = "none" /\ state' = "ready"
    ELSE UNCHANGED <<timer, state>>

\* The service is ready.
Succeed(g) ==
    /\ calls[g] = "running"
    /\ Settle(g)
    /\ Becomes(g)
    /\ UNCHANGED <<started, stopped, generation, attempts>>

Retried(retryable) == retryable /\ attempts <= Retries

\* The service fails; isRetryableRecoveryStartupError tells how.
Fail(g, retryable) ==
    /\ calls[g] = "running"
    /\ Settle(g)
    /\ UNCHANGED <<started, stopped>>
    /\ IF ~Current(g) THEN UNCHANGED <<state, generation, attempts, timer>>
       ELSE IF Retried(retryable) THEN timer' = "backoff" /\ UNCHANGED <<state, generation, attempts>>
       ELSE Fails

Watchdog ==
    /\ timer = "watchdog"
    /\ Fails
    /\ UNCHANGED <<started, stopped, calls>>

Backoff ==
    /\ timer = "backoff"
    /\ Attempt
    /\ UNCHANGED <<state, started, stopped>>

Stop ==
    /\ generation < MaxGeneration
    /\ stopped' = TRUE
    /\ Fails
    /\ UNCHANGED <<started, calls>>

\* What happens between start and stop.
AttemptStep ==
    \/ Watchdog \/ Backoff
    \/ \E g \in Generations :
        Call(g) \/ Succeed(g) \/ \E retryable \in BOOLEAN : Fail(g, retryable)

Next == Start \/ Stop \/ AttemptStep

Spec == Init /\ [][Next]_vars

\* Timers fire and microtasks run; a readiness call may hang for ever.
Fairness == WF_vars(Watchdog) /\ WF_vars(Backoff) /\ \A g \in Generations : WF_vars(Call(g))
FairSpec == Spec /\ Fairness

-----------------------------------------------------------------------------
(* Properties *)

\* Readiness calls never overlap, however late the abandoned ones settle.
NoOverlap == Cardinality({g \in Generations : calls[g] \in {"queued", "running"}}) <= 1

\* A service that is still waking always has a timer that will decide, and no
\* timer outlives the waking.
NeverAbandoned == timer # "none" <=> started /\ state = "waking"

\* Step property: readiness, failure and stopping are not undone by what settles
\* later.
Decided ==
    /\ state = "error" => state' = "error"
    /\ state = "ready" => state' = "ready" \/ stopped'
    /\ state # "waking" => attempts' = attempts

\* Step property: after stop the service is not asked again.
StopHolds == stopped => \A g \in Generations : calls'[g] = "running" => calls[g] = "running"

\* Startup is decided although the service may hang.
Settles == started ~> state # "waking"
=============================================================================
