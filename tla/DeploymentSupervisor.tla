------------------------- MODULE DeploymentSupervisor -------------------------
(***************************************************************************)
(* The supervisor of a V2 deployment                                       *)
(* (src/recovery-v2-deployment-supervisor.mjs).  Once started it gets a    *)
(* controller and, by its mode, does nothing, prepares once, or runs the   *)
(* controller again and again until the deployment is final or refused.    *)
(*                                                                         *)
(* The controller's factory, prepare and run are calls that settle later,  *)
(* with any outcome; stop may come at any time between.  A clearTimer that *)
(* throws is ignored, so a cancelled timer may still fire.  Fingerprints   *)
(* are abstracted; a blocked state is named by its reason.                 *)
(***************************************************************************)
VARIABLES
    mode,
    phase,         \* of initialize: the call it awaits
    controller,    \* a matching controller is installed
    running,
    stopped, terminal,
    timer,         \* timerHandle is set
    stale,         \* a cancelled timer that may still fire
    state,         \* deploymentState
    confirmed      \* the controller reports exact finality

vars == <<mode, phase, controller, running, stopped, terminal, timer, stale, state, confirmed>>

Modes == {"disabled", "prepare", "armed"}
RetryableReasons == {"window-not-open", "prebroadcast-unavailable", "presend-unavailable", "provider-unavailable"}
Retryable == {"broadcast", "broadcast-uncertain", "pending", "mined"} \cup RetryableReasons
FactoryReasons == {"controller-unavailable", "controller-mismatch"}
OwnReasons ==
    FactoryReasons \cup {"reconciliation-failed", "result-invalid", "finality-not-confirmed", "schedule-failed"}
Terminal == {"blocked", "conflict", "failed"} \cup OwnReasons

DeploymentStates ==
    {"disabled", "not-started", "preparing", "prepared", "prepare-failed", "prepare-invalid", "reconciling",
     "finalized", "stopped"} \cup Retryable \cup Terminal

TypeOK ==
    /\ mode \in Modes
    /\ phase \in {"not-started", "factory", "preparing", "armed", "done"}
    /\ controller \in BOOLEAN /\ running \in BOOLEAN
    /\ stopped \in BOOLEAN /\ terminal \in BOOLEAN
    /\ timer \in BOOLEAN /\ stale \in BOOLEAN
    /\ state \in DeploymentStates
    /\ confirmed \in BOOLEAN

Init ==
    /\ mode \in Modes
    /\ phase = "not-started"
    /\ controller = FALSE /\ running = FALSE
    /\ stopped = FALSE /\ terminal = FALSE
    /\ timer = FALSE /\ stale = FALSE
    /\ state = (IF mode = "disabled" THEN "disabled" ELSE "not-started")
    /\ confirmed = FALSE

\* publicReadiness
Ready ==
    \/ mode = "disabled" /\ state = "disabled"
    \/ mode = "prepare" /\ state = "prepared"
    \/ mode = "armed" /\ state = "finalized"

Ends(final) == state' = final /\ terminal' = TRUE

-----------------------------------------------------------------------------
(* start and initialize *)

Start ==
    /\ phase = "not-started" /\ ~stopped
    /\ IF mode = "disabled"
       THEN phase' = "done" /\ Ends("disabled")
       ELSE phase' = "factory" /\ UNCHANGED <<state, terminal>>
    /\ UNCHANGED <<mode, controller, running, stopped, timer, stale, confirmed>>

\* The factory throws or gives a controller of another mode.
FactoryFails(reason) ==
    /\ phase = "factory"
    /\ phase' = "done"
    /\ Ends(reason)
    /\ UNCHANGED <<mode, controller, running, stopped, timer, stale, confirmed>>

\* reconcileOnce up to its call of the controller.
MayReconcile == ~stopped /\ ~terminal /\ ~running

\* cancelTimer: what was set is forgotten, and perhaps not cleared.
Cancelled == timer' = FALSE /\ stale' \in (IF timer THEN BOOLEAN ELSE {stale})

Reconcile ==
    /\ running' = TRUE
    /\ state' = "reconciling"

FactoryGives ==
    /\ phase = "factory"
    /\ controller' = TRUE
    /\ IF stopped THEN phase' = "done" /\ UNCHANGED <<running, state, timer, stale>>
       ELSE IF mode = "prepare"
       THEN phase' = "preparing" /\ state' = "preparing" /\ UNCHANGED <<running, timer, stale>>
       ELSE /\ phase' = "armed"
            /\ IF MayReconcile THEN Reconcile /\ Cancelled ELSE UNCHANGED <<running, state, timer, stale>>
    /\ UNCHANGED <<mode, stopped, terminal, confirmed>>

\* controller.prepare settles: it throws, or gives fingerprints that may be bad.
Prepared(outcome) ==
    /\ phase = "preparing"
    /\ phase' = "done"
    /\ IF outcome = "throws" THEN Ends("prepare-failed")
       ELSE IF stopped THEN UNCHANGED <<state, terminal>>
       ELSE Ends(IF outcome = "good" THEN "prepared" ELSE "prepare-invalid")
    /\ UNCHANGED <<mode, controller, running, stopped, timer, stale, confirmed>>

-----------------------------------------------------------------------------
(* reconcileOnce after its call, and the timer *)

\* The state a result leads to, and whether it ends the supervisor.
Accepted(result) == IF result = "finalized" /\ ~confirmed THEN "finality-not-confirmed" ELSE result
Ending(result) == result \notin Retryable

\* Bug: a timer that cannot be set leaves the supervisor waiting for it.
ScheduleUnended(result) ==
    IF timer THEN state' = result /\ UNCHANGED <<terminal, timer>>
    ELSE \/ state' = result /\ timer' = TRUE /\ UNCHANGED terminal
         \/ state' = "schedule-failed" /\ timer' = FALSE /\ UNCHANGED terminal

\* scheduleReconciliation; setTimer may fail.
Schedule(result) ==
    IF timer THEN state' = result /\ UNCHANGED <<terminal, timer>>
    ELSE \/ state' = result /\ timer' = TRUE /\ UNCHANGED terminal
         \/ Ends("schedule-failed") /\ timer' = FALSE

\* controller.run settles, or throws, or gives no valid result.
RunSettles(result) ==
    /\ running
    /\ running' = FALSE
    /\ IF stopped THEN UNCHANGED <<state, terminal, timer>>
       ELSE IF Ending(result) THEN Ends(Accepted(result)) /\ UNCHANGED timer
       ELSE Schedule(result)
    /\ UNCHANGED <<mode, phase, controller, stopped, stale, confirmed>>

\* The callback of the timer, or of one that was cancelled and fires anyway.
TimerFires ==
    /\ timer \/ stale
    /\ IF MayReconcile THEN Reconcile ELSE UNCHANGED <<running, state>>
    /\ timer' = FALSE
    /\ stale' \in IF timer THEN {stale} ELSE {FALSE}
    /\ UNCHANGED <<mode, phase, controller, stopped, terminal, confirmed>>

Stop ==
    /\ ~stopped
    /\ stopped' = TRUE
    /\ Cancelled
    /\ IF mode = "armed" /\ state # "finalized" THEN state' = "stopped" ELSE UNCHANGED state
    /\ UNCHANGED <<mode, phase, controller, running, terminal, confirmed>>

\* The deployment becomes final and the controller says so, or no longer.
ControllerReports ==
    /\ confirmed' \in BOOLEAN
    /\ UNCHANGED <<mode, phase, controller, running, stopped, terminal, timer, stale, state>>

Results ==
    Retryable \cup {"blocked", "conflict", "failed", "finalized", "reconciliation-failed", "result-invalid"}

\* What happens between start and stop.
DeploymentStep ==
    \/ FactoryGives
    \/ \E reason \in FactoryReasons : FactoryFails(reason)
    \/ \E outcome \in {"throws", "bad", "good"} : Prepared(outcome)
    \/ \E result \in Results : RunSettles(result)
    \/ TimerFires \/ ControllerReports

Next == Start \/ Stop \/ DeploymentStep

Spec == Init /\ [][Next]_vars

\* Timers fire; every call the controller makes is bounded by a timeout.
Fairness == WF_vars(TimerFires) /\ WF_vars(\E result \in Results : RunSettles(result))
FairSpec == Spec /\ Fairness

-----------------------------------------------------------------------------
(* Properties *)

\* An armed deployment that nobody stopped and nothing decided is either being
\* run or waiting for its timer, never both; a decided one has no timer left.
NeverAbandoned ==
    /\ phase = "armed" /\ ~stopped /\ ~terminal => (running <=> ~timer)
    /\ stopped \/ terminal => ~timer

\* Step property: after stop nothing is run and nothing becomes ready, whatever timer fires or
\* call settles late.
StopHolds ==
    stopped =>
        /\ ~running => ~running'
        /\ ~Ready => ~Ready'

\* Step property: a refused deployment is not run again and a final one stays ready, though the
\* controller changes its mind.
VerdictHolds ==
    /\ phase = "armed" /\ state \in Terminal => state' \in {state, "stopped"} /\ ~running'
    /\ state = "finalized" => state' = "finalized"

\* A transient failure is always tried again.
KeepsTrying == []<>(phase = "armed" /\ timer => running \/ stopped \/ terminal)
=============================================================================
