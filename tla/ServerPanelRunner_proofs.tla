----------------------- MODULE ServerPanelRunner_proofs ----------------------
(***************************************************************************)
(* The three that keep asking until they know, which share no state.       *)
(*                                                                         *)
(* The server's schedulers, for any number of retries.  Startup's          *)
(* readiness calls do not overlap because only the call of the latest      *)
(* generation can be unsettled while the service is waking, and it is      *)
(* settled while a delay runs (StartupInv).  The supervisor's verdicts     *)
(* stand because nothing runs once they are reached (SupervisorInv).       *)
(*                                                                         *)
(* The helper's panel, for any offers, pairs and wallets.  No request is   *)
(* repeated because what is owed is what the panel or the session storage  *)
(* holds, or of a campaign before the one the panel was shown, while a     *)
(* signature belongs to a campaign that still offers (PanelInv).           *)
(*                                                                         *)
(* The operator's campaign runner, for any number of attempts, contracts   *)
(* and transactions.  Evidence is true because what an attempt goes on to  *)
(* name was checked on a chain that only grows (Knows), and the claim the  *)
(* chain shows as the operator's is a release that landed (RunnerInv).     *)
(***************************************************************************)
EXTENDS RecoveryServer, HelperDesk, CampaignRunner, FiniteSetTheorems, TLAPS

Unsettled == {"queued", "running"}

\* Where attempts, generation and timer may be while the service is waking.
Waking ==
    /\ ~stopped
    /\ generation = attempts
    /\ ~started => attempts = 0
    /\ timer = "backoff" => attempts <= Retries

\* Only the latest generation's call may be unsettled while the service is waking,
\* none after a success or during a delay; generations to come have no call.
CallsOrdered ==
    /\ \A g \in Generations : g > generation => calls[g] = "none"
    /\ \A g, h \in Generations : calls[g] \in Unsettled /\ calls[h] \in Unsettled => g = h
    /\ state = "waking" => \A g \in Generations : calls[g] \in Unsettled => g = generation
    /\ state = "ready" \/ timer = "backoff" => \A g \in Generations : calls[g] \notin Unsettled
    /\ state = "error" => \A g \in Generations : g = generation => calls[g] = "none"

StartupInv ==
    /\ TypeOK
    /\ state = "waking" => Waking
    /\ stopped => state = "error"
    /\ NeverAbandoned
    /\ CallsOrdered

\* What the supervisor reached by a verdict it no longer works on.
SupervisorInv ==
    /\ V2!TypeOK
    /\ V2!NeverAbandoned
    /\ phase \in {"factory", "armed"} => mode # "disabled"
    /\ phase = "armed" => mode = "armed"
    /\ running \/ v2Timer => phase = "armed"
    /\ phase = "armed" /\ v2State \in V2!Terminal => terminal
    /\ v2State = "finalized" => phase = "armed" /\ terminal
    /\ terminal => ~running
    /\ stale => v2Stopped
    /\ v2Stopped /\ phase = "armed" => v2State \in {"stopped", "finalized"}

\* Both schedulers are stopped together.
IInv == StartupInv /\ SupervisorInv /\ (stopped <=> v2Stopped)

-----------------------------------------------------------------------------
(* Startup *)

LEMMA StartupInit == Init => StartupInv
<1> SUFFICES ASSUME Init PROVE StartupInv
  OBVIOUS
<1>1. TypeOK
  <2>1. calls \in [Generations -> {"none", "queued", "running", "settled"}]
    BY DEF Init
  <2>2. 0 \in 0..MaxGeneration /\ 0 \in 0..(Retries + 1)
    BY RetriesAssumption
  <2> QED
    BY <2>1, <2>2 DEF Init, TypeOK
<1>2. CallsOrdered
  BY DEF Init, CallsOrdered, Unsettled
<1> QED
  BY <1>1, <1>2 DEF Init, StartupInv, NeverAbandoned, Waking

LEMMA AttemptKeeps == StartupInv /\ (Start \/ Backoff) => StartupInv'
<1> SUFFICES ASSUME StartupInv, Start \/ Backoff PROVE StartupInv'
  OBVIOUS
<1> USE RetriesAssumption DEF StartupInv, Generations
<1>1. CASE ~(~stopped /\ state = "waking")
  <2>1. state # "waking" /\ timer' = "none" /\ UNCHANGED <<state, stopped, generation, attempts, calls>>
    BY <1>1 DEF Start, Backoff, Attempt
  <2>2. TypeOK' /\ NeverAbandoned'
    BY <2>1 DEF Start, Backoff, TypeOK, NeverAbandoned
  <2>3. CallsOrdered'
    BY <2>1 DEF CallsOrdered
  <2> QED
    BY <2>1, <2>2, <2>3
<1>2. CASE ~stopped /\ state = "waking"
  <2>1. /\ generation = attempts /\ attempts \in 0..Retries
        /\ generation + 1 \in Generations
        /\ \A g \in Generations : calls[g] \notin Unsettled
    BY <1>2 DEF Start, Backoff, TypeOK, NeverAbandoned, CallsOrdered, Waking, Unsettled
  <2>2. /\ attempts' = attempts + 1 /\ generation' = generation + 1
        /\ timer' = "watchdog" /\ started' = TRUE
        /\ calls' = [calls EXCEPT ![generation + 1] = "queued"]
        /\ UNCHANGED <<state, stopped>>
    BY <1>2 DEF Start, Backoff, Attempt, NeverAbandoned, TypeOK
  <2>3. TypeOK' /\ NeverAbandoned'
    BY <1>2, <2>1, <2>2 DEF TypeOK, NeverAbandoned
  <2>4. CallsOrdered'
    BY <1>2, <2>1, <2>2 DEF TypeOK, CallsOrdered, Unsettled
  <2> QED
    BY <1>2, <2>1, <2>2, <2>3, <2>4 DEF Waking
<1> QED
  BY <1>1, <1>2

LEMMA FailureKeeps == StartupInv /\ (Stop \/ Watchdog) => StartupInv'
<1> SUFFICES ASSUME StartupInv, Stop \/ Watchdog PROVE StartupInv'
  OBVIOUS
<1> USE RetriesAssumption DEF StartupInv, Generations
<1>1. TypeOK'
  <2>1. generation + 1 \in 0..MaxGeneration
    BY DEF Stop, Watchdog, TypeOK, NeverAbandoned, Waking
  <2> QED
    BY <2>1 DEF Stop, Watchdog, Fails, TypeOK
<1>2. NeverAbandoned' /\ CallsOrdered'
  BY DEF Stop, Watchdog, Fails, TypeOK, NeverAbandoned, CallsOrdered
<1> QED
  BY <1>1, <1>2 DEF Stop, Watchdog, Fails, TypeOK

LEMMA CallKeeps == ASSUME NEW g \in Generations, StartupInv, Call(g) PROVE StartupInv'
<1> USE RetriesAssumption DEF StartupInv, Generations
<1>1. TypeOK' /\ NeverAbandoned'
  BY DEF Call, Settle, TypeOK, NeverAbandoned
<1>2. CallsOrdered'
  BY DEF Call, Settle, TypeOK, CallsOrdered, Unsettled
<1> QED
  BY <1>1, <1>2 DEF Call, Waking

\* A call that settles late is not of the current generation: a service that is not
\* waking has no current call.
LEMMA SettlementKeeps ==
    ASSUME NEW g \in Generations, NEW retryable \in BOOLEAN, StartupInv, Succeed(g) \/ Fail(g, retryable)
    PROVE  StartupInv'
<1> USE RetriesAssumption DEF StartupInv, Generations
<1>1. calls[g] = "running" /\ calls' = [calls EXCEPT ![g] = "settled"] /\ UNCHANGED <<started, stopped>>
  BY DEF Succeed, Fail, Settle
<1>2. Current(g) => state = "waking" /\ started
  BY <1>1 DEF Current, TypeOK, CallsOrdered, Waking, Unsettled
<1>3. TypeOK'
  BY <1>1, <1>2 DEF Succeed, Fail, Becomes, Current, Retried, Fails, TypeOK, Waking
<1>4. NeverAbandoned'
  BY <1>1, <1>2 DEF Succeed, Fail, Becomes, Current, Retried, Fails, TypeOK, NeverAbandoned
<1>5. CallsOrdered'
  BY <1>1, <1>2 DEF Succeed, Fail, Becomes, Current, Retried, Fails, TypeOK, CallsOrdered, Unsettled
<1> QED
  BY <1>1, <1>2, <1>3, <1>4, <1>5 DEF Succeed, Fail, Becomes, Current, Retried, Fails, Waking

LEMMA StartupStepKeeps == StartupInv /\ (Start \/ Stop \/ AttemptStep) => StartupInv'
BY AttemptKeeps, FailureKeeps, CallKeeps, SettlementKeeps DEF AttemptStep

LEMMA StartupStutterKeeps == StartupInv /\ UNCHANGED vars => StartupInv'
BY DEF StartupInv, vars, TypeOK, NeverAbandoned, CallsOrdered, Waking

-----------------------------------------------------------------------------
(* The supervisor *)

LEMMA SupervisorInit == V2!Init => SupervisorInv
<1> SUFFICES ASSUME V2!Init PROVE SupervisorInv
  OBVIOUS
<1>1. V2!TypeOK
  BY DEF V2!Init, V2!TypeOK, V2!Modes, V2!DeploymentStates
<1> QED
  BY <1>1 DEF V2!Init, SupervisorInv, V2!NeverAbandoned, V2!Terminal, V2!OwnReasons, V2!FactoryReasons

\* The factory and prepare: nothing runs before the phase is armed.
LEMMA InitializeKeeps ==
    ASSUME SupervisorInv,
           \/ V2!Start \/ V2!FactoryGives
           \/ \E reason \in V2!FactoryReasons : V2!FactoryFails(reason)
           \/ \E outcome \in {"throws", "bad", "good"} : V2!Prepared(outcome)
    PROVE  SupervisorInv'
<1> USE DEF SupervisorInv, V2!TypeOK, V2!NeverAbandoned, V2!Terminal, V2!OwnReasons, V2!FactoryReasons, V2!Ends
<1>1. CASE V2!Start
  BY <1>1 DEF V2!Start, V2!DeploymentStates
<1>2. CASE V2!FactoryGives
  <2>1. phase = "factory" /\ mode # "disabled" /\ ~running /\ ~v2Timer
    BY <1>2 DEF V2!FactoryGives
  <2>2. UNCHANGED <<mode, v2Stopped, terminal, confirmed>> /\ controller' = TRUE
    BY <1>2 DEF V2!FactoryGives
  <2>3. CASE phase' = "armed"
    <3>1. mode = "armed" /\ ~v2Stopped
      BY <1>2, <2>1, <2>3 DEF V2!FactoryGives, V2!Modes
    <3>2. CASE V2!MayReconcile
      <4>1. running' = TRUE /\ v2State' = "reconciling" /\ v2Timer' = FALSE /\ stale' = stale /\ ~terminal
        BY <1>2, <2>1, <2>3, <3>1, <3>2 DEF V2!FactoryGives, V2!MayReconcile, V2!Reconcile, V2!Cancelled
      <4> QED
        BY <2>1, <2>2, <2>3, <3>1, <4>1 DEF V2!DeploymentStates
    <3>3. CASE ~V2!MayReconcile
      <4>1. UNCHANGED <<running, v2State, v2Timer, stale>> /\ terminal
        BY <1>2, <2>1, <2>3, <3>1, <3>3 DEF V2!FactoryGives, V2!MayReconcile
      <4> QED
        BY <2>1, <2>2, <2>3, <3>1, <4>1
    <3> QED
      BY <3>2, <3>3
  <2>4. CASE phase' # "armed"
    <3>1. /\ phase' \in {"done", "preparing"} /\ v2State' \in {v2State, "preparing"}
          /\ UNCHANGED <<running, v2Timer, stale>>
      BY <1>2, <2>4 DEF V2!FactoryGives
    <3> QED
      BY <2>1, <2>2, <2>4, <3>1 DEF V2!DeploymentStates
  <2> QED
    BY <2>3, <2>4
<1>3. ASSUME NEW reason \in V2!FactoryReasons, V2!FactoryFails(reason) PROVE SupervisorInv'
  BY <1>3 DEF V2!FactoryFails, V2!DeploymentStates
<1>4. ASSUME NEW outcome \in {"throws", "bad", "good"}, V2!Prepared(outcome) PROVE SupervisorInv'
  BY <1>4 DEF V2!Prepared, V2!DeploymentStates
<1> QED
  BY <1>1, <1>2, <1>3, <1>4

\* A run that settles either ends the loop or leaves its next timer behind.
LEMMA RunKeeps ==
    ASSUME NEW result \in V2!Results, SupervisorInv, V2!RunSettles(result)
    PROVE  SupervisorInv'
<1> USE DEF SupervisorInv, V2!TypeOK, V2!NeverAbandoned
<1>1. /\ running /\ running' = FALSE /\ phase = "armed"
      /\ UNCHANGED <<mode, phase, controller, v2Stopped, stale, confirmed>>
  BY DEF V2!RunSettles
<1>2. result \in V2!DeploymentStates /\ V2!Accepted(result) \in V2!DeploymentStates
  BY DEF V2!Results, V2!Accepted, V2!DeploymentStates, V2!Terminal, V2!OwnReasons
<1>3. CASE v2Stopped
  BY <1>1, <1>3 DEF V2!RunSettles
<1>4. CASE ~v2Stopped /\ V2!Ending(result)
  <2>1. terminal' = TRUE /\ v2State' = V2!Accepted(result) /\ UNCHANGED v2Timer /\ ~v2Timer
    BY <1>1, <1>4 DEF V2!RunSettles, V2!Ends
  <2> QED
    BY <1>1, <1>2, <1>4, <2>1
<1>5. CASE ~v2Stopped /\ ~V2!Ending(result)
  <2>1. ~v2Timer /\ ~terminal /\ v2State # "finalized"
    BY <1>1, <1>5
  <2>2. \/ v2State' = result /\ v2Timer' = TRUE /\ terminal' = FALSE
        \/ v2State' = "schedule-failed" /\ v2Timer' = FALSE /\ terminal' = TRUE
    BY <1>1, <1>5, <2>1 DEF V2!RunSettles, V2!Schedule, V2!Ends
  <2>3. result \notin V2!Terminal /\ result # "finalized"
    BY <1>5 DEF V2!Ending, V2!Retryable, V2!RetryableReasons, V2!Terminal, V2!OwnReasons, V2!FactoryReasons
  <2>4. "schedule-failed" \in V2!DeploymentStates /\ "schedule-failed" # "finalized"
    BY DEF V2!DeploymentStates, V2!Terminal, V2!OwnReasons
  <2> QED
    BY <1>1, <1>2, <1>5, <2>1, <2>2, <2>3, <2>4
<1> QED
  BY <1>3, <1>4, <1>5

\* A timer fires, the server closes, the controller changes its mind.
LEMMA LoopKeeps ==
    ASSUME SupervisorInv, V2!TimerFires \/ V2!Stop \/ V2!ControllerReports
    PROVE  SupervisorInv'
<1> USE DEF SupervisorInv, V2!TypeOK, V2!NeverAbandoned
<1>1. CASE V2!TimerFires
  <2>1. v2Timer' = FALSE /\ stale' \in BOOLEAN /\ UNCHANGED <<mode, phase, controller, v2Stopped, terminal, confirmed>>
    BY <1>1 DEF V2!TimerFires
  <2>2. CASE V2!MayReconcile
    <3>1. phase = "armed" /\ ~stale
      BY <1>1, <2>2 DEF V2!TimerFires, V2!MayReconcile
    <3>2. running' = TRUE /\ v2State' = "reconciling" /\ stale' = FALSE /\ ~terminal /\ ~v2Stopped
      BY <1>1, <2>2 DEF V2!TimerFires, V2!MayReconcile, V2!Reconcile
    <3> QED
      BY <1>1, <2>1, <2>2, <3>1, <3>2 DEF V2!DeploymentStates, V2!Terminal, V2!OwnReasons, V2!FactoryReasons
  <2>3. CASE ~V2!MayReconcile
    <3>1. UNCHANGED <<running, v2State>> /\ (stale' => v2Stopped)
      BY <1>1, <2>3 DEF V2!TimerFires
    <3>2. v2Stopped \/ terminal
      BY <1>1, <2>3 DEF V2!TimerFires, V2!MayReconcile
    <3> QED
      BY <2>1, <3>1, <3>2
  <2> QED
    BY <2>2, <2>3
<1>2. CASE V2!Stop
  BY <1>2 DEF V2!Stop, V2!Cancelled, V2!DeploymentStates, V2!Terminal, V2!OwnReasons, V2!FactoryReasons
<1>3. CASE V2!ControllerReports
  BY <1>3 DEF V2!ControllerReports
<1> QED
  BY <1>1, <1>2, <1>3

LEMMA SupervisorStepKeeps == SupervisorInv /\ (V2!Start \/ V2!Stop \/ V2!DeploymentStep) => SupervisorInv'
BY InitializeKeeps, RunKeeps, LoopKeeps DEF V2!DeploymentStep

LEMMA SupervisorStutterKeeps == SupervisorInv /\ UNCHANGED v2Vars => SupervisorInv'
BY DEF SupervisorInv, v2Vars, V2!TypeOK, V2!NeverAbandoned

-----------------------------------------------------------------------------
(* The server *)

LEMMA InitIInv == ServerInit => IInv
BY StartupInit, SupervisorInit DEF ServerInit, IInv, Init, V2!Init

\* Only Listen, Close and the two sides move, and a close stops both.
LEMMA StepIInv == IInv /\ [ServerNext]_serverVars => IInv'
<1> SUFFICES ASSUME IInv, [ServerNext]_serverVars PROVE IInv'
  OBVIOUS
<1>1. StartupInv'
  BY StartupStepKeeps, StartupStutterKeeps DEF IInv, ServerNext, Listen, Close, serverVars
<1>2. SupervisorInv'
  BY SupervisorStepKeeps, SupervisorStutterKeeps DEF IInv, ServerNext, Listen, Close, serverVars
<1>3. (stopped <=> v2Stopped)'
  <2>1. CASE Listen
    BY <2>1 DEF IInv, Listen, Start, V2!Start
  <2>2. CASE Close
    BY <2>2 DEF Close, Stop, V2!Stop
  <2>3. CASE AttemptStep /\ UNCHANGED v2Vars
    BY <2>3 DEF IInv, AttemptStep, Watchdog, Backoff, Call, Succeed, Fail, v2Vars
  <2>4. CASE V2!DeploymentStep /\ UNCHANGED vars
    <3>1. UNCHANGED v2Stopped
      BY <2>4 DEF V2!DeploymentStep, V2!FactoryGives, V2!FactoryFails, V2!Prepared, V2!RunSettles,
         V2!TimerFires, V2!ControllerReports
    <3> QED
      BY <2>4, <3>1 DEF IInv, vars
  <2> QED
    BY <2>1, <2>2, <2>3, <2>4 DEF IInv, ServerNext, serverVars, vars, v2Vars
<1> QED
  BY <1>1, <1>2, <1>3 DEF IInv

THEOREM ServerInvariant == ServerSpec => []IInv
<1> QED
  BY InitIInv, StepIInv, PTL DEF ServerSpec

LEMMA AtMostOneUnsettled == TypeOK /\ CallsOrdered => NoOverlap
<1> SUFFICES ASSUME TypeOK, CallsOrdered PROVE NoOverlap
  OBVIOUS
<1> DEFINE Busy == {g \in Generations : calls[g] \in {"queued", "running"}}
<1>1. CASE Busy = {}
  BY <1>1, FS_EmptySet DEF NoOverlap
<1>2. CASE Busy # {}
  <2>1. PICK g \in Generations : Busy = {g}
    BY <1>2 DEF CallsOrdered, Unsettled
  <2> QED
    BY <2>1, FS_Singleton DEF NoOverlap
<1> QED
  BY <1>1, <1>2

\* Neither scheduler overlaps its calls or is left without a timer or a call that
\* goes on with it, for any number of retries.
THEOREM SchedulersStayConsistent == ServerSpec => []SchedulersConsistent
<1>1. IInv => SchedulersConsistent
  BY AtMostOneUnsettled DEF IInv, StartupInv, SupervisorInv, SchedulersConsistent
<1> QED
  BY <1>1, ServerInvariant, PTL

\* A settlement of one side's calls changes no decision of that side.
LEMMA DecidedKept == StartupInv /\ (Start \/ Stop \/ AttemptStep \/ UNCHANGED vars) => Decided
<1> SUFFICES ASSUME StartupInv, Start \/ Stop \/ AttemptStep \/ UNCHANGED vars PROVE Decided
  OBVIOUS
<1>1. ASSUME NEW g \in Generations, calls[g] = "running", Current(g) PROVE state = "waking"
  BY <1>1 DEF StartupInv, TypeOK, CallsOrdered, Current, Unsettled
<1> QED
  BY <1>1 DEF StartupInv, NeverAbandoned, AttemptStep, Start, Stop, Attempt, Fails, Call, Succeed, Becomes, Fail,
     Retried, Watchdog, Backoff, Decided, vars

LEMMA VerdictKept ==
    SupervisorInv /\ (V2!Start \/ V2!Stop \/ V2!DeploymentStep \/ UNCHANGED v2Vars) => V2!VerdictHolds
<1> SUFFICES ASSUME SupervisorInv, V2!Start \/ V2!Stop \/ V2!DeploymentStep \/ UNCHANGED v2Vars
             PROVE  V2!VerdictHolds
  OBVIOUS
<1> USE DEF SupervisorInv, V2!NeverAbandoned, V2!VerdictHolds
<1>1. CASE V2!Start
  BY <1>1 DEF V2!Start, V2!Ends
<1>2. CASE V2!Stop
  BY <1>2 DEF V2!Stop
<1>3. CASE V2!FactoryGives
  BY <1>3 DEF V2!FactoryGives, V2!MayReconcile
<1>4. ASSUME NEW reason \in V2!FactoryReasons, V2!FactoryFails(reason) PROVE V2!VerdictHolds
  BY <1>4 DEF V2!FactoryFails, V2!Ends, V2!FactoryReasons
<1>5. ASSUME NEW outcome \in {"throws", "bad", "good"}, V2!Prepared(outcome) PROVE V2!VerdictHolds
  BY <1>5 DEF V2!Prepared, V2!Ends
<1>6. ASSUME NEW result \in V2!Results, V2!RunSettles(result) PROVE V2!VerdictHolds
  BY <1>6 DEF V2!RunSettles
<1>7. CASE V2!TimerFires
  BY <1>7 DEF V2!TimerFires, V2!MayReconcile
<1>8. CASE V2!ControllerReports
  BY <1>8 DEF V2!ControllerReports
<1>9. CASE UNCHANGED v2Vars
  BY <1>9 DEF v2Vars
<1> QED
  BY <1>1, <1>2, <1>3, <1>4, <1>5, <1>6, <1>7, <1>8, <1>9 DEF V2!DeploymentStep

\* Startup asks nothing and opens nothing after a stop.
LEMMA StartupShut ==
    StartupInv /\ (Start \/ Stop \/ AttemptStep \/ UNCHANGED vars) => StopHolds /\ (stopped => ~Served')
<1> SUFFICES ASSUME StartupInv, Start \/ Stop \/ AttemptStep \/ UNCHANGED vars, stopped
             PROVE  StopHolds /\ ~Served'
  BY DEF StopHolds
<1>1. state = "error"
  BY DEF StartupInv
<1>2. StopHolds
  BY <1>1 DEF StartupInv, TypeOK, AttemptStep, Start, Stop, Attempt, Fails, Call, Settle, Succeed, Fail, Current,
     Watchdog, Backoff, StopHolds, vars
<1>3. ~Served'
  BY <1>1 DEF AttemptStep, Start, Stop, Attempt, Fails, Call, Succeed, Becomes, Fail, Current,
     Watchdog, Backoff, Served, vars
<1> QED
  BY <1>2, <1>3

\* The supervisor runs nothing and gets nothing ready after a stop.
LEMMA SupervisorShut ==
    SupervisorInv /\ (V2!Start \/ V2!Stop \/ V2!DeploymentStep \/ UNCHANGED v2Vars) => V2!StopHolds
<1> SUFFICES ASSUME SupervisorInv, V2!Start \/ V2!Stop \/ V2!DeploymentStep \/ UNCHANGED v2Vars
             PROVE  V2!StopHolds
  OBVIOUS
<1> USE DEF SupervisorInv, V2!NeverAbandoned, V2!StopHolds, V2!Ready
<1>1. CASE V2!Start
  BY <1>1 DEF V2!Start, V2!Ends
<1>2. CASE V2!Stop
  BY <1>2 DEF V2!Stop
<1>3. CASE V2!FactoryGives
  BY <1>3 DEF V2!FactoryGives, V2!MayReconcile
<1>4. ASSUME NEW reason \in V2!FactoryReasons, V2!FactoryFails(reason) PROVE V2!StopHolds
  BY <1>4 DEF V2!FactoryFails, V2!Ends, V2!FactoryReasons
<1>5. ASSUME NEW outcome \in {"throws", "bad", "good"}, V2!Prepared(outcome) PROVE V2!StopHolds
  BY <1>5 DEF V2!Prepared, V2!Ends
<1>6. ASSUME NEW result \in V2!Results, V2!RunSettles(result) PROVE V2!StopHolds
  BY <1>6 DEF V2!RunSettles
<1>7. CASE V2!TimerFires
  BY <1>7 DEF V2!TimerFires, V2!MayReconcile
<1>8. CASE V2!ControllerReports
  BY <1>8 DEF V2!ControllerReports
<1>9. CASE UNCHANGED v2Vars
  BY <1>9 DEF v2Vars
<1> QED
  BY <1>1, <1>2, <1>3, <1>4, <1>5, <1>6, <1>7, <1>8, <1>9 DEF V2!DeploymentStep

\* Once the socket closed no readiness call and no reconciliation begins, the
\* recovery routes stay shut and no deployment becomes ready.
THEOREM ShutdownAlwaysInert == ServerSpec => ShutdownInert
<1>1. IInv /\ [ServerNext]_serverVars =>
          [StopHolds /\ (stopped => ~Served') /\ V2!StopHolds]_serverVars
  BY StartupShut, SupervisorShut DEF IInv, ServerNext, Listen, Close
<1> QED
  BY <1>1, ServerInvariant, PTL DEF ServerSpec, ShutdownInert

\* No late answer, cancelled timer or change of the controller's mind undoes what
\* startup and supervisor decided, nor what the close decided for both.
THEOREM DecisionsAlwaysStand == ServerSpec => DecisionsStand
<1>1. IInv /\ [ServerNext]_serverVars => [Decided /\ V2!VerdictHolds]_serverVars
  BY DecidedKept, VerdictKept DEF IInv, ServerNext, Listen, Close
<1> QED
  BY <1>1, ServerInvariant, ShutdownAlwaysInert, PTL DEF ServerSpec, DecisionsStand

-----------------------------------------------------------------------------
(* The helper's panel *)

Tasks == [at : {"off", "look", "connect", "challenge", "sign", "release"},
          op : Ops \cup {NoOp}, requester : Wallets \cup {NoWallet},
          reply : States \cup {"none", "refused"}]
Reads == [at : {"off", "asked", "receipt"}, op : Ops \cup {NoOp}, reply : States \cup {"none", "absent"}]
Outcomes == [state : States \cup {"none"},
             check : {"none", "pending", "unavailable", "confirmed", "conflict"}]

Panels == [offer : Offers \cup {NoOffer}, account : Wallets \cup {NoWallet},
           draft : Pairs \cup {NoPair}, elig : Ops \cup {NoOp}, task : Tasks, status : Reads,
           submitted : Ops \cup {NoOp}, outcome : Outcomes]

PanelTypes ==
    /\ sponsor \in [offer : Offers, ops : [Ops -> States \cup {"none"}], posts : SUBSET Ops]
    /\ panel \in Panels
    /\ kept \in Ops \cup {NoOp}
    /\ owed \subseteq Ops

\* The panel works on what the session storage keeps, and its task on the
\* campaign it was shown or a later one.
Focused ==
    /\ panel.submitted # NoOp => panel.submitted = kept
    /\ panel.submitted = NoOp => panel.outcome = Unknown
    /\ panel.status.at # "off" => panel.status.op # NoOp
    /\ panel.task.at \in {"connect", "challenge", "sign"} => panel.offer # NoOffer /\ panel.submitted = NoOp
    /\ panel.task.at \in {"connect", "challenge", "sign", "release"} => panel.task.op # NoOp
    /\ panel.task.at = "sign" => panel.task.op[1] \in panel.offer.campaign..sponsor.offer.campaign
    /\ panel.task.at = "release" => panel.submitted = panel.task.op
    /\ panel.offer # NoOffer => panel.offer.campaign <= sponsor.offer.campaign

\* What is owed is what is submitted or kept, or of an earlier campaign.
Owing ==
    /\ \A op \in owed : /\ op[1] <= sponsor.offer.campaign
                        /\ op # kept => op[1] < sponsor.offer.campaign
                        /\ panel.offer # NoOffer /\ op # panel.submitted => op[1] < panel.offer.campaign
    /\ Resolved(panel) => panel.submitted \notin owed

PanelInv == PanelTypes /\ Focused /\ Owing

USE DEF Panels

LEMMA OpsTyped == \A op \in Ops : op[1] \in Nat /\ op[2] \in Pairs /\ op # NoOp
<1> SUFFICES ASSUME NEW op \in Ops PROVE op[1] \in Nat /\ op[2] \in Pairs /\ op # NoOp
  OBVIOUS
<1>1. PICK o \in Offers, pair \in Pairs : op = <<o.campaign, pair>>
  BY DEF Ops
<1>2. op[1] = o.campaign /\ op[2] = pair /\ op # <<>>
  BY <1>1
<1> QED
  BY <1>2, OffersAssumption DEF NoOp

LEMMA PanelInit == HelperInit => PanelInv
<1> SUFFICES ASSUME HelperInit PROVE PanelInv
  OBVIOUS
<1>1. PanelTypes
  BY DEF HelperInit, PanelTypes, Mounted, NoTask, NoStatus, Unknown, Tasks, Reads, Outcomes
<1>2. Focused /\ Owing
  BY DEF HelperInit, Mounted, NoTask, NoStatus, Unknown, Focused, Owing, Resolved, Terminal
<1> QED
  BY <1>1, <1>2 DEF PanelInv

\* A configuration that arrives restores what was kept for its campaign.
LEMMA OfferKeeps == PanelInv /\ OfferArrives => PanelInv'
<1> SUFFICES ASSUME PanelInv, OfferArrives PROVE PanelInv'
  OBVIOUS
<1> USE DEF PanelInv
<1>1. UNCHANGED <<kept, owed, sponsor>> /\ sponsor.offer \in Offers /\ sponsor.offer.campaign \in Nat
  BY OffersAssumption DEF OfferArrives, PanelKeeps, PanelTypes
<1>2. PICK next : next = [panel EXCEPT !.offer = sponsor.offer]
  OBVIOUS
<1>3. CASE panel.offer = NoOffer /\ Restorable(sponsor.offer)
  <2>1. panel' = Asked([next EXCEPT !.submitted = kept, !.draft = kept[2]])
    BY <1>2, <1>3 DEF OfferArrives
  <2>2. kept \in Ops /\ kept[1] = sponsor.offer.campaign /\ kept[2] \in Pairs
    BY <1>3, OpsTyped DEF Restorable, PanelTypes
  <2>3. PanelTypes'
    BY <1>1, <1>2, <2>1, <2>2 DEF PanelTypes, Asked, Reads
  <2>4. panel.task.at \in {"off", "look"} \/ panel.submitted # NoOp
    BY <1>3 DEF Focused, PanelTypes, Tasks
  <2> QED
    BY <1>1, <1>2, <1>3, <2>1, <2>2, <2>3, OpsTyped DEF Focused, Owing, PanelTypes, Asked, Reads, Tasks, Resolved, Unknown, Terminal
<1>4. CASE /\ panel' = next
           /\ \/ panel.offer = NoOffer /\ ~Restorable(sponsor.offer)
              \/ panel.offer # NoOffer /\ panel.offer.campaign = sponsor.offer.campaign
              \/ panel.submitted # NoOp
  <2>1. PanelTypes'
    BY <1>1, <1>2, <1>4 DEF PanelTypes
  <2>2. /\ panel'.offer = sponsor.offer /\ panel'.task = panel.task /\ panel'.status = panel.status
        /\ panel'.submitted = panel.submitted /\ panel'.outcome = panel.outcome
    BY <1>2, <1>4 DEF PanelTypes
  <2>3. Focused'
    BY <1>1, <1>4, <2>2, OffersAssumption DEF Focused
  <2>4. ASSUME NEW op \in owed, op # panel.submitted PROVE op[1] < sponsor.offer.campaign
    <3>1. op \in Ops /\ op[1] \in Nat /\ op # NoOp
      BY OpsTyped DEF PanelTypes
    <3>2. CASE op # kept
      BY <3>2 DEF Owing
    <3>3. CASE op = kept
      BY <1>1, <1>4, <2>4, <3>1, <3>3 DEF Owing, Restorable, Focused
    <3> QED
      BY <3>2, <3>3
  <2>5. Owing'
    BY <1>1, <2>2, <2>4 DEF Owing, Resolved
  <2> QED
    BY <2>1, <2>3, <2>5
<1>5. CASE /\ panel.offer # NoOffer /\ panel.offer.campaign # sponsor.offer.campaign
           /\ panel' = [next EXCEPT !.task = NoTask, !.elig = NoOp]
  <2>1. PanelTypes'
    BY <1>1, <1>2, <1>5 DEF PanelTypes, NoTask, Tasks
  <2>2. /\ panel'.offer = sponsor.offer /\ panel'.task = NoTask /\ panel'.status = panel.status
        /\ panel'.submitted = panel.submitted /\ panel'.outcome = panel.outcome
    BY <1>2, <1>5 DEF PanelTypes
  <2>3. Focused'
    BY <1>1, <1>5, <2>2 DEF Focused, NoTask
  <2>4. ASSUME NEW op \in owed, op # panel.submitted PROVE op[1] < sponsor.offer.campaign
    <3>1. op \in Ops /\ op[1] \in Nat /\ panel.offer.campaign \in Nat
      BY <1>5, OpsTyped, OffersAssumption DEF PanelTypes
    <3> QED
      BY <1>1, <1>5, <2>4, <3>1 DEF Owing, Focused
  <2>5. Owing'
    BY <1>1, <2>2, <2>4 DEF Owing, Resolved
  <2> QED
    BY <2>1, <2>3, <2>5
<1> QED
  BY <1>2, <1>3, <1>4, <1>5 DEF OfferArrives

\* What is drafted, looked up and asked of the wallet disturbs nothing.
LEMMA WishKeeps ==
    ASSUME PanelInv, UNCHANGED <<kept, owed, sponsor, wear>>,
           panel' \in Panels,
           panel'.offer = panel.offer, panel'.status = panel.status,
           panel'.submitted = panel.submitted, panel'.outcome = panel.outcome,
           \/ panel'.task.at = panel.task.at /\ panel'.task.op = panel.task.op
           \/ panel'.task.at \in {"off", "look"}
           \/ /\ panel'.task.at \in {"connect", "challenge"} /\ panel'.task.op # NoOp
              /\ panel.offer # NoOffer /\ panel.submitted = NoOp
    PROVE  PanelInv'
<1>1. PanelTypes'
  BY DEF PanelInv, PanelTypes
<1>2. Focused'
  BY DEF PanelInv, Focused
<1>3. Owing'
  BY DEF PanelInv, Owing, Resolved
<1> QED
  BY <1>1, <1>2, <1>3 DEF PanelInv

LEMMA TypedPanel == PanelInv => panel \in Panels
  BY DEF PanelInv, PanelTypes

LEMMA WishesKeep ==
    ASSUME PanelInv,
           \/ Look \/ Authorize \/ GivesUp
           \/ \E pair \in Pairs : Draft(pair) \/ Found(pair)
           \/ \E wallet \in Wallets : Connected(wallet) \/ SwitchAccount(wallet)
    PROVE  PanelInv'
<1>1. ASSUME NEW pair \in Pairs, Draft(pair) PROVE PanelInv'
  BY <1>1, TypedPanel, WishKeeps DEF Draft, PanelKeeps
<1>2. CASE Look
  BY <1>2, TypedPanel, WishKeeps DEF Look, PanelKeeps, Tasks
<1>3. ASSUME NEW pair \in Pairs, Found(pair) PROVE PanelInv'
  <2>1. <<panel.offer.campaign, pair>> \in Ops
    <3>1. panel.offer.campaign = sponsor.offer.campaign /\ sponsor.offer \in Offers
      BY <1>3 DEF Found, PanelInv, PanelTypes
    <3> QED
      BY <3>1 DEF Ops
  <2>2. PICK k \in Tasks : k = NoTask
    BY DEF Tasks, NoTask
  <2>3. PICK e \in Ops \cup {NoOp} : panel' = [panel EXCEPT !.task = k, !.draft = pair, !.elig = e]
    BY <1>3, <2>1, <2>2 DEF Found
  <2>4. panel' \in Panels
    BY <1>3, <2>3, TypedPanel
  <2>5. /\ panel'.offer = panel.offer /\ panel'.status = panel.status /\ panel'.submitted = panel.submitted
        /\ panel'.outcome = panel.outcome /\ panel'.task = k
    BY <2>3, TypedPanel
  <2>6. k.at = "off" /\ UNCHANGED <<kept, owed, sponsor, wear>>
    BY <1>3, <2>2 DEF Found, PanelKeeps, NoTask
  <2> QED
    BY <2>4, <2>5, <2>6, WishKeeps
<1>4. CASE Authorize
  <2>1. PICK k \in Tasks : k = [NoTask EXCEPT !.at = "connect", !.op = panel.elig]
    BY TypedPanel DEF Tasks, NoTask
  <2>2. k.at = "connect" /\ k.op # NoOp /\ panel.offer # NoOffer /\ panel.submitted = NoOp
    BY <1>4, <2>1 DEF Authorize, NoTask, Available, Free
  <2>3. panel' = [panel EXCEPT !.task = k] /\ UNCHANGED <<kept, owed, sponsor, wear>>
    BY <1>4, <2>1 DEF Authorize, PanelKeeps
  <2>4. panel' \in Panels
    BY <2>3, TypedPanel
  <2>5. /\ panel'.offer = panel.offer /\ panel'.status = panel.status /\ panel'.submitted = panel.submitted
        /\ panel'.outcome = panel.outcome /\ panel'.task = k
    BY <2>3, TypedPanel
  <2> QED
    BY <2>2, <2>3, <2>4, <2>5, WishKeeps
<1>5. ASSUME NEW wallet \in Wallets, Connected(wallet) PROVE PanelInv'
  <2>1. panel.offer # NoOffer /\ panel.submitted = NoOp /\ panel.task.op # NoOp
    BY <1>5 DEF Connected, PanelInv, Focused
  <2> QED
    BY <1>5, <2>1, TypedPanel, WishKeeps DEF Connected, PanelKeeps, Tasks, NoTask
<1>6. CASE GivesUp
  BY <1>6, TypedPanel, WishKeeps DEF GivesUp, PanelKeeps, Tasks, NoTask
<1>7. ASSUME NEW wallet \in Wallets, SwitchAccount(wallet) PROVE PanelInv'
  <2>1. PICK k \in Tasks : k = [panel.task EXCEPT !.requester = NoWallet]
    BY TypedPanel DEF Tasks
  <2>2. k.at = panel.task.at /\ k.op = panel.task.op
    BY <2>1, TypedPanel DEF Tasks
  <2>3. panel' = [panel EXCEPT !.account = wallet, !.task = k] /\ UNCHANGED <<kept, owed, sponsor, wear>>
    BY <1>7, <2>1 DEF SwitchAccount, PanelKeeps
  <2>4. panel' \in Panels
    BY <2>3, TypedPanel
  <2>5. /\ panel'.offer = panel.offer /\ panel'.status = panel.status /\ panel'.submitted = panel.submitted
        /\ panel'.outcome = panel.outcome /\ panel'.task = k
    BY <2>3, TypedPanel
  <2> QED
    BY <2>2, <2>3, <2>4, <2>5, WishKeeps
<1> QED
  BY <1>1, <1>2, <1>3, <1>4, <1>5, <1>6, <1>7

\* The signature belongs to the campaign that still offers.
LEMMA ChallengeKeeps == PanelInv /\ Challenged => PanelInv'
<1> SUFFICES ASSUME PanelInv, Challenged PROVE PanelInv'
  OBVIOUS
<1>1. CASE ~CanContinue
  BY <1>1, TypedPanel, WishKeeps DEF Challenged, PanelKeeps, Tasks, NoTask
<1>2. CASE CanContinue
  <2>1. panel' = [panel EXCEPT !.task.at = "sign"] /\ UNCHANGED <<kept, owed, sponsor>>
    BY <1>2 DEF Challenged, PanelKeeps
  <2>2. /\ panel.task.op[1] = sponsor.offer.campaign /\ sponsor.offer.campaign \in Nat
        /\ panel.offer # NoOffer /\ panel.offer.campaign <= sponsor.offer.campaign
        /\ panel.offer.campaign \in Nat
    BY <1>2, OffersAssumption DEF Challenged, Eligible, CanContinue, Available, PanelInv, PanelTypes, Focused
  <2>3. PanelTypes'
    BY <2>1 DEF PanelInv, PanelTypes, Tasks
  <2>4. /\ panel'.offer = panel.offer /\ panel'.status = panel.status /\ panel'.submitted = panel.submitted
        /\ panel'.outcome = panel.outcome /\ panel'.task.at = "sign" /\ panel'.task.op = panel.task.op
        /\ panel.task.at = "challenge"
    BY <2>1 DEF PanelInv, PanelTypes, Tasks, Challenged
  <2>5. Focused'
    BY <2>1, <2>2, <2>4 DEF PanelInv, Focused
  <2>6. Owing'
    BY <2>1, <2>4 DEF PanelInv, Owing, Resolved
  <2> QED
    BY <2>3, <2>5, <2>6 DEF PanelInv
<1> QED
  BY <1>1, <1>2

\* What leaves is of the shown campaign or a later one, so nothing of it is owed.
LEMMA SignedIsNew == PanelInv /\ panel.task.at = "sign" => panel.task.op \notin owed
<1> SUFFICES ASSUME PanelInv, panel.task.at = "sign", panel.task.op \in owed PROVE FALSE
  OBVIOUS
<1>1. panel.task.op \in Ops /\ panel.task.op[1] \in Nat /\ panel.task.op # NoOp
  BY OpsTyped DEF PanelInv, PanelTypes
<1>2. /\ panel.offer # NoOffer /\ panel.submitted = NoOp
      /\ panel.offer.campaign \in Nat /\ panel.offer.campaign <= panel.task.op[1]
  BY <1>1, OffersAssumption DEF PanelInv, Focused, PanelTypes
<1> QED
  BY <1>1, <1>2 DEF PanelInv, Owing

LEMMA SignedKeeps == PanelInv /\ Signed => PanelInv'
<1> SUFFICES ASSUME PanelInv, Signed PROVE PanelInv'
  OBVIOUS
<1>1. CASE ~CanContinue
  BY <1>1, TypedPanel, WishKeeps DEF Signed, Tasks, NoTask
<1>2. CASE CanContinue
  <2>1. PICK op : op = panel.task.op
    OBVIOUS
  <2>2. /\ panel' = [panel EXCEPT !.task.at = "release", !.submitted = op, !.outcome = Unknown]
        /\ kept' = op /\ owed' = owed \cup {op}
        /\ sponsor' = [sponsor EXCEPT !.posts = @ \cup {op}]
    BY <1>2, <2>1 DEF Signed
  <2>3. /\ op \in Ops /\ op[1] \in Nat /\ op # NoOp
        /\ panel.offer # NoOffer /\ panel.submitted = NoOp
        /\ panel.offer.campaign \in Nat /\ sponsor.offer.campaign \in Nat
        /\ panel.offer.campaign <= op[1] /\ op[1] <= sponsor.offer.campaign
    BY <2>1, OpsTyped, OffersAssumption DEF Signed, PanelInv, Focused, PanelTypes, Tasks
  <2>4. PanelTypes'
    BY <2>2, <2>3 DEF PanelInv, PanelTypes, Tasks, Outcomes, Unknown
  <2>5. /\ panel'.offer = panel.offer /\ panel'.status = panel.status /\ panel'.submitted = op
        /\ panel'.outcome = Unknown /\ panel'.task.at = "release" /\ panel'.task.op = op
        /\ sponsor'.offer = sponsor.offer
    BY <2>1, <2>2 DEF PanelInv, PanelTypes, Tasks
  <2>6. Focused'
    BY <2>2, <2>3, <2>5 DEF PanelInv, Focused
  <2>7. ASSUME NEW x \in owed PROVE x[1] < panel.offer.campaign /\ x[1] \in Nat
    BY <2>3, OpsTyped DEF PanelInv, Owing, PanelTypes
  <2>8. Owing'
    BY <2>2, <2>3, <2>5, <2>7 DEF Owing, Resolved, Unknown, Terminal
  <2> QED
    BY <2>4, <2>6, <2>8 DEF PanelInv
<1> QED
  BY <1>1, <1>2

\* What is heard of the operation in a panel that keeps its task or drops it.
LEMMA HearingKeeps ==
    ASSUME PanelInv, sponsor' = sponsor, kept' = kept,
           panel' \in Panels,
           panel'.offer = panel.offer, panel'.submitted = panel.submitted,
           panel'.task = panel.task \/ panel'.task = NoTask,
           panel'.status.at # "off" => panel'.status.op # NoOp,
           panel.submitted = NoOp => panel'.outcome = panel.outcome,
           owed' \subseteq owed,
           Resolved(panel') => panel.submitted \notin owed'
    PROVE  PanelInv'
<1>1. PanelTypes'
  BY DEF PanelInv, PanelTypes
<1>2. Focused'
  BY DEF PanelInv, Focused, NoTask
<1>3. Owing'
  BY DEF PanelInv, Owing, Resolved
<1> QED
  BY <1>1, <1>2, <1>3 DEF PanelInv

LEMMA AcceptedTyped ==
    ASSUME NEW p, NEW told \in States,
           p \in Panels
    PROVE  /\ Accepted(p, told).outcome \in Outcomes
           /\ Accepted(p, told) = [p EXCEPT !.outcome = Accepted(p, told).outcome]
  BY DEF Accepted, Outcomes

LEMMA NothingTyped == NoTask \in Tasks /\ NoStatus \in Reads
  BY DEF NoTask, NoStatus, Tasks, Reads

LEMMA HeardKeeps ==
    ASSUME PanelInv, Acknowledged \/ Unacknowledged \/ ReadStatus
    PROVE  PanelInv'
<1>1. CASE Acknowledged
  <2>1. panel.task.reply \in States /\ panel.task.at = "release"
    BY <1>1 DEF Acknowledged
  <2>2. panel.submitted \in Ops /\ panel.submitted # NoOp
    BY <2>1 DEF PanelInv, Focused, PanelTypes
  <2>3. PICK p : p = [panel EXCEPT !.task = NoTask]
    OBVIOUS
  <2>4. p \in Panels
    BY <2>3, TypedPanel, NothingTyped
  <2>5. PICK outcome \in Outcomes : Accepted(p, panel.task.reply) = [p EXCEPT !.outcome = outcome]
    BY <2>1, <2>4, AcceptedTyped
  <2>6. panel' = Asked([p EXCEPT !.outcome = outcome]) /\ owed' = owed \ Over(panel')
    BY <1>1, <2>3, <2>5 DEF Acknowledged
  <2>7. /\ panel' \in Panels
        /\ panel'.offer = panel.offer /\ panel'.submitted = panel.submitted
        /\ panel'.task = NoTask
        /\ panel'.status.at # "off" => panel'.status.op # NoOp
    <3>1. p.submitted = panel.submitted /\ p.status = panel.status /\ p.offer = panel.offer /\ p.task = NoTask
      BY <2>3, TypedPanel
    <3>2. [at |-> "asked", op |-> panel.submitted, reply |-> "none"] \in Reads
      BY <2>2 DEF Reads
    <3>3. panel.status.at # "off" => panel.status.op # NoOp
      BY DEF PanelInv, Focused
    <3>4. CASE panel.status.at # "off"
      BY <2>4, <2>6, <3>1, <3>3, <3>4 DEF Asked
    <3>5. CASE panel.status.at = "off"
      BY <2>2, <2>4, <2>6, <3>1, <3>2, <3>5 DEF Asked
    <3> QED
      BY <3>4, <3>5
  <2>8. Resolved(panel') => panel.submitted \notin owed'
    BY <2>6, <2>7 DEF Over
  <2> QED
    BY <1>1, <2>2, <2>6, <2>7, <2>8, HearingKeeps DEF Acknowledged, PanelKeeps
<1>2. CASE Unacknowledged
  <2>1. panel.submitted \in Ops /\ panel.submitted # NoOp
    BY <1>2 DEF Unacknowledged, PanelInv, Focused, PanelTypes
  <2>2. [at |-> "asked", op |-> panel.submitted, reply |-> "none"] \in Reads
    BY <2>1 DEF Reads
  <2>3. panel.status.at # "off" => panel.status.op # NoOp
    BY DEF PanelInv, Focused
  <2>4. Resolved(panel) => panel.submitted \notin owed
    BY DEF PanelInv, Owing
  <2> QED
    BY <1>2, <2>1, <2>2, <2>3, <2>4, TypedPanel, NothingTyped, HearingKeeps
       DEF Unacknowledged, PanelKeeps, Asked, Resolved
<1>3. CASE ReadStatus
  <2>1. panel.submitted \in Ops /\ panel.submitted # NoOp
    BY <1>3 DEF ReadStatus, PanelInv, PanelTypes
  <2>2. [at |-> "asked", op |-> panel.submitted, reply |-> "none"] \in Reads
    BY <2>1 DEF Reads
  <2>4. Resolved(panel) => panel.submitted \notin owed
    BY DEF PanelInv, Owing
  <2> QED
    BY <1>3, <2>1, <2>2, <2>4, TypedPanel, HearingKeeps DEF ReadStatus, PanelKeeps, Asked, Resolved
<1> QED
  BY <1>1, <1>2, <1>3

\* After a refusal, and after a result that is known, nothing is submitted and
\* the rest is of earlier campaigns.
LEMMA EndKeeps ==
    ASSUME PanelInv, sponsor' = sponsor, kept' = NoOp,
           panel' \in Panels, panel'.offer = panel.offer,
           panel'.submitted = NoOp, panel'.outcome = Unknown, panel'.task = NoTask,
           panel'.status = panel.status,
           owed' \subseteq owed, panel.submitted \notin owed', panel.submitted # NoOp
    PROVE  PanelInv'
<1>1. PanelTypes'
  BY DEF PanelInv, PanelTypes
<1>2. Focused'
  BY DEF PanelInv, Focused, NoTask
<1>3. Owing'
  <2>1. ASSUME NEW op \in owed'
        PROVE  /\ op[1] <= sponsor.offer.campaign /\ op[1] < sponsor.offer.campaign
               /\ panel.offer # NoOffer => op[1] < panel.offer.campaign
    <3>1. op \in owed /\ op # panel.submitted /\ panel.submitted = kept
      BY DEF PanelInv, Focused
    <3> QED
      BY <3>1 DEF PanelInv, Owing
  <2>2. ~Resolved(panel')
    BY DEF Resolved, Unknown, Terminal
  <2> QED
    BY <2>1, <2>2 DEF Owing, Resolved
<1> QED
  BY <1>1, <1>2, <1>3 DEF PanelInv

LEMMA EndsKeep == PanelInv /\ (Refused \/ StartAnother) => PanelInv'
<1> SUFFICES ASSUME PanelInv, Refused \/ StartAnother PROVE PanelInv'
  OBVIOUS
<1>1. Unknown \in Outcomes
  BY DEF Unknown, Outcomes
<1>2. CASE Refused
  <2>1. panel.submitted = panel.task.op /\ panel.submitted # NoOp
    BY <1>2 DEF Refused, PanelInv, Focused
  <2> QED
    BY <1>1, <1>2, <2>1, TypedPanel, NothingTyped, EndKeeps DEF Refused, PanelKeeps
<1>3. CASE StartAnother
  <2>1. panel.submitted # NoOp /\ panel.submitted \notin owed
    BY <1>3 DEF StartAnother, PanelInv, Focused, Owing, Resolved, Unknown, Terminal
  <2>2. panel.task.at = "off"
    BY <1>3 DEF StartAnother
  <2>3. /\ panel' \in Panels /\ panel'.offer = panel.offer
        /\ panel'.submitted = NoOp /\ panel'.outcome = Unknown /\ panel'.task = panel.task
        /\ panel'.status = panel.status
    BY <1>1, <1>3, TypedPanel DEF StartAnother
  <2>4. sponsor' = sponsor /\ kept' = NoOp /\ owed' = owed
    BY <1>3 DEF StartAnother, PanelKeeps
  <2>5. PanelTypes'
    BY <2>3, <2>4 DEF PanelInv, PanelTypes
  <2>6. Focused'
    BY <2>2, <2>3, <2>4 DEF PanelInv, Focused
  <2>7. ASSUME NEW op \in owed
        PROVE  /\ op[1] <= sponsor.offer.campaign /\ op[1] < sponsor.offer.campaign
               /\ panel.offer # NoOffer => op[1] < panel.offer.campaign
    <3>1. op # panel.submitted /\ panel.submitted = kept
      BY <2>1 DEF PanelInv, Focused
    <3> QED
      BY <3>1 DEF PanelInv, Owing
  <2>8. ~Resolved(panel')
    BY <2>3 DEF Resolved, Unknown, Terminal
  <2>9. Owing'
    BY <2>3, <2>4, <2>7, <2>8 DEF Owing, Resolved
  <2> QED
    BY <2>5, <2>6, <2>9 DEF PanelInv
<1> QED
  BY <1>2, <1>3

LEMMA ReadsKeep ==
    ASSUME PanelInv, StatusAnswer \/ ReceiptConfirmed \/ ReceiptConflict \/ StatusFails
    PROVE  PanelInv'
<1>1. PICK p : p = Quiet(panel)
  OBVIOUS
<1>2. /\ p \in Panels /\ p.status = NoStatus
      /\ p.offer = panel.offer /\ p.submitted = panel.submitted /\ p.task = panel.task
      /\ p.outcome = panel.outcome
  BY <1>1, TypedPanel, NothingTyped DEF Quiet
<1>3. p.status.at = "off"
  BY <1>2 DEF NoStatus
<1>4. panel.status.at # "off" => panel.status.op # NoOp
  BY DEF PanelInv, Focused
<1>5. Resolved(panel) => panel.submitted \notin owed
  BY DEF PanelInv, Owing
<1>6. panel \in Panels
  BY TypedPanel
<1>7. ASSUME panel' = p, UNCHANGED <<sponsor, kept>>, owed' \subseteq owed PROVE PanelInv'
  BY <1>2, <1>3, <1>5, <1>7, HearingKeeps DEF Resolved
<1>8. CASE StatusAnswer
  <2>1. /\ owed' = owed \ Over(panel') /\ UNCHANGED <<sponsor, kept>>
        /\ panel.status.at = "asked" /\ panel.status.reply # "none"
    BY <1>8 DEF StatusAnswer, PanelKeeps
  <2>2. CASE panel.submitted # panel.status.op
    BY <1>1, <1>7, <1>8, <2>1, <2>2 DEF StatusAnswer
  <2>3. CASE panel.submitted = panel.status.op
    <3>1. panel.submitted # NoOp
      BY <1>4, <2>1, <2>3
    <3>2. /\ panel' \in Panels
          /\ panel'.offer = panel.offer /\ panel'.submitted = panel.submitted /\ panel'.task = panel.task
          /\ panel'.status.at # "off" => panel'.status.op # NoOp
      <4>1. CASE panel.status.reply = "absent"
        <5>1. panel' = Quiet(Unchecked(panel))
          BY <1>8, <2>3, <4>1 DEF StatusAnswer
        <5> QED
          BY <1>6, <5>1, NothingTyped DEF Quiet, Unchecked, Outcomes, NoStatus
      <4>2. CASE panel.status.reply # "absent"
        <5>1. panel.status.reply \in States
          BY <1>6, <2>1, <4>2 DEF Reads
        <5>2. PICK o \in Outcomes : Accepted(panel, panel.status.reply) = [panel EXCEPT !.outcome = o]
          BY <1>6, <5>1, AcceptedTyped
        <5>3. PICK next : next = [panel EXCEPT !.outcome = o]
          OBVIOUS
        <5>4. panel' = IF panel.status.reply = "settled" THEN [next EXCEPT !.status.at = "receipt"] ELSE Quiet(next)
          BY <1>8, <2>3, <4>2, <5>2, <5>3 DEF StatusAnswer
        <5>5. /\ next \in Panels /\ next.status = panel.status /\ next.task = panel.task
              /\ next.offer = panel.offer /\ next.submitted = panel.submitted
          BY <1>6, <5>3
        <5>6. CASE panel.status.reply = "settled"
          BY <1>4, <2>1, <5>4, <5>5, <5>6 DEF Reads
        <5>7. CASE panel.status.reply # "settled"
          BY <5>4, <5>5, <5>7, NothingTyped DEF Quiet, NoStatus
        <5> QED
          BY <5>6, <5>7
      <4> QED
        BY <4>1, <4>2
    <3>3. Resolved(panel') => panel.submitted \notin owed'
      BY <2>1, <3>2 DEF Over
    <3> QED
      BY <2>1, <3>1, <3>2, <3>3, HearingKeeps
  <2> QED
    BY <2>2, <2>3
<1>9. CASE ReceiptConfirmed
  <2>1. owed' = owed \ Over(panel') /\ UNCHANGED <<sponsor, kept>> /\ panel.status.at = "receipt"
    BY <1>9 DEF ReceiptConfirmed, PanelKeeps
  <2>2. CASE panel.submitted # panel.status.op
    BY <1>1, <1>7, <1>9, <2>1, <2>2 DEF ReceiptConfirmed
  <2>3. CASE panel.submitted = panel.status.op
    <3>1. panel' = [p EXCEPT !.outcome = [state |-> "settled", check |-> "confirmed"], !.elig = NoOp]
      BY <1>1, <1>9, <2>3 DEF ReceiptConfirmed
    <3>2. /\ panel' \in Panels /\ panel'.offer = panel.offer /\ panel'.submitted = panel.submitted
          /\ panel'.task = panel.task /\ panel'.status.at = "off"
      BY <1>2, <1>3, <3>1 DEF Outcomes, States, Terminal
    <3>3. Resolved(panel') => panel.submitted \notin owed'
      BY <2>1, <3>2 DEF Over
    <3> QED
      BY <1>4, <2>1, <2>3, <3>2, <3>3, HearingKeeps
  <2> QED
    BY <2>2, <2>3
<1>10. CASE ReceiptConflict
  <2>1. owed' = owed /\ UNCHANGED <<sponsor, kept>> /\ panel.status.at = "receipt"
    BY <1>10 DEF ReceiptConflict, PanelKeeps
  <2>2. CASE panel.submitted # panel.status.op
    BY <1>1, <1>7, <1>10, <2>1, <2>2 DEF ReceiptConflict
  <2>3. CASE panel.submitted = panel.status.op
    <3>1. panel' = [p EXCEPT !.outcome.check = "conflict", !.elig = NoOp]
      BY <1>1, <1>10, <2>3 DEF ReceiptConflict
    <3>2. /\ panel' \in Panels /\ panel'.offer = panel.offer /\ panel'.submitted = panel.submitted
          /\ panel'.task = panel.task /\ panel'.status.at = "off" /\ panel'.outcome.check = "conflict"
      BY <1>2, <1>3, <3>1 DEF Outcomes
    <3> QED
      BY <1>4, <2>1, <2>3, <3>2, HearingKeeps DEF Resolved
  <2> QED
    BY <2>2, <2>3
<1>11. CASE StatusFails
  <2>1. owed' = owed /\ UNCHANGED <<sponsor, kept>> /\ panel.status.at # "off"
    BY <1>11 DEF StatusFails, PanelKeeps
  <2>2. CASE panel.submitted # panel.status.op
    BY <1>1, <1>7, <1>11, <2>1, <2>2 DEF StatusFails
  <2>3. CASE panel.submitted = panel.status.op
    <3>1. panel' = Quiet(Unchecked(panel))
      BY <1>11, <2>3 DEF StatusFails
    <3>2. /\ panel' \in Panels /\ panel'.offer = panel.offer /\ panel'.submitted = panel.submitted
          /\ panel'.task = panel.task /\ panel'.status.at = "off"
          /\ Resolved(panel') => Resolved(panel)
      BY <1>6, <3>1, NothingTyped DEF Quiet, Unchecked, Outcomes, NoStatus, Resolved
    <3> QED
      BY <1>4, <1>5, <2>1, <2>3, <3>2, HearingKeeps
  <2> QED
    BY <2>2, <2>3
<1> QED
  BY <1>8, <1>9, <1>10, <1>11

LEMMA ServiceKeeps ==
    ASSUME PanelInv,
           \/ \E op \in Ops : ServePost(op) \/ Work(op)
           \/ ServeStatus \/ Remount
           \/ \E offer \in Offers : Reoffer(offer)
    PROVE  PanelInv'
<1>1. ASSUME NEW op \in Ops, ServePost(op) PROVE PanelInv'
  <2>1. PICK given \in States \cup {"none"} : sponsor' = [sponsor EXCEPT !.ops[op] = given, !.posts = @ \ {op}]
    <3>1. sponsor.ops[op] \in States \cup {"none"}
      BY DEF PanelInv, PanelTypes
    <3> QED
      BY <1>1, <3>1 DEF ServePost, States
  <2>2. PICK reply \in States \cup {"refused"} :
          panel' = panel \/ panel' = [panel EXCEPT !.task.reply = reply]
    <3>1. sponsor.ops[op] \in States \cup {"none"}
      BY DEF PanelInv, PanelTypes
    <3> QED
      BY <1>1, <3>1 DEF ServePost, States
  <2>3. UNCHANGED <<kept, owed>>
    BY <1>1 DEF ServePost
  <2>4. /\ panel' \in Panels /\ panel'.offer = panel.offer /\ panel'.submitted = panel.submitted
        /\ panel'.status = panel.status /\ panel'.outcome = panel.outcome
        /\ panel'.task.at = panel.task.at /\ panel'.task.op = panel.task.op
    BY <2>2, TypedPanel DEF Tasks
  <2>5. sponsor'.offer = sponsor.offer /\ sponsor' \in [offer : Offers, ops : [Ops -> States \cup {"none"}], posts : SUBSET Ops]
    BY <2>1 DEF PanelInv, PanelTypes
  <2>6. PanelTypes'
    BY <2>3, <2>4, <2>5 DEF PanelInv, PanelTypes
  <2>7. Focused' /\ Owing'
    BY <2>3, <2>4, <2>5 DEF PanelInv, Focused, Owing, Resolved
  <2> QED
    BY <2>6, <2>7 DEF PanelInv
<1>2. ASSUME NEW op \in Ops, Work(op) PROVE PanelInv'
  <2>1. PICK given \in States : sponsor' = [sponsor EXCEPT !.ops[op] = given]
    BY <1>2 DEF Work, States, Terminal
  <2>2. sponsor'.offer = sponsor.offer /\ sponsor' \in [offer : Offers, ops : [Ops -> States \cup {"none"}], posts : SUBSET Ops]
    BY <2>1 DEF PanelInv, PanelTypes
  <2>3. PanelTypes'
    BY <1>2, <2>2 DEF Work, PanelInv, PanelTypes
  <2>4. Focused' /\ Owing'
    BY <1>2, <2>2 DEF Work, PanelInv, Focused, Owing, Resolved
  <2> QED
    BY <2>3, <2>4 DEF PanelInv
<1>3. CASE ServeStatus
  <2>1. panel.status.op \in Ops
    BY <1>3 DEF ServeStatus, PanelInv, PanelTypes, Focused, Reads
  <2>2. PICK reply \in States \cup {"absent"} : panel' = [panel EXCEPT !.status.reply = reply]
    <3>1. sponsor.ops[panel.status.op] \in States \cup {"none"}
      BY <2>1 DEF PanelInv, PanelTypes
    <3> QED
      BY <1>3, <3>1 DEF ServeStatus
  <2>3. /\ panel' \in Panels /\ panel'.offer = panel.offer /\ panel'.submitted = panel.submitted
        /\ panel'.task = panel.task /\ panel'.outcome = panel.outcome
        /\ panel'.status.op = panel.status.op
    BY <2>2, TypedPanel DEF Reads
  <2>4. Resolved(panel) => panel.submitted \notin owed
    BY DEF PanelInv, Owing
  <2>5. panel.status.op # NoOp
    BY <2>1, OpsTyped
  <2> QED
    BY <1>3, <2>3, <2>4, <2>5, HearingKeeps DEF ServeStatus, PanelKeeps, Resolved
<1>4. ASSUME NEW offer \in Offers, Reoffer(offer) PROVE PanelInv'
  <2>1. /\ sponsor' \in [offer : Offers, ops : [Ops -> States \cup {"none"}], posts : SUBSET Ops]
        /\ sponsor'.offer = offer /\ UNCHANGED <<panel, kept, owed>>
    BY <1>4 DEF Reoffer, PanelInv, PanelTypes
  <2>2. sponsor.offer.campaign <= offer.campaign /\ sponsor.offer.campaign \in Nat /\ offer.campaign \in Nat
    BY <1>4, OffersAssumption DEF Reoffer, PanelInv, PanelTypes
  <2>3. PanelTypes'
    BY <2>1 DEF PanelInv, PanelTypes
  <2>4. Focused'
    <3>1. panel.offer # NoOffer => panel.offer.campaign \in Nat /\ panel.offer.campaign <= offer.campaign
      BY <2>2, OffersAssumption DEF PanelInv, PanelTypes, Focused
    <3>2. panel.task.at = "sign" => panel.task.op[1] \in panel.offer.campaign..offer.campaign
      BY <2>2, OffersAssumption DEF PanelInv, PanelTypes, Focused
    <3> QED
      BY <2>1, <3>1, <3>2 DEF PanelInv, Focused
  <2>5. Owing'
    <3>1. ASSUME NEW op \in owed
          PROVE  op[1] <= offer.campaign /\ (op # kept => op[1] < offer.campaign)
      BY <2>2, OpsTyped DEF PanelInv, PanelTypes, Owing
    <3> QED
      BY <2>1, <3>1 DEF PanelInv, Owing
  <2> QED
    BY <2>3, <2>4, <2>5 DEF PanelInv
<1>5. CASE Remount
  <2>1. panel' = Mounted(panel.account) /\ UNCHANGED <<sponsor, kept, owed>>
    BY <1>5 DEF Remount
  <2>2. /\ panel' \in Panels /\ panel'.offer = NoOffer /\ panel'.submitted = NoOp
        /\ panel'.task.at = "off" /\ panel'.status.at = "off" /\ panel'.outcome = Unknown
    BY <2>1, TypedPanel, NothingTyped DEF Mounted, NoTask, NoStatus, Unknown, Outcomes
  <2>3. PanelTypes'
    BY <2>1, <2>2 DEF PanelInv, PanelTypes
  <2>4. Focused' /\ Owing'
    BY <2>1, <2>2 DEF PanelInv, Focused, Owing, Resolved, Unknown, Terminal
  <2> QED
    BY <2>3, <2>4 DEF PanelInv
<1> QED
  BY <1>1, <1>2, <1>3, <1>4, <1>5

LEMMA PanelStep == PanelInv /\ [HelperNext]_helperVars => PanelInv'
<1> SUFFICES ASSUME PanelInv, [HelperNext]_helperVars PROVE PanelInv'
  OBVIOUS
<1>1. CASE UNCHANGED helperVars
  BY <1>1 DEF helperVars, PanelInv, PanelTypes, Focused, Owing, Resolved
<1> QED
  BY <1>1, OfferKeeps, WishesKeep, ChallengeKeeps, SignedKeeps, HeardKeeps, EndsKeep, ReadsKeep, ServiceKeeps
     DEF HelperNext

\* The request for an operation leaves once: not again, whatever was lost,
\* refused late or reloaded, before the earlier one is known to be refused or
\* over.
THEOREM RequestLeavesOnce == HelperSpec => PostedOnce
<1>1. PanelInv /\ [HelperNext]_helperVars =>
        [panel.task.at = "sign" /\ panel'.task.at = "release" => panel.task.op \notin owed]_helperVars
  BY SignedIsNew
<1> QED
  BY <1>1, PanelInit, PanelStep, PTL DEF HelperSpec, PostedOnce

-----------------------------------------------------------------------------
(* The campaign runner *)

\* What the chain shows as the operator's claim was the operator's release, and
\* each release that landed has its claim; a wallet has one.
ClaimsTrue ==
    \A c \in Contracts : \A i \in DOMAIN chain[c].claims :
        LET claim == chain[c].claims[i] IN
        claim.relayer = Operator =>
            claim.tx \in DOMAIN txs /\ txs[claim.tx].kind = "release" /\ txs[claim.tx].status = "ok"
LandedClaims ==
    \A i \in DOMAIN txs : txs[i].kind = "release" /\ txs[i].status = "ok" =>
        \E j \in DOMAIN chain[txs[i].contract].claims : chain[txs[i].contract].claims[j].tx = i
ClaimedOnce ==
    \A c \in Contracts : \A i, j \in DOMAIN chain[c].claims :
        chain[c].claims[i].wallet = chain[c].claims[j].wallet => i = j

\* The evidence names the contract's first campaign and its first claim.
Funded(part) ==
    LET campaigns == chain[part.contract].campaigns IN
    /\ campaigns # <<>> /\ campaigns[1].sponsor = Operator /\ campaigns[1].tx = part.creation
PaidOut(part) ==
    LET claims == chain[part.contract].claims IN
    /\ claims # <<>> /\ claims[1].wallet = Beneficiary /\ claims[1].relayer = Operator
    /\ claims[1].exact /\ claims[1].tx = part.release

RunnerStages ==
    {"deploy", "predict", "create", "creating", "created", "simulate", "release", "releasing", "settle", "replay",
     "verify", "classify", "open", "reconcile"}

\* What an attempt knows at each stage.
Knows(work) == work # Idle =>
    /\ work.stage = "deploy" => work.part.deployed < Deployments
    /\ work.stage # "verify" => work.part.signer = Operator
    /\ work.stage \in {"simulate", "release", "releasing", "settle", "replay", "classify", "open", "reconcile"}
           => Funded(work.part)
    /\ work.stage = "releasing" =>
           /\ work.tx \in DOMAIN txs /\ work.part.release = work.tx
           /\ txs[work.tx].kind = "release" /\ txs[work.tx].contract = work.part.contract
    /\ work.stage \in {"settle", "replay"} => PaidOut(work.part)

PassedTrue == \A f \in files : f.passed => Funded(f.part) /\ PaidOut(f.part)

RunnerInv ==
    /\ RunnerTypeOK /\ ClaimsTrue /\ LandedClaims /\ ClaimedOnce
    /\ \A p \in Attempts : Knows(attempt[p])
    /\ PassedTrue

LEMMA RunnerStarts == RunnerInit => RunnerInv
  <1> SUFFICES ASSUME RunnerInit PROVE RunnerInv
    OBVIOUS
  <1>1. RunnerTypeOK
    BY BoundsAssumption DEF RunnerInit, RunnerTypeOK, Deployments
  <1>2. ClaimsTrue /\ LandedClaims /\ ClaimedOnce /\ PassedTrue
    BY DEF RunnerInit, ClaimsTrue, LandedClaims, ClaimedOnce, PassedTrue
  <1> QED
    BY <1>1, <1>2 DEF RunnerInit, RunnerInv, Knows

LEMMA WorkingFields ==
    \A w \in Working : /\ w # Idle /\ w.part \in Parts /\ w.part.contract \in Contracts
                       /\ w.part.deployed \in Nat /\ w.tx \in Nat
  BY DEF Working, Parts, Idle, Deployments

\* A chain that only grew still shows what the evidence names.
Grown ==
    /\ \A c \in Contracts : \A i \in DOMAIN chain[c].campaigns :
           i \in DOMAIN chain'[c].campaigns /\ chain'[c].campaigns[i] = chain[c].campaigns[i]
    /\ \A c \in Contracts : \A i \in DOMAIN chain[c].claims :
           i \in DOMAIN chain'[c].claims /\ chain'[c].claims[i] = chain[c].claims[i]
    /\ \A i \in DOMAIN txs : /\ i \in DOMAIN txs'
                             /\ txs'[i].kind = txs[i].kind /\ txs'[i].contract = txs[i].contract
                             /\ txs[i].status = "ok" => txs'[i].status = "ok"

LEMMA FirstOf ==
    ASSUME NEW S, NEW s \in Seq(S)
    PROVE  s # <<>> <=> 1 \in DOMAIN s
  OBVIOUS

LEMMA Chained ==
    ASSUME RunnerTypeOK, NEW c \in Contracts
    PROVE  chain[c].campaigns \in Seq(Campaigns) /\ chain[c].claims \in Seq(Claims)
  BY DEF RunnerTypeOK

LEMMA EvidenceStays ==
    ASSUME RunnerTypeOK, RunnerTypeOK', Grown, NEW part \in Parts
    PROVE  (Funded(part) => Funded(part)') /\ (PaidOut(part) => PaidOut(part)')
  <1> DEFINE c == part.contract
  <1>1. c \in Contracts
    BY DEF Parts
  <1>2. /\ chain[c].campaigns # <<>> <=> 1 \in DOMAIN chain[c].campaigns
        /\ chain[c].claims # <<>> <=> 1 \in DOMAIN chain[c].claims
    BY <1>1, Chained, FirstOf
  <1>3. /\ chain'[c].campaigns \in Seq(Campaigns) /\ chain'[c].claims \in Seq(Claims)
    BY <1>1 DEF RunnerTypeOK
  <1>4. /\ chain'[c].campaigns # <<>> <=> 1 \in DOMAIN chain'[c].campaigns
        /\ chain'[c].claims # <<>> <=> 1 \in DOMAIN chain'[c].claims
    BY <1>3, FirstOf
  <1> QED
    BY <1>1, <1>2, <1>4 DEF Grown, Funded, PaidOut

LEMMA KnowledgeStays ==
    ASSUME RunnerTypeOK, RunnerTypeOK', Grown, NEW w \in {Idle} \cup Working, Knows(w)
    PROVE  Knows(w)'
  <1> SUFFICES ASSUME w # Idle PROVE Knows(w)'
    BY DEF Knows
  <1>1. w \in Working /\ w.part \in Parts
    BY WorkingFields
  <1>2. (Funded(w.part) => Funded(w.part)') /\ (PaidOut(w.part) => PaidOut(w.part)')
    BY <1>1, EvidenceStays
  <1>3. w.tx \in DOMAIN txs => /\ w.tx \in DOMAIN txs' /\ txs'[w.tx].kind = txs[w.tx].kind
                               /\ txs'[w.tx].contract = txs[w.tx].contract
    BY DEF Grown
  <1> QED
    BY <1>2, <1>3 DEF Knows

-----------------------------------------------------------------------------
(* Steps of an attempt *)

\* The attempt goes on knowing what its stage asks, or ends; it may write
\* evidence, and send a transaction.
LEMMA WorkKeeps ==
    ASSUME RunnerInv, RunnerTypeOK', NEW p \in Attempts, NEW w \in {Idle} \cup Working,
           attempt' = [attempt EXCEPT ![p] = w],
           \A c \in Contracts : chain'[c].campaigns = chain[c].campaigns /\ chain'[c].claims = chain[c].claims,
           txs' = txs \/ \E tx \in Transactions : tx.status = "pending" /\ txs' = Append(txs, tx),
           Knows(w)',
           \A f \in files' : f \in files \/ f.passed = FALSE \/ (Funded(f.part) /\ PaidOut(f.part))
    PROVE  RunnerInv'
  <1>1. \A i \in DOMAIN txs : i \in DOMAIN txs' /\ txs'[i] = txs[i]
    <2>1. txs \in Seq(Transactions)
      BY DEF RunnerInv, RunnerTypeOK
    <2>2. ASSUME NEW tx \in Transactions, txs' = Append(txs, tx)
          PROVE  \A i \in DOMAIN txs : i \in DOMAIN txs' /\ txs'[i] = txs[i]
      BY <2>1, <2>2
    <2> QED
      BY <2>2
  <1>2. \A i \in DOMAIN txs' : i \in DOMAIN txs \/ txs'[i].status = "pending"
    <2>1. CASE txs' = txs
      BY <2>1
    <2>2. ASSUME NEW tx \in Transactions, tx.status = "pending", txs' = Append(txs, tx)
          PROVE  \A i \in DOMAIN txs' : i \in DOMAIN txs \/ txs'[i].status = "pending"
      <3>1. txs \in Seq(Transactions)
        BY DEF RunnerInv, RunnerTypeOK
      <3>2. \A i \in DOMAIN txs' : i \in DOMAIN txs \/ txs'[i] = tx
        BY <2>2, <3>1
      <3> QED
        BY <2>2, <3>2
    <2> QED
      BY <2>1, <2>2
  <1>3. Grown
    BY <1>1 DEF Grown
  <1>4. ClaimsTrue'
    BY <1>1 DEF RunnerInv, ClaimsTrue
  <1>5. LandedClaims'
    <2> SUFFICES ASSUME NEW i \in DOMAIN txs', txs'[i].kind = "release", txs'[i].status = "ok"
                 PROVE  \E j \in DOMAIN chain'[txs'[i].contract].claims : chain'[txs'[i].contract].claims[j].tx = i
      BY DEF LandedClaims
    <2>1. i \in DOMAIN txs /\ txs'[i] = txs[i]
      BY <1>1, <1>2
    <2>2. txs[i] \in Transactions
      BY <2>1 DEF RunnerInv, RunnerTypeOK
    <2>3. txs[i].contract \in Contracts
      BY <2>2 DEF Transactions
    <2> QED
      BY <2>1, <2>3 DEF RunnerInv, LandedClaims
  <1>6. ClaimedOnce'
    BY DEF RunnerInv, ClaimedOnce
  <1>7. \A q \in Attempts : Knows(attempt[q])'
    <2> SUFFICES ASSUME NEW q \in Attempts PROVE Knows(attempt[q])'
      OBVIOUS
    <2>1. CASE q = p
      <3>1. attempt'[q] = w
        BY <2>1 DEF RunnerInv, RunnerTypeOK
      <3> QED
        BY <3>1
    <2>2. CASE q # p
      <3>1. attempt'[q] = attempt[q] /\ attempt[q] \in {Idle} \cup Working /\ Knows(attempt[q])
        BY <2>2 DEF RunnerInv, RunnerTypeOK
      <3>2. \A v \in {Idle} \cup Working : Knows(v) => Knows(v)'
        BY <1>3, KnowledgeStays DEF RunnerInv
      <3> QED
        BY <3>1, <3>2
    <2> QED
      BY <2>1, <2>2
  <1>8. PassedTrue'
    <2> SUFFICES ASSUME NEW f \in files', f.passed PROVE Funded(f.part)' /\ PaidOut(f.part)'
      BY DEF PassedTrue
    <2>1. Funded(f.part) /\ PaidOut(f.part) /\ f.part \in Parts
      BY DEF RunnerInv, PassedTrue, RunnerTypeOK
    <2> QED
      BY <1>3, <2>1, EvidenceStays DEF RunnerInv
  <1> QED
    BY <1>4, <1>5, <1>6, <1>7, <1>8 DEF RunnerInv

\* A step that writes no evidence but a failed attempt's.
Faithful == files' \subseteq files \cup {f \in [passed : BOOLEAN, part : Parts] : ~f.passed}

LEMMA FieldsOf ==
    ASSUME RunnerInv, NEW p \in Attempts, attempt[p] # Idle
    PROVE  /\ attempt[p] \in Working /\ Part(p) \in Parts /\ Part(p).contract \in Contracts
           /\ Knows(attempt[p]) /\ attempt[p].deadline \in Nat /\ attempt[p].tx \in Nat
  <1>1. attempt[p] \in Working
    BY DEF RunnerInv, RunnerTypeOK
  <1>2. /\ attempt[p].part \in Parts /\ attempt[p].part.contract \in Contracts
        /\ attempt[p].deadline \in Nat /\ attempt[p].tx \in Nat
    BY <1>1 DEF Working, Parts
  <1> QED
    BY <1>1, <1>2 DEF RunnerInv, Part

LEMMA StageBusy == \A p \in Attempts : \A stage \in RunnerStages : At(p, stage) => attempt[p] # Idle
  BY DEF At, RunnerStages, Idle

\* The attempt goes on or ends with the evidence of a failure, and sends nothing.
LEMMA MovesKeep ==
    ASSUME RunnerInv, NEW p \in Attempts, NEW w \in {Idle} \cup Working,
           attempt' = [attempt EXCEPT ![p] = w], UNCHANGED <<now, chain, txs>>, failures' \in 0..MaxFailures,
           Faithful, Knows(w)
    PROVE  RunnerInv'
  <1>1. RunnerTypeOK'
    BY DEF RunnerInv, RunnerTypeOK, Faithful
  <1>2. Knows(w)'
    BY DEF Knows, Funded, PaidOut
  <1>3. \A f \in files' : f \in files \/ f.passed = FALSE
    BY DEF Faithful
  <1> QED
    BY <1>1, <1>2, <1>3, WorkKeeps

LEMMA WorkEnds ==
    ASSUME RunnerInv, NEW p \in Attempts, Ends(p), UNCHANGED <<now, chain, txs>>, failures' \in 0..MaxFailures,
           Faithful
    PROVE  RunnerInv'
  <1>1. Knows(Idle)
    BY DEF Knows
  <1> QED
    BY <1>1, MovesKeep DEF Ends

LEMMA FailedFile ==
    ASSUME RunnerInv, NEW p \in Attempts, attempt[p] # Idle, Failed(p)
    PROVE  Ends(p) /\ Faithful
  <1>1. Part(p) \in Parts
    BY FieldsOf
  <1> DEFINE f == [passed |-> FALSE, part |-> Part(p)]
  <1>2. f \in [passed : BOOLEAN, part : Parts] /\ ~f.passed
    BY <1>1
  <1>3. Ends(p) /\ files' = files \cup {f}
    BY DEF Failed
  <1> QED
    BY <1>2, <1>3 DEF Faithful

LEMMA FailedKeeps ==
    ASSUME RunnerInv, NEW p \in Attempts, attempt[p] # Idle, Failed(p), UNCHANGED <<now, chain, txs>>,
           failures' \in 0..MaxFailures
    PROVE  RunnerInv'
  BY FailedFile, WorkEnds

\* A step that reads and decides.
LEMMA DecideKeeps ==
    ASSUME RunnerInv, NEW p \in Attempts, attempt[p] # Idle, NEW next \in RunnerStages, NEW holds \in BOOLEAN,
           Decide(p, holds, next), holds => Knows([attempt[p] EXCEPT !.stage = next])
    PROVE  RunnerInv'
  <1>1. failures' \in 0..MaxFailures /\ UNCHANGED <<now, chain, txs>>
    BY DEF Decide, RunnerInv, RunnerTypeOK
  <1>2. CASE holds
    <2>1. attempt[p] \in Working
      BY FieldsOf
    <2> DEFINE w == [attempt[p] EXCEPT !.stage = next]
    <2>2. w \in Working
      BY <2>1 DEF Working, RunnerStages
    <2>3. attempt' = [attempt EXCEPT ![p] = w] /\ files' = files
      BY <1>2 DEF Decide, Goto
    <2>4. Faithful
      BY <2>3 DEF Faithful
    <2> HIDE DEF w
    <2> QED
      BY <1>1, <1>2, <2>2, <2>3, <2>4, MovesKeep DEF w
  <1>3. CASE ~holds
    BY <1>1, <1>3, FailedKeeps DEF Decide
  <1> QED
    BY <1>2, <1>3

LEMMA RunStarts == ASSUME RunnerInv, NEW p \in Attempts, NEW c \in Contracts, Run(p, c) PROVE RunnerInv'
  <1> DEFINE w == [stage |-> "deploy", part |-> Fresh(c), tx |-> None, deadline |-> None]
  <1>1. w \in Working
    BY DEF Working, Parts, Fresh, None, Deployments
  <1>2. Knows(w)
    BY DEF Knows, Fresh, Deployments
  <1>3. attempt' = [attempt EXCEPT ![p] = w] /\ UNCHANGED <<now, chain, txs>> /\ failures' \in 0..MaxFailures
    BY DEF Run, RunnerInv, RunnerTypeOK
  <1>4. Faithful
    BY DEF Run, Faithful
  <1> QED
    BY <1>1, <1>2, <1>3, <1>4, MovesKeep

LEMMA DeployKeeps == ASSUME RunnerInv, NEW p \in Attempts, Deploy(p) PROVE RunnerInv'
  <1>1. attempt[p] # Idle /\ attempt[p].stage = "deploy"
    BY DEF Deploy, At, Idle
  <1>2. /\ attempt[p] \in Working /\ Part(p) \in Parts /\ Part(p).contract \in Contracts /\ Knows(attempt[p])
    BY <1>1, FieldsOf
  <1>3. Part(p).deployed \in 0..3 /\ Part(p).signer = Operator
    BY <1>1, <1>2 DEF Knows, Parts, Part, Deployments
  <1>4. PICK part \in Parts :
            /\ part = [Part(p) EXCEPT !.deployed = @ + 1]
            /\ part.signer = Operator /\ part.deployed \in 1..Deployments /\ part.contract \in Contracts
    <2>1. [Part(p) EXCEPT !.deployed = @ + 1] \in Parts
      BY <1>2, <1>3 DEF Parts, Deployments
    <2> QED
      BY <1>2, <1>3, <2>1 DEF Parts, Deployments
  <1>5. PICK next \in {"predict", "deploy"} :
            /\ next = (IF part.deployed = Deployments THEN "predict" ELSE "deploy")
            /\ next = "deploy" => part.deployed < Deployments
    <2>1. CASE part.deployed = Deployments
      BY <2>1
    <2>2. CASE part.deployed # Deployments
      <3>1. part.deployed < Deployments
        BY <1>4, <2>2 DEF Deployments
      <3> QED
        BY <2>2, <3>1
    <2> QED
      BY <2>1, <2>2
  <1>6. PICK w \in Working : /\ w = [attempt[p] EXCEPT !.stage = next, !.part = part]
                             /\ w.stage = next /\ w.part = part
    <2>1. /\ [attempt[p] EXCEPT !.stage = next, !.part = part] \in Working
          /\ [attempt[p] EXCEPT !.stage = next, !.part = part].stage = next
          /\ [attempt[p] EXCEPT !.stage = next, !.part = part].part = part
      BY <1>2 DEF Working
    <2> QED
      BY <2>1
  <1>7. /\ attempt' = [attempt EXCEPT ![p] = w] /\ UNCHANGED <<now, txs, files, failures>>
        /\ chain' = [chain EXCEPT ![part.contract].deployed = part.deployed]
    BY <1>4, <1>5, <1>6 DEF Deploy, Keep
  <1>8. Knows(w)'
    <2>1. w.stage \in {"predict", "deploy"} /\ w.part.signer = Operator
      BY <1>4, <1>6
    <2>2. w.stage = "deploy" => w.part.deployed < Deployments
      BY <1>5, <1>6
    <2> QED
      BY <2>1, <2>2 DEF Knows
  <1>9. \A c \in Contracts : chain'[c].campaigns = chain[c].campaigns /\ chain'[c].claims = chain[c].claims
    BY <1>4, <1>7 DEF RunnerInv, RunnerTypeOK
  <1>10. RunnerTypeOK'
    <2> DEFINE Worlds == [deployed : 0..Deployments, campaigns : Seq(Campaigns), claims : Seq(Claims),
                          recovered : BOOLEAN]
    <2>1. chain[part.contract] \in Worlds
      BY <1>4 DEF RunnerInv, RunnerTypeOK
    <2>2. PICK world \in Worlds : world = [chain[part.contract] EXCEPT !.deployed = part.deployed]
      <3>1. part.deployed \in 0..Deployments
        BY <1>4 DEF Deployments
      <3>2. [chain[part.contract] EXCEPT !.deployed = part.deployed] \in Worlds
        BY <2>1, <3>1
      <3> QED
        BY <3>2
    <2> HIDE DEF Worlds
    <2>3. chain' = [chain EXCEPT ![part.contract] = world]
      BY <1>7, <2>2
    <2>4. chain' \in [Contracts -> Worlds]
      BY <1>4, <2>2, <2>3 DEF RunnerInv, RunnerTypeOK, Worlds
    <2>5. attempt' \in [Attempts -> {Idle} \cup Working]
      BY <1>6, <1>7 DEF RunnerInv, RunnerTypeOK
    <2> QED
      BY <1>7, <2>4, <2>5 DEF RunnerInv, RunnerTypeOK, Worlds
  <1> QED
    BY <1>6, <1>7, <1>8, <1>9, <1>10, WorkKeeps

LEMMA PredictKeeps == ASSUME RunnerInv, NEW p \in Attempts, Predict(p) PROVE RunnerInv'
  <1> DEFINE w == [attempt[p] EXCEPT !.stage = "create", !.deadline = now + Duration]
  <1>1. attempt[p] # Idle /\ attempt[p].stage = "predict"
    BY DEF Predict, At, Idle
  <1>2. attempt[p] \in Working /\ Knows(attempt[p]) /\ now + Duration \in Nat
    BY <1>1, FieldsOf, BoundsAssumption DEF RunnerInv, RunnerTypeOK
  <1>3. w \in Working /\ w.stage = "create" /\ w.part = attempt[p].part
    BY <1>2 DEF Working
  <1>4. Knows(w)
    BY <1>1, <1>2, <1>3 DEF Knows, Idle
  <1>5. UNCHANGED <<now, chain, txs>> /\ failures' \in 0..MaxFailures
    BY DEF Predict, RunnerInv, RunnerTypeOK
  <1>6. (attempt' = [attempt EXCEPT ![p] = w] /\ files' = files) \/ Failed(p)
    BY DEF Predict
  <1> HIDE DEF w
  <1>7. CASE attempt' = [attempt EXCEPT ![p] = w] /\ files' = files
    BY <1>3, <1>4, <1>5, <1>7, MovesKeep DEF Faithful
  <1>8. CASE Failed(p)
    BY <1>1, <1>5, <1>8, FailedKeeps
  <1> QED
    BY <1>6, <1>7, <1>8

LEMMA NewTransaction ==
    ASSUME RunnerInv, NEW tx \in Transactions, Send(tx)
    PROVE  /\ txs' \in Seq(Transactions) /\ Len(txs) + 1 \in Nat /\ Len(txs) + 1 \in DOMAIN txs'
           /\ txs'[Len(txs) + 1] = tx
  <1>1. txs \in Seq(Transactions)
    BY DEF RunnerInv, RunnerTypeOK
  <1> QED
    BY <1>1 DEF Send

\* The attempt broadcasts a transaction and goes on, or its answer is lost.
LEMMA SendKeeps ==
    ASSUME RunnerInv, NEW p \in Attempts, NEW tx \in Transactions, tx.status = "pending", Send(tx),
           NEW w \in {Idle} \cup Working, attempt' = [attempt EXCEPT ![p] = w], UNCHANGED <<now, chain>>,
           failures' \in 0..MaxFailures, Faithful, Knows(w)'
    PROVE  RunnerInv'
  <1>1. txs' \in Seq(Transactions)
    BY NewTransaction
  <1>2. RunnerTypeOK'
    BY <1>1 DEF RunnerInv, RunnerTypeOK, Faithful
  <1>3. \A f \in files' : f \in files \/ f.passed = FALSE
    BY DEF Faithful
  <1> QED
    BY <1>2, <1>3, WorkKeeps DEF Send

LEMMA CreateKeeps == ASSUME RunnerInv, NEW p \in Attempts, Create(p) PROVE RunnerInv'
  <1>1. attempt[p] # Idle /\ attempt[p].stage = "create"
    BY DEF Create, At, Idle
  <1>2. /\ attempt[p] \in Working /\ Part(p).contract \in Contracts /\ Knows(attempt[p])
        /\ attempt[p].deadline \in Nat
    BY <1>1, FieldsOf
  <1>3. PICK tx \in Transactions :
            tx = [kind |-> "create", contract |-> Part(p).contract, deadline |-> attempt[p].deadline,
                  status |-> "pending"]
    BY <1>2 DEF Transactions
  <1>4. Send(tx) /\ UNCHANGED <<now, chain, files, failures>>
    BY <1>3 DEF Create
  <1>5. Len(txs) + 1 \in Nat
    BY <1>4, NewTransaction
  <1>6. PICK w \in Working : /\ w = [attempt[p] EXCEPT !.stage = "creating", !.tx = Len(txs) + 1]
                             /\ w.stage = "creating" /\ w.part = attempt[p].part
    <2> DEFINE v == [attempt[p] EXCEPT !.stage = "creating", !.tx = Len(txs) + 1]
    <2>1. v \in Working /\ v.stage = "creating" /\ v.part = attempt[p].part
      BY <1>2, <1>5 DEF Working
    <2> QED
      BY <2>1
  <1>7. attempt' = [attempt EXCEPT ![p] = w]
    BY <1>6 DEF Create
  <1>8. w.part.signer = Operator
    BY <1>1, <1>2, <1>6 DEF Knows
  <1>9. Knows(w)'
    BY <1>6, <1>8 DEF Knows
  <1>10. failures' \in 0..MaxFailures /\ Faithful /\ tx.status = "pending"
    BY <1>3, <1>4 DEF Faithful, RunnerInv, RunnerTypeOK
  <1> QED
    BY <1>4, <1>6, <1>7, <1>9, <1>10, SendKeeps

LEMMA Restaged ==
    ASSUME NEW work \in Working, NEW next \in RunnerStages
    PROVE  LET w == [work EXCEPT !.stage = next] IN
           w \in Working /\ w.stage = next /\ w.part = work.part /\ w.tx = work.tx
  BY DEF Working, RunnerStages

LEMMA CreatingKeeps == ASSUME RunnerInv, NEW p \in Attempts, Creating(p) PROVE RunnerInv'
  <1>1. attempt[p] # Idle /\ attempt[p].stage = "creating"
    BY DEF Creating, At, Idle
  <1>2. /\ attempt[p] \in Working /\ Part(p) \in Parts /\ Knows(attempt[p]) /\ attempt[p].tx \in Nat
        /\ Part(p).signer = Operator
    BY <1>1, FieldsOf DEF Knows, Part
  <1>3. UNCHANGED <<now, chain, txs>> /\ failures' \in 0..MaxFailures
    BY DEF Creating, RunnerInv, RunnerTypeOK
  <1>4. CASE Failed(p)
    BY <1>1, <1>3, <1>4, FailedKeeps
  <1>5. CASE Keep(p, "created", [Part(p) EXCEPT !.creation = attempt[p].tx]) /\ files' = files
    <2>1. PICK part \in Parts : part = [Part(p) EXCEPT !.creation = attempt[p].tx] /\ part.signer = Operator
      <3>1. /\ [Part(p) EXCEPT !.creation = attempt[p].tx] \in Parts
            /\ [Part(p) EXCEPT !.creation = attempt[p].tx].signer = Operator
        BY <1>2 DEF Parts
      <3> QED
        BY <3>1
    <2> DEFINE w == [attempt[p] EXCEPT !.stage = "created", !.part = part]
    <2>2. w \in Working /\ w.stage = "created" /\ w.part = part
      BY <1>2 DEF Working
    <2>3. attempt' = [attempt EXCEPT ![p] = w] /\ Faithful
      BY <1>5, <2>1 DEF Keep, Faithful
    <2>4. Knows(w)
      BY <2>1, <2>2 DEF Knows
    <2> HIDE DEF w
    <2> QED
      BY <1>3, <2>2, <2>3, <2>4, MovesKeep
  <1> QED
    BY <1>4, <1>5 DEF Creating

\* The event of the creation names the first campaign.
LEMMA AcceptedIsFunded ==
    ASSUME RunnerInv, NEW part \in Parts, part.signer = Operator,
           CreationAccepted(part.contract, part.creation, part.signer)
    PROVE  Funded(part)
  <1>1. part.contract \in Contracts
    BY DEF Parts
  <1>2. chain[part.contract].campaigns \in Seq(Campaigns)
    BY <1>1, Chained DEF RunnerInv
  <1>3. 1 \in DOMAIN chain[part.contract].campaigns
    BY DEF CreationAccepted
  <1>4. chain[part.contract].campaigns # <<>>
    BY <1>2, <1>3, FirstOf
  <1> QED
    BY <1>4 DEF CreationAccepted, Funded

LEMMA CreationConfirmedKeeps == ASSUME RunnerInv, NEW p \in Attempts, CreationConfirmed(p) PROVE RunnerInv'
  <1>1. attempt[p] # Idle /\ attempt[p].stage = "created"
    BY DEF CreationConfirmed, At, Idle
  <1>2. /\ attempt[p] \in Working /\ Part(p) \in Parts /\ Knows(attempt[p]) /\ attempt[p].deadline \in Nat
        /\ Part(p).signer = Operator
    BY <1>1, FieldsOf DEF Knows, Part
  <1>3. UNCHANGED <<now, chain, txs>> /\ failures' \in 0..MaxFailures
    BY DEF CreationConfirmed, RunnerInv, RunnerTypeOK
  <1>4. CASE Failed(p)
    BY <1>1, <1>3, <1>4, FailedKeeps
  <1>5. CASE /\ CreationAccepted(Part(p).contract, Part(p).creation, Part(p).signer)
             /\ Keep(p, "simulate", [Part(p) EXCEPT !.deadline = attempt[p].deadline]) /\ files' = files
    <2>1. Funded(Part(p))
      BY <1>2, <1>5, AcceptedIsFunded
    <2> DEFINE part == [Part(p) EXCEPT !.deadline = attempt[p].deadline]
               w == [attempt[p] EXCEPT !.stage = "simulate", !.part = part]
    <2>2. /\ part \in Parts /\ part.signer = Operator /\ part.contract = Part(p).contract
          /\ part.creation = Part(p).creation
      BY <1>2 DEF Parts
    <2>3. Funded(part)
      BY <2>1, <2>2 DEF Funded
    <2> HIDE DEF part
    <2>4. w \in Working /\ w.stage = "simulate" /\ w.part = part
      BY <1>2, <2>2 DEF Working
    <2>5. attempt' = [attempt EXCEPT ![p] = w] /\ Faithful
      BY <1>5 DEF Keep, Faithful, part
    <2>6. Knows(w)
      BY <2>2, <2>3, <2>4 DEF Knows
    <2> HIDE DEF w
    <2> QED
      BY <1>3, <2>4, <2>5, <2>6, MovesKeep
  <1> QED
    BY <1>4, <1>5 DEF CreationConfirmed

LEMMA SimulateKeeps == ASSUME RunnerInv, NEW p \in Attempts, Simulate(p) PROVE RunnerInv'
  <1>1. attempt[p] # Idle /\ attempt[p].stage = "simulate"
    BY DEF Simulate, At, Idle
  <1>2. attempt[p] \in Working /\ Part(p).signer = Operator /\ Funded(Part(p))
    BY <1>1, FieldsOf DEF Knows, Part
  <1>3. Knows([attempt[p] EXCEPT !.stage = "release"])
    BY <1>2 DEF Knows, Working, Part
  <1>4. "release" \in RunnerStages
    BY DEF RunnerStages
  <1> QED
    BY <1>1, <1>3, <1>4, DecideKeeps DEF Simulate, Releasable

LEMMA ReleaseKeeps == ASSUME RunnerInv, NEW p \in Attempts, Release(p) PROVE RunnerInv'
  <1>1. attempt[p] # Idle /\ attempt[p].stage = "release"
    BY DEF Release, At, Idle
  <1>2. /\ attempt[p] \in Working /\ Part(p) \in Parts /\ Part(p).contract \in Contracts
        /\ Part(p).signer = Operator /\ Funded(Part(p))
    BY <1>1, FieldsOf DEF Knows, Part
  <1>3. PICK tx \in Transactions :
            tx = [kind |-> "release", contract |-> Part(p).contract, deadline |-> None, status |-> "pending"]
    BY <1>2 DEF Transactions, None
  <1>4. Send(tx) /\ UNCHANGED <<now, chain, files, failures>>
    BY <1>3 DEF Release
  <1>5. PICK n \in Nat : n = Len(txs) + 1 /\ n \in DOMAIN txs' /\ txs'[n] = tx
    BY <1>4, NewTransaction
  <1>6. PICK part \in Parts :
            /\ part = [Part(p) EXCEPT !.release = n]
            /\ part.release = n /\ part.signer = Operator /\ part.contract = Part(p).contract
            /\ part.creation = Part(p).creation
    <2> DEFINE v == [Part(p) EXCEPT !.release = n]
    <2>1. /\ v \in Parts /\ v.release = n /\ v.signer = Operator /\ v.contract = Part(p).contract
          /\ v.creation = Part(p).creation
      BY <1>2 DEF Parts
    <2> QED
      BY <2>1
  <1>7. PICK w \in Working : /\ w = [attempt[p] EXCEPT !.stage = "releasing", !.tx = n, !.part = part]
                             /\ w.stage = "releasing" /\ w.tx = n /\ w.part = part
    <2> DEFINE v == [attempt[p] EXCEPT !.stage = "releasing", !.tx = n, !.part = part]
    <2>1. v \in Working /\ v.stage = "releasing" /\ v.tx = n /\ v.part = part
      BY <1>2 DEF Working
    <2> QED
      BY <2>1
  <1>8. attempt' = [attempt EXCEPT ![p] = w]
    BY <1>2, <1>5, <1>6, <1>7 DEF Release, Part
  <1>9. Funded(part)'
    BY <1>2, <1>4, <1>6 DEF Funded
  <1>10. txs'[n].kind = "release" /\ txs'[n].contract = part.contract
    BY <1>3, <1>5, <1>6
  <1>11. Knows(w)'
    BY <1>5, <1>6, <1>7, <1>9, <1>10 DEF Knows
  <1>12. failures' \in 0..MaxFailures /\ Faithful /\ tx.status = "pending"
    BY <1>3, <1>4 DEF Faithful, RunnerInv, RunnerTypeOK
  <1> QED
    BY <1>4, <1>7, <1>8, <1>11, <1>12, SendKeeps

\* The event of a release that landed is the contract's first claim.
LEMMA AcceptedIsPaid ==
    ASSUME RunnerInv, NEW part \in Parts, part.signer = Operator, NEW i,
           i \in DOMAIN chain[part.contract].claims, ReleaseAccepted(part.contract, i, part.signer),
           chain[part.contract].claims[i].tx = part.release
    PROVE  PaidOut(part)
  <1>1. part.contract \in Contracts
    BY DEF Parts
  <1>2. chain[part.contract].claims \in Seq(Claims)
    BY <1>1, Chained DEF RunnerInv
  <1>3. i = 1
    BY DEF ReleaseAccepted
  <1>4. chain[part.contract].claims # <<>>
    BY <1>2, <1>3, FirstOf
  <1> QED
    BY <1>3, <1>4 DEF ReleaseAccepted, PaidOut

LEMMA ReleasingKeeps == ASSUME RunnerInv, NEW p \in Attempts, Releasing(p) PROVE RunnerInv'
  <1> DEFINE c == Part(p).contract
             tx == attempt[p].tx
             holds == txs[tx].status = "ok" /\ ReleaseAccepted(c, ClaimOf(c, tx), Part(p).signer)
  <1>1. attempt[p] # Idle /\ attempt[p].stage = "releasing"
    BY DEF Releasing, At, Idle
  <1>2. /\ attempt[p] \in Working /\ Part(p) \in Parts /\ Part(p).contract \in Contracts /\ Knows(attempt[p])
    BY <1>1, FieldsOf
  <1>3. Part(p).signer = Operator /\ Funded(Part(p))
    BY <1>1, <1>2 DEF Knows, Part
  <1>4. tx \in DOMAIN txs /\ txs[tx].kind = "release" /\ txs[tx].contract = c /\ Part(p).release = tx
    BY <1>1, <1>2 DEF Knows, Part
  <1>5. ASSUME holds PROVE PaidOut(Part(p))
    <2>1. \E j \in DOMAIN chain[c].claims : chain[c].claims[j].tx = tx
      BY <1>4, <1>5 DEF RunnerInv, LandedClaims
    <2>2. ClaimOf(c, tx) \in DOMAIN chain[c].claims /\ chain[c].claims[ClaimOf(c, tx)].tx = tx
      BY <2>1 DEF ClaimOf
    <2>3. ReleaseAccepted(c, ClaimOf(c, tx), Part(p).signer)
      BY <1>5
    <2> QED
      BY <1>2, <1>3, <1>4, <2>2, <2>3, AcceptedIsPaid
  <1>6. Decide(p, holds, "settle")
    BY DEF Releasing
  <1>7. "settle" \in RunnerStages
    BY DEF RunnerStages
  <1> DEFINE w == [attempt[p] EXCEPT !.stage = "settle"]
  <1>8. w.stage = "settle" /\ w.part = Part(p)
    BY <1>2, <1>7, Restaged DEF Part
  <1>9. holds => Knows(w)
    BY <1>3, <1>5, <1>8 DEF Knows
  <1>10. holds \in BOOLEAN
    BY DEF ReleaseAccepted
  <1> HIDE DEF holds
  <1> QED
    BY <1>1, <1>6, <1>7, <1>9, <1>10, DecideKeeps

LEMMA SettleReleaseKeeps == ASSUME RunnerInv, NEW p \in Attempts, SettleRelease(p) PROVE RunnerInv'
  <1> DEFINE holds == /\ Owned(Part(p).contract, Part(p).signer, Part(p).deadline)
                      /\ ExactRelease(Part(p).contract)
             w == [attempt[p] EXCEPT !.stage = "replay"]
  <1>1. attempt[p] # Idle /\ attempt[p].stage = "settle"
    BY DEF SettleRelease, At, Idle
  <1>2. attempt[p] \in Working /\ Part(p).signer = Operator /\ Funded(Part(p)) /\ PaidOut(Part(p))
    BY <1>1, FieldsOf DEF Knows, Part
  <1>3. "replay" \in RunnerStages
    BY DEF RunnerStages
  <1>4. w.stage = "replay" /\ w.part = Part(p)
    BY <1>2, <1>3, Restaged DEF Part
  <1>5. Knows(w)
    BY <1>2, <1>4 DEF Knows
  <1>6. holds \in BOOLEAN
    BY DEF Owned, ExactRelease
  <1>7. Decide(p, holds, "replay")
    BY DEF SettleRelease
  <1> HIDE DEF holds
  <1> QED
    BY <1>1, <1>3, <1>5, <1>6, <1>7, DecideKeeps

\* Evidence that passed names what the chain shows.
LEMMA PassesKeep ==
    ASSUME RunnerInv, NEW p \in Attempts, NEW part \in Parts, Passes(p, part), Funded(part), PaidOut(part),
           UNCHANGED <<now, chain, txs, failures>>
    PROVE  RunnerInv'
  <1>1. PICK f \in [passed : BOOLEAN, part : Parts] : f = [passed |-> TRUE, part |-> part] /\ f.part = part
    <2> DEFINE g == [passed |-> TRUE, part |-> part]
    <2>1. g \in [passed : BOOLEAN, part : Parts] /\ g.part = part
      OBVIOUS
    <2> QED
      BY <2>1
  <1>2. attempt' = [attempt EXCEPT ![p] = Idle] /\ files' = files \cup {f}
    BY <1>1 DEF Passes, Ends
  <1>3. RunnerTypeOK'
    BY <1>2 DEF RunnerInv, RunnerTypeOK
  <1>4. Knows(Idle)'
    BY DEF Knows, Idle
  <1>5. \A g \in files' : g \in files \/ g.passed = FALSE \/ (Funded(g.part) /\ PaidOut(g.part))
    BY <1>1, <1>2
  <1> QED
    BY <1>2, <1>3, <1>4, <1>5, WorkKeeps

LEMMA ReplayKeeps == ASSUME RunnerInv, NEW p \in Attempts, Replay(p) PROVE RunnerInv'
  <1>1. attempt[p] # Idle /\ attempt[p].stage = "replay"
    BY DEF Replay, At, Idle
  <1>2. Part(p) \in Parts /\ Funded(Part(p)) /\ PaidOut(Part(p))
    BY <1>1, FieldsOf DEF Knows, Part
  <1>3. UNCHANGED <<now, chain, txs, failures>> /\ failures' \in 0..MaxFailures
    BY DEF Replay, RunnerInv, RunnerTypeOK
  <1>4. CASE Passes(p, Part(p))
    BY <1>2, <1>3, <1>4, PassesKeep
  <1>5. CASE Failed(p)
    BY <1>1, <1>3, <1>5, FailedKeeps
  <1> QED
    BY <1>4, <1>5 DEF Replay

\* Any key starts from the file, or writes one of its own.
LEMMA ResumeKeeps ==
    ASSUME RunnerInv, NEW p \in Attempts, NEW f \in files, NEW signer \in {Operator, Outsider},
           Resume(p, f, signer), failures' \in 0..MaxFailures
    PROVE  RunnerInv'
  <1>1. UNCHANGED <<now, chain, txs>> /\ f.part \in Parts
    BY DEF Resume, RunnerInv, RunnerTypeOK
  <1>2. PICK part \in Parts : part = [f.part EXCEPT !.signer = signer, !.release = None]
    <2>1. [f.part EXCEPT !.signer = signer, !.release = None] \in Parts
      BY <1>1 DEF Parts, None
    <2> QED
      BY <2>1
  <1>3. CASE signer = f.part.signer
    <2> DEFINE w == [stage |-> "verify", part |-> part, tx |-> None, deadline |-> None]
    <2>1. w \in Working /\ w.stage = "verify"
      BY DEF Working, None
    <2>2. Knows(w)
      BY <2>1 DEF Knows
    <2>3. attempt' = [attempt EXCEPT ![p] = w] /\ files' = files
      BY <1>2, <1>3 DEF Resume
    <2>4. Faithful
      BY <2>3 DEF Faithful
    <2> HIDE DEF w
    <2> QED
      BY <1>1, <2>1, <2>2, <2>3, <2>4, MovesKeep
  <1>4. CASE signer # f.part.signer
    <2>1. attempt' = attempt /\ files' = files \cup {[passed |-> FALSE, part |-> part]}
      BY <1>2, <1>4 DEF Resume
    <2>2. [passed |-> FALSE, part |-> part] \in [passed : BOOLEAN, part : Parts]
      OBVIOUS
    <2>3. Faithful
      BY <2>1, <2>2 DEF Faithful
    <2>4. attempt' = [attempt EXCEPT ![p] = attempt[p]]
      BY <2>1 DEF RunnerInv, RunnerTypeOK
    <2>5. attempt[p] \in {Idle} \cup Working /\ Knows(attempt[p])
      BY DEF RunnerInv, RunnerTypeOK
    <2> QED
      BY <1>1, <2>3, <2>4, <2>5, MovesKeep
  <1> QED
    BY <1>3, <1>4

LEMMA VerifyKeeps == ASSUME RunnerInv, NEW p \in Attempts, Verify(p) PROVE RunnerInv'
  <1> DEFINE holds == /\ DeploymentsVerified(Part(p)) /\ Bound(Part(p)) /\ CreationVerified(Part(p))
                      /\ Len(chain[Part(p).contract].campaigns) = 1
             w == [attempt[p] EXCEPT !.stage = "classify"]
  <1>1. attempt[p] # Idle /\ attempt[p].stage = "verify"
    BY DEF Verify, At, Idle
  <1>2. attempt[p] \in Working /\ Part(p) \in Parts
    BY <1>1, FieldsOf
  <1>3. holds => Part(p).signer = Operator /\ Funded(Part(p))
    BY <1>2, AcceptedIsFunded DEF DeploymentsVerified, CreationVerified
  <1>4. "classify" \in RunnerStages
    BY DEF RunnerStages
  <1>5. w.stage = "classify" /\ w.part = Part(p)
    BY <1>2, <1>4, Restaged DEF Part
  <1>6. holds => Knows(w)
    BY <1>3, <1>5 DEF Knows
  <1>7. holds \in BOOLEAN
    BY DEF DeploymentsVerified, Bound, CreationVerified
  <1>8. Decide(p, holds, "classify")
    BY DEF Verify
  <1> HIDE DEF holds
  <1> QED
    BY <1>1, <1>4, <1>6, <1>7, <1>8, DecideKeeps

\* From one of these stages to another the attempt knows the same.
LEMMA FundedGoesOn ==
    ASSUME RunnerInv, NEW p \in Attempts, NEW stage \in {"classify", "open"}, At(p, stage),
           NEW next \in {"open", "reconcile", "simulate"}, NEW holds \in BOOLEAN, Decide(p, holds, next)
    PROVE  RunnerInv'
  <1> DEFINE w == [attempt[p] EXCEPT !.stage = next]
  <1>1. attempt[p] # Idle /\ attempt[p].stage \in {"classify", "open"}
    BY DEF At, Idle
  <1>2. attempt[p] \in Working /\ Part(p).signer = Operator /\ Funded(Part(p))
    BY <1>1, FieldsOf DEF Knows, Part
  <1>3. next \in RunnerStages
    BY DEF RunnerStages
  <1>4. w.stage = next /\ w.part = Part(p)
    BY <1>2, <1>3, Restaged DEF Part
  <1>5. Knows(w)
    BY <1>2, <1>4 DEF Knows
  <1> QED
    BY <1>1, <1>3, <1>5, DecideKeeps

LEMMA ClassifyKeeps == ASSUME RunnerInv, NEW p \in Attempts, Classify(p) PROVE RunnerInv'
  <1> DEFINE c == Part(p).contract
             holds == Owned(c, Part(p).signer, Part(p).deadline) /\ (Untouched(c) \/ ExactRelease(c))
             next == IF Untouched(c) THEN "open" ELSE "reconcile"
  <1>1. holds \in BOOLEAN
    BY DEF Owned, ExactRelease, Untouched
  <1>2. next \in {"open", "reconcile", "simulate"}
    OBVIOUS
  <1>3. Decide(p, holds, next) /\ At(p, "classify")
    BY DEF Classify
  <1> HIDE DEF holds, next
  <1> QED
    BY <1>1, <1>2, <1>3, FundedGoesOn

LEMMA StillOpenKeeps == ASSUME RunnerInv, NEW p \in Attempts, StillOpen(p) PROVE RunnerInv'
  <1> DEFINE holds == now <= Part(p).deadline
  <1>1. holds \in BOOLEAN
    OBVIOUS
  <1>2. At(p, "open") /\ Decide(p, holds, "simulate")
    BY DEF StillOpen
  <1> HIDE DEF holds
  <1> QED
    BY <1>1, <1>2, FundedGoesOn

LEMMA ReconcileKeeps == ASSUME RunnerInv, NEW p \in Attempts, Reconcile(p) PROVE RunnerInv'
  <1> DEFINE c == Part(p).contract
  <1>1. attempt[p] # Idle /\ attempt[p].stage = "reconcile"
    BY DEF Reconcile, At, Idle
  <1>2. Part(p) \in Parts /\ Part(p).signer = Operator /\ Funded(Part(p)) /\ c \in Contracts
    BY <1>1, FieldsOf DEF Knows, Part
  <1>3. UNCHANGED <<now, chain, txs, failures>> /\ failures' \in 0..MaxFailures
    BY DEF Reconcile, RunnerInv, RunnerTypeOK
  <1>4. ASSUME NEW i \in DOMAIN chain[c].claims, ReleaseAccepted(c, i, Part(p).signer),
               Passes(p, [Part(p) EXCEPT !.release = chain[c].claims[i].tx])
        PROVE  RunnerInv'
    <2> DEFINE part == [Part(p) EXCEPT !.release = chain[c].claims[i].tx]
    <2>1. chain[c].claims[i] \in Claims
      BY <1>2, Chained DEF RunnerInv
    <2>2. chain[c].claims[i].tx \in Nat
      BY <2>1 DEF Claims
    <2>3. /\ part \in Parts /\ part.contract = c /\ part.signer = Operator /\ part.creation = Part(p).creation
          /\ part.release = chain[c].claims[i].tx
      BY <1>2, <2>2 DEF Parts
    <2> HIDE DEF part
    <2>4. Funded(part)
      BY <1>2, <2>3 DEF Funded
    <2>5. PaidOut(part)
      BY <1>2, <1>4, <2>3, AcceptedIsPaid
    <2> QED
      BY <1>3, <1>4, <2>3, <2>4, <2>5, PassesKeep DEF part
  <1>5. CASE Failed(p)
    BY <1>1, <1>3, <1>5, FailedKeeps
  <1> QED
    BY <1>4, <1>5 DEF Reconcile

LEMMA LoseAnswerKeeps == ASSUME RunnerInv, NEW p \in Attempts, LoseAnswer(p) PROVE RunnerInv'
  <1>1. attempt[p] # Idle /\ Failed(p) /\ UNCHANGED <<now, chain>> /\ failures' \in 0..MaxFailures
    <2>1. failures \in 0..MaxFailures
      BY DEF RunnerInv, RunnerTypeOK
    <2>2. Trouble => failures' \in 0..MaxFailures
      BY <2>1, BoundsAssumption DEF Trouble
    <2> QED
      BY <2>2 DEF LoseAnswer, Hit
  <1>2. Part(p).contract \in Contracts /\ attempt[p].deadline \in Nat
    BY <1>1, FieldsOf
  <1>3. PICK tx \in Transactions : tx.status = "pending" /\ Send(tx)
    <2>1. /\ [kind |-> "create", contract |-> Part(p).contract, deadline |-> attempt[p].deadline,
              status |-> "pending"] \in Transactions
          /\ [kind |-> "release", contract |-> Part(p).contract, deadline |-> None, status |-> "pending"]
                 \in Transactions
      BY <1>2 DEF Transactions, None
    <2> QED
      BY <2>1 DEF LoseAnswer
  <1>4. attempt' = [attempt EXCEPT ![p] = Idle] /\ Faithful
    BY <1>1, FailedFile DEF Ends
  <1>5. Knows(Idle)'
    BY DEF Knows, Idle
  <1> QED
    BY <1>1, <1>3, <1>4, <1>5, SendKeeps

LEMMA TroubleKeeps == ASSUME RunnerInv, NEW p \in Attempts, CallFails(p) \/ Crash(p) PROVE RunnerInv'
  <1>1. attempt[p] # Idle /\ UNCHANGED <<now, chain, txs>> /\ failures' \in 0..MaxFailures
    <2>1. failures \in 0..MaxFailures
      BY DEF RunnerInv, RunnerTypeOK
    <2>2. Trouble => failures' \in 0..MaxFailures
      BY <2>1, BoundsAssumption DEF Trouble
    <2> QED
      BY <2>2 DEF CallFails, Crash, Hit
  <1>2. CASE CallFails(p)
    BY <1>1, <1>2, FailedKeeps DEF CallFails
  <1>3. CASE Crash(p)
    BY <1>1, <1>3, WorkEnds DEF Crash, Faithful
  <1> QED
    BY <1>2, <1>3

-----------------------------------------------------------------------------
(* Steps of the chain *)

\* A campaign or a claim is added, or a transaction gets its status.
LEMMA ChainKeeps ==
    ASSUME RunnerInv, RunnerTypeOK', Grown, UNCHANGED <<attempt, files>>,
           ClaimsTrue', LandedClaims', ClaimedOnce'
    PROVE  RunnerInv'
  <1>1. \A q \in Attempts : Knows(attempt[q])'
    <2> SUFFICES ASSUME NEW q \in Attempts PROVE Knows(attempt[q])'
      OBVIOUS
    <2>1. attempt'[q] = attempt[q] /\ attempt[q] \in {Idle} \cup Working /\ Knows(attempt[q])
      BY DEF RunnerInv, RunnerTypeOK
    <2>2. \A v \in {Idle} \cup Working : Knows(v) => Knows(v)'
      BY KnowledgeStays DEF RunnerInv
    <2> QED
      BY <2>1, <2>2
  <1>2. PassedTrue'
    <2> SUFFICES ASSUME NEW f \in files', f.passed PROVE Funded(f.part)' /\ PaidOut(f.part)'
      BY DEF PassedTrue
    <2>1. Funded(f.part) /\ PaidOut(f.part) /\ f.part \in Parts
      BY DEF RunnerInv, PassedTrue, RunnerTypeOK
    <2> QED
      BY <2>1, EvidenceStays DEF RunnerInv
  <1> QED
    BY <1>1, <1>2 DEF RunnerInv

\* Of the chain only campaigns, deployment and recovery moved.
LEMMA QuietChainKeeps ==
    ASSUME RunnerInv, RunnerTypeOK', UNCHANGED <<attempt, files, txs>>,
           \A c \in Contracts : chain'[c].claims = chain[c].claims,
           \A c \in Contracts : \A i \in DOMAIN chain[c].campaigns :
               i \in DOMAIN chain'[c].campaigns /\ chain'[c].campaigns[i] = chain[c].campaigns[i]
    PROVE  RunnerInv'
  <1>1. Grown
    BY DEF Grown
  <1>2. ClaimsTrue' /\ ClaimedOnce'
    BY DEF RunnerInv, ClaimsTrue, ClaimedOnce
  <1>3. LandedClaims'
    <2> SUFFICES ASSUME NEW i \in DOMAIN txs, txs[i].kind = "release", txs[i].status = "ok"
                 PROVE  \E j \in DOMAIN chain'[txs[i].contract].claims : chain'[txs[i].contract].claims[j].tx = i
      BY DEF LandedClaims
    <2>1. txs[i] \in Transactions
      BY DEF RunnerInv, RunnerTypeOK
    <2>2. txs[i].contract \in Contracts
      BY <2>1 DEF Transactions
    <2> QED
      BY <2>2 DEF RunnerInv, LandedClaims
  <1> QED
    BY <1>1, <1>2, <1>3, ChainKeeps

Worlds == [deployed : 0..Deployments, campaigns : Seq(Campaigns), claims : Seq(Claims), recovered : BOOLEAN]

LEMMA WorldOf == RunnerInv => chain \in [Contracts -> Worlds]
  BY DEF RunnerInv, RunnerTypeOK, Worlds

\* One more campaign.
LEMMA CampaignAdded ==
    ASSUME RunnerInv, NEW c \in Contracts, NEW campaign \in Campaigns, chain' = Created(c, campaign)
    PROVE  /\ chain' \in [Contracts -> Worlds]
           /\ \A d \in Contracts : chain'[d].claims = chain[d].claims
           /\ \A d \in Contracts : \A i \in DOMAIN chain[d].campaigns :
                  i \in DOMAIN chain'[d].campaigns /\ chain'[d].campaigns[i] = chain[d].campaigns[i]
  <1>1. chain[c] \in Worlds /\ chain[c].campaigns \in Seq(Campaigns)
    BY WorldOf DEF Worlds
  <1>2. PICK world \in Worlds : /\ world = [chain[c] EXCEPT !.campaigns = Append(chain[c].campaigns, campaign)]
                                /\ world.claims = chain[c].claims
                                /\ world.campaigns = Append(chain[c].campaigns, campaign)
    <2> DEFINE v == [chain[c] EXCEPT !.campaigns = Append(chain[c].campaigns, campaign)]
    <2>1. Append(chain[c].campaigns, campaign) \in Seq(Campaigns)
      BY <1>1
    <2>2. /\ v \in Worlds /\ v.claims = chain[c].claims
          /\ v.campaigns = Append(chain[c].campaigns, campaign)
      BY <1>1, <2>1 DEF Worlds
    <2> QED
      BY <2>2
  <1>3. chain' = [chain EXCEPT ![c] = world]
    BY <1>2 DEF Created
  <1>4. \A i \in DOMAIN chain[c].campaigns :
            i \in DOMAIN world.campaigns /\ world.campaigns[i] = chain[c].campaigns[i]
    BY <1>1, <1>2
  <1> QED
    BY <1>2, <1>3, <1>4, WorldOf

\* One more claim, of a wallet that has none.
LEMMA ClaimAdded ==
    ASSUME RunnerInv, NEW c \in Contracts, NEW claim \in Claims, chain' = Released(c, claim),
           claim.wallet \notin Claimed(c)
    PROVE  /\ chain' \in [Contracts -> Worlds] /\ ClaimedOnce'
           /\ \A d \in Contracts : chain'[d].campaigns = chain[d].campaigns
           /\ \A d \in Contracts : \A i \in DOMAIN chain[d].claims :
                  i \in DOMAIN chain'[d].claims /\ chain'[d].claims[i] = chain[d].claims[i]
           /\ \A d \in Contracts : \A i \in DOMAIN chain'[d].claims :
                  i \in DOMAIN chain[d].claims \/ (d = c /\ chain'[d].claims[i] = claim)
           /\ \E i \in DOMAIN chain'[c].claims : chain'[c].claims[i] = claim
  <1>1. chain[c] \in Worlds /\ chain[c].claims \in Seq(Claims)
    BY WorldOf DEF Worlds
  <1>2. PICK world \in Worlds : /\ world = [chain[c] EXCEPT !.claims = Append(chain[c].claims, claim)]
                                /\ world.campaigns = chain[c].campaigns
                                /\ world.claims = Append(chain[c].claims, claim)
    <2> DEFINE v == [chain[c] EXCEPT !.claims = Append(chain[c].claims, claim)]
    <2>1. Append(chain[c].claims, claim) \in Seq(Claims)
      BY <1>1
    <2>2. /\ v \in Worlds /\ v.campaigns = chain[c].campaigns
          /\ v.claims = Append(chain[c].claims, claim)
      BY <1>1, <2>1 DEF Worlds
    <2> QED
      BY <2>2
  <1>3. chain' = [chain EXCEPT ![c] = world]
    BY <1>2 DEF Released
  <1>4. /\ \A i \in DOMAIN chain[c].claims :
               i \in DOMAIN world.claims /\ world.claims[i] = chain[c].claims[i]
        /\ \A i \in DOMAIN world.claims : i \in DOMAIN chain[c].claims \/ world.claims[i] = claim
        /\ \E i \in DOMAIN world.claims : world.claims[i] = claim
        /\ \A i \in DOMAIN world.claims : i \notin DOMAIN chain[c].claims => i = Len(chain[c].claims) + 1
    BY <1>1, <1>2
  <1>5. chain' \in [Contracts -> Worlds] /\ chain'[c] = world /\ \A d \in Contracts \ {c} : chain'[d] = chain[d]
    BY <1>2, <1>3, WorldOf
  <1>6. ClaimedOnce'
    <2> SUFFICES ASSUME NEW d \in Contracts, NEW i \in DOMAIN chain'[d].claims, NEW j \in DOMAIN chain'[d].claims,
                        chain'[d].claims[i].wallet = chain'[d].claims[j].wallet
                 PROVE  i = j
      BY DEF ClaimedOnce
    <2>1. CASE d # c
      BY <1>5, <2>1 DEF RunnerInv, ClaimedOnce
    <2>2. CASE d = c
      <3>1. i \in DOMAIN world.claims /\ j \in DOMAIN world.claims /\ world.claims[i].wallet = world.claims[j].wallet
        BY <1>5, <2>2
      <3>2. \A k \in DOMAIN chain[c].claims : chain[c].claims[k].wallet # claim.wallet
        BY DEF Claimed
      <3>3. CASE i \in DOMAIN chain[c].claims /\ j \in DOMAIN chain[c].claims
        BY <1>4, <3>1, <3>3 DEF RunnerInv, ClaimedOnce
      <3>4. CASE i \notin DOMAIN chain[c].claims /\ j \notin DOMAIN chain[c].claims
        BY <1>4, <3>1, <3>4
      <3>5. CASE i \notin DOMAIN chain[c].claims /\ j \in DOMAIN chain[c].claims
        BY <1>4, <3>1, <3>2, <3>5
      <3>6. CASE i \in DOMAIN chain[c].claims /\ j \notin DOMAIN chain[c].claims
        BY <1>4, <3>1, <3>2, <3>6
      <3> QED
        BY <3>3, <3>4, <3>5, <3>6
    <2> QED
      BY <2>1, <2>2
  <1> QED
    BY <1>2, <1>4, <1>5, <1>6

LEMMA QuietStepsKeep ==
    ASSUME RunnerInv, Tick \/ \E c \in Contracts : ForeignCampaign(c) \/ RecoverRemainder(c)
    PROVE  RunnerInv'
  <1>1. CASE Tick
    <2>1. RunnerTypeOK'
      BY <1>1, BoundsAssumption DEF Tick, RunnerInv, RunnerTypeOK
    <2> QED
      BY <1>1, <2>1, QuietChainKeeps DEF Tick
  <1>2. ASSUME NEW c \in Contracts, ForeignCampaign(c) PROVE RunnerInv'
    <2>1. now + Duration \in Nat
      BY BoundsAssumption DEF RunnerInv, RunnerTypeOK
    <2>2. PICK campaign \in Campaigns : campaign = [sponsor |-> Foreigner, deadline |-> now + Duration, tx |-> None]
      BY <2>1 DEF Campaigns, None
    <2>3. chain' = Created(c, campaign) /\ UNCHANGED <<now, txs, attempt, files, failures>>
      BY <1>2, <2>2 DEF ForeignCampaign
    <2>4. /\ chain' \in [Contracts -> Worlds]
          /\ \A d \in Contracts : chain'[d].claims = chain[d].claims
          /\ \A d \in Contracts : \A i \in DOMAIN chain[d].campaigns :
                 i \in DOMAIN chain'[d].campaigns /\ chain'[d].campaigns[i] = chain[d].campaigns[i]
      BY <2>3, CampaignAdded
    <2>5. RunnerTypeOK'
      BY <2>3, <2>4 DEF RunnerInv, RunnerTypeOK, Worlds
    <2> QED
      BY <2>3, <2>4, <2>5, QuietChainKeeps
  <1>3. ASSUME NEW c \in Contracts, RecoverRemainder(c) PROVE RunnerInv'
    <2>1. chain[c] \in Worlds
      BY WorldOf
    <2>2. PICK world \in Worlds : /\ world = [chain[c] EXCEPT !.recovered = TRUE]
                                  /\ world.claims = chain[c].claims /\ world.campaigns = chain[c].campaigns
      <3> DEFINE v == [chain[c] EXCEPT !.recovered = TRUE]
      <3>1. v \in Worlds /\ v.claims = chain[c].claims /\ v.campaigns = chain[c].campaigns
        BY <2>1 DEF Worlds
      <3> QED
        BY <3>1
    <2>3. chain' = [chain EXCEPT ![c] = world] /\ UNCHANGED <<now, txs, attempt, files, failures>>
      BY <1>3, <2>2 DEF RecoverRemainder
    <2>4. /\ chain' \in [Contracts -> Worlds]
          /\ \A d \in Contracts : chain'[d].claims = chain[d].claims /\ chain'[d].campaigns = chain[d].campaigns
      BY <2>2, <2>3, WorldOf
    <2>5. RunnerTypeOK'
      BY <2>3, <2>4 DEF RunnerInv, RunnerTypeOK, Worlds
    <2> QED
      BY <2>3, <2>4, <2>5, QuietChainKeeps
  <1> QED
    BY <1>1, <1>2, <1>3

\* Nobody but the operator is taken for the operator.
LEMMA ForeignClaimKeeps ==
    ASSUME RunnerInv, NEW c \in Contracts, NEW wallet \in {Beneficiary, Stranger}, ForeignClaim(c, wallet)
    PROVE  RunnerInv'
  <1>1. PICK claim \in Claims : /\ claim = [wallet |-> wallet, relayer |-> Foreigner, tx |-> None, exact |-> TRUE]
                                /\ claim.wallet = wallet /\ claim.relayer = Foreigner
    <2> DEFINE v == [wallet |-> wallet, relayer |-> Foreigner, tx |-> None, exact |-> TRUE]
    <2>1. v \in Claims /\ v.wallet = wallet /\ v.relayer = Foreigner
      BY DEF Claims, None
    <2> QED
      BY <2>1
  <1>2. /\ chain' = Released(c, claim) /\ claim.wallet \notin Claimed(c)
        /\ UNCHANGED <<now, txs, attempt, files, failures>>
    BY <1>1 DEF ForeignClaim, Releasable
  <1>3. /\ chain' \in [Contracts -> Worlds] /\ ClaimedOnce'
        /\ \A d \in Contracts : chain'[d].campaigns = chain[d].campaigns
        /\ \A d \in Contracts : \A i \in DOMAIN chain[d].claims :
               i \in DOMAIN chain'[d].claims /\ chain'[d].claims[i] = chain[d].claims[i]
        /\ \A d \in Contracts : \A i \in DOMAIN chain'[d].claims :
               i \in DOMAIN chain[d].claims \/ (d = c /\ chain'[d].claims[i] = claim)
    BY <1>2, ClaimAdded
  <1>4. RunnerTypeOK'
    BY <1>2, <1>3 DEF RunnerInv, RunnerTypeOK, Worlds
  <1>5. Grown
    BY <1>2, <1>3 DEF Grown
  <1>6. ClaimsTrue'
    <2> SUFFICES ASSUME NEW d \in Contracts, NEW i \in DOMAIN chain'[d].claims, chain'[d].claims[i].relayer = Operator
                 PROVE  LET claim1 == chain'[d].claims[i] IN
                        claim1.tx \in DOMAIN txs /\ txs[claim1.tx].kind = "release" /\ txs[claim1.tx].status = "ok"
      BY <1>2 DEF ClaimsTrue
    <2>1. i \in DOMAIN chain[d].claims /\ chain'[d].claims[i] = chain[d].claims[i]
      BY <1>1, <1>3, KeysAssumption
    <2> QED
      BY <2>1 DEF RunnerInv, ClaimsTrue
  <1>7. LandedClaims'
    <2> SUFFICES ASSUME NEW i \in DOMAIN txs, txs[i].kind = "release", txs[i].status = "ok"
                 PROVE  \E j \in DOMAIN chain'[txs[i].contract].claims : chain'[txs[i].contract].claims[j].tx = i
      BY <1>2 DEF LandedClaims
    <2>1. txs[i] \in Transactions
      BY DEF RunnerInv, RunnerTypeOK
    <2>2. txs[i].contract \in Contracts
      BY <2>1 DEF Transactions
    <2>3. PICK j \in DOMAIN chain[txs[i].contract].claims : chain[txs[i].contract].claims[j].tx = i
      BY DEF RunnerInv, LandedClaims
    <2> QED
      BY <1>3, <2>2, <2>3
  <1> QED
    BY <1>2, <1>3, <1>4, <1>5, <1>6, <1>7, ChainKeeps

\* A transaction gets its status, once.
LEMMA StatusGiven ==
    ASSUME RunnerInv, NEW i \in DOMAIN txs, NEW status \in {"ok", "reverted"},
           txs' = [txs EXCEPT ![i].status = status]
    PROVE  /\ txs' \in Seq(Transactions) /\ DOMAIN txs' = DOMAIN txs /\ txs[i] \in Transactions
           /\ \A j \in DOMAIN txs : /\ txs'[j].kind = txs[j].kind /\ txs'[j].contract = txs[j].contract
                                    /\ j # i => txs'[j] = txs[j]
           /\ txs'[i].status = status
  <1>1. txs \in Seq(Transactions) /\ txs[i] \in Transactions
    BY DEF RunnerInv, RunnerTypeOK
  <1>2. PICK tx \in Transactions : /\ tx = [txs[i] EXCEPT !.status = status]
                                   /\ tx.kind = txs[i].kind /\ tx.contract = txs[i].contract /\ tx.status = status
    <2> DEFINE v == [txs[i] EXCEPT !.status = status]
    <2>1. v \in Transactions /\ v.kind = txs[i].kind /\ v.contract = txs[i].contract /\ v.status = status
      BY <1>1 DEF Transactions
    <2> QED
      BY <2>1
  <1>3. txs' = [txs EXCEPT ![i] = tx]
    BY <1>2
  <1>4. txs' \in Seq(Transactions) /\ DOMAIN txs' = DOMAIN txs
    BY <1>1, <1>3
  <1>5. txs'[i] = tx /\ \A j \in DOMAIN txs : j # i => txs'[j] = txs[j]
    BY <1>1, <1>3
  <1> QED
    BY <1>1, <1>2, <1>4, <1>5

LEMMA LandKeeps == ASSUME RunnerInv, Land PROVE RunnerInv'
  <1>1. PICK i \in DOMAIN txs, exact \in BOOLEAN :
            LET tx == txs[i]
                good == IF tx.kind = "create" THEN now < tx.deadline ELSE Releasable(tx.contract, Beneficiary)
            IN  /\ Pending(i)
                /\ txs' = [txs EXCEPT ![i].status = IF good THEN "ok" ELSE "reverted"]
                /\ chain' = CASE ~good -> chain
                              [] good /\ tx.kind = "create" ->
                                    Created(tx.contract, [sponsor |-> Operator, deadline |-> tx.deadline, tx |-> i])
                              [] OTHER ->
                                    Released(tx.contract, [wallet |-> Beneficiary, relayer |-> Operator,
                                                           tx |-> i, exact |-> exact])
                /\ UNCHANGED <<now, attempt, files, failures>>
    BY DEF Land
  <1> DEFINE tx == txs[i]
             good == IF tx.kind = "create" THEN now < tx.deadline ELSE Releasable(tx.contract, Beneficiary)
  <1>2. tx \in Transactions /\ txs[i].status = "pending" /\ i \in Nat
    BY <1>1 DEF Pending, RunnerInv, RunnerTypeOK
  <1>3. tx.contract \in Contracts /\ tx.deadline \in Nat /\ tx.kind \in {"create", "release"}
    BY <1>2 DEF Transactions
  <1>4. UNCHANGED <<now, attempt, files, failures>>
    BY <1>1
  <1>5. PICK status \in {"ok", "reverted"} :
            /\ status = (IF good THEN "ok" ELSE "reverted") /\ txs' = [txs EXCEPT ![i].status = status]
    BY <1>1
  <1>6. /\ txs' \in Seq(Transactions) /\ DOMAIN txs' = DOMAIN txs
        /\ \A j \in DOMAIN txs : /\ txs'[j].kind = txs[j].kind /\ txs'[j].contract = txs[j].contract
                                 /\ j # i => txs'[j] = txs[j]
        /\ txs'[i].status = status
    BY <1>5, StatusGiven
  <1>7. \A j \in DOMAIN txs : txs[j].status = "ok" => txs'[j].status = "ok"
    BY <1>2, <1>6
  <1>8. \A j \in DOMAIN txs : txs[j].kind = "release" => txs[j].contract \in Contracts
    <2> SUFFICES ASSUME NEW j \in DOMAIN txs PROVE txs[j].contract \in Contracts
      OBVIOUS
    <2>1. txs[j] \in Transactions
      BY DEF RunnerInv, RunnerTypeOK
    <2> QED
      BY <2>1 DEF Transactions
  \* Campaigns may be added, claims are not.
  <1>9. ASSUME chain' \in [Contracts -> Worlds],
               \A d \in Contracts : chain'[d].claims = chain[d].claims,
               \A d \in Contracts : \A k \in DOMAIN chain[d].campaigns :
                   k \in DOMAIN chain'[d].campaigns /\ chain'[d].campaigns[k] = chain[d].campaigns[k],
               tx.kind = "create" \/ status = "reverted"
        PROVE  RunnerInv'
    <2>1. RunnerTypeOK'
      BY <1>4, <1>6, <1>9 DEF RunnerInv, RunnerTypeOK, Worlds
    <2>2. Grown
      BY <1>6, <1>7, <1>9 DEF Grown
    <2>3. ClaimsTrue'
      BY <1>6, <1>7, <1>9 DEF RunnerInv, ClaimsTrue
    <2>4. LandedClaims'
      <3> SUFFICES ASSUME NEW j \in DOMAIN txs, txs'[j].kind = "release", txs'[j].status = "ok"
                   PROVE  \E k \in DOMAIN chain'[txs'[j].contract].claims : chain'[txs'[j].contract].claims[k].tx = j
        BY <1>6 DEF LandedClaims
      <3>1. j # i
        BY <1>6, <1>9
      <3>2. txs[j].kind = "release" /\ txs[j].status = "ok" /\ txs'[j].contract = txs[j].contract
        BY <1>6, <3>1
      <3> QED
        BY <1>8, <1>9, <3>2 DEF RunnerInv, LandedClaims
    <2>5. ClaimedOnce'
      BY <1>9 DEF RunnerInv, ClaimedOnce
    <2> QED
      BY <1>4, <2>1, <2>2, <2>3, <2>4, <2>5, ChainKeeps
  <1>10. CASE ~good
    <2>1. chain' = chain
      BY <1>1, <1>10
    <2>2. status = "reverted"
      BY <1>5, <1>10
    <2> QED
      BY <1>9, <2>1, <2>2, WorldOf
  <1>11. CASE good /\ tx.kind = "create"
    <2>1. PICK campaign \in Campaigns : campaign = [sponsor |-> Operator, deadline |-> tx.deadline, tx |-> i]
      BY <1>2, <1>3 DEF Campaigns
    <2>2. chain' = Created(tx.contract, campaign)
      BY <1>1, <1>11, <2>1
    <2> QED
      BY <1>3, <1>9, <1>11, <2>2, CampaignAdded
  <1>12. CASE good /\ tx.kind # "create"
    <2>1. PICK claim \in Claims : /\ claim = [wallet |-> Beneficiary, relayer |-> Operator, tx |-> i, exact |-> exact]
                                  /\ claim.wallet = Beneficiary /\ claim.tx = i
      <3> DEFINE v == [wallet |-> Beneficiary, relayer |-> Operator, tx |-> i, exact |-> exact]
      <3>1. v \in Claims /\ v.wallet = Beneficiary /\ v.tx = i
        BY <1>1, <1>2 DEF Claims
      <3> QED
        BY <3>1
    <2>2. chain' = Released(tx.contract, claim) /\ status = "ok" /\ tx.kind = "release"
      BY <1>1, <1>3, <1>5, <1>12, <2>1
    <2>3. claim.wallet \notin Claimed(tx.contract)
      BY <1>12, <2>1 DEF Releasable
    <2>4. /\ chain' \in [Contracts -> Worlds] /\ ClaimedOnce'
          /\ \A d \in Contracts : chain'[d].campaigns = chain[d].campaigns
          /\ \A d \in Contracts : \A k \in DOMAIN chain[d].claims :
                 k \in DOMAIN chain'[d].claims /\ chain'[d].claims[k] = chain[d].claims[k]
          /\ \A d \in Contracts : \A k \in DOMAIN chain'[d].claims :
                 k \in DOMAIN chain[d].claims \/ (d = tx.contract /\ chain'[d].claims[k] = claim)
          /\ \E k \in DOMAIN chain'[tx.contract].claims : chain'[tx.contract].claims[k] = claim
      BY <1>3, <2>2, <2>3, ClaimAdded
    <2>5. RunnerTypeOK'
      BY <1>4, <1>6, <2>4 DEF RunnerInv, RunnerTypeOK, Worlds
    <2>6. Grown
      BY <1>6, <1>7, <2>4 DEF Grown
    <2>7. ClaimsTrue'
      <3> SUFFICES ASSUME NEW d \in Contracts, NEW k \in DOMAIN chain'[d].claims,
                          chain'[d].claims[k].relayer = Operator
                   PROVE  /\ chain'[d].claims[k].tx \in DOMAIN txs'
                          /\ txs'[chain'[d].claims[k].tx].kind = "release"
                          /\ txs'[chain'[d].claims[k].tx].status = "ok"
        BY DEF ClaimsTrue
      <3>1. CASE k \in DOMAIN chain[d].claims
        <4>1. chain'[d].claims[k] = chain[d].claims[k]
          BY <2>4, <3>1
        <4>2. /\ chain[d].claims[k].tx \in DOMAIN txs /\ txs[chain[d].claims[k].tx].kind = "release"
              /\ txs[chain[d].claims[k].tx].status = "ok"
          BY <3>1, <4>1 DEF RunnerInv, ClaimsTrue
        <4> QED
          BY <1>6, <1>7, <4>1, <4>2
      <3>2. CASE chain'[d].claims[k] = claim
        BY <1>6, <2>1, <2>2, <3>2
      <3> QED
        BY <2>4, <3>1, <3>2
    <2>8. LandedClaims'
      <3> SUFFICES ASSUME NEW j \in DOMAIN txs, txs'[j].kind = "release", txs'[j].status = "ok"
                   PROVE  \E k \in DOMAIN chain'[txs'[j].contract].claims : chain'[txs'[j].contract].claims[k].tx = j
        BY <1>6 DEF LandedClaims
      <3>1. CASE j = i
        BY <1>6, <2>1, <2>4, <3>1
      <3>2. CASE j # i
        <4>1. txs[j].kind = "release" /\ txs[j].status = "ok" /\ txs'[j].contract = txs[j].contract
          BY <1>6, <3>2
        <4>2. PICK k \in DOMAIN chain[txs[j].contract].claims : chain[txs[j].contract].claims[k].tx = j
          BY <4>1 DEF RunnerInv, LandedClaims
        <4> QED
          BY <1>8, <2>4, <4>1, <4>2
      <3> QED
        BY <3>1, <3>2
    <2> QED
      BY <1>4, <2>4, <2>5, <2>6, <2>7, <2>8, ChainKeeps
  <1> QED
    BY <1>10, <1>11, <1>12

LEMMA RunnerKeeps == RunnerInv /\ [RunnerNext]_runnerVars => RunnerInv'
  <1> SUFFICES ASSUME RunnerInv, [RunnerNext]_runnerVars PROVE RunnerInv'
    OBVIOUS
  <1>1. CASE Land
    BY <1>1, LandKeeps
  <1>2. CASE Tick \/ \E c \in Contracts : ForeignCampaign(c) \/ RecoverRemainder(c)
    BY <1>2, QuietStepsKeep
  <1>3. ASSUME NEW c \in Contracts, NEW wallet \in {Beneficiary, Stranger}, ForeignClaim(c, wallet) PROVE RunnerInv'
    BY <1>3, ForeignClaimKeeps
  <1>4. ASSUME NEW p \in Attempts, Goes(p) PROVE RunnerInv'
    BY <1>4, DeployKeeps, PredictKeeps, CreateKeeps, CreatingKeeps, CreationConfirmedKeeps, SimulateKeeps,
       ReleaseKeeps, ReleasingKeeps, SettleReleaseKeeps, ReplayKeeps, VerifyKeeps, ClassifyKeeps, StillOpenKeeps,
       ReconcileKeeps DEF Goes, Releases
  <1>5. ASSUME NEW p \in Attempts, CallFails(p) \/ LoseAnswer(p) \/ Crash(p) PROVE RunnerInv'
    BY <1>5, LoseAnswerKeeps, TroubleKeeps
  <1>6. ASSUME NEW p \in Attempts, NEW c \in Contracts, Run(p, c) PROVE RunnerInv'
    BY <1>6, RunStarts
  <1>7. ASSUME NEW p \in Attempts, NEW f \in files, WrongKey(p, f) PROVE RunnerInv'
    <2>1. failures' \in 0..MaxFailures
      BY <1>7, BoundsAssumption DEF WrongKey, Trouble, RunnerInv, RunnerTypeOK
    <2> QED
      BY <1>7, <2>1, ResumeKeeps DEF WrongKey
  <1>8. CASE TakeUp
    <2>1. failures' \in 0..MaxFailures
      BY <1>8 DEF TakeUp, RunnerInv, RunnerTypeOK
    <2> QED
      BY <1>8, <2>1, ResumeKeeps DEF TakeUp
  <1>9. CASE UNCHANGED runnerVars
    <2>1. RunnerTypeOK' /\ ClaimsTrue' /\ LandedClaims' /\ ClaimedOnce'
      BY <1>9 DEF runnerVars, RunnerInv, RunnerTypeOK, ClaimsTrue, LandedClaims, ClaimedOnce
    <2>2. (\A p \in Attempts : Knows(attempt[p]))'
      BY <1>9 DEF runnerVars, RunnerInv, Knows, PassedTrue, Funded, PaidOut
    <2>3. PassedTrue'
      BY <1>9 DEF runnerVars, RunnerInv, PassedTrue, Funded, PaidOut
    <2> QED
      BY <2>1, <2>2, <2>3 DEF RunnerInv
  <1> QED
    BY <1>1, <1>2, <1>3, <1>4, <1>5, <1>6, <1>7, <1>8, <1>9 DEF RunnerNext

\* Evidence that says "passed" is true on the chain, however many attempts
\* overlap, fail or lose answers, and whoever else uses the contract
\* (runLifecycle, resumeLifecycle).
THEOREM EvidenceIsTrue == RunnerSpec => []PassedIsPaid
<1>1. RunnerInv => PassedIsPaid
  <2> SUFFICES ASSUME RunnerInv, NEW f \in files, f.passed
               PROVE  LET c == f.part.contract
                          paid == {i \in DOMAIN chain[c].claims : chain[c].claims[i].wallet = Beneficiary}
                      IN  /\ chain[c].campaigns[1].sponsor = Operator
                          /\ chain[c].campaigns[1].tx = f.part.creation
                          /\ Cardinality(paid) = 1
                          /\ f.part.release \in {i \in DOMAIN txs : txs[i].kind = "release" /\ txs[i].status = "ok"}
                          /\ \A i \in paid : chain[c].claims[i].tx = f.part.release /\ chain[c].claims[i].exact
    BY DEF PassedIsPaid
  <2> DEFINE c == f.part.contract
             paid == {i \in DOMAIN chain[c].claims : chain[c].claims[i].wallet = Beneficiary}
  <2>1. Funded(f.part) /\ PaidOut(f.part)
    BY DEF RunnerInv, PassedTrue
  <2>2. c \in Contracts
    BY DEF RunnerInv, RunnerTypeOK, Parts
  <2>3. chain[c].claims \in Seq(Claims) /\ chain[c].claims # <<>>
    BY <2>1, <2>2, Chained DEF RunnerInv, PaidOut
  <2>4. 1 \in DOMAIN chain[c].claims
    BY <2>3
  <2>5. /\ chain[c].claims[1].wallet = Beneficiary /\ chain[c].claims[1].relayer = Operator
        /\ chain[c].claims[1].exact /\ chain[c].claims[1].tx = f.part.release
    BY <2>1 DEF PaidOut
  <2>6. \A i \in DOMAIN chain[c].claims : chain[c].claims[i].wallet = Beneficiary => i = 1
    BY <2>2, <2>4, <2>5 DEF RunnerInv, ClaimedOnce
  <2>7. paid = {1}
    BY <2>4, <2>5, <2>6
  <2>8. Cardinality(paid) = 1
    BY <2>7, FS_Singleton
  <2>9. f.part.release \in DOMAIN txs /\ txs[f.part.release].kind = "release" /\ txs[f.part.release].status = "ok"
    BY <2>2, <2>4, <2>5 DEF RunnerInv, ClaimsTrue
  <2>10. chain[c].campaigns[1].sponsor = Operator /\ chain[c].campaigns[1].tx = f.part.creation
    BY <2>1 DEF Funded
  <2> QED
    BY <2>5, <2>7, <2>8, <2>9, <2>10
<1> QED
  BY <1>1, RunnerStarts, RunnerKeeps, PTL DEF RunnerSpec
=============================================================================
