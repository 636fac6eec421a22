---------------------------- MODULE RecoveryServer ----------------------------
(***************************************************************************)
(* The Node server's own life (startServer in src/server.mjs) around the   *)
(* startup of the recovery service and the supervisor of the V2            *)
(* deployment.  Both start when the socket listens and both stop when it   *)
(* closes; between, each goes its own way, and the routes read both.       *)
(*                                                                         *)
(* A server whose recovery service is disabled has no startup to model.    *)
(***************************************************************************)
EXTENDS StartupLifecycle

VARIABLES mode, phase, controller, running, v2Stopped, terminal, v2Timer, stale, v2State, confirmed

V2 == INSTANCE DeploymentSupervisor WITH stopped <- v2Stopped, timer <- v2Timer, state <- v2State

v2Vars == <<mode, phase, controller, running, v2Stopped, terminal, v2Timer, stale, v2State, confirmed>>
serverVars == <<vars, v2Vars>>

ServerInit == Init /\ V2!Init

\* The listen callback.
Listen == Start /\ V2!Start

\* The close event, heard once.
Close == ~stopped /\ Stop /\ V2!Stop

\* requireRecoveryService lets a route through.
Served == state = "ready"

ServerNext ==
    \/ Listen
    \/ Close
    \/ AttemptStep /\ UNCHANGED v2Vars
    \/ V2!DeploymentStep /\ UNCHANGED vars

ServerSpec == ServerInit /\ [][ServerNext]_serverVars /\ Fairness /\ V2!Fairness

-----------------------------------------------------------------------------
(* Properties *)

\* Neither scheduler overlaps its calls or is left without the timer or the call
\* that goes on with it, whatever settles late on the other side.
SchedulersConsistent ==
    /\ TypeOK /\ V2!TypeOK
    /\ NoOverlap
    /\ NeverAbandoned /\ V2!NeverAbandoned

\* Once the socket closed no readiness call and no reconciliation begins, the
\* recovery routes stay shut and no deployment becomes ready.
ShutdownInert ==
    [][/\ StopHolds
       /\ stopped => ~Served'
       /\ V2!StopHolds]_serverVars

\* No late answer, cancelled timer or change of the controller's mind undoes what
\* startup and supervisor decided, nor what the close decided for both.
DecisionsStand == [][Decided /\ V2!VerdictHolds]_serverVars /\ ShutdownInert

\* A started server decides its startup, although the service may hang, and tries
\* a transient failure of the deployment again.
NothingStuck == Settles /\ V2!KeepsTrying
=============================================================================
