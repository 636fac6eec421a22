--------------------------- MODULE ReadCoordinator ---------------------------
(***************************************************************************)
(* The coordinator of the read plane (createCoordinatorRuntime of          *)
(* src/cloudflare-worker-core.mjs) behind the admission of fresh reads.    *)
(* The service is initialized once, by whoever comes first, and everybody  *)
(* who comes meanwhile rides along: a fresh configuration initializes it   *)
(* with its own fresh read, any other request with the readiness check.    *)
(* A failure is everybody's and the next request starts anew.  Memory is   *)
(* lost when the Durable Object moves, the storage of the admission stays. *)
(***************************************************************************)
EXTENDS FreshReadAdmission

VARIABLES
    service,    \* servicePromise
    request,    \* the fresh configuration request of each authorization
    reads       \* fresh reads of the campaign made for each authorization

runtime == <<service, request, reads>>
coordinator == <<vars, runtime>>

Nobody == "nobody"      \* a request without a fresh read

ASSUME NobodyAssumption == Nobody \notin Authorizations

Absent == [at |-> "absent"]
Ready == [at |-> "ready"]
Starting(by) == [at |-> "starting", by |-> by]

CoordinatorInit ==
    /\ Init
    /\ service = Absent
    /\ request = [a \in Authorizations |-> "none"]
    /\ reads = [a \in Authorizations |-> 0]

Riding == {a \in Authorizations : request[a] = "riding"}

\* An admitted request goes on to the service in the same turn: its own read
\* initializes a service there is not, waits for one that is coming, or calls.
Proceed(a) ==
    /\ request' = [request EXCEPT ![a] = IF service = Ready THEN "calling" ELSE "riding"]
    /\ service' = IF service = Absent THEN Starting(a) ELSE service
    /\ reads' = IF service = Absent THEN [reads EXCEPT ![a] = @ + 1] ELSE reads

Execute(a) ==
    /\ Commit(a)
    /\ IF admitted' # admitted THEN Proceed(a) ELSE UNCHANGED runtime

\* Any other operation, and health, of which only the initialization matters.
Visit ==
    /\ service = Absent
    /\ service' = Starting(Nobody)
    /\ UNCHANGED <<vars, request, reads>>

\* Bug: every fresh request that waited is answered with the initial value.
InitializedForAll ==
    /\ service.at = "starting"
    /\ service' = Ready
    /\ request' = [a \in Authorizations |-> IF a \in Riding THEN "answered" ELSE request[a]]
    /\ UNCHANGED <<vars, reads>>

\* Bug: the starter calls the service again for its answer.
InitializedAgain ==
    /\ service.at = "starting"
    /\ service' = Ready
    /\ request' = [a \in Authorizations |-> IF a \in Riding THEN "calling" ELSE request[a]]
    /\ UNCHANGED <<vars, reads>>

\* The initial value is the answer of the request that started it; the other
\* fresh requests go on to a read of their own.
Initialized ==
    /\ service.at = "starting"
    /\ service' = Ready
    /\ request' = [a \in Authorizations |->
                     IF a \notin Riding THEN request[a]
                     ELSE IF service.by = a THEN "answered" ELSE "calling"]
    /\ UNCHANGED <<vars, reads>>

InitializationFails ==
    /\ service.at = "starting"
    /\ service' = Absent
    /\ request' = [a \in Authorizations |-> IF a \in Riding THEN "failed" ELSE request[a]]
    /\ UNCHANGED <<vars, reads>>

Read(a, outcome) ==
    /\ request[a] = "calling"
    /\ reads' = [reads EXCEPT ![a] = @ + 1]
    /\ request' = [request EXCEPT ![a] = outcome]
    /\ UNCHANGED <<vars, service>>

\* intakeChallenge answers with a receipt, through a service that is there.
Challenge(a, expiry) ==
    /\ service = Ready
    /\ IssueReceipt(a, expiry)
    /\ UNCHANGED runtime

Move ==
    /\ Restart
    /\ service' = Absent
    /\ request' = [a \in Authorizations |-> IF request[a] \in {"riding", "calling"} THEN "failed" ELSE request[a]]
    /\ UNCHANGED reads

CoordinatorNext ==
    \/ \E a \in Authorizations, expiry \in 0..(MaxTime + Lifetime) : Challenge(a, expiry)
    \/ \E a \in Authorizations : Verify(a) /\ UNCHANGED runtime
    \/ \E a \in Authorizations : Execute(a)
    \/ \E a \in Authorizations, outcome \in {"answered", "failed"} : Read(a, outcome)
    \/ \E time \in 0..MaxTime : SetClock(time) /\ UNCHANGED runtime
    \/ Visit \/ Initialized \/ InitializationFails \/ Move

CoordinatorSpec == CoordinatorInit /\ [][CoordinatorNext]_coordinator

-----------------------------------------------------------------------------
(* Properties *)

\* Who asked for a fresh configuration is answered with a read made for it
\* after its admission, never with a read somebody else's request started.
OwnFreshRead == \A a \in Authorizations : request[a] = "answered" => reads[a] = 1

\* The reads themselves are paced, not only the admissions: whoever shares,
\* fails or repeats an initialization, n fresh reads of the campaign have moved
\* the not-before by n intervals.
ReadsMade == UNION {{a} \X (1..reads[a]) : a \in Authorizations}
ReadsPaced == Cardinality(ReadsMade) * Interval <= IF notBefore = Never THEN 0 ELSE notBefore
=============================================================================
