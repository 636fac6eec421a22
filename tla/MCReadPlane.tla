---------------------------- MODULE MCReadPlane ----------------------------
(* The two Durable Objects of the read plane.  They share nothing, so a
   behaviour exercises one of them and leaves the other as it was created. *)
EXTENDS ReadCoordinator, ObservationCache, TLC

VARIABLE half   \* the object that is exercised

PlaneInit == half \in {"coordinator", "observer"} /\ CoordinatorInit /\ ObserverInit

PlaneNext ==
    \/ half = "coordinator" /\ CoordinatorNext /\ UNCHANGED <<half, observer>>
    \/ half = "observer" /\ ObserverNext /\ UNCHANGED <<half, coordinator>>

PlaneSpec == PlaneInit /\ [][PlaneNext]_<<half, coordinator, observer>>

Symmetry ==
    Permutations(Authorizations) \cup Permutations(Caches) \cup Permutations(Identities)
=============================================================================
