-------------------------- MODULE MCServerAndPanel --------------------------
(* The two that keep asking until they know: the server's own schedulers, and
   the helper's panel about its one operation.  They share nothing, so a
   behaviour exercises one of them; the other has nothing to do: the server does
   not listen, or no campaign is offered. *)
EXTENDS RecoveryServer, HelperDesk

CONSTANTS p1, alice, bob
VARIABLE half   \* what is exercised

OwnerOf(pair) == alice
Offered == {[campaign |-> 1, open |-> TRUE], [campaign |-> 1, open |-> FALSE], [campaign |-> 2, open |-> TRUE]}

BothInit ==
    /\ ServerInit
    /\ \/ /\ half = "server"
          /\ sponsor = [offer |-> NoOffer, ops |-> [x \in Ops |-> "none"], posts |-> {}]
          /\ panel = Mounted(NoWallet) /\ kept = NoOp /\ owed = {}
          /\ wear = [offers |-> 0, mounts |-> 0]
       \/ half = "panel" /\ HelperInit

BothNext ==
    \/ half = "server" /\ ServerNext /\ UNCHANGED <<half, helperVars>>
    \/ half = "panel" /\ HelperNext /\ UNCHANGED <<half, serverVars>>

BothSpec ==
    /\ BothInit /\ [][BothNext]_<<half, serverVars, helperVars>>
    /\ Fairness /\ V2!Fairness /\ HelperFairness
=============================================================================
