----------------------------- MODULE MCSigners -----------------------------
(* The two processes that reconcile a signer's transactions with a chain: the
   deployment's and the demo's.  They share nothing, so a behaviour exercises
   one of them and leaves the other as it was created. *)
EXTENDS DemoService, DeploymentLifecycle, TLC

CONSTANTS i1, EarlyHeight
VARIABLE half   \* what is exercised

\* A server that starts after the deployment was mined.
MinedInit ==
    /\ chain = <<[fork |-> 0, tx |-> "deploy"]>> /\ finalized = 0 /\ forks = 0 /\ queued = "none"
    /\ successors \in SUBSET Instances /\ window = "closed" /\ submitted = TRUE /\ rejected = {}
    /\ run = [i \in Instances |-> Resting("none")]

SignersInit ==
    \/ half = "demo" /\ Init /\ DeploymentInit /\ successors = {} /\ submitted = FALSE /\ window = "open"
    \/ half = "deployment" /\ Init /\ DeploymentInit
    \/ half = "mined" /\ Init /\ MinedInit

\* Up to the mined deployment a shorter chain shows everything.
SignersNext ==
    \/ half = "demo" /\ Next /\ UNCHANGED <<half, deploymentVars>>
    \/ /\ half = "deployment" /\ DeploymentNext /\ UNCHANGED <<half, vars>>
       /\ Len(chain') <= EarlyHeight /\ queued' # "later"
    \/ half = "mined" /\ DeploymentNext /\ UNCHANGED <<half, vars>>

SignersSpec == SignersInit /\ [][SignersNext]_<<half, vars, deploymentVars>>

\* Two callers of the demo.
Callers == Permutations(Beneficiaries)
=============================================================================
