------------------------ MODULE MCDeploymentLifecycle ------------------------
\* Instances of DeploymentLifecycle for TLC.
EXTENDS DeploymentLifecycle
CONSTANTS i1
=============================================================================
