-------------------------- MODULE MCDeploymentGraph --------------------------
EXTENDS DeploymentGraph
=============================================================================
