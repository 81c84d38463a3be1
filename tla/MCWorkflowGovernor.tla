-------------------------- MODULE MCWorkflowGovernor --------------------------
\* Small instances of WorkflowGovernor: two workflows, each in its own vault.
EXTENDS WorkflowGovernor

CONSTANTS v1, v2, w1, w2

TwoWorkflows == {w1, w2}
TwoVaultOf == (w1 :> v1) @@ (w2 :> v2)
=============================================================================
