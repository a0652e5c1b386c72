----------------------------- MODULE MCAgentRun -----------------------------
(* Workflow runs of one scope for TLC: the first may be tried again.         *)
EXTENDS AgentRun, TLC

CONSTANTS r1, r2

MCRuns == {r1, r2}
MCOneRun == {r1}
MCMaxAttempts == [r \in Runs |-> IF r = r1 THEN 2 ELSE 1]
=============================================================================
