------------------------ MODULE MCPlatformScheduler -------------------------
(* A plan of two actions, the second of which needs the first and goes to    *)
(* the Content agent, for TLC.                                               *)
EXTENDS PlatformScheduler, TLC

CONSTANTS p1, a1, a2

MCPlanOf == [a \in Actions |-> p1]
MCNeeds == [a \in Actions |-> IF a = a2 THEN {a1} ELSE {}]
=============================================================================
