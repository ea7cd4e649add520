--------------------------- MODULE MCRefreshQueue ---------------------------
(* Two requests: a pregame one (priority 10) and a manual one (priority 25). *)
EXTENDS RefreshQueue, TLC

CONSTANTS pregame, manual

MCPriority == [r \in Requests |-> IF r = pregame THEN 10 ELSE 25]
WorkerSymmetry == Permutations(Workers)
=============================================================================
