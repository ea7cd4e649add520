--------------------------- MODULE MCSportsQuotes ---------------------------
(* A logger and two settlements of the worker's run, a logger of a manual run. *)
EXTENDS SportsQuotes, TLC

CONSTANTS worker_log, manual_log, worker_settle, other_settle

MCLoggers == {worker_log, manual_log}
MCSettlers == {worker_settle, other_settle}
MCRunOf == [t \in MCLoggers \cup MCSettlers |->
    IF t = manual_log THEN "manual" ELSE "worker"]
SettlerSymmetry == Permutations(MCSettlers)
=============================================================================
