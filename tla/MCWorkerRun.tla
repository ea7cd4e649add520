----------------------------- MODULE MCWorkerRun -----------------------------
(***************************************************************************)
(* A worker whose processes overlap, for OverlapHorizon instants, or one   *)
(* with a single process, killed and restarted at will, for the Horizon.   *)
(***************************************************************************)
EXTENDS WorkerRun, TLC

VARIABLE active   \* the processes that ever run
mcVars == <<vars, active>>

OverlapHorizon == 4
Single == Cardinality(active) = 1

MCInit == Init /\ active \in {Processes} \cup {{p} : p \in Processes}

MCNext ==
    /\ Next
    /\ \A p \in Processes \ active : proc'[p] = proc[p]
    /\ ~Single => now' <= OverlapHorizon
    /\ UNCHANGED active

MCSpec == MCInit /\ [][MCNext]_mcVars

\* FailureStreak is promised to a worker that has one process.
SingleFailureStreak == Single => FailureStreak

\* AlertsAreEarned is promised to a worker that has one process.
SingleAlertsAreEarned == Single => AlertsAreEarned

ProcessSymmetry == Permutations(Processes)
=============================================================================
