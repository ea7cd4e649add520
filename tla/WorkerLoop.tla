----------------------------- MODULE WorkerLoop -----------------------------
(***************************************************************************)
(* run_worker_forever: the loop that keeps a worker alive.  A cycle        *)
(* (run_worker_once, module WorkerRun) either returns, whatever status it  *)
(* reports, or a bookkeeping call raises out of it because the database    *)
(* or the connection pool is broken.  The loop absorbs the exception,      *)
(* backs off and after a few crashes in a row drops the pools.             *)
(***************************************************************************)
EXTENDS Naturals

CONSTANTS
    CadenceSeconds,  \* cadence_seconds
    InitialBackoff,  \* initial_backoff_seconds
    PoolReset,       \* CYCLE_CRASH_POOL_RESET_THRESHOLD
    BackoffSteps,    \* CYCLE_CRASH_MAX_BACKOFF_STEPS
    CrashBound       \* consecutive_crashes is counted up to here

ASSUME LoopAssumption ==
    /\ CadenceSeconds \in Nat \ {0} /\ InitialBackoff \in Nat \ {0}
    /\ PoolReset \in Nat \ {0} /\ BackoffSteps \in Nat
    \* counting further changes neither the delay nor the reset
    /\ CrashBound \in Nat /\ CrashBound > BackoffSteps /\ CrashBound >= PoolReset

VARIABLES
    db,        \* the PostgreSQL server
    pool,      \* the worker's entry in _pools; a stuck pool fails every borrow
    loop,      \* where run_worker_forever is
    crashes,   \* consecutive_crashes
    delay,     \* the seconds of the last stopping.wait
    stopping   \* stop_event
loopVars == <<db, pool, loop, crashes, delay, stopping>>

LoopTypeOK ==
    /\ db \in {"up", "down"}
    /\ pool \in {"none", "good", "stuck"}
    /\ loop \in {"cycle", "wait", "ended"}
    /\ crashes \in 0..CrashBound
    /\ delay \in 0..CadenceSeconds
    /\ stopping \in BOOLEAN

LoopInit ==
    /\ db \in {"up", "down"}
    /\ pool = "none"
    /\ loop = "cycle"
    /\ crashes = 0
    /\ delay = 0
    /\ stopping = FALSE

Least(a, b) == IF a < b THEN a ELSE b

\* Mutants of Backoff: no clamp; a clamp of the exponent at four steps (the
\* earlier version the comment in the source describes).
BackoffUnclamped(n) == InitialBackoff * 2^Least(n - 1, BackoffSteps)
BackoffFourSteps(n) == Least(CadenceSeconds, InitialBackoff * 2^Least(n - 1, 3))

Backoff(n) == Least(CadenceSeconds, InitialBackoff * 2^Least(n - 1, BackoffSteps))

\* Mutant of ResetsPool: the pools are dropped once per streak.
ResetsPoolOnce(n) == n = PoolReset

ResetsPool(n) == n >= PoolReset

\* run_worker_once returned: success, failed or skipped_duplicate.
CycleReturns ==
    /\ loop = "cycle" /\ ~stopping
    /\ db = "up" /\ pool # "stuck"
    /\ pool' = "good"
    /\ crashes' = 0
    /\ delay' = CadenceSeconds
    /\ loop' = "wait"
    /\ UNCHANGED <<db, stopping>>

\* run_worker_once raised.  A pool that could not be opened, or that holds
\* broken connections, may be of no use from then on.
CycleRaises ==
    /\ loop = "cycle" /\ ~stopping
    /\ db = "down" \/ pool = "stuck"
    /\ LET n == crashes + 1 IN
         /\ crashes' = Least(n, CrashBound)
         /\ delay' = Backoff(n)
         /\ IF ResetsPool(n) THEN pool' = "none" ELSE pool' \in {pool, "stuck"}
    /\ loop' = "wait"
    /\ UNCHANGED <<db, stopping>>

\* stopping.wait(delay) returns, because the time or the event has come.
WaitEnds ==
    /\ loop = "wait"
    /\ loop' = "cycle"
    /\ UNCHANGED <<db, pool, crashes, delay, stopping>>

\* Mutant of Ends: the event is looked at after a good cycle only.
EndsWhenHealthy ==
    /\ loop = "cycle" /\ stopping /\ crashes = 0
    /\ loop' = "ended"
    /\ UNCHANGED <<db, pool, crashes, delay, stopping>>

\* while not stopping.is_set()
Ends ==
    /\ loop = "cycle" /\ stopping
    /\ loop' = "ended"
    /\ UNCHANGED <<db, pool, crashes, delay, stopping>>

\* SIGINT or SIGTERM
RequestStop ==
    /\ stopping' = TRUE
    /\ UNCHANGED <<db, pool, loop, crashes, delay>>

DatabaseFails ==
    /\ db' = "down"
    /\ UNCHANGED <<pool, loop, crashes, delay, stopping>>

DatabaseRecovers ==
    /\ db' = "up"
    /\ UNCHANGED <<pool, loop, crashes, delay, stopping>>

LoopStep == CycleReturns \/ CycleRaises \/ WaitEnds \/ Ends

LoopNext == LoopStep \/ RequestStop \/ DatabaseFails \/ DatabaseRecovers

\* The thread of the loop is scheduled and its waits and statements time out.
LoopSpec == LoopInit /\ [][LoopNext]_loopVars /\ WF_loopVars(LoopStep)

-----------------------------------------------------------------------------
\* docs/railway-worker-services.md: the collector is not permanently stopped
\* by an outage.  Once the database stays up, cycles go through again and the
\* streak is cleared, whatever state the outage left the pool in.
RecoversWithDatabase ==
    <>[](db = "up" /\ ~stopping) => []<>(crashes = 0 /\ pool = "good")

\* A stop request ends the loop, also in the middle of an outage.
StopsWhenAsked == stopping ~> loop = "ended"

\* Within an outage every wait is at least twice the one before, until it is
\* the worker's own cadence; it is never longer than that.
BacksOff ==
    [][crashes > 0 /\ crashes' > 0 /\ loop = "cycle" /\ loop' = "wait" =>
         delay' = Least(CadenceSeconds, 2 * delay)]_loopVars
=============================================================================
