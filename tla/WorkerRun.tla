----------------------------- MODULE WorkerRun -----------------------------
(***************************************************************************)
(* One scheduled worker: run_worker_once and its monitoring store.  Every  *)
(* process of the worker (two of them overlap during a deployment) wakes   *)
(* on its own cadence, claims the cadence bucket of the moment by          *)
(* inserting the ops.worker_runs row of its idempotency key, runs the      *)
(* operation with retries and records the outcome; ops.worker_status is    *)
(* the summary the dashboard reads.  A connection may be lost in any       *)
(* bookkeeping transaction, before or after its commit, and a process may  *)
(* be killed and started again at any time.                                *)
(*                                                                         *)
(* Time is counted in ticks from 0 to Horizon, the bound of the model.     *)
(***************************************************************************)
EXTENDS Integers, FiniteSets

CONSTANTS
    Processes,    \* processes running this worker
    Cadence,      \* cadence_seconds, in ticks
    MaxAttempts,  \* maximum_attempts of the operation in one run
    AlertAfter,   \* alert_after_failures
    Horizon,      \* last instant modelled
    Deaths        \* environment: processes may be killed and restarted

ASSUME WorkerAssumption ==
    /\ IsFiniteSet(Processes)
    /\ Cadence \in Nat \ {0}
    /\ MaxAttempts \in Nat \ {0}
    /\ AlertAfter \in Nat \ {0}
    /\ Horizon \in Nat
    /\ Deaths \in BOOLEAN

VARIABLES
    now,      \* utc_now
    runs,     \* ops.worker_runs of the worker, by cadence bucket
    status,   \* the worker's row of ops.worker_status
    proc,     \* the processes' control state
    effects,  \* per bucket, how often the operation ran to success
    alerts    \* buckets whose failure raised an alert
vars == <<now, runs, status, proc, effects, alerts>>

\* cadence_idempotency_key
Bucket(t) == t \div Cadence
Buckets == 0..Bucket(Horizon)

RunState == {"absent", "started", "completed", "failed"}
Step == {"asleep", "starting", "operating", "recording", "failing"}

\* attempted_at -1: the row does not exist yet.
NoStatus == [state |-> "none", key |-> 0, attempted_at |-> -1, failures |-> 0]

Asleep(delay) == [pc |-> "asleep", at |-> 0, attempt |-> 0, wake |-> delay]

StatusRow == [state: {"none", "running", "healthy", "failed"}, key: Buckets,
              attempted_at: -1..Horizon, failures: Nat]
Process == [pc: Step, at: 0..Horizon, attempt: 0..MaxAttempts, wake: 0..Cadence]

\* Rows and processes are well formed.
TypeOK ==
    /\ now \in 0..Horizon
    /\ runs \in [Buckets -> RunState]
    /\ status \in StatusRow
    /\ proc \in [Processes -> Process]
    /\ effects \in [Buckets -> 0..MaxAttempts]
    /\ alerts \subseteq Buckets

Init ==
    /\ now = 0
    /\ runs = [b \in Buckets |-> "absent"]
    /\ status = NoStatus
    /\ proc = [p \in Processes |-> Asleep(0)]
    /\ effects = [b \in Buckets |-> 0]
    /\ alerts = {}

Key(p) == Bucket(proc[p].at)
Owns(p, b) == proc[p].pc \in {"operating", "recording", "failing"} /\ Key(p) = b

\* run_worker_forever after a cycle that returned: the next one after cadence.
Sleep(p) == proc' = [proc EXCEPT ![p] = Asleep(Cadence)]

\* A bookkeeping call raised out of run_worker_once: the loop backs off for
\* some time up to the cadence (WorkerLoop says how long).
Crashed(p) == \E delay \in 1..Cadence : proc' = [proc EXCEPT ![p] = Asleep(delay)]

-----------------------------------------------------------------------------
(* run_worker_once up to the claim *)

\* attempted = utc_now(), which also fixes the idempotency key.
Wake(p) ==
    /\ proc[p].pc = "asleep" /\ proc[p].wake = 0
    /\ proc' = [proc EXCEPT ![p] =
         [pc |-> "starting", at |-> now, attempt |-> 0, wake |-> 0]]
    /\ UNCHANGED <<now, runs, status, effects, alerts>>

\* Mutant of MayInsert: the key is not unique.
AlwaysInserts(b) == TRUE

\* ON CONFLICT (worker_name, idempotency_key) DO NOTHING
MayInsert(b) == runs[b] = "absent"

\* Mutant of Newer: the upsert has no WHERE clause.
AlwaysNewer(t) == TRUE

\* The status row follows the run that was attempted last.
Newer(t) == t >= status.attempted_at

\* The transaction of start_run, when the key is new.
InsertRun(p) ==
    /\ runs' = [runs EXCEPT ![Key(p)] = "started"]
    /\ status' = IF Newer(proc[p].at)
                 THEN [status EXCEPT !.state = "running", !.key = Key(p),
                                     !.attempted_at = proc[p].at]
                 ELSE status

Operate(p) == proc' = [proc EXCEPT ![p] = [@ EXCEPT !.pc = "operating", !.attempt = 1]]

StartRun(p) ==
    /\ proc[p].pc = "starting"
    /\ MayInsert(Key(p))
    /\ InsertRun(p)
    /\ Operate(p)
    /\ UNCHANGED <<now, effects, alerts>>

\* skipped_duplicate
SkipDuplicate(p) ==
    /\ proc[p].pc = "starting"
    /\ ~MayInsert(Key(p))
    /\ Sleep(p)
    /\ UNCHANGED <<now, runs, status, effects, alerts>>

\* start_run raises: nothing was committed, or the commit went through and
\* only its acknowledgement was lost.
StartRaises(p) ==
    /\ proc[p].pc = "starting"
    /\ \/ UNCHANGED <<runs, status>>
       \/ MayInsert(Key(p)) /\ InsertRun(p)
    /\ Crashed(p)
    /\ UNCHANGED <<now, effects, alerts>>

-----------------------------------------------------------------------------
(* The retry loop of run_worker_once *)

\* Mutant of NextAttempt: range(1, maximum_attempts + 2).
NextAttemptTooMany(p) ==
    proc' = [proc EXCEPT ![p] =
      IF proc[p].attempt <= MaxAttempts
      THEN [@ EXCEPT !.pc = "operating", !.attempt = proc[p].attempt + 1]
      ELSE [@ EXCEPT !.pc = "failing"]]

NextAttempt(p) ==
    proc' = [proc EXCEPT ![p] =
      IF proc[p].attempt < MaxAttempts
      THEN [@ EXCEPT !.pc = "operating", !.attempt = proc[p].attempt + 1]
      ELSE [@ EXCEPT !.pc = "failing"]]

\* The operation raises, or returns no records where some were expected; a
\* NonRetryableWorkerError ends the loop at once.
OperationFails(p) ==
    /\ proc[p].pc = "operating"
    /\ \/ NextAttempt(p)
       \/ proc' = [proc EXCEPT ![p] = [@ EXCEPT !.pc = "failing"]]
    /\ UNCHANGED <<now, runs, status, effects, alerts>>

OperationSucceeds(p) ==
    /\ proc[p].pc = "operating"
    /\ effects' = [effects EXCEPT ![Key(p)] = @ + 1]
    /\ proc' = [proc EXCEPT ![p] = [@ EXCEPT !.pc = "recording"]]
    /\ UNCHANGED <<now, runs, status, alerts>>

\* Mutant of Unfinished: the outcome of a run is written unconditionally.
AnyRun(b) == TRUE

\* WHERE ... AND status = 'started'
Unfinished(b) == runs[b] = "started"

\* Mutant of Current: the status row takes the outcome of every run.
AnyKey(b) == TRUE

\* WHERE ... AND current_idempotency_key = %s
Current(b) == status.attempted_at >= 0 /\ status.key = b

\* Mutant of Healthy: the streak is not ended.
HealthyAgain == [status EXCEPT !.state = "healthy"]

Healthy == [status EXCEPT !.state = "healthy", !.failures = 0]

\* The transaction of finish_success: it does nothing to a finished run.
Complete(b) ==
    IF Unfinished(b)
    THEN /\ runs' = [runs EXCEPT ![b] = "completed"]
         /\ status' = IF Current(b) THEN Healthy ELSE status
    ELSE UNCHANGED <<runs, status>>

FinishSuccess(p) ==
    /\ proc[p].pc = "recording"
    /\ Complete(Key(p))
    /\ Sleep(p)
    /\ UNCHANGED <<now, effects, alerts>>

\* finish_success raises, its transaction committed or not.  It is called
\* inside the try of the retry loop: the operation is attempted again.
FinishSuccessRaises(p) ==
    /\ proc[p].pc = "recording"
    /\ Complete(Key(p)) \/ UNCHANGED <<runs, status>>
    /\ NextAttempt(p)
    /\ UNCHANGED <<now, effects, alerts>>

\* The transaction of finish_failure.
Fail(b) ==
    IF Unfinished(b)
    THEN /\ runs' = [runs EXCEPT ![b] = "failed"]
         /\ status' = IF Current(b)
                      THEN [status EXCEPT !.state = "failed", !.failures = @ + 1]
                      ELSE status
    ELSE UNCHANGED <<runs, status>>

\* What finish_failure returns: the failures counted, 0 for a run that was
\* finished already or is no longer the worker's current one.
Counted(b) == IF Unfinished(b) /\ Current(b) THEN status.failures + 1 ELSE 0

FinishFailure(p) ==
    /\ proc[p].pc = "failing"
    /\ Fail(Key(p))
    /\ alerts' = IF Counted(Key(p)) >= AlertAfter THEN alerts \cup {Key(p)} ELSE alerts
    /\ Sleep(p)
    /\ UNCHANGED <<now, effects>>

\* finish_failure raises out of run_worker_once, its transaction committed or
\* not; no alert is sent.
FinishFailureRaises(p) ==
    /\ proc[p].pc = "failing"
    /\ Fail(Key(p)) \/ UNCHANGED <<runs, status>>
    /\ Crashed(p)
    /\ UNCHANGED <<now, effects, alerts>>

-----------------------------------------------------------------------------
\* The process is killed and the platform starts it again.
Restart(p) ==
    /\ Deaths
    /\ proc' = [proc EXCEPT ![p] = Asleep(0)]
    /\ UNCHANGED <<now, runs, status, effects, alerts>>

Less(t) == IF t = 0 THEN 0 ELSE t - 1

Tick ==
    /\ now < Horizon
    /\ now' = now + 1
    /\ proc' = [p \in Processes |-> [proc[p] EXCEPT !.wake = Less(@)]]
    /\ UNCHANGED <<runs, status, effects, alerts>>

Next ==
    \/ \E p \in Processes :
         \/ Wake(p) \/ StartRun(p) \/ SkipDuplicate(p) \/ StartRaises(p)
         \/ OperationFails(p) \/ OperationSucceeds(p)
         \/ FinishSuccess(p) \/ FinishSuccessRaises(p)
         \/ FinishFailure(p) \/ FinishFailureRaises(p)
         \/ Restart(p)
    \/ Tick

Spec == Init /\ [][Next]_vars

-----------------------------------------------------------------------------
(* Properties *)

\* start_run: the operation of one cadence bucket is run by one process only,
\* however many processes wake in it, and only after its row was inserted.
OneOwner ==
    \A p, q \in Processes, b \in Buckets :
      Owns(p, b) => runs[b] # "absent" /\ (Owns(q, b) => p = q)

\* start_run: the status row describes the run attempted last among those
\* started, although a process may claim with a stale clock reading.
StatusIsNewest ==
    \A b \in Buckets : runs[b] # "absent" =>
      status.attempted_at >= 0 /\ status.key >= b

\* What the dashboard shows is the state of that run in worker_runs: the
\* summary and the ledger never contradict each other.
StatusMatchesRun ==
    status.attempted_at >= 0 =>
      runs[status.key] = CASE status.state = "running" -> "started"
                           [] status.state = "healthy" -> "completed"
                           [] status.state = "failed"  -> "failed"

\* A recorded outcome is never overwritten, neither by a late process nor by
\* the retries after a lost acknowledgement.
OutcomeIsFinal ==
    [][\A b \in Buckets :
         runs[b] \in {"completed", "failed"} => runs'[b] = runs[b]]_vars

\* consecutive_failures, for a worker with one process: the failed runs since
\* the last completed one, whatever was killed or lost in between.
FailedSince(b) == {c \in Buckets : c > b /\ runs[c] = "failed"}
FailureStreak ==
    \A b \in Buckets \cup {-1} :
      /\ b >= 0 => runs[b] = "completed"
      /\ \A c \in Buckets : c > b => runs[c] # "completed"
      => status.failures = Cardinality(FailedSince(b))

\* An alert is raised only for a run that ended a streak of AlertAfter
\* failures with no completed run among them.
AlertsAreEarned ==
    \A b \in alerts : \E first \in Buckets :
      /\ Cardinality({c \in first..b : runs[c] = "failed"}) >= AlertAfter
      /\ \A c \in first..b : runs[c] # "completed"

\* docs/railway-worker-services.md: recording the outcome runs outside the
\* operation's own retry loop, so an operation that succeeded is not run again.
OutcomeOutsideRetry ==
    [][\A b \in Buckets : effects[b] > 0 => effects'[b] = effects[b]]_vars
=============================================================================
