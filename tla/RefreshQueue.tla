---------------------------- MODULE RefreshQueue ----------------------------
(***************************************************************************)
(* The durable refresh queue of ops.source_refresh_requests: callers       *)
(* enqueue a request under an idempotency key, coordinators claim it under *)
(* a lease, run its sources and write the outcome.  The claim is one       *)
(* FOR UPDATE SKIP LOCKED statement; the two outcome statements match on   *)
(* request_id alone, so a coordinator whose lease ran out still writes.    *)
(*                                                                         *)
(* Requests stands for the idempotency keys, each of which owns at most    *)
(* one row.  Instants are kept as the ticks left until them, so that time  *)
(* can pass for ever in a finite model.                                    *)
(***************************************************************************)
EXTENDS Naturals, FiniteSets

CONSTANTS
    Requests,         \* idempotency keys
    Workers,          \* refresh coordinator processes
    None,             \* no worker, no request
    Priority,         \* priority column of each key; the smallest is claimed first
    MaxAttempts,      \* max_attempts column
    LeaseTicks,       \* lease_seconds (900) in ticks
    RetryTicks,       \* retry_delay_seconds (60) in ticks
    MaximumRequests,  \* claims per coordinator cycle
    LeaseCoversWork,  \* environment: no worker is still running when its lease ends
    Crashes,          \* environment: coordinators may die between statements
    Repeats           \* environment: callers repeat an idempotency key

ASSUME QueueAssumption ==
    /\ None \notin Workers /\ None \notin Requests
    /\ Priority \in [Requests -> Nat]
    /\ MaxAttempts \in Nat \ {0}
    /\ LeaseTicks \in Nat \ {0}
    /\ RetryTicks \in Nat
    /\ MaximumRequests \in Nat \ {0}
    /\ {LeaseCoversWork, Crashes, Repeats} \subseteq BOOLEAN

VARIABLES
    row,      \* the table, by idempotency key
    worker,   \* what each coordinator process holds in memory
    relock,   \* the row a repeated enqueue (ON CONFLICT DO UPDATE) has locked
    created   \* rows inserted so far; created_at orders them
vars == <<row, worker, relock, created>>

Status == {"absent", "queued", "running", "completed", "failed"}
Terminal == {"completed", "failed"}
Result == {"none", "clean", "errors"}
Step == {"idle", "claiming", "working"}

NoRow == [status |-> "absent", attempts |-> 0, claimed_by |-> None,
          lease |-> 0, wait |-> 0, result |-> "none", error |-> FALSE,
          created_at |-> 0]

Idle == [pc |-> "idle", budget |-> 0, request |-> None, attempt |-> 0,
         lease |-> 0]

Row == [status: Status, attempts: 0..MaxAttempts,
        claimed_by: Workers \cup {None}, lease: 0..LeaseTicks,
        wait: 0..RetryTicks, result: Result,
        error: BOOLEAN, created_at: Nat]

Process == [pc: Step, budget: 0..MaximumRequests,
            request: Requests \cup {None}, attempt: 0..MaxAttempts,
            lease: 0..LeaseTicks]

\* Rows and processes are well formed, and a working process has a request.
TypeOK ==
    /\ row \in [Requests -> Row]
    /\ worker \in [Workers -> Process]
    /\ relock \in Requests \cup {None}
    /\ created \in Nat
    /\ \A w \in Workers : worker[w].pc = "working" => worker[w].request \in Requests

Init ==
    /\ row = [r \in Requests |-> NoRow]
    /\ worker = [w \in Workers |-> Idle]
    /\ relock = None
    /\ created = 0

Working(w, r) == worker[w].pc = "working" /\ worker[w].request = r

\* Mutants of Claimable: no attempt limit, no lease test, no takeover of
\* abandoned rows.
ClaimableForever(r) ==
    \/ row[r].status = "queued" /\ row[r].wait = 0
    \/ row[r].status = "running" /\ row[r].lease = 0
ClaimableUnderLease(r) ==
    /\ \/ row[r].status = "queued" /\ row[r].wait = 0
       \/ row[r].status = "running"
    /\ row[r].attempts < MaxAttempts
ClaimableQueued(r) ==
    row[r].status = "queued" /\ row[r].wait = 0 /\ row[r].attempts < MaxAttempts

\* The WHERE clause of the claim: due or abandoned, with attempts left.
Claimable(r) ==
    /\ \/ row[r].status = "queued" /\ row[r].wait = 0
       \/ row[r].status = "running" /\ row[r].lease = 0
    /\ row[r].attempts < MaxAttempts

\* ORDER BY priority ASC, created_at ASC
MoreUrgent(q, r) ==
    \/ Priority[q] < Priority[r]
    \/ Priority[q] = Priority[r] /\ row[q].created_at < row[r].created_at

\* SKIP LOCKED leaves out the row a repeated enqueue is touching.
Candidates == {r \in Requests : Claimable(r) /\ r # relock}

-----------------------------------------------------------------------------
(* enqueue_refresh *)

EnqueueNew(r) ==
    /\ row[r].status = "absent"
    /\ row' = [row EXCEPT ![r] =
         [NoRow EXCEPT !.status = "queued", !.created_at = created]]
    /\ created' = created + 1
    /\ UNCHANGED <<worker, relock>>

\* Mutant of EnqueueAgain: the conflict queues the request once more.
EnqueueAgainResets(r) ==
    /\ Repeats
    /\ row[r].status # "absent"
    /\ relock = None
    /\ row' = [row EXCEPT ![r] = [@ EXCEPT !.status = "queued", !.wait = 0]]
    /\ relock' = r
    /\ UNCHANGED <<worker, created>>

EnqueueAgain(r) ==
    /\ Repeats
    /\ row[r].status # "absent"
    /\ relock = None
    /\ relock' = r
    /\ UNCHANGED <<row, worker, created>>

EnqueueReturns ==
    /\ relock # None
    /\ relock' = None
    /\ UNCHANGED <<row, worker, created>>

-----------------------------------------------------------------------------
(* run_refresh_cycle and process_refresh_request *)

StartCycle(w) ==
    /\ worker[w].pc = "idle"
    /\ worker' = [worker EXCEPT ![w] =
         [@ EXCEPT !.pc = "claiming", !.budget = MaximumRequests]]
    /\ UNCHANGED <<row, relock, created>>

\* Mutant of AttemptOf: taking over an abandoned row is not counted.
AttemptOfQueued(r) ==
    IF row[r].status = "queued" THEN row[r].attempts + 1 ELSE row[r].attempts

AttemptOf(r) == row[r].attempts + 1

Claim(w) ==
    /\ worker[w].pc = "claiming"
    /\ worker[w].budget > 0
    /\ \E r \in Candidates :
         /\ \A q \in Candidates : ~MoreUrgent(q, r)
         /\ row' = [row EXCEPT ![r] =
              [@ EXCEPT !.status = "running", !.claimed_by = w,
                        !.lease = LeaseTicks, !.attempts = AttemptOf(r),
                        !.error = FALSE]]
         /\ worker' = [worker EXCEPT ![w] =
              [pc |-> "working", budget |-> worker[w].budget - 1, request |-> r,
               attempt |-> AttemptOf(r), lease |-> LeaseTicks]]
    /\ UNCHANGED <<relock, created>>

\* Out of budget, or the claim returned no row.
EndCycle(w) ==
    /\ worker[w].pc = "claiming"
    /\ worker[w].budget = 0 \/ Candidates = {}
    /\ worker' = [worker EXCEPT ![w] = Idle]
    /\ UNCHANGED <<row, relock, created>>

NextClaim(w) ==
    worker' = [worker EXCEPT ![w] =
         [Idle EXCEPT !.pc = "claiming", !.budget = worker[w].budget]]

\* finish_refresh: every requested source succeeded.
Finish(w) ==
    LET r == worker[w].request IN
    /\ worker[w].pc = "working"
    /\ r # relock
    /\ row' = [row EXCEPT ![r] =
         [@ EXCEPT !.status = "completed", !.lease = 0, !.result = "clean",
                   !.error = FALSE]]
    /\ NextClaim(w)
    /\ UNCHANGED <<relock, created>>

\* Mutants of StatusAfterFailure: one failure is final; one try too few.
FailsAtOnce(r) == "failed"
AlwaysRequeues(r) == "queued"

StatusAfterFailure(r) ==
    IF row[r].attempts < MaxAttempts THEN "queued" ELSE "failed"

\* record_refresh_failure: at least one source raised.
RecordFailure(w) ==
    LET r == worker[w].request IN
    /\ worker[w].pc = "working"
    /\ r # relock
    /\ row' = [row EXCEPT ![r] =
         [@ EXCEPT !.status = StatusAfterFailure(r), !.wait = RetryTicks,
                   !.lease = 0, !.result = "errors", !.error = TRUE]]
    /\ NextClaim(w)
    /\ UNCHANGED <<relock, created>>

\* The process dies, or a statement raises out of run_refresh_cycle: nothing
\* is released, the row keeps its claim.
Crash(w) ==
    /\ Crashes
    /\ worker[w].pc # "idle"
    /\ worker' = [worker EXCEPT ![w] = Idle]
    /\ UNCHANGED <<row, relock, created>>

-----------------------------------------------------------------------------
Less(t) == IF t = 0 THEN 0 ELSE t - 1

\* Time passes.  LeaseCoversWork is the deployment assumption that a cycle is
\* never still working when the lease it was granted runs out.
Tick ==
    /\ LeaseCoversWork =>
         \A w \in Workers : worker[w].pc = "working" => worker[w].lease > 1
    /\ row' = [r \in Requests |->
                 [row[r] EXCEPT !.lease = Less(@), !.wait = Less(@)]]
    /\ worker' = [w \in Workers |-> [worker[w] EXCEPT !.lease = Less(@)]]
    /\ UNCHANGED <<relock, created>>

Next ==
    \/ \E r \in Requests : EnqueueNew(r) \/ EnqueueAgain(r)
    \/ EnqueueReturns
    \/ \E w \in Workers :
         \/ StartCycle(w) \/ Claim(w) \/ EndCycle(w)
         \/ Finish(w) \/ RecordFailure(w) \/ Crash(w)
    \/ Tick

Spec == Init /\ [][Next]_vars

(***************************************************************************)
(* Fairness.  PostgreSQL releases a row lock when its statement ends; time *)
(* passes; the scheduler keeps starting coordinators, a coordinator that   *)
(* stays alive finishes its sources (each has a client timeout) and writes *)
(* the outcome.  Claim is strongly fair because a crash may end a cycle    *)
(* before its claim.  (With Repeats a caller that keeps a row locked at    *)
(* every claim could starve it: the runs under FairSpec take it FALSE.)    *)
(***************************************************************************)
Fairness ==
    /\ WF_vars(EnqueueReturns)
    /\ WF_vars(Tick)
    /\ \A w \in Workers :
         /\ WF_vars(StartCycle(w))
         /\ SF_vars(Claim(w))
         /\ WF_vars(EndCycle(w))
         /\ SF_vars(Finish(w) \/ RecordFailure(w))

FairSpec == Spec /\ Fairness

-----------------------------------------------------------------------------
(* Properties *)

\* claim_refresh: attempt_count numbers the claims of a request, so no two
\* coordinators ever hold the same request under the same attempt number,
\* and only the holder of the newest number is named by claimed_by.
ClaimTokens ==
    \A r \in Requests, v, w \in Workers :
      Working(v, r) =>
        /\ worker[v].attempt <= row[r].attempts
        /\ worker[v].attempt = row[r].attempts => row[r].claimed_by = v
        /\ Working(w, r) /\ v # w => worker[v].attempt # worker[w].attempt

\* record_refresh_failure: a request is given up only when it has no attempt
\* left; until then its row says whether it waits for a retry.
GivesUpLast ==
    \A r \in Requests :
      /\ row[r].status = "failed" => row[r].attempts = MaxAttempts
      /\ row[r].status = "queued" =>
           /\ row[r].attempts < MaxAttempts
           /\ row[r].error <=> row[r].attempts > 0

\* get_refresh: what a reader is shown fits the status.  A completed request
\* shows the result of a run in which no source failed, a running one shows
\* no error of an earlier attempt, a row without a live claim shows no lease.
OutcomeFitsStatus ==
    \A r \in Requests :
      /\ row[r].status = "completed" => row[r].result = "clean" /\ ~row[r].error
      /\ row[r].status = "failed" => row[r].result = "errors" /\ row[r].error
      /\ row[r].status = "running" => ~row[r].error /\ row[r].attempts > 0
      /\ row[r].status # "running" => row[r].lease = 0

\* The lease: two coordinators never run the sources of one request at the
\* same time.  Holds when every cycle ends within its lease.
ExclusiveWork ==
    \A r \in Requests, v, w \in Workers :
      Working(v, r) /\ Working(w, r) => v = w

\* What ExclusiveWork rests on: a coordinator at work is the claimant the row
\* names, under the attempt and the lease the row shows.
HoldsItsClaim ==
    \A r \in Requests, w \in Workers :
      Working(w, r) =>
        /\ row[r].status = "running" /\ row[r].claimed_by = w
        /\ row[r].attempts = worker[w].attempt
        /\ row[r].lease = worker[w].lease /\ row[r].lease > 0

\* finish_refresh, record_refresh_failure: an outcome is written only by the
\* coordinator that holds the request's current claim.
OwnedBy(w, r) ==
    /\ row[r].status = "running" /\ row[r].claimed_by = w
    /\ Working(w, r) /\ worker[w].attempt = row[r].attempts

Rewritten(r) ==
    /\ row[r].status # "absent"
    /\ \/ row'[r].status # row[r].status /\ row'[r].status # "running"
       \/ row'[r].result # row[r].result
       \/ row'[r].wait > row[r].wait

OwnerWritesOutcome ==
    [][\A r \in Requests : Rewritten(r) => \E w \in Workers : OwnedBy(w, r)]_vars

\* A completed or failed request is never queued, claimed or rewritten again.
TerminalIsFinal ==
    [][\A r \in Requests :
         row[r].status \in Terminal =>
           /\ row'[r].status = row[r].status
           /\ row'[r].result = row[r].result
           /\ row'[r].attempts = row[r].attempts]_vars

\* The coordinator that made the last attempt died: the attempt limit of the
\* claim shuts out every takeover.
Stranded(r) ==
    /\ row[r].status = "running" /\ row[r].attempts = MaxAttempts
    /\ row[r].lease = 0
    /\ \A w \in Workers : ~Working(w, r)

\* Every request is completed or failed in the end, however often it fails,
\* overruns a lease or loses its coordinator, and whatever its priority; only
\* a coordinator that dies on the last attempt leaves it running for ever.
EveryRequestSettles ==
    \A r \in Requests :
      row[r].status = "queued" ~> row[r].status \in Terminal \/ Stranded(r)
=============================================================================
