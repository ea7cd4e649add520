------------------------- MODULE RefreshQueueProofs -------------------------
(* Theorems about the refresh queue, for every set of requests and workers  *)
(* and every value of the limits.                                           *)
EXTENDS RefreshQueue, TLAPS

-----------------------------------------------------------------------------
(* Type correctness *)

LEMMA Constant ==
    /\ NoRow \in Row /\ Idle \in Process
    /\ 0 \in 0..LeaseTicks /\ LeaseTicks \in 0..LeaseTicks
    /\ RetryTicks \in 0..RetryTicks
    /\ MaximumRequests \in 0..MaximumRequests
    /\ {"absent", "queued", "running", "completed", "failed"} \subseteq Status
    /\ {"none", "clean", "errors"} \subseteq Result
    /\ {"idle", "claiming", "working"} \subseteq Step
  BY QueueAssumption
     DEF QueueAssumption, NoRow, Row, Status, Result, Idle, Process, Step

\* The record updates of the actions keep rows and processes well formed.
LEMMA EnqueuedRow ==
  ASSUME NEW x \in Row, NEW s \in Status, NEW c \in Nat
  PROVE  [x EXCEPT !.status = s, !.created_at = c] \in Row
  BY DEF Row

\* A request that is claimed stays well-formed,
LEMMA ClaimedRow ==
  ASSUME NEW x \in Row, NEW s \in Status, NEW w \in Workers,
         NEW l \in 0..LeaseTicks, NEW n \in 0..MaxAttempts, NEW e \in BOOLEAN
  PROVE  [x EXCEPT !.status = s, !.claimed_by = w, !.lease = l,
                   !.attempts = n, !.error = e] \in Row
  BY DEF Row

\* and so does one that is finished,
LEMMA FinishedRow ==
  ASSUME NEW x \in Row, NEW s \in Status, NEW l \in 0..LeaseTicks,
         NEW v \in Result, NEW e \in BOOLEAN
  PROVE  [x EXCEPT !.status = s, !.lease = l, !.result = v, !.error = e] \in Row
  BY DEF Row

\* one whose attempt failed,
LEMMA FailedRow ==
  ASSUME NEW x \in Row, NEW s \in Status, NEW d \in 0..RetryTicks,
         NEW l \in 0..LeaseTicks, NEW v \in Result, NEW e \in BOOLEAN
  PROVE  [x EXCEPT !.status = s, !.wait = d, !.lease = l, !.result = v,
                   !.error = e] \in Row
  BY DEF Row

\* and one whose lease or retry delay runs down.
LEMMA AgedRow ==
  ASSUME NEW x \in Row, NEW l \in 0..LeaseTicks, NEW d \in 0..RetryTicks
  PROVE  [x EXCEPT !.lease = l, !.wait = d] \in Row
  BY DEF Row

\* The updates of a coordinator keep it well-formed.
LEMMA ProcessUpdates ==
  ASSUME NEW x \in Process, NEW s \in Step, NEW b \in 0..MaximumRequests,
         NEW l \in 0..LeaseTicks
  PROVE  /\ [x EXCEPT !.pc = s, !.budget = b] \in Process
         /\ [x EXCEPT !.lease = l] \in Process
  BY DEF Process

\* The types of the fields of a request and of a coordinator.
LEMMA FieldTypes ==
  /\ \A x \in Row :
       /\ x.status \in Status /\ x.attempts \in 0..MaxAttempts
       /\ x.lease \in 0..LeaseTicks /\ x.wait \in 0..RetryTicks
       /\ x.created_at \in Nat
  /\ \A p \in Process :
       /\ p.pc \in Step /\ p.budget \in 0..MaximumRequests
       /\ p.attempt \in 0..MaxAttempts /\ p.lease \in 0..LeaseTicks
  BY DEF Row, Process

\* A delay that runs down stays within its bound.
LEMMA LessTyped ==
  ASSUME NEW n \in Nat, NEW t \in 0..n PROVE Less(t) \in 0..n
  BY DEF Less

\* The types hold in an empty queue.
LEMMA InitTypeOK == Init => TypeOK
  BY Constant DEF Init, TypeOK, Idle

\* After an outcome the coordinator goes back to claiming, well formed.
LEMMA NextClaimTyped ==
  ASSUME TypeOK, NEW w \in Workers, NextClaim(w)
  PROVE  /\ worker' \in [Workers -> Process]
         /\ \A v \in Workers : worker'[v].pc = "working" => worker'[v].request \in Requests
<1>1. [Idle EXCEPT !.pc = "claiming", !.budget = worker[w].budget] \in Process
  BY Constant, FieldTypes, ProcessUpdates DEF TypeOK
<1> QED
  BY <1>1 DEF NextClaim, TypeOK, Idle

\* Every step keeps the types.
LEMMA NextTypeOK == TypeOK /\ [Next]_vars => TypeOK'
<1> SUFFICES ASSUME TypeOK, [Next]_vars PROVE TypeOK'
  OBVIOUS
<1> USE DEF TypeOK
<1>1. ASSUME NEW r \in Requests, EnqueueNew(r) PROVE TypeOK'
  <2>1. "queued" \in Status /\ created \in Nat /\ NoRow \in Row
    BY Constant
  <2>2. [NoRow EXCEPT !.status = "queued", !.created_at = created] \in Row
    BY <2>1, EnqueuedRow
  <2> QED
    BY <1>1, <2>2 DEF EnqueueNew
<1>2. ASSUME NEW r \in Requests, EnqueueAgain(r) PROVE TypeOK'
  BY <1>2 DEF EnqueueAgain
<1>3. CASE EnqueueReturns
  BY <1>3 DEF EnqueueReturns
<1>4. ASSUME NEW w \in Workers, StartCycle(w) PROVE TypeOK'
  <2>1. [worker[w] EXCEPT !.pc = "claiming", !.budget = MaximumRequests] \in Process
    BY Constant, ProcessUpdates
  <2> QED
    BY <1>4, <2>1 DEF StartCycle, Process
<1>5. ASSUME NEW w \in Workers, Claim(w) PROVE TypeOK'
  <2>1. PICK r \in Candidates :
        /\ row' = [row EXCEPT ![r] =
              [@ EXCEPT !.status = "running", !.claimed_by = w,
                        !.lease = LeaseTicks, !.attempts = AttemptOf(r),
                        !.error = FALSE]]
        /\ worker' = [worker EXCEPT ![w] =
              [pc |-> "working", budget |-> worker[w].budget - 1, request |-> r,
               attempt |-> AttemptOf(r), lease |-> LeaseTicks]]
    BY <1>5, Zenon DEF Claim
  <2>2. r \in Requests /\ AttemptOf(r) \in 0..MaxAttempts
    BY FieldTypes, QueueAssumption
       DEF QueueAssumption, Candidates, Claimable, AttemptOf
  <2>3. worker[w].budget - 1 \in 0..MaximumRequests
    BY <1>5, FieldTypes, QueueAssumption DEF QueueAssumption, Claim
  <2>4. row' \in [Requests -> Row]
    BY <2>1, <2>2, Constant, ClaimedRow
  <2>5. worker' \in [Workers -> Process]
    BY <2>1, <2>2, <2>3, Constant DEF Process
  <2>6. \A v \in Workers : worker'[v].pc = "working" => worker'[v].request \in Requests
    BY <2>1, <2>2
  <2> QED
    BY <1>5, <2>4, <2>5, <2>6 DEF Claim
<1>6. ASSUME NEW w \in Workers, EndCycle(w) PROVE TypeOK'
  BY <1>6, Constant DEF EndCycle, Idle
<1>7. ASSUME NEW w \in Workers, Finish(w) PROVE TypeOK'
  <2> DEFINE r == worker[w].request
  <2>1. r \in Requests
    BY <1>7 DEF Finish
  <2>2. [row[r] EXCEPT !.status = "completed", !.lease = 0,
                       !.result = "clean", !.error = FALSE] \in Row
    BY <2>1, Constant, FinishedRow
  <2>3. row' \in [Requests -> Row]
    BY <1>7, <2>1, <2>2 DEF Finish
  <2> QED
    BY <1>7, <2>3, NextClaimTyped DEF Finish
<1>8. ASSUME NEW w \in Workers, RecordFailure(w) PROVE TypeOK'
  <2> DEFINE r == worker[w].request
  <2>1. r \in Requests /\ StatusAfterFailure(r) \in Status
    BY <1>8, Constant DEF RecordFailure, StatusAfterFailure
  <2>2. [row[r] EXCEPT !.status = StatusAfterFailure(r), !.wait = RetryTicks,
                       !.lease = 0, !.result = "errors", !.error = TRUE] \in Row
    BY <2>1, Constant, FailedRow
  <2>3. row' \in [Requests -> Row]
    BY <1>8, <2>1, <2>2 DEF RecordFailure
  <2> QED
    BY <1>8, <2>3, NextClaimTyped DEF RecordFailure
<1>9. ASSUME NEW w \in Workers, Crash(w) PROVE TypeOK'
  BY <1>9, Constant DEF Crash, Idle
<1>10. CASE Tick
  <2>1. \A r \in Requests : [row[r] EXCEPT !.lease = Less(@), !.wait = Less(@)] \in Row
    <3> TAKE r \in Requests
    <3>1. row[r] \in Row /\ Less(row[r].lease) \in 0..LeaseTicks
                        /\ Less(row[r].wait) \in 0..RetryTicks
      BY FieldTypes, LessTyped, QueueAssumption DEF QueueAssumption
    <3> QED
      BY <3>1, AgedRow
  <2>2. \A w \in Workers : [worker[w] EXCEPT !.lease = Less(@)] \in Process
    BY FieldTypes, LessTyped, ProcessUpdates, QueueAssumption DEF QueueAssumption
  <2>3. \A w \in Workers : /\ worker'[w].pc = worker[w].pc
                           /\ worker'[w].request = worker[w].request
    BY <1>10 DEF Tick, Process
  <2> QED
    BY <1>10, <2>1, <2>2, <2>3 DEF Tick
<1>11. CASE UNCHANGED vars
  BY <1>11 DEF vars
<1> QED
  BY <1>1, <1>2, <1>3, <1>4, <1>5, <1>6, <1>7, <1>8, <1>9, <1>10, <1>11 DEF Next

\* The rows and the processes are well formed in every reachable state.
THEOREM TypeCorrect == Spec => []TypeOK
<1>1. Init => TypeOK
  BY InitTypeOK
<1>2. TypeOK /\ [Next]_vars => TypeOK'
  BY NextTypeOK
<1> QED
  BY <1>1, <1>2, PTL DEF Spec

-----------------------------------------------------------------------------
(* The lease *)

\* What an outcome does to the coordinators: w works no more, the others go on.
LEMMA NextClaimFrees ==
  ASSUME TypeOK, NEW w \in Workers, NextClaim(w)
  PROVE  /\ worker'[w].pc = "claiming"
         /\ \A v \in Workers : v # w => worker'[v] = worker[v]
  BY DEF NextClaim, TypeOK, Process, Idle

\* The claimant of a row is the only coordinator at work on it.
LEMMA ClaimIsExclusive == HoldsItsClaim => ExclusiveWork
  BY DEF HoldsItsClaim, ExclusiveWork

\* No coordinator works on anything at first.
LEMMA InitHolds == Init => HoldsItsClaim
  BY DEF Init, HoldsItsClaim, Working, Idle

\* When leases cover the work, every step leaves each coordinator at work the
\* owner of the request it works on.
LEMMA NextHolds ==
  ASSUME LeaseCoversWork, TypeOK, HoldsItsClaim, [Next]_vars
  PROVE  HoldsItsClaim'
<1> DEFINE Holds(w, r) ==
        /\ row[r].status = "running" /\ row[r].claimed_by = w
        /\ row[r].attempts = worker[w].attempt
        /\ row[r].lease = worker[w].lease /\ row[r].lease > 0
<1> SUFFICES ASSUME NEW r \in Requests, NEW w \in Workers, Working(w, r)'
             PROVE  Holds(w, r)'
  BY DEF HoldsItsClaim
<1>0. Working(w, r) => Holds(w, r)
  BY DEF HoldsItsClaim
<1> USE DEF Working, TypeOK
<1>1. ASSUME NEW q \in Requests, EnqueueNew(q) PROVE Holds(w, r)'
  <2>1. r # q
    BY <1>0, <1>1 DEF EnqueueNew
  <2> QED
    BY <1>0, <1>1, <2>1 DEF EnqueueNew
<1>2. ASSUME NEW q \in Requests, EnqueueAgain(q) PROVE Holds(w, r)'
  BY <1>0, <1>2 DEF EnqueueAgain
<1>3. CASE EnqueueReturns
  BY <1>0, <1>3 DEF EnqueueReturns
<1>4. ASSUME NEW v \in Workers, StartCycle(v) PROVE Holds(w, r)'
  BY <1>0, <1>4 DEF StartCycle, Process
<1>5. ASSUME NEW v \in Workers, Claim(v) PROVE Holds(w, r)'
  <2>1. PICK q \in Candidates :
        /\ row' = [row EXCEPT ![q] =
              [@ EXCEPT !.status = "running", !.claimed_by = v,
                        !.lease = LeaseTicks, !.attempts = AttemptOf(q),
                        !.error = FALSE]]
        /\ worker' = [worker EXCEPT ![v] =
              [pc |-> "working", budget |-> worker[v].budget - 1, request |-> q,
               attempt |-> AttemptOf(q), lease |-> LeaseTicks]]
    BY <1>5, Zenon DEF Claim
  <2>2. CASE v = w
    <3>1. r = q
      BY <2>1, <2>2
    <3> QED
      BY <2>1, <2>2, <3>1, QueueAssumption DEF QueueAssumption, Row, Candidates
  <2>3. CASE v # w
    <3>1. Working(w, r) /\ worker'[w] = worker[w]
      BY <2>1, <2>3
    <3>2. r # q
      BY <1>0, <3>1 DEF Candidates, Claimable
    <3> QED
      BY <1>0, <2>1, <3>1, <3>2
  <2> QED
    BY <2>2, <2>3
<1>6. ASSUME NEW v \in Workers, EndCycle(v) PROVE Holds(w, r)'
  BY <1>0, <1>6 DEF EndCycle, Idle
<1>7. ASSUME NEW v \in Workers, Finish(v) PROVE Holds(w, r)'
  <2>1. w # v /\ worker'[w] = worker[w]
    BY <1>7, NextClaimFrees DEF Finish
  <2>2. worker[v].request # r
    BY <1>0, <1>7, <2>1 DEF HoldsItsClaim, Finish
  <2> QED
    BY <1>0, <1>7, <2>1, <2>2 DEF Finish
<1>8. ASSUME NEW v \in Workers, RecordFailure(v) PROVE Holds(w, r)'
  <2>1. w # v /\ worker'[w] = worker[w]
    BY <1>8, NextClaimFrees DEF RecordFailure
  <2>2. worker[v].request # r
    BY <1>0, <1>8, <2>1 DEF HoldsItsClaim, RecordFailure
  <2> QED
    BY <1>0, <1>8, <2>1, <2>2 DEF RecordFailure
<1>9. ASSUME NEW v \in Workers, Crash(v) PROVE Holds(w, r)'
  BY <1>0, <1>9 DEF Crash, Idle
<1>10. CASE Tick
  <2>1. Working(w, r) /\ worker[w].lease > 1
    BY <1>10 DEF Tick, Process
  <2>2. /\ row'[r] = [row[r] EXCEPT !.lease = Less(@), !.wait = Less(@)]
        /\ worker'[w] = [worker[w] EXCEPT !.lease = Less(@)]
        /\ row[r] \in Row /\ worker[w] \in Process
    BY <1>10 DEF Tick
  <2>3. /\ row'[r].status = row[r].status /\ row'[r].claimed_by = row[r].claimed_by
        /\ row'[r].attempts = row[r].attempts /\ row'[r].lease = Less(row[r].lease)
        /\ worker'[w].attempt = worker[w].attempt
        /\ worker'[w].lease = Less(worker[w].lease)
    BY <2>2 DEF Row, Process
  <2> QED
    BY <1>0, <2>1, <2>3, FieldTypes DEF Less
<1>11. CASE UNCHANGED vars
  BY <1>0, <1>11 DEF vars
<1> QED
  BY <1>1, <1>2, <1>3, <1>4, <1>5, <1>6, <1>7, <1>8, <1>9, <1>10, <1>11 DEF Next

\* The lease, finish_refresh and record_refresh_failure: when every cycle ends
\* within its lease, a working coordinator holds the claim its row shows ...
THEOREM LeaseHeld == ASSUME LeaseCoversWork PROVE Spec => []HoldsItsClaim
<1>1. Init => TypeOK /\ HoldsItsClaim
  BY InitTypeOK, InitHolds
<1>2. TypeOK /\ HoldsItsClaim /\ [Next]_vars => (TypeOK /\ HoldsItsClaim)'
  BY NextTypeOK, NextHolds
<1> QED
  BY <1>1, <1>2, PTL DEF Spec

\* ... so the sources of a request are never run by two coordinators at once.
THEOREM LeaseExcludes == ASSUME LeaseCoversWork PROVE Spec => []ExclusiveWork
  BY LeaseHeld, ClaimIsExclusive, PTL

-----------------------------------------------------------------------------
(* Outcomes under the lease *)

\* The steps that change a row, and what they leave alone.
LEMMA RowSteps ==
  ASSUME TypeOK, [Next]_vars, NEW r \in Requests
  PROVE  \/ row'[r] = row[r]
         \/ row[r].status = "absent" /\ EnqueueNew(r)
         \/ \E w \in Workers : Claim(w) /\ Claimable(r) /\ row'[r] =
              [row[r] EXCEPT !.status = "running", !.claimed_by = w,
                        !.lease = LeaseTicks, !.attempts = AttemptOf(r),
                        !.error = FALSE]
         \/ \E w \in Workers : Working(w, r) /\ row'[r] =
              [row[r] EXCEPT !.status = "completed", !.lease = 0,
                        !.result = "clean", !.error = FALSE]
         \/ \E w \in Workers : Working(w, r) /\ row'[r] =
              [row[r] EXCEPT !.status = StatusAfterFailure(r),
                   !.wait = RetryTicks, !.lease = 0, !.result = "errors",
                   !.error = TRUE]
         \/ row'[r] = [row[r] EXCEPT !.lease = Less(@), !.wait = Less(@)]
<1> USE DEF TypeOK
<1>1. ASSUME NEW q \in Requests, EnqueueNew(q) PROVE row'[r] = row[r] \/ q = r
  BY <1>1 DEF EnqueueNew
<1>2. ASSUME NEW w \in Workers, Claim(w)
      PROVE  \/ row'[r] = row[r]
             \/ Claimable(r) /\ row'[r] =
                 [row[r] EXCEPT !.status = "running", !.claimed_by = w,
                        !.lease = LeaseTicks, !.attempts = AttemptOf(r),
                        !.error = FALSE]
  BY <1>2 DEF Claim, Candidates
<1>3. ASSUME NEW w \in Workers, Finish(w)
      PROVE  \/ row'[r] = row[r]
             \/ Working(w, r) /\ row'[r] =
                 [row[r] EXCEPT !.status = "completed", !.lease = 0,
                        !.result = "clean", !.error = FALSE]
  BY <1>3 DEF Finish, Working
<1>4. ASSUME NEW w \in Workers, RecordFailure(w)
      PROVE  \/ row'[r] = row[r]
             \/ Working(w, r) /\ row'[r] =
                 [row[r] EXCEPT !.status = StatusAfterFailure(r),
                   !.wait = RetryTicks, !.lease = 0, !.result = "errors",
                   !.error = TRUE]
  BY <1>4 DEF RecordFailure, Working
<1>5. ASSUME Tick PROVE row'[r] = [row[r] EXCEPT !.lease = Less(@), !.wait = Less(@)]
  BY <1>5 DEF Tick
<1>6. ASSUME \/ \E q \in Requests : EnqueueAgain(q)
             \/ EnqueueReturns \/ UNCHANGED vars
             \/ \E w \in Workers : StartCycle(w) \/ EndCycle(w) \/ Crash(w)
      PROVE  row'[r] = row[r]
  BY <1>6 DEF EnqueueAgain, EnqueueReturns, vars, StartCycle, EndCycle, Crash
<1> QED
  BY <1>1, <1>2, <1>3, <1>4, <1>5, <1>6 DEF Next, EnqueueNew

\* A coordinator at work finds its own claim in the row it is about to write.
LEMMA WorkerOwns ==
  ASSUME HoldsItsClaim, NEW r \in Requests, NEW w \in Workers, Working(w, r)
  PROVE  OwnedBy(w, r) /\ row[r].status = "running"
  BY DEF HoldsItsClaim, OwnedBy, Working

\* finish_refresh, record_refresh_failure: within the lease, an outcome is
\* written only by the coordinator that holds the request's current claim.
THEOREM OwnerWrites == ASSUME LeaseCoversWork PROVE Spec => OwnerWritesOutcome
<1>1. ASSUME TypeOK, HoldsItsClaim, [Next]_vars, NEW r \in Requests, Rewritten(r)
      PROVE  \E w \in Workers : OwnedBy(w, r)
  <2>1. row[r] \in Row /\ row[r].wait \in Nat
    BY <1>1, FieldTypes, QueueAssumption DEF QueueAssumption, TypeOK
  <2>2. CASE \E w \in Workers : Working(w, r)
    BY <1>1, <2>2, WorkerOwns
  <2>3. CASE row'[r] = row[r]
    BY <1>1, <2>1, <2>3 DEF Rewritten
  <2>4. CASE row[r].status = "absent"
    BY <1>1, <2>4 DEF Rewritten
  <2>5. CASE \E w \in Workers : row'[r] =
              [row[r] EXCEPT !.status = "running", !.claimed_by = w,
                        !.lease = LeaseTicks, !.attempts = AttemptOf(r),
                        !.error = FALSE]
    <3>1. row'[r].status = "running" /\ row'[r].result = row[r].result
                                     /\ row'[r].wait = row[r].wait
      BY <2>1, <2>5 DEF Row
    <3> QED
      BY <1>1, <2>1, <3>1, FieldTypes DEF Rewritten
  <2>6. CASE row'[r] = [row[r] EXCEPT !.lease = Less(@), !.wait = Less(@)]
    <3>1. row'[r].status = row[r].status /\ row'[r].result = row[r].result
                                        /\ row'[r].wait = Less(row[r].wait)
      BY <2>1, <2>6 DEF Row
    <3>2. ~(row'[r].wait > row[r].wait)
      BY <2>1, <3>1 DEF Less
    <3> QED
      BY <1>1, <3>1, <3>2 DEF Rewritten
  <2> QED
    BY <1>1, <2>2, <2>3, <2>4, <2>5, <2>6, RowSteps, Zenon
<1>2. TypeOK /\ HoldsItsClaim /\ [Next]_vars =>
        [\A r \in Requests : Rewritten(r) => \E w \in Workers : OwnedBy(w, r)]_vars
  BY <1>1
<1> QED
  BY <1>2, TypeCorrect, LeaseHeld, PTL DEF Spec, OwnerWritesOutcome

\* A completed or failed request is never queued, claimed or rewritten again,
\* as long as every cycle ends within its lease.
THEOREM TerminalStays == ASSUME LeaseCoversWork PROVE Spec => TerminalIsFinal
<1>1. ASSUME TypeOK, HoldsItsClaim, [Next]_vars, NEW r \in Requests,
             row[r].status \in Terminal
      PROVE  /\ row'[r].status = row[r].status
             /\ row'[r].result = row[r].result
             /\ row'[r].attempts = row[r].attempts
  <2>1. row[r] \in Row
    BY <1>1 DEF TypeOK
  <2>2. row[r].status # "absent" /\ ~Claimable(r) /\ \A w \in Workers : ~Working(w, r)
    BY <1>1, WorkerOwns DEF Terminal, Claimable
  <2>3. CASE row'[r] = [row[r] EXCEPT !.lease = Less(@), !.wait = Less(@)]
    BY <2>1, <2>3 DEF Row
  <2> QED
    BY <1>1, <2>2, <2>3, RowSteps, Zenon
<1>2. TypeOK /\ HoldsItsClaim /\ [Next]_vars =>
        [\A r \in Requests :
           row[r].status \in Terminal =>
             /\ row'[r].status = row[r].status
             /\ row'[r].result = row[r].result
             /\ row'[r].attempts = row[r].attempts]_vars
  BY <1>1
<1> QED
  BY <1>2, TypeCorrect, LeaseHeld, PTL DEF Spec, TerminalIsFinal

-----------------------------------------------------------------------------
(* Claims and outcomes with overruns and crashes *)

\* The inductive invariant behind ClaimTokens and GivesUpLast: a coordinator
\* at work was counted when it claimed, and an absent row has counted nobody.
Counted ==
    /\ \A w \in Workers : worker[w].pc = "working" => worker[w].attempt > 0
    /\ \A r \in Requests : row[r].status = "absent" => row[r].attempts = 0

QueueInv == TypeOK /\ ClaimTokens /\ Counted /\ GivesUpLast /\ OutcomeFitsStatus

\* How a step moves a coordinator that is at work after it.
LEMMA WorkerSteps ==
  ASSUME TypeOK, [Next]_vars, NEW w \in Workers, NEW r \in Requests, Working(w, r)'
  PROVE  \/ /\ Working(w, r) /\ worker'[w].attempt = worker[w].attempt
         \/ /\ Claim(w) /\ Claimable(r)
            /\ row'[r] = [row[r] EXCEPT !.status = "running", !.claimed_by = w,
                            !.lease = LeaseTicks, !.attempts = AttemptOf(r),
                            !.error = FALSE]
            /\ worker'[w].attempt = AttemptOf(r)
            /\ \A v \in Workers : v # w => worker'[v] = worker[v]
<1> USE DEF TypeOK, Working
<1>1. CASE worker'[w] = worker[w]
  BY <1>1
<1>2. ASSUME Claim(w)
      PROVE  /\ Claimable(r)
             /\ row'[r] = [row[r] EXCEPT !.status = "running", !.claimed_by = w,
                             !.lease = LeaseTicks, !.attempts = AttemptOf(r),
                             !.error = FALSE]
             /\ worker'[w].attempt = AttemptOf(r)
             /\ \A v \in Workers : v # w => worker'[v] = worker[v]
  BY <1>2 DEF Claim, Candidates
<1>3. ASSUME NEW v \in Workers, v # w,
             \/ StartCycle(v) \/ Claim(v) \/ EndCycle(v) \/ Finish(v)
             \/ RecordFailure(v) \/ Crash(v)
      PROVE  worker'[w] = worker[w]
  BY <1>3 DEF StartCycle, Claim, EndCycle, Finish, RecordFailure, NextClaim, Crash
<1>4. ~(StartCycle(w) \/ EndCycle(w) \/ Finish(w) \/ RecordFailure(w) \/ Crash(w))
  <2>1. ~StartCycle(w)
    BY DEF StartCycle, Process
  <2>2. ~EndCycle(w) /\ ~Crash(w)
    BY DEF EndCycle, Crash, Idle
  <2>3. ~Finish(w) /\ ~RecordFailure(w)
    BY NextClaimFrees DEF Finish, RecordFailure
  <2> QED
    BY <2>1, <2>2, <2>3
<1>5. CASE Tick
  <2>1. worker'[w] = [worker[w] EXCEPT !.lease = Less(@)] /\ worker[w] \in Process
    BY <1>5 DEF Tick
  <2> QED
    BY <2>1 DEF Process
<1>6. ASSUME \/ \E q \in Requests : EnqueueNew(q) \/ EnqueueAgain(q)
             \/ EnqueueReturns \/ UNCHANGED vars
      PROVE  worker'[w] = worker[w]
  BY <1>6 DEF EnqueueNew, EnqueueAgain, EnqueueReturns, vars
<1> QED
  BY <1>1, <1>2, <1>3, <1>4, <1>5, <1>6 DEF Next

\* The invariant of the queue holds in an empty queue.
LEMMA InitQueueInv == Init => QueueInv
<1> SUFFICES ASSUME Init PROVE ClaimTokens /\ Counted /\ GivesUpLast /\ OutcomeFitsStatus
  BY InitTypeOK DEF QueueInv
<1> QED
  BY DEF Init, NoRow, Idle, Working, ClaimTokens, Counted, GivesUpLast,
         OutcomeFitsStatus

\* RowSteps, field by field.
Same(r) == row'[r] = row[r]

Enqueued(r) ==
    /\ row[r].status = "absent" /\ row'[r].status = "queued"
    /\ row'[r].attempts = 0 /\ row'[r].lease = 0 /\ ~row'[r].error

Claimed(w, r) ==
    /\ Claimable(r) /\ row'[r].status = "running"
    /\ row'[r].claimed_by = w /\ row'[r].attempts = row[r].attempts + 1
    /\ ~row'[r].error

Settled(w, r) ==
    /\ Working(w, r) /\ row'[r].attempts = row[r].attempts
    /\ row'[r].claimed_by = row[r].claimed_by /\ row'[r].lease = 0
    /\ \/ /\ row'[r].status = "completed"
          /\ row'[r].result = "clean" /\ ~row'[r].error
       \/ /\ row'[r].status = StatusAfterFailure(r)
          /\ row'[r].result = "errors" /\ row'[r].error

Aged(r) ==
    /\ row'[r].status = row[r].status /\ row'[r].attempts = row[r].attempts
    /\ row'[r].claimed_by = row[r].claimed_by
    /\ row'[r].result = row[r].result /\ (row'[r].error = row[r].error)
    /\ row'[r].lease = Less(row[r].lease)

\* What one step does to one request: nothing, or one of the five operations.
LEMMA RowFields ==
  ASSUME TypeOK, [Next]_vars, NEW r \in Requests
  PROVE  \/ Same(r) \/ Enqueued(r) \/ Aged(r)
         \/ \E w \in Workers : Claim(w) /\ Claimed(w, r)
         \/ \E w \in Workers : Settled(w, r)
<1>0. row[r] \in Row
  BY DEF TypeOK
<1>1. CASE row'[r] = row[r]
  BY <1>1 DEF Same
<1>2. CASE row[r].status = "absent" /\ EnqueueNew(r)
  <2>1. row'[r] = [NoRow EXCEPT !.status = "queued", !.created_at = created]
    BY <1>2 DEF EnqueueNew, TypeOK
  <2> QED
    BY <1>2, <2>1 DEF Enqueued, NoRow
<1>3. ASSUME NEW w \in Workers, Claim(w), Claimable(r),
             row'[r] = [row[r] EXCEPT !.status = "running", !.claimed_by = w,
                        !.lease = LeaseTicks, !.attempts = AttemptOf(r),
                        !.error = FALSE]
      PROVE  Claimed(w, r)
  BY <1>0, <1>3 DEF Claimed, AttemptOf, Row
<1>4. ASSUME NEW w \in Workers, Working(w, r),
             row'[r] = [row[r] EXCEPT !.status = "completed", !.lease = 0,
                        !.result = "clean", !.error = FALSE]
      PROVE  Settled(w, r)
  BY <1>0, <1>4 DEF Settled, Row
<1>5. ASSUME NEW w \in Workers, Working(w, r),
             row'[r] = [row[r] EXCEPT !.status = StatusAfterFailure(r),
                          !.wait = RetryTicks, !.lease = 0,
                          !.result = "errors", !.error = TRUE]
      PROVE  Settled(w, r)
  BY <1>0, <1>5 DEF Settled, Row
<1>6. CASE row'[r] = [row[r] EXCEPT !.lease = Less(@), !.wait = Less(@)]
  BY <1>0, <1>6 DEF Aged, Row
<1> QED
  BY <1>1, <1>2, <1>3, <1>4, <1>5, <1>6, RowSteps, Zenon

\* Every step keeps claims and their tokens apart, and attempts counted.
LEMMA NextClaimTokens ==
  ASSUME QueueInv, [Next]_vars PROVE ClaimTokens' /\ Counted'
<1> USE DEF QueueInv
<1>1. ASSUME NEW r \in Requests
      PROVE  /\ row[r].attempts \in Nat
             /\ row[r].status = "absent" \/ row'[r].attempts >= row[r].attempts
             /\ row'[r].status = "absent" => row'[r].attempts = 0
             /\ \/ row[r].status = "absent"
                \/ /\ row'[r].attempts = row[r].attempts
                   /\ row'[r].claimed_by = row[r].claimed_by
                \/ row'[r].attempts = row[r].attempts + 1
  <2>1. row[r].attempts \in Nat
    BY FieldTypes, QueueAssumption DEF QueueAssumption, TypeOK
  <2>2. StatusAfterFailure(r) # "absent"
    BY DEF StatusAfterFailure
  <2> QED
    BY <2>1, <2>2, RowFields DEF Same, Enqueued, Claimed, Settled, Aged, Counted
<1>2. ASSUME NEW v \in Workers, NEW r \in Requests, Working(v, r)'
      PROVE  /\ worker'[v].attempt \in Nat /\ worker'[v].attempt > 0
             /\ \/ /\ Working(v, r) /\ worker'[v].attempt = worker[v].attempt
                   /\ row[r].status # "absent"
                \/ /\ worker'[v].attempt = row[r].attempts + 1
                   /\ row'[r].attempts = row[r].attempts + 1
                   /\ row'[r].claimed_by = v
                   /\ \A w \in Workers : w # v => worker'[w] = worker[w]
  <2>1. /\ row[r] \in Row /\ row[r].attempts \in Nat
        /\ worker[v] \in Process /\ worker[v].attempt \in Nat
    BY FieldTypes, QueueAssumption DEF QueueAssumption, TypeOK
  <2>2. CASE Working(v, r) /\ worker'[v].attempt = worker[v].attempt
    <3>1. worker[v].attempt > 0 /\ worker[v].attempt <= row[r].attempts
      BY <2>2 DEF ClaimTokens, Counted, Working
    <3> QED
      BY <2>1, <2>2, <3>1 DEF Counted
  <2>3. CASE
            /\ Claim(v) /\ Claimable(r)
            /\ row'[r] = [row[r] EXCEPT !.status = "running", !.claimed_by = v,
                            !.lease = LeaseTicks, !.attempts = AttemptOf(r),
                            !.error = FALSE]
            /\ worker'[v].attempt = AttemptOf(r)
            /\ \A w \in Workers : w # v => worker'[w] = worker[w]
    <3>1. row'[r].claimed_by = v /\ row'[r].attempts = AttemptOf(r)
      BY <2>1, <2>3 DEF Row
    <3> QED
      BY <2>1, <2>3, <3>1 DEF AttemptOf
  <2>4. TypeOK
    OBVIOUS
  <2> QED
    BY <1>2, <2>2, <2>3, <2>4, WorkerSteps, Zenon
<1>3. Counted'
  <2>1. \A w \in Workers : worker'[w].pc = "working" => worker'[w].request \in Requests
    BY NextTypeOK DEF TypeOK
  <2> QED
    BY <1>1, <1>2, <2>1 DEF Counted, Working
<1>4. ClaimTokens'
  <2> SUFFICES ASSUME NEW r \in Requests, NEW v \in Workers, NEW w \in Workers,
                      Working(v, r)'
               PROVE  /\ worker'[v].attempt <= row'[r].attempts
                      /\ worker'[v].attempt = row'[r].attempts =>
                           row'[r].claimed_by = v
                      /\ Working(w, r)' /\ v # w =>
                           worker'[v].attempt # worker'[w].attempt
    BY DEF ClaimTokens
  <2>1. \A u \in Workers : Working(u, r) =>
           /\ worker[u].attempt <= row[r].attempts
           /\ worker[u].attempt = row[r].attempts => row[r].claimed_by = u
           /\ \A z \in Workers : Working(z, r) /\ u # z => worker[u].attempt # worker[z].attempt
    BY DEF ClaimTokens
  <2>2. worker'[v].attempt <= row'[r].attempts
    BY <1>1, <1>2, <2>1
  <2>3. worker'[v].attempt = row'[r].attempts => row'[r].claimed_by = v
    BY <1>1, <1>2, <2>1
  <2>4. Working(w, r)' /\ v # w => worker'[v].attempt # worker'[w].attempt
    BY <1>1, <1>2, <2>1 DEF Working
  <2> QED
    BY <2>2, <2>3, <2>4
<1> QED
  BY <1>3, <1>4

\* Every step keeps outcomes in line with statuses.
LEMMA NextOutcomes ==
  ASSUME QueueInv, [Next]_vars PROVE GivesUpLast' /\ OutcomeFitsStatus'
<1> SUFFICES ASSUME NEW r \in Requests
             PROVE  /\ row'[r].status = "failed" => row'[r].attempts = MaxAttempts
                    /\ row'[r].status = "queued" =>
                         /\ row'[r].attempts < MaxAttempts
                         /\ row'[r].error <=> row'[r].attempts > 0
                    /\ row'[r].status = "completed" =>
                         row'[r].result = "clean" /\ ~row'[r].error
                    /\ row'[r].status = "failed" =>
                         row'[r].result = "errors" /\ row'[r].error
                    /\ row'[r].status = "running" =>
                         ~row'[r].error /\ row'[r].attempts > 0
                    /\ row'[r].status # "running" => row'[r].lease = 0
  BY DEF GivesUpLast, OutcomeFitsStatus
<1>0. /\ row[r].status = "failed" => row[r].attempts = MaxAttempts
      /\ row[r].status = "queued" =>
           /\ row[r].attempts < MaxAttempts
           /\ row[r].error <=> row[r].attempts > 0
      /\ row[r].status = "completed" => row[r].result = "clean" /\ ~row[r].error
      /\ row[r].status = "failed" => row[r].result = "errors" /\ row[r].error
      /\ row[r].status = "running" => ~row[r].error /\ row[r].attempts > 0
      /\ row[r].status # "running" => row[r].lease = 0
  BY DEF QueueInv, GivesUpLast, OutcomeFitsStatus
<1>1. row[r].attempts \in 0..MaxAttempts /\ row[r].attempts \in Nat /\ MaxAttempts \in Nat \ {0}
  BY FieldTypes, QueueAssumption DEF QueueAssumption, QueueInv, TypeOK
<1>2. CASE Same(r)
  BY <1>0, <1>2 DEF Same
<1>3. CASE Enqueued(r)
  BY <1>1, <1>3 DEF Enqueued
<1>4. CASE Aged(r)
  BY <1>0, <1>4 DEF Aged, Less
<1>5. ASSUME NEW w \in Workers, Claimed(w, r)
      PROVE  /\ row'[r].status = "running" /\ ~row'[r].error
             /\ row'[r].attempts > 0
  BY <1>1, <1>5 DEF Claimed
<1>6. ASSUME NEW w \in Workers, Settled(w, r)
      PROVE  /\ row'[r].attempts > 0 /\ row'[r].lease = 0
             /\ \/ /\ row'[r].status = "completed"
                   /\ row'[r].result = "clean" /\ ~row'[r].error
                \/ /\ row'[r].status = "queued" /\ row'[r].error
                   /\ row'[r].attempts < MaxAttempts
                \/ /\ row'[r].status = "failed" /\ row'[r].error
                   /\ row'[r].result = "errors" /\ row'[r].attempts = MaxAttempts
  <2>1. worker[w].attempt > 0 /\ worker[w].attempt <= row[r].attempts
    BY <1>6 DEF QueueInv, ClaimTokens, Counted, Settled, Working
  <2>2. worker[w].attempt \in Nat
    BY FieldTypes, QueueAssumption DEF QueueAssumption, QueueInv, TypeOK
  <2> QED
    BY <1>1, <1>6, <2>1, <2>2 DEF Settled, StatusAfterFailure
<1> QED
  BY <1>2, <1>3, <1>4, <1>5, <1>6, RowFields DEF QueueInv

\* The invariant of the queue holds in every reachable state.
LEMMA QueueInvariant == Spec => []QueueInv
<1>1. QueueInv /\ [Next]_vars => QueueInv'
  BY NextTypeOK, NextClaimTokens, NextOutcomes DEF QueueInv
<1> QED
  BY <1>1, InitQueueInv, PTL DEF Spec

\* claim_refresh: whatever overruns or dies, the attempt number of a claim is
\* held by one coordinator only, the one claimed_by names if it is the newest.
THEOREM ClaimsAreNumbered == Spec => []ClaimTokens
  BY QueueInvariant, PTL DEF QueueInv

\* record_refresh_failure: a request fails only with its attempts used up.
THEOREM GivenUpLast == Spec => []GivesUpLast
  BY QueueInvariant, PTL DEF QueueInv

\* get_refresh: result, error and lease always fit the status shown.
THEOREM OutcomeFits == Spec => []OutcomeFitsStatus
  BY QueueInvariant, PTL DEF QueueInv
=============================================================================
