---------------------------- MODULE WorkerProofs ----------------------------
(***************************************************************************)
(* Theorems about the monitored worker, for any number of processes, any   *)
(* cadence and any horizon, and about the loop that keeps it alive, for    *)
(* any cadence and backoff.                                                *)
(***************************************************************************)
EXTENDS MCWorkerRun, WorkerLoop, FiniteSetTheorems, TLAPS

-----------------------------------------------------------------------------
(* Cadence buckets *)

LEMMA BucketMonotone ==
  ASSUME NEW s \in Nat, NEW t \in Nat, s <= t
  PROVE  Bucket(s) \in Nat /\ Bucket(s) <= Bucket(t)
  BY WorkerAssumption DEF WorkerAssumption, Bucket

\* Every time of day falls in one of the buckets.
LEMMA BucketTyped ==
  ASSUME NEW t \in 0..Horizon PROVE Bucket(t) \in Buckets
<1>1. t \in Nat /\ Horizon \in Nat /\ t <= Horizon
  BY WorkerAssumption DEF WorkerAssumption
<1>2. Bucket(t) \in Nat /\ Bucket(Horizon) \in Nat /\ Bucket(t) <= Bucket(Horizon)
  BY <1>1, BucketMonotone
<1> QED
  BY <1>2 DEF Buckets

-----------------------------------------------------------------------------
(* Type correctness *)

\* The operation succeeded at most once per attempt of the run's owner.
EffectsCounted ==
    /\ \A p \in Processes :
         /\ proc[p].pc = "operating" =>
              proc[p].attempt > 0 /\ effects[Key(p)] < proc[p].attempt
         /\ proc[p].pc \in {"recording", "failing"} =>
              proc[p].attempt > 0 /\ effects[Key(p)] <= proc[p].attempt
    /\ \A b \in Buckets : runs[b] = "absent" => effects[b] = 0

\* The status row names the bucket of the attempt it shows.
StatusKey ==
    status.attempted_at >= 0 =>
      status.key = Bucket(status.attempted_at) /\ status.state # "none"

RunInv ==
    /\ TypeOK /\ EffectsCounted /\ StatusKey
    /\ OneOwner /\ StatusIsNewest /\ StatusMatchesRun

\* The types of the fields of a process and of the status row.
LEMMA Fields ==
  /\ \A x \in Process : /\ x.pc \in Step /\ x.at \in 0..Horizon
                        /\ x.attempt \in 0..MaxAttempts /\ x.wake \in 0..Cadence
  /\ \A x \in StatusRow : /\ x.key \in Buckets /\ x.attempted_at \in -1..Horizon
                          /\ x.failures \in Nat
  BY DEF Process, StatusRow

\* The idempotency key of a run is one of the buckets.
LEMMA KeyTyped ==
  ASSUME TypeOK, NEW p \in Processes PROVE Key(p) \in Buckets
  BY Fields, BucketTyped DEF TypeOK, Key

\* A process that waits for its next cycle is well-formed.
LEMMA AsleepTyped ==
  ASSUME NEW d \in 0..Cadence PROVE Asleep(d) \in Process
  BY WorkerAssumption DEF WorkerAssumption, Asleep, Process, Step

\* The updates of a process keep it well-formed.
LEMMA ProcessUpdates ==
  ASSUME NEW x \in Process, NEW s \in Step, NEW n \in 0..MaxAttempts, NEW d \in 0..Cadence
  PROVE  /\ [x EXCEPT !.pc = s, !.attempt = n] \in Process
         /\ [x EXCEPT !.pc = s] \in Process
         /\ [x EXCEPT !.wake = d] \in Process
  BY DEF Process

\* The updates of the status row keep it well-formed.
LEMMA StatusUpdates ==
  ASSUME NEW x \in StatusRow, NEW s \in {"none", "running", "healthy", "failed"},
         NEW b \in Buckets, NEW t \in -1..Horizon, NEW n \in Nat
  PROVE  /\ [x EXCEPT !.state = s, !.key = b, !.attempted_at = t] \in StatusRow
         /\ [x EXCEPT !.state = s, !.failures = n] \in StatusRow
  BY DEF StatusRow

\* The invariant of the runs holds before any worker has started.
LEMMA InitRunInv == Init => RunInv
<1> SUFFICES ASSUME Init PROVE RunInv
  OBVIOUS
<1> USE WorkerAssumption DEF WorkerAssumption, Init
<1>1. 0 \in 0..Horizon /\ 0 \in 0..Cadence /\ 0 \in 0..MaxAttempts /\ 0 \in Buckets
  BY BucketTyped, BucketMonotone DEF Buckets
<1>2. TypeOK
  <2>1. NoStatus \in StatusRow
    BY <1>1 DEF NoStatus, StatusRow
  <2>2. proc \in [Processes -> Process]
    BY <1>1, AsleepTyped
  <2> QED
    BY <1>1, <2>1, <2>2 DEF TypeOK, RunState
<1>3. \A p \in Processes : proc[p].pc = "asleep"
  BY DEF Asleep
<1>4. EffectsCounted /\ StatusKey /\ OneOwner /\ StatusIsNewest /\ StatusMatchesRun
  BY <1>3 DEF EffectsCounted, StatusKey, OneOwner, StatusIsNewest,
              StatusMatchesRun, NoStatus, Owns
<1> QED
  BY <1>2, <1>4 DEF RunInv

-----------------------------------------------------------------------------
(* The two tables *)

Ledger ==
    /\ runs \in [Buckets -> RunState] /\ status \in StatusRow
    /\ StatusKey /\ StatusIsNewest /\ StatusMatchesRun

\* Claiming an unclaimed bucket keeps the tables consistent, with a stale
\* clock reading too.
LEMMA InsertKeepsLedger ==
  ASSUME Ledger, NEW p \in Processes, proc[p].at \in 0..Horizon,
         MayInsert(Key(p)), InsertRun(p)
  PROVE  Ledger' /\ \A b \in Buckets : runs[b] # "absent" => runs'[b] = runs[b]
<1> DEFINE k == Key(p)
<1> USE DEF Ledger
<1>1. k \in Buckets /\ k = Bucket(proc[p].at) /\ runs[k] = "absent"
  BY BucketTyped DEF Key, MayInsert
<1>2. runs' = [runs EXCEPT ![k] = "started"]
  BY DEF InsertRun
<1>3. runs' \in [Buckets -> RunState] /\ \A b \in Buckets : b # k => runs'[b] = runs[b]
  BY <1>1, <1>2 DEF RunState
<1>4. status.attempted_at \in -1..Horizon /\ status.key \in Buckets /\ Buckets \subseteq Nat
  BY Fields, WorkerAssumption, BucketMonotone DEF WorkerAssumption, Buckets
<1>5. CASE Newer(proc[p].at)
  <2>1. status' = [status EXCEPT !.state = "running", !.key = k,
                                 !.attempted_at = proc[p].at]
    BY <1>5 DEF InsertRun
  <2>2. status' \in StatusRow
    <3>1. proc[p].at \in -1..Horizon /\ 0 \in Nat
      BY WorkerAssumption DEF WorkerAssumption
    <3> QED
      BY <1>1, <2>1, <3>1, StatusUpdates
  <2>3. /\ status'.state = "running" /\ status'.key = k
        /\ status'.attempted_at = proc[p].at
    BY <2>1 DEF StatusRow
  <2>4. StatusKey' /\ StatusMatchesRun'
    BY <1>1, <1>2, <2>3 DEF StatusKey, StatusMatchesRun
  <2>5. status.attempted_at >= 0 => status.key <= k
    BY <1>1, <1>4, <1>5, BucketMonotone, WorkerAssumption
       DEF WorkerAssumption, StatusKey, Newer
  <2>6. StatusIsNewest'
    <3> SUFFICES ASSUME NEW b \in Buckets, runs'[b] # "absent" PROVE k >= b
      BY <2>3 DEF StatusIsNewest
    <3>1. b \in Nat /\ k \in Nat /\ status.key \in Nat
      BY <1>1, <1>4
    <3>2. b # k => status.attempted_at >= 0 /\ status.key >= b
      BY <1>3 DEF StatusIsNewest
    <3> QED
      BY <2>5, <3>1, <3>2
  <2> QED
    BY <1>1, <1>3, <2>2, <2>4, <2>6
<1>6. CASE ~Newer(proc[p].at)
  <2>1. status' = status
    BY <1>6 DEF InsertRun
  <2>2. status.attempted_at >= 0 /\ proc[p].at <= status.attempted_at
    BY <1>4, <1>6 DEF Newer
  <2>3. k <= status.key
    BY <1>1, <1>4, <2>2, BucketMonotone, WorkerAssumption
       DEF WorkerAssumption, StatusKey
  <2>4. StatusIsNewest'
    <3> SUFFICES ASSUME NEW b \in Buckets, runs'[b] # "absent" PROVE status.key >= b
      BY <2>1, <2>2 DEF StatusIsNewest
    <3> QED
      BY <1>3, <2>3 DEF StatusIsNewest
  <2>5. status.key # k
    <3>1. status.state \in {"running", "healthy", "failed"}
      BY <2>2 DEF StatusKey, StatusRow
    <3> QED
      BY <1>1, <2>2, <3>1 DEF StatusMatchesRun
  <2>6. StatusMatchesRun' /\ StatusKey'
    BY <1>3, <1>4, <2>1, <2>5 DEF StatusMatchesRun, StatusKey
  <2> QED
    BY <1>1, <1>3, <2>1, <2>4, <2>6
<1> QED
  BY <1>5, <1>6

\* Recording an outcome keeps them consistent, and changes unfinished runs only.
LEMMA FinishKeepsLedger ==
  ASSUME Ledger, NEW b \in Buckets, Complete(b) \/ Fail(b)
  PROVE  /\ Ledger'
         /\ \A c \in Buckets : /\ runs'[c] # "absent" <=> runs[c] # "absent"
                               /\ runs[c] \in {"completed", "failed"} => runs'[c] = runs[c]
<1> USE DEF Ledger
<1>1. CASE UNCHANGED <<runs, status>>
  BY <1>1 DEF StatusKey, StatusIsNewest, StatusMatchesRun
<1>2. ASSUME NEW s \in {"completed", "failed"}, NEW h \in {"healthy", "failed"}, NEW n \in Nat,
             Unfinished(b), runs' = [runs EXCEPT ![b] = s],
             status' = IF Current(b) THEN [status EXCEPT !.state = h, !.failures = n]
                                     ELSE status,
             s = "completed" <=> h = "healthy"
      PROVE  /\ Ledger'
             /\ \A c \in Buckets :
                  /\ runs'[c] # "absent" <=> runs[c] # "absent"
                  /\ runs[c] \in {"completed", "failed"} => runs'[c] = runs[c]
  <2>1. /\ runs[b] = "started" /\ runs'[b] = s /\ runs' \in [Buckets -> RunState]
        /\ \A c \in Buckets : c # b => runs'[c] = runs[c]
    BY <1>2 DEF Unfinished, RunState
  <2>2. status.attempted_at \in -1..Horizon /\ status.key \in Buckets
    BY Fields
  <2>3. CASE Current(b)
    <3>1. /\ status' \in StatusRow /\ status'.state = h /\ status'.key = b
          /\ status.key = b /\ status'.attempted_at = status.attempted_at
          /\ status.attempted_at >= 0
      <4>1. status' = [status EXCEPT !.state = h, !.failures = n]
        BY <1>2, <2>3
      <4>2. [status EXCEPT !.state = h, !.failures = n] \in StatusRow
        BY <1>2, <2>2, StatusUpdates
      <4> QED
        BY <2>3, <4>1, <4>2 DEF Current, StatusRow
    <3>2. StatusMatchesRun'
      BY <1>2, <2>1, <3>1 DEF StatusMatchesRun
    <3>3. StatusKey' /\ StatusIsNewest'
      BY <2>1, <3>1 DEF StatusKey, StatusIsNewest
    <3> QED
      BY <2>1, <3>1, <3>2, <3>3
  <2>4. CASE ~Current(b)
    <3>1. status' = status
      BY <1>2, <2>4
    <3>2. status.attempted_at >= 0 => status.key # b
      BY <2>4 DEF Current
    <3>3. StatusKey' /\ StatusIsNewest' /\ StatusMatchesRun'
      BY <2>1, <2>2, <3>1, <3>2 DEF StatusKey, StatusIsNewest, StatusMatchesRun
    <3> QED
      BY <2>1, <3>1, <3>3
  <2> QED
    BY <2>3, <2>4
<1>3. CASE Complete(b)
  BY <1>1, <1>2, <1>3 DEF Complete, Healthy
<1>4. CASE Fail(b)
  <2>1. status.failures + 1 \in Nat /\ status \in StatusRow
    BY Fields
  <2>2. [status EXCEPT !.state = "failed", !.failures = @ + 1]
          = [status EXCEPT !.state = "failed", !.failures = status.failures + 1]
    BY <2>1 DEF StatusRow
  <2> QED
    BY <1>1, <1>2, <1>4, <2>1, <2>2 DEF Fail
<1> QED
  BY <1>3, <1>4

-----------------------------------------------------------------------------
(* The processes *)

Busy == {"operating", "recording", "failing"}

\* What the counters of a process at work say.
CountedWork(x, n) ==
    /\ x.attempt > 0
    /\ x.pc = "operating" => n < x.attempt
    /\ x.pc # "operating" => n <= x.attempt

\* A process that stops, sleeps or wakes owns nothing.
LEMMA Releases ==
  ASSUME TypeOK, OneOwner, EffectsCounted, NEW p \in Processes,
         NEW x \in Process, x.pc \notin Busy, proc' = [proc EXCEPT ![p] = x],
         effects' = effects, \A b \in Buckets : runs'[b] = "absent" => runs[b] = "absent"
  PROVE  OneOwner' /\ EffectsCounted'
<1>1. proc'[p] = x /\ \A q \in Processes : q # p => proc'[q] = proc[q]
  BY DEF TypeOK
<1>2. \A q \in Processes, b \in Buckets : Owns(q, b)' => Owns(q, b) /\ q # p
  BY <1>1 DEF Owns, Busy, Key
<1>3. OneOwner'
  BY <1>2 DEF OneOwner
<1>4. EffectsCounted'
  BY <1>1 DEF EffectsCounted, Busy, Key
<1> QED
  BY <1>3, <1>4

\* A process at work goes on with the same run.
LEMMA Continues ==
  ASSUME TypeOK, OneOwner, EffectsCounted, NEW p \in Processes,
         proc[p].pc \in Busy, NEW x \in Process, x.pc \in Busy, x.at = proc[p].at,
         proc' = [proc EXCEPT ![p] = x], NEW n \in 0..MaxAttempts,
         effects' = [effects EXCEPT ![Key(p)] = n], CountedWork(x, n),
         \A b \in Buckets : runs'[b] # "absent" <=> runs[b] # "absent"
  PROVE  OneOwner' /\ EffectsCounted'
<1>1. proc'[p] = x /\ \A q \in Processes : q # p => proc'[q] = proc[q]
  BY DEF TypeOK
<1>2. /\ Key(p) \in Buckets /\ effects'[Key(p)] = n
      /\ \A b \in Buckets : b # Key(p) => effects'[b] = effects[b]
  BY KeyTyped DEF TypeOK
<1>3. \A q \in Processes : Key(q)' = Key(q)
  BY <1>1 DEF Key
<1>4. \A q \in Processes, b \in Buckets : Owns(q, b)' <=> Owns(q, b)
  BY <1>1, <1>3 DEF Owns, Busy
<1>5. OneOwner'
  BY <1>4 DEF OneOwner
<1>6. ASSUME NEW q \in Processes, proc'[q].pc \in Busy, q # p
      PROVE  Key(q) \in Buckets /\ Key(q) # Key(p) /\ effects'[Key(q)] = effects[Key(q)]
  BY <1>1, <1>2, <1>6, KeyTyped DEF OneOwner, Owns, Busy
<1>7. runs[Key(p)] # "absent"
  BY <1>2 DEF OneOwner, Owns, Busy
<1>8. EffectsCounted'
  <2>1. ASSUME NEW q \in Processes, proc'[q].pc \in Busy
        PROVE  CountedWork(proc'[q], effects'[Key(q)])
    BY <1>1, <1>2, <1>6, <2>1 DEF EffectsCounted, CountedWork, Busy
  <2>2. \A b \in Buckets : runs'[b] = "absent" => effects'[b] = 0
    BY <1>2, <1>7 DEF EffectsCounted
  <2> QED
    BY <1>3, <2>1, <2>2 DEF EffectsCounted, CountedWork, Busy
<1> QED
  BY <1>5, <1>8

\* A process that claims a bucket is its first owner.
LEMMA Starts ==
  ASSUME TypeOK, OneOwner, EffectsCounted, NEW p \in Processes, MayInsert(Key(p)),
         Operate(p), effects' = effects,
         \A b \in Buckets : runs[b] # "absent" => runs'[b] # "absent",
         runs'[Key(p)] # "absent"
  PROVE  OneOwner' /\ EffectsCounted' /\ proc' \in [Processes -> Process]
<1> DEFINE x == [proc[p] EXCEPT !.pc = "operating", !.attempt = 1]
<1>1. x \in Process /\ x.pc = "operating" /\ x.attempt = 1 /\ x.at = proc[p].at
  <2>1. proc[p] \in Process /\ 1 \in 0..MaxAttempts /\ "operating" \in Step /\ 0 \in 0..Cadence
    BY WorkerAssumption DEF WorkerAssumption, Step, TypeOK
  <2>2. x \in Process
    BY <2>1, ProcessUpdates
  <2> QED
    BY <2>1, <2>2 DEF Process
<1>2. proc'[p] = x /\ \A q \in Processes : q # p => proc'[q] = proc[q]
  BY DEF Operate, TypeOK
<1>3. \A q \in Processes : Key(q)' = Key(q)
  BY <1>1, <1>2 DEF Key
<1>4. Key(p) \in Buckets /\ runs[Key(p)] = "absent" /\ effects[Key(p)] = 0
  BY KeyTyped DEF MayInsert, EffectsCounted
<1>5. \A q \in Processes : ~Owns(q, Key(p))
  BY <1>4 DEF OneOwner
<1>6. \A q \in Processes, b \in Buckets :
        Owns(q, b)' => Owns(q, b) \/ (q = p /\ b = Key(p))
  BY <1>2, <1>3 DEF Owns
<1>7. OneOwner'
  BY <1>5, <1>6 DEF OneOwner
<1>8. EffectsCounted'
  <2>1. \A q \in Processes :
          /\ proc'[q].pc = "operating" =>
               proc'[q].attempt > 0 /\ effects'[Key(q)] < proc'[q].attempt
          /\ proc'[q].pc \in {"recording", "failing"} =>
               proc'[q].attempt > 0 /\ effects'[Key(q)] <= proc'[q].attempt
    <3> TAKE q \in Processes
    <3>1. CASE q = p
      <4>1. effects'[Key(p)] = 0
        BY <1>4
      <4>2. proc'[p].pc = "operating" /\ proc'[p].attempt = 1
        BY <1>1, <1>2
      <4> QED
        BY <3>1, <4>1, <4>2
    <3>2. CASE q # p
      BY <1>2, <3>2 DEF EffectsCounted
    <3> QED
      BY <3>1, <3>2
  <2>2. \A b \in Buckets : runs'[b] = "absent" => effects'[b] = 0
    BY DEF EffectsCounted
  <2> QED
    BY <1>3, <2>1, <2>2 DEF EffectsCounted
<1> QED
  BY <1>1, <1>7, <1>8 DEF Operate, TypeOK

\* The two ways on after a failed attempt.
LEMMA NextAttemptStep ==
  ASSUME TypeOK, EffectsCounted, NEW p \in Processes, proc[p].pc \in {"operating", "recording"},
         \/ NextAttempt(p)
         \/ proc[p].pc = "operating" /\ proc' = [proc EXCEPT ![p] = [@ EXCEPT !.pc = "failing"]]
  PROVE  \E x \in Process :
           /\ x.pc \in Busy /\ x.at = proc[p].at
           /\ proc' = [proc EXCEPT ![p] = x]
           /\ CountedWork(x, effects[Key(p)])
<1> USE DEF TypeOK
<1>1. /\ proc[p] \in Process /\ proc[p].attempt \in 0..MaxAttempts /\ proc[p].attempt > 0
      /\ effects[Key(p)] \in Nat /\ effects[Key(p)] <= proc[p].attempt
      /\ MaxAttempts \in Nat /\ {"operating", "failing"} \subseteq Step /\ 0 \in 0..Cadence
  BY Fields, KeyTyped, WorkerAssumption DEF WorkerAssumption, EffectsCounted, Step
<1>2. CASE proc' = [proc EXCEPT ![p] = [@ EXCEPT !.pc = "failing"]]
  <2> DEFINE x == [proc[p] EXCEPT !.pc = "failing"]
  <2>1. x \in Process
    BY <1>1, ProcessUpdates
  <2>2. x.pc = "failing" /\ x.at = proc[p].at /\ x.attempt = proc[p].attempt
    BY <1>1 DEF Process
  <2>3. CountedWork(x, effects[Key(p)]) /\ x.pc \in Busy
    BY <1>1, <2>2 DEF CountedWork, Busy
  <2> QED
    BY <1>2, <2>1, <2>2, <2>3
<1>3. CASE NextAttempt(p) /\ proc[p].attempt < MaxAttempts
  <2> DEFINE x == [proc[p] EXCEPT !.pc = "operating", !.attempt = proc[p].attempt + 1]
  <2>1. proc[p].attempt + 1 \in 0..MaxAttempts
    BY <1>1, <1>3
  <2>2. x \in Process
    BY <1>1, <2>1, ProcessUpdates
  <2>3. x.pc = "operating" /\ x.at = proc[p].at /\ x.attempt = proc[p].attempt + 1
    BY <1>1 DEF Process
  <2>4. CountedWork(x, effects[Key(p)]) /\ x.pc \in Busy
    BY <1>1, <2>3 DEF CountedWork, Busy
  <2>5. proc' = [proc EXCEPT ![p] = x]
    BY <1>3 DEF NextAttempt
  <2> QED
    BY <2>2, <2>3, <2>4, <2>5
<1>4. CASE NextAttempt(p) /\ ~(proc[p].attempt < MaxAttempts)
  BY <1>2, <1>4 DEF NextAttempt
<1> QED
  BY <1>2, <1>3, <1>4

-----------------------------------------------------------------------------
(* The inductive invariant *)

LEMMA NextRunInv == RunInv /\ [Next]_vars => RunInv'
<1> SUFFICES ASSUME RunInv, [Next]_vars PROVE RunInv'
  OBVIOUS
<1>0. /\ TypeOK /\ OneOwner /\ EffectsCounted /\ Ledger
      /\ 0 \in 0..Cadence /\ Cadence \in 0..Cadence /\ 1..Cadence \subseteq 0..Cadence
  BY WorkerAssumption DEF WorkerAssumption, RunInv, TypeOK, Ledger
<1>1. SUFFICES /\ Ledger' /\ OneOwner' /\ EffectsCounted'
               /\ now' \in 0..Horizon /\ proc' \in [Processes -> Process]
               /\ effects' \in [Buckets -> 0..MaxAttempts] /\ alerts' \subseteq Buckets
  BY DEF RunInv, TypeOK, Ledger
<1> DEFINE Goal == /\ Ledger' /\ OneOwner' /\ EffectsCounted'
                   /\ now' \in 0..Horizon /\ proc' \in [Processes -> Process]
                   /\ effects' \in [Buckets -> 0..MaxAttempts] /\ alerts' \subseteq Buckets
<1>a. ASSUME UNCHANGED <<runs, status>> PROVE Ledger'
  BY <1>0, <1>a DEF Ledger, StatusKey, StatusIsNewest, StatusMatchesRun
<1>b. ASSUME NEW p \in Processes, Sleep(p) \/ Crashed(p)
      PROVE  \E x \in Process : x.pc \notin Busy /\ proc' = [proc EXCEPT ![p] = x]
  <2>1. \A d \in 0..Cadence : Asleep(d) \in Process /\ Asleep(d).pc \notin Busy
    BY AsleepTyped DEF Asleep, Busy
  <2> QED
    BY <1>0, <1>b, <2>1 DEF Sleep, Crashed
<1>c. ASSUME NEW p \in Processes, NEW x \in Process, x.pc \notin Busy,
             proc' = [proc EXCEPT ![p] = x], UNCHANGED <<now, effects>>,
             alerts' \subseteq Buckets, Ledger',
             \A b \in Buckets : runs'[b] = "absent" => runs[b] = "absent"
      PROVE  Goal
  <2>1. OneOwner' /\ EffectsCounted'
    BY <1>0, <1>c, Releases
  <2> QED
    BY <1>0, <1>c, <2>1 DEF TypeOK
<1>d. ASSUME NEW p \in Processes, proc[p].pc \in Busy, NEW x \in Process,
             x.pc \in Busy, x.at = proc[p].at, proc' = [proc EXCEPT ![p] = x],
             NEW n \in 0..MaxAttempts, effects' = [effects EXCEPT ![Key(p)] = n],
             CountedWork(x, n), UNCHANGED <<now, alerts>>, Ledger',
             \A b \in Buckets : runs'[b] # "absent" <=> runs[b] # "absent"
      PROVE  Goal
  <2>1. OneOwner' /\ EffectsCounted'
    BY <1>0, <1>d, Continues
  <2> QED
    BY <1>0, <1>d, <2>1 DEF TypeOK
<1>2. ASSUME NEW p \in Processes, Wake(p) PROVE Goal
  <2> DEFINE x == [pc |-> "starting", at |-> now, attempt |-> 0, wake |-> 0]
  <2>1. x \in Process /\ x.pc \notin Busy
    BY <1>0, WorkerAssumption DEF WorkerAssumption, TypeOK, Process, Step, Busy
  <2> QED
    BY <1>0, <1>2, <1>a, <1>c, <2>1 DEF Wake, TypeOK
<1>3. ASSUME NEW p \in Processes, StartRun(p) PROVE Goal
  <2>1. MayInsert(Key(p)) /\ InsertRun(p) /\ Operate(p) /\ UNCHANGED <<now, effects, alerts>>
    BY <1>3 DEF StartRun
  <2>2. proc[p].at \in 0..Horizon /\ Key(p) \in Buckets
    BY <1>0, Fields, KeyTyped DEF TypeOK
  <2>3. Ledger' /\ \A b \in Buckets : runs[b] # "absent" => runs'[b] = runs[b]
    BY <1>0, <2>1, <2>2, InsertKeepsLedger
  <2>4. runs'[Key(p)] # "absent"
    BY <1>0, <2>1, <2>2 DEF InsertRun, TypeOK
  <2>5. OneOwner' /\ EffectsCounted' /\ proc' \in [Processes -> Process]
    BY <1>0, <2>1, <2>3, <2>4, Starts
  <2> QED
    BY <1>0, <2>1, <2>3, <2>5 DEF TypeOK
<1>4. ASSUME NEW p \in Processes, SkipDuplicate(p) PROVE Goal
  BY <1>0, <1>4, <1>a, <1>b, <1>c DEF SkipDuplicate, TypeOK
<1>5. ASSUME NEW p \in Processes, StartRaises(p) PROVE Goal
  <2>1. Ledger' /\ \A b \in Buckets : runs[b] # "absent" => runs'[b] = runs[b]
    <3>1. proc[p].at \in 0..Horizon
      BY <1>0, Fields DEF TypeOK
    <3>2. CASE UNCHANGED <<runs, status>>
      BY <1>a, <3>2
    <3>3. CASE MayInsert(Key(p)) /\ InsertRun(p)
      BY <1>0, <3>1, <3>3, InsertKeepsLedger
    <3> QED
      BY <1>5, <3>2, <3>3 DEF StartRaises
  <2> QED
    BY <1>0, <1>5, <1>b, <1>c, <2>1 DEF StartRaises, TypeOK
<1>6. ASSUME NEW p \in Processes, OperationFails(p) PROVE Goal
  <2>1. PICK x \in Process : /\ x.pc \in Busy /\ x.at = proc[p].at
                             /\ proc' = [proc EXCEPT ![p] = x]
                             /\ CountedWork(x, effects[Key(p)])
    BY <1>0, <1>6, NextAttemptStep DEF OperationFails
  <2>2. /\ effects' = [effects EXCEPT ![Key(p)] = effects[Key(p)]]
        /\ effects[Key(p)] \in 0..MaxAttempts /\ proc[p].pc \in Busy
    BY <1>0, <1>6, KeyTyped DEF OperationFails, TypeOK, Busy
  <2> QED
    BY <1>6, <1>a, <1>d, <2>1, <2>2 DEF OperationFails
<1>7. ASSUME NEW p \in Processes, OperationSucceeds(p) PROVE Goal
  <2> DEFINE x == [proc[p] EXCEPT !.pc = "recording"]
             n == effects[Key(p)] + 1
  <2>1. /\ proc[p] \in Process /\ proc[p].pc = "operating" /\ proc[p].attempt \in 0..MaxAttempts
        /\ "recording" \in Step /\ MaxAttempts \in Nat
        /\ effects[Key(p)] \in 0..MaxAttempts /\ effects[Key(p)] < proc[p].attempt
    BY <1>0, <1>7, Fields, KeyTyped, WorkerAssumption
       DEF WorkerAssumption, OperationSucceeds, TypeOK, EffectsCounted, Step
  <2>2. x \in Process
    BY <1>0, <2>1, ProcessUpdates
  <2>3. x.pc = "recording" /\ x.at = proc[p].at /\ x.attempt = proc[p].attempt
    BY <2>1 DEF Process
  <2>4. n \in 0..MaxAttempts /\ CountedWork(x, n) /\ x.pc \in Busy /\ proc[p].pc \in Busy
    BY <2>1, <2>3 DEF CountedWork, Busy
  <2>5. effects' = [effects EXCEPT ![Key(p)] = n] /\ proc' = [proc EXCEPT ![p] = x]
    BY <1>7 DEF OperationSucceeds
  <2> HIDE DEF x, n
  <2> QED
    BY <1>7, <1>a, <1>d, <2>2, <2>3, <2>4, <2>5 DEF OperationSucceeds
<1>8. ASSUME NEW p \in Processes, FinishSuccess(p) PROVE Goal
  BY <1>0, <1>8, <1>b, <1>c, KeyTyped, FinishKeepsLedger DEF FinishSuccess, TypeOK
<1>9. ASSUME NEW p \in Processes, FinishSuccessRaises(p) PROVE Goal
  <2>1. PICK x \in Process : /\ x.pc \in Busy /\ x.at = proc[p].at
                             /\ proc' = [proc EXCEPT ![p] = x]
                             /\ CountedWork(x, effects[Key(p)])
    BY <1>0, <1>9, NextAttemptStep DEF FinishSuccessRaises
  <2>2. /\ effects' = [effects EXCEPT ![Key(p)] = effects[Key(p)]]
        /\ effects[Key(p)] \in 0..MaxAttempts /\ proc[p].pc \in Busy /\ Key(p) \in Buckets
    BY <1>0, <1>9, KeyTyped DEF FinishSuccessRaises, TypeOK, Busy
  <2>3. Ledger' /\ \A b \in Buckets : runs'[b] # "absent" <=> runs[b] # "absent"
    BY <1>0, <1>9, <1>a, <2>2, FinishKeepsLedger DEF FinishSuccessRaises
  <2> QED
    BY <1>9, <1>d, <2>1, <2>2, <2>3 DEF FinishSuccessRaises
<1>10. ASSUME NEW p \in Processes, FinishFailure(p) PROVE Goal
  <2>1. Ledger' /\ (\A b \in Buckets : runs'[b] # "absent" <=> runs[b] # "absent")
    BY <1>0, <1>10, KeyTyped, FinishKeepsLedger DEF FinishFailure
  <2>2. alerts' \subseteq Buckets
    BY <1>0, <1>10, KeyTyped DEF FinishFailure, TypeOK
  <2> QED
    BY <1>10, <1>b, <1>c, <2>1, <2>2 DEF FinishFailure
<1>11. ASSUME NEW p \in Processes, FinishFailureRaises(p) PROVE Goal
  <2>1. Ledger' /\ (\A b \in Buckets : runs'[b] # "absent" <=> runs[b] # "absent")
    BY <1>0, <1>11, <1>a, KeyTyped, FinishKeepsLedger DEF FinishFailureRaises
  <2> QED
    BY <1>0, <1>11, <1>b, <1>c, <2>1 DEF FinishFailureRaises, TypeOK
<1>12. ASSUME NEW p \in Processes, Restart(p) PROVE Goal
  <2>1. Asleep(0) \in Process /\ Asleep(0).pc \notin Busy
    BY <1>0, AsleepTyped DEF Asleep, Busy
  <2> QED
    BY <1>0, <1>12, <1>a, <1>c, <2>1 DEF Restart, TypeOK
<1>13. CASE Tick
  <2>1. now' \in 0..Horizon
    BY <1>0, <1>13, WorkerAssumption DEF WorkerAssumption, Tick, TypeOK
  <2>2. \A p \in Processes : /\ proc'[p] \in Process /\ proc'[p].pc = proc[p].pc
                             /\ proc'[p].at = proc[p].at /\ proc'[p].attempt = proc[p].attempt
    <3> TAKE p \in Processes
    <3>1. proc[p] \in Process /\ proc'[p] = [proc[p] EXCEPT !.wake = Less(proc[p].wake)]
      BY <1>0, <1>13 DEF Tick, TypeOK
    <3>2. Less(proc[p].wake) \in 0..Cadence
      BY <3>1, Fields, WorkerAssumption DEF WorkerAssumption, Less
    <3>3. [proc[p] EXCEPT !.wake = Less(proc[p].wake)] \in Process
      BY <3>1, <3>2 DEF Process
    <3> QED
      BY <3>1, <3>3 DEF Process
  <2>3. \A p \in Processes : Key(p)' = Key(p)
    BY <2>2 DEF Key
  <2>4. OneOwner' /\ EffectsCounted'
    BY <1>0, <1>13, <2>2, <2>3 DEF Tick, OneOwner, Owns, EffectsCounted
  <2>5. proc' \in [Processes -> Process]
    BY <1>13, <2>2 DEF Tick
  <2> QED
    BY <1>0, <1>13, <1>a, <2>1, <2>4, <2>5 DEF Tick, TypeOK
<1>14. CASE UNCHANGED vars
  BY <1>0, <1>14, <1>a DEF vars, TypeOK, OneOwner, Owns, Key, EffectsCounted
<1> QED
  BY <1>2, <1>3, <1>4, <1>5, <1>6, <1>7, <1>8, <1>9, <1>10, <1>11, <1>12, <1>13,
     <1>14 DEF Next

\* The invariant of the runs holds in every reachable state.
LEMMA RunInvariant == Spec => []RunInv
  BY InitRunInv, NextRunInv, PTL DEF Spec

\* Rows and processes stay well formed; an operation succeeds at most
\* MaxAttempts times in one bucket.
THEOREM TypeCorrect == Spec => []TypeOK
  BY RunInvariant, PTL DEF RunInv

\* start_run: one process at most runs the operation of a cadence bucket.
THEOREM OwnerIsUnique == Spec => []OneOwner
  BY RunInvariant, PTL DEF RunInv

\* start_run: the status row follows the newest bucket, in spite of processes
\* that claim with a stale clock reading.
THEOREM StatusFollowsNewest == Spec => []StatusIsNewest
  BY RunInvariant, PTL DEF RunInv

\* The status row shows the state worker_runs has for that bucket.
THEOREM StatusAgrees == Spec => []StatusMatchesRun
  BY RunInvariant, PTL DEF RunInv

\* finish_success, finish_failure: a recorded outcome is never overwritten.
THEOREM OutcomesAreFinal == Spec => OutcomeIsFinal
<1>1. ASSUME RunInv, [Next]_vars, NEW b \in Buckets, runs[b] \in {"completed", "failed"}
      PROVE  runs'[b] = runs[b]
  <2>0. TypeOK /\ Ledger
    BY <1>1 DEF RunInv, Ledger, TypeOK
  <2>1. ASSUME NEW p \in Processes, MayInsert(Key(p)) /\ InsertRun(p)
        PROVE  runs'[b] = runs[b]
    BY <1>1, <2>0, <2>1 DEF MayInsert, InsertRun, TypeOK
  <2>2. ASSUME NEW p \in Processes, Complete(Key(p)) \/ Fail(Key(p))
        PROVE  runs'[b] = runs[b]
    BY <1>1, <2>0, <2>2, KeyTyped, FinishKeepsLedger
  <2> QED
    BY <1>1, <2>1, <2>2
       DEF Next, Wake, StartRun, SkipDuplicate, StartRaises, OperationFails,
           OperationSucceeds, FinishSuccess, FinishSuccessRaises, FinishFailure,
           FinishFailureRaises, Restart, Tick, vars
<1>2. RunInv /\ [Next]_vars =>
        [\A b \in Buckets : runs[b] \in {"completed", "failed"} => runs'[b] = runs[b]]_vars
  BY <1>1
<1> QED
  BY <1>2, RunInvariant, PTL DEF Spec, OutcomeIsFinal

-----------------------------------------------------------------------------
(* A worker with a single process *)

\* b is the newest completed bucket, or -1 when none is.
LastCompleted(b) ==
    /\ b >= 0 => runs[b] = "completed"
    /\ \A c \in Buckets : c > b => runs[c] # "completed"

\* The status row counts the failures since the newest completed run, and the
\* alerts were raised for failed runs that ended a streak.
Streak ==
    /\ \E b \in Buckets \cup {-1} : LastCompleted(b)
    /\ FailureStreak /\ AlertsAreEarned
    /\ \A b \in alerts : runs[b] = "failed"

\* The only process never claims with a reading older than the status row's,
\* and the row is about the run the process is busy with.
Alone(p) ==
    /\ \A q \in Processes \ {p} : proc[q] = Asleep(0)
    /\ status.attempted_at <= now
    /\ proc[p].pc # "asleep" => status.attempted_at <= proc[p].at /\ proc[p].at <= now
    /\ proc[p].pc \in Busy => status.attempted_at = proc[p].at

\* The first bucket is numbered 0 and the others follow.
LEMMA BucketNumbers ==
  \E n \in Nat : Buckets = 0..n
  BY WorkerAssumption, BucketMonotone DEF WorkerAssumption, Buckets

\* FailedSince is a finite set of buckets.
LEMMA FailedSinceFinite ==
  ASSUME NEW b PROVE IsFiniteSet(FailedSince(b))
<1>1. IsFiniteSet(Buckets)
  BY BucketNumbers, FS_Interval
<1> QED
  BY <1>1, FS_Subset DEF FailedSince

\* Only finished runs count: the streak does not see a run that starts.
LEMMA StreakKept ==
  ASSUME TypeOK, Streak, UNCHANGED alerts, status'.failures = status.failures,
         \A c \in Buckets : /\ runs'[c] = "completed" <=> runs[c] = "completed"
                            /\ runs'[c] = "failed" <=> runs[c] = "failed"
  PROVE  Streak'
<1>1. \A b : FailedSince(b)' = FailedSince(b)
  BY DEF FailedSince
<1>2. \A b \in Buckets \cup {-1} : LastCompleted(b)' <=> LastCompleted(b)
  BY DEF LastCompleted
<1>3. FailureStreak'
  BY <1>1, <1>2 DEF Streak, FailureStreak, LastCompleted
<1>4. \A first, b \in Buckets :
        /\ first..b \subseteq Buckets
        /\ {c \in first..b : runs'[c] = "failed"} = {c \in first..b : runs[c] = "failed"}
        /\ (\A c \in first..b : runs'[c] # "completed")
             <=> (\A c \in first..b : runs[c] # "completed")
  <2> TAKE first, b \in Buckets
  <2>1. first..b \subseteq Buckets
    BY BucketNumbers
  <2> QED
    BY <2>1
<1>5. AlertsAreEarned'
  <2> SUFFICES ASSUME NEW b \in alerts
               PROVE  \E first \in Buckets :
                        /\ Cardinality({c \in first..b : runs'[c] = "failed"}) >= AlertAfter
                        /\ \A c \in first..b : runs'[c] # "completed"
    BY DEF AlertsAreEarned
  <2>1. PICK first \in Buckets :
          /\ Cardinality({c \in first..b : runs[c] = "failed"}) >= AlertAfter
          /\ \A c \in first..b : runs[c] # "completed"
    BY DEF Streak, AlertsAreEarned
  <2>2. b \in Buckets
    BY DEF TypeOK
  <2> QED
    BY <1>4, <2>1, <2>2
<1> QED
  BY <1>2, <1>3, <1>5 DEF Streak, TypeOK

\* An alert stays earned when a newer run is finished.
LEMMA AlertsKept ==
  ASSUME TypeOK, Streak, NEW k \in Buckets, runs[k] = "started",
         \A c \in Buckets : c > k => runs[c] = "absent",
         NEW s, runs' = [runs EXCEPT ![k] = s]
  PROVE  \A b \in alerts :
           /\ b \in Buckets /\ runs'[b] = "failed"
           /\ \E first \in Buckets :
                /\ Cardinality({c \in first..b : runs'[c] = "failed"}) >= AlertAfter
                /\ \A c \in first..b : runs'[c] # "completed"
<1> TAKE b \in alerts
<1>1. b \in Buckets /\ runs[b] = "failed"
  BY DEF TypeOK, Streak
<1>2. PICK n \in Nat : Buckets = 0..n
  BY BucketNumbers
<1>3. b < k
  BY <1>1, <1>2
<1>4. PICK first \in Buckets :
        /\ Cardinality({c \in first..b : runs[c] = "failed"}) >= AlertAfter
        /\ \A c \in first..b : runs[c] # "completed"
  BY DEF Streak, AlertsAreEarned
<1>5. \A c \in first..b : c \in Buckets /\ c # k
  BY <1>1, <1>2, <1>3
<1>6. \A c \in first..b : runs'[c] = runs[c]
  BY <1>5 DEF TypeOK
<1>7. {c \in first..b : runs'[c] = "failed"} = {c \in first..b : runs[c] = "failed"}
  BY <1>6
<1>8. runs'[b] = "failed"
  BY <1>1, <1>2, <1>3 DEF TypeOK
<1> QED
  BY <1>1, <1>4, <1>6, <1>7, <1>8

\* The newest run completes: the streak is over.
LEMMA StreakEnds ==
  ASSUME TypeOK, Streak, NEW k \in Buckets, runs[k] = "started",
         \A c \in Buckets : c > k => runs[c] = "absent",
         runs' = [runs EXCEPT ![k] = "completed"],
         status'.failures = 0, UNCHANGED alerts
  PROVE  Streak'
<1>1. PICK n \in Nat : Buckets = 0..n
  BY BucketNumbers
<1>2. runs'[k] = "completed" /\ \A c \in Buckets : c # k => runs'[c] = runs[c]
  BY DEF TypeOK
<1>3. LastCompleted(k)'
  BY <1>1, <1>2 DEF LastCompleted
<1>4. FailedSince(k)' = {}
  BY <1>1, <1>2 DEF FailedSince
<1>5. \A b \in Buckets \cup {-1} : LastCompleted(b)' => b = k
  <2> SUFFICES ASSUME NEW b \in Buckets \cup {-1}, LastCompleted(b)', b # k
               PROVE  FALSE
    OBVIOUS
  <2>1. CASE b < k
    BY <1>2, <2>1 DEF LastCompleted
  <2>2. CASE b > k
    BY <1>1, <1>2, <2>2 DEF LastCompleted
  <2> QED
    BY <1>1, <2>1, <2>2
<1>6. FailureStreak'
  BY <1>4, <1>5, FS_EmptySet DEF FailureStreak, LastCompleted
<1>7. AlertsAreEarned' /\ \A b \in alerts' : runs'[b] = "failed"
  BY AlertsKept DEF AlertsAreEarned
<1> QED
  BY <1>3, <1>6, <1>7 DEF Streak

\* The newest run fails: the streak grows by one, and may earn an alert.
LEMMA StreakGrows ==
  ASSUME TypeOK, Streak, NEW k \in Buckets, runs[k] = "started",
         \A c \in Buckets : c > k => runs[c] = "absent",
         runs' = [runs EXCEPT ![k] = "failed"],
         status'.failures = status.failures + 1,
         alerts' = alerts \/ (alerts' = alerts \cup {k} /\ status.failures + 1 >= AlertAfter)
  PROVE  Streak'
<1>1. PICK n \in Nat : Buckets = 0..n
  BY BucketNumbers
<1>2. runs'[k] = "failed" /\ \A c \in Buckets : c # k => runs'[c] = runs[c]
  BY DEF TypeOK
<1>3. PICK last \in Buckets \cup {-1} : LastCompleted(last)
  BY DEF Streak
<1>4. \A b \in Buckets \cup {-1} : LastCompleted(b)' <=> LastCompleted(b)
  BY <1>1, <1>2 DEF LastCompleted
<1>5. \A b \in Buckets \cup {-1} :
        LastCompleted(b) => b < k /\ Cardinality(FailedSince(b)') = status.failures + 1
  <2> SUFFICES ASSUME NEW b \in Buckets \cup {-1}, LastCompleted(b)
               PROVE  b < k /\ Cardinality(FailedSince(b)') = status.failures + 1
    OBVIOUS
  <2>1. b < k
    BY <1>1 DEF LastCompleted
  <2>2. FailedSince(b)' = FailedSince(b) \cup {k} /\ k \notin FailedSince(b)
    BY <1>1, <1>2, <2>1 DEF FailedSince
  <2>3. Cardinality(FailedSince(b)) = status.failures
    BY DEF Streak, FailureStreak, LastCompleted
  <2> QED
    BY <2>1, <2>2, <2>3, FailedSinceFinite, FS_AddElement
<1>6. FailureStreak'
  BY <1>4, <1>5 DEF FailureStreak, LastCompleted
<1>7. ASSUME status.failures + 1 >= AlertAfter
      PROVE  \E first \in Buckets :
               /\ Cardinality({c \in first..k : runs'[c] = "failed"}) >= AlertAfter
               /\ \A c \in first..k : runs'[c] # "completed"
  <2>1. last + 1 \in Buckets /\ last < k
    BY <1>1, <1>3, <1>5
  <2>2. {c \in (last + 1)..k : runs'[c] = "failed"} = FailedSince(last)'
    BY <1>1, <1>2, <2>1 DEF FailedSince
  <2>3. \A c \in (last + 1)..k : runs'[c] # "completed"
    BY <1>1, <1>2, <1>3, <2>1 DEF LastCompleted
  <2> QED
    BY <1>3, <1>5, <1>7, <2>1, <2>2, <2>3
<1>8. \A b \in alerts : /\ runs'[b] = "failed"
                        /\ \E first \in Buckets :
                             /\ Cardinality({c \in first..b : runs'[c] = "failed"}) >= AlertAfter
                             /\ \A c \in first..b : runs'[c] # "completed"
  BY AlertsKept
<1>9. AlertsAreEarned' /\ \A b \in alerts' : runs'[b] = "failed"
  BY <1>2, <1>7, <1>8 DEF AlertsAreEarned
<1> QED
  BY <1>3, <1>4, <1>6, <1>9 DEF Streak

\* A busy single process is at work on the newest run, the status row's.
LEMMA BusyIsCurrent ==
  ASSUME RunInv, NEW p \in Processes, Alone(p), proc[p].pc \in Busy
  PROVE  /\ Key(p) \in Buckets /\ Current(Key(p))
         /\ \A c \in Buckets : c > Key(p) => runs[c] = "absent"
<1>1. TypeOK /\ StatusKey /\ StatusIsNewest /\ proc[p].at \in 0..Horizon
  BY Fields DEF RunInv, TypeOK
<1>2. status.attempted_at = proc[p].at
  BY DEF Alone
<1>3. status.attempted_at >= 0 /\ status.key = Key(p)
  BY <1>1, <1>2 DEF StatusKey, Key
<1>4. Key(p) \in Buckets
  BY <1>1, KeyTyped
<1>5. PICK n \in Nat : Buckets = 0..n
  BY BucketNumbers
<1> QED
  BY <1>1, <1>3, <1>4, <1>5 DEF StatusIsNewest, Current

\* The outcome transactions of a single process keep the streak.
LEMMA FinishKeepsStreak ==
  ASSUME RunInv, Streak, NEW p \in Processes, Alone(p), proc[p].pc \in Busy,
         \/ Complete(Key(p)) /\ UNCHANGED alerts
         \/ Fail(Key(p)) /\ UNCHANGED alerts
         \/ /\ Fail(Key(p))
            /\ alerts' = IF Counted(Key(p)) >= AlertAfter
                         THEN alerts \cup {Key(p)} ELSE alerts
  PROVE  Streak' /\ status'.attempted_at = status.attempted_at
<1> DEFINE k == Key(p)
<1>1. /\ k \in Buckets /\ Current(k) /\ TypeOK
      /\ \A c \in Buckets : c > k => runs[c] = "absent"
  BY BusyIsCurrent DEF RunInv
<1>2. status \in StatusRow /\ status.failures \in Nat /\ AlertAfter \in Nat \ {0}
  BY <1>1, Fields, WorkerAssumption DEF WorkerAssumption, TypeOK
<1>3. CASE ~Unfinished(k)
  <2>1. UNCHANGED <<runs, status, alerts>>
    BY <1>2, <1>3 DEF Complete, Fail, Counted
  <2> QED
    BY <1>1, <2>1, StreakKept
<1>4. CASE Unfinished(k) /\ Complete(k) /\ UNCHANGED alerts
  <2>1. /\ runs' = [runs EXCEPT ![k] = "completed"] /\ runs[k] = "started"
        /\ status' = [status EXCEPT !.state = "healthy", !.failures = 0]
    BY <1>1, <1>4 DEF Complete, Healthy, Unfinished
  <2>2. status'.failures = 0 /\ status'.attempted_at = status.attempted_at
    BY <1>2, <2>1 DEF StatusRow
  <2> QED
    BY <1>1, <1>4, <2>1, <2>2, StreakEnds
<1>5. CASE Unfinished(k) /\ Fail(k)
  <2>1. /\ runs' = [runs EXCEPT ![k] = "failed"] /\ runs[k] = "started"
        /\ status' = [status EXCEPT !.state = "failed", !.failures = status.failures + 1]
    BY <1>1, <1>5 DEF Fail, Unfinished
  <2>2. status'.failures = status.failures + 1 /\ status'.attempted_at = status.attempted_at
    BY <1>2, <2>1 DEF StatusRow
  <2>3. Counted(k) = status.failures + 1
    BY <1>1, <1>5 DEF Counted
  <2>4. alerts' = alerts \/ (alerts' = alerts \cup {k} /\ status.failures + 1 >= AlertAfter)
    BY <2>3
  <2> QED
    BY <1>1, <2>1, <2>2, <2>4, StreakGrows
<1> QED
  BY <1>3, <1>4, <1>5

\* Claiming a bucket with the newest reading makes it the status row's, and
\* leaves the streak as it is.
LEMMA InsertKeepsStreak ==
  ASSUME RunInv, Streak, NEW p \in Processes, Alone(p), proc[p].pc = "starting",
         MayInsert(Key(p)), InsertRun(p), UNCHANGED alerts
  PROVE  Streak' /\ status'.attempted_at = proc[p].at
<1>1. /\ TypeOK /\ Key(p) \in Buckets /\ status \in StatusRow
      /\ proc[p].at \in 0..Horizon /\ status.attempted_at \in -1..Horizon
  BY Fields, KeyTyped DEF RunInv, TypeOK
<1>2. Newer(proc[p].at)
  BY <1>1 DEF Alone, Newer
<1>3. /\ runs' = [runs EXCEPT ![Key(p)] = "started"] /\ runs[Key(p)] = "absent"
      /\ status' = [status EXCEPT !.state = "running", !.key = Key(p),
                                  !.attempted_at = proc[p].at]
  BY <1>2 DEF InsertRun, MayInsert
<1>4. status'.failures = status.failures /\ status'.attempted_at = proc[p].at
  BY <1>1, <1>3 DEF StatusRow
<1>5. \A c \in Buckets : /\ runs'[c] = "completed" <=> runs[c] = "completed"
                         /\ runs'[c] = "failed" <=> runs[c] = "failed"
  BY <1>1, <1>3 DEF TypeOK
<1> QED
  BY <1>1, <1>4, <1>5, StreakKept

\* What the single process may become in a step.
LEMMA AloneKept ==
  ASSUME NEW p \in Processes, Alone(p), TypeOK, TypeOK', now' >= now,
         \A q \in Processes \ {p} : proc'[q] = proc[q],
         status'.attempted_at <= now',
         \/ proc'[p].pc = "asleep"
         \/ /\ status'.attempted_at <= proc'[p].at /\ proc'[p].at <= now'
            /\ proc'[p].pc \in Busy => status'.attempted_at = proc'[p].at
  PROVE  Alone(p)'
  BY DEF Alone, Busy

SingleInv(p) == RunInv /\ Streak /\ Alone(p)

\* A step of a worker whose other processes never run.
LEMMA SingleStep ==
  ASSUME NEW p \in Processes, SingleInv(p), Next,
         \A q \in Processes \ {p} : proc'[q] = proc[q]
  PROVE  SingleInv(p)'
<1>0. /\ RunInv /\ Streak /\ Alone(p) /\ TypeOK /\ RunInv' /\ TypeOK'
      /\ proc \in [Processes -> Process] /\ proc[p] \in Process
      /\ status.attempted_at \in -1..Horizon /\ proc[p].at \in 0..Horizon
      /\ now \in 0..Horizon /\ status.attempted_at <= now /\ Horizon \in Nat
  BY NextRunInv, Fields, WorkerAssumption DEF SingleInv, RunInv, TypeOK, Alone, WorkerAssumption
<1>a. ASSUME UNCHANGED <<runs, status, alerts>> PROVE Streak'
  BY <1>0, <1>a, StreakKept
<1>b. ASSUME NEW q \in Processes, Sleep(q) \/ Crashed(q) PROVE proc'[q].pc = "asleep"
  BY <1>0, <1>b DEF Sleep, Crashed, Asleep
<1>c. ASSUME NextAttempt(p) \/ proc' = [proc EXCEPT ![p] = [@ EXCEPT !.pc = "failing"]]
      PROVE  proc'[p].pc \in Busy /\ proc'[p].at = proc[p].at
  BY <1>0, <1>c DEF NextAttempt, Process, Busy
<1>d. proc[p].pc \in Busy => status.attempted_at = proc[p].at /\ proc[p].at <= now
  BY <1>0 DEF Alone, Busy
<1>e. ASSUME Streak', now' >= now, status'.attempted_at <= now',
             \/ proc'[p].pc = "asleep"
             \/ /\ status'.attempted_at <= proc'[p].at /\ proc'[p].at <= now'
                /\ proc'[p].pc \in Busy => status'.attempted_at = proc'[p].at
      PROVE  SingleInv(p)'
  BY <1>0, <1>e, AloneKept DEF SingleInv
<1>1. CASE Wake(p)
  BY <1>0, <1>1, <1>a, <1>e DEF Wake, Busy
<1>2. CASE StartRun(p)
  <2>1. Streak' /\ status'.attempted_at = proc[p].at
    BY <1>0, <1>2, InsertKeepsStreak DEF StartRun
  <2>2. proc'[p].at = proc[p].at /\ proc[p].at <= now
    BY <1>0, <1>2 DEF StartRun, Operate, Process, Alone
  <2> QED
    BY <1>0, <1>2, <1>e, <2>1, <2>2 DEF StartRun
<1>3. CASE SkipDuplicate(p)
  BY <1>0, <1>3, <1>a, <1>b, <1>e DEF SkipDuplicate
<1>4. CASE StartRaises(p)
  <2>1. proc[p].at <= now
    BY <1>0, <1>4 DEF StartRaises, Alone
  <2>2. Streak' /\ status'.attempted_at <= now
    BY <1>0, <1>4, <1>a, <2>1, InsertKeepsStreak DEF StartRaises
  <2> QED
    BY <1>0, <1>4, <1>b, <1>e, <2>2 DEF StartRaises
<1>5. CASE OperationFails(p)
  BY <1>0, <1>5, <1>a, <1>c, <1>d, <1>e DEF OperationFails, Busy
<1>6. CASE OperationSucceeds(p)
  <2>1. proc'[p].at = proc[p].at
    BY <1>0, <1>6 DEF OperationSucceeds, Process
  <2> QED
    BY <1>0, <1>6, <1>a, <1>d, <1>e, <2>1 DEF OperationSucceeds, Busy
<1>7. CASE FinishSuccess(p)
  BY <1>0, <1>7, <1>b, <1>e, FinishKeepsStreak DEF FinishSuccess, Busy
<1>8. CASE FinishSuccessRaises(p)
  <2>1. Streak' /\ status'.attempted_at = status.attempted_at
    BY <1>0, <1>8, <1>a, FinishKeepsStreak DEF FinishSuccessRaises, Busy
  <2> QED
    BY <1>0, <1>8, <1>c, <1>d, <1>e, <2>1 DEF FinishSuccessRaises, Busy
<1>9. CASE FinishFailure(p)
  BY <1>0, <1>9, <1>b, <1>e, FinishKeepsStreak DEF FinishFailure, Busy
<1>10. CASE FinishFailureRaises(p)
  <2>1. Streak' /\ status'.attempted_at = status.attempted_at
    BY <1>0, <1>10, <1>a, FinishKeepsStreak DEF FinishFailureRaises, Busy
  <2> QED
    BY <1>0, <1>10, <1>b, <1>e, <2>1 DEF FinishFailureRaises
<1>11. CASE Restart(p)
  BY <1>0, <1>11, <1>a, <1>e DEF Restart, Asleep
<1>12. CASE Tick
  <2>1. proc'[p].pc = proc[p].pc /\ proc'[p].at = proc[p].at
    BY <1>0, <1>12 DEF Tick, Process
  <2>2. proc[p].pc # "asleep" => status.attempted_at <= proc[p].at /\ proc[p].at <= now
    BY <1>0 DEF Alone
  <2> QED
    BY <1>0, <1>12, <1>a, <1>d, <1>e, <2>1, <2>2 DEF Tick, Step
<1>13. ASSUME NEW q \in Processes \ {p},
              \/ Wake(q) \/ StartRun(q) \/ SkipDuplicate(q) \/ StartRaises(q)
              \/ OperationFails(q) \/ OperationSucceeds(q)
              \/ FinishSuccess(q) \/ FinishSuccessRaises(q)
              \/ FinishFailure(q) \/ FinishFailureRaises(q) \/ Restart(q)
       PROVE  SingleInv(p)'
  <2>1. proc[q] = Asleep(0) /\ proc'[q] = proc[q] /\ proc[q].pc = "asleep"
    BY <1>0 DEF Alone, Asleep
  <2>2. Restart(q)
    <3>1. ~Wake(q)
      BY <1>0, <2>1 DEF Wake
    <3> QED
      BY <1>13, <2>1, <3>1
         DEF StartRun, SkipDuplicate, StartRaises, OperationFails, OperationSucceeds,
             FinishSuccess, FinishSuccessRaises, FinishFailure, FinishFailureRaises
  <2>3. UNCHANGED <<now, runs, status, alerts>> /\ proc'[p] = proc[p]
    BY <1>0, <2>2 DEF Restart
  <2> QED
    BY <1>0, <1>a, <1>d, <1>e, <2>3 DEF Alone
<1> QED
  BY <1>1, <1>2, <1>3, <1>4, <1>5, <1>6, <1>7, <1>8, <1>9, <1>10, <1>11, <1>12,
     <1>13 DEF Next

\* Before the worker has started its streak is empty.
LEMMA InitSingle ==
  ASSUME Init, NEW p \in Processes PROVE SingleInv(p)
<1>1. RunInv /\ Buckets \subseteq Nat
  BY InitRunInv, BucketNumbers
<1>2. \A b : FailedSince(b) = {}
  BY DEF Init, FailedSince
<1>3. LastCompleted(-1) /\ AlertsAreEarned /\ \A b \in alerts : runs[b] = "failed"
  BY <1>1 DEF Init, LastCompleted, AlertsAreEarned
<1>4. FailureStreak
  BY <1>2, FS_EmptySet DEF FailureStreak, Init, NoStatus
<1>5. Alone(p)
  BY DEF Init, Alone, NoStatus, Asleep, Busy
<1> QED
  BY <1>1, <1>3, <1>4, <1>5 DEF SingleInv, Streak

-----------------------------------------------------------------------------
(* The worker whose processes are chosen at the start *)

SingleWorker ==
    /\ active \subseteq Processes
    /\ RunInv
    /\ \A p \in Processes : active = {p} => SingleInv(p)

LEMMA SingleWorkerInvariant == MCSpec => []SingleWorker
<1>1. MCInit => SingleWorker
  BY InitRunInv, InitSingle DEF MCInit, SingleWorker
<1>2. SingleWorker /\ [MCNext]_mcVars => SingleWorker'
  <2> SUFFICES ASSUME SingleWorker, [MCNext]_mcVars PROVE SingleWorker'
    OBVIOUS
  <2>1. CASE MCNext
    <3>1. RunInv' /\ active' = active
      BY <2>1, NextRunInv DEF MCNext, SingleWorker
    <3>2. ASSUME NEW p \in Processes, active = {p} PROVE SingleInv(p)'
      BY <2>1, <3>2, SingleStep DEF MCNext, SingleWorker
    <3> QED
      BY <3>1, <3>2 DEF SingleWorker
  <2>2. CASE UNCHANGED mcVars
    <3>1. RunInv'
      BY <2>2, NextRunInv DEF SingleWorker, mcVars
    <3>2. ASSUME NEW p \in Processes, active = {p} PROVE SingleInv(p)'
      <4>1. SingleInv(p) /\ UNCHANGED vars
        BY <2>2, <3>2 DEF SingleWorker, mcVars
      <4>2. Streak'
        BY <4>1, StreakKept DEF vars, SingleInv, RunInv
      <4>3. Alone(p)'
        BY <4>1 DEF SingleInv, vars, Alone
      <4> QED
        BY <3>1, <4>2, <4>3 DEF SingleInv
    <3> QED
      BY <2>2, <3>1, <3>2 DEF SingleWorker, mcVars
  <2> QED
    BY <2>1, <2>2
<1> QED
  BY <1>1, <1>2, PTL DEF MCSpec

\* One active process is one element.
LEMMA SingleIsOne ==
  ASSUME SingleWorker, Single PROVE \E p \in Processes : active = {p} /\ SingleInv(p)
<1>1. IsFiniteSet(active)
  BY WorkerAssumption, FS_Subset DEF WorkerAssumption, SingleWorker
<1>2. PICK p : active = {p}
  BY <1>1, FS_Singleton DEF Single
<1> QED
  BY <1>2 DEF SingleWorker

\* finish_success, finish_failure: with one process, consecutive_failures is
\* the number of failed runs since the newest completed one, whatever was
\* killed or lost in between.
THEOREM StreakIsCounted == MCSpec => []SingleFailureStreak
<1>1. SingleWorker => SingleFailureStreak
  BY SingleIsOne DEF SingleFailureStreak, SingleInv, Streak
<1> QED
  BY <1>1, SingleWorkerInvariant, PTL

\* run_worker_once: with one process, every alert ended a streak of at least
\* AlertAfter failed runs with no completed run among them.
THEOREM AlertsEarned == MCSpec => []SingleAlertsAreEarned
<1>1. SingleWorker => SingleAlertsAreEarned
  BY SingleIsOne DEF SingleAlertsAreEarned, SingleInv, Streak
<1> QED
  BY <1>1, SingleWorkerInvariant, PTL

-----------------------------------------------------------------------------
(* The loop.  What is needed of powers of two comes from counting subsets. *)

\* 2^k is the number of subsets of 1..k.
LEMMA PowerCounts ==
  ASSUME NEW k \in Nat
  PROVE  /\ IsFiniteSet(SUBSET (1..k)) /\ Cardinality(SUBSET (1..k)) = 2^k
         /\ 2^k \in Nat /\ 2^k >= 1
<1>1. IsFiniteSet(1..k) /\ Cardinality(1..k) = k
  BY FS_Interval
<1>2. IsFiniteSet(SUBSET (1..k)) /\ Cardinality(SUBSET (1..k)) = 2^k
  BY <1>1, FS_SUBSET
<1>3. 2^k \in Nat
  BY <1>2, FS_CardinalityType
<1>4. 2^k # 0
  BY <1>2, FS_EmptySet
<1> QED
  BY <1>2, <1>3, <1>4

\* The subsets of 1..k+1 are those of 1..k, without and with k+1.
LEMMA PowerDoubles ==
  ASSUME NEW k \in Nat PROVE 2^(k + 1) = 2 * 2^k
<1> DEFINE S == SUBSET (1..k)
           T == {X \in SUBSET (1..(k + 1)) : k + 1 \in X}
           f == [X \in S |-> X \cup {k + 1}]
<1>1. f \in Bijection(S, T)
  <2>1. f \in [S -> T]
    OBVIOUS
  <2>2. \A X, Y \in S : f[X] = f[Y] => X = Y
    <3> SUFFICES ASSUME NEW X \in S, NEW Y \in S, f[X] = f[Y] PROVE X = Y
      OBVIOUS
    <3>1. X \cup {k + 1} = Y \cup {k + 1}
      OBVIOUS
    <3>2. k + 1 \notin X /\ k + 1 \notin Y
      OBVIOUS
    <3> QED
      BY <3>1, <3>2
  <2>3. \A Y \in T : \E X \in S : f[X] = Y
    <3> TAKE Y \in T
    <3>1. Y \ {k + 1} \in S
      OBVIOUS
    <3>2. f[Y \ {k + 1}] = Y
      BY <3>1
    <3> QED
      BY <3>1, <3>2
  <2> HIDE DEF f, S, T
  <2>4. f \in Injection(S, T)
    BY <2>1, <2>2 DEF Injection, IsInjective
  <2>5. f \in Surjection(S, T)
    BY <2>1, <2>3 DEF Surjection
  <2> QED
    BY <2>4, <2>5 DEF Bijection
<1>2. IsFiniteSet(S) /\ Cardinality(S) = 2^k
  BY PowerCounts
<1>3. IsFiniteSet(T) /\ Cardinality(T) = 2^k
  BY <1>1, <1>2, FS_Bijection DEF ExistsBijection
<1>4. S \cup T = SUBSET (1..(k + 1)) /\ S \cap T = {}
  <2>1. \A X \in SUBSET (1..(k + 1)) : k + 1 \notin X => X \in S
    OBVIOUS
  <2> QED
    BY <2>1
<1> HIDE DEF S, T
<1>5. PICK m \in Nat : m = 2^k
  BY PowerCounts
<1>6. Cardinality(S \cap T) = 0
  BY <1>4, FS_EmptySet
<1>7. Cardinality(S \cup T) = Cardinality(S) + Cardinality(T) - Cardinality(S \cap T)
  BY <1>2, <1>3, FS_Union
<1>8. Cardinality(S) = m /\ Cardinality(T) = m
  BY <1>2, <1>3, <1>5
<1>9. Cardinality(S \cup T) = 2 * m
  BY <1>6, <1>7, <1>8
<1>10. Cardinality(S \cup T) = 2^(k + 1)
  BY <1>4, PowerCounts
<1> QED
  BY <1>5, <1>9, <1>10

-----------------------------------------------------------------------------
(* The delays *)

\* The delay of the n-th crash in a row is positive and at most the cadence.
LEMMA BackoffBounded ==
  ASSUME NEW n \in Nat \ {0} PROVE Backoff(n) \in 1..CadenceSeconds
<1>1. Least(n - 1, BackoffSteps) \in Nat
  BY LoopAssumption DEF LoopAssumption, Least
<1> DEFINE w == 2^Least(n - 1, BackoffSteps)
<1>2. w \in Nat /\ w >= 1
  BY <1>1, PowerCounts
<1> HIDE DEF w
<1>3. InitialBackoff * w \in Nat /\ InitialBackoff * w >= 1
  BY <1>2, LoopAssumption DEF LoopAssumption
<1>4. Backoff(n) = Least(CadenceSeconds, InitialBackoff * w)
  BY DEF Backoff, w
<1> QED
  BY <1>3, <1>4, LoopAssumption DEF LoopAssumption, Least

\* The next delay is twice as long, or the cadence.
LEMMA BackoffDoubles ==
  ASSUME NEW n \in Nat \ {0}, CadenceSeconds <= InitialBackoff * 2^BackoffSteps
  PROVE  Backoff(n + 1) = Least(CadenceSeconds, 2 * Backoff(n))
<1> USE LoopAssumption DEF LoopAssumption
<1>1. CASE n - 1 < BackoffSteps
  <2> DEFINE w == 2^(n - 1)
  <2>1. Backoff(n) = Least(CadenceSeconds, InitialBackoff * w)
    BY <1>1 DEF Backoff, Least
  <2>2. Least(n, BackoffSteps) = n
    BY <1>1 DEF Least
  <2>3. 2^n = 2 * w /\ w \in Nat /\ w >= 1
    <3>1. n - 1 \in Nat /\ (n - 1) + 1 = n
      OBVIOUS
    <3> QED
      BY <3>1, PowerDoubles, PowerCounts
  <2>4. Backoff(n + 1) = Least(CadenceSeconds, InitialBackoff * 2^n)
    <3>1. (n + 1) - 1 = n
      OBVIOUS
    <3> QED
      BY <2>2, <3>1 DEF Backoff
  <2> HIDE DEF w
  <2>5. InitialBackoff * (2 * w) = 2 * (InitialBackoff * w) /\ InitialBackoff * w \in Nat
    BY <2>3
  <2> QED
    BY <2>1, <2>3, <2>4, <2>5 DEF Least
<1>2. CASE ~(n - 1 < BackoffSteps)
  <2>1. Least(n - 1, BackoffSteps) = BackoffSteps /\ Least(n, BackoffSteps) = BackoffSteps
    BY <1>2 DEF Least
  <2> DEFINE w == 2^BackoffSteps
  <2>2. w \in Nat
    BY PowerCounts
  <2>3. (n + 1) - 1 = n
    OBVIOUS
  <2>4. /\ Backoff(n) = Least(CadenceSeconds, InitialBackoff * w)
        /\ Backoff(n + 1) = Least(CadenceSeconds, InitialBackoff * w)
    BY <2>1, <2>3 DEF Backoff
  <2> HIDE DEF w
  <2>5. InitialBackoff * w \in Nat /\ CadenceSeconds <= InitialBackoff * w
    BY <2>2 DEF w
  <2> QED
    BY <2>4, <2>5 DEF Least
<1> QED
  BY <1>1, <1>2

-----------------------------------------------------------------------------
(* The inductive invariant *)

\* The last wait was the delay of the crashes counted so far.
DelayIsBackoff == crashes > 0 => delay = Backoff(crashes)

LoopInv == LoopTypeOK /\ DelayIsBackoff

\* Counting stops where another crash no longer changes the delay.
LEMMA CountingStops ==
  ASSUME NEW n \in Nat \ {0}
  PROVE  /\ Least(n, CrashBound) \in 1..CrashBound
         /\ Backoff(Least(n, CrashBound)) = Backoff(n)
<1>1. CrashBound \in Nat \ {0} /\ BackoffSteps \in Nat /\ CrashBound > BackoffSteps
  BY LoopAssumption DEF LoopAssumption
<1>2. Least(Least(n, CrashBound) - 1, BackoffSteps) = Least(n - 1, BackoffSteps)
  BY <1>1 DEF Least
<1> QED
  BY <1>1, <1>2 DEF Backoff, Least

LEMMA LoopStarts == LoopInit => LoopInv
<1> SUFFICES ASSUME LoopInit PROVE LoopInv
  OBVIOUS
<1>1. 0 \in 0..CrashBound /\ 0 \in 0..CadenceSeconds
  BY LoopAssumption DEF LoopAssumption
<1>2. crashes = 0 /\ delay = 0
  BY DEF LoopInit
<1>3. LoopTypeOK
  BY <1>1 DEF LoopInit, LoopTypeOK
<1>4. DelayIsBackoff
  BY <1>2 DEF DelayIsBackoff
<1> QED
  BY <1>3, <1>4 DEF LoopInv

\* What a crash does to the counter and the delay.
LEMMA RaisesDoes ==
  ASSUME LoopTypeOK, CycleRaises
  PROVE  /\ crashes' \in 1..CrashBound /\ delay' = Backoff(crashes')
         /\ delay' \in 0..CadenceSeconds /\ delay' = Backoff(crashes + 1)
         /\ pool' \in {"none", "good", "stuck"}
<1>1. crashes + 1 \in Nat \ {0}
  BY LoopAssumption DEF LoopAssumption, LoopTypeOK
<1>2. crashes' = Least(crashes + 1, CrashBound) /\ delay' = Backoff(crashes + 1)
  BY DEF CycleRaises
<1>3. pool' \in {"none", "good", "stuck"}
  BY DEF CycleRaises, LoopTypeOK
<1>4. CadenceSeconds \in Nat
  BY LoopAssumption DEF LoopAssumption
<1> QED
  BY <1>1, <1>2, <1>3, <1>4, CountingStops, BackoffBounded

LEMMA LoopKeeps == LoopInv /\ [LoopNext]_loopVars => LoopInv'
<1> SUFFICES ASSUME LoopInv, [LoopNext]_loopVars PROVE LoopInv'
  OBVIOUS
<1> USE DEF LoopInv, DelayIsBackoff
<1>1. CASE CycleReturns
  BY <1>1, LoopAssumption DEF LoopAssumption, CycleReturns, LoopTypeOK
<1>2. CASE CycleRaises
  <2>1. /\ crashes' \in 1..CrashBound /\ delay' = Backoff(crashes')
        /\ delay' \in 0..CadenceSeconds /\ pool' \in {"none", "good", "stuck"}
    BY <1>2, RaisesDoes
  <2>2. db' = db /\ stopping' = stopping /\ loop' = "wait" /\ crashes' \in 0..CrashBound
    BY <1>2, <2>1, LoopAssumption DEF LoopAssumption, CycleRaises
  <2> QED
    BY <2>1, <2>2 DEF LoopTypeOK
<1>3. CASE WaitEnds \/ Ends \/ RequestStop \/ DatabaseFails \/ DatabaseRecovers
  BY <1>3 DEF WaitEnds, Ends, RequestStop, DatabaseFails, DatabaseRecovers, LoopTypeOK
<1>4. CASE UNCHANGED loopVars
  BY <1>4 DEF loopVars, LoopTypeOK
<1> QED
  BY <1>1, <1>2, <1>3, <1>4 DEF LoopNext, LoopStep

LEMMA LoopInvariant == LoopSpec => []LoopInv
  BY LoopStarts, LoopKeeps, PTL DEF LoopSpec

\* The counter stays within its bound and a wait is never longer than the
\* cadence, however many cycles crash in a row.
THEOREM LoopTypeCorrect == LoopSpec => []LoopTypeOK
<1>1. LoopInv => LoopTypeOK
  BY DEF LoopInv
<1> QED
  BY <1>1, LoopInvariant, PTL

\* run_worker_forever: within an outage every wait is twice the one before,
\* until it is the cadence.  The hypothesis says that the clamp of the exponent
\* comes after the delay has reached the cadence: 2 s doubled twenty times is
\* longer than any cadence of worker_services.py.
THEOREM WaitsDouble ==
  ASSUME CadenceSeconds <= InitialBackoff * 2^BackoffSteps
  PROVE  LoopSpec => BacksOff
<1>1. ASSUME LoopInv, [LoopNext]_loopVars, crashes > 0, crashes' > 0, loop = "cycle", loop' = "wait"
      PROVE  delay' = Least(CadenceSeconds, 2 * delay)
  <2>1. CycleRaises
    BY <1>1 DEF LoopNext, LoopStep, CycleReturns, WaitEnds, Ends, RequestStop, DatabaseFails,
                DatabaseRecovers, loopVars
  <2>2. delay' = Backoff(crashes + 1)
    BY <1>1, <2>1, RaisesDoes DEF LoopInv
  <2>3. crashes \in Nat \ {0} /\ delay = Backoff(crashes)
    BY <1>1, LoopAssumption DEF LoopAssumption, LoopInv, LoopTypeOK, DelayIsBackoff
  <2> QED
    BY <2>2, <2>3, BackoffDoubles
<1>2. LoopInv /\ [LoopNext]_loopVars =>
        [crashes > 0 /\ crashes' > 0 /\ loop = "cycle" /\ loop' = "wait" =>
           delay' = Least(CadenceSeconds, 2 * delay)]_loopVars
  BY <1>1
<1> QED
  BY <1>2, LoopInvariant, PTL DEF LoopSpec, BacksOff
=============================================================================
