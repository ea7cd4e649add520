--------------------------- MODULE CatalogProofs ---------------------------
(* Theorems about the catalog collectors, for any number of processes, any  *)
(* list of partitions and any bounds.                                       *)
EXTENDS CatalogCollection, TLAPS

Holding == {"blocking", "storing", "writing", "rejecting", "completing"}

-----------------------------------------------------------------------------
(* Typing of the updates *)

LEMMA Fields ==
  /\ \A x \in Process : /\ x.pc \in Step /\ x.run \in 0..MaxRuns
                        /\ x.attempt \in 0..MaxAttempts /\ x.part \in Partitions
                        /\ x.cursor \in Cursor /\ x.batch \in 0..MaxBatches
                        /\ x.rejects \in BOOLEAN
  /\ \A x \in Batch : /\ x.status \in Status /\ x.run \in 0..MaxRuns
                      /\ x.part \in Partitions /\ x.cursor \in Cursor
  /\ \A x \in Checkpoint : x.batch \in 0..MaxBatches /\ x.cursor \in Cursor
  BY DEF Process, Batch, Checkpoint

\* The steps of a collector, spelled out for the provers.
LEMMA Steps ==
  \A s \in {"idle", "reading", "opening", "blocking", "storing", "writing",
            "rejecting", "completing", "reporting", "returning"} : s \in Step
  BY DEF Step

\* The counters start within their bounds.
LEMMA Zeros ==
  /\ 0 \in 0..MaxRuns /\ 0 \in 0..MaxAttempts /\ 0 \in 0..MaxBatches
  /\ 0 \in Cursor /\ 1 \in Partitions
  BY CatalogAssumption DEF CatalogAssumption, Cursor, Partitions

\* A collector between invocations is a well-formed process.
LEMMA IdleTyped == Idle \in Process
<1>1. "idle" \in Step
  BY Steps
<1> QED
  BY <1>1, Zeros DEF Idle, Process

\* So is one that begins an attempt.
LEMMA Starts ==
  ASSUME NEW r \in 0..MaxRuns, NEW n \in 0..MaxAttempts
  PROVE  [Idle EXCEPT !.pc = "reading", !.run = r, !.attempt = n] \in Process
<1>1. "reading" \in Step
  BY Steps
<1> QED
  BY <1>1, IdleTyped DEF Process

\* A collector that only takes its next step stays well-formed,
LEMMA Moves ==
  ASSUME NEW x \in Process, NEW s \in Step
  PROVE  [x EXCEPT !.pc = s] \in Process
  BY DEF Process

\* and so does one that turns to another partition,
LEMMA MovesPart ==
  ASSUME NEW x \in Process, NEW s \in Step, NEW q \in Partitions
  PROVE  [x EXCEPT !.pc = s, !.part = q] \in Process
  BY DEF Process

\* one that read its checkpoint,
LEMMA MovesCursor ==
  ASSUME NEW x \in Process, NEW s \in Step, NEW k \in Cursor
  PROVE  [x EXCEPT !.pc = s, !.cursor = k] \in Process
  BY DEF Process

\* one that opened its batch,
LEMMA MovesBatch ==
  ASSUME NEW x \in Process, NEW s \in Step, NEW b \in 0..MaxBatches
  PROVE  [x EXCEPT !.pc = s, !.batch = b] \in Process
  BY DEF Process

\* and one that counted the rejected records of a page.
LEMMA MovesRejects ==
  ASSUME NEW x \in Process, NEW s \in Step, NEW r \in BOOLEAN
  PROVE  [x EXCEPT !.pc = s, !.rejects = r] \in Process
  BY DEF Process

\* Deciding a batch changes its status and not what it is about.
LEMMA Decides ==
  ASSUME NEW x \in Batch, NEW s \in Status
  PROVE  /\ [x EXCEPT !.status = s] \in Batch
         /\ [x EXCEPT !.status = s].status = s
         /\ [x EXCEPT !.status = s].run = x.run
         /\ [x EXCEPT !.status = s].part = x.part
         /\ [x EXCEPT !.status = s].cursor = x.cursor
  BY DEF Batch

\* The statuses of a batch, spelled out for the provers.
LEMMA Statuses == {"absent", "started", "failed", "blocked"} \cup Success \subseteq Status
  BY DEF Status

\* What retrying, and going on with partition q, do to a process.
LEMMA RetryStep ==
  ASSUME TypeOK, NEW c \in Processes, Retry(c)
  PROVE  /\ proc' \in [Processes -> Process]
         /\ \A d \in Processes : d # c => proc'[d] = proc[d]
         /\ proc'[c].pc \in {"idle", "reading"}
         /\ proc'[c].pc = "reading" =>
              proc'[c].run = proc[c].run /\ proc'[c].part = 1
<1>1. proc[c] \in Process /\ proc \in [Processes -> Process]
  BY DEF TypeOK
<1>2. proc[c].run \in 0..MaxRuns /\ proc[c].attempt \in 0..MaxAttempts
  BY <1>1, Fields
<1>3. CASE RetriesLeft(c)
  <2> DEFINE n == proc[c].attempt + 1
             x == [Idle EXCEPT !.pc = "reading", !.run = proc[c].run, !.attempt = n]
  <2>1. n \in 0..MaxAttempts
    BY <1>2, <1>3, CatalogAssumption DEF RetriesLeft, CatalogAssumption
  <2>2. x \in Process
    BY <1>2, <2>1, Starts
  <2>3. proc' = [proc EXCEPT ![c] = x]
    BY <1>3 DEF Retry
  <2>4. x.pc = "reading" /\ x.run = proc[c].run /\ x.part = 1
    BY DEF Idle
  <2> QED
    BY <1>1, <2>2, <2>3, <2>4
<1>4. CASE ~RetriesLeft(c)
  <2>1. proc' = [proc EXCEPT ![c] = Idle] /\ Idle.pc = "idle"
    BY <1>4 DEF Retry, Idle
  <2> QED
    BY <1>1, <2>1, IdleTyped
<1> QED
  BY <1>3, <1>4

\* A collector done with a partition turns to the next one or, after the last,
\* to the health report; the other collectors do not move.
LEMMA ProceedStep ==
  ASSUME TypeOK, NEW c \in Processes, NEW q, Proceed(c, q)
  PROVE  /\ proc' \in [Processes -> Process]
         /\ \A d \in Processes : d # c => proc'[d] = proc[d]
         /\ proc'[c].run = proc[c].run
         /\ q \in Partitions => proc'[c].pc = "reading" /\ proc'[c].part = q
         /\ q \notin Partitions => proc'[c].pc = "reporting"
<1>1. proc[c] \in Process /\ proc \in [Processes -> Process]
  BY DEF TypeOK
<1>2. "reading" \in Step /\ "reporting" \in Step
  BY Steps
<1>3. CASE q \in Partitions
  <2> DEFINE x == [proc[c] EXCEPT !.pc = "reading", !.part = q]
  <2>1. x \in Process
    BY <1>1, <1>2, <1>3, MovesPart
  <2>2. x.pc = "reading" /\ x.part = q /\ x.run = proc[c].run
    BY <1>1 DEF Process
  <2>3. proc' = [proc EXCEPT ![c] = x]
    BY <1>3 DEF Proceed
  <2> QED
    BY <1>1, <1>3, <2>1, <2>2, <2>3
<1>4. CASE q \notin Partitions
  <2> DEFINE x == [proc[c] EXCEPT !.pc = "reporting"]
  <2>1. x \in Process
    BY <1>1, <1>2, Moves
  <2>2. x.pc = "reporting" /\ x.run = proc[c].run
    BY <1>1 DEF Process
  <2>3. proc' = [proc EXCEPT ![c] = x]
    BY <1>4 DEF Proceed
  <2> QED
    BY <1>1, <1>4, <2>1, <2>2, <2>3
<1> QED
  BY <1>3, <1>4

-----------------------------------------------------------------------------
(* The evidence of a batch *)

\* Batches are numbered without gaps, and evidence belongs to one of them.
Numbered ==
    /\ \A b \in BatchId : b <= opened <=> batches[b].status # "absent"
    /\ payloads \subseteq 1..opened

\* A collector works on a batch of its own collection, partition and cursor.
HoldsBatch(c) == proc[c].pc \in Holding =>
    /\ proc[c].batch \in 1..opened
    /\ batches[proc[c].batch].run = proc[c].run
    /\ batches[proc[c].batch].part = proc[c].part
    /\ batches[proc[c].batch].cursor = proc[c].cursor

\* What a collector stored before it got where it is.
LeftEvidence(c) ==
    /\ proc[c].pc \in {"writing", "rejecting", "completing"} => proc[c].batch \in payloads
    /\ proc[c].pc \in {"rejecting", "completing"} => proc[c].batch \in written
    /\ proc[c].pc = "completing" /\ proc[c].rejects => proc[c].batch \in rejected

EvidenceInv ==
    /\ TypeOK /\ Numbered /\ EvidenceFirst
    /\ \A c \in Processes : HoldsBatch(c) /\ LeftEvidence(c)

\* No step takes anything back: identities of batches, successes, evidence.
Grows ==
    /\ opened <= opened'
    /\ payloads \subseteq payloads' /\ written \subseteq written'
    /\ rejected \subseteq rejected'
    /\ \A b \in 1..opened :
         /\ batches'[b].run = batches[b].run
         /\ batches'[b].part = batches[b].part
         /\ batches'[b].cursor = batches[b].cursor
         /\ batches[b].status \in Success => batches'[b].status \in Success

\* The evidence invariant holds in an empty database.
LEMMA InitEvidence == Init => EvidenceInv
<1> SUFFICES ASSUME Init PROVE EvidenceInv
  OBVIOUS
<1>1. NoBatch \in Batch /\ NoBatch.status = "absent"
  BY Zeros, Statuses DEF NoBatch, Batch
<1>2. [batch |-> 0, cursor |-> 0] \in Checkpoint
  BY Zeros DEF Checkpoint
<1>3. TypeOK
  BY <1>1, <1>2, IdleTyped, Zeros DEF Init, TypeOK
<1>4. Numbered /\ EvidenceFirst
  BY <1>1, CatalogAssumption
     DEF Init, Numbered, EvidenceFirst, Succeeded, Success, BatchId, CatalogAssumption
<1>5. ASSUME NEW c \in Processes PROVE HoldsBatch(c) /\ LeftEvidence(c)
  BY DEF Init, Idle, HoldsBatch, LeftEvidence, Holding
<1> QED
  BY <1>3, <1>4, <1>5 DEF EvidenceInv

\* A process that did not move keeps its facts while the tables grow.
LEMMA OthersKeep ==
  ASSUME EvidenceInv, Grows, opened' \in Nat, NEW d \in Processes, proc'[d] = proc[d]
  PROVE  HoldsBatch(d)' /\ LeftEvidence(d)'
<1>1. opened \in Nat
  BY CatalogAssumption DEF EvidenceInv, TypeOK, CatalogAssumption
<1>2. HoldsBatch(d) /\ LeftEvidence(d)
  BY DEF EvidenceInv
<1>3. HoldsBatch(d)'
  BY <1>1, <1>2 DEF HoldsBatch, Grows
<1>4. LeftEvidence(d)'
  BY <1>2 DEF LeftEvidence, Grows
<1> QED
  BY <1>3, <1>4

\* Steps that leave the tables alone and take c to a step without a batch.
LEMMA ControlKeeps ==
  ASSUME EvidenceInv, NEW c \in Processes, UNCHANGED tables,
         runs' \in 0..MaxRuns, proc' \in [Processes -> Process],
         \A d \in Processes : d # c => proc'[d] = proc[d],
         proc'[c].pc \notin Holding
  PROVE  EvidenceInv' /\ Grows
<1> USE DEF tables
<1>1. opened \in Nat
  BY CatalogAssumption DEF EvidenceInv, TypeOK, CatalogAssumption
<1>2. Grows
  BY <1>1 DEF Grows
<1>3. TypeOK'
  BY DEF EvidenceInv, TypeOK
<1>4. Numbered' /\ EvidenceFirst'
  BY DEF EvidenceInv, Numbered, EvidenceFirst, Succeeded
<1>5. HoldsBatch(c)' /\ LeftEvidence(c)'
  BY DEF HoldsBatch, LeftEvidence, Holding
<1>6. ASSUME NEW d \in Processes PROVE HoldsBatch(d)' /\ LeftEvidence(d)'
  BY <1>1, <1>2, <1>5, OthersKeep
<1> QED
  BY <1>2, <1>3, <1>4, <1>6 DEF EvidenceInv

\* Starting an invocation keeps the evidence and takes nothing back.
LEMMA BeginKeeps ==
  ASSUME EvidenceInv, NEW c \in Processes, Begin(c) PROVE EvidenceInv' /\ Grows
<1> DEFINE x == [Idle EXCEPT !.pc = "reading", !.run = runs + 1, !.attempt = 1]
<1>1. runs + 1 \in 0..MaxRuns /\ 1 \in 0..MaxAttempts
  BY CatalogAssumption DEF EvidenceInv, TypeOK, CatalogAssumption, Begin
<1>2. x \in Process /\ x.pc = "reading"
  BY <1>1, Starts DEF Idle
<1>3. proc \in [Processes -> Process] /\ proc' = [proc EXCEPT ![c] = x]
  BY DEF EvidenceInv, TypeOK, Begin
<1>4. UNCHANGED tables /\ runs' = runs + 1
  BY DEF Begin
<1> QED
  BY <1>1, <1>2, <1>3, <1>4, ControlKeeps DEF Holding

\* Neither does an attempt that raises: what it wrote stays for the retry.
LEMMA FailsKeeps ==
  ASSUME EvidenceInv, NEW c \in Processes, AttemptFails(c) PROVE EvidenceInv' /\ Grows
<1>1. Retry(c) /\ UNCHANGED tables /\ runs' = runs /\ TypeOK /\ runs \in 0..MaxRuns
  BY DEF AttemptFails, EvidenceInv, TypeOK
<1> QED
  BY <1>1, RetryStep, ControlKeeps DEF Holding

\* A killed collector leaves its rows behind and changes none.
LEMMA StopsKeeps ==
  ASSUME EvidenceInv, NEW c \in Processes, Die(c) \/ Return(c)
  PROVE  EvidenceInv' /\ Grows
<1>1. /\ proc' = [proc EXCEPT ![c] = Idle] /\ proc \in [Processes -> Process]
      /\ UNCHANGED tables /\ runs' = runs /\ runs \in 0..MaxRuns
  BY DEF Die, Return, EvidenceInv, TypeOK
<1>2. Idle.pc = "idle"
  BY DEF Idle
<1> QED
  BY <1>1, <1>2, IdleTyped, ControlKeeps DEF Holding

\* Reading a checkpoint changes no row.
LEMMA ReadKeeps ==
  ASSUME EvidenceInv, NEW c \in Processes, ReadCheckpoint(c)
  PROVE  EvidenceInv' /\ Grows
<1> DEFINE p == proc[c].part
           k == IF Cursored(p) THEN checkpoint[p].cursor ELSE 0
           x == [proc[c] EXCEPT !.pc = "opening", !.cursor = k]
<1>1. proc \in [Processes -> Process] /\ proc[c] \in Process /\ runs \in 0..MaxRuns
  BY DEF EvidenceInv, TypeOK
<1>2. k \in Cursor
  BY <1>1, Fields, Zeros DEF EvidenceInv, TypeOK
<1>3. x \in Process /\ x.pc = "opening"
  BY <1>1, <1>2, Steps, MovesCursor DEF Process
<1>4. proc' = [proc EXCEPT ![c] = x] /\ UNCHANGED tables /\ runs' = runs
  BY DEF ReadCheckpoint
<1> QED
  BY <1>1, <1>3, <1>4, ControlKeeps DEF Holding

\* Passing over a document the listing did not name changes no row.
LEMMA NotNamedKeeps ==
  ASSUME EvidenceInv, NEW c \in Processes, NotNamed(c) PROVE EvidenceInv' /\ Grows
<1>1. /\ Proceed(c, proc[c].part + 1) /\ UNCHANGED tables /\ runs' = runs
      /\ TypeOK /\ runs \in 0..MaxRuns
  BY DEF NotNamed, EvidenceInv, TypeOK
<1>2. proc'[c].pc \in {"reading", "reporting"}
  BY <1>1, ProceedStep
<1> QED
  BY <1>1, <1>2, ProceedStep, ControlKeeps DEF Holding

\* Reporting a source healthy changes nothing the evidence rests on.
LEMMA ReportKeeps ==
  ASSUME EvidenceInv, NEW c \in Processes, ReportFresh(c) PROVE EvidenceInv' /\ Grows
<1> DEFINE x == [proc[c] EXCEPT !.pc = "returning"]
<1> USE DEF ReportFresh
<1>1. proc \in [Processes -> Process] /\ proc[c] \in Process /\ opened \in Nat
  BY CatalogAssumption DEF EvidenceInv, TypeOK, CatalogAssumption
<1>2. x \in Process /\ x.pc = "returning" /\ proc' = [proc EXCEPT ![c] = x]
  BY <1>1, Steps, Moves DEF Goto, Process
<1>3. health' \in 0..MaxRuns
  BY <1>1, Fields
<1>4. TypeOK' /\ Numbered' /\ EvidenceFirst' /\ Grows
  BY <1>1, <1>2, <1>3 DEF EvidenceInv, TypeOK, Numbered, EvidenceFirst, Succeeded, Grows
<1>5. ASSUME NEW d \in Processes PROVE HoldsBatch(d)' /\ LeftEvidence(d)'
  <2>1. CASE d = c
    BY <1>1, <1>2, <2>1 DEF HoldsBatch, LeftEvidence, Holding
  <2>2. CASE d # c
    BY <1>1, <1>2, <1>4, <2>2, OthersKeep
  <2> QED
    BY <2>1, <2>2
<1> QED
  BY <1>4, <1>5 DEF EvidenceInv

\* store_payload, the upserts and the rejections only add evidence.
LEMMA EvidenceKeeps ==
  ASSUME EvidenceInv, NEW c \in Processes,
         StorePayload(c) \/ WriteRows(c) \/ RecordRejections(c)
  PROVE  EvidenceInv' /\ Grows
<1> DEFINE b == proc[c].batch
<1>1. /\ proc \in [Processes -> Process] /\ proc[c] \in Process
      /\ opened \in Nat /\ opened <= MaxBatches /\ MaxBatches \in Nat
  BY CatalogAssumption DEF EvidenceInv, TypeOK, CatalogAssumption
<1>2. proc[c].pc \in {"storing", "writing", "rejecting"}
  BY DEF StorePayload, WriteRows, RecordRejections, At
<1>3. HoldsBatch(c) /\ LeftEvidence(c) /\ b \in 1..opened /\ b \in BatchId
  BY <1>1, <1>2 DEF EvidenceInv, HoldsBatch, Holding, BatchId
<1>4. /\ UNCHANGED <<batches, opened, checkpoint, health, runs>>
      /\ payloads' \in {payloads, payloads \cup {b}}
      /\ written' \in {written, written \cup {b}}
      /\ rejected' \in {rejected, rejected \cup {b}}
  BY DEF StorePayload, WriteRows, RecordRejections
<1>5. Grows
  BY <1>1, <1>4 DEF Grows
<1>6. Numbered' /\ EvidenceFirst'
  BY <1>3, <1>4 DEF EvidenceInv, Numbered, EvidenceFirst, Succeeded
<1>7. PICK x \in Process :
        /\ proc' = [proc EXCEPT ![c] = x]
        /\ x.batch = b /\ x.run = proc[c].run /\ x.part = proc[c].part
        /\ x.cursor = proc[c].cursor
        /\ x.pc \in {"writing", "rejecting", "completing"} /\ b \in payloads'
        /\ x.pc \in {"rejecting", "completing"} => b \in written'
        /\ x.pc = "completing" /\ x.rejects => b \in rejected'
  <2>1. CASE StorePayload(c)
    <3> DEFINE y == [proc[c] EXCEPT !.pc = "writing"]
    <3>1. y \in Process
      BY <1>1, Steps, Moves
    <3>2. /\ y.pc = "writing" /\ y.batch = b /\ y.run = proc[c].run
          /\ y.part = proc[c].part /\ y.cursor = proc[c].cursor
      BY <1>1 DEF Process
    <3>3. proc' = [proc EXCEPT ![c] = y] /\ b \in payloads'
      BY <2>1 DEF StorePayload, Goto
    <3> QED
      BY <3>1, <3>2, <3>3
  <2>2. CASE WriteRows(c)
    <3>1. PICK r \in BOOLEAN : proc' = [proc EXCEPT ![c] = [@ EXCEPT
            !.pc = IF r THEN "rejecting" ELSE "completing", !.rejects = r]]
      BY <2>2 DEF WriteRows
    <3> DEFINE s == IF r THEN "rejecting" ELSE "completing"
               y == [proc[c] EXCEPT !.pc = s, !.rejects = r]
    <3>2. s \in Step
      BY Steps
    <3>3. y \in Process
      BY <1>1, <3>2, MovesRejects
    <3>4. /\ y.pc = s /\ y.rejects = r /\ y.batch = b /\ y.run = proc[c].run
          /\ y.part = proc[c].part /\ y.cursor = proc[c].cursor
      BY <1>1 DEF Process
    <3>5. proc' = [proc EXCEPT ![c] = y]
      BY <3>1
    <3>6. b \in payloads' /\ b \in written'
      BY <1>3, <2>2 DEF WriteRows, LeftEvidence, At
    <3>7. s \in {"rejecting", "completing"} /\ (s = "completing" => ~r)
      OBVIOUS
    <3> HIDE DEF s
    <3> QED
      BY <3>3, <3>4, <3>5, <3>6, <3>7
  <2>3. CASE RecordRejections(c)
    <3> DEFINE y == [proc[c] EXCEPT !.pc = "completing"]
    <3>1. y \in Process
      BY <1>1, Steps, Moves
    <3>2. /\ y.pc = "completing" /\ y.batch = b /\ y.run = proc[c].run
          /\ y.part = proc[c].part /\ y.cursor = proc[c].cursor
      BY <1>1 DEF Process
    <3>3. proc' = [proc EXCEPT ![c] = y] /\ b \in rejected'
      BY <2>3 DEF RecordRejections, Goto
    <3>4. b \in payloads' /\ b \in written'
      BY <1>3, <2>3 DEF RecordRejections, LeftEvidence, At
    <3> QED
      BY <3>1, <3>2, <3>3, <3>4
  <2> QED
    BY <2>1, <2>2, <2>3
<1>8. TypeOK'
  BY <1>1, <1>3, <1>4, <1>7 DEF EvidenceInv, TypeOK
<1>9. ASSUME NEW d \in Processes PROVE HoldsBatch(d)' /\ LeftEvidence(d)'
  <2>1. CASE d = c
    <3>1. proc'[c] = x
      BY <1>1, <1>7
    <3> QED
      BY <1>2, <1>3, <1>4, <1>7, <2>1, <3>1 DEF HoldsBatch, LeftEvidence, Holding
  <2>2. CASE d # c
    BY <1>1, <1>4, <1>5, <1>7, <2>2, OthersKeep
  <2> QED
    BY <2>1, <2>2
<1> QED
  BY <1>5, <1>6, <1>8, <1>9 DEF EvidenceInv

\* What opening a new batch changes.
LEMMA NewBatch ==
  ASSUME EvidenceInv, NEW c \in Processes, opened < MaxBatches,
         opened' = opened + 1,
         batches' = [batches EXCEPT ![opened + 1] =
           [status |-> "started", run |-> proc[c].run,
            part |-> proc[c].part, cursor |-> proc[c].cursor]]
  PROVE  /\ opened + 1 \in BatchId /\ opened' \in 0..MaxBatches
         /\ batches' \in [BatchId -> Batch]
         /\ batches'[opened + 1].status = "started"
         /\ batches'[opened + 1].run = proc[c].run
         /\ batches'[opened + 1].part = proc[c].part
         /\ batches'[opened + 1].cursor = proc[c].cursor
         /\ \A b \in BatchId : b # opened + 1 => batches'[b] = batches[b]
<1> DEFINE new == [status |-> "started", run |-> proc[c].run,
                   part |-> proc[c].part, cursor |-> proc[c].cursor]
<1>1. /\ opened \in Nat /\ MaxBatches \in Nat /\ proc[c] \in Process
      /\ batches \in [BatchId -> Batch]
  BY CatalogAssumption DEF EvidenceInv, TypeOK, CatalogAssumption
<1>2. opened + 1 \in BatchId /\ opened' \in 0..MaxBatches
  BY <1>1 DEF BatchId
<1>3. new \in Batch
  <2>1. "started" \in Status
    BY Statuses
  <2> QED
    BY <1>1, <2>1, Fields DEF Batch
<1> QED
  BY <1>1, <1>2, <1>3

\* A new batch takes the next number; a reused one is left as it is.
LEMMA OpenKeeps ==
  ASSUME EvidenceInv, NEW c \in Processes, OpenBatch(c) PROVE EvidenceInv' /\ Grows
<1>1. /\ proc \in [Processes -> Process] /\ proc[c] \in Process
      /\ opened \in Nat /\ opened <= MaxBatches /\ MaxBatches \in Nat
      /\ batches \in [BatchId -> Batch]
  BY CatalogAssumption DEF EvidenceInv, TypeOK, CatalogAssumption
<1>2. UNCHANGED <<payloads, written, rejected, checkpoint, health, runs>>
  BY DEF OpenBatch
<1>3. PICK live \in BOOLEAN :
        \/ \E b \in Known(c) :
             /\ proc' = [proc EXCEPT ![c] =
                  [@ EXCEPT !.pc = Judge(live, FALSE), !.batch = b]]
             /\ UNCHANGED <<batches, opened>>
        \/ /\ Known(c) = {} /\ opened < MaxBatches
           /\ opened' = opened + 1
           /\ batches' = [batches EXCEPT ![opened + 1] =
                [status |-> "started", run |-> proc[c].run,
                 part |-> proc[c].part, cursor |-> proc[c].cursor]]
           /\ proc' = [proc EXCEPT ![c] =
                [@ EXCEPT !.pc = Judge(live, TRUE), !.batch = opened + 1]]
  BY DEF OpenBatch
<1> DEFINE s == Judge(live, TRUE)
<1>4. s = Judge(live, FALSE) /\ s \in {"storing", "blocking"} /\ s \in Step
  BY Steps DEF Judge
<1>5. /\ opened' \in Nat /\ opened' <= MaxBatches /\ Grows /\ Numbered' /\ EvidenceFirst'
      /\ batches' \in [BatchId -> Batch]
      /\ \E b \in 1..opened' :
           /\ proc' = [proc EXCEPT ![c] = [@ EXCEPT !.pc = s, !.batch = b]]
           /\ batches'[b].run = proc[c].run
           /\ batches'[b].part = proc[c].part
           /\ batches'[b].cursor = proc[c].cursor
  <2>1. CASE \E b \in Known(c) :
             /\ proc' = [proc EXCEPT ![c] =
                  [@ EXCEPT !.pc = Judge(live, FALSE), !.batch = b]]
             /\ UNCHANGED <<batches, opened>>
    <3>1. UNCHANGED <<batches, opened>>
      BY <2>1
    <3>2. Grows /\ Numbered' /\ EvidenceFirst'
      BY <1>1, <1>2, <3>1
         DEF Grows, EvidenceInv, Numbered, EvidenceFirst, Succeeded
    <3>3. PICK b \in Known(c) : proc' = [proc EXCEPT ![c] =
                  [@ EXCEPT !.pc = Judge(live, FALSE), !.batch = b]]
      BY <2>1
    <3>4. /\ b \in 1..opened /\ batches[b].run = proc[c].run
          /\ batches[b].part = proc[c].part /\ batches[b].cursor = proc[c].cursor
      BY <3>3 DEF Known
    <3>5. proc' = [proc EXCEPT ![c] = [@ EXCEPT !.pc = s, !.batch = b]]
      BY <1>4, <3>3
    <3> HIDE DEF s
    <3> QED
      BY <1>1, <3>1, <3>2, <3>4, <3>5
  <2>2. CASE /\ Known(c) = {} /\ opened < MaxBatches
             /\ opened' = opened + 1
             /\ batches' = [batches EXCEPT ![opened + 1] =
                  [status |-> "started", run |-> proc[c].run,
                   part |-> proc[c].part, cursor |-> proc[c].cursor]]
             /\ proc' = [proc EXCEPT ![c] =
                  [@ EXCEPT !.pc = Judge(live, TRUE), !.batch = opened + 1]]
    <3>1. /\ opened + 1 \in BatchId /\ opened' \in 0..MaxBatches
          /\ batches' \in [BatchId -> Batch]
          /\ batches'[opened + 1].status = "started"
          /\ batches'[opened + 1].run = proc[c].run
          /\ batches'[opened + 1].part = proc[c].part
          /\ batches'[opened + 1].cursor = proc[c].cursor
          /\ \A b \in BatchId : b # opened + 1 => batches'[b] = batches[b]
      BY <2>2, NewBatch
    <3>2. 1..opened \subseteq BatchId /\ BatchId = 1..MaxBatches
      BY <1>1 DEF BatchId
    <3>3. Grows
      BY <1>1, <1>2, <2>2, <3>1, <3>2 DEF Grows
    <3>4. Numbered'
      <4>1. ASSUME NEW b \in BatchId
            PROVE  b <= opened' <=> batches'[b].status # "absent"
        <5>1. CASE b = opened + 1
          BY <1>1, <2>2, <3>1, <5>1
        <5>2. CASE b # opened + 1
          BY <1>1, <2>2, <3>1, <3>2, <5>2 DEF EvidenceInv, Numbered
        <5> QED
          BY <5>1, <5>2
      <4>2. payloads' \subseteq 1..opened'
        BY <1>1, <1>2, <2>2 DEF EvidenceInv, Numbered
      <4> QED
        BY <4>1, <4>2 DEF Numbered
    <3>5. EvidenceFirst'
      BY <1>2, <3>1 DEF EvidenceInv, EvidenceFirst, Succeeded, Success
    <3>6. opened + 1 \in 1..opened'
      BY <1>1, <2>2
    <3>7. proc' = [proc EXCEPT ![c] = [@ EXCEPT !.pc = s, !.batch = opened + 1]]
      BY <2>2
    <3>8. opened' \in Nat /\ opened' <= MaxBatches
      BY <1>1, <3>1
    <3> HIDE DEF s
    <3>9. \E b \in 1..opened' :
           /\ proc' = [proc EXCEPT ![c] = [@ EXCEPT !.pc = s, !.batch = b]]
           /\ batches'[b].run = proc[c].run
           /\ batches'[b].part = proc[c].part
           /\ batches'[b].cursor = proc[c].cursor
      BY <3>1, <3>6, <3>7
    <3> QED
      BY <3>1, <3>3, <3>4, <3>5, <3>8, <3>9
  <2> QED
    BY <1>3, <2>1, <2>2
<1>6. PICK b \in 1..opened' :
        /\ proc' = [proc EXCEPT ![c] = [@ EXCEPT !.pc = s, !.batch = b]]
        /\ batches'[b].run = proc[c].run
        /\ batches'[b].part = proc[c].part
        /\ batches'[b].cursor = proc[c].cursor
  BY <1>5
<1> DEFINE x == [proc[c] EXCEPT !.pc = s, !.batch = b]
<1>7. b \in 0..MaxBatches
  BY <1>1, <1>5, <1>6
<1> HIDE DEF s
<1>8. /\ x \in Process /\ x.pc = s /\ x.batch = b /\ x.run = proc[c].run
      /\ x.part = proc[c].part /\ x.cursor = proc[c].cursor
  BY <1>1, <1>4, <1>7, MovesBatch DEF Process
<1>9. proc' \in [Processes -> Process] /\ proc'[c] = x
  BY <1>1, <1>6, <1>8
<1>10. TypeOK'
  BY <1>1, <1>2, <1>5, <1>9 DEF EvidenceInv, TypeOK
<1>11. ASSUME NEW d \in Processes PROVE HoldsBatch(d)' /\ LeftEvidence(d)'
  <2>1. CASE d = c
    BY <1>4, <1>6, <1>8, <1>9, <2>1 DEF HoldsBatch, LeftEvidence, Holding
  <2>2. CASE d # c
    BY <1>1, <1>5, <1>6, <2>2, OthersKeep
  <2> QED
    BY <2>1, <2>2
<1> QED
  BY <1>5, <1>10, <1>11 DEF EvidenceInv

\* What deciding batch b as s changes, if b was still undecided.
LEMMA Decision ==
  ASSUME EvidenceInv, NEW b \in 1..opened, NEW s \in (Status \ {"absent"}),
         batches' = IF Undecided(b) THEN [batches EXCEPT ![b] = [@ EXCEPT !.status = s]]
                                    ELSE batches
  PROVE  /\ batches' \in [BatchId -> Batch]
         /\ \A x \in BatchId : /\ batches'[x].run = batches[x].run
                               /\ batches'[x].part = batches[x].part
                               /\ batches'[x].cursor = batches[x].cursor
                               /\ x # b => batches'[x] = batches[x]
         /\ Undecided(b) => batches'[b].status = s
         /\ ~Undecided(b) => batches'[b] = batches[b]
<1>1. batches \in [BatchId -> Batch] /\ b \in BatchId
  BY CatalogAssumption DEF EvidenceInv, TypeOK, BatchId, CatalogAssumption
<1> DEFINE x == [batches[b] EXCEPT !.status = s]
<1>2. /\ x \in Batch /\ x.status = s /\ x.run = batches[b].run
      /\ x.part = batches[b].part /\ x.cursor = batches[b].cursor
  BY <1>1, Decides
<1>3. CASE Undecided(b)
  <2>1. batches' = [batches EXCEPT ![b] = x]
    BY <1>3
  <2> HIDE DEF x
  <2> QED
    BY <1>1, <1>2, <1>3, <2>1
<1>4. CASE ~Undecided(b)
  BY <1>1, <1>4
<1> QED
  BY <1>3, <1>4

\* Deciding an opened batch keeps the numbering and takes nothing back.
LEMMA DecidingGrows ==
  ASSUME EvidenceInv, NEW b \in 1..opened, NEW s \in (Status \ {"absent"}),
         batches' = IF Undecided(b) THEN [batches EXCEPT ![b] = [@ EXCEPT !.status = s]]
                                    ELSE batches,
         UNCHANGED <<opened, payloads, written, rejected>>
  PROVE  Grows /\ Numbered'
<1>1. /\ opened \in Nat /\ opened <= MaxBatches /\ 1..opened \subseteq BatchId
      /\ b \in BatchId
  BY CatalogAssumption DEF EvidenceInv, TypeOK, BatchId, CatalogAssumption
<1>2. \A x \in BatchId : x # b => batches'[x] = batches[x]
  BY Decision
<1>3. Undecided(b) => batches'[b].status = s
  BY Decision
<1>4. ~Undecided(b) => batches'[b] = batches[b]
  BY Decision
<1>5. Undecided(b) => batches[b].status \notin Success
  BY DEF Undecided, Success
<1>6. ASSUME NEW x \in 1..opened
      PROVE  batches[x].status \in Success => batches'[x].status \in Success
  BY <1>1, <1>2, <1>4, <1>5
<1>7. Grows
  <2>1. \A x \in BatchId : /\ batches'[x].run = batches[x].run
                          /\ batches'[x].part = batches[x].part
                          /\ batches'[x].cursor = batches[x].cursor
    BY Decision
  <2> QED
    BY <1>1, <1>6, <2>1 DEF Grows
<1>8. Numbered'
  <2>1. ASSUME NEW x \in BatchId PROVE x <= opened <=> batches'[x].status # "absent"
    BY <1>1, <1>2, <1>3, <1>4 DEF EvidenceInv, Numbered, Undecided
  <2> QED
    BY <2>1 DEF EvidenceInv, Numbered
<1> QED
  BY <1>7, <1>8

\* A batch that is blocked or failed never becomes a success without evidence.
LEMMA BlockKeeps ==
  ASSUME EvidenceInv, NEW c \in Processes, Block(c) PROVE EvidenceInv' /\ Grows
<1> DEFINE b == proc[c].batch
           p == proc[c].part
<1>1. /\ proc \in [Processes -> Process] /\ proc[c] \in Process /\ TypeOK
      /\ opened \in Nat /\ opened <= MaxBatches
  BY CatalogAssumption DEF EvidenceInv, TypeOK, CatalogAssumption
<1>2. b \in 1..opened
  BY DEF EvidenceInv, HoldsBatch, Holding, Block, At
<1>3. UNCHANGED <<opened, payloads, written, rejected, checkpoint, health, runs>>
  BY DEF Block
<1>4. "blocked" \in Status \ {"absent"}
  BY Statuses
<1>5. batches' = IF Undecided(b) THEN [batches EXCEPT ![b] = [@ EXCEPT !.status = "blocked"]]
                                 ELSE batches
  BY DEF Block
<1>6. Grows /\ Numbered' /\ batches' \in [BatchId -> Batch]
  BY <1>2, <1>3, <1>4, <1>5, DecidingGrows, Decision
<1>7. EvidenceFirst'
  <2>1. ASSUME NEW x \in BatchId, batches'[x].status \in Success
        PROVE  batches'[x].status = batches[x].status
    BY <1>2, <1>4, <1>5, <2>1, Decision DEF Success
  <2> QED
    BY <1>3, <2>1 DEF EvidenceInv, EvidenceFirst, Succeeded
<1>8. /\ proc' \in [Processes -> Process] /\ proc'[c].pc \notin Holding
      /\ \A d \in Processes : d # c => proc'[d] = proc[d]
  <2>1. Retry(c) \/ Proceed(c, p + 1)
    BY DEF Block
  <2> QED
    BY <1>1, <2>1, RetryStep, ProceedStep DEF Holding
<1>9. TypeOK'
  BY <1>1, <1>3, <1>6, <1>8 DEF TypeOK
<1>10. ASSUME NEW d \in Processes PROVE HoldsBatch(d)' /\ LeftEvidence(d)'
  <2>1. CASE d = c
    BY <1>8, <2>1 DEF HoldsBatch, LeftEvidence, Holding
  <2>2. CASE d # c
    BY <1>1, <1>3, <1>6, <1>8, <2>2, OthersKeep
  <2> QED
    BY <2>1, <2>2
<1> QED
  BY <1>6, <1>7, <1>9, <1>10 DEF EvidenceInv

\* complete_batch, seen from the batch it completes.
CompletesAs(c, next, short) ==
    LET b == proc[c].batch
        p == proc[c].part
        outcome == IF proc[c].rejects THEN "completed_with_rejections" ELSE "completed"
        end == IF Cursored(p) THEN next ELSE 0 IN
    /\ batches' = IF Undecided(b) THEN [batches EXCEPT ![b] = [@ EXCEPT !.status = outcome]]
                                  ELSE batches
    /\ checkpoint' = IF Advances(b, p)
                     THEN [checkpoint EXCEPT ![p] = [batch |-> b, cursor |-> end]]
                     ELSE checkpoint
    /\ \E q \in Following(p, short /\ Offset(p)) : Proceed(c, q)

\* What completing a batch does, with the two choices of Complete named.
LEMMA Completion ==
  ASSUME EvidenceInv, NEW c \in Processes, Complete(c)
  PROVE  /\ proc[c].pc = "completing" /\ proc[c].batch \in 1..opened
         /\ UNCHANGED <<opened, payloads, written, rejected, health, runs>>
         /\ \E next \in {0, proc[c].cursor + 1} \cap Cursor, short \in BOOLEAN :
              CompletesAs(c, next, short)
<1>1. proc[c].pc = "completing"
  BY DEF Complete, At
<1>2. proc[c].batch \in 1..opened
  BY <1>1 DEF EvidenceInv, HoldsBatch, Holding
<1>3. UNCHANGED <<opened, payloads, written, rejected, health, runs>>
  BY DEF Complete
<1>4. \E next \in {0, proc[c].cursor + 1} \cap Cursor, short \in BOOLEAN :
        CompletesAs(c, next, short)
  BY DEF Complete, CompletesAs
<1> QED
  BY <1>1, <1>2, <1>3, <1>4

\* A batch is completed only by a collector that has stored its evidence.
LEMMA CompleteKeeps ==
  ASSUME EvidenceInv, NEW c \in Processes, Complete(c) PROVE EvidenceInv' /\ Grows
<1> DEFINE b == proc[c].batch
           p == proc[c].part
           outcome == IF proc[c].rejects THEN "completed_with_rejections" ELSE "completed"
<1>1. /\ proc \in [Processes -> Process] /\ proc[c] \in Process /\ TypeOK
      /\ opened \in Nat /\ opened <= MaxBatches /\ MaxBatches \in Nat
  BY CatalogAssumption DEF EvidenceInv, TypeOK, CatalogAssumption
<1>2. /\ b \in 1..opened /\ proc[c].pc = "completing"
      /\ UNCHANGED <<opened, payloads, written, rejected, health, runs>>
  BY Completion
<1>3. PICK next \in {0, proc[c].cursor + 1} \cap Cursor, short \in BOOLEAN :
        CompletesAs(c, next, short)
  BY Completion
<1>4. /\ outcome \in Status \ {"absent"} /\ outcome \in Success
      /\ outcome = "completed_with_rejections" => proc[c].rejects
  BY Statuses DEF Success
<1>5. batches' = IF Undecided(b) THEN [batches EXCEPT ![b] = [@ EXCEPT !.status = outcome]]
                                 ELSE batches
  BY <1>3 DEF CompletesAs
<1> HIDE DEF outcome
<1>6. Grows /\ Numbered' /\ batches' \in [BatchId -> Batch]
  BY <1>2, <1>4, <1>5, DecidingGrows, Decision
<1>7. EvidenceFirst'
  <2>1. ASSUME NEW x \in BatchId, x # b \/ ~Undecided(b)
        PROVE  batches'[x].status = batches[x].status
    BY <1>2, <1>4, <1>5, <2>1, Decision
  <2>2. b \in payloads \cap written /\ (proc[c].rejects => b \in rejected)
    BY <1>2 DEF EvidenceInv, LeftEvidence
  <2>3. Undecided(b) => batches'[b].status = outcome
    <3> HIDE DEF b
    <3> QED
      BY <1>2, <1>4, <1>5, Decision, Zenon
  <2> QED
    BY <1>2, <1>4, <2>1, <2>2, <2>3 DEF EvidenceInv, EvidenceFirst, Succeeded
<1>8. /\ proc' \in [Processes -> Process] /\ proc'[c].pc \notin Holding
      /\ \A d \in Processes : d # c => proc'[d] = proc[d]
  <2>1. PICK q : Proceed(c, q)
    BY <1>3 DEF CompletesAs
  <2> QED
    BY <1>1, <2>1, ProceedStep DEF Holding
<1>9. checkpoint' \in [Partitions -> Checkpoint]
  <2> DEFINE end == IF Cursored(p) THEN next ELSE 0
  <2>1. end \in Cursor /\ b \in 0..MaxBatches
    BY <1>1, <1>2, Zeros
  <2>2. [batch |-> b, cursor |-> end] \in Checkpoint
    BY <2>1 DEF Checkpoint
  <2> QED
    BY <1>1, <1>3, <2>2 DEF CompletesAs, TypeOK
<1>10. TypeOK'
  BY <1>1, <1>2, <1>6, <1>8, <1>9 DEF TypeOK
<1>11. ASSUME NEW d \in Processes PROVE HoldsBatch(d)' /\ LeftEvidence(d)'
  <2>1. CASE d = c
    BY <1>8, <2>1 DEF HoldsBatch, LeftEvidence, Holding
  <2>2. CASE d # c
    BY <1>1, <1>2, <1>6, <1>8, <2>2, OthersKeep
  <2> QED
    BY <2>1, <2>2
<1> QED
  BY <1>6, <1>7, <1>10, <1>11 DEF EvidenceInv

\* A step that changes nothing keeps the evidence.
LEMMA StutterKeeps ==
  ASSUME EvidenceInv, UNCHANGED vars PROVE EvidenceInv' /\ Grows
<1>1. opened \in Nat
  BY CatalogAssumption DEF EvidenceInv, TypeOK, CatalogAssumption
<1> QED
  BY <1>1 DEF vars, EvidenceInv, TypeOK, Numbered, EvidenceFirst, Succeeded,
              HoldsBatch, LeftEvidence, Grows

\* Every step keeps the evidence invariant and takes no evidence back.
LEMMA NextKeepsEvidence == EvidenceInv /\ [Next]_vars => EvidenceInv' /\ Grows
<1> SUFFICES ASSUME EvidenceInv, [Next]_vars PROVE EvidenceInv' /\ Grows
  OBVIOUS
<1>1. ASSUME NEW c \in Processes,
             \/ Begin(c) \/ AttemptFails(c) \/ Die(c)
             \/ ReadCheckpoint(c) \/ NotNamed(c) \/ OpenBatch(c) \/ Block(c)
             \/ StorePayload(c) \/ WriteRows(c) \/ RecordRejections(c) \/ Complete(c)
             \/ ReportFresh(c) \/ Return(c)
      PROVE  EvidenceInv' /\ Grows
  BY <1>1, BeginKeeps, FailsKeeps, StopsKeeps, ReadKeeps, NotNamedKeeps, OpenKeeps,
     BlockKeeps, EvidenceKeeps, CompleteKeeps, ReportKeeps
<1>2. CASE Next
  BY <1>1, <1>2 DEF Next
<1>3. CASE UNCHANGED vars
  BY <1>3, StutterKeeps
<1> QED
  BY <1>2, <1>3

\* The evidence invariant holds in every reachable state.
LEMMA EvidenceInvariant == Spec => []EvidenceInv
<1>1. EvidenceInv /\ [Next]_vars => EvidenceInv'
  BY NextKeepsEvidence
<1> QED
  BY InitEvidence, <1>1, PTL DEF Spec

\* The tables and the control state of the collectors stay well formed.
THEOREM TypeCorrect == Spec => []TypeOK
<1>1. EvidenceInv => TypeOK
  BY DEF EvidenceInv
<1> QED
  BY EvidenceInvariant, <1>1, PTL

\* A batch that succeeded has its response, its rows and its rejections, with
\* any number of collectors and retries.
THEOREM EvidencePrecedesSuccess == Spec => []EvidenceFirst
<1>1. EvidenceInv => EvidenceFirst
  BY DEF EvidenceInv
<1> QED
  BY EvidenceInvariant, <1>1, PTL

-----------------------------------------------------------------------------
(* No page is skipped *)

\* Every page before page k of partition p was collected.
Before(p, k) == \A j \in Cursor : j < k => Collected(p, j)

ReachInv ==
    /\ \A p \in Partitions : Before(p, checkpoint[p].cursor)
    /\ \A b \in 1..opened : Before(batches[b].part, batches[b].cursor)
    /\ \A c \in Processes : proc[c].pc = "opening" => Before(proc[c].part, proc[c].cursor)

\* Pages that were collected once stay collected.
LEMMA BeforeStays ==
  ASSUME EvidenceInv, Grows, opened' \in Nat
  PROVE  \A p \in Partitions, k \in Cursor : Before(p, k) => Before(p, k)'
<1>1. opened \in Nat /\ 1..opened \subseteq 1..opened'
  BY CatalogAssumption DEF EvidenceInv, TypeOK, CatalogAssumption, Grows
<1>2. ASSUME NEW p \in Partitions, NEW j \in Cursor, Collected(p, j)
      PROVE  Collected(p, j)'
  <2>1. PICK b \in 1..opened :
          batches[b].part = p /\ batches[b].cursor = j /\ batches[b].status \in Success
    BY <1>2 DEF Collected, Succeeded
  <2>2. /\ b \in 1..opened' /\ batches'[b].part = p /\ batches'[b].cursor = j
        /\ batches'[b].status \in Success
    BY <1>1, <2>1 DEF Grows
  <2> QED
    BY <2>2 DEF Collected, Succeeded
<1> QED
  BY <1>2 DEF Before

\* Only reading a checkpoint takes a collector to opening a batch.
LEMMA OpeningOnly ==
  ASSUME EvidenceInv, NEW c \in Processes,
         \/ Begin(c) \/ AttemptFails(c) \/ Die(c) \/ NotNamed(c) \/ OpenBatch(c)
         \/ Block(c) \/ StorePayload(c) \/ WriteRows(c) \/ RecordRejections(c)
         \/ Complete(c) \/ ReportFresh(c) \/ Return(c)
  PROVE  /\ \A d \in Processes : d # c => proc'[d] = proc[d]
         /\ proc'[c].pc # "opening"
<1>1. proc \in [Processes -> Process] /\ proc[c] \in Process /\ TypeOK
  BY DEF EvidenceInv, TypeOK
<1>2. CASE Begin(c) \/ Die(c) \/ Return(c)
  <2>1. CASE Begin(c)
    <3> DEFINE x == [Idle EXCEPT !.pc = "reading", !.run = runs + 1, !.attempt = 1]
    <3>1. proc' = [proc EXCEPT ![c] = x]
      BY <2>1 DEF Begin
    <3>2. x.pc = "reading"
      BY DEF Idle
    <3> HIDE DEF x
    <3> QED
      BY <1>1, <3>1, <3>2
  <2>2. CASE Die(c) \/ Return(c)
    BY <1>1, <2>2 DEF Die, Return, Idle
  <2> QED
    BY <1>2, <2>1, <2>2
<1>3. CASE AttemptFails(c) \/ NotNamed(c) \/ Block(c)
  <2>1. Retry(c) \/ \E q \in Int : Proceed(c, q)
    <3>1. proc[c].part + 1 \in Int
      BY <1>1, Fields, CatalogAssumption DEF Partitions, CatalogAssumption
    <3> QED
      BY <1>3, <3>1 DEF AttemptFails, NotNamed, Block
  <2>2. CASE Retry(c)
    BY <1>1, <2>2, RetryStep
  <2>3. ASSUME NEW q \in Int, Proceed(c, q)
        PROVE  (\A d \in Processes : d # c => proc'[d] = proc[d]) /\ proc'[c].pc # "opening"
    BY <1>1, <2>3, ProceedStep
  <2> QED
    BY <2>1, <2>2, <2>3
<1>4. CASE Complete(c)
  <2>1. PICK q : Proceed(c, q)
    BY <1>4 DEF Complete
  <2> QED
    BY <1>1, <2>1, ProceedStep
<1>5. CASE OpenBatch(c)
  <2>1. PICK s \in {"storing", "blocking"}, b \in Int :
          proc' = [proc EXCEPT ![c] = [@ EXCEPT !.pc = s, !.batch = b]]
    <3>1. opened + 1 \in Int /\ \A b \in Known(c) : b \in Int
      BY CatalogAssumption DEF EvidenceInv, TypeOK, CatalogAssumption, Known
    <3>2. \A live, created \in BOOLEAN : Judge(live, created) \in {"storing", "blocking"}
      BY DEF Judge
    <3>3. PICK live \in BOOLEAN :
            \/ \E b \in Known(c) : proc' = [proc EXCEPT ![c] =
                  [@ EXCEPT !.pc = Judge(live, FALSE), !.batch = b]]
            \/ proc' = [proc EXCEPT ![c] =
                  [@ EXCEPT !.pc = Judge(live, TRUE), !.batch = opened + 1]]
      BY <1>5 DEF OpenBatch
    <3>4. CASE \E b \in Known(c) : proc' = [proc EXCEPT ![c] =
                  [@ EXCEPT !.pc = Judge(live, FALSE), !.batch = b]]
      BY <3>1, <3>2, <3>4
    <3>5. CASE proc' = [proc EXCEPT ![c] =
                  [@ EXCEPT !.pc = Judge(live, TRUE), !.batch = opened + 1]]
      BY <3>1, <3>2, <3>5
    <3> QED
      BY <3>3, <3>4, <3>5
  <2> QED
    BY <1>1, <2>1 DEF Process
<1>6. CASE WriteRows(c)
  <2>1. PICK r \in BOOLEAN : proc' = [proc EXCEPT ![c] = [@ EXCEPT
          !.pc = IF r THEN "rejecting" ELSE "completing", !.rejects = r]]
    BY <1>6 DEF WriteRows
  <2> QED
    BY <1>1, <2>1 DEF Process
<1>7. CASE StorePayload(c) \/ RecordRejections(c) \/ ReportFresh(c)
  <2>1. PICK s \in {"writing", "completing", "returning"} :
          proc' = [proc EXCEPT ![c] = [@ EXCEPT !.pc = s]]
    BY <1>7 DEF StorePayload, RecordRejections, ReportFresh, Goto
  <2> QED
    BY <1>1, <2>1 DEF Process
<1> QED
  BY <1>2, <1>3, <1>4, <1>5, <1>6, <1>7

\* No checkpoint is set in an empty database, so none passes over a page.
LEMMA InitReach == Init => ReachInv
<1> SUFFICES ASSUME Init PROVE ReachInv
  OBVIOUS
<1>1. \A p \in Partitions : Before(p, checkpoint[p].cursor)
  BY CatalogAssumption DEF Init, Before, Cursor, CatalogAssumption
<1>2. 1..opened = {}
  BY DEF Init
<1>3. \A c \in Processes : proc[c].pc # "opening"
  BY DEF Init, Idle
<1> QED
  BY <1>1, <1>2, <1>3 DEF ReachInv

\* The steps that neither open a batch nor move a checkpoint.
LEMMA QuietKeepsReach ==
  ASSUME EvidenceInv, EvidenceInv', Grows, ReachInv, opened' = opened,
         checkpoint' = checkpoint,
         \A c \in Processes : proc'[c].pc = "opening" =>
              proc'[c] = proc[c] \/ Before(proc'[c].part, proc'[c].cursor)
  PROVE  ReachInv'
<1>1. /\ opened \in Nat /\ 1..opened \subseteq BatchId
      /\ proc \in [Processes -> Process] /\ proc' \in [Processes -> Process]
      /\ batches \in [BatchId -> Batch] /\ checkpoint \in [Partitions -> Checkpoint]
  BY CatalogAssumption DEF EvidenceInv, TypeOK, CatalogAssumption, BatchId
<1>2. \A p \in Partitions, k \in Cursor : Before(p, k) => Before(p, k)'
  BY <1>1, BeforeStays
<1>3. \A p \in Partitions : Before(p, checkpoint[p].cursor)'
  BY <1>1, <1>2, Fields DEF ReachInv
<1>4. \A b \in 1..opened : Before(batches[b].part, batches[b].cursor)'
  BY <1>1, <1>2, Fields DEF ReachInv, Grows
<1>5. ASSUME NEW c \in Processes, proc'[c].pc = "opening"
      PROVE  Before(proc[c].part, proc[c].cursor)'
  <2>1. Before(proc'[c].part, proc'[c].cursor)
    BY <1>5 DEF ReachInv
  <2>2. proc'[c].part \in Partitions /\ proc'[c].cursor \in Cursor
    BY <1>1, Fields
  <2> QED
    BY <1>2, <2>1, <2>2
<1> QED
  BY <1>3, <1>4, <1>5 DEF ReachInv

\* A batch is opened at the cursor its collector read.
LEMMA OpenKeepsReach ==
  ASSUME EvidenceInv, EvidenceInv', Grows, ReachInv, NEW c \in Processes, OpenBatch(c)
  PROVE  ReachInv'
<1>1. /\ opened \in Nat /\ opened' \in Nat /\ MaxBatches \in Nat
      /\ 1..opened \subseteq BatchId /\ opened <= MaxBatches
      /\ proc[c] \in Process /\ batches \in [BatchId -> Batch]
      /\ checkpoint \in [Partitions -> Checkpoint]
      /\ proc \in [Processes -> Process]
  BY CatalogAssumption DEF EvidenceInv, TypeOK, CatalogAssumption, BatchId
<1>2. \A p \in Partitions, k \in Cursor : Before(p, k) => Before(p, k)'
  BY <1>1, BeforeStays
<1>3. \A p \in Partitions : Before(p, checkpoint[p].cursor)'
  <2>1. checkpoint' = checkpoint
    BY DEF OpenBatch
  <2> QED
    BY <1>1, <1>2, <2>1, Fields DEF ReachInv
<1>4. ASSUME NEW b \in 1..opened' PROVE Before(batches[b].part, batches[b].cursor)'
  <2>1. CASE b \in 1..opened
    BY <1>1, <1>2, <2>1, Fields DEF ReachInv, Grows
  <2>2. CASE b \notin 1..opened
    <3>1. /\ opened < MaxBatches /\ opened' = opened + 1
          /\ batches' = [batches EXCEPT ![opened + 1] =
               [status |-> "started", run |-> proc[c].run,
                part |-> proc[c].part, cursor |-> proc[c].cursor]]
      BY <1>1, <2>2 DEF OpenBatch
    <3>2. b = opened + 1
      BY <1>1, <2>2, <3>1
    <3>3. batches'[b].part = proc[c].part /\ batches'[b].cursor = proc[c].cursor
      BY <3>1, <3>2, NewBatch
    <3>4. proc[c].pc = "opening"
      BY DEF OpenBatch, At
    <3>5. Before(proc[c].part, proc[c].cursor)
      BY <3>4 DEF ReachInv
    <3>6. proc[c].part \in Partitions /\ proc[c].cursor \in Cursor
      BY <1>1, Fields
    <3> QED
      BY <1>2, <3>3, <3>5, <3>6
  <2> QED
    BY <2>1, <2>2
<1>5. ASSUME NEW d \in Processes, proc'[d].pc = "opening"
      PROVE  Before(proc[d].part, proc[d].cursor)'
  <2>1. proc'[d] = proc[d]
    BY <1>5, OpeningOnly
  <2>2. Before(proc[d].part, proc[d].cursor)
    BY <1>5, <2>1 DEF ReachInv
  <2>3. proc[d].part \in Partitions /\ proc[d].cursor \in Cursor
    BY <1>1, Fields
  <2> QED
    BY <1>2, <2>1, <2>2, <2>3
<1> QED
  BY <1>3, <1>4, <1>5 DEF ReachInv

\* The checkpoint moves to the page after the one its batch just collected.
LEMMA CompleteKeepsReach ==
  ASSUME EvidenceInv, EvidenceInv', Grows, ReachInv, NEW c \in Processes, Complete(c)
  PROVE  ReachInv'
<1>p. PICK p \in Partitions : p = proc[c].part
  BY Fields DEF EvidenceInv, TypeOK
<1>k. PICK k \in Cursor : k = proc[c].cursor
  BY Fields DEF EvidenceInv, TypeOK
<1> DEFINE b == proc[c].batch
           outcome == IF proc[c].rejects THEN "completed_with_rejections" ELSE "completed"
<1>1. /\ opened \in Nat /\ 1..opened \subseteq BatchId
      /\ proc \in [Processes -> Process] /\ batches \in [BatchId -> Batch]
      /\ checkpoint \in [Partitions -> Checkpoint] /\ proc[c] \in Process
      /\ p \in Partitions /\ k \in Cursor
  BY Fields, CatalogAssumption DEF EvidenceInv, TypeOK, CatalogAssumption, BatchId
<1>2. proc[c].pc = "completing" /\ b \in 1..opened /\ opened' = opened
  BY Completion
<1>3. PICK next \in {0, k + 1} \cap Cursor, short \in BOOLEAN : CompletesAs(c, next, short)
  BY <1>k, Completion
<1>4. \A x \in Partitions, j \in Cursor : Before(x, j) => Before(x, j)'
  BY <1>1, <1>2, BeforeStays
<1>5. batches[b].part = p /\ batches[b].cursor = k
  BY <1>p, <1>k, <1>2 DEF EvidenceInv, HoldsBatch, Holding
<1>6. \A x \in 1..opened : Before(batches[x].part, batches[x].cursor)'
  BY <1>1, <1>4, Fields DEF ReachInv, Grows
<1>7. ASSUME NEW x \in Partitions PROVE Before(x, checkpoint[x].cursor)'
  <2>1. CASE checkpoint'[x] = checkpoint[x]
    BY <1>1, <1>4, <2>1, Fields DEF ReachInv
  <2>2. CASE checkpoint'[x] # checkpoint[x]
    <3>1. Advances(b, p)
      BY <1>p, <1>3, <2>2 DEF CompletesAs
    <3> DEFINE end == IF Cursored(p) THEN next ELSE 0
    <3>2. checkpoint' = [checkpoint EXCEPT ![p] = [batch |-> b, cursor |-> end]]
      BY <1>p, <1>3, <3>1 DEF CompletesAs
    <3>3. x = p /\ checkpoint'[x].cursor \in {0, k + 1}
      BY <1>1, <2>2, <3>2
    <3>4. Collected(p, k)'
      <4>1. Undecided(b)
        BY <3>1 DEF Advances
      <4>2. outcome \in Success /\ outcome \in Status \ {"absent"}
        BY Statuses DEF Success
      <4>3. batches' = IF Undecided(b)
                       THEN [batches EXCEPT ![b] = [@ EXCEPT !.status = outcome]]
                       ELSE batches
        BY <1>p, <1>3 DEF CompletesAs
      <4> HIDE DEF outcome
      <4>4. batches'[b].status = outcome
        <5> HIDE DEF b
        <5> QED
          BY <1>2, <4>1, <4>2, <4>3, Decision, Zenon
      <4>5. batches'[b].part = p /\ batches'[b].cursor = k
        BY <1>2, <1>5 DEF Grows
      <4>6. \E y \in 1..opened' : /\ batches'[y].part = p /\ batches'[y].cursor = k
                                 /\ batches'[y].status \in Success
        BY <1>2, <4>2, <4>4, <4>5
      <4> QED
        BY <4>6 DEF Collected, Succeeded
    <3>5. Before(p, k)'
      BY <1>1, <1>2, <1>4, <1>5 DEF ReachInv
    <3>6. \A j \in Cursor : j < k + 1 => j < k \/ j = k
      BY <1>1, CatalogAssumption DEF Cursor, CatalogAssumption
    <3>7. \A j \in Cursor : ~(j < 0)
      BY CatalogAssumption DEF Cursor, CatalogAssumption
    <3> HIDE DEF end
    <3> QED
      BY <3>3, <3>4, <3>5, <3>6, <3>7 DEF Before
  <2> QED
    BY <2>1, <2>2
<1>8. ASSUME NEW d \in Processes, proc'[d].pc = "opening"
      PROVE  Before(proc[d].part, proc[d].cursor)'
  <2>1. proc'[d] = proc[d]
    BY <1>8, OpeningOnly
  <2>2. Before(proc[d].part, proc[d].cursor)
    BY <1>8, <2>1 DEF ReachInv
  <2> QED
    BY <1>1, <1>4, <2>1, <2>2, Fields
<1> QED
  BY <1>2, <1>6, <1>7, <1>8 DEF ReachInv

\* A collector reads a cursor that every earlier page stands behind.
LEMMA ReadKeepsReach ==
  ASSUME EvidenceInv, EvidenceInv', Grows, ReachInv, NEW c \in Processes, ReadCheckpoint(c)
  PROVE  ReachInv'
<1> DEFINE p == proc[c].part
           k == IF Cursored(p) THEN checkpoint[p].cursor ELSE 0
           x == [proc[c] EXCEPT !.pc = "opening", !.cursor = k]
<1>1. proc \in [Processes -> Process] /\ proc[c] \in Process
  BY DEF EvidenceInv, TypeOK
<1>2. proc' = [proc EXCEPT ![c] = x] /\ UNCHANGED tables
  BY DEF ReadCheckpoint
<1>3. x.part = p /\ x.cursor = k
  BY <1>1 DEF Process
<1>4. Before(p, k)
  <2>1. p \in Partitions
    BY <1>1, Fields
  <2>2. Before(p, 0)
    BY CatalogAssumption DEF Before, Cursor, CatalogAssumption
  <2> QED
    BY <2>1, <2>2 DEF ReachInv
<1> HIDE DEF x
<1>5. \A d \in Processes : proc'[d].pc = "opening" =>
        proc'[d] = proc[d] \/ Before(proc'[d].part, proc'[d].cursor)
  BY <1>1, <1>2, <1>3, <1>4
<1> QED
  BY <1>2, <1>5, QuietKeepsReach DEF tables

\* No step moves a checkpoint or an open batch past a page never collected.
LEMMA NextKeepsReach ==
  EvidenceInv /\ EvidenceInv' /\ Grows /\ ReachInv /\ [Next]_vars => ReachInv'
<1> SUFFICES ASSUME EvidenceInv, EvidenceInv', Grows, ReachInv, [Next]_vars PROVE ReachInv'
  OBVIOUS
<1>1. ASSUME NEW c \in Processes,
             \/ Begin(c) \/ AttemptFails(c) \/ Die(c) \/ NotNamed(c)
             \/ Block(c) \/ StorePayload(c) \/ WriteRows(c) \/ RecordRejections(c)
             \/ ReportFresh(c) \/ Return(c)
      PROVE  ReachInv'
  <2>1. opened' = opened /\ checkpoint' = checkpoint
    BY <1>1 DEF Begin, AttemptFails, Die, NotNamed, Block, StorePayload, WriteRows,
                RecordRejections, ReportFresh, Return, tables
  <2>2. \A d \in Processes : proc'[d].pc = "opening" => proc'[d] = proc[d]
    BY <1>1, OpeningOnly
  <2> QED
    BY <2>1, <2>2, QuietKeepsReach
<1>2. CASE UNCHANGED vars
  BY <1>2, QuietKeepsReach DEF vars
<1>3. CASE Next
  BY <1>1, <1>3, OpenKeepsReach, CompleteKeepsReach, ReadKeepsReach DEF Next
<1> QED
  BY <1>2, <1>3

\* Two collectors, retries under the same batch, blocked pages and crashes
\* never make the walk of a listing pass over a page.
THEOREM NoPageIsSkipped == Spec => []NothingSkipped
<1>1. Init => EvidenceInv /\ ReachInv
  BY InitEvidence, InitReach
<1>2. EvidenceInv /\ ReachInv /\ [Next]_vars => (EvidenceInv /\ ReachInv)'
  BY NextKeepsEvidence, NextKeepsReach
<1>3. ReachInv => NothingSkipped
  BY DEF ReachInv, Before, NothingSkipped
<1> QED
  BY <1>1, <1>2, <1>3, PTL DEF Spec

-----------------------------------------------------------------------------
(* Fresh is earned *)

Stored(r, p) == \E b \in payloads : batches[b].run = r /\ batches[b].part = p

Reported(c) == proc[c].pc \in {"reporting", "returning"}

\* What a collection had to walk before the partition it is at.
Walked(c) == proc[c].pc # "idle" =>
    \A p \in Partitions :
        Required(p) /\ (p < proc[c].part \/ Reported(c)) => Stored(proc[c].run, p)

FreshInv == FreshIsEarned /\ \A c \in Processes : Walked(c)

\* What an invocation stored stays stored.
LEMMA StoredStays ==
  ASSUME EvidenceInv, Grows
  PROVE  \A r \in 0..MaxRuns, p \in Partitions : Stored(r, p) => Stored(r, p)'
  BY DEF Stored, EvidenceInv, Numbered, Grows

\* A required partition is not among those skipped after a short page.
LEMMA SkippedNotRequired ==
  ASSUME NEW p \in Partitions, NEW short \in BOOLEAN,
         NEW q \in Following(p, short /\ Offset(p)), NEW r \in Partitions,
         p < r, r < q
  PROVE  ~Required(r)
<1>1. p \in Nat /\ q \in Int /\ r \in Nat /\ 1 <= p /\ Last \in Nat
  BY CatalogAssumption DEF Partitions, Following, CatalogAssumption
<1>2. short /\ Offset(p)
  <2>1. CASE ~(short /\ Offset(p))
    <3>1. q = p + 1
      BY <2>1 DEF Following
    <3> QED
      BY <1>1, <3>1
  <2> QED
    BY <2>1
<1>3. \A s \in p + 1..q - 1 : Endpoint[s] = Endpoint[p]
  BY <1>2 DEF Following
<1>4. Endpoint[r] = Endpoint[p]
  BY <1>1, <1>3
<1>5. Endpoint[r - 1] = Endpoint[p]
  <2>1. CASE r - 1 = p
    BY <2>1
  <2>2. CASE r - 1 # p
    <3>1. r - 1 \in p + 1..q - 1
      BY <1>1, <2>2
    <3> QED
      BY <1>3, <3>1
  <2> QED
    BY <2>1, <2>2
<1>6. Offset(r) /\ r > 1
  BY <1>1, <1>2, <1>4 DEF Offset
<1> QED
  BY <1>4, <1>5, <1>6 DEF Required

\* Going on after partition p, which was stored or need not be.
LEMMA ProceedKeepsWalk ==
  ASSUME EvidenceInv, Grows, NEW c \in Processes, Walked(c), proc[c].pc # "idle",
         NEW p \in Partitions, p = proc[c].part,
         Required(p) => Stored(proc[c].run, p),
         NEW short \in BOOLEAN, NEW q \in Following(p, short /\ Offset(p)),
         Proceed(c, q)
  PROVE  Walked(c)'
<1>1. TypeOK /\ proc[c] \in Process /\ proc[c].run \in 0..MaxRuns
  BY Fields DEF EvidenceInv, TypeOK
<1>2. p \in Nat /\ q \in Int /\ p < q /\ q <= Last + 1 /\ Last \in Nat
  BY CatalogAssumption DEF Partitions, Following, CatalogAssumption
<1>3. /\ proc'[c].run = proc[c].run
      /\ q \in Partitions => proc'[c].pc = "reading" /\ proc'[c].part = q
      /\ q \notin Partitions => proc'[c].pc = "reporting"
  BY <1>1, ProceedStep
<1>4. q \notin Partitions => q = Last + 1
  BY <1>2 DEF Partitions
<1> SUFFICES ASSUME NEW r \in Partitions, Required(r),
                    r < proc'[c].part \/ Reported(c)'
             PROVE  Stored(proc[c].run, r)'
  BY <1>3 DEF Walked, Stored, Required, Optional, Offset
<1>5. r < q
  BY <1>2, <1>3, <1>4 DEF Reported, Partitions
<1>6. Stored(proc[c].run, r)
  <2>1. CASE r < p
    BY <2>1 DEF Walked
  <2>2. CASE r = p
    BY <2>2
  <2>3. CASE p < r
    BY <1>5, <2>3, SkippedNotRequired
  <2> QED
    BY <1>2, <2>1, <2>2, <2>3 DEF Partitions
<1>7. PICK k \in 0..MaxRuns : k = proc[c].run
  BY <1>1
<1>8. Stored(k, r)'
  BY <1>6, <1>7, StoredStays
<1> QED
  BY <1>3, <1>7, <1>8 DEF Stored

\* Steps within a partition, or within reporting, keep run and partition.
LEMMA Plods ==
  ASSUME EvidenceInv, NEW c \in Processes,
         \/ ReadCheckpoint(c) \/ OpenBatch(c) \/ StorePayload(c) \/ WriteRows(c)
         \/ RecordRejections(c) \/ ReportFresh(c)
  PROVE  /\ \A d \in Processes : d # c => proc'[d] = proc[d]
         /\ proc'[c].run = proc[c].run /\ proc'[c].part = proc[c].part
         /\ proc[c].pc # "idle" /\ (Reported(c)' => Reported(c))
<1>1. proc \in [Processes -> Process] /\ proc[c] \in Process
  BY DEF EvidenceInv, TypeOK
<1>2. CASE StorePayload(c) \/ RecordRejections(c) \/ ReportFresh(c)
  <2>1. PICK s \in {"writing", "completing", "returning"} :
          /\ proc' = [proc EXCEPT ![c] = [@ EXCEPT !.pc = s]]
          /\ proc[c].pc # "idle" /\ (s = "returning" => Reported(c))
    BY <1>2 DEF StorePayload, RecordRejections, ReportFresh, Goto, At, Reported
  <2> QED
    BY <1>1, <2>1 DEF Process, Reported
<1>3. CASE ReadCheckpoint(c)
  <2>1. PICK k : proc' = [proc EXCEPT ![c] = [@ EXCEPT !.pc = "opening", !.cursor = k]]
    BY <1>3 DEF ReadCheckpoint
  <2>2. proc[c].pc = "reading"
    BY <1>3 DEF ReadCheckpoint, At
  <2> QED
    BY <1>1, <2>1, <2>2 DEF Process, Reported
<1>4. CASE WriteRows(c)
  <2>1. PICK r \in BOOLEAN : proc' = [proc EXCEPT ![c] = [@ EXCEPT
          !.pc = IF r THEN "rejecting" ELSE "completing", !.rejects = r]]
    BY <1>4 DEF WriteRows
  <2>2. proc[c].pc = "writing"
    BY <1>4 DEF WriteRows, At
  <2> QED
    BY <1>1, <2>1, <2>2 DEF Process, Reported
<1>5. CASE OpenBatch(c)
  <2>1. PICK s \in {"storing", "blocking"} : \E b :
          proc' = [proc EXCEPT ![c] = [@ EXCEPT !.pc = s, !.batch = b]]
    <3>1. \A live, created \in BOOLEAN : Judge(live, created) \in {"storing", "blocking"}
      BY DEF Judge
    <3>2. PICK live \in BOOLEAN :
            \/ \E b \in Known(c) : proc' = [proc EXCEPT ![c] =
                  [@ EXCEPT !.pc = Judge(live, FALSE), !.batch = b]]
            \/ proc' = [proc EXCEPT ![c] =
                  [@ EXCEPT !.pc = Judge(live, TRUE), !.batch = opened + 1]]
      BY <1>5 DEF OpenBatch
    <3>3. CASE \E b \in Known(c) : proc' = [proc EXCEPT ![c] =
                  [@ EXCEPT !.pc = Judge(live, FALSE), !.batch = b]]
      BY <3>1, <3>3
    <3>4. CASE proc' = [proc EXCEPT ![c] =
                  [@ EXCEPT !.pc = Judge(live, TRUE), !.batch = opened + 1]]
      BY <3>1, <3>4
    <3> QED
      BY <3>2, <3>3, <3>4
  <2>2. proc[c].pc = "opening"
    BY <1>5 DEF OpenBatch, At
  <2> QED
    BY <1>1, <2>1, <2>2 DEF Process, Reported
<1> QED
  BY <1>2, <1>3, <1>4, <1>5

\* A collector whose run and partition did not change keeps what it walked.
LEMMA WalkStays ==
  ASSUME EvidenceInv, Grows, NEW d \in Processes, Walked(d),
         proc'[d].run = proc[d].run, proc'[d].part = proc[d].part,
         proc[d].pc # "idle", Reported(d)' => Reported(d)
  PROVE  Walked(d)'
<1> SUFFICES ASSUME NEW p \in Partitions, Required(p),
                    p < proc'[d].part \/ Reported(d)'
             PROVE  Stored(proc[d].run, p)'
  BY DEF Walked, Stored, Required, Optional, Offset
<1>1. PICK k \in 0..MaxRuns : k = proc[d].run
  BY Fields DEF EvidenceInv, TypeOK
<1>2. Stored(k, p)
  BY <1>1 DEF Walked
<1>3. Stored(k, p)'
  BY <1>2, StoredStays
<1> QED
  BY <1>1, <1>3 DEF Stored

\* An attempt that starts over, and a collector at rest, have walked nothing.
LEMMA Restarts ==
  ASSUME EvidenceInv, NEW c \in Processes,
         proc'[c].pc = "idle" \/ (proc'[c].pc = "reading" /\ proc'[c].part = 1)
  PROVE  Walked(c)'
<1>1. ASSUME NEW p \in Partitions PROVE ~(p < 1)
  BY CatalogAssumption DEF Partitions, CatalogAssumption
<1> QED
  BY <1>1 DEF Walked, Reported

\* The step of a collector keeps what that collector has walked.
LEMMA StepKeepsWalk ==
  ASSUME EvidenceInv, Grows, NEW c \in Processes, Walked(c),
         \/ Begin(c) \/ AttemptFails(c) \/ Die(c) \/ ReadCheckpoint(c) \/ NotNamed(c)
         \/ OpenBatch(c) \/ Block(c) \/ StorePayload(c) \/ WriteRows(c)
         \/ RecordRejections(c) \/ Complete(c) \/ ReportFresh(c) \/ Return(c)
  PROVE  Walked(c)'
<1>1. /\ proc \in [Processes -> Process] /\ proc[c] \in Process /\ TypeOK
      /\ proc[c].part \in Partitions /\ Last \in Nat
  BY Fields, CatalogAssumption DEF EvidenceInv, TypeOK, CatalogAssumption
<1>2. PICK p \in Partitions : p = proc[c].part
  BY <1>1
<1>3. p + 1 \in Following(p, FALSE /\ Offset(p))
  BY <1>1, <1>2 DEF Following, Partitions
<1>4. CASE Begin(c)
  <2> DEFINE x == [Idle EXCEPT !.pc = "reading", !.run = runs + 1, !.attempt = 1]
  <2>1. proc' = [proc EXCEPT ![c] = x]
    BY <1>4 DEF Begin
  <2>2. x.pc = "reading" /\ x.part = 1
    BY DEF Idle
  <2> HIDE DEF x
  <2> QED
    BY <1>1, <2>1, <2>2, Restarts
<1>5. CASE Die(c) \/ Return(c)
  <2>1. proc' = [proc EXCEPT ![c] = Idle] /\ Idle.pc = "idle"
    BY <1>5 DEF Die, Return, Idle
  <2> QED
    BY <1>1, <2>1, Restarts
<1>6. CASE Retry(c)
  <2>1. proc'[c].pc = "idle" \/ (proc'[c].pc = "reading" /\ proc'[c].part = 1)
    BY <1>1, <1>6, RetryStep
  <2> QED
    BY <2>1, Restarts
<1>7. CASE Optional(p) /\ proc[c].pc # "idle" /\ Proceed(c, p + 1)
  <2>1. ~Required(p)
    BY <1>7 DEF Required
  <2> QED
    BY <1>2, <1>3, <1>7, <2>1, ProceedKeepsWalk
<1>8. CASE NotNamed(c)
  BY <1>2, <1>7, <1>8 DEF NotNamed, At
<1>9. CASE Block(c)
  <2>1. proc[c].pc # "idle"
    BY <1>9 DEF Block, At
  <2>2. Retry(c) \/ (Optional(p) /\ Proceed(c, p + 1))
    BY <1>2, <1>9 DEF Block, Raises
  <2> QED
    BY <1>6, <1>7, <2>1, <2>2
<1>10. CASE Complete(c)
  <2>s. PICK short \in BOOLEAN : \E q \in Following(p, short /\ Offset(p)) : Proceed(c, q)
    BY <1>2, <1>10 DEF Complete
  <2>1. PICK q \in Following(p, short /\ Offset(p)) : Proceed(c, q)
    BY <2>s
  <2>2. proc[c].pc = "completing"
    BY <1>10 DEF Complete, At
  <2>3. Stored(proc[c].run, p)
    BY <1>2, <2>2 DEF EvidenceInv, HoldsBatch, LeftEvidence, Holding, Stored
  <2> QED
    BY <1>2, <2>1, <2>2, <2>3, ProceedKeepsWalk
<1>11. CASE \/ ReadCheckpoint(c) \/ OpenBatch(c) \/ StorePayload(c) \/ WriteRows(c)
            \/ RecordRejections(c) \/ ReportFresh(c)
  BY <1>11, Plods, WalkStays
<1>12. CASE AttemptFails(c)
  BY <1>6, <1>12 DEF AttemptFails
<1> QED
  BY <1>4, <1>5, <1>8, <1>9, <1>10, <1>11, <1>12

\* A step moves one collector only.
LEMMA OthersWait ==
  ASSUME EvidenceInv, NEW c \in Processes,
         \/ Begin(c) \/ AttemptFails(c) \/ Die(c) \/ ReadCheckpoint(c) \/ NotNamed(c)
         \/ OpenBatch(c) \/ Block(c) \/ StorePayload(c) \/ WriteRows(c)
         \/ RecordRejections(c) \/ Complete(c) \/ ReportFresh(c) \/ Return(c)
  PROVE  \A d \in Processes : d # c => proc'[d] = proc[d]
  BY OpeningOnly, Plods

\* The health row: written only by a collection that walked every listing.
LEMMA HealthKeeps ==
  ASSUME EvidenceInv, Grows, FreshInv, [Next]_vars PROVE FreshIsEarned'
<1>1. CASE health' = health
  <2> SUFFICES ASSUME health # 0, NEW p \in Partitions, Required(p)
               PROVE  Stored(health, p)'
    BY <1>1 DEF FreshIsEarned, Stored, Required, Optional, Offset
  <2>1. PICK k \in 0..MaxRuns : k = health
    BY DEF EvidenceInv, TypeOK
  <2>2. Stored(k, p)
    BY <2>1 DEF FreshInv, FreshIsEarned, Stored
  <2>3. Stored(k, p)'
    BY <2>2, StoredStays
  <2> QED
    BY <1>1, <2>1, <2>3 DEF Stored
<1>2. CASE health' # health
  <2>1. PICK c \in Processes : ReportFresh(c)
    BY <1>2 DEF Next, Begin, AttemptFails, Die, ReadCheckpoint, NotNamed, OpenBatch, Block,
                StorePayload, WriteRows, RecordRejections, Complete, Return, tables, vars
  <2>2. PICK k \in 0..MaxRuns : k = proc[c].run
    BY Fields DEF EvidenceInv, TypeOK
  <2>3. health' = k /\ Reported(c) /\ proc[c].pc # "idle"
    BY <2>1, <2>2 DEF ReportFresh, At, Reported
  <2>4. ASSUME NEW p \in Partitions, Required(p) PROVE Stored(k, p)'
    <3>1. Stored(k, p)
      BY <2>2, <2>3, <2>4 DEF FreshInv, Walked
    <3> QED
      BY <3>1, StoredStays
  <2> QED
    BY <2>3, <2>4 DEF FreshIsEarned, Stored, Required, Optional, Offset
<1> QED
  BY <1>1, <1>2

\* Every step keeps the invariant behind the freshness report.
LEMMA NextKeepsFresh ==
  EvidenceInv /\ Grows /\ FreshInv /\ [Next]_vars => FreshInv'
<1> SUFFICES ASSUME EvidenceInv, Grows, FreshInv, [Next]_vars PROVE FreshInv'
  OBVIOUS
<1>1. FreshIsEarned'
  BY HealthKeeps
<1>2. ASSUME NEW d \in Processes, proc'[d] = proc[d] PROVE Walked(d)'
  <2>1. CASE proc[d].pc = "idle"
    BY <1>2, <2>1 DEF Walked
  <2>2. CASE proc[d].pc # "idle"
    BY <1>2, <2>2, WalkStays DEF FreshInv, Reported
  <2> QED
    BY <2>1, <2>2
<1>3. ASSUME NEW d \in Processes PROVE Walked(d)'
  <2>1. CASE UNCHANGED vars
    BY <1>2, <2>1 DEF vars
  <2>2. ASSUME NEW c \in Processes,
               \/ Begin(c) \/ AttemptFails(c) \/ Die(c) \/ ReadCheckpoint(c) \/ NotNamed(c)
               \/ OpenBatch(c) \/ Block(c) \/ StorePayload(c) \/ WriteRows(c)
               \/ RecordRejections(c) \/ Complete(c) \/ ReportFresh(c) \/ Return(c)
        PROVE  Walked(d)'
    <3>1. CASE d = c
      BY <2>2, <3>1, StepKeepsWalk DEF FreshInv
    <3>2. CASE d # c
      BY <1>2, <2>2, <3>2, OthersWait
    <3> QED
      BY <3>1, <3>2
  <2> QED
    BY <2>1, <2>2 DEF Next
<1> QED
  BY <1>1, <1>3 DEF FreshInv

\* 'fresh' is only ever written by a collection that stored a response of every
\* listing it has to walk.
THEOREM FreshnessIsEarned == Spec => []FreshIsEarned
<1>1. Init => EvidenceInv /\ FreshInv
  BY InitEvidence DEF Init, Idle, FreshInv, FreshIsEarned, Walked
<1>2. EvidenceInv /\ FreshInv /\ [Next]_vars => (EvidenceInv /\ FreshInv)'
  BY NextKeepsEvidence, NextKeepsFresh
<1>3. FreshInv => FreshIsEarned
  BY DEF FreshInv
<1> QED
  BY <1>1, <1>2, <1>3, PTL DEF Spec

-----------------------------------------------------------------------------
(* The collectors implement the abstract ledger *)

\* The abstract state.
status == [b \in BatchId |-> batches[b].status]
partition == [b \in BatchId |-> batches[b].part]
position == [p \in Partitions |-> checkpoint[p].batch]

\* The batch a checkpoint names is decided.
Named == \A p \in Partitions :
    checkpoint[p].batch # 0 => checkpoint[p].batch \in 1..opened /\ ~Undecided(checkpoint[p].batch)

\* A checkpoint goes on naming a batch that was opened and decided.
LEMMA NamedKeeps ==
  EvidenceInv /\ EvidenceInv' /\ Grows /\ Named /\ [Next]_vars => Named'
<1> SUFFICES ASSUME EvidenceInv, EvidenceInv', Grows, Named, [Next]_vars,
                    NEW p \in Partitions, checkpoint'[p].batch # 0
             PROVE  /\ checkpoint'[p].batch \in 1..opened'
                    /\ batches'[checkpoint'[p].batch].status # "started"
  BY DEF Named, Undecided
<1>1. /\ checkpoint \in [Partitions -> Checkpoint] /\ opened \in Nat /\ opened <= MaxBatches
      /\ MaxBatches \in Nat
  BY CatalogAssumption DEF EvidenceInv, TypeOK, CatalogAssumption
<1>2. ASSUME NEW b \in BatchId, ~Undecided(b), b <= opened PROVE batches'[b].status # "started"
  <2>1. CASE batches' = batches
    BY <1>2, <2>1 DEF Undecided
  <2>2. ASSUME NEW c \in Processes, OpenBatch(c), batches' # batches
        PROVE  batches'[b].status # "started"
    <3>1. /\ opened < MaxBatches /\ opened' = opened + 1
          /\ batches' = [batches EXCEPT ![opened + 1] =
               [status |-> "started", run |-> proc[c].run,
                part |-> proc[c].part, cursor |-> proc[c].cursor]]
      BY <2>2 DEF OpenBatch
    <3>2. b # opened + 1
      BY <1>1, <1>2 DEF BatchId
    <3>3. batches'[b] = batches[b]
      BY <3>1, <3>2, NewBatch
    <3> QED
      BY <1>2, <3>3 DEF Undecided
  <2>3. ASSUME NEW c \in Processes, Block(c) \/ Complete(c)
        PROVE  batches'[b].status # "started"
    <3>1. PICK s \in {"blocked", "completed", "completed_with_rejections"} :
            batches' = IF Undecided(proc[c].batch)
                       THEN [batches EXCEPT ![proc[c].batch] = [@ EXCEPT !.status = s]]
                       ELSE batches
      BY <2>3 DEF Block, Complete
    <3>2. s \in Status \ {"absent"}
      BY <3>1, Statuses DEF Success
    <3>3. proc[c].batch \in 1..opened
      BY <2>3, Completion DEF EvidenceInv, HoldsBatch, Holding, Block, At
    <3>4. batches'[b] = batches[b] \/ batches'[b].status = s
      BY <3>1, <3>2, <3>3, Decision
    <3> QED
      BY <1>2, <3>1, <3>4 DEF Undecided
  <2> QED
    BY <2>1, <2>2, <2>3
       DEF Next, Begin, AttemptFails, Die, ReadCheckpoint, NotNamed, StorePayload,
           WriteRows, RecordRejections, ReportFresh, Return, tables, vars
<1>3. CASE checkpoint'[p] = checkpoint[p]
  <2>1. checkpoint[p].batch \in 1..opened /\ ~Undecided(checkpoint[p].batch)
    BY <1>3 DEF Named
  <2>2. checkpoint[p].batch \in BatchId /\ checkpoint[p].batch <= opened
    BY <1>1, <2>1 DEF BatchId
  <2>3. opened' \in Nat /\ opened <= opened'
    BY CatalogAssumption DEF Grows, EvidenceInv, TypeOK, CatalogAssumption
  <2> QED
    BY <1>1, <1>2, <1>3, <2>1, <2>2, <2>3
<1>4. CASE checkpoint'[p] # checkpoint[p]
  <2>1. PICK c \in Processes : Complete(c)
    BY <1>4 DEF Next, Begin, AttemptFails, Die, ReadCheckpoint, NotNamed, OpenBatch, Block,
                StorePayload, WriteRows, RecordRejections, ReportFresh, Return, tables, vars
  <2>2. PICK s \in {"completed", "completed_with_rejections"} :
          batches' = IF Undecided(proc[c].batch)
                     THEN [batches EXCEPT ![proc[c].batch] = [@ EXCEPT !.status = s]]
                     ELSE batches
    BY <2>1 DEF Complete
  <2>3. s \in Status \ {"absent"} /\ proc[c].batch \in 1..opened
    BY <2>1, <2>2, Statuses, Completion DEF Success
  <2>4. checkpoint'[p].batch = proc[c].batch /\ Undecided(proc[c].batch)
    BY <1>1, <1>4, <2>1 DEF Complete, Advances
  <2>5. batches'[proc[c].batch].status = s
    BY <2>2, <2>3, <2>4, Decision, Zenon
  <2>6. opened' = opened
    BY <2>1, Completion
  <2> QED
    BY <2>2, <2>3, <2>4, <2>5, <2>6
<1> QED
  BY <1>3, <1>4

\* An empty database is an initial state of the ledger.
LEMMA InitLedger == Init => Ledger!Init
<1> SUFFICES ASSUME Init PROVE Ledger!Init
  OBVIOUS
<1>1. Ledger!BatchId = BatchId
  BY DEF Ledger!BatchId, BatchId
<1>2. \A b \in BatchId : batches[b].status = "absent" /\ batches[b].part \in Partitions
  BY CatalogAssumption DEF Init, NoBatch, Partitions, CatalogAssumption
<1>3. \A p \in Partitions : checkpoint[p].batch = 0
  BY DEF Init
<1> QED
  BY <1>1, <1>2, <1>3 DEF Ledger!Init

\* Steps that touch neither batches nor checkpoints stutter in the ledger.
LEMMA LedgerStutter ==
  ASSUME batches' = batches, checkpoint' = checkpoint
  PROVE  UNCHANGED Ledger!ledger
  BY DEF Ledger!ledger

\* Opening a batch is the ledger opening one, or a stutter if it is reused.
LEMMA OpenIsOpen ==
  ASSUME EvidenceInv, NEW c \in Processes, OpenBatch(c)
  PROVE  [Ledger!Next]_Ledger!ledger
<1>1. /\ opened \in Nat /\ MaxBatches \in Nat /\ proc[c] \in Process
      /\ proc[c].part \in Partitions
  BY Fields, CatalogAssumption DEF EvidenceInv, TypeOK, CatalogAssumption
<1>2. checkpoint' = checkpoint
  BY DEF OpenBatch
<1>3. CASE batches' = batches
  BY <1>2, <1>3, LedgerStutter
<1>4. CASE batches' # batches
  <2>n. PICK new : new = opened + 1
    OBVIOUS
  <2>q. PICK q \in Partitions : q = proc[c].part
    BY <1>1
  <2>1. /\ opened < MaxBatches /\ opened' = opened + 1
        /\ batches' = [batches EXCEPT ![opened + 1] =
             [status |-> "started", run |-> proc[c].run,
              part |-> proc[c].part, cursor |-> proc[c].cursor]]
    BY <1>4 DEF OpenBatch
  <2>2. /\ new \in BatchId
        /\ batches'[new].status = "started" /\ batches'[new].part = proc[c].part
        /\ \A b \in BatchId : b # new => batches'[b] = batches[b]
    BY <2>n, <2>1, NewBatch
  <2>3. batches[new].status = "absent"
    BY <1>1, <2>n, <2>2 DEF EvidenceInv, Numbered
  <2>4. \A older \in BatchId : older < new => batches[older].status # "absent"
    BY <1>1, <2>n DEF EvidenceInv, Numbered, BatchId
  <2>5. Ledger!BatchId = BatchId
    BY DEF Ledger!BatchId, BatchId
  <2>6. Ledger!Open(new, q)
    BY <1>2, <2>q, <2>2, <2>3, <2>4, <2>5 DEF Ledger!Open
  <2>7. Ledger!Next
    BY <2>2, <2>5, <2>6 DEF Ledger!Next
  <2> QED
    BY <2>7
<1> QED
  BY <1>3, <1>4

\* Blocking a batch is the ledger failing it, or a stutter if it is decided.
LEMMA BlockIsFail ==
  ASSUME EvidenceInv, NEW c \in Processes, Block(c)
  PROVE  [Ledger!Next]_Ledger!ledger
<1>b. PICK b : b = proc[c].batch
  OBVIOUS
<1>1. b \in 1..opened /\ checkpoint' = checkpoint
  BY <1>b DEF EvidenceInv, HoldsBatch, Holding, Block, At
<1>2. batches' = IF Undecided(b) THEN [batches EXCEPT ![b] = [@ EXCEPT !.status = "blocked"]]
                                 ELSE batches
  BY <1>b DEF Block
<1>3. b \in BatchId /\ "blocked" \in Status \ {"absent"}
  BY <1>1, Statuses, CatalogAssumption DEF EvidenceInv, TypeOK, BatchId, CatalogAssumption
<1>4. CASE ~Undecided(b)
  BY <1>1, <1>2, <1>4, LedgerStutter
<1>5. CASE Undecided(b)
  <2>1. /\ batches'[b].status = "blocked"
        /\ \A x \in BatchId : batches'[x].part = batches[x].part
                             /\ (x # b => batches'[x] = batches[x])
    BY <1>1, <1>2, <1>3, <1>5, Decision, Zenon
  <2>2. Ledger!BatchId = BatchId
    BY DEF Ledger!BatchId, BatchId
  <2>3. Ledger!Fail(b)
    BY <1>1, <1>3, <1>5, <2>1, <2>2 DEF Ledger!Fail, Ledger!Failure, Undecided
  <2>4. Ledger!Next
    BY <1>3, <2>2, <2>3 DEF Ledger!Next
  <2> QED
    BY <2>4
<1> QED
  BY <1>4, <1>5

\* Completing a batch is the ledger completing it with its checkpoint.
LEMMA CompleteIsComplete ==
  ASSUME EvidenceInv, Named, NEW c \in Processes, Complete(c)
  PROVE  [Ledger!Next]_Ledger!ledger
<1>b. PICK b, p : b = proc[c].batch /\ p = proc[c].part
  OBVIOUS
<1>1. b \in 1..opened /\ batches[b].part = p
  BY <1>b DEF EvidenceInv, HoldsBatch, Holding, Complete, At
<1>2. PICK s \in Success :
        batches' = IF Undecided(b) THEN [batches EXCEPT ![b] = [@ EXCEPT !.status = s]]
                                   ELSE batches
  BY <1>b DEF Complete, Success
<1>3. PICK end : checkpoint' = IF Advances(b, p)
                               THEN [checkpoint EXCEPT ![p] = [batch |-> b, cursor |-> end]]
                               ELSE checkpoint
  BY <1>b DEF Complete
<1>4. /\ b \in BatchId /\ s \in Status \ {"absent"} /\ p \in Partitions
      /\ checkpoint \in [Partitions -> Checkpoint] /\ MaxBatches \in Nat
  BY <1>b, <1>1, <1>2, Statuses, Fields, CatalogAssumption
     DEF EvidenceInv, TypeOK, BatchId, CatalogAssumption, Success
<1>5. CASE ~Undecided(b)
  BY <1>2, <1>3, <1>5, LedgerStutter DEF Advances
<1>6. CASE Undecided(b)
  <2>1. /\ batches'[b].status = s
        /\ \A x \in BatchId : batches'[x].part = batches[x].part
                             /\ (x # b => batches'[x] = batches[x])
    BY <1>1, <1>2, <1>4, <1>6, Decision, Zenon
  <2>2. checkpoint[p].batch \in 0..MaxBatches /\ checkpoint[p].batch # b
    <3>1. checkpoint[p].batch \in 0..MaxBatches
      BY <1>4, Fields
    <3> QED
      BY <1>4, <1>6, <3>1 DEF Named, BatchId
  <2>3. Advances(b, p) <=> checkpoint[p].batch < b
    BY <1>4, <1>6, <2>2 DEF Advances, BatchId
  <2>4. \A x \in Partitions :
          checkpoint'[x].batch = IF x = p /\ checkpoint[p].batch < b THEN b
                                 ELSE checkpoint[x].batch
    BY <1>3, <1>4, <2>3
  <2>5. Ledger!BatchId = BatchId /\ Ledger!Success = Success
    BY DEF Ledger!BatchId, BatchId, Ledger!Success, Success
  <2>6. partition' = partition /\ partition[b] = p /\ status[b] = "started"
    BY <1>1, <1>4, <1>6, <2>1 DEF partition, status, Undecided
  <2>7. status' = [status EXCEPT ![b] = s]
    BY <1>4, <2>1 DEF status
  <2>8. position' = IF position[p] < b THEN [position EXCEPT ![p] = b] ELSE position
    BY <1>4, <2>4 DEF position
  <2>9. Ledger!Complete(b)
    BY <1>2, <2>5, <2>6, <2>7, <2>8 DEF Ledger!Complete, status, partition, position
  <2>10. Ledger!Next
    BY <1>4, <2>5, <2>9 DEF Ledger!Next
  <2> QED
    BY <2>10
<1> QED
  BY <1>5, <1>6

\* Every step of a collector is a step of the ledger or a stutter.
LEMMA StepIsLedgerStep ==
  EvidenceInv /\ Named /\ [Next]_vars => [Ledger!Next]_Ledger!ledger
<1> SUFFICES ASSUME EvidenceInv, Named, [Next]_vars PROVE [Ledger!Next]_Ledger!ledger
  OBVIOUS
<1>1. CASE batches' = batches /\ checkpoint' = checkpoint
  BY <1>1, LedgerStutter
<1>2. CASE ~(batches' = batches /\ checkpoint' = checkpoint)
  <2>1. \E c \in Processes : OpenBatch(c) \/ Block(c) \/ Complete(c)
    BY <1>2 DEF Next, Begin, AttemptFails, Die, ReadCheckpoint, NotNamed, StorePayload,
                WriteRows, RecordRejections, ReportFresh, Return, tables, vars
  <2> QED
    BY <2>1, OpenIsOpen, BlockIsFail, CompleteIsComplete
<1> QED
  BY <1>1, <1>2

\* The ledger the collectors leave behind is the one BatchLedger promises: a
\* batch is decided once and the checkpoint moves with the completion of the
\* newest batch of its partition only.
THEOREM CollectorsImplementLedger == Spec => ImplementsLedger
<1>1. Init => EvidenceInv /\ Named /\ Ledger!Init
  BY InitEvidence, InitLedger DEF Init, Named
<1>2. EvidenceInv /\ Named /\ [Next]_vars => (EvidenceInv /\ Named)'
  BY NextKeepsEvidence, NamedKeeps
<1>3. EvidenceInv /\ Named /\ [Next]_vars => [Ledger!Next]_Ledger!ledger
  BY StepIsLedgerStep
<1> QED
  BY <1>1, <1>2, <1>3, PTL DEF Spec, ImplementsLedger, Ledger!Spec
=============================================================================
