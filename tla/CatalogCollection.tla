------------------------- MODULE CatalogCollection -------------------------
(***************************************************************************)
(* The source-backed catalog collectors (collect_kalshi_catalog and        *)
(* collect_polymarket_catalog) on the collection ledger.  A collection     *)
(* walks the source's partitions in order; for each it opens a batch,      *)
(* stores the response as evidence, writes the normalized rows and         *)
(* completes the batch, every call a transaction of its own.  It is run    *)
(* by a scheduled worker, which retries it within one cadence bucket, and  *)
(* by the refresh coordinator, which does not; both may be under way at    *)
(* once, and either may be killed between two transactions.                *)
(*                                                                         *)
(* A cursor is its position in the listing of the source, 0 for none (the  *)
(* code's None): the source hands out k + 1 with page k, or no cursor with *)
(* the last page, and the walk then begins again.                          *)
(***************************************************************************)
EXTENDS Integers, FiniteSets

CONSTANTS
    Workers,       \* processes of the scheduled worker of the source
    Coordinators,  \* processes of the refresh coordinator
    Last,          \* the partitions are 1..Last, in the order of collection
    Endpoint,      \* the endpoint of each partition
    MaxAttempts,   \* maximum_attempts of the worker
    MaxRuns,       \* bound: collections started
    MaxBatches,    \* bound: batches opened
    MaxCursor      \* bound: the last page of a listing

Endpoints == {"structured_targets", "milestones", "live_data", "event_metadata",
              "sports", "teams", "markets"}
Partitions == 1..Last

ASSUME CatalogAssumption ==
    /\ Last \in Nat \ {0}
    /\ Endpoint \in [Partitions -> Endpoints]
    /\ MaxAttempts \in Nat \ {0}
    /\ MaxRuns \in Nat
    /\ MaxBatches \in Nat
    /\ MaxCursor \in Nat
    /\ Workers \cap Coordinators = {}

VARIABLES
    batches,     \* raw.ingestion_batches
    opened,      \* the ids handed out so far
    payloads,    \* batches with a row in raw.source_payloads
    written,     \* batches whose normalized rows are in the core tables
    rejected,    \* batches with a row in raw.rejected_records
    checkpoint,  \* ops.collection_checkpoints
    health,      \* ops.source_health: the run that last wrote 'fresh', 0 for none
    runs,        \* collections started so far
    proc         \* the collectors' control state
vars == <<batches, opened, payloads, written, rejected, checkpoint, health, runs, proc>>

Processes == Workers \cup Coordinators
BatchId == 1..MaxBatches
Cursor == 0..MaxCursor

\* The three ways an endpoint is walked.
Cursored(p) == Endpoint[p] \in {"structured_targets", "milestones"}
Optional(p) == Endpoint[p] \in {"live_data", "event_metadata"}
Offset(p) == Endpoint[p] \in {"teams", "markets"}

Success == {"completed", "completed_with_rejections"}
Status == {"absent", "started", "failed", "blocked"} \cup Success
Batch == [status: Status, run: 0..MaxRuns, part: Partitions, cursor: Cursor]
NoBatch == [status |-> "absent", run |-> 0, part |-> 1, cursor |-> 0]

Checkpoint == [batch: 0..MaxBatches, cursor: Cursor]

Step == {"idle", "reading", "opening", "blocking", "storing", "writing",
         "rejecting", "completing", "reporting", "returning"}
Process == [pc: Step, run: 0..MaxRuns, attempt: 0..MaxAttempts, part: Partitions,
            cursor: Cursor, batch: 0..MaxBatches, rejects: BOOLEAN]
Idle == [pc |-> "idle", run |-> 0, attempt |-> 0, part |-> 1, cursor |-> 0,
         batch |-> 0, rejects |-> FALSE]

\* Tables and processes are well formed.
TypeOK ==
    /\ batches \in [BatchId -> Batch]
    /\ opened \in 0..MaxBatches
    /\ payloads \subseteq BatchId
    /\ written \subseteq BatchId
    /\ rejected \subseteq BatchId
    /\ checkpoint \in [Partitions -> Checkpoint]
    /\ health \in 0..MaxRuns
    /\ runs \in 0..MaxRuns
    /\ proc \in [Processes -> Process]

Init ==
    /\ batches = [b \in BatchId |-> NoBatch]
    /\ opened = 0
    /\ payloads = {}
    /\ written = {}
    /\ rejected = {}
    /\ checkpoint = [p \in Partitions |-> [batch |-> 0, cursor |-> 0]]
    /\ health = 0
    /\ runs = 0
    /\ proc = [c \in Processes |-> Idle]

tables == <<batches, opened, payloads, written, rejected, checkpoint, health>>

At(c, step) == proc[c].pc = step
Goto(c, step) == proc' = [proc EXCEPT ![c] = [@ EXCEPT !.pc = step]]

\* The partition after p; those of the same listing are skipped after a short
\* page.  Last + 1 stands for the end of the collection.
Following(p, short) == {q \in p + 1..Last + 1 :
    IF short
    THEN /\ \A s \in p + 1..q - 1 : Endpoint[s] = Endpoint[p]
         /\ q \in Partitions => Endpoint[q] # Endpoint[p]
    ELSE q = p + 1}

\* The collection goes on with partition q, or reports when there is none.
Proceed(c, q) ==
    proc' = [proc EXCEPT ![c] =
        IF q \in Partitions
        THEN [@ EXCEPT !.pc = "reading", !.part = q]
        ELSE [@ EXCEPT !.pc = "reporting"]]

-----------------------------------------------------------------------------
(* The attempts of a collection *)

\* A claimed cadence bucket (WorkerRun) or refresh request (RefreshQueue).
Begin(c) ==
    /\ At(c, "idle") /\ runs < MaxRuns
    /\ runs' = runs + 1
    /\ proc' = [proc EXCEPT ![c] =
         [Idle EXCEPT !.pc = "reading", !.run = runs + 1, !.attempt = 1]]
    /\ UNCHANGED tables

\* Mutant of RetriesLeft: one attempt too many.
OneMoreRetry(c) == c \in Workers /\ proc[c].attempt <= MaxAttempts

\* run_worker_once repeats a failed operation; the coordinator does not.
RetriesLeft(c) == c \in Workers /\ proc[c].attempt < MaxAttempts

\* The operation raised: a retry starts from the first partition under the
\* idempotency key of the same cycle.
Retry(c) ==
    proc' = [proc EXCEPT ![c] =
        IF RetriesLeft(c)
        THEN [Idle EXCEPT !.pc = "reading", !.run = proc[c].run,
                          !.attempt = proc[c].attempt + 1]
        ELSE Idle]

\* A fetch or a transaction raised, or the operation processed no records.
AttemptFails(c) ==
    /\ proc[c].pc # "idle"
    /\ Retry(c)
    /\ UNCHANGED <<tables, runs>>

\* The process is killed.  Its bucket stays claimed, so nothing resumes it.
Die(c) ==
    /\ proc[c].pc # "idle"
    /\ proc' = [proc EXCEPT ![c] = Idle]
    /\ UNCHANGED <<tables, runs>>

-----------------------------------------------------------------------------
(* One partition *)

\* ledger.checkpoint: only the Kalshi listings resume from a cursor.
ReadCheckpoint(c) ==
    LET p == proc[c].part IN
    /\ At(c, "reading")
    /\ proc' = [proc EXCEPT ![c] = [@ EXCEPT !.pc = "opening",
         !.cursor = IF Cursored(p) THEN checkpoint[p].cursor ELSE 0]]
    /\ UNCHANGED <<tables, runs>>

\* The milestones page names no such milestone or event.
NotNamed(c) ==
    /\ At(c, "reading") /\ Optional(proc[c].part)
    /\ Proceed(c, proc[c].part + 1)
    /\ UNCHANGED <<tables, runs>>

\* The row with the idempotency key of this request.  The key holds the cycle
\* of the worker; in a refresh it holds the current instant and is always new.
Known(c) ==
    {b \in 1..opened :
        /\ c \in Workers
        /\ batches[b].run = proc[c].run
        /\ batches[b].part = proc[c].part
        /\ batches[b].cursor = proc[c].cursor}

\* Mutant of Judge: what an earlier attempt opened is taken for collected.
JudgeNewOnly(live, created) ==
    IF ~live THEN "blocking" ELSE IF created THEN "storing" ELSE "completing"

\* _require_live decides; whether the batch is new makes no difference.
Judge(live, created) == IF live THEN "storing" ELSE "blocking"

\* The response is fetched and the batch opened, or found.
OpenBatch(c) == \E live \in BOOLEAN :
    /\ At(c, "opening")
    /\ \/ \E b \in Known(c) :
            /\ proc' = [proc EXCEPT ![c] =
                 [@ EXCEPT !.pc = Judge(live, FALSE), !.batch = b]]
            /\ UNCHANGED <<batches, opened>>
       \/ /\ Known(c) = {} /\ opened < MaxBatches
          /\ opened' = opened + 1
          /\ batches' = [batches EXCEPT ![opened + 1] =
               [status |-> "started", run |-> proc[c].run,
                part |-> proc[c].part, cursor |-> proc[c].cursor]]
          /\ proc' = [proc EXCEPT ![c] =
               [@ EXCEPT !.pc = Judge(live, TRUE), !.batch = opened + 1]]
    /\ UNCHANGED <<payloads, written, rejected, checkpoint, health, runs>>

\* Only a started batch is decided (WHERE status = 'started').
Undecided(b) == batches[b].status = "started"

\* Mutant of Raises: a blocked page is skipped like a blocked document.
RaisesNever(p) == FALSE

\* A blocked listing page ends the attempt; a document that is missing or not
\* live is passed over.
Raises(p) == ~Optional(p)

\* fail_batch, then the error is raised or the next document taken.
Block(c) ==
    LET b == proc[c].batch
        p == proc[c].part IN
    /\ At(c, "blocking")
    /\ batches' = IF Undecided(b) THEN [batches EXCEPT ![b] = [@ EXCEPT !.status = "blocked"]]
                                  ELSE batches
    /\ IF Raises(p) THEN Retry(c) ELSE Proceed(c, p + 1)
    /\ UNCHANGED <<opened, payloads, written, rejected, checkpoint, health, runs>>

\* store_payload: equal content under one batch is stored once.
StorePayload(c) ==
    /\ At(c, "storing")
    /\ payloads' = payloads \cup {proc[c].batch}
    /\ Goto(c, "writing")
    /\ UNCHANGED <<batches, opened, written, rejected, checkpoint, health, runs>>

\* Normalization and the upserts of the catalog store.
WriteRows(c) ==
    /\ At(c, "writing")
    /\ written' = written \cup {proc[c].batch}
    /\ \E rejects \in BOOLEAN :
         proc' = [proc EXCEPT ![c] = [@ EXCEPT
             !.pc = IF rejects THEN "rejecting" ELSE "completing", !.rejects = rejects]]
    /\ UNCHANGED <<batches, opened, payloads, rejected, checkpoint, health, runs>>

RecordRejections(c) ==
    /\ At(c, "rejecting")
    /\ rejected' = rejected \cup {proc[c].batch}
    /\ Goto(c, "completing")
    /\ UNCHANGED <<batches, opened, payloads, written, checkpoint, health, runs>>

\* Mutants of Advances: the checkpoint moves although the batch was decided
\* before, or back to an older batch.
AdvancesAnyway(b, p) == checkpoint[p].batch <= b
AdvancesAlways(b, p) == Undecided(b)

Advances(b, p) == Undecided(b) /\ checkpoint[p].batch <= b

\* complete_batch: the batch and the checkpoint in one transaction.  _complete
\* does not look at what it returns.
Complete(c) == \E next \in {0, proc[c].cursor + 1} \cap Cursor, short \in BOOLEAN :
    LET b == proc[c].batch
        p == proc[c].part
        outcome == IF proc[c].rejects THEN "completed_with_rejections" ELSE "completed"
        end == IF Cursored(p) THEN next ELSE 0 IN
    /\ At(c, "completing")
    /\ batches' = IF Undecided(b) THEN [batches EXCEPT ![b] = [@ EXCEPT !.status = outcome]]
                                  ELSE batches
    /\ checkpoint' = IF Advances(b, p)
                     THEN [checkpoint EXCEPT ![p] = [batch |-> b, cursor |-> end]]
                     ELSE checkpoint
    /\ \E q \in Following(p, short /\ Offset(p)) : Proceed(c, q)
    /\ UNCHANGED <<opened, payloads, written, rejected, health, runs>>

\* update_source_health, only ever with 'fresh'.
ReportFresh(c) ==
    /\ At(c, "reporting")
    /\ health' = proc[c].run
    /\ Goto(c, "returning")
    /\ UNCHANGED <<batches, opened, payloads, written, rejected, checkpoint, runs>>

Return(c) ==
    /\ At(c, "returning")
    /\ proc' = [proc EXCEPT ![c] = Idle]
    /\ UNCHANGED <<tables, runs>>

Next == \E c \in Processes :
    \/ Begin(c) \/ AttemptFails(c) \/ Die(c)
    \/ ReadCheckpoint(c) \/ NotNamed(c) \/ OpenBatch(c) \/ Block(c)
    \/ StorePayload(c) \/ WriteRows(c) \/ RecordRejections(c) \/ Complete(c)
    \/ ReportFresh(c) \/ Return(c)

Spec == Init /\ [][Next]_vars

-----------------------------------------------------------------------------
(* Properties *)

Succeeded(b) == batches[b].status \in Success

\* A batch that succeeded left its evidence: the response it read, the rows
\* normalized from it and, if it claims rejections, a rejected record, although
\* a retry reuses the batch that a killed attempt opened and left anywhere.
EvidenceFirst == \A b \in BatchId : Succeeded(b) =>
    /\ b \in payloads \cap written
    /\ batches[b].status = "completed_with_rejections" => b \in rejected

\* Page k of partition p was collected by a batch that succeeded.
Collected(p, k) == \E b \in 1..opened :
    batches[b].part = p /\ batches[b].cursor = k /\ Succeeded(b)

\* No page of a listing is passed over: every page before the one a checkpoint
\* points at was collected, with two collectors walking the listing at once,
\* blocked pages, retries under the same batch and crashes.
NothingSkipped == \A p \in Partitions : \A k \in Cursor :
    k < checkpoint[p].cursor => Collected(p, k)

\* The first page of an endpoint is always requested.
Required(p) ==
    /\ ~Optional(p)
    /\ Offset(p) /\ p > 1 => Endpoint[p - 1] # Endpoint[p]

\* A source is reported fresh only by a collection that stored a live response
\* of every listing it has to walk, over all its attempts.
FreshIsEarned == health # 0 => \A p \in Partitions : Required(p) =>
    \E b \in payloads : batches[b].run = health /\ batches[b].part = p

\* The ledger that retries, crashes and concurrent collectors leave behind is
\* the one BatchLedger promises.
Ledger == INSTANCE BatchLedger WITH
    status <- [b \in BatchId |-> batches[b].status],
    partition <- [b \in BatchId |-> batches[b].part],
    position <- [p \in Partitions |-> checkpoint[p].batch]
ImplementsLedger == Ledger!Spec
=============================================================================
