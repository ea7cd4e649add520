---------------------------- MODULE MarketSnapshots ----------------------------
(***************************************************************************)
(* The Kalshi snapshots: kalshi_ingestion.py persists a collected payload  *)
(* in one transaction, the dashboard loads the newest one, and             *)
(* retention.py replaces the bodies of old payloads by tombstones.         *)
(* Transactions of different keys overlap: a batch gets its id when its    *)
(* transaction begins, and the rest is visible when it commits.            *)
(***************************************************************************)
EXTENDS Integers, Sequences, SequencesExt

CONSTANTS
    Ingestors,          \* the ingestion worker and the dashboard
    Snapshots,          \* payloads: [at, version, markets]
    SnapshotKeys,       \* idempotency keys of the worker
    FreshFor,           \* KALSHI_SOURCE_FRESHNESS_SECONDS, in ticks
    RetentionDays,      \* windows asked for, in ticks
    MinimumRetention,   \* MINIMUM_RETENTION_DAYS
    PruneLimit,         \* RAW_RETENTION_BATCH_LIMIT
    WalSizes,           \* what pg_wal can hold
    VolumeCapacity,     \* DATABASE_VOLUME_CAPACITY_BYTES
    MaxSnapshotClock,   \* bound: ticks
    MaxSnapshots        \* bound: batches

\* A market of a payload: [ticker, event, at, status, bid, ask]; no name is "".
ASSUME SnapshotAssumption ==
    /\ FreshFor \in Nat /\ MinimumRetention \in Nat \ {0} /\ PruneLimit \in Nat \ {0}
    /\ RetentionDays \subseteq Nat /\ WalSizes \subseteq Nat
    /\ VolumeCapacity \in Nat \ {0}
    /\ MaxSnapshotClock \in Nat /\ MaxSnapshots \in Nat
    /\ \A p \in Snapshots : p.at \in Nat /\ p.markets \in
            Seq([ticker : STRING, event : STRING, at : Nat, status : STRING,
                 bid : Nat, ask : Nat])

VARIABLES
    msClock,
    msNextId,      \* the sequence behind the ids of the batches
    msTx,          \* the open transaction of each ingestor
    msReply,       \* what its last call returned or raised
    msBatches,     \* raw.ingestion_batches and raw.source_payloads, by id
    msCore,        \* core.series, core.events and core.markets
    msObserved,    \* core.market_observations
    msRejected,    \* raw.rejected_records
    msCheckpoint,  \* ops.collection_checkpoints of the endpoint
    msHealth,      \* ops.source_health of the source
    msCensus       \* what the last retention pass reported
msVars == <<msClock, msNextId, msTx, msReply, msBatches, msCore, msObserved, msRejected,
            msCheckpoint, msHealth, msCensus>>

NoSnapshotTx == [pc |-> "idle"]
msIds == DOMAIN msBatches

msInit ==
    /\ msClock = 0
    /\ msNextId = 1
    /\ msTx = [w \in Ingestors |-> NoSnapshotTx]
    /\ msReply = [w \in Ingestors |-> "none"]
    /\ msBatches = << >>
    /\ msCore = << >>
    /\ msObserved = {}
    /\ msRejected = << >>
    /\ msCheckpoint = [at |-> 0, batch |-> 0]
    /\ msHealth = [at |-> 0, deadline |-> 0]
    /\ msCensus = [pruned |-> 0, tombstoned |-> 0, eligible |-> 0, redundant |-> 0,
                  bites |-> FALSE, volume |-> "ok"]

SnapshotTick ==
    /\ msClock < MaxSnapshotClock
    /\ msClock' = msClock + 1
    /\ UNCHANGED <<msNextId, msTx, msReply, msBatches, msCore, msObserved, msRejected,
                   msCheckpoint, msHealth, msCensus>>

(***************************************************************************)
(* One market of a payload.                                                *)
(***************************************************************************)
\* What a market without one of its names is rejected for, before any upsert
Unnamed(m) == IF m.ticker = "" THEN "missing_market_ticker"
              ELSE IF m.event = "" THEN "missing_event_ticker" ELSE ""
\* and after the series, the event and the market have been written: prices come last.
Unpriced(m) == IF m.bid > 100 THEN "invalid_yes_bid"
               ELSE IF m.ask > 100 THEN "invalid_yes_ask"
               ELSE IF m.bid > m.ask THEN "invalid_yes_spread" ELSE ""

\* A row is inserted, or updated.
Put(f, key, row) == [k \in DOMAIN f \cup {key} |-> IF k = key THEN row ELSE f[k]]

\* ON CONFLICT DO UPDATE: everything but last_seen_at is the last writer's.
UpsertCore(core, key, m, id) ==
    LET seen == IF key \in DOMAIN core /\ core[key].seen > m.at THEN core[key].seen
                ELSE m.at
        first == IF key \in DOMAIN core THEN core[key].first ELSE m.at
    IN  Put(core, key, [status |-> m.status, first |-> first, seen |-> seen, payload |-> id])

\* _upsert_market inside the loop of persist_kalshi_snapshot
_upsert_market(s, m, id) ==
    LET error == IF Unnamed(m) # "" THEN Unnamed(m) ELSE Unpriced(m)
        written == IF Unnamed(m) # "" THEN s.core
                   ELSE UpsertCore(UpsertCore(UpsertCore(s.core,
                            <<"series", m.event>>, m, id), <<"event", m.event>>, m, id),
                            <<"market", m.ticker>>, m, id)
        row == [market |-> m.ticker, at |-> m.at, payload |-> id, bid |-> m.bid,
                ask |-> m.ask]
        known == \E o \in s.observed :
                    o.market = m.ticker /\ o.at = m.at /\ o.payload = id
    IN  IF error # ""
        THEN [s EXCEPT !.core = written, !.rejected = Append(@, <<id, error>>),
                       !.counts.rejected = @ + 1]
        ELSE IF known THEN [s EXCEPT !.core = written, !.counts.duplicated = @ + 1]
        ELSE [s EXCEPT !.core = written, !.observed = @ \cup {row},
                       !.counts.accepted = @ + 1]

\* The loop over the markets, and what it has written when it ends
NoneUpserted(p) ==
    [core |-> msCore, observed |-> msObserved, rejected |-> msRejected,
     counts |-> [received |-> Len(p.markets), accepted |-> 0, rejected |-> 0, duplicated |-> 0]]
UpsertMarkets(p, id) ==
    LET after[n \in 0..Len(p.markets)] ==
            IF n = 0 THEN NoneUpserted(p) ELSE _upsert_market(after[n - 1], p.markets[n], id)
    IN  after[Len(p.markets)]

(***************************************************************************)
(* persist_kalshi_snapshot.  The worker names its batch by its cycle, the  *)
(* dashboard by what _snapshot_key keeps of the payload.                   *)
(***************************************************************************)
_snapshot_key(w, p) ==
    <<w, p.at, [i \in DOMAIN p.markets |-> <<p.markets[i].ticker, p.markets[i].at>>]>>

Keys(w, p) == SnapshotKeys \cup {_snapshot_key(w, p)}
\* An insert of a key that another transaction holds waits for it.
KeyHeld(key) == \E w \in Ingestors : msTx[w].pc = "open" /\ msTx[w].key = key
WithKey(key) == {i \in msIds : msBatches[i].key = key}

\* The batch is there: its counts are returned, or a refusal when its content is another.
RepeatSnapshot(w, p, key) ==
    /\ msTx[w] = NoSnapshotTx
    /\ ~KeyHeld(key)
    /\ \E i \in WithKey(key) :
        msReply' = [msReply EXCEPT ![w] =
            IF msBatches[i].payload # p THEN "content_conflict" ELSE "not_created"]
    \* ON CONFLICT DO NOTHING has drawn an id all the same.
    /\ msNextId <= MaxSnapshots /\ msNextId' = msNextId + 1
    /\ UNCHANGED <<msClock, msTx, msBatches, msCore, msObserved, msRejected,
                   msCheckpoint, msHealth, msCensus>>

BeginSnapshot(w, p, key) ==
    /\ msTx[w] = NoSnapshotTx
    /\ p.at <= msClock
    /\ ~KeyHeld(key)
    /\ WithKey(key) = {}
    /\ msNextId <= MaxSnapshots
    /\ msTx' = [msTx EXCEPT ![w] = [pc |-> "open", id |-> msNextId, key |-> key,
                                    payload |-> p]]
    /\ msNextId' = msNextId + 1
    /\ UNCHANGED <<msClock, msReply, msBatches, msCore, msObserved, msRejected,
                   msCheckpoint, msHealth, msCensus>>

\* The caller may not hear of a commit: its connection can break after it.
CommitSnapshot(w, heard) ==
    /\ msTx[w].pc = "open"
    /\ LET id == msTx[w].id
           p == msTx[w].payload
           s == UpsertMarkets(p, id)
           batch == [key |-> msTx[w].key, payload |-> p, at |-> p.at, counts |-> s.counts,
                     body |-> TRUE, status |-> IF s.counts.rejected > 0
                                               THEN "completed_with_rejections"
                                               ELSE "completed"]
       IN  /\ msBatches' = Put(msBatches, id, batch)
           /\ msCore' = s.core
           /\ msObserved' = s.observed
           /\ msRejected' = s.rejected
           /\ msCheckpoint' = IF msCheckpoint.batch <= id THEN [at |-> p.at, batch |-> id]
                              ELSE msCheckpoint
           /\ msHealth' = [at |-> p.at, deadline |-> p.at + FreshFor]
           /\ msReply' = [msReply EXCEPT ![w] = IF heard THEN "created" ELSE "lost"]
    /\ msTx' = [msTx EXCEPT ![w] = NoSnapshotTx]
    /\ UNCHANGED <<msClock, msNextId, msCensus>>

\* A deadlock on the upserted rows, a lost connection or a dead process
RollBackSnapshot(w) ==
    /\ msTx[w].pc = "open"
    /\ msTx' = [msTx EXCEPT ![w] = NoSnapshotTx]
    /\ msReply' = [msReply EXCEPT ![w] = "error"]
    /\ UNCHANGED <<msClock, msNextId, msBatches, msCore, msObserved, msRejected,
                   msCheckpoint, msHealth, msCensus>>

\* Newest first by the time of the payload, then by id.
NewestOf(batches, ids) == CHOOSE i \in ids : \A j \in ids :
                            \/ batches[i].at > batches[j].at
                            \/ batches[i].at = batches[j].at /\ i >= j

\* load_latest_kalshi_snapshot: the batch it serves, 0 for none
load_latest_kalshi_snapshot ==
    LET complete == {i \in msIds : msBatches[i].status \in
                        {"completed", "completed_with_rejections"}}
    IN  IF complete = {} THEN 0 ELSE NewestOf(msBatches, complete)

(***************************************************************************)
(* retention.py: the newest payload of a source keeps its body.            *)
(***************************************************************************)
Prunable(batches, cutoff) ==
    {i \in DOMAIN batches : /\ i # NewestOf(batches, DOMAIN batches)
                            /\ batches[i].at < cutoff /\ batches[i].body}

\* The oldest first, at most PruneLimit of them.
_prunable_rows(batches, cutoff) ==
    LET rows == Prunable(batches, cutoff)
        older(i, j) == \/ batches[i].at < batches[j].at
                       \/ batches[i].at = batches[j].at /\ i < j
    IN  {j \in rows : Cardinality({i \in rows : older(i, j)}) < PruneLimit}

\* A window wider than the age of the data prunes nothing.
_window_bites(days) ==
    \E i \in msIds : msClock - msBatches[i].at > days

\* What fills the volume: the bodies, and the write-ahead log where it may be read.
volume_usage_bytes(batches, wal, readable) ==
    Cardinality({i \in DOMAIN batches : batches[i].body}) + IF readable THEN wal ELSE 0

\* Critical from 90 percent, a warning from 75.
database_capacity_state(used) ==
    IF 100 * used >= 90 * VolumeCapacity THEN "critical"
    ELSE IF 100 * used >= 75 * VolumeCapacity THEN "warning" ELSE "ok"

\* Bodies held more than once by one source
source_payload_duplication_report(batches) ==
    LET kept == {i \in DOMAIN batches : batches[i].body}
    IN  Cardinality(kept) - Cardinality({batches[i].payload : i \in kept})

\* One pass of the raw-retention worker, or of the command line with its dry run: the
\* rows are pruned, and what is left is counted and measured.
prune_source_payload_bodies(days, dryRun) ==
    /\ days >= MinimumRetention
    /\ LET rows == IF dryRun THEN {} ELSE _prunable_rows(msBatches, msClock - days)
           left == [i \in msIds |-> IF i \in rows THEN [msBatches[i] EXCEPT !.body = FALSE]
                                    ELSE msBatches[i]]
       IN  /\ msBatches' = left
           /\ \E wal \in WalSizes, readable \in BOOLEAN :
                msCensus' = [pruned |-> Cardinality(rows),
                    tombstoned |-> Cardinality({i \in msIds : ~left[i].body}),
                    eligible |-> Cardinality(Prunable(left, msClock - days)),
                    redundant |-> source_payload_duplication_report(left),
                    bites |-> _window_bites(days),
                    volume |-> database_capacity_state(
                                    volume_usage_bytes(left, wal, readable))]
    /\ UNCHANGED <<msClock, msNextId, msTx, msReply, msCore, msObserved, msRejected,
                   msCheckpoint, msHealth>>

msNext ==
    \/ SnapshotTick
    \/ \E w \in Ingestors, p \in Snapshots : \E key \in Keys(w, p) :
        RepeatSnapshot(w, p, key) \/ BeginSnapshot(w, p, key)
    \/ \E w \in Ingestors, heard \in BOOLEAN : CommitSnapshot(w, heard)
    \/ \E w \in Ingestors : RollBackSnapshot(w)
    \/ \E days \in RetentionDays, dryRun \in BOOLEAN :
        prune_source_payload_bodies(days, dryRun)
msSpec == msInit /\ [][msNext]_msVars

(***************************************************************************)
(* Properties.                                                             *)
(***************************************************************************)
msTypeOK ==
    /\ msClock \in 0..MaxSnapshotClock
    /\ msNextId \in 1..MaxSnapshots + 1
    /\ msIds \subseteq 1..msNextId - 1
    /\ \A w \in Ingestors : msTx[w].pc = "open" => msTx[w].id \notin msIds
    /\ msCensus.volume \in {"ok", "warning", "critical"}

\* The snapshot the dashboard would load has its body, however the retention passes fall
\* between the ingestors' transactions, and the batch it came from accounts for every
\* market of the payload: accepted ones are observations, rejected ones are records.
ServedSnapshotIsWhole ==
    LET i == load_latest_kalshi_snapshot
    IN  i # 0 =>
          /\ msBatches[i].body
          /\ LET c == msBatches[i].counts
             IN  /\ c.received = c.accepted + c.rejected + c.duplicated
                 /\ c.accepted = Cardinality({o \in msObserved : o.payload = i})
                 /\ c.rejected = Cardinality({k \in DOMAIN msRejected : msRejected[k][1] = i})
=============================================================================
