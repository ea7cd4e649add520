------------------------------ MODULE FleetStatus ------------------------------
(***************************************************************************)
(* What the fleet of workers does in a cycle, and what the monitoring view *)
(* says of it: worker_services.py turns what a cycle found into its        *)
(* outcome, monitoring.py reads the workers' rows, the backlog, the volume *)
(* and the migrations into anomalies, a status and alerts, and the         *)
(* reporting worker keeps one row about its reports.  Time is in ticks of  *)
(* heartbeat_stale_seconds (900).                                          *)
(***************************************************************************)
EXTENDS Integers, Sequences, FiniteSets

CONSTANTS
    Services,        \* the worker services deployed
    FleetCadence,    \* cadence_seconds, in ticks
    FailureLimit,    \* consecutive failures that are an anomaly (3)
    MaxFleetClock,   \* bound: ticks
    MaxReports       \* bound: cycles of the reporting worker

ServiceNames == {"kalshi-market-ingestion", "external-source-ingestion", "crypto-research",
                 "sports-research", "research-model-refresh", "settlement-worker",
                 "reporting-evaluation", "raw-retention"}
ExpectRecords == {"kalshi-market-ingestion", "crypto-research", "sports-research",
                  "research-model-refresh"}

ASSUME FleetAssumption ==
    /\ Services \subseteq ServiceNames \ {"reporting-evaluation"}
    /\ FleetCadence \in [Services -> Nat \ {0}]
    /\ FailureLimit \in Nat \ {0} /\ MaxFleetClock \in Nat /\ MaxReports \in Nat

VARIABLES
    fsClock,
    fsUp,        \* does the database answer?
    fsPending,   \* are there migrations not applied?
    fsVolume,    \* database_capacity_state: "ok", "warning" or "critical"
    fsLate,      \* _settlement_delays: is a settlement overdue?
    fsWorker,    \* ops.worker_status and the process behind each row
    fsReport,    \* the row of ops.report_refreshes
    fsReporter,  \* the reporting worker's cycle
    fsReports,   \* reporting cycles so far
    fsStatus     \* the status this cycle built
fsVars == <<fsClock, fsUp, fsPending, fsVolume, fsLate, fsWorker, fsReport, fsReporter,
            fsReports, fsStatus>>

\* phase: "asleep", "running", "dead" of the process; heartbeat -1 is no row;
\* data and source: data_fresh_at and source_fresh_at, -1 for NULL
Unstarted == [phase |-> "asleep", due |-> 0, heartbeat |-> -1, failures |-> 0,
              data |-> -1, source |-> -1]
NoStatusYet == [status |-> "none", anomalies |-> {}, events |-> {}]
NoReporter == [at |-> "asleep", workers |-> [s \in Services |-> Unstarted], checked |-> 0]
NoReportRow == [status |-> "none", started |-> 0]

fsInit ==
    /\ fsClock = 0
    /\ fsUp = TRUE /\ fsPending = FALSE /\ fsVolume = "ok" /\ fsLate = FALSE
    /\ fsWorker = [s \in Services |-> Unstarted]
    /\ fsReport = NoReportRow
    /\ fsReporter = NoReporter
    /\ fsReports = 0
    /\ fsStatus = NoStatusYet

FleetTick ==
    /\ fsClock < MaxFleetClock
    /\ fsClock' = fsClock + 1
    /\ UNCHANGED <<fsUp, fsPending, fsVolume, fsLate, fsWorker, fsReport, fsReporter, fsReports,
                   fsStatus>>

\* The database goes or comes back, a version with a new migration is merged
\* or it is applied, the volume fills or is pruned, a game is not settled.
FleetWeather ==
    /\ \/ fsUp' = ~fsUp /\ UNCHANGED <<fsPending, fsVolume, fsLate>>
       \/ fsPending' = ~fsPending /\ UNCHANGED <<fsUp, fsVolume, fsLate>>
       \/ fsVolume' \in {"ok", "warning", "critical"} /\ UNCHANGED <<fsUp, fsPending, fsLate>>
       \/ fsLate' = ~fsLate /\ UNCHANGED <<fsUp, fsPending, fsVolume>>
    /\ UNCHANGED <<fsClock, fsWorker, fsReport, fsReporter, fsReports, fsStatus>>

----------------------------------------------------------------------------
(* The operations of worker_services.py: what a cycle found decides whether it
   raises, may be tried again, and what it reports. *)

Freshness == {"kept", "now", "earlier"}
Cycle(outcome, records, idle, data, source) ==
    [outcome |-> outcome, records |-> records, idle |-> idle, data |-> data, source |-> source]
Raises == Cycle("raises", 0, FALSE, "kept", "kept")
Fatal == Cycle("fatal", 0, FALSE, "kept", "kept")

\* What a cycle finds: does anything else raise, did its source answer, did
\* something come of it (a batch created, an outcome fetched, a usable market),
\* is it configured, and how many rows were logged, rejected, settled and given
\* a closing line?
Findings == [raises: BOOLEAN, source: BOOLEAN, news: BOOLEAN, configured: BOOLEAN,
             logged: 0..1, rejected: 0..1, settled: 0..1, closing: 0..1]

\* A batch whose markets were all rejected has created something and has no record.
_kalshi_ingestion_operation(f) ==
    IF f.raises \/ ~f.source THEN Raises ELSE Cycle("works", f.logged, ~f.news, "now", "now")

_external_source_operation(f) ==
    IF ~f.configured THEN Cycle("works", 0, TRUE, "kept", "kept")
    ELSE IF f.raises \/ ~f.source THEN Raises
    ELSE Cycle("works", f.logged, FALSE, "kept", "kept")

\* Without candles there are no candidates and no prices to settle with.  The
\* report has no source_status, which counts as fresh, no generated_at and no
\* latest_source_fetched_at: both columns keep what they have.
_crypto_operation(f) ==
    IF f.raises THEN Raises
    ELSE IF ~f.source THEN Cycle("works", 0, TRUE, "kept", "kept")
    ELSE Cycle("works", f.logged + f.settled, f.logged + f.settled + f.rejected = 0,
               "kept", "kept")

\* closing lines that cannot be recorded are none; a blocked source is fatal
\* when nothing was logged in spite of it
_sports_operation(f) ==
    IF f.raises THEN Raises
    ELSE IF ~f.source /\ f.logged = 0 THEN Fatal
    ELSE Cycle("works", f.logged + f.settled + f.closing,
               f.logged + f.settled + f.rejected + f.closing = 0, "now", "now")

_settlement_operation(f) ==
    IF f.raises THEN Raises
    ELSE IF ~f.news /\ ~f.source THEN Fatal
    ELSE Cycle("works", f.settled, f.settled = 0 /\ f.source, "kept", "now")

\* The source's last success and the newest market are older than the cycle.
_research_model_operation(f) ==
    IF f.raises THEN Raises
    ELSE IF ~f.source THEN Fatal
    ELSE IF ~f.news THEN Cycle("works", 0, TRUE, "kept", "earlier")
    ELSE Cycle("works", f.logged, f.logged = 0, "earlier", "earlier")

\* dry runs and a window wider than the data prune nothing
_retention_operation(f) ==
    IF f.raises THEN Raises ELSE Cycle("works", f.logged, f.logged = 0, "kept", "kept")

build_service_operation(s, f) ==
    CASE s = "kalshi-market-ingestion" -> _kalshi_ingestion_operation(f)
      [] s = "external-source-ingestion" -> _external_source_operation(f)
      [] s = "crypto-research" -> _crypto_operation(f)
      [] s = "sports-research" -> _sports_operation(f)
      [] s = "settlement-worker" -> _settlement_operation(f)
      [] s = "research-model-refresh" -> _research_model_operation(f)
      [] s = "raw-retention" -> _retention_operation(f)

\* Every way a service's cycle may end
ServiceCycles == [s \in Services |-> {build_service_operation(s, f) : f \in Findings}]

\* A worker whose records are expected fails without any.
Succeeds(s, cycle) ==
    /\ cycle.outcome = "works"
    /\ s \in ExpectRecords => cycle.records > 0 \/ cycle.idle

----------------------------------------------------------------------------
(* The workers' rows *)

\* In check mode a worker does not start while a migration is pending: it
\* writes nothing, and tries again.
BeginCycle(s) ==
    LET w == fsWorker[s]
    IN  /\ w.phase = "asleep" /\ w.due <= fsClock /\ fsUp /\ ~fsPending
        /\ fsWorker' = [fsWorker EXCEPT ![s] =
               [w EXCEPT !.phase = "running", !.heartbeat = fsClock]]
        /\ UNCHANGED <<fsClock, fsUp, fsPending, fsVolume, fsLate, fsReport, fsReporter,
                       fsReports, fsStatus>>

\* What a cycle that began at the row's heartbeat may leave in a freshness column
Stamps(freshness, old, began) ==
    CASE freshness = "kept" -> {old}
      [] freshness = "now" -> began..fsClock
      [] freshness = "earlier" -> 0..fsClock

\* finish_success and finish_failure; heartbeat() itself is never called.
EndCycle(s, cycle) ==
    LET w == fsWorker[s]
        ended == [w EXCEPT !.phase = "asleep", !.due = fsClock + FleetCadence[s],
                           !.heartbeat = fsClock]
    IN  /\ w.phase = "running" /\ fsUp
        /\ IF Succeeds(s, cycle)
           THEN \E data \in Stamps(cycle.data, w.data, w.heartbeat),
                   source \in Stamps(cycle.source, w.source, w.heartbeat) :
                  fsWorker' = [fsWorker EXCEPT ![s] =
                      [ended EXCEPT !.failures = 0, !.data = data, !.source = source]]
           ELSE fsWorker' = [fsWorker EXCEPT ![s] = [ended EXCEPT !.failures = @ + 1]]
        /\ UNCHANGED <<fsClock, fsUp, fsPending, fsVolume, fsLate, fsReport, fsReporter,
                       fsReports, fsStatus>>

\* A process that is gone for good leaves its row as it is.
WorkerStops(s) ==
    /\ fsWorker[s].phase # "dead"
    /\ fsWorker' = [fsWorker EXCEPT ![s].phase = "dead"]
    /\ UNCHANGED <<fsClock, fsUp, fsPending, fsVolume, fsLate, fsReport, fsReporter, fsReports,
                   fsStatus>>

----------------------------------------------------------------------------
(* build_internal_status: the clock and the workers' rows are read first, the
   rest later; what an anomaly's age is measured from is that first reading. *)

Anomaly(type, what) == [type |-> type, what |-> what]

stale(w) == fsReporter.checked - w.heartbeat > 1
aged(stamp) == stamp >= 0 /\ fsReporter.checked - stamp > 1

WorkerAnomalies(rows) ==
    UNION {{Anomaly(type, s) : type \in
              (IF stale(rows[s]) THEN {"stale_worker_heartbeat"} ELSE {})
              \cup (IF rows[s].failures >= FailureLimit
                    THEN {"consecutive_worker_failures"} ELSE {})
              \cup (IF aged(rows[s].data) THEN {"stale_market_data"} ELSE {})
              \cup (IF aged(rows[s].source) THEN {"stale_external_data"} ELSE {})} :
           s \in {r \in Services : rows[r].heartbeat >= 0}}

_settlement_delays == IF fsLate THEN {Anomaly("settlement_backlog", "sports")} ELSE {}
_migration_state == fsPending /\ fsUp

\* With the database down the migrations cannot be read either.
FleetAnomalies(rows) ==
    (IF fsUp THEN WorkerAnomalies(rows) \cup _settlement_delays
                  \cup (IF fsVolume = "ok" THEN {} ELSE {Anomaly("database_capacity", fsVolume)})
             ELSE {})
    \cup (IF _migration_state THEN {Anomaly("pending_migrations", "database")}
          ELSE IF ~fsUp THEN {Anomaly("database_failure", "database")} ELSE {})

\* Mutant of Blocking: a worker that stopped writing does not block.
BlockingOnlyFailures == {"consecutive_worker_failures", "pending_migrations"}

Blocking == {"stale_worker_heartbeat", "consecutive_worker_failures", "pending_migrations"}

build_internal_status(rows) ==
    LET anomalies == FleetAnomalies(rows)
        ready == fsUp /\ ~ \E a \in anomalies :
                            a.type \in Blocking
                            \/ (a.type = "database_capacity" /\ a.what = "critical")
    IN  [status |-> IF ready THEN "ready" ELSE "degraded", anomalies |-> anomalies]

Severity(a) ==
    IF a.type \in {"database_failure", "pending_migrations", "consecutive_worker_failures"}
       \/ (a.type = "database_capacity" /\ a.what = "critical")
    THEN "critical" ELSE "warning"

actionable_monitoring_events(s) ==
    {[severity |-> Severity(a), type |-> a.type] : a \in s.anomalies}
    \cup (IF s.status # "ready" /\ s.anomalies = {}
          THEN {[severity |-> "warning", type |-> "readiness_failure"]} ELSE {})

----------------------------------------------------------------------------
(* The reporting worker: one row for all of its cycles *)

start_report_refresh ==
    /\ fsReporter.at = "asleep" /\ fsUp /\ ~fsPending /\ fsReports < MaxReports
    /\ fsReports' = fsReports + 1
    /\ fsReport' = IF fsReport = NoReportRow
                   THEN [status |-> "started", started |-> fsReports'] ELSE fsReport
    /\ fsReporter' = [fsReporter EXCEPT !.at = "building"]
    /\ UNCHANGED <<fsClock, fsUp, fsPending, fsVolume, fsLate, fsWorker, fsStatus>>

\* The reports are written, and the workers' rows read.
BuildReports(works) ==
    /\ fsReporter.at = "building"
    /\ fsReporter' = IF works /\ fsUp THEN [at |-> "status", workers |-> fsWorker, checked |-> fsClock]
                     ELSE [fsReporter EXCEPT !.at = "failed"]
    /\ UNCHANGED <<fsClock, fsUp, fsPending, fsVolume, fsLate, fsWorker, fsReport, fsReports,
                   fsStatus>>

send_monitoring_alerts ==
    /\ fsReporter.at = "status"
    /\ fsStatus' = LET s == build_internal_status(fsReporter.workers)
                   IN  [status |-> s.status, anomalies |-> s.anomalies,
                        events |-> actionable_monitoring_events(s)]
    /\ fsReporter' = [NoReporter EXCEPT !.at = "completed"]
    /\ UNCHANGED <<fsClock, fsUp, fsPending, fsVolume, fsLate, fsWorker, fsReport, fsReports>>

\* Raises while the database is down, and leaves the row as it is.
finish_report_refresh ==
    /\ fsReporter.at \in {"completed", "failed"}
    /\ fsReport' = IF fsUp THEN [fsReport EXCEPT !.status = fsReporter.at] ELSE fsReport
    /\ fsReporter' = NoReporter
    /\ fsStatus' = NoStatusYet
    /\ UNCHANGED <<fsClock, fsUp, fsPending, fsVolume, fsLate, fsWorker, fsReports>>

_reporting_operation ==
    \/ start_report_refresh \/ (\E works \in BOOLEAN : BuildReports(works))
    \/ send_monitoring_alerts \/ finish_report_refresh

fsNext ==
    \/ FleetTick \/ FleetWeather \/ _reporting_operation
    \/ \E s \in Services :
         BeginCycle(s) \/ WorkerStops(s) \/ (\E cycle \in ServiceCycles[s] : EndCycle(s, cycle))

----------------------------------------------------------------------------
(* Properties *)

fsTypeOK ==
    /\ fsClock \in 0..MaxFleetClock
    /\ \A s \in Services : fsWorker[s].heartbeat \in -1..fsClock
                            /\ fsWorker[s].data <= fsClock /\ fsWorker[s].source <= fsClock
    /\ fsReporter.at \in {"asleep", "building", "status", "completed", "failed"}

\* build_internal_status and actionable_monitoring_events: whatever the order in
\* which things broke, a status built while the database is down or lacks a
\* migration, the volume is critical, or a worker that had started has failed
\* or been silent for long, is degraded and names it in an event.
Troubles ==
    (IF ~fsUp THEN {"database_failure"} ELSE {})
    \cup (IF fsUp /\ fsPending THEN {"pending_migrations"} ELSE {})
    \cup (IF fsUp /\ fsVolume = "critical" THEN {"database_capacity"} ELSE {})
    \cup (IF fsUp /\ \E s \in Services :
               fsWorker[s].phase = "dead" /\ fsWorker[s].heartbeat >= 0
               /\ fsWorker[s].heartbeat + 1 < fsReporter.checked
          THEN {"stale_worker_heartbeat"} ELSE {})
    \cup (IF fsUp /\ \E s \in Services :
               fsWorker[s].failures >= FailureLimit
               /\ fsReporter.workers[s].failures >= FailureLimit
          THEN {"consecutive_worker_failures"} ELSE {})
TroubleIsReported ==
    [][fsStatus'.status \notin {"none", fsStatus.status} =>
         \A trouble \in Troubles :
            /\ fsStatus'.status = "degraded"
            /\ \E event \in fsStatus'.events : event.type = trouble]_fsVars

=============================================================================
