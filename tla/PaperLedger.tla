----------------------------- MODULE PaperLedger -----------------------------
(***************************************************************************)
(* The paper ledger of a run: evaluation/paper_live.py on storage.py.      *)
(* log_forward_predictions takes four transactions, one to compare with    *)
(* the rows already there, one to read the next sequence numbers, and one  *)
(* each to insert rows and rejections; the dashboard and the command line  *)
(* both run it.  import_settlements is one transaction that locks every    *)
(* row of the run it can get (SKIP LOCKED), settles or un-settles it, and  *)
(* writes the audit of each change.                                        *)
(***************************************************************************)
EXTENDS Integers, Sequences, SequencesExt, Overlay

CONSTANTS
    PaperLoggers,    \* callers of log_forward_predictions
    PaperImporters,  \* callers of import_settlements
    Quotes,          \* [strategy, event, market, side]
    Payloads,        \* sets of quotes that one payload has built slips of
    Prices,          \* entry prices in cents
    Updates,         \* source_updated_at of a quote
    LegStatuses,     \* market_status of a leg
    Outcomes,        \* what a source says of a market: [status, result, price]
    Configs,         \* configurations a run may be started with
    MaxAge,          \* max_payload_age_seconds, in ticks
    EventStart, MarketClose,
    MaxFetchErrors,  \* SETTLEMENT_MAX_CONSECUTIVE_FETCH_ERRORS
    MaxFetchMarkets, \* SETTLEMENT_MAX_MARKETS_PER_RUN
    MinSettled,      \* MIN_SETTLED_FOR_PERFORMANCE
    MaxPaperClock,   \* bound: ticks of the clock
    MaxPaperRows,    \* bound: rows of the log
    MaxImports       \* bound: imports

Markets == {q.market : q \in Quotes}
NoProfit == -1000   \* profit_loss_cents IS NULL
NoAnswer == [status |-> "", result |-> "", price |-> -1]

ASSUME PaperAssumption ==
    /\ MaxAge \in Nat /\ EventStart \in Nat /\ MarketClose \in Nat
    /\ MaxFetchErrors \in Nat \ {0} /\ MaxFetchMarkets \in Nat \ {0}
    /\ MinSettled \in Nat \ {0}
    /\ \A S \in Payloads : IsFiniteSet(S) /\ S \subseteq Quotes
    /\ \A q, r \in Quotes :
          /\ q.strategy \in Nat
          /\ q.strategy = r.strategy /\ q.event = r.event /\ q.market = r.market
             /\ q.side = r.side => q = r
    /\ MaxPaperClock \in Nat \ {0} /\ MaxPaperRows \in Nat /\ MaxImports \in Nat
    /\ Configs # {} /\ 0 \notin Configs
    /\ NoAnswer \notin Outcomes

VARIABLES
    plClock,    \* the wall clock
    plRun,      \* the configuration app.paper_test_runs holds for the run, 0 for none
    plLog,      \* app.prediction_logs, in the order of the ids
    plRejected, \* the reasons in app.prediction_rejections
    plAudit,    \* app.settlement_audit
    plLogger,   \* what each logger holds in memory
    plImporter, \* what each importer holds in memory
    plImports,  \* imports so far
    plReport,   \* the report being built
    plOverlap   \* history: two loggers were between reading and inserting
plVars == <<plClock, plRun, plLog, plRejected, plAudit, plLogger, plImporter,
            plImports, plReport, plOverlap>>

UnresolvedStates == {"", "open", "active", "unresolved", "pending"}
VoidStates == {"void", "canceled", "cancelled", "cancel"}
PushStates == {"push", "tie"}
\* settled at a price the payload has to give
PricedStates == {"fair_market", "early_exit"}
NonTradable == {"closed", "settled", "resolved", "canceled", "cancelled", "void",
                "inactive"}

plIds == 1..Len(plLog)
NoRecord == [pc |-> "idle", time |-> 0, legs |-> {}, rejects |-> {}]
NoImport == [pc |-> "idle", source |-> "file", held |-> {},
             said |-> [m \in Markets |-> NoAnswer]]
NoReport == [pc |-> "idle"]

plInit ==
    /\ plClock = 1
    /\ plRun = 0
    /\ plLog = <<>>
    /\ plRejected = {}
    /\ plAudit = {}
    /\ plLogger = [l \in PaperLoggers |-> NoRecord]
    /\ plImporter = [i \in PaperImporters |-> NoImport]
    /\ plImports = 0
    /\ plReport = NoReport
    /\ plOverlap = FALSE

PaperTick ==
    /\ plClock < MaxPaperClock
    /\ plClock' = plClock + 1
    /\ UNCHANGED <<plRun, plLog, plRejected, plAudit, plLogger, plImporter, plImports,
                   plReport, plOverlap>>

(***************************************************************************)
(* start_paper_test_run: the first configuration of a run is the one that  *)
(* stays.                                                                  *)
(***************************************************************************)
StartRun(c) ==
    /\ plRun' = IF plRun = 0 THEN c ELSE plRun
    /\ UNCHANGED <<plClock, plLog, plRejected, plAudit, plLogger, plImporter,
                   plImports, plReport, plOverlap>>

(***************************************************************************)
(* log_forward_predictions.  A leg is a posted quote of a built slip; one  *)
(* without a fetch time is taken to have been fetched now.                 *)
(***************************************************************************)
PredictionErrors(status, time) ==
    {e \in {"after_event_start", "after_market_close", "closes_before_start",
            "not_tradable"} :
        CASE e = "after_event_start" -> time >= EventStart
          [] e = "after_market_close" -> time >= MarketClose
          [] e = "closes_before_start" -> MarketClose < EventStart
          [] OTHER -> status \in NonTradable}

PayloadAgeErrors(fetched, time) == IF time - fetched > MaxAge THEN {"stale_payload"} ELSE {}

BuildLeg(quote, price, update, fetched, status, time) ==
    LET at == IF fetched = 0 THEN time ELSE fetched
    IN  [quote |-> quote, price |-> price, update |-> update, fetched |-> at, seq |-> 0,
         status |-> status,
         errors |-> PredictionErrors(status, time) \cup PayloadAgeErrors(at, time)]

\* A payload holds one leg of each of some quotes, all of one fetch.
BeginLog(l) ==
    /\ plLogger[l].pc = "idle"
    /\ \E S \in Payloads, price \in Prices, update \in Updates,
          fetched \in 0..plClock, status \in LegStatuses :
        plLogger' = [plLogger EXCEPT ![l] =
            [pc |-> "extracted", time |-> plClock, rejects |-> {},
             legs |-> {BuildLeg(q, price, update, fetched, status, plClock) : q \in S}]]
    /\ plOverlap' = (plOverlap \/ \E k \in PaperLoggers :
                       plLogger[k].pc \in {"extracted", "marked", "sequenced"})
    /\ UNCHANGED <<plClock, plRun, plLog, plRejected, plAudit, plImporter, plImports,
                   plReport>>

\* _mark_unchanged_repeat_snapshots: the same fetch, or the same values of the same source state
Repeats(leg, time, row) ==
    /\ row.quote = leg.quote
    /\ row.time # time
    /\ \/ row.fetched = leg.fetched
       \/ row.price = leg.price /\ row.update = leg.update

MarkUnchanged(l) ==
    /\ plLogger[l].pc = "extracted"
    /\ LET t == plLogger[l].time
           mark(leg) == IF leg.errors = {} /\ \E i \in plIds : Repeats(leg, t, plLog[i])
                        THEN [leg EXCEPT !.errors = {"unchanged_repeat_snapshot"}]
                        ELSE leg
       IN  plLogger' = [plLogger EXCEPT ![l].pc = "marked",
                                        ![l].legs = {mark(leg) : leg \in @}]
    /\ UNCHANGED <<plClock, plRun, plLog, plRejected, plAudit, plImporter, plImports,
                   plReport, plOverlap>>

LastSequence(quote) ==
    LET S == {plLog[i].seq : i \in {j \in plIds : plLog[j].quote = quote}}
    IN  IF S = {} THEN 0 ELSE Max(S)

\* _assign_snapshot_sequences, and the division into rows and rejections
AssignSequences(l) ==
    /\ plLogger[l].pc = "marked"
    /\ LET legs == plLogger[l].legs
           valid == {leg \in legs : leg.errors = {}}
       IN  plLogger' = [plLogger EXCEPT ![l].pc = "sequenced",
                ![l].legs = {[leg EXCEPT !.seq = LastSequence(leg.quote) + 1] :
                                leg \in valid},
                ![l].rejects = legs \ valid]
    /\ UNCHANGED <<plClock, plRun, plLog, plRejected, plAudit, plImporter, plImports,
                   plReport, plOverlap>>

\* insert_prediction_logs: ON CONFLICT (quote, prediction_timestamp) DO NOTHING
NewRows(legs, time) ==
    LET fresh == {leg \in legs : \A i \in plIds :
                     ~(plLog[i].quote = leg.quote /\ plLog[i].time = time)}
        row(leg) == [quote |-> leg.quote, time |-> time, price |-> leg.price,
                     update |-> leg.update, fetched |-> leg.fetched, seq |-> leg.seq,
                     state |-> "unresolved", profit |-> NoProfit, issue |-> ""]
    IN  SetToSeq({row(leg) : leg \in fresh})

InsertRows(l) ==
    /\ plLogger[l].pc = "sequenced"
    /\ plLog' = plLog \o NewRows(plLogger[l].legs, plLogger[l].time)
    /\ Len(plLog') <= MaxPaperRows
    /\ plLogger' = [plLogger EXCEPT ![l].pc = "inserted"]
    /\ UNCHANGED <<plClock, plRun, plRejected, plAudit, plImporter, plImports, plReport,
                   plOverlap>>

InsertRejections(l) ==
    /\ plLogger[l].pc = "inserted"
    /\ plRejected' = plRejected \cup UNION {r.errors : r \in plLogger[l].rejects}
    /\ plLogger' = [plLogger EXCEPT ![l] = NoRecord]
    /\ UNCHANGED <<plClock, plRun, plLog, plAudit, plImporter, plImports, plReport,
                   plOverlap>>

\* The process dies, or its connection does: what it committed stays.
LoggerDies(l) ==
    /\ plLogger[l].pc # "idle"
    /\ plLogger' = [plLogger EXCEPT ![l] = NoRecord]
    /\ UNCHANGED <<plClock, plRun, plLog, plRejected, plAudit, plImporter, plImports,
                   plReport, plOverlap>>

(***************************************************************************)
(* Settlement.                                                             *)
(***************************************************************************)
PendingMarkets == {plLog[i].quote.market : i \in {j \in plIds : plLog[j].state = "unresolved"}}

\* One request of fetch_official_kalshi_settlements; NoAnswer is an error.
FetchOne(f, m, answer) ==
    IF f.errors >= MaxFetchErrors THEN f
    ELSE [said |-> [f.said EXCEPT ![m] = answer],
          errors |-> IF answer = NoAnswer THEN f.errors + 1 ELSE 0]

\* The markets are asked for in their order, at most MaxFetchMarkets of them.
FetchAll(pending, answers) ==
    LET ids == SetToSortSeq(pending, LAMBDA a, b : a < b)
        asked == SubSeq(ids, 1, IF Len(ids) <= MaxFetchMarkets THEN Len(ids)
                                ELSE MaxFetchMarkets)
    IN  FoldLeft(LAMBDA f, m : FetchOne(f, m, answers[m]),
                 [said |-> [m \in Markets |-> NoAnswer], errors |-> 0], asked).said

FetchOfficial(i) ==
    /\ plImporter[i].pc = "idle"
    /\ plImports < MaxImports
    /\ PendingMarkets # {}
    /\ \E answers \in [Markets -> Outcomes \cup {NoAnswer}] :
        LET said == FetchAll(PendingMarkets, answers)
        IN  /\ \E m \in Markets : said[m] # NoAnswer
            /\ plImporter' = [plImporter EXCEPT ![i] =
                    [NoImport EXCEPT !.pc = "fetched", !.said = said,
                                     !.source = "official"]]
    /\ plImports' = plImports + 1
    /\ UNCHANGED <<plClock, plRun, plLog, plRejected, plAudit, plLogger, plReport,
                   plOverlap>>

\* paper-settle: the outcomes come from a file.
ReadSettlementFile(i) ==
    /\ plImporter[i].pc = "idle"
    /\ plImports < MaxImports
    /\ \E said \in [Markets -> Outcomes \cup {NoAnswer}] :
        /\ \E m \in Markets : said[m] # NoAnswer
        /\ plImporter' = [plImporter EXCEPT ![i] =
                [NoImport EXCEPT !.pc = "fetched", !.said = said]]
    /\ plImports' = plImports + 1
    /\ UNCHANGED <<plClock, plRun, plLog, plRejected, plAudit, plLogger, plReport,
                   plOverlap>>

\* Mutant of Lockable: the lock is dropped.
AnyRow(i) == plIds

\* SELECT ... FOR UPDATE SKIP LOCKED
Lockable(i) == plIds \ UNION {plImporter[k].held : k \in PaperImporters \ {i}}
LockRows(i) ==
    /\ plImporter[i].pc = "fetched"
    /\ plImporter' = [plImporter EXCEPT ![i].pc = "locked",
            ![i].held = Lockable(i)]
    /\ UNCHANGED <<plClock, plRun, plLog, plRejected, plAudit, plLogger, plImports,
                   plReport, plOverlap>>

\* _outcome_settlement_state of a market for a side bought at entry: state and profit
OutcomeState(said, side, entry) ==
    CASE said.status \in UnresolvedStates /\ said.result = "" -> <<"unresolved", NoProfit>>
      [] said.status \in VoidStates \/ said.result \in VoidStates -> <<"void", 0>>
      [] said.status \in PushStates \/ said.result \in PushStates -> <<"push", 0>>
      [] said.status \in PricedStates -> <<said.status, said.price - entry>>
      [] said.result \in PricedStates -> <<said.result, said.price - entry>>
      [] said.result = side -> <<"win", 100 - entry>>
      [] said.result \in {"yes", "no"} -> <<"loss", -entry>>
      [] OTHER -> <<"unresolved", NoProfit>>

\* _settlement_decision and _pl_for_settlement: state, profit, issue
Decision(row, said) ==
    LET decided == OutcomeState(said, row.quote.side, row.price)
    IN  IF PricedStates \cap {said.status, said.result} # {} /\ said.price = -1
        THEN <<"unresolved", NoProfit, "missing_settlement_price">>
        ELSE <<decided[1], decided[2],
               IF decided[1] = "unresolved"
                  /\ said.status \notin UnresolvedStates \cup {"inactive"}
               THEN "unknown_settlement_state" ELSE "">>

Changes(row, said) ==
    LET d == Decision(row, said)
    IN  said # NoAnswer /\ <<row.state, row.profit, row.issue>> # d

\* _insert_settlement_audit: ON CONFLICT of everything but the previous outcome DO NOTHING
AuditRow(i, row, said, source) ==
    LET d == Decision(row, said)
    IN  [id |-> i, old |-> row.state, new |-> d[1], profit |-> d[2], issue |-> d[3],
         source |-> source, raw |-> said]
SameAudit(a, b) ==
    /\ a.id = b.id /\ a.source = b.source /\ a.issue = b.issue
    /\ a.new = b.new /\ a.raw = b.raw

Import(i) ==
    /\ plImporter[i].pc = "locked"
    /\ LET said(id) == plImporter[i].said[plLog[id].quote.market]
           changed == {id \in plImporter[i].held : Changes(plLog[id], said(id))}
           audit == {AuditRow(id, plLog[id], said(id), plImporter[i].source) :
                        id \in changed}
           settled(id) == LET d == Decision(plLog[id], said(id))
                          IN  [plLog[id] EXCEPT !.state = d[1], !.profit = d[2],
                                                !.issue = d[3]]
       IN  /\ plLog' = [id \in plIds |-> IF id \in changed THEN settled(id)
                                         ELSE plLog[id]]
           /\ plAudit' = plAudit \cup
                {a \in audit : \A b \in plAudit : ~SameAudit(a, b)}
    /\ plImporter' = [plImporter EXCEPT ![i] = NoImport]
    /\ UNCHANGED <<plClock, plRun, plRejected, plLogger, plImports, plReport, plOverlap>>

\* The transaction rolls back: nothing happened, the locks are gone.
ImportFails(i) ==
    /\ plImporter[i].pc # "idle"
    /\ plImporter' = [plImporter EXCEPT ![i] = NoImport]
    /\ UNCHANGED <<plClock, plRun, plLog, plRejected, plAudit, plLogger, plImports,
                   plReport, plOverlap>>

(***************************************************************************)
(* Reports.  build_stage3b_audit_report takes the daily report first and   *)
(* reads the log again in a transaction of its own.                        *)
(***************************************************************************)
Exposure(row) == <<row.quote.event, row.quote.market, row.quote.side>>
SettledIds(ids) == {i \in ids : plLog[i].state \notin UnresolvedStates}
Exposures(ids) == {Exposure(plLog[i]) : i \in ids}
Earlier(i, j) ==
    \/ plLog[i].time < plLog[j].time
    \/ plLog[i].time = plLog[j].time /\ plLog[i].seq < plLog[j].seq
    \/ plLog[i].time = plLog[j].time /\ plLog[i].seq = plLog[j].seq
       /\ plLog[i].quote.strategy <= plLog[j].quote.strategy
\* _dedupe_market_level: the earliest snapshot of every exposure
DedupeMarketLevel(ids) ==
    {i \in ids : \A j \in ids : Exposure(plLog[j]) = Exposure(plLog[i]) => Earlier(i, j)}

\* Groups of one quote with more than one snapshot: _snapshot_summary
ChangedSnapshots(ids) ==
    Cardinality(ids) - Cardinality({plLog[i].quote : i \in ids})

HeartbeatStatus(valid, settled, reasons) ==
    CASE valid > 0 -> "material_change"
      [] settled > 0 -> "settlement_only_change"
      [] "unchanged_repeat_snapshot" \in reasons -> "no_material_change"
      [] reasons # {} -> "blocked_by_source"
      [] OTHER -> "no_material_change"

Enough(n) == n >= MinSettled

\* The same exposure logged more than once: what the report warns of
DuplicateExposures(ids) ==
    {e \in Exposures(ids) : Cardinality({i \in ids : Exposure(plLog[i]) = e}) > 1}

WinLossIds(ids) == {i \in ids : plLog[i].state \in {"win", "loss"}}
PlIds(ids) == {i \in SettledIds(ids) : plLog[i].profit # NoProfit}
SumOver(ids, f(_)) == FoldSet(LAMBDA i, sum : sum + f(i), 0, ids)

\* _performance_summary: rates only from samples that are large enough
PerformanceSummary(ids, gate) ==
    LET won == {i \in WinLossIds(ids) : plLog[i].state = "win"}
    IN  [wins |-> Cardinality(won), losses |-> Cardinality(WinLossIds(ids) \ won),
         risked |-> SumOver(PlIds(ids), LAMBDA i : plLog[i].price),
         profit |-> SumOver(PlIds(ids), LAMBDA i : plLog[i].profit),
         rated |-> Enough(gate)]

StrategyPerformance(ids) ==
    [s \in {plLog[i].quote.strategy : i \in ids} |->
        LET rows == {i \in ids : plLog[i].quote.strategy = s}
        IN  PerformanceSummary(rows, Cardinality(WinLossIds(rows)))]

\* The share of the profit and loss that the largest rows make up
AbsoluteProfit(i) == IF plLog[i].profit < 0 THEN -plLog[i].profit ELSE plLog[i].profit
ConcentrationSummary(ids) ==
    LET total == SumOver(PlIds(ids), AbsoluteProfit)
        top == CHOOSE T \in UNION {kSubset(n, PlIds(ids)) : n \in 0..5} :
                  /\ Cardinality(T) = Min({5, Cardinality(PlIds(ids))})
                  /\ \A i \in T, j \in PlIds(ids) \ T :
                        AbsoluteProfit(i) >= AbsoluteProfit(j)
    IN  [top |-> SumOver(top, AbsoluteProfit), total |-> total]

\* The gate of the daily report counts the exposures among the settled rows, the gate of
\* the audit the settled rows among the first of every exposure.
DailyGate(ids) ==
    /\ Enough(Cardinality(SettledIds(ids)))
    /\ Enough(Cardinality(Exposures(SettledIds(ids))))
AuditGate(ids) ==
    /\ Enough(Cardinality(SettledIds(ids)))
    /\ Enough(Cardinality(SettledIds(DedupeMarketLevel(ids))))

build_daily_report ==
    /\ plReport.pc = "idle"
    /\ plRun # 0   \* an unknown run raises
    /\ LET settled == SettledIds(plIds)
           winLoss == WinLossIds(plIds)
       IN  plReport' =
            [pc |-> "daily", new |-> Cardinality(plIds),
             settled |-> Cardinality(settled),
             unresolved |-> Cardinality(plIds \ settled),
             exposures |-> Cardinality(Exposures(settled)),
             changed |-> ChangedSnapshots(plIds),
             duplicates |-> DuplicateExposures(plIds),
             rated |-> Enough(Cardinality(winLoss)),
             heartbeat |-> HeartbeatStatus(Cardinality(plIds), Cardinality(settled),
                                         plRejected),
             ready |-> DailyGate(plIds)]
    /\ UNCHANGED <<plClock, plRun, plLog, plRejected, plAudit, plLogger, plImporter,
                   plImports, plOverlap>>

build_stage3b_audit_report ==
    /\ plReport.pc = "daily"
    /\ LET settled == SettledIds(plIds)
           deduped == SettledIds(DedupeMarketLevel(plIds))
       IN  plReport' = Over(
            [pc |-> "audit", audited |-> Cardinality(settled), deduped |-> Cardinality(deduped),
             raw |-> PerformanceSummary(settled, Cardinality(WinLossIds(settled))),
             market |-> PerformanceSummary(deduped, Cardinality(deduped)),
             strategies |-> StrategyPerformance(settled),
             concentration |-> ConcentrationSummary(deduped),
             auditReady |-> AuditGate(plIds)],
            plReport)
    /\ UNCHANGED <<plClock, plRun, plLog, plRejected, plAudit, plLogger, plImporter,
                   plImports, plOverlap>>

ReportDone ==
    /\ plReport.pc # "idle"
    /\ plReport' = NoReport
    /\ UNCHANGED <<plClock, plRun, plLog, plRejected, plAudit, plLogger, plImporter,
                   plImports, plOverlap>>

LoggerStep(l) ==
    \/ BeginLog(l) \/ MarkUnchanged(l) \/ AssignSequences(l)
    \/ InsertRows(l) \/ InsertRejections(l) \/ LoggerDies(l)
ImporterStep(i) ==
    \/ FetchOfficial(i) \/ ReadSettlementFile(i)
    \/ LockRows(i) \/ Import(i) \/ ImportFails(i)
ReporterStep ==
    \/ \E c \in Configs : StartRun(c)
    \/ build_daily_report \/ build_stage3b_audit_report \/ ReportDone

plNext ==
    \/ PaperTick
    \/ \E l \in PaperLoggers : LoggerStep(l)
    \/ \E i \in PaperImporters : ImporterStep(i)
    \/ ReporterStep
plSpec == plInit /\ [][plNext]_plVars

(***************************************************************************)
(* Properties.                                                             *)
(***************************************************************************)

\* The log and the audit are well formed, and a row is locked by one importer.
plTypeOK ==
    /\ plClock \in 1..MaxPaperClock /\ plRun \in Configs \cup {0}
    /\ \A i \in plIds : plLog[i].quote \in Quotes /\ plLog[i].seq \in 1..MaxPaperRows
    /\ \A a \in plAudit : a.id \in plIds /\ a.source \in {"file", "official"}
    /\ \A i, k \in PaperImporters :
          i # k => plImporter[i].held \cap plImporter[k].held = {}

\* While loggers do not overlap, the snapshots of a quote are numbered without a gap in
\* the order of their times, and no fetch is logged twice: what the four transactions of
\* log_forward_predictions do together.
SnapshotsAreOrdered ==
    ~plOverlap =>
        \A i, j \in plIds : plLog[i].quote = plLog[j].quote =>
            /\ plLog[i].seq <= Cardinality({k \in plIds : plLog[k].quote = plLog[i].quote})
            /\ i < j => /\ plLog[i].seq < plLog[j].seq
                       /\ plLog[i].time < plLog[j].time
                       /\ plLog[i].fetched # plLog[j].fetched

\* Whatever a row says of its outcome, an audit row says the same of it: however often
\* imports, official or from a file, settle it, take it back or settle it again, and
\* although the audit drops a row that it holds already.
AuditExplains ==
    \A i \in plIds : <<plLog[i].state, plLog[i].issue>> # <<"unresolved", "">> =>
        \E a \in plAudit : /\ a.id = i /\ a.new = plLog[i].state
                          /\ a.profit = plLog[i].profit /\ a.issue = plLog[i].issue

\* The daily report never holds the audit back when the audit would pass, whatever was
\* logged and settled: the two count exposures differently.
GatesAgree == AuditGate(plIds) => DailyGate(plIds)
=============================================================================
