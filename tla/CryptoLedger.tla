------------------------------ MODULE CryptoLedger ------------------------------
(***************************************************************************)
(* The crypto research of crypto_research.py: cycles fetch one-minute      *)
(* candles, log a prediction per horizon from the last closed candle, and  *)
(* settle the predictions whose time has come with the candles of the same *)
(* payload; reports read the log.  One exchange and symbol; a candle lasts *)
(* CandleLength ticks and is named by the tick it closes at.  Cycles of    *)
(* the worker and of the command line overlap: each reads and commits in   *)
(* transactions of its own.                                                *)
(***************************************************************************)
EXTENDS Integers, Sequences, FiniteSets, SequencesExt

CONSTANTS
    CryptoCycles,    \* processes that run crypto_cycle
    Horizons,        \* CRYPTO_HORIZONS, in ticks
    CryptoPrices,    \* closing prices
    Band,            \* CRYPTO_SETTLEMENT_BAND_BPS
    CandleLength,    \* a minute, in ticks
    CandleWindow,    \* candles in a payload
    AuditMinimum,    \* MIN_SETTLED_DEDUPED_AUDIT
    AuditPreferred,  \* PREFERRED_SETTLED_DEDUPED_AUDIT
    SegmentMinimum,  \* settled exposures before a segment is classified (30)
    SegmentLarge,    \* and before it can be called weak (100)
    MaxCryptoClock,  \* bound: ticks
    MaxCycles        \* bound: cycles

ASSUME CryptoAssumption ==
    /\ IsFiniteSet(Horizons) /\ Horizons \subseteq Nat \ {0} /\ CryptoPrices \subseteq Nat \ {0}
    /\ Band \in Nat /\ CandleLength \in Nat \ {0} /\ CandleWindow \in Nat \ {0}
    /\ {AuditMinimum, AuditPreferred, SegmentMinimum, SegmentLarge} \subseteq Nat \ {0}
    /\ AuditMinimum <= AuditPreferred /\ SegmentMinimum <= SegmentLarge
    /\ MaxCryptoClock \in Nat /\ MaxCycles \in Nat

VARIABLES
    clClock,
    clPrices,      \* what each candle closed at
    clLog,         \* app.crypto_prediction_logs, in the order of the ids
    clRejections,  \* app.crypto_prediction_rejections, by reason
    clCycle,       \* where each cycle is, its payload and what it has read
    clCycles,      \* cycles begun
    clReport       \* the answers to the statements of a report so far
clVars == <<clClock, clPrices, clLog, clRejections, clCycle, clCycles, clReport>>

CryptoRejections == {"exact_duplicate", "unchanged_repeat_snapshot"}
NoCycle == [at |-> "none", time |-> 0, candles |-> {}, rows |-> << >>, held |-> {}]

clInit ==
    /\ clClock = 0
    /\ clPrices = << >>
    /\ clLog = << >>
    /\ clRejections = [r \in CryptoRejections |-> 0]
    /\ clCycle = [c \in CryptoCycles |-> NoCycle]
    /\ clCycles = 0
    /\ clReport = << >>

\* The price is that of the candle which closes at the tick, if one does.
CryptoTick(price) ==
    /\ clClock < MaxCryptoClock
    /\ clClock' = clClock + 1
    /\ clPrices' = IF clClock' % CandleLength = 0 THEN Append(clPrices, price) ELSE clPrices
    /\ UNCHANGED <<clLog, clRejections, clCycle, clCycles, clReport>>

----------------------------------------------------------------------------
(* collect_crypto_payload: the last candles, the one still open among them with
   the price of the moment; nothing when the exchange does not answer. *)

normalize_coinbase_candles(partial) ==
    LET last == Len(clPrices) + 1
    IN  {[close |-> i * CandleLength, price |-> IF i < last THEN clPrices[i] ELSE partial,
          open |-> IF i > 1 THEN clPrices[i - 1] ELSE partial] :
             i \in {k \in 1..last : k > last - CandleWindow}}

collect_crypto_payload(c, candles) ==
    /\ clCycle[c].at = "none" /\ clCycles < MaxCycles
    /\ clCycles' = clCycles + 1
    /\ clCycle' = [clCycle EXCEPT ![c] =
           [NoCycle EXCEPT !.at = "collected", !.time = clClock, !.candles = candles]]
    /\ UNCHANGED <<clClock, clPrices, clLog, clRejections, clReport>>

----------------------------------------------------------------------------
(* log_crypto_predictions *)

Closed(cycle) == {k \in cycle.candles : k.close <= cycle.time}

_latest_closed_records(cycle) ==
    {k \in Closed(cycle) : \A other \in Closed(cycle) : other.close <= k.close}

_build_crypto_candidate(cycle, candle, horizon) ==
    [at |-> cycle.time, horizon |-> horizon, settles |-> cycle.time + horizon,
     side |-> IF candle.price >= candle.open THEN "UP" ELSE "DOWN",
     candle |-> candle, entry |-> candle.price, sequence |-> 1,
     state |-> "unresolved", outcome |-> "", price |-> 0, from |-> 0]

build_crypto_prediction_candidates(cycle) ==
    {_build_crypto_candidate(cycle, candle, h) :
        candle \in _latest_closed_records(cycle), h \in Horizons}

validate_crypto_prediction(candidate) ==
    candidate.at < candidate.settles /\ candidate.candle.close <= candidate.at

SameKey(row, candidate) == row.horizon = candidate.horizon /\ row.side = candidate.side

\* The position of the latest valid row of the key, 0 without one.
LatestOf(rows, candidate) ==
    LET of == {i \in DOMAIN rows : SameKey(rows[i], candidate)}
        newest == {i \in of : \A j \in of : rows[j].at <= rows[i].at}
    IN  IF of = {} THEN 0 ELSE Max(newest)

ExactDuplicate(rows, candidate) ==
    \E i \in DOMAIN rows : SameKey(rows[i], candidate) /\ rows[i].at = candidate.at

\* Why the rows that were read exclude the candidate; "" if they do not.
CryptoRejection(rows, candidate) ==
    LET latest == LatestOf(rows, candidate)
    IN  IF ExactDuplicate(rows, candidate) THEN "exact_duplicate"
        ELSE IF latest # 0 /\ rows[latest].candle = candidate.candle
        THEN "unchanged_repeat_snapshot" ELSE ""

Numbered(rows, candidate) ==
    LET latest == LatestOf(rows, candidate)
    IN  IF latest = 0 THEN candidate
        ELSE [candidate EXCEPT !.sequence = rows[latest].sequence + 1]

\* The candidates are built, and inserted, by horizon.
InHorizonOrder(rows) ==
    CHOOSE s \in [1..Cardinality(rows) -> rows] :
        \A i, j \in DOMAIN s : i < j => s[i].horizon < s[j].horizon

\* One transaction reads the log ...
ReadCryptoLog(c) ==
    /\ clCycle[c].at = "collected"
    /\ clCycle' = [clCycle EXCEPT ![c].at = "logging", ![c].rows = clLog]
    /\ UNCHANGED <<clClock, clPrices, clLog, clRejections, clCycles, clReport>>

\* ... and inserts, ON CONFLICT DO NOTHING, what another has not inserted since.
log_crypto_predictions(c) ==
    LET cycle == clCycle[c]
        valid == {k \in build_crypto_prediction_candidates(cycle) : validate_crypto_prediction(k)}
        reason(k) == IF CryptoRejection(cycle.rows, k) # "" THEN CryptoRejection(cycle.rows, k)
                     ELSE IF ExactDuplicate(clLog, k) THEN "exact_duplicate" ELSE ""
        new == {Numbered(cycle.rows, k) : k \in {k \in valid : reason(k) = ""}}
    IN  /\ cycle.at = "logging"
        /\ clLog' = clLog \o InHorizonOrder(new)
        /\ clRejections' = [r \in CryptoRejections |->
               clRejections[r] + Cardinality({k \in valid : reason(k) = r})]
        /\ clCycle' = [clCycle EXCEPT ![c].at = "logged", ![c].rows = << >>]
        /\ UNCHANGED <<clClock, clPrices, clCycles, clReport>>

----------------------------------------------------------------------------
(* settle_crypto_predictions *)

\* The clock of a settlement: the payload's, or the close of a candle in it.
SettlementNow(cycle) == Max({cycle.time} \cup {k.close : k \in cycle.candles})

Held == UNION {clCycle[c].held : c \in CryptoCycles}

\* SELECT ... FOR UPDATE SKIP LOCKED
LockUnresolved(c) ==
    /\ clCycle[c].at = "logged"
    /\ clCycle' = [clCycle EXCEPT ![c].at = "settling",
           ![c].held = {i \in DOMAIN clLog : clLog[i].state = "unresolved"} \ Held]
    /\ UNCHANGED <<clClock, clPrices, clLog, clRejections, clCycles, clReport>>

\* Mutant of SettlementCandles: the last candle before the time is taken.
CandlesBefore(cycle, row) == {k \in cycle.candles : k.close < row.settles}

\* _settlement_price_for takes the first of them.
SettlementCandles(cycle, row) == {k \in cycle.candles : k.close >= row.settles}
_settlement_price_for(cycle, row) ==
    CHOOSE k \in SettlementCandles(cycle, row) :
        \A other \in SettlementCandles(cycle, row) : k.close <= other.close

ReturnBps(entry, price) == ((price - entry) * 10000) \div entry

OutcomeOf(row, price) ==
    LET bps == ReturnBps(row.entry, price)
    IN  IF -Band < bps /\ bps < Band THEN "no_edge"
        ELSE IF (row.side = "UP") = (bps >= Band) THEN "win" ELSE "loss"

Settled(cycle, row) ==
    IF row.settles > SettlementNow(cycle) \/ SettlementCandles(cycle, row) = {} THEN row
    ELSE LET k == _settlement_price_for(cycle, row)
             outcome == OutcomeOf(row, k.price)
         IN  [row EXCEPT !.state = IF outcome = "no_edge" THEN "push" ELSE "settled",
                         !.outcome = outcome, !.price = k.price, !.from = k.close]

settle_crypto_predictions(c) ==
    /\ clCycle[c].at = "settling"
    /\ clLog' = [i \in DOMAIN clLog |->
           IF i \in clCycle[c].held /\ clLog[i].state = "unresolved"
           THEN Settled(clCycle[c], clLog[i]) ELSE clLog[i]]
    /\ clCycle' = [clCycle EXCEPT ![c] = NoCycle]
    /\ UNCHANGED <<clClock, clPrices, clRejections, clCycles, clReport>>

\* A process dies, or a transaction of it is rolled back.
CryptoCycleDies(c) ==
    /\ clCycle[c].at # "none"
    /\ clCycle' = [clCycle EXCEPT ![c] = NoCycle]
    /\ UNCHANGED <<clClock, clPrices, clLog, clRejections, clCycles, clReport>>

----------------------------------------------------------------------------
(* The reports: the daily one, the audit, which begins with the daily one, and the
   diagnosis, which begins with the audit.  Each statement sees what is committed
   by then.  An answer is the rows it counts or returns, by position; of the
   rejections, their number by reason.  The statements for the repeated snapshots,
   the average return and the rows by exchange are left out. *)

SettledCryptoRows == {i \in DOMAIN clLog : clLog[i].state # "unresolved"}
OutcomeRows(outcome) == {i \in DOMAIN clLog : clLog[i].outcome = outcome}
SameCryptoExposure(i, j) ==
    SameKey(clLog[i], clLog[j]) /\ clLog[i].settles = clLog[j].settles

\* An exposure counts by its first row, if the report asks for that row's state.
_deduped_crypto_rows(rows) ==
    {i \in rows : \A j \in DOMAIN clLog :
        SameCryptoExposure(i, j) => clLog[i].at < clLog[j].at
                                    \/ (clLog[i].at = clLog[j].at /\ i <= j)}
DuplicatesIn(rows) == {i \in rows : \E j \in rows : i # j /\ SameCryptoExposure(i, j)}

ReportStatement(statement, last, answer) ==
    /\ statement \notin DOMAIN clReport /\ last \subseteq DOMAIN clReport
    /\ clReport' = [s \in DOMAIN clReport \cup {statement} |->
           IF s = statement THEN answer ELSE clReport[s]]
    /\ UNCHANGED <<clClock, clPrices, clLog, clRejections, clCycle, clCycles>>

build_crypto_report ==
    \/ ReportStatement("raw", {}, DOMAIN clLog)
    \/ ReportStatement("rejected", {"raw"}, clRejections)
    \/ ReportStatement("reasons", {"rejected"}, clRejections)
    \/ ReportStatement("settled", {"reasons"}, SettledCryptoRows)
    \/ ReportStatement("unresolved", {"settled"}, DOMAIN clLog \ SettledCryptoRows)
    \/ ReportStatement("pushes", {"unresolved"}, OutcomeRows("no_edge"))
    \/ ReportStatement("wins", {"pushes"}, OutcomeRows("win"))
    \/ ReportStatement("losses", {"wins"}, OutcomeRows("loss"))
    \/ ReportStatement("exposures", {"losses"}, _deduped_crypto_rows(DOMAIN clLog))
    \/ ReportStatement("deduped", {"exposures"}, _deduped_crypto_rows(SettledCryptoRows))
    \/ ReportStatement("duplicates", {"deduped"}, DuplicatesIn(DOMAIN clLog))

build_crypto_stage3b_audit_report ==
    \/ ReportStatement("audited", {"duplicates"}, _deduped_crypto_rows(SettledCryptoRows))
    \/ ReportStatement("valid", {"audited"}, DOMAIN clLog)

build_crypto_stage4_diagnostic_report ==
    \/ ReportStatement("rows", {"valid"}, DOMAIN clLog)
    \/ ReportStatement("settled rows", {"rows"}, SettledCryptoRows)
    \/ ReportStatement("deduped rows", {"settled rows"}, _deduped_crypto_rows(SettledCryptoRows))

\* The daily report, the audit or the diagnosis was asked for and is complete.
CryptoReportDone ==
    /\ DOMAIN clReport \cap {"duplicates", "valid", "deduped rows"} # {}
    /\ clReport' = << >>
    /\ UNCHANGED <<clClock, clPrices, clLog, clRejections, clCycle, clCycles>>

(* What the reports make of the answers. *)

Counted(statement) == Cardinality(clReport[statement])
CountOf(rows, outcome) == Cardinality({i \in rows : clLog[i].outcome = outcome})
TotalRejected(reasons) == reasons["exact_duplicate"] + reasons["unchanged_repeat_snapshot"]

\* The gate of the daily report, and the status of the audit.
gate_result(n) ==
    IF n < AuditMinimum THEN "blocked" ELSE IF n < AuditPreferred THEN "basic" ELSE "preferred"

_crypto_leakage_checks ==
    [excluded |-> Counted("audited") = Counted("deduped"),
     rejected |-> TotalRejected(clReport["rejected"]) = TotalRejected(clReport["reasons"]),
     uninflated |-> Counted("deduped") <= Counted("settled"),
     future |-> \E i \in clReport["valid"] : clLog[i].candle.close > clLog[i].at]

TotalReturn(rows) ==
    FoldSet(LAMBDA i, sum : sum + ReturnBps(clLog[i].entry, clLog[i].price), 0, rows)

\* The sums stand for the averages and the medians.
_crypto_segment_classification(rows, duplicates) ==
    LET n == Cardinality(rows)
        pushes == CountOf(rows, "no_edge")
        wins == CountOf(rows, "win")
    IN  IF n < SegmentMinimum THEN "too_small_to_judge"
        ELSE IF duplicates # {} THEN "contaminated_by_duplicate_exposures"
        ELSE IF 100 * pushes >= 35 * n THEN "push_no_edge_imbalance"
        ELSE IF n >= SegmentLarge /\ TotalReturn(rows) < 0 THEN "clearly_weak"
        ELSE IF TotalReturn(rows) > 0 /\ 100 * wins >= 52 * (n - pushes)
        THEN "possibly_useful_future_challenger_candidate"
        ELSE IF TotalReturn(rows) > 0 \/ 100 * wins > 56 * (n - pushes)
        THEN "diagnostic_interest_not_actionable"
        ELSE "mixed_inconclusive"

\* One table per horizon and side; a key without settled rows has a bucket too.
_crypto_segment_table ==
    [key \in Horizons \X {"UP", "DOWN"} |->
        LET of(rows) == {i \in rows : clLog[i].horizon = key[1] /\ clLog[i].side = key[2]}
            deduped == of(clReport["deduped rows"])
        IN  [raw |-> Cardinality(of(clReport["rows"])),
             settled |-> Cardinality(of(clReport["settled rows"])),
             deduped |-> Cardinality(deduped),
             classification |-> _crypto_segment_classification(
                 deduped, DuplicatesIn(of(clReport["rows"])))]]

crypto_cycle(c) ==
    \/ \E partial \in CryptoPrices :
          collect_crypto_payload(c, normalize_coinbase_candles(partial))
    \/ collect_crypto_payload(c, {})
    \/ ReadCryptoLog(c) \/ log_crypto_predictions(c) \/ LockUnresolved(c)
    \/ settle_crypto_predictions(c) \/ CryptoCycleDies(c)

CryptoReporter ==
    \/ build_crypto_report \/ build_crypto_stage3b_audit_report
    \/ build_crypto_stage4_diagnostic_report \/ CryptoReportDone

clNext ==
    \/ \E price \in CryptoPrices : CryptoTick(price)
    \/ \E c \in CryptoCycles : crypto_cycle(c)
    \/ CryptoReporter

----------------------------------------------------------------------------
(* Properties *)

clTypeOK ==
    /\ clPrices \in Seq(CryptoPrices) /\ Len(clPrices) = clClock \div CandleLength
    /\ \A i \in DOMAIN clLog :
          /\ clLog[i].at \in 0..clClock /\ clLog[i].side \in {"UP", "DOWN"}
          /\ clLog[i].state \in {"unresolved", "settled", "push"}
    /\ \A c \in CryptoCycles : clCycle[c].held \subseteq DOMAIN clLog
    /\ clCycles \in 0..MaxCycles

\* _latest_closed_records and _settlement_price_for: a prediction is made from a
\* candle that had closed, and settled by one that closes at or after its
\* settlement time; its outcome follows from its side and the two prices.
PredictionsAreHonest ==
    \A i \in DOMAIN clLog :
        /\ clLog[i].entry = clPrices[clLog[i].candle.close \div CandleLength] /\ clLog[i].candle.close <= clLog[i].at
        /\ clLog[i].state # "unresolved" =>
              /\ clLog[i].from >= clLog[i].settles
              /\ clLog[i].outcome = OutcomeOf(clLog[i], clLog[i].price)

\* log_crypto_predictions and settle_crypto_predictions: cycles that overlap log an
\* exposure once, settle it once, and leave every logged row as it was made.
CryptoRowsAreFinal ==
    /\ \A i, j \in DOMAIN clLog : SameCryptoExposure(i, j) => i = j
    /\ \A c, d \in CryptoCycles : c # d => clCycle[c].held \cap clCycle[d].held = {}

\* build_crypto_report, the audit and the diagnosis: their statements see the log at
\* different moments, while cycles log and settle.  A later count is never behind an
\* earlier one: what was counted as settled is a win, a loss or a push, and in the
\* settled exposures, which are wins, losses and pushes without remainder; what was
\* counted is settled, unresolved or both in turn.  So a report whose first and last
\* counts agree adds up in between.  No exposure is counted twice, a check of the
\* audit fails only by what was committed between its two statements, the audit is
\* not behind the gate of the report it carries, and the segments hold every settled
\* exposure once.
CryptoReportsAddUp ==
    LET resolved == Counted("wins") + Counted("losses") + Counted("pushes")
        checks == _crypto_leakage_checks
        segments == _crypto_segment_table
    IN  /\ "duplicates" \in DOMAIN clReport =>
              /\ Counted("settled") <= resolved /\ resolved <= Counted("deduped")
              /\ CountOf(clReport["deduped"], "win") + CountOf(clReport["deduped"], "loss")
                     + CountOf(clReport["deduped"], "no_edge") = Counted("deduped")
              /\ Counted("raw") <= Counted("unresolved") + resolved
              /\ Counted("settled") + Counted("unresolved") <= Counted("exposures")
              /\ Counted("raw") <= Counted("exposures") /\ Counted("duplicates") = 0
        /\ "valid" \in DOMAIN clReport =>
              /\ ~checks.future
              /\ ~checks.excluded => Counted("audited") > Counted("deduped")
              /\ ~checks.rejected => TotalRejected(clReport["reasons"])
                                         > TotalRejected(clReport["rejected"])
              /\ gate_result(Counted("audited")) = "blocked"
                     => gate_result(Counted("deduped")) = "blocked"
        /\ "deduped rows" \in DOMAIN clReport =>
              /\ SumFunction([key \in DOMAIN segments |-> segments[key].deduped])
                     = Counted("deduped rows")
              /\ Counted("audited") <= Counted("deduped rows")
              /\ \A key \in DOMAIN segments :
                    /\ segments[key].settled <= segments[key].deduped
                    /\ segments[key].classification # "contaminated_by_duplicate_exposures"

=============================================================================
