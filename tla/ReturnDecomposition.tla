------------------------- MODULE ReturnDecomposition -------------------------
(***************************************************************************)
(* evaluation/kalshi_decomposition.py on evaluation/exposure.py: the       *)
(* settled predictions of a run are reduced to one exposure per market,    *)
(* each is bought on paper for its entry price, and two passes of the      *)
(* exposure limits select a portfolio: one market per event first, then    *)
(* the configured limits.  One action of this machine is one iteration of  *)
(* the loop of apply_exposure_limits.                                      *)
(***************************************************************************)
EXTENDS OrderSimulation

CONSTANTS
    PredictionRows,  \* rows a run's log can hold
    MaxPredictions,  \* bound: rows in one log
    EventLimits,     \* event_only_limits
    CapitalLimits,   \* ExposureLimits()
    Execution        \* ExecutionConfig of the report

\* [id, time, seq, strategy, event, market, side, category, price, close, fetched,
\*  state, valid]: ExposureCandidate.normalized refuses any other side, and
\* ExposureLimits.validate a limit that is not positive.
ASSUME DecompositionAssumption ==
    /\ MaxPredictions \in Nat /\ IsFiniteSet(PredictionRows)
    /\ \A r \in PredictionRows :
        /\ {"id", "time", "event", "market", "side", "category", "price"} \subseteq DOMAIN r
        /\ r.time \in Nat /\ r.seq \in Nat /\ r.id \in Nat
        /\ r.side \in {"yes", "no", "up", "down"} /\ r.price \in 1..99
        /\ \A s \in PredictionRows : s.id = r.id => s = r
    /\ \A limits \in {EventLimits, CapitalLimits} :
        {limits.capital, limits.position, limits.event, limits.category,
         limits.underlying, limits.correlated, limits.marketsPerEvent} \subseteq Nat \ {0}

VARIABLES
    rdStage,     \* "load", "event", "portfolio", "done"
    rdLog,       \* the rows of app.prediction_logs the report read
    rdRows,      \* the annotated exposures
    rdTodo,      \* candidates the pass has not considered
    rdAccepted,  \* positions the pass has accepted
    rdSelected   \* what the event pass accepted
rdVars == <<rdStage, rdLog, rdRows, rdTodo, rdAccepted, rdSelected>>

Total(f(_), S) == FoldSet(LAMBDA x, sum : sum + f(x), 0, S)
Capital(S) == Total(LAMBDA c : c.price, S)

ExposureKey(r) == <<r.event, r.market, r.side>>
Opposite(side) == CASE side = "yes" -> "no" [] side = "no" -> "yes"
                    [] side = "up" -> "down" [] OTHER -> "up"
\* _decisions_for names the event as the only underlying of a candidate.
Underlying(r) == {r.event}
correlation_group_id(r) == <<r.event, r.category, Underlying(r)>>

\* a comes before b: earliest snapshot first, then sequence, then strategy.
Before(a, b) ==
    \/ a.time < b.time
    \/ a.time = b.time /\ a.seq < b.seq
    \/ a.time = b.time /\ a.seq = b.seq /\ a.strategy < b.strategy
    \/ a.time = b.time /\ a.seq = b.seq /\ a.strategy = b.strategy /\ a.id < b.id

\* _market_dedupe: the first row of every exposure
MarketDedupe(rows) ==
    {r \in rows : \A s \in rows : ExposureKey(s) = ExposureKey(r) => s = r \/ Before(r, s)}

SettledPredictions(rows) == {r \in rows : r.valid /\ r.state \in {"win", "loss"}}
WinningSide(r) == IF r.state = "win" THEN r.side
                  ELSE IF r.side = "yes" THEN "no" ELSE "yes"

\* One contract at the posted price, as a market order at the time of the prediction.
PaperBuy(r) ==
    LET ask == [s \in {"yes", "no"} |-> IF s = r.side THEN r.price ELSE NoPrice]
        snapshot == [market |-> r.market, time |-> r.fetched, status |-> "open",
                     close |-> r.close, ask |-> ask,
                     depth |-> [s \in {"yes", "no"} |->
                        IF s = r.side THEN <<[price |-> r.price, quantity |-> 1]>>
                        ELSE <<>>]]
        order == [market |-> r.market, signal |-> r.time, time |-> r.time,
                  side |-> r.side, type |-> "market", quantity |-> 1,
                  intended |-> r.price, limit |-> NoPrice, resting |-> 0]
    IN  settle_execution(simulate_order(order, snapshot, Execution), WinningSide(r))

Annotated(rows) == {Over([execution |-> PaperBuy(r)], r) : r \in rows}

\* The reasons to reject c when S has been accepted.
Reasons(c, S, limits) ==
    LET event == {r \in S : r.event = c.event}
        category == {r \in S : r.category = c.category}
        correlated == {r \in S : correlation_group_id(r) = correlation_group_id(c)}
        underlying == {r \in S : Underlying(r) \cap Underlying(c) # {}}
        over(T, limit) == Capital(T) + c.price > limit
    IN  {reason \in {"duplicate", "position", "markets", "portfolio", "event",
                     "category", "underlying", "correlated", "opposing"} :
            CASE reason = "duplicate" ->
                    ExposureKey(c) \in {ExposureKey(r) : r \in S}
              [] reason = "position" -> c.price > limits.position
              [] reason = "markets" ->
                    Cardinality({r.market : r \in event} \cup {c.market})
                        > limits.marketsPerEvent
              [] reason = "portfolio" -> over(S, limits.capital)
              [] reason = "event" -> over(event, limits.event)
              [] reason = "category" -> over(category, limits.category)
              [] reason = "underlying" ->
                    Underlying(c) # {} /\ over(underlying, limits.underlying)
              [] reason = "correlated" -> over(correlated, limits.correlated)
              [] OTHER -> \E r \in event :
                    r.market = c.market /\ r.side = Opposite(c.side)}

Accepts(c, S, limits) == Reasons(c, S, limits) = {}
LimitsOf(stage) == IF stage = "event" THEN EventLimits ELSE CapitalLimits

\* The candidates are considered in the order of their time and id.
Earliest(S) == CHOOSE c \in S : \A d \in S \ {c} :
                  c.time < d.time \/ (c.time = d.time /\ c.id < d.id)

rdInit ==
    /\ rdStage = "load"
    /\ rdLog = {} /\ rdRows = {} /\ rdTodo = {} /\ rdAccepted = {} /\ rdSelected = {}

Load(log) ==
    /\ rdStage = "load"
    /\ rdStage' = "event"
    /\ rdLog' = log
    /\ rdRows' = Annotated(MarketDedupe(SettledPredictions(log)))
    /\ rdTodo' = rdRows'
    /\ UNCHANGED <<rdAccepted, rdSelected>>

Consider ==
    /\ rdStage \in {"event", "portfolio"}
    /\ rdTodo # {}
    /\ LET c == Earliest(rdTodo)
       IN  /\ rdTodo' = rdTodo \ {c}
           /\ rdAccepted' = IF Accepts(c, rdAccepted, LimitsOf(rdStage))
                            THEN rdAccepted \cup {c} ELSE rdAccepted
    /\ UNCHANGED <<rdStage, rdLog, rdRows, rdSelected>>

\* The event pass keeps its selection; the portfolio pass starts again from all rows.
NextPass ==
    /\ rdStage = "event" /\ rdTodo = {}
    /\ rdStage' = "portfolio"
    /\ rdSelected' = rdAccepted
    /\ rdAccepted' = {}
    /\ rdTodo' = rdRows
    /\ UNCHANGED <<rdLog, rdRows>>

Report ==
    /\ rdStage = "portfolio" /\ rdTodo = {}
    /\ rdStage' = "done"
    /\ UNCHANGED <<rdLog, rdRows, rdTodo, rdAccepted, rdSelected>>

rdNext ==
    \/ \E n \in 0..MaxPredictions : \E log \in kSubset(n, PredictionRows) : Load(log)
    \/ Consider \/ NextPass \/ Report

\* _summary of a set of exposures
Summary(rows) ==
    LET filled == {r \in rows : r.execution.state \in {"filled", "partial_fill"}}
    IN  [settled |-> Cardinality(rows), filled |-> Cardinality(filled),
         winners |-> Cardinality({r \in filled : r.state = "win"}),
         losers |-> Cardinality({r \in filled : r.state = "loss"}),
         gross |-> Total(LAMBDA r : r.execution.gross, filled),
         fees |-> Total(LAMBDA r : r.execution.fee, filled),
         net |-> Total(LAMBDA r : r.execution.net, filled),
         risked |-> Total(LAMBDA r : r.execution.cost, filled)]

\* The bounds below which a price falls into the first, second ... bucket
PriceBuckets == <<50, 70, 80, 90>>
Bucket(x, bounds) == Cardinality({i \in DOMAIN bounds : x >= bounds[i]})
Grouped(rows, key(_)) ==
    [name \in {key(r) : r \in rows} |-> Summary({r \in rows : key(r) = name})]

\* counts and performance of the report
build_kalshi_return_decomposition ==
    [raw |-> Cardinality(SettledPredictions(rdLog)), deduped |-> Cardinality(rdRows),
     event |-> Cardinality(rdSelected), portfolio |-> Cardinality(rdAccepted),
     crowded |-> Cardinality({r.event : r \in {q \in rdRows :
                     \E p \in rdRows : p # q /\ p.event = q.event}}),
     rows |-> Summary(Annotated(SettledPredictions(rdLog))),
     all |-> Summary(rdRows), selected |-> Summary(rdSelected),
     limited |-> Summary(rdAccepted),
     prices |-> Grouped(rdRows, LAMBDA r : Bucket(r.price, PriceBuckets)),
     categories |-> Grouped(rdRows, LAMBDA r : r.category)]

----------------------------------------------------------------------------
(* Properties *)

rdTypeOK ==
    /\ rdStage \in {"load", "event", "portfolio", "done"}
    /\ rdLog \subseteq PredictionRows
    /\ rdTodo \subseteq rdRows /\ rdAccepted \subseteq rdRows /\ rdSelected \subseteq rdRows

\* apply_exposure_limits: what a pass has accepted respects every limit as a whole, at
\* every step, and each candidate it left out would break one with what is accepted.
Respects(S, limits) ==
    /\ Capital(S) <= limits.capital
    /\ \A r \in S :
        /\ r.price <= limits.position
        /\ Capital({q \in S : q.event = r.event}) <= limits.event
        /\ Capital({q \in S : q.category = r.category}) <= limits.category
        /\ Capital({q \in S : Underlying(q) \cap Underlying(r) # {}}) <= limits.underlying
        /\ Capital({q \in S : correlation_group_id(q) = correlation_group_id(r)})
              <= limits.correlated
        /\ Cardinality({q.market : q \in {p \in S : p.event = r.event}})
              <= limits.marketsPerEvent
        /\ \A q \in S : ExposureKey(q) = ExposureKey(r) => q = r
        /\ ~ \E q \in S : q.event = r.event /\ q.market = r.market /\ q.side = Opposite(r.side)
LimitsHold ==
    /\ rdStage \in {"event", "portfolio"} =>
          /\ Respects(rdAccepted, LimitsOf(rdStage))
          /\ \A c \in rdRows \ (rdTodo \cup rdAccepted) :
                ~Respects(rdAccepted \cup {c}, LimitsOf(rdStage))
    /\ rdStage \in {"portfolio", "done"} => Respects(rdSelected, EventLimits)

\* build_kalshi_return_decomposition: its counts and sums account for every row once.
AddsUp(report) ==
    /\ report.raw >= report.deduped /\ report.deduped >= report.event
    /\ report.all.winners + report.all.losers = report.all.filled
    /\ report.all.net = report.all.gross - report.all.fees
    /\ SumFunction([b \in DOMAIN report.prices |-> report.prices[b].settled]) = report.deduped
    /\ (report.event < report.deduped) = (report.crowded > 0)
    /\ report.all.gross + report.all.risked = 100 * report.all.winners
DecompositionAddsUp == rdStage = "done" => AddsUp(build_kalshi_return_decomposition)
=============================================================================
