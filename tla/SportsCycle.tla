----------------------------- MODULE SportsCycle -----------------------------
(***************************************************************************)
(* sports_cycle: one pass of the sports collector.  It asks the official   *)
(* odds source, or the public scoreboard with the finals of the last days  *)
(* and the summaries of single games, opens a batch for what it got, logs  *)
(* the prices posted before the games as predictions, settles those whose  *)
(* game has ended, records closing lines and reports.  The games are       *)
(* played meanwhile.  Every call of the database is one transaction; the   *)
(* process may die between two of them, and the worker then repeats the    *)
(* cycle under the same key.  SportsQuotes has the transactions in detail. *)
(***************************************************************************)
EXTENDS Integers, Sequences, SequencesExt, FiniteSetsExt, Overlay

CONSTANTS
    Games,          \* the event ids
    GameFacts,      \* per game: [home, away, league, start]
    Endings,        \* what a scoreboard may say of a game that is over
    Postings,       \* sequences of odds entries a page may carry for a game
    OfficialPages,  \* sequences of outcomes the official source may return
    FixtureRows,    \* posted odds that name teams instead of an event
    CycleSettings,  \* [official, scraper, plan, lookback, summaries]
    DayLength,      \* ticks in a day
    StaleTicks,     \* SPORTS_STALE_SECONDS
    MaxScClock, MaxScCycles, MaxScRows, MaxAttempts  \* bounds

NoOdds == 0         \* a price that is missing; no American price is zero
NoLine == -1000     \* a line that is missing
NoScore == -1
NoEnding == [status |-> "scheduled", completed |-> FALSE, home |-> NoScore, away |-> NoScore,
             since |-> 0]

\* The sides a normaliser names, two of each market
MarketSides == {"moneyline", "spread"} \X {"home", "away"} \cup {"total"} \X {"over", "under"}

\* What the normalisers have parsed: an entry has every field, prices, lines and scores
\* are numbers, and posted odds that name teams are of no event.
ASSUME SportsCycleAssumption ==
    /\ DayLength \in Nat \ {0} /\ StaleTicks \in Nat
    /\ MaxScClock \in Nat /\ MaxScCycles \in Nat /\ MaxScRows \in Nat /\ MaxAttempts \in Nat
    /\ \A s \in CycleSettings : s.plan # <<>> /\ s.lookback \in 0..7 /\ s.summaries \in 0..50
    /\ IsFiniteSet(Games) /\ \A g \in Games : GameFacts[g].start \in Nat
    /\ NoEnding \notin Endings
    /\ \A e \in Endings :
          /\ e = [status |-> e.status, completed |-> e.completed, home |-> e.home,
                  away |-> e.away, since |-> 0]
          /\ e.completed \in BOOLEAN /\ {e.home, e.away} \subseteq Int
    /\ \A p \in Postings :
          /\ p \in Seq({p[i] : i \in DOMAIN p})
          /\ \A i \in DOMAIN p :
                /\ p[i] = [field \in DOMAIN p[i] |-> p[i][field]] /\ "book" \in DOMAIN p[i]
                /\ \A field \in {"at", "homeMoney", "awayMoney", "spread", "homeLine", "homeOdds",
                                 "awayLine", "awayOdds", "total", "overLine", "overOdds",
                                 "underLine", "underOdds"} :
                      field \in DOMAIN p[i] /\ p[i][field] \in Int
    /\ \A page \in OfficialPages :
          /\ page \in Seq({page[i] : i \in DOMAIN page})
          /\ \A i \in DOMAIN page :
                /\ page[i].event \in Games /\ <<page[i].market, page[i].selection>> \in MarketSides
                /\ {page[i].odds, page[i].line, page[i].at} \subseteq Int
    /\ \A row \in FixtureRows : row.event \notin Games

VARIABLES
    scClock,
    scWorld,    \* per game: how it ended, and since when
    scRows,     \* the valid rows of app.sports_prediction_logs, by id
    scRejected, \* rows of app.sports_prediction_rejections
    scBatches,  \* raw.ingestion_batches of the collector, by id
    scCycle,    \* the worker's cycle and the attempts it has had
    scRun,      \* the cycle in progress
    scReport,   \* the report last written
    scMatch     \* the last answer of match_odds_to_schedule
scVars == <<scClock, scWorld, scRows, scRejected, scBatches, scCycle, scRun, scReport, scMatch>>

DayOf(time) == time \div DayLength
GamesOn(day) == {g \in Games : DayOf(GameFacts[g].start) = day}

NoSportsCycle == [pc |-> "idle"]
NoTotals == [total |-> 0, rejected |-> 0, settled |-> 0, unresolved |-> 0, exposures |-> 0,
             deduped |-> 0, wins |-> 0, losses |-> 0, pushes |-> 0, voids |-> 0]

scInit ==
    /\ scClock = 0
    /\ scWorld = [g \in Games |-> NoEnding]
    /\ scRows = <<>>
    /\ scRejected = 0
    /\ scBatches = <<>>
    /\ scCycle = [number |-> 0, attempts |-> 0]
    /\ scRun = NoSportsCycle
    /\ scReport = NoTotals
    /\ scMatch = <<>>

(* The world *)

SportsTick ==
    /\ scClock < MaxScClock
    /\ scClock' = scClock + 1
    /\ UNCHANGED <<scWorld, scRows, scRejected, scBatches, scCycle, scRun, scReport, scMatch>>

GameEnds(g, ending) ==
    /\ scWorld[g] = NoEnding
    /\ ending.status \in {"final", "status_final"} => scClock > GameFacts[g].start
    /\ scWorld' = [scWorld EXCEPT ![g] = [ending EXCEPT !.since = scClock]]
    /\ UNCHANGED <<scClock, scRows, scRejected, scBatches, scCycle, scRun, scReport, scMatch>>

-----------------------------------------------------------------------------
(* Odds *)

\* In thousandths.
american_odds_implied_probability(odds) ==
    IF odds < 0 THEN (-odds * 1000) \div (-odds + 100) ELSE 100000 \div (odds + 100)

Confidence(odds) == Min({690, Max({500, american_odds_implied_probability(odds)})})

\* A selection names a side of the game in place of the team that plays it.
Offer(market, selection, line, odds) ==
    IF odds = NoOdds \/ (market # "moneyline" /\ line = NoLine) THEN <<>>
    ELSE <<[market |-> market, selection |-> selection, odds |-> odds,
            line |-> IF market = "moneyline" THEN NoLine ELSE line]>>

Or(line, other) == IF line \in {NoLine, 0} THEN other ELSE line

EventMarkets(e) ==
    Offer("moneyline", "home", NoLine, e.homeMoney) \o Offer("moneyline", "away", NoLine, e.awayMoney)
    \o Offer("spread", "home", e.homeLine, e.homeOdds) \o Offer("spread", "away", e.awayLine, e.awayOdds)
    \o Offer("total", "over", e.total, e.overOdds) \o Offer("total", "under", e.total, e.underOdds)

\* A summary may leave the line of one side to the entry's own.
SummaryMarkets(e) ==
    EventMarkets([e EXCEPT !.homeLine = IF @ = NoLine THEN e.spread ELSE @, !.overOdds = NoOdds, !.underOdds = NoOdds])
    \o Offer("total", "over", Or(e.overLine, e.total), e.overOdds)
    \o Offer("total", "under", Or(e.underLine, e.total), e.underOdds)

\* An entry that does not say when it was updated was updated when it was read.
RowsOf(markets, entry, g, fetched) ==
    [i \in DOMAIN markets |->
        [event |-> g, market |-> markets[i].market, selection |-> markets[i].selection,
         line |-> markets[i].line, odds |-> markets[i].odds, book |-> entry.book,
         at |-> IF entry.at < 0 THEN fetched ELSE entry.at, fetched |-> fetched,
         start |-> GameFacts[g].start]]

normalize_espn_odds_from_event(posting, g, fetched) ==
    FlattenSeq([i \in DOMAIN posting |-> RowsOf(EventMarkets(posting[i]), posting[i], g, fetched)])

normalize_espn_summary_odds(posting, g, fetched) ==
    FlattenSeq([i \in DOMAIN posting |-> RowsOf(SummaryMarkets(posting[i]), posting[i], g, fetched)])

\* One outcome of one market of one bookmaker; one without a price is no row.
normalize_the_odds_api_payload(page, fetched) ==
    LET priced == At(page, {i \in DOMAIN page : page[i].odds # NoOdds})
    IN  [i \in DOMAIN priced |->
            [event |-> priced[i].event, market |-> priced[i].market,
             selection |-> priced[i].selection, line |-> priced[i].line,
             odds |-> priced[i].odds, book |-> priced[i].book, at |-> priced[i].at,
             fetched |-> fetched, start |-> GameFacts[priced[i].event].start]]

\* A game is final by its flag or by its status, whose name is kept without the flag.
IsFinal(e) == e.completed \/ e.status \in {"final", "status_final", "postponed", "canceled", "cancelled"}
Finals(games) ==
    [g \in {h \in games : IsFinal(scWorld[h])} |->
        [status |-> IF scWorld[g].completed THEN "final" ELSE scWorld[g].status,
         home |-> scWorld[g].home, away |-> scWorld[g].away]]

\* How well a posted row fits a game, in hundredths.
MatchScore(row, g) ==
    LET game == GameFacts[g] IN
    IF row.event = g THEN 100
    ELSE (IF row.home = game.home THEN 35 ELSE 0) + (IF row.away = game.away THEN 35 ELSE 0)
         + (IF row.league = game.league THEN 15 ELSE 0)
         + (IF row.start \in (game.start - 1)..(game.start + 1) THEN 15 ELSE 0)
MinConfidence == 85

\* The first game of the best score takes the row if the score is high enough.
match_odds_to_schedule(row, games) ==
    LET best == {i \in DOMAIN games :
                    /\ MatchScore(row, games[i]) > 0
                    /\ \A j \in DOMAIN games :
                          LET s == MatchScore(row, games[i])
                              t == MatchScore(row, games[j])
                          IN  t < s \/ (t = s /\ i <= j)}
    IN  IF \E i \in best : MatchScore(row, games[i]) >= MinConfidence
        THEN <<games[Min(best)]>> ELSE <<>>

MatchFixture(row) ==
    \E games \in SetToSeqs(Games) :
        /\ scMatch' = <<row, match_odds_to_schedule(row, games)>>
        /\ UNCHANGED <<scClock, scWorld, scRows, scRejected, scBatches, scCycle, scRun, scReport>>

-----------------------------------------------------------------------------
(* Collecting.  A source is asked by each method of the plan in turn until *)
(* an answer is usable; every answer is evidence.                          *)

Payload == [mode |-> "public", records |-> <<>>, finals |-> <<>>, rejects |-> 0, blocker |-> "",
            at |-> 0]

\* A cycle starts anew, or is the retry of one that died.
StartCycle(s, retry) ==
    /\ scRun = NoSportsCycle
    /\ IF retry THEN scCycle.attempts \in 1..(MaxAttempts - 1) ELSE scCycle.number < MaxScCycles
    /\ scCycle' = IF retry THEN [scCycle EXCEPT !.attempts = @ + 1]
                  ELSE [number |-> scCycle.number + 1, attempts |-> 1]
    \* the key of a batch holds the cycle: an older batch is not found again
    /\ scBatches' = IF retry THEN scBatches ELSE [i \in DOMAIN scBatches |-> [scBatches[i] EXCEPT !.evidence = {}]]
    /\ scRun' = [pc |-> IF s.official THEN "official" ELSE IF s.scraper THEN "scoreboard" ELSE "blocked",
                 settings |-> s, evidence |-> {}, records |-> <<>>, finals |-> <<>>,
                 rejects |-> 0, errors |-> {}, asked |-> 0, schedule |-> <<>>,
                 caught |-> TRUE, began |-> scClock, payload |-> Payload, batch |-> 0, logged |-> 0, refused |-> 0]
    /\ UNCHANGED <<scClock, scWorld, scRows, scRejected, scReport, scMatch>>

\* How many methods fail before one answers; all of them may.
Failures(plan) == 0..Len(plan)
Fetched(resource, failures, plan, content) ==
    {<<resource, plan[i], <<>> >> : i \in 1..failures}
    \cup (IF failures < Len(plan) THEN {<<resource, plan[failures + 1], content>>} ELSE {})

\* What the normaliser makes of the answer: rows, an error it is prepared for,
\* or one it is not, which ends the cycle.
Shapes == {"good", "caught", "uncaught"}

Continue(run) ==
    /\ scRun' = run
    /\ UNCHANGED <<scClock, scWorld, scRows, scRejected, scBatches, scCycle, scReport, scMatch>>
Collecting(pc) == scRun.pc = pc

Blocked(run, blocker) ==
    [run EXCEPT !.pc = "collected",
                !.payload = [Payload EXCEPT !.mode = "blocked", !.rejects = run.rejects,
                                            !.blocker = blocker, !.at = scClock]]

AfterOfficial(run) ==
    IF run.settings.scraper THEN [run EXCEPT !.pc = "scoreboard"]
    ELSE Blocked(run, "blocked_missing_sports_source")

FetchOfficialOdds(page, failures, shape) ==
    LET plan == <<"official_api">>
        records == normalize_the_odds_api_payload(page, scClock)
        run == [scRun EXCEPT !.evidence = @ \cup Fetched(<<"official", 0>>, failures, plan, page)]
    IN  /\ Collecting("official")
        /\ failures \in Failures(plan)
        /\ Continue(IF failures = 1 THEN AfterOfficial(run)
                    ELSE IF shape = "uncaught" THEN NoSportsCycle
                    ELSE IF shape = "caught" THEN AfterOfficial([run EXCEPT !.rejects = @ + 1])
                    ELSE IF records = <<>> THEN AfterOfficial(run)
                    ELSE [run EXCEPT !.pc = "collected",
                            !.payload = [Payload EXCEPT !.mode = "api", !.records = records,
                                            !.rejects = run.rejects, !.at = scClock]])

\* SPORTS_SCRAPER_ENABLED is off and there is no official source.
NoSource ==
    /\ Collecting("blocked")
    /\ Continue(Blocked(scRun, "blocked_missing_sports_source"))

\* The payload of a cycle that read the scoreboard.
Assembled(run) ==
    LET blocker == IF run.schedule = <<>> THEN "blocked_no_scheduled_events"
                   ELSE IF run.records = <<>> THEN "blocked_no_usable_odds" ELSE ""
        rejects == IF run.schedule = <<>> THEN run.rejects + 1
                   ELSE IF run.records = <<>> /\ run.rejects = 0 THEN 1 ELSE run.rejects
    IN  [run EXCEPT !.pc = "collected",
                    !.payload = [mode |-> "public", records |-> run.records, finals |-> run.finals,
                                 rejects |-> rejects, blocker |-> blocker, at |-> scClock]]

\* Odds found nowhere on the scoreboard are looked for game by game.
AfterPrior(run) ==
    IF run.records = <<>> /\ run.schedule # <<>> /\ run.settings.summaries > 0
    THEN [run EXCEPT !.pc = "summary", !.asked = 0]
    ELSE Assembled(run)

\* The day asked for is the day on which the request is made.
FetchScoreboard(posting, failures, shape) ==
    LET plan == scRun.settings.plan
        today == GamesOn(DayOf(scClock))
        schedule == SetToSeq(today)
        records == FlattenSeq([i \in DOMAIN schedule |->
                       normalize_espn_odds_from_event(posting, schedule[i], scClock)])
        run == [scRun EXCEPT !.evidence = @ \cup
                    Fetched(<<"scoreboard", DayOf(scClock)>>, failures, plan,
                            <<shape, posting, [g \in today |-> scWorld[g]]>>)]
        read == [run EXCEPT !.pc = "prior", !.asked = 0, !.schedule = schedule,
                    !.finals = Finals(today),
                    !.records = At(records, {i \in DOMAIN records :
                                    match_odds_to_schedule(records[i], schedule) # <<>>})]
    IN  /\ Collecting("scoreboard")
        /\ failures \in Failures(plan)
        /\ Continue(IF failures = Len(plan) THEN Blocked([run EXCEPT !.rejects = @ + 1], "blocked_public_source_unavailable")
                    ELSE IF shape = "uncaught" THEN NoSportsCycle
                    ELSE IF shape = "caught" THEN Blocked([run EXCEPT !.rejects = @ + 1], "blocked_public_source_unavailable")
                    ELSE IF scRun.settings.lookback = 0 THEN AfterPrior(read) ELSE read)

_prior_yyyymmdd(back) == DayOf(scClock) - back

\* The finals of an earlier day.  Any failure is skipped without a trace.
FetchPrior(failures, shape) ==
    LET plan == scRun.settings.plan
        back == scRun.asked + 1
        games == GamesOn(_prior_yyyymmdd(back))
        good == failures < Len(plan) /\ shape = "good"
        run == [scRun EXCEPT !.asked = back, !.caught = @ /\ good,
                    !.evidence = @ \cup Fetched(<<"scoreboard", _prior_yyyymmdd(back)>>, failures, plan,
                                                <<shape, <<>>, [g \in games |-> scWorld[g]]>>),
                    !.finals = IF good THEN Over(Finals(games), @) ELSE @]
    IN  /\ Collecting("prior")
        /\ failures \in Failures(plan)
        /\ Continue(IF back < scRun.settings.lookback THEN run ELSE AfterPrior(run))

FetchSummary(posting, failures, shape) ==
    LET plan == scRun.settings.plan
        turn == scRun.asked + 1
        g == scRun.schedule[turn]
        good == failures < Len(plan) /\ shape = "good"
        last == turn = Min({Len(scRun.schedule), scRun.settings.summaries})
        run == [scRun EXCEPT !.asked = turn,
                    !.evidence = @ \cup Fetched(<<"summary", turn>>, failures, plan, <<shape, posting>>),
                    !.rejects = @ + (IF failures < Len(plan) /\ shape = "caught" THEN 1 ELSE 0),
                    !.records = IF good THEN @ \o normalize_espn_summary_odds(posting, g, scClock) ELSE @]
    IN  /\ Collecting("summary")
        /\ failures \in Failures(plan)
        /\ Continue(IF failures < Len(plan) /\ shape = "uncaught" THEN NoSportsCycle
                    ELSE IF last THEN Assembled(run) ELSE run)

-----------------------------------------------------------------------------
(* The batch of the cycle *)

\* The same evidence in the same cycle is the same batch, whatever became of it.
_start_sports_collection_ledger ==
    LET known == {i \in DOMAIN scBatches : scBatches[i].evidence = scRun.evidence}
        fresh == [evidence |-> scRun.evidence, status |-> "started",
                  received |-> 0, accepted |-> 0, rejected |-> 0]
    IN  /\ Collecting("collected")
        /\ scBatches' = IF known = {} THEN Append(scBatches, fresh) ELSE scBatches
        /\ scRun' = [scRun EXCEPT !.pc = "logging",
                        !.batch = IF known = {} THEN Len(scBatches) + 1 ELSE Max(known)]
        /\ UNCHANGED <<scClock, scWorld, scRows, scRejected, scCycle, scReport, scMatch>>

Decided(batch, status, counts) ==
    scBatches' = [scBatches EXCEPT ![batch] =
                    IF @.status # "started" THEN @
                    ELSE [@ EXCEPT !.status = status, !.received = counts[1],
                                   !.accepted = counts[2], !.rejected = counts[3]]]

_finish_sports_collection_ledger ==
    LET p == scRun.payload IN
    /\ Collecting("finishing")
    /\ IF p.blocker # "" THEN Decided(scRun.batch, "blocked", <<0, 0, 0>>)
       ELSE Decided(scRun.batch, IF scRun.refused > 0 THEN "completed_with_rejections" ELSE "completed",
                    <<Len(p.records) + p.rejects, scRun.logged, scRun.refused>>)
    /\ scRun' = [scRun EXCEPT !.pc = "settling"]
    /\ UNCHANGED <<scClock, scWorld, scRows, scRejected, scCycle, scReport, scMatch>>

-----------------------------------------------------------------------------
(* The log *)

Candidate(record, time) ==
    [event |-> record.event, market |-> record.market, selection |-> record.selection,
     line |-> record.line, odds |-> record.odds, book |-> record.book, at |-> record.at,
     fetched |-> record.fetched, start |-> record.start, time |-> time,
     confidence |-> Confidence(record.odds), state |-> "unresolved", outcome |-> "",
     closing |-> NoOdds, clv |-> 0]

\* validate_sports_prediction finds nothing wrong
Valid(c) ==
    /\ c.time < c.start /\ c.at < c.start
    /\ c.at <= c.time /\ c.time - c.at <= StaleTicks
    /\ c.fetched <= c.time /\ c.time - c.fetched <= StaleTicks

Series(c) == <<c.event, c.market, c.selection, c.book>>
PickOf(c) == <<c.event, c.market, c.selection, c.line>>
Newest(rows, c) ==
    LET same == {i \in DOMAIN rows : Series(rows[i]) = Series(c)}
    IN  {i \in same : \A j \in same : rows[j].time < rows[i].time
                                      \/ (rows[j].time = rows[i].time /\ j <= i)}
RepeatsLatest(rows, c) ==
    \/ \E i \in DOMAIN rows : /\ Series(rows[i]) = Series(c)
                              /\ rows[i].line = c.line /\ rows[i].time = c.time
    \/ \E i \in Newest(rows, c) :
          <<rows[i].odds, rows[i].line, rows[i].at, rows[i].fetched, rows[i].start>>
          = <<c.odds, c.line, c.at, c.fetched, c.start>>

\* Every candidate of the payload, in one transaction.
Logged(rows, records, time) ==
    LET log[n \in 0 .. Len(records)] ==
            IF n = 0 THEN rows
            ELSE LET c == Candidate(records[n], time)
                 IN  IF Valid(c) /\ ~RepeatsLatest(log[n - 1], c) THEN Append(log[n - 1], c)
                     ELSE log[n - 1]
    IN  log[Len(records)]

log_sports_predictions ==
    LET p == scRun.payload
        log == Logged(scRows, p.records, p.at)
        refused == Len(p.records) + p.rejects - (Len(log) - Len(scRows))
    IN  /\ Collecting("logging")
        /\ Len(log) <= MaxScRows
        /\ scRows' = log
        /\ scRejected' = scRejected + refused
        /\ scRun' = [scRun EXCEPT !.pc = "finishing", !.logged = Len(log) - Len(scRows),
                                  !.refused = refused]
        /\ UNCHANGED <<scClock, scWorld, scBatches, scCycle, scReport, scMatch>>

\* The transaction fails: the batch fails with it, and the cycle.
LoggingFails ==
    /\ Collecting("logging")
    /\ Decided(scRun.batch, "failed", <<0, 0, 0>>)
    /\ scRun' = NoSportsCycle
    /\ UNCHANGED <<scClock, scWorld, scRows, scRejected, scCycle, scReport, scMatch>>

-----------------------------------------------------------------------------
(* Settlement and closing lines *)

Against(margin) == IF margin = 0 THEN <<"push", "push">>
                   ELSE <<"settled", IF margin > 0 THEN "win" ELSE "loss">>

_grade_market(row, e) ==
    LET margin == IF row.selection = "home" THEN e.home - e.away ELSE e.away - e.home
    IN  CASE e.status = "postponed" -> <<"void", "postponed">>
          [] e.status \in {"canceled", "cancelled"} -> <<"void", "canceled">>
          [] e.status \notin {"postponed", "canceled", "cancelled"} /\ NoScore \in {e.home, e.away} -> <<"unresolved", "">>
          [] OTHER -> CASE row.market = "moneyline" -> Against(margin)
                        [] row.market = "spread" -> Against(margin + row.line)
                        [] OTHER -> Against(IF row.selection = "over" THEN e.home + e.away - row.line
                                            ELSE row.line - e.home - e.away)

\* Without finals there is nothing to do; the official source has none.
settle_sports_predictions ==
    LET finals == scRun.payload.finals IN
    /\ Collecting("settling")
    /\ scRows' = [i \in DOMAIN scRows |->
                    IF scRows[i].state = "unresolved" /\ scRows[i].event \in DOMAIN finals
                    THEN LET grade == _grade_market(scRows[i], finals[scRows[i].event])
                         IN  [scRows[i] EXCEPT !.state = grade[1], !.outcome = grade[2]]
                    ELSE scRows[i]]
    /\ scRun' = [scRun EXCEPT !.pc = "closing"]
    /\ UNCHANGED <<scClock, scWorld, scRejected, scBatches, scCycle, scReport, scMatch>>

\* The last price the same book posted for the same line before the start.
ClosingRow(row) ==
    LET before == {i \in DOMAIN scRows :
                     /\ PickOf(scRows[i]) = PickOf(row) /\ scRows[i].book = row.book
                     /\ scRows[i].start <= scClock /\ scRows[i].at < scRows[i].start}
    IN  {i \in before : \A j \in before : scRows[j].at < scRows[i].at
                                          \/ (scRows[j].at = scRows[i].at /\ j <= i)}

closing_line_value(taken, closing) ==
    american_odds_implied_probability(closing) - american_odds_implied_probability(taken)

WithClosingLine(row) ==
    LET close == ClosingRow(row)
    IN  IF close = {} \/ row.at >= row.start THEN row
        ELSE LET odds == scRows[Max(close)].odds
             IN  [row EXCEPT !.closing = odds, !.clv = closing_line_value(row.odds, odds)]

\* An error in here is only noted.
capture_sports_closing_lines(fails) ==
    /\ Collecting("closing")
    /\ scRows' = IF fails THEN scRows ELSE [i \in DOMAIN scRows |-> WithClosingLine(scRows[i])]
    /\ scRun' = [scRun EXCEPT !.pc = "reporting"]
    /\ UNCHANGED <<scClock, scWorld, scRejected, scBatches, scCycle, scReport, scMatch>>

-----------------------------------------------------------------------------
(* The report *)

Graded == {"settled", "push", "void"}

\* The first row of each exposure among the rows of a kind.
_deduped_sports_rows(ids) ==
    {i \in ids : \A j \in ids : PickOf(scRows[j]) = PickOf(scRows[i]) =>
        scRows[i].time < scRows[j].time \/ (scRows[i].time = scRows[j].time /\ i <= j)}

build_sports_report ==
    LET all == DOMAIN scRows
        OfState(states) == {i \in all : scRows[i].state \in states}
        deduped == _deduped_sports_rows(OfState(Graded))
        Count(outcome) == Cardinality({i \in deduped : scRows[i].outcome = outcome})
    IN  [total |-> Len(scRows), rejected |-> scRejected,
         settled |-> Cardinality(OfState(Graded)),
         unresolved |-> Cardinality(OfState({"unresolved"})),
         exposures |-> Cardinality(_deduped_sports_rows(all)), deduped |-> Cardinality(deduped),
         wins |-> Count("win"), losses |-> Count("loss"),
         pushes |-> Cardinality(OfState({"push"})), voids |-> Cardinality(OfState({"void"}))]

WriteReport ==
    /\ Collecting("reporting")
    /\ scReport' = build_sports_report
    /\ scRun' = NoSportsCycle
    /\ scCycle' = [scCycle EXCEPT !.attempts = 0]
    /\ UNCHANGED <<scClock, scWorld, scRows, scRejected, scBatches, scMatch>>

\* The process dies; what was committed stays.
CycleDies ==
    /\ scRun # NoSportsCycle
    /\ scRun' = NoSportsCycle
    /\ UNCHANGED <<scClock, scWorld, scRows, scRejected, scBatches, scCycle, scReport, scMatch>>

scNext ==
    \/ SportsTick
    \/ \E g \in Games, e \in Endings : GameEnds(g, e)
    \/ \E r \in FixtureRows : MatchFixture(r)
    \/ \E s \in CycleSettings, retry \in BOOLEAN : StartCycle(s, retry)
    \/ \E page \in OfficialPages, n \in 0..1, shape \in Shapes : FetchOfficialOdds(page, n, shape)
    \/ NoSource
    \/ \E p \in Postings, n \in 0..2, shape \in Shapes :
          FetchScoreboard(p, n, shape) \/ FetchSummary(p, n, shape)
    \/ \E n \in 0..2, shape \in Shapes : FetchPrior(n, shape)
    \/ _start_sports_collection_ledger \/ log_sports_predictions \/ LoggingFails
    \/ _finish_sports_collection_ledger \/ settle_sports_predictions
    \/ \E fails \in BOOLEAN : capture_sports_closing_lines(fails)
    \/ WriteReport \/ CycleDies

-----------------------------------------------------------------------------
(* What holds *)

\* The tables and the payload are well formed; a batch being worked on exists.
scTypeOK ==
    /\ scClock \in 0..MaxScClock
    /\ \A g \in Games : scWorld[g] = NoEnding \/ [scWorld[g] EXCEPT !.since = 0] \in Endings
    /\ \A i \in DOMAIN scRows :
          /\ scRows[i].state \in Graded \cup {"unresolved"}
          /\ scRows[i].outcome \in {"", "win", "loss", "push", "postponed", "canceled"}
          /\ scRows[i].confidence \in 500..690
    /\ \A i \in DOMAIN scBatches :
          scBatches[i].status \in {"started", "completed", "completed_with_rejections",
                                   "failed", "blocked"}
    /\ scRun # NoSportsCycle =>
          /\ scRun.batch \in 0..Len(scBatches)
          /\ scRun.pc \in {"logging", "finishing", "settling", "closing", "reporting"} => scRun.batch > 0
    /\ scRejected \in Nat

\* Two sides of one market are graded against each other: one wins and the other
\* loses, or both are pushed, and a game that is void is void for every bet.
GradesAgree ==
    \A i, j \in DOMAIN scRows :
        LET a == scRows[i]
            b == scRows[j]
            opposite == /\ a.market = b.market /\ a.selection # b.selection
                        /\ a.market = "moneyline" \/ a.line = IF a.market = "spread" THEN -b.line ELSE b.line
        IN  a.event = b.event /\ {a.state, b.state} \subseteq Graded =>
                /\ (a.state = "void") = (b.state = "void")
                /\ opposite /\ a.state # "void" =>
                      {a.outcome, b.outcome} \in {{"win", "loss"}, {"push"}}

\* A cycle that could read the scoreboards of today and of the last days leaves no
\* prediction of a game open that had ended when the cycle began, in whatever cycle
\* the prediction was made and however many cycles were missed.
CaughtUp ==
    scRun.pc = "closing" /\ scRun.payload.mode = "public" /\ scRun.caught =>
        \A i \in DOMAIN scRows :
            LET row == scRows[i]
                e == scWorld[row.event]
            IN  /\ row.state = "unresolved"
                /\ DayOf(row.start) \in (DayOf(scRun.payload.at) - scRun.settings.lookback)..DayOf(scRun.began)
                => ~ /\ IsFinal(e) /\ e.since < scRun.began
                     /\ NoScore \notin {e.home, e.away}

\* A closing line is a price the same book posted for the same line before the game,
\* not before the row itself, and all rows of that line and book have the same one.
ClosesAreTheBooksOwn ==
    \A i \in DOMAIN scRows : scRows[i].closing # NoOdds =>
        /\ \E j \in DOMAIN scRows :
              /\ PickOf(scRows[j]) = PickOf(scRows[i]) /\ scRows[j].book = scRows[i].book
              /\ scRows[j].odds = scRows[i].closing /\ scRows[j].start <= scClock
              /\ scRows[j].at \in scRows[i].at..(scRows[j].start - 1)
        /\ \A j \in DOMAIN scRows :
              /\ PickOf(scRows[j]) = PickOf(scRows[i]) /\ scRows[j].book = scRows[i].book
              /\ scRows[j].closing # NoOdds
              => scRows[j].closing = scRows[i].closing

\* What a completed batch received is what it logged and what it refused, and no
\* batch claims rows that are not in the log.
BatchesAddUp ==
    /\ \A i \in DOMAIN scBatches :
          scBatches[i].status \in {"completed", "completed_with_rejections"} =>
              scBatches[i].received = scBatches[i].accepted + scBatches[i].rejected
    /\ SumFunction([i \in DOMAIN scBatches |-> scBatches[i].accepted]) <= Len(scRows)

\* Posted odds without an event go to a game of both their teams.
FixturesKeepTheirTeams ==
    scMatch # <<>> =>
        \A i \in DOMAIN scMatch[2] :
            /\ scMatch[1].home = GameFacts[scMatch[2][i]].home
            /\ scMatch[1].away = GameFacts[scMatch[2][i]].away

SportsAreHonest ==
    GradesAgree /\ CaughtUp /\ ClosesAreTheBooksOwn /\ BatchesAddUp /\ FixturesKeepTheirTeams

\* From one report to the next nothing reported is taken back, and each adds up.
ReportNeverTakesBack ==
    scReport' # scReport =>
        /\ \A field \in DOMAIN NoTotals \ {"unresolved"} : scReport'[field] >= scReport[field]
        /\ scReport'.settled + scReport'.unresolved = scReport'.total
        /\ scReport'.wins + scReport'.losses <= scReport'.deduped
        /\ scReport'.deduped <= scReport'.exposures
=============================================================================
