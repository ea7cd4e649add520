------------------------------ MODULE RatingWalk ------------------------------
(***************************************************************************)
(* sports_ratings.py and sports_market_model.py: the walk-forward ratings  *)
(* report.  The games are read back from the settled rows of the log, each *)
(* slate is forecast before its results move the ratings, the blend is     *)
(* fitted on the periods that ended, and the forecasts are compared with   *)
(* their baselines.  A rating is the set of games that moved it; a         *)
(* comparison is over integer differences of the two forecasts' scores.    *)
(***************************************************************************)
EXTENDS Integers, Sequences, FiniteSets, SequencesExt, FiniteSetsExt, Overlay

CONSTANTS
    RatingRows,   \* rows the log may get: [event, start, home, away, period, score]
    CloseSets,     \* closing moneylines: sets of [event, book, side, time, implied]
    MinTeamGames,  \* EloConfig.min_team_games
    MinTraining,   \* MarketBlendConfig.min_training_rows
    MinEvaluated,  \* min_evaluated_games
    GameLength,    \* how long a game lasts: no row of the log says
    ScoreGaps,     \* functions from positions to baseline score minus model score
    MaxSettled     \* bound on the rows the log gets

\* A game has one row for each of its final scores; a start of 0 is no start time; a
\* later game is not of an earlier season.
ASSUME RatingAssumption ==
    /\ \A r \in RatingRows : r.event \in Nat /\ r.start \in Nat /\ r.period \in Nat
    /\ \A r, s \in RatingRows :
          /\ r.event = s.event /\ r.score = s.score => r = s
          /\ 0 < r.start /\ r.start <= s.start => r.period <= s.period
    /\ MaxSettled \in Nat

VARIABLES
    rwLog,     \* the settled rows
    rwReport   \* the report that is built
rwVars == <<rwLog, rwReport>>

NoRatingReport == [at |-> "idle"]
StartRatings == [moved |-> [t \in {} |-> {}], played |-> [t \in {} |-> 0],
                 decided |-> {}]

rwInit == rwLog = {} /\ rwReport = NoRatingReport

SettleRow(r) ==
    /\ rwReport.at \in {"idle", "loaded"} /\ Cardinality(rwLog) < MaxSettled
    /\ r \notin rwLog
    /\ rwLog' = rwLog \cup {r}
    /\ UNCHANGED rwReport

-----------------------------------------------------------------------------
(* load_settled_games, market_home_probabilities *)

ScoresOf(log, e) == {r.score : r \in {x \in log : x.event = e}}

\* An event whose rows disagree, whose score is no number or which has no start
\* time is left out.
LoadedGames(log) ==
    {r \in log : /\ Cardinality(ScoresOf(log, r.event)) = 1
                 /\ r.score # "garbled" /\ r.start # 0}

EarlierGame(a, b) == a.start < b.start \/ (a.start = b.start /\ a.event < b.event)
InOrder(games) == Listed(games, {p \in games \X games : EarlierGame(p[1], p[2])})

\* The implied percentage of the newest close of each side of a book, 0 when the
\* price is no price.
CloseOf(closes, e, b, side) ==
    CHOOSE c \in closes : /\ c.event = e /\ c.book = b /\ c.side = side
                          /\ \A d \in closes :
                                (d.event = e /\ d.book = b /\ d.side = side)
                                    => d.time <= c.time

SidesOf(closes, e, b) == {c.side : c \in {x \in closes : x.event = e /\ x.book = b}}

\* Shin's share of two prices is the additive one; without a margin the prices are
\* scaled.  In hundredths of a per cent.
FairHome(home, away) ==
    IF home + away <= 100 THEN (10000 * home) \div (home + away)
    ELSE 50 * (100 + home - away)

\* A book counts when it prices the home side and exactly one other.
FairBooks(closes, e) ==
    {b \in {c.book : c \in closes} :
        /\ "home" \in SidesOf(closes, e, b) /\ Cardinality(SidesOf(closes, e, b)) = 2
        /\ \A s \in SidesOf(closes, e, b) : CloseOf(closes, e, b, s).implied > 0}

FairValue(closes, e, b) ==
    LET other == CHOOSE s \in SidesOf(closes, e, b) : s # "home"
    IN  FairHome(CloseOf(closes, e, b, "home").implied,
                 CloseOf(closes, e, b, other).implied)

Median(values) ==
    LET ordered == SortSeq(values, <)
        middle == Len(ordered) \div 2
    IN  IF Len(ordered) % 2 = 1 THEN ordered[middle + 1]
        ELSE (ordered[middle] + ordered[middle + 1]) \div 2

Consensus(closes, e) ==
    LET books == SetToSeq(FairBooks(closes, e))
    IN  Median([i \in DOMAIN books |-> FairValue(closes, e, books[i])])

market_home_probabilities(closes) ==
    [e \in {c.event : c \in {x \in closes : FairBooks(closes, x.event) # {}}} |->
        Consensus(closes, e)]

\* The games are read first, the closing prices by a later query.
LoadGames ==
    /\ rwReport.at = "idle" /\ rwLog # {}
    /\ rwReport' = [at |-> "loaded", games |-> LoadedGames(rwLog)]
    /\ UNCHANGED rwLog

LoadMarket(closes) ==
    /\ rwReport.at = "loaded"
    /\ rwReport' = [at |-> "walking", games |-> rwReport.games,
                    market |-> market_home_probabilities(closes), closes |-> closes,
                    left |-> InOrder(rwReport.games), ratings |-> StartRatings,
                    rows |-> <<>>]
    /\ UNCHANGED rwLog

-----------------------------------------------------------------------------
(* walk_forward *)

Moved(ratings, t) == IF t \in DOMAIN ratings.moved THEN ratings.moved[t] ELSE {}
Played(ratings, t) == IF t \in DOMAIN ratings.played THEN ratings.played[t] ELSE 0

\* _RatingState.observe: both ratings enter the expectation, so each team's rating
\* depends from then on on all that moved the other's.
Observe(ratings, g) ==
    LET teams == {g.home, g.away}
        sources == Moved(ratings, g.home) \cup Moved(ratings, g.away) \cup {g}
    IN  [moved |-> [t \in teams \cup DOMAIN ratings.moved |->
                       IF t \in teams THEN sources ELSE ratings.moved[t]],
         played |-> [t \in teams \cup DOMAIN ratings.played |->
                       IF t \in teams THEN Played(ratings, t) + 1 ELSE ratings.played[t]],
         decided |-> ratings.decided \cup (IF g.score = "tie" THEN {} ELSE {g})]

\* The first games of the list that share a start time.
Slate(games) ==
    SubSeq(games, 1, Max({n \in DOMAIN games : \A i \in 1 .. n : games[i].start = games[1].start}))

Observed(ratings, slate) ==
    LET after[n \in 0 .. Len(slate)] ==
            IF n = 0 THEN ratings ELSE Observe(after[n - 1], slate[n])
    IN  after[Len(slate)]

Eligible(ratings, g) ==
    /\ g.score # "tie"
    /\ Played(ratings, g.home) >= MinTeamGames /\ Played(ratings, g.away) >= MinTeamGames

Forecast(ratings, g) ==
    [game |-> g, sources |-> Moved(ratings, g.home) \cup Moved(ratings, g.away),
     base |-> ratings.decided,
     market |-> IF g.event \in DOMAIN rwReport.market THEN rwReport.market[g.event] ELSE -1]

WalkSlate ==
    LET slate == Slate(rwReport.left)
        eligible == At(slate, {i \in DOMAIN slate : Eligible(rwReport.ratings, slate[i])})
    IN  /\ rwReport.at = "walking" /\ rwReport.left # <<>>
        /\ rwReport' = [rwReport EXCEPT
              !.left = SubSeq(@, Len(slate) + 1, Len(@)),
              !.rows = @ \o [i \in DOMAIN eligible |-> Forecast(rwReport.ratings, eligible[i])],
              !.ratings = Observed(@, slate)]
        /\ UNCHANGED rwLog

-----------------------------------------------------------------------------
(* walk_forward_blend *)

\* The priced forecasts before position i whose period had ended by then: those
\* up to the last change of period.
Trained(rows, i) ==
    LET changes == {j \in 2 .. i : rows[j].game.period # rows[j - 1].game.period}
    IN  IF changes = {} THEN {} ELSE {rows[j] : j \in 1 .. Max(changes) - 1}

PricedRows(rows) == At(rows, {i \in DOMAIN rows : rows[i].market >= 0})

\* A fit needs enough rows and both outcomes.
Fitted(training) ==
    /\ Cardinality(training) >= MinTraining
    /\ Cardinality({r.game.score : r \in training}) > 1

BlendForecasts ==
    LET priced == PricedRows(rwReport.rows)
    IN  /\ rwReport.at = "walking" /\ rwReport.left = <<>>
        /\ rwReport' = [at |-> "blended", games |-> rwReport.games, rows |-> rwReport.rows,
                        closes |-> rwReport.closes, market |-> rwReport.market,
                        blend |-> {[row |-> priced[i], trained |-> Trained(priced, i)] :
                                   i \in {j \in DOMAIN priced : Fitted(Trained(priced, j))}}]
        /\ UNCHANGED rwLog

-----------------------------------------------------------------------------
(* paired_comparison, grade_rating_program *)

SumOf(d) == FoldLeft(+, 0, d)
SquaresOf(d) == FoldLeft(LAMBDA s, x : s + x * x, 0, d)

\* The interval at 1.96 standard errors excludes zero.
ExcludesZero(d) ==
    100 * SumOf(d) * SumOf(d) * (Len(d) - 1)
        > 384 * (Len(d) * SquaresOf(d) - SumOf(d) * SumOf(d))

\* No interval is given for fewer than two differences or for equal ones.
paired_comparison(d) ==
    IF Len(d) < 2 THEN "insufficient_sample"
    ELSE IF \A i \in DOMAIN d : d[i] = d[1]
         THEN IF d[1] = 0 THEN "identical_forecasts" ELSE "degenerate_variance"
    ELSE IF ~ExcludesZero(d) THEN "inconclusive"
    ELSE IF SumOf(d) > 0 THEN "model_better" ELSE "baseline_better"

RatingDecision(evaluated, verdicts) ==
    IF evaluated < MinEvaluated THEN "insufficient_evidence"
    ELSE IF "baseline_better" \in verdicts THEN "rejected"
    ELSE IF verdicts = {"model_better"} THEN "accepted" ELSE "inconclusive"

Differences(gaps, n) == [i \in 1 .. n |-> gaps[i]]

\* The market is a baseline only for the forecasts it has a price for.
GradeForecasts(home, close) ==
    LET n == Len(rwReport.rows)
        priced == Len(PricedRows(rwReport.rows))
        verdicts == {paired_comparison(Differences(home, n))}
                    \cup (IF priced = 0 THEN {} ELSE {paired_comparison(Differences(close, priced))})
    IN  /\ rwReport.at = "blended"
        /\ rwReport' = [at |-> "graded", games |-> rwReport.games, evaluated |-> n,
                        priced |-> priced, home |-> Differences(home, n),
                        close |-> Differences(close, priced),
                        decision |-> RatingDecision(n, verdicts)]
        /\ UNCHANGED rwLog

rwNext ==
    \/ \E r \in RatingRows : SettleRow(r)
    \/ LoadGames
    \/ \E closes \in CloseSets : LoadMarket(closes)
    \/ WalkSlate
    \/ BlendForecasts
    \/ \E home, close \in ScoreGaps : GradeForecasts(home, close)
rwSpec == rwInit /\ [][rwNext]_rwVars

-----------------------------------------------------------------------------
(* Properties *)

\* The log and the report keep their shape (build_sports_ratings_report).
rwTypeOK ==
    /\ rwLog \in SUBSET RatingRows
    /\ rwReport.at \in {"idle", "loaded", "walking", "blended", "graded"}
    /\ rwReport.at \in {"walking", "blended"} =>
          \A i \in DOMAIN rwReport.rows : rwReport.rows[i].sources \subseteq rwReport.games

\* A rating never learns from a game before it could have: every game that moved
\* a forecast or its home base rate started before the forecast game, no two rows
\* of the log disagree on one of them, and a blended forecast is fitted on earlier
\* periods only (sports_ratings.py walk_forward, sports_market_model.py).
ForecastsAreBlind ==
    rwReport.at \in {"walking", "blended"} =>
        /\ \A i \in DOMAIN rwReport.rows :
              LET r == rwReport.rows[i]
              IN  \A g \in r.sources \cup r.base :
                    /\ g.start < r.game.start
                    /\ \A h \in rwReport.games : h.event = g.event => h.score = g.score
        /\ \A i, j \in DOMAIN rwReport.rows :
              i < j => rwReport.rows[i].game.start <= rwReport.rows[j].game.start
        /\ rwReport.at = "blended" =>
              \A b \in rwReport.blend : \A t \in b.trained :
                 t.game.period # b.row.game.period /\ t.game.start <= b.row.game.start

\* With three books or more, one book's stale price cannot carry the consensus
\* past every other book (market_home_probabilities' docstring).
OneBookCannotMoveIt ==
    rwReport.at \in {"walking", "blended"} =>
        \A e \in DOMAIN rwReport.market :
            LET books == FairBooks(rwReport.closes, e)
                value(b) == FairValue(rwReport.closes, e, b)
            IN  Cardinality(books) >= 3 =>
                  \A b \in books :
                     /\ \E c \in books \ {b} : value(c) <= rwReport.market[e]
                     /\ \E c \in books \ {b} : value(c) >= rwReport.market[e]

\* A verdict needs evidence that varies, favours the side with the better mean and
\* is mirrored when model and baseline change places; a report is accepted only
\* when the model won every comparison it was given.
VerdictsAreFair ==
    rwReport.at = "graded" =>
        LET mirror == [v \in {"model_better", "baseline_better"} |->
                          IF v = "model_better" THEN "baseline_better" ELSE "model_better"]
            verdict(d) == paired_comparison(d)
        IN  /\ \A d \in {rwReport.home, rwReport.close} :
                 /\ verdict([i \in DOMAIN d |-> -d[i]])
                        = IF verdict(d) \in DOMAIN mirror THEN mirror[verdict(d)] ELSE verdict(d)
                 /\ verdict(d) = "model_better" =>
                       SumOf(d) > 0 /\ Cardinality({d[i] : i \in DOMAIN d}) > 1
                 \* a larger number of better forecasts cannot turn a win around
                 /\ verdict(d) = "model_better" => verdict(d \o d) = "model_better"
            /\ rwReport.decision = "accepted" =>
                 /\ rwReport.evaluated >= MinEvaluated
                 /\ verdict(rwReport.home) = "model_better"
                 /\ rwReport.priced > 0 => verdict(rwReport.close) = "model_better"
            /\ "baseline_better" \in {verdict(rwReport.home), verdict(rwReport.close)} =>
                 rwReport.decision # "accepted"

\* _RatingState.base_rate: the home-win rate a forecast is compared with is that
\* of games already finished when the forecast game started.
UsesFinishedGames ==
    rwReport.at \in {"walking", "blended"} =>
        \A i \in DOMAIN rwReport.rows : \A g \in rwReport.rows[i].base :
            g.start + GameLength <= rwReport.rows[i].game.start
=============================================================================
