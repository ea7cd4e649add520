----------------------------- MODULE MCResearch -----------------------------
(***************************************************************************)
(* The research parts of the system beside each other: ledgers, cycles,    *)
(* decisions, slips and reports.  They share no variable, so that a        *)
(* behaviour is split by the component it is about (focus), and within it  *)
(* by the part whose inputs its interesting cases need: the others keep    *)
(* their initial state.                                                    *)
(***************************************************************************)
EXTENDS PaperLedger, CryptoLedger, ReturnDecomposition, SlipPipeline, HttpCache,
        SportsCycle, MCRatingWalk, ExperimentRegistry

VARIABLE focus

Only(component, part) == focus = <<component, part>>
Parts ==
    {<<"paper", "log">>, <<"paper", "settle">>, <<"paper", "report">>, <<"paper", "late">>,
     <<"crypto", "one">>, <<"crypto", "both">>, <<"crypto", "report">>, <<"orders", "">>,
     <<"returns", "">>, <<"bets", "">>, <<"http", "shared">>, <<"http", "pruned">>,
     <<"slips", "moves">>, <<"slips", "quotes">>, <<"slips", "stale">>,
     <<"sports", "grade">>, <<"sports", "close">>, <<"sports", "faults">>,
     <<"sports", "settings">>, <<"ratings", "">>, <<"registry", "">>}

-----------------------------------------------------------------------------
(* The paper ledger *)

MCQuote(s, m, side) == [strategy |-> s, event |-> "e", market |-> m, side |-> side]
MCQuotes == {MCQuote(1, 1, "yes"), MCQuote(2, 1, "yes"), MCQuote(1, 2, "no")}
MCPayloads == {MCQuotes, {MCQuote(1, 1, "yes")}}
MCOutcome(status, result) == [status |-> status, result |-> result, price |-> -1]
MCOutcomes == {MCOutcome("finalized", "yes"), MCOutcome("active", ""), MCOutcome("closed", "")}

\* Two loggers, two importers of what one of them logged at once, a reporter between
\* one of each, or snapshots of one market that are logged between two imports of one
\* importer.
OneLogger == CHOOSE l \in PaperLoggers : TRUE
OneImporter == CHOOSE i \in PaperImporters : TRUE
LoggerTurn(l) ==
    /\ Only("paper", "log") \/ l = OneLogger
    /\ Only("paper", "late") \/ plImports = 0
LoggerFocus(l) ==
    LET log == Only("paper", "log")
        late == Only("paper", "late")
    IN  /\ plLogger[l].pc = "idle" =>
              (late <=> {leg.quote : leg \in plLogger'[l].legs} # MCQuotes)
        /\ \A leg \in plLogger'[l].legs :
              /\ leg.fetched \in IF log /\ l = OneLogger THEN Nat ELSE {plLogger'[l].time}
              /\ log => leg.update = IF l = OneLogger THEN 1 ELSE 2
        /\ ~log /\ plLogger'[l].pc = "idle" => plLogger[l].pc = "inserted"
ImporterTurn(i) ==
    /\ Only("paper", "settle") \/ i = OneImporter
    /\ ~Only("paper", "log")
    /\ Only("paper", "report") => plLogger[OneLogger].pc = "idle"
ImporterFocus(i) ==
    LET settle == Only("paper", "settle")
        report == Only("paper", "report")
        late == Only("paper", "late")
    IN  /\ report \/ late \/ i # OneImporter => plImporter'[i].source = "file"
        /\ settle /\ i = OneImporter /\ plImporter'[i].pc # "idle" =>
              plImporter'[i].source = "official"
        /\ late => plImporter'[i].said[2] = NoAnswer
        /\ report /\ plImporter'[i].pc # "idle" =>
              plImporter'[i].said[2] \in {NoAnswer, MCOutcome("finalized", "yes")}
PaperFocus ==
    \/ ~Only("paper", "settle") /\ (Only("paper", "late") \/ plImports = 0) /\ PaperTick
    \/ \E l \in PaperLoggers : LoggerTurn(l) /\ LoggerStep(l) /\ LoggerFocus(l)
    \/ \E i \in PaperImporters : ImporterTurn(i) /\ ImporterStep(i) /\ ImporterFocus(i)
    \/ Only("paper", "report") /\ ReporterStep

-----------------------------------------------------------------------------
(* Paper orders and the return decomposition *)

MCLevel(price, quantity) == [price |-> price, quantity |-> quantity]
MCAsk(yes) == [s \in {"yes", "no"} |-> IF s = "yes" THEN yes ELSE NoPrice]
MCDepth(yes) == [s \in {"yes", "no"} |-> IF s = "yes" THEN yes ELSE <<>>]
MCBook(time, status, close, ask, depth) ==
    [market |-> "m", time |-> time, status |-> status, close |-> close,
     ask |-> MCAsk(ask), depth |-> MCDepth(depth)]
MCBooks ==
    {MCBook(1, "open", 2, 40, d) :
        d \in {<<>>, <<MCLevel(40, 1), MCLevel(39, 2)>>,
               <<MCLevel(45, 2), MCLevel(41, 1), MCLevel(42, 0)>>}}
    \cup {MCBook(1, "open", 0, NoPrice, <<>>), MCBook(1, "open", 1, 40, <<>>),
          MCBook(2, "open", 2, 40, <<>>), MCBook(1, "closed", 1, 40, <<>>)}
MCOrders ==
    {[market |-> mk, signal |-> 1, time |-> 1, side |-> "yes", type |-> ty, quantity |-> q,
      intended |-> 40, limit |-> l, resting |-> r] :
        mk \in {"m", "n"}, ty \in {"market", "limit"}, q \in {1, 3}, l \in {NoPrice, 38, 42},
        r \in {0, 1}}
MCConfig(slippage, move, contracts, capital) ==
    [takerRate |-> 700, makerRate |-> 175, slippage |-> slippage, move |-> move,
     maxPrice |-> 99, maxContracts |-> contracts, maxCapital |-> capital]
MCConfigs == {MCConfig(1, 0, 2, 30), MCConfig(1, 0, 2, 60), MCConfig(1, 1, 2, 10000), MCConfig(5, 0, 5, 85),
              MCConfig(5, 0, 5, 10000)}

MCRow(id, t, sq, st, ev, mk, sd, pr, state) ==
    [id |-> id, time |-> t, seq |-> sq, strategy |-> st, event |-> ev, market |-> mk, side |-> sd,
     category |-> "c", price |-> pr, close |-> 9, fetched |-> t, state |-> state, valid |-> TRUE]
MCRows ==
    {MCRow(1, 1, 1, 1, "e", "a", "yes", 40, "win"), MCRow(2, 2, 1, 1, "e", "a", "yes", 45, "win"),
     MCRow(3, 1, 1, 1, "e", "b", "yes", 60, "loss"), MCRow(4, 2, 1, 1, "e", "a", "no", 55, "loss"),
     MCRow(5, 1, 1, 2, "f", "d", "no", 99, "win"), MCRow(6, 3, 1, 1, "g", "h", "yes", 30, "loss"),
     [MCRow(7, 3, 1, 1, "g", "k", "yes", 70, "win") EXCEPT !.fetched = 4],
     [MCRow(8, 3, 1, 1, "g", "h", "yes", 70, "win") EXCEPT !.valid = FALSE]}
MCLimits(n, capital, position, category, event) ==
    [capital |-> capital, position |-> position, event |-> event, category |-> category,
     underlying |-> event - 1, correlated |-> event - 2, marketsPerEvent |-> n]
MCEventLimits == MCLimits(1, 10000, 1000, 10000, 1000)
MCCapitalLimits == MCLimits(2, 160, 98, 170, 102)
MCExecution == MCConfig(2, 1, 100, 10000)

-----------------------------------------------------------------------------
(* Decisions and the slips *)

MCGood == [fresh |-> TRUE, open |-> TRUE, validated |-> TRUE, rows |-> 100, flags |-> {},
           unversioned |-> {}, product |-> "p", validatedProduct |-> "p", horizon |-> "",
           validatedHorizon |-> "", point |-> 110, low |-> 106, high |-> 120, price |-> 100,
           spread |-> 4, fee |-> 2, slippage |-> 0]
MCContracts ==
    {[MCGood EXCEPT !.point = p, !.low = l, !.price = x, !.fee = f] :
        p \in {Missing, 90, 110, 121}, l \in {Missing, 104, 105, 106, 108},
        x \in {Missing, 0, 100, 199, 200}, f \in {Missing, -1, 2}}
    \cup {[MCGood EXCEPT !.point = p, !.spread = s, !.slippage = g] :
        p \in {90, 110}, s \in {Missing, -1, 4, 24, 25}, g \in {Missing, 0}}
    \cup {[MCGood EXCEPT !.low = l, !.flags = f, !.fresh = fresh, !.open = o, !.validated = v] :
        l \in {Missing, 106}, f \in {{}, {"fallback"}}, fresh \in BOOLEAN, o \in BOOLEAN,
        v \in BOOLEAN}
    \cup {[MCGood EXCEPT !.high = Missing], [MCGood EXCEPT !.high = 105],
          [MCGood EXCEPT !.unversioned = {"model"}], [MCGood EXCEPT !.rows = 99],
          [MCGood EXCEPT !.validatedProduct = "q"], [MCGood EXCEPT !.horizon = "h"],
          [MCGood EXCEPT !.horizon = "h", !.validatedHorizon = "h"]}
MCPolicies == {[rows |-> 100, pointEdge |-> 2, lowerEdge |-> 1, spread |-> 24],
               [rows |-> 1, pointEdge |-> 0, lowerEdge |-> 1, spread |-> 24]}
MCConfidences ==
    [probability : {-2, 130, 140, 153, 154, 160, 199, 204}, evidence : {0, 1, 2},
     backed : BOOLEAN, margin : {Missing, 16, 17}, spread : {Missing, 24, 25}, stale : BOOLEAN]
MCPaths == {<<"a">>, <<"result">>, <<"winner", "a">>, <<"b", "settled">>}
MCFeatureTrees ==
    {[p \in ps |-> f[p]] : ps \in SUBSET MCPaths, f \in [MCPaths -> {"", "0", "x"}]}

MCLeg(m, s) == [market |-> m, side |-> s]
MCComboLegs == [A |-> <<MCLeg("x", "yes"), MCLeg("y", "yes")>>,
                B |-> <<MCLeg("x", "yes"), MCLeg("w", "yes")>>,
                C |-> <<MCLeg("x", "yes"), MCLeg("z", "no")>>,
                D |-> <<MCLeg("x", "yes"), MCLeg("x", "no")>>]
MCFact(e, k, l) ==
    [event |-> e, key |-> k, date |-> 1, supported |-> TRUE, text |-> TRUE, line |-> l,
     colorado |-> FALSE, bonus |-> 3, penalty |-> 12, illiquid |-> FALSE]
MCLegFacts == [x |-> MCFact("e1", "k1", 0), y |-> MCFact("e2", "k2", 125),
               z |-> MCFact("e3", "k3", 110),
               w |-> [MCFact("e4", "k4", 0) EXCEPT !.supported = FALSE]]
MCSide(b, a) == [bid |-> b, ask |-> a]
MCOpenLeg == [status |-> "active", yes |-> MCSide(78, 82), no |-> MCSide(16, 20)]
MCLegQuotes ==
    {MCOpenLeg, [status |-> "active", yes |-> MCSide(91, 93), no |-> MCSide(78, 82)],
     [status |-> "closed", yes |-> MCSide(NoQuote, 88), no |-> MCSide(NoQuote, NoQuote)]}
MCOpenCombo == [status |-> "active", yes |-> MCSide(60, 64), no |-> MCSide(36, 40)]
MCComboQuotes ==
    {MCOpenCombo, [status |-> "active", yes |-> MCSide(0, 0), no |-> MCSide(100, 100)]}
MCComboPages == << <<{"A"}, {"B"}>>, <<{"A", "B", "C", "D"}>> >>
MCSignal(public, markets, primary, quality, match, probability) ==
    [public |-> public, markets |-> markets, primary |-> primary, quality |-> quality,
     match |-> match, probability |-> probability]
MCSignals == {MCSignal(TRUE, {"x", "y", "w"}, TRUE, 70, 80, 190),
              MCSignal(TRUE, {"x", "y"}, FALSE, 50, 50, 180),
              MCSignal(FALSE, {"z"}, TRUE, 70, 80, 190)}
MCSlipLegs == [t \in Tiers |-> <<2, 3>>]

\* The exchange moves during the build while others fetch the same before it, is anyhow
\* when the build starts, or some of what it says has been cached for long.
MCCalm == [leg |-> [m \in LegMarkets |-> MCOpenLeg], combo |-> [t \in Combos |-> MCOpenCombo]]
MCPages == {<<q, 1>> : q \in DOMAIN ComboPages}
MCOldPages(pages) ==
    [r \in pages |-> [said |-> [t \in ComboPages[r[1]][r[2]] |-> MCOpenCombo], fetched |-> 0]]
MCOldLegs(legs) == [m \in legs |-> [said |-> MCOpenLeg, fetched |-> 0]]

SlipsInit ==
    /\ spRun = NoRun /\ spPayload = NoPayload /\ spShown = NoPayload
    /\ CASE Only("slips", "moves") ->
              /\ spClock = 0 /\ spMoves = 0 /\ spExchange = MCCalm
              /\ spPageFiles = << >> /\ spLegFiles = << >>
         [] Only("slips", "quotes") ->
              /\ spClock = 0 /\ spMoves = MaxMoves
              /\ spPageFiles = << >> /\ spLegFiles = << >>
              /\ spExchange \in [leg : [LegMarkets -> LegQuotes],
                                 combo : [Combos -> ComboQuotes]]
              /\ \E t \in Combos : \A u \in Combos \ {t} :
                    spExchange.combo[u] = MCCalm.combo[u]
         [] OTHER ->
              /\ spClock = MaxSlipClock /\ spMoves = MaxMoves /\ spExchange = MCCalm
              /\ spPageFiles \in {MCOldPages(pages) : pages \in SUBSET MCPages}
              /\ spLegFiles \in {MCOldLegs(legs) : legs \in SUBSET {"x", "y"}}
              /\ Only("slips", "stale") \/ (spPageFiles = << >> /\ spLegFiles = << >>)

SlipsFocus ==
    LET moves == Only("slips", "moves")
        before == moves /\ spRun = NoRun /\ spPayload = NoPayload
        states == CASE Only("slips", "stale") -> AnswerStates
                    [] Only("slips", "quotes") -> {"fresh"}
                    [] OTHER -> {"fresh", "missing"}
    IN  /\ UNCHANGED bdVars
        /\ \/ moves /\ SlipTick
           \/ /\ spRun # NoRun
              /\ \/ \E m \in LegMarkets, quote \in LegQuotes : LegMoves(m, quote)
                 \/ \E t \in Combos, quote \in ComboQuotes : ComboMoves(t, quote)
           \/ before /\ (OthersFetchPage(1, 1) \/ \E m \in {"x", "y"} \cap LegMarkets : OthersFetchLeg(m))
           \/ /\ before /\ spClock = 1
              /\ \/ spPageFiles # << >> /\ FilesGo(DOMAIN spPageFiles, {})
                 \/ spLegFiles # << >> /\ FilesGo({}, DOMAIN spLegFiles)
           \/ spPayload = NoPayload /\ StartBuild
           \/ \E state \in states : FetchPage(state) \/ FetchLeg(state)
           \/ Build \/ Show

-----------------------------------------------------------------------------
(* Cached responses *)

\* Two clients of one url, or one client of two whose files are pruned.
HttpFocus ==
    LET shared == Only("http", "shared")
    IN  \/ (shared => hcClock < 2) /\ HttpTick
        \/ ~shared /\ prune_http_cache
        \/ \E c \in IF shared THEN HttpClients ELSE {CHOOSE d \in HttpClients : TRUE} :
              \/ \E u \in IF shared THEN {CHOOSE v \in Urls : TRUE} ELSE Urls, mode \in Modes :
                    StartGet(c, u, mode)
              \/ Answered(c) \/ OpenFile(c) \/ FillFile(c) \/ WriteFails(c)
              \/ \E kind \in {"transient", "refused", "raised"} : RequestFails(c, kind)
              \/ TakeAnswer(c)

-----------------------------------------------------------------------------
(* The sports cycle *)

MCGame(h, a, s) == [home |-> h, away |-> a, league |-> "mlb", start |-> s]
MCGameFacts == [g |-> MCGame("A", "B", 2), h |-> MCGame("A", "B", 4)]
MCEnding(s, c, x, y) == [status |-> s, completed |-> c, home |-> x, away |-> y, since |-> 0]
MCEndings == {MCEnding("final", TRUE, 3, 2), MCEnding("final", TRUE, 2, 2),
              MCEnding("postponed", FALSE, NoScore, NoScore),
              MCEnding("status_final", TRUE, NoScore, 1)}
MCEntry == [book |-> "b1", at |-> -1, homeMoney |-> 0, awayMoney |-> 0, homeLine |-> NoLine,
            homeOdds |-> 0, awayLine |-> NoLine, awayOdds |-> 0, spread |-> NoLine,
            total |-> NoLine, overLine |-> NoLine, overOdds |-> 0, underLine |-> NoLine,
            underOdds |-> 0]
MCLines == [MCEntry EXCEPT !.homeLine = -1, !.awayLine = 1, !.homeOdds = -110, !.awayOdds = -110,
                           !.total = 4, !.overOdds = 100, !.underOdds = -120]
MCMoney(b, p) == [MCEntry EXCEPT !.book = b, !.homeMoney = p]
MCTwoBooks == <<MCMoney("b1", -120), MCMoney("b2", 150)>>
MCOneBook == <<MCMoney("b1", 130)>>
MCPostings == {<<>>, <<MCLines>>, MCTwoBooks, MCOneBook}
MCOffer(selection, odds) ==
    [event |-> "g", market |-> "moneyline", selection |-> selection, line |-> NoLine,
     odds |-> odds, book |-> "b1", at |-> 0]
MCOfficialPages == {<<>>, <<MCOffer("home", -130), MCOffer("away", 0)>>}
MCFixture(h, a, l, s) == [event |-> "", home |-> h, away |-> a, league |-> l, start |-> s]
MCFixtures == {MCFixture("A", "B", "mlb", 3), MCFixture("A", "C", "mlb", 2),
               MCFixture("A", "B", "nhl", 9), MCFixture("C", "B", "mlb", 2)}
MCSetting(o, sc, p, l) ==
    [official |-> o, scraper |-> sc, plan |-> p, lookback |-> l, summaries |-> 1]
MCUsual == MCSetting(FALSE, TRUE, <<"http_json">>, 1)
MCCycleSettings ==
    {MCUsual, MCSetting(TRUE, TRUE, <<"http_json", "firecrawl">>, 1),
     MCSetting(TRUE, FALSE, <<"http_json">>, 1), MCSetting(FALSE, FALSE, <<"http_json">>, 0)}

\* What the pages may carry in each part
SportsPostings ==
    CASE focus[2] = "grade" -> {<<MCLines>>}
      [] focus[2] = "close" -> {MCTwoBooks, MCOneBook}
      [] focus[2] = "faults" -> {MCOneBook}
      [] OTHER -> {<<>>, <<MCLines>>}

\* Games of each ending are graded, the lines of two books close, cycles fail and
\* are retried, or the sources are configured in each way.
SportsFocus ==
    LET settings == focus[2] = "settings"
        faults == focus[2] = "faults"
        between == scRun = NoSportsCycle
        slow == scRun # NoSportsCycle /\ <<focus[2], scRun.pc>> \in
                    {<<"faults", "logging">>, <<"close", "closing">>}
    IN  \/ ~settings /\ SportsTick /\ (between \/ slow) /\ (faults => scClock < 3)
        \/ \E g \in Games, e \in Endings :
              /\ between /\ GameEnds(g, e)
              /\ \/ focus[2] = "grade" /\ g = "g"
                 \/ ~settings /\ e.home = 3 /\ (faults => g = "g")
        \/ settings /\ between /\ \E r \in FixtureRows : MatchFixture(r)
        \/ \E s \in CycleSettings, retry \in {FALSE, faults} :
              /\ StartCycle(s, retry)
              /\ IF settings THEN scMatch = <<>> /\ scCycle.number = 0 ELSE s = MCUsual
        \/ \E page \in OfficialPages, n \in 0..1, shape \in Shapes :
              FetchOfficialOdds(page, n, shape)
        \/ NoSource
        \/ \E p \in Postings \cap SportsPostings, n \in 0..2, shape \in Shapes :
              /\ settings \/ (n = 0 /\ shape = "good")
              /\ FetchScoreboard(p, n, shape) \/ FetchSummary(p, n, shape)
        \/ \E n \in 0..2, shape \in Shapes :
              /\ n > 0 => shape = "good"
              /\ focus[2] \in {"close", "faults"} => n = 0 /\ shape = "good"
              /\ FetchPrior(n, shape)
        \/ _start_sports_collection_ledger \/ log_sports_predictions
        \/ faults /\ LoggingFails
        \/ _finish_sports_collection_ledger \/ settle_sports_predictions
        \/ \E fails \in {FALSE, focus[2] \in {"close", "faults"}} : capture_sports_closing_lines(fails)
        \/ WriteReport
        \/ faults /\ scRun.pc \in {"logging", "finishing", "closing"} /\ CycleDies

-----------------------------------------------------------------------------
(* The registry *)

MCComparison(b, v, m, l, h) ==
    [baseline |-> b, verdict |-> v, mean |-> m, low |-> l, high |-> h, size |-> 40]
MCRatingReports ==
    {{MCComparison("base", "model_better", 4, 1, 7), MCComparison("market", "baseline_better", -4, -6, -2)},
     {MCComparison("base", "inconclusive", 1, -3, 5), MCComparison("market", "degenerate_variance", 0, 0, 0)}}
MCPower(a, d, o, l, h) ==
    [audited |-> a, detectable |-> d, observed |-> o, low |-> l, high |-> h, size |-> 40]
\* Nobody edits the file while an entry is recorded.
RegistryFocus ==
    /\ erNext
    /\ erTampered' # erTampered => \A p \in Recorders : erRecorder[p] = IdleRecorder

MCPowerReports == {MCPower(TRUE, 3, 4, 1, 7), MCPower(TRUE, 5, 4, 1, 7), MCPower(FALSE, 2, 2, 1, 3)}
\* The two-sided p-values of 0, 0.98, 1.96, 2.94 and more standard errors
MCPValues == [i \in 0..4 |-> <<1000, 327, 50, 3, 0>>[i + 1]]

-----------------------------------------------------------------------------
Init ==
    /\ focus \in Parts
    /\ plInit /\ clInit /\ osInit /\ rdInit /\ bdInit /\ hcInit /\ scInit /\ rwInit /\ erInit
    /\ SlipsInit

\* Cycles of the worker alone, or overlapping with the command line's, or beside a
\* report that is read while the last of them runs
CryptoFocus ==
    LET reported == Only("crypto", "report")
    IN  \/ /\ Only("crypto", "one") \/ clClock < 4
           /\ reported => clCycles < MaxCycles
           /\ \E price \in CryptoPrices : CryptoTick(price)
        \/ \E c \in CryptoCycles :
              /\ Only("crypto", "both") \/ c = CHOOSE d \in CryptoCycles : TRUE
              /\ crypto_cycle(c)
              /\ clCycles' > 0 => clClock >= CandleLength
              /\ reported => clCycle'[c].at # "none" \/ clCycle[c].at = "settling"
        \/ reported /\ clCycles = MaxCycles /\ CryptoReporter

Next ==
    /\ UNCHANGED focus
    /\ \/ focus[1] = "paper" /\ PaperFocus
          /\ UNCHANGED <<clVars, osVars, rdVars, bdVars, hcVars, spVars, scVars, rwVars, erVars>>
       \/ focus[1] = "crypto" /\ CryptoFocus
          /\ UNCHANGED <<plVars, osVars, rdVars, bdVars, hcVars, spVars, scVars, rwVars, erVars>>
       \/ focus[1] = "orders" /\ osNext
          /\ UNCHANGED <<plVars, clVars, rdVars, bdVars, hcVars, spVars, scVars, rwVars, erVars>>
       \/ focus[1] = "returns" /\ rdNext
          /\ UNCHANGED <<plVars, clVars, osVars, bdVars, hcVars, spVars, scVars, rwVars, erVars>>
       \/ focus[1] = "bets" /\ bdNext
          /\ UNCHANGED <<plVars, clVars, osVars, rdVars, hcVars, spVars, scVars, rwVars, erVars>>
       \/ focus[1] = "http" /\ HttpFocus
          /\ UNCHANGED <<plVars, clVars, osVars, rdVars, bdVars, spVars, scVars, rwVars, erVars>>
       \/ focus[1] = "slips" /\ SlipsFocus
          /\ UNCHANGED <<plVars, clVars, osVars, rdVars, hcVars, scVars, rwVars, erVars>>
       \/ focus[1] = "sports" /\ SportsFocus
          /\ UNCHANGED <<plVars, clVars, osVars, rdVars, bdVars, hcVars, spVars, rwVars, erVars>>
       \/ focus[1] = "ratings" /\ rwNext
          /\ UNCHANGED <<plVars, clVars, osVars, rdVars, bdVars, hcVars, spVars, scVars, erVars>>
       \/ focus[1] = "registry" /\ RegistryFocus
          /\ UNCHANGED <<plVars, clVars, osVars, rdVars, bdVars, hcVars, spVars, scVars, rwVars>>
vars == <<focus, plVars, clVars, osVars, rdVars, bdVars, hcVars, spVars, scVars, rwVars, erVars>>
Spec == Init /\ [][Next]_vars

-----------------------------------------------------------------------------
(* Properties: those of the components, which their modules state. *)

\* Every component's state keeps its shape.
ResearchTypeOK ==
    CASE focus[1] = "paper" -> plTypeOK
      [] focus[1] = "crypto" -> clTypeOK
      [] focus[1] = "orders" -> osTypeOK
      [] focus[1] = "returns" -> rdTypeOK
      [] focus[1] = "bets" -> bdTypeOK
      [] focus[1] = "http" -> hcTypeOK
      [] focus[1] = "slips" -> spTypeOK
      [] focus[1] = "sports" -> scTypeOK
      [] focus[1] = "ratings" -> rwTypeOK
      [] focus[1] = "registry" -> erTypeOK

\* What is logged before an outcome is known stays what it was, is settled by evidence
\* that is late enough, and is counted once, however loggers, settlers and reporters
\* overlap, and what is recommended or concluded from it rests on evidence and stays
\* within its limits, and a forecast rests on games that started earlier: the paper and
\* the crypto ledger, the sports log, the registry, the betting decision, the exposure
\* limits, the ratings. And the sports report takes back nothing from one cycle to the
\* next.
LedgersAreHonest ==
    /\ [](/\ focus[1] = "paper" => SnapshotsAreOrdered /\ AuditExplains /\ GatesAgree
          /\ focus[1] = "crypto" => /\ PredictionsAreHonest
                                    /\ CryptoRowsAreFinal /\ CryptoReportsAddUp
          /\ focus[1] = "orders" => FillIsAffordable
          /\ focus[1] = "sports" => SportsAreHonest
          /\ focus[1] = "registry" => HistoryIsKept /\ VerdictsAreEarned
          /\ focus[1] = "bets" => /\ CandidatesPay /\ CheaperIsNoWorse
                                  /\ ConfidenceIsEarned /\ NoOutcomeLeaks
          /\ focus[1] = "returns" => LimitsHold
          /\ focus[1] = "ratings" => ForecastsAreBlind)
    /\ [][ReportNeverTakesBack]_vars

\* What is computed agrees with a definition of it that has no order of steps: fills,
\* returns, ratings and corrections.
DecisionsMeetReference ==
    /\ focus[1] = "orders" => FillIsBest
    /\ focus[1] = "returns" => DecompositionAddsUp
    /\ focus[1] = "ratings" => OneBookCannotMoveIt /\ VerdictsAreFair
    /\ focus[1] = "registry" => ReviewIsTextbook

\* What the dashboard shows of the exchange is listed there, priced when it was
\* fetched, and as fresh as it says.
SlipsAreListed ==
    /\ focus[1] = "slips" => ShownSlipsAreListed /\ SummaryMatchesSlips
    /\ focus[1] = "http" => ResponsesAreHonest
=============================================================================
