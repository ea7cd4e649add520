----------------------------- MODULE SlipPipeline -----------------------------
(***************************************************************************)
(* The slips of the day: today.py fetches the listed combo markets and the *)
(* quotes of their legs, builds four slips and a pick summary, and         *)
(* slip_safety.py and combo_safety.py decide what of them is shown.  The   *)
(* exchange moves between any two requests.  The requests go through the   *)
(* HttpClient of connectors/http.py and its directory of files, which      *)
(* other commands and earlier builds share: a file of the last SlipTtl     *)
(* ticks answers without a request and counts as fresh, an older one is    *)
(* stale and may answer when the request fails.  A file is written in the  *)
(* tick of its response; HttpCache has the rest of it.                     *)
(*                                                                         *)
(* Prices are cents; probabilities and midpoints are halves of a percent.  *)
(***************************************************************************)
EXTENDS BetDecision, SequencesExt, FiniteSetsExt, Overlay

CONSTANTS
    ComboLegs,     \* for each combo ticker, its selected legs, a sequence of [market, side]
    LegFacts,      \* for each market, what is fixed: see the leg rules below
    Sporting,      \* the tickers of KXMVE markets with a sports word in the title
    ComboPages,    \* for each query, its pages, each a set of tickers
    LegQuotes,     \* [status, yes, no], a side being [bid, ask]
    ComboQuotes,   \* [status, yes, no]
    Signals,       \* public intelligence: [public, markets, primary, quality, match, probability]
    SlipDate,
    SlipLegs,      \* [tier -> <<fewest, most>>]: legs of a slip
    SlipTtl,       \* KALSHI_HTTP_CACHE_TTL_SECONDS
    AllowStale,    \* KALSHI_HTTP_ALLOW_STALE_ON_ERROR
    SlipMaxStale,  \* KALSHI_HTTP_MAX_STALE_SECONDS
    MaxSlipAge,    \* DEFAULT_MAX_SLIP_AGE_SECONDS
    MaxMoves,      \* bound: moves of the exchange
    MaxSlipClock   \* bound

\* A side without a quote has NoQuote; every query is asked for its first page.
ASSUME SlipAssumption ==
    /\ IsFiniteSet(DOMAIN ComboLegs)
    /\ \A t \in DOMAIN ComboLegs :
          ComboLegs[t] \in Seq([market : DOMAIN LegFacts, side : {"yes", "no"}])
    /\ \A m \in DOMAIN LegFacts : LegFacts[m].line \in Nat
    /\ \A q \in LegQuotes \cup ComboQuotes :
          {q.yes.bid, q.yes.ask, q.no.bid, q.no.ask} \subseteq Int
    /\ ComboPages \in Seq(Seq(SUBSET DOMAIN ComboLegs)) /\ ComboPages # <<>>
    /\ \A q \in DOMAIN ComboPages : ComboPages[q] # <<>>
    /\ SlipTtl \in Nat /\ SlipMaxStale \in Nat
    /\ MaxSlipAge \in Nat /\ MaxMoves \in Nat /\ MaxSlipClock \in Nat

VARIABLES
    spClock,
    spExchange,   \* [leg |-> quotes of the leg markets, combo |-> quotes of the combos]
    spMoves,
    spPageFiles,  \* the cached listings, by query and page: what was said and when
    spLegFiles,   \* the cached markets of legs
    spRun,        \* the build: where it is and what it has fetched
    spPayload,    \* the payload of the last build
    spShown       \* what a consumer was shown last
spVars == <<spClock, spExchange, spMoves, spPageFiles, spLegFiles, spRun, spPayload, spShown>>
spFiles == <<spPageFiles, spLegFiles>>

NoQuote == -1
NoSide == [bid |-> NoQuote, ask |-> NoQuote]
Combos == DOMAIN ComboLegs
LegMarkets == DOMAIN LegFacts
Tiers == {"custom", "leverage", "all_day", "research_edge"}
OpenStates == {"active", "open"}
PageCaps == <<1, 1, 5>>   \* pages asked for of each query

NoCopy == [state |-> "missing"]
NoRun == [at |-> "idle"]
NoPayload == [at |-> "none"]

spInit ==
    /\ spClock = 0 /\ spMoves = 0
    /\ \E l \in LegQuotes, c \in ComboQuotes :
          spExchange = [leg |-> [m \in LegMarkets |-> l], combo |-> [t \in Combos |-> c]]
    /\ spPageFiles = << >> /\ spLegFiles = << >>
    /\ spRun = NoRun /\ spPayload = NoPayload /\ spShown = NoPayload

SlipTick ==
    /\ spClock < MaxSlipClock
    /\ spClock' = spClock + 1
    /\ UNCHANGED <<spExchange, spMoves, spFiles, spRun, spPayload, spShown>>

\* A market is quoted anew.
LegMoves(m, quote) ==
    /\ spMoves < MaxMoves
    /\ spExchange' = [spExchange EXCEPT !.leg[m] = quote]
    /\ spMoves' = spMoves + 1
    /\ UNCHANGED <<spClock, spFiles, spRun, spPayload, spShown>>

ComboMoves(t, quote) ==
    /\ spMoves < MaxMoves
    /\ spExchange' = [spExchange EXCEPT !.combo[t] = quote]
    /\ spMoves' = spMoves + 1
    /\ UNCHANGED <<spClock, spFiles, spRun, spPayload, spShown>>

----------------------------------------------------------------------------
(* HttpClient.get_text *)

Recent(files, request, limit) ==
    request \in DOMAIN files /\ spClock - files[request].fetched <= limit

\* What a request may be answered, "now" being what the exchange would say: the file
\* of the last SlipTtl ticks and nothing else; or what the exchange says, an exception
\* for the caller, or a stale file in its place.
Answers(files, request, now) ==
    LET file(state) == Over([state |-> state], files[request])
    IN  IF SlipTtl > 0 /\ Recent(files, request, SlipTtl) THEN {file("fresh")}
        ELSE {[said |-> now, fetched |-> spClock, state |-> "fresh"], NoCopy}
             \cup {file(state) : state \in
                     IF AllowStale /\ Recent(files, request, SlipMaxStale)
                     THEN {"stale"} ELSE {}}

\* _write_cache; an answer that was a file leaves it as it is.
Kept(files, request, answer) ==
    IF SlipTtl > 0 /\ answer.state = "fresh"
    THEN Over([r \in {request} |-> [said |-> answer.said, fetched |-> answer.fetched]], files)
    ELSE files

Listing(q, p) == [t \in ComboPages[q][p] |-> spExchange.combo[t]]
Saved(said) == [said |-> said, fetched |-> spClock]

\* Another command, or another service of the deployment, has fetched the same.
OthersFetchPage(q, p) ==
    /\ spPageFiles' = Over([r \in {<<q, p>>} |-> Saved(Listing(q, p))], spPageFiles)
    /\ UNCHANGED <<spClock, spExchange, spMoves, spLegFiles, spRun, spPayload, spShown>>

OthersFetchLeg(m) ==
    /\ spLegFiles' = Over([r \in {m} |-> Saved(spExchange.leg[m])], spLegFiles)
    /\ UNCHANGED <<spClock, spExchange, spMoves, spPageFiles, spRun, spPayload, spShown>>

\* Files are pruned, or torn by a writing that failed.
FilesGo(pages, legs) ==
    /\ spPageFiles' = Restrict(spPageFiles, DOMAIN spPageFiles \ pages)
    /\ spLegFiles' = Restrict(spLegFiles, DOMAIN spLegFiles \ legs)
    /\ UNCHANGED <<spClock, spExchange, spMoves, spRun, spPayload, spShown>>

----------------------------------------------------------------------------
(* Quotes *)

\* midpoint_cents in half cents, which probability_from_cents keeps
Midpoint(quote) ==
    CASE quote.ask > 0 /\ quote.bid # NoQuote -> quote.bid + quote.ask
      [] quote.ask > 0 /\ quote.bid = NoQuote -> 2 * quote.ask
      [] quote.ask <= 0 /\ quote.bid > 0 -> 2 * quote.bid
      [] OTHER -> NoQuote

market_is_tradable(quote) == 0 < quote.yes.ask /\ quote.yes.ask < 100

combo_public_quote_state(quote) ==
    CASE market_is_tradable(quote) -> "tradable"
      [] ~market_is_tradable(quote) /\ quote.status \in OpenStates
           /\ quote.yes.ask <= 0 /\ quote.yes.bid <= 0
           /\ quote.no = [bid |-> 100, ask |-> 100] -> "rfq_required"
      [] OTHER -> "unavailable"

leg_spread_cents(quote) ==
    IF NoQuote \in {quote.bid, quote.ask} THEN 100
    ELSE IF quote.ask > quote.bid THEN quote.ask - quote.bid ELSE 0

\* The legs of a combo market with what was fetched of theirs; a leg without a
\* response has no quote.
Legs(run, t) ==
    [i \in DOMAIN ComboLegs[t] |->
        LET leg == ComboLegs[t][i]
            copy == run.legs[leg.market]
            quote == IF copy = NoCopy THEN NoSide
                     ELSE copy.quote[leg.side]
        IN  [market |-> leg.market, side |-> leg.side,
             bid |-> quote.bid, ask |-> quote.ask, probability |-> Midpoint(quote),
             spread |-> leg_spread_cents(quote),
             status |-> IF copy = NoCopy THEN "missing" ELSE copy.quote.status,
             fetched |-> IF copy = NoCopy THEN -1 ELSE copy.fetched,
             state |-> copy.state]]

\* combo_joint_probability: on what the joint probability of the priced legs rests.
\* The quantity itself is the product, or slip_analysis.py's simulation.
joint_basis(legs) ==
    LET pairs == {p \in (DOMAIN legs) \X (DOMAIN legs) : p[1] < p[2]}
        event(i) == LegFacts[legs[i].market].event
        related == {p \in pairs : event(p[1]) = event(p[2])}
    IN  CASE legs = <<>> -> "no_priced_legs"
          [] \E i \in DOMAIN legs : legs[i].probability \in {0, 200} ->
                 "exact_product_leg_at_bound"
          [] related = {} -> "exact_product_no_modelled_correlation"
          [] \E p \in related : legs[p[1]].market = legs[p[2]].market -> "unmodellable"
          [] OTHER -> "copula"

QuotedLegs(legs) == {i \in DOMAIN legs : legs[i].probability # NoQuote}

\* enrich_combo_market
Enriched(run, t) ==
    LET copy == run.combos[t]
        legs == Legs(run, t)
        states == {copy.state} \cup {legs[i].state : i \in DOMAIN legs}
    IN  [ticker |-> t, quote |-> copy.quote, fetched |-> copy.fetched, legs |-> legs,
         ready |-> /\ legs # <<>> /\ QuotedLegs(legs) = DOMAIN legs
                   /\ joint_basis(legs) # "unmodellable",
         freshness |-> IF "stale" \in states THEN "stale"
                       ELSE IF states = {"fresh"} THEN "fresh" ELSE "unknown"]

ComboMarkets(run) == {Enriched(run, t) : t \in (DOMAIN run.combos) \cap Sporting}

----------------------------------------------------------------------------
(* Rules of a leg.  LegFacts has the facts: the event, the matchup (overlap_key),
   the date, whether the type is supported and the selection has a text, and for a
   total of runs in baseball its line in tenths (0: no such leg) and whether it is
   a game of Colorado. *)

HighScoring(fact) == fact.line >= 105 \/ (fact.line > 0 /\ fact.colorado)

\* Every flag of leg_risk_flags is raised by a total under.
Risky(leg) ==
    LET fact == LegFacts[leg.market]
    IN  leg.side = "no" /\ fact.line > 0 /\ (HighScoring(fact) \/ fact.line >= 145)

required_leg_probability(leg, base) ==
    LET fact == LegFacts[leg.market]
        floor == CASE leg.side # "yes" \/ fact.line = 0 -> 0
                   [] leg.side = "yes" /\ fact.line > 0
                        /\ (fact.colorado \/ fact.line >= 125) -> 180
                   [] leg.side = "yes" /\ fact.line \in 1..124 /\ ~fact.colorado
                        /\ HighScoring(fact) -> 170
                   [] OTHER -> 0
    IN  IF floor > base THEN floor ELSE base

\* combo_rejection_reasons_for_leg, with the evidence enrich_combo_market gives
Rejected(leg, market, supported, tradable) ==
    \/ market.quote.status \notin OpenStates
    \/ tradable /\ ~market_is_tradable(market.quote)
    \/ leg.ask = NoQuote
    \/ leg.status \notin OpenStates
    \/ ~LegFacts[leg.market].text
    \/ supported /\ ~LegFacts[leg.market].supported
    \/ Risky(leg)

\* manual_entry_warnings_for_leg: a missing bid; the times are always given
ManualWarnings(leg) == IF leg.bid = NoQuote THEN {"missing_live_bid"} ELSE {}

LegPasses(leg, market, low, high, supported, tradable) ==
    /\ leg.probability > 0 /\ leg.probability < 200
    /\ ~Rejected(leg, market, supported, tradable)
    /\ required_leg_probability(leg, low) <= leg.probability /\ leg.probability <= high
    /\ LegFacts[leg.market].date = SlipDate
    /\ leg.spread <= 25

\* verified_combo_market_legs: every leg of a market passes, or none is used.
Verified(market, low, high, supported, tradable) ==
    LET legs == market.legs
        key(i) == LegFacts[legs[i].market].key
    IN  /\ market.quote.status \in OpenStates /\ market.ready
        /\ tradable => market_is_tradable(market.quote)
        /\ \A i \in DOMAIN legs : LegPasses(legs[i], market, low, high, supported, tradable)
        /\ \A i, j \in DOMAIN legs : key(i) = key(j) => i = j

----------------------------------------------------------------------------
(* Slips *)

TotalOver(legs, f(_)) == FoldLeft(LAMBDA sum, leg : sum + f(leg), 0, legs)
LowestProbability(legs) ==
    FoldLeft(LAMBDA p, leg : IF leg.probability < p THEN leg.probability ELSE p, 200, legs)
Distance(a, b) == IF a < b THEN b - a ELSE a - b

\* An average of a total over a number of legs is compared across the slips.
LessAverage(s, t, f(_)) ==
    TotalOver(s.legs, f) * Len(t.legs) < TotalOver(t.legs, f) * Len(s.legs)
SameAverage(s, t, f(_)) ==
    TotalOver(s.legs, f) * Len(t.legs) = TotalOver(t.legs, f) * Len(s.legs)
Spread(leg) == leg.spread
Research(leg) == leg.probability

\* The keys of min in build_custom_slip, build_all_day_slip and build_research_edge_slip;
\* the scores that come after them are left open.
Better(tier, low, s, t) ==
    LET near(slip) == Distance(LowestProbability(slip.legs), low)
    IN  CASE tier \in {"custom", "leverage"} ->
                 \/ near(s) < near(t)
                 \/ near(s) = near(t) /\ LessAverage(s, t, Spread)
          [] tier = "all_day" ->
                 \/ LessAverage(s, t, Spread)
                 \/ SameAverage(s, t, Spread) /\ near(s) < near(t)
          [] OTHER ->
                 \/ LessAverage(t, s, Research)
                 \/ SameAverage(s, t, Research) /\ LessAverage(s, t, Spread)

TierLow == [custom |-> 160, leverage |-> 150, all_day |-> 150, research_edge |-> 124]
TierHigh == [custom |-> 197, leverage |-> 197, all_day |-> 170, research_edge |-> 184]
TierSupported == [t \in Tiers |-> t \in {"custom", "leverage"}]
ResearchMinimum == 140   \* DEFAULT_RESEARCH_EDGE_MIN_PROBABILITY

\* research_signal_matches
MatchesOf(leg) ==
    {s \in Signals : /\ s.public /\ leg.market \in s.markets
                     /\ s.match >= 42 /\ s.quality > 0}

\* min(high, max(low, x))
Clamp(x, low, high) == IF x < low THEN low ELSE IF x > high THEN high ELSE x
SquareRoot(n) == CHOOSE r \in 0..200 : r * r <= n /\ n < (r + 1) * (r + 1)

\* research_probability_for_leg, in half percents: the weighted opinion of the sources,
\* the price and their quality, less a margin that grows with their disagreement, the
\* spread and their want of number.
SourcedResearch(leg, matches) ==
    LET sum(f(_)) == MapThenSumSet(f, matches)
        n == Cardinality(matches)
        weight(s) == Clamp((s.quality * s.match) \div 100, 1, 100)
        weighted(s) == weight(s) * s.probability
        external == sum(weighted) \div sum(weight)
        square(s) == (s.probability - external) * (s.probability - external)
        quality(s) == s.quality
        disagreement == IF n >= 2 THEN SquareRoot(sum(square) \div n) ELSE 0
        sources == IF n = 1 THEN 16 ELSE Clamp(8 - n, 0, 8)
        margin == Clamp(disagreement + Clamp((6 * leg.spread) \div 10, 0, 20) + sources, 7, 50)
        blended == (72 * external + 18 * leg.probability + (20 * sum(quality)) \div n) \div 100
    IN  [probability |-> Clamp(blended - margin, 2, 198), margin |-> margin]

\* market_only_research_probability: the facts give the bonus of the market's liquidity,
\* the penalty of its category and whether it is illiquid.
ScoutedResearch(leg) ==
    LET fact == LegFacts[leg.market]
        margin == Clamp(fact.penalty + Clamp((6 * leg.spread) \div 10, 0, 17)
                          + (IF fact.illiquid THEN 5 ELSE 0), 15, 36)
    IN  [probability |-> Clamp(leg.probability + fact.bonus - margin, 2, 198),
         margin |-> margin]

ScoutMode == \A s \in Signals : ~s.public

ResearchOf(leg) ==
    IF ScoutMode THEN ScoutedResearch(leg) ELSE SourcedResearch(leg, MatchesOf(leg))

ResearchPasses(leg) ==
    /\ ScoutMode \/ Cardinality(MatchesOf(leg)) >= 2 \/ \E s \in MatchesOf(leg) : s.primary
    /\ ResearchOf(leg).probability >= ResearchMinimum
    /\ ResearchOf(leg).margin <= IF ScoutMode THEN 36 ELSE 26

\* slip_summary and listed_combo_slip: the legs with the evidence of their listing
\* and the market's ask, which is what the slip costs.
ListedSlip(market, tier) ==
    [action |-> "BUILD_SLIP", ticker |-> market.ticker, ask |-> market.quote.yes.ask,
     fetched |-> market.fetched, basis |-> joint_basis(market.legs),
     legs |-> IF tier # "research_edge" THEN market.legs
              ELSE [i \in DOMAIN market.legs |->
                       [market.legs[i] EXCEPT !.probability =
                           ResearchOf(market.legs[i]).probability]],
     manual |-> \A i \in DOMAIN market.legs : ManualWarnings(market.legs[i]) = {}]

NoSlip(code) == [action |-> "NO_SLIP", code |-> code]

Candidates(markets, tier) ==
    {ListedSlip(m, tier) : m \in
        {m \in markets :
            /\ Verified(m, TierLow[tier], TierHigh[tier], TierSupported[tier], TRUE)
            /\ SlipLegs[tier][1] <= Len(m.legs) /\ Len(m.legs) <= SlipLegs[tier][2]
            /\ tier = "research_edge" =>
                  \A i \in DOMAIN m.legs : ResearchPasses(m.legs[i])}}

\* The slips a tier may publish: a best one, if there is any.
Builds(markets, tier) ==
    LET candidates == Candidates(markets, tier)
    IN  IF candidates = {} THEN {NoSlip("no_exact_listed_combo")}
        ELSE {s \in candidates : \A t \in candidates : ~Better(tier, TierLow[tier], t, s)}

\* evaluate_combo_market_decision: a fetched market has no model, no costs and no
\* validation.
ContractOf(market) ==
    LET yes == market.quote.yes
    IN  [fresh |-> market.freshness = "fresh", open |-> market.quote.status \in OpenStates,
         validated |-> FALSE, rows |-> 0,
         flags |-> IF market.ready THEN {} ELSE {"blocked_record"},
         unversioned |-> {"missing_model_version", "missing_feature_version",
                          "missing_dataset_version"},
         product |-> "cross_game_combo", validatedProduct |-> "",
         horizon |-> "", validatedHorizon |-> "",
         point |-> Missing, low |-> Missing, high |-> Missing,
         price |-> IF yes.ask = NoQuote THEN Missing ELSE 2 * yes.ask,
         spread |-> IF NoQuote \in {yes.ask, yes.bid} THEN Missing
                    ELSE 2 * leg_spread_cents(yes),
         fee |-> Missing, slippage |-> Missing]

\* DecisionPolicies has the policy of build_pick_summary
build_pick_summary(markets) ==
    LET policy == CHOOSE p \in DecisionPolicies : TRUE
        actions == {evaluate_binary_contract_decision(ContractOf(m), policy).action :
                       m \in markets}
    IN  IF "BET_CANDIDATE" \in actions THEN "BET_CANDIDATE"
        ELSE IF "WAIT_FOR_DATA" \in actions THEN "WAIT_FOR_DATA" ELSE "NO_BET"

\* build_combo_source_summary
SourceSummary(markets) ==
    LET active == {m \in markets : m.quote.status \in OpenStates}
        listed(tier) == {m \in active : Verified(m, TierLow[tier], TierHigh[tier],
                                                 TierSupported[tier], FALSE)}
        sized(tier) == {m \in listed(tier) : SlipLegs[tier][1] <= Len(m.legs)
                                              /\ Len(m.legs) <= SlipLegs[tier][2]}
        quoted(ms, state) == Cardinality({m \in ms : combo_public_quote_state(m.quote) = state})
    IN  [active |-> Cardinality(active), tradable |-> quoted(active, "tradable"),
         rfq |-> quoted(active, "rfq_required"),
         tiers |-> [t \in Tiers |-> [exact |-> Cardinality(listed(t)),
                                     eligible |-> quoted(sized(t), "tradable"),
                                     watch |-> quoted(sized(t), "rfq_required")]]]

----------------------------------------------------------------------------
(* Gates *)

\* slip_payload_gate
slip_payload_gate(payload, now) ==
    CASE payload.stale > 0 -> "blocked_stale_source"
      [] payload.stale = 0 /\ now - payload.generated > MaxSlipAge -> "blocked_stale_payload"
      [] OTHER -> "fresh_data_ready"

\* slip_has_authoritative_combo_evidence: the legs are the legs of one listed market
\* that is open and has a price.
Authoritative(slip) ==
    /\ slip.ticker \in Sporting /\ slip.legs # <<>>
    /\ {<<slip.legs[i].market, slip.legs[i].side>> : i \in DOMAIN slip.legs}
         = {<<ComboLegs[slip.ticker][i].market, ComboLegs[slip.ticker][i].side>> :
               i \in DOMAIN ComboLegs[slip.ticker]}
    /\ 0 < slip.ask /\ slip.ask < 100

\* gate_slip_payload
Gated(payload, now) ==
    LET code == slip_payload_gate(payload, now)
    IN  IF code # "fresh_data_ready"
        THEN [payload EXCEPT !.gate = code, !.picks = "NO_BET",
                             !.slips = [t \in Tiers |-> NoSlip(code)]]
        ELSE [payload EXCEPT !.gate = code,
                !.slips = [t \in Tiers |->
                    IF payload.slips[t].action = "BUILD_SLIP" /\ ~Authoritative(payload.slips[t])
                    THEN NoSlip("blocked_unverified_combo") ELSE payload.slips[t]]]

----------------------------------------------------------------------------
(* The build *)

StartBuild ==
    /\ spRun = NoRun
    /\ spRun' = [at |-> "pages", started |-> spClock, query |-> 1, page |-> 1,
                 combos |-> << >>, legs |-> << >>, stale |-> 0]
    /\ UNCHANGED <<spClock, spExchange, spMoves, spFiles, spPayload, spShown>>

AnswerStates == {"fresh", "stale", "missing"}

NextPage(run) ==
    IF run.page < Len(ComboPages[run.query]) /\ run.page < PageCaps[run.query]
    THEN [run EXCEPT !.page = run.page + 1]
    ELSE IF run.query < Len(ComboPages) THEN [run EXCEPT !.query = run.query + 1, !.page = 1]
    ELSE [run EXCEPT !.at = "legs"]

Staler(run, state) == IF state = "stale" THEN [run EXCEPT !.stale = run.stale + 1] ELSE run

\* The copies of the markets a listing was told to have
CopiesOf(answer) ==
    [t \in DOMAIN answer.said |->
        [quote |-> answer.said[t], fetched |-> answer.fetched, state |-> answer.state]]

\* fetch_kalshi_combo_markets: a page; a ticker of a later page replaces the earlier,
\* and a page without an answer ends the build.
FetchPage(state) ==
    /\ spRun.at = "pages"
    /\ LET request == <<spRun.query, spRun.page>>
       IN  \E answer \in Answers(spPageFiles, request, Listing(spRun.query, spRun.page)) :
             /\ answer.state = state
             /\ spPageFiles' = Kept(spPageFiles, request, answer)
             /\ spRun' = IF state = "missing" THEN NoRun
                         ELSE NextPage(Staler([spRun EXCEPT !.combos =
                                  Over(CopiesOf(answer), spRun.combos)], state))
    /\ UNCHANGED <<spClock, spExchange, spMoves, spLegFiles, spPayload, spShown>>

Wanted(run) ==
    UNION {{ComboLegs[t][i].market : i \in DOMAIN ComboLegs[t]} :
               t \in (DOMAIN run.combos) \cap Sporting}

CopyOf(answer) ==
    IF answer = NoCopy THEN NoCopy
    ELSE [quote |-> answer.said, fetched |-> answer.fetched, state |-> answer.state]

\* fetch_market_by_ticker: one response per market and build, in the order of the
\* listings; a failure is no market.
FetchLeg(state) ==
    /\ spRun.at = "legs" /\ ~(Wanted(spRun) \subseteq DOMAIN spRun.legs)
    /\ LET m == CHOOSE w \in Wanted(spRun) : w \notin DOMAIN spRun.legs
       IN  \E answer \in Answers(spLegFiles, m, spExchange.leg[m]) :
             /\ answer.state = state
             /\ spLegFiles' = Kept(spLegFiles, m, answer)
             /\ spRun' = Staler([spRun EXCEPT !.legs =
                             Over([w \in {m} |-> CopyOf(answer)], spRun.legs)], state)
    /\ UNCHANGED <<spClock, spExchange, spMoves, spPageFiles, spPayload, spShown>>

\* The rest of build_today_payload.
Build ==
    /\ spRun.at = "legs" /\ Wanted(spRun) \subseteq DOMAIN spRun.legs
    /\ LET markets == ComboMarkets(spRun)
       IN  \E custom \in Builds(markets, "custom"), leverage \in Builds(markets, "leverage"),
              all_day \in Builds(markets, "all_day"),
              research_edge \in Builds(markets, "research_edge") :
             spPayload' = Gated([at |-> "built", generated |-> spClock,
                                 started |-> spRun.started, stale |-> spRun.stale,
                                 slips |-> [custom |-> custom, leverage |-> leverage,
                                            all_day |-> all_day, research_edge |-> research_edge],
                                 picks |-> build_pick_summary(markets),
                                 sources |-> SourceSummary(markets),
                                 gate |-> "none"], spClock)
    /\ spRun' = NoRun
    /\ UNCHANGED <<spClock, spExchange, spMoves, spFiles, spShown>>

\* The dashboard gates the payload it has read once more.
Show ==
    /\ spPayload # NoPayload
    /\ spShown' = Over([shown |-> spClock], Gated(spPayload, spClock))
    /\ UNCHANGED <<spClock, spExchange, spMoves, spFiles, spRun, spPayload>>

spNext ==
    \/ SlipTick
    \/ \E m \in LegMarkets, quote \in LegQuotes : LegMoves(m, quote)
    \/ \E t \in Combos, quote \in ComboQuotes : ComboMoves(t, quote)
    \/ \E q \in DOMAIN ComboPages : \E p \in DOMAIN ComboPages[q] : OthersFetchPage(q, p)
    \/ \E m \in LegMarkets : OthersFetchLeg(m)
    \/ \E pages \in SUBSET DOMAIN spPageFiles, legs \in SUBSET DOMAIN spLegFiles :
          FilesGo(pages, legs)
    \/ StartBuild
    \/ \E state \in AnswerStates : FetchPage(state)
    \/ \E state \in AnswerStates : FetchLeg(state)
    \/ Build
    \/ Show

----------------------------------------------------------------------------
(* Properties *)

spTypeOK ==
    /\ spRun.at \in {"idle", "pages", "legs"}
    /\ spPayload # NoPayload => spPayload.generated \in 0..spClock
    /\ spClock \in 0..MaxSlipClock /\ spMoves \in 0..MaxMoves
    /\ \A r \in DOMAIN spPageFiles : spPageFiles[r].fetched \in 0..spClock
    /\ \A m \in DOMAIN spLegFiles : spLegFiles[m].fetched \in 0..spClock

\* build_today_payload, gate_slip_payload: a slip that is shown is one listed combo, all
\* of it and nothing else, open and priced when it was fetched; none of the quotes behind
\* it is stale: each was fetched by the build that made it or at most SlipTtl before the
\* build, and so at most SlipTtl and MaxSlipAge before it is shown but for the time the
\* build took; its matchups are distinct, no leg is a total under in a high scoring game,
\* and every leg that has a floor is above it.
ShownSlipsAreListed ==
    spShown # NoPayload => \A tier \in Tiers :
        LET slip == spShown.slips[tier]
            legs == slip.legs
        IN  slip.action = "BUILD_SLIP" =>
              /\ Len(legs) = Len(ComboLegs[slip.ticker])
              /\ \A i \in DOMAIN legs :
                   /\ <<legs[i].market, legs[i].side>> =
                         <<ComboLegs[slip.ticker][i].market, ComboLegs[slip.ticker][i].side>>
                   /\ legs[i].state = "fresh" /\ legs[i].status \in {"active", "open"}
                   /\ spShown.started - SlipTtl <= legs[i].fetched
                   /\ spShown.shown - legs[i].fetched
                        <= MaxSlipAge + SlipTtl + spShown.generated - spShown.started
                   /\ legs[i].ask # NoQuote
                   /\ LegFacts[legs[i].market].line >= 105 => legs[i].side = "yes"
                   /\ tier # "research_edge" /\ LegFacts[legs[i].market].line >= 125 =>
                         legs[i].probability >= 180
              /\ \A i, j \in DOMAIN legs :
                   i # j => LegFacts[legs[i].market].key # LegFacts[legs[j].market].key
              /\ slip.ask \in 1..99 /\ spShown.started - SlipTtl <= slip.fetched
              /\ slip.basis # "unmodellable"

\* What is counted as eligible for a tier is what a slip can be built from: a slip is
\* built exactly when its tier has an eligible combo (research_edge has more rules).
SummaryMatchesSlips ==
    spPayload # NoPayload /\ spPayload.gate = "fresh_data_ready" =>
        \A tier \in Tiers :
            LET built == spPayload.slips[tier].action = "BUILD_SLIP"
                eligible == spPayload.sources.tiers[tier].eligible
            IN  IF tier = "research_edge" THEN built => eligible > 0 ELSE built <=> eligible > 0
=============================================================================
