----------------------------- MODULE BetDecision -----------------------------
(***************************************************************************)
(* evaluation/decision.py and evaluation/quality.py: whether a contract is *)
(* a candidate, what share of the bankroll it may carry, how far a         *)
(* confidence may be trusted and which fields give the outcome away.       *)
(* Prices, edges and probabilities are counted in half cents, so that a    *)
(* probability is worth its own number and a certain one is worth Payout.  *)
(***************************************************************************)
EXTENDS Integers, Sequences, FiniteSets

CONSTANTS
    Contracts,        \* the arguments of evaluate_binary_contract_decision
    DecisionPolicies, \* [rows, pointEdge, lowerEdge, spread]: ResearchDecisionPolicy
    Confidences,      \* [probability, evidence, backed, margin, spread, stale]
    FeatureTrees      \* payloads: functions from paths to scalars

VARIABLES bdCase, bdDecision
bdVars == <<bdCase, bdDecision>>

Missing == -1000     \* None
ContractPayout == 200

\* _probability refuses what is not between nought and one; every caller decides under
\* the default policy, whose lower edge is half a cent; a field of a tree holds a scalar
\* or other fields, never both.
ASSUME DecisionAssumption ==
    /\ \A c \in Contracts :
          /\ c = [x \in DOMAIN c |-> c[x]]
          /\ {"point", "low", "high", "price", "spread", "fee", "slippage", "fresh", "open",
              "validated", "flags", "unversioned", "rows", "product", "validatedProduct",
              "horizon", "validatedHorizon"} \subseteq DOMAIN c
          /\ {c.point, c.low, c.high} \subseteq 0..ContractPayout \cup {Missing}
          /\ {c.price, c.spread, c.fee, c.slippage} \subseteq Int
    /\ \A policy \in DecisionPolicies :
          {policy.pointEdge, policy.spread} \subseteq Nat /\ policy.lowerEdge \in Nat \ {0}
    /\ \A g \in Confidences :
          {g.probability, g.evidence, g.margin} \subseteq Int /\ g.spread \in Nat \cup {Missing}
    /\ \A tree \in FeatureTrees : \A p, q \in DOMAIN tree :
          /\ p \in Seq(STRING) /\ p # <<>>
          /\ \A n \in 1..Len(p) : q = SubSeq(p, 1, n) => n = Len(p)
KellyDivisor == 4    \* kelly_multiplier 0.25
KellyShare == 100    \* maximum_bankroll_fraction 1 / KellyShare

Inputs(c) == {c.point, c.low, c.high, c.price, c.spread, c.fee, c.slippage}
Costs(c) == c.price + c.fee + c.slippage
Within(x, lo, hi) == lo < x /\ x < hi

contract_expected_value_cents(probability, c) == probability - Costs(c)

\* What the contract lacks: it is decided again when the data is there.
WaitingReasons(c) ==
    LET holds == [source_not_fresh |-> ~c.fresh,
                  missing_model_probability |-> c.point = Missing,
                  missing_probability_interval |-> Missing \in {c.low, c.high},
                  missing_market_price |-> c.price = Missing,
                  missing_spread |-> c.spread = Missing,
                  execution_cost_model_missing |-> Missing \in {c.fee, c.slippage}]
    IN  {r \in DOMAIN holds : holds[r]}

\* What the contract, its record and the model's validation say against it.
RecordReasons(c, policy) ==
    LET holds == [market_not_open |-> ~c.open,
                  model_not_validated |-> ~c.validated,
                  test_sample_below_threshold |-> c.rows < policy.rows,
                  validation_product_mismatch |-> c.validatedProduct # c.product,
                  validation_horizon_mismatch |->
                      c.horizon # "" /\ c.validatedHorizon # c.horizon]
    IN  c.flags \cup c.unversioned \cup {r \in DOMAIN holds : holds[r]}

InputReasons(c, policy) ==
    LET interval == Missing \notin {c.low, c.high}
        holds == [invalid_probability_interval |-> interval /\ c.low > c.high,
                  model_probability_outside_interval |->
                      /\ interval /\ c.point # Missing
                      /\ ~(c.low <= c.point /\ c.point <= c.high),
                  market_price_outside_open_contract_range |->
                      c.price # Missing /\ ~Within(c.price, 0, ContractPayout),
                  negative_spread |-> c.spread # Missing /\ c.spread < 0,
                  wide_spread |-> c.spread > policy.spread,
                  negative_execution_cost |->
                      Missing \notin {c.fee, c.slippage} /\ (c.fee < 0 \/ c.slippage < 0)]
    IN  {r \in DOMAIN holds : holds[r]}

\* The edges are looked at only when every input is there and is in its range.
Priced(c) ==
    /\ Missing \notin Inputs(c)
    /\ Within(c.price, 0, ContractPayout) /\ c.fee >= 0 /\ c.slippage >= 0

EdgeReasons(c, policy) ==
    LET pays == Costs(c) < ContractPayout
        holds == [execution_cost_exceeds_contract_payout |-> ~pays,
                  point_edge_below_threshold |->
                      pays /\ contract_expected_value_cents(c.point, c) < policy.pointEdge,
                  lower_bound_edge_below_threshold |->
                      pays /\ contract_expected_value_cents(c.low, c) < policy.lowerEdge]
    IN  IF Priced(c) THEN {r \in DOMAIN holds : holds[r]} ELSE {}

\* A fraction of the bankroll, as numerator and denominator.
uncertainty_adjusted_kelly_fraction(c) ==
    LET num == c.low - Costs(c)
        den == KellyDivisor * (ContractPayout - Costs(c))
    IN  CASE ~Within(Costs(c), 0, ContractPayout) \/ num <= 0 -> <<0, 1>>
          [] num * KellyShare >= den -> <<1, KellyShare>>
          [] OTHER -> <<num, den>>

evaluate_binary_contract_decision(c, policy) ==
    LET against == RecordReasons(c, policy) \cup InputReasons(c, policy)
                     \cup EdgeReasons(c, policy)
        waiting == WaitingReasons(c)
        action == IF against # {} THEN "NO_BET"
                  ELSE IF waiting # {} THEN "WAIT_FOR_DATA"
                  ELSE "BET_CANDIDATE"
    IN  [action |-> action, reasons |-> against \cup waiting,
         kelly |-> IF action = "BET_CANDIDATE"
                   THEN uncertainty_adjusted_kelly_fraction(c) ELSE <<0, 1>>]

----------------------------------------------------------------------------
(* quality.py *)

\* What keeps a confidence from being a high one.
GuardrailReasons(g) ==
    LET holds == [stale_data |-> g.stale,
                  missing_spread |-> g.spread = Missing,
                  wide_spread |-> g.spread > 24,
                  market_implied_only |-> ~g.backed /\ g.evidence < 2,
                  margin_of_error_too_wide |-> g.margin > 16]
    IN  {r \in DOMAIN holds : holds[r]}

GuardedScore(g) ==
    LET score == IF g.probability < 0 THEN 0
                 ELSE IF g.probability > ContractPayout THEN ContractPayout
                 ELSE g.probability
    IN  CASE GuardrailReasons(g) # {} -> IF score > 138 THEN 138 ELSE score
          [] GuardrailReasons(g) = {} /\ g.evidence >= 2 /\ g.backed ->
                 IF score + 6 > 198 THEN 198 ELSE score + 6
          [] OTHER -> score

confidence_guardrail(g) ==
    [score |-> GuardedScore(g),
     high |-> GuardedScore(g) >= 160 /\ GuardrailReasons(g) = {},
     reasons |-> GuardrailReasons(g)]

ForbiddenKeys == {"result", "winner", "settled"}   \* of FORBIDDEN_LOOKAHEAD_KEYS
\* 0 is in {None, "", False}: a score of nought is no value
NoValue == {"", "0"}

\* A tree is given by its scalars; the containers are the prefixes of their paths.
Containers(tree) == UNION {{SubSeq(p, 1, n) : n \in 1..(Len(p) - 1)} : p \in DOMAIN tree}
LooksAhead(tree, path) ==
    /\ path[Len(path)] \in ForbiddenKeys
    /\ path \in DOMAIN tree => tree[path] \notin NoValue

\* Under a field that looks ahead nothing is searched.
find_lookahead_fields(tree) ==
    {p \in DOMAIN tree \cup Containers(tree) :
        /\ LooksAhead(tree, p)
        /\ \A n \in 1..(Len(p) - 1) : ~LooksAhead(tree, SubSeq(p, 1, n))}

----------------------------------------------------------------------------

NoContract == [kind |-> "none"]

bdInit == bdCase = NoContract /\ bdDecision = NoContract

AskDecision(contract, policy) ==
    /\ bdCase = NoContract
    /\ bdCase' = [kind |-> "contract", contract |-> contract, policy |-> policy]
    /\ bdDecision' = evaluate_binary_contract_decision(contract, policy)

AskConfidence(g) ==
    /\ bdCase = NoContract
    /\ bdCase' = [kind |-> "confidence", confidence |-> g]
    /\ bdDecision' = confidence_guardrail(g)

AskFeatures(tree) ==
    /\ bdCase = NoContract
    /\ bdCase' = [kind |-> "features", features |-> tree]
    /\ bdDecision' = [leaks |-> find_lookahead_fields(tree)]

\* One input of a contract arrives or moves, and it is decided again.
Reprice(field, value) ==
    /\ bdCase.kind = "contract"
    /\ bdCase' = [bdCase EXCEPT !.contract[field] = value]
    /\ bdDecision' = evaluate_binary_contract_decision(bdCase'.contract, bdCase.policy)

Repriced == {<<"price", 96>>, <<"price", 104>>, <<"fee", 1>>, <<"spread", 4>>,
             <<"low", 108>>, <<"point", 112>>}

bdNext ==
    \/ \E c \in Contracts, policy \in DecisionPolicies : AskDecision(c, policy)
    \/ \E g \in Confidences : AskConfidence(g)
    \/ \E tree \in FeatureTrees : AskFeatures(tree)
    \/ \E change \in Repriced : Reprice(change[1], change[2])

----------------------------------------------------------------------------
(* Properties *)

\* evaluate_binary_contract_decision: a candidate, and nothing else, has a stake; the
\* stake is at most a hundredth of the bankroll and has a positive expectation even at
\* the lower bound of the probability; a reason against a contract always outweighs
\* missing data, and filling in the data of a refused contract never makes it wait.
CandidatesPay ==
    bdCase.kind = "contract" =>
        LET c == bdCase.contract
            num == bdDecision.kelly[1]  den == bdDecision.kelly[2]
        IN  /\ bdDecision.action = "BET_CANDIDATE" <=> num > 0
            /\ num * 100 <= den
            /\ num > 0 => /\ Missing \notin Inputs(c)
                          /\ c.low > c.price + c.fee + c.slippage
                          /\ c.point <= c.high /\ c.high <= ContractPayout
                          /\ num * (ContractPayout - Costs(c)) <= den * (c.low - Costs(c))
            /\ bdDecision.action = "WAIT_FOR_DATA" =>
                  /\ Missing \in Inputs(c) \/ ~c.fresh
                  /\ c.open /\ c.validated /\ c.flags = {}

\* A contract that is a candidate at one price is one at every lower price, and no
\* smaller fee, slippage or spread takes it back.
CheaperIsNoWorse ==
    bdCase.kind = "contract" /\ bdDecision.action = "BET_CANDIDATE" =>
        \A field \in {"price", "fee", "slippage", "spread"} :
            \A v \in (IF field = "price" THEN 1 ELSE 0)..bdCase.contract[field] :
                evaluate_binary_contract_decision(
                    [bdCase.contract EXCEPT ![field] = v], bdCase.policy).action
                  = "BET_CANDIDATE"

\* confidence_guardrail: a high confidence rests on fresh, tightly quoted, sourced
\* evidence, never on the price alone, and evidence lifts a score by 3 points at most.
ConfidenceIsEarned ==
    bdCase.kind = "confidence" =>
        LET g == bdCase.confidence
        IN  /\ bdDecision.high =>
                  /\ ~g.stale
                  /\ (g.backed \/ g.evidence >= 2)
                  /\ g.spread \in -999..24 /\ g.margin <= 16
                  /\ g.probability >= 154
            /\ bdDecision.score \in 0..ContractPayout
            /\ g.probability >= 0 => bdDecision.score <= g.probability + 6

\* find_lookahead_fields: a tree passes only when no forbidden key in it carries a value.
NoOutcomeLeaks ==
    bdCase.kind = "features" =>
        LET tree == bdCase.features
        IN  bdDecision.leaks = {} =>
              \A p \in DOMAIN tree : \A n \in DOMAIN p :
                  p[n] \in ForbiddenKeys => n = Len(p) /\ tree[p] \in {"", "0"}

bdTypeOK ==
    /\ bdCase.kind \in {"none", "contract", "confidence", "features"}
    /\ bdCase.kind = "contract" =>
          bdDecision.action \in {"NO_BET", "WAIT_FOR_DATA", "BET_CANDIDATE"}
=============================================================================
