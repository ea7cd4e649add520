--------------------------- MODULE DecisionProofs ---------------------------
(***************************************************************************)
(* Proofs about the research parts that decide and compute: each has an    *)
(* inductive invariant of its own, proved from its module alone.           *)
(***************************************************************************)
EXTENDS BetDecision, ExperimentRegistry, ReturnDecomposition, RatingWalk, TLAPS,
        FiniteSetTheorems, NaturalsInduction

-----------------------------------------------------------------------------
(* Numbers, sequences and sets. *)

LEMMA ElementsBelong ==
    ASSUME NEW S, NEW s \in Seq(S)
    PROVE  \A i \in DOMAIN s : s[i] \in S
  OBVIOUS

\* A set of numbers has a least one: from the well-founded naturals of the library.
LEMMA LeastNumber ==
    ASSUME NEW S \in SUBSET Nat, S # {}
    PROVE  \E n \in S : \A m \in S : n <= m
  <1>1. PICK n \in S : \A m \in S : ~(<<m, n>> \in OpToRel(<, Nat))
    BY WFMin, NatLessThanWellFounded
  <1>2. \A m \in S : m < n => <<m, n>> \in OpToRel(<, Nat)
    BY DEF OpToRel
  <1>3. \A m \in S : m \in Nat /\ n \in Nat /\ ~(m < n)
    BY <1>1, <1>2
  <1> QED BY <1>3

\* Counting up from nought reaches every number.
LEMMA CountingUp ==
    ASSUME NEW S, 0 \in S, \A n \in Nat : n \in S => n + 1 \in S
    PROVE  Nat \subseteq S
  <1> SUFFICES ASSUME ~(Nat \subseteq S) PROVE FALSE
    OBVIOUS
  <1> DEFINE Left == Nat \ S
  <1>1. PICK n \in Left : \A m \in Left : n <= m
    <2>1. Left \in SUBSET Nat /\ Left # {} OBVIOUS
    <2> HIDE DEF Left
    <2> QED BY <2>1, LeastNumber
  <1>2. n \in Nat /\ n # 0 /\ n \notin S BY <1>1
  <1>3. n - 1 \in Nat /\ (n - 1) + 1 = n /\ ~(n <= n - 1) BY <1>2
  <1>4. n - 1 \in S BY <1>1, <1>3
  <1> QED BY <1>2, <1>3, <1>4

LEMMA TwoParts ==
    ASSUME NEW R, IsFiniteSet(R), NEW A, NEW B, R = A \cup B, A \cap B = {}
    PROVE  /\ IsFiniteSet(A) /\ IsFiniteSet(B)
           /\ Cardinality(A) \in Nat /\ Cardinality(B) \in Nat
           /\ Cardinality(R) = Cardinality(A) + Cardinality(B)
  <1>1. IsFiniteSet(A) /\ IsFiniteSet(B) BY FS_Subset
  <1>2. Cardinality(A) \in Nat /\ Cardinality(B) \in Nat BY <1>1, FS_CardinalityType
  <1>3. Cardinality(A \cap B) = 0 BY FS_EmptySet
  <1>4. Cardinality(A \cup B) = Cardinality(A) + Cardinality(B) - Cardinality(A \cap B)
    BY <1>1, FS_Union
  <1>5. \A m, n \in Nat : m + n - 0 = m + n OBVIOUS
  <1> QED BY <1>1, <1>2, <1>3, <1>4, <1>5

-----------------------------------------------------------------------------
(* BetDecision: what a decision rests on. *)

ContractFields ==
    {"point", "low", "high", "price", "spread", "fee", "slippage", "fresh", "open",
     "validated", "flags", "unversioned", "rows", "product", "validatedProduct", "horizon",
     "validatedHorizon"}
ContractFits(c) ==
    /\ c = [x \in DOMAIN c |-> c[x]] /\ ContractFields \subseteq DOMAIN c
    /\ {c.point, c.low, c.high} \subseteq 0..ContractPayout \cup {Missing}
    /\ {c.price, c.spread, c.fee, c.slippage} \subseteq Int
PolicyFits(policy) ==
    {policy.pointEdge, policy.spread} \subseteq Nat /\ policy.lowerEdge \in Nat \ {0}
ConfidenceFits(g) ==
    {g.probability, g.evidence, g.margin} \subseteq Int /\ g.spread \in Nat \cup {Missing}
TreeFits(tree) ==
    \A p, q \in DOMAIN tree :
        /\ p \in Seq(STRING) /\ p # <<>>
        /\ \A n \in 1..Len(p) : q = SubSeq(p, 1, n) => n = Len(p)

\* Whatever was decided is what the function says of what was asked.
DecisionAnswers(case, decision) ==
    \/ case = NoContract
    \/ /\ case = [kind |-> "contract", contract |-> case.contract, policy |-> case.policy]
       /\ ContractFits(case.contract) /\ PolicyFits(case.policy)
       /\ decision = evaluate_binary_contract_decision(case.contract, case.policy)
    \/ /\ case.kind = "confidence" /\ ConfidenceFits(case.confidence)
       /\ decision = confidence_guardrail(case.confidence)
    \/ /\ case.kind = "features" /\ TreeFits(case.features)
       /\ decision = [leaks |-> find_lookahead_fields(case.features)]
BetInv == DecisionAnswers(bdCase, bdDecision)

\* A contract whose price, fee, spread or bound moves stays one: Reprice.
LEMMA RepricedFits ==
    ASSUME NEW c, ContractFits(c), NEW field \in ContractFields, NEW value,
           field \in {"point", "low"} => value \in 0..ContractPayout,
           field \in {"price", "spread", "fee", "slippage"} => value \in Int,
           field \in {"point", "low", "price", "spread", "fee", "slippage"}
    PROVE  ContractFits([c EXCEPT ![field] = value])
  BY DEF ContractFits, ContractFields

\* Nothing is held against a contract just if each condition fails: the sets of reasons.
LEMMA NothingLacks ==
    ASSUME NEW c
    PROVE  WaitingReasons(c) = {} <=>
               /\ ~(~c.fresh)
               /\ ~(c.point = Missing)
               /\ ~(Missing \in {c.low, c.high})
               /\ ~(c.price = Missing)
               /\ ~(c.spread = Missing)
               /\ ~(Missing \in {c.fee, c.slippage})
  <1> DEFINE holds == [source_not_fresh |-> ~c.fresh,
                       missing_model_probability |-> c.point = Missing,
                       missing_probability_interval |-> Missing \in {c.low, c.high},
                       missing_market_price |-> c.price = Missing,
                       missing_spread |-> c.spread = Missing,
                       execution_cost_model_missing |-> Missing \in {c.fee, c.slippage}]
  <1>1. WaitingReasons(c) = {r \in DOMAIN holds : holds[r]}
    BY DEF WaitingReasons
  <1>2. DOMAIN holds = {"source_not_fresh", "missing_model_probability", "missing_probability_interval", "missing_market_price", "missing_spread", "execution_cost_model_missing"}
    OBVIOUS
  <1>3. /\ holds["source_not_fresh"] <=> (~c.fresh)
        /\ holds["missing_model_probability"] <=> (c.point = Missing)
        /\ holds["missing_probability_interval"] <=> (Missing \in {c.low, c.high})
        /\ holds["missing_market_price"] <=> (c.price = Missing)
        /\ holds["missing_spread"] <=> (c.spread = Missing)
        /\ holds["execution_cost_model_missing"] <=> (Missing \in {c.fee, c.slippage})
    BY Zenon
  <1> HIDE DEF holds
  <1> QED BY <1>1, <1>2, <1>3

LEMMA NothingAgainst ==
    ASSUME NEW c, NEW policy
    PROVE  RecordReasons(c, policy) = {} <=>
               /\ c.flags \cup c.unversioned = {}
               /\ ~(~c.open)
               /\ ~(~c.validated)
               /\ ~(c.rows < policy.rows)
               /\ ~(c.validatedProduct # c.product)
               /\ ~(c.horizon # "" /\ c.validatedHorizon # c.horizon)
  <1> DEFINE holds == [market_not_open |-> ~c.open,
                       model_not_validated |-> ~c.validated,
                       test_sample_below_threshold |-> c.rows < policy.rows,
                       validation_product_mismatch |-> c.validatedProduct # c.product,
                       validation_horizon_mismatch |-> c.horizon # "" /\ c.validatedHorizon # c.horizon]
  <1>1. RecordReasons(c, policy) = c.flags \cup c.unversioned \cup {r \in DOMAIN holds : holds[r]}
    BY DEF RecordReasons
  <1>2. DOMAIN holds = {"market_not_open", "model_not_validated", "test_sample_below_threshold", "validation_product_mismatch", "validation_horizon_mismatch"}
    OBVIOUS
  <1>3. /\ holds["market_not_open"] <=> (~c.open)
        /\ holds["model_not_validated"] <=> (~c.validated)
        /\ holds["test_sample_below_threshold"] <=> (c.rows < policy.rows)
        /\ holds["validation_product_mismatch"] <=> (c.validatedProduct # c.product)
        /\ holds["validation_horizon_mismatch"] <=> (c.horizon # "" /\ c.validatedHorizon # c.horizon)
    BY Zenon
  <1> HIDE DEF holds
  <1> QED BY <1>1, <1>2, <1>3

LEMMA InputsInRange ==
    ASSUME NEW c, NEW policy
    PROVE  InputReasons(c, policy) = {} <=>
               /\ ~(Missing \notin {c.low, c.high} /\ c.low > c.high)
               /\ ~(Missing \notin {c.low, c.high} /\ c.point # Missing /\ ~(c.low <= c.point /\ c.point <= c.high))
               /\ ~(c.price # Missing /\ ~Within(c.price, 0, ContractPayout))
               /\ ~(c.spread # Missing /\ c.spread < 0)
               /\ ~(c.spread > policy.spread)
               /\ ~(Missing \notin {c.fee, c.slippage} /\ (c.fee < 0 \/ c.slippage < 0))
  <1> DEFINE holds == [invalid_probability_interval |-> Missing \notin {c.low, c.high} /\ c.low > c.high,
                       model_probability_outside_interval |-> Missing \notin {c.low, c.high} /\ c.point # Missing /\ ~(c.low <= c.point /\ c.point <= c.high),
                       market_price_outside_open_contract_range |-> c.price # Missing /\ ~Within(c.price, 0, ContractPayout),
                       negative_spread |-> c.spread # Missing /\ c.spread < 0,
                       wide_spread |-> c.spread > policy.spread,
                       negative_execution_cost |-> Missing \notin {c.fee, c.slippage} /\ (c.fee < 0 \/ c.slippage < 0)]
  <1>1. InputReasons(c, policy) = {r \in DOMAIN holds : holds[r]}
    BY DEF InputReasons
  <1>2. DOMAIN holds = {"invalid_probability_interval", "model_probability_outside_interval", "market_price_outside_open_contract_range", "negative_spread", "wide_spread", "negative_execution_cost"}
    OBVIOUS
  <1>3. /\ holds["invalid_probability_interval"] <=> (Missing \notin {c.low, c.high} /\ c.low > c.high)
        /\ holds["model_probability_outside_interval"] <=> (Missing \notin {c.low, c.high} /\ c.point # Missing /\ ~(c.low <= c.point /\ c.point <= c.high))
        /\ holds["market_price_outside_open_contract_range"] <=> (c.price # Missing /\ ~Within(c.price, 0, ContractPayout))
        /\ holds["negative_spread"] <=> (c.spread # Missing /\ c.spread < 0)
        /\ holds["wide_spread"] <=> (c.spread > policy.spread)
        /\ holds["negative_execution_cost"] <=> (Missing \notin {c.fee, c.slippage} /\ (c.fee < 0 \/ c.slippage < 0))
    BY Zenon
  <1> HIDE DEF holds
  <1> QED BY <1>1, <1>2, <1>3

LEMMA EdgesSuffice ==
    ASSUME NEW c, NEW policy, Priced(c)
    PROVE  EdgeReasons(c, policy) = {} <=>
               /\ ~(~(Costs(c) < ContractPayout))
               /\ ~(Costs(c) < ContractPayout /\ contract_expected_value_cents(c.point, c) < policy.pointEdge)
               /\ ~(Costs(c) < ContractPayout /\ contract_expected_value_cents(c.low, c) < policy.lowerEdge)
  <1> DEFINE holds == [execution_cost_exceeds_contract_payout |-> ~(Costs(c) < ContractPayout),
                       point_edge_below_threshold |-> Costs(c) < ContractPayout /\ contract_expected_value_cents(c.point, c) < policy.pointEdge,
                       lower_bound_edge_below_threshold |-> Costs(c) < ContractPayout /\ contract_expected_value_cents(c.low, c) < policy.lowerEdge]
  <1>1. EdgeReasons(c, policy) = {r \in DOMAIN holds : holds[r]}
    BY DEF EdgeReasons
  <1>2. DOMAIN holds = {"execution_cost_exceeds_contract_payout", "point_edge_below_threshold", "lower_bound_edge_below_threshold"}
    OBVIOUS
  <1>3. /\ holds["execution_cost_exceeds_contract_payout"] <=> (~(Costs(c) < ContractPayout))
        /\ holds["point_edge_below_threshold"] <=> (Costs(c) < ContractPayout /\ contract_expected_value_cents(c.point, c) < policy.pointEdge)
        /\ holds["lower_bound_edge_below_threshold"] <=> (Costs(c) < ContractPayout /\ contract_expected_value_cents(c.low, c) < policy.lowerEdge)
    BY Zenon
  <1> HIDE DEF holds
  <1> QED BY <1>1, <1>2, <1>3

LEMMA NoGuardrail ==
    ASSUME NEW g
    PROVE  GuardrailReasons(g) = {} <=>
               /\ ~(g.stale)
               /\ ~(g.spread = Missing)
               /\ ~(g.spread > 24)
               /\ ~(~g.backed /\ g.evidence < 2)
               /\ ~(g.margin > 16)
  <1> DEFINE holds == [stale_data |-> g.stale,
                       missing_spread |-> g.spread = Missing,
                       wide_spread |-> g.spread > 24,
                       market_implied_only |-> ~g.backed /\ g.evidence < 2,
                       margin_of_error_too_wide |-> g.margin > 16]
  <1>1. GuardrailReasons(g) = {r \in DOMAIN holds : holds[r]}
    BY DEF GuardrailReasons
  <1>2. DOMAIN holds = {"stale_data", "missing_spread", "wide_spread", "market_implied_only", "margin_of_error_too_wide"}
    OBVIOUS
  <1>3. /\ holds["stale_data"] <=> (g.stale)
        /\ holds["missing_spread"] <=> (g.spread = Missing)
        /\ holds["wide_spread"] <=> (g.spread > 24)
        /\ holds["market_implied_only"] <=> (~g.backed /\ g.evidence < 2)
        /\ holds["margin_of_error_too_wide"] <=> (g.margin > 16)
    BY Zenon
  <1> HIDE DEF holds
  <1> QED BY <1>1, <1>2, <1>3

\* A contract is a candidate just if its inputs are there and in range and both edges
\* suffice, for what its record says: evaluate_binary_contract_decision.
RecordStands(c, policy) == RecordReasons(c, policy) = {} /\ c.fresh
InputsStand(c, policy) ==
    /\ Missing \notin Inputs(c) /\ c.low <= c.point /\ c.point <= c.high
    /\ 0 < c.price /\ Costs(c) < ContractPayout /\ 0 <= c.fee /\ 0 <= c.slippage
    /\ 0 <= c.spread /\ c.spread <= policy.spread
    /\ policy.pointEdge <= c.point - Costs(c) /\ policy.lowerEdge <= c.low - Costs(c)
LEMMA CandidateMeans ==
    ASSUME NEW c, NEW policy, ContractFits(c), PolicyFits(policy)
    PROVE  evaluate_binary_contract_decision(c, policy).action = "BET_CANDIDATE" <=>
               RecordStands(c, policy) /\ InputsStand(c, policy)
  <1> DEFINE against == RecordReasons(c, policy) \cup InputReasons(c, policy)
                          \cup EdgeReasons(c, policy)
  <1>1. evaluate_binary_contract_decision(c, policy).action = "BET_CANDIDATE" <=>
            against = {} /\ WaitingReasons(c) = {}
    BY DEF evaluate_binary_contract_decision
  <1>2. WaitingReasons(c) = {} <=> c.fresh /\ Missing \notin Inputs(c)
    BY NothingLacks DEF Inputs
  <1>a. /\ c.low \in Int /\ c.high \in Int /\ c.point \in Int /\ c.price \in Int
        /\ c.spread \in Int /\ c.fee \in Int /\ c.slippage \in Int
    BY DEF ContractFits, ContractPayout, Missing
  <1>b. policy.spread \in Int /\ policy.pointEdge \in Int /\ policy.lowerEdge \in Int
    BY DEF PolicyFits
  <1>3. Missing \notin Inputs(c) =>
            (InputReasons(c, policy) = {} <=>
                /\ c.low <= c.point /\ c.point <= c.high
                /\ 0 < c.price /\ c.price < ContractPayout
                /\ 0 <= c.fee /\ 0 <= c.slippage
                /\ 0 <= c.spread /\ c.spread <= policy.spread)
    <2> SUFFICES ASSUME Missing \notin Inputs(c)
                 PROVE  InputReasons(c, policy) = {} <=>
                            /\ c.low <= c.point /\ c.point <= c.high
                            /\ 0 < c.price /\ c.price < ContractPayout
                            /\ 0 <= c.fee /\ 0 <= c.slippage
                            /\ 0 <= c.spread /\ c.spread <= policy.spread
      OBVIOUS
    <2>1. InputReasons(c, policy) = {} <=>
              /\ ~(c.low > c.high) /\ c.low <= c.point /\ c.point <= c.high
              /\ Within(c.price, 0, ContractPayout) /\ ~(c.spread < 0)
              /\ ~(c.spread > policy.spread) /\ ~(c.fee < 0 \/ c.slippage < 0)
      BY InputsInRange DEF Inputs
    <2> QED BY <2>1, <1>a, <1>b DEF Within, ContractPayout
  <1>4. Missing \notin Inputs(c) /\ InputReasons(c, policy) = {} => Priced(c)
    BY <1>3 DEF Priced, Within, ContractFits, ContractPayout
  <1>5. Missing \notin Inputs(c) /\ Priced(c) =>
            (EdgeReasons(c, policy) = {} <=>
                /\ Costs(c) < ContractPayout
                /\ policy.pointEdge <= c.point - Costs(c)
                /\ policy.lowerEdge <= c.low - Costs(c))
    <2> SUFFICES ASSUME Priced(c)
                 PROVE  EdgeReasons(c, policy) = {} <=>
                            /\ Costs(c) < ContractPayout
                            /\ policy.pointEdge <= c.point - Costs(c)
                            /\ policy.lowerEdge <= c.low - Costs(c)
      OBVIOUS
    <2>1. Costs(c) \in Int BY <1>a DEF Costs
    <2> QED BY <2>1, <1>a, <1>b, EdgesSuffice DEF contract_expected_value_cents
  <1>6. Costs(c) < ContractPayout /\ 0 <= c.fee /\ 0 <= c.slippage => c.price < ContractPayout
    BY DEF Costs, ContractFits, ContractPayout
  <1> QED BY <1>1, <1>2, <1>3, <1>4, <1>5, <1>6 DEF RecordStands, InputsStand

\* The stake of a contract whose lower bound is above its costs: the whole share, or what
\* the edge earns of it.
LEMMA StakePays ==
    ASSUME NEW c, NEW policy, ContractFits(c), PolicyFits(policy), InputsStand(c, policy)
    PROVE  LET stake == uncertainty_adjusted_kelly_fraction(c)
           IN  /\ stake[1] > 0 /\ stake[1] * 100 <= stake[2]
               /\ stake[1] * (ContractPayout - Costs(c)) <= stake[2] * (c.low - Costs(c))
  <1> DEFINE stake == uncertainty_adjusted_kelly_fraction(c)
             num == c.low - Costs(c)
             left == ContractPayout - Costs(c)
  <1>1. /\ num \in Int /\ num > 0 /\ left \in Int /\ left > 0
        /\ Within(Costs(c), 0, ContractPayout)
    BY DEF InputsStand, ContractFits, PolicyFits, Costs, Within, ContractPayout, Inputs, Missing
  <1>2. stake = IF num * 100 >= 4 * left THEN <<1, 100>> ELSE <<num, 4 * left>>
    BY <1>1 DEF uncertainty_adjusted_kelly_fraction, KellyShare, KellyDivisor
  <1> SUFFICES /\ stake[1] > 0 /\ stake[1] * 100 <= stake[2]
               /\ stake[1] * left <= stake[2] * num
    OBVIOUS
  <1> HIDE DEF num, left, stake
  <1>3. CASE num * 100 >= 4 * left
    <2>1. stake[1] = 1 /\ stake[2] = 100 BY <1>2, <1>3
    <2> QED BY <2>1, <1>1, <1>3
  <1>4. CASE ~(num * 100 >= 4 * left)
    <2>1. stake[1] = num /\ stake[2] = 4 * left BY <1>2, <1>4
    <2>2. ASSUME NEW x \in Int, NEW y \in Int, x > 0, y > 0
          PROVE  x * y <= 4 * y * x
      <3>1. x * y > 0 BY <2>2
      <3>2. 4 * y * x = 4 * (x * y) BY <2>2
      <3> QED BY <3>1, <3>2
    <2>3. num * left <= 4 * left * num BY <1>1, <2>2
    <2> QED BY <2>1, <2>3, <1>1, <1>4
  <1> QED BY <1>3, <1>4, <1>1

\* CandidatesPay, of any contract that is decided under any policy
LEMMA EveryCandidatePays ==
    ASSUME NEW c, NEW policy, ContractFits(c), PolicyFits(policy),
           NEW decision, decision = evaluate_binary_contract_decision(c, policy)
    PROVE  LET num == decision.kelly[1]  den == decision.kelly[2]
           IN  /\ decision.action = "BET_CANDIDATE" <=> num > 0
               /\ num * 100 <= den
               /\ num > 0 => /\ Missing \notin Inputs(c)
                             /\ c.low > c.price + c.fee + c.slippage
                             /\ c.point <= c.high /\ c.high <= ContractPayout
                             /\ num * (ContractPayout - Costs(c)) <= den * (c.low - Costs(c))
               /\ decision.action = "WAIT_FOR_DATA" =>
                     /\ Missing \in Inputs(c) \/ ~c.fresh
                     /\ c.open /\ c.validated /\ c.flags = {}
  <1>1. CASE decision.action = "BET_CANDIDATE"
    <2>1. InputsStand(c, policy) BY <1>1, CandidateMeans
    <2>2. decision.kelly = uncertainty_adjusted_kelly_fraction(c)
      BY <1>1 DEF evaluate_binary_contract_decision
    <2>3. /\ Missing \notin Inputs(c) /\ c.low > c.price + c.fee + c.slippage
          /\ c.point <= c.high /\ c.high <= ContractPayout
      <3>1. /\ Missing \notin Inputs(c) /\ c.point <= c.high
            /\ policy.lowerEdge <= c.low - Costs(c)
        BY <2>1, Zenon DEF InputsStand
      <3>2. policy.lowerEdge \in Nat \ {0} BY DEF PolicyFits
      <3>3. c.low \in Int /\ c.price \in Int /\ c.fee \in Int /\ c.slippage \in Int
        BY DEF ContractFits, ContractPayout, Missing
      <3>4. c.high \in 0..ContractPayout BY <3>1 DEF ContractFits, Inputs
      <3>5. c.high <= ContractPayout BY <3>4 DEF ContractPayout
      <3>6. c.low > c.price + c.fee + c.slippage BY <3>1, <3>2, <3>3 DEF Costs
      <3> QED BY <3>1, <3>5, <3>6
    <2> QED BY <1>1, <2>1, <2>2, <2>3, StakePays
  <1>2. CASE decision.action # "BET_CANDIDATE"
    <2>1. decision.kelly = <<0, 1>>
      BY <1>2 DEF evaluate_binary_contract_decision
    <2>2. decision.action = "WAIT_FOR_DATA" =>
              RecordReasons(c, policy) = {} /\ WaitingReasons(c) # {}
      BY DEF evaluate_binary_contract_decision
    <2>3. WaitingReasons(c) # {} => Missing \in Inputs(c) \/ ~c.fresh
      BY NothingLacks DEF Inputs
    <2>4. RecordReasons(c, policy) = {} => c.open /\ c.validated /\ c.flags = {}
      BY NothingAgainst
    <2> QED BY <1>2, <2>1, <2>2, <2>3, <2>4
  <1> QED BY <1>1, <1>2

\* CheaperIsNoWorse, of any contract
LEMMA CheaperStands ==
    ASSUME NEW c, NEW policy, ContractFits(c), PolicyFits(policy),
           RecordStands(c, policy), InputsStand(c, policy),
           NEW field \in {"price", "fee", "slippage", "spread"},
           NEW v \in (IF field = "price" THEN 1 ELSE 0)..c[field]
    PROVE  evaluate_binary_contract_decision([c EXCEPT ![field] = v], policy).action
               = "BET_CANDIDATE"
  <1> DEFINE d == [c EXCEPT ![field] = v]
  <1>1. ContractFits(d)
    <2>1. v \in Int BY DEF ContractFits
    <2> QED BY <2>1, RepricedFits DEF ContractFields
  <1>2. RecordStands(d, policy)
    <2>1. /\ d.open = c.open /\ d.validated = c.validated /\ d.flags = c.flags
          /\ d.unversioned = c.unversioned /\ d.rows = c.rows /\ d.fresh = c.fresh
          /\ d.product = c.product /\ d.validatedProduct = c.validatedProduct
          /\ d.horizon = c.horizon /\ d.validatedHorizon = c.validatedHorizon
      BY DEF ContractFits, ContractFields
    <2> HIDE DEF d
    <2> QED BY <2>1, NothingAgainst DEF RecordStands
  <1>3. InputsStand(d, policy)
    BY DEF InputsStand, ContractFits, ContractFields, Inputs, Costs, Missing, ContractPayout, PolicyFits
  <1> QED BY <1>1, <1>2, <1>3, CandidateMeans

\* A guarded confidence is high only on evidence: ConfidenceIsEarned, of any confidence.
LEMMA HighIsEarned ==
    ASSUME NEW g, ConfidenceFits(g), NEW decision, decision = confidence_guardrail(g)
    PROVE  /\ decision.high =>
                  /\ ~g.stale
                  /\ (g.backed \/ g.evidence >= 2)
                  /\ g.spread \in -999..24 /\ g.margin <= 16
                  /\ g.probability >= 154
           /\ decision.score \in 0..ContractPayout
           /\ g.probability >= 0 => decision.score <= g.probability + 6
  <1> DEFINE reasons == GuardrailReasons(g)
             score == GuardedScore(g)
  <1>1. decision.high <=> score >= 160 /\ reasons = {}
    BY DEF confidence_guardrail
  <1>2. decision.score = score
    BY DEF confidence_guardrail
  <1>3. /\ g.probability \in Int /\ g.margin \in Int /\ g.evidence \in Int
        /\ g.spread \in Nat \cup {Missing}
    BY DEF ConfidenceFits
  <1>4. reasons = {} => /\ ~g.stale /\ g.spread # Missing /\ ~(g.spread > 24)
                        /\ ~(~g.backed /\ g.evidence < 2) /\ ~(g.margin > 16)
    BY NoGuardrail
  <1> HIDE DEF reasons
  <1>5. /\ score \in 0..ContractPayout
        /\ g.probability >= 0 => score <= g.probability + 6
        /\ score >= 160 /\ reasons = {} => g.probability >= 154
    BY <1>3 DEF GuardedScore, ContractPayout, reasons
  <1> QED BY <1>1, <1>2, <1>3, <1>4, <1>5

\* The first forbidden field of a path is found, unless it is the last and has no value.
LEMMA FirstIsFound ==
    ASSUME NEW tree, TreeFits(tree), find_lookahead_fields(tree) = {},
           NEW p \in DOMAIN tree, NEW n \in DOMAIN p, p[n] \in ForbiddenKeys
    PROVE  n = Len(p) /\ tree[p] \in {"", "0"}
  <1>1. p \in Seq(STRING) /\ p # <<>> /\ Len(p) \in Nat /\ DOMAIN p = 1..Len(p)
    BY DEF TreeFits
  <1> DEFINE Ahead(k) == k \in 1..Len(p) /\ LooksAhead(tree, SubSeq(p, 1, k))
  <1>2. \A k \in 1..Len(p) : /\ SubSeq(p, 1, k) \in Seq(STRING) /\ Len(SubSeq(p, 1, k)) = k
                             /\ SubSeq(p, 1, k)[k] = p[k]
    BY <1>1
  <1>3. \A k \in 1..Len(p) : \A m \in 1..k : SubSeq(SubSeq(p, 1, k), 1, m) = SubSeq(p, 1, m)
    <2> TAKE k \in 1..Len(p)
    <2> TAKE m \in 1..k
    <2> DEFINE whole == SubSeq(SubSeq(p, 1, k), 1, m)
    <2>1. whole \in Seq(STRING) /\ SubSeq(p, 1, m) \in Seq(STRING) /\ Len(whole) = m
          /\ Len(SubSeq(p, 1, m)) = m
      BY <1>1, <1>2
    <2>2. \A i \in 1..m : whole[i] = p[i] /\ SubSeq(p, 1, m)[i] = p[i]
      BY <1>1, <1>2
    <2> QED BY <2>1, <2>2
  <1>4. SubSeq(p, 1, Len(p)) = p
    BY <1>1
  <1>5. \A k : ~Ahead(k)
    <2> SUFFICES ASSUME \E k : Ahead(k) PROVE FALSE
      OBVIOUS
    <2>1. PICK k \in Nat : Ahead(k) /\ \A m \in Nat : m < k => ~Ahead(m)
      <3> DEFINE S == {k \in Nat : Ahead(k)}
      <3>1. S # {} BY <1>1
      <3>2. \E k \in S : \A m \in S : k <= m BY <3>1, LeastNumber
      <3> QED BY <3>2
    <2> DEFINE q == SubSeq(p, 1, k)
    <2>2. q \in DOMAIN tree \cup Containers(tree)
      <3>1. CASE k = Len(p) BY <3>1, <1>4
      <3>2. CASE k # Len(p)
        <4>0. Len(p) \in Nat /\ k \in 1..Len(p) BY <2>1, <1>1
        <4>1. k \in 1..(Len(p) - 1) BY <3>2, <4>0
        <4> QED BY <4>1 DEF Containers
      <3> QED BY <3>1, <3>2
    <2>3. \A m \in 1..(Len(q) - 1) : ~LooksAhead(tree, SubSeq(q, 1, m))
      <3> TAKE m \in 1..(Len(q) - 1)
      <3>1. Len(q) = k /\ m < k /\ m \in 1..k /\ m \in Nat /\ m \in 1..Len(p)
        BY <2>1, <1>1, <1>2
      <3>2. SubSeq(q, 1, m) = SubSeq(p, 1, m) BY <3>1, <1>3, <2>1
      <3> QED BY <3>1, <3>2, <2>1
    <2> QED BY <2>1, <2>2, <2>3 DEF find_lookahead_fields
  <1>6. ~LooksAhead(tree, SubSeq(p, 1, n))
    BY <1>5, <1>1
  <1>7. SubSeq(p, 1, n) \in DOMAIN tree /\ tree[SubSeq(p, 1, n)] \in NoValue
    BY <1>6, <1>2, <1>1 DEF LooksAhead
  <1>8. n = Len(p)
    BY <1>7, <1>1 DEF TreeFits
  <1> QED BY <1>7, <1>8, <1>4 DEF NoValue

LEMMA BetStarts == bdInit => BetInv
  BY DEF bdInit, BetInv, DecisionAnswers

LEMMA BetKeeps == BetInv /\ (bdNext \/ UNCHANGED bdVars) => BetInv'
  <1> SUFFICES ASSUME BetInv, bdNext \/ UNCHANGED bdVars PROVE BetInv'
    OBVIOUS
  <1>1. ASSUME NEW c \in Contracts, NEW policy \in DecisionPolicies, AskDecision(c, policy)
        PROVE BetInv'
    <2>1. ContractFits(c) /\ PolicyFits(policy)
      BY DecisionAssumption DEF ContractFits, ContractFields, PolicyFits
    <2> QED BY <2>1, <1>1 DEF AskDecision, BetInv, DecisionAnswers
  <1>2. ASSUME NEW g \in Confidences, AskConfidence(g) PROVE BetInv'
    <2>1. ConfidenceFits(g) BY DecisionAssumption DEF ConfidenceFits
    <2> QED BY <2>1, <1>2 DEF AskConfidence, BetInv, DecisionAnswers
  <1>3. ASSUME NEW tree \in FeatureTrees, AskFeatures(tree) PROVE BetInv'
    <2>1. TreeFits(tree) BY DecisionAssumption DEF TreeFits
    <2> QED BY <2>1, <1>3 DEF AskFeatures, BetInv, DecisionAnswers
  <1>4. ASSUME NEW change \in Repriced, Reprice(change[1], change[2]) PROVE BetInv'
    <2> DEFINE c == bdCase.contract
               d == [c EXCEPT ![change[1]] = change[2]]
    <2>1. /\ bdCase = [kind |-> "contract", contract |-> c, policy |-> bdCase.policy]
          /\ ContractFits(c) /\ PolicyFits(bdCase.policy)
      BY <1>4 DEF Reprice, BetInv, DecisionAnswers, NoContract
    <2>2. ContractFits(d)
      BY <2>1, RepricedFits DEF Repriced, ContractFields, ContractPayout
    <2>3. bdCase' = [kind |-> "contract", contract |-> d, policy |-> bdCase.policy]
      BY <1>4, <2>1 DEF Reprice
    <2>4. bdDecision' = evaluate_binary_contract_decision(d, bdCase.policy)
      BY <1>4, <2>3 DEF Reprice
    <2> HIDE DEF d
    <2> QED BY <2>1, <2>2, <2>3, <2>4 DEF BetInv, DecisionAnswers
  <1>5. CASE UNCHANGED bdVars
    BY <1>5 DEF bdVars, BetInv, DecisionAnswers
  <1> QED BY <1>1, <1>2, <1>3, <1>4, <1>5 DEF bdNext

\* The properties of BetDecision and its types follow.
LEMMA BetPropertiesFollow ==
    BetInv => bdTypeOK /\ CandidatesPay /\ CheaperIsNoWorse /\ ConfidenceIsEarned /\ NoOutcomeLeaks
  <1> SUFFICES ASSUME BetInv
               PROVE  bdTypeOK /\ CandidatesPay /\ CheaperIsNoWorse /\ ConfidenceIsEarned /\ NoOutcomeLeaks
    OBVIOUS
  <1>1. bdTypeOK
    <2>1. bdCase.kind \in {"none", "contract", "confidence", "features"}
      BY DEF BetInv, DecisionAnswers, NoContract
    <2>2. bdCase.kind = "contract" =>
              bdDecision = evaluate_binary_contract_decision(bdCase.contract, bdCase.policy)
      BY DEF BetInv, DecisionAnswers, NoContract
    <2>3. \A c, policy : evaluate_binary_contract_decision(c, policy).action
                            \in {"NO_BET", "WAIT_FOR_DATA", "BET_CANDIDATE"}
      BY DEF evaluate_binary_contract_decision
    <2> QED BY <2>1, <2>2, <2>3 DEF bdTypeOK
  <1>2. bdCase.kind = "contract" =>
            /\ ContractFits(bdCase.contract) /\ PolicyFits(bdCase.policy)
            /\ bdDecision = evaluate_binary_contract_decision(bdCase.contract, bdCase.policy)
    BY DEF BetInv, DecisionAnswers, NoContract
  <1>3. CandidatesPay
    BY <1>2, EveryCandidatePays DEF CandidatesPay
  <1>4. CheaperIsNoWorse
    BY <1>2, CandidateMeans, CheaperStands DEF CheaperIsNoWorse
  <1>5. bdCase.kind = "confidence" =>
            ConfidenceFits(bdCase.confidence) /\ bdDecision = confidence_guardrail(bdCase.confidence)
    BY DEF BetInv, DecisionAnswers, NoContract
  <1>6. ConfidenceIsEarned
    <2> SUFFICES ASSUME bdCase.kind = "confidence" PROVE ConfidenceIsEarned
      BY Zenon DEF ConfidenceIsEarned
    <2>1. ConfidenceFits(bdCase.confidence) /\ bdDecision = confidence_guardrail(bdCase.confidence)
      BY <1>5
    <2>2. /\ bdDecision.high =>
                /\ ~bdCase.confidence.stale
                /\ (bdCase.confidence.backed \/ bdCase.confidence.evidence >= 2)
                /\ bdCase.confidence.spread \in -999..24 /\ bdCase.confidence.margin <= 16
                /\ bdCase.confidence.probability >= 154
          /\ bdDecision.score \in 0..ContractPayout
          /\ bdCase.confidence.probability >= 0 =>
                bdDecision.score <= bdCase.confidence.probability + 6
      BY <2>1, HighIsEarned
    <2> QED BY <2>2, Zenon DEF ConfidenceIsEarned
  <1>7. bdCase.kind = "features" =>
            /\ TreeFits(bdCase.features)
            /\ bdDecision = [leaks |-> find_lookahead_fields(bdCase.features)]
    BY DEF BetInv, DecisionAnswers, NoContract
  <1>8. NoOutcomeLeaks
    <2> SUFFICES ASSUME bdCase.kind = "features", bdDecision.leaks = {},
                        NEW p \in DOMAIN bdCase.features, NEW n \in DOMAIN p,
                        p[n] \in ForbiddenKeys
                 PROVE  n = Len(p) /\ bdCase.features[p] \in {"", "0"}
      BY DEF NoOutcomeLeaks
    <2>1. TreeFits(bdCase.features) /\ find_lookahead_fields(bdCase.features) = {}
      BY <1>7
    <2> QED BY <2>1, FirstIsFound
  <1> QED BY <1>1, <1>3, <1>4, <1>6, <1>8

-----------------------------------------------------------------------------
(* ExperimentRegistry: what the chain of hashes keeps. *)

LEMMA LongerByOne ==
    ASSUME NEW S, NEW s \in Seq(S), NEW e \in S
    PROVE  /\ Append(s, e) \in Seq(S) /\ Len(Append(s, e)) = Len(s) + 1
           /\ Append(s, e)[Len(s) + 1] = e
           /\ \A i \in 1..Len(s) : Append(s, e)[i] = s[i]
  OBVIOUS

LEMMA OneReplaced ==
    ASSUME NEW S, NEW s \in Seq(S), NEW e \in S, NEW i \in DOMAIN s
    PROVE  /\ [s EXCEPT ![i] = e] \in Seq(S) /\ Len([s EXCEPT ![i] = e]) = Len(s)
           /\ [s EXCEPT ![i] = e][i] = e
           /\ \A j \in 1..Len(s) : j # i => [s EXCEPT ![i] = e][j] = s[j]
  OBVIOUS

\* What the two recorders can record, and what an editor can make of it
Recorded == (UNION {ComparisonRecords(r) : r \in RatingReports})
              \cup {PowerRecord(r) : r \in PowerReports}
OnFile == Recorded \cup {[x EXCEPT !.decision = "inconclusive"] : x \in Recorded}
Bodies == [number : Nat, record : OnFile]
Hashes == Seq(Bodies)
Pieces == [body : Bodies, previousHash : Hashes, number : Nat, entryHash : Hashes,
           seen : Seq(Nat), whole : BOOLEAN]
Lines == Seq(Pieces)

ReadLine(rows, line) == IF Parses(line) THEN Append(rows, line[1]) ELSE rows
Reading(f, file) ==
    f = [n \in 0..Len(file) |-> IF n = 0 THEN <<>> ELSE ReadLine(f[n - 1], file[n])]

\* The loop over the lines of a file has a value after each of them.
LEMMA FilesAreRead ==
    ASSUME NEW file \in Seq(Lines)
    PROVE  \E f : Reading(f, file) /\ read_experiments(file) = f[Len(file)]
  <1> DEFINE Is(f, n) == f = [k \in 0..n |-> IF k = 0 THEN <<>> ELSE ReadLine(f[k - 1], file[k])]
             Some == {n \in Nat : \E f : Is(f, n)}
  <1>1. Len(file) \in Nat OBVIOUS
  <1>2. 0 \in Some
    <2>1. PICK g : g = [k \in 0..0 |-> <<>>] OBVIOUS
    <2>2. g = [k \in 0..0 |-> g[k]] /\ \A k \in 0..0 : k = 0 /\ g[k] = <<>> BY <2>1
    <2>3. Is(g, 0) BY <2>2
    <2> QED BY <2>3
  <1>3. ASSUME NEW n \in Nat, n \in Some PROVE n + 1 \in Some
    <2>1. PICK f : Is(f, n) BY <1>3
    <2>2. PICK g : g = [k \in 0..(n + 1) |-> IF k <= n THEN f[k] ELSE ReadLine(f[n], file[k])] OBVIOUS
    <2>3. \A k \in 0..(n + 1) : g[k] = IF k = 0 THEN <<>> ELSE ReadLine(g[k - 1], file[k])
      <3> TAKE k \in 0..(n + 1)
      <3>1. CASE k = 0 BY <2>1, <2>2, <3>1
      <3>2. CASE k # 0 /\ k <= n
        <4>1. g[k] = f[k] /\ g[k - 1] = f[k - 1] /\ k \in 0..n BY <2>2, <3>2
        <4>2. f[k] = ReadLine(f[k - 1], file[k]) BY <2>1, <3>2, <4>1
        <4> QED BY <3>2, <4>1, <4>2
      <3>3. CASE k = n + 1
        <4>1. g[k] = ReadLine(f[n], file[k]) /\ g[k - 1] = f[n] /\ k # 0 BY <2>2, <3>3
        <4> QED BY <4>1
      <3> QED BY <3>1, <3>2, <3>3
    <2>4. g = [k \in 0..(n + 1) |-> g[k]] BY <2>2
    <2>5. Is(g, n + 1) BY <2>3, <2>4
    <2> QED BY <2>5
  <1>4. \E f : Is(f, Len(file))
    <2>1. Nat \subseteq Some
      <3> HIDE DEF Some
      <3> QED BY <1>2, <1>3, CountingUp
    <2> QED BY <1>1, <2>1
  <1>5. read_experiments(file) = (CHOOSE f : Is(f, Len(file)))[Len(file)]
    BY Zenon DEF read_experiments, ReadLine
  <1>6. PICK f : f = CHOOSE h : Is(h, Len(file)) OBVIOUS
  <1>7. Is(f, Len(file))
    <2> HIDE DEF Is
    <2> QED BY <1>4, <1>6
  <1>8. Reading(f, file) BY <1>7 DEF Reading
  <1>9. read_experiments(file) = f[Len(file)] BY <1>5, <1>6
  <1> HIDE DEF Is
  <1> QED BY <1>8, <1>9

LEMMA ReadingSteps ==
    ASSUME NEW file \in Seq(Lines), NEW f, Reading(f, file)
    PROVE  /\ f[0] = <<>>
           /\ \A n \in Nat : n + 1 <= Len(file) =>
                 /\ n + 1 \in DOMAIN file /\ file[n + 1] \in Lines
                 /\ f[n + 1] = ReadLine(f[n], file[n + 1])
                 /\ Parses(file[n + 1]) => file[n + 1][1] \in Pieces
  <1>1. f[0] = <<>> BY DEF Reading
  <1>2. ASSUME NEW n \in Nat, n + 1 <= Len(file)
        PROVE  /\ n + 1 \in DOMAIN file /\ file[n + 1] \in Lines
               /\ f[n + 1] = ReadLine(f[n], file[n + 1])
               /\ Parses(file[n + 1]) => file[n + 1][1] \in Pieces
    <2>1. n + 1 \in DOMAIN file /\ file[n + 1] \in Lines /\ n + 1 \in 0..Len(file)
          /\ (n + 1) - 1 = n
      BY <1>2
    <2>2. f[n + 1] = ReadLine(f[n], file[n + 1])
      BY <2>1, <1>2 DEF Reading
    <2>3. ASSUME NEW line \in Lines, Len(line) = 1 PROVE line[1] \in Pieces
      <3>1. 1 \in DOMAIN line /\ line \in Seq(Pieces) BY <2>3 DEF Lines
      <3> QED BY <3>1, ElementsBelong
    <2> QED BY <2>1, <2>2, <2>3 DEF Parses
  <1> QED BY <1>1, <1>2

LEMMA ReadingTyped ==
    ASSUME NEW file \in Seq(Lines), NEW f, Reading(f, file)
    PROVE  \A n \in 0..Len(file) : f[n] \in Seq(Pieces) /\ Len(f[n]) <= n
  <1> DEFINE S == {n \in Nat : n <= Len(file) => f[n] \in Seq(Pieces) /\ Len(f[n]) <= n}
  <1>1. 0 \in S
    <2>1. f[0] = <<>> BY ReadingSteps
    <2>2. <<>> \in Seq(Pieces) /\ Len(<<>>) = 0 OBVIOUS
    <2>3. f[0] \in Seq(Pieces) /\ Len(f[0]) <= 0 BY <2>1, <2>2
    <2> QED BY <2>3
  <1>2. ASSUME NEW n \in Nat, n \in S PROVE n + 1 \in S
    <2> SUFFICES ASSUME n + 1 <= Len(file)
                 PROVE  f[n + 1] \in Seq(Pieces) /\ Len(f[n + 1]) <= n + 1
      OBVIOUS
    <2>1. f[n] \in Seq(Pieces) /\ Len(f[n]) <= n BY <1>2
    <2>2. f[n + 1] = ReadLine(f[n], file[n + 1]) /\ (Parses(file[n + 1]) => file[n + 1][1] \in Pieces)
      BY ReadingSteps
    <2>3. \A e \in Pieces : /\ Append(f[n], e) \in Seq(Pieces)
                            /\ Len(Append(f[n], e)) = Len(f[n]) + 1
      BY <2>1, LongerByOne
    <2>4. Len(f[n]) \in Nat BY <2>1
    <2> QED BY <2>1, <2>2, <2>3, <2>4 DEF ReadLine
  <1>3. Nat \subseteq S
    <2> HIDE DEF S
    <2> QED BY <1>1, <1>2, CountingUp
  <1> QED BY <1>3

\* Two files are read alike up to where their lines that parse are the same.
LEMMA ReadingsAgree ==
    ASSUME NEW a \in Seq(Lines), NEW f, Reading(f, a),
           NEW b \in Seq(Lines), NEW g, Reading(g, b),
           NEW m \in Nat, m <= Len(a), m <= Len(b),
           \A i \in 1..m : /\ Parses(a[i]) <=> Parses(b[i])
                           /\ Parses(a[i]) => a[i][1] = b[i][1]
    PROVE  f[m] = g[m]
  <1> DEFINE S == {n \in Nat : n <= m => f[n] = g[n]}
  <1>1. 0 \in S BY ReadingSteps
  <1>2. ASSUME NEW n \in Nat, n \in S PROVE n + 1 \in S
    <2> SUFFICES ASSUME n + 1 <= m PROVE f[n + 1] = g[n + 1]
      OBVIOUS
    <2>1. f[n] = g[n] /\ n + 1 \in 1..m /\ n + 1 <= Len(a) /\ n + 1 <= Len(b) BY <1>2
    <2>2. f[n + 1] = ReadLine(f[n], a[n + 1])
      BY <2>1, ReadingSteps
    <2>3. g[n + 1] = ReadLine(g[n], b[n + 1])
      BY <2>1, ReadingSteps
    <2>4. (Parses(a[n + 1]) <=> Parses(b[n + 1])) /\ (Parses(a[n + 1]) => a[n + 1][1] = b[n + 1][1])
      BY <2>1
    <2> QED BY <2>1, <2>2, <2>3, <2>4 DEF ReadLine
  <1>3. Nat \subseteq S
    <2> HIDE DEF S
    <2> QED BY <1>1, <1>2, CountingUp
  <1> QED BY <1>3

\* What a file with a line more is read as.
LEMMA AppendedLineIsRead ==
    ASSUME NEW file \in Seq(Lines), NEW line \in Lines
    PROVE  /\ Append(file, line) \in Seq(Lines)
           /\ read_experiments(Append(file, line)) = ReadLine(read_experiments(file), line)
  <1> DEFINE more == Append(file, line)
             m == Len(file)
  <1>1. more \in Seq(Lines) /\ Len(more) = m + 1 /\ more[m + 1] = line
        /\ \A i \in 1..m : more[i] = file[i]
    BY LongerByOne
  <1>2. m \in Nat OBVIOUS
  <1> HIDE DEF more
  <1>3. PICK f : Reading(f, file) /\ read_experiments(file) = f[m] BY FilesAreRead
  <1>4. PICK g : Reading(g, more) /\ read_experiments(more) = g[m + 1] BY <1>1, FilesAreRead
  <1>5. f[m] = g[m]
    <2>1. m <= Len(file) /\ m <= Len(more) BY <1>1, <1>2
    <2> QED BY <1>1, <1>2, <1>3, <1>4, <2>1, ReadingsAgree
  <1>6. g[m + 1] = ReadLine(g[m], more[m + 1])
    <2>1. m + 1 <= Len(more) BY <1>1, <1>2
    <2> QED BY <1>1, <1>2, <1>4, <2>1, ReadingSteps
  <1> QED BY <1>1, <1>3, <1>4, <1>5, <1>6 DEF more

\* A line that does not parse is read like any other one that does not.
LEMMA TornLineIsRead ==
    ASSUME NEW file \in Seq(Lines), NEW line \in Lines, NEW i \in DOMAIN file,
           ~Parses(file[i]), ~Parses(line)
    PROVE  /\ [file EXCEPT ![i] = line] \in Seq(Lines)
           /\ read_experiments([file EXCEPT ![i] = line]) = read_experiments(file)
  <1> DEFINE other == [file EXCEPT ![i] = line]
             m == Len(file)
  <1>1. other \in Seq(Lines) /\ Len(other) = m /\ other[i] = line
        /\ \A j \in 1..m : j # i => other[j] = file[j]
    BY OneReplaced
  <1>2. m \in Nat OBVIOUS
  <1> HIDE DEF other
  <1>3. PICK f : Reading(f, file) /\ read_experiments(file) = f[m] BY FilesAreRead
  <1>4. PICK g : Reading(g, other) /\ read_experiments(other) = g[m] BY <1>1, FilesAreRead
  <1>5. \A j \in 1..m : /\ Parses(file[j]) <=> Parses(other[j])
                        /\ Parses(file[j]) => file[j][1] = other[j][1]
    BY <1>1
  <1>6. f[m] = g[m]
    <2>1. m <= Len(file) /\ m <= Len(other) BY <1>1, <1>2
    <2> QED BY <1>1, <1>2, <1>3, <1>4, <1>5, <2>1, ReadingsAgree
  <1> QED BY <1>1, <1>3, <1>4, <1>6 DEF other

\* The rows that were read, with the lines they came from
Places(pos, rows, file, n) ==
    /\ pos \in [1..Len(rows) -> 1..n]
    /\ \A k \in 1..Len(rows) : Parses(file[pos[k]]) /\ rows[k] = file[pos[k]][1]
    /\ \A k, l \in 1..Len(rows) : k < l => pos[k] < pos[l]
    /\ \A i \in 1..n : Parses(file[i]) => \E k \in 1..Len(rows) : pos[k] = i

LEMMA PlacesGrow ==
    ASSUME NEW file \in Seq(Lines), NEW n \in Nat, n + 1 <= Len(file),
           NEW rows \in Seq(Pieces), NEW pos, Places(pos, rows, file, n),
           Parses(file[n + 1]) => file[n + 1][1] \in Pieces
    PROVE  \E p : Places(p, ReadLine(rows, file[n + 1]), file, n + 1)
  <1>1. CASE ~Parses(file[n + 1])
    <2>1. pos \in [1..Len(rows) -> 1..(n + 1)] BY DEF Places
    <2>2. \A i \in 1..(n + 1) : Parses(file[i]) => \E k \in 1..Len(rows) : pos[k] = i
      BY <1>1 DEF Places
    <2>3. Places(pos, rows, file, n + 1) BY <2>1, <2>2 DEF Places
    <2> QED BY <1>1, <2>3 DEF ReadLine
  <1>2. CASE Parses(file[n + 1])
    <2> DEFINE more == Append(rows, file[n + 1][1])
               m == Len(rows)
               p == [k \in 1..(m + 1) |-> IF k = m + 1 THEN n + 1 ELSE pos[k]]
    <2>1. /\ Len(more) = m + 1 /\ more[m + 1] = file[n + 1][1]
          /\ \A k \in 1..m : more[k] = rows[k]
      BY <1>2, LongerByOne
    <2>2. m \in Nat /\ pos \in [1..m -> 1..n] BY DEF Places
    <2>3. p[m + 1] = n + 1 /\ \A k \in 1..m : p[k] = pos[k] /\ p[k] \in 1..n
      BY <2>2
    <2>4. p \in [1..(m + 1) -> 1..(n + 1)] BY <2>2
    <2> HIDE DEF more, p
    <2>5. \A k \in 1..(m + 1) : Parses(file[p[k]]) /\ more[k] = file[p[k]][1]
      <3> TAKE k \in 1..(m + 1)
      <3>1. k = m + 1 \/ k \in 1..m BY <2>2
      <3> QED BY <3>1, <1>2, <2>1, <2>3 DEF Places
    <2>6. \A k, l \in 1..(m + 1) : k < l => p[k] < p[l]
      <3> TAKE k, l \in 1..(m + 1)
      <3> HIDE DEF m
      <3>1. m \in Nat BY <2>2
      <3>2. k < l => k \in 1..m /\ (l = m + 1 \/ l \in 1..m) BY <3>1
      <3> QED BY <3>2, <2>3 DEF Places, m
    <2>7. \A i \in 1..(n + 1) : Parses(file[i]) => \E k \in 1..(m + 1) : p[k] = i
      <3> TAKE i \in 1..(n + 1)
      <3>1. CASE i = n + 1
        <4>1. m + 1 \in 1..(m + 1) BY <2>2
        <4> QED BY <3>1, <4>1, <2>3
      <3>2. CASE i \in 1..n
        <4>1. Parses(file[i]) => \E k \in 1..m : pos[k] = i BY <3>2 DEF Places
        <4>2. \A k \in 1..m : k \in 1..(m + 1) BY <2>2
        <4> QED BY <4>1, <4>2, <2>3
      <3> QED BY <3>1, <3>2
    <2>8. Places(p, more, file, n + 1)
      BY <2>1, <2>4, <2>5, <2>6, <2>7 DEF Places
    <2> QED BY <1>2, <2>8 DEF more, ReadLine
  <1> QED BY <1>1, <1>2

LEMMA RowsArePlaced ==
    ASSUME NEW file \in Seq(Lines)
    PROVE  /\ read_experiments(file) \in Seq(Pieces)
           /\ Len(read_experiments(file)) <= Len(file)
           /\ \E pos : Places(pos, read_experiments(file), file, Len(file))
  <1>1. PICK f : Reading(f, file) /\ read_experiments(file) = f[Len(file)] BY FilesAreRead
  <1>2. \A n \in 0..Len(file) : f[n] \in Seq(Pieces) /\ Len(f[n]) <= n BY <1>1, ReadingTyped
  <1> DEFINE S == {n \in Nat : n <= Len(file) => \E pos : Places(pos, f[n], file, n)}
  <1>3. 0 \in S
    <2>1. f[0] = <<>> BY <1>1, ReadingSteps
    <2>2. PICK pos : pos = [k \in 1..0 |-> 0] OBVIOUS
    <2>3. Len(<<>>) = 0 OBVIOUS
    <2>4. pos \in [1..0 -> 1..0] BY <2>2
    <2>5. Places(pos, <<>>, file, 0) BY <2>3, <2>4 DEF Places
    <2> QED BY <2>1, <2>5
  <1>4. ASSUME NEW n \in Nat, n \in S PROVE n + 1 \in S
    <2> SUFFICES ASSUME n + 1 <= Len(file) PROVE \E pos : Places(pos, f[n + 1], file, n + 1)
      OBVIOUS
    <2>1. PICK pos : Places(pos, f[n], file, n) BY <1>4
    <2>2. f[n] \in Seq(Pieces) BY <1>2
    <2>3. f[n + 1] = ReadLine(f[n], file[n + 1]) /\ (Parses(file[n + 1]) => file[n + 1][1] \in Pieces)
      BY <1>1, ReadingSteps
    <2> QED BY <2>1, <2>2, <2>3, PlacesGrow
  <1>5. Nat \subseteq S
    <2> HIDE DEF S
    <2> QED BY <1>3, <1>4, CountingUp
  <1>6. Len(file) \in Nat OBVIOUS
  <1> QED BY <1>1, <1>2, <1>5, <1>6

\* A piece joins a line without an end, or begins one: _append_line.
LEMMA AppendedPieceIsRead ==
    ASSUME NEW file \in Seq(Lines), \A i \in DOMAIN file : Len(file[i]) >= 1,
           NEW piece \in Pieces
    PROVE  LET next == AppendPiece(file, piece)
           IN  /\ next \in Seq(Lines)
               /\ Unended(next) <=> ~piece.whole
               /\ Unended(file) \/ ~piece.whole => read_experiments(next) = read_experiments(file)
               /\ ~Unended(file) /\ piece.whole =>
                     read_experiments(next) = Append(read_experiments(file), piece)
               /\ \A i \in DOMAIN next :
                     \/ i \in DOMAIN file /\ next[i] = file[i]
                     \/ /\ Unended(file) /\ i \in DOMAIN file /\ ~Parses(file[i])
                        /\ ~Parses(next[i]) /\ next[i] = Append(file[i], piece)
                     \/ i = Len(file) + 1 /\ next[i] = <<piece>>
               /\ Len(next) >= Len(file)
  <1> DEFINE next == AppendPiece(file, piece)
             m == Len(file)
  <1>1. m \in Nat /\ DOMAIN file = 1..m OBVIOUS
  <1>2. CASE Unended(file)
    <2> DEFINE old == file[m]
               line == Append(old, piece)
    <2>1. m \in DOMAIN file /\ old \in Lines /\ Len(old) >= 1 /\ ~old[Len(old)].whole
      <3>1. m >= 1 BY <1>1, <1>2 DEF Unended
      <3> QED BY <3>1, <1>1, <1>2 DEF Unended, Last
    <2>2. /\ line \in Lines /\ Len(line) = Len(old) + 1 /\ line[Len(old) + 1] = piece
      BY <2>1, LongerByOne DEF Lines
    <2>3. ~Parses(old) /\ ~Parses(line) BY <2>1, <2>2 DEF Parses, Lines
    <2>4. next = [file EXCEPT ![m] = line] BY <1>2 DEF AppendPiece
    <2> HIDE DEF next, line
    <2>5. next \in Seq(Lines) /\ read_experiments(next) = read_experiments(file)
      BY <2>1, <2>2, <2>3, <2>4, TornLineIsRead
    <2>6. Len(next) = m /\ DOMAIN next = 1..m /\ next[m] = line
          /\ \A i \in 1..m : i # m => next[i] = file[i]
      BY <2>1, <2>2, <2>4, <1>1, OneReplaced
    <2>7. Unended(next) <=> ~piece.whole
      <3>1. next # <<>>
        <4>1. m >= 1 BY <2>1, <1>1
        <4>2. Len(next) = m /\ m \in Nat BY <2>6, <1>1, Zenon
        <4>3. \A x \in Nat : x >= 1 => x # 0 OBVIOUS
        <4>4. Len(next) # 0 BY <4>1, <4>2, <4>3
        <4>5. Len(<<>>) = 0 OBVIOUS
        <4> QED BY <4>4, <4>5
      <3>2. Last(Last(next)) = piece BY <2>2, <2>6, Zenon DEF Last
      <3> QED BY <3>1, <3>2 DEF Unended
    <2>8. \A i \in DOMAIN next :
              \/ i \in DOMAIN file /\ next[i] = file[i]
              \/ /\ i \in DOMAIN file /\ ~Parses(file[i])
                 /\ ~Parses(next[i]) /\ next[i] = Append(file[i], piece)
      <3> TAKE i \in DOMAIN next
      <3>1. i \in 1..m BY <2>6, Zenon
      <3>2. CASE i = m BY <3>2, <2>1, <2>3, <2>6 DEF line
      <3>3. CASE i # m BY <3>1, <3>3, <2>6, <1>1, Zenon
      <3> QED BY <3>2, <3>3
    <2>9. Len(next) >= Len(file)
      <3>1. Len(next) = m BY <2>6, Zenon
      <3>2. \A x \in Nat : x >= x OBVIOUS
      <3> QED BY <3>1, <3>2, <1>1
    <2> QED BY <1>2, <2>5, <2>7, <2>8, <2>9 DEF next
  <1>3. CASE ~Unended(file)
    <2> DEFINE line == <<piece>>
    <2>1. line \in Lines /\ Len(line) = 1 /\ line[1] = piece BY DEF Lines
    <2>2. Parses(line) <=> piece.whole BY <2>1 DEF Parses
    <2>3. next = Append(file, line) BY <1>3 DEF AppendPiece
    <2> HIDE DEF next, line
    <2>4. next \in Seq(Lines) /\ read_experiments(next) = ReadLine(read_experiments(file), line)
      BY <2>1, <2>3, AppendedLineIsRead
    <2>5. Len(next) = m + 1 /\ DOMAIN next = 1..(m + 1) /\ next[m + 1] = line
          /\ \A i \in 1..m : next[i] = file[i]
      BY <2>1, <2>3, LongerByOne, <1>1
    <2>6. Unended(next) <=> ~piece.whole
      <3>1. next # <<>> BY <2>5, <1>1
      <3>2. Last(Last(next)) = piece BY <2>1, <2>5 DEF Last
      <3> QED BY <3>1, <3>2 DEF Unended
    <2>7. \A i \in DOMAIN next : \/ i \in DOMAIN file /\ next[i] = file[i]
                                 \/ i = m + 1 /\ next[i] = <<piece>>
      <3> TAKE i \in DOMAIN next
      <3>1. i \in 1..m \/ i = m + 1 BY <2>5, <1>1
      <3>2. CASE i \in 1..m BY <3>2, <2>5, <1>1
      <3>3. CASE i = m + 1 BY <3>3, <2>5 DEF line
      <3> QED BY <3>1, <3>2, <3>3
    <2> QED BY <1>1, <1>3, <2>1, <2>2, <2>4, <2>5, <2>6, <2>7 DEF next, ReadLine
  <1> QED BY <1>2, <1>3

-----------------------------------------------------------------------------
RowNumbers(rows) == [i \in DOMAIN rows |-> rows[i].number]
HashNumbers(hash) == {hash[i].number : i \in DOMAIN hash}

\* An entry has the hash of its body, or of the body it had before an edit; what
\* its recorder had seen is behind that hash unless recorders overlapped.
EntryFits(e, tampered, overlaps) ==
    /\ e.body.number = e.number
    /\ \E b \in Bodies : /\ b.number = e.number /\ e.entryHash = Append(e.previousHash, b)
                         /\ tampered = 0 => b = e.body
    /\ tampered = 0 => e.body.record \in Recorded /\ ValidRecord(e.body.record)
    /\ ~overlaps => ToSet(e.seen) \subseteq HashNumbers(e.previousHash)
FileFits(file, tampered, overlaps) ==
    /\ \A i \in DOMAIN file : Parses(file[i]) => EntryFits(file[i][1], tampered, overlaps)
    /\ ~overlaps =>
          \A i, j \in DOMAIN file : i < j /\ Parses(file[i]) /\ Parses(file[j]) =>
              file[i][1].number \in ToSet(file[j][1].seen)

RecorderTyped(r) ==
    \/ r = IdleRecorder
    \/ r.at = "next" /\ r.left \in Seq(Recorded) /\ r.left # <<>>
    \/ /\ r.at = "append" /\ r.left \in Seq(Recorded)
       /\ r.body \in Recorded /\ ValidRecord(r.body)
       /\ r.previousHash \in Hashes /\ r.seen \in Seq(Nat)
\* The hash a recorder has read is that of the last row it has seen.
RecorderFits(r, rows, tampered, overlaps) ==
    r.at = "append" =>
        /\ ~overlaps => ToSet(r.seen) \subseteq HashNumbers(r.previousHash)
        /\ tampered = 0 =>
              /\ Len(r.seen) <= Len(rows)
              /\ r.previousHash = IF r.seen = <<>> THEN Genesis ELSE rows[Len(r.seen)].entryHash

Appending == {p \in Recorders : erRecorder[p].at = "append"}
RegistryTyped ==
    /\ erFile \in Seq(Lines) /\ \A i \in DOMAIN erFile : Len(erFile[i]) \in 1..erCount
    /\ erCount \in Nat /\ erAcked \subseteq 1..erCount
    /\ erDeaths \in Nat /\ erTampered \in Nat /\ erOverlaps \in BOOLEAN
    /\ erRecorder = [p \in Recorders |-> erRecorder[p]]
    /\ \A p \in Recorders : RecorderTyped(erRecorder[p])
    /\ erCount + Cardinality(Appending) <= MaxLines + Cardinality(Recorders)
RegistryFits ==
    /\ FileFits(erFile, erTampered, erOverlaps)
    /\ \A p \in Recorders :
          RecorderFits(erRecorder[p], read_experiments(erFile), erTampered, erOverlaps)
    /\ erTampered = 0 /\ ~erOverlaps => ChainValid(erFile)
    /\ erTampered = 0 =>
          Cardinality(erAcked \ Numbers(erFile)) + (IF Unended(erFile) THEN 1 ELSE 0) <= erDeaths
RegistryInv == RegistryTyped /\ RegistryFits

\* What the recorders can record says no more than its interval: record_experiment's
\* check for what is accepted, the callers for what is inconclusive.
LEMMA RecordsAreEarned ==
    ASSUME NEW x \in Recorded, ValidRecord(x)
    PROVE  /\ x.decision = "accepted" => ~HoldsZero(x.interval)
           /\ x.decision = "inconclusive" => HoldsZero(x.interval)
  <1>1. x.decision = "accepted" => ~HoldsZero(x.interval) BY DEF ValidRecord
  <1>2. ASSUME NEW r \in PowerReports, x = PowerRecord(r) PROVE x.decision # "inconclusive"
    BY <1>2 DEF PowerRecord
  <1>3. ASSUME NEW report \in RatingReports, x \in ComparisonRecords(report),
               x.decision = "inconclusive"
        PROVE  HoldsZero(x.interval)
    <2>1. PICK c \in report :
             /\ c.verdict \in {"model_better", "baseline_better", "inconclusive"}
             /\ x = [hypothesis |-> c.baseline, effect |-> c.mean, interval |-> Interval(c),
                     size |-> c.size,
                     decision |-> CASE c.verdict = "model_better" -> "accepted"
                                    [] c.verdict = "baseline_better" -> "rejected"
                                    [] c.verdict = "inconclusive" -> "inconclusive"]
      BY <1>3 DEF ComparisonRecords
    <2>2. c.verdict = "inconclusive" BY <1>3, <2>1
    <2>3. c.low <= 0 /\ 0 <= c.high BY <2>2, RegistryAssumption
    <2> QED BY <2>1, <2>3 DEF Interval, HoldsZero
  <1> QED BY <1>1, <1>2, <1>3 DEF Recorded

LEMMA RegistryStarts == erInit => RegistryInv
  <1> SUFFICES ASSUME erInit PROVE RegistryInv
    OBVIOUS
  <1>1. erFile = <<>> /\ erFile \in Seq(Lines) /\ DOMAIN erFile = {} BY DEF erInit
  <1>2. read_experiments(erFile) = <<>>
    <2>1. PICK f : Reading(f, erFile) /\ read_experiments(erFile) = f[Len(erFile)] BY <1>1, FilesAreRead
    <2>2. Len(erFile) = 0 BY <1>1
    <2> QED BY <1>1, <2>1, <2>2, ReadingSteps
  <1>3. Appending = {} BY DEF erInit, Appending, IdleRecorder
  <1>4. Cardinality({}) = 0 /\ Cardinality(Recorders) \in Nat
    BY FS_EmptySet, FS_CardinalityType, RegistryAssumption
  <1>5. RegistryTyped
    <2>1. erCount + Cardinality(Appending) <= MaxLines + Cardinality(Recorders)
      <3>1. erCount = 0 /\ Cardinality(Appending) = 0 /\ MaxLines \in Nat
        BY <1>3, <1>4, RegistryAssumption DEF erInit
      <3> QED BY <3>1, <1>4
    <2> QED BY <1>1, <2>1 DEF erInit, RegistryTyped, RecorderTyped
  <1>6. ChainValid(erFile) /\ Numbers(erFile) = {}
    BY <1>2 DEF ChainValid, verify_registry, Numbers
  <1>7. RegistryFits
    <2>1. erAcked \ Numbers(erFile) = {} BY DEF erInit
    <2>2. Cardinality(erAcked \ Numbers(erFile)) = 0 /\ ~Unended(erFile) /\ erDeaths = 0
      BY <2>1, <1>4, <1>1 DEF Unended, erInit
    <2>3. Cardinality(erAcked \ Numbers(erFile)) + (IF Unended(erFile) THEN 1 ELSE 0) <= erDeaths
      BY <2>2
    <2>4. FileFits(erFile, erTampered, erOverlaps) BY <1>1 DEF FileFits
    <2>5. \A p \in Recorders : RecorderFits(erRecorder[p], read_experiments(erFile), erTampered, erOverlaps)
      BY DEF erInit, RecorderFits, IdleRecorder
    <2> QED BY <2>3, <2>4, <2>5, <1>6 DEF RegistryFits
  <1> QED BY <1>5, <1>7 DEF RegistryInv

-----------------------------------------------------------------------------
LEMMA EntriesStayFit ==
    ASSUME NEW e, NEW t, NEW t2, NEW o, NEW o2, EntryFits(e, t, o), o => o2, t2 = 0 => t = 0
    PROVE  EntryFits(e, t2, o2)
  BY DEF EntryFits

\* Every row was read from a line, and every line that parses is a row.
LEMMA RowsAreLines ==
    ASSUME NEW file \in Seq(Lines)
    PROVE  LET rows == read_experiments(file)
           IN  /\ rows \in Seq(Pieces)
               /\ \A k \in DOMAIN rows : \E i \in DOMAIN file : Parses(file[i]) /\ rows[k] = file[i][1]
               /\ \A i \in DOMAIN file : Parses(file[i]) =>
                      \E k \in DOMAIN rows : rows[k] = file[i][1]
  <1> DEFINE rows == read_experiments(file)
  <1>1. rows \in Seq(Pieces) BY RowsArePlaced
  <1>2. PICK pos : Places(pos, rows, file, Len(file)) BY RowsArePlaced
  <1>3. DOMAIN rows = 1..Len(rows) /\ DOMAIN file = 1..Len(file) BY <1>1
  <1> HIDE DEF rows
  <1>4. \A k \in DOMAIN rows : \E i \in DOMAIN file : Parses(file[i]) /\ rows[k] = file[i][1]
    BY <1>2, <1>3 DEF Places
  <1>5. \A i \in DOMAIN file : Parses(file[i]) => \E k \in DOMAIN rows : rows[k] = file[i][1]
    BY <1>2, <1>3 DEF Places
  <1> QED BY <1>1, <1>4, <1>5 DEF rows

\* Without an overlap the last hash commits to every row.
LEMMA LastHashCovers ==
    ASSUME NEW file \in Seq(Lines), NEW t, FileFits(file, t, FALSE)
    PROVE  \A k \in DOMAIN read_experiments(file) :
              read_experiments(file)[k].number \in HashNumbers(LastHash(read_experiments(file)))
  <1> DEFINE rows == read_experiments(file)
             m == Len(rows)
  <1>1. rows \in Seq(Pieces) BY RowsArePlaced
  <1>2. PICK pos : Places(pos, rows, file, Len(file)) BY RowsArePlaced
  <1>3. DOMAIN rows = 1..m /\ DOMAIN file = 1..Len(file) /\ m \in Nat BY <1>1
  <1> HIDE DEF rows
  <1> SUFFICES ASSUME NEW k \in DOMAIN rows
               PROVE  rows[k].number \in HashNumbers(LastHash(rows))
    BY DEF rows
  <1>4. m \in DOMAIN rows /\ rows # <<>> /\ Last(rows) = rows[m] BY <1>1, <1>3 DEF Last
  <1>5. rows[m] \in Pieces BY <1>1, <1>4, ElementsBelong
  <1>6. EntryFits(rows[m], t, FALSE)
    <2>1. pos[m] \in DOMAIN file /\ Parses(file[pos[m]]) /\ rows[m] = file[pos[m]][1]
      BY <1>2, <1>3, <1>4 DEF Places
    <2> QED BY <2>1 DEF FileFits
  <1>7. PICK b \in Bodies : b.number = rows[m].number /\ rows[m].entryHash = Append(rows[m].previousHash, b)
    BY <1>6 DEF EntryFits
  <1> DEFINE old == rows[m].previousHash
             hash == rows[m].entryHash
  <1>8. old \in Seq(Bodies) BY <1>5 DEF Pieces, Hashes
  <1>9. /\ hash \in Seq(Bodies) /\ Len(hash) = Len(old) + 1 /\ hash[Len(old) + 1] = b
        /\ \A i \in 1..Len(old) : hash[i] = old[i]
    BY <1>7, <1>8, LongerByOne
  <1>10. Len(old) \in Nat /\ DOMAIN old = 1..Len(old) /\ DOMAIN hash = 1..(Len(old) + 1)
    BY <1>8, <1>9
  <1> HIDE DEF old, hash
  <1>11. HashNumbers(old) \subseteq HashNumbers(hash) /\ b.number \in HashNumbers(hash)
    <2>1. \A i \in DOMAIN old : i \in DOMAIN hash /\ hash[i] = old[i] BY <1>9, <1>10
    <2>2. Len(old) + 1 \in DOMAIN hash BY <1>10
    <2> QED BY <2>1, <2>2, <1>9 DEF HashNumbers
  <1>12. CASE k = m BY <1>12, <1>7, <1>11, <1>4 DEF hash, LastHash
  <1>13. CASE k # m
    <2>1. k \in 1..m /\ m \in 1..m /\ k < m BY <1>3, <1>4, <1>13
    <2>2. /\ pos[k] \in DOMAIN file /\ pos[m] \in DOMAIN file /\ pos[k] < pos[m]
          /\ Parses(file[pos[k]]) /\ Parses(file[pos[m]])
          /\ rows[k] = file[pos[k]][1] /\ rows[m] = file[pos[m]][1]
      BY <1>2, <1>3, <2>1 DEF Places
    <2>3. rows[k].number \in ToSet(rows[m].seen) BY <2>2 DEF FileFits
    <2>4. rows[k].number \in HashNumbers(old) BY <2>3, <1>6 DEF EntryFits, old
    <2> QED BY <2>4, <1>11, <1>4 DEF hash, LastHash
  <1> QED BY <1>12, <1>13

LEMMA ChainGrows ==
    ASSUME NEW rows \in Seq(Pieces), NEW e \in Pieces, verify_registry(rows),
           e.previousHash = LastHash(rows), e.entryHash = EntryHash(e.body, e.previousHash)
    PROVE  verify_registry(Append(rows, e))
  <1> DEFINE more == Append(rows, e)
             m == Len(rows)
  <1>1. more \in Seq(Pieces) /\ Len(more) = m + 1 /\ more[m + 1] = e
        /\ \A i \in 1..m : more[i] = rows[i]
    BY LongerByOne
  <1>2. m \in Nat /\ DOMAIN rows = 1..m OBVIOUS
  <1>3. DOMAIN more = 1..(m + 1) BY <1>1
  <1>4. m = 0 <=> rows = <<>> OBVIOUS
  <1>5. LastHash(rows) = IF m = 0 THEN Genesis ELSE rows[m].entryHash BY <1>4 DEF LastHash, Last
  <1> HIDE DEF more
  <1> SUFFICES ASSUME NEW i \in DOMAIN more
               PROVE  /\ more[i].previousHash = IF i = 1 THEN Genesis ELSE more[i - 1].entryHash
                      /\ more[i].entryHash = EntryHash(more[i].body, more[i].previousHash)
    BY DEF more, verify_registry
  <1>6. CASE i \in 1..m
    <2>1. more[i] = rows[i] /\ (i # 1 => i - 1 \in 1..m /\ more[i - 1] = rows[i - 1]) BY <1>1, <1>2, <1>6
    <2> QED BY <2>1, <1>2, <1>6 DEF verify_registry
  <1>7. CASE i = m + 1
    <2>1. more[i] = e BY <1>1, <1>7
    <2>2. IF i = 1 THEN m = 0 ELSE m # 0 /\ i - 1 = m /\ more[i - 1] = rows[m] BY <1>1, <1>2, <1>7
    <2> QED BY <2>1, <2>2, <1>5
  <1> QED BY <1>6, <1>7, <1>3, <1>2

\* A piece that is written leaves the file fit for what it has become.
LEMMA WrittenFileFits ==
    ASSUME NEW file \in Seq(Lines), \A i \in DOMAIN file : Len(file[i]) >= 1,
           NEW piece \in Pieces, NEW t, NEW o, NEW o2, o => o2,
           FileFits(file, t, o),
           piece.whole => EntryFits(piece, t, o2),
           piece.whole /\ ~o2 => piece.seen = RowNumbers(read_experiments(file))
    PROVE  FileFits(AppendPiece(file, piece), t, o2)
  <1> DEFINE next == AppendPiece(file, piece)
             m == Len(file)
  <1>1. /\ next \in Seq(Lines)
        /\ \A i \in DOMAIN next :
              \/ i \in DOMAIN file /\ next[i] = file[i]
              \/ ~Parses(next[i])
              \/ i = m + 1 /\ next[i] = <<piece>>
    BY AppendedPieceIsRead
  <1>2. m \in Nat /\ DOMAIN file = 1..m OBVIOUS
  <1>3. Parses(<<piece>>) <=> piece.whole BY DEF Parses
  <1>4. \A i \in DOMAIN next : Parses(next[i]) =>
            \/ i \in DOMAIN file /\ next[i] = file[i]
            \/ i = m + 1 /\ next[i] = <<piece>> /\ piece.whole
    <2> HIDE DEF next
    <2> QED BY <1>1, <1>3
  <1> HIDE DEF next
  <1>5. \A i \in DOMAIN next : Parses(next[i]) => EntryFits(next[i][1], t, o2)
    <2> SUFFICES ASSUME NEW i \in DOMAIN next, Parses(next[i]) PROVE EntryFits(next[i][1], t, o2)
      OBVIOUS
    <2>1. CASE i \in DOMAIN file /\ next[i] = file[i]
      <3>1. EntryFits(file[i][1], t, o) BY <2>1 DEF FileFits
      <3> QED BY <2>1, <3>1, EntriesStayFit
    <2>2. CASE i = m + 1 /\ next[i] = <<piece>> /\ piece.whole BY <2>2
    <2> QED BY <2>1, <2>2, <1>4
  <1>6. ASSUME ~o2, NEW i \in DOMAIN next, NEW j \in DOMAIN next, i < j, Parses(next[i]), Parses(next[j])
        PROVE  next[i][1].number \in ToSet(next[j][1].seen)
    <2>1. i \in DOMAIN file /\ next[i] = file[i]
      <3>1. CASE i = m + 1
        <4>1. j \in 1..m \/ j = m + 1 BY <1>2, <1>4, <1>6
        <4> QED BY <4>1, <3>1, <1>2, <1>6
      <3> QED BY <3>1, <1>4, <1>6
    <2>2. CASE j \in DOMAIN file /\ next[j] = file[j] BY <2>1, <2>2, <1>6 DEF FileFits
    <2>3. CASE j = m + 1 /\ next[j] = <<piece>> /\ piece.whole
      <3> DEFINE rows == read_experiments(file)
      <3>1. PICK k \in DOMAIN rows : rows[k] = file[i][1] BY <2>1, <1>6, RowsAreLines
      <3>2. piece.seen = RowNumbers(rows) BY <2>3, <1>6
      <3> HIDE DEF rows
      <3>3. piece.seen[k] = file[i][1].number /\ k \in DOMAIN piece.seen BY <3>1, <3>2 DEF RowNumbers
      <3>4. file[i][1].number \in ToSet(piece.seen) BY <3>3 DEF ToSet
      <3> QED BY <3>4, <2>1, <2>3
    <2> QED BY <2>2, <2>3, <1>4, <1>6
  <1>7. FileFits(next, t, o2) BY <1>5, <1>6 DEF FileFits
  <1> QED BY <1>7 DEF next

-----------------------------------------------------------------------------
LEMMA NumbersOfRows ==
    ASSUME NEW rows \in Seq(Pieces)
    PROVE  /\ RowNumbers(rows) \in Seq(Nat) /\ Len(RowNumbers(rows)) = Len(rows)
           /\ RowNumbers(rows) = <<>> <=> rows = <<>>
           /\ LastHash(rows) \in Hashes
           /\ LastHash(rows) = IF rows = <<>> THEN Genesis ELSE rows[Len(rows)].entryHash
  <1>1. \A i \in DOMAIN rows : rows[i].number \in Nat /\ rows[i].entryHash \in Hashes
    <2> TAKE i \in DOMAIN rows
    <2>1. rows[i] \in Pieces BY ElementsBelong
    <2> QED BY <2>1 DEF Pieces
  <1>2. DOMAIN rows = 1..Len(rows) /\ Len(rows) \in Nat OBVIOUS
  <1>3. RowNumbers(rows) \in Seq(Nat) /\ Len(RowNumbers(rows)) = Len(rows)
    BY <1>1, <1>2 DEF RowNumbers
  <1>4. RowNumbers(rows) = <<>> <=> rows = <<>> BY <1>3
  <1>5. LastHash(rows) = IF rows = <<>> THEN Genesis ELSE rows[Len(rows)].entryHash
    BY DEF LastHash, Last
  <1>6. LastHash(rows) \in Hashes
    <2>1. CASE rows = <<>>
      <3>1. <<>> \in Seq(Bodies) OBVIOUS
      <3> QED BY <3>1, <2>1, <1>5 DEF Genesis, Hashes
    <2>2. CASE rows # <<>>
      <3>1. Len(rows) \in DOMAIN rows BY <2>2
      <3> QED BY <3>1, <2>2, <1>1, <1>5
    <2> QED BY <2>1, <2>2
  <1> QED BY <1>3, <1>4, <1>5, <1>6

\* What a recorder has read stays read while rows are only added.
LEMMA RecorderStaysFit ==
    ASSUME NEW r, RecorderTyped(r), NEW rows \in Seq(Pieces), NEW more \in Seq(Pieces),
           NEW t, NEW o, NEW o2, o => o2, RecorderFits(r, rows, t, o),
           Len(rows) <= Len(more), \A i \in 1..Len(rows) : more[i] = rows[i]
    PROVE  RecorderFits(r, more, t, o2)
  <1> SUFFICES ASSUME r.at = "append"
               PROVE  /\ ~o2 => ToSet(r.seen) \subseteq HashNumbers(r.previousHash)
                      /\ t = 0 =>
                           /\ Len(r.seen) <= Len(more)
                           /\ r.previousHash = IF r.seen = <<>> THEN Genesis
                                               ELSE more[Len(r.seen)].entryHash
    BY DEF RecorderFits
  <1>1. ~o2 => ToSet(r.seen) \subseteq HashNumbers(r.previousHash) BY DEF RecorderFits
  <1>2. r.seen \in Seq(Nat) BY DEF RecorderTyped, IdleRecorder
  <1>3. Len(rows) \in Nat /\ Len(more) \in Nat /\ Len(r.seen) \in Nat BY <1>2
  <1>4. r.seen # <<>> => Len(r.seen) # 0 BY <1>2
  <1>5. ASSUME t = 0
        PROVE  /\ Len(r.seen) <= Len(more)
               /\ r.previousHash = IF r.seen = <<>> THEN Genesis ELSE more[Len(r.seen)].entryHash
    <2>1. /\ Len(r.seen) <= Len(rows)
          /\ r.previousHash = IF r.seen = <<>> THEN Genesis ELSE rows[Len(r.seen)].entryHash
      BY <1>5 DEF RecorderFits
    <2>2. Len(r.seen) <= Len(more) BY <2>1, <1>3
    <2>3. r.seen # <<>> => Len(r.seen) \in 1..Len(rows) BY <2>1, <1>3, <1>4
    <2> QED BY <2>1, <2>2, <2>3
  <1> QED BY <1>1, <1>5

LEMMA PieceIsWritten ==
    ASSUME RegistryInv, NEW p \in Recorders, erRecorder[p].at = "append",
           NEW whole \in BOOLEAN, NEW o2, erOverlaps => o2,
           whole /\ ~o2 => erRecorder[p].seen = RowNumbers(read_experiments(erFile))
    PROVE  LET file == AppendPiece(erFile, Piece(erRecorder[p], whole))
           IN  /\ file \in Seq(Lines) /\ \A i \in DOMAIN file : Len(file[i]) \in 1..(erCount + 1)
               /\ FileFits(file, erTampered, o2)
               /\ \A q \in Recorders :
                     RecorderFits(erRecorder[q], read_experiments(file), erTampered, o2)
               /\ erTampered = 0 /\ ~o2 => ChainValid(file)
               /\ Unended(file) <=> ~whole
               /\ Numbers(erFile) \subseteq Numbers(file)
               /\ whole /\ ~Unended(erFile) => erCount + 1 \in Numbers(file)
  <1> DEFINE r == erRecorder[p]
             n == erCount + 1
             body == [number |-> n, record |-> r.body]
             hash == Append(r.previousHash, body)
             piece == Piece(r, whole)
             file == AppendPiece(erFile, piece)
             rows == read_experiments(erFile)
             more == read_experiments(file)
  <1>1. /\ r.body \in Recorded /\ ValidRecord(r.body)
        /\ r.previousHash \in Hashes /\ r.seen \in Seq(Nat)
    BY DEF RegistryInv, RegistryTyped, RecorderTyped, IdleRecorder
  <1>2. RecorderFits(r, rows, erTampered, erOverlaps) BY DEF RegistryInv, RegistryFits
  <1>3. erCount \in Nat /\ n \in Nat /\ erFile \in Seq(Lines) /\ \A i \in DOMAIN erFile : Len(erFile[i]) \in 1..erCount
    BY DEF RegistryInv, RegistryTyped
  <1>4. body \in Bodies BY <1>1, <1>3 DEF Bodies, OnFile
  <1>5. hash \in Hashes BY <1>1, <1>4 DEF Hashes
  <1>6. piece = [body |-> body, previousHash |-> r.previousHash, number |-> n,
                 entryHash |-> hash, seen |-> r.seen, whole |-> whole]
    BY DEF Piece, EntryHash
  <1>7. piece \in Pieces BY <1>1, <1>3, <1>4, <1>5, <1>6 DEF Pieces
  <1>8. /\ piece.body = body /\ piece.previousHash = r.previousHash /\ piece.number = n
        /\ piece.entryHash = hash /\ piece.seen = r.seen /\ piece.whole = whole
        /\ body.number = n /\ body.record = r.body
    BY <1>6
  <1>9. EntryFits(piece, erTampered, o2)
    <2>1. ~o2 => ToSet(r.seen) \subseteq HashNumbers(r.previousHash) BY <1>2 DEF RecorderFits
    <2> HIDE DEF piece, body
    <2> QED BY <2>1, <1>1, <1>4, <1>8 DEF EntryFits
  <1> HIDE DEF piece, body, hash
  <1>10. \A i \in DOMAIN erFile : Len(erFile[i]) >= 1 BY <1>3
  <1>11. /\ file \in Seq(Lines)
         /\ Unended(file) <=> ~whole
         /\ Unended(erFile) \/ ~whole => more = rows
         /\ ~Unended(erFile) /\ whole => more = Append(rows, piece)
         /\ \A i \in DOMAIN file :
               \/ i \in DOMAIN erFile /\ file[i] = erFile[i]
               \/ i \in DOMAIN erFile /\ file[i] = Append(erFile[i], piece)
               \/ file[i] = <<piece>>
    <2> HIDE DEF r
    <2> QED BY <1>3, <1>7, <1>8, <1>10, AppendedPieceIsRead
  <1>12. FileFits(file, erTampered, o2)
    <2>1. FileFits(erFile, erTampered, erOverlaps) BY DEF RegistryInv, RegistryFits
    <2>2. piece.whole => EntryFits(piece, erTampered, o2) BY <1>9
    <2>3. piece.whole /\ ~o2 => piece.seen = RowNumbers(rows) BY <1>8
    <2> QED BY <2>1, <2>2, <2>3, <1>3, <1>7, <1>10, WrittenFileFits
  <1>13. ASSUME NEW i \in DOMAIN file PROVE Len(file[i]) \in 1..(erCount + 1)
    <2>1. CASE i \in DOMAIN erFile /\ file[i] = erFile[i] BY <2>1, <1>3
    <2>2. CASE i \in DOMAIN erFile /\ file[i] = Append(erFile[i], piece)
      <3>1. erFile[i] \in Lines BY <2>2, <1>3, ElementsBelong
      <3>2. Len(Append(erFile[i], piece)) = Len(erFile[i]) + 1 BY <3>1, <1>7, LongerByOne DEF Lines
      <3> QED BY <2>2, <3>2, <1>3
    <2>3. CASE file[i] = <<piece>>
      <3>1. Len(<<piece>>) = 1 OBVIOUS
      <3> QED BY <2>3, <3>1, <1>3
    <2> HIDE DEF file
    <2> QED BY <2>1, <2>2, <2>3, <1>11
  <1>14. rows \in Seq(Pieces) BY <1>3, RowsArePlaced
  <1> HIDE DEF file, rows
  <1>15. /\ more \in Seq(Pieces) /\ Len(rows) <= Len(more)
         /\ \A i \in 1..Len(rows) : more[i] = rows[i]
         /\ whole /\ ~Unended(erFile) => Len(more) = Len(rows) + 1 /\ more[Len(rows) + 1] = piece
    <2>1. Len(rows) \in Nat BY <1>14
    <2>2. CASE Unended(erFile) \/ ~whole
      <3>1. more = rows BY <2>2, <1>11
      <3>2. Len(rows) <= Len(rows) BY <2>1
      <3> QED BY <3>1, <3>2, <2>2, <1>14
    <2>3. CASE ~Unended(erFile) /\ whole
      <3>1. more = Append(rows, piece) BY <2>3, <1>11
      <3>2. /\ Append(rows, piece) \in Seq(Pieces) /\ Len(Append(rows, piece)) = Len(rows) + 1
            /\ Append(rows, piece)[Len(rows) + 1] = piece
            /\ \A i \in 1..Len(rows) : Append(rows, piece)[i] = rows[i]
        BY <1>7, <1>14, LongerByOne
      <3> HIDE DEF more
      <3> QED BY <3>1, <3>2, <2>1
    <2> QED BY <2>2, <2>3
  <1>16. \A q \in Recorders : RecorderFits(erRecorder[q], more, erTampered, o2)
    <2> TAKE q \in Recorders
    <2>1. RecorderTyped(erRecorder[q]) BY DEF RegistryInv, RegistryTyped
    <2>2. RecorderFits(erRecorder[q], rows, erTampered, erOverlaps)
      BY DEF RegistryInv, RegistryFits, rows
    <2> HIDE DEF more
    <2> QED BY <2>1, <2>2, <1>14, <1>15, RecorderStaysFit
  <1>17. ASSUME erTampered = 0, ~o2 PROVE ChainValid(file)
    <2>1. verify_registry(rows) BY <1>17 DEF RegistryInv, RegistryFits, ChainValid, rows
    <2>2. CASE more = rows BY <2>1, <2>2 DEF ChainValid
    <2>3. CASE more = Append(rows, piece) /\ whole
      <3>1. r.seen = RowNumbers(rows) BY <2>3, <1>17 DEF rows
      <3>2. r.previousHash = IF r.seen = <<>> THEN Genesis ELSE rows[Len(r.seen)].entryHash
        BY <1>2, <1>17 DEF RecorderFits
      <3>3. r.previousHash = LastHash(rows) BY <3>1, <3>2, <1>14, NumbersOfRows
      <3>4. piece.previousHash = LastHash(rows) /\ piece.entryHash = EntryHash(piece.body, piece.previousHash)
        BY <3>3, <1>8 DEF EntryHash, hash
      <3>5. verify_registry(Append(rows, piece)) BY <2>1, <3>4, <1>7, <1>14, ChainGrows
      <3> QED BY <2>3, <3>5 DEF ChainValid
    <2> HIDE DEF more
    <2> QED BY <2>2, <2>3, <1>11
  <1>18. Numbers(erFile) \subseteq Numbers(file)
    <2>1. DOMAIN rows = 1..Len(rows) /\ DOMAIN more = 1..Len(more) BY <1>14, <1>15
    <2>2. Len(rows) \in Nat /\ Len(more) \in Nat BY <1>14, <1>15
    <2>3. \A i \in DOMAIN rows : i \in DOMAIN more /\ more[i].number = rows[i].number
      <3> HIDE DEF more
      <3> TAKE i \in DOMAIN rows
      <3>1. i \in 1..Len(rows) BY <2>1
      <3>2. Len(rows) <= Len(more) BY <1>15
      <3>3. \A a, b \in Nat : a <= b => 1..a \subseteq 1..b OBVIOUS
      <3>4. i \in DOMAIN more BY <3>1, <3>2, <3>3, <2>1, <2>2
      <3> QED BY <3>1, <3>4, <1>15
    <2> QED BY <2>3 DEF Numbers, rows
  <1>19. ASSUME whole, ~Unended(erFile) PROVE erCount + 1 \in Numbers(file)
    <2>1. Len(rows) \in Nat /\ DOMAIN more = 1..Len(more) BY <1>14, <1>15
    <2>2. Len(rows) + 1 \in DOMAIN more /\ more[Len(rows) + 1].number = erCount + 1
      BY <2>1, <1>8, <1>15, <1>19
    <2> QED BY <2>2 DEF Numbers
  <1> QED BY <1>11, <1>12, <1>13, <1>16, <1>17, <1>18, <1>19 DEF file, piece

-----------------------------------------------------------------------------
LEMMA LineRemoved ==
    ASSUME NEW S, NEW s \in Seq(S), NEW i \in DOMAIN s
    PROVE  LET next == RemoveAt(s, i)
           IN  /\ next \in Seq(S)
               /\ \A j \in DOMAIN next :
                     LET from == IF j < i THEN j ELSE j + 1
                     IN  from \in DOMAIN s /\ next[j] = s[from]
  <1> DEFINE a == SubSeq(s, 1, i - 1)
             b == SubSeq(s, i + 1, Len(s))
  <1>1. i \in 1..Len(s) /\ Len(s) \in Nat OBVIOUS
  <1>2. a \in Seq(S) /\ Len(a) = i - 1 /\ \A j \in 1..(i - 1) : a[j] = s[j]
    BY <1>1
  <1>3. b \in Seq(S) /\ Len(b) = Len(s) - i /\ \A j \in 1..(Len(s) - i) : b[j] = s[i + j]
    BY <1>1
  <1>4. RemoveAt(s, i) = a \o b BY DEF RemoveAt
  <1> HIDE DEF a, b
  <1>5. /\ a \o b \in Seq(S) /\ DOMAIN (a \o b) = 1..(Len(s) - 1)
        /\ \A j \in 1..(Len(s) - 1) : (a \o b)[j] = IF j < i THEN a[j] ELSE b[j - (i - 1)]
    BY <1>1, <1>2, <1>3
  <1>6. ASSUME NEW j \in 1..(Len(s) - 1)
        PROVE  LET from == IF j < i THEN j ELSE j + 1
               IN  from \in 1..Len(s) /\ (a \o b)[j] = s[from]
    <2>1. CASE j < i BY <2>1, <1>1, <1>2, <1>5
    <2>2. CASE ~(j < i)
      <3>1. j - (i - 1) \in 1..(Len(s) - i) /\ i + (j - (i - 1)) = j + 1 BY <2>2, <1>1
      <3>2. (a \o b)[j] = b[j - (i - 1)] BY <2>2, <1>5
      <3>3. b[j - (i - 1)] = s[j + 1] BY <3>1, <1>3
      <3> QED BY <2>2, <3>2, <3>3, <1>1
    <2> QED BY <2>1, <2>2
  <1>7. DOMAIN s = 1..Len(s) OBVIOUS
  <1> QED BY <1>4, <1>5, <1>6, <1>7, Zenon

\* An edit leaves of the entries what they say of their history.
LEMMA EditedEntryFits ==
    ASSUME NEW e \in Pieces, NEW t, NEW t2 \in Nat \ {0}, NEW o, EntryFits(e, t, o),
           e.body.record.decision = "rejected"
    PROVE  LET edited == [e EXCEPT !.body.record.decision = "inconclusive"]
           IN  /\ edited \in Pieces /\ EntryFits(edited, t2, o)
               /\ edited.number = e.number /\ edited.seen = e.seen /\ edited.whole = e.whole
  <1> DEFINE edited == [e EXCEPT !.body.record.decision = "inconclusive"]
             record == [e.body.record EXCEPT !.decision = "inconclusive"]
             body == [e.body EXCEPT !.record = record]
  <1>1. e.body \in Bodies /\ e.body.record \in OnFile BY DEF Pieces, Bodies
  <1>2. record \in OnFile
    <2>1. CASE e.body.record \in Recorded BY <2>1 DEF OnFile
    <2>2. ASSUME NEW x \in Recorded, e.body.record = [x EXCEPT !.decision = "inconclusive"]
          PROVE  record \in OnFile
      <3>1. x = [hypothesis |-> x.hypothesis, effect |-> x.effect, interval |-> x.interval,
                 size |-> x.size, decision |-> x.decision]
        BY DEF Recorded, ComparisonRecords, PowerRecord
      <3>2. [x EXCEPT !.decision = "inconclusive"].decision = "inconclusive" BY <3>1
      <3> QED BY <3>2, <2>2
    <2> QED BY <2>1, <2>2, <1>1 DEF OnFile
  <1>3. body \in Bodies /\ body.number = e.body.number BY <1>1, <1>2 DEF Bodies
  <1>4. edited = [e EXCEPT !.body = body] OBVIOUS
  <1> HIDE DEF body, edited
  <1>5. edited \in Pieces /\ edited.body = body /\ edited.number = e.number
        /\ edited.seen = e.seen /\ edited.whole = e.whole
        /\ edited.entryHash = e.entryHash /\ edited.previousHash = e.previousHash
    BY <1>3, <1>4 DEF Pieces
  <1>6. EntryFits(edited, t2, o) BY <1>3, <1>5 DEF EntryFits
  <1> QED BY <1>5, <1>6 DEF edited

LEMMA AppendingCounts ==
    ASSUME RegistryTyped
    PROVE  /\ Cardinality(Appending) \in Nat /\ Cardinality(Recorders) \in Nat
           /\ Cardinality(Appending) <= Cardinality(Recorders)
           /\ \A p \in Recorders :
                 /\ p \in Appending => Cardinality(Appending \ {p}) = Cardinality(Appending) - 1
                 /\ p \notin Appending =>
                       /\ Cardinality(Appending \cup {p}) = Cardinality(Appending) + 1
                       /\ Cardinality(Appending \cup {p}) <= Cardinality(Recorders)
  <1>1. IsFiniteSet(Recorders) /\ Appending \subseteq Recorders
    BY RegistryAssumption DEF Appending
  <1>2. IsFiniteSet(Appending) BY <1>1, FS_Subset
  <1> HIDE DEF Appending
  <1>3. \A p \in Recorders : Appending \cup {p} \subseteq Recorders BY <1>1
  <1> QED BY <1>1, <1>2, <1>3, FS_Subset, FS_CardinalityType, FS_AddElement, FS_RemoveElement

\* The state of one recorder changes, to another one that fits: record_experiment reads.
LEMMA RecorderMoves ==
    ASSUME RegistryInv, NEW p \in Recorders, NEW r, RecorderTyped(r),
           RecorderFits(r, read_experiments(erFile), erTampered, erOverlaps),
           erRecorder' = [erRecorder EXCEPT ![p] = r],
           erRecorder[p].at # "append", r.at = "append" => erCount < MaxLines,
           UNCHANGED <<erFile, erAcked, erCount, erTampered, erOverlaps, erDeaths>>
    PROVE  RegistryInv'
  <1>1. /\ erRecorder' = [q \in Recorders |-> erRecorder'[q]]
        /\ erRecorder'[p] = r /\ \A q \in Recorders \ {p} : erRecorder'[q] = erRecorder[q]
    BY DEF RegistryInv, RegistryTyped
  <1>2. RegistryTyped BY DEF RegistryInv
  <1>3. erCount \in Nat /\ MaxLines \in Nat /\ p \notin Appending
    BY RegistryAssumption DEF RegistryInv, RegistryTyped, Appending
  <1>4. erCount + Cardinality(Appending') <= MaxLines + Cardinality(Recorders)
    <2>1. CASE r.at = "append"
      <3>1. Appending' = Appending \cup {p} BY <1>1, <2>1 DEF Appending
      <3>2. Cardinality(Appending \cup {p}) \in Nat
            /\ Cardinality(Appending \cup {p}) <= Cardinality(Recorders)
            /\ Cardinality(Recorders) \in Nat
        BY <1>2, <1>3, AppendingCounts
      <3>3. erCount < MaxLines BY <2>1
      <3> QED BY <3>1, <3>2, <3>3, <1>3
    <2>2. CASE r.at # "append"
      <3>1. Appending' = Appending BY <1>1, <2>2 DEF Appending
      <3> QED BY <3>1 DEF RegistryInv, RegistryTyped
    <2> QED BY <2>1, <2>2
  <1>5. RegistryTyped'
    <2>1. \A q \in Recorders : RecorderTyped(erRecorder'[q])
      BY <1>1 DEF RegistryInv, RegistryTyped
    <2>2. UNCHANGED <<erFile, erAcked, erCount, erTampered, erOverlaps, erDeaths>> OBVIOUS
    <2> QED BY <1>1, <1>4, <2>1, <2>2 DEF RegistryInv, RegistryTyped
  <1>6. RegistryFits'
    <2>1. \A q \in Recorders : RecorderFits(erRecorder'[q], read_experiments(erFile), erTampered, erOverlaps)
      BY <1>1 DEF RegistryInv, RegistryFits
    <2>2. /\ erFile' = erFile /\ erTampered' = erTampered /\ erOverlaps' = erOverlaps
          /\ erAcked' = erAcked /\ erDeaths' = erDeaths
      OBVIOUS
    <2> QED BY <2>1, <2>2 DEF RegistryInv, RegistryFits
  <1> QED BY <1>5, <1>6 DEF RegistryInv

LEMMA StartKeeps ==
    ASSUME RegistryInv, NEW p \in Recorders, NEW records \in Seq(Recorded), StartReport(p, records)
    PROVE  RegistryInv'
  <1> DEFINE r == [at |-> "next", left |-> records]
  <1>1. r.at = "next" /\ r.left = records BY DEF StartReport
  <1> HIDE DEF r
  <1>2. RecorderTyped(r) BY <1>1 DEF StartReport, RecorderTyped
  <1>3. RecorderFits(r, read_experiments(erFile), erTampered, erOverlaps) BY <1>1 DEF RecorderFits
  <1>4. erRecorder' = [erRecorder EXCEPT ![p] = r] BY DEF StartReport, r
  <1>5. erRecorder[p].at # "append" /\ r.at # "append" BY <1>1 DEF StartReport
  <1>6. UNCHANGED <<erFile, erAcked, erCount, erTampered, erOverlaps, erDeaths>> BY DEF StartReport
  <1> QED BY <1>2, <1>3, <1>4, <1>5, <1>6, RecorderMoves

LEMMA ReadKeeps ==
    ASSUME RegistryInv, NEW p \in Recorders, ReadLastHash(p)
    PROVE  RegistryInv'
  <1> DEFINE old == erRecorder[p]
             x == old.left[1]
             rows == read_experiments(erFile)
             hash == LastHash(rows)
             seen == RowNumbers(rows)
             busy == [at |-> "append", left |-> Tail(old.left), body |-> x,
                      previousHash |-> hash, seen |-> seen]
             go == ValidRecord(x) /\ erCount < MaxLines
             r == IF go THEN busy ELSE IdleRecorder
  <1>1. old.at = "next" BY DEF ReadLastHash
  <1>2. old.left \in Seq(Recorded) /\ old.left # <<>>
    BY <1>1 DEF RegistryInv, RegistryTyped, RecorderTyped, IdleRecorder
  <1>3. x \in Recorded /\ Tail(old.left) \in Seq(Recorded)
    <2> HIDE DEF old
    <2>1. 1 \in DOMAIN old.left BY <1>2
    <2> QED BY <2>1, <1>2, ElementsBelong
  <1>4. rows \in Seq(Pieces) BY RowsArePlaced DEF RegistryInv, RegistryTyped
  <1>5. erRecorder' = [erRecorder EXCEPT ![p] = r] BY DEF ReadLastHash, RowNumbers
  <1>6. UNCHANGED <<erFile, erAcked, erCount, erTampered, erOverlaps, erDeaths>> BY DEF ReadLastHash
  <1>7. ~erOverlaps => ToSet(seen) \subseteq HashNumbers(hash)
    <2> SUFFICES ASSUME ~erOverlaps PROVE ToSet(seen) \subseteq HashNumbers(hash)
      OBVIOUS
    <2>1. FileFits(erFile, erTampered, FALSE) /\ erFile \in Seq(Lines)
      BY DEF RegistryInv, RegistryFits, RegistryTyped
    <2>2. \A k \in DOMAIN rows : rows[k].number \in HashNumbers(hash) BY <2>1, LastHashCovers
    <2> HIDE DEF rows, hash
    <2> QED BY <2>2 DEF ToSet, RowNumbers
  <1> HIDE DEF rows
  <1>8. /\ seen \in Seq(Nat) /\ Len(seen) = Len(rows) /\ hash \in Hashes
        /\ seen = <<>> <=> rows = <<>>
        /\ hash = IF rows = <<>> THEN Genesis ELSE rows[Len(rows)].entryHash
    BY <1>4, NumbersOfRows
  <1>9. /\ busy.at = "append" /\ busy.left = Tail(old.left) /\ busy.body = x
        /\ busy.previousHash = hash /\ busy.seen = seen
    OBVIOUS
  <1>10. Len(seen) <= Len(rows)
    <2>1. Len(seen) \in Nat BY <1>8
    <2> QED BY <2>1, <1>8
  <1> HIDE DEF busy, hash, seen, x, old
  <1>11. go => RecorderTyped(busy) BY <1>3, <1>8, <1>9 DEF RecorderTyped
  <1>12. RecorderFits(busy, rows, erTampered, erOverlaps) BY <1>7, <1>8, <1>9, <1>10 DEF RecorderFits
  <1>13. RecorderTyped(r) /\ RecorderFits(r, rows, erTampered, erOverlaps)
    BY <1>11, <1>12 DEF RecorderTyped, RecorderFits, IdleRecorder
  <1>14. old.at # "append" /\ (r.at = "append" => erCount < MaxLines)
    BY <1>1 DEF IdleRecorder
  <1> HIDE DEF r
  <1> QED BY <1>5, <1>6, <1>13, <1>14, RecorderMoves DEF rows, old

\* How many of the acknowledged entries are not on file.
LEMMA LostCounts ==
    ASSUME NEW n \in Nat, NEW acked \in SUBSET (1..n), NEW old, NEW new, old \subseteq new, NEW x
    PROVE  /\ Cardinality(acked \ old) \in Nat /\ Cardinality(acked \ new) \in Nat
           /\ Cardinality((acked \cup {x}) \ new) \in Nat
           /\ Cardinality(acked \ new) <= Cardinality(acked \ old)
           /\ Cardinality((acked \cup {x}) \ new) <= Cardinality(acked \ old) + 1
           /\ x \in new => Cardinality((acked \cup {x}) \ new) <= Cardinality(acked \ old)
  <1> DEFINE a == acked \ old
             b == acked \ new
             c == (acked \cup {x}) \ new
  <1>1. IsFiniteSet(1..n) BY FS_Interval
  <1>2. IsFiniteSet(acked) BY <1>1, FS_Subset
  <1>3. IsFiniteSet(a) /\ b \subseteq a /\ c \subseteq a \cup {x} /\ (x \in new => c \subseteq a)
    BY <1>2, FS_Subset
  <1> HIDE DEF a, b, c
  <1>4. /\ IsFiniteSet(a \cup {x}) /\ Cardinality(a) \in Nat
        /\ Cardinality(a \cup {x}) \in Nat /\ Cardinality(a \cup {x}) <= Cardinality(a) + 1
    <2>1. IsFiniteSet(a) BY <1>3
    <2>2. Cardinality(a) \in Nat BY <2>1, FS_CardinalityType
    <2>3. /\ IsFiniteSet(a \cup {x})
          /\ Cardinality(a \cup {x}) = IF x \in a THEN Cardinality(a) ELSE Cardinality(a) + 1
      BY <2>1, FS_AddElement
    <2> QED BY <2>2, <2>3
  <1>5. /\ IsFiniteSet(b) /\ Cardinality(b) <= Cardinality(a)
        /\ IsFiniteSet(c) /\ Cardinality(c) <= Cardinality(a \cup {x})
        /\ x \in new => Cardinality(c) <= Cardinality(a)
    BY <1>3, <1>4, FS_Subset
  <1>6. Cardinality(b) \in Nat /\ Cardinality(c) \in Nat BY <1>5, FS_CardinalityType
  <1> QED BY <1>4, <1>5, <1>6 DEF a, b, c

\* A recorder that is done with its entry goes on with the rest of its report, or stops.
LEMMA RecorderLeaves ==
    ASSUME RegistryInv, NEW p \in Recorders, erRecorder[p].at = "append",
           NEW r, RecorderTyped(r), r.at # "append",
           erRecorder' = [erRecorder EXCEPT ![p] = r]
    PROVE  /\ erRecorder' = [q \in Recorders |-> erRecorder'[q]]
           /\ \A q \in Recorders : RecorderTyped(erRecorder'[q])
           /\ \A q \in Recorders : erRecorder'[q] = erRecorder[q] \/ erRecorder'[q].at # "append"
           /\ \A n \in {erCount, erCount + 1} :
                 n + Cardinality(Appending') <= MaxLines + Cardinality(Recorders)
  <1>1. /\ erRecorder' = [q \in Recorders |-> erRecorder'[q]]
        /\ erRecorder'[p] = r /\ \A q \in Recorders \ {p} : erRecorder'[q] = erRecorder[q]
    BY DEF RegistryInv, RegistryTyped
  <1>2. RegistryTyped BY DEF RegistryInv
  <1>3. Appending' = Appending \ {p} /\ p \in Appending BY <1>1 DEF Appending
  <1>4. /\ Cardinality(Appending) \in Nat /\ Cardinality(Recorders) \in Nat
        /\ Cardinality(Appending \ {p}) = Cardinality(Appending) - 1
    BY <1>2, <1>3, AppendingCounts
  <1>5. erCount \in Nat /\ MaxLines \in Nat
        /\ erCount + Cardinality(Appending) <= MaxLines + Cardinality(Recorders)
    BY RegistryAssumption DEF RegistryInv, RegistryTyped
  <1>6. ASSUME NEW n \in {erCount, erCount + 1}
        PROVE  n + Cardinality(Appending') <= MaxLines + Cardinality(Recorders)
    BY <1>3, <1>4, <1>5
  <1>7. \A q \in Recorders : RecorderTyped(erRecorder'[q]) BY <1>1 DEF RegistryInv, RegistryTyped
  <1>8. \A q \in Recorders : erRecorder'[q] = erRecorder[q] \/ erRecorder'[q].at # "append"
    BY <1>1
  <1> QED BY <1>1, <1>6, <1>7, <1>8

LEMMA AppendKeeps ==
    ASSUME RegistryInv, NEW p \in Recorders, AppendEntry(p)
    PROVE  RegistryInv'
  <1> DEFINE old == erRecorder[p]
             file == AppendPiece(erFile, Piece(old, TRUE))
             rows == read_experiments(erFile)
             next == [at |-> "next", left |-> old.left]
             r == IF old.left = <<>> THEN IdleRecorder ELSE next
  <1>1. /\ old.at = "append" /\ erFile' = file /\ erCount' = erCount + 1
        /\ erAcked' = erAcked \cup {erCount + 1}
        /\ erOverlaps' = (erOverlaps \/ old.seen # RowNumbers(rows))
        /\ erRecorder' = [erRecorder EXCEPT ![p] = r]
        /\ erTampered' = erTampered /\ erDeaths' = erDeaths
    BY DEF AppendEntry, RowNumbers
  <1>2. old.left \in Seq(Recorded)
    BY <1>1 DEF RegistryInv, RegistryTyped, RecorderTyped, IdleRecorder
  <1>3. next.at = "next" /\ next.left = old.left OBVIOUS
  <1> HIDE DEF next
  <1>4. RecorderTyped(r) /\ r.at # "append" BY <1>2, <1>3 DEF RecorderTyped, IdleRecorder
  <1> HIDE DEF r
  <1>5. /\ erRecorder' = [q \in Recorders |-> erRecorder'[q]]
        /\ \A q \in Recorders : RecorderTyped(erRecorder'[q])
        /\ \A q \in Recorders : erRecorder'[q] = erRecorder[q] \/ erRecorder'[q].at # "append"
        /\ (erCount + 1) + Cardinality(Appending') <= MaxLines + Cardinality(Recorders)
    <2> HIDE DEF old, file, rows
    <2>1. erRecorder[p].at = "append" BY <1>1 DEF old
    <2> QED BY <1>1, <1>4, <2>1, RecorderLeaves
  <1>6. /\ file \in Seq(Lines) /\ \A i \in DOMAIN file : Len(file[i]) \in 1..(erCount + 1)
        /\ FileFits(file, erTampered, erOverlaps')
        /\ \A q \in Recorders :
              RecorderFits(erRecorder[q], read_experiments(file), erTampered, erOverlaps')
        /\ erTampered = 0 /\ ~erOverlaps' => ChainValid(file)
        /\ ~Unended(file)
        /\ Numbers(erFile) \subseteq Numbers(file)
        /\ ~Unended(erFile) => erCount + 1 \in Numbers(file)
    <2>1. erOverlaps => erOverlaps' BY <1>1
    <2>2. TRUE /\ ~erOverlaps' => erRecorder[p].seen = RowNumbers(read_experiments(erFile)) BY <1>1
    <2>3. TRUE \in BOOLEAN OBVIOUS
    <2> QED BY <1>1, <2>1, <2>2, <2>3, PieceIsWritten
  <1> HIDE DEF old, file, rows
  <1>7. /\ erCount \in Nat /\ erAcked \in SUBSET (1..erCount) /\ erDeaths \in Nat
        /\ erTampered \in Nat /\ erOverlaps \in BOOLEAN
    BY DEF RegistryInv, RegistryTyped
  <1>8. RegistryTyped'
    <2>1. erAcked' \subseteq 1..(erCount + 1) /\ erCount + 1 \in Nat /\ erOverlaps' \in BOOLEAN
      BY <1>1, <1>7
    <2> QED BY <1>1, <1>5, <1>6, <1>7, <2>1 DEF RegistryTyped
  <1>9. erTampered = 0 =>
            Cardinality(erAcked' \ Numbers(file)) + (IF Unended(file) THEN 1 ELSE 0) <= erDeaths
    <2> SUFFICES ASSUME erTampered = 0
                 PROVE  Cardinality(erAcked' \ Numbers(file)) <= erDeaths
                        /\ Cardinality(erAcked' \ Numbers(file)) \in Nat
      BY <1>6
    <2>1. /\ Cardinality(erAcked \ Numbers(erFile)) \in Nat
          /\ Cardinality(erAcked' \ Numbers(file)) \in Nat
          /\ Cardinality(erAcked' \ Numbers(file)) <= Cardinality(erAcked \ Numbers(erFile)) + 1
          /\ erCount + 1 \in Numbers(file) =>
                Cardinality(erAcked' \ Numbers(file)) <= Cardinality(erAcked \ Numbers(erFile))
      BY <1>1, <1>6, <1>7, LostCounts
    <2>2. Cardinality(erAcked \ Numbers(erFile)) + (IF Unended(erFile) THEN 1 ELSE 0) <= erDeaths
      BY DEF RegistryInv, RegistryFits
    <2>3. CASE Unended(erFile) BY <2>1, <2>2, <2>3, <1>7
    <2>4. CASE ~Unended(erFile) BY <2>1, <2>2, <2>4, <1>6, <1>7
    <2> QED BY <2>3, <2>4
  <1>10. \A q \in Recorders : RecorderFits(erRecorder'[q], read_experiments(file), erTampered, erOverlaps')
    <2> SUFFICES ASSUME NEW q \in Recorders
                 PROVE  RecorderFits(erRecorder'[q], read_experiments(file), erTampered, erOverlaps')
      OBVIOUS
    <2>1. CASE erRecorder'[q] = erRecorder[q] BY <2>1, <1>6
    <2>2. CASE erRecorder'[q].at # "append" BY <2>2 DEF RecorderFits
    <2> QED BY <2>1, <2>2, <1>5
  <1>11. RegistryFits' BY <1>1, <1>5, <1>6, <1>9, <1>10 DEF RegistryFits
  <1> QED BY <1>8, <1>11 DEF RegistryInv

LEMMA DieKeeps ==
    ASSUME RegistryInv, NEW p \in Recorders, NEW some \in BOOLEAN, DieAppending(p, some)
    PROVE  RegistryInv'
  <1> DEFINE written == AppendPiece(erFile, Piece(erRecorder[p], FALSE))
             n == IF some THEN erCount + 1 ELSE erCount
  <1>1. /\ erRecorder[p].at = "append" /\ erFile' = IF some THEN written ELSE erFile
        /\ erCount' = n /\ erDeaths' = erDeaths + 1
        /\ erRecorder' = [erRecorder EXCEPT ![p] = IdleRecorder]
        /\ erAcked' = erAcked /\ erTampered' = erTampered /\ erOverlaps' = erOverlaps
    BY DEF DieAppending
  <1>2. RecorderTyped(IdleRecorder) /\ IdleRecorder.at # "append" BY DEF RecorderTyped, IdleRecorder
  <1>3. /\ erRecorder' = [q \in Recorders |-> erRecorder'[q]]
        /\ \A q \in Recorders : RecorderTyped(erRecorder'[q])
        /\ \A q \in Recorders : erRecorder'[q] = erRecorder[q] \/ erRecorder'[q].at # "append"
        /\ n + Cardinality(Appending') <= MaxLines + Cardinality(Recorders)
    <2>1. n \in {erCount, erCount + 1} OBVIOUS
    <2> HIDE DEF n, written
    <2> QED BY <1>1, <1>2, <2>1, RecorderLeaves
  <1>4. /\ erCount \in Nat /\ erAcked \in SUBSET (1..erCount) /\ erDeaths \in Nat
        /\ erTampered \in Nat /\ erOverlaps \in BOOLEAN /\ erFile \in Seq(Lines)
        /\ \A i \in DOMAIN erFile : Len(erFile[i]) \in 1..erCount
    BY DEF RegistryInv, RegistryTyped
  <1>5. /\ written \in Seq(Lines) /\ \A i \in DOMAIN written : Len(written[i]) \in 1..(erCount + 1)
        /\ FileFits(written, erTampered, erOverlaps)
        /\ \A q \in Recorders :
              RecorderFits(erRecorder[q], read_experiments(written), erTampered, erOverlaps)
        /\ erTampered = 0 /\ ~erOverlaps => ChainValid(written)
        /\ Numbers(erFile) \subseteq Numbers(written)
    <2>1. FALSE \in BOOLEAN /\ (FALSE /\ ~erOverlaps => erRecorder[p].seen = RowNumbers(read_experiments(erFile)))
          /\ (erOverlaps => erOverlaps)
      OBVIOUS
    <2> QED BY <1>1, <2>1, PieceIsWritten
  <1> HIDE DEF written
  <1>6. erFile' \in Seq(Lines) /\ \A i \in DOMAIN erFile' : Len(erFile'[i]) \in 1..n
    BY <1>1, <1>4, <1>5
  <1>7. n \in Nat /\ erAcked \subseteq 1..n BY <1>4
  <1>8. RegistryTyped' BY <1>1, <1>3, <1>4, <1>6, <1>7 DEF RegistryTyped
  <1>9. /\ FileFits(erFile', erTampered, erOverlaps)
        /\ \A q \in Recorders :
              RecorderFits(erRecorder'[q], read_experiments(erFile'), erTampered, erOverlaps)
        /\ erTampered = 0 /\ ~erOverlaps => ChainValid(erFile')
        /\ Numbers(erFile) \subseteq Numbers(erFile')
    <2>1. /\ FileFits(erFile', erTampered, erOverlaps)
          /\ \A q \in Recorders :
                RecorderFits(erRecorder[q], read_experiments(erFile'), erTampered, erOverlaps)
          /\ erTampered = 0 /\ ~erOverlaps => ChainValid(erFile')
          /\ Numbers(erFile) \subseteq Numbers(erFile')
      <3>1. CASE some
        <4>1. erFile' = written BY <1>1, <3>1
        <4> QED BY <4>1, <1>5
      <3>2. CASE ~some
        <4>1. erFile' = erFile BY <1>1, <3>2
        <4> QED BY <4>1 DEF RegistryInv, RegistryFits
      <3> QED BY <3>1, <3>2
    <2>2. ASSUME NEW q \in Recorders
          PROVE  RecorderFits(erRecorder'[q], read_experiments(erFile'), erTampered, erOverlaps)
      <3>1. CASE erRecorder'[q] = erRecorder[q] BY <2>1, <3>1
      <3>2. CASE erRecorder'[q].at # "append" BY <3>2 DEF RecorderFits
      <3> QED BY <1>3, <3>1, <3>2
    <2> QED BY <2>1, <2>2
  <1>10. erTampered = 0 =>
            Cardinality(erAcked \ Numbers(erFile')) + (IF Unended(erFile') THEN 1 ELSE 0) <= erDeaths + 1
    <2> SUFFICES ASSUME erTampered = 0
                 PROVE  Cardinality(erAcked \ Numbers(erFile')) + (IF Unended(erFile') THEN 1 ELSE 0)
                        <= erDeaths + 1
      OBVIOUS
    <2>1. /\ Cardinality(erAcked \ Numbers(erFile)) \in Nat
          /\ Cardinality(erAcked \ Numbers(erFile')) \in Nat
          /\ Cardinality(erAcked \ Numbers(erFile')) <= Cardinality(erAcked \ Numbers(erFile))
      BY <1>4, <1>9, LostCounts
    <2>2. Cardinality(erAcked \ Numbers(erFile)) + (IF Unended(erFile) THEN 1 ELSE 0) <= erDeaths
      BY DEF RegistryInv, RegistryFits
    <2>3. Cardinality(erAcked \ Numbers(erFile)) <= erDeaths BY <2>1, <2>2, <1>4
    <2> QED BY <2>1, <2>3, <1>4
  <1>11. RegistryFits' BY <1>1, <1>9, <1>10 DEF RegistryFits
  <1> QED BY <1>8, <1>11 DEF RegistryInv

\* An edit takes a line out or changes one: the lines that are left keep their order.
LEMMA EditKeeps ==
    ASSUME RegistryInv, NEW i \in DOMAIN erFile, RewriteEntry(i) \/ RemoveLine(i)
    PROVE  RegistryInv'
  <1>1. /\ erRecorder' = erRecorder /\ erAcked' = erAcked /\ erCount' = erCount
        /\ erOverlaps' = erOverlaps /\ erDeaths' = erDeaths /\ erTampered' = erTampered + 1
    BY DEF RewriteEntry, RemoveLine
  <1>2. /\ erTampered \in Nat /\ erFile \in Seq(Lines) /\ erCount \in Nat
        /\ \A j \in DOMAIN erFile : Len(erFile[j]) \in 1..erCount
    BY DEF RegistryInv, RegistryTyped
  <1>3. erTampered' \in Nat \ {0} BY <1>1, <1>2
  <1>4. FileFits(erFile, erTampered, erOverlaps) BY DEF RegistryInv, RegistryFits
  <1>5. /\ erFile' \in Seq(Lines) /\ \A j \in DOMAIN erFile' : Len(erFile'[j]) \in 1..erCount
        /\ FileFits(erFile', erTampered', erOverlaps)
    <2>1. CASE RemoveLine(i)
      <3> DEFINE from(j) == IF j < i THEN j ELSE j + 1
      <3>1. erFile' = RemoveAt(erFile, i) BY <2>1 DEF RemoveLine
      <3>2. erFile' \in Seq(Lines) /\ \A j \in DOMAIN erFile' :
                from(j) \in DOMAIN erFile /\ erFile'[j] = erFile[from(j)]
        BY <3>1, <1>2, LineRemoved
      <3>3. \A j, k \in DOMAIN erFile' : j < k => from(j) < from(k)
        <4>1. DOMAIN erFile' \subseteq Nat /\ i \in Nat BY <3>2, <1>2
        <4> QED BY <4>1
      <3> HIDE DEF from
      <3>4. \A j \in DOMAIN erFile' : Len(erFile'[j]) \in 1..erCount BY <3>2, <1>2
      <3>5. \A j \in DOMAIN erFile' : Parses(erFile'[j]) => EntryFits(erFile'[j][1], erTampered', erOverlaps)
        <4> SUFFICES ASSUME NEW j \in DOMAIN erFile', Parses(erFile'[j])
                     PROVE  EntryFits(erFile'[j][1], erTampered', erOverlaps)
          OBVIOUS
        <4>1. EntryFits(erFile'[j][1], erTampered, erOverlaps) BY <3>2, <1>4 DEF FileFits
        <4> QED BY <4>1, <1>3, EntriesStayFit
      <3>6. ~erOverlaps => \A j, k \in DOMAIN erFile' :
                j < k /\ Parses(erFile'[j]) /\ Parses(erFile'[k]) =>
                    erFile'[j][1].number \in ToSet(erFile'[k][1].seen)
        BY <3>2, <3>3, <1>4 DEF FileFits
      <3> QED BY <3>2, <3>4, <3>5, <3>6 DEF FileFits
    <2>2. CASE RewriteEntry(i)
      <3> DEFINE e == erFile[i][1]
                 edited == [e EXCEPT !.body.record.decision = "inconclusive"]
                 line == <<edited>>
      <3>1. Parses(erFile[i]) /\ e.body.record.decision = "rejected" /\ erFile' = [erFile EXCEPT ![i] = line]
        BY <2>2 DEF RewriteEntry
      <3>2. erFile[i] \in Lines BY <1>2, ElementsBelong
      <3>3. e \in Pieces /\ e.whole
        <4>1. 1 \in DOMAIN erFile[i] /\ erFile[i] \in Seq(Pieces) BY <3>1, <3>2 DEF Parses, Lines
        <4> QED BY <4>1, <3>1, ElementsBelong DEF Parses
      <3>4. EntryFits(e, erTampered, erOverlaps) BY <3>1, <1>4 DEF FileFits
      <3>5. /\ edited \in Pieces /\ EntryFits(edited, erTampered', erOverlaps)
            /\ edited.number = e.number /\ edited.seen = e.seen /\ edited.whole = e.whole
        <4> HIDE DEF e
        <4> QED BY <3>1, <3>3, <3>4, <1>3, EditedEntryFits
      <3> HIDE DEF edited
      <3>6. line \in Lines /\ Len(line) = 1 /\ line[1] = edited /\ Parses(line)
        <4>1. edited \in Pieces /\ edited.whole BY <3>3, <3>5
        <4>2. line \in Seq(Pieces) /\ Len(line) = 1 /\ line[1] = edited BY <4>1
        <4> HIDE DEF line
        <4> QED BY <4>1, <4>2 DEF Lines, Parses
      <3> HIDE DEF line
      <3>7. /\ erFile' \in Seq(Lines) /\ Len(erFile') = Len(erFile) /\ erFile'[i] = line
            /\ \A j \in 1..Len(erFile) : j # i => erFile'[j] = erFile[j]
        BY <3>1, <3>6, <1>2, OneReplaced
      <3>8. DOMAIN erFile' = DOMAIN erFile /\ DOMAIN erFile = 1..Len(erFile) BY <3>7, <1>2
      <3>9. \A j \in DOMAIN erFile' : j = i \/ erFile'[j] = erFile[j] BY <3>7, <3>8
      <3>10. \A j \in DOMAIN erFile' : Len(erFile'[j]) \in 1..erCount
        <4>1. 1 \in 1..erCount
          <5>1. Len(erFile[i]) \in 1..erCount BY <1>2
          <5> QED BY <5>1, <1>2
        <4> QED BY <4>1, <3>6, <3>7, <3>8, <3>9, <1>2
      <3>11. \A j \in DOMAIN erFile' : Parses(erFile'[j]) =>
                /\ Parses(erFile[j]) /\ EntryFits(erFile'[j][1], erTampered', erOverlaps)
                /\ erFile'[j][1].number = erFile[j][1].number /\ erFile'[j][1].seen = erFile[j][1].seen
        <4> SUFFICES ASSUME NEW j \in DOMAIN erFile', Parses(erFile'[j])
                     PROVE  /\ Parses(erFile[j]) /\ EntryFits(erFile'[j][1], erTampered', erOverlaps)
                            /\ erFile'[j][1].number = erFile[j][1].number
                            /\ erFile'[j][1].seen = erFile[j][1].seen
          OBVIOUS
        <4>1. CASE j = i BY <4>1, <3>1, <3>5, <3>6, <3>7
        <4>2. CASE erFile'[j] = erFile[j]
          <5>1. EntryFits(erFile[j][1], erTampered, erOverlaps) BY <4>2, <3>8, <1>4 DEF FileFits
          <5> QED BY <5>1, <4>2, <1>3, EntriesStayFit
        <4> QED BY <4>1, <4>2, <3>9
      <3> HIDE DEF e
      <3>12. FileFits(erFile', erTampered', erOverlaps) BY <3>8, <3>11, <1>4 DEF FileFits
      <3> QED BY <3>7, <3>10, <3>12
    <2> QED BY <2>1, <2>2
  <1>6. Appending' = Appending BY <1>1 DEF Appending
  <1>7. RegistryTyped' BY <1>1, <1>3, <1>5, <1>6 DEF RegistryInv, RegistryTyped
  <1>8. \A p \in Recorders : RecorderFits(erRecorder[p], read_experiments(erFile'), erTampered', erOverlaps)
    <2>1. \A p \in Recorders : RecorderFits(erRecorder[p], read_experiments(erFile), erTampered, erOverlaps)
      BY DEF RegistryInv, RegistryFits
    <2> QED BY <2>1, <1>3 DEF RecorderFits
  <1>9. RegistryFits' BY <1>1, <1>3, <1>5, <1>8 DEF RegistryFits
  <1> QED BY <1>7, <1>9 DEF RegistryInv

LEMMA ReportsAreSequences ==
    ASSUME NEW report \in RatingReports
    PROVE  SetToSeq(ComparisonRecords(report)) \in Seq(Recorded)
  <1> DEFINE R == ComparisonRecords(report)
             kept == {d \in report : d.verdict \in {"model_better", "baseline_better", "inconclusive"}}
             n == Cardinality(R)
  <1>1. IsFiniteSet(R)
    <2>1. IsFiniteSet(kept) BY RegistryAssumption, FS_Subset
    <2> DEFINE record(c) ==
          [hypothesis |-> c.baseline, effect |-> c.mean, interval |-> Interval(c), size |-> c.size,
           decision |-> CASE c.verdict = "model_better" -> "accepted"
                          [] c.verdict = "baseline_better" -> "rejected"
                          [] c.verdict = "inconclusive" -> "inconclusive"]
    <2>2. R = {record(c) : c \in kept} BY DEF ComparisonRecords
    <2> HIDE DEF kept, R, record
    <2>3. IsFiniteSet({record(c) : c \in kept})
      <3> DEFINE f == [c \in kept |-> record(c)]
      <3>1. f \in Surjection(kept, {record(c) : c \in kept})
        BY DEF Surjection
      <3> QED BY <2>1, <3>1, FS_Surjection
    <2> QED BY <2>2, <2>3
  <1>2. n \in Nat /\ ExistsBijection(1..n, R) BY <1>1, FS_CardinalityType
  <1> HIDE DEF n
  <1>3. \E f \in [1..n -> R] : IsInjective(f)
    BY <1>2 DEF ExistsBijection, Bijection, Injection, IsInjective
  <1>4. SetToSeq(R) \in [1..n -> R] BY <1>3 DEF SetToSeq, n
  <1>5. R \subseteq Recorded BY DEF Recorded
  <1> HIDE DEF R
  <1>6. SetToSeq(R) \in [1..n -> Recorded] BY <1>4, <1>5
  <1> QED BY <1>2, <1>6 DEF R

LEMMA RegistryKeeps == RegistryInv /\ (erNext \/ UNCHANGED erVars) => RegistryInv'
  <1> SUFFICES ASSUME RegistryInv, erNext \/ UNCHANGED erVars PROVE RegistryInv'
    OBVIOUS
  <1>1. ASSUME NEW p \in Recorders, NEW report \in RatingReports,
               StartReport(p, SetToSeq(ComparisonRecords(report)))
        PROVE  RegistryInv'
    BY <1>1, StartKeeps, ReportsAreSequences
  <1>2. ASSUME NEW p \in Recorders, NEW r \in PowerReports, StartReport(p, <<PowerRecord(r)>>)
        PROVE  RegistryInv'
    <2>1. PowerRecord(r) \in Recorded BY DEF Recorded
    <2>2. <<PowerRecord(r)>> \in Seq(Recorded) BY <2>1
    <2> QED BY <1>2, <2>2, StartKeeps
  <1>3. CASE UNCHANGED erVars
    BY <1>3 DEF erVars, RegistryInv, RegistryTyped, RegistryFits, Appending
  <1> QED BY <1>1, <1>2, <1>3, ReadKeeps, AppendKeeps, DieKeeps, EditKeeps DEF erNext

-----------------------------------------------------------------------------
\* Along a chain that verifies, the hash of an entry commits to entries up to it.
LEMMA HashesReachBack ==
    ASSUME NEW rows \in Seq(Pieces), verify_registry(rows),
           \A i \in DOMAIN rows : \E b \in Bodies :
               b.number = rows[i].number /\ rows[i].entryHash = Append(rows[i].previousHash, b)
    PROVE  \A i \in DOMAIN rows : \A n \in HashNumbers(rows[i].previousHash) :
               \E j \in 1..(i - 1) : rows[j].number = n
  <1> DEFINE Back(i) == \A n \in HashNumbers(rows[i].previousHash) :
                            \E j \in 1..(i - 1) : rows[j].number = n
             S == {k \in Nat : k + 1 \in DOMAIN rows => Back(k + 1)}
  <1>1. DOMAIN rows = 1..Len(rows) /\ Len(rows) \in Nat OBVIOUS
  <1>2. 0 \in S
    <2> SUFFICES ASSUME 1 \in DOMAIN rows PROVE Back(1)
      OBVIOUS
    <2>1. rows[1].previousHash = <<>> BY DEF verify_registry, Genesis
    <2>2. HashNumbers(<<>>) = {} BY DEF HashNumbers
    <2> QED BY <2>1, <2>2
  <1>3. ASSUME NEW k \in Nat, k \in S PROVE k + 1 \in S
    <2> DEFINE i == k + 1
    <2> SUFFICES ASSUME i + 1 \in DOMAIN rows PROVE Back(i + 1)
      OBVIOUS
    <2>1. i \in DOMAIN rows /\ i + 1 # 1 /\ (i + 1) - 1 = i /\ i \in Nat /\ i - 1 \in Nat BY <1>1
    <2>2. Back(i) BY <1>3, <2>1
    <2> HIDE DEF i
    <2> SUFFICES ASSUME NEW n \in HashNumbers(rows[i + 1].previousHash)
                 PROVE  \E j \in 1..i : rows[j].number = n
      BY <2>1
    <2>3. rows[i + 1].previousHash = rows[i].entryHash BY <2>1 DEF verify_registry
    <2>4. PICK b \in Bodies : b.number = rows[i].number /\ rows[i].entryHash = Append(rows[i].previousHash, b)
      BY <2>1
    <2> DEFINE old == rows[i].previousHash
               hash == rows[i].entryHash
    <2>5. old \in Seq(Bodies)
      <3>1. rows[i] \in Pieces BY <2>1, ElementsBelong
      <3> QED BY <3>1 DEF Pieces, Hashes
    <2>6. /\ hash \in Seq(Bodies) /\ Len(hash) = Len(old) + 1 /\ hash[Len(old) + 1] = b
          /\ \A j \in 1..Len(old) : hash[j] = old[j]
      BY <2>4, <2>5, LongerByOne
    <2>7. Len(old) \in Nat /\ DOMAIN old = 1..Len(old) /\ DOMAIN hash = 1..(Len(old) + 1)
      BY <2>5, <2>6
    <2> HIDE DEF old, hash
    <2>8. PICK h \in DOMAIN hash : hash[h].number = n BY <2>3 DEF HashNumbers, hash
    <2>9. CASE h = Len(old) + 1
      <3>1. rows[i].number = n BY <2>4, <2>6, <2>8, <2>9
      <3> QED BY <3>1, <2>1
    <2>10. CASE h # Len(old) + 1
      <3>1. h \in DOMAIN old /\ hash[h] = old[h] BY <2>6, <2>7, <2>8, <2>10
      <3>2. n \in HashNumbers(old) BY <3>1, <2>8 DEF HashNumbers
      <3>3. PICK j \in 1..(i - 1) : rows[j].number = n BY <3>2, <2>2 DEF old
      <3>4. j \in 1..i BY <2>1
      <3> QED BY <3>3, <3>4
    <2> QED BY <2>9, <2>10
  <1>4. Nat \subseteq S
    <2> HIDE DEF S
    <2> QED BY <1>2, <1>3, CountingUp
  <1> SUFFICES ASSUME NEW i \in DOMAIN rows PROVE Back(i)
    OBVIOUS
  <1>5. i - 1 \in Nat /\ (i - 1) + 1 = i BY <1>1
  <1> HIDE DEF Back
  <1> QED BY <1>4, <1>5

LEMMA RegistryPropertiesFollow == RegistryInv => erTypeOK /\ HistoryIsKept /\ VerdictsAreEarned
  <1> SUFFICES ASSUME RegistryInv PROVE erTypeOK /\ HistoryIsKept /\ VerdictsAreEarned
    OBVIOUS
  <1> DEFINE rows == read_experiments(erFile)
  <1>1. erFile \in Seq(Lines) /\ erCount \in Nat /\ erAcked \in SUBSET (1..erCount) /\ erDeaths \in Nat
    BY DEF RegistryInv, RegistryTyped
  <1>2. RegistryTyped BY DEF RegistryInv
  <1>3. erTypeOK
    <2>1. erCount \in 0..(MaxLines + Cardinality(Recorders))
      <3>1. /\ Cardinality(Appending) \in Nat /\ Cardinality(Recorders) \in Nat /\ MaxLines \in Nat
            /\ erCount + Cardinality(Appending) <= MaxLines + Cardinality(Recorders)
        BY <1>2, AppendingCounts, RegistryAssumption DEF RegistryTyped
      <3> QED BY <3>1, <1>1
    <2>2. \A p \in Recorders : erRecorder[p].at \in {"idle", "next", "append"}
      BY <1>2 DEF RegistryTyped, RecorderTyped, IdleRecorder
    <2> QED BY <2>1, <2>2, <1>2 DEF RegistryTyped, erTypeOK
  <1>4. /\ rows \in Seq(Pieces)
        /\ \A k \in DOMAIN rows : EntryFits(rows[k], erTampered, erOverlaps)
    <2>1. FileFits(erFile, erTampered, erOverlaps) BY DEF RegistryInv, RegistryFits
    <2>2. /\ rows \in Seq(Pieces)
          /\ \A k \in DOMAIN rows : \E i \in DOMAIN erFile : Parses(erFile[i]) /\ rows[k] = erFile[i][1]
      BY <1>1, RowsAreLines
    <2> HIDE DEF rows
    <2> QED BY <2>1, <2>2 DEF FileFits
  <1>5. VerdictsAreEarned
    <2> SUFFICES ASSUME erTampered = 0, NEW i \in DOMAIN rows
                 PROVE  LET x == rows[i].body.record
                        IN  /\ x.decision = "accepted" => ~HoldsZero(x.interval)
                            /\ x.decision = "inconclusive" => HoldsZero(x.interval)
      BY DEF VerdictsAreEarned
    <2>1. rows[i].body.record \in Recorded /\ ValidRecord(rows[i].body.record)
      BY <1>4 DEF EntryFits
    <2> HIDE DEF rows
    <2> QED BY <2>1, RecordsAreEarned
  <1>6. HistoryIsKept
    <2>1. erTampered = 0 /\ ~erOverlaps => ChainValid(erFile) BY DEF RegistryInv, RegistryFits
    <2>2. ASSUME ~erOverlaps, ChainValid(erFile), NEW i \in DOMAIN rows
          PROVE  /\ rows[i].entryHash = EntryHash(rows[i].body, rows[i].previousHash)
                 /\ \A n \in ToSet(rows[i].seen) : \E j \in 1 .. i - 1 : rows[j].number = n
      <3>1. verify_registry(rows) BY <2>2 DEF ChainValid
      <3> HIDE DEF rows
      <3>2. rows[i].entryHash = EntryHash(rows[i].body, rows[i].previousHash)
        BY <3>1, <2>2 DEF verify_registry
      <3>3. \A k \in DOMAIN rows : \E b \in Bodies :
                b.number = rows[k].number /\ rows[k].entryHash = Append(rows[k].previousHash, b)
        BY <1>4 DEF EntryFits
      <3>4. \A n \in HashNumbers(rows[i].previousHash) : \E j \in 1..(i - 1) : rows[j].number = n
        BY <3>1, <3>3, <1>4, <2>2, HashesReachBack
      <3>5. ToSet(rows[i].seen) \subseteq HashNumbers(rows[i].previousHash)
        BY <1>4, <2>2 DEF EntryFits
      <3> QED BY <3>2, <3>4, <3>5
    <2>3. erTampered = 0 => Cardinality(erAcked \ Numbers(erFile)) <= erDeaths
      <3>1. erTampered = 0 =>
              Cardinality(erAcked \ Numbers(erFile)) + (IF Unended(erFile) THEN 1 ELSE 0) <= erDeaths
        BY DEF RegistryInv, RegistryFits
      <3>2. Cardinality(erAcked \ Numbers(erFile)) \in Nat BY <1>1, LostCounts
      <3> QED BY <3>1, <3>2, <1>1
    <2> QED BY <2>1, <2>2, <2>3 DEF HistoryIsKept
  <1> QED BY <1>3, <1>5, <1>6

-----------------------------------------------------------------------------
(* ReturnDecomposition: what the exposure limits keep. *)

\* A position is counted by its cents: a sum over positions is the size of a set.
PricedSet(S) == IsFiniteSet(S) /\ \A r \in S : r.price \in Nat
Cents(S) == UNION {{r} \X (1..r.price) : r \in S}

LEMMA CentsOfOne ==
    ASSUME NEW r, r.price \in Nat
    PROVE  IsFiniteSet({r} \X (1..r.price)) /\ Cardinality({r} \X (1..r.price)) = r.price
  <1> DEFINE n == r.price
             f == [k \in 1..n |-> <<r, k>>]
  <1>1. n \in Nat OBVIOUS
  <1> HIDE DEF n
  <1>2. IsFiniteSet(1..n) /\ Cardinality(1..n) = n
    <2>1. n \in Int /\ 1 \in Int BY <1>1
    <2>2. IsFiniteSet(1..n) /\ Cardinality(1..n) = IF 1 > n THEN 0 ELSE n - 1 + 1 BY <2>1, FS_Interval
    <2>3. (IF 1 > n THEN 0 ELSE n - 1 + 1) = n BY <1>1
    <2> QED BY <2>2, <2>3
  <1>3. f \in Bijection(1..n, {r} \X (1..n)) BY DEF Bijection, Injection, Surjection, IsInjective
  <1> HIDE DEF f
  <1>4. IsFiniteSet({r} \X (1..n)) /\ Cardinality({r} \X (1..n)) = n
    BY <1>2, <1>3, FS_Bijection, FS_Surjection DEF ExistsBijection, Bijection
  <1> QED BY <1>4 DEF n

LEMMA CentsAdd ==
    ASSUME NEW S, NEW c, c \notin S, IsFiniteSet(Cents(S)), c.price \in Nat
    PROVE  /\ IsFiniteSet(Cents(S \cup {c}))
           /\ Cardinality(Cents(S)) \in Nat
           /\ Cardinality(Cents(S \cup {c})) = Cardinality(Cents(S)) + c.price
  <1> DEFINE A == Cents(S)
             B == {c} \X (1..c.price)
  <1>1. Cents(S \cup {c}) = A \cup B /\ A \cap B = {} BY DEF Cents
  <1>2. IsFiniteSet(A) /\ IsFiniteSet(B) /\ Cardinality(B) = c.price BY CentsOfOne
  <1> HIDE DEF A, B
  <1>3. IsFiniteSet(A \cup B) BY <1>2, FS_Union
  <1>4. Cardinality(A \cup B) = Cardinality(A) + Cardinality(B) /\ Cardinality(A) \in Nat
    BY <1>1, <1>3, TwoParts
  <1> QED BY <1>1, <1>2, <1>3, <1>4 DEF A

LEMMA CentsAreFinite ==
    ASSUME NEW S, PricedSet(S)
    PROVE  IsFiniteSet(Cents(S)) /\ Cardinality(Cents(S)) \in Nat
  <1> DEFINE N == {n \in Nat : \A T \in SUBSET S : Cardinality(T) = n => IsFiniteSet(Cents(T))}
  <1>1. 0 \in N
    <2>1. \A T \in SUBSET S : Cardinality(T) = 0 => T = {} BY FS_Subset, FS_EmptySet DEF PricedSet
    <2>2. Cents({}) = {} BY DEF Cents
    <2> QED BY <2>1, <2>2, FS_EmptySet
  <1>2. ASSUME NEW n \in Nat, n \in N PROVE n + 1 \in N
    <2> SUFFICES ASSUME NEW T \in SUBSET S, Cardinality(T) = n + 1 PROVE IsFiniteSet(Cents(T))
      OBVIOUS
    <2>1. IsFiniteSet(T) BY FS_Subset DEF PricedSet
    <2>2. PICK c : c \in T
      <3>1. Cardinality({}) = 0 BY FS_EmptySet
      <3>2. n + 1 # 0 OBVIOUS
      <3> QED BY <3>1, <3>2
    <2>3. Cardinality(T \ {c}) = n
      <3>1. Cardinality(T \ {c}) = Cardinality(T) - 1 BY <2>1, <2>2, FS_RemoveElement
      <3>2. (n + 1) - 1 = n OBVIOUS
      <3> QED BY <3>1, <3>2
    <2>4. IsFiniteSet(Cents(T \ {c})) BY <1>2, <2>3
    <2>5. T = (T \ {c}) \cup {c} /\ c \notin T \ {c} BY <2>2
    <2>6. c.price \in Nat BY <2>2 DEF PricedSet
    <2> QED BY <2>4, <2>5, <2>6, CentsAdd
  <1>3. Nat \subseteq N
    <2> HIDE DEF N
    <2> QED BY <1>1, <1>2, CountingUp
  <1>4. IsFiniteSet(Cents(S)) BY <1>3, FS_CardinalityType DEF PricedSet
  <1> QED BY <1>4, FS_CardinalityType

\* Capital, the sum of the prices in an order the fold chooses, has no order.
LEMMA CapitalCounts ==
    ASSUME NEW K, PricedSet(K)
    PROVE  Capital(K) = Cardinality(Cents(K))
  <1> DEFINE Step(g) == [s \in SUBSET K |->
                 IF s = {} THEN 0
                 ELSE g[s \ {CHOOSE x \in s : TRUE}] + (CHOOSE x \in s : TRUE).price]
             good == CHOOSE g : g = Step(g)
  <1>1. Capital(K) = good[K]
    BY DEF Capital, Total, FoldSet, MapThenFoldSet
  <1>2. ASSUME NEW s \in SUBSET K, NEW x \in s
        PROVE  Cardinality(Cents(s)) = Cardinality(Cents(s \ {x})) + x.price
    <2>1. PricedSet(s \ {x}) /\ x.price \in Nat BY FS_Subset DEF PricedSet
    <2>2. s = (s \ {x}) \cup {x} /\ x \notin s \ {x} OBVIOUS
    <2>3. IsFiniteSet(Cents(s \ {x})) BY <2>1, CentsAreFinite
    <2> QED BY <2>1, <2>2, <2>3, CentsAdd
  <1>3. Cardinality(Cents({})) = 0
    <2>1. Cents({}) = {} BY DEF Cents
    <2> QED BY <2>1, FS_EmptySet
  <1>4. \E g : g = Step(g)
    <2> DEFINE g == [s \in SUBSET K |-> Cardinality(Cents(s))]
    <2>1. \A s \in SUBSET K : g[s] = IF s = {} THEN 0
                 ELSE g[s \ {CHOOSE x \in s : TRUE}] + (CHOOSE x \in s : TRUE).price
      BY <1>2, <1>3
    <2>2. g = Step(g) BY <2>1
    <2> QED BY <2>2
  <1>5. good = Step(good) BY <1>4
  <1>6. \A s \in SUBSET K : good[s] = IF s = {} THEN 0
                 ELSE good[s \ {CHOOSE x \in s : TRUE}] + (CHOOSE x \in s : TRUE).price
    <2> HIDE DEF good
    <2> QED BY <1>5
  <1> HIDE DEF good
  <1> DEFINE N == {n \in Nat : \A s \in SUBSET K : Cardinality(s) = n => good[s] = Cardinality(Cents(s))}
  <1>7. 0 \in N
    <2>1. \A s \in SUBSET K : Cardinality(s) = 0 => s = {} BY FS_Subset, FS_EmptySet DEF PricedSet
    <2> QED BY <2>1, <1>3, <1>6
  <1>8. ASSUME NEW n \in Nat, n \in N PROVE n + 1 \in N
    <2> SUFFICES ASSUME NEW s \in SUBSET K, Cardinality(s) = n + 1 PROVE good[s] = Cardinality(Cents(s))
      OBVIOUS
    <2>1. IsFiniteSet(s) BY FS_Subset DEF PricedSet
    <2>2. s # {}
      <3>1. Cardinality({}) = 0 BY FS_EmptySet
      <3>2. n + 1 # 0 OBVIOUS
      <3> QED BY <3>1, <3>2
    <2>3. PICK x \in s : good[s] = good[s \ {x}] + x.price
      <3> DEFINE x == CHOOSE x \in s : TRUE
      <3>1. x \in s BY <2>2
      <3>2. good[s] = good[s \ {x}] + x.price BY <1>6, <2>2
      <3> HIDE DEF x
      <3> QED BY <3>1, <3>2
    <2>4. Cardinality(s \ {x}) = n
      <3>1. Cardinality(s \ {x}) = Cardinality(s) - 1 BY <2>1, FS_RemoveElement
      <3>2. (n + 1) - 1 = n OBVIOUS
      <3> QED BY <3>1, <3>2
    <2>5. good[s \ {x}] = Cardinality(Cents(s \ {x})) BY <1>8, <2>4
    <2> QED BY <1>2, <2>3, <2>5
  <1>9. Nat \subseteq N
    <2> HIDE DEF N
    <2> QED BY <1>7, <1>8, CountingUp
  <1>10. good[K] = Cardinality(Cents(K)) BY <1>9, FS_CardinalityType DEF PricedSet
  <1> QED BY <1>1, <1>10

LEMMA CapitalAdds ==
    ASSUME NEW S, PricedSet(S), NEW c, c \notin S, c.price \in Nat
    PROVE  Capital(S) \in Nat /\ Capital(S \cup {c}) = Capital(S) + c.price
  <1>1. PricedSet(S \cup {c}) BY FS_AddElement DEF PricedSet
  <1> QED BY <1>1, CapitalCounts, CentsAreFinite, CentsAdd

LEMMA CapitalGrows ==
    ASSUME NEW T, PricedSet(T), NEW S \in SUBSET T
    PROVE  Capital(S) \in Nat /\ Capital(T) \in Nat /\ Capital(S) <= Capital(T)
  <1>1. PricedSet(S) BY FS_Subset DEF PricedSet
  <1>2. Cents(S) \subseteq Cents(T) BY DEF Cents
  <1>3. IsFiniteSet(Cents(T)) BY CentsAreFinite
  <1>4. Cardinality(Cents(S)) <= Cardinality(Cents(T)) BY <1>2, <1>3, FS_Subset
  <1> QED BY <1>1, <1>4, CapitalCounts, CentsAreFinite

-----------------------------------------------------------------------------
(* What a limit says of a group of positions. *)

Sides == {"yes", "no", "up", "down"}
Position(r) == r.price \in Nat /\ r.side \in Sides
Limits(limits) ==
    {limits.capital, limits.position, limits.event, limits.category, limits.underlying,
     limits.correlated, limits.marketsPerEvent} \subseteq Nat \ {0}
Positions(S) == IsFiniteSet(S) /\ \A r \in S : Position(r)

LEMMA SidesMirror ==
    ASSUME NEW a \in Sides, NEW b \in Sides
    PROVE  a = Opposite(b) <=> b = Opposite(a)
  BY DEF Sides, Opposite

\* The event is the only underlying, so the groups are those of event and category.
LEMMA GroupsAre ==
    ASSUME NEW q, NEW r
    PROVE  /\ Underlying(q) \cap Underlying(r) # {} <=> q.event = r.event
           /\ correlation_group_id(q) = correlation_group_id(r)
                  <=> q.event = r.event /\ q.category = r.category
  <1>1. Underlying(q) \cap Underlying(r) # {} <=> q.event = r.event BY DEF Underlying
  <1>2. <<q.event, q.category, Underlying(q)>> = <<r.event, r.category, Underlying(r)>>
            <=> q.event = r.event /\ q.category = r.category
    BY DEF Underlying
  <1> QED BY <1>1, <1>2 DEF correlation_group_id

SameEvent(S, r) == {q \in S : q.event = r.event}
SameCategory(S, r) == {q \in S : q.category = r.category}
SameBoth(S, r) == {q \in S : q.event = r.event /\ q.category = r.category}
MarketsOf(S) == {q.market : q \in S}

\* Respects and Reasons, with the groups as they are.
KeepsWithin(S, limits, r) ==
    /\ r.price <= limits.position
    /\ Capital(SameEvent(S, r)) <= limits.event
    /\ Capital(SameCategory(S, r)) <= limits.category
    /\ Capital(SameEvent(S, r)) <= limits.underlying
    /\ Capital(SameBoth(S, r)) <= limits.correlated
    /\ Cardinality(MarketsOf(SameEvent(S, r))) <= limits.marketsPerEvent
    /\ \A q \in S : ExposureKey(q) = ExposureKey(r) => q = r
    /\ \A q \in S : ~(q.event = r.event /\ q.market = r.market /\ q.side = Opposite(r.side))
Fits(S, limits, c) ==
    /\ ExposureKey(c) \notin {ExposureKey(r) : r \in S}
    /\ ~(c.price > limits.position)
    /\ ~(Cardinality(MarketsOf(SameEvent(S, c)) \cup {c.market}) > limits.marketsPerEvent)
    /\ ~(Capital(S) + c.price > limits.capital)
    /\ ~(Capital(SameEvent(S, c)) + c.price > limits.event)
    /\ ~(Capital(SameCategory(S, c)) + c.price > limits.category)
    /\ ~(Capital(SameEvent(S, c)) + c.price > limits.underlying)
    /\ ~(Capital(SameBoth(S, c)) + c.price > limits.correlated)
    /\ \A r \in SameEvent(S, c) : ~(r.market = c.market /\ r.side = Opposite(c.side))

LEMMA RespectsIs ==
    ASSUME NEW S, NEW limits
    PROVE  Respects(S, limits)
               <=> Capital(S) <= limits.capital /\ \A r \in S : KeepsWithin(S, limits, r)
  <1>1. ASSUME NEW r
        PROVE  /\ {q \in S : q.event = r.event} = SameEvent(S, r)
               /\ {q \in S : q.category = r.category} = SameCategory(S, r)
               /\ {q \in S : Underlying(q) \cap Underlying(r) # {}} = SameEvent(S, r)
               /\ {q \in S : correlation_group_id(q) = correlation_group_id(r)} = SameBoth(S, r)
               /\ {q.market : q \in {p \in S : p.event = r.event}} = MarketsOf(SameEvent(S, r))
    BY GroupsAre DEF SameEvent, SameCategory, SameBoth, MarketsOf
  <1> QED BY <1>1 DEF Respects, KeepsWithin

LEMMA AcceptsIs ==
    ASSUME NEW S, NEW limits, NEW c
    PROVE  Accepts(c, S, limits) <=> Fits(S, limits, c)
  <1>1. /\ {r \in S : r.event = c.event} = SameEvent(S, c)
        /\ {r \in S : r.category = c.category} = SameCategory(S, c)
        /\ {r \in S : correlation_group_id(r) = correlation_group_id(c)} = SameBoth(S, c)
        /\ {r \in S : Underlying(r) \cap Underlying(c) # {}} = SameEvent(S, c)
        /\ {r.market : r \in SameEvent(S, c)} = MarketsOf(SameEvent(S, c))
        /\ Underlying(c) # {}
    BY GroupsAre DEF SameEvent, SameCategory, SameBoth, MarketsOf, Underlying
  <1>2. Reasons(c, S, limits) =
          {reason \in {"duplicate", "position", "markets", "portfolio", "event",
                       "category", "underlying", "correlated", "opposing"} :
            CASE reason = "duplicate" -> ExposureKey(c) \in {ExposureKey(r) : r \in S}
              [] reason = "position" -> c.price > limits.position
              [] reason = "markets" ->
                    Cardinality(MarketsOf(SameEvent(S, c)) \cup {c.market}) > limits.marketsPerEvent
              [] reason = "portfolio" -> Capital(S) + c.price > limits.capital
              [] reason = "event" -> Capital(SameEvent(S, c)) + c.price > limits.event
              [] reason = "category" -> Capital(SameCategory(S, c)) + c.price > limits.category
              [] reason = "underlying" ->
                    Underlying(c) # {} /\ Capital(SameEvent(S, c)) + c.price > limits.underlying
              [] reason = "correlated" -> Capital(SameBoth(S, c)) + c.price > limits.correlated
              [] OTHER -> \E r \in SameEvent(S, c) :
                    r.market = c.market /\ r.side = Opposite(c.side)}
    BY Zenon, <1>1 DEF Reasons
  <1> DEFINE dup == ExposureKey(c) \in {ExposureKey(r) : r \in S}
             pos == c.price > limits.position
             mkt == Cardinality(MarketsOf(SameEvent(S, c)) \cup {c.market}) > limits.marketsPerEvent
             all == Capital(S) + c.price > limits.capital
             evt == Capital(SameEvent(S, c)) + c.price > limits.event
             cat == Capital(SameCategory(S, c)) + c.price > limits.category
             und == Underlying(c) # {} /\ Capital(SameEvent(S, c)) + c.price > limits.underlying
             cor == Capital(SameBoth(S, c)) + c.price > limits.correlated
             opp == \E r \in SameEvent(S, c) : r.market = c.market /\ r.side = Opposite(c.side)
  <1>3. Fits(S, limits, c) <=> ~dup /\ ~pos /\ ~mkt /\ ~all /\ ~evt /\ ~cat /\ ~und /\ ~cor /\ ~opp
    BY Zenon, <1>1 DEF Fits
  <1>4. Reasons(c, S, limits) =
          {reason \in {"duplicate", "position", "markets", "portfolio", "event",
                       "category", "underlying", "correlated", "opposing"} :
            CASE reason = "duplicate" -> dup
              [] reason = "position" -> pos
              [] reason = "markets" -> mkt
              [] reason = "portfolio" -> all
              [] reason = "event" -> evt
              [] reason = "category" -> cat
              [] reason = "underlying" -> und
              [] reason = "correlated" -> cor
              [] OTHER -> opp}
    BY Zenon, <1>2
  <1> HIDE DEF dup, pos, mkt, all, evt, cat, und, cor, opp
  <1>5. Reasons(c, S, limits) = {} <=>
            ~dup /\ ~pos /\ ~mkt /\ ~all /\ ~evt /\ ~cat /\ ~und /\ ~cor /\ ~opp
    BY <1>4
  <1> QED BY <1>3, <1>5 DEF Accepts

LEMMA GroupsArePositions ==
    ASSUME NEW S, Positions(S), NEW T \in SUBSET S
    PROVE  Positions(T) /\ PricedSet(T)
  BY FS_Subset DEF Positions, Position, PricedSet

LEMMA MarketsCount ==
    ASSUME NEW S, IsFiniteSet(S), NEW T \in SUBSET S
    PROVE  /\ Cardinality(MarketsOf(T)) \in Nat /\ Cardinality(MarketsOf(S)) \in Nat
           /\ Cardinality(MarketsOf(T)) <= Cardinality(MarketsOf(S))
  <1> DEFINE f == [q \in S |-> q.market]
  <1>1. f \in Surjection(S, MarketsOf(S)) BY DEF Surjection, MarketsOf
  <1> HIDE DEF f
  <1>2. IsFiniteSet(MarketsOf(S)) BY <1>1, FS_Surjection
  <1>3. MarketsOf(T) \subseteq MarketsOf(S) BY DEF MarketsOf
  <1> QED BY <1>2, <1>3, FS_Subset, FS_CardinalityType

\* Fewer positions break no limit that more of them respect.
LEMMA FewerRespect ==
    ASSUME NEW limits, Limits(limits), NEW T, Positions(T), Respects(T, limits),
           NEW S \in SUBSET T
    PROVE  Respects(S, limits)
  <1>1. Capital(T) <= limits.capital /\ \A r \in T : KeepsWithin(T, limits, r) BY RespectsIs
  <1>2. Capital(S) <= limits.capital
    <2>1. Capital(S) \in Nat /\ Capital(T) \in Nat /\ Capital(S) <= Capital(T)
      BY GroupsArePositions, CapitalGrows
    <2> QED BY <1>1, <2>1 DEF Limits
  <1>3. ASSUME NEW r \in S PROVE KeepsWithin(S, limits, r)
    <2>1. KeepsWithin(T, limits, r) BY <1>1
    <2>2. /\ SameEvent(S, r) \in SUBSET SameEvent(T, r) /\ SameEvent(T, r) \in SUBSET T
          /\ SameCategory(S, r) \in SUBSET SameCategory(T, r) /\ SameCategory(T, r) \in SUBSET T
          /\ SameBoth(S, r) \in SUBSET SameBoth(T, r) /\ SameBoth(T, r) \in SUBSET T
      BY DEF SameEvent, SameCategory, SameBoth
    <2>3. /\ Capital(SameEvent(S, r)) \in Nat /\ Capital(SameEvent(T, r)) \in Nat
          /\ Capital(SameEvent(S, r)) <= Capital(SameEvent(T, r))
      BY <2>2, GroupsArePositions, CapitalGrows
    <2>4. /\ Capital(SameCategory(S, r)) \in Nat /\ Capital(SameCategory(T, r)) \in Nat
          /\ Capital(SameCategory(S, r)) <= Capital(SameCategory(T, r))
      BY <2>2, GroupsArePositions, CapitalGrows
    <2>5. /\ Capital(SameBoth(S, r)) \in Nat /\ Capital(SameBoth(T, r)) \in Nat
          /\ Capital(SameBoth(S, r)) <= Capital(SameBoth(T, r))
      BY <2>2, GroupsArePositions, CapitalGrows
    <2>6. /\ Cardinality(MarketsOf(SameEvent(S, r))) \in Nat
          /\ Cardinality(MarketsOf(SameEvent(T, r))) \in Nat
          /\ Cardinality(MarketsOf(SameEvent(S, r))) <= Cardinality(MarketsOf(SameEvent(T, r)))
      <3>1. IsFiniteSet(SameEvent(T, r)) BY <2>2, GroupsArePositions DEF Positions
      <3> QED BY <2>2, <3>1, MarketsCount
    <2> HIDE DEF Limits
    <2>7. {limits.event, limits.category, limits.underlying, limits.correlated,
           limits.marketsPerEvent} \subseteq Nat
      BY DEF Limits
    <2>8. \A a, b, c \in Nat : a <= b /\ b <= c => a <= c OBVIOUS
    <2> QED BY <2>1, <2>3, <2>4, <2>5, <2>6, <2>7, <2>8 DEF KeepsWithin
  <1> QED BY <1>2, <1>3, RespectsIs

\* What the groups of the positions are when one more is accepted.
LEMMA GroupsGrow ==
    ASSUME NEW S, NEW c, c \notin S, NEW r \in S \cup {c}
    PROVE  /\ r.event = c.event => SameEvent(S \cup {c}, r) = SameEvent(S, c) \cup {c}
           /\ r.event # c.event => r \in S /\ SameEvent(S \cup {c}, r) = SameEvent(S, r)
           /\ r.category = c.category => SameCategory(S \cup {c}, r) = SameCategory(S, c) \cup {c}
           /\ r.category # c.category => r \in S /\ SameCategory(S \cup {c}, r) = SameCategory(S, r)
           /\ r.event = c.event /\ r.category = c.category =>
                 SameBoth(S \cup {c}, r) = SameBoth(S, c) \cup {c}
           /\ ~(r.event = c.event /\ r.category = c.category) =>
                 r \in S /\ SameBoth(S \cup {c}, r) = SameBoth(S, r)
           /\ MarketsOf(SameEvent(S, c) \cup {c}) = MarketsOf(SameEvent(S, c)) \cup {c.market}
           /\ c \notin SameEvent(S, c) /\ c \notin SameCategory(S, c) /\ c \notin SameBoth(S, c)
  BY DEF SameEvent, SameCategory, SameBoth, MarketsOf

LEMMA GroupsCost ==
    ASSUME NEW S, NEW c, c \notin S, Positions(S \cup {c})
    PROVE  /\ Capital(S) \in Nat /\ Capital(S \cup {c}) = Capital(S) + c.price
           /\ Capital(SameEvent(S, c)) \in Nat
           /\ Capital(SameEvent(S, c) \cup {c}) = Capital(SameEvent(S, c)) + c.price
           /\ Capital(SameCategory(S, c)) \in Nat
           /\ Capital(SameCategory(S, c) \cup {c}) = Capital(SameCategory(S, c)) + c.price
           /\ Capital(SameBoth(S, c)) \in Nat
           /\ Capital(SameBoth(S, c) \cup {c}) = Capital(SameBoth(S, c)) + c.price
           /\ Cardinality(MarketsOf(SameEvent(S, c)) \cup {c.market}) \in Nat
           /\ c.price \in Nat
  <1>1. c.price \in Nat BY DEF Positions, Position
  <1>2. ASSUME NEW G \in SUBSET S
        PROVE  Capital(G) \in Nat /\ Capital(G \cup {c}) = Capital(G) + c.price
    <2>1. PricedSet(G) /\ c \notin G BY GroupsArePositions
    <2> QED BY <1>1, <2>1, CapitalAdds
  <1>3. SameEvent(S, c) \in SUBSET S /\ SameCategory(S, c) \in SUBSET S /\ SameBoth(S, c) \in SUBSET S
    BY DEF SameEvent, SameCategory, SameBoth
  <1>4. Cardinality(MarketsOf(SameEvent(S, c)) \cup {c.market}) \in Nat
    <2>1. MarketsOf(SameEvent(S, c) \cup {c}) = MarketsOf(SameEvent(S, c)) \cup {c.market}
      BY DEF MarketsOf
    <2>2. SameEvent(S, c) \cup {c} \in SUBSET (S \cup {c}) BY <1>3
    <2>3. IsFiniteSet(S \cup {c}) BY DEF Positions
    <2> QED BY <2>1, <2>2, <2>3, MarketsCount
  <1> QED BY <1>1, <1>2, <1>3, <1>4

\* A position that is accepted breaks no limit, its own or another's.
LEMMA AcceptedFits ==
    ASSUME NEW limits, Limits(limits), NEW S, NEW c, c \notin S, Positions(S \cup {c}),
           Respects(S, limits), Accepts(c, S, limits)
    PROVE  Respects(S \cup {c}, limits)
  <1> DEFINE T == S \cup {c}
             E == SameEvent(S, c)
             C == SameCategory(S, c)
             B == SameBoth(S, c)
             M == Cardinality(MarketsOf(E \cup {c}))
  <1>1. Capital(S) <= limits.capital /\ \A r \in S : KeepsWithin(S, limits, r) BY RespectsIs
  <1>2. Fits(S, limits, c) BY AcceptsIs
  <1>3. /\ limits.capital \in Nat /\ limits.position \in Nat /\ limits.event \in Nat
        /\ limits.category \in Nat /\ limits.underlying \in Nat /\ limits.correlated \in Nat
        /\ limits.marketsPerEvent \in Nat
    BY DEF Limits
  <1>4. /\ Capital(S) \in Nat /\ Capital(T) = Capital(S) + c.price
        /\ Capital(E) \in Nat /\ Capital(E \cup {c}) = Capital(E) + c.price
        /\ Capital(C) \in Nat /\ Capital(C \cup {c}) = Capital(C) + c.price
        /\ Capital(B) \in Nat /\ Capital(B \cup {c}) = Capital(B) + c.price
        /\ Cardinality(MarketsOf(E) \cup {c.market}) \in Nat /\ c.price \in Nat
    BY GroupsCost
  <1>5. MarketsOf(E \cup {c}) = MarketsOf(E) \cup {c.market} BY DEF MarketsOf
  <1>6. /\ ~(c.price > limits.position) /\ ~(M > limits.marketsPerEvent)
        /\ ~(Capital(S) + c.price > limits.capital)
        /\ ~(Capital(E) + c.price > limits.event) /\ ~(Capital(E) + c.price > limits.underlying)
        /\ ~(Capital(C) + c.price > limits.category) /\ ~(Capital(B) + c.price > limits.correlated)
    BY Zenon, <1>2, <1>5 DEF Fits
  <1>7. M \in Nat BY <1>4, <1>5
  <1>8. ASSUME NEW r \in T
        PROVE  /\ r.event = c.event => SameEvent(T, r) = E \cup {c}
               /\ r.event # c.event => r \in S /\ SameEvent(T, r) = SameEvent(S, r)
               /\ r.category = c.category => SameCategory(T, r) = C \cup {c}
               /\ r.category # c.category => r \in S /\ SameCategory(T, r) = SameCategory(S, r)
               /\ r.event = c.event /\ r.category = c.category => SameBoth(T, r) = B \cup {c}
               /\ ~(r.event = c.event /\ r.category = c.category) =>
                     r \in S /\ SameBoth(T, r) = SameBoth(S, r)
    BY DEF SameEvent, SameCategory, SameBoth
  <1>9. ASSUME NEW r \in T, NEW q \in T
        PROVE  /\ ExposureKey(q) = ExposureKey(r) => q = r
               /\ ~(q.event = r.event /\ q.market = r.market /\ q.side = Opposite(r.side))
    <2>1. q.side \in Sides /\ r.side \in Sides BY DEF Positions, Position
    <2>2. (q.side = Opposite(r.side) <=> r.side = Opposite(q.side)) /\ r.side # Opposite(r.side)
      <3>1. r.side # Opposite(r.side) BY <2>1 DEF Sides, Opposite
      <3> QED BY <2>1, <3>1, SidesMirror
    <2>3. CASE q \in S /\ r \in S BY <1>1, <2>3 DEF KeepsWithin
    <2>4. CASE q \in S /\ r = c BY <1>2, <2>4 DEF Fits, SameEvent
    <2>5. CASE q = c /\ r \in S BY <1>2, <2>2, <2>5 DEF Fits, SameEvent
    <2>6. CASE q = c /\ r = c BY <2>2, <2>6
    <2> QED BY <2>3, <2>4, <2>5, <2>6
  <1> HIDE DEF T, E, C, B, M
  <1>10. /\ c.price <= limits.position /\ M <= limits.marketsPerEvent /\ Capital(T) <= limits.capital
         /\ Capital(E \cup {c}) <= limits.event /\ Capital(E \cup {c}) <= limits.underlying
         /\ Capital(C \cup {c}) <= limits.category /\ Capital(B \cup {c}) <= limits.correlated
    BY <1>3, <1>4, <1>6, <1>7
  <1>11. ASSUME NEW r \in T PROVE KeepsWithin(T, limits, r)
    <2>1. r \in S => KeepsWithin(S, limits, r) BY <1>1
    <2>2. r = c \/ r \in S BY DEF T
    <2>3. r.price <= limits.position BY <2>1, <2>2, <1>10 DEF KeepsWithin
    <2>4. /\ Capital(SameEvent(T, r)) <= limits.event /\ Capital(SameEvent(T, r)) <= limits.underlying
          /\ Cardinality(MarketsOf(SameEvent(T, r))) <= limits.marketsPerEvent
      <3>1. CASE r.event = c.event
        <4>1. SameEvent(T, r) = E \cup {c} BY <1>8, <3>1
        <4> QED BY <4>1, <1>10 DEF M
      <3>2. CASE r.event # c.event
        <4>1. r \in S /\ SameEvent(T, r) = SameEvent(S, r) BY <1>8, <3>2
        <4> QED BY <4>1, <2>1 DEF KeepsWithin
      <3> QED BY <3>1, <3>2
    <2>5. Capital(SameCategory(T, r)) <= limits.category
      <3>1. CASE r.category = c.category
        <4>1. SameCategory(T, r) = C \cup {c} BY <1>8, <3>1
        <4> QED BY <4>1, <1>10
      <3>2. CASE r.category # c.category
        <4>1. r \in S /\ SameCategory(T, r) = SameCategory(S, r) BY <1>8, <3>2
        <4> QED BY <4>1, <2>1 DEF KeepsWithin
      <3> QED BY <3>1, <3>2
    <2>6. Capital(SameBoth(T, r)) <= limits.correlated
      <3>1. CASE r.event = c.event /\ r.category = c.category
        <4>1. SameBoth(T, r) = B \cup {c} BY <1>8, <3>1
        <4> QED BY <4>1, <1>10
      <3>2. CASE ~(r.event = c.event /\ r.category = c.category)
        <4>1. r \in S /\ SameBoth(T, r) = SameBoth(S, r) BY <1>8, <3>2
        <4> QED BY <4>1, <2>1 DEF KeepsWithin
      <3> QED BY <3>1, <3>2
    <2> QED BY Zenon, <2>3, <2>4, <2>5, <2>6, <1>9 DEF KeepsWithin
  <1>12. Respects(T, limits) BY <1>10, <1>11, RespectsIs
  <1> QED BY <1>12 DEF T

\* A position that is rejected would break a limit with those that were accepted.
LEMMA RejectedBreaks ==
    ASSUME NEW limits, Limits(limits), NEW S, NEW c, c \notin S, Positions(S \cup {c}),
           ~Accepts(c, S, limits)
    PROVE  ~Respects(S \cup {c}, limits)
  <1> DEFINE T == S \cup {c}
             E == SameEvent(S, c)
             C == SameCategory(S, c)
             B == SameBoth(S, c)
             M == Cardinality(MarketsOf(E \cup {c}))
  <1> SUFFICES ASSUME Respects(T, limits) PROVE Fits(S, limits, c)
    BY AcceptsIs
  <1>1. Capital(T) <= limits.capital /\ KeepsWithin(T, limits, c) BY RespectsIs
  <1>2. /\ limits.capital \in Nat /\ limits.position \in Nat /\ limits.event \in Nat
        /\ limits.category \in Nat /\ limits.underlying \in Nat /\ limits.correlated \in Nat
        /\ limits.marketsPerEvent \in Nat
    BY DEF Limits
  <1>3. /\ Capital(S) \in Nat /\ Capital(T) = Capital(S) + c.price
        /\ Capital(E) \in Nat /\ Capital(E \cup {c}) = Capital(E) + c.price
        /\ Capital(C) \in Nat /\ Capital(C \cup {c}) = Capital(C) + c.price
        /\ Capital(B) \in Nat /\ Capital(B \cup {c}) = Capital(B) + c.price
        /\ Cardinality(MarketsOf(E) \cup {c.market}) \in Nat /\ c.price \in Nat
    BY GroupsCost
  <1>4. /\ SameEvent(T, c) = E \cup {c} /\ SameCategory(T, c) = C \cup {c}
        /\ SameBoth(T, c) = B \cup {c}
        /\ MarketsOf(E \cup {c}) = MarketsOf(E) \cup {c.market}
    BY GroupsGrow
  <1>5. ExposureKey(c) \notin {ExposureKey(r) : r \in S}
    <2>1. \A q \in T : ExposureKey(q) = ExposureKey(c) => q = c BY <1>1 DEF KeepsWithin
    <2> QED BY Zenon, <2>1
  <1>6. \A r \in E : ~(r.market = c.market /\ r.side = Opposite(c.side))
    BY Zenon, <1>1 DEF KeepsWithin, SameEvent
  <1>7. M \in Nat BY <1>3, <1>4
  <1> HIDE DEF T, E, C, B, M
  <1>8. /\ c.price <= limits.position /\ M <= limits.marketsPerEvent
        /\ Capital(T) <= limits.capital
        /\ Capital(E \cup {c}) <= limits.event /\ Capital(E \cup {c}) <= limits.underlying
        /\ Capital(C \cup {c}) <= limits.category /\ Capital(B \cup {c}) <= limits.correlated
    BY Zenon, <1>1, <1>4 DEF KeepsWithin, M
  <1>9. /\ ~(c.price > limits.position) /\ ~(M > limits.marketsPerEvent)
        /\ ~(Capital(S) + c.price > limits.capital)
        /\ ~(Capital(E) + c.price > limits.event) /\ ~(Capital(E) + c.price > limits.underlying)
        /\ ~(Capital(C) + c.price > limits.category) /\ ~(Capital(B) + c.price > limits.correlated)
    BY <1>2, <1>3, <1>7, <1>8
  <1> QED BY Zenon, <1>4, <1>5, <1>6, <1>9 DEF Fits, E, C, B, M
-----------------------------------------------------------------------------
(* The two passes. *)

\* ExposureRows are positions, told apart by the ids of their rows.
ExposureRows(S) ==
    /\ Positions(S)
    /\ \A r \in S : r.time \in Nat /\ r.id \in Nat
    /\ \A r, s \in S : r.id = s.id => r = s

LEMMA RowsAreExposures ==
    ASSUME NEW log \in SUBSET PredictionRows
    PROVE  ExposureRows(Annotated(MarketDedupe(SettledPredictions(log))))
  <1> DEFINE rows == MarketDedupe(SettledPredictions(log))
             note(r) == [execution |-> PaperBuy(r)]
             R == {Over(note(r), r) : r \in rows}
             f == [r \in rows |-> Over(note(r), r)]
  <1>1. rows \subseteq PredictionRows BY DEF MarketDedupe, SettledPredictions
  <1>2. Annotated(rows) = R BY DEF Annotated
  <1>3. ASSUME NEW r \in PredictionRows
        PROVE  LET x == Over(note(r), r)
               IN  /\ x.id = r.id /\ x.time = r.time /\ x.side = r.side /\ x.price = r.price
                   /\ r.id \in Nat /\ r.time \in Nat /\ r.side \in Sides /\ r.price \in Nat
                   /\ \A s \in PredictionRows : s.id = r.id => s = r
    <2>1. /\ {"id", "time", "side", "price"} \subseteq DOMAIN r
          /\ r.id \in Nat /\ r.time \in Nat /\ r.side \in Sides /\ r.price \in Nat
          /\ \A s \in PredictionRows : s.id = r.id => s = r
      BY DecompositionAssumption DEF Sides
    <2> DEFINE new == note(r)
               x == Over(new, r)
    <2>2. DOMAIN new = {"execution"} OBVIOUS
    <2> HIDE DEF new
    <2>3. \A name \in {"id", "time", "side", "price"} : x[name] = r[name]
      BY <2>1, <2>2 DEF Over
    <2>4. x.id = r.id /\ x.time = r.time /\ x.side = r.side /\ x.price = r.price
      <3> HIDE DEF x
      <3> QED BY <2>3
    <2> QED BY <2>1, <2>4 DEF new
  <1>4. IsFiniteSet(R)
    <2>1. IsFiniteSet(rows) BY <1>1, FS_Subset, DecompositionAssumption
    <2>2. f \in Surjection(rows, R) BY DEF Surjection
    <2> HIDE DEF f, R, rows
    <2> QED BY <2>1, <2>2, FS_Surjection
  <1>5. ASSUME NEW x \in R
        PROVE  x.id \in Nat /\ x.time \in Nat /\ x.side \in Sides /\ x.price \in Nat
    <2>1. PICK r \in rows : x = Over(note(r), r) OBVIOUS
    <2> HIDE DEF rows, note
    <2> QED BY <1>1, <1>3, <2>1
  <1>6. ASSUME NEW x \in R, NEW y \in R, x.id = y.id PROVE x = y
    <2>1. PICK r \in rows : x = Over(note(r), r) OBVIOUS
    <2>2. PICK s \in rows : y = Over(note(s), s) OBVIOUS
    <2> HIDE DEF rows, note, R
    <2>3. r.id = s.id BY <1>1, <1>3, <1>6, <2>1, <2>2
    <2>4. r = s BY <1>1, <1>3, <2>3
    <2> QED BY <2>1, <2>2, <2>4
  <1> HIDE DEF R, rows
  <1>7. ExposureRows(R) BY <1>4, <1>5, <1>6 DEF ExposureRows, Positions, Position
  <1> QED BY <1>2, <1>7 DEF rows

\* There is a candidate to consider next as long as there is one.
LEMMA EarliestIs ==
    ASSUME NEW S, ExposureRows(S), S # {}
    PROVE  Earliest(S) \in S
  <1> DEFINE Times == {r.time : r \in S}
  <1>1. PICK t \in Times : \A u \in Times : t <= u
    <2>1. Times \in SUBSET Nat /\ Times # {} BY DEF ExposureRows
    <2> HIDE DEF Times
    <2> QED BY <2>1, LeastNumber
  <1> DEFINE First == {r \in S : r.time = t}
             Ids == {r.id : r \in First}
  <1>2. PICK n \in Ids : \A m \in Ids : n <= m
    <2>1. Ids \in SUBSET Nat /\ Ids # {} BY DEF ExposureRows
    <2> HIDE DEF Ids
    <2> QED BY <2>1, LeastNumber
  <1>3. PICK c \in S : c.time = t /\ c.id = n OBVIOUS
  <1>4. ASSUME NEW d \in S \ {c} PROVE c.time < d.time \/ (c.time = d.time /\ c.id < d.id)
    <2>1. c.time \in Nat /\ d.time \in Nat /\ c.id \in Nat /\ d.id \in Nat /\ d.id # c.id
      BY DEF ExposureRows
    <2>2. t <= d.time BY <1>1
    <2>3. d.time = t => n <= d.id BY <1>2
    <2> HIDE DEF Times, First, Ids
    <2> QED BY <1>3, <2>1, <2>2, <2>3
  <1> HIDE DEF Times, First, Ids
  <1>5. \E e \in S : \A d \in S \ {e} : e.time < d.time \/ (e.time = d.time /\ e.id < d.id)
    BY <1>3, <1>4
  <1> QED BY Zenon, <1>5 DEF Earliest

ReturnsInv ==
    /\ rdStage \in {"load", "event", "portfolio", "done"}
    /\ rdLog \subseteq PredictionRows /\ ExposureRows(rdRows)
    /\ rdTodo \subseteq rdRows /\ rdAccepted \subseteq rdRows /\ rdSelected \subseteq rdRows
    /\ rdTodo \cap rdAccepted = {}
    /\ rdStage = "load" => rdAccepted = {} /\ rdSelected = {}
    /\ LimitsHold

LEMMA LimitsArePositive ==
    ASSUME NEW stage
    PROVE  Limits(LimitsOf(stage)) /\ Respects({}, LimitsOf(stage))
  <1>1. Limits(LimitsOf(stage)) BY DecompositionAssumption DEF Limits, LimitsOf
  <1>2. Capital({}) = 0
    <2>1. PricedSet({}) BY FS_EmptySet DEF PricedSet
    <2>2. Cents({}) = {} BY DEF Cents
    <2> QED BY <2>1, <2>2, CapitalCounts, FS_EmptySet
  <1>3. 0 <= LimitsOf(stage).capital BY <1>1 DEF Limits
  <1> QED BY <1>1, <1>2, <1>3, RespectsIs

LEMMA ReturnsStart == rdInit => ReturnsInv
  <1>1. ExposureRows({}) BY FS_EmptySet DEF ExposureRows, Positions
  <1> QED BY <1>1 DEF rdInit, ReturnsInv, LimitsHold

LEMMA LoadKeeps ==
    ASSUME ReturnsInv, NEW log \in SUBSET PredictionRows, Load(log)
    PROVE  ReturnsInv'
  <1>1. /\ rdStage' = "event" /\ rdLog' = log /\ rdTodo' = rdRows'
        /\ rdAccepted' = {} /\ rdSelected' = {}
        /\ rdRows' = Annotated(MarketDedupe(SettledPredictions(log)))
    BY DEF ReturnsInv, Load
  <1>2. ExposureRows(rdRows') BY <1>1, RowsAreExposures
  <1>3. Respects({}, LimitsOf("event")) BY LimitsArePositive
  <1>4. LimitsHold' BY <1>1, <1>3 DEF LimitsHold
  <1> QED BY <1>1, <1>2, <1>4 DEF ReturnsInv

LEMMA ConsiderKeeps ==
    ASSUME ReturnsInv, Consider
    PROVE  ReturnsInv'
  <1> DEFINE L == LimitsOf(rdStage)
  <1>1. PICK c : /\ c = Earliest(rdTodo) /\ rdTodo' = rdTodo \ {c}
                 /\ rdAccepted' = IF Accepts(c, rdAccepted, L) THEN rdAccepted \cup {c} ELSE rdAccepted
    BY DEF Consider
  <1>2. /\ rdStage \in {"event", "portfolio"} /\ rdTodo # {}
        /\ rdStage' = rdStage /\ rdLog' = rdLog /\ rdRows' = rdRows /\ rdSelected' = rdSelected
    BY DEF Consider
  <1>3. /\ ExposureRows(rdRows) /\ rdTodo \subseteq rdRows /\ rdAccepted \subseteq rdRows
        /\ rdTodo \cap rdAccepted = {} /\ Respects(rdAccepted, L)
        /\ \A d \in rdRows \ (rdTodo \cup rdAccepted) : ~Respects(rdAccepted \cup {d}, L)
        /\ rdStage = "portfolio" => Respects(rdSelected, EventLimits)
    BY <1>2 DEF ReturnsInv, LimitsHold
  <1>4. ExposureRows(rdTodo) BY <1>3, FS_Subset DEF ExposureRows, Positions
  <1>5. c \in rdTodo /\ c \in rdRows /\ c \notin rdAccepted BY <1>1, <1>2, <1>3, <1>4, EarliestIs
  <1>6. Limits(L) BY LimitsArePositive
  <1>7. \A T \in SUBSET rdRows : Positions(T) BY <1>3, GroupsArePositions DEF ExposureRows
  <1> HIDE DEF L
  <1>8. /\ Respects(rdAccepted', L) /\ rdAccepted' \subseteq rdRows /\ rdTodo' \cap rdAccepted' = {}
        /\ \A d \in rdRows \ (rdTodo' \cup rdAccepted') : ~Respects(rdAccepted' \cup {d}, L)
    <2>1. CASE Accepts(c, rdAccepted, L)
      <3>1. rdAccepted' = rdAccepted \cup {c} BY <1>1, <2>1
      <3>2. Positions(rdAccepted \cup {c}) BY <1>3, <1>5, <1>7
      <3>3. Respects(rdAccepted \cup {c}, L) BY <1>3, <1>5, <1>6, <2>1, <3>2, AcceptedFits
      <3>4. ASSUME NEW d \in rdRows \ (rdTodo' \cup rdAccepted'), Respects(rdAccepted' \cup {d}, L)
            PROVE  FALSE
        <4>1. d \in rdRows \ (rdTodo \cup rdAccepted) BY <1>1, <3>1, <3>4
        <4>2. Positions(rdAccepted' \cup {d}) BY <1>3, <1>5, <1>7, <3>1
        <4>3. rdAccepted \cup {d} \in SUBSET (rdAccepted' \cup {d}) BY <3>1
        <4>4. Respects(rdAccepted \cup {d}, L) BY <1>6, <3>4, <4>2, <4>3, FewerRespect
        <4> QED BY <1>3, <4>1, <4>4
      <3> QED BY <1>1, <1>3, <1>5, <3>1, <3>3, <3>4
    <2>2. CASE ~Accepts(c, rdAccepted, L)
      <3>1. rdAccepted' = rdAccepted BY <1>1, <2>2
      <3>2. Positions(rdAccepted \cup {c}) BY <1>3, <1>5, <1>7
      <3>3. ~Respects(rdAccepted \cup {c}, L) BY <1>5, <1>6, <2>2, <3>2, RejectedBreaks
      <3>4. \A d \in rdRows \ (rdTodo' \cup rdAccepted') : d = c \/ d \in rdRows \ (rdTodo \cup rdAccepted)
        BY <1>1, <3>1
      <3> QED BY <1>1, <1>3, <3>1, <3>3, <3>4
    <2> QED BY <2>1, <2>2
  <1>9. rdTodo' \subseteq rdRows BY <1>1, <1>3
  <1>10. LimitsHold' BY <1>2, <1>3, <1>8 DEF LimitsHold, L
  <1> QED BY <1>2, <1>8, <1>9, <1>10 DEF ReturnsInv

LEMMA PassesKeep ==
    ASSUME ReturnsInv, NextPass \/ Report
    PROVE  ReturnsInv'
  <1>1. CASE NextPass
    <2>1. /\ rdStage = "event" /\ rdStage' = "portfolio" /\ rdSelected' = rdAccepted
          /\ rdAccepted' = {} /\ rdTodo' = rdRows /\ rdLog' = rdLog /\ rdRows' = rdRows
      BY <1>1 DEF NextPass
    <2>2. Respects(rdAccepted, EventLimits) BY <2>1 DEF ReturnsInv, LimitsHold, LimitsOf
    <2>3. Respects({}, LimitsOf("portfolio")) BY LimitsArePositive
    <2>4. LimitsHold' BY <2>1, <2>2, <2>3 DEF LimitsHold
    <2> QED BY <2>1, <2>4 DEF ReturnsInv
  <1>2. CASE Report BY <1>2 DEF Report, ReturnsInv, LimitsHold
  <1> QED BY <1>1, <1>2

LEMMA ReturnsKeep ==
    ASSUME ReturnsInv, rdNext \/ UNCHANGED rdVars
    PROVE  ReturnsInv'
  <1>1. CASE UNCHANGED rdVars BY <1>1 DEF rdVars, ReturnsInv, LimitsHold
  <1>2. ASSUME NEW n \in 0..MaxPredictions, NEW log \in kSubset(n, PredictionRows), Load(log)
        PROVE  ReturnsInv'
    BY <1>2, LoadKeeps DEF kSubset
  <1> QED BY <1>1, <1>2, ConsiderKeeps, PassesKeep DEF rdNext

-----------------------------------------------------------------------------
(* OrderSimulation: what a fill costs. *)

Orders(before, S) ==
    /\ \A x \in S : <<x, x>> \notin before
    /\ \A x, y \in S : x # y => <<x, y>> \in before \/ <<y, x>> \in before
    /\ \A x, y, z \in S : <<x, y>> \in before /\ <<y, z>> \in before => <<x, z>> \in before

ListsAll(list, S, before) ==
    /\ Cardinality(S) \in Nat
    /\ list \in [1..Cardinality(S) -> S]
    /\ \A i, j \in 1..Cardinality(S) : i < j => <<list[i], list[j]>> \in before
    /\ \A x \in S : \E i \in 1..Cardinality(S) : list[i] = x

\* A list by a strict order of all elements has each of them once, in that order.
LEMMA ListedIs ==
    ASSUME NEW S, IsFiniteSet(S), NEW before, Orders(before, S)
    PROVE  ListsAll(Listed(S, before), S, before)
  <1>0. /\ \A x \in S : <<x, x>> \notin before
        /\ \A x, y \in S : x # y => <<x, y>> \in before \/ <<y, x>> \in before
        /\ \A x, y, z \in S : <<x, y>> \in before /\ <<y, z>> \in before => <<x, z>> \in before
    BY DEF Orders
  <1> DEFINE Ahead(x) == {y \in S : <<y, x>> \in before}
             n == Cardinality(S)
             rank == [x \in S |-> Cardinality(Ahead(x))]
  <1>1. n \in Nat BY FS_CardinalityType
  <1>2. ASSUME NEW x \in S
        PROVE  IsFiniteSet(Ahead(x)) /\ rank[x] \in Nat /\ rank[x] + 1 <= n
    <2>1. IsFiniteSet(Ahead(x)) BY FS_Subset
    <2>2. Ahead(x) \cup {x} \in SUBSET S /\ x \notin Ahead(x) BY <1>0
    <2>3. Cardinality(Ahead(x) \cup {x}) = Cardinality(Ahead(x)) + 1
      <3> HIDE DEF Ahead
      <3> QED BY <2>1, <2>2, FS_AddElement
    <2>4. Cardinality(Ahead(x) \cup {x}) <= n
      <3> HIDE DEF Ahead
      <3> QED BY <2>2, FS_Subset
    <2>5. Cardinality(Ahead(x)) \in Nat
      <3> HIDE DEF Ahead
      <3> QED BY <2>1, FS_CardinalityType
    <2> HIDE DEF Ahead, n
    <2> QED BY <2>1, <2>3, <2>4, <2>5
  <1>3. ASSUME NEW x \in S, NEW y \in S, <<x, y>> \in before PROVE rank[x] < rank[y]
    <2>1. Ahead(x) \cup {x} \in SUBSET Ahead(y) /\ x \notin Ahead(x) BY <1>0, <1>3
    <2>2. IsFiniteSet(Ahead(x)) /\ IsFiniteSet(Ahead(y)) /\ rank[x] \in Nat /\ rank[y] \in Nat
      <3> HIDE DEF Ahead, rank
      <3> QED BY <1>2
    <2>3. Cardinality(Ahead(x) \cup {x}) = Cardinality(Ahead(x)) + 1
      <3> HIDE DEF Ahead
      <3> QED BY <2>1, <2>2, FS_AddElement
    <2>4. Cardinality(Ahead(x) \cup {x}) <= Cardinality(Ahead(y))
      <3> HIDE DEF Ahead
      <3> QED BY <2>1, <2>2, FS_Subset
    <2>5. rank[x] = Cardinality(Ahead(x)) /\ rank[y] = Cardinality(Ahead(y)) OBVIOUS
    <2> HIDE DEF Ahead, rank
    <2> QED BY <2>2, <2>3, <2>4, <2>5
  <1>4. \A x, y \in S : x # y => rank[x] # rank[y]
    <2> TAKE x, y \in S
    <2> HAVE x # y
    <2>1. rank[x] \in Nat /\ rank[y] \in Nat BY <1>2
    <2>2. rank[x] < rank[y] \/ rank[y] < rank[x]
      <3> HIDE DEF rank
      <3> QED BY <1>0, <1>3
    <2> HIDE DEF rank
    <2> QED BY <2>1, <2>2
  <1>5. rank \in Injection(S, 0..(n - 1))
    <2>1. ASSUME NEW x \in S PROVE rank[x] \in 0..(n - 1)
      <3>1. rank[x] \in Nat /\ rank[x] + 1 <= n BY <1>2
      <3> HIDE DEF rank, n
      <3> QED BY <1>1, <3>1
    <2>2. rank \in [S -> 0..(n - 1)]
      <3> HIDE DEF n, Ahead
      <3> QED BY <2>1
    <2> HIDE DEF rank, n
    <2> QED BY <1>4, <2>2 DEF Injection, IsInjective
  <1>6. IsFiniteSet(0..(n - 1)) /\ Cardinality(0..(n - 1)) = n
    <2> HIDE DEF n
    <2>1. 0 \in Int /\ n - 1 \in Int BY <1>1
    <2>2. /\ IsFiniteSet(0..(n - 1))
          /\ Cardinality(0..(n - 1)) = IF 0 > n - 1 THEN 0 ELSE (n - 1) - 0 + 1
      BY <2>1, FS_Interval
    <2> QED BY <1>1, <2>2
  <1>7. rank \in Surjection(S, 0..(n - 1))
    <2>1. PICK T : T = 0..(n - 1) OBVIOUS
    <2> HIDE DEF rank
    <2>2. rank \in Injection(S, T) /\ IsFiniteSet(T) /\ Cardinality(S) = Cardinality(T)
      BY <1>5, <1>6, <2>1
    <2> HIDE DEF n
    <2>3. rank \in Surjection(S, T) BY <2>2, FS_Injection
    <2> QED BY <2>1, <2>3
  <1>8. PICK list : list = Listed(S, before) OBVIOUS
  <1>9. ASSUME NEW i \in 1..n PROVE list[i] \in S /\ rank[list[i]] = i - 1
    <2>1. \E x \in S : rank[x] = i - 1
      <3>1. i - 1 \in 0..(n - 1)
        <4> HIDE DEF n
        <4> QED BY <1>1
      <3> HIDE DEF rank, n
      <3> QED BY <1>7, <3>1 DEF Surjection
    <2>2. \E x \in S : Cardinality({y \in S : <<y, x>> \in before}) = i - 1 BY <2>1
    <2>3. list[i] = CHOOSE x \in S : Cardinality({y \in S : <<y, x>> \in before}) = i - 1
      BY <1>8 DEF Listed
    <2>4. list[i] \in S /\ Cardinality({y \in S : <<y, list[i]>> \in before}) = i - 1
      BY <2>2, <2>3
    <2>5. rank[list[i]] = Cardinality(Ahead(list[i])) BY <2>4
    <2> HIDE DEF rank
    <2> QED BY <2>4, <2>5
  <1>10. list \in [1..n -> S]
    <2> DEFINE Pick(i) == CHOOSE x \in S : Cardinality({y \in S : <<y, x>> \in before}) = i - 1
    <2>1. list = [i \in 1..n |-> Pick(i)] BY <1>8 DEF Listed
    <2>2. list = [i \in 1..n |-> list[i]]
      <3> HIDE DEF Pick, n
      <3> QED BY <2>1
    <2> HIDE DEF n, rank
    <2> QED BY <1>9, <2>2
  <1>11. ASSUME NEW i \in 1..n, NEW j \in 1..n, i < j PROVE <<list[i], list[j]>> \in before
    <2>1. list[i] \in S /\ list[j] \in S /\ rank[list[i]] = i - 1 /\ rank[list[j]] = j - 1
      <3> HIDE DEF rank, n
      <3> QED BY <1>9
    <2>2. list[i] # list[j]
      <3> HIDE DEF rank, n
      <3> QED BY <1>1, <1>11, <2>1
    <2>3. <<list[j], list[i]>> \notin before
      <3> SUFFICES ASSUME <<list[j], list[i]>> \in before PROVE FALSE
        OBVIOUS
      <3>1. rank[list[j]] < rank[list[i]]
        <4> HIDE DEF rank
        <4> QED BY <1>3, <2>1
      <3> HIDE DEF rank, n
      <3> QED BY <1>1, <1>11, <2>1, <3>1
    <2> QED BY <1>0, <2>1, <2>2, <2>3
  <1>12. ASSUME NEW x \in S PROVE \E i \in 1..n : list[i] = x
    <2>1. rank[x] \in Nat /\ rank[x] + 1 <= n BY <1>2
    <2>2. PICK i : i = rank[x] + 1 OBVIOUS
    <2>3. i \in 1..n /\ rank[x] = i - 1
      <3> HIDE DEF rank, n
      <3> QED BY <1>1, <2>1, <2>2
    <2>4. list[i] \in S /\ rank[list[i]] = rank[x]
      <3> HIDE DEF rank, n
      <3> QED BY <1>9, <2>3
    <2>5. list[i] = x
      <3> HIDE DEF rank
      <3> QED BY <1>4, <2>4
    <2> QED BY <2>3, <2>5
  <1> HIDE DEF rank
  <1> QED BY <1>1, <1>8, <1>10, <1>11, <1>12 DEF ListsAll

IsList(seq) == Len(seq) \in Nat /\ seq = [i \in 1..Len(seq) |-> seq[i]]


\* What the asks of a side are, once selected and sorted: whole levels, the best one first.
BookFits(levels) ==
    /\ IsList(levels)
    /\ \A i \in 1..Len(levels) :
          /\ levels[i].price \in 0..100 /\ levels[i].quantity \in Nat
          /\ levels[1].price <= levels[i].price

\* Cheaper offers come first, and of two at one price the one that was posted first.
Cheaper(before, q, S) ==
    \A x, y \in S : <<x, y>> \in before
                      <=> q[x].price < q[y].price \/ (q[x].price = q[y].price /\ x < y)

LEMMA OffersListed ==
    ASSUME NEW q, NEW S, IsFiniteSet(S), NEW before, Cheaper(before, q, S),
           \A i \in S : i \in Nat /\ q[i].price \in 0..100 /\ q[i].quantity \in Nat
    PROVE  BookFits([i \in DOMAIN Listed(S, before) |-> q[Listed(S, before)[i]]])
  <1>8. PICK order : order = Listed(S, before) OBVIOUS
  <1>11. \A i \in S : i \in Nat /\ q[i].price \in 0..100 /\ q[i].quantity \in Nat
    OBVIOUS
  <1>12. \A x, y \in S : <<x, y>> \in before
                         <=> q[x].price < q[y].price \/ (q[x].price = q[y].price /\ x < y)
    BY DEF Cheaper
  <1>14. Orders(before, S)
    <2>0. \A i \in S : i \in Int /\ q[i].price \in Int BY <1>11
    <2>1. \A x \in S : <<x, x>> \notin before BY <1>12, <2>0
    <2>2. \A x, y \in S : x # y => <<x, y>> \in before \/ <<y, x>> \in before BY <1>12, <2>0
    <2>3. \A x, y, z \in S : <<x, y>> \in before /\ <<y, z>> \in before => <<x, z>> \in before
      BY <1>12, <2>0
    <2> QED BY <2>1, <2>2, <2>3 DEF Orders
  <1>15. ListsAll(order, S, before) BY <1>8, <1>14, ListedIs
  <1>16. PICK n : n = Cardinality(S) OBVIOUS
  <1>17. /\ n \in Nat /\ order \in [1..n -> S]
         /\ \A i, j \in 1..n : i < j => <<order[i], order[j]>> \in before
    BY <1>15, <1>16 DEF ListsAll
  <1>18. PICK levels : levels = [i \in 1..n |-> q[order[i]]] OBVIOUS
  <1>19. [i \in DOMAIN order |-> q[order[i]]] = levels BY <1>17, <1>18
  <1>20. Len(levels) = n BY <1>17, <1>18
  <1>21. IsList(levels) BY <1>17, <1>18, <1>20 DEF IsList
  <1>22. ASSUME NEW i \in 1..n
         PROVE  /\ levels[i].price \in 0..100 /\ levels[i].quantity \in Nat
                /\ levels[1].price <= levels[i].price
    <2>1. 1 \in 1..n /\ (i = 1 \/ 1 < i) BY <1>17
    <2>2. order[i] \in S /\ order[1] \in S BY <1>17, <2>1
    <2>3. levels[i] = q[order[i]] /\ levels[1] = q[order[1]] BY <1>18, <2>1
    <2>4. q[order[i]].price \in 0..100 /\ q[order[1]].price \in 0..100 /\ q[order[i]].quantity \in Nat
      BY <1>11, <2>2
    <2>5. CASE i = 1
      <3>1. PICK a \in 0..100 : a = q[order[i]].price BY <2>4
      <3>2. a <= a OBVIOUS
      <3> QED BY <2>3, <2>4, <2>5, <3>1, <3>2
    <2>6. CASE 1 < i
      <3>1. <<order[1], order[i]>> \in before BY <1>17, <2>1, <2>6
      <3>2. q[order[1]].price < q[order[i]].price \/ q[order[1]].price = q[order[i]].price
        BY <1>12, <2>2, <3>1
      <3>3. PICK a \in 0..100, b \in 0..100 : a = q[order[1]].price /\ b = q[order[i]].price BY <2>4, Zenon
      <3>4. a < b \/ a = b BY <3>2, <3>3, Zenon
      <3>5. a <= b
        <4>1. a \in Int /\ b \in Int OBVIOUS
        <4> QED BY <3>4, <4>1
      <3> QED BY <2>3, <2>4, <3>3, <3>5
    <2> QED BY <2>1, <2>5, <2>6
  <1> QED BY <1>8, <1>19, <1>20, <1>21, <1>22 DEF BookFits

LEMMA CheapestIs ==
    ASSUME NEW q \in Seq([price : 0..100, quantity : Int])
    PROVE  BookFits(Cheapest(q))
  <1>4. PICK S : S = {i \in DOMAIN q : q[i].quantity > 0} OBVIOUS
  <1>5. PICK before : before = {p \in S \X S : \/ q[p[1]].price < q[p[2]].price
                                               \/ q[p[1]].price = q[p[2]].price /\ p[1] < p[2]}
    OBVIOUS
  <1>6. S = {i \in DOMAIN q : q[i].quantity > 0} BY <1>4
  <1>7. before = {p \in S \X S : \/ q[p[1]].price < q[p[2]].price
                                 \/ q[p[1]].price = q[p[2]].price /\ p[1] < p[2]}
    BY <1>5
  <1>9. Cheapest(q) = [i \in DOMAIN Listed(S, before) |-> q[Listed(S, before)[i]]]
    BY <1>4, <1>5, Zenon DEF Cheapest
  <1>11. \A i \in S : i \in Nat /\ q[i].price \in 0..100 /\ q[i].quantity \in Nat
    <2> TAKE i \in S
    <2>1. i \in DOMAIN q /\ q[i].quantity > 0 BY <1>6
    <2>2. PICK T : T = [price : 0..100, quantity : Int] OBVIOUS
    <2>3. q \in Seq(T) BY <2>2
    <2>4. i \in Nat /\ q[i] \in T BY <2>1, <2>3
    <2>5. q[i].price \in 0..100 /\ q[i].quantity \in Int BY <2>2, <2>4
    <2> QED BY <2>1, <2>4, <2>5
  <1>12. Cheaper(before, q, S) BY <1>7 DEF Cheaper
  <1>13. IsFiniteSet(S)
    <2>1. DOMAIN q = 1..Len(q) /\ Len(q) \in Nat OBVIOUS
    <2>2. IsFiniteSet(1..Len(q)) BY <2>1, FS_Interval
    <2>3. S \in SUBSET (1..Len(q)) BY <1>6, <2>1
    <2> QED BY <2>2, <2>3, FS_Subset
  <1> QED BY <1>9, <1>11, <1>12, <1>13, OffersListed

LEMMA AsksAre ==
    ASSUME NEW snapshot \in OrderBooks, NEW side \in {"yes", "no"}
    PROVE  BookFits(AskLevels(snapshot, side))
  <1>1. PICK T : T = [price : 0..100, quantity : Int] OBVIOUS
  <1>2. PICK posted : posted = snapshot.depth[side] OBVIOUS
  <1>3. PICK one : one = [price |-> snapshot.ask[side], quantity |-> 1] OBVIOUS
  <1>4. posted \in Seq(T) /\ snapshot.ask[side] \in 0..100 \cup {NoPrice}
    BY <1>1, <1>2, OrderAssumption
  <1>5. PICK quoted : quoted = IF /\ snapshot.ask[side] # NoPrice
                                  /\ \A i \in DOMAIN posted : posted[i].quantity <= 0
                               THEN <<one>> ELSE posted
    OBVIOUS
  <1>6. AskLevels(snapshot, side) = Cheapest(quoted)
    BY <1>2, <1>3, <1>5, Zenon DEF AskLevels
  <1>7. quoted \in Seq(T)
    <2>1. CASE quoted = posted BY <1>4, <2>1
    <2>2. CASE quoted = <<one>> /\ snapshot.ask[side] # NoPrice
      <3>1. one \in T BY <1>1, <1>3, <1>4, <2>2
      <3>2. <<one>> \in Seq(T) BY <3>1
      <3> QED BY <2>2, <3>2
    <2> QED BY <1>5, <2>1, <2>2
  <1> QED BY <1>1, <1>6, <1>7, CheapestIs

\* What has been taken of a book: within the capital, and at prices between two bounds.
Takes(f, available, least, ceiling, capital) ==
    /\ f = [cost |-> f.cost, filled |-> f.filled, remaining |-> f.remaining, stopped |-> f.stopped]
    /\ f.cost \in Nat /\ f.filled \in Nat /\ f.remaining \in Nat
    /\ f.filled + f.remaining = available
    /\ f.cost <= capital
    /\ f.cost <= ceiling * f.filled
    /\ least * f.filled <= f.cost

LEMMA AffordableIs ==
    ASSUME NEW cost \in Nat, NEW price \in Nat, NEW wanted \in Nat, NEW capital \in Nat,
           cost <= capital, NEW q \in Nat, q <= wanted, q <= Affordable(cost, price, wanted, capital)
    PROVE  cost + price * q <= capital
  <1>1. CASE price = 0
    <2>1. price * q = 0 BY <1>1
    <2> QED BY <2>1
  <1>2. CASE price # 0 /\ cost + price * wanted <= capital
    <2>1. price * q <= price * wanted OBVIOUS
    <2>2. price * q \in Nat /\ price * wanted \in Nat OBVIOUS
    <2> QED BY <1>2, <2>1, <2>2
  <1>3. CASE price # 0 /\ ~(cost + price * wanted <= capital)
    <2>1. PICK rest : rest = capital - cost OBVIOUS
    <2>2. rest \in Nat BY <2>1
    <2>3. PICK a : a = rest \div price OBVIOUS
    <2>4. a \in Nat /\ price * a <= rest BY <1>3, <2>2, <2>3
    <2>5. Affordable(cost, price, wanted, capital) = Most(0, a)
      BY <1>3, <2>1, <2>3 DEF Affordable
    <2>6. q <= a BY <2>4, <2>5 DEF Most
    <2>7. price * q <= price * a BY <2>4, <2>6
    <2>8. price * q \in Nat /\ price * a \in Nat BY <2>4
    <2> QED BY <2>1, <2>4, <2>7, <2>8
  <1> QED BY <1>1, <1>2, <1>3

LEMMA AffordableIsNumber ==
    ASSUME NEW cost \in Nat, NEW price \in Nat, NEW wanted \in Nat, NEW capital \in Nat
    PROVE  Affordable(cost, price, wanted, capital) \in Nat
  <1>1. CASE price = 0 \/ cost + price * wanted <= capital BY <1>1 DEF Affordable
  <1>2. CASE price # 0 /\ ~(cost + price * wanted <= capital)
    <2>1. (capital - cost) \div price \in Int BY <1>2
    <2>2. Affordable(cost, price, wanted, capital) = Most(0, (capital - cost) \div price)
      BY <1>2 DEF Affordable
    <2> QED BY <2>1, <2>2 DEF Most
  <1> QED BY <1>1, <1>2

\* A level is taken at its price, and only as far as the capital goes.
LEMMA LevelTaken ==
    ASSUME NEW available \in Nat, NEW least \in Nat, NEW ceiling \in Nat, NEW capital \in Nat,
           NEW move \in Nat, NEW level, level.price \in Nat, level.quantity \in Nat,
           least <= level.price + move,
           NEW f, Takes(f, available, least, ceiling, capital)
    PROVE  Takes(TakeLevel(f, level, ceiling, move, capital), available, least, ceiling, capital)
  <1> DEFINE price == level.price + move
             wanted == Least(f.remaining, level.quantity)
             quantity == Least(wanted, Affordable(f.cost, price, wanted, capital))
  <1>1. /\ f = [cost |-> f.cost, filled |-> f.filled, remaining |-> f.remaining, stopped |-> f.stopped]
        /\ f.cost \in Nat /\ f.filled \in Nat /\ f.remaining \in Nat
        /\ f.filled + f.remaining = available
        /\ f.cost <= capital
        /\ f.cost <= ceiling * f.filled
        /\ least * f.filled <= f.cost
    BY Zenon DEF Takes
  <1>2. TakeLevel(f, level, ceiling, move, capital) =
           IF f.stopped \/ price > ceiling THEN f
           ELSE IF quantity <= 0 THEN [f EXCEPT !.stopped = TRUE]
           ELSE [cost |-> f.cost + price * quantity, filled |-> f.filled + quantity,
                 remaining |-> f.remaining - quantity,
                 stopped |-> f.remaining = quantity]
    BY Zenon DEF TakeLevel
  <1>3. price \in Nat /\ least <= price OBVIOUS
  <1>4. wanted \in Nat /\ wanted <= f.remaining BY <1>1 DEF Least
  <1>5. PICK p : p = price OBVIOUS
  <1>6. PICK w : w = wanted OBVIOUS
  <1>7. PICK q : q = quantity OBVIOUS
  <1>8. q = Least(w, Affordable(f.cost, p, w, capital)) BY <1>5, <1>6, <1>7
  <1> HIDE DEF price, wanted, quantity
  <1>9. p \in Nat /\ least <= p /\ w \in Nat /\ w <= f.remaining BY <1>3, <1>4, <1>5, <1>6
  <1>10. Affordable(f.cost, p, w, capital) \in Nat BY <1>1, <1>9, AffordableIsNumber
  <1>11. q \in Nat /\ q <= w /\ q <= Affordable(f.cost, p, w, capital)
    BY <1>8, <1>9, <1>10 DEF Least
  <1>12. PICK g : g = TakeLevel(f, level, ceiling, move, capital) OBVIOUS
  <1>13. CASE f.stopped \/ p > ceiling
    <2>1. g = f BY <1>2, <1>5, <1>12, <1>13
    <2> QED BY <1>12, <2>1
  <1>14. CASE ~(f.stopped \/ p > ceiling) /\ q <= 0
    <2>1. g = [f EXCEPT !.stopped = TRUE] BY <1>2, <1>5, <1>7, <1>12, <1>14
    <2>2. g = [cost |-> f.cost, filled |-> f.filled, remaining |-> f.remaining, stopped |-> TRUE]
      BY <1>1, <2>1
    <2>3. /\ g.cost = f.cost /\ g.filled = f.filled /\ g.remaining = f.remaining /\ g.stopped = TRUE
      BY <2>2
    <2>4. g = [cost |-> g.cost, filled |-> g.filled, remaining |-> g.remaining, stopped |-> g.stopped]
      BY <2>2, <2>3
    <2>5. Takes(g, available, least, ceiling, capital)
      BY <1>1, <2>3, <2>4, Zenon DEF Takes
    <2> QED BY <1>12, <2>5
  <1>15. CASE ~(f.stopped \/ p > ceiling) /\ ~(q <= 0)
    <2>1. g = [cost |-> f.cost + p * q, filled |-> f.filled + q, remaining |-> f.remaining - q,
               stopped |-> f.remaining = q]
      BY <1>2, <1>5, <1>7, <1>12, <1>15
    <2>2. /\ g.cost = f.cost + p * q /\ g.filled = f.filled + q /\ g.remaining = f.remaining - q
          /\ g.stopped = (f.remaining = q)
      BY <2>1
    <2>3. g = [cost |-> g.cost, filled |-> g.filled, remaining |-> g.remaining, stopped |-> g.stopped]
      BY <2>1, <2>2
    <2>4. f.cost + p * q <= capital BY <1>1, <1>9, <1>11, AffordableIs
    <2>5. p <= ceiling BY <1>9, <1>15
    <2>6. PICK c \in Nat, n \in Nat, r \in Nat : c = f.cost /\ n = f.filled /\ r = f.remaining BY <1>1
    <2>7. c <= ceiling * n /\ least * n <= c BY <1>1, <2>6
    <2>8. /\ p * q \in Nat /\ least * q \in Nat /\ ceiling * q \in Nat
          /\ ceiling * n \in Nat /\ least * n \in Nat
      BY <1>9, <1>11, <2>6
    <2>9. p * q <= ceiling * q /\ least * q <= p * q BY <1>9, <1>11, <2>5
    <2>10. ceiling * (n + q) = ceiling * n + ceiling * q BY <1>11, <2>6
    <2>11. least * (n + q) = least * n + least * q BY <1>11, <2>6
    <2>12. c + p * q <= ceiling * (n + q) BY <2>7, <2>8, <2>9, <2>10
    <2>13. least * (n + q) <= c + p * q BY <2>7, <2>8, <2>9, <2>11
    <2>14. /\ c + p * q \in Nat /\ n + q \in Nat /\ r - q \in Nat
           /\ (n + q) + (r - q) = available
      BY <1>1, <1>9, <1>11, <2>6, <2>8
    <2>15. Takes(g, available, least, ceiling, capital)
      <3>1. /\ g.cost \in Nat /\ g.filled \in Nat /\ g.remaining \in Nat
            /\ g.filled + g.remaining = available /\ g.cost <= capital
        BY <2>2, <2>4, <2>6, <2>14
      <3>2. g.cost <= ceiling * g.filled /\ least * g.filled <= g.cost
        BY <2>2, <2>6, <2>12, <2>13
      <3> QED BY <2>3, <3>1, <3>2, Zenon DEF Takes
    <2> QED BY <1>12, <2>15
  <1> QED BY <1>13, <1>14, <1>15

\* The levels of a book, or the one level of an order that rests.
LevelsFit(levels, least, move) ==
    /\ IsList(levels)
    /\ \A i \in 1..Len(levels) :
          /\ levels[i].price \in Nat /\ levels[i].quantity \in Nat
          /\ least <= levels[i].price + move

LEMMA FillIs ==
    ASSUME NEW available \in Nat, NEW least \in Nat, NEW ceiling \in Nat, NEW capital \in Nat,
           NEW move \in Nat, NEW levels, LevelsFit(levels, least, move)
    PROVE  Takes(Fill(levels, available, ceiling, move, capital), available, least, ceiling, capital)
  <1> DEFINE Start == [cost |-> 0, filled |-> 0, remaining |-> available, stopped |-> FALSE]
             Step(f, k) == TakeLevel(f, levels[k], ceiling, move, capital)
             Is(f, n) == f = [k \in 0..n |->
                 IF k = 0
                 THEN [cost |-> 0, filled |-> 0, remaining |-> available, stopped |-> FALSE]
                 ELSE TakeLevel(f[k - 1], levels[k], ceiling, move, capital)]
             Some == {n \in Nat : \E f : Is(f, n)}
  <1>1. Len(levels) \in Nat BY DEF LevelsFit, IsList
  <1>0. \A f, n : Is(f, n) <=> f = [k \in 0..n |-> IF k = 0 THEN Start ELSE Step(f[k - 1], k)]
    OBVIOUS
  <1>s. Takes(Start, available, least, ceiling, capital)
    <2>1. ceiling * 0 = 0 /\ least * 0 = 0 OBVIOUS
    <2>2. /\ Start.cost = 0 /\ Start.filled = 0 /\ Start.remaining = available /\ Start.stopped = FALSE
      OBVIOUS
    <2>3. Start = [cost |-> Start.cost, filled |-> Start.filled,
                   remaining |-> Start.remaining, stopped |-> Start.stopped]
      BY <2>2
    <2>4. /\ Start.cost \in Nat /\ Start.filled \in Nat /\ Start.remaining \in Nat
          /\ Start.filled + Start.remaining = available
          /\ Start.cost <= capital
          /\ Start.cost <= ceiling * Start.filled
          /\ least * Start.filled <= Start.cost
      BY <2>1, <2>2
    <2> HIDE DEF Start
    <2> QED BY <2>3, <2>4, Zenon DEF Takes
  <1>m. ASSUME NEW k \in 1..Len(levels), NEW f, Takes(f, available, least, ceiling, capital)
        PROVE  Takes(Step(f, k), available, least, ceiling, capital)
    <2>1. levels[k].price \in Nat /\ levels[k].quantity \in Nat /\ least <= levels[k].price + move
      BY DEF LevelsFit
    <2>2. PICK level : level = levels[k] OBVIOUS
    <2>3. Takes(TakeLevel(f, level, ceiling, move, capital), available, least, ceiling, capital)
      BY <1>m, <2>1, <2>2, LevelTaken
    <2> QED BY <2>2, <2>3
  <1> HIDE DEF Is, Step, Start
  <1>2. 0 \in Some
    <2>1. PICK g : g = [k \in 0..0 |-> Start] OBVIOUS
    <2>2. g = [k \in 0..0 |-> g[k]] /\ \A k \in 0..0 : k = 0 /\ g[k] = Start BY <2>1
    <2>3. Is(g, 0) BY <1>0, <2>2
    <2> QED BY <2>3
  <1>3. ASSUME NEW n \in Nat, n \in Some PROVE n + 1 \in Some
    <2>1. PICK f : f = [k \in 0..n |-> IF k = 0 THEN Start ELSE Step(f[k - 1], k)] BY <1>0, <1>3
    <2>2. PICK g : g = [k \in 0..(n + 1) |-> IF k <= n THEN f[k] ELSE Step(f[n], k)] OBVIOUS
    <2>3. \A k \in 0..(n + 1) : g[k] = IF k = 0 THEN Start ELSE Step(g[k - 1], k)
      <3> TAKE k \in 0..(n + 1)
      <3>1. CASE k = 0 BY <2>1, <2>2, <3>1
      <3>2. CASE k # 0 /\ k <= n
        <4>1. g[k] = f[k] /\ g[k - 1] = f[k - 1] /\ k \in 0..n BY <2>2, <3>2
        <4>2. f[k] = Step(f[k - 1], k) BY <2>1, <3>2, <4>1
        <4> QED BY <3>2, <4>1, <4>2
      <3>3. CASE k = n + 1
        <4>1. g[k] = Step(f[n], k) /\ g[k - 1] = f[n] /\ k # 0 BY <2>2, <3>3
        <4> QED BY <4>1
      <3> QED BY <3>1, <3>2, <3>3
    <2>4. g = [k \in 0..(n + 1) |-> g[k]] BY <2>2
    <2>5. Is(g, n + 1) BY <1>0, <2>3, <2>4
    <2> QED BY <2>5
  <1>4. \E f : Is(f, Len(levels))
    <2>1. Nat \subseteq Some
      <3> HIDE DEF Some
      <3> QED BY <1>2, <1>3, CountingUp
    <2> QED BY <1>1, <2>1
  <1>5. Fill(levels, available, ceiling, move, capital) =
           (CHOOSE f : Is(f, Len(levels)))[Len(levels)]
    BY Zenon DEF Fill, Is
  <1>6. PICK f : f = CHOOSE h : Is(h, Len(levels)) OBVIOUS
  <1>7. Is(f, Len(levels)) BY <1>4, <1>6
  <1>8. f = [k \in 0..Len(levels) |-> IF k = 0 THEN Start ELSE Step(f[k - 1], k)] BY <1>0, <1>7
  <1> DEFINE Good == {n \in Nat : n <= Len(levels) => Takes(f[n], available, least, ceiling, capital)}
  <1>9. 0 \in Good
    <2>1. f[0] = Start BY <1>1, <1>8
    <2> QED BY <1>s, <2>1
  <1>10. ASSUME NEW n \in Nat, n \in Good PROVE n + 1 \in Good
    <2> SUFFICES ASSUME n + 1 <= Len(levels)
                 PROVE  Takes(f[n + 1], available, least, ceiling, capital)
      OBVIOUS
    <2>1. Takes(f[n], available, least, ceiling, capital) BY <1>1, <1>10
    <2>2. n + 1 \in 0..Len(levels) /\ n + 1 \in 1..Len(levels) /\ (n + 1) - 1 = n /\ n + 1 # 0 BY <1>1
    <2>4. f[n + 1] = Step(f[n], n + 1) BY <1>8, <2>2
    <2> QED BY <1>m, <2>1, <2>2, <2>4
  <1>11. Nat \subseteq Good
    <2> HIDE DEF Good
    <2> QED BY <1>9, <1>10, CountingUp
  <1>12. Takes(f[Len(levels)], available, least, ceiling, capital) BY <1>1, <1>11
  <1> QED BY <1>5, <1>6, <1>12

CaseFits(c) ==
    /\ "config" \in DOMAIN c
    /\ c.order \in PaperOrders /\ Validates(c.order)
    /\ c.snapshot \in OrderBooks /\ c.config \in OrderConfigs

\* FillIsAffordable, of any fill
FillFits(x, c) ==
    /\ x.cost <= c.config.maxCapital
    /\ x.filled <= c.config.maxContracts
    /\ x.cost <= c.config.maxPrice * x.filled
    /\ c.order.type = "limit" => x.cost <= c.order.limit * x.filled
    /\ IF x.role = "maker"
       THEN x.filled <= c.order.resting
       ELSE x.cost >= (AskLevels(c.snapshot, c.order.side)[1].price + c.config.move) * x.filled
AccountsFor(x) ==
    /\ x.cost + x.net + x.fee \in {0, 100 * x.filled, x.cost}
    /\ x.net <= 100 * x.filled - x.cost
ExecutionFits(x, c) ==
    /\ {"state", "side", "role", "filled", "cost", "fee"} \subseteq DOMAIN x
    /\ x.state \in {"rejected", "no_fill", "partial_fill", "filled"}
    /\ x.filled \in 0..c.order.quantity /\ x.fee \in Nat /\ x.cost \in Nat
    /\ x.cost <= 100 * x.filled
    /\ x.state \in {"filled", "partial_fill"} <=> x.filled # 0
    /\ x.filled # 0 => FillFits(x, c) /\ ("net" \in DOMAIN x => AccountsFor(x))

OrdersInv ==
    \/ osCase = NoCase /\ osResult = NoExecution
    \/ CaseFits(osCase) /\ (osResult = NoExecution \/ ExecutionFits(osResult, osCase))

LEMMA OrderIs ==
    ASSUME NEW c, CaseFits(c)
    PROVE  /\ c.order.side \in {"yes", "no"} /\ c.order.type \in {"market", "limit"}
           /\ c.order.quantity \in Nat \ {0} /\ c.order.resting \in Nat /\ c.order.intended \in Int
           /\ c.order.limit \in 0..100 \cup {NoPrice}
           /\ c.order.type = "limit" => c.order.limit \in 0..100
           /\ c.config.takerRate \in Nat /\ c.config.makerRate \in Nat
           /\ c.config.slippage \in Nat /\ c.config.move \in Nat
           /\ c.config.maxPrice \in 0..100 /\ c.config.maxContracts \in Nat \ {0}
           /\ c.config.maxCapital \in Nat \ {0}
  <1>1. /\ c.order \in PaperOrders /\ Validates(c.order)
        /\ c.snapshot \in OrderBooks /\ c.config \in OrderConfigs
    BY DEF CaseFits
  <1>2. PICK o : o = c.order OBVIOUS
  <1>3. PICK g : g = c.config OBVIOUS
  <1>4. /\ o.side \in {"yes", "no"} /\ o.type \in {"market", "limit"}
        /\ o.quantity \in Int /\ o.intended \in Int /\ o.resting \in Int
        /\ o.limit \in 0..100 \cup {NoPrice}
    BY <1>1, <1>2, OrderAssumption
  <1>5. o.quantity > 0 /\ (o.type = "limit" => o.limit # NoPrice) /\ o.resting >= 0
    BY <1>1, <1>2 DEF Validates
  <1>6. /\ g.takerRate \in Nat /\ g.makerRate \in Nat /\ g.slippage \in Nat /\ g.move \in Nat
        /\ g.maxPrice \in 0..100 /\ g.maxContracts \in Nat \ {0} /\ g.maxCapital \in Nat \ {0}
    BY <1>1, <1>3, OrderAssumption
  <1> QED BY <1>2, <1>3, <1>4, <1>5, <1>6

\* A fee is a whole number of cents and never a rebate.
LEMMA FeeIs ==
    ASSUME NEW cost \in Nat, NEW quantity \in Nat, cost <= 100 * quantity, NEW role, NEW config,
           config.takerRate \in Nat, config.makerRate \in Nat
    PROVE  kalshi_fee_cents(cost, quantity, role, config) \in Nat
  <1>1. CASE quantity = 0 BY <1>1 DEF kalshi_fee_cents
  <1>2. CASE quantity # 0
    <2>1. PICK rate : rate = IF role = "taker" THEN config.takerRate ELSE config.makerRate OBVIOUS
    <2>2. rate \in Nat BY <2>1
    <2>3. 100 * quantity - cost \in Nat BY <1>2
    <2>4. PICK a : a = rate * cost * (100 * quantity - cost) OBVIOUS
    <2>5. a \in Nat
      <3>1. rate * cost \in Nat BY <2>2
      <3> QED BY <2>3, <2>4, <3>1
    <2>6. PICK b : b = 10000 * 100 * quantity OBVIOUS
    <2>7. b \in Nat \ {0} BY <1>2, <2>6
    <2>8. kalshi_fee_cents(cost, quantity, role, config) = CeilDiv(a, b)
      BY <1>2, <2>1, <2>4, <2>6 DEF kalshi_fee_cents
    <2>9. a + b - 1 \in Nat BY <2>5, <2>7
    <2>10. (a + b - 1) \div b \in Nat BY <2>7, <2>9
    <2> QED BY <2>8, <2>10 DEF CeilDiv
  <1> QED BY <1>1, <1>2

\* What an order may get and what bounds its price
OfferFor(c, rests, available, least, ceiling) ==
    /\ available \in Nat /\ least \in Nat /\ ceiling \in Nat
    /\ available <= c.order.quantity
    /\ ceiling <= c.config.maxPrice
    /\ c.order.type = "limit" => ceiling <= c.order.limit
    /\ IF rests THEN available <= c.order.resting
       ELSE least = AskLevels(c.snapshot, c.order.side)[1].price + c.config.move

LEMMA TakenFits ==
    ASSUME NEW c, CaseFits(c), c.order.quantity <= c.config.maxContracts,
           NEW rests \in BOOLEAN, NEW available, NEW least, NEW ceiling,
           OfferFor(c, rests, available, least, ceiling),
           NEW f, Takes(f, available, least, ceiling, c.config.maxCapital), f.filled # 0,
           NEW x, x.cost = f.cost, x.filled = f.filled,
           x.role = IF rests THEN "maker" ELSE "taker"
    PROVE  /\ FillFits(x, c) /\ x.cost \in Nat /\ x.filled \in 0..c.order.quantity
           /\ x.cost <= 100 * x.filled
  <1>1. /\ available \in Nat /\ least \in Nat /\ ceiling \in Nat
        /\ available <= c.order.quantity
        /\ ceiling <= c.config.maxPrice
        /\ c.order.type = "limit" => ceiling <= c.order.limit
    BY DEF OfferFor
  <1>2. /\ f.cost \in Nat /\ f.filled \in Nat /\ f.remaining \in Nat
        /\ f.filled + f.remaining = available
        /\ f.cost <= c.config.maxCapital
        /\ f.cost <= ceiling * f.filled
        /\ least * f.filled <= f.cost
    BY Zenon DEF Takes
  <1>3. /\ c.order.quantity \in Nat \ {0} /\ c.order.type \in {"market", "limit"}
        /\ c.order.type = "limit" => c.order.limit \in 0..100
        /\ c.config.maxPrice \in 0..100 /\ c.config.maxContracts \in Nat \ {0}
        /\ c.config.maxCapital \in Nat \ {0} /\ c.order.resting \in Nat
    BY OrderIs
  <1>4. PICK cost \in Nat, n \in Nat : cost = f.cost /\ n = f.filled BY <1>2
  <1>5. x.cost = cost /\ x.filled = n BY <1>4
  <1>6. cost <= ceiling * n /\ least * n <= cost /\ n <= available BY <1>1, <1>2, <1>4
  <1>7. \A top \in Nat : ceiling <= top => cost <= top * n
    <2> TAKE top \in Nat
    <2> HAVE ceiling <= top
    <2>1. ceiling * n <= top * n BY <1>1
    <2>2. ceiling * n \in Nat /\ top * n \in Nat BY <1>1
    <2> QED BY <1>6, <2>1, <2>2
  <1>8. cost <= c.config.maxPrice * n BY <1>1, <1>3, <1>7
  <1>9. cost <= 100 * n
    <2>1. ceiling <= 100 BY <1>1, <1>3
    <2> QED BY <1>7, <2>1
  <1>10. c.order.type = "limit" => cost <= c.order.limit * n BY <1>1, <1>3, <1>7
  <1>11. n <= c.config.maxContracts /\ n \in 0..c.order.quantity BY <1>1, <1>3, <1>6
  <1>12. IF x.role = "maker"
         THEN n <= c.order.resting
         ELSE cost >= (AskLevels(c.snapshot, c.order.side)[1].price + c.config.move) * n
    <2>1. CASE rests
      <3>1. x.role = "maker" /\ available <= c.order.resting BY <2>1 DEF OfferFor
      <3>2. n <= c.order.resting BY <1>1, <1>3, <1>6, <3>1
      <3> QED BY <3>1, <3>2
    <2>2. CASE ~rests
      <3>1. x.role # "maker" /\ least = AskLevels(c.snapshot, c.order.side)[1].price + c.config.move
        BY <2>2 DEF OfferFor
      <3>2. cost >= least * n
        <4>1. least * n \in Nat BY <1>1
        <4> QED BY <1>6, <4>1
      <3> QED BY <3>1, <3>2
    <2> QED BY <2>1, <2>2
  <1>13. cost <= c.config.maxCapital BY <1>2, <1>4
  <1>14. FillFits(x, c)
    BY <1>5, <1>8, <1>10, <1>11, <1>12, <1>13, Zenon DEF FillFits
  <1> QED BY <1>5, <1>9, <1>11, <1>14

LEMMA UnfilledFits ==
    ASSUME NEW c, CaseFits(c), NEW state \in {"rejected", "no_fill"}, NEW reason
    PROVE  ExecutionFits(Unfilled(c.order, state, reason), c)
  <1>1. PICK x : x = Unfilled(c.order, state, reason) OBVIOUS
  <1>2. x = [state |-> state, reason |-> reason, side |-> c.order.side, role |-> "none",
             requested |-> c.order.quantity, filled |-> 0, cost |-> 0, fee |-> 0, slippage |-> 0]
    BY <1>1 DEF Unfilled
  <1>3. /\ x.state = state /\ x.filled = 0 /\ x.cost = 0 /\ x.fee = 0
        /\ {"state", "side", "role", "filled", "cost", "fee"} \subseteq DOMAIN x
    BY <1>2
  <1>4. c.order.quantity \in Nat \ {0} BY OrderIs
  <1>5. x.cost <= 100 * x.filled /\ x.filled \in 0..c.order.quantity /\ x.fee \in Nat /\ x.cost \in Nat
    BY <1>3, <1>4
  <1> QED BY <1>1, <1>3, <1>5 DEF ExecutionFits

LEMMA ExecutedFits ==
    ASSUME NEW c, CaseFits(c), c.order.quantity <= c.config.maxContracts,
           NEW rests \in BOOLEAN, NEW available, NEW least, NEW ceiling,
           OfferFor(c, rests, available, least, ceiling),
           NEW f, Takes(f, available, least, ceiling, c.config.maxCapital)
    PROVE  ExecutionFits(Executed(c.order, IF rests THEN "maker" ELSE "taker", f, c.config), c)
  <1>1. PICK role : role = IF rests THEN "maker" ELSE "taker" OBVIOUS
  <1>2. PICK x : x = Executed(c.order, role, f, c.config) OBVIOUS
  <1>3. CASE f.filled = 0
    <2>1. x = Unfilled(c.order, "no_fill", "price_or_capital_limit_prevented_fill")
      BY <1>2, <1>3 DEF Executed
    <2>2. ExecutionFits(x, c) BY <2>1, UnfilledFits
    <2> QED BY <1>1, <1>2, <2>2
  <1>4. CASE f.filled # 0
    <2>1. x = [state |-> IF f.filled = c.order.quantity THEN "filled" ELSE "partial_fill",
               reason |-> "", side |-> c.order.side, role |-> role,
               requested |-> c.order.quantity, filled |-> f.filled, cost |-> f.cost,
               fee |-> kalshi_fee_cents(f.cost, f.filled, role, c.config),
               slippage |-> f.cost - c.order.intended * f.filled]
      BY <1>2, <1>4, Zenon DEF Executed
    <2>2. /\ x.state = IF f.filled = c.order.quantity THEN "filled" ELSE "partial_fill"
          /\ x.role = role /\ x.filled = f.filled /\ x.cost = f.cost
          /\ x.fee = kalshi_fee_cents(f.cost, f.filled, role, c.config)
          /\ {"state", "side", "role", "filled", "cost", "fee"} \subseteq DOMAIN x
          /\ "net" \notin DOMAIN x
      BY <2>1
    <2>3. /\ FillFits(x, c) /\ x.cost \in Nat /\ x.filled \in 0..c.order.quantity
          /\ x.cost <= 100 * x.filled
      BY <1>1, <1>4, <2>2, TakenFits
    <2>4. x.fee \in Nat
      <3>1. x.filled \in Nat BY <2>3, OrderIs
      <3>2. c.config.takerRate \in Nat /\ c.config.makerRate \in Nat BY OrderIs
      <3>3. kalshi_fee_cents(x.cost, x.filled, role, c.config) \in Nat BY <2>3, <3>1, <3>2, FeeIs
      <3> QED BY <2>2, <3>3
    <2>5. x.state \in {"partial_fill", "filled"} /\ x.filled # 0 BY <1>4, <2>2
    <2>6. ExecutionFits(x, c) BY <2>2, <2>3, <2>4, <2>5, Zenon DEF ExecutionFits
    <2> QED BY <1>1, <1>2, <2>6
  <1> QED BY <1>3, <1>4

\* The price bounds of a case: no higher than the highest price and the limit.
LEMMA CeilingIs ==
    ASSUME NEW c, CaseFits(c), NEW best \in 0..100
    PROVE  /\ PriceCeiling(c.order, best, c.config) \in Nat
           /\ PriceCeiling(c.order, best, c.config) <= c.config.maxPrice
           /\ c.order.type = "limit" => PriceCeiling(c.order, best, c.config) <= c.order.limit
  <1>1. /\ c.order.type \in {"market", "limit"}
        /\ c.order.type = "limit" => c.order.limit \in 0..100
        /\ c.config.slippage \in Nat /\ c.config.move \in Nat /\ c.config.maxPrice \in 0..100
    BY OrderIs
  <1>2. \A a, b \in Nat : Least(a, b) \in Nat /\ Least(a, b) <= a /\ Least(a, b) <= b BY DEF Least
  <1>3. PICK top \in Nat : top = c.config.maxPrice BY <1>1
  <1>4. CASE c.order.type = "market"
    <2>1. PICK b \in Nat : b = best + c.config.slippage + c.config.move BY <1>1
    <2>2. PriceCeiling(c.order, best, c.config) = Least(top, b) BY <1>3, <1>4, <2>1 DEF PriceCeiling
    <2> QED BY <1>2, <1>3, <1>4, <2>2
  <1>5. CASE c.order.type = "limit"
    <2>1. PICK b \in Nat : b = c.order.limit BY <1>1, <1>5
    <2>2. PriceCeiling(c.order, best, c.config) = Least(top, b) BY <1>3, <1>5, <2>1 DEF PriceCeiling
    <2> QED BY <1>2, <1>3, <2>1, <2>2
  <1> QED BY <1>1, <1>4, <1>5

LEMMA MakerFits ==
    ASSUME NEW c, CaseFits(c), c.order.quantity <= c.config.maxContracts,
           NEW best \in 0..100, Rests(c.order, best)
    PROVE  ExecutionFits(SimulateMaker(c.order, Least(c.order.quantity, c.order.resting),
                                       PriceCeiling(c.order, best, c.config), c.config), c)
  <1>1. PICK available : available = Least(c.order.quantity, c.order.resting) OBVIOUS
  <1>2. PICK ceiling : ceiling = PriceCeiling(c.order, best, c.config) OBVIOUS
  <1>3. PICK limit : limit = c.order.limit OBVIOUS
  <1>4. /\ c.order.quantity \in Nat \ {0} /\ c.order.resting \in Nat
        /\ c.order.type = "limit" => limit \in 0..100
        /\ c.config.maxCapital \in Nat \ {0}
    BY <1>3, OrderIs
  <1>5. limit \in 0..100 BY <1>4 DEF Rests
  <1>6. /\ available \in Nat /\ available <= c.order.quantity /\ available <= c.order.resting
    BY <1>1, <1>4 DEF Least
  <1>7. /\ ceiling \in Nat /\ ceiling <= c.config.maxPrice
        /\ c.order.type = "limit" => ceiling <= c.order.limit
    BY <1>2, CeilingIs
  <1>8. OfferFor(c, TRUE, available, limit, ceiling)
    <2>1. limit \in Nat BY <1>5
    <2> QED BY <1>6, <1>7, <2>1 DEF OfferFor
  <1>9. PICK one : one = [price |-> limit, quantity |-> available] OBVIOUS
  <1>10. LevelsFit(<<one>>, limit, 0)
    <2>1. one.price = limit /\ one.quantity = available BY <1>9
    <2>2. one.price \in Nat /\ one.quantity \in Nat /\ limit <= one.price + 0 BY <1>5, <1>6, <2>1
    <2>3. <<one>> = [i \in 1..1 |-> one] /\ Len(<<one>>) = 1 OBVIOUS
    <2>4. IsList(<<one>>) /\ \A i \in 1..Len(<<one>>) : <<one>>[i] = one BY <2>3 DEF IsList
    <2> QED BY <2>2, <2>4 DEF LevelsFit
  <1>11. PICK book : book = <<one>> OBVIOUS
  <1>12. PICK f : f = Fill(book, available, ceiling, 0, c.config.maxCapital) OBVIOUS
  <1>13. Takes(f, available, limit, ceiling, c.config.maxCapital)
    <2>1. limit \in Nat /\ c.config.maxCapital \in Nat /\ 0 \in Nat BY <1>4, <1>5
    <2>2. LevelsFit(book, limit, 0) BY <1>10, <1>11
    <2> QED BY <1>6, <1>7, <1>12, <2>1, <2>2, FillIs
  <1>14. ExecutionFits(Executed(c.order, "maker", f, c.config), c)
    <2>1. ExecutionFits(Executed(c.order, IF TRUE THEN "maker" ELSE "taker", f, c.config), c)
      BY <1>8, <1>13, ExecutedFits
    <2> QED BY <2>1
  <1>15. PICK x : x = SimulateMaker(c.order, available, ceiling, c.config) OBVIOUS
  <1>16. CASE available = 0
    <2>1. x = Unfilled(c.order, "no_fill", "resting_limit_not_filled")
      BY <1>15, <1>16 DEF SimulateMaker
    <2>2. ExecutionFits(x, c) BY <2>1, UnfilledFits
    <2> QED BY <1>1, <1>2, <1>15, <2>2
  <1>17. CASE available # 0
    <2>1. x = Executed(c.order, "maker", f, c.config)
      BY <1>3, <1>9, <1>11, <1>12, <1>15, <1>17, Zenon DEF SimulateMaker
    <2> QED BY <1>1, <1>2, <1>14, <1>15, <2>1
  <1> QED BY <1>16, <1>17

LEMMA TakerFits ==
    ASSUME NEW c, CaseFits(c), c.order.quantity <= c.config.maxContracts,
           NEW levels, levels = AskLevels(c.snapshot, c.order.side), BookFits(levels),
           levels[1].price \in 0..100
    PROVE  ExecutionFits(SimulateTaker(c.order, levels,
                                       PriceCeiling(c.order, levels[1].price, c.config), c.config), c)
  <1>1. PICK best \in 0..100 : best = levels[1].price OBVIOUS
  <1>2. PICK ceiling : ceiling = PriceCeiling(c.order, best, c.config) OBVIOUS
  <1>3. /\ ceiling \in Nat /\ ceiling <= c.config.maxPrice
        /\ c.order.type = "limit" => ceiling <= c.order.limit
    BY <1>2, CeilingIs
  <1>4. /\ c.order.quantity \in Nat \ {0} /\ c.config.move \in Nat /\ c.config.maxCapital \in Nat \ {0}
    BY OrderIs
  <1>5. PICK available \in Nat, move \in Nat, least \in Nat, capital \in Nat :
           /\ available = c.order.quantity /\ move = c.config.move /\ least = best + move
           /\ capital = c.config.maxCapital
    BY <1>4
  <1>6. OfferFor(c, FALSE, available, least, ceiling)
    <2>1. AskLevels(c.snapshot, c.order.side)[1].price = best BY <1>1
    <2>2. least = AskLevels(c.snapshot, c.order.side)[1].price + c.config.move BY <1>5, <2>1
    <2>3. available <= c.order.quantity BY <1>5
    <2> QED BY <1>3, <2>2, <2>3, Zenon DEF OfferFor
  <1>7. LevelsFit(levels, least, move)
    <2>1. IsList(levels) /\ \A i \in 1..Len(levels) :
             levels[i].price \in 0..100 /\ levels[i].quantity \in Nat /\ best <= levels[i].price
      BY <1>1 DEF BookFits
    <2>2. \A p \in 0..100 : best <= p => p \in Nat /\ least <= p + move BY <1>5
    <2>3. \A i \in 1..Len(levels) :
             levels[i].price \in Nat /\ levels[i].quantity \in Nat /\ least <= levels[i].price + move
      BY <2>1, <2>2, Zenon
    <2> QED BY <2>1, <2>3 DEF LevelsFit
  <1>8. PICK f : f = Fill(levels, available, ceiling, move, capital) OBVIOUS
  <1>9. Takes(f, available, least, ceiling, c.config.maxCapital)
    BY <1>3, <1>5, <1>7, <1>8, FillIs
  <1>10. ExecutionFits(Executed(c.order, "taker", f, c.config), c)
    <2>1. ExecutionFits(Executed(c.order, IF FALSE THEN "maker" ELSE "taker", f, c.config), c)
      BY <1>6, <1>9, ExecutedFits
    <2> QED BY <2>1
  <1>11. SimulateTaker(c.order, levels, ceiling, c.config) = Executed(c.order, "taker", f, c.config)
    BY <1>5, <1>8, Zenon DEF SimulateTaker
  <1> QED BY <1>1, <1>2, <1>10, <1>11

LEMMA SimulateIs ==
    ASSUME NEW c, CaseFits(c)
    PROVE  ExecutionFits(simulate_order(c.order, c.snapshot, c.config), c)
  <1>1. PICK x : x = simulate_order(c.order, c.snapshot, c.config) OBVIOUS
  <1>2. PICK levels : levels = AskLevels(c.snapshot, c.order.side) OBVIOUS
  <1>3. PICK rejection : rejection = Rejection(c.order, c.snapshot, c.config) OBVIOUS
  <1>4. BookFits(levels)
    <2>1. c.order.side \in {"yes", "no"} BY OrderIs
    <2> QED BY <1>2, <2>1, AsksAre DEF CaseFits
  <1>5. CASE rejection # ""
    <2>1. x = Unfilled(c.order, "rejected", rejection)
      BY <1>1, <1>3, <1>5 DEF simulate_order
    <2> QED BY <1>1, <2>1, UnfilledFits
  <1>6. CASE rejection = ""
    <2>1. x = SimulateOpen(c.order, levels, c.config)
      BY <1>1, <1>2, <1>3, <1>6 DEF simulate_order
    <2>2. c.order.quantity <= c.config.maxContracts
      <3>1. c.order.quantity \in Nat \ {0} /\ c.config.maxContracts \in Nat \ {0} BY OrderIs
      <3>2. ~(c.order.quantity > c.config.maxContracts) BY <1>3, <1>6 DEF Rejection
      <3> QED BY <3>1, <3>2
    <2>3. CASE levels = <<>>
      <3>1. x = Unfilled(c.order, "no_fill", "empty_order_book") BY <2>1, <2>3 DEF SimulateOpen
      <3> QED BY <1>1, <3>1, UnfilledFits
    <2>4. CASE levels # <<>>
      <3>1. IsList(levels) BY <1>4 DEF BookFits
      <3>2. Len(levels) # 0
        <4> SUFFICES ASSUME Len(levels) = 0 PROVE FALSE
          OBVIOUS
        <4>1. levels = [i \in 1..0 |-> levels[i]] BY <3>1 DEF IsList
        <4> QED BY <2>4, <4>1
      <3>3. 1 \in 1..Len(levels) BY <3>1, <3>2 DEF IsList
      <3>4. levels[1].price \in 0..100 BY <1>4, <3>3 DEF BookFits
      <3>5. CASE Rests(c.order, levels[1].price)
        <4>1. x = SimulateMaker(c.order, Least(c.order.quantity, c.order.resting),
                                PriceCeiling(c.order, levels[1].price, c.config), c.config)
          BY <2>1, <2>4, <3>5 DEF SimulateOpen
        <4>2. PICK best \in 0..100 : best = levels[1].price BY <3>4
        <4> QED BY <1>1, <2>2, <3>5, <4>1, <4>2, MakerFits
      <3>6. CASE ~Rests(c.order, levels[1].price)
        <4>1. x = SimulateTaker(c.order, levels,
                                PriceCeiling(c.order, levels[1].price, c.config), c.config)
          BY <2>1, <2>4, <3>6 DEF SimulateOpen
        <4> QED BY <1>1, <1>2, <1>4, <2>2, <3>4, <4>1, TakerFits
      <3> QED BY <3>5, <3>6
    <2> QED BY <2>3, <2>4
  <1> QED BY <1>5, <1>6

\* What is paid out is accounted for, and nothing of the fill changes.
LEMMA SettledFits ==
    ASSUME NEW c, CaseFits(c), NEW x, ExecutionFits(x, c), "net" \notin DOMAIN x, NEW winner
    PROVE  ExecutionFits(settle_execution(x, winner), c)
  <1> DEFINE gross == IF x.filled = 0 THEN 0 ELSE Payout(x, winner) - x.cost
             net == IF x.filled = 0 THEN 0 ELSE gross - x.fee
  <1>1. PICK new : new = [gross |-> gross, net |-> net] OBVIOUS
  <1>2. PICK y : y = settle_execution(x, winner) OBVIOUS
  <1>3. y = Over(new, x) BY <1>1, <1>2 DEF settle_execution
  <1>4. DOMAIN new = {"gross", "net"} /\ new.net = net BY <1>1
  <1>5. y = [k \in DOMAIN new \cup DOMAIN x |-> IF k \in DOMAIN new THEN new[k] ELSE x[k]]
    BY <1>3 DEF Over
  <1>6. {"state", "side", "role", "filled", "cost", "fee"} \subseteq DOMAIN x BY DEF ExecutionFits
  <1> HIDE DEF net, gross
  <1>7. /\ y.state = x.state /\ y.role = x.role /\ y.filled = x.filled /\ y.cost = x.cost
        /\ y.fee = x.fee /\ y.net = net
        /\ {"state", "side", "role", "filled", "cost", "fee"} \subseteq DOMAIN y
    BY <1>4, <1>5, <1>6
  <1>8. /\ x.state \in {"rejected", "no_fill", "partial_fill", "filled"}
        /\ x.filled \in 0..c.order.quantity /\ x.fee \in Nat /\ x.cost \in Nat
        /\ x.cost <= 100 * x.filled
        /\ x.state \in {"filled", "partial_fill"} <=> x.filled # 0
        /\ x.filled # 0 => FillFits(x, c)
    BY Zenon DEF ExecutionFits
  <1>9. x.filled # 0 => FillFits(y, c) /\ AccountsFor(y)
    <2> SUFFICES ASSUME x.filled # 0 PROVE FillFits(y, c) /\ AccountsFor(y)
      OBVIOUS
    <2>1. FillFits(y, c) BY <1>7, <1>8, Zenon DEF FillFits
    <2>2. PICK cost \in Nat, n \in Nat, fee \in Nat : cost = x.cost /\ n = x.filled /\ fee = x.fee
      <3>1. c.order.quantity \in Nat \ {0} BY OrderIs
      <3> QED BY <1>8, <3>1
    <2>3. cost <= 100 * n BY <1>8, <2>2
    <2>4. PICK paid : paid = Payout(x, winner) OBVIOUS
    <2>5. paid \in {0, 100 * n, cost} BY <2>2, <2>4 DEF Payout
    <2>6. net = paid - cost - fee BY <2>2, <2>4 DEF net, gross
    <2>7. paid \in Int /\ paid <= 100 * n BY <2>3, <2>5
    <2>8. cost + net + fee = paid /\ net <= 100 * n - cost BY <2>6, <2>7
    <2>9. /\ y.cost + y.net + y.fee = paid /\ y.net <= 100 * y.filled - y.cost
          /\ paid \in {0, 100 * y.filled, y.cost}
      BY <1>7, <2>2, <2>5, <2>8
    <2>10. AccountsFor(y) BY <2>9 DEF AccountsFor
    <2> QED BY <2>1, <2>10
  <1>10. ExecutionFits(y, c) BY <1>7, <1>8, <1>9, Zenon DEF ExecutionFits
  <1> QED BY <1>2, <1>10

LEMMA OrdersStart == ASSUME osInit PROVE OrdersInv
  BY DEF osInit, OrdersInv

LEMMA OrdersKeep == ASSUME OrdersInv, osNext \/ UNCHANGED osVars PROVE OrdersInv'
  <1>1. CASE UNCHANGED osVars
    BY <1>1, Zenon DEF osVars, OrdersInv
  <1>2. ASSUME NEW order \in PaperOrders, NEW snapshot \in OrderBooks, NEW config \in OrderConfigs,
               ChooseOrder(order, snapshot, config)
        PROVE  OrdersInv'
    <2>1. PICK c : c = [order |-> order, snapshot |-> snapshot, config |-> config] OBVIOUS
    <2>2. osCase = NoCase /\ osCase' = c /\ osResult' = osResult /\ Validates(order)
      BY <1>2, <2>1 DEF ChooseOrder
    <2>3. CaseFits(c) BY <2>1, <2>2 DEF CaseFits
    <2>4. ~CaseFits(NoCase) BY DEF NoCase, CaseFits
    <2>5. osResult = NoExecution BY <2>2, <2>4 DEF OrdersInv
    <2> QED BY <2>2, <2>3, <2>5 DEF OrdersInv
  <1>3. CASE SimulateOrder
    <2>1. CaseFits(osCase) BY <1>3 DEF SimulateOrder, OrdersInv
    <2>2. /\ osResult' = simulate_order(osCase.order, osCase.snapshot, osCase.config)
          /\ osCase' = osCase
      BY <1>3 DEF SimulateOrder
    <2>3. ExecutionFits(osResult', osCase) BY <2>1, <2>2, SimulateIs
    <2> QED BY <2>1, <2>2, <2>3 DEF OrdersInv
  <1>4. ASSUME NEW winner, SettleOrder(winner) PROVE OrdersInv'
    <2>1. osResult # NoExecution /\ "net" \notin DOMAIN osResult
          /\ osResult' = settle_execution(osResult, winner) /\ osCase' = osCase
      BY <1>4 DEF SettleOrder
    <2>2. CaseFits(osCase) /\ ExecutionFits(osResult, osCase) BY <2>1 DEF OrdersInv
    <2>3. ExecutionFits(osResult', osCase) BY <2>1, <2>2, SettledFits
    <2> QED BY <2>1, <2>2, <2>3 DEF OrdersInv
  <1> QED BY <1>1, <1>2, <1>3, <1>4 DEF osNext

LEMMA OrderPropertiesFollow == ASSUME OrdersInv PROVE osTypeOK /\ FillIsAffordable
  <1>1. CASE osResult = NoExecution
    <2>1. osResult.state = "none" BY <1>1 DEF NoExecution
    <2> QED BY <1>1, <2>1 DEF osTypeOK, FillIsAffordable
  <1>2. CASE osResult # NoExecution
    <2>1. ExecutionFits(osResult, osCase) BY <1>2 DEF OrdersInv
    <2>2. osTypeOK BY <2>1 DEF ExecutionFits, osTypeOK
    <2>3. ASSUME osResult.state \in {"filled", "partial_fill"}
          PROVE  FillFits(osResult, osCase) /\ ("net" \in DOMAIN osResult => AccountsFor(osResult))
      BY <2>1, <2>3, Zenon DEF ExecutionFits
    <2>4. FillIsAffordable BY <2>3, Zenon DEF FillIsAffordable, FillFits, AccountsFor
    <2> QED BY <2>2, <2>4
  <1> QED BY <1>1, <1>2

-----------------------------------------------------------------------------
(* RatingWalk: what a forecast was made from. *)

TakesFrom(some, seq, P) ==
    /\ IsList(some)
    /\ \E k \in [1..Len(some) -> P] :
          /\ \A i \in 1..Len(some) : some[i] = seq[k[i]]
          /\ \A i, j \in 1..Len(some) : i < j => k[i] < k[j]
    /\ \A p \in P : \E i \in 1..Len(some) : some[i] = seq[p]

\* The elements at some positions keep their order.
LEMMA AtIs ==
    ASSUME NEW seq, IsList(seq), NEW P \in SUBSET (1..Len(seq))
    PROVE  TakesFrom(At(seq, P), seq, P)
  <1>1. PICK before : before = {p \in P \X P : p[1] < p[2]} OBVIOUS
  <1>2. \A x, y \in P : <<x, y>> \in before <=> x < y BY <1>1
  <1>3. Len(seq) \in Nat /\ \A x \in P : x \in Nat BY DEF IsList
  <1>4. IsFiniteSet(P)
    <2>1. IsFiniteSet(1..Len(seq)) BY <1>3, FS_Interval
    <2> QED BY <2>1, FS_Subset
  <1>5. PICK order : order = Listed(P, before) OBVIOUS
  <1>6. PICK n : n = Cardinality(P) OBVIOUS
  <1>7. /\ n \in Nat /\ order \in [1..n -> P]
        /\ \A i, j \in 1..n : i < j => <<order[i], order[j]>> \in before
        /\ \A x \in P : \E i \in 1..n : order[i] = x
    <2>1. \A x \in P : <<x, x>> \notin before BY <1>2, <1>3
    <2>2. \A x, y \in P : x # y => <<x, y>> \in before \/ <<y, x>> \in before BY <1>2, <1>3
    <2>3. \A x, y, z \in P : <<x, y>> \in before /\ <<y, z>> \in before => <<x, z>> \in before
      BY <1>2, <1>3
    <2>4. ListsAll(order, P, before) BY <1>4, <1>5, <2>1, <2>2, <2>3, ListedIs DEF Orders
    <2> QED BY <1>6, <2>4 DEF ListsAll
  <1>8. PICK some : some = At(seq, P) OBVIOUS
  <1>9. some = [i \in DOMAIN order |-> seq[order[i]]] BY <1>1, <1>5, <1>8 DEF At
  <1>10. some = [i \in 1..n |-> seq[order[i]]] BY <1>7, <1>9
  <1>11. Len(some) = n BY <1>7, <1>10
  <1>12. IsList(some) BY <1>7, <1>10, <1>11 DEF IsList
  <1>13. order \in [1..Len(some) -> P] BY <1>7, <1>11
  <1>14. \A i \in 1..Len(some) : some[i] = seq[order[i]] BY <1>10, <1>11
  <1>15. \A i, j \in 1..Len(some) : i < j => order[i] < order[j]
    BY <1>2, <1>7, <1>11
  <1>16. \A p \in P : \E i \in 1..Len(some) : some[i] = seq[p] BY <1>7, <1>11, <1>14
  <1> QED BY <1>8, <1>12, <1>13, <1>14, <1>15, <1>16 DEF TakesFrom

Joins(c, a, b) ==
    /\ IsList(c) /\ Len(c) = Len(a) + Len(b)
    /\ \A i \in 1..Len(a) : c[i] = a[i]
    /\ \A i \in 1..Len(b) : c[Len(a) + i] = b[i]

LEMMA ListsJoin ==
    ASSUME NEW a, NEW b, IsList(a), IsList(b) PROVE Joins(a \o b, a, b)
  <1>1. PICK S : S = {a[i] : i \in 1..Len(a)} \cup {b[i] : i \in 1..Len(b)} OBVIOUS
  <1>2. a \in Seq(S)
    <2>1. \A i \in 1..Len(a) : a[i] \in S BY <1>1
    <2>2. a \in [1..Len(a) -> S] BY <2>1 DEF IsList
    <2> QED BY <2>2 DEF IsList
  <1>3. b \in Seq(S)
    <2>1. \A i \in 1..Len(b) : b[i] \in S BY <1>1
    <2>2. b \in [1..Len(b) -> S] BY <2>1 DEF IsList
    <2> QED BY <2>2 DEF IsList
  <1>4. Len(a) \in Nat /\ Len(b) \in Nat BY DEF IsList
  <1>5. a \o b \in Seq(S) /\ Len(a \o b) = Len(a) + Len(b) BY <1>2, <1>3
  <1>6. IsList(a \o b)
    <2>1. PICK c : c = a \o b OBVIOUS
    <2>2. c \in Seq(S) BY <1>5, <2>1
    <2>3. Len(c) \in Nat /\ c = [i \in 1..Len(c) |-> c[i]] BY <2>2
    <2> QED BY <2>1, <2>3 DEF IsList
  <1>7. \A i \in 1..Len(a) : (a \o b)[i] = a[i] BY <1>2, <1>3
  <1>8. \A i \in 1..Len(b) : (a \o b)[Len(a) + i] = b[i] BY <1>2, <1>3, <1>4
  <1> QED BY <1>5, <1>6, <1>7, <1>8 DEF Joins

\* A game is in one row of the log only, and a start is a time.
GamesFit(games) ==
    /\ games \subseteq RatingRows /\ IsFiniteSet(games)
    /\ \A g, h \in games : g.event = h.event => g = h
    /\ \A g \in games : g.start \in Nat /\ g.start # 0 /\ g.event \in Nat

LeftFits(left, games) ==
    /\ left \in Seq(games)
    /\ \A i, j \in DOMAIN left : i < j => left[i].start <= left[j].start

\* The games that started before every one that is left.
Behind(games, left) == {g \in games : \A i \in DOMAIN left : g.start < left[i].start}
Preceding(games, game) == {g \in games : g.start < game.start}

LearntFrom(ratings, S) ==
    /\ \A t \in DOMAIN ratings.moved : ratings.moved[t] \subseteq S
    /\ ratings.decided \subseteq S

RowsAreBlind(rows, games) ==
    /\ IsList(rows)
    /\ \A i \in 1..Len(rows) :
          rows[i].game \in games
          /\ rows[i].sources \cup rows[i].base \subseteq Preceding(games, rows[i].game)
    /\ \A i, j \in 1..Len(rows) : i < j => rows[i].game.start <= rows[j].game.start

RatingReport(r) ==
    r = [at |-> r.at, games |-> r.games, market |-> r.market, closes |-> r.closes,
         left |-> r.left, ratings |-> r.ratings, rows |-> r.rows]

RatingsInv ==
    /\ rwLog \in SUBSET RatingRows /\ IsFiniteSet(rwLog)
    /\ rwReport.at \in {"idle", "loaded", "walking", "blended", "graded"}
    /\ rwReport.at \in {"loaded", "walking", "blended"} => GamesFit(rwReport.games)
    /\ rwReport.at = "walking" =>
          /\ RatingReport(rwReport)
          /\ LeftFits(rwReport.left, rwReport.games)
          /\ LearntFrom(rwReport.ratings, Behind(rwReport.games, rwReport.left))
          /\ \A i \in 1..Len(rwReport.rows), k \in DOMAIN rwReport.left :
                rwReport.rows[i].game.start < rwReport.left[k].start
    /\ rwReport.at \in {"walking", "blended"} => RowsAreBlind(rwReport.rows, rwReport.games)
    /\ rwReport.at = "blended" =>
          \A b \in rwReport.blend : \A t \in b.trained :
             t.game.period # b.row.game.period /\ t.game.start <= b.row.game.start

LEMMA RatingsStart == ASSUME rwInit PROVE RatingsInv
  <1>1. rwLog = {} /\ rwReport.at = "idle" BY DEF rwInit, NoRatingReport
  <1> QED BY <1>1, FS_EmptySet DEF RatingsInv

LEMMA SettleRowKeeps ==
    ASSUME RatingsInv, NEW r \in RatingRows, SettleRow(r) PROVE RatingsInv'
  <1>1. rwLog' = rwLog \cup {r} /\ rwReport' = rwReport BY DEF SettleRow
  <1>2. rwLog' \in SUBSET RatingRows BY <1>1 DEF RatingsInv
  <1>3. IsFiniteSet(rwLog')
    <2>1. IsFiniteSet(rwLog) BY DEF RatingsInv
    <2>2. IsFiniteSet(rwLog \cup {r}) BY <2>1, FS_AddElement
    <2> QED BY <1>1, <2>2
  <1>4. rwReport'.at \in {"idle", "loaded"} BY <1>1 DEF SettleRow
  <1>5. rwReport'.at = "loaded" => GamesFit(rwReport'.games) BY <1>1 DEF RatingsInv
  <1> QED BY <1>2, <1>3, <1>4, <1>5 DEF RatingsInv

LEMMA LoadGamesKeeps ==
    ASSUME RatingsInv, LoadGames PROVE RatingsInv'
  <1>1. PICK games : games = LoadedGames(rwLog) OBVIOUS
  <1>2. /\ rwReport' = [at |-> "loaded", games |-> games] /\ rwLog' = rwLog
    BY <1>1 DEF LoadGames
  <1>3. games \in SUBSET rwLog BY <1>1 DEF LoadedGames
  <1>4. rwLog \in SUBSET RatingRows /\ IsFiniteSet(rwLog) BY DEF RatingsInv
  <1>5. IsFiniteSet(games) BY <1>3, <1>4, FS_Subset
  <1>6. ASSUME NEW g \in games PROVE g.start \in Nat /\ g.start # 0 /\ g.event \in Nat
    <2>1. g \in RatingRows BY <1>3, <1>4
    <2>2. g.start # 0 BY <1>1 DEF LoadedGames
    <2> QED BY <2>1, <2>2, RatingAssumption
  <1>7. ASSUME NEW g \in games, NEW h \in games, g.event = h.event PROVE g = h
    <2>1. g \in RatingRows /\ h \in RatingRows /\ g \in rwLog /\ h \in rwLog BY <1>3, <1>4
    <2>2. PICK scores : scores = ScoresOf(rwLog, g.event) OBVIOUS
    <2>3. Cardinality(scores) = 1 BY <1>1, <2>2 DEF LoadedGames
    <2>4. g.score \in scores /\ h.score \in scores BY <1>7, <2>1, <2>2 DEF ScoresOf
    <2>5. IsFiniteSet(scores)
      <3>1. PICK f : f = [x \in rwLog |-> x.score] OBVIOUS
      <3>2. PICK T : T = {x.score : x \in rwLog} OBVIOUS
      <3>3. f \in Surjection(rwLog, T) BY <3>1, <3>2 DEF Surjection
      <3>4. IsFiniteSet(T) BY <1>4, <3>3, FS_Surjection
      <3>5. scores \in SUBSET T BY <2>2, <3>2 DEF ScoresOf
      <3> QED BY <3>4, <3>5, FS_Subset
    <2>6. PICK v : scores = {v} BY <2>3, <2>5, FS_Singleton
    <2>7. g.score = h.score BY <2>4, <2>6
    <2> QED BY <1>7, <2>1, <2>7, RatingAssumption
  <1>8. GamesFit(games) BY <1>3, <1>4, <1>5, <1>6, <1>7 DEF GamesFit
  <1>9. rwReport'.at = "loaded" /\ rwReport'.games = games BY <1>2
  <1> QED BY <1>2, <1>4, <1>8, <1>9 DEF RatingsInv

\* The games are listed by their start.
LEMMA GamesInOrder ==
    ASSUME NEW games, GamesFit(games)
    PROVE  LeftFits(InOrder(games), games)
  <1>1. PICK before : before = {p \in games \X games : EarlierGame(p[1], p[2])} OBVIOUS
  <1>2. \A x, y \in games : <<x, y>> \in before <=> EarlierGame(x, y) BY <1>1
  <1>3. \A g, h \in games : /\ g.start \in Nat /\ g.event \in Nat
                            /\ g.event = h.event => g = h
    BY DEF GamesFit
  <1>4. Orders(before, games)
    <2>1. \A x \in games : <<x, x>> \notin before BY <1>2, <1>3 DEF EarlierGame
    <2>2. \A x, y \in games : x # y => <<x, y>> \in before \/ <<y, x>> \in before
      BY <1>2, <1>3 DEF EarlierGame
    <2>3. \A x, y, z \in games : <<x, y>> \in before /\ <<y, z>> \in before => <<x, z>> \in before
      BY <1>2, <1>3 DEF EarlierGame
    <2> QED BY <2>1, <2>2, <2>3 DEF Orders
  <1>5. PICK list : list = InOrder(games) OBVIOUS
  <1>6. ListsAll(list, games, before)
    <2>1. IsFiniteSet(games) BY DEF GamesFit
    <2>2. list = Listed(games, before) BY <1>1, <1>5 DEF InOrder
    <2> QED BY <1>4, <2>1, <2>2, ListedIs
  <1>7. PICK n : n = Cardinality(games) OBVIOUS
  <1>8. n \in Nat /\ list \in [1..n -> games] BY <1>6, <1>7 DEF ListsAll
  <1>9. list \in Seq(games) /\ DOMAIN list = 1..n BY <1>8
  <1>10. ASSUME NEW i \in 1..n, NEW j \in 1..n, i < j PROVE list[i].start <= list[j].start
    <2>1. <<list[i], list[j]>> \in before BY <1>6, <1>7, <1>10 DEF ListsAll
    <2>2. list[i] \in games /\ list[j] \in games BY <1>8
    <2>3. EarlierGame(list[i], list[j]) BY <1>2, <2>1, <2>2
    <2>4. list[i].start \in Nat /\ list[j].start \in Nat BY <1>3, <2>2
    <2> QED BY <2>3, <2>4 DEF EarlierGame
  <1> QED BY <1>5, <1>9, <1>10 DEF LeftFits

LEMMA LoadMarketKeeps ==
    ASSUME RatingsInv, NEW closes, LoadMarket(closes) PROVE RatingsInv'
  <1>1. PICK games : games = rwReport.games OBVIOUS
  <1>2. GamesFit(games) BY <1>1 DEF RatingsInv, LoadMarket
  <1>3. PICK left : left = InOrder(games) OBVIOUS
  <1>4. LeftFits(left, games) BY <1>2, <1>3, GamesInOrder
  <1>5. /\ rwReport' = [at |-> "walking", games |-> games,
                        market |-> market_home_probabilities(closes), closes |-> closes,
                        left |-> left, ratings |-> StartRatings, rows |-> <<>>]
        /\ rwLog' = rwLog
    BY <1>1, <1>3 DEF LoadMarket
  <1>6. /\ rwReport'.at = "walking" /\ rwReport'.games = games /\ rwReport'.left = left
        /\ rwReport'.ratings = StartRatings /\ rwReport'.rows = <<>>
    BY <1>5
  <1>7. RatingReport(rwReport')
    <2>1. PICK m : m = market_home_probabilities(closes) OBVIOUS
    <2> QED BY <1>5, <2>1 DEF RatingReport
  <1>8. LearntFrom(StartRatings, Behind(games, left)) BY DEF LearntFrom, StartRatings
  <1>9. RowsAreBlind(<<>>, games) /\ Len(<<>>) = 0 BY DEF RowsAreBlind, IsList
  <1> QED BY <1>2, <1>4, <1>5, <1>6, <1>7, <1>8, <1>9 DEF RatingsInv

LEMMA GreatestNumber ==
    ASSUME NEW n \in Nat, NEW D \in SUBSET (1..n), D # {}
    PROVE  Max(D) \in D /\ \A d \in D : d <= Max(D)
  <1>1. PICK S : S = {n - d : d \in D} OBVIOUS
  <1>2. S \in SUBSET Nat /\ S # {}
    <2>1. \A d \in D : n - d \in Nat OBVIOUS
    <2>2. \A s \in S : s \in Nat BY <1>1, <2>1
    <2> QED BY <1>1, <2>2
  <1>3. PICK s \in S : \A t \in S : s <= t BY <1>2, LeastNumber
  <1>4. PICK d \in D : s = n - d BY <1>1, <1>3
  <1>5. \A e \in D : e <= d
    <2> TAKE e \in D
    <2>1. n - e \in S BY <1>1
    <2>2. n - d <= n - e BY <1>3, <1>4, <2>1
    <2>3. d \in Nat /\ e \in Nat OBVIOUS
    <2> QED BY <2>2, <2>3
  <1>6. \E x \in D : \A y \in D : x >= y
    <2>1. \A y \in D : d >= y BY <1>5
    <2> QED BY <2>1
  <1>7. Max(D) = CHOOSE x \in D : \A y \in D : x >= y BY DEF Max
  <1>8. Max(D) \in D /\ \A y \in D : Max(D) >= y BY <1>6, <1>7
  <1> QED BY <1>8

\* A slate is the first games of the list, of one start time; the games that are left
\* start later.
LEMMA SlateIs ==
    ASSUME NEW games, GamesFit(games), NEW left, LeftFits(left, games), left # <<>>
    PROVE  LET slate == Slate(left)
               n == Len(slate)
               rest == SubSeq(left, n + 1, Len(left))
           IN  /\ n \in 1..Len(left) /\ slate \in Seq(games)
               /\ \A i \in 1..n : slate[i] = left[i] /\ left[i].start = left[1].start
               /\ rest \in Seq(games) /\ Len(rest) = Len(left) - n
               /\ \A i \in 1..Len(rest) : /\ i + n \in 1..Len(left) /\ rest[i] = left[i + n]
                                          /\ left[1].start < left[i + n].start
  <1>1. left \in Seq(games) /\ Len(left) \in Nat /\ Len(left) >= 1 /\ DOMAIN left = 1..Len(left)
    BY DEF LeftFits
  <1>2. \A i \in 1..Len(left) : left[i] \in games BY <1>1
  <1>3. \A i \in 1..Len(left) : left[i].start \in Nat BY <1>2 DEF GamesFit
  <1>4. \A i, j \in 1..Len(left) : i < j => left[i].start <= left[j].start BY <1>1 DEF LeftFits
  <1>5. PICK D : D = {m \in 1..Len(left) : \A i \in 1..m : left[i].start = left[1].start} OBVIOUS
  <1>6. 1 \in D BY <1>1, <1>5
  <1>7. PICK n : n = Max(D) OBVIOUS
  <1>8. n \in D /\ \A d \in D : d <= n
    <2>1. D \in SUBSET (1..Len(left)) /\ D # {} BY <1>5, <1>6
    <2> QED BY <1>1, <1>7, <2>1, GreatestNumber
  <1>9. n \in 1..Len(left) /\ \A i \in 1..n : left[i].start = left[1].start BY <1>5, <1>8
  <1>10. ASSUME NEW k \in 1..Len(left), k > n PROVE left[1].start < left[k].start
    <2>1. n + 1 \in 1..Len(left) /\ n + 1 \notin D BY <1>1, <1>8, <1>9, <1>10
    <2>2. PICK i \in 1..(n + 1) : left[i].start # left[1].start BY <1>5, <2>1
    <2>3. i = n + 1 BY <1>9, <2>2
    <2>4. left[1].start <= left[n + 1].start BY <1>1, <1>4, <1>9, <2>1
    <2>5. left[1].start < left[n + 1].start BY <1>1, <1>3, <2>1, <2>2, <2>3, <2>4
    <2>6. CASE k = n + 1 BY <2>5, <2>6
    <2>7. CASE k # n + 1
      <3>1. n + 1 < k BY <1>9, <1>10, <2>7
      <3>2. left[n + 1].start <= left[k].start BY <1>4, <2>1, <3>1
      <3> QED BY <1>1, <1>3, <2>1, <2>5, <3>2
    <2> QED BY <2>6, <2>7
  <1>11. PICK slate : slate = Slate(left) OBVIOUS
  <1>12. slate = SubSeq(left, 1, n) BY <1>1, <1>5, <1>7, <1>11 DEF Slate
  <1>13. /\ slate \in Seq(games) /\ Len(slate) = n /\ \A i \in 1..n : slate[i] = left[i]
    BY <1>1, <1>9, <1>12
  <1>14. PICK rest : rest = SubSeq(left, n + 1, Len(left)) OBVIOUS
  <1>15. /\ rest \in Seq(games) /\ Len(rest) = Len(left) - n
         /\ \A i \in 1..Len(rest) : rest[i] = left[i + n]
    <2>1. n \in Nat /\ n >= 1 /\ n <= Len(left) BY <1>1, <1>9
    <2>2. CASE n = Len(left)
      <3>1. rest = <<>> BY <1>1, <1>14, <2>1, <2>2
      <3> QED BY <2>1, <2>2, <3>1
    <2>3. CASE n < Len(left)
      <3>1. PICK m : m = n + 1 OBVIOUS
      <3>2. m \in 1..Len(left) BY <1>1, <2>1, <2>3, <3>1
      <3>3. rest = SubSeq(left, m, Len(left)) BY <1>14, <3>1
      <3>4. rest = [i \in 1..(1 + Len(left) - m) |-> left[i + m - 1]] BY <1>1, <3>2, <3>3
      <3>5. 1 + Len(left) - m = Len(left) - n /\ Len(left) - n \in Nat BY <1>1, <2>1, <3>1
      <3>6. rest = [i \in 1..(Len(left) - n) |-> left[i + m - 1]] BY <3>4, <3>5
      <3>7. \A i \in 1..(Len(left) - n) : i + m - 1 = i + n /\ i + n \in 1..Len(left)
        BY <1>1, <2>1, <3>1
      <3>8. \A i \in 1..(Len(left) - n) : rest[i] = left[i + n] /\ rest[i] \in games
        BY <1>2, <3>6, <3>7
      <3>9. rest \in [1..(Len(left) - n) -> games] BY <3>6, <3>8
      <3> QED BY <3>5, <3>8, <3>9
    <2>4. n = Len(left) \/ n < Len(left)
      <3>1. PICK m : m = Len(left) OBVIOUS
      <3>2. m \in Nat /\ n <= m /\ n \in Nat BY <1>1, <2>1, <3>1
      <3>3. n = m \/ n < m BY <3>2
      <3> QED BY <3>1, <3>3
    <2> QED BY <2>2, <2>3, <2>4, Zenon
  <1>16. \A i \in 1..Len(rest) : /\ i + n \in 1..Len(left) /\ rest[i] = left[i + n] /\ i + n > n
    <2> TAKE i \in 1..Len(rest)
    <2>1. i \in Nat /\ n \in Nat /\ i >= 1 /\ i + n <= Len(left) BY <1>1, <1>9, <1>15
    <2> QED BY <1>15, <2>1
  <1>17. \A i \in 1..Len(rest) : left[1].start < left[i + n].start BY <1>10, <1>16
  <1> QED BY <1>9, <1>11, <1>13, <1>14, <1>15, <1>16, <1>17

LEMMA ObserveLearns ==
    ASSUME NEW S, NEW ratings, LearntFrom(ratings, S), NEW g \in S
    PROVE  LearntFrom(Observe(ratings, g), S)
  <1>1. PICK sources : sources = Moved(ratings, g.home) \cup Moved(ratings, g.away) \cup {g} OBVIOUS
  <1>2. \A t : Moved(ratings, t) \subseteq S BY DEF Moved, LearntFrom
  <1>3. sources \subseteq S BY <1>1, <1>2
  <1>4. PICK teams : teams = {g.home, g.away} OBVIOUS
  <1>5. PICK after : after = Observe(ratings, g) OBVIOUS
  <1>6. after.moved = [t \in teams \cup DOMAIN ratings.moved |->
                          IF t \in teams THEN sources ELSE ratings.moved[t]]
    BY <1>1, <1>4, <1>5 DEF Observe
  <1>7. after.decided = ratings.decided \cup (IF g.score = "tie" THEN {} ELSE {g})
    BY <1>5 DEF Observe
  <1>8. \A t \in DOMAIN after.moved : after.moved[t] \subseteq S
    BY <1>3, <1>6 DEF LearntFrom
  <1>9. after.decided \subseteq S BY <1>7 DEF LearntFrom
  <1> QED BY <1>5, <1>8, <1>9 DEF LearntFrom

\* A slate that is observed adds no game but its own.
LEMMA SlateTeaches ==
    ASSUME NEW S, NEW ratings, LearntFrom(ratings, S), NEW slate \in Seq(S)
    PROVE  LearntFrom(Observed(ratings, slate), S)
  <1> DEFINE Is(f, n) == f = [k \in 0..n |-> IF k = 0 THEN ratings ELSE Observe(f[k - 1], slate[k])]
             Some == {n \in Nat : \E f : Is(f, n)}
  <1>1. Len(slate) \in Nat OBVIOUS
  <1>2. 0 \in Some
    <2>1. PICK g : g = [k \in 0..0 |-> ratings] OBVIOUS
    <2>2. g = [k \in 0..0 |-> g[k]] /\ \A k \in 0..0 : k = 0 /\ g[k] = ratings BY <2>1
    <2>3. Is(g, 0) BY <2>2
    <2> QED BY <2>3
  <1>3. ASSUME NEW n \in Nat, n \in Some PROVE n + 1 \in Some
    <2>1. PICK f : Is(f, n) BY <1>3
    <2>2. PICK g : g = [k \in 0..(n + 1) |-> IF k <= n THEN f[k] ELSE Observe(f[n], slate[k])] OBVIOUS
    <2>3. \A k \in 0..(n + 1) : g[k] = IF k = 0 THEN ratings ELSE Observe(g[k - 1], slate[k])
      <3> TAKE k \in 0..(n + 1)
      <3>1. CASE k = 0 BY <2>1, <2>2, <3>1
      <3>2. CASE k # 0 /\ k <= n
        <4>1. g[k] = f[k] /\ g[k - 1] = f[k - 1] /\ k \in 0..n BY <2>2, <3>2
        <4>2. f[k] = Observe(f[k - 1], slate[k]) BY <2>1, <3>2, <4>1
        <4> QED BY <3>2, <4>1, <4>2
      <3>3. CASE k = n + 1
        <4>1. g[k] = Observe(f[n], slate[k]) /\ g[k - 1] = f[n] /\ k # 0 BY <2>2, <3>3
        <4> QED BY <4>1
      <3> QED BY <3>1, <3>2, <3>3
    <2>4. g = [k \in 0..(n + 1) |-> g[k]] BY <2>2
    <2>5. Is(g, n + 1) BY <2>3, <2>4
    <2> HIDE DEF Is
    <2> QED BY <2>5
  <1>4. \E f : Is(f, Len(slate))
    <2>1. Nat \subseteq Some
      <3> HIDE DEF Some
      <3> QED BY <1>2, <1>3, CountingUp
    <2> QED BY <1>1, <2>1
  <1>5. Observed(ratings, slate) = (CHOOSE f : Is(f, Len(slate)))[Len(slate)]
    BY Zenon DEF Observed
  <1>6. PICK f : f = CHOOSE h : Is(h, Len(slate)) OBVIOUS
  <1>7. Is(f, Len(slate))
    <2> HIDE DEF Is
    <2> QED BY <1>4, <1>6
  <1> DEFINE Learnt == {n \in Nat : n <= Len(slate) => LearntFrom(f[n], S)}
  <1>8. 0 \in Learnt
    <2>1. f[0] = ratings BY <1>1, <1>7
    <2> QED BY <2>1
  <1>9. ASSUME NEW n \in Nat, n \in Learnt PROVE n + 1 \in Learnt
    <2> SUFFICES ASSUME n + 1 <= Len(slate) PROVE LearntFrom(f[n + 1], S)
      OBVIOUS
    <2>1. LearntFrom(f[n], S) BY <1>1, <1>9
    <2>2. n + 1 \in 0..Len(slate) /\ n + 1 \in 1..Len(slate) /\ (n + 1) - 1 = n /\ n + 1 # 0 BY <1>1
    <2>3. slate[n + 1] \in S BY <2>2
    <2>4. f[n + 1] = Observe(f[n], slate[n + 1]) BY <1>7, <2>2
    <2> QED BY <2>1, <2>3, <2>4, ObserveLearns
  <1>10. Nat \subseteq Learnt
    <2> HIDE DEF Learnt
    <2> QED BY <1>8, <1>9, CountingUp
  <1>11. LearntFrom(f[Len(slate)], S) BY <1>1, <1>10
  <1> HIDE DEF Is
  <1> QED BY <1>5, <1>6, <1>11

\* Each slate is forecast from the games behind it; then it is behind what is left.
LEMMA WalkSlateKeeps ==
    ASSUME RatingsInv, WalkSlate PROVE RatingsInv'
  <1>1. PICK games : games = rwReport.games OBVIOUS
  <1>2. PICK left : left = rwReport.left OBVIOUS
  <1>3. PICK ratings : ratings = rwReport.ratings OBVIOUS
  <1>4. PICK rows : rows = rwReport.rows OBVIOUS
  <1>5. rwReport.at = "walking" /\ left # <<>> /\ rwLog' = rwLog BY <1>2 DEF WalkSlate
  <1>6. /\ GamesFit(games) /\ LeftFits(left, games) /\ LearntFrom(ratings, Behind(games, left))
        /\ RowsAreBlind(rows, games) /\ RatingReport(rwReport)
        /\ \A i \in 1..Len(rows), k \in DOMAIN left : rows[i].game.start < left[k].start
    BY <1>1, <1>2, <1>3, <1>4, <1>5 DEF RatingsInv
  <1>7. PICK slate : slate = Slate(left) OBVIOUS
  <1>8. PICK n : n = Len(slate) OBVIOUS
  <1>9. PICK rest : rest = SubSeq(left, n + 1, Len(left)) OBVIOUS
  <1>10. /\ n \in 1..Len(left) /\ slate \in Seq(games)
         /\ \A i \in 1..n : slate[i] = left[i] /\ left[i].start = left[1].start
         /\ rest \in Seq(games) /\ Len(rest) = Len(left) - n
         /\ \A i \in 1..Len(rest) : /\ i + n \in 1..Len(left) /\ rest[i] = left[i + n]
                                    /\ left[1].start < left[i + n].start
    BY <1>5, <1>6, <1>7, <1>8, <1>9, SlateIs
  <1>11. /\ left \in Seq(games) /\ DOMAIN left = 1..Len(left) /\ Len(left) \in Nat
         /\ 1 \in 1..Len(left) /\ left[1] \in games /\ left[1].start \in Nat
    <2>1. left \in Seq(games) BY <1>6 DEF LeftFits
    <2>2. Len(left) \in Nat /\ Len(left) >= 1 /\ DOMAIN left = 1..Len(left) BY <1>10, <2>1
    <2>3. left[1] \in games BY <2>1, <2>2
    <2> QED BY <1>6, <2>1, <2>2, <2>3 DEF GamesFit
  <1>12. PICK chosen : chosen = At(slate, {i \in DOMAIN slate : Eligible(ratings, slate[i])}) OBVIOUS
  <1>13. PICK added : added = [i \in DOMAIN chosen |-> Forecast(ratings, chosen[i])] OBVIOUS
  <1>14. PICK learnt : learnt = Observed(ratings, slate) OBVIOUS
  <1>15. rwReport' = [rwReport EXCEPT !.left = rest, !.rows = rows \o added, !.ratings = learnt]
    BY <1>2, <1>3, <1>4, <1>7, <1>8, <1>9, <1>12, <1>13, <1>14 DEF WalkSlate
  <1>16. /\ rwReport'.at = "walking" /\ rwReport'.games = games /\ rwReport'.left = rest
         /\ rwReport'.rows = rows \o added /\ rwReport'.ratings = learnt
         /\ RatingReport(rwReport')
    <2>1. PICK more : more = rows \o added OBVIOUS
    <2>2. PICK old : old = rwReport OBVIOUS
    <2>3. RatingReport(old) /\ old.at = "walking" /\ old.games = games BY <1>1, <1>5, <1>6, <2>2
    <2>4. PICK new : new = [old EXCEPT !.left = rest, !.rows = more, !.ratings = learnt] OBVIOUS
    <2>5. new = [at |-> "walking", games |-> games, market |-> old.market, closes |-> old.closes,
                 left |-> rest, ratings |-> learnt, rows |-> more]
      BY <2>3, <2>4 DEF RatingReport
    <2>6. /\ new.at = "walking" /\ new.games = games /\ new.left = rest /\ new.rows = more
          /\ new.ratings = learnt /\ RatingReport(new)
      BY <2>5 DEF RatingReport
    <2>7. rwReport' = new BY <1>15, <2>1, <2>2, <2>4
    <2> QED BY <2>1, <2>6, <2>7
  <1>17. /\ IsList(chosen)
         /\ \A i \in 1..Len(chosen) : chosen[i] \in games /\ chosen[i].start = left[1].start
    <2>1. PICK P : P = {i \in DOMAIN slate : Eligible(ratings, slate[i])} OBVIOUS
    <2>2. IsList(slate) BY <1>10 DEF IsList
    <2>3. P \in SUBSET (1..Len(slate)) BY <1>10, <2>1
    <2>4. /\ IsList(chosen)
          /\ \E k \in [1..Len(chosen) -> P] : \A i \in 1..Len(chosen) : chosen[i] = slate[k[i]]
      <3>1. TakesFrom(chosen, slate, P) BY <1>12, <2>1, <2>2, <2>3, AtIs
      <3> QED BY <3>1 DEF TakesFrom
    <2>5. PICK k \in [1..Len(chosen) -> P] : \A i \in 1..Len(chosen) : chosen[i] = slate[k[i]]
      BY <2>4
    <2>6. \A i \in 1..n : slate[i] \in games /\ slate[i].start = left[1].start BY <1>8, <1>10
    <2>7. \A i \in 1..Len(chosen) : k[i] \in 1..n BY <1>8, <2>3, <2>5
    <2> QED BY <2>4, <2>5, <2>6, <2>7
  <1>18. /\ IsList(added) /\ Len(added) = Len(chosen)
         /\ \A i \in 1..Len(added) : added[i] = Forecast(ratings, chosen[i])
    <2>1. Len(chosen) \in Nat /\ DOMAIN chosen = 1..Len(chosen) BY <1>17 DEF IsList
    <2>2. added = [i \in 1..Len(chosen) |-> Forecast(ratings, chosen[i])] BY <1>13, <2>1
    <2>3. Len(added) = Len(chosen) BY <2>1, <2>2
    <2>4. \A i \in 1..Len(added) : added[i] = Forecast(ratings, chosen[i]) BY <2>2, <2>3
    <2>5. added = [i \in 1..Len(added) |-> added[i]] BY <2>2, <2>3
    <2> QED BY <2>1, <2>3, <2>4, <2>5 DEF IsList
  <1>19. ASSUME NEW i \in 1..Len(added)
         PROVE  /\ added[i].game \in games /\ added[i].game.start = left[1].start
                /\ added[i].sources \cup added[i].base \subseteq Preceding(games, added[i].game)
    <2>1. PICK g : g = chosen[i] OBVIOUS
    <2>2. g \in games /\ g.start = left[1].start BY <1>17, <1>18, <2>1
    <2>3. /\ added[i].game = g /\ added[i].base = ratings.decided
          /\ added[i].sources = Moved(ratings, g.home) \cup Moved(ratings, g.away)
      <3>1. added[i] = Forecast(ratings, g) BY <1>18, <2>1
      <3>2. PICK m : m = IF g.event \in DOMAIN rwReport.market THEN rwReport.market[g.event] ELSE -1
        OBVIOUS
      <3>3. PICK sources : sources = Moved(ratings, g.home) \cup Moved(ratings, g.away) OBVIOUS
      <3>4. added[i] = [game |-> g, sources |-> sources, base |-> ratings.decided, market |-> m]
        BY <3>1, <3>2, <3>3, Zenon DEF Forecast
      <3> QED BY <3>3, <3>4
    <2>4. Behind(games, left) \subseteq Preceding(games, g) BY <1>11, <2>2 DEF Behind, Preceding
    <2>5. \A t : Moved(ratings, t) \subseteq Behind(games, left) BY <1>6 DEF Moved, LearntFrom
    <2>6. ratings.decided \subseteq Behind(games, left) BY <1>6 DEF LearntFrom
    <2> QED BY <2>2, <2>3, <2>4, <2>5, <2>6
  <1>20. Joins(rows \o added, rows, added) /\ IsList(rows)
    <2>1. IsList(rows) BY <1>6 DEF RowsAreBlind
    <2>2. IsList(added) BY <1>18
    <2> QED BY <2>1, <2>2, ListsJoin
  <1>21. PICK more : more = rows \o added OBVIOUS
  <1>22. Len(rows) \in Nat /\ Len(added) \in Nat /\ Len(more) = Len(rows) + Len(added)
    BY <1>18, <1>20, <1>21 DEF IsList, Joins
  <1>23. ASSUME NEW i \in 1..Len(more)
         PROVE  \/ i \in 1..Len(rows) /\ more[i] = rows[i]
                \/ i > Len(rows) /\ \E k \in 1..Len(added) : more[i] = added[k]
    <2>1. CASE i <= Len(rows) BY <1>20, <1>21, <1>22, <2>1 DEF Joins
    <2>2. CASE i > Len(rows)
      <3>1. PICK k : k = i - Len(rows) OBVIOUS
      <3>2. k \in 1..Len(added) /\ i = Len(rows) + k BY <1>22, <2>2, <3>1
      <3> QED BY <1>20, <1>21, <2>2, <3>2 DEF Joins
    <2>3. i <= Len(rows) \/ i > Len(rows) BY <1>22
    <2> QED BY <2>1, <2>2, <2>3
  <1>24. ASSUME NEW i \in 1..Len(rows)
         PROVE  /\ rows[i].game \in games /\ rows[i].game.start < left[1].start
                /\ rows[i].game.start \in Nat
                /\ rows[i].sources \cup rows[i].base \subseteq Preceding(games, rows[i].game)
    BY <1>6, <1>11 DEF RowsAreBlind, GamesFit
  <1>25. RowsAreBlind(more, games)
    <2>1. ASSUME NEW i \in 1..Len(more)
          PROVE  /\ more[i].game \in games
                 /\ more[i].sources \cup more[i].base \subseteq Preceding(games, more[i].game)
      BY <1>19, <1>23, <1>24
    <2>2. ASSUME NEW i \in 1..Len(more), NEW j \in 1..Len(more), i < j
          PROVE  more[i].game.start <= more[j].game.start
      <3>1. CASE j \in 1..Len(rows) /\ more[j] = rows[j]
        <4>1. i \in 1..Len(rows) BY <1>22, <2>2, <3>1
        <4>2. more[i] = rows[i] BY <1>20, <1>21, <4>1 DEF Joins
        <4>3. rows[i].game.start <= rows[j].game.start BY <1>6, <2>2, <3>1, <4>1 DEF RowsAreBlind
        <4> QED BY <3>1, <4>2, <4>3
      <3>2. CASE \E k \in 1..Len(added) : more[j] = added[k]
        <4>1. more[j].game.start = left[1].start BY <1>19, <3>2
        <4>2. CASE i \in 1..Len(rows) /\ more[i] = rows[i]
          <5>1. rows[i].game.start \in Nat /\ rows[i].game.start < left[1].start BY <1>24, <4>2
          <5> QED BY <1>11, <4>1, <4>2, <5>1
        <4>3. CASE \E k \in 1..Len(added) : more[i] = added[k]
          <5>1. more[i].game.start = left[1].start BY <1>19, <4>3
          <5> QED BY <1>11, <4>1, <5>1
        <4> QED BY <1>23, <4>2, <4>3
      <3> QED BY <1>23, <3>1, <3>2
    <2> QED BY <1>20, <1>21, <2>1, <2>2 DEF RowsAreBlind, Joins
  <1>26. LeftFits(rest, games)
    <2>1. DOMAIN rest = 1..Len(rest) /\ Len(rest) \in Nat /\ n \in Nat BY <1>10, <1>11
    <2>2. ASSUME NEW i \in 1..Len(rest), NEW j \in 1..Len(rest), i < j
          PROVE  rest[i].start <= rest[j].start
      <3>1. i + n \in DOMAIN left /\ j + n \in DOMAIN left /\ i + n < j + n
        BY <1>10, <1>11, <2>1, <2>2
      <3>2. left[i + n].start <= left[j + n].start BY <1>6, <3>1 DEF LeftFits
      <3> QED BY <1>10, <3>2
    <2> QED BY <1>10, <2>1, <2>2 DEF LeftFits
  <1>27. LearntFrom(learnt, Behind(games, rest))
    <2>1. PICK S : S = Behind(games, rest) OBVIOUS
    <2>2. ASSUME NEW g \in games, g.start <= left[1].start PROVE g \in S
      <3>1. ASSUME NEW k \in DOMAIN rest PROVE g.start < rest[k].start
        <4>1. k \in 1..Len(rest) BY <1>10
        <4>2. rest[k] = left[k + n] /\ left[1].start < left[k + n].start /\ k + n \in 1..Len(left)
          BY <1>10, <4>1
        <4>3. left[k + n] \in games BY <1>11, <4>2
        <4>4. g.start \in Nat /\ left[k + n].start \in Nat BY <1>6, <4>3 DEF GamesFit
        <4> QED BY <1>11, <2>2, <4>2, <4>4
      <3> QED BY <2>1, <3>1 DEF Behind
    <2>3. Behind(games, left) \subseteq S
      <3>1. \A g \in Behind(games, left) : g \in games /\ g.start < left[1].start /\ g.start \in Nat
        BY <1>6, <1>11 DEF Behind, GamesFit
      <3>2. \A g \in Behind(games, left) : g.start <= left[1].start BY <1>11, <3>1
      <3> QED BY <2>2, <3>1, <3>2
    <2>4. slate \in Seq(S)
      <3>1. Len(slate) \in Nat /\ slate = [i \in 1..Len(slate) |-> slate[i]] BY <1>10
      <3>2. \A i \in 1..Len(slate) : slate[i] \in S
        <4> TAKE i \in 1..Len(slate)
        <4>1. slate[i] \in games BY <1>10
        <4>2. slate[i].start = left[1].start BY <1>8, <1>10
        <4>3. slate[i].start <= left[1].start BY <1>11, <4>2
        <4> QED BY <2>2, <4>1, <4>3
      <3>3. slate \in [1..Len(slate) -> S] BY <3>1, <3>2
      <3> QED BY <3>1, <3>3
    <2>5. LearntFrom(ratings, S) BY <1>6, <2>3 DEF LearntFrom
    <2> QED BY <1>14, <2>1, <2>4, <2>5, SlateTeaches
  <1>28. ASSUME NEW i \in 1..Len(more), NEW k \in DOMAIN rest
         PROVE  more[i].game.start < rest[k].start
    <2>1. k \in 1..Len(rest) BY <1>10
    <2>2. rest[k] = left[k + n] /\ left[1].start < left[k + n].start /\ k + n \in 1..Len(left)
      BY <1>10, <2>1
    <2>3. left[k + n].start \in Nat BY <1>6, <1>11, <2>2 DEF GamesFit
    <2>4. more[i].game.start \in Nat /\ more[i].game.start <= left[1].start
      <3>1. CASE i \in 1..Len(rows) /\ more[i] = rows[i] BY <1>11, <1>24, <3>1
      <3>2. CASE \E m \in 1..Len(added) : more[i] = added[m] BY <1>11, <1>19, <3>2
      <3> QED BY <1>23, <3>1, <3>2
    <2> QED BY <1>11, <2>2, <2>3, <2>4
  <1>29. /\ rwReport'.rows = more /\ rwLog' \in SUBSET RatingRows /\ IsFiniteSet(rwLog')
    BY <1>5, <1>16, <1>21 DEF RatingsInv
  <1> QED BY <1>6, <1>16, <1>25, <1>26, <1>27, <1>28, <1>29 DEF RatingsInv

\* What a fit is trained on is of an earlier season than what it forecasts.
LEMMA TrainedIsEarlier ==
    ASSUME NEW games, GamesFit(games), NEW rows, IsList(rows),
           \A i \in 1..Len(rows) : rows[i].game \in games,
           \A i, j \in 1..Len(rows) : i < j => rows[i].game.start <= rows[j].game.start,
           NEW i \in 1..Len(rows), NEW t \in Trained(rows, i)
    PROVE  t.game.period # rows[i].game.period /\ t.game.start <= rows[i].game.start
  <1>1. PICK D : D = {j \in 2..i : rows[j].game.period # rows[j - 1].game.period} OBVIOUS
  <1>2. D # {} /\ \E j \in 1..(Max(D) - 1) : t = rows[j]
    <2>1. Trained(rows, i) = IF D = {} THEN {} ELSE {rows[j] : j \in 1..(Max(D) - 1)}
      BY <1>1 DEF Trained
    <2> QED BY <2>1
  <1>3. PICK j \in 1..(Max(D) - 1) : t = rows[j] BY <1>2
  <1>4. PICK c : c = Max(D) OBVIOUS
  <1>5. Len(rows) \in Nat /\ i \in Nat /\ i >= 1 /\ i <= Len(rows) BY DEF IsList
  <1>6. c \in D
    <2>1. D \in SUBSET (1..i) BY <1>1, <1>5
    <2> QED BY <1>2, <1>4, <1>5, <2>1, GreatestNumber
  <1>7. c \in 2..i /\ rows[c].game.period # rows[c - 1].game.period BY <1>1, <1>6
  <1>8. /\ c \in Nat /\ c >= 2 /\ c <= i /\ c - 1 \in 1..Len(rows) /\ c \in 1..Len(rows)
        /\ c - 1 < c /\ j \in 1..Len(rows) /\ j <= c - 1 /\ j < i
    BY <1>3, <1>4, <1>5, <1>7
  <1>9. \A m \in 1..Len(rows) :
           /\ rows[m].game \in RatingRows /\ rows[m].game.start \in Nat
           /\ rows[m].game.start # 0 /\ rows[m].game.period \in Nat
    BY RatingAssumption DEF GamesFit
  <1>10. ASSUME NEW a \in 1..Len(rows), NEW b \in 1..Len(rows), a <= b
         PROVE  rows[a].game.period <= rows[b].game.period
    <2>1. CASE a = b BY <1>9, <2>1
    <2>2. CASE a # b
      <3>1. a < b BY <1>5, <1>10, <2>2
      <3>2. rows[a].game.start <= rows[b].game.start BY <3>1
      <3>3. 0 < rows[a].game.start BY <1>9
      <3> QED BY <1>9, <3>2, <3>3, RatingAssumption
    <2> QED BY <2>1, <2>2
  <1>11. /\ rows[j].game.period <= rows[c - 1].game.period
         /\ rows[c - 1].game.period <= rows[c].game.period
         /\ rows[c].game.period <= rows[i].game.period
    <2>1. rows[j].game.period <= rows[c - 1].game.period BY <1>8, <1>10
    <2>2. rows[c - 1].game.period <= rows[c].game.period BY <1>8, <1>10
    <2>3. rows[c].game.period <= rows[i].game.period BY <1>8, <1>10
    <2> QED BY <2>1, <2>2, <2>3
  <1>12. rows[j].game.period < rows[i].game.period
    <2>1. /\ rows[j].game.period \in Nat /\ rows[c - 1].game.period \in Nat
          /\ rows[c].game.period \in Nat /\ rows[i].game.period \in Nat
      BY <1>8, <1>9
    <2>2. rows[c - 1].game.period # rows[c].game.period BY <1>7
    <2>3. PICK a, b, d, e :
             a = rows[j].game.period /\ b = rows[c - 1].game.period
             /\ d = rows[c].game.period /\ e = rows[i].game.period
      OBVIOUS
    <2>4. a \in Nat /\ b \in Nat /\ d \in Nat /\ e \in Nat /\ b # d BY <2>1, <2>2, <2>3, Zenon
    <2>5. a <= b /\ b <= d /\ d <= e BY <1>11, <2>3, Zenon
    <2>6. a < e BY <2>4, <2>5
    <2> QED BY <2>3, <2>6, Zenon
  <1>13. rows[j].game.start <= rows[i].game.start BY <1>8
  <1>14. rows[j].game.period # rows[i].game.period BY <1>8, <1>9, <1>12
  <1> QED BY <1>3, <1>13, <1>14

LEMMA BlendForecastsKeeps ==
    ASSUME RatingsInv, BlendForecasts PROVE RatingsInv'
  <1>1. PICK games : games = rwReport.games OBVIOUS
  <1>2. PICK rows : rows = rwReport.rows OBVIOUS
  <1>3. PICK priced : priced = PricedRows(rows) OBVIOUS
  <1>4. rwReport.at = "walking" /\ rwLog' = rwLog BY DEF BlendForecasts
  <1>5. GamesFit(games) /\ RowsAreBlind(rows, games) BY <1>1, <1>2, <1>4 DEF RatingsInv
  <1>6. PICK blend : blend = {[row |-> priced[i], trained |-> Trained(priced, i)] :
                              i \in {j \in DOMAIN priced : Fitted(Trained(priced, j))}}
    OBVIOUS
  <1>7. rwReport' = [at |-> "blended", games |-> games, rows |-> rows,
                     closes |-> rwReport.closes, market |-> rwReport.market, blend |-> blend]
    BY <1>1, <1>2, <1>3, <1>6 DEF BlendForecasts
  <1>8. /\ rwReport'.at = "blended" /\ rwReport'.games = games /\ rwReport'.rows = rows
        /\ rwReport'.blend = blend
    BY <1>7
  <1>9. /\ IsList(priced)
        /\ \A i \in 1..Len(priced) : priced[i].game \in games
        /\ \A i, j \in 1..Len(priced) : i < j => priced[i].game.start <= priced[j].game.start
    <2>1. PICK P : P = {i \in DOMAIN rows : rows[i].market >= 0} OBVIOUS
    <2>2. IsList(rows) BY <1>5 DEF RowsAreBlind
    <2>3. P \in SUBSET (1..Len(rows)) BY <2>1, <2>2 DEF IsList
    <2>4. TakesFrom(priced, rows, P)
      <3>1. priced = At(rows, P) BY <1>3, <2>1 DEF PricedRows
      <3> QED BY <2>2, <2>3, <3>1, AtIs
    <2>5. PICK k \in [1..Len(priced) -> P] :
             /\ \A i \in 1..Len(priced) : priced[i] = rows[k[i]]
             /\ \A i, j \in 1..Len(priced) : i < j => k[i] < k[j]
      BY <2>4 DEF TakesFrom
    <2>6. \A i \in 1..Len(priced) : k[i] \in 1..Len(rows) /\ priced[i] = rows[k[i]] BY <2>3, <2>5
    <2>7. \A i \in 1..Len(priced) : priced[i].game \in games BY <1>5, <2>6 DEF RowsAreBlind
    <2>8. ASSUME NEW i \in 1..Len(priced), NEW j \in 1..Len(priced), i < j
          PROVE  priced[i].game.start <= priced[j].game.start
      <3>1. k[i] < k[j] BY <2>5, <2>8
      <3>2. rows[k[i]].game.start <= rows[k[j]].game.start BY <1>5, <2>6, <3>1 DEF RowsAreBlind
      <3> QED BY <2>6, <3>2
    <2>9. IsList(priced) BY <2>4 DEF TakesFrom
    <2> QED BY <2>7, <2>8, <2>9
  <1>10. ASSUME NEW b \in blend, NEW t \in b.trained
         PROVE  t.game.period # b.row.game.period /\ t.game.start <= b.row.game.start
    <2>1. DOMAIN priced = 1..Len(priced) BY <1>9 DEF IsList
    <2>2. PICK i \in 1..Len(priced) : b = [row |-> priced[i], trained |-> Trained(priced, i)]
      BY <1>6, <2>1
    <2>3. b.row = priced[i] /\ t \in Trained(priced, i) BY <2>2
    <2>4. t.game.period # priced[i].game.period /\ t.game.start <= priced[i].game.start
      BY <1>5, <1>9, <2>3, TrainedIsEarlier
    <2> QED BY <2>3, <2>4
  <1>11. rwLog' \in SUBSET RatingRows /\ IsFiniteSet(rwLog') BY <1>4 DEF RatingsInv
  <1> QED BY <1>5, <1>8, <1>10, <1>11 DEF RatingsInv

LEMMA GradeForecastsKeeps ==
    ASSUME RatingsInv, NEW home, NEW close, GradeForecasts(home, close) PROVE RatingsInv'
  <1>1. rwReport'.at = "graded" /\ rwLog' = rwLog BY DEF GradeForecasts
  <1>2. rwLog' \in SUBSET RatingRows /\ IsFiniteSet(rwLog') BY <1>1 DEF RatingsInv
  <1> QED BY <1>1, <1>2 DEF RatingsInv

LEMMA RatingsKeep ==
    ASSUME RatingsInv, rwNext \/ UNCHANGED rwVars PROVE RatingsInv'
  <1>1. ASSUME NEW r \in RatingRows, SettleRow(r) PROVE RatingsInv' BY <1>1, SettleRowKeeps
  <1>2. CASE LoadGames BY <1>2, LoadGamesKeeps
  <1>3. ASSUME NEW closes \in CloseSets, LoadMarket(closes) PROVE RatingsInv'
    BY <1>3, LoadMarketKeeps
  <1>4. CASE WalkSlate BY <1>4, WalkSlateKeeps
  <1>5. CASE BlendForecasts BY <1>5, BlendForecastsKeeps
  <1>6. ASSUME NEW home \in ScoreGaps, NEW close \in ScoreGaps, GradeForecasts(home, close)
        PROVE  RatingsInv'
    BY <1>6, GradeForecastsKeeps
  <1>7. CASE UNCHANGED rwVars
    <2>1. rwLog' = rwLog /\ rwReport' = rwReport BY <1>7 DEF rwVars
    <2> QED BY <2>1 DEF RatingsInv
  <1> QED BY <1>1, <1>2, <1>3, <1>4, <1>5, <1>6, <1>7 DEF rwNext

LEMMA RatingPropertiesFollow == ASSUME RatingsInv PROVE rwTypeOK /\ ForecastsAreBlind
  <1> DEFINE Done == rwReport.at \in {"walking", "blended"}
  <1>1. ASSUME Done
        PROVE  /\ RowsAreBlind(rwReport.rows, rwReport.games) /\ GamesFit(rwReport.games)
               /\ DOMAIN rwReport.rows = 1..Len(rwReport.rows)
    BY <1>1 DEF RatingsInv, RowsAreBlind, IsList
  <1>2. rwTypeOK
    <2>1. ASSUME Done, NEW i \in DOMAIN rwReport.rows
          PROVE  rwReport.rows[i].sources \subseteq rwReport.games
      BY <1>1, <2>1 DEF RowsAreBlind, Preceding
    <2> QED BY <2>1 DEF rwTypeOK, RatingsInv
  <1>3. ASSUME Done, NEW i \in DOMAIN rwReport.rows,
               NEW g \in rwReport.rows[i].sources \cup rwReport.rows[i].base
        PROVE  /\ g.start < rwReport.rows[i].game.start
               /\ \A h \in rwReport.games : h.event = g.event => h.score = g.score
    <2>1. g \in Preceding(rwReport.games, rwReport.rows[i].game) BY <1>1, <1>3 DEF RowsAreBlind
    <2>2. g \in rwReport.games /\ g.start < rwReport.rows[i].game.start BY <2>1 DEF Preceding
    <2>3. \A h \in rwReport.games : h.event = g.event => h = g BY <1>1, <1>3, <2>2 DEF GamesFit
    <2> QED BY <2>2, <2>3
  <1>4. ASSUME Done, NEW i \in DOMAIN rwReport.rows, NEW j \in DOMAIN rwReport.rows, i < j
        PROVE  rwReport.rows[i].game.start <= rwReport.rows[j].game.start
    BY <1>1, <1>4 DEF RowsAreBlind
  <1>5. rwReport.at = "blended" =>
           \A b \in rwReport.blend : \A t \in b.trained :
              t.game.period # b.row.game.period /\ t.game.start <= b.row.game.start
    BY DEF RatingsInv
  <1>6. ForecastsAreBlind
    <2> SUFFICES ASSUME Done
                 PROVE  /\ \A i \in DOMAIN rwReport.rows :
                              \A g \in rwReport.rows[i].sources \cup rwReport.rows[i].base :
                                 /\ g.start < rwReport.rows[i].game.start
                                 /\ \A h \in rwReport.games : h.event = g.event => h.score = g.score
                        /\ \A i, j \in DOMAIN rwReport.rows :
                              i < j => rwReport.rows[i].game.start <= rwReport.rows[j].game.start
      BY <1>5 DEF ForecastsAreBlind
    <2>1. \A i \in DOMAIN rwReport.rows :
             \A g \in rwReport.rows[i].sources \cup rwReport.rows[i].base :
                /\ g.start < rwReport.rows[i].game.start
                /\ \A h \in rwReport.games : h.event = g.event => h.score = g.score
      BY <1>3
    <2>2. \A i, j \in DOMAIN rwReport.rows :
             i < j => rwReport.rows[i].game.start <= rwReport.rows[j].game.start
      BY <1>4
    <2> QED BY <2>1, <2>2
  <1> QED BY <1>2, <1>6
=============================================================================
