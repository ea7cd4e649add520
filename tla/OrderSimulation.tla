--------------------------- MODULE OrderSimulation ---------------------------
(***************************************************************************)
(* evaluation/execution.py: a paper order is simulated against the asks of *)
(* one market snapshot, and the execution is settled by the winning side.  *)
(* Prices are whole cents, fee rates are hundredths of a percent.  An      *)
(* average fill price need not be whole, so that an execution carries its  *)
(* total cost, price times quantity.                                       *)
(***************************************************************************)
EXTENDS Integers, Sequences, SequencesExt, Overlay

CONSTANTS
    PaperOrders,   \* [market, signal, time, side, type, quantity, intended, limit, resting]
    OrderBooks,    \* market snapshots: [market, time, status, close, ask, depth]
    OrderConfigs   \* ExecutionConfig

NoPrice == -1   \* a price the source did not post

\* What the validate methods and PriceLevel.normalized let through: whole cents from 0 to
\* 100, rates and moves that are not negative, and a capital that is positive.
ASSUME OrderAssumption ==
    /\ \A o \in PaperOrders :
          /\ o.side \in {"yes", "no"} /\ o.type \in {"market", "limit"}
          /\ {o.quantity, o.intended, o.resting} \subseteq Int
          /\ o.limit \in 0..100 \cup {NoPrice}
    /\ \A b \in OrderBooks, side \in {"yes", "no"} :
          /\ b.ask[side] \in 0..100 \cup {NoPrice}
          /\ b.depth[side] \in Seq([price : 0..100, quantity : Int])
    /\ \A c \in OrderConfigs :
          /\ {c.takerRate, c.makerRate, c.slippage, c.move} \subseteq Nat
          /\ c.maxPrice \in 0..100
          /\ c.maxContracts \in Nat \ {0} /\ c.maxCapital \in Nat \ {0}

VARIABLES
    osCase,    \* the order, the snapshot and the configuration of the simulation
    osResult   \* its execution
osVars == <<osCase, osResult>>

Open == {"open", "active", "trading"}

Least(a, b) == IF a <= b THEN a ELSE b
Most(a, b) == IF a >= b THEN a ELSE b
\* ROUND_CEILING for a >= 0
CeilDiv(a, b) == (a + b - 1) \div b

\* Those of some levels that offer contracts, cheapest first.
Cheapest(quoted) ==
    LET offered == {i \in DOMAIN quoted : quoted[i].quantity > 0}
        order == Listed(offered, {p \in offered \X offered :
                     \/ quoted[p[1]].price < quoted[p[2]].price
                     \/ quoted[p[1]].price = quoted[p[2]].price /\ p[1] < p[2]})
    IN  [i \in DOMAIN order |-> quoted[order[i]]]

\* The asks of a side; a quote without depth is one contract.
AskLevels(snapshot, side) ==
    Cheapest(IF /\ snapshot.ask[side] # NoPrice
                /\ \A i \in DOMAIN snapshot.depth[side] : snapshot.depth[side][i].quantity <= 0
             THEN <<[price |-> snapshot.ask[side], quantity |-> 1]>>
             ELSE snapshot.depth[side])

\* Anything else raises ValueError before the simulation starts.
Validates(order) ==
    /\ order.quantity > 0
    /\ order.type = "limit" => order.limit # NoPrice
    /\ order.resting >= 0
    /\ order.time >= order.signal

\* rate * quantity * p * (1 - p) in cents, p = cost / (100 * quantity), rounded up
kalshi_fee_cents(cost, quantity, role, config) ==
    IF quantity = 0 THEN 0
    ELSE LET rate == IF role = "taker" THEN config.takerRate ELSE config.makerRate
         IN  CeilDiv(rate * cost * (100 * quantity - cost), 10000 * 100 * quantity)

Unfilled(order, state, reason) ==
    [state |-> state, reason |-> reason, side |-> order.side, role |-> "none",
     requested |-> order.quantity, filled |-> 0, cost |-> 0, fee |-> 0,
     slippage |-> 0]

\* The first reason to reject the order, "" when there is none.
Rejection(order, snapshot, config) ==
    CASE order.market # snapshot.market -> "market_id_mismatch"
      [] snapshot.time > order.time -> "future_execution_snapshot"
      [] snapshot.status \notin Open -> "market_not_open"
      [] snapshot.close # 0 /\ order.time >= snapshot.close -> "market_expired"
      [] order.quantity > config.maxContracts -> "position_limit_exceeded"
      [] OTHER -> ""

\* A limit below the best ask rests in the book and is filled as a maker.
Rests(order, best) == order.type = "limit" /\ order.limit < best

PriceCeiling(order, best, config) ==
    Least(config.maxPrice,
          IF order.type = "market" THEN best + config.slippage + config.move
          ELSE order.limit)

\* A changed Affordable, to show what the properties notice: every level has all the capital.
AffordableAnew(cost, price, wanted, capital) ==
    IF price * wanted <= capital \/ price = 0 THEN wanted ELSE capital \div price

\* How many of the wanted contracts at a price the capital still pays for.
Affordable(cost, price, wanted, capital) ==
    IF cost + price * wanted <= capital \/ price = 0 THEN wanted
    ELSE Most(0, (capital - cost) \div price)

\* One level of the book: f is what has been filled so far.
TakeLevel(f, level, ceiling, move, capital) ==
    LET price == level.price + move
        wanted == Least(f.remaining, level.quantity)
        quantity == Least(wanted, Affordable(f.cost, price, wanted, capital))
    IN  IF f.stopped \/ price > ceiling THEN f
        ELSE IF quantity <= 0 THEN [f EXCEPT !.stopped = TRUE]
        ELSE [cost |-> f.cost + price * quantity, filled |-> f.filled + quantity,
              remaining |-> f.remaining - quantity,
              stopped |-> f.remaining = quantity]

\* What the levels give to an order for quantity contracts, one after the other.
Fill(levels, quantity, ceiling, move, capital) ==
    LET after[n \in 0..Len(levels)] ==
          IF n = 0
          THEN [cost |-> 0, filled |-> 0, remaining |-> quantity, stopped |-> FALSE]
          ELSE TakeLevel(after[n - 1], levels[n], ceiling, move, capital)
    IN  after[Len(levels)]

\* The execution of an order that f was filled of.
Executed(order, role, f, config) ==
    IF f.filled = 0 THEN Unfilled(order, "no_fill", "price_or_capital_limit_prevented_fill")
    ELSE [state |-> IF f.filled = order.quantity THEN "filled" ELSE "partial_fill",
          reason |-> "", side |-> order.side, role |-> role,
          requested |-> order.quantity, filled |-> f.filled, cost |-> f.cost,
          fee |-> kalshi_fee_cents(f.cost, f.filled, role, config),
          slippage |-> f.cost - order.intended * f.filled]

\* A resting order is filled at its limit, as far as the source says.
SimulateMaker(order, available, ceiling, config) ==
    IF available = 0 THEN Unfilled(order, "no_fill", "resting_limit_not_filled")
    ELSE Executed(order, "maker",
                  Fill(<<[price |-> order.limit, quantity |-> available]>>,
                       available, ceiling, 0, config.maxCapital),
                  config)

\* One that does not rest takes from the book.
SimulateTaker(order, levels, ceiling, config) ==
    Executed(order, "taker",
             Fill(levels, order.quantity, ceiling, config.move, config.maxCapital), config)

SimulateOpen(order, levels, config) ==
    IF levels = <<>> THEN Unfilled(order, "no_fill", "empty_order_book")
    ELSE IF Rests(order, levels[1].price)
    THEN SimulateMaker(order, Least(order.quantity, order.resting),
                       PriceCeiling(order, levels[1].price, config), config)
    ELSE SimulateTaker(order, levels, PriceCeiling(order, levels[1].price, config), config)

simulate_order(order, snapshot, config) ==
    IF Rejection(order, snapshot, config) # ""
    THEN Unfilled(order, "rejected", Rejection(order, snapshot, config))
    ELSE SimulateOpen(order, AskLevels(snapshot, order.side), config)

\* A market without a winner ("none") returns the cost.
Payout(execution, winner) ==
    CASE winner = "none" -> execution.cost
      [] winner = execution.side -> 100 * execution.filled
      [] OTHER -> 0

\* gross and net stay 0 for an order that was not filled.
settle_execution(execution, winner) ==
    LET gross == IF execution.filled = 0 THEN 0
                 ELSE Payout(execution, winner) - execution.cost
        net == IF execution.filled = 0 THEN 0 ELSE gross - execution.fee
    IN  Over([gross |-> gross, net |-> net], execution)

NoCase == [order |-> {}]
NoExecution == [state |-> "none"]

osInit == osCase = NoCase /\ osResult = NoExecution

ChooseOrder(order, snapshot, config) ==
    /\ osCase = NoCase
    /\ Validates(order)
    /\ osCase' = [order |-> order, snapshot |-> snapshot, config |-> config]
    /\ UNCHANGED osResult

SimulateOrder ==
    /\ osCase # NoCase /\ osResult = NoExecution
    /\ osResult' = simulate_order(osCase.order, osCase.snapshot, osCase.config)
    /\ UNCHANGED osCase

SettleOrder(winner) ==
    /\ osResult # NoExecution /\ "net" \notin DOMAIN osResult
    /\ osResult' = settle_execution(osResult, winner)
    /\ UNCHANGED osCase

osNext ==
    \/ \E order \in PaperOrders, snapshot \in OrderBooks, config \in OrderConfigs :
          ChooseOrder(order, snapshot, config)
    \/ SimulateOrder
    \/ \E winner \in {"yes", "no", "none"} : SettleOrder(winner)

----------------------------------------------------------------------------
(* Properties *)

osTypeOK ==
    osResult # NoExecution =>
        /\ osResult.state \in {"rejected", "no_fill", "partial_fill", "filled"}
        /\ osResult.filled \in 0..osCase.order.quantity
        /\ osResult.fee \in Nat /\ osResult.cost \in Nat

\* Every way to take contracts from a book, without the order of the loop.
Takings(levels) ==
    {t \in [DOMAIN levels -> 0..3] :
        \A i \in DOMAIN levels : t[i] <= levels[i].quantity}
TakenCost(levels, move, t) ==
    FoldLeftDomain(LAMBDA sum, i : sum + t[i] * (levels[i].price + move), 0, levels)
TakenQuantity(levels, t) ==
    FoldLeftDomain(LAMBDA sum, i : sum + t[i], 0, levels)

\* The takings an order and the configuration allow.
Allowed(levels, quantity, ceiling, move, capital) ==
    {t \in Takings(levels) :
        /\ \A i \in DOMAIN levels : t[i] > 0 => levels[i].price + move <= ceiling
        /\ TakenQuantity(levels, t) <= quantity
        /\ TakenCost(levels, move, t) <= capital}

\* simulate_order: an order that takes from the book gets as many contracts as its
\* quantity, its price and the capital allow, and no cheaper way gets as many.
FillIsBest ==
    osResult.state \in {"filled", "partial_fill"} /\ osResult.role = "taker" =>
        LET order == osCase.order
            levels == AskLevels(osCase.snapshot, order.side)
            config == osCase.config
            allowed == Allowed(levels, order.quantity,
                               PriceCeiling(order, levels[1].price, config),
                               config.move, config.maxCapital)
        IN  /\ \E t \in allowed : /\ TakenQuantity(levels, t) = osResult.filled
                                  /\ TakenCost(levels, config.move, t) = osResult.cost
            /\ \A t \in allowed :
                 \/ TakenQuantity(levels, t) < osResult.filled
                 \/ /\ TakenQuantity(levels, t) = osResult.filled
                    /\ TakenCost(levels, config.move, t) >= osResult.cost

\* simulate_order and settle_execution: whatever the levels, a fill costs no more than the
\* capital and on average no more than the highest price and the limit, a resting order
\* gets no more than rests and one that takes no better than the best ask, and what a
\* settlement returns is accounted for to the cent.
FillIsAffordable ==
    osResult.state \in {"filled", "partial_fill"} =>
        LET order == osCase.order
            config == osCase.config
            best == AskLevels(osCase.snapshot, order.side)[1].price
        IN  /\ osResult.cost <= config.maxCapital
            /\ osResult.filled <= config.maxContracts
            /\ osResult.cost <= config.maxPrice * osResult.filled
            /\ order.type = "limit" => osResult.cost <= order.limit * osResult.filled
            /\ IF osResult.role = "maker"
               THEN osResult.filled <= order.resting
               ELSE osResult.cost >= (best + config.move) * osResult.filled
            /\ "net" \in DOMAIN osResult =>
                 /\ osResult.cost + osResult.net + osResult.fee \in
                        {0, 100 * osResult.filled, osResult.cost}
                 /\ osResult.net <= 100 * osResult.filled - osResult.cost
=============================================================================
